---------------------------- MODULE Cancellation -----------------------------
(***************************************************************************)
(* CancellationToken: a signal, or a signal that also follows constituent  *)
(* tokens (CancellationToken::any), and the futures that wait for one.     *)
(* Nothing polls on a timer, so a wake-up that falls between two steps of  *)
(* two threads would leave a request hanging.  The third kind of token,    *)
(* ExecutionControl::composite, has no signal of its own: engines look at  *)
(* it and nobody follows or awaits it; see EmbedPipeline.                  *)
(*                                                                         *)
(* One thread at most wins the swap of a signal; `work` is what that       *)
(* thread still has to do.  The nested cancel of a dependent runs beside   *)
(* the rest of the loop that called it, which allows more orders than the  *)
(* code has and forbids none.                                              *)
(***************************************************************************)
EXTENDS Integers, FiniteSets

CONSTANTS
    Token,        \* signals
    Constituents, \* the tokens each `any` follows, {} for a plain token
    Waiter,       \* futures in CancellationToken::cancelled
    Subject       \* the token each of them waits for

ASSUME CancellationAssumption ==
    /\ IsFiniteSet(Token)
    /\ Constituents \in [Token -> SUBSET Token]
    /\ Subject \in [Waiter -> Token]

VARIABLES
    cancelled,   \* signals whose flag is set
    waiters,     \* CancellationSignal.waiters of each token
    dependents,  \* CancellationSignal.dependents of each token
    work,        \* progress of the thread that set each flag
    toWake,      \* waiters that thread has drained and not yet woken
    toNotify,    \* dependents that thread has copied and not yet told
    builder,     \* progress of the thread inside `any`
    toRegister,  \* constituents `any` has still to register with
    checking,    \* the constituent whose flag is looked at next
    waiterPc,    \* progress of each poll of `cancelled`
    woken        \* waiters whose waker was called since their last poll

vars == <<cancelled, waiters, dependents, work, toWake, toNotify, builder, toRegister,
          checking, waiterPc, woken>>
signalVars == <<cancelled, work>>
cancelVars == <<signalVars, toWake, toNotify>>
buildVars == <<builder, toRegister, checking>>
waitVars == <<waiterPc, woken>>

Combined == {t \in Token : Constituents[t] # {}}

Init ==
    /\ cancelled = {}
    /\ waiters = [t \in Token |-> {}]
    /\ dependents = [t \in Token |-> {}]
    /\ work = [t \in Token |-> "none"]
    /\ toWake = [t \in Token |-> {}]
    /\ toNotify = [t \in Token |-> {}]
    /\ builder = [t \in Token |-> IF t \in Combined THEN "new" ELSE "built"]
    /\ toRegister = Constituents
    /\ checking = [t \in Token |-> {}]
    /\ waiterPc = [w \in Waiter |-> "start"]
    /\ woken = {}

Built(t) == builder[t] = "built"

\* is_cancelled: the token's own flag, or that of a constituent, recursively;
\* a set of tokens closed under "is a constituent of" decides it.
IsCancelled(t) ==
    \A S \in SUBSET Token :
        /\ cancelled \subseteq S
        /\ \A d \in Token : Constituents[d] \cap S # {} => d \in S
        => t \in S

\* The swap in CancellationSignal::cancel: only the first caller goes on.
Swap(t) ==
    /\ cancelled' = cancelled \cup {t}
    /\ work' = IF t \in cancelled THEN work ELSE [work EXCEPT ![t] = "waiters"]

\* source_changed: a constituent's flag sets this one.
SourceChanged(d) ==
    IF \E s \in Constituents[d] : IsCancelled(s) THEN Swap(d) ELSE UNCHANGED signalVars

-----------------------------------------------------------------------------
(* CancellationToken::any *)

RegisterDependent(d, s) ==
    /\ builder[d] = "new"
    /\ checking[d] = {}
    /\ s \in toRegister[d]
    /\ Built(s)
    /\ dependents' = [dependents EXCEPT ![s] = @ \cup {d}]
    /\ toRegister' = [toRegister EXCEPT ![d] = @ \ {s}]
    /\ checking' = [checking EXCEPT ![d] = {s}]
    /\ UNCHANGED <<cancelVars, waiters, builder, waitVars>>

\* The look at the flag after the entry is in the list.
CheckRegistered(d) ==
    /\ \E s \in checking[d] : IF s \in cancelled THEN SourceChanged(d)
                                                 ELSE UNCHANGED signalVars
    /\ checking' = [checking EXCEPT ![d] = {}]
    /\ UNCHANGED <<toWake, toNotify, waiters, dependents, builder, toRegister, waitVars>>

FinishAny(d) ==
    /\ builder[d] = "new"
    /\ toRegister[d] = {} /\ checking[d] = {}
    /\ SourceChanged(d)
    /\ builder' = [builder EXCEPT ![d] = "built"]
    /\ UNCHANGED <<toWake, toNotify, waiters, dependents, toRegister, checking, waitVars>>

-----------------------------------------------------------------------------
(* CancellationSignal::cancel *)

Cancel(t) ==
    /\ Built(t)
    /\ t \notin cancelled
    /\ Swap(t)
    /\ UNCHANGED <<toWake, toNotify, waiters, dependents, buildVars, waitVars>>

DrainWaiters(t) ==
    /\ work[t] = "waiters"
    /\ toWake' = [toWake EXCEPT ![t] = waiters[t]]
    /\ waiters' = [waiters EXCEPT ![t] = {}]
    /\ work' = [work EXCEPT ![t] = "dependents"]
    /\ UNCHANGED <<cancelled, toNotify, dependents, buildVars, waitVars>>

CopyDependents(t) ==
    /\ work[t] = "dependents"
    /\ toNotify' = [toNotify EXCEPT ![t] = dependents[t]]
    /\ work' = [work EXCEPT ![t] = "wake"]
    /\ UNCHANGED <<cancelled, toWake, waiters, dependents, buildVars, waitVars>>

Wake(t, w) ==
    /\ work[t] = "wake"
    /\ w \in toWake[t]
    /\ woken' = woken \cup {w}
    /\ toWake' = [toWake EXCEPT ![t] = @ \ {w}]
    /\ UNCHANGED <<signalVars, toNotify, waiters, dependents, buildVars, waiterPc>>

\* Mutant: only a dependent that somebody waits for is told.
NotifyDependentAwaited(t, d) ==
    /\ work[t] = "wake"
    /\ toWake[t] = {}
    /\ d \in toNotify[t] /\ waiters[d] # {}
    /\ SourceChanged(d)
    /\ toNotify' = [toNotify EXCEPT ![t] = @ \ {d}]
    /\ UNCHANGED <<toWake, waiters, dependents, buildVars, waitVars>>

\* The waiters come first in the code.
NotifyDependent(t, d) ==
    /\ work[t] = "wake"
    /\ toWake[t] = {}
    /\ d \in toNotify[t]
    /\ SourceChanged(d)
    /\ toNotify' = [toNotify EXCEPT ![t] = @ \ {d}]
    /\ UNCHANGED <<toWake, waiters, dependents, buildVars, waitVars>>

-----------------------------------------------------------------------------
(* CancellationToken::cancelled, one poll: look, register, look again. *)

Poll(w) ==
    /\ waiterPc[w] = "start" \/ (waiterPc[w] = "pending" /\ w \in woken)
    /\ Built(Subject[w])
    /\ waiterPc' = [waiterPc EXCEPT ![w] = IF IsCancelled(Subject[w]) THEN "ready" ELSE "register"]
    /\ woken' = woken \ {w}
    /\ UNCHANGED <<cancelVars, waiters, dependents, buildVars>>

\* register_waiter: a flag that is already set wakes at once.
RegisterWaiter(w) ==
    /\ waiterPc[w] = "register"
    /\ IF Subject[w] \in cancelled
         THEN /\ woken' = woken \cup {w}
              /\ waiterPc' = [waiterPc EXCEPT ![w] = "again"]
              /\ UNCHANGED waiters
         ELSE /\ waiterPc' = [waiterPc EXCEPT ![w] = "push"]
              /\ UNCHANGED <<woken, waiters>>
    /\ UNCHANGED <<cancelVars, dependents, buildVars>>

\* Mutant: the future sleeps without looking again after it registered.
PushWaiterUnchecked(w) ==
    /\ waiterPc[w] = "push"
    /\ waiters' = [waiters EXCEPT ![Subject[w]] = @ \cup {w}]
    /\ waiterPc' = [waiterPc EXCEPT ![w] = "pending"]
    /\ UNCHANGED <<cancelVars, dependents, buildVars, woken>>

PushWaiter(w) ==
    /\ waiterPc[w] = "push"
    /\ waiters' = [waiters EXCEPT ![Subject[w]] = @ \cup {w}]
    /\ waiterPc' = [waiterPc EXCEPT ![w] = "pushed"]
    /\ UNCHANGED <<cancelVars, dependents, buildVars, woken>>

CheckFlag(w) ==
    /\ waiterPc[w] = "pushed"
    /\ woken' = IF Subject[w] \in cancelled THEN woken \cup {w} ELSE woken
    /\ waiterPc' = [waiterPc EXCEPT ![w] = "again"]
    /\ UNCHANGED <<cancelVars, waiters, dependents, buildVars>>

LookAgain(w) ==
    /\ waiterPc[w] = "again"
    /\ waiterPc' = [waiterPc EXCEPT ![w] = IF IsCancelled(Subject[w]) THEN "ready" ELSE "pending"]
    /\ UNCHANGED <<cancelVars, waiters, dependents, buildVars, woken>>

-----------------------------------------------------------------------------
Build(d) == CheckRegistered(d) \/ FinishAny(d) \/ \E s \in Token : RegisterDependent(d, s)

CancelStep(t) ==
    \/ DrainWaiters(t) \/ CopyDependents(t)
    \/ \E w \in Waiter : Wake(t, w)
    \/ \E d \in Token : NotifyDependent(t, d)

WaiterStep(w) ==
    \/ Poll(w) \/ RegisterWaiter(w) \/ PushWaiter(w) \/ CheckFlag(w) \/ LookAgain(w)

Next ==
    \/ \E t \in Token : Cancel(t) \/ CancelStep(t) \/ Build(t)
    \/ \E w \in Waiter : WaiterStep(w)

Spec == Init /\ [][Next]_vars

\* Threads inside cancel and any run on, and a woken future is polled.  Nobody
\* has to cancel anything.
FairSpec ==
    /\ Spec
    /\ \A t \in Token : WF_vars(CancelStep(t)) /\ WF_vars(Build(t))
    /\ \A w \in Waiter : WF_vars(WaiterStep(w))

-----------------------------------------------------------------------------
(* Properties. *)

\* Every field holds a value its Rust type can hold.
TypeOK ==
    /\ cancelled \subseteq Token
    /\ waiters \in [Token -> SUBSET Waiter]
    /\ dependents \in [Token -> SUBSET Token]
    /\ work \in [Token -> {"none", "waiters", "dependents", "wake"}]
    /\ toWake \in [Token -> SUBSET Waiter]
    /\ toNotify \in [Token -> SUBSET Token]
    /\ builder \in [Token -> {"new", "built"}]
    /\ toRegister \in [Token -> SUBSET Token]
    /\ checking \in [Token -> SUBSET Token]
    /\ waiterPc \in [Waiter -> {"start", "register", "push", "pushed", "again", "pending", "ready"}]
    /\ woken \subseteq Waiter

Quiet ==
    /\ \A t \in Token : /\ work[t] \in {"none", "wake"}
                        /\ toWake[t] = {} /\ toNotify[t] = {}
                        /\ Built(t)

\* No wake-up is lost: once the threads inside cancel and any are through, no
\* future sleeps on a token that is cancelled, by itself or by a constituent.
NoLostWakeup ==
    /\ TypeOK
    /\ Quiet => \A w \in Waiter :
                   waiterPc[w] = "pending" /\ IsCancelled(Subject[w]) => w \in woken

\* A future that waits for a cancelled token returns.
CancelledReturns ==
    \A w \in Waiter : IsCancelled(Subject[w]) ~> waiterPc[w] = "ready"
=============================================================================
