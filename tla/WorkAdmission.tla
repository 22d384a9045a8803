---------------------------- MODULE WorkAdmission ----------------------------
(***************************************************************************)
(* Admission of work to the runtime, and the shutdown that waits for it.   *)
(*                                                                         *)
(* Every embed, load and install owns a RuntimeWorkPermit.  A permit is    *)
(* counted twice: by the ShutdownCoordinator (shutdown.rs) and by the      *)
(* atomic Inner.admitted (runtime.rs).  Admission takes both halves under  *)
(* the `admin` mutex; the destructor gives them back one after the other   *)
(* without any lock.  The first shutdown call closes admission and spawns  *)
(* one flight, which waits for `admitted` to reach zero on a tokio Notify, *)
(* racing a deadline that later callers may tighten.                       *)
(*                                                                         *)
(* An operation may be admitted again after its permit is gone, so the     *)
(* histories are unbounded although the set Op is finite.                  *)
(***************************************************************************)
EXTENDS Integers, FiniteSets

CONSTANTS
    Op,        \* operations that ask for a work permit
    Detached,  \* those whose permit a spawned task owns (installs)
    Caller,    \* callers of ApplicationRuntime::shutdown
    NoOp       \* nobody

ASSUME OpAssumption == IsFiniteSet(Op) /\ Detached \subseteq Op /\ NoOp \notin Op

VARIABLES
    admin,        \* owner of Inner.admin inside admit_work, NoOp when free
    draining,     \* Inner.draining
    coordinator,  \* ShutdownCoordinator: "Running", "Draining" or "Stopped"
    coordActive,  \* ShutdownCoordinator: State.active
    admitted,     \* Inner.admitted
    permit,       \* where each operation's permit is in its life
    zeroLatch,    \* the permit stored in Inner.admitted_zero (Notify)
    waiter,       \* the Notified future of wait_for_drain
    flight,       \* program counter of the shutdown flight
    drained,      \* the flight's verdict
    deadline,     \* the shared deadline: "none", "ahead" or "past"
    unseen,       \* a deadline update the flight has not observed
    caller,       \* program counter of each shutdown caller
    gone          \* Inner has been dropped

vars == <<admin, draining, coordinator, coordActive, admitted, permit, zeroLatch,
          waiter, flight, drained, deadline, unseen, caller, gone>>

\* none -> entering -> held -> [notify ->] half -> none
PermitState == {"none", "entering", "held", "notify", "half"}
FlightState == {"none", "arm", "check", "count", "parked", "fencing", "closing",
                "done", "aborted"}

\* Operations counted by Inner.admitted, and by the coordinator.
Counted == {o \in Op : permit[o] = "held"}
CoordCounted == {o \in Op : permit[o] # "none"}

Init ==
    /\ admin = NoOp
    /\ draining = FALSE
    /\ coordinator = "Running"
    /\ coordActive = 0
    /\ admitted = 0
    /\ permit = [o \in Op |-> "none"]
    /\ zeroLatch = FALSE
    /\ waiter = "none"
    /\ flight = "none"
    /\ drained = FALSE
    /\ deadline = "none"
    /\ unseen = FALSE
    /\ caller = [c \in Caller |-> "idle"]
    /\ gone = FALSE

-----------------------------------------------------------------------------
(* The two halves of admission. *)

\* admit_work: take admin, refuse when draining, then ShutdownCoordinator::admit.
AdmitCoordinator(o) ==
    /\ ~gone
    /\ admin = NoOp
    /\ permit[o] = "none"
    /\ ~draining
    /\ coordinator = "Running"
    /\ admin' = o
    /\ coordActive' = coordActive + 1
    /\ permit' = [permit EXCEPT ![o] = "entering"]
    /\ UNCHANGED <<draining, coordinator, admitted, zeroLatch, waiter, flight,
                   drained, deadline, unseen, caller, gone>>

\* admit_work_locked: the second half, then the guard of admin is dropped.
AdmitCount(o) ==
    /\ admin = o
    /\ permit[o] = "entering"
    /\ admin' = NoOp
    /\ admitted' = admitted + 1
    /\ permit' = [permit EXCEPT ![o] = "held"]
    /\ UNCHANGED <<draining, coordinator, coordActive, zeroLatch, waiter, flight,
                   drained, deadline, unseen, caller, gone>>

-----------------------------------------------------------------------------
(* The destructors of RuntimeWorkPermit and of the WorkPermit inside it. *)

\* Mutant: the wrong release notifies the waiter.
ReleaseCountOffByOne(o) ==
    /\ permit[o] = "held"
    /\ admitted' = admitted - 1
    /\ permit' = [permit EXCEPT ![o] = IF admitted = 2 THEN "notify" ELSE "half"]
    /\ UNCHANGED <<admin, draining, coordinator, coordActive, zeroLatch, waiter,
                   flight, drained, deadline, unseen, caller, gone>>

ReleaseCount(o) ==
    /\ permit[o] = "held"
    /\ admitted' = admitted - 1
    /\ permit' = [permit EXCEPT ![o] = IF admitted = 1 THEN "notify" ELSE "half"]
    /\ UNCHANGED <<admin, draining, coordinator, coordActive, zeroLatch, waiter,
                   flight, drained, deadline, unseen, caller, gone>>

\* Notify::notify_one: wake the registered waiter, or store one permit.
NotifyZero(o) ==
    /\ permit[o] = "notify"
    /\ permit' = [permit EXCEPT ![o] = "half"]
    /\ IF waiter = "waiting"
         THEN waiter' = "signalled" /\ UNCHANGED zeroLatch
         ELSE zeroLatch' = TRUE /\ UNCHANGED waiter
    /\ UNCHANGED <<admin, draining, coordinator, coordActive, admitted, flight,
                   drained, deadline, unseen, caller, gone>>

\* WorkPermit::drop: the last one completes a coordinator that is draining.
ReleaseCoordinator(o) ==
    /\ permit[o] = "half"
    /\ permit' = [permit EXCEPT ![o] = "none"]
    /\ coordActive' = IF coordActive = 0 THEN 0 ELSE coordActive - 1
    /\ coordinator' = IF coordActive' = 0 /\ coordinator = "Draining"
                        THEN "Stopped" ELSE coordinator
    /\ UNCHANGED <<admin, draining, admitted, zeroLatch, waiter, flight, drained,
                   deadline, unseen, caller, gone>>

-----------------------------------------------------------------------------
(* ApplicationRuntime::shutdown.  A request for a deadline is "none" when    *)
(* Instant::checked_add overflows, "ahead" otherwise (a zero timeout is      *)
(* "ahead" until the clock moves).                                           *)

\* ShutdownCoordinator::begin
CoordinatorBegin ==
    CASE coordinator = "Running" /\ coordActive = 0 -> "Stopped"
      [] coordinator = "Running" /\ coordActive # 0 -> "Draining"
      [] OTHER -> coordinator

\* Mutant: shutdown does not wait for the admin mutex.
BeginShutdownUnlocked(c, requested) ==
    /\ ~gone
    /\ caller[c] = "idle"
    /\ flight = "none"
    /\ draining' = TRUE
    /\ coordinator' = CoordinatorBegin
    /\ drained' = (admitted = 0)
    /\ flight' = IF admitted = 0 THEN "fencing" ELSE "arm"
    /\ deadline' = requested
    /\ caller' = [caller EXCEPT ![c] = "waiting"]
    /\ UNCHANGED <<admin, coordActive, admitted, permit, zeroLatch, waiter, unseen,
                   gone>>

\* Mutant: a later caller starts a second flight.
BeginShutdownAgain(c, requested) ==
    /\ ~gone
    /\ admin = NoOp
    /\ caller[c] = "idle"
    /\ draining' = TRUE
    /\ coordinator' = CoordinatorBegin
    /\ drained' = (admitted = 0)
    /\ flight' = IF admitted = 0 THEN "fencing" ELSE "arm"
    /\ deadline' = requested
    /\ caller' = [caller EXCEPT ![c] = "waiting"]
    /\ UNCHANGED <<admin, coordActive, admitted, permit, zeroLatch, waiter, unseen,
                   gone>>

BeginShutdown(c, requested) ==
    /\ ~gone
    /\ admin = NoOp
    /\ caller[c] = "idle"
    /\ flight = "none"
    /\ draining' = TRUE
    /\ coordinator' = CoordinatorBegin
    /\ drained' = (admitted = 0)
    /\ flight' = IF admitted = 0 THEN "fencing" ELSE "arm"
    /\ deadline' = requested
    /\ caller' = [caller EXCEPT ![c] = "waiting"]
    /\ UNCHANGED <<admin, coordActive, admitted, permit, zeroLatch, waiter, unseen,
                   gone>>

\* A later caller only tightens the shared deadline: an earlier instant, or
\* the first instant at all, is an update; anything else leaves it alone.
JoinShutdown(c, requested) ==
    /\ ~gone
    /\ admin = NoOp
    /\ caller[c] = "idle"
    /\ flight # "none"
    /\ caller' = [caller EXCEPT ![c] = "waiting"]
    /\ \/ /\ requested = "ahead"
          /\ deadline # "past"
          /\ deadline' = "ahead"
          /\ unseen' = TRUE
       \/ /\ ~(requested = "ahead" /\ deadline = "none")
          /\ UNCHANGED <<deadline, unseen>>
    /\ UNCHANGED <<admin, draining, coordinator, coordActive, admitted, permit,
                   zeroLatch, waiter, flight, drained, gone>>

\* The completion watch holds the verdict for every caller, early or late.
ReturnVerdict(c) ==
    /\ caller[c] = "waiting"
    /\ flight = "done"
    /\ caller' = [caller EXCEPT ![c] = IF drained THEN "drained" ELSE "forced"]
    /\ UNCHANGED <<admin, draining, coordinator, coordActive, admitted, permit,
                   zeroLatch, waiter, flight, drained, deadline, unseen, gone>>

\* The future of a shutdown caller is dropped: the flight is not affected.
AbandonShutdown(c) ==
    /\ caller[c] = "waiting"
    /\ caller' = [caller EXCEPT ![c] = "idle"]
    /\ UNCHANGED <<admin, draining, coordinator, coordActive, admitted, permit,
                   zeroLatch, waiter, flight, drained, deadline, unseen, gone>>

ClockPasses ==
    /\ deadline = "ahead"
    /\ deadline' = "past"
    /\ UNCHANGED <<admin, draining, coordinator, coordActive, admitted, permit,
                   zeroLatch, waiter, flight, drained, unseen, caller, gone>>

-----------------------------------------------------------------------------
(* The flight: finish_shutdown and, inside it, wait_for_drain. *)

\* Dropping a Notified that notify_one had picked hands the wakeup back to
\* the Notify; one that consumed a stored permit when enabled keeps it.
DropWaiter ==
    /\ waiter' = "none"
    /\ zeroLatch' = (zeroLatch \/ waiter = "signalled")

\* notified().enable(): consume the stored permit, or register.
ArmWaiter ==
    /\ flight = "arm"
    /\ flight' = "check"
    /\ waiter' = IF zeroLatch THEN "ready" ELSE "waiting"
    /\ zeroLatch' = FALSE
    /\ UNCHANGED <<admin, draining, coordinator, coordActive, admitted, permit,
                   drained, deadline, unseen, caller, gone>>

\* The deadline is compared with the clock before the count is read.
CheckDeadline ==
    /\ flight = "check"
    /\ IF deadline = "past"
         THEN flight' = "fencing" /\ drained' = FALSE /\ DropWaiter
         ELSE flight' = "count" /\ UNCHANGED <<drained, waiter, zeroLatch>>
    /\ UNCHANGED <<admin, draining, coordinator, coordActive, admitted, permit,
                   deadline, unseen, caller, gone>>

CheckCount ==
    /\ flight = "count"
    /\ IF admitted = 0
         THEN flight' = "fencing" /\ drained' = TRUE /\ DropWaiter
         ELSE flight' = "parked" /\ UNCHANGED <<drained, waiter, zeroLatch>>
    /\ UNCHANGED <<admin, draining, coordinator, coordActive, admitted, permit,
                   deadline, unseen, caller, gone>>

\* The biased select: a deadline update, then the timer, then the latch.
WakeDeadlineChanged ==
    /\ flight = "parked"
    /\ unseen
    /\ unseen' = FALSE
    /\ flight' = "arm"
    /\ DropWaiter
    /\ UNCHANGED <<admin, draining, coordinator, coordActive, admitted, permit,
                   drained, deadline, caller, gone>>

WakeTimer ==
    /\ flight = "parked"
    /\ ~unseen
    /\ deadline = "past"
    /\ flight' = "fencing"
    /\ drained' = FALSE
    /\ DropWaiter
    /\ UNCHANGED <<admin, draining, coordinator, coordActive, admitted, permit,
                   deadline, unseen, caller, gone>>

WakeNotified ==
    /\ flight = "parked"
    /\ ~unseen
    /\ deadline # "past"
    /\ waiter \in {"signalled", "ready"}
    /\ flight' = "arm"
    /\ waiter' = "none"
    /\ UNCHANGED <<admin, draining, coordinator, coordActive, admitted, permit,
                   zeroLatch, drained, deadline, unseen, caller, gone>>

\* inner.shutdown.force_stop(), whatever the verdict.  The work of the flight
\* around this step (installs, force_stop, slots, schedulers, registry and
\* health) belongs to the modules that compose this one.
ForceStopCoordinator ==
    /\ flight = "fencing"
    /\ flight' = "closing"
    /\ coordinator' = "Stopped"
    /\ UNCHANGED <<admin, draining, coordActive, admitted, permit, zeroLatch, waiter,
                   drained, deadline, unseen, caller, gone>>

FinishFlight ==
    /\ flight = "closing"
    /\ flight' = "done"
    /\ UNCHANGED <<admin, draining, coordinator, coordActive, admitted, permit,
                   zeroLatch, waiter, drained, deadline, unseen, caller, gone>>

\* Inner::drop.  The flight holds a Weak reference until its verdict and a
\* strong one afterwards; futures borrow the runtime, install tasks do not.
DropInner ==
    /\ ~gone
    /\ flight \notin {"fencing", "closing"}
    /\ \A c \in Caller : caller[c] # "waiting"
    /\ \A o \in Op \ Detached : permit[o] = "none"
    /\ admin = NoOp
    /\ gone' = TRUE
    /\ draining' = TRUE
    /\ coordinator' = "Stopped"
    /\ flight' = IF flight = "done" THEN "done" ELSE "aborted"
    /\ DropWaiter
    /\ UNCHANGED <<admin, coordActive, admitted, permit, drained, deadline, unseen,
                   caller>>

-----------------------------------------------------------------------------
Flight == \/ ArmWaiter \/ CheckDeadline \/ CheckCount
          \/ WakeDeadlineChanged \/ WakeTimer \/ WakeNotified
          \/ ForceStopCoordinator \/ FinishFlight

Next ==
    \/ \E o \in Op : \/ AdmitCoordinator(o) \/ AdmitCount(o)
                     \/ ReleaseCount(o) \/ NotifyZero(o) \/ ReleaseCoordinator(o)
    \/ \E c \in Caller : \/ \E requested \in {"none", "ahead"} :
                              \/ BeginShutdown(c, requested)
                              \/ JoinShutdown(c, requested)
                         \/ ReturnVerdict(c) \/ AbandonShutdown(c)
    \/ ClockPasses
    \/ Flight
    \/ DropInner

Spec == Init /\ [][Next]_vars

\* The flight and the destructors run on the executor and are never starved;
\* the clock moves.  Nothing obliges an operation to finish.
FairSpec ==
    /\ Spec
    /\ WF_vars(Flight)
    /\ WF_vars(ClockPasses)
    /\ \A o \in Op : WF_vars(AdmitCount(o) \/ NotifyZero(o) \/ ReleaseCoordinator(o))
    /\ \A c \in Caller : WF_vars(ReturnVerdict(c))

-----------------------------------------------------------------------------
(* Properties. *)

Decided == flight \in {"fencing", "closing", "done"}
Live == {o \in Op : permit[o] \in {"entering", "held"}}

\* Every variable of admission and of the shutdown flight holds a value the
\* Rust fields can hold.
TypeOK ==
    /\ admin \in Op \cup {NoOp}
    /\ draining \in BOOLEAN
    /\ coordinator \in {"Running", "Draining", "Stopped"}
    /\ coordActive \in Nat
    /\ admitted \in Nat
    /\ permit \in [Op -> PermitState]
    /\ zeroLatch \in BOOLEAN
    /\ waiter \in {"none", "waiting", "signalled", "ready"}
    /\ flight \in FlightState
    /\ drained \in BOOLEAN
    /\ deadline \in {"none", "ahead", "past"}
    /\ unseen \in BOOLEAN
    /\ caller \in [Caller -> {"idle", "waiting", "drained", "forced"}]
    /\ gone \in BOOLEAN

\* A shutdown that reports "drained" left no accepted operation behind, not
\* even one between the two halves of its admission (the comment above
\* admit_work_locked), and none can start afterwards.
DrainedIsQuiescent == Decided /\ drained => Live = {}

\* finish_shutdown gives up on accepted work only after the shared deadline has
\* passed: without a deadline it never forces.
ForcedOnlyPastDeadline == Decided /\ ~drained => deadline = "past"

\* The coordinator refuses admission exactly when the draining flag is set, so
\* admit_work_locked cannot fail after the check of draining; and it reports
\* Stopped only when the flight fenced it or none of its permits is left.
CoordinatorAgrees ==
    /\ coordinator = "Running" <=> ~draining
    /\ coordinator = "Draining" => coordActive # 0
    /\ coordinator = "Stopped" /\ flight \notin {"closing", "done"} /\ ~gone
         => coordActive = 0

\* Once the flight has decided, the verdict never changes, whatever callers
\* join, tighten the deadline or go away: all of them are told the same.
VerdictIsFinal ==
    [][Decided => Decided' /\ drained' = drained]_vars

\* A shutdown is decided: with a deadline it finishes although no operation ever
\* does, and with or without one the last release after the drain began is never
\* missed, so it finishes once nothing is admitted any more.
ShutdownDecides ==
    (flight \notin {"none", "aborted"} /\ (deadline # "none" \/ admitted = 0))
        ~> flight \in {"done", "aborted"}

Verdict == IF ~Decided THEN "none" ELSE IF drained THEN "drained" ELSE "forced"

Contract == INSTANCE DrainContract WITH
    open <- ~draining,
    live <- Live,
    expired <- (deadline = "past"),
    verdict <- Verdict,
    stopped <- flight \in {"done", "aborted"}

\* Admission, the permits' destructors and the flight implement the contract a
\* caller of shutdown relies on.
ContractSpec == Contract!Spec
=============================================================================
