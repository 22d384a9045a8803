----------------------------- MODULE Application -----------------------------
(***************************************************************************)
(* EmbeddingApplication: the transport-independent service over the        *)
(* runtime, the store and the installer.  It keeps the set of models it    *)
(* reports as Loaded, serialises lifecycle calls with an async mutex that  *)
(* shutdown does not take, and runs preload as a transaction under the     *)
(* strict policy.  Calls are futures: one may be dropped at any await.     *)
(*                                                                         *)
(* The runtime appears through the calls made to it: load_onnx publishes   *)
(* at its end or not at all, unload refuses a model in use, shutdown       *)
(* refuses further work and clears the registry.  ModelRegistry and        *)
(* InstallLifecycle model their insides.                                   *)
(***************************************************************************)
EXTENDS Integers, Sequences, Functions

CONSTANTS
    Model,          \* identities of the catalog
    PreloadModels,  \* preload_models, in configuration order
    Caller,         \* futures of lifecycle calls and of shutdown
    Embed,          \* futures of embed
    None

ASSUME ApplicationAssumption ==
    /\ PreloadModels \in Seq(Model) /\ IsInjective(PreloadModels)
    /\ None \notin Model \cup Caller

VARIABLES
    policy,        \* startup_policy
    lifecycle,     \* owner of the lifecycle mutex
    loaded,        \* the models reported as Loaded
    pending,       \* preload_pending
    shuttingDown,  \* shutting_down
    call,          \* what each lifecycle future is doing
    embed,         \* what each embed future is doing
    tx,            \* the preload call: its transaction and its place in the list
    installed,     \* models the store holds
    detached,      \* installations whose caller was dropped
    served,        \* the runtime's registry
    flight,        \* the runtime's shutdown
    orphans,       \* history: models a rollback could not unload
    cleared        \* history: a shutdown has cleared `loaded`

appVars == <<loaded, pending, shuttingDown>>
runtimeVars == <<served, flight>>
storeVars == <<installed, detached>>
vars == <<policy, lifecycle, appVars, call, embed, tx, storeVars, runtimeVars,
          orphans, cleared>>

Op == {"load", "unload", "delete", "install", "preload", "shutdown"}
Idle == [op |-> "none", m |-> None, at |-> "idle"]
Quiet == [m |-> None, at |-> "idle"]
NoTx == [gated |-> {}, newly |-> <<>>, undo |-> <<>>, pos |-> 1, early |-> {}]

Init ==
    /\ policy \in {"Strict", "BestEffort"}
    /\ lifecycle = None
    /\ loaded = {} /\ pending = {} /\ shuttingDown = FALSE
    /\ call = [c \in Caller |-> Idle] /\ embed = [e \in Embed |-> Quiet]
    /\ tx = NoTx
    /\ installed \in SUBSET Model /\ detached = {}
    /\ served = {} /\ flight = "none"
    /\ orphans = {} /\ cleared = FALSE

-----------------------------------------------------------------------------
(* Calls to the runtime. *)

Using(m) == \E e \in Embed : embed[e] = [m |-> m, at |-> "using"]

\* ApplicationRuntime::unload succeeds.
Unloadable(m) == flight = "none" /\ m \in served /\ ~Using(m)

\* A call whose error is ignored.
TryUnload(m) == served' = IF Unloadable(m) THEN served \ {m} ELSE served

-----------------------------------------------------------------------------
(* Entering and leaving. *)

IsLoaded(m) == ~shuttingDown /\ m \notin pending /\ m \in loaded

At(c, at) == call[c].at = at
Goto(c, at) == call' = [call EXCEPT ![c].at = at]

\* The future ends: the guard of the lifecycle mutex, if it has it, is dropped.
Return(c) ==
    /\ call' = [call EXCEPT ![c] = Idle]
    /\ lifecycle' = IF lifecycle = c THEN None ELSE lifecycle

\* The first ensure_running of a lifecycle call.
Enter(c, op, m) ==
    /\ At(c, "idle") /\ ~shuttingDown
    /\ op \in Op \ {"shutdown"} /\ (op = "preload" <=> m = None)
    /\ call' = [call EXCEPT ![c] = [op |-> op, m |-> m, at |-> "lock"]]
    /\ UNCHANGED <<policy, lifecycle, appVars, embed, tx, storeVars, runtimeVars,
                   orphans, cleared>>

\* lifecycle.lock and the second ensure_running.
Acquire(c) ==
    /\ At(c, "lock") /\ lifecycle = None
    /\ IF shuttingDown
       THEN Return(c)
       ELSE /\ lifecycle' = c
            /\ Goto(c, IF call[c].op = "preload" /\ policy = "Strict" THEN "begin"
                       ELSE IF call[c].op = "preload" THEN "next" ELSE call[c].op)
    /\ UNCHANGED <<policy, appVars, embed, tx, storeVars, runtimeVars, orphans, cleared>>

-----------------------------------------------------------------------------
(* load_locked, for load and for each model of preload. *)

\* How preload goes on after a model; load returns either way.
AfterLoad(c, ok) ==
    IF call[c].op = "load"
    THEN Return(c) /\ UNCHANGED tx
    ELSE /\ UNCHANGED lifecycle
         /\ IF ok \/ policy = "BestEffort"
            THEN /\ Goto(c, "next")
                 /\ tx' = [tx EXCEPT !.pos = @ + 1,
                                     !.newly = IF ok /\ policy = "Strict"
                                               THEN Append(@, call[c].m) ELSE @]
            ELSE Goto(c, "rollback") /\ tx' = [tx EXCEPT !.undo = tx.newly]

\* The look at is_loaded.
LoadCheck(c) ==
    /\ At(c, "load")
    /\ IF IsLoaded(call[c].m)
       THEN AfterLoad(c, FALSE)
       ELSE Goto(c, "native") /\ UNCHANGED <<lifecycle, tx>>
    /\ UNCHANGED <<policy, appVars, embed, storeVars, runtimeVars, orphans, cleared>>

\* runtime.load_onnx fails: not installed, already registered, draining, or any
\* other reason.
LoadFails(c) ==
    /\ At(c, "native")
    /\ AfterLoad(c, FALSE)
    /\ UNCHANGED <<policy, appVars, embed, storeVars, runtimeVars, orphans, cleared>>

\* runtime.load_onnx has published the model.
LoadPublished(c) ==
    /\ At(c, "native") /\ flight = "none"
    /\ call[c].m \in installed \ served
    /\ served' = served \cup {call[c].m}
    /\ Goto(c, "insert")
    /\ UNCHANGED <<policy, lifecycle, appVars, embed, tx, storeVars, flight, orphans, cleared>>

\* Mutant: the flag is not looked at under the write lock.
InsertUnfenced(c) ==
    /\ At(c, "insert")
    /\ IF FALSE
       THEN /\ TryUnload(call[c].m) /\ UNCHANGED loaded
            /\ AfterLoad(c, FALSE)
       ELSE /\ loaded' = loaded \cup {call[c].m} /\ UNCHANGED served
            /\ AfterLoad(c, TRUE)
    /\ UNCHANGED <<policy, pending, shuttingDown, embed, storeVars, flight, orphans, cleared>>

\* The section under the write lock of `loaded`: a shutdown is looked for here.
Insert(c) ==
    /\ At(c, "insert")
    /\ IF shuttingDown
       THEN /\ TryUnload(call[c].m) /\ UNCHANGED loaded
            /\ AfterLoad(c, FALSE)
       ELSE /\ loaded' = loaded \cup {call[c].m} /\ UNCHANGED served
            /\ AfterLoad(c, TRUE)
    /\ UNCHANGED <<policy, pending, shuttingDown, embed, storeVars, flight, orphans, cleared>>

-----------------------------------------------------------------------------
(* unload, delete and install. *)

\* runtime.unload; on success the model is still reported until Forget.
Unload(c) ==
    /\ At(c, "unload")
    /\ IF Unloadable(call[c].m)
       THEN /\ served' = served \ {call[c].m} /\ orphans' = orphans \ {call[c].m}
            /\ Goto(c, "forget") /\ UNCHANGED lifecycle
       ELSE Return(c) /\ UNCHANGED <<served, orphans>>
    /\ UNCHANGED <<policy, appVars, embed, tx, storeVars, flight, cleared>>

Forget(c) ==
    /\ At(c, "forget")
    /\ loaded' = loaded \ {call[c].m}
    /\ Return(c)
    /\ UNCHANGED <<policy, pending, shuttingDown, embed, tx, storeVars, runtimeVars,
                   orphans, cleared>>

\* runtime.delete refuses a registered model and a draining runtime.
Delete(c) ==
    /\ At(c, "delete")
    /\ \/ UNCHANGED installed
       \/ /\ flight = "none" /\ call[c].m \notin served
          /\ installed' = installed \ {call[c].m}
    /\ Return(c)
    /\ UNCHANGED <<policy, appVars, embed, tx, detached, runtimeVars, orphans, cleared>>

Install(c) ==
    /\ At(c, "install")
    /\ installed' \in {installed, installed \cup {call[c].m}}
    /\ Return(c)
    /\ UNCHANGED <<policy, appVars, embed, tx, detached, runtimeVars, orphans, cleared>>

\* An installation outlives the future that asked for it.
DetachedEnds(m) ==
    /\ m \in detached
    /\ detached' = detached \ {m}
    /\ installed' \in {installed, installed \cup {m}}
    /\ UNCHANGED <<policy, lifecycle, appVars, call, embed, tx, runtimeVars, orphans, cleared>>

-----------------------------------------------------------------------------
(* preload. *)

\* StrictPreloadTransaction::begin looks at `loaded` ...
Begin(c) ==
    /\ At(c, "begin")
    /\ tx' = [NoTx EXCEPT !.gated = Range(PreloadModels) \ loaded]
    /\ Goto(c, "gate")
    /\ UNCHANGED <<policy, lifecycle, appVars, embed, storeVars, runtimeVars, orphans, cleared>>

\* Mutant: begin does not extend preload_pending.
GateForgotten(c) ==
    /\ At(c, "gate")
    /\ pending' = pending
    /\ tx' = [tx EXCEPT !.early = {e \in Embed : embed[e].at \in {"go", "using"}}]
    /\ Goto(c, "next")
    /\ UNCHANGED <<policy, lifecycle, loaded, shuttingDown, embed, storeVars, runtimeVars,
                   orphans, cleared>>

\* ... and then extends preload_pending.
Gate(c) ==
    /\ At(c, "gate")
    /\ pending' = pending \cup tx.gated
    /\ tx' = [tx EXCEPT !.early = {e \in Embed : embed[e].at \in {"go", "using"}}]
    /\ Goto(c, "next")
    /\ UNCHANGED <<policy, lifecycle, loaded, shuttingDown, embed, storeVars, runtimeVars,
                   orphans, cleared>>

\* The head of the loop, and what follows it.
NextModel(c) ==
    /\ At(c, "next")
    /\ IF tx.pos > Len(PreloadModels)
       THEN /\ pending' = pending \ tx.gated
            /\ tx' = NoTx
            /\ Return(c)
       ELSE /\ UNCHANGED <<pending, lifecycle>>
            /\ IF IsLoaded(PreloadModels[tx.pos])
               THEN tx' = [tx EXCEPT !.pos = @ + 1] /\ UNCHANGED call
               ELSE /\ call' = [call EXCEPT ![c].m = PreloadModels[tx.pos], ![c].at = "load"]
                    /\ UNCHANGED tx
    /\ UNCHANGED <<policy, loaded, shuttingDown, embed, storeVars, runtimeVars, orphans, cleared>>

\* The destructor of a transaction that did not commit unloads what it loaded,
\* the last model first, ignoring refusals ...
Rollback(c) ==
    /\ At(c, "rollback")
    /\ IF tx.undo = <<>>
       THEN Goto(c, "withdraw") /\ UNCHANGED <<tx, served, orphans>>
       ELSE LET last == Len(tx.undo)
                m == tx.undo[last]
            IN  /\ TryUnload(m)
                /\ orphans' = IF Unloadable(m) THEN orphans ELSE orphans \cup {m}
                /\ tx' = [tx EXCEPT !.undo = SubSeq(@, 1, last - 1)]
                /\ UNCHANGED call
    /\ UNCHANGED <<policy, lifecycle, appVars, embed, storeVars, flight, cleared>>

\* ... takes it out of `loaded` ...
Withdraw(c) ==
    /\ At(c, "withdraw")
    /\ loaded' = loaded \ Range(tx.newly)
    /\ Goto(c, "ungate")
    /\ UNCHANGED <<policy, lifecycle, pending, shuttingDown, embed, tx, storeVars,
                   runtimeVars, orphans, cleared>>

\* ... and opens the gate, before the lifecycle mutex is let go.
Ungate(c) ==
    /\ At(c, "ungate")
    /\ pending' = pending \ tx.gated
    /\ tx' = NoTx
    /\ Return(c)
    /\ UNCHANGED <<policy, loaded, shuttingDown, embed, storeVars, runtimeVars, orphans, cleared>>

-----------------------------------------------------------------------------
(* shutdown_with_timeout, which does not take the lifecycle mutex. *)

Fence(c) ==
    /\ At(c, "idle")
    /\ shuttingDown' = TRUE
    /\ call' = [call EXCEPT ![c] = [op |-> "shutdown", m |-> None, at |-> "drain"]]
    /\ UNCHANGED <<policy, lifecycle, loaded, pending, embed, tx, storeVars, runtimeVars,
                   orphans, cleared>>

\* runtime.shutdown starts the flight or joins it.
Drain(c) ==
    /\ At(c, "drain")
    /\ flight' = IF flight = "none" THEN "draining" ELSE flight
    /\ Goto(c, "wait")
    /\ UNCHANGED <<policy, lifecycle, appVars, embed, tx, storeVars, served, orphans, cleared>>

\* The flight ends, drained or forced; it does not need its callers.
FlightEnds ==
    /\ flight = "draining"
    /\ flight' = "stopped" /\ served' = {}
    /\ UNCHANGED <<policy, lifecycle, appVars, call, embed, tx, storeVars, orphans, cleared>>

ClearLoaded(c) ==
    /\ At(c, "wait") /\ flight = "stopped"
    /\ loaded' = {} /\ cleared' = TRUE
    /\ Goto(c, "clear")
    /\ UNCHANGED <<policy, lifecycle, pending, shuttingDown, embed, tx, storeVars,
                   runtimeVars, orphans>>

ClearPending(c) ==
    /\ At(c, "clear")
    /\ pending' = {}
    /\ Return(c)
    /\ UNCHANGED <<policy, loaded, shuttingDown, embed, tx, storeVars, runtimeVars,
                   orphans, cleared>>

-----------------------------------------------------------------------------
(* A future is dropped where it awaits. *)

Drop(c) ==
    /\ call[c].at \in {"lock", "native", "install", "wait"}
    /\ IF call[c].op = "preload" /\ At(c, "native") /\ policy = "Strict"
       THEN /\ Goto(c, "rollback") /\ tx' = [tx EXCEPT !.undo = tx.newly]
            /\ UNCHANGED lifecycle
       ELSE Return(c) /\ tx' = IF lifecycle = c THEN NoTx ELSE tx
    /\ detached' = IF At(c, "install") THEN detached \cup {call[c].m} ELSE detached
    /\ UNCHANGED <<policy, appVars, embed, installed, runtimeVars, orphans, cleared>>

-----------------------------------------------------------------------------
(* embed. *)

\* The look at shutting_down ...
EmbedEnter(e, m) ==
    /\ embed[e] = Quiet /\ ~shuttingDown
    /\ embed' = [embed EXCEPT ![e] = [m |-> m, at |-> "pending"]]
    /\ UNCHANGED <<policy, lifecycle, appVars, call, tx, storeVars, runtimeVars, orphans, cleared>>

\* ... and at preload_pending.
EmbedPending(e) ==
    /\ embed[e].at = "pending"
    /\ embed' = [embed EXCEPT ![e] = IF embed[e].m \in pending THEN Quiet
                                     ELSE [@ EXCEPT !.at = "go"]]
    /\ UNCHANGED <<policy, lifecycle, appVars, call, tx, storeVars, runtimeVars, orphans, cleared>>

\* runtime.embed takes its lease, or refuses.
EmbedLease(e) ==
    /\ embed[e].at = "go"
    /\ IF flight = "none" /\ embed[e].m \in served
       THEN embed' = [embed EXCEPT ![e].at = "using"] /\ UNCHANGED tx
       ELSE /\ embed' = [embed EXCEPT ![e] = Quiet]
            /\ tx' = [tx EXCEPT !.early = @ \ {e}]
    /\ UNCHANGED <<policy, lifecycle, appVars, call, storeVars, runtimeVars, orphans, cleared>>

\* It returns, or the future is dropped.
EmbedEnds(e) ==
    /\ embed[e].at = "using"
    /\ embed' = [embed EXCEPT ![e] = Quiet]
    /\ tx' = [tx EXCEPT !.early = @ \ {e}]
    /\ UNCHANGED <<policy, lifecycle, appVars, call, storeVars, runtimeVars, orphans, cleared>>

-----------------------------------------------------------------------------
CallStep(c) ==
    \/ Acquire(c) \/ LoadCheck(c) \/ LoadFails(c) \/ LoadPublished(c) \/ Insert(c)
    \/ Unload(c) \/ Forget(c) \/ Delete(c) \/ Install(c)
    \/ Begin(c) \/ Gate(c) \/ NextModel(c) \/ Rollback(c) \/ Withdraw(c) \/ Ungate(c)
    \/ Drain(c) \/ ClearLoaded(c) \/ ClearPending(c)

Next ==
    \/ \E c \in Caller : CallStep(c) \/ Drop(c) \/ Fence(c)
    \/ \E c \in Caller, op \in Op, m \in Model \cup {None} : Enter(c, op, m)
    \/ \E e \in Embed : EmbedPending(e) \/ EmbedLease(e) \/ EmbedEnds(e)
    \/ \E e \in Embed, m \in Model : EmbedEnter(e, m)
    \/ \E m \in Model : DetachedEnds(m)
    \/ FlightEnds

Spec == Init /\ [][Next]_vars

-----------------------------------------------------------------------------
(* Properties. *)

\* How far a lifecycle future or a shutdown can be.
Place ==
    {"idle", "lock", "load", "native", "insert", "unload", "forget", "delete", "install",
     "begin", "gate", "next", "rollback", "withdraw", "ungate", "drain", "wait", "clear"}

\* Every field holds a value its Rust type can hold.
TypeOK ==
    /\ lifecycle \in Caller \cup {None}
    /\ loaded \cup pending \cup served \cup installed \cup detached \cup orphans \subseteq Model
    /\ call \in [Caller -> [op : Op \cup {"none"}, m : Model \cup {None}, at : Place]]
    /\ embed \in [Embed -> [m : Model \cup {None}, at : {"idle", "pending", "go", "using"}]]
    /\ tx.pos \in 1 .. Len(PreloadModels) + 1 /\ tx.early \subseteq Embed

\* The models a strict preload has put into the registry so far.
Uncommitted ==
    Range(tx.newly) \cup {call[c].m : c \in {d \in Caller : At(d, "insert") /\ tx.gated # {}}}

\* A strict preload is a transaction.  Between lifecycle calls the models reported
\* as Loaded are those the runtime serves, whatever failed or was dropped: but for
\* the models that a rollback had to leave, because a request admitted before the
\* transaction began was using them.  No request that arrives after the gate was
\* closed works with a model of the transaction before it commits, not even while a
\* shutdown empties preload_pending under it.  And the gate is never left closed,
\* whether the transaction commits, fails, is dropped or meets a shutdown.
PreloadIsAtomic ==
    /\ TypeOK
    /\ lifecycle = None /\ ~shuttingDown => loaded = served \ orphans
    /\ \A e \in Embed : embed[e].at = "using" /\ embed[e].m \in Uncommitted => e \in tx.early
    /\ lifecycle = None => pending = {}

\* What the comment in shutdown_with_timeout claims: the final clear cannot race
\* a late insertion, although shutdown does not take the lifecycle mutex.
ClearIsFinal == cleared => loaded = {}
=============================================================================
