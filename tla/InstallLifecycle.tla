--------------------------- MODULE InstallLifecycle ---------------------------
(***************************************************************************)
(* An installation as the runtime owns it: the caller's future, the task   *)
(* spawned for the operation, the commit gate both race through, and the   *)
(* cancellation that a shutdown, a dropped caller or a dropped runtime     *)
(* sends.  Composed with WorkAdmission: the permit belongs to the task.    *)
(*                                                                         *)
(* The operations install one model.  Of what they do to its cache the     *)
(* module has what cancellation can race: the lock, the repairs that a     *)
(* status or the transaction finishes before the gate, and the promotion   *)
(* behind it.  Downloads are left to Provisioning and the renames of a     *)
(* promotion to ModelStore; an operation ends in success or error at any   *)
(* point.                                                                  *)
(***************************************************************************)
EXTENDS Integers, FiniteSets

CONSTANTS
    Install,  \* calls of install_with or install_model
    Work,     \* other admitted operations, which may subscribe to force_stop
    Caller,   \* callers of shutdown
    Earlier,  \* the author of a repair that a former process left behind
    None

ASSUME InstallAssumption ==
    /\ IsFiniteSet(Install) /\ IsFiniteSet(Work)
    /\ Install \cap Work = {}
    /\ None \notin Install \cup Work
    /\ Earlier \notin Install

VARIABLES
    \* WorkAdmission
    admin, draining, coordinator, coordActive, admitted, permit, zeroLatch,
    waiter, flight, drained, deadline, unseen, caller, gone,
    client,      \* program counter of the caller's future
    outcome,     \* what the caller was told
    task,        \* program counter of the spawned task
    aborted,     \* tasks that were asked to abort
    result,      \* the terminal result in the oneshot channel
    gate,        \* InstallCommitGate
    token,       \* installs whose cancellation token is cancelled
    lock,        \* the operation that holds the model's lock file
    repair,      \* whose promotion the repair marker stands for
    durable,     \* installs whose tree was promoted
    checking,    \* installs with a status on a blocking thread
    registered,  \* Inner.installs
    forceStop,   \* the value in the Inner.force_stop watch
    awaiting,    \* other operations subscribed to force_stop
    stage        \* where finish_shutdown is before it stops the coordinator

Op == Install \cup Work

A == INSTANCE WorkAdmission WITH Detached <- Install, NoOp <- None

admissionVars == <<admin, draining, coordinator, coordActive, admitted, permit,
                   zeroLatch, waiter, flight, drained, deadline, unseen, caller, gone>>
gateVars == <<gate, token>>
taskVars == <<task, aborted, result>>
cacheVars == <<lock, repair, durable, checking>>
clientVars == <<client, outcome>>
vars == <<admissionVars, gateVars, taskVars, cacheVars, clientVars, registered,
          forceStop, awaiting, stage>>

Init ==
    /\ A!Init
    /\ client = [i \in Install |-> "idle"]
    /\ outcome = [i \in Install |-> "none"]
    /\ task = [i \in Install |-> "none"]
    /\ aborted = {}
    /\ result = [i \in Install |-> "none"]
    /\ gate = [i \in Install |-> "open"]
    /\ token = {}
    /\ lock = None
    /\ repair \in {None, Earlier}
    /\ durable = {}
    /\ checking = {}
    /\ registered = {}
    /\ forceStop = FALSE
    /\ awaiting = {}
    /\ stage = "idle"

\* Futures that hold a receiver of force_stop.
Receivers == {i \in Install : client[i] \in {"waiting", "late"}} \cup awaiting

\* InstallControl::cancel_before_commit on each of the installs in S: the gate is
\* asked first, and the token is cancelled only where cancellation won.
CancelBeforeCommit(S) ==
    /\ gate' = [i \in Install |-> IF i \in S /\ gate[i] = "open" THEN "cancelled" ELSE gate[i]]
    /\ token' = token \cup {i \in S : gate[i] # "crossed"}

-----------------------------------------------------------------------------
(* begin_install and run_install_transaction: the caller's side. *)

BeginEnter(i) ==
    /\ client[i] = "idle"
    /\ A!AdmitCoordinator(i)
    /\ client' = [client EXCEPT ![i] = "entering"]
    /\ UNCHANGED <<gateVars, taskVars, cacheVars, outcome, registered, forceStop, awaiting, stage>>

\* The control is registered before admin is released.
BeginRegister(i) ==
    /\ client[i] = "entering"
    /\ A!AdmitCount(i)
    /\ registered' = registered \cup {i}
    /\ client' = [client EXCEPT ![i] = "begun"]
    /\ UNCHANGED <<gateVars, taskVars, cacheVars, outcome, forceStop, awaiting, stage>>

\* Subscribe to force_stop, look at it, then hand the permit to a task.
StartTask(i) ==
    /\ client[i] = "begun"
    /\ IF forceStop
         THEN /\ CancelBeforeCommit({i})
              /\ client' = [client EXCEPT ![i] = "returned"]
              /\ outcome' = [outcome EXCEPT ![i] = "shutting_down"]
              /\ task' = [task EXCEPT ![i] = "dropping"]
         ELSE /\ client' = [client EXCEPT ![i] = "waiting"]
              /\ task' = [task EXCEPT ![i] = "running"]
              /\ UNCHANGED <<gateVars, outcome>>
    /\ UNCHANGED <<admissionVars, aborted, result, cacheVars, registered, forceStop,
                   awaiting, stage>>

\* The first branch of the biased receive: the task's own result.
ReceiveResult(i) ==
    /\ client[i] \in {"waiting", "late"}
    /\ result[i] # "none"
    /\ client' = [client EXCEPT ![i] = "returned"]
    /\ outcome' = [outcome EXCEPT ![i] = result[i]]
    /\ UNCHANGED <<admissionVars, gateVars, taskVars, cacheVars, registered, forceStop, awaiting,
                   stage>>

\* The task went away without a result: InstallFailed.
ReceiveClosed(i) ==
    /\ client[i] \in {"waiting", "late"}
    /\ result[i] = "none"
    /\ task[i] \in {"dropping", "releasing"}
    /\ client' = [client EXCEPT ![i] = "returned"]
    /\ outcome' = [outcome EXCEPT ![i] = "lost"]
    /\ UNCHANGED <<admissionVars, gateVars, taskVars, cacheVars, registered, forceStop, awaiting,
                   stage>>

\* Mutant: the caller does not watch force_stop.
ReceiveForcedNever(i) ==
    FALSE

\* The second branch: cancellation wins and aborts the task, or the commit won
\* and its result is awaited.
ReceiveForced(i) ==
    /\ client[i] = "waiting"
    /\ forceStop
    /\ result[i] = "none"
    /\ task[i] \notin {"dropping", "releasing"}
    /\ CancelBeforeCommit({i})
    /\ IF gate[i] = "crossed"
         THEN /\ client' = [client EXCEPT ![i] = "late"]
              /\ UNCHANGED <<outcome, aborted>>
         ELSE /\ client' = [client EXCEPT ![i] = "returned"]
              /\ outcome' = [outcome EXCEPT ![i] = "shutting_down"]
              /\ aborted' = aborted \cup {i}
    /\ UNCHANGED <<admissionVars, task, result, cacheVars, registered, forceStop,
                   awaiting, stage>>

\* InstallCallerGuard::drop of an armed guard: the caller's future is dropped.
CallerDropped(i) ==
    /\ client[i] \in {"waiting", "late"}
    /\ client' = [client EXCEPT ![i] = "dropped"]
    /\ CancelBeforeCommit({i})
    /\ aborted' = IF gate[i] = "crossed" THEN aborted ELSE aborted \cup {i}
    /\ UNCHANGED <<admissionVars, task, result, cacheVars, outcome, registered, forceStop,
                   awaiting, stage>>

-----------------------------------------------------------------------------
(* The spawned task. *)

\* reconcile_repair finds a marker: the tree it stands for is promoted, or the
\* previous one is put back.
Reconciled ==
    /\ repair # None
    /\ repair' = None
    /\ durable' \in {durable, durable \cup ({repair} \cap Install)}

\* status looks at the token and goes on in a blocking thread, which an abort of the
\* task does not stop.
StatusStarts(i) ==
    /\ task[i] = "running"
    /\ i \notin token
    /\ checking' = checking \cup {i}
    /\ UNCHANGED <<admissionVars, gateVars, taskVars, lock, repair, durable, clientVars,
                   registered, forceStop, awaiting, stage>>

\* It finds no marker, fails, or reconciles under a lock of its own.
StatusEnds(i) ==
    /\ i \in checking
    /\ \/ lock = None /\ Reconciled
       \/ UNCHANGED <<repair, durable>>
    /\ checking' = checking \ {i}
    /\ UNCHANGED <<admissionVars, gateVars, taskVars, lock, clientVars, registered,
                   forceStop, awaiting, stage>>

\* Whoever else looks at the model, a listing, a load or an import, finishes a repair
\* it finds.
OtherReconciles ==
    /\ lock = None
    /\ Reconciled
    /\ UNCHANGED <<admissionVars, gateVars, taskVars, lock, checking, clientVars, registered,
                   forceStop, awaiting, stage>>

\* The transaction takes the lock and reconciles before it prepares its staging.
TakeLock(i) ==
    /\ task[i] = "running"
    /\ i \notin checking
    /\ lock = None
    /\ lock' = i
    /\ \/ repair = None /\ UNCHANGED <<repair, durable>>
       \/ Reconciled
    /\ UNCHANGED <<admissionVars, gateVars, taskVars, checking, clientVars, registered,
                   forceStop, awaiting, stage>>

\* Mutant: the commit is stored, not exchanged.
BeginCommitUnchecked(i) ==
    /\ task[i] = "running"
    /\ lock = i
    /\ i \notin checking
    /\ gate' = [gate EXCEPT ![i] = "crossed"]
    /\ task' = [task EXCEPT ![i] = "committing"]
    /\ UNCHANGED <<admissionVars, token, aborted, result, cacheVars, clientVars,
                   registered, forceStop, awaiting, stage>>

\* InstallCommitGate::begin_commit inside the operation.
BeginCommit(i) ==
    /\ task[i] = "running"
    /\ lock = i
    /\ i \notin checking
    /\ gate[i] = "open"
    /\ gate' = [gate EXCEPT ![i] = "crossed"]
    /\ task' = [task EXCEPT ![i] = "committing"]
    /\ UNCHANGED <<admissionVars, token, aborted, result, cacheVars, clientVars,
                   registered, forceStop, awaiting, stage>>

\* promote: where a tree stands already, a repair marker is set first; then the
\* staged tree is in place and the lock is dropped.
ChangeCache(i) ==
    /\ task[i] = "committing"
    /\ lock = i
    /\ \/ repair = None /\ repair' = i /\ UNCHANGED <<lock, durable>>
       \/ repair \in {None, i} /\ repair' = None /\ lock' = None /\ durable' = durable \cup {i}
    /\ UNCHANGED <<admissionVars, gateVars, taskVars, checking, clientVars, registered,
                   forceStop, awaiting, stage>>

\* What the task owned is dropped, its lock with it.
DropTask(i) ==
    /\ task' = [task EXCEPT ![i] = "dropping"]
    /\ lock' = IF lock = i THEN None ELSE lock

\* The operation returns; its result is sent before the permit is given back.
\* Success without the gate is the already-installed fast path.  A promotion that
\* fails puts the previous tree back, or leaves its marker; behind one that succeeds
\* the last status reconciles what others left since.
OperationReturns(i) ==
    /\ task[i] \in {"running", "committing"}
    /\ i \notin checking
    /\ \E r \in {"ok", "failed"} :
         /\ r = "ok" /\ task[i] = "committing" => i \in durable
         /\ result' = [result EXCEPT ![i] = r]
    /\ \/ repair' \in {repair, IF repair = i THEN None ELSE repair} /\ UNCHANGED durable
       \/ task[i] = "committing" /\ i \in durable /\ lock = None /\ Reconciled
    /\ DropTask(i)
    /\ UNCHANGED <<admissionVars, gateVars, aborted, checking, clientVars, registered,
                   forceStop, awaiting, stage>>

\* The operation panics: its result is lost, what the task owns is dropped.
OperationPanics(i) ==
    /\ task[i] \in {"running", "committing"}
    /\ DropTask(i)
    /\ UNCHANGED <<admissionVars, gateVars, aborted, result, repair, durable, checking,
                   clientVars, registered, forceStop, awaiting, stage>>

\* An abort takes effect at an await point of the operation.
TaskAborts(i) ==
    /\ i \in aborted
    /\ task[i] \in {"running", "committing"}
    /\ DropTask(i)
    /\ UNCHANGED <<admissionVars, gateVars, aborted, result, repair, durable, checking,
                   clientVars, registered, forceStop, awaiting, stage>>

\* drop(active): the registration goes first, then the permit.
Unregister(i) ==
    /\ task[i] = "dropping"
    /\ task' = [task EXCEPT ![i] = "releasing"]
    /\ registered' = registered \ {i}
    /\ UNCHANGED <<admissionVars, gateVars, aborted, result, cacheVars, clientVars,
                   forceStop, awaiting, stage>>

\* Mutant: the destructor forgets the coordinator's half.
ReleasePermitHalf(o) ==
    /\ \/ /\ o \in Install => task[o] = "releasing"
          /\ A!ReleaseCount(o)
          /\ awaiting' = awaiting \ {o}
       \/ A!NotifyZero(o) /\ UNCHANGED awaiting
       \/ /\ permit[o] \in {"notify", "half"}
          /\ permit' = [permit EXCEPT ![o] = "none"]
          /\ UNCHANGED <<awaiting, admin, draining, coordinator, coordActive, admitted,
                         zeroLatch, waiter, flight, drained, deadline, unseen, caller, gone>>
    /\ UNCHANGED <<gateVars, taskVars, cacheVars, clientVars, registered, forceStop, stage>>

ReleasePermit(o) ==
    /\ \/ /\ o \in Install => task[o] = "releasing"
          /\ A!ReleaseCount(o)
          /\ awaiting' = awaiting \ {o}
       \/ A!NotifyZero(o) /\ UNCHANGED awaiting
       \/ A!ReleaseCoordinator(o) /\ UNCHANGED awaiting
    /\ UNCHANGED <<gateVars, taskVars, cacheVars, clientVars, registered, forceStop, stage>>

-----------------------------------------------------------------------------
(* Other admitted operations, and shutdown. *)

WorkEnter(w) ==
    /\ A!AdmitCoordinator(w) \/ A!AdmitCount(w)
    /\ UNCHANGED <<gateVars, taskVars, cacheVars, clientVars, registered, forceStop, awaiting, stage>>

WorkAwait(w) ==
    /\ permit[w] = "held"
    /\ w \notin awaiting
    /\ awaiting' = awaiting \cup {w}
    /\ UNCHANGED <<admissionVars, gateVars, taskVars, cacheVars, clientVars, registered, forceStop,
                   stage>>

\* A flight without a drained verdict first cancels the registered installs.
EnterStage ==
    IF flight' # "fencing" THEN stage ELSE IF drained' THEN "coordinator" ELSE "installs"

ShutdownCall(c) ==
    /\ \/ \E requested \in {"none", "ahead"} :
            \/ A!BeginShutdown(c, requested) /\ stage' = EnterStage
            \/ A!JoinShutdown(c, requested) /\ UNCHANGED stage
       \/ A!ReturnVerdict(c) /\ UNCHANGED stage
       \/ A!AbandonShutdown(c) /\ UNCHANGED stage
    /\ UNCHANGED <<gateVars, taskVars, cacheVars, clientVars, registered, forceStop, awaiting>>

FlightWait ==
    /\ \/ A!ArmWaiter \/ A!CheckDeadline \/ A!CheckCount
       \/ A!WakeDeadlineChanged \/ A!WakeTimer \/ A!WakeNotified
    /\ stage' = EnterStage
    /\ UNCHANGED <<gateVars, taskVars, cacheVars, clientVars, registered, forceStop, awaiting>>

Clock ==
    /\ A!ClockPasses
    /\ UNCHANGED <<gateVars, taskVars, cacheVars, clientVars, registered, forceStop, awaiting, stage>>

\* Mutant: a forced shutdown does not cancel the registered installs.
ShutdownForgetsInstalls ==
    /\ stage = "installs"
    /\ stage' = "force"
    /\ UNCHANGED <<admissionVars, gateVars, taskVars, cacheVars, clientVars, registered, forceStop, awaiting>>

ShutdownCancelInstalls ==
    /\ stage = "installs"
    /\ CancelBeforeCommit(registered)
    /\ stage' = "force"
    /\ UNCHANGED <<admissionVars, taskVars, cacheVars, clientVars, registered, forceStop, awaiting>>

\* watch::Sender::send stores nothing when no receiver exists at that moment.
ForceStopSent == forceStop \/ Receivers # {}

ShutdownForce ==
    /\ stage = "force"
    /\ forceStop' = ForceStopSent
    /\ stage' = "coordinator"
    /\ UNCHANGED <<admissionVars, gateVars, taskVars, cacheVars, clientVars, registered, awaiting>>

\* The rest of finish_shutdown does not look at installs.
ShutdownRest ==
    /\ \/ stage = "coordinator" /\ A!ForceStopCoordinator /\ stage' = "finish"
       \/ stage = "finish" /\ A!FinishFlight /\ stage' = "idle"
    /\ UNCHANGED <<gateVars, taskVars, cacheVars, clientVars, registered, forceStop, awaiting>>

\* Inner::drop.  Callers' futures borrow the runtime; detached tasks do not.
DropRuntime ==
    /\ \A i \in Install : client[i] \in {"idle", "returned", "dropped"}
    /\ A!DropInner
    /\ forceStop' = ForceStopSent
    /\ CancelBeforeCommit(registered)
    /\ UNCHANGED <<taskVars, cacheVars, clientVars, registered, awaiting, stage>>

-----------------------------------------------------------------------------
ClientStep(i) ==
    \/ BeginRegister(i) \/ StartTask(i) \/ ReceiveResult(i) \/ ReceiveClosed(i)
    \/ ReceiveForced(i)

ShutdownStage == ShutdownCancelInstalls \/ ShutdownForce \/ ShutdownRest

Next ==
    \/ \E i \in Install : \/ BeginEnter(i) \/ ClientStep(i) \/ CallerDropped(i)
                          \/ StatusStarts(i) \/ StatusEnds(i) \/ TakeLock(i)
                          \/ BeginCommit(i) \/ ChangeCache(i) \/ OperationReturns(i)
                          \/ OperationPanics(i) \/ TaskAborts(i) \/ Unregister(i)
    \/ \E o \in Op : ReleasePermit(o)
    \/ \E w \in Work : WorkEnter(w) \/ WorkAwait(w)
    \/ \E c \in Caller : ShutdownCall(c)
    \/ FlightWait \/ ShutdownStage \/ Clock \/ DropRuntime \/ OtherReconciles

Spec == Init /\ [][Next]_vars

\* Callers' futures, tasks that are being aborted or dropped, and the flight are
\* polled; an operation need not return unless it is in its durable phase, which
\* does not wait for the network.
FairSpec ==
    /\ Spec
    /\ \A i \in Install : /\ WF_vars(ClientStep(i))
                          /\ WF_vars(task[i] = "committing" /\ OperationReturns(i))
                          /\ WF_vars(StatusEnds(i))
                          /\ WF_vars(TaskAborts(i) \/ Unregister(i))
                          /\ WF_vars(ReleasePermit(i))
    /\ WF_vars(FlightWait \/ ShutdownStage)
    /\ WF_vars(Clock)

-----------------------------------------------------------------------------
(* Properties. *)

\* Every variable of the installs holds a value its Rust type can hold.
TypeOK ==
    /\ A!TypeOK
    /\ client \in [Install -> {"idle", "entering", "begun", "waiting", "late",
                               "returned", "dropped"}]
    /\ outcome \in [Install -> {"none", "ok", "failed", "lost", "shutting_down"}]
    /\ task \in [Install -> {"none", "running", "committing", "dropping", "releasing"}]
    /\ aborted \subseteq Install
    /\ result \in [Install -> {"none", "ok", "failed"}]
    /\ gate \in [Install -> {"open", "cancelled", "crossed"}]
    /\ token \subseteq Install
    /\ lock \in Install \cup {None}
    /\ repair \in Install \cup {None, Earlier}
    /\ durable \subseteq Install /\ checking \subseteq Install
    /\ registered \subseteq Install
    /\ forceStop \in BOOLEAN
    /\ awaiting \subseteq Work
    /\ stage \in {"idle", "installs", "force", "coordinator", "finish"}

\* The composition implements WorkAdmission: an install holds its permit from
\* begin_install to the end of its task.
AdmissionSpec == A!Spec

\* What a caller is told of its install is true.  ShuttingDown, or an abort, means
\* that the tree of this install is not promoted and never will be, by itself or by
\* another operation that finishes its repair: "a caller that wins cancellation knows
\* no promotion can start".  (Its own status and reconciliation may still finish what
\* an earlier install left, before the gate and after the cancellation.)  An install
\* that passed the gate is never aborted, and its caller is told what the operation
\* returned, or InstallFailed without a result only if it panicked.
VerdictIsTruthful ==
    TypeOK /\ \A i \in Install :
        /\ outcome[i] = "shutting_down" \/ i \in aborted =>
               /\ i \notin durable /\ repair # i
               /\ gate[i] = "cancelled" /\ task[i] # "committing"
        /\ gate[i] = "crossed" =>
               /\ outcome[i] # "none" =>
                      outcome[i] = IF result[i] = "none" THEN "lost" ELSE result[i]
               /\ i \notin aborted

\* After a shutdown has gone past the installs, or the runtime is gone, no install
\* passes the gate: behind a stopped runtime no promotion begins but that of an
\* install that was already committing.
NoCommitBehindStop ==
    [][(stage \in {"force", "coordinator", "finish"} \/ flight = "done" \/ gone)
         => (\A i \in Install : gate'[i] = "crossed" => gate[i] = "crossed")]_vars

\* A forced stop lets go of an install: a caller that is waiting when force_stop is
\* published returns, although its operation hangs in the cancellable phase, and a
\* task that was aborted gives its permit back.
ForcedStopReleases ==
    \A i \in Install :
        /\ (client[i] = "waiting" /\ forceStop) ~> client[i] \in {"returned", "dropped"}
        /\ i \in aborted ~> permit[i] = "none"
=============================================================================
