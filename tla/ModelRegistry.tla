---------------------------- MODULE ModelRegistry ----------------------------
(***************************************************************************)
(* The model registry of the runtime: reservation, native initialization   *)
(* and publication of a load, direct registration, leases, unload, delete, *)
(* the health entries, the per-model scheduler tasks, and what a shutdown  *)
(* does to all of them.                                                    *)
(*                                                                         *)
(* Composed with WorkAdmission, whose actions appear here conjoined with   *)
(* what the same step does to the registry; AdmissionSpec states that the  *)
(* composition implements that component.  Every critical section of the   *)
(* `admin` mutex is one action guarded by admin = None.                    *)
(*                                                                         *)
(* A Key is a ModelKey: next_key gives a fresh one to every load or        *)
(* registration, so a Key also names that operation.  Loads are the only   *)
(* holders of permits and receivers of force_stop here: to the registry an *)
(* embed or an install in flight is like the load of another key.          *)
(***************************************************************************)
EXTENDS Integers, FiniteSets

CONSTANTS
    Model,   \* canonical model identifiers
    Key,     \* model keys: one load or one registration each
    Holder,  \* owners of explicit RuntimeLeases
    Caller,  \* callers of shutdown
    None

ASSUME RegistryAssumption ==
    /\ IsFiniteSet(Key)
    /\ None \notin Key \cup Model

VARIABLES
    \* WorkAdmission
    admin, draining, coordinator, coordActive, admitted, permit, zeroLatch,
    waiter, flight, drained, deadline, unseen, caller, gone,
    \* Inner.models and Inner.loading: the key registered or reserved per model
    models, loading,
    accepting,    \* keys whose ModelSlot.accepting is true
    lease,        \* the key each holder's RuntimeLease refers to
    modelHealth,  \* HealthRegistry entry of each key
    lifecycle,    \* HealthRegistry lifecycle
    schedulers,   \* keys of Inner.schedulers
    retired,      \* keys of Inner.retired_schedulers
    task,         \* the scheduler task of each key
    joining,      \* keys of the tasks finish_shutdown joins
    forceStop,    \* the value in the Inner.force_stop watch
    target,       \* the model each key is for
    loadPc,       \* program counter of the load of each key
    job,          \* the native job of each load
    present,      \* models whose artifacts are in the store
    stage         \* where finish_shutdown is between the steps of the flight

A == INSTANCE WorkAdmission WITH Op <- Key, Detached <- {}, NoOp <- None

admissionVars == <<admin, draining, coordinator, coordActive, admitted, permit,
                   zeroLatch, waiter, flight, drained, deadline, unseen, caller, gone>>
registryVars == <<models, loading, accepting, modelHealth>>
taskVars == <<schedulers, retired, task, joining>>
loadVars == <<target, loadPc, job>>
vars == <<admissionVars, registryVars, taskVars, loadVars, lease, lifecycle,
          forceStop, present, stage>>

Init ==
    /\ A!Init
    /\ models = [m \in Model |-> None]
    /\ loading = [m \in Model |-> None]
    /\ accepting = {}
    /\ lease = [h \in Holder |-> None]
    /\ modelHealth = [k \in Key |-> "absent"]
    /\ lifecycle = "Ready"
    /\ schedulers = {}
    /\ retired = {}
    /\ task = [k \in Key |-> "none"]
    /\ joining = {}
    /\ forceStop = FALSE
    /\ target = [k \in Key |-> None]
    /\ loadPc = [k \in Key |-> "idle"]
    /\ job = [k \in Key |-> "none"]
    /\ present = Model
    /\ stage = "idle"

Registered == {k \in Key : \E m \in Model : models[m] = k}

\* No key is registered or reserved for m, and the runtime still takes admin
\* work: what load_with, register_engine and delete look at under admin.
Vacant(m) == ~draining /\ models[m] = None /\ loading[m] = None

\* An engine of model m is alive and was built from the verified store: the
\* VerifiedModel inside it keeps the shared store lock.
StoreLeased(m) ==
    \E k \in Key : /\ target[k] = m
                   /\ \/ job[k] \in {"running", "ok"}
                      \/ /\ job[k] = "taken"
                         /\ \/ k \in Registered
                            \/ task[k] \in {"live", "stopping"}

\* Live receivers of the force_stop watch.
Receivers == {k \in Key : loadPc[k] \in {"waiting", "starting"}}

-----------------------------------------------------------------------------
(* load_with.  The permit outlives the reservation, which outlives the       *)
(* receivers: a failed load goes through "cleanup" and then "release".       *)

LoadEnter(k, m) ==
    /\ loadPc[k] = "idle"
    /\ A!AdmitCoordinator(k)
    /\ loadPc' = [loadPc EXCEPT ![k] = "entering"]
    /\ target' = [target EXCEPT ![k] = m]
    /\ UNCHANGED <<registryVars, taskVars, job, lease, lifecycle, forceStop, present, stage>>

LoadAdmitted(k) ==
    /\ loadPc[k] = "entering"
    /\ A!AdmitCount(k)
    /\ loadPc' = [loadPc EXCEPT ![k] = "admitted"]
    /\ UNCHANGED <<registryVars, taskVars, target, job, lease, lifecycle, forceStop, present, stage>>

\* The reservation is published under admin, after a second look at draining.
LoadReserve(k) ==
    /\ loadPc[k] = "admitted"
    /\ admin = None
    /\ LET m == target[k]
       IN  IF Vacant(m)
             THEN /\ loading' = [loading EXCEPT ![m] = k]
                  /\ modelHealth' = [modelHealth EXCEPT ![k] = "Loading"]
                  /\ loadPc' = [loadPc EXCEPT ![k] = "reserved"]
             ELSE /\ loadPc' = [loadPc EXCEPT ![k] = "cleanup"]
                  /\ UNCHANGED <<loading, modelHealth>>
    /\ UNCHANGED <<admissionVars, models, accepting, taskVars, target, job, lease,
                   lifecycle, forceStop, present, stage>>

\* pool.try_execute: refused when embeds and loads fill the bounded queue.
LoadSubmit(k) ==
    /\ loadPc[k] = "reserved"
    /\ \/ /\ job' = [job EXCEPT ![k] = "queued"]
          /\ loadPc' = [loadPc EXCEPT ![k] = "submitted"]
       \/ /\ loadPc' = [loadPc EXCEPT ![k] = "cleanup"]
          /\ UNCHANGED job
    /\ UNCHANGED <<admissionVars, registryVars, taskVars, target, lease, lifecycle,
                   forceStop, present, stage>>

\* The receiver of the native result disappears: a result in it is dropped.
DropResult(k) == IF job[k] = "ok" THEN [job EXCEPT ![k] = "dropped"] ELSE job

LoadSubscribe(k) ==
    /\ loadPc[k] = "submitted"
    /\ loadPc' = [loadPc EXCEPT ![k] = IF forceStop THEN "cleanup" ELSE "waiting"]
    /\ job' = IF forceStop THEN DropResult(k) ELSE job
    /\ UNCHANGED <<admissionVars, registryVars, taskVars, target, lease, lifecycle,
                   forceStop, present, stage>>

\* The first branch of the biased select.
LoadForced(k) ==
    /\ loadPc[k] = "waiting"
    /\ forceStop
    /\ loadPc' = [loadPc EXCEPT ![k] = "cleanup"]
    /\ job' = DropResult(k)
    /\ UNCHANGED <<admissionVars, registryVars, taskVars, target, lease, lifecycle,
                   forceStop, present, stage>>

\* The second branch: an engine spawns its scheduler, an error ends the load.
LoadReceive(k) ==
    /\ loadPc[k] = "waiting"
    /\ ~forceStop
    /\ \/ /\ job[k] = "ok"
          /\ job' = [job EXCEPT ![k] = "taken"]
          /\ task' = [task EXCEPT ![k] = "live"]
          /\ loadPc' = [loadPc EXCEPT ![k] = "starting"]
       \/ /\ job[k] = "failed"
          /\ loadPc' = [loadPc EXCEPT ![k] = "cleanup"]
          /\ UNCHANGED <<job, task>>
    /\ UNCHANGED <<admissionVars, registryVars, schedulers, retired, joining, target,
                   lease, lifecycle, forceStop, present, stage>>

\* The startup handshake fails: the executor dropped the task without running it.
LoadStartupFails(k) ==
    /\ loadPc[k] = "starting"
    /\ loadPc' = [loadPc EXCEPT ![k] = "cleanup"]
    /\ task' = [task EXCEPT ![k] = "gone"]
    /\ UNCHANGED <<admissionVars, registryVars, schedulers, retired, joining, target,
                   job, lease, lifecycle, forceStop, present, stage>>

\* register_reserved_engine after the handshake: publish under admin, or drop
\* the candidate, which stops and aborts the scheduler without joining it.
LoadPublish(k) ==
    /\ loadPc[k] = "starting"
    /\ admin = None
    /\ LET m == target[k]
           publish == ~draining /\ models[m] = None /\ loading[m] = k
       IN  IF publish
             THEN /\ schedulers' = schedulers \cup {k}
                  /\ models' = [models EXCEPT ![m] = k]
                  /\ loading' = [loading EXCEPT ![m] = None]
                  /\ accepting' = accepting \cup {k}
                  /\ modelHealth' = [modelHealth EXCEPT ![k] = "Ready"]
                  /\ loadPc' = [loadPc EXCEPT ![k] = "published"]
                  /\ UNCHANGED task
             ELSE /\ task' = [task EXCEPT ![k] = "stopping"]
                  /\ loadPc' = [loadPc EXCEPT ![k] = "cleanup"]
                  /\ UNCHANGED <<schedulers, registryVars>>
    /\ UNCHANGED <<admissionVars, retired, joining, target, job, lease, lifecycle,
                   forceStop, present, stage>>

\* The load future is dropped at one of its two await points.
LoadAbandon(k) ==
    /\ loadPc[k] \in {"waiting", "starting"}
    /\ loadPc' = [loadPc EXCEPT ![k] = "cleanup"]
    /\ job' = DropResult(k)
    /\ task' = IF loadPc[k] = "starting" THEN [task EXCEPT ![k] = "stopping"] ELSE task
    /\ UNCHANGED <<admissionVars, registryVars, schedulers, retired, joining, target,
                   lease, lifecycle, forceStop, present, stage>>

\* Mutant: a dropped reservation leaves its health entry.
LoadCleanupLeaks(k) ==
    /\ loadPc[k] = "cleanup"
    /\ admin = None
    /\ loading' = [loading EXCEPT ![target[k]] = IF @ = k THEN None ELSE @]
    /\ loadPc' = [loadPc EXCEPT ![k] = "release"]
    /\ UNCHANGED <<admissionVars, models, accepting, modelHealth, taskVars, target, job, lease,
                   lifecycle, forceStop, present, stage>>

\* LoadReservation::drop of an armed reservation: only its own entry goes.
LoadCleanup(k) ==
    /\ loadPc[k] = "cleanup"
    /\ admin = None
    /\ loading' = [loading EXCEPT ![target[k]] = IF @ = k THEN None ELSE @]
    /\ modelHealth' = [modelHealth EXCEPT ![k] = "absent"]
    /\ loadPc' = [loadPc EXCEPT ![k] = "release"]
    /\ UNCHANGED <<admissionVars, models, accepting, taskVars, target, job, lease,
                   lifecycle, forceStop, present, stage>>

\* The steps of the permit's destructor.
ReleasePermit(k) ==
    /\ \/ loadPc[k] \in {"release", "published"} /\ A!ReleaseCount(k)
       \/ A!NotifyZero(k)
       \/ A!ReleaseCoordinator(k)
    /\ loadPc' = IF loadPc[k] = "release" /\ permit'[k] = "none"
                   THEN [loadPc EXCEPT ![k] = "done"] ELSE loadPc
    /\ UNCHANGED <<registryVars, taskVars, target, job, lease, lifecycle, forceStop,
                   present, stage>>

-----------------------------------------------------------------------------
(* The native job of a load, on a thread of the blocking pool. *)

\* store.verified_model takes the shared store lock, or fails.
JobStart(k) ==
    /\ job[k] = "queued"
    /\ job' = [job EXCEPT ![k] = IF target[k] \in present THEN "running" ELSE "failed"]
    /\ UNCHANGED <<admissionVars, registryVars, taskVars, target, loadPc, lease,
                   lifecycle, forceStop, present, stage>>

\* The engine is sent to the load, or dropped with its lock when nobody waits.
JobFinish(k) ==
    /\ job[k] = "running"
    /\ \E result \in {"ok", "failed"} :
         job' = [job EXCEPT ![k] =
                   IF result = "ok" /\ loadPc[k] \notin {"submitted", "waiting"}
                     THEN "dropped" ELSE result]
    /\ UNCHANGED <<admissionVars, registryVars, taskVars, target, loadPc, lease,
                   lifecycle, forceStop, present, stage>>

-----------------------------------------------------------------------------
(* register_engine, lease, unload, delete. *)

\* Registration of a ready engine takes no permit: one critical section.
RegisterEngine(k, m) ==
    /\ ~gone
    /\ admin = None
    /\ loadPc[k] = "idle"
    /\ Vacant(m)
    /\ target' = [target EXCEPT ![k] = m]
    /\ task' = [task EXCEPT ![k] = "live"]
    /\ schedulers' = schedulers \cup {k}
    /\ models' = [models EXCEPT ![m] = k]
    /\ accepting' = accepting \cup {k}
    /\ modelHealth' = [modelHealth EXCEPT ![k] = "Ready"]
    /\ loadPc' = [loadPc EXCEPT ![k] = "published"]
    /\ UNCHANGED <<admissionVars, loading, retired, joining, job, lease, lifecycle,
                   forceStop, present, stage>>

\* lease holds the read lock of models, not admin: it may run at any time.
AcquireLease(h, m) ==
    /\ ~gone
    /\ lease[h] = None
    /\ models[m] \in accepting
    /\ lease' = [lease EXCEPT ![h] = models[m]]
    /\ UNCHANGED <<admissionVars, registryVars, taskVars, loadVars, lifecycle,
                   forceStop, present, stage>>

DropLease(h) ==
    /\ lease[h] # None
    /\ lease' = [lease EXCEPT ![h] = None]
    /\ UNCHANGED <<admissionVars, registryVars, taskVars, loadVars, lifecycle,
                   forceStop, present, stage>>

\* Mutant: unload does not look at the leases.
UnloadInUse(m) ==
    /\ ~gone
    /\ admin = None
    /\ ~draining
    /\ models[m] # None
    /\ LET k == models[m]
       IN  /\ accepting' = accepting \ {k}
           /\ models' = [models EXCEPT ![m] = None]
           /\ schedulers' = schedulers \ {k}
           /\ task' = [task EXCEPT ![k] = "stopping"]
           /\ retired' = {r \in retired : task[r] # "gone"} \cup {k}
           /\ modelHealth' = [modelHealth EXCEPT ![k] = "absent"]
    /\ UNCHANGED <<admissionVars, loading, joining, loadVars, lease, lifecycle,
                   forceStop, present, stage>>

\* Mutant: the handle of an unloaded scheduler is dropped, not retired.
UnloadDetaches(m) ==
    /\ ~gone
    /\ admin = None
    /\ ~draining
    /\ models[m] # None
    /\ LET k == models[m]
       IN  /\ \A h \in Holder : lease[h] # k
           /\ accepting' = accepting \ {k}
           /\ models' = [models EXCEPT ![m] = None]
           /\ schedulers' = schedulers \ {k}
           /\ task' = [task EXCEPT ![k] = "stopping"]
           /\ retired' = {r \in retired : task[r] # "gone"}
           /\ modelHealth' = [modelHealth EXCEPT ![k] = "absent"]
    /\ UNCHANGED <<admissionVars, loading, joining, loadVars, lease, lifecycle,
                   forceStop, present, stage>>

\* The write lock of models spans the look at the leases and the removal.
Unload(m) ==
    /\ ~gone
    /\ admin = None
    /\ ~draining
    /\ models[m] # None
    /\ LET k == models[m]
       IN  /\ \A h \in Holder : lease[h] # k
           /\ accepting' = accepting \ {k}
           /\ models' = [models EXCEPT ![m] = None]
           /\ schedulers' = schedulers \ {k}
           /\ task' = [task EXCEPT ![k] = "stopping"]
           /\ retired' = {r \in retired : task[r] # "gone"} \cup {k}
           /\ modelHealth' = [modelHealth EXCEPT ![k] = "absent"]
    /\ UNCHANGED <<admissionVars, loading, joining, loadVars, lease, lifecycle,
                   forceStop, present, stage>>

\* Mutant: delete looks neither at the registry nor at the store's lock.
DeleteUnguarded(m) ==
    /\ ~gone
    /\ admin = None
    /\ present' = present \ {m}
    /\ UNCHANGED <<admissionVars, registryVars, taskVars, loadVars, lease, lifecycle,
                   forceStop, stage>>

\* store.delete runs under admin and needs the exclusive store lock.
Delete(m) ==
    /\ ~gone
    /\ admin = None
    /\ Vacant(m)
    /\ ~StoreLeased(m)
    /\ present' = present \ {m}
    /\ UNCHANGED <<admissionVars, registryVars, taskVars, loadVars, lease, lifecycle,
                   forceStop, stage>>

\* An installation brings the artifacts back (see the installation modules).
Reinstall(m) ==
    /\ m \notin present
    /\ present' = present \cup {m}
    /\ UNCHANGED <<admissionVars, registryVars, taskVars, loadVars, lease, lifecycle,
                   forceStop, stage>>

\* A scheduler told to stop, or aborted, ends at its next await point.
SchedulerExit(k) ==
    /\ task[k] = "stopping"
    /\ task' = [task EXCEPT ![k] = "gone"]
    /\ UNCHANGED <<admissionVars, registryVars, schedulers, retired, joining, loadVars,
                   lease, lifecycle, forceStop, present, stage>>

-----------------------------------------------------------------------------
(* Shutdown: the flight of WorkAdmission, and between its steps the stages   *)
(* of finish_shutdown that concern the registry.                             *)

\* shutdown publishes Draining in the critical section that begins the flight.
\* The flight that has its verdict goes on to "force" or to "slots".
EnterStage == IF flight' # "fencing" THEN stage ELSE IF drained' THEN "slots" ELSE "force"

ShutdownCall(c) ==
    /\ \/ \E requested \in {"none", "ahead"} :
            \/ /\ A!BeginShutdown(c, requested)
               /\ lifecycle' = "Draining"
               /\ stage' = EnterStage
            \/ A!JoinShutdown(c, requested) /\ UNCHANGED <<lifecycle, stage>>
       \/ A!ReturnVerdict(c) /\ UNCHANGED <<lifecycle, stage>>
       \/ A!AbandonShutdown(c) /\ UNCHANGED <<lifecycle, stage>>
    /\ UNCHANGED <<registryVars, taskVars, loadVars, lease, forceStop, present>>

FlightWait ==
    /\ \/ A!ArmWaiter \/ A!CheckDeadline \/ A!CheckCount
       \/ A!WakeDeadlineChanged \/ A!WakeTimer \/ A!WakeNotified
    /\ stage' = EnterStage
    /\ UNCHANGED <<registryVars, taskVars, loadVars, lease, lifecycle, forceStop, present>>

Clock ==
    /\ A!ClockPasses
    /\ UNCHANGED <<registryVars, taskVars, loadVars, lease, lifecycle, forceStop, present, stage>>

\* watch::Sender::send stores nothing when no receiver exists at that moment.
ForceStopSent == forceStop \/ Receivers # {}

ShutdownForce ==
    /\ stage = "force"
    /\ forceStop' = ForceStopSent
    /\ stage' = "slots"
    /\ UNCHANGED <<admissionVars, registryVars, taskVars, loadVars, lease, lifecycle,
                   present>>

ShutdownSlots ==
    /\ stage = "slots"
    /\ accepting' = accepting \ Registered
    /\ stage' = "coordinator"
    /\ UNCHANGED <<admissionVars, models, loading, modelHealth, taskVars, loadVars,
                   lease, lifecycle, forceStop, present>>

\* Mutant: finish_shutdown does not stop the coordinator.
ShutdownLeavesCoordinator ==
    /\ stage = "coordinator"
    /\ flight' = "closing"
    /\ UNCHANGED <<admin, draining, coordinator, coordActive, admitted, permit, zeroLatch,
                   waiter, drained, deadline, unseen, caller, gone>>
    /\ stage' = "collect"
    /\ UNCHANGED <<registryVars, taskVars, loadVars, lease, lifecycle, forceStop, present>>

ShutdownCoordinatorStop ==
    /\ stage = "coordinator"
    /\ A!ForceStopCoordinator
    /\ stage' = "collect"
    /\ UNCHANGED <<registryVars, taskVars, loadVars, lease, lifecycle, forceStop, present>>

\* Drain both task registries, signal stop and abort what still runs.
StopTasks(keys) ==
    [k \in Key |-> IF k \in keys /\ task[k] = "live" THEN "stopping" ELSE task[k]]

ShutdownCollect ==
    /\ stage = "collect"
    /\ joining' = schedulers \cup retired
    /\ schedulers' = {}
    /\ retired' = {}
    /\ task' = StopTasks(schedulers \cup retired)
    /\ stage' = "join"
    /\ UNCHANGED <<admissionVars, registryVars, loadVars, lease, lifecycle, forceStop, present>>

ShutdownJoin ==
    /\ stage = "join"
    /\ \A k \in joining : task[k] = "gone"
    /\ joining' = {}
    /\ stage' = "clear"
    /\ UNCHANGED <<admissionVars, registryVars, schedulers, retired, task, loadVars,
                   lease, lifecycle, forceStop, present>>

ShutdownClear ==
    /\ stage = "clear"
    /\ admin = None
    /\ models' = [m \in Model |-> None]
    /\ loading' = [m \in Model |-> None]
    /\ stage' = "health"
    /\ UNCHANGED <<admissionVars, accepting, modelHealth, taskVars, loadVars, lease,
                   lifecycle, forceStop, present>>

ShutdownClearHealth ==
    /\ stage = "health"
    /\ modelHealth' = [k \in Key |-> "absent"]
    /\ stage' = "stop"
    /\ UNCHANGED <<admissionVars, models, loading, accepting, taskVars, loadVars, lease,
                   lifecycle, forceStop, present>>

ShutdownStop ==
    /\ stage = "stop"
    /\ lifecycle' = "Stopped"
    /\ stage' = "finish"
    /\ UNCHANGED <<admissionVars, registryVars, taskVars, loadVars, lease, forceStop, present>>

ShutdownFinish ==
    /\ stage = "finish"
    /\ A!FinishFlight
    /\ stage' = "idle"
    /\ UNCHANGED <<registryVars, taskVars, loadVars, lease, lifecycle, forceStop, present>>

\* Inner::drop: the same fences without waiting for anything.
DropRuntime ==
    /\ A!DropInner
    /\ forceStop' = ForceStopSent
    /\ accepting' = accepting \ Registered
    /\ task' = StopTasks(schedulers \cup retired)
    /\ schedulers' = {}
    /\ retired' = {}
    /\ models' = [m \in Model |-> None]
    /\ loading' = [m \in Model |-> None]
    /\ modelHealth' = [k \in Key |-> "absent"]
    /\ lifecycle' = "Stopped"
    /\ UNCHANGED <<joining, loadVars, lease, present, stage>>

-----------------------------------------------------------------------------
\* The steps a load takes by itself once it has been called.
LoadStep(k) ==
    \/ LoadAdmitted(k) \/ LoadReserve(k) \/ LoadSubmit(k) \/ LoadSubscribe(k)
    \/ LoadForced(k) \/ LoadReceive(k) \/ LoadStartupFails(k) \/ LoadPublish(k)
    \/ LoadCleanup(k)

ShutdownStage ==
    \/ ShutdownForce \/ ShutdownSlots \/ ShutdownCoordinatorStop \/ ShutdownCollect
    \/ ShutdownJoin \/ ShutdownClear \/ ShutdownClearHealth \/ ShutdownStop
    \/ ShutdownFinish

Next ==
    \/ \E k \in Key : \/ LoadStep(k) \/ LoadAbandon(k) \/ ReleasePermit(k)
                      \/ JobStart(k) \/ JobFinish(k) \/ SchedulerExit(k)
                      \/ \E m \in Model : LoadEnter(k, m) \/ RegisterEngine(k, m)
    \/ \E m \in Model : \/ Unload(m) \/ Delete(m) \/ Reinstall(m)
                        \/ \E h \in Holder : AcquireLease(h, m)
    \/ \E h \in Holder : DropLease(h)
    \/ \E c \in Caller : ShutdownCall(c)
    \/ FlightWait \/ ShutdownStage \/ Clock \/ DropRuntime

Spec == Init /\ [][Next]_vars

\* Futures and tasks on the executor are polled when they can move, and the
\* clock moves.  Nothing is assumed of native initialization, of embeds or of
\* the people who call unload and delete.
FairSpec ==
    /\ Spec
    /\ \A k \in Key : /\ WF_vars(LoadStep(k))
                      /\ WF_vars(ReleasePermit(k))
                      /\ WF_vars(SchedulerExit(k))
    /\ WF_vars(FlightWait \/ ShutdownStage)
    /\ WF_vars(Clock)

-----------------------------------------------------------------------------
(* Properties. *)

LoadState == {"idle", "entering", "admitted", "reserved", "submitted", "waiting",
              "starting", "published", "cleanup", "release", "done"}

\* Every field of the registry holds a value its Rust type can hold.
TypeOK ==
    /\ A!TypeOK
    /\ models \in [Model -> Key \cup {None}]
    /\ loading \in [Model -> Key \cup {None}]
    /\ accepting \subseteq Key
    /\ lease \in [Holder -> Key \cup {None}]
    /\ modelHealth \in [Key -> {"absent", "Loading", "Ready"}]
    /\ lifecycle \in {"Ready", "Draining", "Stopped"}
    /\ schedulers \subseteq Key
    /\ retired \subseteq Key
    /\ task \in [Key -> {"none", "live", "stopping", "gone"}]
    /\ joining \subseteq Key
    /\ forceStop \in BOOLEAN
    /\ target \in [Key -> Model \cup {None}]
    /\ loadPc \in [Key -> LoadState]
    /\ job \in [Key -> {"none", "queued", "running", "ok", "taken", "failed", "dropped"}]
    /\ present \subseteq Model
    /\ stage \in {"idle", "force", "slots", "coordinator", "collect", "join", "clear",
                  "health", "stop", "finish"}

\* The composition implements WorkAdmission, with all that holds of it: loads,
\* embeds and finish_shutdown use admission the way that component expects.
AdmissionSpec == A!Spec

\* A model is never registered and reserved at once, a key never stands for two
\* models, and the health registry shows exactly the registered models as Ready
\* and the reserved ones as Loading, except between the two last steps of a
\* shutdown: no interleaving of failed, abandoned and published loads leaks a
\* reservation or an entry.
RegistryConsistent ==
    /\ TypeOK
    /\ \A m \in Model : models[m] = None \/ loading[m] = None
    /\ \A m \in Model : models[m] # None => target[models[m]] = m
    /\ \A m \in Model : loading[m] # None => target[loading[m]] = m
    /\ stage # "health" =>
           \A k \in Key :
               /\ modelHealth[k] = "Ready" <=> \E m \in Model : models[m] = k
               /\ modelHealth[k] = "Loading" <=> \E m \in Model : loading[m] = k

\* A lease keeps its model registered until a shutdown clears the registry:
\* "RAII capability preventing unload/delete".
LeasePinsModel ==
    \A h \in Holder :
        lease[h] # None =>
            \/ models[target[lease[h]]] = lease[h]
            \/ stage \in {"health", "stop", "finish"}
            \/ lifecycle = "Stopped"

\* A registered model has behind it what it needs: its scheduler runs as long as
\* it accepts requests, and if it was loaded from the store its artifacts are
\* still there, since delete and a load never overlap, whoever abandons what.
ServingIsBacked ==
    /\ \A k \in accepting : k \in Registered => task[k] = "live" /\ k \in schedulers
    /\ \A m \in Model : models[m] # None /\ job[models[m]] = "taken" => m \in present

\* Once Stopped is published, no registry or health entry exists, the scheduler of
\* every model that was ever registered has been joined, unloaded ones included,
\* and a load that is still running cannot bring anything back.
StoppedIsClean ==
    lifecycle = "Stopped" =>
        /\ \A m \in Model : models[m] = None /\ loading[m] = None
        /\ \A k \in Key : modelHealth[k] = "absent"
        /\ accepting = {}
        /\ ~gone => \A k \in Key : loadPc[k] = "published" => task[k] = "gone"

\* What the comments in load_with say of forced shutdown: it terminates the load
\* future and releases its accounting.
ForcedShutdownEndsLoads ==
    \A k \in Key : (flight = "done" /\ ~drained /\ loadPc[k] # "idle")
                       ~> loadPc[k] \in {"published", "done"}
=============================================================================
