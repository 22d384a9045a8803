------------------------- MODULE ModelRegistryProofs -------------------------
(***************************************************************************)
(* Proofs about ModelRegistry, for any finite set of keys and any sets of  *)
(* models, holders of leases and callers of shutdown: the composition      *)
(* implements WorkAdmission; the layers of the inductive invariant, each   *)
(* of which uses the ones before it; and what follows from all of them.    *)
(***************************************************************************)
EXTENDS ModelRegistry, TLAPS

-----------------------------------------------------------------------------
(* The composition implements WorkAdmission. *)

\* The steps of one key that run without anybody calling the runtime, those of
\* the callers of its other operations, and the steps of a shutdown that leave
\* the registry alone.
KeyStep(k) ==
    LoadStep(k) \/ LoadAbandon(k) \/ ReleasePermit(k) \/ JobStart(k) \/ JobFinish(k)
        \/ SchedulerExit(k)
CallStep ==
    \/ \E k \in Key, m \in Model : LoadEnter(k, m) \/ RegisterEngine(k, m)
    \/ \E m \in Model : Unload(m) \/ Delete(m) \/ Reinstall(m)
    \/ \E h \in Holder, m \in Model : AcquireLease(h, m)
    \/ \E h \in Holder : DropLease(h)
DrainStep == (\E c \in Caller : ShutdownCall(c)) \/ FlightWait \/ Clock

\* These, the stages of finish_shutdown and the drop of the runtime are all.
LEMMA NextSteps ==
    [Next]_vars =>
        \/ \E k \in Key : KeyStep(k)
        \/ CallStep \/ DrainStep \/ ShutdownStage \/ DropRuntime
        \/ UNCHANGED vars
BY Zenon DEF Next, KeyStep, CallStep, DrainStep

\* The initial states agree.
LEMMA AdmissionInit == Init => A!Init
BY Zenon DEF Init

\* Every step is a step of admission, or leaves it alone.
LEMMA AdmissionStep == [Next]_vars => [A!Next]_(A!vars)
<1> SUFFICES ASSUME [Next]_vars
             PROVE  A!Next \/ UNCHANGED A!vars
  BY Zenon
<1> USE DEF admissionVars, A!vars
<1>1. CASE UNCHANGED vars
  BY <1>1, Zenon DEF vars
<1>2. ASSUME NEW k \in Key, KeyStep(k)
      PROVE  A!Next \/ UNCHANGED A!vars
  <2>1. CASE LoadAdmitted(k) \/ ReleasePermit(k)
    BY <2>1, Zenon DEF LoadAdmitted, ReleasePermit, A!Next
  <2> QED
    BY <1>2, <2>1, Zenon DEF KeyStep, LoadStep, LoadReserve, LoadSubmit, LoadSubscribe, LoadForced,
       LoadReceive, LoadStartupFails, LoadPublish, LoadCleanup, LoadAbandon, JobStart,
       JobFinish, SchedulerExit
<1>3. CASE CallStep
  BY <1>3 DEF CallStep, LoadEnter, RegisterEngine, Unload, Delete, Reinstall, AcquireLease,
     DropLease, A!Next
<1>4. CASE DrainStep
  BY <1>4, Zenon DEF DrainStep, ShutdownCall, FlightWait, Clock, A!Next, A!Flight
<1>5. CASE ShutdownStage
  BY <1>5, Zenon DEF ShutdownStage, ShutdownForce, ShutdownSlots, ShutdownCoordinatorStop,
     ShutdownCollect, ShutdownJoin, ShutdownClear, ShutdownClearHealth, ShutdownStop,
     ShutdownFinish, A!Next, A!Flight
<1>6. CASE DropRuntime
  BY <1>6, Zenon DEF DropRuntime, A!Next
<1> HIDE DEF admissionVars, A!vars
<1> QED
  BY <1>1, <1>2, <1>3, <1>4, <1>5, <1>6, NextSteps, Zenon

\* Loads, direct registrations, unloads and the stages of finish_shutdown use
\* admission as WorkAdmission describes it, so all that holds there holds here.
THEOREM ImplementsAdmission == Spec => AdmissionSpec
BY AdmissionInit, AdmissionStep, PTL DEF Spec, AdmissionSpec, A!Spec

-----------------------------------------------------------------------------
(* The inductive invariant, in layers: each uses the ones before it. *)

\* What is needed of admission, which WorkAdmission proves.
AdmissionSound ==
    /\ flight # "none" <=> draining
    /\ gone => flight \in {"done", "aborted"}

\* Every variable of the registry is well typed, admission aside.
RegistryTypes ==
    /\ models \in [Model -> Key \cup {None}]
    /\ loading \in [Model -> Key \cup {None}]
    /\ accepting \subseteq Key
    /\ lease \in [Holder -> Key \cup {None}]
    /\ modelHealth \in [Key -> {"absent", "Loading", "Ready"}]
    /\ lifecycle \in {"Ready", "Draining", "Stopped"}
    /\ schedulers \subseteq Key
    /\ retired \subseteq Key
    /\ task \in [Key -> {"none", "live", "stopping", "gone"}]
    /\ joining \subseteq Key
    /\ forceStop \in BOOLEAN
    /\ target \in [Key -> Model \cup {None}]
    /\ loadPc \in [Key -> LoadState]
    /\ job \in [Key -> {"none", "queued", "running", "ok", "taken", "failed", "dropped"}]
    /\ present \subseteq Model
    /\ stage \in {"idle", "force", "slots", "coordinator", "collect", "join", "clear",
                  "health", "stop", "finish"}

\* How far finish_shutdown is agrees with the flight that runs it, and Stopped is
\* published by its last stage or by the drop of the runtime.
StageInv ==
    /\ stage \in {"force", "slots", "coordinator"} <=> flight = "fencing"
    /\ stage \in {"collect", "join", "clear", "health", "stop", "finish"} <=> flight = "closing"
    /\ lifecycle = "Stopped" <=> stage = "finish" \/ flight = "done" \/ gone

\* What the position of a load says of its key.  A key is in a task registry only
\* after its publication, and a load that waits for the handshake of its
\* scheduler has taken its engine.
KeyAt(k) ==
    /\ loadPc[k] # "idle" => target[k] \in Model
    /\ loadPc[k] \in {"idle", "entering", "admitted", "reserved"} =>
           job[k] = "none" /\ task[k] = "none"
    /\ loadPc[k] \in {"submitted", "waiting"} => job[k] # "taken" /\ task[k] = "none"
    /\ loadPc[k] = "starting" => job[k] = "taken" /\ task[k] = "live"
    /\ loadPc[k] = "published" => job[k] \in {"none", "taken"} /\ task[k] # "none"
    /\ k \in schedulers \cup retired \cup joining => loadPc[k] = "published"

KeyInv == RegistryTypes /\ \A k \in Key : KeyAt(k)

\* The registry is past the point where a shutdown, or the drop of the runtime,
\* clears it.
Cleared == stage \in {"health", "stop", "finish"} \/ flight = "done" \/ gone

\* The entries of a model and of its reservation, each of its own key, exclude
\* each other and agree with the health entries.
Reserving == {"reserved", "submitted", "waiting", "starting", "cleanup"}
OneEntry == \A m \in Model : models[m] = None \/ loading[m] = None
ModelEntry ==
    \A m \in Model : models[m] # None =>
        target[models[m]] = m /\ loadPc[models[m]] = "published"
LoadingEntry ==
    \A m \in Model : loading[m] # None =>
        target[loading[m]] = m /\ loadPc[loading[m]] \in Reserving
EmptyOnceCleared == Cleared => \A m \in Model : models[m] = None /\ loading[m] = None
HealthEntry(k) ==
    /\ modelHealth[k] = "Ready" <=> \E m \in Model : models[m] = k
    /\ modelHealth[k] = "Loading" <=> \E m \in Model : loading[m] = k
EntryInv ==
    /\ OneEntry
    /\ ModelEntry
    /\ LoadingEntry
    /\ EmptyOnceCleared
    /\ stage # "health" => \A k \in Key : HealthEntry(k)

-----------------------------------------------------------------------------
(* The stages of a shutdown. *)

\* Neither a step of a key nor a call other than shutdown moves the shutdown.
LEMMA ShutdownKept ==
    ASSUME (\E k \in Key : KeyStep(k)) \/ CallStep \/ UNCHANGED vars
    PROVE  UNCHANGED <<draining, flight, gone, stage, lifecycle, forceStop>>
<1> USE DEF admissionVars
<1>1. ASSUME NEW k \in Key, KeyStep(k)
      PROVE  UNCHANGED <<draining, flight, gone, stage, lifecycle, forceStop>>
  <2>1. CASE LoadAdmitted(k) \/ ReleasePermit(k)
    BY <2>1, Zenon DEF LoadAdmitted, ReleasePermit, A!AdmitCount, A!ReleaseCount, A!NotifyZero,
       A!ReleaseCoordinator
  <2> QED
    BY <1>1, <2>1, Zenon DEF KeyStep, LoadStep, LoadReserve, LoadSubmit, LoadSubscribe, LoadForced,
       LoadReceive, LoadStartupFails, LoadPublish, LoadCleanup, LoadAbandon, JobStart,
       JobFinish, SchedulerExit
<1>2. CASE CallStep
  BY <1>2, Zenon DEF CallStep, LoadEnter, RegisterEngine, Unload, Delete, Reinstall, AcquireLease,
     DropLease, A!AdmitCoordinator
<1> QED
  BY <1>1, <1>2, Zenon DEF vars

\* A step of the drain leaves the registry alone.  It moves the shutdown at most
\* to the first stages of finish_shutdown.
DrainMoves ==
    /\ UNCHANGED <<registryVars, taskVars, loadVars, lease, forceStop, present, gone>>
    /\ flight' = "done" <=> flight = "done"
    /\ lifecycle' = lifecycle \/ (lifecycle' = "Draining" /\ lifecycle # "Stopped")
    /\ \/ UNCHANGED <<stage, flight>>
       \/ stage = "idle" /\ stage' = "idle" /\ flight' \notin {"fencing", "closing"}
       \/ stage = "idle" /\ stage' \in {"force", "slots"} /\ flight' = "fencing"

LEMMA DrainEffect ==
    ASSUME AdmissionSound, RegistryTypes, StageInv, DrainStep
    PROVE  DrainMoves
<1> USE DEF DrainMoves, StageInv
<1>1. ASSUME NEW c \in Caller, NEW requested \in {"none", "ahead"},
             A!BeginShutdown(c, requested), lifecycle' = "Draining", stage' = EnterStage,
             UNCHANGED <<registryVars, taskVars, loadVars, lease, forceStop, present>>
      PROVE  DrainMoves
  BY <1>1, Zenon DEF A!BeginShutdown, EnterStage, RegistryTypes
<1>2. ASSUME NEW c \in Caller,
             \/ \E requested \in {"none", "ahead"} : A!JoinShutdown(c, requested)
             \/ A!ReturnVerdict(c) \/ A!AbandonShutdown(c),
             UNCHANGED <<lifecycle, stage>>,
             UNCHANGED <<registryVars, taskVars, loadVars, lease, forceStop, present>>
      PROVE  DrainMoves
  BY <1>2, Zenon DEF A!JoinShutdown, A!ReturnVerdict, A!AbandonShutdown
<1>3. CASE \E c \in Caller : ShutdownCall(c)
  BY <1>1, <1>2, <1>3, Zenon DEF ShutdownCall
<1>4. CASE FlightWait
  BY <1>4, Zenon DEF FlightWait, EnterStage, A!ArmWaiter, A!CheckDeadline, A!CheckCount,
     A!WakeDeadlineChanged, A!WakeTimer, A!WakeNotified, RegistryTypes
<1>5. CASE Clock
  BY <1>5, Zenon DEF Clock, A!ClockPasses
<1> QED
  BY <1>3, <1>4, <1>5, Zenon DEF DrainStep

\* The stages agree with the flight in the initial states.
LEMMA InitStage == Init => StageInv
BY Zenon DEF Init, A!Init, StageInv

\* Every step keeps the stages in agreement with the flight.
LEMMA NextStage ==
    ASSUME AdmissionSound, RegistryTypes, StageInv, [Next]_vars
    PROVE  StageInv'
<1> USE DEF StageInv
<1>1. CASE (\E k \in Key : KeyStep(k)) \/ CallStep \/ UNCHANGED vars
  BY <1>1, ShutdownKept
<1>2. CASE DrainStep
  BY <1>2, DrainEffect DEF DrainMoves, RegistryTypes
<1>3. CASE ShutdownStage
  <2>1. CASE ShutdownCoordinatorStop \/ ShutdownFinish
    BY <2>1 DEF ShutdownCoordinatorStop, ShutdownFinish, A!ForceStopCoordinator,
       A!FinishFlight, AdmissionSound
  <2> QED
    BY <1>3, <2>1 DEF ShutdownStage, ShutdownForce, ShutdownSlots, ShutdownCollect,
       ShutdownJoin, ShutdownClear, ShutdownClearHealth, ShutdownStop, admissionVars
<1>4. CASE DropRuntime
  BY <1>4, Zenon DEF DropRuntime, A!DropInner
<1> QED
  BY <1>1, <1>2, <1>3, <1>4, NextSteps, Zenon

-----------------------------------------------------------------------------
(* Types, and what the position of a load says of its key. *)

\* The initial states are well typed, and every key is idle.
LEMMA InitKey == Init => KeyInv
<1> SUFFICES ASSUME Init PROVE KeyInv
  BY Zenon
<1>1. RegistryTypes
  <2>1. forceStop \in BOOLEAN
    BY Zenon DEF Init
  <2>2. /\ modelHealth \in [Key -> {"absent", "Loading", "Ready"}]
        /\ task \in [Key -> {"none", "live", "stopping", "gone"}]
        /\ loadPc \in [Key -> LoadState]
        /\ job \in [Key -> {"none", "queued", "running", "ok", "taken", "failed", "dropped"}]
    BY Zenon DEF Init, LoadState
  <2>3. /\ models \in [Model -> Key \cup {None}]
        /\ loading \in [Model -> Key \cup {None}]
        /\ lease \in [Holder -> Key \cup {None}]
        /\ target \in [Key -> Model \cup {None}]
    BY Zenon DEF Init
  <2> QED
    BY <2>1, <2>2, <2>3, Zenon DEF Init, RegistryTypes
<1>2. \A k \in Key : KeyAt(k)
  BY Zenon DEF Init, KeyAt
<1> QED
  BY <1>1, <1>2, Zenon DEF KeyInv

\* The steps of a key keep the types.
LEMMA TypesOfKey ==
    ASSUME RegistryTypes, NEW k \in Key, KeyStep(k)
    PROVE  RegistryTypes'
<1> USE DEF RegistryTypes, LoadState
<1>1. UNCHANGED <<stage, lifecycle, forceStop>>
  BY ShutdownKept, Zenon
<1>2. CASE LoadAdmitted(k) \/ ReleasePermit(k)
  BY <1>1, <1>2 DEF LoadAdmitted, ReleasePermit, registryVars, taskVars
<1>3. CASE LoadReserve(k) \/ LoadSubmit(k)
  BY <1>1, <1>3 DEF LoadReserve, LoadSubmit, registryVars, taskVars
<1>4. CASE LoadSubscribe(k) \/ LoadForced(k)
  BY <1>1, <1>4 DEF LoadSubscribe, LoadForced, DropResult, registryVars, taskVars
<1>5. CASE LoadReceive(k) \/ LoadStartupFails(k)
  BY <1>1, <1>5 DEF LoadReceive, LoadStartupFails, registryVars
<1>6. CASE LoadPublish(k)
  BY <1>1, <1>6 DEF LoadPublish, registryVars
<1>7. CASE LoadCleanup(k)
  <2>1. /\ loading' \in [Model -> Key \cup {None}]
        /\ modelHealth' \in [Key -> {"absent", "Loading", "Ready"}]
        /\ loadPc' \in [Key -> LoadState]
    BY <1>7, Zenon DEF LoadCleanup
  <2> QED
    BY <1>1, <1>7, <2>1, Zenon DEF LoadCleanup, taskVars
<1>8. CASE LoadAbandon(k)
  BY <1>1, <1>8, ZenonT(30) DEF LoadAbandon, DropResult, registryVars
<1>9. CASE JobStart(k) \/ JobFinish(k) \/ SchedulerExit(k)
  BY <1>1, <1>9 DEF JobStart, JobFinish, SchedulerExit, registryVars, taskVars, loadVars
<1> QED
  BY <1>2, <1>3, <1>4, <1>5, <1>6, <1>7, <1>8, <1>9, Zenon DEF KeyStep, LoadStep

\* The calls keep the types.
LEMMA TypesOfCall ==
    ASSUME RegistryTypes, CallStep
    PROVE  RegistryTypes'
<1> USE DEF RegistryTypes
<1>1. UNCHANGED <<stage, lifecycle, forceStop>>
  BY ShutdownKept, Zenon
<1>2. ASSUME NEW k \in Key, NEW m \in Model, LoadEnter(k, m) \/ RegisterEngine(k, m)
      PROVE  RegistryTypes'
  BY <1>1, <1>2 DEF LoadEnter, RegisterEngine, LoadState, registryVars, taskVars
<1>3. ASSUME NEW m \in Model, Unload(m) \/ Delete(m) \/ Reinstall(m)
      PROVE  RegistryTypes'
  BY <1>1, <1>3 DEF Unload, Delete, Reinstall, registryVars, taskVars, loadVars
<1>4. ASSUME NEW h \in Holder, (\E m \in Model : AcquireLease(h, m)) \/ DropLease(h)
      PROVE  RegistryTypes'
  BY <1>1, <1>4 DEF AcquireLease, DropLease, registryVars, taskVars, loadVars
<1> QED
  BY <1>2, <1>3, <1>4, Zenon DEF CallStep

\* The stages of a shutdown and the drop of the runtime keep the types.
LEMMA TypesOfShutdown ==
    ASSUME RegistryTypes, ShutdownStage \/ DropRuntime
    PROVE  RegistryTypes'
<1> USE DEF RegistryTypes, registryVars, loadVars
<1>1. StopTasks(schedulers \cup retired) \in [Key -> {"none", "live", "stopping", "gone"}]
  BY Zenon DEF StopTasks
<1>2. ForceStopSent \in BOOLEAN
  BY Zenon DEF ForceStopSent
<1>3. CASE ShutdownForce
  BY <1>2, <1>3, Zenon DEF ShutdownForce, taskVars
<1>4. CASE ShutdownSlots \/ ShutdownCoordinatorStop \/ ShutdownFinish
  BY <1>4, ZenonT(30) DEF ShutdownSlots, ShutdownCoordinatorStop, ShutdownFinish, taskVars
<1>5. CASE ShutdownCollect \/ ShutdownJoin
  BY <1>1, <1>5, Zenon DEF ShutdownCollect, ShutdownJoin
<1>6. /\ [m \in Model |-> None] \in [Model -> Key \cup {None}]
      /\ [k \in Key |-> "absent"] \in [Key -> {"absent", "Loading", "Ready"}]
  BY Zenon
<1>7. CASE ShutdownClear \/ ShutdownClearHealth \/ ShutdownStop
  BY <1>6, <1>7 DEF ShutdownClear, ShutdownClearHealth, ShutdownStop, taskVars
<1>8. CASE DropRuntime
  BY <1>1, <1>2, <1>6, <1>8, Zenon DEF DropRuntime
<1> QED
  BY <1>3, <1>4, <1>5, <1>7, <1>8, Zenon DEF ShutdownStage

\* A step of a key keeps what its position says.
LEMMA KeyAtOfKey ==
    ASSUME KeyInv, NEW k \in Key, KeyStep(k)
    PROVE  \A j \in Key : KeyAt(j)'
<1> SUFFICES ASSUME NEW j \in Key
             PROVE  KeyAt(j)'
  BY Zenon
<1> USE DEF KeyInv, RegistryTypes, KeyAt
<1>1. CASE LoadAdmitted(k) \/ ReleasePermit(k)
  BY <1>1 DEF LoadAdmitted, ReleasePermit, taskVars
<1>2. CASE LoadReserve(k) \/ LoadSubmit(k)
  BY <1>2 DEF LoadReserve, LoadSubmit, taskVars
<1>3. CASE LoadSubscribe(k) \/ LoadForced(k)
  BY <1>3 DEF LoadSubscribe, LoadForced, DropResult, taskVars
<1>4. CASE LoadReceive(k) \/ LoadStartupFails(k)
  BY <1>4 DEF LoadReceive, LoadStartupFails
<1>5. CASE LoadPublish(k)
  BY <1>5 DEF LoadPublish
<1>6. CASE LoadCleanup(k)
  BY <1>6, ZenonT(30) DEF LoadCleanup, taskVars
<1>7. CASE LoadAbandon(k)
  BY <1>7 DEF LoadAbandon, DropResult
<1>8. CASE JobStart(k) \/ JobFinish(k) \/ SchedulerExit(k)
  BY <1>8 DEF JobStart, JobFinish, SchedulerExit, taskVars, loadVars
<1> QED
  BY <1>1, <1>2, <1>3, <1>4, <1>5, <1>6, <1>7, <1>8, Zenon DEF KeyStep, LoadStep

\* The calls keep what the position of every key says: only a published key is
\* unloaded.
LEMMA KeyAtOfCall ==
    ASSUME KeyInv, EntryInv, CallStep
    PROVE  \A j \in Key : KeyAt(j)'
<1> SUFFICES ASSUME NEW j \in Key
             PROVE  KeyAt(j)'
  BY Zenon
<1> USE DEF KeyInv, RegistryTypes, KeyAt
<1>1. ASSUME NEW k \in Key, NEW m \in Model, LoadEnter(k, m) \/ RegisterEngine(k, m)
      PROVE  KeyAt(j)'
  BY <1>1 DEF LoadEnter, RegisterEngine, taskVars
<1>2. ASSUME NEW m \in Model, Unload(m)
      PROVE  KeyAt(j)'
  <2>1. models[m] \in Key /\ loadPc[models[m]] = "published"
    BY <1>2 DEF Unload, EntryInv, ModelEntry
  <2> QED
    BY <1>2, <2>1 DEF Unload, loadVars
<1>3. ASSUME NEW m \in Model, Delete(m) \/ Reinstall(m)
      PROVE  KeyAt(j)'
  BY <1>3 DEF Delete, Reinstall, taskVars, loadVars
<1>4. ASSUME NEW h \in Holder, (\E m \in Model : AcquireLease(h, m)) \/ DropLease(h)
      PROVE  KeyAt(j)'
  BY <1>4, ZenonT(30) DEF AcquireLease, DropLease, taskVars, loadVars
<1> QED
  BY <1>1, <1>2, <1>3, <1>4, Zenon DEF CallStep

\* A shutdown stops tasks of published keys only.
LEMMA KeyAtOfShutdown ==
    ASSUME KeyInv, ShutdownStage \/ DropRuntime
    PROVE  \A j \in Key : KeyAt(j)'
<1> SUFFICES ASSUME NEW j \in Key
             PROVE  KeyAt(j)'
  BY Zenon
<1> USE DEF KeyInv, RegistryTypes, KeyAt
<1>1. CASE ShutdownCollect \/ DropRuntime
  BY <1>1 DEF ShutdownCollect, DropRuntime, StopTasks, loadVars
<1>2. CASE ShutdownJoin
  BY <1>2, Zenon DEF ShutdownJoin, loadVars
<1> QED
  BY <1>1, <1>2 DEF ShutdownStage, ShutdownForce, ShutdownSlots, ShutdownCoordinatorStop,
     ShutdownClear, ShutdownClearHealth, ShutdownStop, ShutdownFinish, taskVars, loadVars

\* Every step keeps the types and what the positions say.
LEMMA NextKey ==
    ASSUME AdmissionSound, StageInv, KeyInv, EntryInv, [Next]_vars
    PROVE  KeyInv'
<1>1. RegistryTypes
  BY Zenon DEF KeyInv
<1>2. CASE \E k \in Key : KeyStep(k)
  BY <1>1, <1>2, TypesOfKey, KeyAtOfKey, Zenon DEF KeyInv
<1>3. CASE CallStep
  BY <1>1, <1>3, TypesOfCall, KeyAtOfCall, Zenon DEF KeyInv
<1>4. CASE DrainStep
  <2>1. DrainMoves
    BY <1>1, <1>4, DrainEffect, Zenon
  <2>2. RegistryTypes'
    BY <1>1, <2>1 DEF DrainMoves, RegistryTypes, registryVars, taskVars, loadVars
  <2>3. \A k \in Key : KeyAt(k)'
    BY <2>1, Zenon DEF DrainMoves, KeyInv, KeyAt, taskVars, loadVars
  <2> QED
    BY <2>2, <2>3, Zenon DEF KeyInv
<1>5. CASE ShutdownStage \/ DropRuntime
  BY <1>1, <1>5, TypesOfShutdown, KeyAtOfShutdown, Zenon DEF KeyInv
<1>6. CASE UNCHANGED vars
  BY <1>6, ZenonT(30) DEF vars, KeyInv, RegistryTypes, KeyAt, registryVars, taskVars, loadVars
<1> QED
  BY <1>2, <1>3, <1>4, <1>5, <1>6, NextSteps, Zenon

-----------------------------------------------------------------------------
(* The entries of the registry. *)

\* While the runtime takes admin work no shutdown is at any of its stages.
LEMMA NotDraining ==
    ASSUME AdmissionSound, RegistryTypes, StageInv, ~draining
    PROVE  stage = "idle" /\ flight = "none" /\ ~gone
BY Zenon DEF AdmissionSound, StageInv, RegistryTypes

\* The registry is empty in the initial states.
LEMMA InitEntry == Init => EntryInv
BY RegistryAssumption DEF Init, EntryInv, OneEntry, ModelEntry, LoadingEntry,
   EmptyOnceCleared, HealthEntry

\* A step that leaves the maps and the loads alone, and does not clear, keeps the
\* entries.
LEMMA EntryKept ==
    ASSUME EntryInv, UNCHANGED <<models, loading, modelHealth, target, loadPc>>,
           stage = "health" => stage' = "health", Cleared' => Cleared
    PROVE  EntryInv'
BY Zenon DEF EntryInv, OneEntry, EmptyOnceCleared, ModelEntry, LoadingEntry, HealthEntry

\* A load reserves for itself.
LEMMA EntryOfReserve ==
    ASSUME AdmissionSound, StageInv, KeyInv, EntryInv, NEW k \in Key, LoadReserve(k)
    PROVE  EntryInv'
<1> USE DEF KeyInv, RegistryTypes, EntryInv
<1>1. target[k] \in Model /\ k # None
  BY RegistryAssumption, Zenon DEF LoadReserve, KeyAt
<1>2. UNCHANGED <<stage, flight, gone>>
  BY ShutdownKept, Zenon DEF KeyStep, LoadStep
<1>3. CASE ~Vacant(target[k])
  <2>1. /\ models' = models /\ target' = target /\ loading' = loading
        /\ modelHealth' = modelHealth
        /\ loadPc' = [loadPc EXCEPT ![k] = "cleanup"] /\ loadPc[k] = "admitted"
    BY <1>3, Zenon DEF LoadReserve
  <2>2. OneEntry' /\ EmptyOnceCleared'
    BY <1>2, <2>1, Zenon DEF OneEntry, EmptyOnceCleared, Cleared
  <2>3. ModelEntry' /\ LoadingEntry'
    BY <2>1 DEF ModelEntry, LoadingEntry, Reserving
  <2>4. stage' # "health" => \A j \in Key : HealthEntry(j)'
    BY <1>2, <2>1 DEF HealthEntry
  <2> QED
    BY <2>2, <2>3, <2>4, Zenon
<1>4. CASE Vacant(target[k])
  <2>1. stage = "idle" /\ flight = "none" /\ ~gone
    BY <1>4, NotDraining, Zenon DEF Vacant
  <2>2. /\ models' = models /\ target' = target
        /\ loading' = [loading EXCEPT ![target[k]] = k]
        /\ modelHealth' = [modelHealth EXCEPT ![k] = "Loading"]
        /\ loadPc' = [loadPc EXCEPT ![k] = "reserved"]
        /\ models[target[k]] = None /\ loading[target[k]] = None
        /\ loadPc[k] = "admitted"
    BY <1>4, Zenon DEF LoadReserve, Vacant
  <2>3. OneEntry' /\ EmptyOnceCleared'
    BY <1>1, <1>2, <2>1, <2>2, Zenon DEF OneEntry, EmptyOnceCleared, Cleared
  <2>4. ModelEntry' /\ LoadingEntry'
    BY <1>1, <2>2 DEF ModelEntry, LoadingEntry, Reserving
  <2>5. \A m \in Model : models[m] # k /\ loading[m] # k
    BY <1>1, <2>2, Zenon DEF ModelEntry, LoadingEntry, Reserving
  <2>6. \A j \in Key : HealthEntry(j)'
    BY <1>1, <2>1, <2>2, <2>5 DEF HealthEntry
  <2> QED
    BY <2>3, <2>4, <2>6, Zenon
<1> QED
  BY <1>3, <1>4, Zenon

\* A load publishes its own reservation only.
LEMMA EntryOfPublish ==
    ASSUME AdmissionSound, StageInv, KeyInv, EntryInv, NEW k \in Key, LoadPublish(k)
    PROVE  EntryInv'
<1> USE DEF KeyInv, RegistryTypes, EntryInv
<1>1. target[k] \in Model /\ k # None
  BY RegistryAssumption, Zenon DEF LoadPublish, KeyAt
<1>2. UNCHANGED <<stage, flight, gone>>
  BY ShutdownKept, Zenon DEF KeyStep, LoadStep
<1>3. CASE draining \/ models[target[k]] # None \/ loading[target[k]] # k
  <2>1. /\ models' = models /\ target' = target /\ loading' = loading
        /\ modelHealth' = modelHealth
        /\ loadPc' = [loadPc EXCEPT ![k] = "cleanup"] /\ loadPc[k] = "starting"
    BY <1>3, Zenon DEF LoadPublish, registryVars
  <2>2. OneEntry' /\ EmptyOnceCleared'
    BY <1>2, <2>1, Zenon DEF OneEntry, EmptyOnceCleared, Cleared
  <2>3. ModelEntry' /\ LoadingEntry'
    BY <2>1 DEF ModelEntry, LoadingEntry, Reserving
  <2>4. stage' # "health" => \A j \in Key : HealthEntry(j)'
    BY <1>2, <2>1 DEF HealthEntry
  <2> QED
    BY <2>2, <2>3, <2>4, Zenon
<1>4. CASE ~draining /\ models[target[k]] = None /\ loading[target[k]] = k
  <2>1. stage = "idle" /\ flight = "none" /\ ~gone
    BY <1>4, NotDraining, Zenon
  <2>2. /\ target' = target
        /\ models' = [models EXCEPT ![target[k]] = k]
        /\ loading' = [loading EXCEPT ![target[k]] = None]
        /\ modelHealth' = [modelHealth EXCEPT ![k] = "Ready"]
        /\ loadPc' = [loadPc EXCEPT ![k] = "published"]
        /\ loadPc[k] = "starting"
    BY <1>4, Zenon DEF LoadPublish
  <2>3. OneEntry' /\ EmptyOnceCleared'
    BY <1>1, <1>2, <2>1, <2>2, Zenon DEF OneEntry, EmptyOnceCleared, Cleared
  <2>4. \A m \in Model : /\ models[m] # k
                         /\ loading[m] = k => m = target[k]
    BY <1>1, <2>2 DEF ModelEntry, LoadingEntry
  <2>5. ModelEntry' /\ LoadingEntry'
    <3>1. \A m \in Model : m # target[k] => models'[m] = models[m] /\ loading'[m] = loading[m]
      BY <2>2, Zenon
    <3>2. models'[target[k]] = k /\ loading'[target[k]] = None
      BY <1>1, <2>2, Zenon
    <3>3. ModelEntry'
      BY <1>1, <2>2, <2>4, <3>1, <3>2 DEF ModelEntry
    <3>4. LoadingEntry'
      BY <1>1, <2>2, <2>4, <3>1, <3>2 DEF LoadingEntry
    <3> QED
      BY <3>3, <3>4, Zenon
  <2>6. ASSUME NEW j \in Key
        PROVE  HealthEntry(j)'
    <3>1. HealthEntry(j)
      BY <2>1, Zenon
    <3>2. CASE j = k
      BY <1>1, <1>4, <2>2, <2>4, <3>2 DEF HealthEntry
    <3>3. CASE j # k
      <4>1. \A m \in Model : /\ models'[m] = j <=> models[m] = j
                             /\ loading'[m] = j <=> loading[m] = j
        BY <1>4, <2>2, <3>3, RegistryAssumption
      <4> QED
        BY <2>2, <3>1, <3>3, <4>1 DEF HealthEntry
    <3> QED
      BY <3>2, <3>3, Zenon
  <2> QED
    BY <2>3, <2>5, <2>6, Zenon
<1> QED
  BY <1>3, <1>4, Zenon

\* A failed load removes its own reservation, if it has one, and no other.
LEMMA EntryOfCleanup ==
    ASSUME AdmissionSound, StageInv, KeyInv, EntryInv, NEW k \in Key, LoadCleanup(k)
    PROVE  EntryInv'
<1> USE DEF KeyInv, RegistryTypes, EntryInv
<1>1. target[k] \in Model /\ k # None
  BY RegistryAssumption, Zenon DEF LoadCleanup, KeyAt
<1>2. UNCHANGED <<stage, flight, gone>>
  BY ShutdownKept, Zenon DEF KeyStep, LoadStep
<1>3. /\ models' = models /\ target' = target
      /\ loading' = [loading EXCEPT ![target[k]] = IF @ = k THEN None ELSE @]
      /\ modelHealth' = [modelHealth EXCEPT ![k] = "absent"]
      /\ loadPc' = [loadPc EXCEPT ![k] = "release"]
      /\ loadPc[k] = "cleanup"
  BY Zenon DEF LoadCleanup
<1>4. \A m \in Model : /\ models[m] # k
                       /\ loading[m] = k => loading'[m] = None
                       /\ loading[m] # k => loading'[m] = loading[m]
  BY <1>1, <1>3 DEF LoadingEntry, ModelEntry
<1>5. OneEntry' /\ EmptyOnceCleared'
  BY <1>2, <1>3, <1>4, Zenon DEF OneEntry, EmptyOnceCleared, Cleared
<1>6. ModelEntry'
  BY <1>3, <1>4 DEF ModelEntry
<1>7. LoadingEntry'
  BY <1>3, <1>4 DEF LoadingEntry
<1>8. ASSUME stage # "health", NEW j \in Key
      PROVE  HealthEntry(j)'
  <2>1. HealthEntry(j)
    BY <1>8, Zenon
  <2>2. CASE j = k
    BY <1>1, <1>3, <1>4, <2>2 DEF HealthEntry
  <2>3. CASE j # k
    <3>1. modelHealth'[j] = modelHealth[j]
      BY <1>3, <2>3, Zenon
    <3>2. \A m \in Model : loading'[m] = j <=> loading[m] = j
      BY <1>4, <2>3, RegistryAssumption
    <3> QED
      BY <1>3, <2>1, <3>1, <3>2 DEF HealthEntry
  <2> QED
    BY <2>2, <2>3, Zenon
<1> QED
  BY <1>2, <1>5, <1>6, <1>7, <1>8, Zenon

\* The other steps of a key leave the entries alone.
LEMMA EntryOfKey ==
    ASSUME AdmissionSound, StageInv, KeyInv, EntryInv, NEW k \in Key, KeyStep(k)
    PROVE  EntryInv'
<1>1. ASSUME UNCHANGED <<models, loading, modelHealth, target>>,
             \A j \in Key :
                 \/ loadPc'[j] = loadPc[j]
                 \/ loadPc[j] \in Reserving /\ loadPc'[j] \in Reserving
                 \/ loadPc[j] \notin Reserving \cup {"published"}
      PROVE  EntryInv'
  <2> USE DEF KeyInv, RegistryTypes, EntryInv
  <2>1. UNCHANGED <<stage, flight, gone>>
    BY ShutdownKept, Zenon
  <2>2. OneEntry' /\ EmptyOnceCleared'
    BY <1>1, <2>1, Zenon DEF OneEntry, EmptyOnceCleared, Cleared
  <2>3. ModelEntry'
    BY <1>1 DEF ModelEntry, Reserving
  <2>4. LoadingEntry'
    BY <1>1 DEF LoadingEntry, Reserving
  <2>5. stage' # "health" => \A j \in Key : HealthEntry(j)'
    BY <1>1, <2>1 DEF HealthEntry
  <2> QED
    BY <2>2, <2>3, <2>4, <2>5, Zenon
<1> USE DEF KeyInv, RegistryTypes, Reserving, registryVars
<1>2. CASE LoadAdmitted(k) \/ ReleasePermit(k)
  BY <1>1, <1>2, ZenonT(30) DEF LoadAdmitted, ReleasePermit
<1>3. CASE LoadSubmit(k) \/ LoadSubscribe(k) \/ LoadForced(k)
  BY <1>1, <1>3 DEF LoadSubmit, LoadSubscribe, LoadForced
<1>4. CASE LoadReceive(k) \/ LoadStartupFails(k) \/ LoadAbandon(k)
  BY <1>1, <1>4 DEF LoadReceive, LoadStartupFails, LoadAbandon
<1>5. CASE JobStart(k) \/ JobFinish(k) \/ SchedulerExit(k)
  BY <1>1, <1>5, Zenon DEF JobStart, JobFinish, SchedulerExit, loadVars
<1> QED
  BY <1>2, <1>3, <1>4, <1>5, EntryOfReserve, EntryOfPublish, EntryOfCleanup, Zenon
     DEF KeyStep, LoadStep

\* The calls keep the entries.
LEMMA EntryOfCall ==
    ASSUME AdmissionSound, StageInv, KeyInv, EntryInv, CallStep
    PROVE  EntryInv'
<1> USE DEF KeyInv, RegistryTypes, EntryInv
<1>1. UNCHANGED <<stage, flight, gone>>
  BY ShutdownKept, Zenon
<1>2. ASSUME NEW k \in Key, NEW m \in Model, LoadEnter(k, m)
      PROVE  EntryInv'
  <2>1. /\ UNCHANGED <<models, loading, modelHealth>>
        /\ target' = [target EXCEPT ![k] = m]
        /\ loadPc' = [loadPc EXCEPT ![k] = "entering"] /\ loadPc[k] = "idle"
    BY <1>2, Zenon DEF LoadEnter, registryVars
  <2>2. OneEntry' /\ EmptyOnceCleared'
    BY <1>1, <2>1, Zenon DEF OneEntry, EmptyOnceCleared, Cleared
  <2>3. ModelEntry' /\ LoadingEntry'
    BY <2>1 DEF ModelEntry, LoadingEntry, Reserving
  <2>4. stage' # "health" => \A j \in Key : HealthEntry(j)'
    BY <1>1, <2>1 DEF HealthEntry
  <2> QED
    BY <2>2, <2>3, <2>4, Zenon
<1>3. ASSUME NEW k \in Key, NEW m \in Model, RegisterEngine(k, m)
      PROVE  EntryInv'
  <2>1. stage = "idle" /\ flight = "none" /\ ~gone
    BY <1>3, NotDraining, Zenon DEF RegisterEngine, Vacant
  <2>2. /\ loading' = loading /\ models[m] = None /\ loading[m] = None
        /\ models' = [models EXCEPT ![m] = k]
        /\ modelHealth' = [modelHealth EXCEPT ![k] = "Ready"]
        /\ target' = [target EXCEPT ![k] = m]
        /\ loadPc' = [loadPc EXCEPT ![k] = "published"] /\ loadPc[k] = "idle"
    BY <1>3, Zenon DEF RegisterEngine, Vacant
  <2>3. OneEntry' /\ EmptyOnceCleared'
    BY <1>1, <2>1, <2>2, Zenon DEF OneEntry, EmptyOnceCleared, Cleared
  <2>4. \A n \in Model : models[n] # k /\ loading[n] # k
    BY <2>2, RegistryAssumption DEF ModelEntry, LoadingEntry, Reserving
  <2>5. ModelEntry'
    BY <2>2, <2>4 DEF ModelEntry
  <2>6. LoadingEntry'
    BY <2>2, <2>4 DEF LoadingEntry
  <2>7. \A j \in Key : HealthEntry(j)'
    BY <2>1, <2>2, <2>4 DEF HealthEntry
  <2> QED
    BY <2>3, <2>5, <2>6, <2>7, Zenon
<1>4. ASSUME NEW m \in Model, Unload(m)
      PROVE  EntryInv'
  <2>1. stage = "idle" /\ flight = "none" /\ ~gone
    BY <1>4, NotDraining, Zenon DEF Unload
  <2>2. /\ UNCHANGED <<loading, target, loadPc>> /\ models[m] \in Key
        /\ models' = [models EXCEPT ![m] = None]
        /\ modelHealth' = [modelHealth EXCEPT ![models[m]] = "absent"]
    BY <1>4, Zenon DEF Unload, loadVars
  <2>3. OneEntry' /\ EmptyOnceCleared' /\ ModelEntry' /\ LoadingEntry'
    BY <1>1, <2>1, <2>2 DEF OneEntry, EmptyOnceCleared, Cleared, ModelEntry, LoadingEntry
  <2>4. \A n \in Model : /\ models[n] = models[m] => n = m
                         /\ loading[n] # models[m]
    BY <2>2, RegistryAssumption DEF ModelEntry, LoadingEntry, Reserving
  <2>5. \A j \in Key : HealthEntry(j)'
    BY <2>1, <2>2, <2>4, RegistryAssumption DEF HealthEntry
  <2> QED
    BY <2>3, <2>5, Zenon
<1> HIDE DEF EntryInv
<1>5. CASE UNCHANGED <<registryVars, loadVars>>
  BY <1>1, <1>5, EntryKept, Zenon DEF Cleared, registryVars, loadVars
<1> QED
  BY <1>2, <1>3, <1>4, <1>5, Zenon DEF CallStep, Delete, Reinstall, AcquireLease, DropLease

\* finish_shutdown and the drop of the runtime keep the entries, or clear them.
LEMMA EntryOfShutdown ==
    ASSUME AdmissionSound, StageInv, KeyInv, EntryInv, ShutdownStage \/ DropRuntime
    PROVE  EntryInv'
<1> USE DEF EntryInv
<1>1. CASE ShutdownClear \/ DropRuntime
  <2>1. \A m \in Model : models'[m] = None /\ loading'[m] = None
    BY <1>1, Zenon DEF ShutdownClear, DropRuntime
  <2>2. OneEntry' /\ EmptyOnceCleared' /\ ModelEntry' /\ LoadingEntry'
    BY <2>1, Zenon DEF OneEntry, EmptyOnceCleared, ModelEntry, LoadingEntry
  <2>3. stage' # "health" => \A k \in Key : modelHealth'[k] = "absent"
    BY <1>1, Zenon DEF ShutdownClear, DropRuntime
  <2>4. ASSUME stage' # "health", NEW k \in Key
        PROVE  HealthEntry(k)'
    <3>1. k # None /\ modelHealth'[k] = "absent"
      BY <2>3, <2>4, RegistryAssumption, Zenon
    <3> QED
      BY <2>1, <3>1, Zenon DEF HealthEntry
  <2> QED
    BY <2>2, <2>4, Zenon
<1>2. CASE ShutdownClearHealth
  <2>1. \A m \in Model : models[m] = None /\ loading[m] = None
    BY <1>2, Zenon DEF ShutdownClearHealth, EmptyOnceCleared, Cleared
  <2>2. \A m \in Model : models'[m] = None /\ loading'[m] = None
    BY <1>2, <2>1, Zenon DEF ShutdownClearHealth
  <2>3. OneEntry' /\ EmptyOnceCleared' /\ ModelEntry' /\ LoadingEntry'
    BY <2>2, Zenon DEF OneEntry, EmptyOnceCleared, ModelEntry, LoadingEntry
  <2>4. ASSUME NEW k \in Key
        PROVE  HealthEntry(k)'
    <3>1. k # None /\ modelHealth'[k] = "absent"
      BY <1>2, RegistryAssumption, Zenon DEF ShutdownClearHealth
    <3> QED
      BY <2>2, <3>1, Zenon DEF HealthEntry
  <2> QED
    BY <2>3, <2>4, Zenon
<1> HIDE DEF EntryInv
<1> USE DEF registryVars, loadVars, Cleared
<1>3. CASE ShutdownCoordinatorStop \/ ShutdownFinish
  BY <1>3, EntryKept DEF ShutdownCoordinatorStop, ShutdownFinish, A!ForceStopCoordinator,
     A!FinishFlight
<1>4. CASE ShutdownForce \/ ShutdownSlots \/ ShutdownCollect
  BY <1>4, EntryKept DEF ShutdownForce, ShutdownSlots, ShutdownCollect, admissionVars
<1>5. CASE ShutdownJoin \/ ShutdownStop
  BY <1>5, EntryKept DEF ShutdownJoin, ShutdownStop, admissionVars
<1> QED
  BY <1>1, <1>2, <1>3, <1>4, <1>5, Zenon DEF ShutdownStage

\* Every step keeps the entries in agreement.
LEMMA NextEntry ==
    ASSUME AdmissionSound, StageInv, KeyInv, EntryInv, [Next]_vars
    PROVE  EntryInv'
<1>1. CASE DrainStep
  <2>1. DrainMoves
    BY <1>1, DrainEffect, Zenon DEF KeyInv
  <2> QED
    BY <2>1, EntryKept, Zenon DEF DrainMoves, Cleared, registryVars, loadVars
<1>2. CASE UNCHANGED vars
  BY <1>2, EntryKept, Zenon DEF vars, Cleared, registryVars, loadVars, admissionVars
<1> QED
  BY <1>1, <1>2, EntryOfKey, EntryOfCall, EntryOfShutdown, NextSteps, Zenon

-----------------------------------------------------------------------------
(* The other layers: leases, slots, tasks and artifacts. *)

\* A lease is of a key that was published and is still registered, or the
\* registry was cleared under it.
LeaseInv ==
    \A h \in Holder : lease[h] # None =>
        /\ loadPc[lease[h]] = "published"
        /\ models[target[lease[h]]] = lease[h] \/ Cleared

\* A shutdown is past the point where it closes the slots.
Closed ==
    \/ stage \in {"coordinator", "collect", "join", "clear", "health", "stop", "finish"}
    \/ flight = "done" \/ gone

\* A slot that accepts is registered, and its scheduler runs.
SlotInv ==
    /\ \A k \in accepting : k \in Registered /\ k \in schedulers /\ task[k] = "live"
    /\ Closed => accepting = {}

\* The scheduler of every published key is in a task registry until it is gone, and
\* from "collect" on finish_shutdown has them all.
TaskInv ==
    /\ ~gone => \A k \in Key : loadPc[k] = "published" /\ task[k] # "gone" =>
                    k \in schedulers \cup retired \cup joining
    /\ joining # {} => stage = "join"
    /\ stage \in {"join", "clear", "health", "stop", "finish"} \/ flight = "done" =>
           schedulers = {} /\ retired = {}

\* The artifacts of an engine that may still serve are in the store.
StoreInv ==
    \A k \in Key :
        \/ job[k] \in {"running", "ok"}
        \/ loadPc[k] = "starting"
        \/ job[k] = "taken" /\ k \in Registered
        => target[k] \in present

-----------------------------------------------------------------------------
(* The leases. *)

\* Nobody holds a lease in the initial states.
LEMMA InitLease == Init => LeaseInv
BY DEF Init, LeaseInv

\* A step that moves no published key and takes no entry away keeps the leases.
LEMMA LeaseKept ==
    ASSUME KeyInv, LeaseInv, UNCHANGED lease, Cleared => Cleared',
           \A k \in Key : loadPc[k] = "published" =>
               /\ loadPc'[k] = "published" /\ target'[k] = target[k]
               /\ models[target[k]] = k => models'[target[k]] = k
    PROVE  LeaseInv'
<1> SUFFICES ASSUME NEW h \in Holder, lease'[h] # None
             PROVE  /\ loadPc'[lease'[h]] = "published"
                    /\ models'[target'[lease'[h]]] = lease'[h] \/ Cleared'
  BY Zenon DEF LeaseInv
<1>1. lease'[h] = lease[h] /\ lease[h] \in Key
  BY DEF KeyInv, RegistryTypes
<1> QED
  BY <1>1, Zenon DEF LeaseInv

\* The steps of a key keep the leases.
LEMMA LeaseOfKey ==
    ASSUME AdmissionSound, StageInv, KeyInv, EntryInv, LeaseInv, NEW k \in Key, KeyStep(k)
    PROVE  LeaseInv'
<1> USE DEF KeyInv, RegistryTypes
<1>1. Cleared => Cleared'
  BY ShutdownKept, Zenon DEF Cleared
<1>2. CASE LoadPublish(k)
  <2>1. lease' = lease /\ target' = target
    BY <1>2, Zenon DEF LoadPublish
  <2>2. ASSUME NEW j \in Key, loadPc[j] = "published"
        PROVE  /\ loadPc'[j] = "published"
               /\ models[target[j]] = j => models'[target[j]] = j
    <3>1. j # k /\ target[j] \in Model
      BY <1>2, <2>2, Zenon DEF LoadPublish, KeyAt
    <3>2. models[target[j]] = j => models'[target[j]] = j
      BY <1>2, <3>1, RegistryAssumption DEF LoadPublish, registryVars
    <3> QED
      BY <1>2, <2>2, <3>1, <3>2, Zenon DEF LoadPublish
  <2> QED
    BY <1>1, <2>1, <2>2, LeaseKept, Zenon
<1>3. ASSUME UNCHANGED <<lease, models, target>>,
             \A j \in Key : loadPc[j] = "published" => loadPc'[j] = "published"
      PROVE  LeaseInv'
  BY <1>1, <1>3, LeaseKept, Zenon
<1> USE DEF registryVars
<1>4. CASE LoadAdmitted(k) \/ ReleasePermit(k)
  BY <1>3, <1>4, Zenon DEF LoadAdmitted, ReleasePermit
<1>5. CASE LoadReserve(k) \/ LoadCleanup(k)
  BY <1>3, <1>5, ZenonT(30) DEF LoadReserve, LoadCleanup
<1>6. CASE LoadSubmit(k) \/ LoadSubscribe(k) \/ LoadForced(k)
  BY <1>3, <1>6, ZenonT(30) DEF LoadSubmit, LoadSubscribe, LoadForced
<1>7. CASE LoadReceive(k) \/ LoadStartupFails(k) \/ LoadAbandon(k)
  BY <1>3, <1>7, ZenonT(30) DEF LoadReceive, LoadStartupFails, LoadAbandon
<1>8. CASE JobStart(k) \/ JobFinish(k) \/ SchedulerExit(k)
  BY <1>3, <1>8, Zenon DEF JobStart, JobFinish, SchedulerExit, loadVars
<1> QED
  BY <1>2, <1>4, <1>5, <1>6, <1>7, <1>8, Zenon DEF KeyStep, LoadStep

\* The calls keep the leases: a leased model is not unloaded.
LEMMA LeaseOfCall ==
    ASSUME AdmissionSound, StageInv, KeyInv, EntryInv, LeaseInv, SlotInv, CallStep
    PROVE  LeaseInv'
<1> USE DEF KeyInv, RegistryTypes
<1>1. Cleared => Cleared'
  BY ShutdownKept, Zenon DEF Cleared
<1>2. ASSUME NEW k \in Key, NEW m \in Model, LoadEnter(k, m)
      PROVE  LeaseInv'
  BY <1>1, <1>2, LeaseKept, Zenon DEF LoadEnter, registryVars
<1>3. ASSUME NEW k \in Key, NEW m \in Model, RegisterEngine(k, m)
      PROVE  LeaseInv'
  <2>1. ASSUME NEW j \in Key, loadPc[j] = "published"
        PROVE  /\ loadPc'[j] = "published" /\ target'[j] = target[j]
               /\ models[target[j]] = j => models'[target[j]] = j
    <3>1. j # k /\ target[j] \in Model
      BY <1>3, <2>1, Zenon DEF RegisterEngine, KeyAt
    <3> QED
      BY <1>3, <2>1, <3>1, RegistryAssumption, ZenonT(30) DEF RegisterEngine, Vacant
  <2> QED
    BY <1>1, <1>3, <2>1, LeaseKept, Zenon DEF RegisterEngine
<1>4. ASSUME NEW m \in Model, Unload(m)
      PROVE  LeaseInv'
  <2>1. ASSUME NEW h \in Holder, lease[h] # None
        PROVE  target[lease[h]] # m \/ models[target[lease[h]]] # lease[h]
    BY <1>4, <2>1, Zenon DEF Unload
  <2>2. /\ UNCHANGED <<lease, target, loadPc>>
        /\ models' = [models EXCEPT ![m] = None]
    BY <1>4, Zenon DEF Unload, loadVars
  <2> QED
    BY <1>1, <2>1, <2>2 DEF LeaseInv, KeyAt
<1>5. ASSUME NEW h \in Holder, NEW m \in Model, AcquireLease(h, m)
      PROVE  LeaseInv'
  <2>1. models[m] # None
    BY <1>5, RegistryAssumption, Zenon DEF AcquireLease
  <2>2. target[models[m]] = m /\ loadPc[models[m]] = "published"
    BY <2>1, Zenon DEF EntryInv, ModelEntry
  <2> QED
    BY <1>1, <1>5, <2>2 DEF AcquireLease, LeaseInv, registryVars, loadVars
<1>6. ASSUME NEW h \in Holder, DropLease(h)
      PROVE  LeaseInv'
  BY <1>1, <1>6 DEF DropLease, LeaseInv, registryVars, loadVars
<1>7. ASSUME NEW m \in Model, Delete(m) \/ Reinstall(m)
      PROVE  LeaseInv'
  BY <1>1, <1>7, LeaseKept, Zenon DEF Delete, Reinstall, registryVars, loadVars
<1> QED
  BY <1>2, <1>3, <1>4, <1>5, <1>6, <1>7, Zenon DEF CallStep

\* Every step keeps the leases: only a shutdown clears the registry under them.
LEMMA NextLease ==
    ASSUME AdmissionSound, StageInv, KeyInv, EntryInv, LeaseInv, SlotInv, [Next]_vars
    PROVE  LeaseInv'
<1>1. ASSUME UNCHANGED <<lease, target, loadPc>>, Cleared => Cleared',
             models' = models \/ Cleared'
      PROVE  LeaseInv'
  BY <1>1, Zenon DEF LeaseInv
<1>2. CASE DrainStep
  <2>1. DrainMoves
    BY <1>2, DrainEffect, Zenon DEF KeyInv
  <2> QED
    BY <1>1, <2>1, Zenon DEF DrainMoves, Cleared, registryVars, loadVars
<1>3. CASE ShutdownStage
  <2>1. CASE ShutdownCoordinatorStop \/ ShutdownFinish
    BY <1>1, <2>1, Zenon DEF ShutdownCoordinatorStop, ShutdownFinish, A!ForceStopCoordinator,
       A!FinishFlight, Cleared, registryVars, loadVars
  <2>2. CASE ShutdownForce \/ ShutdownSlots \/ ShutdownCollect \/ ShutdownJoin
    BY <1>1, <2>2, Zenon DEF ShutdownForce, ShutdownSlots, ShutdownCollect, ShutdownJoin, Cleared,
       registryVars, loadVars, admissionVars
  <2>3. CASE ShutdownClear \/ ShutdownClearHealth \/ ShutdownStop
    BY <1>1, <2>3, Zenon DEF ShutdownClear, ShutdownClearHealth, ShutdownStop, Cleared,
       registryVars, loadVars, admissionVars
  <2> QED
    BY <1>3, <2>1, <2>2, <2>3, Zenon DEF ShutdownStage
<1>4. CASE DropRuntime
  BY <1>1, <1>4, Zenon DEF DropRuntime, A!DropInner, Cleared, loadVars
<1>5. CASE UNCHANGED vars
  BY <1>1, <1>5, Zenon DEF vars, Cleared, registryVars, loadVars, admissionVars
<1> QED
  BY <1>2, <1>3, <1>4, <1>5, LeaseOfKey, LeaseOfCall, NextSteps, Zenon

-----------------------------------------------------------------------------
(* The slots and the tasks behind them. *)

\* There is no slot and no task in the initial states.
LEMMA InitSlot == Init => SlotInv /\ TaskInv
BY Zenon DEF Init, A!Init, SlotInv, TaskInv, Closed

\* A step that keeps the registered keys, and stops only tasks of keys that do not
\* accept, keeps the slots.
LEMMA SlotKept ==
    ASSUME SlotInv, UNCHANGED <<models, accepting, schedulers>>, Closed' => Closed,
           \A k \in accepting : task[k] = "live" => task'[k] = "live"
    PROVE  SlotInv'
BY Zenon DEF SlotInv, Registered

\* The steps of a key keep the slots.
LEMMA SlotOfKey ==
    ASSUME AdmissionSound, StageInv, KeyInv, EntryInv, SlotInv, NEW k \in Key, KeyStep(k)
    PROVE  SlotInv'
<1> USE DEF KeyInv, RegistryTypes
<1>1. Closed' => Closed
  BY ShutdownKept, Zenon DEF Closed
<1>2. \A j \in accepting : j \in Key /\ loadPc[j] = "published" /\ task[j] = "live"
  BY RegistryAssumption DEF SlotInv, Registered, EntryInv, ModelEntry
<1>3. CASE LoadPublish(k)
  <2>1. CASE draining \/ models[target[k]] # None \/ loading[target[k]] # k
    BY <1>1, <1>2, <1>3, <2>1, SlotKept, Zenon DEF LoadPublish, registryVars
  <2>2. CASE ~draining /\ models[target[k]] = None /\ loading[target[k]] = k
    <3>1. ~Closed
      BY <2>2, NotDraining, Zenon DEF Closed
    <3>2. target[k] \in Model /\ task[k] = "live"
      BY <1>3, Zenon DEF LoadPublish, KeyAt
    <3>3. /\ models' = [models EXCEPT ![target[k]] = k] /\ task' = task
          /\ accepting' = accepting \cup {k}
          /\ schedulers' = schedulers \cup {k}
      BY <1>3, <2>2, Zenon DEF LoadPublish
    <3>4. Registered \cup {k} \subseteq Registered'
      BY <2>2, <3>2, <3>3, RegistryAssumption DEF Registered
    <3> QED
      BY <1>1, <3>1, <3>2, <3>3, <3>4, Zenon DEF SlotInv
  <2> QED
    BY <2>1, <2>2, Zenon
<1>4. CASE LoadReceive(k) \/ LoadStartupFails(k) \/ LoadAbandon(k) \/ SchedulerExit(k)
  BY <1>1, <1>2, <1>4, SlotKept, ZenonT(30) DEF LoadReceive, LoadStartupFails, LoadAbandon,
     SchedulerExit, registryVars
<1>5. ASSUME UNCHANGED <<models, accepting, taskVars>>
      PROVE  SlotInv'
  BY <1>1, <1>5, SlotKept, Zenon DEF taskVars
<1> QED
  BY <1>3, <1>4, <1>5, Zenon DEF KeyStep, LoadStep, LoadAdmitted, ReleasePermit, LoadReserve,
     LoadCleanup, LoadSubmit, LoadSubscribe, LoadForced, JobStart, JobFinish, registryVars

\* The calls keep the slots.
LEMMA SlotOfCall ==
    ASSUME AdmissionSound, StageInv, KeyInv, EntryInv, SlotInv, CallStep
    PROVE  SlotInv'
<1> USE DEF KeyInv, RegistryTypes
<1>1. Closed' => Closed
  BY ShutdownKept, Zenon DEF Closed
<1>2. ASSUME NEW k \in Key, NEW m \in Model, RegisterEngine(k, m)
      PROVE  SlotInv'
  <2>1. ~Closed
    BY <1>2, NotDraining, Zenon DEF RegisterEngine, Vacant, Closed
  <2>2. /\ models' = [models EXCEPT ![m] = k] /\ models[m] = None
        /\ task' = [task EXCEPT ![k] = "live"]
        /\ accepting' = accepting \cup {k}
        /\ schedulers' = schedulers \cup {k}
    BY <1>2, Zenon DEF RegisterEngine, Vacant
  <2>3. Registered \cup {k} \subseteq Registered'
    BY <2>2, RegistryAssumption DEF Registered
  <2> QED
    BY <1>1, <2>1, <2>2, <2>3, ZenonT(30) DEF SlotInv
<1>3. ASSUME NEW m \in Model, Unload(m)
      PROVE  SlotInv'
  <2>1. ~Closed
    BY <1>3, NotDraining, Zenon DEF Unload, Closed
  <2>2. /\ models' = [models EXCEPT ![m] = None] /\ models[m] \in Key
        /\ task' = [task EXCEPT ![models[m]] = "stopping"]
        /\ accepting' = accepting \ {models[m]}
        /\ schedulers' = schedulers \ {models[m]}
    BY <1>3, Zenon DEF Unload
  <2>3. \A k \in Registered : k # models[m] => k \in Registered'
    BY <2>2, Zenon DEF Registered
  <2> QED
    BY <1>1, <2>1, <2>2, <2>3, Zenon DEF SlotInv
<1>4. ASSUME UNCHANGED <<models, accepting, taskVars>>
      PROVE  SlotInv'
  BY <1>1, <1>4, SlotKept, Zenon DEF taskVars
<1> QED
  BY <1>2, <1>3, <1>4, Zenon DEF CallStep, LoadEnter, Delete, Reinstall, AcquireLease, DropLease,
     registryVars

\* Every step keeps the slots: a shutdown closes them before it stops a task.
LEMMA NextSlot ==
    ASSUME AdmissionSound, StageInv, KeyInv, EntryInv, SlotInv, [Next]_vars
    PROVE  SlotInv'
<1>1. ASSUME UNCHANGED <<models, accepting, taskVars>>, Closed' => Closed
      PROVE  SlotInv'
  BY <1>1, SlotKept, Zenon DEF taskVars
<1>2. CASE DrainStep
  <2>1. DrainMoves
    BY <1>2, DrainEffect, Zenon DEF KeyInv
  <2> QED
    BY <1>1, <2>1, Zenon DEF DrainMoves, Closed, registryVars
<1>3. CASE ShutdownStage
  <2>1. CASE accepting' = {}
    BY <2>1, Zenon DEF SlotInv
  <2>2. CASE ShutdownForce
    BY <1>1, <2>2, Zenon DEF ShutdownForce, Closed, registryVars, admissionVars
  <2>3. CASE ShutdownSlots
    BY <2>1, <2>3, Zenon DEF ShutdownSlots, SlotInv
  <2>4. stage \notin {"force", "slots"} => accepting = {}
    BY <1>3, Zenon DEF SlotInv, Closed, ShutdownStage, ShutdownForce, ShutdownSlots,
       ShutdownCoordinatorStop, ShutdownCollect, ShutdownJoin, ShutdownClear,
       ShutdownClearHealth, ShutdownStop, ShutdownFinish
  <2>5. ShutdownForce \/ ShutdownSlots \/ accepting' = {}
    BY <1>3, <2>4, Zenon DEF ShutdownStage, ShutdownCoordinatorStop, ShutdownCollect, ShutdownJoin,
       ShutdownClear, ShutdownClearHealth, ShutdownStop, ShutdownFinish, registryVars
  <2> QED
    BY <2>1, <2>2, <2>3, <2>5, Zenon
<1>4. CASE DropRuntime
  BY <1>4, Zenon DEF DropRuntime, SlotInv
<1>5. CASE UNCHANGED vars
  BY <1>1, <1>5, Zenon DEF vars, Closed, registryVars, admissionVars
<1> QED
  BY <1>2, <1>3, <1>4, <1>5, SlotOfKey, SlotOfCall, NextSteps, Zenon

\* The steps of a key leave every task of a published key in its registry.
LEMMA TaskOfKey ==
    ASSUME AdmissionSound, StageInv, KeyInv, TaskInv, NEW k \in Key, KeyStep(k)
    PROVE  TaskInv'
<1> USE DEF KeyInv, RegistryTypes
<1>1. UNCHANGED <<stage, flight, gone>>
  BY ShutdownKept, Zenon
<1>2. CASE LoadPublish(k)
  <2>1. UNCHANGED <<retired, joining>>
    BY <1>2, Zenon DEF LoadPublish
  <2>2. CASE draining \/ models[target[k]] # None \/ loading[target[k]] # k
    BY <1>1, <1>2, <2>1, <2>2, ZenonT(30) DEF LoadPublish, TaskInv
  <2>3. CASE ~draining /\ models[target[k]] = None /\ loading[target[k]] = k
    <3>1. stage = "idle" /\ flight = "none"
      BY <2>3, NotDraining, Zenon
    <3> QED
      BY <1>1, <1>2, <2>1, <2>3, <3>1 DEF LoadPublish, TaskInv
  <2> QED
    BY <2>2, <2>3, Zenon
<1>3. ASSUME UNCHANGED <<schedulers, retired, joining>>,
             \A j \in Key : /\ loadPc'[j] = "published" => loadPc[j] = "published"
                            /\ task'[j] = task[j] \/ task'[j] = "gone"
                                 \/ loadPc'[j] # "published"
      PROVE  TaskInv'
  BY <1>1, <1>3, Zenon DEF TaskInv
<1>4. CASE LoadReceive(k) \/ LoadStartupFails(k) \/ LoadAbandon(k)
  BY <1>3, <1>4, SMTT(30) DEF LoadReceive, LoadStartupFails, LoadAbandon
<1>5. CASE LoadAdmitted(k) \/ ReleasePermit(k) \/ LoadReserve(k) \/ LoadCleanup(k)
  BY <1>3, <1>5 DEF LoadAdmitted, ReleasePermit, LoadReserve, LoadCleanup, taskVars
<1>6. CASE LoadSubmit(k) \/ LoadSubscribe(k) \/ LoadForced(k)
  BY <1>3, <1>6, ZenonT(30) DEF LoadSubmit, LoadSubscribe, LoadForced, taskVars
<1>7. CASE JobStart(k) \/ JobFinish(k) \/ SchedulerExit(k)
  BY <1>3, <1>7, Zenon DEF JobStart, JobFinish, SchedulerExit, taskVars, loadVars
<1> QED
  BY <1>2, <1>4, <1>5, <1>6, <1>7, Zenon DEF KeyStep, LoadStep

\* The calls keep the task registries: unload retires the task it stops.
LEMMA TaskOfCall ==
    ASSUME AdmissionSound, StageInv, KeyInv, TaskInv, CallStep
    PROVE  TaskInv'
<1> USE DEF KeyInv, RegistryTypes
<1>1. UNCHANGED <<stage, flight, gone>>
  BY ShutdownKept, Zenon
<1>2. ASSUME NEW k \in Key, NEW m \in Model, LoadEnter(k, m)
      PROVE  TaskInv'
  BY <1>1, <1>2, Zenon DEF LoadEnter, TaskInv, taskVars
<1>3. ASSUME NEW k \in Key, NEW m \in Model, RegisterEngine(k, m)
      PROVE  TaskInv'
  <2>1. stage = "idle" /\ flight = "none"
    BY <1>3, NotDraining, Zenon DEF RegisterEngine, Vacant
  <2> QED
    BY <1>1, <1>3, <2>1, Zenon DEF RegisterEngine, TaskInv
<1>4. ASSUME NEW m \in Model, Unload(m)
      PROVE  TaskInv'
  <2>1. stage = "idle" /\ flight = "none"
    BY <1>4, NotDraining, Zenon DEF Unload
  <2> QED
    BY <1>1, <1>4, <2>1, Zenon DEF Unload, TaskInv, loadVars
<1>5. ASSUME UNCHANGED <<taskVars, loadVars>>
      PROVE  TaskInv'
  BY <1>1, <1>5, Zenon DEF TaskInv, taskVars, loadVars
<1> QED
  BY <1>2, <1>3, <1>4, <1>5, Zenon DEF CallStep, Delete, Reinstall, AcquireLease, DropLease

\* Every step keeps the task registries: finish_shutdown joins all it collects.
LEMMA NextTask ==
    ASSUME AdmissionSound, StageInv, KeyInv, TaskInv, [Next]_vars
    PROVE  TaskInv'
<1> USE DEF KeyInv, RegistryTypes
<1>1. CASE DrainStep
  <2>1. DrainMoves
    BY <1>1, DrainEffect, Zenon
  <2> QED
    BY <2>1, Zenon DEF DrainMoves, TaskInv, taskVars, loadVars
<1>2. CASE ShutdownStage
  <2>1. CASE ShutdownCoordinatorStop \/ ShutdownFinish
    BY <2>1, Zenon DEF ShutdownCoordinatorStop, ShutdownFinish, A!ForceStopCoordinator,
       A!FinishFlight, TaskInv, taskVars, loadVars
  <2>2. CASE ShutdownCollect
    BY <2>2, Zenon DEF ShutdownCollect, StopTasks, TaskInv, loadVars, admissionVars, StageInv
  <2>3. CASE ShutdownJoin
    BY <2>3, Zenon DEF ShutdownJoin, TaskInv, loadVars, admissionVars
  <2>4. CASE ShutdownForce \/ ShutdownSlots \/ ShutdownClear \/ ShutdownClearHealth \/ ShutdownStop
    BY <2>4, Zenon DEF ShutdownForce, ShutdownSlots, ShutdownClear, ShutdownClearHealth,
       ShutdownStop, TaskInv, taskVars, loadVars, admissionVars
  <2> QED
    BY <1>2, <2>1, <2>2, <2>3, <2>4, Zenon DEF ShutdownStage
<1>3. CASE DropRuntime
  BY <1>3, Zenon DEF DropRuntime, A!DropInner, TaskInv
<1>4. CASE UNCHANGED vars
  BY <1>4, Zenon DEF vars, TaskInv, taskVars, loadVars, admissionVars
<1> QED
  BY <1>1, <1>2, <1>3, <1>4, TaskOfKey, TaskOfCall, NextSteps, Zenon

-----------------------------------------------------------------------------
(* The artifacts behind the engines. *)

\* There is no engine in the initial states.
LEMMA InitStore == Init => StoreInv
BY Zenon DEF Init, StoreInv, Registered

\* A step that makes no engine, and takes no artifact away, keeps StoreInv.
LEMMA StoreKept ==
    ASSUME KeyInv, StoreInv, UNCHANGED <<target, present>>,
           \A k \in Key :
               /\ job'[k] \in {"running", "ok"} => job[k] \in {"running", "ok"}
               /\ loadPc'[k] = "starting" => loadPc[k] = "starting"
               /\ job'[k] = "taken" /\ k \in Registered' =>
                      job[k] = "taken" /\ (k \in Registered \/ loadPc[k] = "starting")
    PROVE  StoreInv'
BY Zenon DEF StoreInv

\* The steps of a key keep the artifacts behind the engines: an engine is built from
\* artifacts that are there.
LEMMA StoreOfKey ==
    ASSUME KeyInv, EntryInv, StoreInv, NEW k \in Key, KeyStep(k)
    PROVE  StoreInv'
<1> USE DEF KeyInv, RegistryTypes
<1>1. CASE LoadReceive(k)
  <2>1. Registered' = Registered /\ UNCHANGED <<target, present>>
    BY <1>1, ZenonT(30) DEF LoadReceive, registryVars, Registered
  <2>2. CASE job[k] = "failed"
    BY <1>1, <2>1, <2>2, StoreKept, Zenon DEF LoadReceive
  <2>3. CASE job[k] = "ok"
    BY <1>1, <2>1, <2>3 DEF LoadReceive, StoreInv
  <2> QED
    BY <1>1, <2>2, <2>3, Zenon DEF LoadReceive
<1>2. CASE LoadPublish(k)
  <2>1. job' = job /\ UNCHANGED <<target, present>> /\ loadPc[k] = "starting"
    BY <1>2, Zenon DEF LoadPublish
  <2>2. \A j \in Key : j # k /\ j \in Registered' => j \in Registered
    BY <1>2, RegistryAssumption DEF LoadPublish, registryVars, Registered
  <2>3. \A j \in Key : loadPc'[j] = "starting" => loadPc[j] = "starting"
    BY <1>2, Zenon DEF LoadPublish
  <2> QED
    BY <2>1, <2>2, <2>3, StoreKept, Zenon
<1>3. CASE JobStart(k)
  <2>1. Registered' = Registered /\ UNCHANGED <<target, present, loadPc>>
    BY <1>3, Zenon DEF JobStart, registryVars, Registered
  <2> QED
    BY <1>3, <2>1, Zenon DEF JobStart, StoreInv
<1>4. ASSUME UNCHANGED <<models, target, present>>,
             \A j \in Key :
                 /\ job'[j] \in {"running", "ok"} => job[j] \in {"running", "ok"}
                 /\ loadPc'[j] = "starting" => loadPc[j] = "starting"
                 /\ job'[j] = "taken" => job[j] = "taken"
      PROVE  StoreInv'
  BY <1>4, StoreKept, ZenonT(30) DEF Registered
<1> USE DEF registryVars
<1>5. CASE LoadAdmitted(k) \/ ReleasePermit(k) \/ LoadReserve(k) \/ LoadCleanup(k)
  BY <1>4, <1>5, ZenonT(30) DEF LoadAdmitted, ReleasePermit, LoadReserve, LoadCleanup
<1>6. CASE LoadSubmit(k) \/ LoadSubscribe(k) \/ LoadForced(k)
  BY <1>4, <1>6 DEF LoadSubmit, LoadSubscribe, LoadForced, DropResult
<1>7. CASE LoadStartupFails(k) \/ LoadAbandon(k)
  BY <1>4, <1>7 DEF LoadStartupFails, LoadAbandon, DropResult
<1>8. CASE JobFinish(k) \/ SchedulerExit(k)
  BY <1>4, <1>8, ZenonT(30) DEF JobFinish, SchedulerExit, loadVars
<1> QED
  BY <1>1, <1>2, <1>3, <1>5, <1>6, <1>7, <1>8, Zenon DEF KeyStep, LoadStep

\* The calls keep the artifacts behind the engines: delete needs the store's lock,
\* which every engine built from the store shares.
LEMMA StoreOfCall ==
    ASSUME KeyInv, EntryInv, StoreInv, CallStep
    PROVE  StoreInv'
<1> USE DEF KeyInv, RegistryTypes
<1>1. ASSUME NEW k \in Key, NEW m \in Model, LoadEnter(k, m) \/ RegisterEngine(k, m)
      PROVE  StoreInv'
  <2>1. /\ job' = job /\ present' = present /\ job[k] = "none"
        /\ target' = [target EXCEPT ![k] = m]
        /\ loadPc'[k] # "starting"
        /\ \A j \in Key : j # k => loadPc'[j] = loadPc[j]
    BY <1>1 DEF LoadEnter, RegisterEngine, KeyAt
  <2>2. \A j \in Key : j # k /\ j \in Registered' => j \in Registered
    BY <1>1, RegistryAssumption, ZenonT(30) DEF LoadEnter, RegisterEngine, registryVars, Registered
  <2> QED
    BY <2>1, <2>2, ZenonT(30) DEF StoreInv
<1>2. ASSUME NEW m \in Model, Unload(m)
      PROVE  StoreInv'
  <2>1. Registered' \subseteq Registered
    BY <1>2, RegistryAssumption, Zenon DEF Unload, Registered
  <2> QED
    BY <1>2, <2>1, StoreKept, Zenon DEF Unload, loadVars
<1>3. ASSUME NEW m \in Model, Delete(m)
      PROVE  StoreInv'
  <2>1. Registered' = Registered /\ UNCHANGED <<target, job, loadPc, task>>
    BY <1>3, Zenon DEF Delete, registryVars, loadVars, taskVars, Registered
  <2>2. ASSUME NEW k \in Key,
               \/ job[k] \in {"running", "ok"}
               \/ loadPc[k] = "starting"
               \/ job[k] = "taken" /\ k \in Registered
        PROVE  target[k] # m
    BY <1>3, <2>2, Zenon DEF Delete, StoreLeased, KeyAt
  <2> QED
    BY <1>3, <2>1, <2>2, Zenon DEF Delete, StoreInv
<1>4. ASSUME UNCHANGED <<registryVars, loadVars>>, present \subseteq present'
      PROVE  StoreInv'
  BY <1>4, Zenon DEF StoreInv, Registered, registryVars, loadVars
<1> QED
  BY <1>1, <1>2, <1>3, <1>4, Zenon DEF CallStep, Reinstall, AcquireLease, DropLease

\* Every step keeps the artifacts behind the engines.
LEMMA NextStore ==
    ASSUME AdmissionSound, StageInv, KeyInv, EntryInv, StoreInv, [Next]_vars
    PROVE  StoreInv'
<1>1. ASSUME UNCHANGED <<loadVars, present>>, Registered' \subseteq Registered
      PROVE  StoreInv'
  BY <1>1, Zenon DEF StoreInv, loadVars
<1>2. CASE DrainStep
  <2>1. DrainMoves
    BY <1>2, DrainEffect, Zenon DEF KeyInv
  <2> QED
    BY <1>1, <2>1, Zenon DEF DrainMoves, Registered, registryVars
<1>3. CASE ShutdownClear \/ DropRuntime
  BY <1>1, <1>3, RegistryAssumption, Zenon DEF ShutdownClear, DropRuntime, Registered
<1>4. CASE ShutdownStage /\ ~ShutdownClear
  BY <1>1, <1>4, Zenon DEF ShutdownStage, ShutdownForce, ShutdownSlots, ShutdownCoordinatorStop,
     ShutdownCollect, ShutdownJoin, ShutdownClearHealth, ShutdownStop, ShutdownFinish,
     Registered, registryVars
<1>5. CASE UNCHANGED vars
  BY <1>1, <1>5, Zenon DEF vars, Registered, registryVars
<1> QED
  BY <1>2, <1>3, <1>4, <1>5, StoreOfKey, StoreOfCall, NextSteps, Zenon

\* The layers together are inductive.
RegistryInv == StageInv /\ KeyInv /\ EntryInv /\ LeaseInv /\ SlotInv /\ TaskInv /\ StoreInv

\* They hold in the initial states.
LEMMA InitRegistry == Init => RegistryInv
BY InitStage, InitKey, InitEntry, InitLease, InitSlot, InitStore, Zenon DEF RegistryInv

\* Given what admission promises, every step keeps all the layers.
LEMMA NextRegistry == AdmissionSound /\ RegistryInv /\ [Next]_vars => RegistryInv'
<1> SUFFICES ASSUME AdmissionSound, RegistryInv, [Next]_vars
             PROVE  RegistryInv'
  BY Zenon
<1>1. /\ RegistryTypes
      /\ StageInv /\ KeyInv /\ EntryInv /\ LeaseInv /\ SlotInv /\ TaskInv /\ StoreInv
  BY Zenon DEF RegistryInv, KeyInv
<1> QED
  BY <1>1, NextStage, NextKey, NextEntry, NextLease, NextSlot, NextTask, NextStore, Zenon
     DEF RegistryInv

\* The layers give the safety properties.
LEMMA RegistryMeans ==
    ASSUME AdmissionSound, RegistryInv
    PROVE  LeasePinsModel /\ ServingIsBacked /\ StoppedIsClean
<1> USE DEF RegistryInv, KeyInv, RegistryTypes
<1>1. Cleared => stage \in {"health", "stop", "finish"} \/ lifecycle = "Stopped"
  BY Zenon DEF Cleared, StageInv
<1>2. LeasePinsModel
  BY <1>1, Zenon DEF LeaseInv, LeasePinsModel
<1>3. ServingIsBacked
  <2>1. \A k \in accepting : task[k] = "live" /\ k \in schedulers
    BY Zenon DEF SlotInv
  <2>2. ASSUME NEW m \in Model, models[m] # None, job[models[m]] = "taken"
        PROVE  m \in present
    <3>1. models[m] \in Key /\ target[models[m]] = m
      BY <2>2 DEF EntryInv, ModelEntry
    <3> QED
      BY <2>2, <3>1, Zenon DEF StoreInv, Registered
  <2> QED
    BY <2>1, <2>2, Zenon DEF ServingIsBacked
<1>4. ASSUME lifecycle = "Stopped"
      PROVE  /\ \A m \in Model : models[m] = None /\ loading[m] = None
             /\ \A k \in Key : modelHealth[k] = "absent"
             /\ accepting = {}
             /\ ~gone => \A k \in Key : loadPc[k] = "published" => task[k] = "gone"
  <2>1. stage = "finish" \/ flight = "done" \/ gone
    BY <1>4, Zenon DEF StageInv
  <2>2. \A m \in Model : models[m] = None /\ loading[m] = None
    BY <2>1, Zenon DEF EntryInv, EmptyOnceCleared, Cleared
  <2>3. stage # "health"
    BY <2>1, Zenon DEF StageInv, AdmissionSound
  <2>4. \A k \in Key : modelHealth[k] = "absent"
    BY <2>2, <2>3, RegistryAssumption DEF EntryInv, HealthEntry
  <2>5. accepting = {}
    BY <2>1, Zenon DEF SlotInv, Closed
  <2>6. ~gone => \A k \in Key : loadPc[k] = "published" => task[k] = "gone"
    BY <2>1, <2>3, Zenon DEF TaskInv, StageInv
  <2> QED
    BY <2>2, <2>4, <2>5, <2>6, Zenon
<1> QED
  BY <1>2, <1>3, <1>4, Zenon DEF StoppedIsClean

-----------------------------------------------------------------------------
(* What WorkAdmission proves, carried over. *)

AP == INSTANCE WorkAdmissionProofs WITH Op <- Key, Detached <- {}, NoOp <- None

\* The constants meet the assumption of WorkAdmission.
LEMMA AdmissionConstants == AP!IsFiniteSet(Key) /\ {} \subseteq Key /\ None \notin Key
BY RegistryAssumption, ZenonT(30) DEF IsFiniteSet, AP!IsFiniteSet

\* The two instances of WorkAdmission have the same steps.
LEMMA SameSteps == [A!Next]_(A!vars) => [AP!Next]_(AP!vars)
<1>1. ASSUME NEW o \in Key
      PROVE  /\ A!AdmitCoordinator(o) => AP!AdmitCoordinator(o)
             /\ A!AdmitCount(o) => AP!AdmitCount(o)
             /\ A!ReleaseCount(o) => AP!ReleaseCount(o)
             /\ A!NotifyZero(o) => AP!NotifyZero(o)
             /\ A!ReleaseCoordinator(o) => AP!ReleaseCoordinator(o)
  BY Zenon DEF A!AdmitCoordinator, AP!AdmitCoordinator, A!AdmitCount, AP!AdmitCount,
     A!ReleaseCount, AP!ReleaseCount, A!NotifyZero, AP!NotifyZero,
     A!ReleaseCoordinator, AP!ReleaseCoordinator
<1>2. ASSUME NEW c \in Caller, NEW requested \in {"none", "ahead"}
      PROVE  /\ A!BeginShutdown(c, requested) => AP!BeginShutdown(c, requested)
             /\ A!JoinShutdown(c, requested) => AP!JoinShutdown(c, requested)
             /\ A!ReturnVerdict(c) => AP!ReturnVerdict(c)
             /\ A!AbandonShutdown(c) => AP!AbandonShutdown(c)
  BY Zenon DEF A!BeginShutdown, AP!BeginShutdown, A!CoordinatorBegin, AP!CoordinatorBegin,
     A!JoinShutdown, AP!JoinShutdown, A!ReturnVerdict, AP!ReturnVerdict,
     A!AbandonShutdown, AP!AbandonShutdown
<1>3. A!Flight => AP!Flight
  BY Zenon DEF A!Flight, AP!Flight, A!ArmWaiter, AP!ArmWaiter, A!CheckDeadline, AP!CheckDeadline,
     A!CheckCount, AP!CheckCount, A!WakeDeadlineChanged, AP!WakeDeadlineChanged,
     A!WakeTimer, AP!WakeTimer, A!WakeNotified, AP!WakeNotified, A!DropWaiter,
     AP!DropWaiter, A!ForceStopCoordinator, AP!ForceStopCoordinator, A!FinishFlight,
     AP!FinishFlight
<1>4. (A!ClockPasses => AP!ClockPasses) /\ (A!DropInner => AP!DropInner)
  BY Zenon DEF A!ClockPasses, AP!ClockPasses, A!DropInner, AP!DropInner, A!DropWaiter,
     AP!DropWaiter
<1>5. A!Next => AP!Next
  BY <1>1, <1>2, <1>3, <1>4, ZenonT(30) DEF A!Next, AP!Next
<1> QED
  BY <1>5, ZenonT(30) DEF A!vars, AP!vars

\* The inductive invariant of admission holds of the composition.
LEMMA AdmissionInvariant == Spec => []AP!IInv
<1>1. A!Init => AP!Init
  BY Zenon DEF A!Init, AP!Init
<1>2. A!Spec => AP!Spec
  BY <1>1, SameSteps, PTL DEF A!Spec, AP!Spec
<1>3. AP!Spec => []AP!IInv
  BY AP!Invariance, AdmissionConstants, PTL
<1> QED
  BY <1>2, <1>3, ImplementsAdmission, PTL DEF AdmissionSpec

\* The invariant of admission gives its types, and what the layers needed of it.
LEMMA AdmissionFacts == AP!IInv => A!TypeOK /\ AdmissionSound
<1> SUFFICES ASSUME AP!IInv
             PROVE  A!TypeOK /\ AdmissionSound
  BY Zenon
<1>1. A!TypeOK
  BY Zenon DEF AP!IInv, AP!TypeOK, A!TypeOK, AP!PermitState, A!PermitState, AP!FlightState,
     A!FlightState
<1>2. AdmissionSound
  BY Zenon DEF AP!IInv, AP!Closed, AdmissionSound
<1> QED
  BY <1>1, <1>2, ZenonT(30)

-----------------------------------------------------------------------------
(* The results. *)

\* All the layers hold of every behaviour.
LEMMA Invariance == Spec => [](A!TypeOK /\ AdmissionSound /\ RegistryInv)
BY InitRegistry, NextRegistry, AdmissionInvariant, AdmissionFacts, PTL DEF Spec

\* The registry, the reservations and the health entries agree, however many loads,
\* registrations, unloads and shutdowns are interleaved, fail or are abandoned.
THEOREM RegistryStaysConsistent == Spec => []RegistryConsistent
<1>1. A!TypeOK /\ RegistryInv => RegistryConsistent
  BY Zenon DEF RegistryInv, KeyInv, RegistryTypes, EntryInv, OneEntry, ModelEntry, LoadingEntry,
     HealthEntry, RegistryConsistent, TypeOK
<1> QED
  BY <1>1, Invariance, PTL

\* A RuntimeLease keeps its model registered until a shutdown clears the registry.
THEOREM LeasesPin == Spec => []LeasePinsModel
BY RegistryMeans, Invariance, PTL

\* A registered model has its scheduler and its artifacts behind it.
THEOREM ServingStaysBacked == Spec => []ServingIsBacked
BY RegistryMeans, Invariance, PTL

\* Nothing of the registry outlives the publication of Stopped, and no scheduler
\* of a model that was ever registered is left unjoined.
THEOREM StopCleansUp == Spec => []StoppedIsClean
BY RegistryMeans, Invariance, PTL
=============================================================================
