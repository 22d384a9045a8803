------------------------- MODULE WorkAdmissionProofs -------------------------
(***************************************************************************)
(* Proofs about WorkAdmission, for any finite set of operations and any    *)
(* set of callers.                                                         *)
(***************************************************************************)
EXTENDS WorkAdmission, FiniteSetTheorems, TLAPS

-----------------------------------------------------------------------------
(* The inductive invariant. *)

\* The two counters count exactly the permits in the states they stand for.
Accounting ==
    /\ admitted = Cardinality(Counted)
    /\ coordActive = Cardinality(CoordCounted)

\* Only the owner of admin is between the halves of its admission.
AdminOwner == \A o \in Op : permit[o] = "entering" <=> admin = o

\* Admission is closed from the first shutdown (or the drop) on: the flag is
\* set under admin, hence with nobody between the halves.
Closed ==
    /\ draining => admin = NoOp
    /\ flight # "none" <=> draining
    /\ flight = "none" => deadline = "none"
    /\ gone => flight \in {"done", "aborted"}

IInv ==
    /\ TypeOK
    /\ Accounting
    /\ AdminOwner
    /\ Closed
    /\ CoordinatorAgrees
    /\ DrainedIsQuiescent
    /\ ForcedOnlyPastDeadline

-----------------------------------------------------------------------------
(* How a change of one permit changes the counted sets. *)

\* The sets behind the two counters are finite, and empty exactly at count zero.
LEMMA CountedFinite ==
    /\ IsFiniteSet(Counted)
    /\ Cardinality(Counted) \in Nat
    /\ Cardinality(Counted) = 0 <=> Counted = {}
    /\ IsFiniteSet(CoordCounted)
    /\ Cardinality(CoordCounted) \in Nat
    /\ Cardinality(CoordCounted) = 0 <=> CoordCounted = {}
<1>1. Counted \in SUBSET Op /\ CoordCounted \in SUBSET Op
  BY DEF Counted, CoordCounted
<1>2. IsFiniteSet(Counted) /\ IsFiniteSet(CoordCounted)
  BY <1>1, OpAssumption, FS_Subset
<1> QED
  BY <1>2, FS_CardinalityType, FS_EmptySet

\* A step that keeps every permit keeps both counted sets.
LEMMA CountedIfPermitsKept ==
    ASSUME UNCHANGED permit
    PROVE  Counted' = Counted /\ CoordCounted' = CoordCounted
BY DEF Counted, CoordCounted

\* Counting one permit more.
LEMMA AddElement ==
    ASSUME NEW S, NEW x, IsFiniteSet(S), x \notin S
    PROVE  Cardinality(S \cup {x}) = Cardinality(S) + 1
BY FS_AddElement

\* Counting one permit less.
LEMMA RemoveElement ==
    ASSUME NEW S, NEW x, IsFiniteSet(S), x \in S
    PROVE  Cardinality(S \ {x}) = Cardinality(S) - 1
BY FS_RemoveElement

-----------------------------------------------------------------------------
(* IInv holds initially and every action preserves it. *)

\* A new runtime satisfies the invariant: nothing is admitted and nothing closed.
LEMMA InitIInv == Init => IInv
<1> SUFFICES ASSUME Init PROVE IInv
  OBVIOUS
<1>1. Counted = {} /\ CoordCounted = {}
  BY DEF Init, Counted, CoordCounted
<1>2. Accounting
  BY <1>1, FS_EmptySet DEF Init, Accounting
<1>3. TypeOK
  BY DEF Init, TypeOK, PermitState, FlightState
<1>4. AdminOwner /\ Closed /\ CoordinatorAgrees
  BY OpAssumption DEF Init, AdminOwner, Closed, CoordinatorAgrees
<1>5. DrainedIsQuiescent /\ ForcedOnlyPastDeadline
  BY DEF Init, DrainedIsQuiescent, ForcedOnlyPastDeadline, Decided
<1> QED
  BY <1>2, <1>3, <1>4, <1>5 DEF IInv

\* A step that leaves every permit alone keeps the accounting when it keeps the
\* two counters, and the set of live operations.
LEMMA PermitsKept ==
    ASSUME IInv, UNCHANGED <<permit, admitted, coordActive>>
    PROVE  Accounting' /\ Live' = Live
BY DEF IInv, Accounting, Counted, CoordCounted, Live

\* The first half of admission counts the permit with the coordinator and
\* takes the admin mutex, before anything can close.
LEMMA AdmitCoordinatorIInv ==
    ASSUME IInv, NEW o \in Op, AdmitCoordinator(o)
    PROVE  IInv'
<1> USE DEF AdmitCoordinator
<1>1. CoordCounted' = CoordCounted \cup {o} /\ o \notin CoordCounted
  BY DEF IInv, TypeOK, CoordCounted, PermitState
<1>2. Counted' = Counted
  BY DEF IInv, TypeOK, Counted
<1>3. Accounting'
  BY <1>1, <1>2, CountedFinite, AddElement DEF IInv, Accounting
<1>4. TypeOK'
  BY DEF IInv, TypeOK, PermitState
<1>5. AdminOwner'
  BY OpAssumption DEF IInv, TypeOK, AdminOwner
<1>6. Closed' /\ CoordinatorAgrees'
  BY DEF IInv, TypeOK, Closed, CoordinatorAgrees
<1>7. DrainedIsQuiescent' /\ ForcedOnlyPastDeadline'
  BY DEF IInv, Closed, DrainedIsQuiescent, ForcedOnlyPastDeadline, Decided
<1> QED
  BY <1>3, <1>4, <1>5, <1>6, <1>7 DEF IInv

\* The second half counts it in `admitted`, still under the mutex.
LEMMA AdmitCountIInv ==
    ASSUME IInv, NEW o \in Op, AdmitCount(o)
    PROVE  IInv'
<1> USE DEF AdmitCount
<1>1. Counted' = Counted \cup {o} /\ o \notin Counted
  BY DEF IInv, TypeOK, Counted, PermitState
<1>2. CoordCounted' = CoordCounted
  BY DEF IInv, TypeOK, CoordCounted, PermitState
<1>3. Accounting'
  BY <1>1, <1>2, CountedFinite, AddElement DEF IInv, Accounting
<1>4. TypeOK'
  BY DEF IInv, TypeOK, PermitState
<1>5. AdminOwner'
  BY OpAssumption DEF IInv, TypeOK, AdminOwner
<1>6. Closed' /\ CoordinatorAgrees'
  BY DEF IInv, TypeOK, Closed, CoordinatorAgrees
<1>7. ~draining
  BY OpAssumption DEF IInv, Closed
<1>8. DrainedIsQuiescent' /\ ForcedOnlyPastDeadline'
  BY <1>7 DEF IInv, Closed, DrainedIsQuiescent, ForcedOnlyPastDeadline, Decided
<1> QED
  BY <1>3, <1>4, <1>5, <1>6, <1>8 DEF IInv

\* The destructor takes the permit out of `admitted`.
LEMMA ReleaseCountIInv ==
    ASSUME IInv, NEW o \in Op, ReleaseCount(o)
    PROVE  IInv'
<1> USE DEF ReleaseCount
<1>1. Counted' = Counted \ {o} /\ o \in Counted
  BY DEF IInv, TypeOK, Counted, PermitState
<1>2. CoordCounted' = CoordCounted
  BY DEF IInv, TypeOK, CoordCounted, PermitState
<1>3. Accounting' /\ admitted' \in Nat
  <2>1. Cardinality(Counted) # 0
    BY <1>1, CountedFinite
  <2> QED
    BY <1>1, <1>2, <2>1, CountedFinite, RemoveElement DEF IInv, Accounting
<1>4. TypeOK'
  BY <1>3 DEF IInv, TypeOK, PermitState
<1>5. AdminOwner'
  BY DEF IInv, TypeOK, AdminOwner
<1>6. Closed' /\ CoordinatorAgrees'
  BY DEF IInv, TypeOK, Closed, CoordinatorAgrees
<1>7. Live' \subseteq Live
  BY DEF IInv, TypeOK, Live
<1>8. DrainedIsQuiescent' /\ ForcedOnlyPastDeadline'
  BY <1>7 DEF IInv, DrainedIsQuiescent, ForcedOnlyPastDeadline, Decided
<1> QED
  BY <1>3, <1>4, <1>5, <1>6, <1>8 DEF IInv

\* Notifying after the count reached zero changes no count.
LEMMA NotifyZeroIInv ==
    ASSUME IInv, NEW o \in Op, NotifyZero(o)
    PROVE  IInv'
<1> USE DEF NotifyZero
<1>1. Counted' = Counted
  BY DEF IInv, TypeOK, Counted
<1>2. CoordCounted' = CoordCounted
  BY DEF IInv, TypeOK, CoordCounted
<1>3. Accounting'
  BY <1>1, <1>2 DEF IInv, Accounting
<1>4. TypeOK'
  <2>1. permit' \in [Op -> PermitState]
    BY DEF IInv, TypeOK, PermitState
  <2>2. /\ zeroLatch' \in BOOLEAN
        /\ waiter' \in {"none", "waiting", "signalled", "ready"}
    <3>1. CASE waiter = "waiting"
      BY <3>1 DEF IInv, TypeOK
    <3>2. CASE waiter # "waiting"
      BY <3>2 DEF IInv, TypeOK
    <3> QED
      BY <3>1, <3>2
  <2> QED
    BY <2>1, <2>2 DEF IInv, TypeOK
<1>5. AdminOwner'
  BY DEF IInv, TypeOK, AdminOwner
<1>6. Closed' /\ CoordinatorAgrees'
  BY DEF IInv, TypeOK, Closed, CoordinatorAgrees
<1>7. Live' \subseteq Live
  BY DEF IInv, TypeOK, Live
<1>8. DrainedIsQuiescent' /\ ForcedOnlyPastDeadline'
  BY <1>7 DEF IInv, DrainedIsQuiescent, ForcedOnlyPastDeadline, Decided
<1> QED
  BY <1>3, <1>4, <1>5, <1>6, <1>8 DEF IInv

\* The last half of the destructor, which may stop a draining coordinator.
LEMMA ReleaseCoordinatorIInv ==
    ASSUME IInv, NEW o \in Op, ReleaseCoordinator(o)
    PROVE  IInv'
<1> USE DEF ReleaseCoordinator
<1>1. Counted' = Counted
  BY DEF IInv, TypeOK, Counted
<1>2. CoordCounted' = CoordCounted \ {o} /\ o \in CoordCounted
  BY DEF IInv, TypeOK, CoordCounted
<1>3. coordActive # 0
  BY <1>2, CountedFinite DEF IInv, Accounting
<1>4. Accounting' /\ coordActive' \in Nat
  BY <1>1, <1>2, <1>3, CountedFinite, RemoveElement DEF IInv, Accounting
<1>5. TypeOK'
  BY <1>4 DEF IInv, TypeOK, PermitState
<1>6. AdminOwner'
  BY DEF IInv, TypeOK, AdminOwner
<1>7. Closed'
  BY DEF IInv, Closed
<1>8. CoordinatorAgrees'
  BY <1>3, <1>4 DEF IInv, TypeOK, CoordinatorAgrees, Closed
<1>9. Live' \subseteq Live
  BY DEF IInv, TypeOK, Live
<1>10. DrainedIsQuiescent' /\ ForcedOnlyPastDeadline'
  BY <1>9 DEF IInv, DrainedIsQuiescent, ForcedOnlyPastDeadline, Decided
<1> QED
  BY <1>4, <1>5, <1>6, <1>7, <1>8, <1>10 DEF IInv

\* The first shutdown call closes admission under the admin mutex, so no permit
\* is between its halves.
LEMMA BeginShutdownIInv ==
    ASSUME IInv, NEW c \in Caller, NEW requested \in {"none", "ahead"},
           BeginShutdown(c, requested)
    PROVE  IInv'
<1> USE DEF BeginShutdown
<1>1. Accounting' /\ Live' = Live
  BY PermitsKept
<1>2. TypeOK'
  BY DEF IInv, TypeOK, FlightState, CoordinatorBegin
<1>3. AdminOwner'
  BY DEF IInv, AdminOwner
<1>4. Closed'
  BY DEF IInv, Closed
<1>5. CoordinatorAgrees'
  BY DEF IInv, TypeOK, CoordinatorAgrees, CoordinatorBegin, Closed
<1>6. admitted = 0 => Live = {}
  <2> HAVE admitted = 0
  <2>1. Counted = {}
    BY CountedFinite DEF IInv, Accounting
  <2>2. \A o \in Op : permit[o] # "entering"
    BY OpAssumption DEF IInv, AdminOwner
  <2> QED
    BY <2>1, <2>2 DEF Live, Counted
<1>7. DrainedIsQuiescent' /\ ForcedOnlyPastDeadline'
  BY <1>1, <1>6 DEF DrainedIsQuiescent, ForcedOnlyPastDeadline, Decided
<1> QED
  BY <1>1, <1>2, <1>3, <1>4, <1>5, <1>7 DEF IInv

\* The actions of a caller that is not the first: none of them touches permits,
\* the coordinator or the flight.
LEMMA LaterCallerIInv ==
    ASSUME IInv, NEW c \in Caller, NEW requested \in {"none", "ahead"},
           \/ JoinShutdown(c, requested)
           \/ ReturnVerdict(c)
           \/ AbandonShutdown(c)
    PROVE  IInv'
<1> USE DEF JoinShutdown, ReturnVerdict, AbandonShutdown
<1>1. Accounting' /\ Live' = Live
  BY PermitsKept
<1>2. TypeOK'
  <2>1. caller' \in [Caller -> {"idle", "waiting", "drained", "forced"}]
    <3>1. \E s \in {"idle", "waiting", "drained", "forced"} :
            caller' = [caller EXCEPT ![c] = s]
      OBVIOUS
    <3> QED
      BY <3>1 DEF IInv, TypeOK
  <2>2. deadline' \in {"none", "ahead", "past"} /\ unseen' \in BOOLEAN
    BY DEF IInv, TypeOK
  <2> QED
    BY <2>1, <2>2 DEF IInv, TypeOK
<1>3. AdminOwner' /\ Closed' /\ CoordinatorAgrees'
  BY DEF IInv, AdminOwner, Closed, CoordinatorAgrees
<1>4. DrainedIsQuiescent' /\ ForcedOnlyPastDeadline'
  BY <1>1 DEF IInv, DrainedIsQuiescent, ForcedOnlyPastDeadline, Decided
<1> QED
  BY <1>1, <1>2, <1>3, <1>4 DEF IInv

\* Time only turns a deadline from ahead to past.
LEMMA ClockPassesIInv ==
    ASSUME IInv, ClockPasses
    PROVE  IInv'
<1> USE DEF ClockPasses
<1>1. Accounting' /\ Live' = Live
  BY PermitsKept
<1>2. TypeOK' /\ AdminOwner' /\ Closed' /\ CoordinatorAgrees'
  BY DEF IInv, TypeOK, AdminOwner, Closed, CoordinatorAgrees
<1>3. DrainedIsQuiescent' /\ ForcedOnlyPastDeadline'
  BY <1>1 DEF IInv, DrainedIsQuiescent, ForcedOnlyPastDeadline, Decided
<1> QED
  BY <1>1, <1>2, <1>3 DEF IInv

\* The count read by the flight is zero only when no operation is live.
LEMMA ZeroMeansQuiescent ==
    ASSUME IInv, draining, admitted = 0
    PROVE  Live = {}
<1>1. Counted = {}
  BY CountedFinite DEF IInv, Accounting
<1>2. \A o \in Op : permit[o] # "entering"
  BY OpAssumption DEF IInv, AdminOwner, Closed
<1> QED
  BY <1>1, <1>2 DEF Live, Counted

\* The loop of wait_for_drain: it decides "drained" on a zero count and "forced"
\* past the deadline.
LEMMA WaitIInv ==
    ASSUME IInv,
           \/ ArmWaiter \/ CheckDeadline \/ CheckCount
           \/ WakeDeadlineChanged \/ WakeTimer \/ WakeNotified
    PROVE  IInv'
<1> USE DEF ArmWaiter, CheckDeadline, CheckCount, WakeDeadlineChanged, WakeTimer,
            WakeNotified, DropWaiter
<1>1. Accounting' /\ Live' = Live
  BY PermitsKept
<1>2. TypeOK'
  <2>1. zeroLatch' \in BOOLEAN
    BY DEF IInv, TypeOK
  <2>2. /\ flight' \in FlightState
        /\ waiter' \in {"none", "waiting", "signalled", "ready"}
    BY DEF IInv, TypeOK, FlightState
  <2>3. drained' \in BOOLEAN /\ unseen' \in BOOLEAN
    BY DEF IInv, TypeOK
  <2> QED
    BY <2>1, <2>2, <2>3 DEF IInv, TypeOK
<1>3. AdminOwner' /\ Closed' /\ CoordinatorAgrees'
  BY DEF IInv, AdminOwner, Closed, CoordinatorAgrees
<1>4. draining
  BY DEF IInv, Closed
<1>5. DrainedIsQuiescent'
  BY <1>1, <1>4, ZeroMeansQuiescent DEF IInv, DrainedIsQuiescent, Decided
<1>6. ForcedOnlyPastDeadline'
  BY DEF IInv, ForcedOnlyPastDeadline, Decided
<1> QED
  BY <1>1, <1>2, <1>3, <1>5, <1>6 DEF IInv

\* The end of the flight stops the coordinator, which its count may outlive.
LEMMA FenceIInv ==
    ASSUME IInv, ForceStopCoordinator \/ FinishFlight
    PROVE  IInv'
<1> USE DEF ForceStopCoordinator, FinishFlight
<1>1. Accounting' /\ Live' = Live
  BY PermitsKept
<1>2. TypeOK'
  BY DEF IInv, TypeOK, FlightState
<1>3. AdminOwner' /\ Closed' /\ CoordinatorAgrees'
  BY DEF IInv, TypeOK, AdminOwner, Closed, CoordinatorAgrees
<1>4. DrainedIsQuiescent' /\ ForcedOnlyPastDeadline'
  BY <1>1 DEF IInv, DrainedIsQuiescent, ForcedOnlyPastDeadline, Decided
<1> QED
  BY <1>1, <1>2, <1>3, <1>4 DEF IInv

\* The destructor of the runtime runs when no future borrows it.
LEMMA DropInnerIInv ==
    ASSUME IInv, DropInner
    PROVE  IInv'
<1> USE DEF DropInner, DropWaiter
<1>1. Accounting' /\ Live' = Live
  BY PermitsKept
<1>2. TypeOK'
  BY DEF IInv, TypeOK, FlightState
<1>3. AdminOwner' /\ Closed' /\ CoordinatorAgrees'
  BY DEF IInv, TypeOK, AdminOwner, Closed, CoordinatorAgrees
<1>4. DrainedIsQuiescent' /\ ForcedOnlyPastDeadline'
  BY <1>1 DEF IInv, DrainedIsQuiescent, ForcedOnlyPastDeadline, Decided
<1> QED
  BY <1>1, <1>2, <1>3, <1>4 DEF IInv

\* Every step preserves the invariant.
LEMMA NextIInv ==
    ASSUME IInv, [Next]_vars
    PROVE  IInv'
<1>1. ASSUME NEW o \in Op,
             \/ AdmitCoordinator(o) \/ AdmitCount(o)
             \/ ReleaseCount(o) \/ NotifyZero(o) \/ ReleaseCoordinator(o)
      PROVE  IInv'
  BY <1>1, AdmitCoordinatorIInv, AdmitCountIInv, ReleaseCountIInv, NotifyZeroIInv,
     ReleaseCoordinatorIInv
<1>2. ASSUME NEW c \in Caller, NEW requested \in {"none", "ahead"},
             BeginShutdown(c, requested) \/ JoinShutdown(c, requested)
      PROVE  IInv'
  BY <1>2, BeginShutdownIInv, LaterCallerIInv
<1>3. ASSUME NEW c \in Caller, ReturnVerdict(c) \/ AbandonShutdown(c)
      PROVE  IInv'
  BY <1>3, LaterCallerIInv
<1>4. CASE ClockPasses
  BY <1>4, ClockPassesIInv
<1>5. CASE Flight
  BY <1>5, WaitIInv, FenceIInv DEF Flight
<1>6. CASE DropInner
  BY <1>6, DropInnerIInv
<1>7. CASE UNCHANGED vars
  <2> USE <1>7 DEF vars
  <2>1. Accounting' /\ Live' = Live
    BY PermitsKept
  <2>2. TypeOK' /\ AdminOwner' /\ Closed' /\ CoordinatorAgrees'
    BY DEF IInv, TypeOK, AdminOwner, Closed, CoordinatorAgrees
  <2>3. DrainedIsQuiescent' /\ ForcedOnlyPastDeadline'
    BY <2>1 DEF IInv, DrainedIsQuiescent, ForcedOnlyPastDeadline, Decided
  <2> QED
    BY <2>1, <2>2, <2>3 DEF IInv
<1> QED
  BY <1>1, <1>2, <1>3, <1>4, <1>5, <1>6, <1>7 DEF Next

\* The inductive invariant holds in every reachable state.
THEOREM Invariance == Spec => []IInv
BY InitIInv, NextIInv, PTL DEF Spec

\* Every field of admission and of the flight keeps its type.
THEOREM TypeCorrect == Spec => []TypeOK
<1>1. IInv => TypeOK
  BY DEF IInv
<1> QED
  BY <1>1, Invariance, PTL

\* "drained" is told to a caller of shutdown only when no accepted operation is
\* left, for any number of operations and callers.
THEOREM DrainIsSound == Spec => []DrainedIsQuiescent
<1>1. IInv => DrainedIsQuiescent
  BY DEF IInv
<1> QED
  BY <1>1, Invariance, PTL

\* Accepted work is given up only past the shared deadline.
THEOREM ForceIsLate == Spec => []ForcedOnlyPastDeadline
<1>1. IInv => ForcedOnlyPastDeadline
  BY DEF IInv
<1> QED
  BY <1>1, Invariance, PTL

\* The ShutdownCoordinator and the draining flag never disagree on admission.
THEOREM CoordinatorInStep == Spec => []CoordinatorAgrees
<1>1. IInv => CoordinatorAgrees
  BY DEF IInv
<1> QED
  BY <1>1, Invariance, PTL

-----------------------------------------------------------------------------
(* The verdict is final, and WorkAdmission implements DrainContract. *)

\* No step takes a verdict back or changes it.
LEMMA VerdictStep ==
    ASSUME IInv, [Next]_vars
    PROVE  Decided => Decided' /\ drained' = drained
<1> SUFFICES ASSUME Decided
             PROVE  Decided' /\ drained' = drained
  OBVIOUS
<1> USE DEF Decided
<1>1. ASSUME NEW o \in Op,
             \/ AdmitCoordinator(o) \/ AdmitCount(o)
             \/ ReleaseCount(o) \/ NotifyZero(o) \/ ReleaseCoordinator(o)
      PROVE  Decided' /\ drained' = drained
  BY <1>1 DEF AdmitCoordinator, AdmitCount, ReleaseCount, NotifyZero,
              ReleaseCoordinator
<1>2. ASSUME NEW c \in Caller, NEW requested \in {"none", "ahead"},
             BeginShutdown(c, requested) \/ JoinShutdown(c, requested)
      PROVE  Decided' /\ drained' = drained
  BY <1>2 DEF BeginShutdown, JoinShutdown
<1>3. ASSUME NEW c \in Caller, ReturnVerdict(c) \/ AbandonShutdown(c)
      PROVE  Decided' /\ drained' = drained
  BY <1>3 DEF ReturnVerdict, AbandonShutdown
<1>4. CASE ClockPasses
  BY <1>4 DEF ClockPasses
<1>5. CASE Flight
  BY <1>5 DEF Flight, ArmWaiter, CheckDeadline, CheckCount, WakeDeadlineChanged,
              WakeTimer, WakeNotified, ForceStopCoordinator, FinishFlight
<1>6. CASE DropInner
  BY <1>6 DEF DropInner
<1>7. CASE UNCHANGED vars
  BY <1>7 DEF vars
<1> QED
  BY <1>1, <1>2, <1>3, <1>4, <1>5, <1>6, <1>7 DEF Next

\* No caller, early or late, is told another verdict than the first one.
THEOREM VerdictIsStable == Spec => VerdictIsFinal
<1>1. IInv /\ [Next]_vars => [Decided => Decided' /\ drained' = drained]_vars
  BY VerdictStep
<1> QED
  BY <1>1, Invariance, PTL DEF Spec, VerdictIsFinal

\* A new runtime is a new service of the contract.
LEMMA ContractInit == Init => Contract!Init
BY DEF Init, Contract!Init, Live, Verdict, Decided

\* A step that keeps what the contract sees is a stuttering step of it.
LEMMA ContractStutter ==
    ASSUME draining' = draining, Live' = Live, deadline' = deadline,
           flight' = flight, drained' = drained
    PROVE  UNCHANGED Contract!vars
BY DEF Contract!vars, Verdict, Decided

\* A permit starts and ends an operation of the contract at one of its halves;
\* the others are invisible.
LEMMA ContractOfOperation ==
    ASSUME IInv, NEW o \in Op,
           \/ AdmitCoordinator(o) \/ AdmitCount(o)
           \/ ReleaseCount(o) \/ NotifyZero(o) \/ ReleaseCoordinator(o)
    PROVE  [Contract!Next]_(Contract!vars)
<1>1. CASE AdmitCoordinator(o)
  <2>1. Live' = Live \cup {o} /\ o \notin Live
    BY <1>1 DEF AdmitCoordinator, Live, IInv, TypeOK, PermitState
  <2>2. Verdict' = Verdict
    BY <1>1 DEF AdmitCoordinator, Verdict, Decided
  <2>3. Contract!Start(o)
    BY <1>1, <2>1, <2>2 DEF AdmitCoordinator, Contract!Start
  <2> QED
    BY <2>3 DEF Contract!Next
<1>2. CASE ReleaseCount(o)
  <2>1. Live' = Live \ {o} /\ o \in Live
    BY <1>2 DEF ReleaseCount, Live, IInv, TypeOK, PermitState
  <2>2. Verdict' = Verdict
    BY <1>2 DEF ReleaseCount, Verdict, Decided
  <2>3. Contract!End(o)
    BY <1>2, <2>1, <2>2 DEF ReleaseCount, Contract!End
  <2> QED
    BY <2>3 DEF Contract!Next
<1>3. CASE AdmitCount(o) \/ NotifyZero(o) \/ ReleaseCoordinator(o)
  <2>1. Live' = Live
    BY <1>3 DEF AdmitCount, NotifyZero, ReleaseCoordinator, Live, IInv, TypeOK,
                PermitState
  <2>2. UNCHANGED <<draining, deadline, flight, drained>>
    BY <1>3 DEF AdmitCount, NotifyZero, ReleaseCoordinator
  <2> QED
    BY <2>1, <2>2, ContractStutter
<1> QED
  BY <1>1, <1>2, <1>3

\* The first caller closes the service; the others are invisible, but for a
\* deadline they bring.
LEMMA ContractOfCaller ==
    ASSUME IInv, NEW c \in Caller, NEW requested \in {"none", "ahead"},
           \/ BeginShutdown(c, requested) \/ JoinShutdown(c, requested)
           \/ ReturnVerdict(c) \/ AbandonShutdown(c)
    PROVE  [Contract!Next]_(Contract!vars)
<1>0. Live' = Live
  BY DEF BeginShutdown, JoinShutdown, ReturnVerdict, AbandonShutdown, Live
<1>1. CASE BeginShutdown(c, requested)
  <2>1. ~draining /\ deadline = "none" /\ draining'
    BY <1>1 DEF BeginShutdown, IInv, Closed
  <2>2. Verdict = "none"
    BY <1>1 DEF BeginShutdown, Verdict, Decided
  <2>3. IF admitted = 0 THEN Verdict' = "drained" /\ Live = {} ELSE Verdict' = "none"
    <3>1. ASSUME admitted = 0 PROVE Live = {}
      <4>1. Counted = {}
        BY <3>1, CountedFinite DEF IInv, Accounting
      <4>2. \A o \in Op : permit[o] # "entering"
        BY <1>1, OpAssumption DEF BeginShutdown, IInv, AdminOwner
      <4> QED
        BY <4>1, <4>2 DEF Live, Counted
    <3> QED
      BY <1>1, <3>1 DEF BeginShutdown, Verdict, Decided
  <2>4. flight' \notin {"done", "aborted"} /\ flight = "none" /\ deadline' # "past"
    BY <1>1 DEF BeginShutdown
  <2>5. Contract!Close
    BY <1>0, <2>1, <2>2, <2>3, <2>4 DEF Contract!Close
  <2> QED
    BY <2>5 DEF Contract!Next
<1>2. CASE JoinShutdown(c, requested)
  <2>1. UNCHANGED <<draining, flight, drained>>
    BY <1>2 DEF JoinShutdown
  <2>2. (deadline' = "past") = (deadline = "past")
    BY <1>2 DEF JoinShutdown
  <2> QED
    BY <1>0, <2>1, <2>2 DEF Contract!vars, Verdict, Decided
<1>3. CASE ReturnVerdict(c) \/ AbandonShutdown(c)
  BY <1>0, <1>3, ContractStutter DEF ReturnVerdict, AbandonShutdown
<1> QED
  BY <1>1, <1>2, <1>3

\* The flight decides and stops; arming, checking and waking are invisible.
LEMMA ContractOfFlight ==
    ASSUME IInv, Flight
    PROVE  [Contract!Next]_(Contract!vars)
<1>1. Live' = Live
  BY DEF Flight, ArmWaiter, CheckDeadline, CheckCount, WakeDeadlineChanged,
         WakeTimer, WakeNotified, ForceStopCoordinator, FinishFlight, Live
<1>2. UNCHANGED <<draining, deadline>>
  BY DEF Flight, ArmWaiter, CheckDeadline, CheckCount, WakeDeadlineChanged,
         WakeTimer, WakeNotified, ForceStopCoordinator, FinishFlight
<1>3. CASE ArmWaiter \/ WakeDeadlineChanged \/ WakeNotified
  <2>1. Verdict' = Verdict
    BY <1>3 DEF ArmWaiter, WakeDeadlineChanged, WakeNotified, Verdict, Decided
  <2>2. (flight' \in {"done", "aborted"}) = (flight \in {"done", "aborted"})
    BY <1>3 DEF ArmWaiter, WakeDeadlineChanged, WakeNotified
  <2> QED
    BY <1>1, <1>2, <2>1, <2>2 DEF Contract!vars
<1>4. CASE CheckDeadline \/ CheckCount \/ WakeTimer
  <2>1. draining /\ Verdict = "none"
    BY <1>4 DEF CheckDeadline, CheckCount, WakeTimer, Verdict, Decided, IInv, Closed
  <2>2. flight \notin {"done", "aborted"} /\ flight' \notin {"done", "aborted"}
    BY <1>4 DEF CheckDeadline, CheckCount, WakeTimer
  <2>3. \/ Verdict' = "none"
        \/ Verdict' = "forced" /\ deadline = "past"
        \/ Verdict' = "drained" /\ Live = {}
    BY <1>4, <2>1, ZeroMeansQuiescent
       DEF CheckDeadline, CheckCount, WakeTimer, Verdict, Decided
  <2>4. CASE Verdict' = "none"
    BY <1>1, <1>2, <2>1, <2>2, <2>4 DEF Contract!vars
  <2>5. CASE Verdict' # "none"
    <3>1. Contract!Decide
      BY <1>1, <1>2, <2>1, <2>2, <2>3, <2>5 DEF Contract!Decide
    <3> QED
      BY <3>1 DEF Contract!Next
  <2> QED
    BY <2>4, <2>5
<1>5. CASE ForceStopCoordinator
  <2>1. Verdict' = Verdict
    BY <1>5 DEF ForceStopCoordinator, Verdict, Decided
  <2>2. flight' \notin {"done", "aborted"} /\ flight \notin {"done", "aborted"}
    BY <1>5 DEF ForceStopCoordinator
  <2> QED
    BY <1>1, <1>2, <2>1, <2>2 DEF Contract!vars
<1>6. CASE FinishFlight
  <2>1. Verdict' = Verdict /\ Verdict # "none"
    BY <1>6 DEF FinishFlight, Verdict, Decided
  <2>2. flight' = "done"
    BY <1>6 DEF FinishFlight
  <2>3. Contract!Stop
    BY <1>1, <1>2, <2>1, <2>2 DEF Contract!Stop
  <2> QED
    BY <2>3 DEF Contract!Next
<1> QED
  BY <1>3, <1>4, <1>5, <1>6 DEF Flight

\* The clock expires the deadline; the destructor is the vanishing of the owner.
LEMMA ContractOfClockAndDrop ==
    ASSUME IInv, ClockPasses \/ DropInner
    PROVE  [Contract!Next]_(Contract!vars)
<1>1. Live' = Live
  BY DEF ClockPasses, DropInner, Live
<1>2. CASE ClockPasses
  <2>1. draining /\ deadline' = "past" /\ UNCHANGED <<draining, flight, drained>>
    BY <1>2 DEF ClockPasses, IInv, Closed
  <2>2. Contract!Expire
    BY <1>1, <2>1 DEF Contract!Expire, Verdict, Decided
  <2> QED
    BY <2>2 DEF Contract!Next
<1>3. CASE DropInner
  <2>1. draining' /\ deadline' = deadline /\ flight' \in {"done", "aborted"}
    BY <1>3 DEF DropInner
  <2>2. Verdict' = Verdict
    BY <1>3 DEF DropInner, Verdict, Decided
  <2>3. Contract!Vanish
    BY <1>1, <2>1, <2>2 DEF Contract!Vanish
  <2> QED
    BY <2>3 DEF Contract!Next
<1> QED
  BY <1>2, <1>3

\* The mechanism (permits counted twice, the Notify, the shared deadline)
\* implements the contract of shutdown.
THEOREM Implements == Spec => ContractSpec
<1>1. IInv /\ [Next]_vars => [Contract!Next]_(Contract!vars)
  <2> SUFFICES ASSUME IInv, [Next]_vars
               PROVE  [Contract!Next]_(Contract!vars)
    OBVIOUS
  <2>1. CASE UNCHANGED vars
    BY <2>1, ContractStutter DEF vars, Live
  <2>2. ASSUME NEW c \in Caller, ReturnVerdict(c) \/ AbandonShutdown(c)
        PROVE  [Contract!Next]_(Contract!vars)
    BY <2>2, ContractOfCaller
  <2> QED
    BY <2>1, <2>2, ContractOfOperation, ContractOfCaller, ContractOfFlight,
       ContractOfClockAndDrop DEF Next
<1> QED
  BY <1>1, ContractInit, Invariance, PTL DEF Spec, ContractSpec, Contract!Spec
=============================================================================
