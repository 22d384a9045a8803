------------------------- MODULE EmbedPipelineProofs -------------------------
(***************************************************************************)
(* Proofs about EmbedPipeline for any finite set of requests and slots,    *)
(* any queue_depth and any number of workers.                              *)
(*                                                                         *)
(* The invariant says, for each place a Request object can be in, what the *)
(* future, the reply, the lease and the queue permit of that request are   *)
(* then (JobInv, SlotInv, FutureInv), that a request is in one place only, *)
(* and that nothing holds a lease or a permit from nowhere.  The counter,  *)
(* the errors and the shutdown follow from it.                             *)
(***************************************************************************)
EXTENDS EmbedPipeline, FiniteSetTheorems, TLAPS

Job == [kind : {"preflight", "batch"}, members : SUBSET Req, running : BOOLEAN]

Types ==
    /\ open \in BOOLEAN /\ live \subseteq Req /\ expired \in BOOLEAN
    /\ verdict \in {"none", "drained", "forced"}
    /\ used \subseteq Key /\ accepting \subseteq used /\ fenced \subseteq used
    /\ stopping \subseteq used /\ registered \in used \cup {None}
    /\ queued \in [Key -> Int]
    /\ forceStop \in BOOLEAN
    /\ stage \in {"idle", "force", "slots", "join"}
    /\ sched \in [Key -> {"none", "idle", "window", "drain", "closed"}]
    /\ chan \in [Key -> Seq(Req)] /\ pend \in [Key -> SUBSET Req]
    /\ jobs \subseteq Job
    /\ pc \in [Req -> {"idle", "admitted", "picked", "leased", "prepared", "force", "active",
                       "select", "reply", "done"}]
    /\ phase \in [Req -> {"preflight", "response"}]
    /\ slot \in [Req -> Key \cup {None}] /\ lease \in [Req -> Key \cup {None}]
    /\ permit \subseteq Req
    /\ reply \in [Req -> Codes \cup {"none", "prepared", "closed"}]
    /\ outcome \in [Req -> Codes \cup {"none", "dropped"}]
    /\ cancelled \subseteq Req /\ abandoned \subseteq Req /\ late \subseteq Req

\* The future of a request that is with a worker or a scheduler is gone, or awaits it.
Awaited(r, what) == pc[r] = "done" \/ (Awaits(r) /\ phase[r] = what)

\* A request that is with a worker.
JobInv(j, r) ==
    /\ \A k \in Key : r \notin Held(k)
    /\ reply[r] = "none" /\ lease[r] # None /\ slot[r] \in Key
    /\ Awaited(r, IF j.kind = "preflight" THEN "preflight" ELSE "response")
    /\ r \in permit <=> j.kind = "preflight" \/ ~j.running

JobsInv ==
    /\ \A j \in jobs : /\ j.kind = "preflight" => \E r \in Req : j.members = {r}
                       /\ \A r \in j.members : JobInv(j, r)
    /\ \A i, j \in jobs : i # j => i.members \cap j.members = {}

\* A request that is with the scheduler of slot k.
SlotInv(k, r) ==
    /\ reply[r] = "none" /\ lease[r] # None /\ slot[r] = k /\ r \in permit
    /\ Awaited(r, "response")

SlotsInv ==
    \A k \in Key : /\ \A r \in Held(k) : SlotInv(k, r)
                   /\ IsInjective(chan[k]) /\ Range(chan[k]) \cap pend[k] = {}

\* A request that is with its future, and what a lease and a permit stand for.
FutureInv(r) ==
    /\ ~Awaits(r) => reply[r] = "none"
    /\ pc[r] \in {"idle", "admitted", "picked", "leased", "prepared"} => phase[r] = "preflight"
    /\ pc[r] \in {"idle", "admitted", "picked"} => lease[r] = None /\ r \notin permit
    /\ pc[r] \in {"picked", "leased", "prepared"} => slot[r] \in Key
    /\ pc[r] = "leased" => lease[r] # None /\ r \notin permit
    /\ pc[r] = "prepared" => lease[r] # None /\ r \in permit
    /\ reply[r] = "prepared" => phase[r] = "preflight" /\ lease[r] # None /\ r \in permit
    /\ reply[r] \notin {"none", "prepared"} => lease[r] = None /\ r \notin permit
    /\ lease[r] # None => InPool(r) \/ InScheduler(r) \/ Owned(r) # {}
    /\ r \in permit => Waiting(r) /\ slot[r] \in Key

PlaceInv == JobsInv /\ SlotsInv /\ \A r \in Req : FutureInv(r)

\* The queue permits of a slot.
Permits(k) == {r \in permit : slot[r] = k}

CountInv == \A k \in Key : queued[k] = Cardinality(Permits(k))

\* Errors are about the request, in the reply and in the outcome.
ErrorInv ==
    \A r \in Req : /\ "cancelled" \in {reply[r], outcome[r]} => Cancelled(r)
                   /\ "deadline" \in {reply[r], outcome[r]} => r \in late
                   /\ pc[r] # "done" => outcome[r] = "none"

\* A request is live between its admission and its return, and nothing is live once
\* the runtime has drained.
DrainInv ==
    /\ live = {r \in Req : pc[r] \notin {"idle", "done"}}
    /\ verdict = "drained" => live = {}
    /\ verdict # "none" => ~open
    /\ verdict = "none" => fenced = {} /\ stage = "idle"
    /\ \A r \in abandoned : pc[r] = "done"
    /\ verdict # "forced" =>
           \A r \in Req : /\ reply[r] # "closed"
                          /\ "cancelled" \in {reply[r], outcome[r]} => r \in cancelled

PipelineInv == Types /\ PlaceInv /\ CountInv /\ ErrorInv /\ DrainInv

-----------------------------------------------------------------------------
(* What the operators of the model keep.                                       *)

\* The queue permits of a slot are finitely many.
LEMMA PermitsFinite ==
    ASSUME Types, NEW k \in Key
    PROVE  IsFiniteSet(Permits(k)) /\ Cardinality(Permits(k)) \in Nat
BY FS_Subset, FS_CardinalityType, PipelineAssumption, Zenon DEF Types, Permits

\* Dropping Requests takes as much from the counter as it takes permits away.
LEMMA ReleaseCounts ==
    ASSUME Types, CountInv, NEW rs \in SUBSET Req, UNCHANGED slot,
           permit' = permit \ rs,
           queued' = [k \in Key |-> queued[k] - Cardinality({r \in rs \cap permit : slot[r] = k})]
    PROVE  CountInv' /\ queued' \in [Key -> Int]
<1> SUFFICES ASSUME NEW k \in Key
             PROVE  queued'[k] = Cardinality(Permits(k)') /\ queued'[k] \in Int
  BY Zenon DEF CountInv
<1> DEFINE gone == {r \in rs \cap permit : slot[r] = k}
<1>1. Permits(k)' = Permits(k) \ gone /\ Permits(k) \cap gone = gone
  BY Zenon DEF Permits
<1>2. IsFiniteSet(Permits(k)) /\ Cardinality(Permits(k)) \in Nat
  BY PermitsFinite, Zenon
<1>3. IsFiniteSet(gone) /\ Cardinality(gone) \in Nat
  BY <1>1, <1>2, FS_Subset, FS_CardinalityType, Zenon
<1>4. Cardinality(Permits(k)') = Cardinality(Permits(k)) - Cardinality(gone)
  BY <1>1, <1>2, FS_Difference, ZenonT(30)
<1>5. queued'[k] = queued[k] - Cardinality(gone)
  BY Zenon
<1> HIDE DEF gone
<1> QED
  BY <1>2, <1>3, <1>4, <1>5 DEF CountInv

\* A new permit is counted.
LEMMA AcquireCounts ==
    ASSUME Types, CountInv, NEW r \in Req, r \notin permit, slot[r] \in Key,
           UNCHANGED slot, permit' = permit \cup {r},
           queued' = [queued EXCEPT ![slot[r]] = @ + 1]
    PROVE  CountInv' /\ queued' \in [Key -> Int]
<1> SUFFICES ASSUME NEW k \in Key
             PROVE  queued'[k] = Cardinality(Permits(k)')
  BY DEF CountInv, Types
<1>1. IsFiniteSet(Permits(k)) /\ Cardinality(Permits(k)) \in Nat
  BY PermitsFinite, Zenon
<1>2. CASE slot[r] = k
  <2>1. Permits(k)' = Permits(k) \cup {r} /\ r \notin Permits(k)
    BY <1>2, Zenon DEF Permits
  <2>2. Cardinality(Permits(k)') = Cardinality(Permits(k)) + 1
    BY <1>1, <2>1, FS_AddElement, Zenon
  <2> QED
    BY <1>1, <1>2, <2>2 DEF CountInv, Types
<1>3. CASE slot[r] # k
  <2>1. Permits(k)' = Permits(k)
    BY <1>3, Zenon DEF Permits
  <2> QED
    BY <1>3, <2>1, Zenon DEF CountInv, Types
<1> QED
  BY <1>2, <1>3, Zenon

\* The counter follows the permits and the slots.
LEMMA CountKept ==
    ASSUME CountInv, UNCHANGED <<slot, permit, queued>>
    PROVE  CountInv'
BY Zenon DEF CountInv, Permits

\* The places and what is known of them depend on the futures, on what they own, on
\* the jobs and on the schedulers only.
LEMMA PlaceKept ==
    ASSUME PlaceInv, UNCHANGED <<pc, phase, slot, lease, permit, reply, jobs, chan, pend>>
    PROVE  PlaceInv'
BY DEF PlaceInv, JobsInv, JobInv, SlotsInv, SlotInv, FutureInv, Awaited, Awaits, Held, InPool,
       InScheduler, Owned, Waiting

\* A step of the future of r that leaves the jobs and the schedulers alone changes
\* nothing for other requests.
LEMMA FutureKept ==
    ASSUME Types, PlaceInv, NEW r \in Req,
           UNCHANGED <<jobs, chan, pend>>,
           \A q \in Req \ {r} : /\ pc'[q] = pc[q] /\ phase'[q] = phase[q] /\ slot'[q] = slot[q]
                                /\ lease'[q] = lease[q] /\ reply'[q] = reply[q]
                                /\ q \in permit' <=> q \in permit,
           \A j \in jobs : r \in j.members => JobInv(j, r)',
           \A k \in Key : r \in Held(k) => SlotInv(k, r)',
           FutureInv(r)'
    PROVE  PlaceInv'
<1>1. \A q \in Req \ {r} : FutureInv(q)'
  BY DEF PlaceInv, FutureInv, Awaits, InPool, InScheduler, Held, Owned, Waiting
<1>2. JobsInv'
  <2>1. ASSUME NEW j \in jobs, NEW q \in j.members
        PROVE  JobInv(j, q)'
    <3>1. q \in Req
      BY Zenon DEF Types, Job
    <3>2. CASE q # r
      BY <3>1, <3>2 DEF PlaceInv, JobsInv, JobInv, Awaited, Awaits, Held
    <3> QED
      BY <3>2, Zenon
  <2> QED
    BY <2>1, Zenon DEF PlaceInv, JobsInv
<1>3. SlotsInv'
  BY DEF Types, PlaceInv, SlotsInv, SlotInv, Awaited, Awaits, Held
<1> QED
  BY <1>1, <1>2, <1>3, Zenon DEF PlaceInv

\* The Requests rs are answered where somebody awaits them, and leave their places.
LEMMA SettleKept ==
    ASSUME Types, PlaceInv, NEW rs \in SUBSET Req,
           UNCHANGED <<pc, phase, slot>>,
           \A r \in rs : reply[r] = "none" /\ pc[r] \notin {"idle", "admitted", "picked", "leased", "prepared"},
           \A q \in Req : /\ lease'[q] = IF q \in rs THEN None ELSE lease[q]
                          /\ reply'[q] # reply[q] => q \in rs /\ Awaits(q) /\ reply'[q] \notin {"none", "prepared"},
           permit' = permit \ rs,
           jobs' \subseteq jobs,
           \A j \in jobs' : j.members \cap rs = {},
           \A j \in jobs \ jobs' : j.members \subseteq rs,
           \A k \in Key : /\ Held(k)' = Held(k) \ rs
                          /\ IsInjective(chan'[k]) /\ Range(chan'[k]) \cap pend'[k] = {}
    PROVE  PlaceInv'
<1>1. JobsInv'
  BY DEF Types, Job, PlaceInv, JobsInv, JobInv, Awaited, Awaits
<1>2. SlotsInv'
  BY DEF Types, PlaceInv, SlotsInv, SlotInv, Awaited, Awaits
<1>3. ASSUME NEW q \in Req
      PROVE  FutureInv(q)'
  <2>1. CASE q \in rs
    BY <2>1, Zenon DEF PlaceInv, FutureInv, Awaits
  <2>2. CASE q \notin rs
    <3>1. InPool(q) => InPool(q)'
      BY <2>2, Zenon DEF InPool
    <3>2. InScheduler(q) => InScheduler(q)'
      BY <2>2, Zenon DEF InScheduler
    <3>3. reply'[q] = reply[q] /\ lease'[q] = lease[q] /\ (q \in permit' <=> q \in permit)
      BY <2>2, Zenon
    <3>4. Waiting(q) => Waiting(q)'
      BY <2>2, <3>2, <3>3, Zenon DEF Waiting
    <3> QED
      BY <3>1, <3>2, <3>3, <3>4, ZenonT(30) DEF PlaceInv, FutureInv, Awaits, Owned
  <2> QED
    BY <2>1, <2>2, Zenon
<1> QED
  BY <1>1, <1>2, <1>3, Zenon DEF PlaceInv

\* A channel of Requests, each of them in it once.
LEMMA ChannelFacts ==
    ASSUME NEW s \in Seq(Req), IsInjective(s)
    PROVE  /\ \A r \in Req : /\ Range(Append(s, r)) = Range(s) \cup {r}
                             /\ r \notin Range(s) => IsInjective(Append(s, r))
           /\ s # <<>> => /\ Head(s) \in Req /\ Tail(s) \in Seq(Req)
                          /\ Range(s) = {Head(s)} \cup Range(Tail(s))
                          /\ Head(s) \notin Range(Tail(s)) /\ IsInjective(Tail(s))
<1>1. ASSUME NEW r \in Req
      PROVE  /\ Range(Append(s, r)) = Range(s) \cup {r}
             /\ r \notin Range(s) => IsInjective(Append(s, r))
  <2>1. /\ Append(s, r) \in Seq(Req) /\ Len(Append(s, r)) = Len(s) + 1
        /\ \A i \in 1 .. Len(s) : Append(s, r)[i] = s[i]
        /\ Append(s, r)[Len(s) + 1] = r
    OBVIOUS
  <2>2. DOMAIN Append(s, r) = (DOMAIN s) \cup {Len(s) + 1} /\ DOMAIN s = 1 .. Len(s) /\ Len(s) \in Nat
    BY <2>1
  <2> QED
    BY <2>1, <2>2 DEF Range, IsInjective
<1>2. ASSUME s # <<>>
      PROVE  /\ Head(s) \in Req /\ Tail(s) \in Seq(Req)
             /\ Range(s) = {Head(s)} \cup Range(Tail(s))
             /\ Head(s) \notin Range(Tail(s)) /\ IsInjective(Tail(s))
  <2>1. /\ Head(s) = s[1] /\ Tail(s) \in Seq(Req) /\ Len(s) \in Nat \ {0}
        /\ DOMAIN Tail(s) = 1 .. Len(s) - 1 /\ DOMAIN s = 1 .. Len(s)
        /\ \A i \in 1 .. Len(s) - 1 : Tail(s)[i] = s[i + 1]
    BY <1>2
  <2>2. ASSUME NEW i \in DOMAIN s
        PROVE  i = 1 \/ (i - 1 \in DOMAIN Tail(s) /\ s[i] = Tail(s)[i - 1])
    BY <2>1
  <2>3. ASSUME NEW i \in DOMAIN Tail(s)
        PROVE  i + 1 \in DOMAIN s /\ i + 1 # 1 /\ Tail(s)[i] = s[i + 1]
    BY <2>1
  <2>4. Range(s) = {Head(s)} \cup Range(Tail(s))
    <3>1. ASSUME NEW x \in Range(s)
          PROVE  x = Head(s) \/ x \in Range(Tail(s))
      <4>1. PICK i \in DOMAIN s : x = s[i]
        BY <3>1, Zenon DEF Range
      <4> QED
        BY <2>1, <2>2, <4>1, Zenon DEF Range
    <3>2. Head(s) \in Range(s) /\ \A x \in Range(Tail(s)) : x \in Range(s)
      BY <2>1, <2>3 DEF Range
    <3> QED
      BY <3>1, <3>2, Zenon
  <2>5. Head(s) \notin Range(Tail(s))
    BY <2>1, <2>3 DEF Range, IsInjective
  <2>6. IsInjective(Tail(s))
    <3> SUFFICES ASSUME NEW a \in DOMAIN Tail(s), NEW b \in DOMAIN Tail(s), Tail(s)[a] = Tail(s)[b]
                 PROVE  a = b
      BY Zenon DEF IsInjective
    <3>1. s[a + 1] = s[b + 1] /\ a + 1 \in DOMAIN s /\ b + 1 \in DOMAIN s
      BY <2>3, Zenon
    <3>2. a + 1 = b + 1 /\ a \in Nat /\ b \in Nat
      BY <2>1, <3>1 DEF IsInjective
    <3> QED
      BY <3>2
  <2> QED
    BY <2>1, <2>4, <2>5, <2>6, <1>2
<1> QED
  BY <1>1, <1>2, Zenon

\* A request that its future has not handed over, or has got back, is nowhere else.
LEMMA NotPlaced ==
    ASSUME PlaceInv, NEW r \in Req,
           pc[r] \in {"idle", "admitted", "picked", "leased", "prepared"} \/ reply[r] # "none"
    PROVE  /\ \A j \in jobs : r \notin j.members
           /\ \A k \in Key : r \notin Held(k)
BY DEF PlaceInv, JobsInv, JobInv, SlotsInv, SlotInv, Awaited, Awaits

\* The future returns with what it owns, and leaves behind what others own.
LEMMA ReturnPlace ==
    ASSUME Types, PlaceInv, NEW r \in Req, NEW code, pc[r] \notin {"idle", "done"},
           Return(r, code), UNCHANGED <<jobs, chan, pend>>
    PROVE  PlaceInv'
<1>1. \A q \in Req \ {r} : /\ pc'[q] = pc[q] /\ phase'[q] = phase[q] /\ slot'[q] = slot[q]
                           /\ lease'[q] = lease[q] /\ reply'[q] = reply[q]
                           /\ q \in permit' <=> q \in permit
  BY ZenonT(30) DEF Types, Return, ReleaseAll, Owned
<1>2. /\ pc'[r] = "done" /\ reply'[r] = "none" /\ UNCHANGED <<phase, slot>>
      /\ Owned(r) = {} => lease'[r] = lease[r] /\ (r \in permit' <=> r \in permit)
      /\ Owned(r) # {} => lease'[r] = None /\ r \notin permit'
  BY Zenon DEF Types, Return, ReleaseAll, Owned
<1>3. Owned(r) # {} => /\ \A j \in jobs : r \notin j.members
                       /\ \A k \in Key : r \notin Held(k)
  BY NotPlaced, Zenon DEF Owned
<1>4. FutureInv(r)'
  <2>1. FutureInv(r)
    BY Zenon DEF PlaceInv
  <2>2. InPool(r) => InPool(r)'
    BY Zenon DEF InPool
  <2>3. InScheduler(r) => InScheduler(r)'
    BY Zenon DEF InScheduler, Held
  <2>4. Waiting(r) /\ Owned(r) = {} => Waiting(r)'
    BY <2>3, Zenon DEF Waiting, Owned
  <2> QED
    BY <1>2, <2>1, <2>2, <2>3, <2>4, Zenon DEF FutureInv, Awaits, Owned
<1>5. \A j \in jobs : r \in j.members => JobInv(j, r)'
  BY <1>2, <1>3, Zenon DEF PlaceInv, JobsInv, JobInv, Awaited, Held
<1>6. \A k \in Key : r \in Held(k) => SlotInv(k, r)'
  BY <1>2, <1>3 DEF PlaceInv, SlotsInv, SlotInv, Awaited
<1> QED
  BY <1>1, <1>4, <1>5, <1>6, FutureKept, Zenon

-----------------------------------------------------------------------------
(* Every step keeps PlaceInv.                                                  *)

\* The steps of embed_inner up to the lease.
LEMMA EmbedPlace ==
    ASSUME Types, PlaceInv, NEW r \in Req, Admit(r) \/ PickSlot(r) \/ TakeLease(r)
    PROVE  PlaceInv'
<1>1. /\ UNCHANGED <<jobs, chan, pend>>
      /\ pc[r] \in {"idle", "admitted", "picked"}
  BY Zenon DEF Admit, PickSlot, TakeLease, schedVars
<1>2. /\ \A j \in jobs : r \notin j.members
      /\ \A k \in Key : r \notin Held(k)
  BY <1>1, NotPlaced, Zenon
<1>3. FutureInv(r)
  BY Zenon DEF PlaceInv
<1>4. CASE \E code : pc[r] # "idle" /\ Return(r, code)
  BY <1>1, <1>4, ReturnPlace, Zenon
<1>5. CASE Admit(r)
  <2>1. FutureInv(r)'
    BY <1>3, <1>5 DEF Types, Admit, ownedVars, FutureInv, Awaits
  <2> QED
    BY <1>1, <1>2, <1>5, <2>1, FutureKept, Zenon DEF Types, Admit, ownedVars
<1>6. CASE /\ pc[r] = "admitted" /\ registered \in accepting
           /\ slot' = [slot EXCEPT ![r] = registered]
           /\ pc' = [pc EXCEPT ![r] = "picked"]
           /\ UNCHANGED <<phase, ownedVars>>
  <2>1. FutureInv(r)'
    BY <1>3, <1>6, Zenon DEF Types, ownedVars, FutureInv, Awaits
  <2> QED
    BY <1>1, <1>2, <1>6, <2>1, FutureKept, Zenon DEF Types, ownedVars
<1>7. CASE /\ pc[r] = "picked" /\ registered \in accepting
           /\ lease' = [lease EXCEPT ![r] = registered]
           /\ Goto(r, "leased")
           /\ UNCHANGED <<permit, queued, reply>>
  <2>1. lease'[r] # None /\ lease'[r] \in Key /\ pc'[r] = "leased" /\ Owned(r)' = {r}
    BY <1>7, PipelineAssumption, ZenonT(30) DEF Types, Goto, Owned
  <2>2. FutureInv(r)'
    BY <1>3, <1>7, <2>1, Zenon DEF Types, Goto, FutureInv, Awaits
  <2> QED
    BY <1>1, <1>2, <1>7, <2>2, FutureKept, Zenon DEF Types, Goto
<1> QED
  BY <1>4, <1>5, <1>6, <1>7, Zenon DEF PickSlot, TakeLease

\* A queue permit is taken and the request goes to the pool.
LEMMA SubmitPlace ==
    ASSUME Types, PlaceInv, NEW r \in Req, SubmitPreflight(r)
    PROVE  PlaceInv'
<1>1. UNCHANGED <<chan, pend>> /\ pc[r] = "leased"
  BY Zenon DEF SubmitPreflight, schedVars
<1>2. /\ \A j \in jobs : r \notin j.members
      /\ \A k \in Key : r \notin Held(k)
  BY <1>1, NotPlaced, Zenon
<1>3. CASE \E code : Return(r, code) /\ UNCHANGED <<jobs, order>>
  BY <1>1, <1>3, ReturnPlace, Zenon
<1>4. CASE /\ permit' = permit \cup {r}
           /\ jobs' = jobs \cup {[kind |-> "preflight", members |-> {r}, running |-> FALSE]}
           /\ Goto(r, "force")
           /\ UNCHANGED <<lease, reply>>
  <2> DEFINE new == [kind |-> "preflight", members |-> {r}, running |-> FALSE]
  <2>1. /\ pc'[r] = "force" /\ UNCHANGED <<phase, slot>>
        /\ \A q \in Req \ {r} : pc'[q] = pc[q]
    BY <1>4, Zenon DEF Types, Goto
  <2>2. FutureInv(r) /\ lease[r] # None /\ slot[r] \in Key /\ reply[r] = "none" /\ phase[r] = "preflight"
    BY <1>1, Zenon DEF PlaceInv, FutureInv, Awaits
  <2>3. /\ new.kind = "preflight" /\ new.members = {r} /\ new.running = FALSE
        /\ new \in jobs' /\ \A j \in jobs' : j = new \/ j \in jobs
        /\ \A j \in jobs : j \in jobs'
    BY <1>4, Zenon
  <2> HIDE DEF new
  <2>4. JobsInv'
    <3>1. JobInv(new, r)'
      BY <1>1, <1>2, <1>4, <2>1, <2>2, <2>3, Zenon DEF JobInv, Awaited, Awaits, Held
    <3>2. ASSUME NEW j \in jobs, NEW q \in j.members
          PROVE  JobInv(j, q)'
      <4>1. q \in Req /\ q # r
        BY <1>2, ZenonT(30) DEF Types, Job
      <4> QED
        BY <1>1, <1>4, <2>1, <4>1 DEF PlaceInv, JobsInv, JobInv, Awaited, Awaits, Held
    <3> QED
      BY <1>2, <2>3, <3>1, <3>2 DEF PlaceInv, JobsInv
  <2>5. SlotsInv'
    BY <1>1, <1>2, <1>4, <2>1 DEF Types, PlaceInv, SlotsInv, SlotInv, Awaited, Awaits, Held
  <2>6. ASSUME NEW q \in Req
        PROVE  FutureInv(q)'
    <3>1. CASE q = r
      <4>1. InPool(r)' /\ Waiting(r)'
        BY <2>3, Zenon DEF InPool, Waiting
      <4> QED
        BY <1>4, <2>1, <2>2, <3>1, <4>1, Zenon DEF FutureInv, Awaits
    <3>2. CASE q # r
      <4>1. (InPool(q) => InPool(q)') /\ (InScheduler(q) => InScheduler(q)')
        BY <1>1, <2>3, Zenon DEF InPool, InScheduler, Held
      <4>2. Waiting(q) => Waiting(q)'
        BY <1>4, <2>1, <2>3, <3>2, <4>1, Zenon DEF Waiting
      <4> QED
        BY <1>4, <2>1, <3>2, <4>1, <4>2, Zenon DEF PlaceInv, FutureInv, Awaits, Owned
    <3> QED
      BY <3>1, <3>2, Zenon
  <2> QED
    BY <2>4, <2>5, <2>6, Zenon DEF PlaceInv
<1> QED
  BY <1>3, <1>4, Zenon DEF SubmitPreflight

\* The prepared request goes into the channel of its slot.
LEMMA EnqueuePlace ==
    ASSUME Types, PlaceInv, NEW r \in Req, Enqueue(r)
    PROVE  PlaceInv'
<1>1. UNCHANGED <<jobs, pend>> /\ pc[r] = "prepared"
  BY Zenon DEF Enqueue
<1>2. /\ \A j \in jobs : r \notin j.members
      /\ \A k \in Key : r \notin Held(k)
  BY <1>1, NotPlaced, Zenon
<1>3. CASE \E code : Return(r, code) /\ UNCHANGED chan
  BY <1>1, <1>3, ReturnPlace, ZenonT(30)
<1>4. CASE /\ chan' = [chan EXCEPT ![slot[r]] = Append(@, r)]
           /\ phase' = [phase EXCEPT ![r] = "response"]
           /\ pc' = [pc EXCEPT ![r] = "force"]
           /\ UNCHANGED <<slot, ownedVars>>
  <2>1. /\ pc'[r] = "force" /\ phase'[r] = "response" /\ UNCHANGED <<lease, permit, reply, slot>>
        /\ \A q \in Req \ {r} : pc'[q] = pc[q] /\ phase'[q] = phase[q]
    BY <1>4, ZenonT(30) DEF Types, ownedVars
  <2>2. FutureInv(r) /\ lease[r] # None /\ slot[r] \in Key /\ reply[r] = "none" /\ r \in permit
    BY <1>1, Zenon DEF PlaceInv, FutureInv, Awaits
  <2>3. ASSUME NEW k \in Key
        PROVE  /\ Held(k)' = IF k = slot[r] THEN Held(k) \cup {r} ELSE Held(k)
               /\ IsInjective(chan'[k]) /\ Range(chan'[k]) \cap pend'[k] = {}
    <3>1. chan[k] \in Seq(Req) /\ IsInjective(chan[k]) /\ Range(chan[k]) \cap pend[k] = {}
      BY Zenon DEF Types, PlaceInv, SlotsInv
    <3>2. CASE k = slot[r]
      <4>1. chan'[k] = Append(chan[k], r) /\ pend'[k] = pend[k]
        BY <1>1, <1>4, <3>2, Zenon DEF Types
      <4>2. r \notin Range(chan[k]) /\ r \notin pend[k]
        BY <1>2, Zenon DEF Held
      <4> QED
        BY <3>1, <3>2, <4>1, <4>2, ChannelFacts DEF Held
    <3>3. CASE k # slot[r]
      BY <1>1, <1>4, <3>1, <3>3, Zenon DEF Types, Held
    <3> QED
      BY <3>2, <3>3, Zenon
  <2>4. JobsInv'
    <3>1. ASSUME NEW j \in jobs, NEW q \in j.members
          PROVE  JobInv(j, q)'
      <4>1. q \in Req /\ q # r
        BY <1>2, Zenon DEF Types, Job
      <4> QED
        BY <2>1, <2>3, <4>1 DEF PlaceInv, JobsInv, JobInv, Awaited, Awaits
    <3> QED
      BY <1>1, <3>1, Zenon DEF PlaceInv, JobsInv
  <2>5. SlotsInv'
    <3>1. ASSUME NEW k \in Key, k = slot[r]
          PROVE  SlotInv(k, r)'
      BY <2>1, <2>2, <3>1, Zenon DEF SlotInv, Awaited, Awaits
    <3>2. ASSUME NEW k \in Key, NEW q \in Held(k)
          PROVE  SlotInv(k, q)'
      <4>1. q \in Req /\ q # r
        BY <1>2 DEF Types, Held, Range
      <4> QED
        BY <2>1, <4>1 DEF PlaceInv, SlotsInv, SlotInv, Awaited, Awaits
    <3>3. ASSUME NEW k \in Key, NEW q \in Held(k)'
          PROVE  SlotInv(k, q)'
      <4>1. q \in Held(k) \/ (k = slot[r] /\ q = r)
        BY <2>3, Zenon
      <4> QED
        BY <3>1, <3>2, <4>1, Zenon
    <3> QED
      BY <2>3, <3>3, Zenon DEF SlotsInv
  <2>6. ASSUME NEW q \in Req
        PROVE  FutureInv(q)'
    <3>1. (InPool(q) => InPool(q)') /\ (InScheduler(q) => InScheduler(q)')
      BY <1>1, <2>3, Zenon DEF InPool, InScheduler
    <3>2. CASE q = r
      <4>1. InScheduler(r)'
        BY <2>2, <2>3, Zenon DEF InScheduler
      <4> QED
        BY <2>1, <2>2, <3>2, <4>1, Zenon DEF FutureInv, Awaits, Waiting
    <3>3. CASE q # r
      <4>1. Waiting(q) => Waiting(q)'
        BY <1>1, <2>1, <3>1, <3>3, Zenon DEF Waiting
      <4> QED
        BY <2>1, <3>1, <3>3, <4>1, Zenon DEF PlaceInv, FutureInv, Awaits, Owned
    <3> QED
      BY <3>2, <3>3, Zenon
  <2> QED
    BY <2>4, <2>5, <2>6, Zenon DEF PlaceInv
<1> QED
  BY <1>3, <1>4, Zenon DEF Enqueue

\* await_controlled looks, waits, takes the reply or is dropped.
LEMMA AwaitPlace ==
    ASSUME Types, PlaceInv, NEW r \in Req,
           CheckForce(r) \/ CheckActive(r) \/ Select(r) \/ TakeReply(r) \/ Abandon(r)
    PROVE  PlaceInv'
<1>1. UNCHANGED <<jobs, chan, pend>> /\ Awaits(r) /\ pc[r] \notin {"idle", "done"}
  BY Zenon DEF CheckForce, CheckActive, Select, TakeReply, Abandon, schedVars, Awaits
<1>2. FutureInv(r)
  BY Zenon DEF PlaceInv
<1>3. CASE \E code : Return(r, code)
  BY <1>1, <1>3, ReturnPlace, Zenon
<1>4. CASE \E where \in {"active", "select", "reply"} : Goto(r, where) /\ UNCHANGED ownedVars
  <2>1. /\ Awaits(r)' /\ pc'[r] \in {"active", "select", "reply"}
        /\ UNCHANGED <<phase, slot, lease, permit, reply>>
        /\ \A q \in Req \ {r} : pc'[q] = pc[q]
    BY <1>4, ZenonT(30) DEF Types, Goto, ownedVars, Awaits
  <2>2. Owned(r) = Owned(r)' /\ (InPool(r) => InPool(r)') /\ (InScheduler(r) => InScheduler(r)')
    BY <1>1, <2>1, Zenon DEF Owned, InPool, InScheduler, Held, Awaits
  <2>3. Waiting(r) => Waiting(r)'
    BY <1>1, <2>1, <2>2, Zenon DEF Waiting, Awaits
  <2>4. FutureInv(r)'
    BY <1>1, <1>2, <2>1, <2>2, <2>3, Zenon DEF FutureInv, Awaits
  <2>5. \A j \in jobs : r \in j.members => JobInv(j, r)'
    BY <1>1, <2>1, Zenon DEF PlaceInv, JobsInv, JobInv, Awaited, Awaits, Held
  <2>6. \A k \in Key : r \in Held(k) => SlotInv(k, r)'
    BY <1>1, <2>1 DEF PlaceInv, SlotsInv, SlotInv, Awaited, Awaits
  <2> QED
    BY <1>1, <2>1, <2>4, <2>5, <2>6, FutureKept, Zenon
<1>5. CASE /\ reply[r] = "prepared"
           /\ Goto(r, "prepared")
           /\ reply' = [reply EXCEPT ![r] = "none"]
           /\ UNCHANGED <<lease, permit, queued>>
  <2>1. /\ \A j \in jobs : r \notin j.members
        /\ \A k \in Key : r \notin Held(k)
    BY <1>5, NotPlaced, Zenon
  <2>2. /\ pc'[r] = "prepared" /\ reply'[r] = "none" /\ UNCHANGED <<phase, slot, lease, permit>>
        /\ \A q \in Req \ {r} : pc'[q] = pc[q] /\ reply'[q] = reply[q]
    BY <1>5, ZenonT(30) DEF Types, Goto
  <2>3. Owned(r)' # {} /\ Waiting(r)'
    BY <2>2, Zenon DEF Owned, Waiting
  <2>4. FutureInv(r)'
    BY <1>2, <1>5, <2>2, <2>3, Zenon DEF FutureInv, Awaits
  <2> QED
    BY <1>1, <2>1, <2>2, <2>4, FutureKept, Zenon
<1> QED
  BY <1>3, <1>4, <1>5, Zenon DEF CheckForce, CheckActive, Select, TakeReply, Abandon

\* What holds of a Request with a worker or a scheduler.
LEMMA Placed ==
    ASSUME Types, PlaceInv, NEW r \in Req,
           (\E j \in jobs : r \in j.members) \/ (\E k \in Key : r \in Held(k))
    PROVE  /\ reply[r] = "none" /\ lease[r] # None /\ slot[r] \in Key
           /\ pc[r] \notin {"idle", "admitted", "picked", "leased", "prepared"}
BY DEF PlaceInv, JobsInv, JobInv, SlotsInv, SlotInv, Awaited, Awaits

\* The Requests of a job are answered and dropped, and the job is over.
LEMMA JobOverPlace ==
    ASSUME Types, PlaceInv, NEW j \in jobs, NEW code \in [j.members -> Codes \cup {"closed"}],
           AnswerAll(j.members, code) \/ (ReleaseAll(j.members) /\ UNCHANGED reply),
           Finished(j), UNCHANGED <<pc, phase, slot, chan, pend>>
    PROVE  PlaceInv'
<1> DEFINE rs == j.members
<1>1. rs \in SUBSET Req /\ jobs' = jobs \ {j}
  BY ZenonT(30) DEF Types, Job, Finished
<1>2. \A r \in rs : reply[r] = "none" /\ pc[r] \notin {"idle", "admitted", "picked", "leased", "prepared"}
  BY <1>1, Placed, Zenon
<1>3. permit' = permit \ rs /\ \A q \in Req : lease'[q] = IF q \in rs THEN None ELSE lease[q]
  BY Zenon DEF AnswerAll, ReleaseAll
<1>4. ASSUME NEW q \in Req, reply'[q] # reply[q]
      PROVE  q \in rs /\ Awaits(q) /\ reply'[q] \notin {"none", "prepared"}
  BY <1>4, Zenon DEF AnswerAll, Codes
<1>5. \A i \in jobs' : i.members \cap rs = {}
  BY <1>1, Zenon DEF PlaceInv, JobsInv
<1>6. ASSUME NEW k \in Key
      PROVE  Held(k)' = Held(k) \ rs /\ IsInjective(chan'[k]) /\ Range(chan'[k]) \cap pend'[k] = {}
  <2>1. \A r \in rs : r \notin Held(k)
    BY Zenon DEF PlaceInv, JobsInv, JobInv
  <2>2. Held(k)' = Held(k)
    BY Zenon DEF Held
  <2> QED
    BY <2>1, <2>2, Zenon DEF PlaceInv, SlotsInv
<1>7. \A i \in jobs \ jobs' : i.members \subseteq rs
  BY <1>1, Zenon
<1>8. jobs' \subseteq jobs
  BY <1>1, Zenon
<1> HIDE DEF rs
<1> QED
  BY <1>1, <1>2, <1>3, <1>4, <1>5, <1>6, <1>7, <1>8, SettleKept, Zenon

\* The codes a control can give.
LEMMA ControlCodes ==
    \A r : ControlError(r) \in Codes /\ \A code \in Codes : Effective(r, code) \in Codes
BY Zenon DEF ControlError, Effective, Codes

\* A preflight job starts: it finds its request inactive, or is on its way.
LEMMA PreflightStartsPlace ==
    ASSUME Types, PlaceInv, NEW j \in jobs, PreflightStarts(j)
    PROVE  PlaceInv'
<1>1. PICK r \in j.members : IF Inactive(r)
                               THEN AnswerAll({r}, [q \in {r} |-> ControlError(q)]) /\ Finished(j)
                               ELSE Started(j, j.members) /\ UNCHANGED ownedVars
  BY Zenon DEF PreflightStarts
<1>2. /\ UNCHANGED <<pc, phase, slot, chan, pend>> /\ j.kind = "preflight" /\ j \in Job
      /\ j.members = {r} /\ r \in Req
  BY <1>1 DEF PreflightStarts, futureVars, schedVars, PlaceInv, JobsInv, Types
<1>3. CASE Inactive(r)
  <2>1. [q \in {r} |-> ControlError(q)] \in [j.members -> Codes \cup {"closed"}]
    BY <1>2, ControlCodes, Zenon
  <2>2. AnswerAll(j.members, [q \in {r} |-> ControlError(q)]) /\ Finished(j)
    BY <1>1, <1>2, <1>3, Zenon
  <2> QED
    BY <1>2, <2>1, <2>2, JobOverPlace, Zenon
<1>4. CASE ~Inactive(r)
  <2> DEFINE new == [j EXCEPT !.members = j.members, !.running = TRUE]
  <2>1. jobs' = (jobs \ {j}) \cup {new} /\ UNCHANGED <<lease, permit, reply>>
    BY <1>1, <1>4, Zenon DEF Started, ownedVars
  <2>2. new.kind = "preflight" /\ new.members = {r}
    BY <1>2, Zenon DEF Job
  <2> HIDE DEF new
  <2>3. JobsInv'
    <3>1. JobInv(new, r)'
      BY <1>2, <2>1, <2>2 DEF PlaceInv, JobsInv, JobInv, Awaited, Awaits, Held
    <3>2. \A i \in jobs : \A q \in i.members : JobInv(i, q)'
      BY <1>2, <2>1 DEF PlaceInv, JobsInv, JobInv, Awaited, Awaits, Held
    <3>3. \A i \in jobs \ {j} : r \notin i.members
      BY <1>2, Zenon DEF PlaceInv, JobsInv
    <3> QED
      BY <1>2, <2>1, <2>2, <3>1, <3>2, <3>3, ZenonT(30) DEF PlaceInv, JobsInv
  <2>4. SlotsInv'
    BY <1>2, <2>1 DEF PlaceInv, SlotsInv, SlotInv, Awaited, Awaits, Held
  <2>5. ASSUME NEW q \in Req
        PROVE  FutureInv(q)'
    <3>1. InPool(q) => InPool(q)'
      BY <1>2, <2>1, <2>2, Zenon DEF InPool
    <3>2. InScheduler(q) => InScheduler(q)'
      BY <1>2, Zenon DEF InScheduler, Held
    <3>3. Waiting(q) => Waiting(q)'
      BY <1>2, <2>1, <2>2, <3>2, Zenon DEF Waiting
    <3> QED
      BY <1>2, <2>1, <3>1, <3>2, <3>3, Zenon DEF PlaceInv, FutureInv, Awaits, Owned
  <2> QED
    BY <2>3, <2>4, <2>5, Zenon DEF PlaceInv
<1> QED
  BY <1>3, <1>4, Zenon

\* A preflight job ends: the request is answered, or travels in the reply.
LEMMA PreflightEndsPlace ==
    ASSUME Types, PlaceInv, NEW j \in jobs, PreflightEnds(j)
    PROVE  PlaceInv'
<1>1. PICK r \in j.members :
           \/ AnswerAll({r}, [q \in {r} |-> "failed"])
           \/ AnswerAll({r}, [q \in {r} |-> "invalid"])
           \/ Inactive(r) /\ AnswerAll({r}, [q \in {r} |-> ControlError(q)])
           \/ ~Inactive(r) /\ ~Awaits(r) /\ ReleaseAll({r}) /\ UNCHANGED reply
           \/ /\ ~Inactive(r) /\ Awaits(r)
              /\ reply' = [reply EXCEPT ![r] = "prepared"]
              /\ UNCHANGED <<lease, permit, queued>>
  BY Zenon DEF PreflightEnds
<1>2. /\ UNCHANGED <<pc, phase, slot, chan, pend>> /\ j.kind = "preflight" /\ Finished(j)
      /\ j.members = {r} /\ r \in Req
  BY <1>1 DEF PreflightEnds, futureVars, schedVars, PlaceInv, JobsInv
<1>3. CASE \E code \in [{r} -> Codes] : AnswerAll({r}, code)
  <2>1. PICK code \in [{r} -> Codes] : AnswerAll({r}, code)
    BY <1>3, Zenon
  <2>2. code \in [j.members -> Codes \cup {"closed"}] /\ AnswerAll(j.members, code)
    BY <1>2, <2>1, Zenon
  <2> QED
    BY <1>2, <2>2, JobOverPlace, Zenon
<1>4. CASE ReleaseAll({r}) /\ UNCHANGED reply
  <2>1. [q \in {r} |-> "failed"] \in [j.members -> Codes \cup {"closed"}]
    BY <1>2, Zenon DEF Codes
  <2>2. ReleaseAll(j.members) /\ UNCHANGED reply
    BY <1>2, <1>4, Zenon
  <2> QED
    BY <1>2, <2>1, <2>2, JobOverPlace, Zenon
<1>5. CASE /\ Awaits(r)
           /\ reply' = [reply EXCEPT ![r] = "prepared"]
           /\ UNCHANGED <<lease, permit, queued>>
  <2>1. /\ reply'[r] = "prepared" /\ \A q \in Req \ {r} : reply'[q] = reply[q]
        /\ jobs' = jobs \ {j}
    BY <1>2, <1>5, ZenonT(30) DEF Types, Finished
  <2>2. JobInv(j, r)
    BY <1>2, Zenon DEF PlaceInv, JobsInv
  <2>3. JobsInv'
    <3>1. ASSUME NEW i \in jobs', NEW q \in i.members
          PROVE  JobInv(i, q)'
      <4>1. q \in Req /\ q # r
        BY <1>2, <2>1 DEF PlaceInv, JobsInv, Types, Job
      <4> QED
        BY <1>2, <1>5, <2>1, <4>1 DEF PlaceInv, JobsInv, JobInv, Awaited, Awaits, Held
    <3> QED
      BY <2>1, <3>1, Zenon DEF PlaceInv, JobsInv
  <2>4. SlotsInv'
    <3>1. ASSUME NEW k \in Key, NEW q \in Held(k)
          PROVE  SlotInv(k, q)'
      <4>1. q \in Req /\ q # r
        BY <2>2 DEF JobInv, Types, Held, Range
      <4> QED
        BY <1>2, <1>5, <2>1, <4>1 DEF PlaceInv, SlotsInv, SlotInv, Awaited, Awaits
    <3> QED
      BY <1>2, <3>1, Zenon DEF PlaceInv, SlotsInv, Held
  <2>5. ASSUME NEW q \in Req
        PROVE  FutureInv(q)'
    <3>1. InScheduler(q) => InScheduler(q)'
      BY <1>2, Zenon DEF InScheduler, Held
    <3>2. CASE q = r
      <4>1. Waiting(r)' /\ Owned(r)' # {}
        BY <2>1, Zenon DEF Waiting, Owned
      <4>2. FutureInv(r) /\ phase[r] = "preflight" /\ lease[r] # None /\ r \in permit /\ slot[r] \in Key
        BY <1>2, <1>5, <2>2, Zenon DEF PlaceInv, JobInv, Awaited, Awaits
      <4> QED
        BY <1>2, <1>5, <2>1, <3>2, <4>1, <4>2, Zenon DEF FutureInv, Awaits
    <3>3. CASE q # r
      <4>1. InPool(q) => InPool(q)'
        BY <1>2, <2>1, <3>3, Zenon DEF InPool
      <4>2. Waiting(q) => Waiting(q)'
        BY <1>2, <2>1, <3>1, <3>3, Zenon DEF Waiting
      <4> QED
        BY <1>2, <1>5, <2>1, <3>1, <3>3, <4>1, <4>2 DEF PlaceInv, FutureInv, Awaits, Owned
    <3> QED
      BY <3>2, <3>3, Zenon
  <2> QED
    BY <2>3, <2>4, <2>5, Zenon DEF PlaceInv
<1>6. /\ [q \in {r} |-> "failed"] \in [{r} -> Codes] /\ [q \in {r} |-> "invalid"] \in [{r} -> Codes]
      /\ [q \in {r} |-> ControlError(q)] \in [{r} -> Codes]
  BY ControlCodes, Zenon DEF Codes
<1> QED
  BY <1>1, <1>3, <1>4, <1>5, <1>6, Zenon

\* A batch starts: the queue permits end, and who is fenced or inactive leaves it.
LEMMA BatchStartsPlace ==
    ASSUME Types, PlaceInv, NEW j \in jobs, BatchStarts(j)
    PROVE  PlaceInv'
<1>0. PICK runs : runs = {r \in j.members : slot[r] \in accepting /\ ~Inactive(r)}
  BY Zenon
<1> DEFINE out == j.members \ runs
           new == [j EXCEPT !.members = runs, !.running = TRUE]
<1>1. /\ UNCHANGED <<pc, phase, slot, chan, pend>> /\ j.kind = "batch" /\ ~j.running
      /\ j \in Job /\ j.members \subseteq Req /\ runs \subseteq j.members
  BY <1>0, Zenon DEF BatchStarts, futureVars, schedVars, Types, Job
<1>2. /\ permit' = permit \ j.members
      /\ \A q \in Req : lease'[q] = IF q \in out THEN None ELSE lease[q]
      /\ jobs' = IF runs = {} THEN jobs \ {j} ELSE (jobs \ {j}) \cup {new}
  BY <1>0, Zenon DEF BatchStarts, Finished, Started
<1>3. ASSUME NEW q \in Req
      PROVE  reply'[q] # reply[q] => q \in out /\ Awaits(q) /\ reply'[q] \notin {"none", "prepared"}
  BY <1>0, Zenon DEF BatchStarts, ControlError
<1>4. new.kind = "batch" /\ new.members = runs /\ new.running = TRUE
  BY <1>1, Zenon DEF Job
<1> HIDE DEF new
<1>5. \A q \in j.members : JobInv(j, q)
  BY Zenon DEF PlaceInv, JobsInv
<1>6. \A i \in jobs \ {j} : i.members \cap j.members = {}
  BY Zenon DEF PlaceInv, JobsInv
<1>7. JobsInv'
  <2>1. ASSUME NEW q \in runs
        PROVE  JobInv(new, q)'
    <3>1. JobInv(j, q) /\ q \in Req /\ q \in j.members
      BY <1>1, <1>5, Zenon
    <3>2. lease'[q] = lease[q] /\ reply'[q] = reply[q] /\ q \notin permit'
      BY <1>2, <1>3, <3>1, Zenon
    <3> QED
      BY <1>1, <1>4, <3>1, <3>2, Zenon DEF JobInv, Awaited, Awaits, Held
  <2>2. ASSUME NEW i \in jobs \ {j}, NEW q \in i.members
        PROVE  JobInv(i, q)'
    <3>1. q \in Req /\ q \notin j.members
      BY <1>6, Zenon DEF Types, Job
    <3>2. lease'[q] = lease[q] /\ reply'[q] = reply[q] /\ (q \in permit' <=> q \in permit)
      BY <1>2, <1>3, <3>1, Zenon
    <3> QED
      BY <1>1, <3>1, <3>2 DEF PlaceInv, JobsInv, JobInv, Awaited, Awaits, Held
  <2>3. \A i \in jobs' : i \in jobs \ {j} \/ i = new
    BY <1>2, Zenon
  <2>4. \A i \in jobs \ {j} : i.members \cap new.members = {}
    BY <1>1, <1>4, <1>6, Zenon
  <2>5. ASSUME NEW a \in jobs', NEW b \in jobs', a # b
        PROVE  a.members \cap b.members = {}
    BY <2>3, <2>4, <2>5, Zenon DEF PlaceInv, JobsInv
  <2>6. ASSUME NEW i \in jobs'
        PROVE  /\ i.kind = "preflight" => \E r \in Req : i.members = {r}
               /\ \A r \in i.members : JobInv(i, r)'
    BY <1>4, <2>1, <2>2, <2>3, Zenon DEF PlaceInv, JobsInv
  <2> QED
    BY <2>5, <2>6, Zenon DEF JobsInv
<1>8. SlotsInv'
  <2>1. ASSUME NEW k \in Key, NEW q \in Held(k)
        PROVE  SlotInv(k, q)'
    <3>1. q \in Req /\ q \notin j.members
      BY <1>5 DEF JobInv, Types, Held, Range
    <3>2. lease'[q] = lease[q] /\ reply'[q] = reply[q] /\ (q \in permit' <=> q \in permit)
      BY <1>2, <1>3, <3>1, Zenon
    <3> QED
      BY <1>1, <3>1, <3>2 DEF PlaceInv, SlotsInv, SlotInv, Awaited, Awaits
  <2> QED
    BY <1>1, <2>1, Zenon DEF PlaceInv, SlotsInv, Held
<1>9. ASSUME NEW q \in Req
      PROVE  FutureInv(q)'
  <2>1. FutureInv(q)
    BY Zenon DEF PlaceInv
  <2>2. CASE q \in j.members
    <3>1. /\ reply[q] = "none" /\ slot[q] \in Key /\ q \notin permit'
          /\ pc[q] \notin {"idle", "admitted", "picked", "leased", "prepared"}
      BY <1>2, <2>2, Placed, Zenon
    <3>2. CASE q \in runs
      <4>1. InPool(q)' /\ reply'[q] = "none"
        BY <1>2, <1>3, <1>4, <3>1, <3>2, Zenon DEF InPool
      <4> QED
        BY <1>1, <3>1, <4>1, Zenon DEF FutureInv, Awaits
    <3>3. CASE q \notin runs
      <4>1. lease'[q] = None
        BY <1>2, <2>2, <3>3, Zenon
      <4> QED
        BY <1>1, <1>3, <3>1, <4>1, Zenon DEF FutureInv, Awaits
    <3> QED
      BY <3>2, <3>3, Zenon
  <2>3. CASE q \notin j.members
    <3>1. lease'[q] = lease[q] /\ reply'[q] = reply[q] /\ (q \in permit' <=> q \in permit)
      BY <1>2, <1>3, <2>3, Zenon
    <3>2. InPool(q) => InPool(q)'
      BY <1>2, <2>3, Zenon DEF InPool
    <3>3. InScheduler(q) => InScheduler(q)'
      BY <1>1, Zenon DEF InScheduler, Held
    <3>4. Waiting(q) => Waiting(q)'
      BY <1>1, <1>2, <2>3, <3>1, <3>3, Zenon DEF Waiting
    <3> QED
      BY <1>1, <2>1, <3>1, <3>2, <3>3, <3>4, Zenon DEF FutureInv, Awaits, Owned
  <2> QED
    BY <2>2, <2>3, Zenon
<1> QED
  BY <1>7, <1>8, <1>9, Zenon DEF PlaceInv

\* The engine is done with a batch.
LEMMA BatchEndsPlace ==
    ASSUME Types, PlaceInv, NEW j \in jobs, BatchEnds(j)
    PROVE  PlaceInv'
<1>1. \A r \in j.members : (IF slot[r] \notin accepting THEN "unavailable" ELSE Effective(r, "ok")) \in Codes
  BY ControlCodes, Zenon DEF Codes
<1>2. \A r \in j.members : Effective(r, "failed") \in Codes /\ Effective(r, "cancelled") \in Codes
  BY ControlCodes, Zenon DEF Codes
<1>3. \E code \in [j.members -> Codes \cup {"closed"}] : AnswerAll(j.members, code)
  BY <1>1, <1>2, Zenon DEF BatchEnds
<1>4. Finished(j) /\ UNCHANGED <<pc, phase, slot, chan, pend>>
  BY Zenon DEF BatchEnds, futureVars, schedVars
<1> QED
  BY <1>3, <1>4, JobOverPlace, Zenon

\* Requests of the scheduler of slot k are answered and dropped.
LEMMA SlotOverPlace ==
    ASSUME Types, PlaceInv, NEW k \in Key, NEW rs \in SUBSET Held(k),
           NEW code \in [rs -> Codes \cup {"closed"}],
           AnswerAll(rs, code), UNCHANGED <<pc, phase, slot, jobs>>,
           \A i \in Key : /\ Held(i)' = IF i = k THEN Held(i) \ rs ELSE Held(i)
                          /\ IsInjective(chan'[i]) /\ Range(chan'[i]) \cap pend'[i] = {}
    PROVE  PlaceInv'
<1>1. rs \in SUBSET Req
  BY DEF Types, Held, Range
<1>2. \A r \in rs : reply[r] = "none" /\ pc[r] \notin {"idle", "admitted", "picked", "leased", "prepared"}
  BY <1>1, Placed, Zenon
<1>3. permit' = permit \ rs /\ \A q \in Req : lease'[q] = IF q \in rs THEN None ELSE lease[q]
  BY Zenon DEF AnswerAll, ReleaseAll
<1>4. ASSUME NEW q \in Req, reply'[q] # reply[q]
      PROVE  q \in rs /\ Awaits(q) /\ reply'[q] \notin {"none", "prepared"}
  BY <1>4, Zenon DEF AnswerAll, Codes
<1>5. \A j \in jobs' : j.members \cap rs = {}
  BY Zenon DEF PlaceInv, JobsInv, JobInv
<1>6. \A i \in Key : Held(i)' = Held(i) \ rs
  BY DEF PlaceInv, SlotsInv, SlotInv
<1> QED
  BY <1>1, <1>2, <1>3, <1>4, <1>5, <1>6, SettleKept, Zenon

\* A request moves from the channel to the deque.
LEMMA ReceivePlace ==
    ASSUME Types, PlaceInv, NEW k \in Key, Receive(k)
    PROVE  PlaceInv'
<1>1. /\ chan' = [chan EXCEPT ![k] = Tail(@)] /\ chan[k] # <<>>
      /\ pend' = [pend EXCEPT ![k] = pend[k] \cup {Head(chan[k])}]
      /\ UNCHANGED <<pc, phase, slot, lease, permit, reply, jobs>>
  BY Zenon DEF Receive, futureVars, ownedVars
<1>2. ASSUME NEW i \in Key
      PROVE  Held(i)' = Held(i) /\ IsInjective(chan'[i]) /\ Range(chan'[i]) \cap pend'[i] = {}
  <2>1. chan[i] \in Seq(Req) /\ IsInjective(chan[i]) /\ Range(chan[i]) \cap pend[i] = {}
    BY Zenon DEF Types, PlaceInv, SlotsInv
  <2>2. CASE i = k
    <3>1. chan'[i] = Tail(chan[i]) /\ pend'[i] = pend[i] \cup {Head(chan[i])}
      BY <1>1, <2>2, Zenon DEF Types
    <3>2. /\ Range(chan[i]) = {Head(chan[i])} \cup Range(Tail(chan[i]))
          /\ Head(chan[i]) \notin Range(Tail(chan[i])) /\ IsInjective(Tail(chan[i]))
      BY <1>1, <2>1, <2>2, ChannelFacts, Zenon
    <3> QED
      BY <2>1, <3>1, <3>2, Zenon DEF Held
  <2>3. CASE i # k
    BY <1>1, <2>1, <2>3, Zenon DEF Types, Held
  <2> QED
    BY <2>2, <2>3, Zenon
<1>3. JobsInv'
  BY <1>1, <1>2 DEF PlaceInv, JobsInv, JobInv, Awaited, Awaits
<1>4. SlotsInv'
  BY <1>1, <1>2 DEF PlaceInv, SlotsInv, SlotInv, Awaited, Awaits
<1>5. ASSUME NEW q \in Req
      PROVE  FutureInv(q)'
  <2>1. (InPool(q) => InPool(q)') /\ (InScheduler(q) => InScheduler(q)')
    BY <1>1, <1>2, Zenon DEF InPool, InScheduler
  <2>2. Waiting(q) => Waiting(q)'
    BY <1>1, <2>1, Zenon DEF Waiting
  <2> QED
    BY <1>1, <2>1, <2>2, Zenon DEF PlaceInv, FutureInv, Awaits, Owned
<1> QED
  BY <1>3, <1>4, <1>5, Zenon DEF PlaceInv

\* The oldest request is answered, or goes to the pool with some of the others.
LEMMA DispatchPlace ==
    ASSUME Types, PlaceInv, NEW k \in Key, Dispatch(k)
    PROVE  PlaceInv'
<1>1. UNCHANGED <<pc, phase, slot, chan>>
  BY Zenon DEF Dispatch, futureVars
<1>2. PICK first \in pend[k] :
         \/ /\ AnswerAll({first}, [r \in {first} |-> ControlError(r)])
            /\ pend' = [pend EXCEPT ![k] = @ \ {first}]
            /\ UNCHANGED jobs
         \/ \E others \in SUBSET (pend[k] \ {first}) :
                LET batch == {first} \cup others
                IN  /\ pend' = [pend EXCEPT ![k] = @ \ batch]
                    /\ \/ /\ AnswerAll(batch, [r \in batch |-> Effective(r, "queue_full")])
                          /\ UNCHANGED jobs
                       \/ /\ jobs' = jobs \cup {[kind |-> "batch", members |-> batch,
                                                 running |-> FALSE]}
                          /\ UNCHANGED ownedVars
  BY Zenon DEF Dispatch
<1>3. ASSUME NEW rs \in SUBSET pend[k], pend' = [pend EXCEPT ![k] = @ \ rs], NEW i \in Key
      PROVE  /\ Held(i)' = IF i = k THEN Held(i) \ rs ELSE Held(i)
             /\ IsInjective(chan'[i]) /\ Range(chan'[i]) \cap pend'[i] = {}
  <2>1. chan'[i] = chan[i] /\ IsInjective(chan[i]) /\ Range(chan[i]) \cap pend[i] = {}
    BY <1>1, Zenon DEF PlaceInv, SlotsInv
  <2>2. pend'[i] = IF i = k THEN pend[i] \ rs ELSE pend[i]
    BY <1>3, Zenon DEF Types
  <2> QED
    BY <2>1, <2>2, Zenon DEF Held
<1>4. ASSUME NEW rs \in SUBSET pend[k], NEW code \in [rs -> Codes], AnswerAll(rs, code),
             pend' = [pend EXCEPT ![k] = @ \ rs], UNCHANGED jobs
      PROVE  PlaceInv'
  <2>1. rs \in SUBSET Held(k) /\ code \in [rs -> Codes \cup {"closed"}]
    BY Zenon DEF Held
  <2>2. \A i \in Key : /\ Held(i)' = IF i = k THEN Held(i) \ rs ELSE Held(i)
                       /\ IsInjective(chan'[i]) /\ Range(chan'[i]) \cap pend'[i] = {}
    BY <1>3, <1>4, Zenon
  <2>3. UNCHANGED <<pc, phase, slot, jobs>>
    BY <1>1, <1>4, Zenon
  <2> QED
    BY <1>4, <2>1, <2>2, <2>3, SlotOverPlace, Zenon
<1>5. ASSUME NEW rs \in SUBSET pend[k], pend' = [pend EXCEPT ![k] = @ \ rs],
             jobs' = jobs \cup {[kind |-> "batch", members |-> rs, running |-> FALSE]},
             UNCHANGED ownedVars
      PROVE  PlaceInv'
  <2> DEFINE new == [kind |-> "batch", members |-> rs, running |-> FALSE]
  <2>1. /\ new.kind = "batch" /\ new.members = rs /\ new.running = FALSE
        /\ jobs' = jobs \cup {new} /\ UNCHANGED <<lease, permit, reply>>
    BY <1>5, Zenon DEF ownedVars
  <2> HIDE DEF new
  <2>2. ASSUME NEW q \in rs
        PROVE  SlotInv(k, q) /\ q \in Req /\ \A j \in jobs : q \notin j.members
    BY ZenonT(30) DEF PlaceInv, SlotsInv, JobsInv, JobInv, Held, Types
  <2>3. \A i \in Key : Held(i)' = IF i = k THEN Held(i) \ rs ELSE Held(i)
    BY <1>3, <1>5, Zenon
  <2>4. JobsInv'
    <3>1. ASSUME NEW q \in rs
          PROVE  JobInv(new, q)'
      <4>1. \A i \in Key : q \notin Held(i)'
        BY <2>2, <2>3 DEF PlaceInv, SlotsInv, SlotInv
      <4> QED
        BY <1>1, <2>1, <2>2, <4>1, Zenon DEF SlotInv, JobInv, Awaited, Awaits
    <3>2. ASSUME NEW j \in jobs, NEW q \in j.members
          PROVE  JobInv(j, q)'
      BY <1>1, <2>1, <2>3 DEF PlaceInv, JobsInv, JobInv, Awaited, Awaits
    <3> QED
      BY <2>1, <2>2, <3>1, <3>2, ZenonT(30) DEF PlaceInv, JobsInv
  <2>5. SlotsInv'
    BY <1>1, <1>3, <1>5, <2>1, <2>3 DEF PlaceInv, SlotsInv, SlotInv, Awaited, Awaits
  <2>6. ASSUME NEW q \in Req
        PROVE  FutureInv(q)'
    <3>1. q \in rs => InPool(q)' /\ Waiting(q)'
      BY <2>1, Zenon DEF InPool, Waiting
    <3>2. q \notin rs => (InScheduler(q) => InScheduler(q)')
      BY <2>3, Zenon DEF InScheduler
    <3>3. InPool(q) => InPool(q)'
      BY <2>1, Zenon DEF InPool
    <3>4. Waiting(q) => Waiting(q)'
      BY <1>1, <2>1, <3>1, <3>2, Zenon DEF Waiting
    <3> QED
      BY <1>1, <2>1, <3>1, <3>2, <3>3, <3>4, Zenon DEF PlaceInv, FutureInv, Awaits, Owned
  <2> QED
    BY <2>4, <2>5, <2>6, Zenon DEF PlaceInv
<1>6. CASE /\ AnswerAll({first}, [r \in {first} |-> ControlError(r)])
           /\ pend' = [pend EXCEPT ![k] = @ \ {first}]
           /\ UNCHANGED jobs
  <2>1. [r \in {first} |-> ControlError(r)] \in [{first} -> Codes]
    BY ControlCodes, Zenon
  <2> QED
    BY <1>4, <1>6, <2>1, Zenon
<1>7. ASSUME NEW others \in SUBSET (pend[k] \ {first}), NEW batch, batch = {first} \cup others,
             pend' = [pend EXCEPT ![k] = @ \ batch],
             \/ /\ AnswerAll(batch, [r \in batch |-> Effective(r, "queue_full")])
                /\ UNCHANGED jobs
             \/ /\ jobs' = jobs \cup {[kind |-> "batch", members |-> batch, running |-> FALSE]}
                /\ UNCHANGED ownedVars
      PROVE  PlaceInv'
  <2>1. batch \in SUBSET pend[k]
    BY <1>7, Zenon
  <2>2. [r \in batch |-> Effective(r, "queue_full")] \in [batch -> Codes]
    BY ControlCodes, Zenon DEF Codes
  <2> QED
    BY <1>4, <1>5, <1>7, <2>1, <2>2, Zenon
<1> QED
  BY <1>2, <1>6, <1>7, Zenon

\* The scheduler ends, by itself or by the hand of finish_shutdown.
LEMMA ClosePlace ==
    ASSUME Types, PlaceInv, NEW k \in Key, Drained(k) \/ StopSeen(k) \/ Aborted(k)
    PROVE  PlaceInv'
<1>1. UNCHANGED <<pc, phase, slot, jobs>>
  BY Zenon DEF Drained, StopSeen, Aborted, futureVars
<1>2. CASE UNCHANGED <<chan, pend, ownedVars>>
  BY <1>1, <1>2, PlaceKept, Zenon DEF ownedVars
<1>3. ASSUME NEW code \in [Held(k) -> Codes \cup {"closed"}], AnswerAll(Held(k), code),
             pend' = [pend EXCEPT ![k] = {}], chan' = [chan EXCEPT ![k] = <<>>]
      PROVE  PlaceInv'
  <2>1. ASSUME NEW i \in Key
        PROVE  /\ Held(i)' = IF i = k THEN Held(i) \ Held(k) ELSE Held(i)
               /\ IsInjective(chan'[i]) /\ Range(chan'[i]) \cap pend'[i] = {}
    <3>1. CASE i = k
      <4>1. chan'[i] = <<>> /\ pend'[i] = {}
        BY <1>3, <3>1, Zenon DEF Types
      <4>2. Range(<<>>) = {} /\ IsInjective(<<>>)
        BY DEF Range, IsInjective
      <4> QED
        BY <3>1, <4>1, <4>2, Zenon DEF Held
    <3>2. CASE i # k
      BY <1>3, <3>2, ZenonT(30) DEF Types, Held, PlaceInv, SlotsInv
    <3> QED
      BY <3>1, <3>2, Zenon
  <2>2. Held(k) \in SUBSET Held(k)
    BY Zenon
  <2> QED
    BY <1>1, <1>3, <2>1, <2>2, SlotOverPlace, Zenon
<1>4. /\ [r \in Held(k) |-> Effective(r, "unavailable")] \in [Held(k) -> Codes \cup {"closed"}]
      /\ [r \in Held(k) |-> "closed"] \in [Held(k) -> Codes \cup {"closed"}]
  BY ControlCodes, Zenon DEF Codes
<1> QED
  BY <1>2, <1>3, <1>4, Zenon DEF Drained, StopSeen, Aborted, Close

\* The registry, the clock, the caller and the flight of shutdown move no request.
LEMMA OutsidePlace ==
    ASSUME PlaceInv,
           \/ \E r \in Req : Deactivate(r)
           \/ \E k \in Key : WindowEnds(k) \/ Load(k)
           \/ Unload \/ Shutdown
    PROVE  PlaceInv'
BY PlaceKept, Zenon
DEF Deactivate, WindowEnds, Load, Unload, Shutdown, ShutdownWaits, ShutdownForces,
       ShutdownFences, ShutdownEnds, futureVars, ownedVars, schedVars

-----------------------------------------------------------------------------
(* Every step keeps the whole invariant.                                       *)

\* As long as shutdown is not forced, who is live is cancelled by its caller only.
LEMMA ControlOwn ==
    ASSUME Types, DrainInv, NEW r \in Req, pc[r] \notin {"idle", "done"}, verdict # "forced", Cancelled(r)
    PROVE  r \in cancelled
<1>1. r \in live /\ r \notin abandoned
  BY Zenon DEF DrainInv
<1>2. verdict = "none"
  BY <1>1, Zenon DEF DrainInv, Types
<1> QED
  BY <1>1, <1>2, Zenon DEF DrainInv, Cancelled

\* What no request sees: the registry, the schedulers' own state, the pool.
LEMMA ErrorsKept ==
    ASSUME ErrorInv, UNCHANGED <<reply, outcome, pc, slot>>, cancelled \subseteq cancelled',
           UNCHANGED abandoned, late \subseteq late', fenced \subseteq fenced'
    PROVE  ErrorInv'
BY Zenon DEF ErrorInv, Cancelled

\* The future returns.
LEMMA ReturnKept ==
    ASSUME PipelineInv, NEW r \in Req, NEW code \in Codes \cup {"none", "dropped"},
           pc[r] \notin {"idle", "done"}, Return(r, code),
           code = "cancelled" => Cancelled(r), code = "deadline" => r \in late,
           UNCHANGED <<slotVars, shutdownVars, schedVars, cancelled, late, jobs>>,
           abandoned' \in {abandoned, abandoned \cup {r}}
    PROVE  PipelineInv'
<1> USE DEF PipelineInv
<1>1. PlaceInv'
  BY ReturnPlace, Zenon DEF schedVars
<1>2. Owned(r) \in SUBSET Req
  BY Zenon DEF Owned
<1>3. CountInv' /\ queued' \in [Key -> Int]
  BY <1>2, ReleaseCounts, Zenon DEF Return, ReleaseAll
<1>4. /\ pc' = [pc EXCEPT ![r] = "done"] /\ outcome' = [outcome EXCEPT ![r] = code]
      /\ reply' = [reply EXCEPT ![r] = "none"] /\ live' = live \ {r}
      /\ UNCHANGED <<open, expired, verdict, stopped, phase, slot>>
  BY Zenon DEF Return, D!End
<1>5. /\ permit' \subseteq Req /\ lease' \in [Req -> Key \cup {None}]
  BY Zenon DEF Return, ReleaseAll, Types
<1>6. Types'
  BY <1>3, <1>4, <1>5, ZenonT(30) DEF Types, slotVars, shutdownVars, schedVars
<1>7. /\ \A q \in Req \ {r} : pc'[q] = pc[q] /\ reply'[q] = reply[q] /\ outcome'[q] = outcome[q]
      /\ pc'[r] = "done" /\ reply'[r] = "none" /\ outcome'[r] = code
  BY <1>4 DEF Types
<1>8. ErrorInv'
  <2>1. ASSUME NEW q \in Req, Cancelled(q)
        PROVE  Cancelled(q)'
    BY <1>4, <2>1, Zenon DEF Cancelled, slotVars
  <2> QED
    BY <1>7, <2>1, Zenon DEF ErrorInv
<1>9. DrainInv'
  <2>1. verdict # "forced" /\ code = "cancelled" => r \in cancelled
    BY ControlOwn, Zenon
  <2> QED
    BY <1>4, <1>7, <2>1 DEF DrainInv, slotVars, shutdownVars
<1> QED
  BY <1>1, <1>3, <1>6, <1>8, <1>9, Zenon

\* Requests are answered and dropped, by a worker or a scheduler.
LEMMA AnswerKept ==
    ASSUME PipelineInv, NEW rs \in SUBSET Req, NEW code \in [rs -> Codes \cup {"closed"}],
           AnswerAll(rs, code),
           \A r \in rs : /\ code[r] = "cancelled" => Cancelled(r)
                         /\ code[r] = "deadline" => r \in late
                         /\ code[r] = "closed" => verdict \in {"drained", "forced"},
           UNCHANGED <<contractVars, slotVars, shutdownVars, stopping, controlVars, futureVars>>,
           sched' \in [Key -> {"none", "idle", "window", "drain", "closed"}],
           chan' \in [Key -> Seq(Req)], pend' \in [Key -> SUBSET Req], jobs' \subseteq Job,
           PlaceInv'
    PROVE  PipelineInv'
<1> USE DEF PipelineInv
<1>1. CountInv' /\ queued' \in [Key -> Int]
  BY ReleaseCounts, Zenon DEF AnswerAll, ReleaseAll, futureVars
<1>2. /\ permit' \subseteq Req /\ lease' \in [Req -> Key \cup {None}]
      /\ reply' \in [Req -> Codes \cup {"none", "prepared", "closed"}]
  BY Zenon DEF AnswerAll, ReleaseAll, Types
<1>3. Types'
  BY <1>1, <1>2, ZenonT(30) DEF Types, contractVars, slotVars, shutdownVars, controlVars, futureVars
<1>4. \A q \in Req : reply'[q] = IF q \in rs /\ Awaits(q) THEN code[q] ELSE reply[q]
  BY Zenon DEF AnswerAll
<1>5. ErrorInv'
  BY <1>4, Zenon DEF ErrorInv, Cancelled, slotVars, controlVars, futureVars
<1>6. ASSUME NEW q \in Req, verdict # "forced", q \in rs, Awaits(q)
      PROVE  code[q] # "closed" /\ (code[q] = "cancelled" => q \in cancelled)
  <2>1. q \in live /\ pc[q] \notin {"idle", "done"}
    BY <1>6, Zenon DEF DrainInv, Awaits
  <2> QED
    BY <1>6, <2>1, ControlOwn, Zenon DEF DrainInv
<1>7. DrainInv'
  BY <1>4, <1>6, Zenon DEF DrainInv, contractVars, slotVars, shutdownVars, controlVars, futureVars
<1> QED
  BY <1>1, <1>3, <1>5, <1>7, Zenon

\* A step of the future that returns nothing, holds no new Request and reads no reply.
LEMMA StepKept ==
    ASSUME PipelineInv, NEW r \in Req,
           NEW where \in {"picked", "leased", "prepared", "force", "active", "select", "reply"},
           pc[r] \notin {"idle", "done"}, pc' = [pc EXCEPT ![r] = where],
           UNCHANGED <<contractVars, slotVars, shutdownVars, controlVars, outcome, sched, stopping, pend>>,
           \/ UNCHANGED slot
           \/ reply[r] = "none" /\ slot' = [slot EXCEPT ![r] = registered] /\ registered \in Key,
           \A q \in Req : reply'[q] \in {reply[q], "none"},
           PlaceInv', CountInv',
           queued' \in [Key -> Int], permit' \subseteq Req, lease' \in [Req -> Key \cup {None}],
           reply' \in [Req -> Codes \cup {"none", "prepared", "closed"}],
           phase' \in [Req -> {"preflight", "response"}],
           chan' \in [Key -> Seq(Req)], jobs' \subseteq Job
    PROVE  PipelineInv'
<1> USE DEF PipelineInv
<1>1. pc'[r] = where /\ \A q \in Req \ {r} : pc'[q] = pc[q]
  BY DEF Types
<1>2. slot' \in [Req -> Key \cup {None}] /\ \A q \in Req \ {r} : slot'[q] = slot[q]
  <2>1. slot \in [Req -> Key \cup {None}]
    BY Zenon DEF Types
  <2>2. CASE UNCHANGED slot
    BY <2>1, <2>2, Zenon
  <2>3. CASE slot' = [slot EXCEPT ![r] = registered] /\ registered \in Key
    BY <2>1, <2>3, Zenon
  <2> QED
    BY <2>2, <2>3, Zenon
<1>3. Types'
  <2>1. pc' \in [Req -> {"idle", "admitted", "picked", "leased", "prepared", "force", "active",
                         "select", "reply", "done"}]
    BY Zenon DEF Types
  <2> QED
    BY <1>2, <2>1, ZenonT(30) DEF Types, contractVars, slotVars, shutdownVars, controlVars
<1>4. ErrorInv'
  <2>1. ASSUME NEW q \in Req \ {r}
        PROVE  /\ "cancelled" \in {reply'[q], outcome'[q]} => Cancelled(q)'
               /\ "deadline" \in {reply'[q], outcome'[q]} => q \in late'
               /\ pc'[q] # "done" => outcome'[q] = "none"
    BY <1>1, <1>2, Zenon DEF ErrorInv, Cancelled, slotVars, controlVars
  <2>2. outcome'[r] = "none"
    BY Zenon DEF ErrorInv
  <2>3. reply'[r] = "cancelled" => Cancelled(r)'
    BY Zenon DEF ErrorInv, Cancelled, slotVars, controlVars
  <2>4. reply'[r] = "deadline" => r \in late'
    BY Zenon DEF ErrorInv, controlVars
  <2> QED
    BY <2>1, <2>2, <2>3, <2>4, Zenon DEF ErrorInv
<1>5. DrainInv'
  <2>1. live' = {q \in Req : pc'[q] \notin {"idle", "done"}}
    BY <1>1 DEF DrainInv, contractVars
  <2>2. \A q \in abandoned' : pc'[q] = "done"
    BY <1>1 DEF DrainInv, controlVars, Types
  <2> QED
    BY <2>1, <2>2, Zenon DEF DrainInv, contractVars, slotVars, shutdownVars, controlVars
<1> QED
  BY <1>3, <1>4, <1>5, Zenon

\* embed_inner up to the lease.
LEMMA EmbedKept ==
    ASSUME PipelineInv, NEW r \in Req, Admit(r) \/ PickSlot(r) \/ TakeLease(r)
    PROVE  PipelineInv'
<1> USE DEF PipelineInv
<1>1. PlaceInv'
  BY EmbedPlace, Zenon
<1>2. CASE Admit(r)
  <2>1. /\ pc[r] = "idle" /\ outcome[r] = "none" /\ reply[r] = "none" /\ r \notin abandoned
        /\ UNCHANGED <<slotVars, shutdownVars, schedVars, controlVars, ownedVars, phase, slot, jobs>>
    BY <1>2, Zenon DEF Admit, ErrorInv, PlaceInv, FutureInv, Awaits, DrainInv
  <2>2. CountInv'
    BY <2>1, CountKept, Zenon DEF ownedVars
  <2>3. CASE /\ D!Start(r)
             /\ pc' = [pc EXCEPT ![r] = "admitted"]
             /\ UNCHANGED outcome
    <3>1. live' = live \cup {r} /\ UNCHANGED <<open, expired, verdict, stopped>> /\ open
      BY <2>3, Zenon DEF D!Start
    <3>2. pc'[r] = "admitted" /\ \A q \in Req \ {r} : pc'[q] = pc[q]
      BY <2>3, Zenon DEF Types
    <3>3. Types'
      BY <2>1, <2>3, <3>1, ZenonT(30)
      DEF Types, slotVars, shutdownVars, schedVars, controlVars, ownedVars
    <3>4. ErrorInv'
      BY <2>1, <2>3, <3>2, Zenon DEF ErrorInv, Cancelled, slotVars, controlVars, ownedVars
    <3>5. DrainInv'
      BY <2>1, <2>3, <3>1, <3>2 DEF DrainInv, slotVars, shutdownVars, controlVars, ownedVars
    <3> QED
      BY <1>1, <2>2, <3>3, <3>4, <3>5, Zenon
  <2>4. CASE /\ pc' = [pc EXCEPT ![r] = "done"]
             /\ outcome' = [outcome EXCEPT ![r] = "unavailable"]
             /\ UNCHANGED contractVars
    <3>1. /\ pc'[r] = "done" /\ outcome'[r] = "unavailable"
          /\ \A q \in Req \ {r} : pc'[q] = pc[q] /\ outcome'[q] = outcome[q]
      BY <2>4, ZenonT(30) DEF Types
    <3>2. Types'
      BY <2>1, <2>4 DEF Types, contractVars, slotVars, shutdownVars, schedVars, controlVars,
                        ownedVars, Codes
    <3>3. ErrorInv'
      BY <2>1, <3>1, Zenon DEF ErrorInv, Cancelled, slotVars, controlVars, ownedVars
    <3>4. DrainInv'
      BY <2>1, <2>4, <3>1 DEF DrainInv, contractVars, slotVars, shutdownVars, controlVars, ownedVars
    <3> QED
      BY <1>1, <2>2, <3>2, <3>3, <3>4, Zenon
  <2> QED
    BY <1>2, <2>3, <2>4, Zenon DEF Admit
<1>3. CASE PickSlot(r) \/ TakeLease(r)
  <2>1. /\ pc[r] \in {"admitted", "picked"} /\ reply[r] = "none" /\ r \notin permit
        /\ UNCHANGED <<slotVars, shutdownVars, schedVars, controlVars, jobs>>
    BY <1>3, Zenon DEF PickSlot, TakeLease, PlaceInv, FutureInv, Awaits
  <2>2. CASE Return(r, "invalid") \/ Return(r, "unavailable")
    <3>1. PICK code \in {"invalid", "unavailable"} : Return(r, code)
      BY <2>2, Zenon
    <3> QED
      BY <2>1, <3>1, ReturnKept, Zenon DEF Codes, controlVars
  <2>3. CASE /\ registered \in accepting
             /\ slot' = [slot EXCEPT ![r] = registered]
             /\ pc' = [pc EXCEPT ![r] = "picked"]
             /\ UNCHANGED <<contractVars, phase, outcome, ownedVars>>
    <3>1. registered \in Key /\ UNCHANGED <<lease, permit, queued, reply>>
      BY <2>3, Zenon DEF Types, ownedVars
    <3>2. \A k \in Key : Permits(k)' = Permits(k)
      BY <2>1, <2>3, <3>1, Zenon DEF Permits, Types
    <3>3. CountInv'
      BY <3>1, <3>2, Zenon DEF CountInv
    <3> QED
      BY <1>1, <2>1, <2>3, <3>1, <3>3, StepKept, Zenon DEF Types, schedVars
  <2>4. CASE /\ registered \in accepting
             /\ lease' = [lease EXCEPT ![r] = registered]
             /\ Goto(r, "leased")
             /\ UNCHANGED <<permit, queued, reply>>
    <3>1. lease' \in [Req -> Key \cup {None}]
      BY <2>4, Zenon DEF Types
    <3>2. CountInv'
      BY <2>4, CountKept, Zenon DEF Goto
    <3> QED
      BY <1>1, <2>1, <2>4, <3>1, <3>2, StepKept, Zenon DEF Types, schedVars, Goto
  <2> QED
    BY <1>3, <2>2, <2>3, <2>4, Zenon DEF PickSlot, TakeLease
<1> QED
  BY <1>2, <1>3, Zenon

\* The queue permit, the preflight job, the channel.
LEMMA SubmitKept ==
    ASSUME PipelineInv, NEW r \in Req, SubmitPreflight(r) \/ Enqueue(r)
    PROVE  PipelineInv'
<1> USE DEF PipelineInv
<1>1. PlaceInv'
  BY SubmitPlace, EnqueuePlace, Zenon
<1>2. CASE SubmitPreflight(r)
  <2>1. /\ pc[r] = "leased" /\ r \notin permit /\ slot[r] \in Key
        /\ UNCHANGED <<slotVars, shutdownVars, schedVars, controlVars>>
    BY <1>2, Zenon DEF SubmitPreflight, PlaceInv, FutureInv
  <2>2. CASE Inactive(r) /\ Return(r, ControlError(r)) /\ UNCHANGED jobs
    BY <2>1, <2>2, ReturnKept, ControlCodes, Zenon DEF Inactive, ControlError, controlVars
  <2>3. CASE Return(r, "queue_full") /\ UNCHANGED jobs
    BY <2>1, <2>3, ReturnKept, Zenon DEF Codes, controlVars
  <2>4. CASE /\ queued' = [queued EXCEPT ![slot[r]] = @ + 1]
             /\ permit' = permit \cup {r}
             /\ jobs' = jobs \cup {[kind |-> "preflight", members |-> {r}, running |-> FALSE]}
             /\ Goto(r, "force")
             /\ UNCHANGED <<lease, reply>>
    <3>1. CountInv' /\ queued' \in [Key -> Int]
      BY <2>1, <2>4, AcquireCounts, Zenon DEF Goto
    <3>2. jobs' \subseteq Job /\ permit' \subseteq Req
      <4>1. [kind |-> "preflight", members |-> {r}, running |-> FALSE] \in Job
        BY Zenon DEF Job
      <4> QED
        BY <2>4, <4>1, Zenon DEF Types
    <3> QED
      BY <1>1, <2>1, <2>4, <3>1, <3>2, StepKept, Zenon DEF Types, schedVars, Goto
  <2> QED
    BY <1>2, <2>2, <2>3, <2>4, Zenon DEF SubmitPreflight
<1>3. CASE Enqueue(r)
  <2>1. /\ pc[r] = "prepared" /\ slot[r] \in Key
        /\ UNCHANGED <<slotVars, shutdownVars, controlVars, sched, stopping, pend, jobs>>
    BY <1>3, Zenon DEF Enqueue, PlaceInv, FutureInv
  <2>2. CASE (Return(r, "unavailable") \/ Return(r, "queue_full")) /\ UNCHANGED chan
    <3>1. PICK code \in {"queue_full", "unavailable"} : Return(r, code)
      BY <2>2, Zenon
    <3> QED
      BY <2>1, <2>2, <3>1, ReturnKept, Zenon DEF Codes, controlVars, schedVars
  <2>3. CASE /\ chan' = [chan EXCEPT ![slot[r]] = Append(@, r)]
             /\ phase' = [phase EXCEPT ![r] = "response"]
             /\ pc' = [pc EXCEPT ![r] = "force"]
             /\ UNCHANGED <<contractVars, slot, outcome, ownedVars>>
    <3>1. chan' \in [Key -> Seq(Req)] /\ phase' \in [Req -> {"preflight", "response"}]
      BY <2>1, <2>3 DEF Types
    <3>2. CountInv' /\ UNCHANGED <<lease, permit, queued, reply>>
      BY <2>3, CountKept, Zenon DEF ownedVars
    <3> QED
      BY <1>1, <2>1, <2>3, <3>1, <3>2, StepKept, Zenon DEF Types
  <2> QED
    BY <1>3, <2>2, <2>3, Zenon DEF Enqueue
<1> QED
  BY <1>2, <1>3, Zenon

\* await_controlled and the drop of the future.
LEMMA AwaitKept ==
    ASSUME PipelineInv, NEW r \in Req,
           CheckForce(r) \/ CheckActive(r) \/ Select(r) \/ TakeReply(r) \/ Abandon(r)
    PROVE  PipelineInv'
<1> USE DEF PipelineInv
<1>1. PlaceInv'
  BY AwaitPlace, Zenon
<1>2. /\ UNCHANGED <<slotVars, shutdownVars, schedVars, cancelled, late, jobs>>
      /\ abandoned' \in {abandoned, abandoned \cup {r}} /\ pc[r] \notin {"idle", "done"}
  BY Zenon DEF CheckForce, CheckActive, Select, TakeReply, Abandon, controlVars
<1>3. CASE Return(r, "unavailable") \/ Return(r, "dropped")
  <2>1. PICK code \in {"unavailable", "dropped"} : Return(r, code)
    BY <1>3, Zenon
  <2> QED
    BY <1>2, <2>1, ReturnKept, Zenon DEF Codes
<1>4. CASE Inactive(r) /\ Return(r, ControlError(r))
  BY <1>2, <1>4, ReturnKept, ControlCodes, Zenon DEF Inactive, ControlError
<1>5. CASE TakeReply(r) /\ reply[r] # "prepared" /\ Return(r, IF reply[r] = "closed" THEN "unavailable" ELSE reply[r])
  <2> DEFINE code == IF reply[r] = "closed" THEN "unavailable" ELSE reply[r]
  <2>1. code \in Codes \cup {"none", "dropped"}
    BY <1>5, Zenon DEF Types, Codes
  <2>2. (code = "cancelled" => Cancelled(r)) /\ (code = "deadline" => r \in late)
    BY Zenon DEF ErrorInv
  <2> QED
    BY <1>2, <1>5, <2>1, <2>2, ReturnKept, Zenon
<1>6. CASE /\ UNCHANGED controlVars
           /\ \E where \in {"active", "select", "reply"} : Goto(r, where) /\ UNCHANGED ownedVars
  <2>1. PICK where \in {"active", "select", "reply"} : Goto(r, where)
    BY <1>6, Zenon
  <2>2. CountInv' /\ UNCHANGED <<lease, permit, queued, reply>>
    BY <1>6, <2>1, CountKept, Zenon DEF ownedVars, Goto
  <2> QED
    BY <1>1, <1>2, <1>6, <2>1, <2>2, StepKept, Zenon DEF Types, Goto, schedVars
<1>7. CASE /\ UNCHANGED controlVars
           /\ Goto(r, "prepared")
           /\ reply' = [reply EXCEPT ![r] = "none"]
           /\ UNCHANGED <<lease, permit, queued>>
  <2>1. CountInv'
    BY <1>7, CountKept, Zenon DEF Goto
  <2>2. /\ reply' \in [Req -> Codes \cup {"none", "prepared", "closed"}]
        /\ \A q \in Req : reply'[q] \in {reply[q], "none"}
    BY <1>7, Zenon DEF Types
  <2> QED
    BY <1>1, <1>2, <1>7, <2>1, <2>2, StepKept, Zenon DEF Types, Goto, schedVars
<1>8. CASE CheckForce(r)
  BY <1>3, <1>6, <1>8, Zenon DEF CheckForce
<1>9. CASE CheckActive(r)
  BY <1>4, <1>6, <1>9, Zenon DEF CheckActive
<1>10. CASE Select(r)
  BY <1>3, <1>4, <1>6, <1>10, Zenon DEF Select
<1>11. CASE TakeReply(r)
  BY <1>4, <1>5, <1>7, <1>11, Zenon DEF TakeReply
<1>12. CASE Abandon(r)
  BY <1>3, <1>12, Zenon DEF Abandon
<1> QED
  BY <1>8, <1>9, <1>10, <1>11, <1>12, Zenon

\* What a control says is about the request itself.
LEMMA CodesAreOwn ==
    ASSUME NEW r, NEW code \in Codes \ {"cancelled", "deadline"}
    PROVE  /\ Inactive(r) => /\ ControlError(r) = "cancelled" => Cancelled(r)
                             /\ ControlError(r) = "deadline" => r \in late
                             /\ Effective(r, "cancelled") = ControlError(r)
           /\ Effective(r, code) = "cancelled" => Cancelled(r)
           /\ Effective(r, code) = "deadline" => r \in late
BY Zenon DEF Inactive, ControlError, Effective

\* The Requests of a job are answered, and the job is over.
LEMMA JobOverKept ==
    ASSUME PipelineInv, NEW j \in jobs, NEW code \in [j.members -> Codes],
           AnswerAll(j.members, code), Finished(j),
           \A r \in j.members : /\ code[r] = "cancelled" => Cancelled(r)
                                /\ code[r] = "deadline" => r \in late,
           UNCHANGED <<contractVars, slotVars, shutdownVars, schedVars, controlVars, futureVars>>
    PROVE  PipelineInv'
<1> USE DEF PipelineInv
<1>1. j.members \in SUBSET Req /\ code \in [j.members -> Codes \cup {"closed"}] /\ jobs' \subseteq Job
  BY ZenonT(30) DEF Types, Job, Finished
<1>2. \A r \in j.members : code[r] # "closed"
  BY Zenon DEF Codes
<1>3. PlaceInv'
  BY <1>1, JobOverPlace, Zenon DEF futureVars, schedVars
<1>4. /\ sched' \in [Key -> {"none", "idle", "window", "drain", "closed"}]
      /\ chan' \in [Key -> Seq(Req)] /\ pend' \in [Key -> SUBSET Req] /\ UNCHANGED stopping
  BY Zenon DEF Types, schedVars
<1> QED
  BY <1>1, <1>2, <1>3, <1>4, AnswerKept, ZenonT(30)

\* A worker moves a job on without answering anybody.
LEMMA JobMovesKept ==
    ASSUME PipelineInv, PlaceInv', CountInv', queued' \in [Key -> Int], permit' \subseteq Req,
           lease' \in [Req -> Key \cup {None}], jobs' \subseteq Job,
           reply' \in [Req -> Codes \cup {"none", "prepared", "closed"}],
           \A r \in Req : reply'[r] \in {reply[r], "prepared"},
           UNCHANGED <<contractVars, slotVars, shutdownVars, stopping, controlVars, futureVars>>,
           sched' \in [Key -> {"none", "idle", "window", "drain", "closed"}],
           chan' \in [Key -> Seq(Req)], pend' \in [Key -> SUBSET Req]
    PROVE  PipelineInv'
<1> USE DEF PipelineInv
<1>1. Types'
  BY ZenonT(30) DEF Types, contractVars, slotVars, shutdownVars, controlVars, futureVars
<1>2. ErrorInv'
  BY Zenon DEF ErrorInv, Cancelled, slotVars, controlVars, futureVars
<1>3. DrainInv'
  BY Zenon DEF DrainInv, contractVars, slotVars, shutdownVars, controlVars, futureVars
<1> QED
  BY <1>1, <1>2, <1>3, Zenon

\* A preflight job starts or ends.
LEMMA PreflightKept ==
    ASSUME PipelineInv, NEW j \in jobs, PreflightStarts(j) \/ PreflightEnds(j)
    PROVE  PipelineInv'
<1> USE DEF PipelineInv
<1>1. PlaceInv'
  BY PreflightStartsPlace, PreflightEndsPlace, Zenon
<1>2. /\ UNCHANGED <<contractVars, slotVars, shutdownVars, schedVars, controlVars, futureVars>>
      /\ j \in Job /\ j.kind = "preflight"
  BY Zenon DEF PreflightStarts, PreflightEnds, Types
<1>3. /\ sched' \in [Key -> {"none", "idle", "window", "drain", "closed"}]
      /\ chan' \in [Key -> Seq(Req)] /\ pend' \in [Key -> SUBSET Req] /\ UNCHANGED stopping
  BY <1>2, Zenon DEF Types, schedVars
<1>4. PICK r \in j.members :
         \/ /\ Finished(j)
            /\ \/ AnswerAll({r}, [q \in {r} |-> "failed"])
               \/ AnswerAll({r}, [q \in {r} |-> "invalid"])
               \/ Inactive(r) /\ AnswerAll({r}, [q \in {r} |-> ControlError(q)])
               \/ ReleaseAll({r}) /\ UNCHANGED reply
               \/ reply' = [reply EXCEPT ![r] = "prepared"] /\ UNCHANGED <<lease, permit, queued>>
         \/ Started(j, j.members) /\ UNCHANGED ownedVars
  BY Zenon DEF PreflightStarts, PreflightEnds
<1>5. j.members = {r} /\ r \in Req
  BY <1>2 DEF PlaceInv, JobsInv
<1>6. ASSUME NEW code \in Codes, AnswerAll({r}, [q \in {r} |-> code]), Finished(j),
             code = "cancelled" => Cancelled(r), code = "deadline" => r \in late
      PROVE  PipelineInv'
  <2>1. [q \in {r} |-> code] \in [j.members -> Codes] /\ \A q \in j.members : [p \in {r} |-> code][q] = code
    BY <1>5, Zenon
  <2> QED
    BY <1>2, <1>5, <1>6, <2>1, JobOverKept, Zenon
<1>7. CASE Finished(j) /\ (AnswerAll({r}, [q \in {r} |-> "failed"]) \/ AnswerAll({r}, [q \in {r} |-> "invalid"]))
  BY <1>6, <1>7, Zenon DEF Codes
<1>8. CASE Finished(j) /\ Inactive(r) /\ AnswerAll({r}, [q \in {r} |-> ControlError(q)])
  <2>1. [q \in {r} |-> ControlError(q)] = [q \in {r} |-> ControlError(r)] /\ ControlError(r) \in Codes
    BY ControlCodes, Zenon
  <2>2. (ControlError(r) = "cancelled" => Cancelled(r)) /\ (ControlError(r) = "deadline" => r \in late)
    BY <1>8, Zenon DEF Inactive, ControlError
  <2> QED
    BY <1>6, <1>8, <2>1, <2>2, Zenon
<1>9. CASE Finished(j) /\ ReleaseAll({r}) /\ UNCHANGED reply
  <2>1. CountInv' /\ queued' \in [Key -> Int]
    BY <1>2, <1>5, <1>9, ReleaseCounts, Zenon DEF ReleaseAll, futureVars
  <2>2. permit' \subseteq Req /\ lease' \in [Req -> Key \cup {None}]
    BY <1>9, Zenon DEF ReleaseAll, Types
  <2>3. jobs' \subseteq Job
    BY <1>9, Zenon DEF Finished, Types
  <2> QED
    BY <1>1, <1>2, <1>3, <1>9, <2>1, <2>2, <2>3, JobMovesKept, ZenonT(30) DEF Types
<1>10. CASE /\ Finished(j)
            /\ reply' = [reply EXCEPT ![r] = "prepared"] /\ UNCHANGED <<lease, permit, queued>>
  <2>1. CountInv'
    BY <1>2, <1>10, CountKept, Zenon DEF futureVars
  <2>2. jobs' \subseteq Job
    BY <1>10, Zenon DEF Finished, Types
  <2>3. /\ reply' \in [Req -> Codes \cup {"none", "prepared", "closed"}]
        /\ \A q \in Req : reply'[q] \in {reply[q], "prepared"}
    BY <1>10, Zenon DEF Types
  <2> QED
    BY <1>1, <1>2, <1>3, <1>10, <2>1, <2>2, <2>3, JobMovesKept, Zenon DEF Types
<1>11. CASE Started(j, j.members) /\ UNCHANGED ownedVars
  <2>1. CountInv' /\ UNCHANGED <<lease, permit, queued, reply>>
    BY <1>2, <1>11, CountKept, Zenon DEF futureVars, ownedVars
  <2>2. [j EXCEPT !.members = j.members, !.running = TRUE] \in Job
    BY <1>2, Zenon DEF Job
  <2>3. jobs' \subseteq Job
    BY <1>11, <2>2, Zenon DEF Started, Types
  <2> QED
    BY <1>1, <1>2, <1>3, <2>1, <2>3, JobMovesKept, Zenon DEF Types
<1> QED
  BY <1>4, <1>7, <1>8, <1>9, <1>10, <1>11, Zenon

\* A batch starts or ends.
LEMMA BatchKept ==
    ASSUME PipelineInv, NEW j \in jobs, BatchStarts(j) \/ BatchEnds(j)
    PROVE  PipelineInv'
<1> USE DEF PipelineInv
<1>1. /\ UNCHANGED <<contractVars, slotVars, shutdownVars, schedVars, controlVars, futureVars>>
      /\ j \in Job /\ j.members \in SUBSET Req
  BY Zenon DEF BatchStarts, BatchEnds, Types, Job
<1>2. CASE BatchStarts(j)
  <2>1. PlaceInv'
    BY <1>2, BatchStartsPlace, Zenon
  <2> DEFINE all == j.members
             runs == {r \in all : slot[r] \in accepting /\ ~Inactive(r)}
             code(r) == IF slot[r] \notin accepting THEN "unavailable" ELSE ControlError(r)
  <2>2. /\ reply' = [r \in Req |-> IF r \in all \ runs /\ Awaits(r) THEN code(r) ELSE reply[r]]
        /\ lease' = [r \in Req |-> IF r \in all \ runs THEN None ELSE lease[r]]
        /\ permit' = permit \ all
        /\ queued' = [k \in Key |-> queued[k] - Cardinality({r \in all \cap permit : slot[r] = k})]
        /\ Finished(j) \/ Started(j, runs)
    BY <1>2, Zenon DEF BatchStarts
  <2>3. CountInv' /\ queued' \in [Key -> Int]
    BY <1>1, <2>2, ReleaseCounts, Zenon DEF futureVars
  <2>4. permit' \subseteq Req /\ lease' \in [Req -> Key \cup {None}]
    BY <2>2, Zenon DEF Types
  <2>5. \A r \in Req : code(r) \in Codes
    BY ControlCodes, Zenon DEF Codes
  <2>6. reply' \in [Req -> Codes \cup {"none", "prepared", "closed"}]
    BY <2>2, <2>5, Zenon DEF Types
  <2>7. jobs' \subseteq Job
    <3>1. [j EXCEPT !.members = runs, !.running = TRUE] \in Job
      BY <1>1, Zenon DEF Job
    <3> QED
      BY <2>2, <3>1, ZenonT(30) DEF Finished, Started, Types
  <2>8. Types'
    BY <1>1, <2>3, <2>4, <2>6, <2>7, ZenonT(30)
    DEF Types, contractVars, slotVars, shutdownVars, schedVars,
                                        controlVars, futureVars
  <2>9. ASSUME NEW r \in Req
        PROVE  \/ reply'[r] = reply[r]
               \/ /\ Awaits(r) /\ reply'[r] \in Codes
                  /\ reply'[r] = "cancelled" => Cancelled(r)
                  /\ reply'[r] = "deadline" => r \in late
    <3>1. CASE r \in all \ runs /\ Awaits(r)
      <4>1. reply'[r] = code(r) /\ (slot[r] \notin accepting \/ Inactive(r))
        BY <2>2, <3>1, Zenon
      <4> QED
        BY <2>5, <3>1, <4>1, Zenon DEF Inactive, ControlError
    <3>2. CASE ~(r \in all \ runs /\ Awaits(r))
      BY <2>2, <3>2, Zenon
    <3> QED
      BY <3>1, <3>2, Zenon
  <2>10. ErrorInv'
    BY <1>1, <2>9, Zenon DEF ErrorInv, Cancelled, slotVars, controlVars, futureVars
  <2>11. ASSUME NEW r \in Req, verdict # "forced"
         PROVE  reply'[r] # "closed" /\ (reply'[r] = "cancelled" => r \in cancelled)
    <3>1. Awaits(r) => pc[r] \notin {"idle", "done"}
      BY Zenon DEF Awaits
    <3>2. reply[r] # "closed" /\ (reply[r] = "cancelled" => r \in cancelled)
      BY <2>11, Zenon DEF DrainInv
    <3>3. "closed" \notin Codes
      BY Zenon DEF Codes
    <3> QED
      BY <2>9, <2>11, <3>1, <3>2, <3>3, ControlOwn, Zenon
  <2>12. DrainInv'
    BY <1>1, <2>11, Zenon
    DEF DrainInv, contractVars, slotVars, shutdownVars, controlVars, futureVars
  <2> QED
    BY <2>1, <2>3, <2>8, <2>10, <2>12, Zenon
<1>3. CASE BatchEnds(j)
  <2> DEFINE rs == j.members
             published == [r \in rs |-> IF slot[r] \notin accepting THEN "unavailable"
                                        ELSE Effective(r, "ok")]
             failed == [r \in rs |-> Effective(r, "failed")]
             gaveUp == [r \in rs |-> Effective(r, "cancelled")]
             Fits(code) == /\ code \in [rs -> Codes]
                           /\ \A r \in rs : /\ code[r] = "cancelled" => Cancelled(r)
                                            /\ code[r] = "deadline" => r \in late
  <2>1. Fits(published) /\ Fits(failed)
    BY ControlCodes, CodesAreOwn DEF Codes
  <2>2. CompositeInactive(rs) => Fits(gaveUp)
    BY ControlCodes, CodesAreOwn DEF Codes, CompositeInactive
  <2>3. \E code : Fits(code) /\ AnswerAll(rs, code)
    BY <1>3, <2>1, <2>2, Zenon DEF BatchEnds
  <2>4. Finished(j)
    BY <1>3, Zenon DEF BatchEnds
  <2> QED
    BY <1>1, <2>3, <2>4, JobOverKept, Zenon
<1> QED
  BY <1>2, <1>3, Zenon

\* The scheduler answers Requests it has.
LEMMA SlotOverKept ==
    ASSUME PipelineInv, PlaceInv', NEW k \in Key, NEW rs \in SUBSET Held(k),
           NEW code \in [rs -> Codes \cup {"closed"}], AnswerAll(rs, code),
           \A r \in rs : /\ code[r] = "cancelled" => Cancelled(r)
                         /\ code[r] = "deadline" => r \in late
                         /\ code[r] = "closed" => stage = "join",
           UNCHANGED <<contractVars, slotVars, shutdownVars, stopping, controlVars, futureVars, jobs>>,
           sched' \in [Key -> {"none", "idle", "window", "drain", "closed"}],
           chan' \in [Key -> Seq(Req)], pend' \in [Key -> SUBSET Req]
    PROVE  PipelineInv'
<1>1. rs \in SUBSET Req
  BY DEF PipelineInv, Types, Held, Range
<1>2. stage = "join" => verdict \in {"drained", "forced"}
  BY Zenon DEF PipelineInv, Types, DrainInv
<1>3. jobs' \subseteq Job
  BY Zenon DEF PipelineInv, Types
<1> QED
  BY <1>1, <1>2, <1>3, AnswerKept, Zenon

\* Gathering and dispatching.
LEMMA DispatchKept ==
    ASSUME PipelineInv, NEW k \in Key, Receive(k) \/ WindowEnds(k) \/ Dispatch(k)
    PROVE  PipelineInv'
<1> USE DEF PipelineInv
<1>1. UNCHANGED <<contractVars, slotVars, shutdownVars, stopping, controlVars, futureVars>>
  BY Zenon DEF Receive, WindowEnds, Dispatch
<1>2. sched' \in [Key -> {"none", "idle", "window", "drain", "closed"}]
  <2>1. UNCHANGED sched \/ \E at \in {"window", "drain"} : sched' = [sched EXCEPT ![k] = at]
    BY Zenon DEF Receive, WindowEnds, Dispatch
  <2> QED
    BY <2>1, ZenonT(30) DEF Types
<1>3. chan' \in [Key -> Seq(Req)] /\ pend' \in [Key -> SUBSET Req]
  <2>1. CASE Receive(k)
    <3>1. chan[k] \in Seq(Req) /\ IsInjective(chan[k]) /\ chan[k] # <<>>
      BY <2>1, Zenon DEF Receive, Types, PlaceInv, SlotsInv
    <3>2. Head(chan[k]) \in Req /\ Tail(chan[k]) \in Seq(Req)
      BY <3>1
    <3>3. /\ chan' = [chan EXCEPT ![k] = Tail(chan[k])]
          /\ pend' = [pend EXCEPT ![k] = pend[k] \cup {Head(chan[k])}]
      BY <2>1, Zenon DEF Receive
    <3> QED
      BY <3>2, <3>3, Zenon DEF Types
  <2>2. CASE WindowEnds(k)
    BY <2>2, Zenon DEF WindowEnds, Types
  <2>3. CASE Dispatch(k)
    <3>1. PICK rs : pend' = [pend EXCEPT ![k] = pend[k] \ rs]
      BY <2>3, Zenon DEF Dispatch
    <3>2. UNCHANGED chan
      BY <2>3, Zenon DEF Dispatch
    <3> QED
      BY <3>1, <3>2, Zenon DEF Types
  <2> QED
    BY <2>1, <2>2, <2>3, Zenon
<1>4. PlaceInv'
  BY ReceivePlace, DispatchPlace, OutsidePlace, Zenon
<1>5. CASE UNCHANGED ownedVars /\ jobs' \subseteq Job
  <2>1. CountInv' /\ UNCHANGED <<lease, permit, queued, reply>>
    BY <1>1, <1>5, CountKept, Zenon DEF futureVars, ownedVars
  <2> QED
    BY <1>1, <1>2, <1>3, <1>4, <1>5, <2>1, JobMovesKept, Zenon DEF Types
<1>6. CASE Receive(k) \/ WindowEnds(k)
  <2>1. UNCHANGED <<ownedVars, jobs>>
    BY <1>6, Zenon DEF Receive, WindowEnds
  <2> QED
    BY <1>5, <2>1, Zenon DEF Types
<1>7. CASE Dispatch(k)
  <2>1. PICK first \in pend[k] :
           \/ /\ Inactive(first)
              /\ AnswerAll({first}, [r \in {first} |-> ControlError(r)])
              /\ UNCHANGED jobs
           \/ \E others \in SUBSET (pend[k] \ {first}) :
                  LET batch == {first} \cup others
                  IN  \/ /\ AnswerAll(batch, [r \in batch |-> Effective(r, "queue_full")])
                         /\ UNCHANGED jobs
                      \/ /\ jobs' = jobs \cup {[kind |-> "batch", members |-> batch,
                                                running |-> FALSE]}
                         /\ UNCHANGED ownedVars
    BY <1>7, Zenon DEF Dispatch
  <2>2. first \in Held(k) /\ pend[k] \in SUBSET Req /\ pend[k] \in SUBSET Held(k)
    BY Zenon DEF Held, Types
  <2>3. CASE Inactive(first) /\ AnswerAll({first}, [r \in {first} |-> ControlError(r)]) /\ UNCHANGED jobs
    <3> DEFINE code == [r \in {first} |-> ControlError(r)]
    <3>1. code \in [{first} -> Codes \cup {"closed"}] /\ code[first] \in Codes
      BY ControlCodes, Zenon
    <3>2. /\ code[first] = "cancelled" => Cancelled(first)
          /\ code[first] = "deadline" => first \in late
          /\ code[first] # "closed"
      BY <2>3, <3>1, Zenon DEF Inactive, ControlError
    <3> HIDE DEF code
    <3>3. {first} \in SUBSET Held(k) /\ AnswerAll({first}, code)
      BY <2>2, <2>3, Zenon DEF code
    <3> QED
      BY <1>1, <1>2, <1>3, <1>4, <2>3, <3>1, <3>2, <3>3, SlotOverKept, ZenonT(30)
  <2>4. ASSUME NEW others \in SUBSET (pend[k] \ {first}), NEW batch, batch = {first} \cup others,
               \/ /\ AnswerAll(batch, [r \in batch |-> Effective(r, "queue_full")])
                  /\ UNCHANGED jobs
               \/ /\ jobs' = jobs \cup {[kind |-> "batch", members |-> batch, running |-> FALSE]}
                  /\ UNCHANGED ownedVars
        PROVE  PipelineInv'
    <3>1. batch \in SUBSET Held(k) /\ batch \in SUBSET Req
      BY <2>2, <2>4, Zenon
    <3>2. CASE /\ AnswerAll(batch, [r \in batch |-> Effective(r, "queue_full")])
               /\ UNCHANGED jobs
      <4> DEFINE code == [r \in batch |-> Effective(r, "queue_full")]
      <4>1. code \in [batch -> Codes \cup {"closed"}] /\ \A r \in batch : code[r] \in Codes
        BY ControlCodes, Zenon DEF Codes
      <4>2. \A r \in batch : /\ code[r] = "cancelled" => Cancelled(r)
                             /\ code[r] = "deadline" => r \in late
                             /\ code[r] # "closed"
        BY <4>1, CodesAreOwn, Zenon DEF Codes
      <4> HIDE DEF code
      <4>3. AnswerAll(batch, code) /\ UNCHANGED jobs
        BY <3>2, Zenon DEF code
      <4> QED
        BY <1>1, <1>2, <1>3, <1>4, <3>1, <4>1, <4>2, <4>3, SlotOverKept, Zenon
    <3>3. CASE /\ jobs' = jobs \cup {[kind |-> "batch", members |-> batch, running |-> FALSE]}
               /\ UNCHANGED ownedVars
      <4>1. [kind |-> "batch", members |-> batch, running |-> FALSE] \in Job
        BY <3>1, Zenon DEF Job
      <4> QED
        BY <1>5, <3>3, <4>1 DEF Types
    <3> QED
      BY <2>4, <3>2, <3>3, Zenon
  <2> QED
    BY <2>1, <2>3, <2>4, Zenon
<1> QED
  BY <1>6, <1>7, Zenon

\* The scheduler goes round, ends or is aborted.
LEMMA CloseKept ==
    ASSUME PipelineInv, NEW k \in Key, Drained(k) \/ StopSeen(k) \/ Aborted(k)
    PROVE  PipelineInv'
<1> USE DEF PipelineInv
<1>1. /\ UNCHANGED <<contractVars, slotVars, shutdownVars, stopping, controlVars, futureVars, jobs>>
      /\ \E at \in {"closed", "idle"} : sched' = [sched EXCEPT ![k] = at]
  BY Zenon DEF Drained, StopSeen, Aborted, Close
<1>2. sched' \in [Key -> {"none", "idle", "window", "drain", "closed"}]
  BY <1>1, Zenon DEF Types
<1>3. PlaceInv'
  BY ClosePlace, Zenon
<1>4. CASE UNCHANGED <<chan, pend, ownedVars>>
  <2>1. CountInv' /\ UNCHANGED <<lease, permit, queued, reply>>
    BY <1>1, <1>4, CountKept, Zenon DEF futureVars, ownedVars
  <2> QED
    BY <1>1, <1>2, <1>3, <1>4, <2>1, JobMovesKept, Zenon DEF Types
<1>5. ASSUME NEW code \in [Held(k) -> Codes \cup {"closed"}], AnswerAll(Held(k), code),
             \A r \in Held(k) : /\ code[r] = "cancelled" => Cancelled(r)
                                /\ code[r] = "deadline" => r \in late
                                /\ code[r] = "closed" => stage = "join",
             pend' = [pend EXCEPT ![k] = {}], chan' = [chan EXCEPT ![k] = <<>>]
      PROVE  PipelineInv'
  <2>1. chan' \in [Key -> Seq(Req)] /\ pend' \in [Key -> SUBSET Req]
    BY <1>5 DEF Types
  <2>2. Held(k) \in SUBSET Held(k)
    BY Zenon
  <2> QED
    BY <1>1, <1>2, <1>3, <1>5, <2>1, <2>2, SlotOverKept
<1>6. CASE Close(k)
  <2> DEFINE code == [r \in Held(k) |-> Effective(r, "unavailable")]
  <2>1. code \in [Held(k) -> Codes \cup {"closed"}] /\ \A r \in Held(k) : code[r] \in Codes
    BY ControlCodes, Zenon DEF Codes
  <2>2. \A r \in Held(k) : /\ code[r] = "cancelled" => Cancelled(r)
                           /\ code[r] = "deadline" => r \in late
                           /\ code[r] # "closed"
    BY <2>1, CodesAreOwn, Zenon DEF Codes
  <2> HIDE DEF code
  <2>3. AnswerAll(Held(k), code) /\ pend' = [pend EXCEPT ![k] = {}] /\ chan' = [chan EXCEPT ![k] = <<>>]
    BY <1>6, Zenon DEF Close, code
  <2> QED
    BY <1>5, <2>1, <2>2, <2>3, Zenon
<1>7. CASE Aborted(k)
  <2> DEFINE code == [r \in Held(k) |-> "closed"]
  <2>1. code \in [Held(k) -> Codes \cup {"closed"}] /\ \A r \in Held(k) : code[r] = "closed"
    BY Zenon
  <2> HIDE DEF code
  <2>2. /\ AnswerAll(Held(k), code) /\ pend' = [pend EXCEPT ![k] = {}] /\ chan' = [chan EXCEPT ![k] = <<>>]
        /\ stage = "join"
    BY <1>7, Zenon DEF Aborted, code
  <2> QED
    BY <1>5, <2>1, <2>2, Zenon
<1> QED
  BY <1>4, <1>6, <1>7, Zenon DEF Drained, StopSeen

\* The registry, the caller, the clock and the flight of shutdown.
LEMMA OutsideKept ==
    ASSUME PipelineInv, (\E r \in Req : Deactivate(r)) \/ (\E k \in Key : Load(k)) \/ Unload \/ Shutdown
    PROVE  PipelineInv'
<1> USE DEF PipelineInv
<1>1. PlaceInv'
  BY OutsidePlace, Zenon
<1>2. UNCHANGED <<pc, phase, slot, outcome, lease, permit, queued, reply, chan, pend, jobs>>
  BY Zenon DEF Deactivate, Load, Unload, Shutdown, ShutdownWaits, ShutdownForces, ShutdownFences,
         ShutdownEnds, futureVars, ownedVars, schedVars
<1>3. CountInv'
  BY <1>2, CountKept, Zenon
<1>4. CASE \E r \in Req : Deactivate(r)
  <2>1. /\ UNCHANGED <<contractVars, slotVars, shutdownVars, sched, stopping, abandoned>>
        /\ cancelled' \subseteq Req /\ late' \subseteq Req
        /\ cancelled \subseteq cancelled' /\ late \subseteq late'
    BY <1>4, Zenon DEF Deactivate, schedVars, Types
  <2>2. Types'
    BY <1>2, <2>1 DEF Types, contractVars, slotVars, shutdownVars
  <2>3. ErrorInv'
    BY <1>2, <2>1, ErrorsKept, Zenon DEF slotVars
  <2>4. DrainInv'
    BY <1>2, <2>1, ZenonT(30) DEF DrainInv, contractVars, slotVars, shutdownVars
  <2> QED
    BY <1>1, <1>3, <2>2, <2>3, <2>4, Zenon
<1>5. CASE (\E k \in Key : Load(k)) \/ Unload
  <2>1. UNCHANGED <<contractVars, fenced, shutdownVars, controlVars>>
    BY <1>5, Zenon DEF Load, Unload
  <2>2. /\ used' \subseteq Key /\ accepting' \subseteq used' /\ fenced' \subseteq used'
        /\ stopping' \subseteq used' /\ registered' \in used' \cup {None}
        /\ sched' \in [Key -> {"none", "idle", "window", "drain", "closed"}]
    BY <1>5 DEF Load, Unload, Types
  <2>3. Types'
    BY <1>2, <2>1, <2>2, ZenonT(30) DEF Types, contractVars, shutdownVars, controlVars
  <2>4. ErrorInv'
    BY <1>2, <2>1, ErrorsKept, Zenon DEF controlVars
  <2>5. DrainInv'
    BY <1>2, <2>1, Zenon DEF DrainInv, contractVars, shutdownVars, controlVars
  <2> QED
    BY <1>1, <1>3, <2>3, <2>4, <2>5, Zenon
<1>6. CASE Shutdown
  <2>1. /\ UNCHANGED <<used, live, sched, controlVars>>
        /\ accepting' \subseteq accepting /\ fenced \subseteq fenced' /\ fenced' \subseteq used
        /\ stopping' \subseteq used /\ registered' \in used \cup {None}
        /\ forceStop' \in BOOLEAN /\ open' \in BOOLEAN /\ expired' \in BOOLEAN
        /\ verdict' \in {"none", "drained", "forced"}
        /\ stage' \in {"idle", "force", "slots", "join"}
    <3>1. CASE ShutdownWaits
      <4>1. /\ UNCHANGED <<slotVars, forceStop, schedVars, controlVars, live>>
            /\ open' \in BOOLEAN /\ expired' \in BOOLEAN /\ verdict' \in {"none", "drained", "forced"}
        BY <3>1, Zenon DEF ShutdownWaits, D!Close, D!Decide, D!Expire, Types
      <4>2. stage' \in {"idle", "force", "slots", "join"}
        BY <3>1, <4>1, Zenon DEF ShutdownWaits, Types
      <4> QED
        BY <4>1, <4>2, Zenon DEF slotVars, schedVars, Types
    <3>2. CASE ShutdownForces
      BY <3>2, Zenon DEF ShutdownForces, ForceStopSent, contractVars, slotVars, schedVars, Types
    <3>3. CASE ShutdownFences
      BY <3>3, Zenon DEF ShutdownFences, contractVars, Types
    <3>4. CASE ShutdownEnds
      BY <3>4, Zenon DEF ShutdownEnds, D!Stop, schedVars, Types
    <3> QED
      BY <1>6, <3>1, <3>2, <3>3, <3>4, Zenon DEF Shutdown
  <2>2. Types'
    BY <1>2, <2>1, Zenon DEF Types, controlVars
  <2>3. ErrorInv'
    BY <1>2, <2>1, ErrorsKept, Zenon DEF controlVars
  <2>4. /\ verdict' = "drained" => live = {}
        /\ verdict' # "none" => ~open'
        /\ verdict' = "none" => fenced' = {} /\ stage' = "idle"
        /\ verdict' # "forced" => verdict # "forced"
    <3>1. CASE ShutdownWaits
      BY <3>1 DEF ShutdownWaits, D!Close, D!Decide, D!Expire, DrainInv, slotVars, Types
    <3>2. CASE ShutdownForces
      BY <3>2, Zenon DEF ShutdownForces, contractVars, slotVars, DrainInv
    <3>3. CASE ShutdownFences
      BY <3>3, Zenon DEF ShutdownFences, contractVars, DrainInv
    <3>4. CASE ShutdownEnds
      BY <3>4, Zenon DEF ShutdownEnds, D!Stop, DrainInv
    <3> QED
      BY <1>6, <3>1, <3>2, <3>3, <3>4, Zenon DEF Shutdown
  <2>5. DrainInv'
    BY <1>2, <2>1, <2>4, Zenon DEF DrainInv, controlVars
  <2> QED
    BY <1>1, <1>3, <2>2, <2>3, <2>5, Zenon
<1> QED
  BY <1>4, <1>5, <1>6, Zenon

-----------------------------------------------------------------------------
(* What the pipeline promises.                                                 *)

\* Every step keeps the invariant.
LEMMA PipelineStep ==
    ASSUME PipelineInv, [Next]_vars
    PROVE  PipelineInv'
<1>1. CASE \E r \in Req : Admit(r) \/ Poll(r) \/ Abandon(r)
  BY <1>1, EmbedKept, SubmitKept, AwaitKept, Zenon DEF Poll
<1>2. CASE \E j \in jobs : Worker(j)
  BY <1>2, PreflightKept, BatchKept, Zenon DEF Worker
<1>3. CASE \E k \in Key : Scheduler(k)
  BY <1>3, DispatchKept, CloseKept, Zenon DEF Scheduler
<1>4. CASE (\E r \in Req : Deactivate(r)) \/ (\E k \in Key : Load(k)) \/ Unload \/ Shutdown
  BY <1>4, OutsideKept, Zenon
<1>5. CASE UNCHANGED vars
  <2>1. UNCHANGED <<pc, phase, slot, lease, permit, queued, reply, jobs, chan, pend>>
    BY <1>5, Zenon DEF vars, futureVars, ownedVars, schedVars
  <2>2. Types' /\ ErrorInv' /\ DrainInv'
    BY <1>5 DEF PipelineInv, Types, ErrorInv, DrainInv, Cancelled, vars, contractVars, slotVars,
                shutdownVars, schedVars, controlVars, futureVars, ownedVars
  <2> QED
    BY <2>1, <2>2, PlaceKept, CountKept, Zenon DEF PipelineInv
<1> QED
  BY <1>1, <1>2, <1>3, <1>4, <1>5, Zenon DEF Next

\* embed, the workers, the schedulers, unload and shutdown keep the accounts of every
\* request, whatever their interleaving.
THEOREM PipelineSafe == Spec => []PipelineInv
<1>1. Init => PipelineInv
  <2> SUFFICES ASSUME Init
               PROVE  PipelineInv
    BY Zenon
  <2> USE DEF Init
  <2>1. Types
    <3>1. chan \in [Key -> Seq(Req)] /\ queued \in [Key -> Int] /\ pend \in [Key -> SUBSET Req]
      OBVIOUS
    <3>2. /\ slot \in [Req -> Key \cup {None}] /\ lease \in [Req -> Key \cup {None}]
          /\ reply \in [Req -> Codes \cup {"none", "prepared", "closed"}]
          /\ outcome \in [Req -> Codes \cup {"none", "dropped"}]
      BY Zenon
    <3> QED
      BY <3>1, <3>2, Zenon DEF Types, D!Init
  <2>2. \A k \in Key : Held(k) = {} /\ IsInjective(chan[k]) /\ Range(chan[k]) \cap pend[k] = {}
    BY DEF Held, Range, IsInjective
  <2>3. PlaceInv
    BY <2>2, Zenon DEF PlaceInv, JobsInv, SlotsInv, FutureInv, Awaits
  <2>4. CountInv
    BY FS_EmptySet DEF CountInv, Permits
  <2>5. ErrorInv /\ DrainInv
    BY Zenon DEF ErrorInv, DrainInv, D!Init
  <2> QED
    BY <2>1, <2>3, <2>4, <2>5, Zenon DEF PipelineInv
<1>2. PipelineInv /\ [Next]_vars => PipelineInv'
  BY PipelineStep, Zenon
<1> QED
  BY <1>1, <1>2, PTL DEF Spec

\* A Request is in one place at most, and has a lease there.
LEMMA OnePlace ==
    ASSUME PipelineInv, NEW r \in Req
    PROVE  LET places == Cardinality({j \in jobs : r \in j.members})
                         + Cardinality({k \in Key : r \in Range(chan[k])})
                         + Cardinality({k \in Key : r \in pend[k]})
                         + Cardinality(Owned(r))
           IN  places <= 1 /\ (lease[r] # None <=> places = 1)
<1> USE DEF PipelineInv
<1> DEFINE inJobs == {j \in jobs : r \in j.members}
           inChan == {k \in Key : r \in Range(chan[k])}
           inPend == {k \in Key : r \in pend[k]}
<1>1. /\ Cardinality({}) = 0
      /\ \A x : Cardinality({x}) = 1
  BY FS_EmptySet, FS_Singleton, Zenon
<1>2. CASE InPool(r)
  <2>1. PICK j \in jobs : r \in j.members
    BY <1>2, Zenon DEF InPool
  <2>2. inJobs = {j}
    BY <2>1, Zenon DEF PlaceInv, JobsInv
  <2>3. JobInv(j, r)
    BY <2>1, Zenon DEF PlaceInv, JobsInv
  <2>4. inChan = {} /\ inPend = {}
    BY <2>3, Zenon DEF JobInv, Held
  <2>5. Owned(r) = {} /\ lease[r] # None
    BY <2>1, Placed, Zenon DEF Owned
  <2>6. Cardinality(inJobs) = 1 /\ Cardinality(inChan) = 0 /\ Cardinality(inPend) = 0 /\ Cardinality(Owned(r)) = 0
    BY <1>1, <2>2, <2>4, <2>5, Zenon
  <2> QED
    BY <2>5, <2>6
<1>3. CASE InScheduler(r)
  <2>1. PICK k \in Key : r \in Held(k)
    BY <1>3, Zenon DEF InScheduler
  <2>2. inJobs = {}
    BY <2>1, Zenon DEF PlaceInv, JobsInv, JobInv
  <2>3. \A i \in Key : r \in Held(i) => i = k
    BY <2>1 DEF PlaceInv, SlotsInv, SlotInv
  <2>4. (inChan = {k} /\ inPend = {}) \/ (inChan = {} /\ inPend = {k})
    BY <2>1, <2>3, Zenon DEF PlaceInv, SlotsInv, Held
  <2>5. Owned(r) = {} /\ lease[r] # None
    BY <2>1, Placed, Zenon DEF Owned
  <2>6. /\ Cardinality(inJobs) = 0 /\ Cardinality(Owned(r)) = 0
        /\ \/ Cardinality(inChan) = 1 /\ Cardinality(inPend) = 0
           \/ Cardinality(inChan) = 0 /\ Cardinality(inPend) = 1
    BY <1>1, <2>2, <2>4, <2>5, ZenonT(30)
  <2> QED
    BY <2>5, <2>6
<1>4. CASE ~InPool(r) /\ ~InScheduler(r)
  <2>1. inJobs = {} /\ inChan = {} /\ inPend = {}
    BY <1>4, Zenon DEF InPool, InScheduler, Held
  <2>2. FutureInv(r)
    BY Zenon DEF PlaceInv
  <2>3. lease[r] # None <=> Owned(r) # {}
    BY <1>4, <2>2, Zenon DEF FutureInv, Owned
  <2>4. Owned(r) \in {{}, {r}}
    BY Zenon DEF Owned
  <2>5. /\ Cardinality(inJobs) = 0 /\ Cardinality(inChan) = 0 /\ Cardinality(inPend) = 0
        /\ Cardinality(Owned(r)) = IF lease[r] # None THEN 1 ELSE 0
    BY <1>1, <2>1, <2>3, <2>4, Zenon
  <2> QED
    BY <2>5
<1> QED
  BY <1>2, <1>3, <1>4, ZenonT(30)

\* A request only takes from the counter what it has counted; the counter grows by one
\* and below its limit, where QueuePermit::acquire gives a permit.
LEMMA CounterStep ==
    ASSUME PipelineInv, depth \in Nat, [Next]_vars, NEW k \in Key
    PROVE  queued'[k] <= queued[k] \/ (queued'[k] = queued[k] + 1 /\ queued[k] < depth)
<1> DEFINE Shrinks == queued'[k] <= queued[k]
           Counted(rs) ==
             queued' = [i \in Key |-> queued[i] - Cardinality({r \in rs \cap permit : slot[r] = i})]
<1>1. Types /\ PlaceInv
  BY Zenon DEF PipelineInv
<1>2. ASSUME NEW rs \in SUBSET Req, Counted(rs)
      PROVE  Shrinks
  <2> DEFINE gone == {r \in rs \cap permit : slot[r] = k}
  <2>1. gone \subseteq Req /\ IsFiniteSet(Req)
    BY PipelineAssumption, Zenon
  <2>2. Cardinality(gone) \in Nat
    BY <2>1, FS_Subset, FS_CardinalityType, Zenon
  <2>3. queued'[k] = queued[k] - Cardinality(gone) /\ queued[k] \in Int
    BY <1>1, <1>2, Zenon DEF Types
  <2> HIDE DEF gone
  <2> QED
    BY <2>2, <2>3
<1>3. ASSUME UNCHANGED queued
      PROVE  Shrinks
  <2>1. queued[k] \in Int /\ queued'[k] = queued[k]
    BY <1>1, <1>3, Zenon DEF Types
  <2> QED
    BY <2>1
<1>4. ASSUME NEW rs \in SUBSET Req, ReleaseAll(rs)
      PROVE  Shrinks
  BY <1>2, <1>4, Zenon DEF ReleaseAll
<1> HIDE DEF Shrinks
<1>5. ASSUME NEW r \in Req, NEW code, Return(r, code)
      PROVE  Shrinks
  <2>1. Owned(r) \in SUBSET Req
    BY Zenon DEF Owned
  <2> QED
    BY <1>4, <1>5, <2>1, Zenon DEF Return
<1>6. ASSUME NEW rs \in SUBSET Req, NEW code, AnswerAll(rs, code)
      PROVE  Shrinks
  BY <1>4, <1>6, Zenon DEF AnswerAll
<1>7. CASE \E r \in Req : Admit(r) \/ PickSlot(r) \/ TakeLease(r) \/ Enqueue(r)
  BY <1>3, <1>5, <1>7, Zenon DEF Admit, PickSlot, TakeLease, Enqueue, ownedVars, Shrinks
<1>8. CASE \E r \in Req : SubmitPreflight(r)
  <2>1. PICK r \in Req : SubmitPreflight(r)
    BY <1>8, Zenon
  <2>2. CASE \E code : Return(r, code)
    BY <1>5, <2>2, Zenon DEF Shrinks
  <2>3. CASE ~QueueFull(slot[r]) /\ queued' = [queued EXCEPT ![slot[r]] = @ + 1]
    <3>1. \A i \in Key : queued[i] \in Int
      BY <1>1, Zenon DEF Types
    <3>2. CASE slot[r] = k
      <4>1. queued'[k] = queued[k] + 1 /\ queued \in [Key -> Int]
        BY <1>1, <2>3, <3>2, Zenon DEF Types
      <4> QED
        BY <2>3, <3>1, <3>2, <4>1 DEF QueueFull
    <3>3. CASE slot[r] # k
      <4>1. queued'[k] = queued[k]
        BY <1>1, <2>3, <3>3, Zenon DEF Types
      <4> QED
        BY <3>1, <4>1
    <3> QED
      BY <3>2, <3>3, Zenon
  <2> QED
    BY <2>1, <2>2, <2>3, Zenon DEF SubmitPreflight
<1>9. CASE \E r \in Req : CheckForce(r) \/ CheckActive(r) \/ Select(r) \/ TakeReply(r) \/ Abandon(r)
  BY <1>3, <1>5, <1>9, Zenon
  DEF CheckForce, CheckActive, Select, TakeReply, Abandon, ownedVars, Shrinks
<1>10. CASE \E j \in jobs : PreflightStarts(j) \/ PreflightEnds(j)
  <2>1. PICK j \in jobs : PreflightStarts(j) \/ PreflightEnds(j)
    BY <1>10, Zenon
  <2>2. \A r \in j.members : {r} \in SUBSET Req
    BY <1>1, Zenon DEF Types, Job
  <2> QED
    BY <1>3, <1>4, <1>6, <2>1, <2>2, Zenon DEF PreflightStarts, PreflightEnds, ownedVars, Shrinks
<1>11. CASE \E j \in jobs : BatchStarts(j) \/ BatchEnds(j)
  <2>1. PICK j \in jobs : BatchStarts(j) \/ BatchEnds(j)
    BY <1>11, Zenon
  <2>2. j.members \in SUBSET Req
    BY <1>1, Zenon DEF Types, Job
  <2>3. CASE BatchStarts(j)
    BY <1>2, <2>2, <2>3, Zenon DEF BatchStarts, Shrinks
  <2>4. CASE BatchEnds(j)
    BY <1>6, <2>2, <2>4, Zenon DEF BatchEnds, Shrinks
  <2> QED
    BY <2>1, <2>3, <2>4, Zenon
<1>12. CASE \E i \in Key : Scheduler(i)
  <2>1. PICK i \in Key : Scheduler(i)
    BY <1>12, Zenon
  <2>2. Held(i) \in SUBSET Req /\ pend[i] \in SUBSET Req
    BY <1>1, Zenon DEF Types, PlaceInv, SlotsInv, SlotInv
  <2>3. CASE Receive(i) \/ WindowEnds(i)
    BY <1>3, <2>3, Zenon DEF Receive, WindowEnds, ownedVars, Shrinks
  <2>4. CASE Dispatch(i)
    <3>1. PICK first \in pend[i] :
             \/ AnswerAll({first}, [r \in {first} |-> ControlError(r)])
             \/ \E others \in SUBSET (pend[i] \ {first}) : \E code : AnswerAll({first} \cup others, code)
             \/ UNCHANGED ownedVars
      BY <2>4, Zenon DEF Dispatch
    <3>2. {first} \in SUBSET Req /\ \A others \in SUBSET (pend[i] \ {first}) : {first} \cup others \in SUBSET Req
      BY <2>2, Zenon
    <3> QED
      BY <1>3, <1>6, <3>1, <3>2, Zenon DEF ownedVars, Shrinks
  <2>5. CASE Drained(i) \/ StopSeen(i) \/ Aborted(i)
    BY <1>3, <1>6, <2>2, <2>5, Zenon DEF Drained, StopSeen, Aborted, Close, ownedVars, Shrinks
  <2> QED
    BY <2>1, <2>3, <2>4, <2>5, Zenon DEF Scheduler
<1>13. CASE \/ \E r \in Req : Deactivate(r)
            \/ \E i \in Key : Load(i)
            \/ Unload \/ Shutdown \/ UNCHANGED vars
  BY <1>3, <1>13, Zenon DEF Deactivate, Load, Unload, Shutdown, ShutdownWaits, ShutdownForces,
                            ShutdownFences, ShutdownEnds, vars, ownedVars, Shrinks
<1> QED
  BY <1>7, <1>8, <1>9, <1>10, <1>11, <1>12, <1>13, Zenon DEF Next, Poll, Worker

\* The policy does not change, and a permit is given below its limit only.
LimitInv ==
    /\ depth \in Nat \ {0}
    /\ \A k \in Key : queued[k] <= depth

\* The counter of a slot stays within queue_depth, whoever gives permits back and when.
THEOREM QueueIsBounded == Spec => []LimitInv
<1>1. Init => LimitInv
  BY PipelineAssumption DEF Init, LimitInv
<1>2. PipelineInv /\ LimitInv /\ [Next]_vars => LimitInv'
  <2> SUFFICES ASSUME PipelineInv, LimitInv, [Next]_vars
               PROVE  LimitInv'
    BY Zenon
  <2>1. depth' = depth
    BY Zenon DEF Next, vars
  <2>2. ASSUME NEW k \in Key
        PROVE  queued'[k] <= depth
    <3>1. queued[k] \in Int /\ depth \in Int /\ queued[k] <= depth
      BY DEF PipelineInv, Types, LimitInv
    <3>2. queued'[k] \in Int
      BY PipelineStep, Zenon DEF PipelineInv, Types
    <3>3. queued'[k] <= queued[k] \/ (queued'[k] = queued[k] + 1 /\ queued[k] < depth)
      <4>1. depth \in Nat
        BY Zenon DEF LimitInv
      <4> QED
        BY <4>1, CounterStep, Zenon
    <3> QED
      BY <3>1, <3>2, <3>3
  <2> QED
    BY <2>1, <2>2, Zenon DEF LimitInv
<1> QED
  BY <1>1, <1>2, PipelineSafe, PTL DEF Spec

\* The queue counter of a slot is the number of its requests that wait; a Request is in
\* one place only and its lease lives exactly as long: QueuePermit and RuntimeLease are
\* neither leaked nor lost on any path.
THEOREM RequestsAlwaysAccounted == Spec => []RequestsAccounted
<1>1. PipelineInv => RequestsAccounted
  <2> SUFFICES ASSUME PipelineInv
               PROVE  RequestsAccounted
    BY Zenon
  <2>1. ASSUME NEW k \in Key
        PROVE  /\ queued[k] = Cardinality({r \in Req : slot[r] = k /\ Waiting(r)})
               /\ queued[k] \in Nat
    <3>1. ASSUME NEW r \in Req
          PROVE  r \in permit <=> Waiting(r)
      <4>1. r \in permit => Waiting(r)
        BY Zenon DEF PipelineInv, PlaceInv, FutureInv
      <4>2. pc[r] = "prepared" \/ reply[r] = "prepared" => r \in permit
        BY Zenon DEF PipelineInv, PlaceInv, FutureInv
      <4>3. InScheduler(r) => r \in permit
        BY Zenon DEF PipelineInv, PlaceInv, SlotsInv, SlotInv, InScheduler
      <4>4. ASSUME NEW j \in jobs, r \in j.members, j.kind = "preflight" \/ ~j.running
            PROVE  r \in permit
        BY <4>4, Zenon DEF PipelineInv, PlaceInv, JobsInv, JobInv
      <4> QED
        BY <4>1, <4>2, <4>3, <4>4, Zenon DEF Waiting
    <3>2. Permits(k) = {r \in Req : slot[r] = k /\ Waiting(r)}
      BY <3>1, Zenon DEF PipelineInv, Types, Permits
    <3>3. Cardinality(Permits(k)) \in Nat
      BY PermitsFinite, Zenon DEF PipelineInv
    <3> QED
      BY <3>2, <3>3, Zenon DEF PipelineInv, CountInv
  <2>2. TypeOK
    <3>1. queued \in [Key -> Nat]
      BY <2>1, Zenon DEF PipelineInv, Types
    <3> QED
      BY <3>1, Zenon DEF PipelineInv, Types, TypeOK
  <2> QED
    BY <2>1, <2>2, OnePlace, Zenon DEF RequestsAccounted
<1> QED
  BY <1>1, PipelineSafe, PTL

\* embed returns "cancelled" or "deadline" only for what happened to that request or
\* its model, although the answer may come from a batch it shared.
THEOREM ErrorsAlwaysOwn == Spec => []ErrorsAreOwn
<1>1. PipelineInv => ErrorsAreOwn
  BY Zenon DEF PipelineInv, ErrorInv, ErrorsAreOwn
<1> QED
  BY <1>1, PipelineSafe, PTL

\* A shutdown that is not forced cancels no request and aborts no scheduler that
\* still has one.
THEOREM GracefulAlwaysKeepsWork == Spec => []GracefulKeepsWork
<1>1. PipelineInv => GracefulKeepsWork
  BY Zenon DEF PipelineInv, DrainInv, GracefulKeepsWork
<1> QED
  BY <1>1, PipelineSafe, PTL

\* A request in the hands of its future holds a permit and so do those in the channel,
\* and permits are at most queue_depth: Enqueue never meets a full channel.
THEOREM AdmittedAlwaysFindRoom == Spec => []AdmittedFindsRoom
<1>1. PipelineInv /\ LimitInv => AdmittedFindsRoom
  <2> SUFFICES ASSUME PipelineInv, LimitInv, NEW r \in Req, pc[r] = "prepared"
               PROVE  Len(chan[slot[r]]) < depth
    BY Zenon DEF AdmittedFindsRoom, LimitInv
  <2>1. slot[r] \in Key /\ r \in permit
    BY Zenon DEF PipelineInv, PlaceInv, FutureInv
  <2> DEFINE k == slot[r]
             n == Len(chan[k])
             waiting == Range(chan[k])
  <2>2. k \in Key /\ r \in Permits(k)
    BY <2>1, Zenon DEF Permits
  <2> HIDE DEF k
  <2>3. chan[k] \in Seq(Req) /\ IsInjective(chan[k]) /\ PlaceInv
    BY <2>2, Zenon DEF PipelineInv, Types, PlaceInv, SlotsInv
  <2>4. waiting \subseteq Permits(k)
    BY <2>2, <2>3, Zenon DEF PlaceInv, SlotsInv, SlotInv, Held, Permits
  <2>5. r \notin waiting
    BY <2>2, <2>3, NotPlaced, Zenon DEF Held
  <2>6. n \in Nat /\ chan[k] \in [1 .. n -> Req] /\ DOMAIN chan[k] = 1 .. n
    BY <2>3
  <2> HIDE DEF n
  <2>7. IsFiniteSet(waiting) /\ Cardinality(waiting) = n
    <3>1. chan[k] \in Bijection(1 .. n, waiting)
      BY <2>3, <2>6 DEF Bijection, Injection, Surjection, IsInjective, Range
    <3>2. ExistsBijection(1 .. n, waiting)
      BY <3>1, Zenon DEF ExistsBijection
    <3>3. IsFiniteSet(1 .. n) /\ Cardinality(1 .. n) = n
      BY <2>6, FS_Interval
    <3> QED
      BY <3>2, <3>3, FS_Bijection, Zenon
  <2> HIDE DEF waiting
  <2>8. Cardinality(waiting \cup {r}) = n + 1
    BY <2>5, <2>7, FS_AddElement, Zenon
  <2>9. waiting \cup {r} \subseteq Permits(k)
    BY <2>2, <2>4, Zenon
  <2>10. n + 1 <= Cardinality(Permits(k))
    BY <2>2, <2>8, <2>9, PermitsFinite, FS_Subset, Zenon DEF PipelineInv
  <2>11. Cardinality(Permits(k)) = queued[k] /\ queued[k] <= depth /\ depth \in Nat
    BY <2>2, Zenon DEF PipelineInv, CountInv, LimitInv
  <2>12. Cardinality(Permits(k)) \in Nat
    BY <2>2, PermitsFinite, Zenon DEF PipelineInv
  <2>13. n < depth
    BY <2>6, <2>10, <2>11, <2>12
  <2> QED
    BY <2>13, Zenon DEF n, k
<1> QED
  BY <1>1, PipelineSafe, QueueIsBounded, PTL
=============================================================================
