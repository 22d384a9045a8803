---------------------------- MODULE EmbedPipeline ----------------------------
(***************************************************************************)
(* The life of an embedding request: the embed future, the queue permit    *)
(* and the lease it takes, preflight on the native pool, the scheduler's   *)
(* channel and deque, the native batch, the reply, and what cancellation,  *)
(* the request deadline, abandonment, unload and shutdown do to it at any  *)
(* of these points.                                                        *)
(*                                                                         *)
(* Shutdown is composed in through DrainContract, which WorkAdmission      *)
(* implements: the permit of an embed is an operation of the contract.     *)
(* One model is loaded and unloaded; every load gives it a fresh slot, a   *)
(* Key.  Which requests share a batch, and in which order, is              *)
(* BatchPlanner's subject: here a batch is a set, the oldest request and   *)
(* any of the others.                                                      *)
(***************************************************************************)
EXTENDS Integers, Sequences, FiniteSets, Functions

CONSTANTS
    Req,         \* embed calls
    Key,         \* model slots
    Cancelling,  \* requests whose caller may cancel or drop the future
    Expiring,    \* requests whose deadline may pass
    Depths,      \* the values of policy.queue_depth
    Workers,     \* threads of the blocking pool
    None

ASSUME PipelineAssumption ==
    /\ IsFiniteSet(Req) /\ IsFiniteSet(Key)
    /\ Depths \subseteq Nat \ {0} /\ Workers \in Nat \ {0}
    /\ Cancelling \subseteq Req /\ Expiring \subseteq Req
    /\ None \notin Key

VARIABLES
    open, live, expired, verdict, stopped,  \* DrainContract
    registered,  \* the slot in Inner.models
    used,        \* slots that were ever registered
    accepting,   \* slots whose `accepting` is true
    fenced,      \* slots whose cancellation token is cancelled
    depth,       \* policy.queue_depth of this runtime
    queued,      \* ModelSlot.queued
    forceStop,   \* the value in the force_stop watch
    stage,       \* progress of finish_shutdown
    sched,       \* what the scheduler of each slot is doing
    stopping,    \* slots whose scheduler was told to stop
    chan, pend,  \* the scheduler's channel and its deque
    jobs,        \* jobs of the blocking pool
    order,       \* requests by sequence number
    pc, phase,   \* the embed future, and which answer it awaits
    slot,        \* the slot found by the first look at the registry
    lease,       \* the slot its RuntimeLease counts for
    permit,      \* requests that hold a QueuePermit
    reply,       \* the oneshot the future awaits
    outcome,     \* what embed returned
    cancelled,   \* requests cancelled by their caller
    abandoned,   \* requests whose future was dropped
    late         \* requests past their deadline

D == INSTANCE DrainContract WITH Op <- Req

contractVars == <<open, live, expired, verdict, stopped>>
slotVars == <<registered, used, accepting, fenced>>
shutdownVars == <<forceStop, stage>>
schedVars == <<sched, stopping, chan, pend>>
controlVars == <<cancelled, abandoned, late>>
futureVars == <<pc, phase, slot, outcome>>
ownedVars == <<lease, permit, queued, reply>>
vars == <<contractVars, slotVars, shutdownVars, schedVars, controlVars, futureVars,
          ownedVars, jobs, order, depth>>

Init ==
    /\ D!Init
    /\ registered = None /\ used = {} /\ accepting = {} /\ fenced = {}
    /\ depth \in Depths
    /\ queued = [k \in Key |-> 0]
    /\ forceStop = FALSE /\ stage = "idle"
    /\ sched = [k \in Key |-> "none"] /\ stopping = {}
    /\ chan = [k \in Key |-> <<>>] /\ pend = [k \in Key |-> {}]
    /\ jobs = {} /\ order = <<>>
    /\ pc = [r \in Req |-> "idle"] /\ phase = [r \in Req |-> "preflight"]
    /\ slot = [r \in Req |-> None] /\ lease = [r \in Req |-> None]
    /\ permit = {} /\ reply = [r \in Req |-> "none"]
    /\ outcome = [r \in Req |-> "none"]
    /\ cancelled = {} /\ abandoned = {} /\ late = {}

-----------------------------------------------------------------------------
(* ExecutionControl of a request. *)

\* CancellationToken::any of the caller's, the abandonment and the slot's token.
Cancelled(r) == r \in cancelled \cup abandoned \/ slot[r] \in fenced

\* Cancellation wins over the deadline.
Inactive(r) == Cancelled(r) \/ r \in late
ControlError(r) == IF Cancelled(r) THEN "cancelled" ELSE "deadline"
Effective(r, code) == IF Inactive(r) THEN ControlError(r) ELSE code

\* await_controlled is running and owns a receiver of force_stop.
Awaits(r) == pc[r] \in {"force", "active", "select", "reply"}

\* Mutant: the destructor of QueuePermit does not decrement.
ReleaseAllLeaks(rs) ==
    /\ lease' = [r \in Req |-> IF r \in rs THEN None ELSE lease[r]]
    /\ permit' = permit \ rs
    /\ queued' = [k \in Key |-> queued[k]]

\* Dropping the Requests rs gives back leases and queue permits.
ReleaseAll(rs) ==
    /\ lease' = [r \in Req |-> IF r \in rs THEN None ELSE lease[r]]
    /\ permit' = permit \ rs
    /\ queued' = [k \in Key |-> queued[k] - Cardinality({r \in rs \cap permit : slot[r] = k})]

\* The Requests rs are answered and dropped: a reply nobody awaits is lost.
AnswerAll(rs, code) ==
    /\ reply' = [r \in Req |-> IF r \in rs /\ Awaits(r) THEN code[r] ELSE reply[r]]
    /\ ReleaseAll(rs)

\* The future returns: its admission permit, its receivers and a prepared
\* request in its hands or in the oneshot go with it.
Owned(r) == IF pc[r] \in {"leased", "prepared"} \/ reply[r] = "prepared" THEN {r} ELSE {}

Return(r, code) ==
    /\ D!End(r)
    /\ pc' = [pc EXCEPT ![r] = "done"]
    /\ outcome' = [outcome EXCEPT ![r] = code]
    /\ reply' = [reply EXCEPT ![r] = "none"]
    /\ ReleaseAll(Owned(r))
    /\ UNCHANGED <<phase, slot>>

Goto(r, where) ==
    /\ pc' = [pc EXCEPT ![r] = where]
    /\ UNCHANGED <<contractVars, phase, slot, outcome>>

\* Mutant: the limit is compared after the fact.
QueueFullLate(k) ==
    queued[k] > depth

\* QueuePermit::acquire has no permit left to give.
QueueFull(k) == queued[k] >= depth

\* sync_channel(queue_depth) has room for one more job of this model.  Those of other
\* models share it and come and go, so it may also be full before that.
PoolHasRoom == Cardinality({j \in jobs : ~j.running}) < depth

-----------------------------------------------------------------------------
(* embed_inner. *)

Admit(r) ==
    /\ pc[r] = "idle"
    /\ \/ /\ D!Start(r)
          /\ pc' = [pc EXCEPT ![r] = "admitted"]
          /\ UNCHANGED outcome
       \/ /\ ~open
          /\ pc' = [pc EXCEPT ![r] = "done"]
          /\ outcome' = [outcome EXCEPT ![r] = "unavailable"]
          /\ UNCHANGED contractVars
    /\ UNCHANGED <<slotVars, shutdownVars, schedVars, controlVars, ownedVars, phase, slot,
                   jobs, order>>

\* Validation, the first look at the registry, and the look at `accepting`.
PickSlot(r) ==
    /\ pc[r] = "admitted"
    /\ \/ Return(r, "invalid")
       \/ registered \notin accepting /\ Return(r, "unavailable")
       \/ /\ registered \in accepting
          /\ slot' = [slot EXCEPT ![r] = registered]
          /\ pc' = [pc EXCEPT ![r] = "picked"]
          /\ UNCHANGED <<contractVars, phase, outcome, ownedVars>>
    /\ UNCHANGED <<slotVars, shutdownVars, schedVars, controlVars, jobs, order>>

\* lease(model_id) looks the model up once more.
TakeLease(r) ==
    /\ pc[r] = "picked"
    /\ \/ registered \notin accepting /\ Return(r, "unavailable")
       \/ /\ registered \in accepting
          /\ lease' = [lease EXCEPT ![r] = registered]
          /\ Goto(r, "leased")
          /\ UNCHANGED <<permit, queued, reply>>
    /\ UNCHANGED <<slotVars, shutdownVars, schedVars, controlVars, jobs, order>>

\* QueuePermit::acquire, the sequence number and the preflight job.
SubmitPreflight(r) ==
    /\ pc[r] = "leased"
    /\ \/ /\ Inactive(r)
          /\ Return(r, ControlError(r))
          /\ UNCHANGED <<jobs, order>>
       \/ /\ ~Inactive(r)  \* no permit left, or a full pool
          /\ Return(r, "queue_full")
          /\ UNCHANGED <<jobs, order>>
       \/ /\ ~Inactive(r)
          /\ ~QueueFull(slot[r])
          /\ PoolHasRoom
          /\ queued' = [queued EXCEPT ![slot[r]] = @ + 1]
          /\ permit' = permit \cup {r}
          /\ order' = Append(order, r)
          /\ jobs' = jobs \cup {[kind |-> "preflight", members |-> {r}, running |-> FALSE]}
          /\ Goto(r, "force")
          /\ UNCHANGED <<lease, reply>>
    /\ UNCHANGED <<slotVars, shutdownVars, schedVars, controlVars>>

\* The prepared request goes to the scheduler of the slot found first.
Enqueue(r) ==
    /\ pc[r] = "prepared"
    /\ LET k == slot[r]
       IN  \/ /\ sched[k] = "closed"
              /\ Return(r, "unavailable")
              /\ UNCHANGED chan
           \/ /\ sched[k] # "closed"
              /\ Len(chan[k]) >= depth
              /\ Return(r, "queue_full")
              /\ UNCHANGED chan
           \/ /\ sched[k] # "closed"
              /\ Len(chan[k]) < depth
              /\ chan' = [chan EXCEPT ![k] = Append(@, r)]
              /\ phase' = [phase EXCEPT ![r] = "response"]
              /\ pc' = [pc EXCEPT ![r] = "force"]
              /\ UNCHANGED <<contractVars, slot, outcome, ownedVars>>
    /\ UNCHANGED <<slotVars, shutdownVars, controlVars, sched, stopping, pend, jobs, order>>

-----------------------------------------------------------------------------
(* await_controlled: two looks before the biased select, one after it.       *)

CheckForce(r) ==
    /\ pc[r] = "force"
    /\ IF forceStop THEN Return(r, "unavailable")
                    ELSE Goto(r, "active") /\ UNCHANGED ownedVars
    /\ UNCHANGED <<slotVars, shutdownVars, schedVars, controlVars, jobs, order>>

CheckActive(r) ==
    /\ pc[r] = "active"
    /\ IF Inactive(r) THEN Return(r, ControlError(r))
                      ELSE Goto(r, "select") /\ UNCHANGED ownedVars
    /\ UNCHANGED <<slotVars, shutdownVars, schedVars, controlVars, jobs, order>>

Select(r) ==
    /\ pc[r] = "select"
    /\ \/ forceStop /\ Return(r, "unavailable")
       \/ ~forceStop /\ Inactive(r) /\ Return(r, ControlError(r))
       \/ /\ ~forceStop /\ ~Inactive(r)
          /\ reply[r] # "none"
          /\ Goto(r, "reply")
          /\ UNCHANGED ownedVars
    /\ UNCHANGED <<slotVars, shutdownVars, schedVars, controlVars, jobs, order>>

\* The reply branch was chosen: control is looked at again before it is used.
TakeReply(r) ==
    /\ pc[r] = "reply"
    /\ \/ Inactive(r) /\ Return(r, ControlError(r))
       \/ /\ ~Inactive(r)
          /\ reply[r] = "prepared"
          /\ Goto(r, "prepared")
          /\ reply' = [reply EXCEPT ![r] = "none"]
          /\ UNCHANGED <<lease, permit, queued>>
       \/ /\ ~Inactive(r)
          /\ reply[r] # "prepared"
          /\ Return(r, IF reply[r] = "closed" THEN "unavailable" ELSE reply[r])
    /\ UNCHANGED <<slotVars, shutdownVars, schedVars, controlVars, jobs, order>>

\* The only await points of embed: the future is dropped, CancelOnDrop fires.
Abandon(r) ==
    /\ r \in Cancelling
    /\ pc[r] = "select"
    /\ Return(r, "dropped")
    /\ abandoned' = abandoned \cup {r}
    /\ UNCHANGED <<slotVars, shutdownVars, schedVars, cancelled, late, jobs, order>>

\* The Requests a scheduler has, and the places where one can be.
Held(k) == Range(chan[k]) \cup pend[k]
InPool(r) == \E j \in jobs : r \in j.members
InScheduler(r) == \E k \in Key : r \in Held(k)

\* The caller cancels, or the deadline passes: as long as it makes a difference.
Deactivate(r) ==
    /\ pc[r] \notin {"idle", "done"} \/ InPool(r) \/ InScheduler(r)
    /\ \/ r \in Cancelling \ cancelled /\ cancelled' = cancelled \cup {r} /\ UNCHANGED late
       \/ r \in Expiring \ late /\ late' = late \cup {r} /\ UNCHANGED cancelled
    /\ UNCHANGED <<contractVars, slotVars, shutdownVars, schedVars, futureVars, ownedVars,
                   abandoned, jobs, order>>

-----------------------------------------------------------------------------
(* Jobs on the threads of the blocking pool. *)

FreeWorker == Cardinality({j \in jobs : j.running}) < Workers

Finished(j) == jobs' = jobs \ {j}
Started(j, members) == jobs' = (jobs \ {j}) \cup {[j EXCEPT !.members = members, !.running = TRUE]}

PreflightStarts(j) ==
    /\ j.kind = "preflight" /\ ~j.running /\ FreeWorker
    /\ \E r \in j.members :
           IF Inactive(r)
             THEN AnswerAll({r}, [q \in {r} |-> ControlError(q)]) /\ Finished(j)
             ELSE Started(j, j.members) /\ UNCHANGED ownedVars
    /\ UNCHANGED <<contractVars, slotVars, shutdownVars, schedVars, controlVars, futureVars,
                   order>>

\* The engine fails or panics, the cost is out of bounds, or the request is
\* prepared: then it travels in the reply, if somebody still awaits it.
PreflightEnds(j) ==
    /\ j.kind = "preflight" /\ j.running
    /\ \E r \in j.members :
           \/ AnswerAll({r}, [q \in {r} |-> "failed"])
           \/ AnswerAll({r}, [q \in {r} |-> "invalid"])
           \/ Inactive(r) /\ AnswerAll({r}, [q \in {r} |-> ControlError(q)])
           \/ ~Inactive(r) /\ ~Awaits(r) /\ ReleaseAll({r}) /\ UNCHANGED reply
           \/ /\ ~Inactive(r) /\ Awaits(r)
              /\ reply' = [reply EXCEPT ![r] = "prepared"]
              /\ UNCHANGED <<lease, permit, queued>>
    /\ Finished(j)
    /\ UNCHANGED <<contractVars, slotVars, shutdownVars, schedVars, controlVars, futureVars,
                   order>>

\* execute_batch up to the call of the engine: queue permits end here, and a
\* member that is fenced or inactive is answered instead of executed.
BatchStarts(j) ==
    /\ j.kind = "batch" /\ ~j.running /\ FreeWorker
    /\ LET all == j.members
           runs == {r \in all : slot[r] \in accepting /\ ~Inactive(r)}
           code(r) == IF slot[r] \notin accepting THEN "unavailable" ELSE ControlError(r)
       IN  /\ reply' = [r \in Req |-> IF r \in all \ runs /\ Awaits(r) THEN code(r) ELSE reply[r]]
           /\ lease' = [r \in Req |-> IF r \in all \ runs THEN None ELSE lease[r]]
           /\ permit' = permit \ all
           /\ queued' = [k \in Key |->
                           queued[k] - Cardinality({r \in all \cap permit : slot[r] = k})]
           /\ IF runs = {} THEN Finished(j)
                           ELSE Started(j, runs)
    /\ UNCHANGED <<contractVars, slotVars, shutdownVars, schedVars, controlVars, futureVars,
                   order>>

\* Mutant: one inactive member makes the composite inactive.
CompositeInactiveAny(rs) ==
    \E r \in rs : Inactive(r)

\* The composite control is inactive only when every member is.
CompositeInactive(rs) == \A r \in rs : Inactive(r)

\* The engine returns vectors, fails, or gives up on the composite control.
BatchEnds(j) ==
    /\ j.kind = "batch" /\ j.running
    /\ LET rs == j.members
           published == [r \in rs |-> IF slot[r] \notin accepting THEN "unavailable"
                                      ELSE Effective(r, "ok")]
       IN  \/ AnswerAll(rs, published)
           \/ AnswerAll(rs, [r \in rs |-> Effective(r, "failed")])
           \/ CompositeInactive(rs) /\ AnswerAll(rs, [r \in rs |-> Effective(r, "cancelled")])
    /\ Finished(j)
    /\ UNCHANGED <<contractVars, slotVars, shutdownVars, schedVars, controlVars, futureVars,
                   order>>

-----------------------------------------------------------------------------
(* run_scheduler: "idle" awaits a first request, "window" gathers more,      *)
(* "drain" dispatches what was gathered.                                     *)

\* The deque is sorted by sequence number before it is drained.
BySequence(r, q) == \E i, n \in DOMAIN order : i < n /\ order[i] = r /\ order[n] = q

\* Stop is looked at first in both selects.
Receive(k) ==
    /\ sched[k] \in {"idle", "window"}
    /\ k \notin stopping
    /\ chan[k] # <<>>
    /\ chan' = [chan EXCEPT ![k] = Tail(@)]
    /\ LET gathered == pend[k] \cup {Head(chan[k])}
           full == sched[k] = "window" /\ Cardinality(gathered) >= depth
       IN  /\ pend' = [pend EXCEPT ![k] = gathered]
           /\ sched' = [sched EXCEPT ![k] = IF full THEN "drain" ELSE "window"]
    /\ UNCHANGED <<contractVars, slotVars, shutdownVars, stopping, controlVars, futureVars,
                   ownedVars, jobs, order>>

WindowEnds(k) ==
    /\ sched[k] = "window"
    /\ k \notin stopping
    /\ sched' = [sched EXCEPT ![k] = "drain"]
    /\ UNCHANGED <<contractVars, slotVars, shutdownVars, stopping, chan, pend, controlVars,
                   futureVars, ownedVars, jobs, order>>

\* The oldest request is answered if it is inactive; otherwise it leads a batch of
\* some of the others, and a full pool refuses the batch.
Dispatch(k) ==
    /\ sched[k] = "drain"
    /\ \E first \in pend[k] :
           /\ \A r \in pend[k] \ {first} : BySequence(first, r)
           /\ \/ /\ Inactive(first)
                 /\ AnswerAll({first}, [r \in {first} |-> ControlError(r)])
                 /\ pend' = [pend EXCEPT ![k] = @ \ {first}]
                 /\ UNCHANGED jobs
              \/ /\ ~Inactive(first)
                 /\ \E others \in SUBSET (pend[k] \ {first}) :
                        LET batch == {first} \cup others
                        IN  /\ pend' = [pend EXCEPT ![k] = @ \ batch]
                            /\ \/ /\ AnswerAll(batch, [r \in batch |-> Effective(r, "queue_full")])
                                  /\ UNCHANGED jobs
                               \/ /\ PoolHasRoom
                                  /\ jobs' = jobs \cup {[kind |-> "batch", members |-> batch,
                                                         running |-> FALSE]}
                                  /\ UNCHANGED ownedVars
    /\ UNCHANGED <<contractVars, slotVars, shutdownVars, sched, stopping, chan, controlVars,
                   futureVars, order>>

\* The scheduler ends by itself: the channel is closed, what is left is failed.
Close(k) ==
    /\ sched' = [sched EXCEPT ![k] = "closed"]
    /\ AnswerAll(Held(k), [r \in Held(k) |-> Effective(r, "unavailable")])
    /\ pend' = [pend EXCEPT ![k] = {}]
    /\ chan' = [chan EXCEPT ![k] = <<>>]

\* The deque is empty: go round, or end when the slot serves no more.
Drained(k) ==
    /\ sched[k] = "drain"
    /\ pend[k] = {}
    /\ IF k \notin accepting /\ chan[k] = <<>>
         THEN Close(k)
         ELSE sched' = [sched EXCEPT ![k] = "idle"] /\ UNCHANGED <<chan, pend, ownedVars>>
    /\ UNCHANGED <<contractVars, slotVars, shutdownVars, stopping, controlVars, futureVars,
                   jobs, order>>

StopSeen(k) ==
    /\ sched[k] \in {"idle", "window"}
    /\ k \in stopping
    /\ Close(k)
    /\ UNCHANGED <<contractVars, slotVars, shutdownVars, stopping, controlVars, futureVars,
                   jobs, order>>

\* Aborted by finish_shutdown at one of its awaits: its requests are dropped
\* without an answer, which closes their oneshots.
Aborted(k) ==
    /\ stage = "join"
    /\ sched[k] \notin {"none", "closed"}
    /\ sched' = [sched EXCEPT ![k] = "closed"]
    /\ AnswerAll(Held(k), [r \in Held(k) |-> "closed"])
    /\ pend' = [pend EXCEPT ![k] = {}]
    /\ chan' = [chan EXCEPT ![k] = <<>>]
    /\ UNCHANGED <<contractVars, slotVars, shutdownVars, stopping, controlVars, futureVars,
                   jobs, order>>

-----------------------------------------------------------------------------
(* The registry and shutdown, as far as requests see them. *)

Load(k) ==
    /\ open
    /\ registered = None
    /\ k \notin used
    /\ registered' = k
    /\ used' = used \cup {k}
    /\ accepting' = accepting \cup {k}
    /\ sched' = [sched EXCEPT ![k] = "idle"]
    /\ UNCHANGED <<contractVars, fenced, shutdownVars, stopping, chan, pend, controlVars,
                   futureVars, ownedVars, jobs, order>>

Unload ==
    /\ open
    /\ registered # None
    /\ \A r \in Req : lease[r] # registered
    /\ registered' = None
    /\ accepting' = accepting \ {registered}
    /\ stopping' = stopping \cup {registered}
    /\ UNCHANGED <<contractVars, used, fenced, shutdownVars, sched, chan, pend, controlVars,
                   futureVars, ownedVars, jobs, order>>

\* Mutant: the flight reports drained without looking at the count.
ShutdownDoesNotWait ==
    /\ \/ D!Close \/ D!Decide
       \/ ~open /\ verdict = "none" /\ verdict' = "drained" /\ UNCHANGED <<open, live, expired, stopped>>
       \/ ~expired /\ verdict = "none" /\ D!Expire
    /\ stage' = CASE verdict' = "none" -> stage
                  [] verdict' = "forced" -> "force"
                  [] verdict' = "drained" -> "slots"
    /\ UNCHANGED <<slotVars, forceStop, schedVars, controlVars, futureVars, ownedVars, jobs,
                   order>>

\* The flight waits for the permits or for its deadline.
ShutdownWaits ==
    /\ \/ D!Close \/ D!Decide
       \/ ~expired /\ verdict = "none" /\ D!Expire
    /\ stage' = CASE verdict' = "none" -> stage
                  [] verdict' = "forced" -> "force"
                  [] verdict' = "drained" -> "slots"
    /\ UNCHANGED <<slotVars, forceStop, schedVars, controlVars, futureVars, ownedVars, jobs,
                   order>>

\* watch::Sender::send stores nothing when nobody is subscribed.
ForceStopSent == forceStop \/ \E r \in Req : Awaits(r)

ShutdownForces ==
    /\ stage = "force"
    /\ forceStop' = ForceStopSent
    /\ stage' = "slots"
    /\ UNCHANGED <<contractVars, slotVars, schedVars, controlVars, futureVars, ownedVars,
                   jobs, order>>

ShutdownFences ==
    /\ stage = "slots"
    /\ accepting' = accepting \ {registered}
    /\ fenced' = fenced \cup ({registered} \ {None})
    /\ stopping' = used
    /\ stage' = "join"
    /\ UNCHANGED <<contractVars, registered, used, forceStop, sched, chan, pend, controlVars,
                   futureVars, ownedVars, jobs, order>>

ShutdownEnds ==
    /\ stage = "join"
    /\ \A k \in used : sched[k] = "closed"
    /\ registered' = None
    /\ stage' = "idle"
    /\ D!Stop
    /\ UNCHANGED <<used, accepting, fenced, forceStop, schedVars, controlVars, futureVars,
                   ownedVars, jobs, order>>

-----------------------------------------------------------------------------
\* The steps the embed future takes when it is polled.
Poll(r) ==
    \/ PickSlot(r) \/ TakeLease(r) \/ SubmitPreflight(r) \/ Enqueue(r)
    \/ CheckForce(r) \/ CheckActive(r) \/ Select(r) \/ TakeReply(r)

Worker(j) == PreflightStarts(j) \/ PreflightEnds(j) \/ BatchStarts(j) \/ BatchEnds(j)

Scheduler(k) ==
    \/ Receive(k) \/ WindowEnds(k) \/ Dispatch(k) \/ Drained(k) \/ StopSeen(k) \/ Aborted(k)

Shutdown == ShutdownWaits \/ ShutdownForces \/ ShutdownFences \/ ShutdownEnds

\* The policy is given to the runtime once, when it is built.
Next ==
    /\ \/ \E r \in Req : Admit(r) \/ Poll(r) \/ Abandon(r) \/ Deactivate(r)
       \/ \E j \in jobs : Worker(j)
       \/ \E k \in Key : Scheduler(k) \/ Load(k)
       \/ Unload \/ Shutdown
    /\ UNCHANGED depth

Spec == Init /\ [][Next]_vars

-----------------------------------------------------------------------------
(* Properties. *)

Codes == {"ok", "failed", "invalid", "cancelled", "deadline", "unavailable", "queue_full"}

\* Every field holds a value its Rust type can hold; no counter goes below zero.
TypeOK ==
    /\ registered \in Key \cup {None}
    /\ used \subseteq Key /\ accepting \subseteq used /\ fenced \subseteq used
    /\ queued \in [Key -> Nat]
    /\ forceStop \in BOOLEAN
    /\ stage \in {"idle", "force", "slots", "join"}
    /\ sched \in [Key -> {"none", "idle", "window", "drain", "closed"}]
    /\ stopping \subseteq used
    /\ \A k \in Key : chan[k] \in Seq(Req) /\ pend[k] \subseteq Req
    /\ pc \in [Req -> {"idle", "admitted", "picked", "leased", "prepared", "force", "active",
                       "select", "reply", "done"}]
    /\ slot \in [Req -> Key \cup {None}] /\ lease \in [Req -> Key \cup {None}]
    /\ reply \in [Req -> Codes \cup {"none", "prepared", "closed"}]
    /\ outcome \in [Req -> Codes \cup {"none", "dropped"}]

\* Where a Request waits before its native batch starts.
Waiting(r) ==
    \/ pc[r] = "prepared" \/ reply[r] = "prepared" \/ InScheduler(r)
    \/ \E j \in jobs : r \in j.members /\ (j.kind = "preflight" \/ ~j.running)

\* The counter of QueuePermits is the number of requests between admission to
\* the queue and the start of their native batch, wherever they wait; a Request is in
\* one place only, and its lease lives exactly as long as it: no error path, refusal
\* or abandonment leaks or loses a permit or a lease.
RequestsAccounted ==
    /\ TypeOK
    /\ \A k \in Key : queued[k] = Cardinality({r \in Req : slot[r] = k /\ Waiting(r)})
    /\ \A r \in Req :
           LET places == Cardinality({j \in jobs : r \in j.members})
                         + Cardinality({k \in Key : r \in Range(chan[k])})
                         + Cardinality({k \in Key : r \in pend[k]})
                         + Cardinality(Owned(r))
           IN  /\ places <= 1
               /\ lease[r] # None <=> places = 1

\* embed blames the caller or the clock only for what happened to this very
\* request or its model: no member of a batch is failed for another's sake.
ErrorsAreOwn ==
    \A r \in Req : /\ outcome[r] = "cancelled" => Cancelled(r)
                   /\ outcome[r] = "deadline" => r \in late

\* Permits and channel count to one limit, which no slot exceeds, and the permit comes
\* first: a request that was admitted to the queue, and has paid for its preflight,
\* finds room in the channel of its scheduler, whatever waits there for a future that
\* is gone; "queue full" is said at the door or by the shared pool only.
AdmittedFindsRoom ==
    /\ \A k \in Key : queued[k] <= depth
    /\ \A r \in Req : pc[r] = "prepared" => Len(chan[slot[r]]) < depth

\* A shutdown that is not forced fails no accepted request: it neither cancels
\* one nor aborts a scheduler that still holds one.
GracefulKeepsWork ==
    verdict # "forced" =>
        \A r \in Req : /\ reply[r] # "closed"
                       /\ outcome[r] = "cancelled" => r \in cancelled
=============================================================================
