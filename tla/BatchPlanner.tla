---------------------------- MODULE BatchPlanner -----------------------------
(***************************************************************************)
(* How a scheduler turns the requests it has gathered into native batches, *)
(* and how the vectors of a batch find their way back: the body of         *)
(* run_scheduler after the gathering window, the preflight bounds,         *)
(* execute_batch, valid_engine_output and publish_results.                 *)
(*                                                                         *)
(* A request is its sequence number.  Its inputs are <<request, index>>,   *)
(* and the vector a correct engine computes for an input is the input      *)
(* itself, so that a vector in the wrong hands is visible.                 *)
(***************************************************************************)
EXTENDS Integers, Sequences, FiniteSetsExt

CONSTANTS
    N,              \* number of requests gathered in one window
    Options,        \* EmbedOptions, of which a CompatibilityKey is made
    MaxItems,       \* policy.max_items: inputs of one request
    MaxLength,      \* longest tokenized input the engine reports
    MaxBatchItems,  \* policy.max_batch_items
    MaxBatchTokens, \* policy.max_batch_tokens
    MaxUsize        \* the largest value of the integers the sums are made in

ASSUME PlannerAssumption ==
    /\ {N, MaxItems, MaxLength, MaxBatchItems, MaxBatchTokens, MaxUsize} \subseteq Nat \ {0}
    /\ MaxItems <= MaxBatchItems
    /\ MaxBatchItems <= MaxUsize /\ MaxBatchTokens <= MaxUsize

Request == 1 .. N

\* What preflight lets through: EmbeddingBatchCost::new and the bounds that
\* execute_preflight puts on it.
Shape ==
    {s \in [options : Options, items : 1 .. MaxItems, length : 1 .. MaxLength] :
        s.items * s.length <= MaxBatchTokens}

VARIABLES
    gathered, \* the window is over and the deque sorted
    shape,    \* options and cost of each request
    pending,  \* the scheduler's deque
    jobs,     \* batches the pool holds: the members, and whether it runs
    inactive, \* requests whose ExecutionControl is cancelled or expired
    answer    \* what was sent on the response channel of each request

vars == <<gathered, shape, pending, jobs, inactive, answer>>

Says(code) == [code |-> code, vectors |-> <<>>]

Init ==
    /\ gathered = FALSE
    /\ shape \in [Request -> Shape]
    /\ pending \in Bijection(Request, Request)
    /\ jobs = {}
    /\ inactive = {}
    /\ answer = [r \in Request |-> Says("none")]

-----------------------------------------------------------------------------
\* checked_add and checked_mul give no value when the result does not fit.
Fits(value, limit) == value <= MaxUsize /\ value <= limit

\* Mutant: the padding of the candidate itself is not counted.
ConsiderUnpadded(scan, candidate) ==
    LET items == scan.items + shape[candidate].items
        length == Max({scan.length, shape[candidate].length})
        compatible == /\ shape[candidate].options = scan.options
                      /\ Fits(items, MaxBatchItems)
                      /\ Fits(items * scan.length, MaxBatchTokens)
    IN  IF compatible
          THEN [scan EXCEPT !.batch = Append(@, candidate), !.items = items,
                            !.length = length]
          ELSE [scan EXCEPT !.rest = Append(@, candidate)]

\* One turn of the scan: `batch` takes the candidate or leaves it in `rest`.
Consider(scan, candidate) ==
    LET items == scan.items + shape[candidate].items
        length == Max({scan.length, shape[candidate].length})
        compatible == /\ shape[candidate].options = scan.options
                      /\ Fits(items, MaxBatchItems)
                      /\ Fits(items * length, MaxBatchTokens)
    IN  IF compatible
          THEN [scan EXCEPT !.batch = Append(@, candidate), !.items = items,
                            !.length = length]
          ELSE [scan EXCEPT !.rest = Append(@, candidate)]

\* Popping every candidate in front and pushing the refused ones behind leaves
\* the refused ones in their order.  scan[k] is where k candidates were considered.
Scan(queue) ==
    LET first == [batch |-> <<queue[1]>>, rest |-> <<>>, options |-> shape[queue[1]].options,
                  items |-> shape[queue[1]].items, length |-> shape[queue[1]].length]
        scan[k \in 0 .. Len(queue) - 1] ==
            IF k = 0 THEN first ELSE Consider(scan[k - 1], queue[k + 1])
    IN  scan
FormBatch(queue) == Scan(queue)[Len(queue) - 1]

\* fail_requests: the request's own control error takes precedence.
Fail(rs, code) ==
    [r \in Request |-> IF r \notin rs THEN answer[r]
                       ELSE Says(IF r \in inactive THEN "control" ELSE code)]

Ascending(queue) == \A i, k \in DOMAIN queue : i < k => queue[i] < queue[k]

\* The end of the gathering window: sort by sequence.
Gather ==
    /\ ~gathered
    /\ gathered' = TRUE
    /\ \E order \in Bijection(DOMAIN pending, DOMAIN pending) :
           pending' = [i \in DOMAIN pending |-> pending[order[i]]]
    /\ Ascending(pending')
    /\ UNCHANGED <<shape, jobs, inactive, answer>>

\* A token is cancelled or a deadline passes.
Deactivate(r) ==
    /\ r \notin inactive
    /\ answer[r].code = "none"
    /\ inactive' = inactive \cup {r}
    /\ UNCHANGED <<gathered, shape, pending, jobs, answer>>

\* A first request that is no longer active is answered alone; otherwise a
\* batch is formed around it, which the bounded pool takes or refuses.
Dispatch ==
    /\ gathered
    /\ pending # <<>>
    /\ IF Head(pending) \in inactive
         THEN /\ answer' = Fail({Head(pending)}, "control")
              /\ pending' = Tail(pending)
              /\ UNCHANGED jobs
         ELSE LET formed == FormBatch(pending)
              IN  /\ pending' = formed.rest
                  /\ \/ /\ jobs' = jobs \cup {[members |-> formed.batch, running |-> FALSE]}
                        /\ UNCHANGED answer
                     \/ /\ answer' = Fail(Range(formed.batch), "queue_full")
                        /\ UNCHANGED jobs
    /\ UNCHANGED <<gathered, shape, inactive>>

\* The members that are still active, in their order.
Active(members) ==
    LET active[k \in 0 .. Len(members)] ==
            IF k = 0 THEN <<>>
            ELSE IF members[k] \in inactive THEN active[k - 1]
            ELSE Append(active[k - 1], members[k])
    IN  active[Len(members)]

\* execute_batch drops the inactive members before the engine sees the batch.
Execute(j) ==
    /\ ~j.running
    /\ LET active == Active(j.members)
       IN  /\ answer' = Fail(Range(j.members) \cap inactive, "control")
           /\ jobs' = (jobs \ {j}) \cup
                        IF active = <<>> THEN {}
                        ELSE {[members |-> active, running |-> TRUE]}
    /\ UNCHANGED <<gathered, shape, pending, inactive>>

Inputs(r) == [i \in 1 .. shape[r].items |-> <<r, i>>]

\* The inputs of the last k members, one member after the other.
LastInputs(members) ==
    LET last[k \in 0 .. Len(members)] ==
            IF k = 0 THEN <<>> ELSE Inputs(members[Len(members) - k + 1]) \o last[k - 1]
    IN  last
BatchInputs(members) == LastInputs(members)[Len(members)]

\* What an engine returns: the rows in order, one lost, or one too many.
EngineOutput(members) ==
    LET rows == BatchInputs(members)
    IN  {rows, Tail(rows), Append(rows, Head(rows))}

\* valid_engine_output, as far as the number of rows goes.
ValidOutput(members, vectors) == Len(vectors) = Len(BatchInputs(members))

\* Mutant: the rows of a member that became inactive stay in the iterator.
DeliverInPlace(out, r) ==
    LET size == shape[r].items
    IN  [vectors |-> IF r \in inactive THEN out.vectors
                     ELSE SubSeq(out.vectors, size + 1, Len(out.vectors)),
         answer |-> [out.answer EXCEPT ![r] =
                       IF r \in inactive THEN Says("control")
                       ELSE [code |-> "ok", vectors |-> SubSeq(out.vectors, 1, size)]]]

\* One turn of publish_results: the rows of the request leave the iterator
\* whether or not it is still active.
Deliver(out, r) ==
    LET size == shape[r].items
    IN  [vectors |-> SubSeq(out.vectors, size + 1, Len(out.vectors)),
         answer |-> [out.answer EXCEPT ![r] =
                       IF r \in inactive THEN Says("control")
                       ELSE [code |-> "ok", vectors |-> SubSeq(out.vectors, 1, size)]]]

\* publish_results after k of its turns.
Delivered(members, vectors) ==
    LET out[k \in 0 .. Len(members)] ==
            IF k = 0 THEN [vectors |-> vectors, answer |-> answer]
            ELSE Deliver(out[k - 1], members[k])
    IN  out

Publish(j) ==
    /\ j.running
    /\ jobs' = jobs \ {j}
    /\ \E vectors \in EngineOutput(j.members) :
         answer' = IF ValidOutput(j.members, vectors)
                     THEN Delivered(j.members, vectors)[Len(j.members)].answer
                     ELSE Fail(Range(j.members), "inference_failed")
    /\ UNCHANGED <<gathered, shape, pending, inactive>>

Next ==
    \/ Gather \/ Dispatch
    \/ \E j \in jobs : Execute(j) \/ Publish(j)
    \/ \E r \in Request : Deactivate(r)

Spec == Init /\ [][Next]_vars

-----------------------------------------------------------------------------
(* Properties. *)

\* Every field holds a value its Rust type can hold.
TypeOK ==
    /\ gathered \in BOOLEAN
    /\ shape \in [Request -> Shape]
    /\ Range(pending) \subseteq Request
    /\ \A j \in jobs : Range(j.members) \subseteq Request /\ j.running \in BOOLEAN
    /\ inactive \subseteq Request
    /\ \A r \in Request : answer[r].code \in
         {"none", "ok", "control", "queue_full", "inference_failed"}

\* The number of inputs of some requests, and the longest of them.
Items(rs) == Cardinality(UNION {Range(Inputs(r)) : r \in rs})
Length(rs) == Max({shape[r].length : r \in rs})

\* Every request is in exactly one place, waiting, in one batch, or answered, and
\* an answer has the vectors of its own inputs in their order: no turn of the scan,
\* refusal of the pool, lost engine row or member that fell out of the batch in
\* front of it duplicates, forgets or shifts one.
OwnAnswerOnce ==
    TypeOK /\ \A r \in Request :
        LET waiting == {i \in DOMAIN pending : pending[i] = r}
            batched == {j \in jobs : r \in Range(j.members)}
            answered == {a \in {answer[r].code} : a # "none"}
        IN  /\ Cardinality(waiting) + Cardinality(batched) + Cardinality(answered) = 1
            /\ answer[r].code = "ok" => answer[r].vectors = Inputs(r)

\* What a batch must look like, stated without the scan: the oldest request
\* leads, order of arrival is kept, and a compatible request is left behind
\* only when it does not fit together with the members older than it.
Joins(queue, taken, r) ==
    LET rs == {s \in taken : s < r} \cup {r}
    IN  /\ shape[r].options = shape[Head(queue)].options
        /\ Items(rs) <= MaxBatchItems
        /\ Items(rs) * Length(rs) <= MaxBatchTokens
GreedyBatch(queue, taken) ==
    /\ Head(queue) \in taken
    /\ \A r \in Range(queue) \ {Head(queue)} : r \in taken <=> Joins(queue, taken, r)

\* Every batch run_scheduler dispatches is the greedy one, and it leaves the
\* deque sorted, so that the oldest request always leads the next batch: no
\* request starves behind a hot compatibility key.
DispatchesGreedily ==
    [][gathered /\ pending' # pending /\ Head(pending) \notin inactive =>
         LET taken == Range(pending) \ Range(pending')
         IN  GreedyBatch(pending, taken) /\ Ascending(pending')]_vars
=============================================================================
