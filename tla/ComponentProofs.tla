--------------------------- MODULE ComponentProofs ---------------------------
(***************************************************************************)
(* Proofs about three components that share no state.                      *)
(*                                                                         *)
(* BatchPlanner, for any number of requests and any policy: which batches  *)
(* are formed, and who gets which answer.  Its scans are recursive         *)
(* functions over sequences; what they compute is proved from the fact     *)
(* that a set of naturals has a least member.                              *)
(*                                                                         *)
(* Cancellation, for any finite set of tokens, any choice of constituents  *)
(* and any set of futures.  ServerHost, for any number of readiness        *)
(* changes.                                                                *)
(***************************************************************************)
EXTENDS BatchPlanner, FiniteSetTheorems, TLAPS

-----------------------------------------------------------------------------
(* Induction over the naturals, from the well-foundedness of inclusion among  *)
(* the finite sets.                                                           *)

\* A set of naturals that is not empty has a least member.
LEMMA LeastNatural ==
    ASSUME NEW S \in SUBSET Nat, NEW n \in S
    PROVE  \E m \in S : \A k \in S : m <= k
<1> DEFINE Below == {0 .. m : m \in {k \in S : k <= n}}
           R == StrictSubsetOrdering(0 .. n)
<1>1. IsFiniteSet(0 .. n)
  BY FS_Interval
<1>2. IsWellFoundedOn(R, SUBSET (0 .. n))
  BY <1>1, FS_FiniteSubsetsOfFinite, FS_StrictSubsetOrderingWellFounded, Zenon
<1>3. Below \subseteq SUBSET (0 .. n) /\ Below # {}
  OBVIOUS
<1>4. PICK x \in Below : \A y \in Below : <<y, x>> \notin R
  <2> HIDE DEF Below, R
  <2> QED
    BY <1>2, <1>3, WFMin, Zenon
<1>5. PICK m \in S : m <= n /\ x = 0 .. m
  BY Zenon
<1>6. ASSUME NEW k \in S, k < m
      PROVE  FALSE
  <2>1. 0 .. k \in Below /\ 0 .. k \subseteq 0 .. m /\ 0 .. k # 0 .. m
    <3>1. m \in 0 .. m /\ m \notin 0 .. k
      BY <1>6
    <3> QED
      BY <1>5, <1>6, <3>1
  <2>2. <<0 .. k, 0 .. m>> \in R
    BY <1>5, <1>3, <2>1, Zenon DEF StrictSubsetOrdering
  <2> QED
    BY <1>4, <1>5, <2>1, <2>2, Zenon
<1> QED
  BY <1>6

\* A set with zero, and with the successor of each of its members, has every natural.
LEMMA Induction ==
    ASSUME NEW S, 0 \in S, \A n \in Nat : n \in S => n + 1 \in S
    PROVE  Nat \subseteq S
<1> SUFFICES ASSUME NEW n \in Nat, n \notin S
             PROVE  FALSE
  BY Zenon
<1>1. PICK m \in Nat \ S : \A k \in Nat \ S : m <= k
  BY LeastNatural, Zenon
<1>2. m # 0 /\ m - 1 \in Nat /\ m - 1 \in S
  BY <1>1
<1> QED
  BY <1>1, <1>2

\* The same for the numbers up to a bound.
LEMMA BoundedInduction ==
    ASSUME NEW S, NEW len \in Nat, 0 \in S, \A n \in 1 .. len : n - 1 \in S => n \in S
    PROVE  0 .. len \subseteq S
<1> DEFINE Below == {n \in Nat : n <= len => n \in S}
<1>1. 0 \in Below
  BY Zenon
<1>2. ASSUME NEW n \in Nat, n \in Below
      PROVE  n + 1 \in Below
  <2> SUFFICES ASSUME n + 1 <= len
               PROVE  n + 1 \in S
    OBVIOUS
  <2>1. n + 1 \in 1 .. len /\ (n + 1) - 1 = n /\ n \in S
    BY <1>2
  <2> QED
    BY <2>1, Zenon
<1>3. Nat \subseteq Below
  <2> HIDE DEF Below
  <2> QED
    BY <1>1, <1>2, Induction, Zenon
<1> QED
  BY <1>3

\* f starts with `start` and goes on with a function for each step.
Recursion(f, V, start, len, G) ==
    f \in [0 .. len -> V] /\ f[0] = start /\ \A n \in 1 .. len : f[n] = G[n][f[n - 1]]

\* Two functions on 0 .. len start alike and never part.
Alike(f, g, len) ==
    /\ f = [n \in 0 .. len |-> f[n]] /\ g = [n \in 0 .. len |-> g[n]]
    /\ f[0] = g[0] /\ \A n \in 1 .. len : f[n - 1] = g[n - 1] => f[n] = g[n]

\* A recursion with a function for each step defines a function.
LEMMA RecursionExists ==
    ASSUME NEW V, NEW start \in V, NEW len \in Nat, NEW G \in [1 .. len -> [V -> V]]
    PROVE  \E f : Recursion(f, V, start, len, G)
<1> DEFINE Steps(f, m) == f[0] = start /\ \A n \in 1 .. m : f[n] = G[n][f[n - 1]]
           S == {m \in 0 .. len : \E f \in [0 .. m -> V] : Steps(f, m)}
<1>1. 0 \in S
  <2> DEFINE f == [n \in 0 .. 0 |-> start]
  <2>1. f \in [0 .. 0 -> V] /\ f[0] = start /\ 1 .. 0 = {}
    OBVIOUS
  <2>2. \E g \in [0 .. 0 -> V] : Steps(g, 0)
    <3> HIDE DEF f
    <3> QED
      BY <2>1, Zenon
  <2> QED
    BY <2>2
<1>2. ASSUME NEW m \in 1 .. len, m - 1 \in S
      PROVE  m \in S
  <2>1. PICK f \in [0 .. m - 1 -> V] : Steps(f, m - 1)
    BY <1>2, Zenon
  <2> DEFINE next == G[m][f[m - 1]]
             g == [n \in 0 .. m |-> IF n = m THEN next ELSE f[n]]
  <2>2. f[m - 1] \in V /\ G[m] \in [V -> V]
    OBVIOUS
  <2>3. next \in V
    BY <2>2, Zenon
  <2>4. g \in [0 .. m -> V]
    <3> HIDE DEF next
    <3> QED
      BY <2>3
  <2>5. g[m] = next /\ \A n \in 0 .. m - 1 : g[n] = f[n]
    <3> HIDE DEF next
    <3>1. m \in Nat /\ m \in 0 .. m /\ \A n \in 0 .. m - 1 : n \in 0 .. m /\ n # m
      OBVIOUS
    <3> QED
      BY <3>1, Zenon
  <2>6. \A n \in 1 .. m : g[n] = G[n][g[n - 1]]
    <3> SUFFICES ASSUME NEW n \in 1 .. m
                 PROVE  g[n] = G[n][g[n - 1]]
      BY Zenon
    <3>1. n - 1 \in 0 .. m - 1 /\ g[n - 1] = f[n - 1]
      BY <2>5
    <3>2. CASE n = m
      BY <2>5, <3>1, <3>2, Zenon
    <3>3. CASE n # m
      <4>1. n \in 1 .. m - 1 /\ g[n] = f[n]
        BY <2>5, <3>3
      <4> HIDE DEF g
      <4> QED
        BY <2>1, <3>1, <4>1, Zenon
    <3> QED
      BY <3>2, <3>3, Zenon
  <2>7. Steps(g, m)
    <3>1. g[0] = f[0]
      BY <2>5
    <3> HIDE DEF g
    <3> QED
      BY <2>1, <2>6, <3>1, Zenon
  <2>8. \E h \in [0 .. m -> V] : Steps(h, m)
    <3> HIDE DEF g, Steps
    <3> QED
      BY <2>4, <2>7, Zenon
  <2>9. m \in 0 .. len
    OBVIOUS
  <2> HIDE DEF Steps
  <2> QED
    BY <2>8, <2>9, Zenon
<1>3. len \in S
  <2>1. \A n \in 1 .. len : n - 1 \in S => n \in S
    BY <1>2, Zenon
  <2> HIDE DEF S
  <2>2. 0 .. len \subseteq S
    BY <1>1, <2>1, BoundedInduction, Zenon
  <2> QED
    BY <2>2
<1> QED
  BY <1>3, Zenon DEF Recursion

\* Two functions that start alike and never part are equal.
LEMMA RecursionUnique ==
    ASSUME NEW len \in Nat, NEW f, NEW g, Alike(f, g, len)
    PROVE  f = g
<1> DEFINE S == {n \in 0 .. len : f[n] = g[n]}
<1>1. 0 \in S
  BY DEF Alike
<1>a. ASSUME NEW n \in 1 .. len, n - 1 \in S
      PROVE  n \in S
  <2>1. f[n - 1] = g[n - 1] /\ n \in 0 .. len
    BY <1>a
  <2> QED
    BY <2>1, Zenon DEF Alike
<1>2. 0 .. len \subseteq S
  <2> HIDE DEF S
  <2> QED
    BY <1>1, <1>a, BoundedInduction, Zenon
<1>3. \A n \in 0 .. len : f[n] = g[n]
  BY <1>2, Zenon
<1> QED
  BY <1>3, Zenon DEF Alike


-----------------------------------------------------------------------------
(* Batches.                                                                    *)

Row == Request \X Nat

\* What an input sequence of requests looks like.
LEMMA InputsAre ==
    ASSUME shape \in [Request -> Shape], NEW r \in Request
    PROVE  /\ Inputs(r) \in Seq(Row)
           /\ Len(Inputs(r)) = shape[r].items
           /\ shape[r].items \in Nat \ {0} /\ shape[r].length \in Nat
           /\ shape[r].options \in Options
<1>1. shape[r] \in Shape
  BY Zenon
<1>2. shape[r].items \in Nat \ {0} /\ shape[r].length \in Nat /\ shape[r].options \in Options
  BY <1>1, PlannerAssumption DEF Shape
<1> DEFINE n == shape[r].items
<1> HIDE DEF n
<1>3. n \in Nat \ {0}
  BY <1>2, Zenon DEF n
<1>4. Inputs(r) = [i \in 1 .. n |-> <<r, i>>]
  BY Zenon DEF n, Inputs
<1>5. [i \in 1 .. n |-> <<r, i>>] \in Seq(Row) /\ Len([i \in 1 .. n |-> <<r, i>>]) = n
  BY <1>3 DEF Row
<1> QED
  BY <1>2, <1>4, <1>5, Zenon DEF n

\* The inputs of the last members of a batch: those of the first of them in front of
\* those of the others.
LEMMA LastInputsAre ==
    ASSUME shape \in [Request -> Shape], NEW members \in Seq(Request)
    PROVE  LET last == LastInputs(members) IN
           /\ last \in [0 .. Len(members) -> Seq(Row)]
           /\ last[0] = <<>>
           /\ \A k \in 1 .. Len(members) :
                  last[k] = Inputs(members[Len(members) - k + 1]) \o last[k - 1]
<1> DEFINE len == Len(members)
           V == Seq(Row)
           none == <<>>
           Join(k, rows) == Inputs(members[len - k + 1]) \o rows
           G == [k \in 1 .. len |-> [rows \in V |-> Join(k, rows)]]
           Body(f) == [k \in 0 .. len |-> IF k = 0 THEN none ELSE Join(k, f[k - 1])]
           last == LastInputs(members)
<1>0. len \in Nat /\ none \in V
  OBVIOUS
<1>1. ASSUME NEW k \in 1 .. len, NEW rows \in V
      PROVE  Join(k, rows) \in V
  <2>1. members[len - k + 1] \in Request
    OBVIOUS
  <2>2. Inputs(members[len - k + 1]) \in V
    BY <2>1, InputsAre, Zenon
  <2> QED
    BY <2>2
<1>2. last = CHOOSE f : f = Body(f)
  BY Zenon DEF LastInputs
<1> HIDE DEF len, V, none, Join, last
<1>3. G \in [1 .. len -> [V -> V]]
  BY <1>1, Zenon
<1>4. PICK f : Recursion(f, V, none, len, G)
  <2> HIDE DEF G
  <2> QED
    BY <1>0, <1>3, RecursionExists, Zenon
<1>5. \A n \in 1 .. len : f[n] = Join(n, f[n - 1])
  <2> SUFFICES ASSUME NEW n \in 1 .. len
               PROVE  f[n] = Join(n, f[n - 1])
    BY Zenon
  <2>1. f[n - 1] \in V
    BY <1>0, <1>4 DEF Recursion
  <2> QED
    BY <1>4, <2>1, Zenon DEF Recursion
<1>6. f = Body(f)
  BY <1>4, <1>5 DEF Recursion
<1>7. last = Body(last)
  BY <1>2, <1>6, Zenon
<1>8. last[0] = none /\ \A n \in 1 .. len : last[n] = Join(n, last[n - 1])
  BY <1>0, <1>7
<1>9. f = last
  <2>1. last = [n \in 0 .. len |-> last[n]] /\ f = [n \in 0 .. len |-> f[n]] /\ f[0] = last[0]
    BY <1>4, <1>7, <1>8, Zenon DEF Recursion
  <2>2. \A n \in 1 .. len : f[n - 1] = last[n - 1] => f[n] = last[n]
    BY <1>5, <1>8, Zenon
  <2>3. Alike(f, last, len)
    BY <2>1, <2>2, Zenon DEF Alike
  <2> QED
    BY <1>0, <2>3, RecursionUnique, Zenon
<1> QED
  BY <1>4, <1>8, <1>9, Zenon DEF Recursion, last, Join, V, none, len

\* Sequences with the same elements are the same.
LEMMA SameSequence ==
    ASSUME NEW S, NEW s \in Seq(S), NEW t \in Seq(S), Len(s) = Len(t),
           \A i \in 1 .. Len(s) : s[i] = t[i]
    PROVE  s = t
<1>1. s = [i \in 1 .. Len(s) |-> s[i]] /\ t = [i \in 1 .. Len(t) |-> t[i]]
  OBVIOUS
<1> QED
  BY <1>1, Zenon

\* Cutting a sequence where it was joined gives the parts.
LEMMA CutJoined ==
    ASSUME NEW S, NEW s \in Seq(S), NEW t \in Seq(S)
    PROVE  SubSeq(s \o t, 1, Len(s)) = s /\ SubSeq(s \o t, Len(s) + 1, Len(s \o t)) = t
<1> DEFINE st == s \o t
           a == SubSeq(st, 1, Len(s))
           b == SubSeq(st, Len(s) + 1, Len(st))
<1>1. /\ Len(s) \in Nat /\ Len(t) \in Nat /\ st \in Seq(S) /\ Len(st) = Len(s) + Len(t)
      /\ \A i \in 1 .. Len(s) : st[i] = s[i] /\ st[i] \in S
      /\ \A i \in 1 .. Len(t) : st[Len(s) + i] = t[i] /\ t[i] \in S
  OBVIOUS
<1> HIDE DEF st
<1>2. /\ a \in Seq(S) /\ Len(a) = Len(s)
      /\ \A i \in 1 .. Len(s) : a[i] = st[i]
  BY <1>1
<1>3. /\ b \in Seq(S) /\ Len(b) = Len(t)
      /\ \A i \in 1 .. Len(t) : b[i] = st[Len(s) + i]
  BY <1>1
<1> HIDE DEF a, b
<1>4. a = s
  <2>1. \A i \in 1 .. Len(a) : a[i] = s[i]
    BY <1>1, <1>2, Zenon
  <2> QED
    BY <1>2, <2>1, SameSequence, Zenon
<1>5. b = t
  <2>1. \A i \in 1 .. Len(b) : b[i] = t[i]
    BY <1>1, <1>3, Zenon
  <2> QED
    BY <1>3, <2>1, SameSequence, Zenon
<1> QED
  BY <1>4, <1>5, Zenon DEF a, b, st

Code == {"none", "ok", "control", "queue_full", "inference_failed"}
Answer == [code : Code, vectors : Seq(Row)]

\* What a member of a batch is sent when its rows are all there.
Reply(r) == IF r \in inactive THEN Says("control") ELSE [code |-> "ok", vectors |-> Inputs(r)]

\* publish_results gives every member of the batch its own rows, or its control error,
\* and nobody else anything.
LEMMA DeliveredAre ==
    ASSUME shape \in [Request -> Shape],
           answer \in [Request -> Answer], NEW members \in Seq(Request)
    PROVE  Delivered(members, BatchInputs(members))[Len(members)].answer =
               [r \in Request |-> IF r \in Range(members) THEN Reply(r) ELSE answer[r]]
<1> DEFINE len == Len(members)
           last == LastInputs(members)
           Sent(k) == [r \in Request |->
                          IF \E i \in 1 .. k : members[i] = r THEN Reply(r) ELSE answer[r]]
           f == [k \in 0 .. len |-> [vectors |-> last[len - k], answer |-> Sent(k)]]
           Body(g) == [k \in 0 .. len |->
                          IF k = 0 THEN [vectors |-> BatchInputs(members), answer |-> answer]
                          ELSE Deliver(g[k - 1], members[k])]
           out == Delivered(members, BatchInputs(members))
<1>0. len \in Nat /\ DOMAIN members = 1 .. len /\ \A k \in 1 .. len : members[k] \in Request
  OBVIOUS
<1>1. /\ last \in [0 .. len -> Seq(Row)]
      /\ \A k \in 1 .. len : last[k] = Inputs(members[len - k + 1]) \o last[k - 1]
  BY LastInputsAre, Zenon
<1>2. out = CHOOSE g : g = Body(g)
  BY Zenon DEF Delivered
<1>3. Sent(0) = answer
  OBVIOUS
<1>4. BatchInputs(members) = last[len]
  BY Zenon DEF BatchInputs
<1> HIDE DEF len, last, out
<1>5. ASSUME NEW k \in 1 .. len
      PROVE  f[k] = Deliver(f[k - 1], members[k])
  <2> DEFINE r == members[k]
             rows == last[len - k]
             size == shape[r].items
  <2>1. r \in Request /\ k - 1 \in 0 .. len /\ len - k \in 0 .. len /\ rows \in Seq(Row)
    BY <1>0, <1>1
  <2>2. last[len - (k - 1)] = Inputs(r) \o rows
    <3>1. len - (k - 1) \in 1 .. len /\ len - (len - (k - 1)) + 1 = k
          /\ (len - (k - 1)) - 1 = len - k
      BY <1>0
    <3> QED
      BY <1>1, <3>1, Zenon
  <2>3. Inputs(r) \in Seq(Row) /\ Len(Inputs(r)) = size
    BY <2>1, InputsAre, Zenon
  <2>4. /\ SubSeq(Inputs(r) \o rows, 1, size) = Inputs(r)
        /\ SubSeq(Inputs(r) \o rows, size + 1, Len(Inputs(r) \o rows)) = rows
    <3> HIDE DEF r, rows, size
    <3> QED
      BY <2>1, <2>3, CutJoined, Zenon
  <2>5. Sent(k) = [Sent(k - 1) EXCEPT ![r] = Reply(r)]
    <3>1. \A q \in Request :
             (\E i \in 1 .. k : members[i] = q) <=> (\E i \in 1 .. k - 1 : members[i] = q) \/ q = r
      BY <1>0
    <3> HIDE DEF r
    <3> QED
      BY <2>1, <3>1, Zenon
  <2>6. f[k - 1] = [vectors |-> Inputs(r) \o rows, answer |-> Sent(k - 1)]
    <3> HIDE DEF r, rows, Sent
    <3> QED
      BY <2>1, <2>2, Zenon
  <2>7. f[k] = [vectors |-> rows, answer |-> Sent(k)]
    <3> HIDE DEF Sent
    <3> QED
      BY <1>0
  <2> HIDE DEF f, r, rows, Sent
  <2>8. Deliver(f[k - 1], r) =
            [vectors |-> rows, answer |-> [Sent(k - 1) EXCEPT ![r] = Reply(r)]]
    <3> DEFINE o == f[k - 1]
    <3>1. Deliver(o, r) =
              [vectors |-> SubSeq(o.vectors, size + 1, Len(o.vectors)),
               answer |-> [o.answer EXCEPT ![r] =
                             IF r \in inactive THEN Says("control")
                             ELSE [code |-> "ok", vectors |-> SubSeq(o.vectors, 1, size)]]]
      BY Zenon DEF Deliver
    <3>2. o.vectors = Inputs(r) \o rows /\ o.answer = Sent(k - 1)
      BY <2>6
    <3> HIDE DEF o, size
    <3> QED
      BY <2>4, <3>1, <3>2, Zenon DEF Reply, o
  <2> QED
    BY <2>5, <2>7, <2>8, Zenon DEF r
<1>6. f = Body(f)
  <2>1. f[0] = [vectors |-> BatchInputs(members), answer |-> answer]
    BY <1>0, <1>3, <1>4
  <2>2. f = [k \in 0 .. len |-> f[k]]
    BY Zenon
  <2> HIDE DEF f
  <2>3. ASSUME NEW k \in 0 .. len
        PROVE  f[k] = Body(f)[k]
    <3>1. CASE k = 0
      BY <1>0, <2>1, <3>1, Zenon
    <3>2. CASE k \in 1 .. len
      BY <1>5, <3>2
    <3> QED
      BY <1>0, <3>1, <3>2
  <2>4. Body(f) = [k \in 0 .. len |-> Body(f)[k]]
    BY Zenon
  <2> HIDE DEF Body
  <2> QED
    BY <2>2, <2>3, <2>4, Zenon
<1>7. out = Body(out)
  <2> HIDE DEF f
  <2> QED
    BY <1>2, <1>6, Zenon
<1> HIDE DEF f
<1>8. Alike(f, out, len)
  BY <1>0, <1>6, <1>7 DEF Alike
<1>9. f = out
  BY <1>0, <1>8, RecursionUnique, Zenon
<1>10. out[len].answer = Sent(len)
  <2> HIDE DEF Sent
  <2> QED
    BY <1>0, <1>9 DEF f
<1>11. \A r \in Request : r \in Range(members) <=> \E i \in 1 .. len : members[i] = r
  BY <1>0, Zenon DEF Range
<1> QED
  BY <1>10, <1>11, ZenonT(30) DEF out, len

\* What a request behind the others does to a sequence of requests.
LEMMA AppendRequest ==
    ASSUME NEW s \in Seq(Request), NEW r \in Request
    PROVE  /\ Append(s, r) \in Seq(Request)
           /\ Range(Append(s, r)) = Range(s) \cup {r}
           /\ IsInjective(s) /\ r \notin Range(s) => IsInjective(Append(s, r))
           /\ Ascending(s) /\ (\A q \in Range(s) : q < r) => Ascending(Append(s, r))
<1> DEFINE t == Append(s, r)
           n == Len(s)
<1>1. /\ n \in Nat /\ t \in Seq(Request) /\ DOMAIN s = 1 .. n /\ DOMAIN t = 1 .. n + 1
      /\ \A i \in 1 .. n : t[i] = s[i]
      /\ t[n + 1] = r
  OBVIOUS
<1> HIDE DEF t, n
<1>2. \A i \in 1 .. n + 1 : i \in 1 .. n \/ i = n + 1
  BY <1>1
<1>3. \A i \in 1 .. n : i \in 1 .. n + 1 /\ s[i] \in Range(s)
  BY <1>1 DEF Range
<1>4. n + 1 \in 1 .. n + 1
  BY <1>1
<1>5. Range(t) = Range(s) \cup {r}
  BY <1>1, <1>2, <1>3, <1>4, Zenon DEF Range
<1>6. ASSUME IsInjective(s), r \notin Range(s)
      PROVE  IsInjective(t)
  BY <1>1, <1>2, <1>3, <1>6, Zenon DEF IsInjective
<1>7. ASSUME Ascending(s), \A q \in Range(s) : q < r
      PROVE  Ascending(t)
  <2> SUFFICES ASSUME NEW i \in 1 .. n + 1, NEW k \in 1 .. n + 1, i < k
               PROVE  t[i] < t[k]
    BY <1>1, Zenon DEF Ascending
  <2>1. i \in 1 .. n
    BY <1>1
  <2>2. CASE k \in 1 .. n
    BY <1>1, <1>7, <2>1, <2>2, Zenon DEF Ascending
  <2>3. CASE k = n + 1
    BY <1>1, <1>3, <1>7, <2>1, <2>3, Zenon
  <2> QED
    BY <1>2, <2>2, <2>3, Zenon
<1> QED
  BY <1>1, <1>5, <1>6, <1>7, Zenon DEF t

\* The active members of a batch are those of its members that are not inactive, each
\* as often as before.
LEMMA ActiveAre ==
    ASSUME NEW members \in Seq(Request), IsInjective(members)
    PROVE  /\ Active(members) \in Seq(Request)
           /\ Range(Active(members)) = Range(members) \ inactive
           /\ IsInjective(Active(members))
<1> DEFINE len == Len(members)
           V == Seq(Request)
           none == <<>>
           Join(k, rs) == IF members[k] \in inactive THEN rs ELSE Append(rs, members[k])
           G == [k \in 1 .. len |-> [rs \in V |-> Join(k, rs)]]
           Body(f) == [k \in 0 .. len |-> IF k = 0 THEN none ELSE Join(k, f[k - 1])]
           active == CHOOSE f : f = Body(f)
<1>0. /\ len \in Nat /\ none \in V /\ DOMAIN members = 1 .. len
      /\ \A k \in 1 .. len : members[k] \in Request
      /\ Range(none) = {} /\ IsInjective(none)
  BY DEF Range, IsInjective
<1>1. ASSUME NEW k \in 1 .. len, NEW rs \in V
      PROVE  Join(k, rs) \in V
  BY <1>0
<1>2. Active(members) = active[len]
  BY Zenon DEF Active
<1> HIDE DEF len, V, none, Join
<1>3. G \in [1 .. len -> [V -> V]]
  BY <1>1, Zenon
<1>4. PICK f : Recursion(f, V, none, len, G)
  <2> HIDE DEF G
  <2> QED
    BY <1>0, <1>3, RecursionExists, Zenon
<1>5. \A n \in 1 .. len : f[n - 1] \in V /\ f[n] = Join(n, f[n - 1])
  <2> SUFFICES ASSUME NEW n \in 1 .. len
               PROVE  f[n - 1] \in V /\ f[n] = Join(n, f[n - 1])
    BY Zenon
  <2>1. f[n - 1] \in V
    BY <1>0, <1>4 DEF Recursion
  <2> QED
    BY <1>4, <2>1, Zenon DEF Recursion
<1>6. f = Body(f)
  BY <1>4, <1>5 DEF Recursion
<1>7. active = Body(active)
  BY <1>6, Zenon
<1> HIDE DEF active
<1>8. active[0] = none /\ \A n \in 1 .. len : active[n] = Join(n, active[n - 1])
  BY <1>0, <1>7
<1>9. f = active
  <2>1. /\ active = [n \in 0 .. len |-> active[n]] /\ f = [n \in 0 .. len |-> f[n]]
        /\ f[0] = active[0]
    BY <1>4, <1>7, <1>8, Zenon DEF Recursion
  <2>2. \A n \in 1 .. len : f[n - 1] = active[n - 1] => f[n] = active[n]
    BY <1>5, <1>8, Zenon
  <2>3. Alike(f, active, len)
    BY <2>1, <2>2, Zenon DEF Alike
  <2> QED
    BY <1>0, <2>3, RecursionUnique, Zenon
<1> DEFINE First(k) == {members[i] : i \in 1 .. k}
           S == {k \in 0 .. len : /\ f[k] \in V /\ IsInjective(f[k])
                                  /\ Range(f[k]) = First(k) \ inactive}
<1>10. 0 \in S
  <2>1. First(0) = {}
    OBVIOUS
  <2> QED
    BY <1>0, <1>4, <2>1 DEF Recursion
<1>11. ASSUME NEW k \in 1 .. len, k - 1 \in S
       PROVE  k \in S
  <2>1. /\ k \in 0 .. len /\ members[k] \in Request
        /\ First(k) = First(k - 1) \cup {members[k]}
    BY <1>0
  <2>2. members[k] \notin First(k - 1)
    <3>1. \A i \in 1 .. k - 1 : i \in DOMAIN members /\ k \in DOMAIN members /\ i # k
      BY <1>0
    <3> QED
      BY <3>1, Zenon DEF IsInjective
  <2>3. f[k - 1] \in V /\ f[k] = Join(k, f[k - 1])
    BY <1>5, Zenon
  <2>4. IsInjective(f[k - 1]) /\ Range(f[k - 1]) = First(k - 1) \ inactive
    BY <1>11, Zenon
  <2> HIDE DEF First
  <2>5. CASE members[k] \in inactive
    BY <2>1, <2>3, <2>4, <2>5, Zenon DEF Join
  <2>6. CASE members[k] \notin inactive
    <3>1. f[k] = Append(f[k - 1], members[k])
      BY <2>3, <2>6, Zenon DEF Join
    <3>2. /\ f[k] \in V /\ IsInjective(f[k])
          /\ Range(f[k]) = Range(f[k - 1]) \cup {members[k]}
      BY <2>1, <2>2, <2>3, <2>4, <3>1, AppendRequest DEF V
    <3> QED
      BY <2>1, <2>4, <2>6, <3>2, Zenon
  <2> QED
    BY <2>5, <2>6, Zenon
<1>12. len \in S
  <2> HIDE DEF S
  <2>1. 0 .. len \subseteq S
    BY <1>0, <1>10, <1>11, BoundedInduction, Zenon
  <2> QED
    BY <1>0, <2>1
<1>13. First(len) = Range(members)
  BY <1>0, Zenon DEF Range
<1> HIDE DEF First
<1> QED
  BY <1>2, <1>9, <1>12, <1>13, Zenon DEF V

\* The number of inputs of some requests is a number, and grows by the inputs of one
\* more request.
LEMMA OneMoreRequest ==
    ASSUME shape \in [Request -> Shape],
           NEW rs \in SUBSET Request, NEW r \in Request, r \notin rs
    PROVE  Items(rs) \in Nat /\ Items(rs \cup {r}) = Items(rs) + shape[r].items
<1> DEFINE Rows(q) == Range(Inputs(q))
           All(qs) == UNION {Rows(q) : q \in qs}
<1>1. ASSUME NEW q \in Request
      PROVE  /\ IsFiniteSet(Rows(q)) /\ Cardinality(Rows(q)) = shape[q].items
             /\ \A x \in Rows(q) : x[1] = q
  <2> DEFINE n == shape[q].items
             f == [i \in 1 .. n |-> <<q, i>>]
  <2>1. n \in Nat
    BY InputsAre, Zenon
  <2>2. f = Inputs(q)
    BY Zenon DEF Inputs
  <2> HIDE DEF n
  <2>3. f \in Bijection(1 .. n, Rows(q))
    <3>1. Rows(q) = {<<q, i>> : i \in 1 .. n}
      BY <2>2, Zenon DEF Range
    <3> QED
      BY <3>1, Zenon DEF Bijection, Injection, Surjection, IsInjective
  <2>4. ExistsBijection(1 .. n, Rows(q))
    BY <2>3, Zenon DEF ExistsBijection
  <2>5. IsFiniteSet(1 .. n) /\ Cardinality(1 .. n) = n
    <3>1. 1 \in Int /\ n \in Int /\ (IF 1 > n THEN 0 ELSE n - 1 + 1) = n
      BY <2>1
    <3> QED
      BY <3>1, FS_Interval, Zenon
  <2>6. IsFiniteSet(Rows(q)) /\ Cardinality(Rows(q)) = n
    <3> HIDE DEF Rows
    <3> QED
      BY <2>4, <2>5, FS_Bijection, Zenon
  <2>7. \A x \in Rows(q) : x[1] = q
    BY <2>2 DEF Range
  <2> QED
    BY <2>6, <2>7, Zenon DEF n
<1> HIDE DEF Rows
<1>2. IsFiniteSet(Request)
  BY FS_Interval, PlannerAssumption DEF Request
<1>3. IsFiniteSet(All(rs))
  <2> DEFINE f == [q \in rs |-> Rows(q)]
             P == {Rows(q) : q \in rs}
  <2>1. IsFiniteSet(rs)
    BY <1>2, FS_Subset, Zenon
  <2>2. f \in Surjection(rs, P)
    BY Zenon DEF Surjection
  <2>3. IsFiniteSet(P)
    <3> HIDE DEF f, P
    <3> QED
      BY <2>1, <2>2, FS_Surjection, Zenon
  <2>4. \A p \in P : IsFiniteSet(p)
    BY <1>1, Zenon
  <2> HIDE DEF P
  <2>5. IsFiniteSet(UNION P)
    BY <2>3, <2>4, FS_UNION, Zenon
  <2> QED
    BY <2>5, Zenon DEF P
<1>4. All(rs \cup {r}) = All(rs) \cup Rows(r)
  BY Zenon
<1>5. All(rs) \cap Rows(r) = {}
  BY <1>1
<1> HIDE DEF All
<1>6. /\ Cardinality(All(rs)) \in Nat /\ Cardinality(Rows(r)) \in Nat
      /\ Cardinality(All(rs) \cap Rows(r)) = 0
  BY <1>1, <1>3, <1>5, FS_CardinalityType, FS_EmptySet, Zenon
<1>7. Cardinality(All(rs) \cup Rows(r)) =
          Cardinality(All(rs)) + Cardinality(Rows(r)) - Cardinality(All(rs) \cap Rows(r))
  BY <1>1, <1>3, FS_Union, Zenon
<1>8. \A qs : Items(qs) = Cardinality(All(qs))
  BY Zenon DEF Items, All, Rows
<1>9. /\ Items(rs) = Cardinality(All(rs)) /\ Cardinality(Rows(r)) = shape[r].items
      /\ Items(rs \cup {r}) = Cardinality(All(rs) \cup Rows(r))
  BY <1>1, <1>4, <1>8, Zenon
<1> QED
  BY <1>6, <1>7, <1>9

\* A request by itself.
LEMMA OneRequest ==
    ASSUME shape \in [Request -> Shape], NEW r \in Request
    PROVE  Items({r}) = shape[r].items
<1>1. Items({}) = 0
  <2>1. UNION {Range(Inputs(q)) : q \in {}} = {}
    BY Zenon
  <2> QED
    BY <2>1, FS_EmptySet, Zenon DEF Items
<1>2. Items({} \cup {r}) = Items({}) + shape[r].items /\ {} \cup {r} = {r}
  BY OneMoreRequest, Zenon
<1>3. shape[r].items \in Nat
  BY InputsAre, Zenon
<1> QED
  BY <1>1, <1>2, <1>3

-----------------------------------------------------------------------------
(* The scan.                                                                   *)

ScanState ==
    [batch : Seq(Request), rest : Seq(Request), options : Options, items : Nat, length : Nat]

\* The largest member of a set that has one.
LEMMA LargestIs ==
    ASSUME NEW S \in SUBSET Nat, NEW n \in S, \A k \in S : k <= n
    PROVE  Max(S) = n
<1>1. \E x \in S : \A y \in S : x >= y
  BY Zenon
<1>2. Max(S) \in S /\ \A y \in S : Max(S) >= y
  BY <1>1, Zenon DEF Max
<1>3. Max(S) >= n /\ Max(S) <= n /\ Max(S) \in Nat
  BY <1>2, Zenon
<1> QED
  BY <1>3

\* The larger of two numbers.
LEMMA LargerIs ==
    ASSUME NEW a \in Nat, NEW b \in Nat
    PROVE  Max({a, b}) = IF a >= b THEN a ELSE b
<1>1. CASE a >= b
  <2>1. Max({a, b}) = a
    BY <1>1, LargestIs
  <2> QED
    BY <1>1, <2>1, Zenon
<1>2. CASE ~(a >= b)
  <2>1. Max({a, b}) = b
    BY <1>2, LargestIs
  <2> QED
    BY <1>2, <2>1, Zenon
<1> QED
  BY <1>1, <1>2, Zenon

\* A candidate joins the batch exactly if it has the same options and the batch with it
\* is within both limits.
LEMMA ConsiderIs ==
    ASSUME shape \in [Request -> Shape],
           NEW s \in ScanState, NEW c \in Request
    PROVE  LET items == s.items + shape[c].items
               length == Max({s.length, shape[c].length})
               next == Consider(s, c)
               fits == /\ shape[c].options = s.options
                       /\ items <= MaxBatchItems /\ items * length <= MaxBatchTokens
           IN  /\ next \in ScanState
               /\ fits => /\ next.batch = Append(s.batch, c) /\ next.rest = s.rest
                          /\ next.items = items /\ next.length = length
               /\ ~fits => /\ next.batch = s.batch /\ next.rest = Append(s.rest, c)
                           /\ next.items = s.items /\ next.length = s.length
               /\ next.options = s.options
<1> DEFINE items == s.items + shape[c].items
           length == Max({s.length, shape[c].length})
           fits == /\ shape[c].options = s.options
                   /\ items <= MaxBatchItems /\ items * length <= MaxBatchTokens
           joined == [s EXCEPT !.batch = Append(@, c), !.items = items, !.length = length]
           left == [s EXCEPT !.rest = Append(@, c)]
<1>1. /\ s.batch \in Seq(Request) /\ s.rest \in Seq(Request)
      /\ s.items \in Nat /\ s.length \in Nat
      /\ shape[c].items \in Nat /\ shape[c].length \in Nat
  BY InputsAre, Zenon DEF ScanState
<1>2. items \in Nat /\ length \in Nat
  <2>1. length = IF s.length >= shape[c].length THEN s.length ELSE shape[c].length
    BY <1>1, LargerIs, Zenon
  <2> HIDE DEF length
  <2> QED
    BY <1>1, <2>1
<1> HIDE DEF items, length
<1>3. items * length \in Nat
  BY <1>2
<1>4. /\ Fits(items, MaxBatchItems) <=> items <= MaxBatchItems
      /\ Fits(items * length, MaxBatchTokens) <=> items * length <= MaxBatchTokens
  <2> DEFINE work == items * length
  <2>1. work \in Nat
    BY <1>3, Zenon
  <2> HIDE DEF work
  <2>2. /\ Fits(items, MaxBatchItems) <=> items <= MaxBatchItems
        /\ Fits(work, MaxBatchTokens) <=> work <= MaxBatchTokens
    BY <1>2, <2>1, PlannerAssumption DEF Fits
  <2> QED
    BY <2>2, Zenon DEF work
<1> DEFINE compatible == /\ shape[c].options = s.options
                         /\ Fits(items, MaxBatchItems)
                         /\ Fits(items * length, MaxBatchTokens)
<1>5. Consider(s, c) = IF compatible THEN joined ELSE left
  BY Zenon DEF Consider, items, length
<1>6. compatible <=> fits
  BY <1>4, Zenon
<1>7. Append(s.batch, c) \in Seq(Request) /\ Append(s.rest, c) \in Seq(Request)
  BY <1>1
<1>8. /\ joined \in ScanState /\ joined.batch = Append(s.batch, c) /\ joined.rest = s.rest
      /\ joined.items = items /\ joined.length = length /\ joined.options = s.options
  BY <1>2, <1>7, Zenon DEF ScanState
<1>9. /\ left \in ScanState /\ left.batch = s.batch /\ left.rest = Append(s.rest, c)
      /\ left.items = s.items /\ left.length = s.length /\ left.options = s.options
  BY <1>7, Zenon DEF ScanState
<1> HIDE DEF compatible, fits, joined, left
<1>10. CASE fits
  <2>1. Consider(s, c) = joined
    BY <1>5, <1>6, <1>10, Zenon
  <2> QED
    BY <1>8, <1>10, <2>1, Zenon DEF fits, items, length
<1>11. CASE ~fits
  <2>1. Consider(s, c) = left
    BY <1>5, <1>6, <1>11, Zenon
  <2> QED
    BY <1>9, <1>11, <2>1, Zenon DEF fits, items, length
<1> QED
  BY <1>10, <1>11, Zenon

\* Where the scan begins.
First(queue) ==
    [batch |-> <<queue[1]>>, rest |-> <<>>, options |-> shape[queue[1]].options,
     items |-> shape[queue[1]].items, length |-> shape[queue[1]].length]

\* The scan considers one candidate after the other.
LEMMA ScanAre ==
    ASSUME shape \in [Request -> Shape],
           NEW queue \in Seq(Request), queue # <<>>
    PROVE  LET scan == Scan(queue) IN
           /\ scan \in [0 .. Len(queue) - 1 -> ScanState]
           /\ scan[0] = First(queue)
           /\ \A k \in 1 .. Len(queue) - 1 : scan[k] = Consider(scan[k - 1], queue[k + 1])
<1> DEFINE len == Len(queue) - 1
           V == ScanState
           start == First(queue)
           Join(k, s) == Consider(s, queue[k + 1])
           G == [k \in 1 .. len |-> [s \in V |-> Join(k, s)]]
           Body(f) == [k \in 0 .. len |-> IF k = 0 THEN start ELSE Join(k, f[k - 1])]
           scan == Scan(queue)
<1>0. len \in Nat /\ start \in V
  <2>1. len \in Nat /\ queue[1] \in Request
    OBVIOUS
  <2>2. /\ shape[queue[1]].items \in Nat /\ shape[queue[1]].length \in Nat
        /\ shape[queue[1]].options \in Options
    BY <2>1, InputsAre, Zenon
  <2>3. <<queue[1]>> \in Seq(Request) /\ <<>> \in Seq(Request)
    BY <2>1
  <2> QED
    BY <2>1, <2>2, <2>3, Zenon DEF First, ScanState
<1>1. ASSUME NEW k \in 1 .. len, NEW s \in V
      PROVE  Join(k, s) \in V
  <2>1. queue[k + 1] \in Request
    OBVIOUS
  <2> HIDE DEF len
  <2> QED
    BY <2>1, ConsiderIs, Zenon
<1>2. scan = CHOOSE f : f = Body(f)
  BY Zenon DEF Scan, First
<1> HIDE DEF len, V, start, Join, scan
<1>3. G \in [1 .. len -> [V -> V]]
  BY <1>1, Zenon
<1>4. PICK f : Recursion(f, V, start, len, G)
  <2> HIDE DEF G
  <2> QED
    BY <1>0, <1>3, RecursionExists, Zenon
<1>5. \A n \in 1 .. len : f[n - 1] \in V /\ f[n] = Join(n, f[n - 1])
  <2> SUFFICES ASSUME NEW n \in 1 .. len
               PROVE  f[n - 1] \in V /\ f[n] = Join(n, f[n - 1])
    BY Zenon
  <2>1. f[n - 1] \in V
    BY <1>0, <1>4 DEF Recursion
  <2> QED
    BY <1>4, <2>1, Zenon DEF Recursion
<1>6. f = Body(f)
  BY <1>4, <1>5 DEF Recursion
<1>7. scan = Body(scan)
  BY <1>2, <1>6, Zenon
<1>8. scan[0] = start /\ \A n \in 1 .. len : scan[n] = Join(n, scan[n - 1])
  BY <1>0, <1>7
<1>9. f = scan
  <2>1. /\ scan = [n \in 0 .. len |-> scan[n]] /\ f = [n \in 0 .. len |-> f[n]]
        /\ f[0] = scan[0]
    BY <1>4, <1>7, <1>8, Zenon DEF Recursion
  <2>2. \A n \in 1 .. len : f[n - 1] = scan[n - 1] => f[n] = scan[n]
    BY <1>5, <1>8, Zenon
  <2>3. Alike(f, scan, len)
    BY <2>1, <2>2, Zenon DEF Alike
  <2> QED
    BY <1>0, <2>3, RecursionUnique, Zenon
<1> QED
  BY <1>4, <1>8, <1>9, Zenon DEF Recursion, scan, Join, V, start, len

\* What the scan has done with the first k candidates of an ascending queue.
Scanned(queue, k, s) ==
    LET seen == {queue[i] : i \in 1 .. k + 1}
        taken == Range(s.batch)
    IN  /\ Ascending(s.batch) /\ Ascending(s.rest)
        /\ taken \cup Range(s.rest) = seen /\ taken \cap Range(s.rest) = {}
        /\ queue[1] \in taken
        /\ s.options = shape[queue[1]].options
        /\ s.items = Items(taken)
        /\ \E r \in taken : s.length = shape[r].length
        /\ \A r \in taken : shape[r].length <= s.length
        /\ \A r \in seen \ {queue[1]} : r \in taken <=> Joins(queue, taken, r)

\* A candidate behind all others does not matter to what is asked of those in front of it.
LEMMA JoinsOlder ==
    ASSUME NEW queue, NEW taken \in SUBSET Request, NEW c \in Request,
           NEW r \in Request, r <= c
    PROVE  Joins(queue, taken \cup {c}, r) <=> Joins(queue, taken, r)
<1>1. {s \in taken \cup {c} : s < r} = {s \in taken : s < r}
  BY DEF Request
<1> QED
  BY <1>1, Zenon DEF Joins

\* One turn of the scan.
LEMMA ConsiderKeeps ==
    ASSUME shape \in [Request -> Shape],
           NEW queue \in Seq(Request), Ascending(queue),
           NEW k \in 1 .. Len(queue) - 1, NEW s \in ScanState, Scanned(queue, k - 1, s)
    PROVE  Scanned(queue, k, Consider(s, queue[k + 1]))
<1> DEFINE c == queue[k + 1]
           next == Consider(s, c)
           seen == {queue[i] : i \in 1 .. k}
           taken == Range(s.batch)
           left == Range(s.rest)
           items == s.items + shape[c].items
           length == Max({s.length, shape[c].length})
           fits == /\ shape[c].options = s.options
                   /\ items <= MaxBatchItems /\ items * length <= MaxBatchTokens
<1>1. /\ c \in Request /\ seen \subseteq Request /\ queue[1] \in seen
      /\ \A r \in seen : r < c
      /\ {queue[i] : i \in 1 .. k + 1} = seen \cup {c}
  <2>1. /\ k + 1 \in DOMAIN queue /\ 1 \in 1 .. k
        /\ \A i \in 1 .. k : i \in DOMAIN queue /\ i < k + 1 /\ queue[i] \in Request
    OBVIOUS
  <2>2. 1 .. k + 1 = 1 .. k \cup {k + 1}
    OBVIOUS
  <2> QED
    BY <2>1, <2>2 DEF Ascending
<1>2. /\ Ascending(s.batch) /\ Ascending(s.rest)
      /\ taken \cup left = seen /\ taken \cap left = {}
      /\ queue[1] \in taken
      /\ s.options = shape[queue[1]].options
      /\ s.items = Items(taken)
      /\ \E r \in taken : s.length = shape[r].length
      /\ \A r \in taken : shape[r].length <= s.length
      /\ \A r \in seen \ {queue[1]} : r \in taken <=> Joins(queue, taken, r)
  <2>1. (k - 1) + 1 = k
    OBVIOUS
  <2> QED
    BY <2>1, Zenon DEF Scanned
<1>3. /\ next \in ScanState /\ next.options = s.options
      /\ fits => /\ next.batch = Append(s.batch, c) /\ next.rest = s.rest
                 /\ next.items = items /\ next.length = length
      /\ ~fits => /\ next.batch = s.batch /\ next.rest = Append(s.rest, c)
                  /\ next.items = s.items /\ next.length = s.length
  BY <1>1, ConsiderIs, Zenon
<1>4. /\ s.batch \in Seq(Request) /\ s.rest \in Seq(Request)
      /\ s.items \in Nat /\ s.length \in Nat
      /\ taken \subseteq Request /\ left \subseteq Request
      /\ c \notin seen /\ c \notin taken /\ c \notin left
  <2> HIDE DEF c, seen, taken, left
  <2>1. c \in Int /\ c \notin seen
    BY <1>1 DEF Request
  <2>2. taken \subseteq seen /\ left \subseteq seen
    BY <1>2, Zenon
  <2>3. /\ s.batch \in Seq(Request) /\ s.rest \in Seq(Request)
        /\ s.items \in Nat /\ s.length \in Nat
    BY Zenon DEF ScanState
  <2> QED
    BY <1>1, <2>1, <2>2, <2>3, Zenon
<1>5. shape[c].items \in Nat /\ \A r \in Request : shape[r].length \in Nat
  BY <1>1, InputsAre, Zenon
<1> HIDE DEF c, next, seen, taken, left
<1>6. Items(taken \cup {c}) = items
  BY <1>1, <1>2, <1>4, OneMoreRequest, Zenon
<1>7. /\ Length(taken \cup {c}) = length
      /\ \E r \in taken \cup {c} : length = shape[r].length
      /\ \A r \in taken \cup {c} : shape[r].length <= length
  <2> DEFINE S == {shape[r].length : r \in taken \cup {c}}
  <2>1. length = IF s.length >= shape[c].length THEN s.length ELSE shape[c].length
    BY <1>1, <1>4, <1>5, LargerIs, Zenon
  <2> HIDE DEF length
  <2>2. \E r \in taken \cup {c} : length = shape[r].length
    BY <1>2, <2>1, Zenon
  <2>3. \A r \in taken \cup {c} : shape[r].length <= length
    <3>1. shape[c].length \in Nat /\ s.length \in Nat /\ \A r \in taken : shape[r].length \in Nat
      BY <1>1, <1>4, <1>5, Zenon
    <3>2. \A r \in taken : shape[r].length <= s.length
      BY <1>2, Zenon
    <3>3. shape[c].length <= length /\ s.length <= length /\ length \in Nat
      BY <2>1, <3>1
    <3>4. ASSUME NEW r \in taken
          PROVE  shape[r].length <= length
      BY <3>1, <3>2, <3>3
    <3> QED
      BY <3>3, <3>4, Zenon
  <2>4. S \in SUBSET Nat /\ length \in S /\ \A n \in S : n <= length
    BY <1>1, <1>4, <1>5, <2>2, <2>3, Zenon
  <2>5. Max(S) = length
    <3> HIDE DEF S
    <3> QED
      BY <2>4, LargestIs, Zenon
  <2> QED
    BY <2>2, <2>3, <2>5, Zenon DEF Length
<1>8. {r \in taken : r < c} \cup {c} = taken \cup {c}
  BY <1>1, <1>2, Zenon
<1>9. fits <=> Joins(queue, taken, c)
  <2>1. Head(queue) = queue[1]
    OBVIOUS
  <2> HIDE DEF items, length
  <2> QED
    BY <1>2, <1>6, <1>7, <1>8, <2>1, Zenon DEF Joins
<1>10. CASE fits
  <2>1. /\ Ascending(next.batch) /\ Ascending(next.rest)
        /\ Range(next.batch) = taken \cup {c} /\ Range(next.rest) = left
    <3>1. next.batch = Append(s.batch, c) /\ next.rest = s.rest
      BY <1>3, <1>10, Zenon
    <3>2. \A r \in taken : r < c
      BY <1>1, <1>2, Zenon
    <3>3. /\ Range(Append(s.batch, c)) = taken \cup {c}
          /\ Ascending(Append(s.batch, c))
      BY <1>1, <1>2, <1>4, <3>2, AppendRequest, Zenon DEF taken
    <3> QED
      BY <1>2, <3>1, <3>3, Zenon DEF left
  <2>2. /\ (taken \cup {c}) \cup left = seen \cup {c} /\ (taken \cup {c}) \cap left = {}
        /\ queue[1] \in taken \cup {c}
    BY <1>2, <1>4, Zenon
  <2>3. next.items = Items(taken \cup {c}) /\ next.length = length
    BY <1>3, <1>6, <1>10, Zenon
  <2>4. ASSUME NEW r \in (seen \cup {c}) \ {queue[1]}
        PROVE  r \in taken \cup {c} <=> Joins(queue, taken \cup {c}, r)
    <3>1. r \in Request /\ r <= c
      <4>1. c \in Int
        BY <1>1 DEF Request
      <4>2. CASE r = c
        BY <1>1, <4>1, <4>2
      <4>3. CASE r \in seen
        <5>1. r \in Request /\ r < c
          BY <1>1, <4>3, Zenon
        <5>2. r \in Int
          BY <5>1 DEF Request
        <5> QED
          BY <4>1, <5>1, <5>2
      <4> QED
        BY <4>2, <4>3, Zenon
    <3>2. Joins(queue, taken \cup {c}, r) <=> Joins(queue, taken, r)
      BY <1>1, <1>4, <3>1, JoinsOlder, Zenon
    <3>3. CASE r = c
      BY <1>9, <1>10, <3>2, <3>3, Zenon
    <3>4. CASE r # c
      BY <1>2, <3>2, <3>4, Zenon
    <3> QED
      BY <3>3, <3>4, Zenon
  <2> HIDE DEF items, length, fits
  <2>5. /\ \E r \in taken \cup {c} : next.length = shape[r].length
        /\ \A r \in taken \cup {c} : shape[r].length <= next.length
        /\ next.options = shape[queue[1]].options
    BY <1>2, <1>3, <1>7, <2>3, Zenon
  <2>6. Scanned(queue, k, next)
    <3> DEFINE now == taken \cup {c}
    <3>1. /\ Range(next.batch) = now /\ Range(next.rest) = left
          /\ {queue[i] : i \in 1 .. k + 1} = seen \cup {c}
      BY <1>1, <2>1, Zenon
    <3> HIDE DEF now
    <3> QED
      BY <2>1, <2>2, <2>3, <2>4, <2>5, <3>1, Zenon DEF Scanned, now
  <2> QED
    BY <2>6, Zenon DEF c, next
<1>11. CASE ~fits
  <2>1. /\ Ascending(next.batch) /\ Ascending(next.rest)
        /\ Range(next.batch) = taken /\ Range(next.rest) = left \cup {c}
    <3>1. \A r \in left : r < c
      BY <1>1, <1>2, Zenon
    <3> QED
      <4>1. next.batch = s.batch /\ next.rest = Append(s.rest, c)
        BY <1>3, <1>11, Zenon
      <4>2. Range(Append(s.rest, c)) = left \cup {c} /\ Ascending(Append(s.rest, c))
        BY <1>1, <1>2, <1>4, <3>1, AppendRequest, Zenon DEF left
      <4> QED
        BY <1>2, <4>1, <4>2, Zenon DEF taken
  <2>2. taken \cup (left \cup {c}) = seen \cup {c} /\ taken \cap (left \cup {c}) = {}
    BY <1>2, <1>4, Zenon
  <2>3. next.items = Items(taken) /\ next.length = s.length
    BY <1>2, <1>3, <1>11, Zenon
  <2>4. ASSUME NEW r \in (seen \cup {c}) \ {queue[1]}
        PROVE  r \in taken <=> Joins(queue, taken, r)
    BY <1>2, <1>4, <1>9, <1>11, Zenon
  <2> HIDE DEF items, length, fits
  <2> QED
    BY <1>1, <1>2, <1>3, <2>1, <2>2, <2>3, <2>4, Zenon DEF Scanned, c, next
<1> QED
  BY <1>10, <1>11, Zenon

\* The batch that is formed from an ascending queue is the greedy one, and what is left
\* of the queue is the rest, in order.
LEMMA FormBatchIs ==
    ASSUME shape \in [Request -> Shape],
           NEW queue \in Seq(Request), queue # <<>>, Ascending(queue)
    PROVE  LET formed == FormBatch(queue) IN
           /\ formed \in ScanState
           /\ Ascending(formed.batch) /\ Ascending(formed.rest)
           /\ Range(formed.batch) \cup Range(formed.rest) = Range(queue)
           /\ Range(formed.batch) \cap Range(formed.rest) = {}
           /\ GreedyBatch(queue, Range(formed.batch))
<1> DEFINE len == Len(queue) - 1
           scan == Scan(queue)
           S == {k \in 0 .. len : Scanned(queue, k, scan[k])}
<1>0. /\ len \in Nat /\ len + 1 = Len(queue) /\ DOMAIN queue = 1 .. Len(queue)
      /\ queue[1] \in Request /\ Head(queue) = queue[1]
  OBVIOUS
<1>1. /\ scan \in [0 .. len -> ScanState]
      /\ scan[0] = First(queue)
      /\ \A k \in 1 .. len : scan[k] = Consider(scan[k - 1], queue[k + 1])
  BY ScanAre, Zenon
<1> HIDE DEF scan
<1>2. 0 \in S
  <2> DEFINE q == queue[1]
             s == First(queue)
  <2>1. {queue[i] : i \in 1 .. 0 + 1} = {q}
    OBVIOUS
  <2>2. /\ s.batch = <<q>> /\ s.rest = <<>> /\ s.options = shape[q].options
        /\ s.items = shape[q].items /\ s.length = shape[q].length
    BY Zenon DEF First
  <2>3. /\ Range(<<q>>) = {q} /\ Range(<<>>) = {}
        /\ Ascending(<<q>>) /\ Ascending(<<>>)
    BY DEF Range, Ascending
  <2>4. Items({q}) = shape[q].items /\ shape[q].length \in Nat
    BY <1>0, OneRequest, InputsAre, Zenon
  <2>5. shape[q].length <= shape[q].length
    BY <2>4
  <2> HIDE DEF q, s
  <2>6. Scanned(queue, 0, s)
    BY <2>1, <2>2, <2>3, <2>4, <2>5, Zenon DEF Scanned, q
  <2> QED
    BY <1>0, <1>1, <2>6 DEF s
<1>3. ASSUME NEW k \in 1 .. len, k - 1 \in S
      PROVE  k \in S
  <2>1. k \in 0 .. len /\ scan[k - 1] \in ScanState
    <3>1. k \in 0 .. len /\ k - 1 \in 0 .. len
      BY <1>0
    <3> QED
      BY <1>1, <3>1, Zenon
  <2>2. Scanned(queue, k, Consider(scan[k - 1], queue[k + 1]))
    BY <1>3, <2>1, ConsiderKeeps, Zenon
  <2> QED
    BY <1>1, <2>1, <2>2, Zenon
<1>4. Scanned(queue, len, scan[len]) /\ scan[len] \in ScanState
  <2>1. 0 .. len \subseteq S
    <3> HIDE DEF S, len
    <3> QED
      BY <1>0, <1>2, <1>3, BoundedInduction, Zenon
  <2> HIDE DEF len
  <2>2. len \in 0 .. len
    BY <1>0
  <2>3. scan[len] \in ScanState
    BY <1>1, <2>2, Zenon
  <2> QED
    BY <2>1, <2>2, <2>3, Zenon
<1>5. FormBatch(queue) = scan[len]
  BY Zenon DEF FormBatch, scan
<1>6. {queue[i] : i \in 1 .. len + 1} = Range(queue)
  BY <1>0, Zenon DEF Range
<1> HIDE DEF len
<1> QED
  BY <1>0, <1>4, <1>5, <1>6, Zenon DEF Scanned, GreedyBatch

\* A request appears once in an ascending queue.
LEMMA AscendingOnce ==
    ASSUME NEW s \in Seq(Request), Ascending(s)
    PROVE  IsInjective(s)
<1> SUFFICES ASSUME NEW i \in DOMAIN s, NEW k \in DOMAIN s, s[i] = s[k]
             PROVE  i = k
  BY Zenon DEF IsInjective
<1>1. /\ i \in Nat /\ k \in Nat
      /\ s[i] \in Int
  BY PlannerAssumption DEF Request
<1>2. i < k => s[i] < s[k]
  BY Zenon DEF Ascending
<1>3. k < i => s[k] < s[i]
  BY Zenon DEF Ascending
<1> QED
  BY <1>1, <1>2, <1>3

\* Some requests are sent an error, the others nothing.
Refused(rs, sent) ==
    /\ sent \in [Request -> Answer]
    /\ \A r \in Request \ rs : sent[r] = answer[r]
    /\ \A r \in rs : sent[r].code # "none" /\ sent[r].code # "ok"

\* What fail_requests answers.
LEMMA FailIs ==
    ASSUME answer \in [Request -> Answer], NEW rs \in SUBSET Request,
           NEW code \in Code \ {"none", "ok"}
    PROVE  Refused(rs, Fail(rs, code))
<1>1. \A c \in Code : Says(c) \in Answer /\ Says(c).code = c
  BY DEF Says, Answer
<1>2. "control" \in Code /\ "control" \notin {"none", "ok"}
  BY Zenon DEF Code
<1> DEFINE Said(r) == Says(IF r \in inactive THEN "control" ELSE code)
<1>3. \A r : Said(r) \in Answer /\ Said(r).code \notin {"none", "ok"}
  BY <1>1, <1>2, Zenon
<1> HIDE DEF Said
<1>4. Fail(rs, code) = [r \in Request |-> IF r \notin rs THEN answer[r] ELSE Said(r)]
  BY Zenon DEF Fail, Said
<1> QED
  BY <1>3, <1>4, Zenon DEF Refused

-----------------------------------------------------------------------------
(* The invariant.                                                              *)

BatchTypes ==
    /\ gathered \in BOOLEAN
    /\ shape \in [Request -> Shape]
    /\ pending \in Seq(Request)
    /\ jobs \in SUBSET [members : Seq(Request), running : BOOLEAN]
    /\ inactive \in SUBSET Request
    /\ answer \in [Request -> Answer]

\* The deque has no request twice, and after the window it is sorted.
QueueInv ==
    IsInjective(pending) /\ (gathered => Ascending(pending))

\* A batch has members, none of them twice, in another batch or in the deque.
JobInv ==
    /\ \A j \in jobs : /\ j.members # <<>> /\ IsInjective(j.members)
                       /\ Range(j.members) \cap Range(pending) = {}
    /\ \A i, j \in jobs : i # j => Range(i.members) \cap Range(j.members) = {}

\* The request is in the deque or in a batch.
Waits(r) == r \in Range(pending) \/ \E j \in jobs : r \in Range(j.members)

\* A request waits until it is answered, and a success has its vectors.
AnswerInv ==
    \A r \in Request :
        /\ answer[r].code = "none" <=> Waits(r)
        /\ answer[r].code = "ok" => answer[r].vectors = Inputs(r)

BatchInv == BatchTypes /\ QueueInv /\ JobInv /\ AnswerInv

\* The first states.
LEMMA BatchInit == Init => BatchInv
<1> SUFFICES ASSUME Init
             PROVE  BatchInv
  BY Zenon
<1>1. pending \in [Request -> Request] /\ IsInjective(pending)
      /\ \A r \in Request : \E i \in Request : pending[i] = r
  <2>1. pending \in Bijection(Request, Request)
    BY Zenon DEF Init
  <2> QED
    BY <2>1, ZenonT(30) DEF Bijection, Injection, Surjection
<1>2. pending \in Seq(Request)
  <2>1. N \in Nat /\ Request = 1 .. N
    BY PlannerAssumption, Zenon DEF Request
  <2> QED
    BY <1>1, <2>1, SMTT(30)
<1>3. Says("none") \in Answer /\ Says("none").code = "none"
  BY DEF Says, Answer, Code
<1>4. \A r \in Request : r \in Range(pending)
  BY <1>1, Zenon DEF Range
<1>5. BatchTypes
  BY <1>2, <1>3, Zenon DEF Init, BatchTypes
<1>6. QueueInv /\ JobInv
  BY <1>1, Zenon DEF Init, QueueInv, JobInv
<1>7. AnswerInv
  BY <1>3, <1>4, Zenon DEF Init, AnswerInv, Waits
<1> QED
  BY <1>5, <1>6, <1>7, Zenon DEF BatchInv

\* Sorting the deque.
LEMMA GatherKeeps == BatchInv /\ Gather => BatchInv'
<1> SUFFICES ASSUME BatchInv, Gather
             PROVE  BatchInv'
  BY Zenon
<1>1. PICK order \in Bijection(DOMAIN pending, DOMAIN pending) :
          pending' = [i \in DOMAIN pending |-> pending[order[i]]]
  BY Zenon DEF Gather
<1>2. /\ DOMAIN pending = 1 .. Len(pending) /\ Len(pending) \in Nat
      /\ \A i \in DOMAIN pending : pending[i] \in Request
  BY DEF BatchInv, BatchTypes
<1>3. /\ order \in [DOMAIN pending -> DOMAIN pending] /\ IsInjective(order)
      /\ \A i \in DOMAIN pending : \E k \in DOMAIN pending : order[k] = i
  BY <1>1, Zenon DEF Bijection, Injection, Surjection
<1>4. pending' \in Seq(Request) /\ DOMAIN pending' = DOMAIN pending
  BY <1>1, <1>2, <1>3
<1>5. Range(pending') = Range(pending)
  BY <1>1, <1>3, <1>4, Zenon DEF Range
<1>6. IsInjective(pending')
  BY <1>1, <1>3, <1>4 DEF BatchInv, QueueInv, IsInjective
<1>7. Ascending(pending') /\ gathered' = TRUE
  BY Zenon DEF Gather
<1>8. UNCHANGED <<shape, jobs, inactive, answer>>
  BY Zenon DEF Gather
<1>9. BatchTypes'
  BY <1>4, <1>7, <1>8, Zenon DEF BatchInv, BatchTypes
<1>10. QueueInv'
  BY <1>6, <1>7, Zenon DEF QueueInv
<1>11. JobInv'
  BY <1>5, <1>8, Zenon DEF BatchInv, JobInv
<1>12. AnswerInv'
  BY <1>5, <1>8, Zenon DEF BatchInv, AnswerInv, Waits, Inputs
<1> QED
  BY <1>9, <1>10, <1>11, <1>12, Zenon DEF BatchInv

\* A cancellation or a deadline.
LEMMA DeactivateKeeps ==
    ASSUME BatchInv, NEW r \in Request, Deactivate(r)
    PROVE  BatchInv'
<1>1. UNCHANGED <<gathered, shape, pending, jobs, answer>> /\ inactive' = inactive \cup {r}
  BY Zenon DEF Deactivate
<1>2. BatchTypes'
  BY <1>1, Zenon DEF BatchInv, BatchTypes
<1>3. QueueInv' /\ JobInv' /\ AnswerInv'
  BY <1>1, Zenon DEF BatchInv, QueueInv, JobInv, AnswerInv, Waits, Inputs
<1> QED
  BY <1>2, <1>3, Zenon DEF BatchInv

\* Who leaves the deque or a batch is answered, the others are not.
LEMMA PlacesKept ==
    ASSUME AnswerInv, shape' = shape, NEW rs \in SUBSET Request,
           \A r \in Request : Waits(r)' <=> Waits(r) /\ r \notin rs,
           \A r \in Request \ rs : answer'[r] = answer[r],
           \A r \in rs : /\ answer'[r].code # "none"
                         /\ answer'[r].code = "ok" => answer'[r].vectors = Inputs(r)
    PROVE  AnswerInv'
<1>1. \A r \in Request : Inputs(r)' = Inputs(r)
  BY Zenon DEF Inputs
<1> SUFFICES ASSUME NEW r \in Request
             PROVE  /\ answer'[r].code = "none" <=> Waits(r)'
                    /\ answer'[r].code = "ok" => answer'[r].vectors = Inputs(r)'
  BY Zenon DEF AnswerInv
<1>2. CASE r \in rs
  BY <1>1, <1>2, Zenon
<1>3. CASE r \notin rs
  BY <1>1, <1>3, Zenon DEF AnswerInv
<1> QED
  BY <1>2, <1>3, Zenon

\* The deque without its first request.
LEMMA TailIs ==
    ASSUME NEW s \in Seq(Request), s # <<>>, IsInjective(s)
    PROVE  /\ Tail(s) \in Seq(Request) /\ IsInjective(Tail(s))
           /\ Head(s) \in Range(s) /\ Range(Tail(s)) = Range(s) \ {Head(s)}
           /\ Ascending(s) => Ascending(Tail(s))
<1> DEFINE t == Tail(s)
           n == Len(s)
<1>1. /\ n \in Nat \ {0} /\ DOMAIN s = 1 .. n /\ Head(s) = s[1]
      /\ t \in Seq(Request) /\ DOMAIN t = 1 .. n - 1
      /\ \A i \in 1 .. n - 1 : t[i] = s[i + 1]
  OBVIOUS
<1> HIDE DEF t, n
<1>a. \A i \in 1 .. n - 1 : i \in Nat /\ i + 1 \in 1 .. n
  BY <1>1
<1>2. IsInjective(t)
  <2> SUFFICES ASSUME NEW i \in 1 .. n - 1, NEW k \in 1 .. n - 1, t[i] = t[k]
               PROVE  i = k
    BY <1>1, Zenon DEF IsInjective
  <2>1. i + 1 = k + 1
    <3>1. i + 1 \in DOMAIN s /\ k + 1 \in DOMAIN s /\ s[i + 1] = s[k + 1]
      BY <1>1, <1>a, Zenon
    <3> QED
      BY <3>1, Zenon DEF IsInjective
  <2> QED
    BY <1>1, <2>1
<1>3. ASSUME Ascending(s)
      PROVE  Ascending(t)
  <2> SUFFICES ASSUME NEW i \in 1 .. n - 1, NEW k \in 1 .. n - 1, i < k
               PROVE  t[i] < t[k]
    BY <1>1, Zenon DEF Ascending
  <2>1. i + 1 < k + 1
    BY <1>1
  <2> QED
    BY <1>1, <1>3, <1>a, <2>1, Zenon DEF Ascending
<1>4. Head(s) \in Range(s)
  BY <1>1 DEF Range
<1>5. Range(t) = Range(s) \ {Head(s)}
  <2>1. ASSUME NEW x \in Range(t)
        PROVE  x \in Range(s) \ {Head(s)}
    <3>1. PICK i \in 1 .. n - 1 : x = t[i]
      BY <1>1, <2>1, Zenon DEF Range
    <3>2. i + 1 \in 1 .. n /\ i + 1 # 1 /\ 1 \in 1 .. n /\ x = s[i + 1]
      BY <1>1, <3>1
    <3> QED
      BY <1>1, <3>2, Zenon DEF Range, IsInjective
  <2>2. ASSUME NEW x \in Range(s), x # Head(s)
        PROVE  x \in Range(t)
    <3>1. PICK i \in 1 .. n : x = s[i]
      BY <1>1, <2>2, Zenon DEF Range
    <3>2. i - 1 \in 1 .. n - 1 /\ t[i - 1] = s[i]
      BY <1>1, <2>2, <3>1
    <3> QED
      BY <1>1, <3>1, <3>2, Zenon DEF Range
  <2> QED
    BY <2>1, <2>2, Zenon
<1> QED
  BY <1>1, <1>2, <1>3, <1>4, <1>5, Zenon DEF t

\* An inactive request, a batch that the pool takes and one that it refuses.
LEMMA DispatchKeeps ==
    ASSUME BatchInv, Dispatch
    PROVE  BatchInv'
<1>1. /\ gathered = TRUE /\ pending # <<>> /\ UNCHANGED <<gathered, shape, inactive>>
  BY Zenon DEF Dispatch, BatchInv, BatchTypes
<1>2. /\ BatchTypes /\ QueueInv /\ JobInv /\ AnswerInv
      /\ pending \in Seq(Request) /\ IsInjective(pending) /\ Ascending(pending)
      /\ shape \in [Request -> Shape] /\ answer \in [Request -> Answer]
      /\ jobs \in SUBSET [members : Seq(Request), running : BOOLEAN]
      /\ inactive \in SUBSET Request
  BY <1>1, Zenon DEF BatchInv, BatchTypes, QueueInv
<1>5. AnswerInv /\ shape' = shape
  BY <1>1, <1>2, Zenon
<1>6. answer \in [Request -> Answer]
  BY <1>2, Zenon
<1> DEFINE h == Head(pending)
           formed == FormBatch(pending)
           taken == Range(formed.batch)
<1>3. CASE h \in inactive
  <2>1. answer' = Fail({h}, "control") /\ pending' = Tail(pending) /\ jobs' = jobs
    BY <1>3, Zenon DEF Dispatch
  <2>2. /\ pending' \in Seq(Request) /\ IsInjective(pending') /\ Ascending(pending')
        /\ h \in Range(pending) /\ Range(pending') = Range(pending) \ {h}
    BY <1>1, <1>2, <2>1, TailIs, Zenon
  <2>3. h \in Request
    BY <1>1, <1>2
  <2> HIDE DEF h
  <2>4. /\ answer' \in [Request -> Answer]
        /\ \A r \in Request \ {h} : answer'[r] = answer[r]
        /\ answer'[h].code \notin {"none", "ok"}
    <3>1. "control" \in Code \ {"none", "ok"} /\ {h} \in SUBSET Request
      BY <2>3, Zenon DEF Code
    <3>2. /\ answer' \in [Request -> Answer]
          /\ \A r \in Request \ {h} : answer'[r] = answer[r]
          /\ \A r \in {h} : answer'[r].code \notin {"none", "ok"}
      <4> DEFINE rs == {h}
      <4> HIDE DEF rs
      <4>1. rs \in SUBSET Request /\ answer' = Fail(rs, "control")
        BY <2>1, <3>1, Zenon DEF rs
      <4>2. Refused(rs, answer')
        BY <1>6, <3>1, <4>1, FailIs, Zenon
      <4> QED
        BY <4>2, Zenon DEF Refused, rs
    <3> QED
      BY <3>2, Zenon
  <2>5. BatchTypes'
    BY <1>1, <1>2, <2>1, <2>2, <2>4, Zenon DEF BatchTypes
  <2>6. QueueInv'
    BY <2>2, Zenon DEF QueueInv
  <2>7. JobInv'
    BY <1>2, <2>1, <2>2, Zenon DEF JobInv
  <2>8. \A r \in Request : Waits(r)' <=> Waits(r) /\ r \notin {h}
    BY <1>2, <2>1, <2>2, Zenon DEF Waits, JobInv
  <2>9. AnswerInv'
    <3>1. /\ {h} \in SUBSET Request
          /\ \A r \in {h} : answer'[r].code # "none" /\ answer'[r].code # "ok"
      BY <2>3, <2>4, Zenon
    <3> QED
      BY <1>5, <2>4, <2>8, <3>1, PlacesKept, Zenon
  <2> QED
    BY <2>5, <2>6, <2>7, <2>9, Zenon DEF BatchInv
<1>4. CASE h \notin inactive
  <2>1. /\ pending' = formed.rest
        /\ \/ /\ jobs' = jobs \cup {[members |-> formed.batch, running |-> FALSE]}
              /\ answer' = answer
           \/ answer' = Fail(taken, "queue_full") /\ jobs' = jobs
    BY <1>4, Zenon DEF Dispatch
  <2>2. /\ formed.batch \in Seq(Request) /\ formed.rest \in Seq(Request)
        /\ Ascending(formed.batch) /\ Ascending(formed.rest)
        /\ taken \cup Range(formed.rest) = Range(pending)
        /\ taken \cap Range(formed.rest) = {}
        /\ h \in taken
    <3>1. /\ formed \in ScanState
          /\ Ascending(formed.batch) /\ Ascending(formed.rest)
          /\ taken \cup Range(formed.rest) = Range(pending)
          /\ taken \cap Range(formed.rest) = {}
          /\ GreedyBatch(pending, taken)
      BY <1>1, <1>2, FormBatchIs, Zenon
    <3> HIDE DEF formed, taken
    <3>2. formed.batch \in Seq(Request) /\ formed.rest \in Seq(Request)
      BY <3>1, Zenon DEF ScanState
    <3> QED
      BY <3>1, <3>2, Zenon DEF GreedyBatch
  <2>3. IsInjective(formed.batch) /\ IsInjective(formed.rest) /\ formed.batch # <<>>
    <3>1. formed.batch # <<>>
      <4> HIDE DEF formed, h
      <4> QED
        BY <2>2 DEF Range
    <3> HIDE DEF formed
    <3> QED
      BY <2>2, <3>1, AscendingOnce, Zenon
  <2> HIDE DEF formed, h
  <2>4. taken \subseteq Request
    BY <2>2 DEF Range
  <2> HIDE DEF taken
  <2>5. QueueInv'
    BY <2>1, <2>2, <2>3, Zenon DEF QueueInv
  <2>6. CASE /\ jobs' = jobs \cup {[members |-> formed.batch, running |-> FALSE]}
             /\ answer' = answer
    <3> DEFINE job == [members |-> formed.batch, running |-> FALSE]
    <3>1. /\ job \in [members : Seq(Request), running : BOOLEAN]
          /\ job.members = formed.batch
      BY <2>2, ZenonT(30)
    <3> HIDE DEF job
    <3>2. jobs' = jobs \cup {job}
      BY <2>6, Zenon DEF job
    <3>3. BatchTypes'
      BY <1>1, <1>2, <2>1, <2>2, <2>6, <3>1, <3>2, Zenon DEF BatchTypes
    <3>4. JobInv'
      <4>1. \A j \in jobs : Range(j.members) \cap taken = {}
        BY <1>2, <2>2, Zenon DEF JobInv
      <4>2. ASSUME NEW j \in jobs'
            PROVE  /\ j.members # <<>> /\ IsInjective(j.members)
                   /\ Range(j.members) \cap Range(pending') = {}
        BY <1>2, <2>1, <2>2, <2>3, <3>1, <3>2, Zenon DEF JobInv, taken
      <4>3. ASSUME NEW i \in jobs', NEW j \in jobs', i # j
            PROVE  Range(i.members) \cap Range(j.members) = {}
        BY <1>2, <3>1, <3>2, <4>1, <4>3, Zenon DEF JobInv, taken
      <4> QED
        BY <4>2, <4>3, Zenon DEF JobInv
    <3>5. \A r \in Request : Waits(r)' <=> Waits(r)
      BY <2>1, <2>2, <3>1, <3>2, Zenon DEF Waits, taken
    <3>6. AnswerInv'
      <4>1. \A r \in Request : Inputs(r)' = Inputs(r)
        BY <1>5, Zenon DEF Inputs
      <4> QED
        BY <1>5, <2>6, <3>5, <4>1, Zenon DEF AnswerInv
    <3> QED
      BY <2>5, <3>3, <3>4, <3>6, Zenon DEF BatchInv
  <2>7. CASE answer' = Fail(taken, "queue_full") /\ jobs' = jobs
    <3>1. /\ answer' \in [Request -> Answer]
          /\ \A r \in Request \ taken : answer'[r] = answer[r]
          /\ \A r \in taken : answer'[r].code \notin {"none", "ok"}
      <4>1. "queue_full" \in Code \ {"none", "ok"}
        BY Zenon DEF Code
      <4>2. Refused(taken, answer')
        BY <1>6, <2>4, <2>7, <4>1, FailIs, Zenon
      <4> QED
        BY <4>2, Zenon DEF Refused
    <3>2. BatchTypes'
      BY <1>1, <1>2, <2>1, <2>2, <2>7, <3>1, Zenon DEF BatchTypes
    <3>3. JobInv'
      BY <1>2, <2>1, <2>2, <2>7, Zenon DEF JobInv
    <3>4. \A r \in Request : Waits(r)' <=> Waits(r) /\ r \notin taken
      BY <1>2, <2>1, <2>2, <2>7, Zenon DEF Waits, JobInv
    <3>5. AnswerInv'
      <4>1. /\ taken \in SUBSET Request
            /\ \A r \in taken : answer'[r].code # "none" /\ answer'[r].code # "ok"
        BY <2>4, <3>1, Zenon
      <4> QED
        BY <1>5, <3>1, <3>4, <4>1, PlacesKept, Zenon
    <3> QED
      BY <2>5, <3>2, <3>3, <3>5, Zenon DEF BatchInv
  <2> QED
    BY <2>1, <2>6, <2>7, Zenon
<1> QED
  BY <1>3, <1>4, Zenon

\* The members that became inactive fall out of the batch.
LEMMA ExecuteKeeps ==
    ASSUME BatchInv, NEW j \in jobs, Execute(j)
    PROVE  BatchInv'
<1>1. /\ AnswerInv /\ shape' = shape /\ answer \in [Request -> Answer]
      /\ UNCHANGED <<gathered, pending, inactive>>
  BY Zenon DEF Execute, BatchInv, BatchTypes
<1>2. /\ j.members \in Seq(Request) /\ j.members # <<>> /\ IsInjective(j.members)
      /\ Range(j.members) \cap Range(pending) = {}
  BY Zenon DEF BatchInv, BatchTypes, JobInv
<1> DEFINE active == Active(j.members)
           gone == Range(j.members) \cap inactive
<1>3. /\ active \in Seq(Request) /\ IsInjective(active)
      /\ Range(active) = Range(j.members) \ inactive
  BY <1>2, ActiveAre, Zenon
<1>4. /\ answer' = Fail(gone, "control")
      /\ jobs' = (jobs \ {j}) \cup
                   IF active = <<>> THEN {} ELSE {[members |-> active, running |-> TRUE]}
  BY Zenon DEF Execute
<1>5. gone \in SUBSET Request /\ "control" \in Code \ {"none", "ok"}
  BY Zenon DEF BatchInv, BatchTypes, Code
<1> HIDE DEF active, gone
<1>6. Refused(gone, answer')
  BY <1>1, <1>4, <1>5, FailIs, Zenon
<1> DEFINE job == [members |-> active, running |-> TRUE]
<1>7. /\ job \in [members : Seq(Request), running : BOOLEAN] /\ job.members = active
  BY <1>3, Zenon
<1>8. /\ \A i \in jobs' : i = job \/ i \in jobs \ {j}
      /\ job \in jobs' => active # <<>> \/ job \in jobs \ {j}
      /\ active # <<>> => job \in jobs'
      /\ jobs \ {j} \subseteq jobs'
  BY <1>4, Zenon
<1>9. Range(active) \subseteq Range(j.members)
  BY <1>3, Zenon
<1>a. active = <<>> => Range(active) = {}
  BY DEF Range
<1> HIDE DEF job
<1>10. BatchTypes'
  <2>1. jobs' \in SUBSET [members : Seq(Request), running : BOOLEAN]
    BY <1>7, <1>8, Zenon DEF BatchInv, BatchTypes
  <2> QED
    BY <1>1, <1>6, <2>1, Zenon DEF BatchInv, BatchTypes, Refused
<1>11. QueueInv'
  BY <1>1, Zenon DEF BatchInv, QueueInv
<1>12. JobInv'
  <2>1. ASSUME NEW i \in jobs'
        PROVE  /\ i.members # <<>> /\ IsInjective(i.members)
               /\ Range(i.members) \cap Range(pending') = {}
    <3>1. CASE i \in jobs \ {j}
      BY <1>1, <3>1, Zenon DEF BatchInv, JobInv
    <3>2. CASE i = job /\ i \notin jobs \ {j}
      BY <1>1, <1>2, <1>3, <1>7, <1>8, <1>9, <2>1, <3>2, Zenon
    <3> QED
      BY <1>8, <2>1, <3>1, <3>2, Zenon
  <2>2. \A i \in jobs \ {j} : Range(i.members) \cap Range(active) = {}
    BY <1>9, Zenon DEF BatchInv, JobInv
  <2>3. ASSUME NEW i \in jobs', NEW k \in jobs', i # k
        PROVE  Range(i.members) \cap Range(k.members) = {}
    <3>1. CASE i \in jobs \ {j} /\ k \in jobs \ {j}
      BY <2>3, <3>1, Zenon DEF BatchInv, JobInv
    <3>2. CASE i \in jobs \ {j} /\ k = job
      BY <1>7, <2>2, <3>2, Zenon
    <3>3. CASE i = job /\ k \in jobs \ {j}
      BY <1>7, <2>2, <3>3, Zenon
    <3> QED
      BY <1>8, <2>3, <3>1, <3>2, <3>3, Zenon
  <2> QED
    BY <2>1, <2>3, Zenon DEF JobInv
<1>13. ASSUME NEW r \in Request
       PROVE  Waits(r)' <=> Waits(r) /\ r \notin gone
  <2>1. Waits(r) <=> \/ r \in Range(pending) \/ r \in Range(j.members)
                     \/ \E i \in jobs \ {j} : r \in Range(i.members)
    BY Zenon DEF Waits
  <2>2. Waits(r)' <=> \/ r \in Range(pending) \/ r \in Range(active)
                      \/ \E i \in jobs \ {j} : r \in Range(i.members)
    <3>1. (\E i \in jobs' : r \in Range(i.members)) <=>
              \/ r \in Range(active) \/ \E i \in jobs \ {j} : r \in Range(i.members)
      BY <1>7, <1>8, <1>a, Zenon
    <3> QED
      BY <1>1, <3>1, Zenon DEF Waits
  <2>3. r \in gone => /\ r \notin Range(pending)
                      /\ \A i \in jobs \ {j} : r \notin Range(i.members)
    BY <1>2, Zenon DEF gone, BatchInv, JobInv
  <2>4. r \in Range(active) <=> r \in Range(j.members) /\ r \notin gone
    BY <1>3, Zenon DEF gone
  <2> QED
    BY <2>1, <2>2, <2>3, <2>4, Zenon
<1>14. AnswerInv'
  BY <1>1, <1>5, <1>6, <1>13, PlacesKept, Zenon DEF Refused
<1> QED
  BY <1>10, <1>11, <1>12, <1>14, Zenon DEF BatchInv

\* A batch has a row for each input of its first member, and so some row.
LEMMA RowsOfBatch ==
    ASSUME shape \in [Request -> Shape],
           NEW members \in Seq(Request), members # <<>>
    PROVE  BatchInputs(members) \in Seq(Row) /\ BatchInputs(members) # <<>>
<1> DEFINE len == Len(members)
           last == LastInputs(members)
<1>1. len \in Nat \ {0} /\ members[1] \in Request /\ len \in 1 .. len /\ len - 1 \in 0 .. len
  OBVIOUS
<1>2. last \in [0 .. len -> Seq(Row)] /\ last[len] = Inputs(members[len - len + 1]) \o last[len - 1]
  BY <1>1, LastInputsAre, Zenon
<1>3. Inputs(members[1]) \in Seq(Row) /\ Len(Inputs(members[1])) # 0
  BY <1>1, InputsAre, Zenon
<1>4. BatchInputs(members) = last[len]
  BY Zenon DEF BatchInputs
<1> HIDE DEF last, len
<1>5. len - len + 1 = 1 /\ last[len - 1] \in Seq(Row)
  BY <1>1, <1>2
<1>6. last[len] = Inputs(members[1]) \o last[len - 1]
  BY <1>2, <1>5, Zenon
<1> QED
  BY <1>3, <1>4, <1>5, <1>6

\* What publish_results sends to the members of a batch.
LEMMA PublishSends ==
    ASSUME BatchInv, NEW j \in jobs, Publish(j)
    PROVE  /\ answer' \in [Request -> Answer]
           /\ \A r \in Request \ Range(j.members) : answer'[r] = answer[r]
           /\ \A r \in Range(j.members) :
                  /\ answer'[r].code # "none"
                  /\ answer'[r].code = "ok" => answer'[r].vectors = Inputs(r)
<1> DEFINE members == j.members
           rows == BatchInputs(members)
           rs == Range(members)
<1>1. /\ members \in Seq(Request) /\ members # <<>>
      /\ shape \in [Request -> Shape] /\ answer \in [Request -> Answer]
  BY Zenon DEF BatchInv, BatchTypes, JobInv
<1>2. rows \in Seq(Row) /\ rows # <<>>
  BY <1>1, RowsOfBatch, Zenon
<1>3. PICK vectors \in {rows, Tail(rows), Append(rows, Head(rows))} :
          answer' = IF Len(vectors) = Len(rows)
                      THEN Delivered(members, vectors)[Len(members)].answer
                      ELSE Fail(rs, "inference_failed")
  BY Zenon DEF Publish, EngineOutput, ValidOutput
<1>4. rs \in SUBSET Request /\ "inference_failed" \in Code \ {"none", "ok"}
  BY <1>1 DEF Range, Code
<1> HIDE DEF members, rows, rs
<1>5. Len(vectors) = Len(rows) => vectors = rows
  BY <1>2, <1>3
<1>6. CASE vectors = rows
  <2>1. answer' = [r \in Request |-> IF r \in rs THEN Reply(r) ELSE answer[r]]
    <3>1. answer' = Delivered(members, rows)[Len(members)].answer
      BY <1>3, <1>6, Zenon
    <3> QED
      BY <1>1, <3>1, DeliveredAre, Zenon DEF rs, rows
  <2>2. ASSUME NEW r \in Request
        PROVE  /\ Reply(r) \in Answer
               /\ Reply(r).code # "none"
               /\ Reply(r).code = "ok" => Reply(r).vectors = Inputs(r)
    <3>1. Inputs(r) \in Seq(Row)
      BY <1>1, InputsAre, Zenon
    <3> QED
      BY <3>1 DEF Reply, Says, Answer, Code
  <2> QED
    BY <1>1, <1>4, <2>1, <2>2, Zenon DEF rs, members
<1>7. CASE vectors # rows
  <2>1. Refused(rs, answer')
    <3>1. answer' = Fail(rs, "inference_failed")
      BY <1>3, <1>5, <1>7, Zenon
    <3> QED
      BY <1>1, <1>4, <3>1, FailIs, Zenon
  <2> QED
    BY <2>1, Zenon DEF Refused, rs, members
<1> QED
  BY <1>6, <1>7, Zenon

\* The rows of a batch, or the error of an engine that lost or made one.
LEMMA PublishKeeps ==
    ASSUME BatchInv, NEW j \in jobs, Publish(j)
    PROVE  BatchInv'
<1> DEFINE rs == Range(j.members)
<1>1. /\ AnswerInv /\ shape' = shape /\ jobs' = jobs \ {j}
      /\ UNCHANGED <<gathered, pending, inactive>>
  BY Zenon DEF Publish, BatchInv
<1>2. rs \in SUBSET Request /\ rs \cap Range(pending) = {}
  <2>1. j.members \in Seq(Request) /\ rs \cap Range(pending) = {}
    BY Zenon DEF BatchInv, BatchTypes, JobInv
  <2>2. rs \subseteq Request
    <3> DEFINE members == j.members
    <3> HIDE DEF members
    <3>1. members \in Seq(Request)
      BY <2>1, Zenon DEF members
    <3>2. Range(members) \subseteq Request
      BY <3>1 DEF Range
    <3> QED
      BY <3>2, Zenon DEF members
  <2> QED
    BY <2>1, <2>2, Zenon
<1>3. /\ answer' \in [Request -> Answer]
      /\ \A r \in Request \ rs : answer'[r] = answer[r]
      /\ \A r \in rs : /\ answer'[r].code # "none"
                       /\ answer'[r].code = "ok" => answer'[r].vectors = Inputs(r)
  BY PublishSends, Zenon
<1>4. BatchTypes'
  BY <1>1, <1>3, Zenon DEF BatchInv, BatchTypes
<1>5. QueueInv'
  BY <1>1, Zenon DEF BatchInv, QueueInv
<1>6. JobInv'
  BY <1>1, Zenon DEF BatchInv, JobInv
<1>7. \A r \in Request : Waits(r)' <=> Waits(r) /\ r \notin rs
  BY <1>1, <1>2, Zenon DEF Waits, BatchInv, JobInv
<1> HIDE DEF rs
<1>8. AnswerInv'
  BY <1>1, <1>2, <1>3, <1>7, PlacesKept, Zenon
<1> QED
  BY <1>4, <1>5, <1>6, <1>8, Zenon DEF BatchInv

\* Every step keeps the invariant.
LEMMA BatchNext ==
    BatchInv /\ [Next]_vars => BatchInv'
<1> SUFFICES ASSUME BatchInv, [Next]_vars
             PROVE  BatchInv'
  BY Zenon
<1>1. CASE Gather
  BY <1>1, GatherKeeps, Zenon
<1>2. CASE Dispatch
  BY <1>2, DispatchKeeps, Zenon
<1>3. CASE \E j \in jobs : Execute(j)
  BY <1>3, ExecuteKeeps, Zenon
<1>4. CASE \E j \in jobs : Publish(j)
  BY <1>4, PublishKeeps, Zenon
<1>5. CASE \E r \in Request : Deactivate(r)
  BY <1>5, DeactivateKeeps, Zenon
<1>6. CASE UNCHANGED vars
  BY <1>6, Zenon DEF vars, BatchInv, BatchTypes, QueueInv, JobInv, AnswerInv, Waits, Inputs
<1> QED
  BY <1>1, <1>2, <1>3, <1>4, <1>5, <1>6, Zenon DEF Next

\* The invariant, for every number of requests and every policy.
LEMMA BatchesInvariant == Spec => []BatchInv
<1>1. Init => BatchInv
  BY BatchInit, Zenon
<1>2. BatchInv /\ [Next]_vars => BatchInv'
  BY BatchNext, Zenon
<1> QED
  BY <1>1, <1>2, PTL DEF Spec

\* A set in which no two members differ has the cardinality of its emptiness.
LEMMA AtMostOne ==
    ASSUME NEW S, \A x, y \in S : x = y
    PROVE  Cardinality(S) = IF S = {} THEN 0 ELSE 1
<1>1. CASE S = {}
  BY <1>1, FS_EmptySet, Zenon
<1>2. CASE S # {}
  <2>1. PICK x \in S : TRUE
    BY <1>2, Zenon
  <2>2. S = {x}
    BY <2>1, Zenon
  <2> QED
    BY <1>2, <2>2, FS_Singleton, Zenon
<1> QED
  BY <1>1, <1>2, Zenon

\* Exactly one place for every request.
LEMMA BatchesAnswerOnce == BatchInv => OwnAnswerOnce
<1> SUFFICES ASSUME BatchInv
             PROVE  OwnAnswerOnce
  BY Zenon
<1>1. TypeOK
  BY DEF BatchInv, BatchTypes, TypeOK, Range, Answer, Code
<1>2. ASSUME NEW r \in Request
      PROVE  LET waiting == {i \in DOMAIN pending : pending[i] = r}
                 batched == {j \in jobs : r \in Range(j.members)}
                 answered == {a \in {answer[r].code} : a # "none"}
             IN  Cardinality(waiting) + Cardinality(batched) + Cardinality(answered) = 1
  <2> DEFINE waiting == {i \in DOMAIN pending : pending[i] = r}
             batched == {j \in jobs : r \in Range(j.members)}
             answered == {a \in {answer[r].code} : a # "none"}
  <2>1. Cardinality(waiting) = IF waiting = {} THEN 0 ELSE 1
    <3>1. \A x, y \in waiting : x = y
      BY Zenon DEF BatchInv, QueueInv, IsInjective
    <3> HIDE DEF waiting
    <3> QED
      BY <3>1, AtMostOne, Zenon
  <2>2. Cardinality(batched) = IF batched = {} THEN 0 ELSE 1
    <3>1. \A x, y \in batched : x = y
      BY Zenon DEF BatchInv, JobInv
    <3> HIDE DEF batched
    <3> QED
      BY <3>1, AtMostOne, Zenon
  <2>3. Cardinality(answered) = IF answered = {} THEN 0 ELSE 1
    <3>1. \A x, y \in answered : x = y
      BY Zenon
    <3> HIDE DEF answered
    <3> QED
      BY <3>1, AtMostOne, Zenon
  <2>4. waiting = {} <=> r \notin Range(pending)
    BY Zenon DEF Range
  <2>5. waiting = {} \/ batched = {}
    BY <2>4, Zenon DEF BatchInv, JobInv
  <2>6. answered = {} <=> ~(waiting = {} /\ batched = {})
    <3>1. answered = {} <=> answer[r].code = "none"
      BY Zenon
    <3>2. batched = {} <=> ~\E j \in jobs : r \in Range(j.members)
      BY Zenon
    <3> HIDE DEF waiting, batched, answered
    <3> QED
      BY <2>4, <3>1, <3>2, Zenon DEF BatchInv, AnswerInv, Waits
  <2> HIDE DEF waiting, batched, answered
  <2>7. Cardinality(waiting) + Cardinality(batched) + Cardinality(answered) = 1
    BY <2>1, <2>2, <2>3, <2>5, <2>6
  <2> QED
    BY <2>7, Zenon DEF waiting, batched, answered
<1>3. \A r \in Request : answer[r].code = "ok" => answer[r].vectors = Inputs(r)
  BY Zenon DEF BatchInv, AnswerInv
<1> QED
  BY <1>1, <1>2, <1>3, Zenon DEF OwnAnswerOnce

\* Every request gathered in a window is at any time in exactly one place, the deque, one
\* batch or its answer, and the vectors of an answer are those of its own inputs, in
\* order: run_scheduler, execute_batch and publish_results forget, duplicate and shift
\* none, however the requests are shaped and whichever become inactive when.
THEOREM RequestsAnsweredOnce == Spec => []OwnAnswerOnce
<1>1. BatchInv => OwnAnswerOnce
  BY BatchesAnswerOnce, Zenon
<1> QED
  BY <1>1, BatchesInvariant, PTL

\* What leaves the deque when its first request is active is the greedy batch.
LEMMA StepGreedy ==
    ASSUME BatchInv, Next, gathered, pending' # pending,
           Head(pending) \notin inactive
    PROVE  /\ GreedyBatch(pending, Range(pending) \ Range(pending'))
           /\ Ascending(pending')
<1> DEFINE formed == FormBatch(pending)
<1>1. pending # <<>> /\ pending' = formed.rest
  <2>1. Dispatch
    BY Zenon DEF Next, Gather, Execute, Publish, Deactivate
  <2> QED
    BY <2>1, Zenon DEF Dispatch
<1>2. /\ pending \in Seq(Request) /\ Ascending(pending) /\ shape \in [Request -> Shape]
  BY Zenon DEF BatchInv, BatchTypes, QueueInv
<1>3. /\ Ascending(formed.rest)
      /\ Range(formed.batch) \cup Range(formed.rest) = Range(pending)
      /\ Range(formed.batch) \cap Range(formed.rest) = {}
      /\ GreedyBatch(pending, Range(formed.batch))
  BY <1>1, <1>2, FormBatchIs, Zenon
<1> HIDE DEF formed
<1>4. Range(formed.batch) = Range(pending) \ Range(pending')
  BY <1>1, <1>3, Zenon
<1> QED
  BY <1>1, <1>3, <1>4, Zenon

\* Every batch that run_scheduler dispatches is the greedy one around the oldest request,
\* and it leaves the rest of the deque in order, for every policy and every queue.
THEOREM BatchesAreGreedy == Spec => DispatchesGreedily
<1>1. BatchInv /\ [Next]_vars =>
          [gathered /\ pending' # pending /\ Head(pending) \notin inactive =>
             LET taken == Range(pending) \ Range(pending')
             IN  GreedyBatch(pending, taken) /\ Ascending(pending')]_vars
  BY StepGreedy, Zenon
<1> QED
  BY <1>1, BatchesInvariant, PTL DEF Spec, DispatchesGreedily

-----------------------------------------------------------------------------
(* Cancellation: tokens and the futures that wait for them.                    *)

CONSTANTS Token, Constituents, Waiter, Subject

VARIABLES cancelled, waiters, dependents, work, toWake, toNotify, builder, toRegister, checking,
          waiterPc, woken

T == INSTANCE Cancellation

\* What Cancellation assumes of its constants.
TokenAssumption ==
    /\ IsFiniteSet(Token)
    /\ Constituents \in [Token -> SUBSET Token]
    /\ Subject \in [Waiter -> Token]

\* A thread is inside cancel only for a flag that is set, and it has nobody to wake
\* before it has drained the waiters.
SignalInv ==
    \A t \in Token :
        /\ work[t] = "none" <=> t \notin cancelled
        /\ work[t] \in {"none", "waiters"} => toWake[t] = {}

\* A token is in the list of each constituent it is done registering with, and only
\* of constituents; it is not published before it has registered with all of them.
RegistrationInv ==
    \A d, s \in Token :
        /\ d \in dependents[s] \cup toNotify[s] => s \in Constituents[d]
        /\ s \in Constituents[d] => s \in toRegister[d] \/ d \in dependents[s]
        /\ s \in toRegister[d] => builder[d] = "new" /\ s \in Constituents[d]

\* The flag of a constituent that has not reached a published token is on its way:
\* the thread that set it has still to copy its dependents, or to tell this one.
OnItsWay(s, d) ==
    \/ work[s] \in {"waiters", "dependents"} /\ d \in dependents[s]
    \/ work[s] = "wake" /\ d \in toNotify[s]
PropagationInv ==
    \A d, s \in Token :
        T!Built(d) /\ s \in Constituents[d] /\ s \in cancelled /\ d \notin cancelled
            => OnItsWay(s, d)

\* A future that has registered is in the list as long as the flag is clear; one that
\* is past its look at the flag has been woken when it is set, or is about to be.
Awaited(w) ==
    LET t == Subject[w]
    IN  /\ waiterPc[w] \in {"pushed", "again", "pending"} /\ t \notin cancelled =>
               w \in waiters[t]
        /\ waiterPc[w] \in {"again", "pending"} /\ t \in cancelled =>
               \/ w \in woken
               \/ work[t] = "waiters" /\ w \in waiters[t]
               \/ w \in toWake[t]

TokenInv ==
    /\ T!TypeOK
    /\ SignalInv
    /\ RegistrationInv
    /\ PropagationInv
    /\ \A w \in Waiter : Awaited(w)

-----------------------------------------------------------------------------
(* Setting a flag. *)

\* A token whose own flag is set is cancelled.
LEMMA FlagCancels ==
    ASSUME NEW t \in cancelled
    PROVE  T!IsCancelled(t)
BY Zenon DEF T!IsCancelled

\* The swap sets one flag at most, and only the thread that set it has work.
FlagStep(t) ==
    /\ t \in Token
    /\ cancelled' = cancelled \/ cancelled' = cancelled \cup {t}
    /\ \A s \in Token :
           work'[s] = IF s \in cancelled' \ cancelled THEN "waiters" ELSE work[s]
    /\ work' \in [Token -> {"none", "waiters", "dependents", "wake"}]
    /\ UNCHANGED <<waiters, dependents, toWake, T!waitVars>>

\* cancel, any and the notification of a dependent set flags that way.
LEMMA StepsThatSwap ==
    ASSUME T!TypeOK, NEW t \in Token,
           \/ T!Cancel(t) \/ T!CheckRegistered(t) \/ T!FinishAny(t)
           \/ \E s \in Token : T!NotifyDependent(s, t)
    PROVE  FlagStep(t)
<1>1. T!Swap(t) \/ UNCHANGED T!signalVars
  BY Zenon DEF T!Cancel, T!CheckRegistered, T!FinishAny, T!NotifyDependent, T!SourceChanged
<1>2. UNCHANGED <<waiters, dependents, toWake, T!waitVars>>
  BY Zenon DEF T!Cancel, T!CheckRegistered, T!FinishAny, T!NotifyDependent
<1>3. CASE T!Swap(t)
  BY <1>2, <1>3, Zenon DEF T!Swap, T!TypeOK, FlagStep
<1>4. CASE UNCHANGED T!signalVars
  BY <1>2, <1>4, Zenon DEF T!signalVars, T!TypeOK, FlagStep
<1> QED
  BY <1>1, <1>3, <1>4, Zenon

-----------------------------------------------------------------------------
(* Every step keeps the invariant, layer by layer. *)

\* The initial states satisfy the invariant.
LEMMA TokenInit == TokenAssumption /\ T!Init => TokenInv
<1> SUFFICES ASSUME TokenAssumption, T!Init PROVE TokenInv
  BY Zenon
<1> USE DEF T!Init, TokenAssumption
<1>1. T!TypeOK
  BY Zenon DEF T!TypeOK, T!Combined
<1>2. SignalInv /\ PropagationInv
  BY Zenon DEF SignalInv, PropagationInv
<1>3. RegistrationInv
  BY Zenon DEF RegistrationInv, T!Combined
<1>4. \A w \in Waiter : Awaited(w)
  BY Zenon DEF Awaited
<1> QED
  BY <1>1, <1>2, <1>3, <1>4, Zenon DEF TokenInv

\* The steps of a future, and of the thread that wakes it, keep the types.
LEMMA TokenTypes ==
    ASSUME TokenAssumption, T!TypeOK, T!Next
    PROVE  T!TypeOK'
<1> USE DEF T!TypeOK, TokenAssumption
<1>1. ASSUME NEW t \in Token,
             \/ T!Cancel(t) \/ T!CheckRegistered(t) \/ T!FinishAny(t)
             \/ \E s \in Token : T!NotifyDependent(s, t)
      PROVE  T!TypeOK'
  <2>1. FlagStep(t)
    BY <1>1, StepsThatSwap, Zenon
  <2>2. /\ toNotify' \in [Token -> SUBSET Token]
        /\ builder' \in [Token -> {"new", "built"}]
        /\ toRegister' \in [Token -> SUBSET Token]
        /\ checking' \in [Token -> SUBSET Token]
    BY <1>1 DEF T!Cancel, T!CheckRegistered, T!FinishAny, T!NotifyDependent, T!buildVars
  <2> QED
    BY <2>1, <2>2, Zenon DEF FlagStep, T!waitVars
<1>2. ASSUME NEW d \in Token, NEW s \in Token, T!RegisterDependent(d, s)
      PROVE  T!TypeOK'
  BY <1>2 DEF T!RegisterDependent, T!cancelVars, T!signalVars, T!waitVars
<1>3. ASSUME NEW t \in Token, T!DrainWaiters(t) \/ T!CopyDependents(t)
      PROVE  T!TypeOK'
  <2>1. /\ work' \in [Token -> {"none", "waiters", "dependents", "wake"}]
        /\ waiters' \in [Token -> SUBSET Waiter] /\ toWake' \in [Token -> SUBSET Waiter]
        /\ toNotify' \in [Token -> SUBSET Token]
    BY <1>3, SMTT(30) DEF T!DrainWaiters, T!CopyDependents
  <2> QED
    BY <1>3, <2>1 DEF T!DrainWaiters, T!CopyDependents, T!buildVars, T!waitVars
<1>4. ASSUME NEW t \in Token, NEW w \in Waiter, T!Wake(t, w)
      PROVE  T!TypeOK'
  <2>1. woken' \subseteq Waiter /\ toWake' \in [Token -> SUBSET Waiter]
    BY <1>4, Zenon DEF T!Wake
  <2> QED
    BY <1>4, <2>1, Zenon DEF T!Wake, T!signalVars, T!buildVars
<1>5. ASSUME NEW w \in Waiter, T!WaiterStep(w)
      PROVE  T!TypeOK'
  <2>1. waiterPc' \in [Waiter -> {"start", "register", "push", "pushed", "again", "pending", "ready"}]
    BY <1>5 DEF T!WaiterStep, T!Poll, T!RegisterWaiter, T!PushWaiter, T!CheckFlag, T!LookAgain
  <2>2. woken' \subseteq Waiter /\ waiters' \in [Token -> SUBSET Waiter]
    BY <1>5 DEF T!WaiterStep, T!Poll, T!RegisterWaiter, T!PushWaiter, T!CheckFlag, T!LookAgain
  <2>3. UNCHANGED <<T!cancelVars, dependents, T!buildVars>>
    BY <1>5, Zenon
    DEF T!WaiterStep, T!Poll, T!RegisterWaiter, T!PushWaiter, T!CheckFlag, T!LookAgain
  <2> QED
    BY <2>1, <2>2, <2>3, Zenon DEF T!cancelVars, T!signalVars, T!buildVars
<1> QED
  BY <1>1, <1>2, <1>3, <1>4, <1>5, Zenon DEF T!Next, T!CancelStep, T!Build

\* Every step keeps the account of the threads inside cancel.
LEMMA TokenSignal ==
    ASSUME T!TypeOK, SignalInv, T!Next
    PROVE  SignalInv'
<1> USE DEF T!TypeOK, SignalInv
<1>1. ASSUME NEW t \in Token,
             \/ T!Cancel(t) \/ T!CheckRegistered(t) \/ T!FinishAny(t)
             \/ \E s \in Token : T!NotifyDependent(s, t)
      PROVE  SignalInv'
  BY <1>1, StepsThatSwap DEF FlagStep
<1>2. ASSUME NEW d \in Token, NEW s \in Token, T!RegisterDependent(d, s)
      PROVE  SignalInv'
  BY <1>2, Zenon DEF T!RegisterDependent, T!cancelVars, T!signalVars
<1>3. ASSUME NEW t \in Token, T!DrainWaiters(t) \/ T!CopyDependents(t)
      PROVE  SignalInv'
  BY <1>3 DEF T!DrainWaiters, T!CopyDependents
<1>4. ASSUME NEW t \in Token, NEW w \in Waiter, T!Wake(t, w)
      PROVE  SignalInv'
  BY <1>4, Zenon DEF T!Wake, T!signalVars
<1>5. ASSUME NEW w \in Waiter, T!WaiterStep(w)
      PROVE  SignalInv'
  BY <1>5, Zenon
  DEF T!WaiterStep, T!Poll, T!RegisterWaiter, T!PushWaiter, T!CheckFlag, T!LookAgain,
     T!cancelVars,
     T!signalVars
<1> QED
  BY <1>1, <1>2, <1>3, <1>4, <1>5, ZenonT(30) DEF T!Next, T!CancelStep, T!Build

\* Every step keeps the lists of dependents.
LEMMA TokenRegistration ==
    ASSUME T!TypeOK, RegistrationInv, T!Next
    PROVE  RegistrationInv'
<1> USE DEF T!TypeOK, RegistrationInv
<1>1. ASSUME NEW t \in Token,
             \/ T!Cancel(t) \/ T!CheckRegistered(t) \/ T!FinishAny(t)
             \/ \E s \in Token : T!NotifyDependent(s, t)
      PROVE  RegistrationInv'
  <2>1. CASE T!Cancel(t) \/ T!CheckRegistered(t)
    BY <2>1, Zenon DEF T!Cancel, T!CheckRegistered, T!buildVars
  <2>2. CASE T!FinishAny(t)
    BY <2>2, Zenon DEF T!FinishAny
  <2>3. ASSUME NEW s \in Token, T!NotifyDependent(s, t)
        PROVE  RegistrationInv'
    BY <2>3, Zenon DEF T!NotifyDependent, T!buildVars
  <2> QED
    BY <1>1, <2>1, <2>2, <2>3, ZenonT(30)
<1>2. ASSUME NEW e \in Token, NEW r \in Token, T!RegisterDependent(e, r)
      PROVE  RegistrationInv'
  BY <1>2 DEF T!RegisterDependent, T!cancelVars
<1>3. ASSUME NEW t \in Token, T!DrainWaiters(t) \/ T!CopyDependents(t)
      PROVE  RegistrationInv'
  BY <1>3 DEF T!DrainWaiters, T!CopyDependents, T!buildVars
<1>4. ASSUME NEW t \in Token, NEW w \in Waiter, T!Wake(t, w)
      PROVE  RegistrationInv'
  BY <1>4, Zenon DEF T!Wake, T!buildVars
<1>5. ASSUME NEW w \in Waiter, T!WaiterStep(w)
      PROVE  RegistrationInv'
  BY <1>5, ZenonT(30)
  DEF T!WaiterStep, T!Poll, T!RegisterWaiter, T!PushWaiter, T!CheckFlag, T!LookAgain,
     T!cancelVars,
     T!buildVars
<1> QED
  BY <1>1, <1>2, <1>3, <1>4, <1>5, ZenonT(30) DEF T!Next, T!CancelStep, T!Build

\* A flag that is set starts on its way to every published dependent.
LEMMA FlagPropagates ==
    ASSUME T!TypeOK, RegistrationInv, PropagationInv, NEW t \in Token, FlagStep(t),
           UNCHANGED <<toNotify, builder>>
    PROVE  PropagationInv'
<1> SUFFICES ASSUME NEW d \in Token, NEW s \in Token, T!Built(d)', s \in Constituents[d],
                    s \in cancelled', d \notin cancelled'
             PROVE  OnItsWay(s, d)'
  BY Zenon DEF PropagationInv
<1>1. T!Built(d) /\ d \notin cancelled /\ d \in dependents[s]
  BY Zenon DEF T!Built, FlagStep, RegistrationInv
<1>2. CASE s \in cancelled
  BY <1>1, <1>2, Zenon DEF PropagationInv, OnItsWay, FlagStep
<1>3. CASE s \notin cancelled
  BY <1>1, <1>3, Zenon DEF OnItsWay, FlagStep
<1> QED
  BY <1>2, <1>3, Zenon

\* A token is published with its flag set if a constituent's flag is.
LEMMA PublicationPropagates ==
    ASSUME T!TypeOK, RegistrationInv, PropagationInv, NEW t \in Token, T!FinishAny(t)
    PROVE  PropagationInv'
<1> SUFFICES ASSUME NEW d \in Token, NEW s \in Token, T!Built(d)', s \in Constituents[d],
                    s \in cancelled', d \notin cancelled'
             PROVE  OnItsWay(s, d)'
  BY Zenon DEF PropagationInv
<1>1. FlagStep(t) /\ UNCHANGED <<toNotify, dependents>>
  BY StepsThatSwap, Zenon DEF T!FinishAny
<1>2. CASE d = t
  <2>1. ~\E c \in Constituents[t] : T!IsCancelled(c)
    BY <1>2, Zenon DEF T!FinishAny, T!SourceChanged, T!Swap
  <2>2. s \notin cancelled /\ cancelled' = cancelled
    BY <1>1, <1>2, <2>1, FlagCancels, Zenon DEF FlagStep
  <2> QED
    BY <2>2, Zenon
<1>3. CASE d # t
  <2>1. T!Built(d) /\ d \notin cancelled /\ d \in dependents[s]
    BY <1>1, <1>3, SMTT(30) DEF T!Built, T!FinishAny, FlagStep, RegistrationInv, T!TypeOK
  <2>2. CASE s \in cancelled
    BY <1>1, <2>1, <2>2, Zenon DEF PropagationInv, OnItsWay, FlagStep
  <2>3. CASE s \notin cancelled
    BY <1>1, <2>1, <2>3, Zenon DEF OnItsWay, FlagStep
  <2> QED
    BY <2>2, <2>3, Zenon
<1> QED
  BY <1>2, <1>3, Zenon

\* A dependent that is told has its flag set afterwards: the thread that tells it
\* has set the flag of a constituent.
LEMMA NotificationPropagates ==
    ASSUME T!TypeOK, SignalInv, RegistrationInv, PropagationInv, NEW r \in Token, NEW t \in Token,
           T!NotifyDependent(r, t)
    PROVE  PropagationInv'
<1> SUFFICES ASSUME NEW d \in Token, NEW s \in Token, T!Built(d)', s \in Constituents[d],
                    s \in cancelled', d \notin cancelled'
             PROVE  OnItsWay(s, d)'
  BY Zenon DEF PropagationInv
<1>1. FlagStep(t)
  BY StepsThatSwap, Zenon
<1>2. /\ UNCHANGED <<builder, dependents>> /\ t \in toNotify[r] /\ work[r] = "wake"
      /\ toNotify' = [toNotify EXCEPT ![r] = @ \ {t}]
  BY Zenon DEF T!NotifyDependent, T!buildVars
<1>3. t \in cancelled'
  <2>1. r \in Constituents[t] /\ r \in cancelled
    BY <1>2, Zenon DEF RegistrationInv, SignalInv
  <2>2. T!Swap(t)
    BY <2>1, FlagCancels, Zenon DEF T!NotifyDependent, T!SourceChanged
  <2> QED
    BY <2>2, Zenon DEF T!Swap
<1>4. d # t /\ T!Built(d) /\ d \notin cancelled /\ d \in dependents[s]
  BY <1>1, <1>2, <1>3, ZenonT(30) DEF T!Built, FlagStep, RegistrationInv
<1>5. CASE s \in cancelled
  BY <1>1, <1>2, <1>4, <1>5 DEF PropagationInv, OnItsWay, FlagStep, T!TypeOK
<1>6. CASE s \notin cancelled
  BY <1>1, <1>4, <1>6, Zenon DEF OnItsWay, FlagStep
<1> QED
  BY <1>5, <1>6, Zenon

\* Every step keeps the flags on their way.
LEMMA TokenPropagation ==
    ASSUME T!TypeOK, SignalInv, RegistrationInv, PropagationInv, T!Next
    PROVE  PropagationInv'
<1>1. ASSUME NEW t \in Token, T!Cancel(t) \/ T!CheckRegistered(t)
      PROVE  PropagationInv'
  BY <1>1, StepsThatSwap, FlagPropagates, Zenon DEF T!Cancel, T!CheckRegistered, T!buildVars
<1> USE DEF PropagationInv, OnItsWay, T!Built, T!TypeOK
<1>2. ASSUME NEW e \in Token, NEW r \in Token, T!RegisterDependent(e, r)
      PROVE  PropagationInv'
  BY <1>2, ZenonT(30) DEF T!RegisterDependent, T!cancelVars, T!signalVars
<1>3. ASSUME NEW t \in Token, T!DrainWaiters(t)
      PROVE  PropagationInv'
  BY <1>3, Zenon DEF T!DrainWaiters, T!buildVars
<1>4. ASSUME NEW t \in Token, T!CopyDependents(t)
      PROVE  PropagationInv'
  BY <1>4, ZenonT(30) DEF T!CopyDependents, T!buildVars
<1>5. ASSUME NEW t \in Token, NEW w \in Waiter, T!Wake(t, w)
      PROVE  PropagationInv'
  BY <1>5, Zenon DEF T!Wake, T!buildVars, T!signalVars
<1>6. ASSUME NEW w \in Waiter, T!WaiterStep(w)
      PROVE  PropagationInv'
  BY <1>6, ZenonT(30)
  DEF T!WaiterStep, T!Poll, T!RegisterWaiter, T!PushWaiter, T!CheckFlag, T!LookAgain,
     T!cancelVars,
     T!signalVars, T!buildVars
<1> HIDE DEF PropagationInv
<1> QED
  BY <1>1, <1>2, <1>3, <1>4, <1>5, <1>6, PublicationPropagates, NotificationPropagates, ZenonT(30)
     DEF T!Next, T!CancelStep, T!Build

\* Setting a flag keeps the futures registered, and leaves them to be woken.
LEMMA FlagAwaited ==
    ASSUME TokenAssumption, T!TypeOK, NEW w \in Waiter, Awaited(w), NEW t \in Token, FlagStep(t)
    PROVE  Awaited(w)'
BY Zenon DEF TokenAssumption, T!TypeOK, FlagStep, Awaited, T!waitVars

\* Every step keeps every future registered, woken or about to be.
LEMMA TokenAwaited ==
    ASSUME TokenAssumption, T!TypeOK, SignalInv, NEW w \in Waiter, Awaited(w), T!Next
    PROVE  Awaited(w)'
<1> DEFINE target == Subject[w]
<1>1. target \in Token
  BY Zenon DEF TokenAssumption
<1>2. ASSUME NEW t \in Token,
             \/ T!Cancel(t) \/ T!CheckRegistered(t) \/ T!FinishAny(t)
             \/ \E s \in Token : T!NotifyDependent(s, t)
      PROVE  Awaited(w)'
  BY <1>2, StepsThatSwap, FlagAwaited, Zenon
<1> USE DEF Awaited, T!TypeOK
<1>3. ASSUME NEW e \in Token, NEW r \in Token, T!RegisterDependent(e, r)
      PROVE  Awaited(w)'
  BY <1>3, Zenon DEF T!RegisterDependent, T!cancelVars, T!signalVars, T!waitVars
<1>4. ASSUME NEW t \in Token, T!DrainWaiters(t)
      PROVE  Awaited(w)'
  <2>1. t \in cancelled /\ toWake[t] = {}
    BY <1>4, Zenon DEF T!DrainWaiters, SignalInv
  <2>2. UNCHANGED <<cancelled, waiterPc, woken>>
    BY <1>4, Zenon DEF T!DrainWaiters, T!waitVars
  <2>3. CASE target = t
    BY <1>1, <1>4, <2>1, <2>2, <2>3, ZenonT(30) DEF T!DrainWaiters
  <2>4. CASE target # t
    BY <1>1, <1>4, <2>2, <2>4, ZenonT(30) DEF T!DrainWaiters
  <2> QED
    BY <2>3, <2>4, Zenon
<1>5. ASSUME NEW t \in Token, T!CopyDependents(t)
      PROVE  Awaited(w)'
  BY <1>1, <1>5, Zenon DEF T!CopyDependents, T!waitVars
<1>6. ASSUME NEW t \in Token, NEW v \in Waiter, T!Wake(t, v)
      PROVE  Awaited(w)'
  BY <1>1, <1>6, Zenon DEF T!Wake, T!signalVars
<1>7. ASSUME NEW v \in Waiter, v # w, T!WaiterStep(v)
      PROVE  Awaited(w)'
  <2>1. waiterPc'[w] = waiterPc[w] /\ (w \in woken => w \in woken')
    BY <1>7, Zenon
    DEF T!WaiterStep, T!Poll, T!RegisterWaiter, T!PushWaiter, T!CheckFlag, T!LookAgain
  <2>2. \A t \in Token : waiters[t] \subseteq waiters'[t]
    BY <1>7, SMTT(30)
    DEF T!WaiterStep, T!Poll, T!RegisterWaiter, T!PushWaiter, T!CheckFlag, T!LookAgain
  <2>3. UNCHANGED <<cancelled, work, toWake>>
    BY <1>7, Zenon
    DEF T!WaiterStep, T!Poll, T!RegisterWaiter, T!PushWaiter, T!CheckFlag, T!LookAgain,
       T!cancelVars, T!signalVars
  <2> QED
    BY <1>1, <2>1, <2>2, <2>3, Zenon
<1>8. CASE T!Poll(w) \/ T!RegisterWaiter(w) \/ T!PushWaiter(w)
  BY <1>1, <1>8 DEF T!Poll, T!RegisterWaiter, T!PushWaiter, T!cancelVars, T!signalVars
<1>9. CASE T!CheckFlag(w) \/ T!LookAgain(w)
  BY <1>1, <1>9, Zenon DEF T!CheckFlag, T!LookAgain, T!cancelVars, T!signalVars
<1> HIDE DEF Awaited
<1> QED
  BY <1>2, <1>3, <1>4, <1>5, <1>6, <1>7, <1>8, <1>9, ZenonT(30) DEF T!Next, T!CancelStep, T!Build,
     T!WaiterStep

\* The invariant is inductive.
LEMMA TokenNext == TokenAssumption /\ TokenInv /\ [T!Next]_(T!vars) => TokenInv'
<1> SUFFICES ASSUME TokenAssumption, TokenInv, [T!Next]_(T!vars)
             PROVE  TokenInv'
  BY Zenon
<1>1. CASE T!Next
  BY ZenonT(30), <1>1, TokenTypes, TokenSignal, TokenRegistration, TokenPropagation,
     TokenAwaited DEF TokenInv
<1>2. CASE UNCHANGED T!vars
  BY <1>2, ZenonT(30)
  DEF T!vars, TokenInv, T!TypeOK, SignalInv, RegistrationInv, PropagationInv, OnItsWay,
     T!Built, Awaited
<1> QED
  BY <1>1, <1>2, Zenon

-----------------------------------------------------------------------------
(* The results. *)

\* When every thread is through, the flags that are set are closed under "is a
\* constituent of": what is_cancelled finds by recursion is in the flags.
LEMMA QuietIsClosed ==
    ASSUME TokenInv, T!Quiet, NEW t \in Token, T!IsCancelled(t)
    PROVE  t \in cancelled
<1>1. \A d \in Token : Constituents[d] \cap cancelled # {} => d \in cancelled
  BY DEF TokenInv, T!TypeOK, T!Quiet, PropagationInv, OnItsWay
<1> QED
  BY <1>1, Zenon DEF T!IsCancelled, TokenInv, T!TypeOK

\* No wake-up is lost, whatever the graph of tokens and however the threads inside
\* cancel, any and the polls interleave.
THEOREM WakeupsAreNotLost ==
    ASSUME TokenAssumption
    PROVE  T!Spec => []T!NoLostWakeup
<1>1. TokenInv => T!NoLostWakeup
  <2> SUFFICES ASSUME TokenInv, T!Quiet, NEW w \in Waiter, waiterPc[w] = "pending",
                      T!IsCancelled(Subject[w])
               PROVE  w \in woken
    BY Zenon DEF T!NoLostWakeup, TokenInv
  <2>1. Subject[w] \in Token /\ Subject[w] \in cancelled
    BY QuietIsClosed, Zenon DEF TokenAssumption
  <2> QED
    BY <2>1, Zenon DEF TokenInv, Awaited, T!Quiet
<1>2. T!Init => TokenInv
  BY TokenInit, Zenon
<1>3. TokenInv /\ [T!Next]_(T!vars) => TokenInv'
  BY TokenNext, Zenon
<1> QED
  BY <1>1, <1>2, <1>3, PTL DEF T!Spec

-----------------------------------------------------------------------------
(* ServerHost: the trigger that tells the transports, and what the gRPC task has *)
(* published when it ends.                                                       *)

CONSTANT MaxChanges

VARIABLES host, app, ready, changes, triggered, notifying, future, told, server, serving, closed,
          health, last, status, misread

H == INSTANCE ServerHost WITH waiter <- future, task <- serving

\* The types, with the flags that TypeOK leaves out.
HostTypes ==
    /\ H!TypeOK
    /\ triggered \in BOOLEAN /\ notifying \in BOOLEAN /\ last \in BOOLEAN

\* Only a trigger that has set the flag notifies; once it has, every future that found
\* the flag clear has its notification, also the one that has not slept yet.
TriggerInv ==
    /\ notifying => triggered
    /\ triggered /\ ~notifying =>
           \A w \in H!Waiter : future[w] \in {"looked", "asleep"} => w \in told

\* The gRPC task does not exist before it is spawned, and does not end before
\* track_health has told both names, one after the other.
ClosingInv ==
    /\ host \in {"binding", "preload", "spawn_grpc"} => serving["grpc"] = "none" /\ health = "none"
    /\ serving["grpc"] = "ended" => health = "done"
    /\ health = "final_embedding" => ~status["overall"]
    /\ health = "done" => ~status["overall"] /\ ~status["embedding"]

HostInv == HostTypes /\ TriggerInv /\ ClosingInv

\* Nothing is triggered or spawned at first.
LEMMA HostInit == MaxChanges \in Nat /\ H!Init => HostInv
<1> SUFFICES ASSUME MaxChanges \in Nat, H!Init PROVE HostInv
  BY Zenon
<1>0. ready \in BOOLEAN /\ status \in [H!Name -> BOOLEAN]
  BY Zenon DEF H!Init
<1>1. H!TypeOK
  BY <1>0 DEF H!Init, H!TypeOK, H!Waiter, H!Transport
<1>2. TriggerInv /\ ClosingInv
  BY Zenon DEF H!Init, TriggerInv, ClosingInv, H!Transport
<1> QED
  BY <1>1, <1>2, ZenonT(30) DEF H!Init, HostInv, HostTypes

\* A group of futures is dropped: none of them is left waiting.
LEMMA DroppedFutures ==
    ASSUME HostTypes, TriggerInv, NEW ws, H!Unregister(ws), UNCHANGED <<triggered, notifying>>
    PROVE  /\ future' \in [H!Waiter -> {"off", "enabled", "looked", "asleep", "fired"}]
           /\ told' \subseteq H!Waiter
           /\ TriggerInv'
BY Zenon DEF HostTypes, H!TypeOK, TriggerInv, H!Unregister

\* A task that is aborted or panics has not ended, and takes track_health with it.
LEMMA KilledTasks ==
    ASSUME HostInv, NEW ts, H!Kill(ts)
    PROVE  /\ serving' \in [H!Transport -> {"none", "running", "ended", "aborted"}]
           /\ server' \in [H!Transport -> {"none", "serving", "draining", "ended"}]
           /\ serving["grpc"] = "none" => serving'["grpc"] = "none" /\ health' = health
           /\ serving'["grpc"] = "ended" => serving["grpc"] = "ended" /\ health' = health
           /\ health' \in {health, "gone"}
BY Zenon DEF HostInv, HostTypes, H!TypeOK, H!Kill, H!Transport

\* A step that leaves the trigger, the gRPC task and its health alone.
LEMMA QuietSteps ==
    ASSUME HostInv, HostTypes', UNCHANGED <<triggered, notifying, future, told>>,
           UNCHANGED <<serving, health, status>>,
           host' \in {"binding", "preload", "spawn_grpc"} =>
               host \in {"binding", "preload", "spawn_grpc"}
    PROVE  HostInv'
<1>1. TriggerInv'
  BY Zenon DEF HostInv, TriggerInv
<1>2. ClosingInv'
  BY Zenon DEF HostInv, ClosingInv
<1> QED
  BY <1>1, <1>2, ZenonT(30) DEF HostInv

\* Every step of the host, its transports and their futures keeps it.
LEMMA HostNext == MaxChanges \in Nat /\ HostInv /\ [H!Next]_(H!vars) => HostInv'
<1> SUFFICES ASSUME MaxChanges \in Nat, HostInv, [H!Next]_(H!vars)
             PROVE  HostInv'
  BY Zenon
<1> USE DEF H!vars, H!appVars, H!triggerVars, H!transportVars, H!healthVars
<1>a. HostTypes /\ TriggerInv /\ ClosingInv
  BY Zenon DEF HostInv
<1>1. CASE UNCHANGED H!vars
  <2>1. HostTypes'
    BY <1>a, <1>1, ZenonT(30) DEF HostTypes, H!TypeOK
  <2> QED
    BY <1>1, <2>1, QuietSteps, ZenonT(30)
<1>2. CASE H!Bind \/ H!Preload \/ H!LeaveLoop
  <2>1. ready' \in BOOLEAN
    BY <1>a, <1>2, ZenonT(30) DEF H!Bind, H!Preload, H!LeaveLoop, HostTypes, H!TypeOK
  <2>2. HostTypes'
    BY <1>a, <1>2, <2>1, ZenonT(30) DEF HostTypes, H!TypeOK, H!Bind, H!Preload, H!LeaveLoop
  <2> QED
    BY <1>2, <2>2, QuietSteps, ZenonT(30) DEF H!Bind, H!Preload, H!LeaveLoop
<1>3. CASE H!SpawnGrpc
  <2>1. TriggerInv'
    BY <1>a, <1>3, ZenonT(30) DEF TriggerInv, H!SpawnGrpc
  <2>2. HostTypes'
    <3>1. status' \in [H!Name -> BOOLEAN]
      BY <1>a, <1>3, ZenonT(30) DEF HostTypes, H!TypeOK, H!SpawnGrpc
    <3> QED
      BY <1>a, <1>3, <3>1, SMTT(30) DEF HostTypes, H!TypeOK, H!SpawnGrpc, H!Transport
  <2>3. ClosingInv'
    BY <1>a, <1>3, ZenonT(30) DEF HostTypes, H!TypeOK, ClosingInv, H!SpawnGrpc, H!Transport
  <2> QED
    BY <2>1, <2>2, <2>3, ZenonT(30) DEF HostInv
<1>4. CASE H!SpawnHttp
  <2>1. TriggerInv'
    BY <1>a, <1>4, ZenonT(30) DEF TriggerInv, H!SpawnHttp
  <2>2. HostTypes'
    BY <1>a, <1>4, ZenonT(30) DEF HostTypes, H!TypeOK, H!SpawnHttp, H!Transport
  <2>3. ClosingInv'
    BY <1>a, <1>4, Zenon DEF HostTypes, H!TypeOK, ClosingInv, H!SpawnHttp, H!Transport
  <2> QED
    BY <2>1, <2>2, <2>3, Zenon DEF HostInv
<1>5. CASE H!ShutdownTrigger \/ H!DropHost
  <2>1. TriggerInv' /\ triggered' \in BOOLEAN /\ notifying' \in BOOLEAN
    BY <1>a, <1>5, ZenonT(30) DEF HostTypes, TriggerInv, H!ShutdownTrigger, H!DropHost, H!Trigger
  <2>2. HostTypes'
    BY <1>a, <1>5, <2>1, ZenonT(30) DEF HostTypes, H!TypeOK, H!ShutdownTrigger, H!DropHost
  <2>3. ClosingInv'
    BY <1>a, <1>5, Zenon DEF ClosingInv, H!ShutdownTrigger, H!DropHost
  <2> QED
    BY <2>1, <2>2, <2>3, ZenonT(30) DEF HostInv
<1>6. CASE H!ShutdownApplication \/ H!ShutdownGrpc \/ H!JoinEnds \/ H!ApplicationStops
  <2>1. ready' \in BOOLEAN
    BY <1>a, <1>6, ZenonT(30) DEF H!ShutdownApplication, H!ShutdownGrpc, H!JoinEnds,
       H!ApplicationStops, HostTypes, H!TypeOK
  <2>2. HostTypes'
    BY <1>a, <1>6, <2>1, ZenonT(30) DEF HostTypes, H!TypeOK, H!ShutdownApplication,
       H!ShutdownGrpc, H!JoinEnds, H!ApplicationStops
  <2> QED
    BY <1>6, <2>2, QuietSteps, ZenonT(30) DEF H!ShutdownApplication, H!ShutdownGrpc, H!JoinEnds,
       H!ApplicationStops
<1>7. CASE H!DropHandles
  <2>1. H!Kill(H!Transport) /\ H!Unregister(H!Transport \cup {"health"})
    BY <1>7, Zenon DEF H!DropHandles, H!Kill, H!Transport
  <2>2. UNCHANGED <<triggered, notifying, last, status, app, ready, changes>> /\ host' = "dropped"
    BY <1>7, Zenon DEF H!DropHandles
  <2>3. /\ TriggerInv'
        /\ future' \in [H!Waiter -> {"off", "enabled", "looked", "asleep", "fired"}]
        /\ told' \subseteq H!Waiter
    BY <1>a, <2>1, <2>2, DroppedFutures, ZenonT(30)
  <2>4. HostTypes'
    BY <1>a, <2>1, <2>2, <2>3, KilledTasks, ZenonT(30) DEF HostTypes, H!TypeOK
  <2>5. ClosingInv'
    BY <1>a, <2>1, <2>2, KilledTasks, ZenonT(30) DEF ClosingInv
  <2> QED
    BY <2>3, <2>4, <2>5, ZenonT(30) DEF HostInv
<1>8. CASE H!Notify
  BY <1>a, <1>8, ZenonT(30) DEF HostInv, HostTypes, H!TypeOK, TriggerInv, ClosingInv, H!Notify
<1>9. CASE H!ChangeReadiness
  <2>1. HostTypes'
    BY <1>a, <1>9, SMTT(30) DEF HostTypes, H!TypeOK, H!ChangeReadiness
  <2> QED
    BY <1>9, <2>1, QuietSteps, ZenonT(30) DEF H!ChangeReadiness
<1>10. CASE H!HealthStart
  BY <1>a, <1>10, ZenonT(30) DEF HostInv, HostTypes, H!TypeOK, TriggerInv, ClosingInv, H!HealthStart
<1>11. CASE H!HealthStops \/ H!HealthTick
  <2>1. H!Unregister({"health"}) /\ UNCHANGED <<triggered, notifying>>
    BY <1>11, Zenon DEF H!HealthStops, H!HealthTick
  <2>2. /\ TriggerInv'
        /\ future' \in [H!Waiter -> {"off", "enabled", "looked", "asleep", "fired"}]
        /\ told' \subseteq H!Waiter
    BY <1>a, <2>1, DroppedFutures, ZenonT(30)
  <2> QED
    BY <1>a, <1>11, <2>2, SMTT(30) DEF HostInv, HostTypes, H!TypeOK, ClosingInv, H!HealthStops,
       H!HealthTick
<1>12. CASE H!PublishHealth
  <2> DEFINE name == H!Published[health].name
             final == health \in {"final_overall", "final_embedding"}
  <2>1. health \in {"publish_overall", "publish_embedding", "final_overall", "final_embedding"}
    BY <1>12, Zenon DEF H!PublishHealth, H!Published
  <2>2. /\ UNCHANGED <<host, app, ready, changes, last, server, serving, closed>>
        /\ UNCHANGED <<triggered, notifying, future, told>>
    BY <1>12, Zenon DEF H!PublishHealth
  <2>3. status' = [status EXCEPT ![name] = (last /\ ~final)]
    BY <1>12, ZenonT(30) DEF H!PublishHealth
  <2>4. name \in H!Name
    BY <2>1 DEF H!Published, H!Name
  <2>5. (last /\ ~final) \in BOOLEAN
    BY Zenon
  <2>6. status \in [H!Name -> BOOLEAN]
    BY <1>a, Zenon DEF HostTypes, H!TypeOK
  <2>7. /\ status' \in [H!Name -> BOOLEAN]
        /\ final => ~status'[name]
        /\ \A n \in H!Name : n # name => status'[n] = status[n]
    <3> HIDE DEF name, final
    <3> QED
      BY <2>3, <2>4, <2>5, <2>6, ZenonT(30)
  <2>8. TriggerInv'
    BY <1>a, <2>2, Zenon DEF TriggerInv
  <2>9. HostTypes'
    BY <1>a, <2>2, <2>7, ZenonT(30) DEF HostTypes, H!TypeOK
  <2>10. ClosingInv'
    <3>0. health' = H!Published[health].next
      BY <1>12, ZenonT(30) DEF H!PublishHealth
    <3>1. CASE health \in {"publish_overall", "publish_embedding"}
      <4>1. health' \notin {"final_embedding", "done"}
        BY <3>0, <3>1 DEF H!Published
      <4> QED
        BY <1>a, <2>2, <3>1, <4>1, ZenonT(30) DEF ClosingInv
    <3>2. CASE health = "final_overall"
      <4>1. health' = "final_embedding" /\ name = "overall" /\ final
        BY <3>0, <3>2, Zenon DEF H!Published
      <4> HIDE DEF name, final
      <4> QED
        BY <1>a, <2>2, <2>7, <3>2, <4>1, ZenonT(30) DEF ClosingInv
    <3>3. CASE health = "final_embedding"
      <4>1. health' = "done" /\ name = "embedding" /\ final /\ "overall" \in H!Name
        BY <3>0, <3>3, Zenon DEF H!Published, H!Name
      <4> HIDE DEF name, final
      <4> QED
        BY <1>a, <2>2, <2>7, <3>3, <4>1, ZenonT(30) DEF ClosingInv
    <3> QED
      BY <2>1, <3>1, <3>2, <3>3, ZenonT(30)
  <2> QED
    BY <2>8, <2>9, <2>10, Zenon DEF HostInv
<1>13. ASSUME NEW w \in H!Waiter, H!Enable(w) \/ H!Look(w) \/ H!Await(w) \/ H!Wake(w)
       PROVE  HostInv'
  <2> USE DEF HostInv, HostTypes, H!TypeOK, TriggerInv, ClosingInv
  <2>1. CASE H!Enable(w)
    BY <1>a, <2>1, ZenonT(30) DEF H!Enable
  <2>2. CASE H!Look(w)
    BY <1>a, <2>2, SMTT(30) DEF H!Look
  <2>3. CASE H!Await(w)
    BY <1>a, <2>3, SMTT(30) DEF H!Await
  <2>4. CASE H!Wake(w)
    BY <1>a, <2>4, ZenonT(30) DEF H!Wake
  <2> QED
    BY <1>13, <2>1, <2>2, <2>3, <2>4, ZenonT(30)
<1>14. ASSUME NEW t \in H!Transport, H!StopAccepting(t) \/ H!ServerFails(t)
       PROVE  HostInv'
  <2>1. H!Unregister({t}) /\ UNCHANGED <<triggered, notifying>>
    BY <1>14, Zenon DEF H!StopAccepting, H!ServerFails
  <2>2. /\ TriggerInv'
        /\ future' \in [H!Waiter -> {"off", "enabled", "looked", "asleep", "fired"}]
        /\ told' \subseteq H!Waiter
    BY <1>a, <2>1, DroppedFutures, ZenonT(30)
  <2>3. HostTypes' /\ ClosingInv'
    BY <1>a, <1>14, <2>2, SMTT(30)
    DEF HostTypes, H!TypeOK, ClosingInv, H!StopAccepting, H!ServerFails
  <2> QED
    BY <2>2, <2>3, Zenon DEF HostInv
<1>15. ASSUME NEW t \in H!Transport, H!Drained(t) \/ H!TaskEnds(t)
       PROVE  HostInv'
  <2>1. UNCHANGED <<triggered, notifying, future, told>>
    BY <1>15, Zenon DEF H!Drained, H!TaskEnds
  <2>2. TriggerInv'
    BY <1>a, <2>1, ZenonT(30) DEF TriggerInv
  <2>3. HostTypes'
    BY <1>a, <1>15, ZenonT(30) DEF HostTypes, H!TypeOK, H!Drained, H!TaskEnds
  <2>4. CASE H!Drained(t)
    <3>1. ClosingInv'
      BY <1>a, <2>4, ZenonT(30) DEF HostTypes, H!TypeOK, ClosingInv, H!Drained, H!Transport
    <3> QED
      BY <2>2, <2>3, <3>1, ZenonT(30) DEF HostInv
  <2>5. CASE H!TaskEnds(t)
    <3>1. ClosingInv'
      BY <1>a, <2>5, Zenon DEF HostTypes, H!TypeOK, ClosingInv, H!TaskEnds, H!Transport
    <3> QED
      BY <2>2, <2>3, <3>1, Zenon DEF HostInv
  <2> QED
    BY <1>15, <2>4, <2>5, ZenonT(30)
<1>16. ASSUME NEW t \in H!Transport, H!Panic(t) \/ H!Timeout(t)
       PROVE  HostInv'
  <2>1. /\ H!Kill({t})
        /\ UNCHANGED <<triggered, notifying, last, status, app, ready, changes, host>>
    BY <1>16, Zenon DEF H!Panic, H!Timeout
  <2>2. PICK ws : H!Unregister(ws)
    BY <2>1, Zenon DEF H!Kill
  <2>3. /\ TriggerInv'
        /\ future' \in [H!Waiter -> {"off", "enabled", "looked", "asleep", "fired"}]
        /\ told' \subseteq H!Waiter
    BY <1>a, <2>1, <2>2, DroppedFutures, ZenonT(30)
  <2> QED
    <3>1. HostTypes'
      BY <1>a, <2>1, <2>3, KilledTasks, ZenonT(30) DEF HostTypes, H!TypeOK
    <3>2. ClosingInv'
      BY <1>a, <2>1, KilledTasks, ZenonT(30) DEF ClosingInv
    <3> QED
      BY <2>3, <3>1, <3>2, ZenonT(30) DEF HostInv
<1> QED
  BY <1>1, <1>2, <1>3, <1>4, <1>5, <1>6, <1>7, <1>8, <1>9, <1>10, <1>11, <1>12, <1>13, <1>14,
     <1>15, <1>16, ZenonT(30)
  DEF H!Next, H!Start, H!Signal, H!NoticeStop, H!Shutdown, H!TrackHealth, H!Cancelled, H!Serve

\* It holds throughout.
LEMMA HostSafe ==
    ASSUME MaxChanges \in Nat
    PROVE  H!Spec => []HostInv
<1>1. H!Init => HostInv
  BY HostInit, Zenon
<1>2. HostInv /\ [H!Next]_(H!vars) => HostInv'
  BY HostNext, Zenon
<1> QED
  BY <1>1, <1>2, PTL DEF H!Spec

\* cancelled() has no missed-wakeup window, however the transports, the ticks of
\* track_health, panics and timeouts interleave with the trigger.
THEOREM TriggerAlwaysReaches ==
    ASSUME MaxChanges \in Nat
    PROVE  H!Spec => []H!TriggerReachesWaiters
<1>1. HostInv => H!TriggerReachesWaiters
  BY Zenon DEF HostInv, HostTypes, TriggerInv, H!TriggerReachesWaiters
<1> QED
  BY <1>1, HostSafe, PTL

\* A gRPC task that ran to its end has told both names NOT_SERVING, whatever update
\* the shutdown interrupted: the safety half of HealthFollows.
THEOREM EndedMeansNotServing ==
    ASSUME MaxChanges \in Nat
    PROVE  H!Spec => [](serving["grpc"] = "ended" => \A n \in H!Name : ~status[n])
<1>1. HostInv => (serving["grpc"] = "ended" => \A n \in H!Name : ~status[n])
  BY Zenon DEF HostInv, ClosingInv, H!Name
<1> QED
  BY <1>1, HostSafe, PTL
=============================================================================
