------------------------- MODULE ModelSupplyProofs ---------------------------
(***************************************************************************)
(* Proofs about ModelSupply, for any catalogs and options, any servers,    *)
(* any number of threads and requests, and any contents of the files.      *)
(***************************************************************************)
EXTENDS ModelSupply, FiniteSetTheorems, TLAPS

-----------------------------------------------------------------------------
(* Induction over the naturals, from the well-foundedness of inclusion among  *)
(* the finite sets.                                                           *)

\* A set of naturals that is not empty has a least member.
LEMMA LeastNatural ==
    ASSUME NEW S \in SUBSET Nat, NEW n \in S
    PROVE  \E m \in S : \A k \in S : m <= k
<1> DEFINE T == {0 .. m : m \in {k \in S : k <= n}}
           R == StrictSubsetOrdering(0 .. n)
<1>1. IsFiniteSet(0 .. n)
  BY FS_Interval
<1>2. IsWellFoundedOn(R, SUBSET (0 .. n))
  BY <1>1, FS_FiniteSubsetsOfFinite, FS_StrictSubsetOrderingWellFounded, Zenon
<1>3. T \subseteq SUBSET (0 .. n) /\ T # {}
  OBVIOUS
<1>4. PICK x \in T : \A y \in T : <<y, x>> \notin R
  <2> HIDE DEF T, R
  <2> QED
    BY <1>2, <1>3, WFMin, Zenon
<1>5. PICK m \in S : m <= n /\ x = 0 .. m
  BY Zenon
<1>6. ASSUME NEW k \in S, k < m
      PROVE  FALSE
  <2>1. 0 .. k \in T /\ 0 .. k \subseteq 0 .. m /\ 0 .. k # 0 .. m
    <3>1. m \in 0 .. m /\ m \notin 0 .. k
      BY <1>6
    <3> QED
      BY <1>5, <1>6, <3>1
  <2>2. <<0 .. k, 0 .. m>> \in R
    BY <1>5, <1>3, <2>1, Zenon DEF StrictSubsetOrdering
  <2> QED
    BY <1>4, <1>5, <2>1, <2>2, Zenon
<1> QED
  BY <1>6

\* A set with zero, and with the successor of each of its members, has every natural.
LEMMA Induction ==
    ASSUME NEW S, 0 \in S, \A n \in Nat : n \in S => n + 1 \in S
    PROVE  Nat \subseteq S
<1> SUFFICES ASSUME NEW n \in Nat, n \notin S
             PROVE  FALSE
  BY Zenon
<1>1. PICK m \in Nat \ S : \A k \in Nat \ S : m <= k
  BY LeastNatural, Zenon
<1>2. m # 0 /\ m - 1 \in Nat /\ m - 1 \in S
  BY <1>1
<1> QED
  BY <1>1, <1>2

\* The same for the numbers up to a bound.
LEMMA BoundedInduction ==
    ASSUME NEW S, NEW len \in Nat, 0 \in S, \A n \in 1 .. len : n - 1 \in S => n \in S
    PROVE  0 .. len \subseteq S
<1> DEFINE T == {n \in Nat : n <= len => n \in S}
<1>1. 0 \in T
  BY Zenon
<1>2. ASSUME NEW n \in Nat, n \in T
      PROVE  n + 1 \in T
  <2> SUFFICES ASSUME n + 1 <= len
               PROVE  n + 1 \in S
    OBVIOUS
  <2>1. n + 1 \in 1 .. len /\ (n + 1) - 1 = n /\ n \in S
    BY <1>2
  <2> QED
    BY <2>1, Zenon
<1>3. Nat \subseteq T
  <2> HIDE DEF T
  <2> QED
    BY <1>1, <1>2, Induction, Zenon
<1> QED
  BY <1>3

\* A set of naturals that has a member and a bound has a largest member.
LEMMA LargestNatural ==
    ASSUME NEW S \in SUBSET Nat, NEW n \in S, NEW b \in Nat, \A k \in S : k <= b
    PROVE  Max(S) \in S /\ \A k \in S : k <= Max(S)
<1> DEFINE T == {b - k : k \in S}
<1>1. T \in SUBSET Nat /\ b - n \in T
  OBVIOUS
<1>2. PICK m \in T : \A k \in T : m <= k
  <2> HIDE DEF T
  <2> QED
    BY <1>1, LeastNatural, Zenon
<1>3. PICK x \in S : m = b - x
  BY Zenon
<1>4. \A k \in S : x >= k
  BY <1>2, <1>3
<1> QED
  BY <1>4, Zenon DEF Max

\* The smaller of two numbers, as a checked sum takes it.
LEMMA CheckedAddIs ==
    ASSUME NEW a \in Nat, NEW b \in Nat
    PROVE  CheckedAdd(a, b) = IF a + b <= Overflow THEN a + b ELSE Overflow
<1>1. Overflow \in Nat
  BY ManifestAssumption DEF Overflow
<1>2. \E x \in {a + b, Overflow} : \A y \in {a + b, Overflow} : x <= y
  BY <1>1
<1> QED
  BY <1>1, <1>2 DEF CheckedAdd, Min

-----------------------------------------------------------------------------
(* Sums.                                                                       *)

\* A recursion with a number for each step defines a function.
LEMMA RecursionExists ==
    ASSUME NEW len \in Nat, NEW G \in [1 .. len -> [Nat -> Nat]]
    PROVE  \E f \in [0 .. len -> Nat] : f[0] = 0 /\ \A n \in 1 .. len : f[n] = G[n][f[n - 1]]
<1> DEFINE Steps(f, m) == f[0] = 0 /\ \A n \in 1 .. m : f[n] = G[n][f[n - 1]]
           S == {m \in 0 .. len : \E f \in [0 .. m -> Nat] : Steps(f, m)}
<1>1. 0 \in S
  <2> DEFINE f == [n \in 0 .. 0 |-> 0]
  <2>1. f \in [0 .. 0 -> Nat] /\ f[0] = 0 /\ 1 .. 0 = {}
    OBVIOUS
  <2>2. \E g \in [0 .. 0 -> Nat] : Steps(g, 0)
    <3> HIDE DEF f
    <3> QED
      BY <2>1, Zenon
  <2> QED
    BY <2>2
<1>2. ASSUME NEW m \in 1 .. len, m - 1 \in S
      PROVE  m \in S
  <2>1. PICK f \in [0 .. m - 1 -> Nat] : Steps(f, m - 1)
    BY <1>2, Zenon
  <2> DEFINE next == G[m][f[m - 1]]
             g == [n \in 0 .. m |-> IF n = m THEN next ELSE f[n]]
  <2>2. f[m - 1] \in Nat /\ G[m] \in [Nat -> Nat]
    OBVIOUS
  <2>3. next \in Nat
    BY <2>2, Zenon
  <2>4. g \in [0 .. m -> Nat]
    <3> HIDE DEF next
    <3> QED
      BY <2>3
  <2>5. g[m] = next /\ \A n \in 0 .. m - 1 : g[n] = f[n]
    <3> HIDE DEF next
    <3>1. m \in Nat /\ m \in 0 .. m /\ \A n \in 0 .. m - 1 : n \in 0 .. m /\ n # m
      OBVIOUS
    <3> QED
      BY <3>1, Zenon
  <2>6. \A n \in 1 .. m : g[n] = G[n][g[n - 1]]
    <3> SUFFICES ASSUME NEW n \in 1 .. m
                 PROVE  g[n] = G[n][g[n - 1]]
      BY Zenon
    <3>1. n - 1 \in 0 .. m - 1 /\ g[n - 1] = f[n - 1]
      BY <2>5
    <3>2. CASE n = m
      BY <2>5, <3>1, <3>2, Zenon
    <3>3. CASE n # m
      <4>1. n \in 1 .. m - 1 /\ g[n] = f[n]
        BY <2>5, <3>3
      <4> HIDE DEF g
      <4> QED
        BY <2>1, <3>1, <4>1, Zenon
    <3> QED
      BY <3>2, <3>3, Zenon
  <2>7. Steps(g, m)
    <3>1. g[0] = f[0]
      BY <2>5
    <3> HIDE DEF g
    <3> QED
      BY <2>1, <2>6, <3>1, Zenon
  <2>8. \E h \in [0 .. m -> Nat] : Steps(h, m)
    <3> HIDE DEF g, Steps
    <3> QED
      BY <2>4, <2>7, Zenon
  <2>9. m \in 0 .. len
    OBVIOUS
  <2> HIDE DEF Steps
  <2> QED
    BY <2>8, <2>9, Zenon
<1>3. len \in S
  <2>1. \A n \in 1 .. len : n - 1 \in S => n \in S
    BY <1>2, Zenon
  <2> HIDE DEF S
  <2>2. 0 .. len \subseteq S
    BY <1>1, <2>1, BoundedInduction, Zenon
  <2> QED
    BY <2>2
<1> QED
  BY <1>3, Zenon

\* A checked sum of numbers is a number.
LEMMA CheckedAddType ==
    ASSUME NEW a \in Nat, NEW b \in Nat
    PROVE  CheckedAdd(a, b) \in Nat
<1>1. Overflow \in Nat
  BY ManifestAssumption DEF Overflow
<1> QED
  BY <1>1, CheckedAddIs

\* The partial sums of a sequence of numbers are those of try_fold.
LEMMA CheckedSumsAre ==
    ASSUME NEW ns \in Seq(Nat)
    PROVE  /\ CheckedSums(ns) \in [0 .. Len(ns) -> Nat]
           /\ CheckedSums(ns)[0] = 0
           /\ \A i \in 1 .. Len(ns) :
                  CheckedSums(ns)[i] = CheckedAdd(CheckedSums(ns)[i - 1], ns[i])
<1> DEFINE G == [i \in 1 .. Len(ns) |-> [a \in Nat |-> CheckedAdd(a, ns[i])]]
           Body(f) == [i \in 0 .. Len(ns) |-> IF i = 0 THEN 0 ELSE CheckedAdd(f[i - 1], ns[i])]
<1>0. Len(ns) \in Nat /\ \A i \in 1 .. Len(ns) : ns[i] \in Nat
  OBVIOUS
<1>1. G \in [1 .. Len(ns) -> [Nat -> Nat]]
  BY <1>0, CheckedAddType, Zenon
<1>2. PICK f \in [0 .. Len(ns) -> Nat] :
          f[0] = 0 /\ \A n \in 1 .. Len(ns) : f[n] = G[n][f[n - 1]]
  <2> HIDE DEF G
  <2> QED
    BY <1>0, <1>1, RecursionExists, Zenon
<1>3. f = Body(f)
  <2>1. ASSUME NEW n \in 1 .. Len(ns)
        PROVE  f[n] = CheckedAdd(f[n - 1], ns[n])
    <3>1. f[n - 1] \in Nat
      BY <1>0, SMTT(30)
    <3> QED
      BY <1>2, <3>1, Zenon
  <2> QED
    BY <1>2, <2>1
<1>4. CheckedSums(ns) = Body(CheckedSums(ns))
  BY <1>3, Zenon DEF CheckedSums
<1> DEFINE sums == CheckedSums(ns)
<1>5. sums = Body(sums)
  BY <1>4, Zenon
<1> HIDE DEF sums
<1>6. sums[0] = 0 /\ \A i \in 1 .. Len(ns) : sums[i] = CheckedAdd(sums[i - 1], ns[i])
  BY <1>0, <1>5, SMTT(30)
<1> DEFINE S == {i \in 0 .. Len(ns) : sums[i] \in Nat}
<1>7. 0 .. Len(ns) \subseteq S
  <2>1. 0 \in S
    BY <1>0, <1>6
  <2>2. ASSUME NEW n \in 1 .. Len(ns), n - 1 \in S
        PROVE  n \in S
    <3>1. sums[n - 1] \in Nat /\ ns[n] \in Nat /\ n \in 0 .. Len(ns)
      BY <1>0, <2>2
    <3>2. sums[n] \in Nat
      BY <1>6, <3>1, CheckedAddType, Zenon
    <3> QED
      BY <3>1, <3>2, Zenon
  <2> HIDE DEF S
  <2> QED
    BY <1>0, <2>1, <2>2, BoundedInduction, Zenon
<1>8. sums \in [0 .. Len(ns) -> Nat]
  BY <1>5, <1>7, Zenon
<1> QED
  BY <1>6, <1>8, Zenon DEF sums

\* No partial sum exceeds the mark of an overflow, or a later partial sum.
LEMMA CheckedSumsGrow ==
    ASSUME NEW ns \in Seq(Nat), NEW i \in 0 .. Len(ns)
    PROVE  CheckedSums(ns)[i] <= Overflow /\ CheckedSums(ns)[i] <= CheckedSum(ns)
<1> DEFINE sums == CheckedSums(ns)
           S == {j \in 0 .. Len(ns) : i <= j => sums[i] <= sums[j]}
<1>1. Len(ns) \in Nat /\ Overflow \in Nat /\ \A j \in 1 .. Len(ns) : ns[j] \in Nat
  BY ManifestAssumption DEF Overflow
<1>2. /\ sums \in [0 .. Len(ns) -> Nat] /\ sums[0] = 0
      /\ \A j \in 1 .. Len(ns) : sums[j] = CheckedAdd(sums[j - 1], ns[j])
  BY CheckedSumsAre, Zenon
<1> HIDE DEF sums
<1>3. ASSUME NEW j \in 1 .. Len(ns)
      PROVE  /\ sums[j] = IF sums[j - 1] + ns[j] <= Overflow THEN sums[j - 1] + ns[j] ELSE Overflow
             /\ sums[j - 1] \in Nat /\ ns[j] \in Nat /\ sums[j] \in Nat
  <2>1. j - 1 \in 0 .. Len(ns) /\ j \in 0 .. Len(ns)
    BY <1>1
  <2>2. sums[j - 1] \in Nat /\ ns[j] \in Nat /\ sums[j] \in Nat
    BY <1>1, <1>2, <2>1, Zenon
  <2> QED
    BY <1>2, <2>2, CheckedAddIs, Zenon
<1>4. \A j \in 0 .. Len(ns) : sums[j] <= Overflow
  <2> SUFFICES ASSUME NEW j \in 0 .. Len(ns)
               PROVE  sums[j] <= Overflow
    BY Zenon
  <2>1. CASE j = 0
    BY <1>1, <1>2, <2>1
  <2>2. CASE j # 0
    <3>1. j \in 1 .. Len(ns)
      BY <1>1, <2>2
    <3>2. /\ sums[j] = IF sums[j - 1] + ns[j] <= Overflow THEN sums[j - 1] + ns[j] ELSE Overflow
          /\ sums[j - 1] \in Nat /\ ns[j] \in Nat
      BY <1>3, <3>1, Zenon
    <3> QED
      BY <1>1, <3>2
  <2> QED
    BY <2>1, <2>2, Zenon
<1>5. 0 .. Len(ns) \subseteq S
  <2>1. 0 \in S
    BY <1>1, <1>2
  <2>2. ASSUME NEW j \in 1 .. Len(ns), j - 1 \in S
        PROVE  j \in S
    <3>1. /\ sums[j] = IF sums[j - 1] + ns[j] <= Overflow THEN sums[j - 1] + ns[j] ELSE Overflow
          /\ sums[j - 1] \in Nat /\ ns[j] \in Nat /\ sums[j] \in Nat /\ sums[i] \in Nat
      BY <1>2, <1>3, Zenon
    <3>2. sums[j - 1] <= Overflow
      BY <1>1, <1>4
    <3>3. sums[j - 1] <= sums[j]
      BY <1>1, <3>1, <3>2
    <3>4. j \in 0 .. Len(ns) /\ (i <= j => i <= j - 1 \/ i = j)
      BY <1>1
    <3>5. i <= j => sums[i] <= sums[j]
      <4>1. CASE i = j
        BY <3>1, <4>1
      <4>2. CASE i <= j - 1
        <5>1. sums[i] <= sums[j - 1]
          BY <2>2, <4>2, Zenon
        <5> QED
          BY <3>1, <3>3, <5>1, SMTT(30)
      <4> QED
        BY <3>4, <4>1, <4>2, Zenon
    <3> QED
      BY <3>4, <3>5, Zenon
  <2> HIDE DEF S
  <2> QED
    BY <1>1, <2>1, <2>2, BoundedInduction, Zenon
<1>6. sums[i] <= sums[Len(ns)]
  BY <1>1, <1>5
<1> QED
  BY <1>4, <1>6, Zenon DEF sums, CheckedSum

\* A sum that did not overflow is exact, step by step.
LEMMA CheckedSumsExact ==
    ASSUME NEW ns \in Seq(Nat), CheckedSum(ns) # Overflow, NEW i \in 1 .. Len(ns)
    PROVE  CheckedSums(ns)[i] = CheckedSums(ns)[i - 1] + ns[i]
<1> DEFINE sums == CheckedSums(ns)
<1>1. /\ Len(ns) \in Nat /\ Overflow \in Nat /\ ns[i] \in Nat
      /\ i \in 0 .. Len(ns) /\ i - 1 \in 0 .. Len(ns) /\ Len(ns) \in 0 .. Len(ns)
  BY ManifestAssumption DEF Overflow
<1>2. sums \in [0 .. Len(ns) -> Nat] /\ sums[i] = CheckedAdd(sums[i - 1], ns[i])
  BY CheckedSumsAre, Zenon
<1>3. sums[i] <= CheckedSum(ns) /\ CheckedSum(ns) <= Overflow
  BY <1>1, CheckedSumsGrow, Zenon DEF CheckedSum
<1>4. CheckedSum(ns) = sums[Len(ns)]
  BY Zenon DEF CheckedSum
<1> HIDE DEF sums
<1>5. sums[i] \in Nat /\ sums[i - 1] \in Nat /\ CheckedSum(ns) \in Nat
  BY <1>1, <1>2, <1>4, Zenon
<1>6. sums[i] # Overflow
  BY <1>1, <1>3, <1>5
<1>7. sums[i] = sums[i - 1] + ns[i]
  BY <1>1, <1>2, <1>5, <1>6, CheckedAddIs, Zenon
<1> QED
  BY <1>7, Zenon DEF sums

\* A sum of numbers, without a bound.
LEMMA TotalsAre ==
    ASSUME NEW ns \in Seq(Nat)
    PROVE  /\ Totals(ns)[0] = 0
           /\ \A i \in 1 .. Len(ns) : Totals(ns)[i] = Totals(ns)[i - 1] + ns[i]
<1> DEFINE G == [i \in 1 .. Len(ns) |-> [a \in Nat |-> a + ns[i]]]
           Body(f) == [i \in 0 .. Len(ns) |-> IF i = 0 THEN 0 ELSE f[i - 1] + ns[i]]
<1>0. Len(ns) \in Nat /\ \A i \in 1 .. Len(ns) : ns[i] \in Nat
  OBVIOUS
<1>1. G \in [1 .. Len(ns) -> [Nat -> Nat]]
  BY <1>0
<1>2. PICK f \in [0 .. Len(ns) -> Nat] :
          f[0] = 0 /\ \A n \in 1 .. Len(ns) : f[n] = G[n][f[n - 1]]
  <2> HIDE DEF G
  <2> QED
    BY <1>0, <1>1, RecursionExists, ZenonT(30)
<1>3. f = Body(f)
  <2>1. ASSUME NEW n \in 1 .. Len(ns)
        PROVE  f[n] = f[n - 1] + ns[n]
    <3>1. f[n - 1] \in Nat
      BY <1>0
    <3> QED
      BY <1>2, <3>1, Zenon
  <2> QED
    BY <1>2, <2>1
<1>4. Totals(ns) = Body(Totals(ns))
  BY <1>3, Zenon DEF Totals
<1> DEFINE sums == Totals(ns)
<1>5. sums = Body(sums)
  BY <1>4, Zenon
<1> HIDE DEF sums
<1>6. sums[0] = 0 /\ \A i \in 1 .. Len(ns) : sums[i] = sums[i - 1] + ns[i]
  BY <1>0, <1>5, SMTT(30)
<1> QED
  BY <1>6, Zenon DEF sums

\* Numbers that are no larger one by one have no larger sum.
LEMMA TotalIsBounded ==
    ASSUME NEW ns \in Seq(Nat), NEW ms \in Seq(Nat), Len(ns) = Len(ms),
           \A i \in 1 .. Len(ns) : ns[i] <= ms[i], CheckedSum(ms) # Overflow
    PROVE  Total(ns) <= CheckedSum(ms)
<1> DEFINE total == Totals(ns)
           sums == CheckedSums(ms)
           S == {i \in 0 .. Len(ns) : total[i] \in Nat /\ total[i] <= sums[i]}
<1>1. Len(ns) \in Nat /\ \A i \in 1 .. Len(ns) : ns[i] \in Nat /\ ms[i] \in Nat
  OBVIOUS
<1>2. total[0] = 0 /\ \A i \in 1 .. Len(ns) : total[i] = total[i - 1] + ns[i]
  BY TotalsAre, Zenon
<1>3. /\ sums \in [0 .. Len(ns) -> Nat] /\ sums[0] = 0
      /\ \A i \in 1 .. Len(ns) : sums[i] = sums[i - 1] + ms[i]
  BY CheckedSumsAre, CheckedSumsExact, Zenon
<1> HIDE DEF total, sums
<1>4. 0 .. Len(ns) \subseteq S
  <2>1. 0 \in S
    BY <1>1, <1>2, <1>3
  <2>2. ASSUME NEW i \in 1 .. Len(ns), i - 1 \in S
        PROVE  i \in S
    <3>0. i \in 0 .. Len(ns) /\ i - 1 \in 0 .. Len(ns)
      BY <1>1
    <3>1. i \in 0 .. Len(ns) /\ sums[i - 1] \in Nat
      BY <1>3, <3>0, Zenon
    <3>2. total[i - 1] \in Nat /\ total[i - 1] <= sums[i - 1]
      BY <2>2, Zenon
    <3>3. total[i] = total[i - 1] + ns[i] /\ sums[i] = sums[i - 1] + ms[i]
      BY <1>2, <1>3, Zenon
    <3>4. ns[i] \in Nat /\ ms[i] \in Nat /\ ns[i] <= ms[i]
      BY <1>1, Zenon
    <3>5. total[i] \in Nat /\ total[i] <= sums[i]
      BY <3>1, <3>2, <3>3, <3>4, SMTT(30)
    <3> QED
      BY <3>1, <3>5, Zenon
  <2> HIDE DEF S
  <2> QED
    BY <1>1, <2>1, <2>2, BoundedInduction, Zenon
<1>5. total[Len(ns)] <= sums[Len(ns)]
  BY <1>1, <1>4
<1> QED
  BY <1>5, Zenon DEF total, sums, Total, CheckedSum

-----------------------------------------------------------------------------
(* The inductive invariant of the provisioning.                                *)

Known == UNION {Range(c.manifests) : c \in Catalogs}

Urls == {<<>>} \cup Elsewhere \cup {a.url : a \in UNION {Range(m.artifacts) : m \in Known}}

Busy == {"send", "sent", "body", "commit"}

Labels == Busy \cup {"closed", "refused", "idle", "failed", "installed", "collision"}

Jobs == [at : Labels, manifest : Known \cup {<<>>}, next : Nat, url : Urls, redirects : Nat,
         received : Nat, authentic : BOOLEAN, cancelled : BOOLEAN, jobs : Nat]

Usages == [asked : SUBSET Options.allowed, requests : Nat, bytes : Nat]

\* The catalog in use is one that ModelCatalog::new accepted.
CatalogInv ==
    job.at \notin {"closed", "refused"} =>
        catalog \in Catalogs /\ ValidCatalog(catalog.manifests, catalog.aliases)

\* An installation downloads a manifest of the catalog that fits the limits.
TargetInv ==
    /\ job.manifest \in Range(catalog.manifests)
    /\ Validate(job.manifest) /\ FitsOptions(Options, job.manifest)
    /\ job.next \in 1 .. Len(job.manifest.artifacts)

\* The artifacts before the present one are complete, and nothing else was
\* received or asked for.
ProgressInv ==
    /\ job.received <= Artifact.size
    /\ job.at \in {"send", "sent"} => job.received = 0
    /\ usage.bytes = CheckedSums(Sizes(job.manifest.artifacts))[job.next - 1] + job.received
    /\ job.redirects <= Options.maxRedirects
    /\ usage.requests = IF At("send") THEN job.redirects
                        ELSE IF At("commit") THEN 0 ELSE job.redirects + 1

\* Staging holds a file for each artifact that was begun.
Begun == IF job.at \in {"send", "sent"} THEN job.next - 1 ELSE job.next
Staged(m, n) == {Folded(m.artifacts[i].path) : i \in 1 .. n}
StagingInv == staging = Staged(job.manifest, Begun)

\* The inductive invariant of the installations.
SupplyInv ==
    /\ job \in Jobs /\ usage \in Usages
    /\ CatalogInv
    /\ ~At("collision")
    /\ job.at \notin Busy => usage = Unused
    /\ job.at \in Busy => TargetInv /\ ProgressInv /\ StagingInv

-----------------------------------------------------------------------------
(* Facts about manifests.                                                      *)

\* The artifacts of a known manifest are a sequence, and their sizes are numbers.
LEMMA ArtifactFacts ==
    ASSUME NEW m \in Known
    PROVE  /\ m.artifacts \in Seq(Range(m.artifacts))
           /\ Len(m.artifacts) \in Nat /\ DOMAIN m.artifacts = 1 .. Len(m.artifacts)
           /\ \A i \in 1 .. Len(m.artifacts) :
                  /\ m.artifacts[i] \in Range(m.artifacts)
                  /\ m.artifacts[i].path \in Seq(STRING) /\ m.artifacts[i].size \in Nat
           /\ Sizes(m.artifacts) \in Seq(Nat) /\ Len(Sizes(m.artifacts)) = Len(m.artifacts)
           /\ \A i \in 1 .. Len(m.artifacts) : Sizes(m.artifacts)[i] = m.artifacts[i].size
<1> DEFINE files == m.artifacts
<1>1. WellTyped(m)
  BY ProvisioningAssumption, Zenon DEF Known
<1>2. files \in Seq(Range(files))
  BY <1>1, Zenon DEF WellTyped
<1>0. \A a \in Range(files) : a.path \in Seq(STRING) /\ a.size \in 0 .. MaxU64
  BY <1>1, Zenon DEF WellTyped
<1> HIDE DEF files
<1>3. Len(files) \in Nat /\ DOMAIN files = 1 .. Len(files)
  BY <1>2
<1>4. ASSUME NEW i \in 1 .. Len(files)
      PROVE  files[i] \in Range(files) /\ files[i].path \in Seq(STRING) /\ files[i].size \in Nat
  <2>1. files[i] \in Range(files)
    BY <1>3, Zenon DEF Range
  <2>2. files[i].path \in Seq(STRING) /\ files[i].size \in 0 .. MaxU64
    BY <1>0, <2>1, Zenon
  <2>3. files[i].size \in Nat
    BY <2>2, ManifestAssumption
  <2> QED
    BY <2>1, <2>2, <2>3, Zenon
<1>5. Sizes(files) = [i \in 1 .. Len(files) |-> files[i].size]
  BY <1>3, Zenon DEF Sizes
<1>6. Sizes(files) \in Seq(Nat) /\ Len(Sizes(files)) = Len(files)
  <2> DEFINE n == Len(files)
             size(i) == files[i].size
  <2>1. n \in Nat /\ \A i \in 1 .. n : size(i) \in Nat
    BY <1>3, <1>4, Zenon
  <2>2. Sizes(files) = [i \in 1 .. n |-> size(i)]
    BY <1>5, Zenon
  <2> HIDE DEF n, size
  <2>3. Sizes(files) \in Seq(Nat) /\ Len(Sizes(files)) = n
    BY <2>1, <2>2
  <2> QED
    BY <2>3, Zenon DEF n
<1>7. \A i \in 1 .. Len(files) : Sizes(files)[i] = files[i].size
  BY <1>3, <1>5, Zenon
<1> QED
  BY <1>2, <1>3, <1>4, <1>6, <1>7, Zenon DEF files

\* The partial sums of the sizes of a manifest that fits the limits.
LEMMA SizeFacts ==
    ASSUME NEW m \in Known, FitsOptions(Options, m), NEW i \in 1 .. Len(m.artifacts)
    PROVE  LET sums == CheckedSums(Sizes(m.artifacts)) IN
           /\ sums[0] = 0 /\ sums[i - 1] \in Nat /\ sums[i] \in Nat
           /\ sums[i] = sums[i - 1] + m.artifacts[i].size
           /\ sums[i] <= TotalSize(m.artifacts)
           /\ TotalSize(m.artifacts) \in Nat /\ TotalSize(m.artifacts) <= Options.maxTotalBytes
<1> DEFINE ns == Sizes(m.artifacts)
           sums == CheckedSums(ns)
<1>1. ns \in Seq(Nat) /\ Len(ns) = Len(m.artifacts) /\ Len(ns) \in Nat
      /\ ns[i] = m.artifacts[i].size
  BY ArtifactFacts, Zenon
<1>2. CheckedSum(ns) # Overflow /\ TotalSize(m.artifacts) = CheckedSum(ns)
      /\ CheckedSum(ns) <= Options.maxTotalBytes
  BY Zenon DEF FitsOptions, TotalSize
<1> HIDE DEF ns
<1>3. i \in 1 .. Len(ns) /\ i \in 0 .. Len(ns) /\ i - 1 \in 0 .. Len(ns) /\ Len(ns) \in 0 .. Len(ns)
  BY <1>1
<1>4. sums \in [0 .. Len(ns) -> Nat] /\ sums[0] = 0
  BY <1>1, CheckedSumsAre, Zenon
<1>5. sums[i] = sums[i - 1] + ns[i]
  BY <1>1, <1>2, <1>3, CheckedSumsExact, Zenon
<1>6. sums[i] <= CheckedSum(ns)
  BY <1>1, <1>3, CheckedSumsGrow, Zenon
<1>7. sums[i - 1] \in Nat /\ sums[i] \in Nat /\ CheckedSum(ns) \in Nat
  BY <1>3, <1>4, Zenon DEF CheckedSum
<1> QED
  BY <1>1, <1>2, <1>4, <1>5, <1>6, <1>7, Zenon DEF ns

\* A known manifest is one of the catalog in use.
LEMMA KnownFromCatalog ==
    ASSUME CatalogInv, job.at \notin {"closed", "refused"}, NEW m \in Range(catalog.manifests)
    PROVE  m \in Known
BY Zenon DEF CatalogInv, Known

\* What an installation at work has received is below the limits.
LEMMA BytesBounded ==
    ASSUME SupplyInv, job.at \in Busy
    PROVE  /\ usage.bytes <= TotalSize(job.manifest.artifacts)
           /\ TotalSize(job.manifest.artifacts) <= Options.maxTotalBytes
           /\ usage.bytes <= Options.maxTotalBytes
<1> DEFINE m == job.manifest
           sums == CheckedSums(Sizes(m.artifacts))
<1>1. job \in Jobs /\ usage \in Usages /\ TargetInv /\ ProgressInv /\ CatalogInv
  BY Zenon DEF SupplyInv
<1>2. m \in Known
  BY <1>1, KnownFromCatalog, Zenon DEF TargetInv, Busy
<1>3. job.next \in 1 .. Len(m.artifacts) /\ FitsOptions(Options, m)
  BY <1>1, Zenon DEF TargetInv
<1>4. /\ sums[job.next - 1] \in Nat /\ sums[job.next] \in Nat
      /\ sums[job.next] = sums[job.next - 1] + m.artifacts[job.next].size
      /\ sums[job.next] <= TotalSize(m.artifacts)
      /\ TotalSize(m.artifacts) \in Nat /\ TotalSize(m.artifacts) <= Options.maxTotalBytes
  BY <1>2, <1>3, SizeFacts, Zenon
<1>5. usage.bytes = sums[job.next - 1] + job.received /\ job.received <= m.artifacts[job.next].size
  BY <1>1, Zenon DEF ProgressInv, Artifact
<1>6. job.received \in Nat /\ m.artifacts[job.next].size \in Nat /\ Options.maxTotalBytes \in Nat
  <2>1. job.received \in Nat
    BY <1>1, Zenon DEF Jobs
  <2>2. Options.maxTotalBytes \in Nat
    BY ProvisioningAssumption, Zenon DEF ValidOptions
  <2> QED
    BY <1>2, <1>3, <2>1, <2>2, ArtifactFacts, Zenon
<1> HIDE DEF m, sums
<1>7. /\ usage.bytes <= TotalSize(m.artifacts)
      /\ TotalSize(m.artifacts) <= Options.maxTotalBytes
      /\ usage.bytes <= Options.maxTotalBytes
  BY <1>4, <1>5, <1>6
<1> QED
  BY <1>7, Zenon DEF m

\* The invariant gives what DownloadIsBounded promises.
LEMMA SupplyBounded == SupplyInv => DownloadIsBounded
<1> SUFFICES ASSUME SupplyInv
             PROVE  DownloadIsBounded
  BY Zenon
<1>1. job \in Jobs /\ usage \in Usages /\ Options.maxRedirects \in Nat
      /\ Options.maxTotalBytes \in Nat
  BY ProvisioningAssumption, Zenon DEF SupplyInv, ValidOptions
<1>2. usage.asked \subseteq Options.allowed
  BY <1>1, Zenon DEF Usages
<1>3. CASE job.at \in Busy
  <2>1. /\ usage.bytes <= TotalSize(job.manifest.artifacts)
        /\ usage.bytes <= Options.maxTotalBytes
    BY <1>3, BytesBounded, Zenon
  <2>2. usage.requests <= Options.maxRedirects + 1
    <3>1. job.redirects \in Nat /\ job.redirects <= Options.maxRedirects
      BY <1>1, <1>3, Zenon DEF SupplyInv, ProgressInv, Jobs
    <3>2. usage.requests \in {job.redirects, 0, job.redirects + 1}
      BY <1>3, Zenon DEF SupplyInv, ProgressInv
    <3> QED
      BY <1>1, <3>1, <3>2
  <2> QED
    BY <1>2, <1>3, <2>1, <2>2, Zenon DEF DownloadIsBounded
<1>4. CASE job.at \notin Busy
  <2>1. usage.requests = 0 /\ usage.bytes = 0
    BY <1>4 DEF SupplyInv, Unused
  <2>2. usage.requests <= Options.maxRedirects + 1 /\ usage.bytes <= Options.maxTotalBytes
    BY <1>1, <2>1
  <2> QED
    BY <1>2, <1>4, <2>2, Zenon DEF DownloadIsBounded, Busy
<1> QED
  BY <1>3, <1>4, Zenon

\* The case folding keeps the length of a path.
LEMMA FoldedFacts ==
    ASSUME NEW path \in Seq(STRING)
    PROVE  DOMAIN Folded(path) = 1 .. Len(path) /\ Len(Folded(path)) = Len(path)
<1>1. Folded(path) = [i \in 1 .. Len(path) |->
                         IF path[i] \in DOMAIN Lower THEN Lower[path[i]] ELSE path[i]]
  BY DEF Folded
<1> QED
  BY <1>1

\* Two artifacts of a valid manifest never need the same place.
LEMMA ArtifactsApart ==
    ASSUME NEW m, ValidArtifacts(m.artifacts), NEW i \in DOMAIN m.artifacts,
           NEW j \in DOMAIN m.artifacts, i # j
    PROVE  /\ Folded(m.artifacts[i].path) # Folded(m.artifacts[j].path)
           /\ ~IsAncestor(Folded(m.artifacts[i].path), Folded(m.artifacts[j].path))
BY Zenon DEF ValidArtifacts

\* An artifact that comes next finds its place free.
LEMMA NoCollision ==
    ASSUME SupplyInv, At("sent")
    PROVE  ~Collides(Folded(Artifact.path))
<1>1. job \in Jobs /\ TargetInv /\ StagingInv /\ CatalogInv
  BY Zenon DEF SupplyInv, At, Busy
<1>2. PICK m \in Known : m = job.manifest
  BY <1>1, KnownFromCatalog, Zenon DEF TargetInv, At
<1>3. PICK n \in 1 .. Len(m.artifacts) : n = job.next
  BY <1>1, <1>2, Zenon DEF TargetInv
<1>4. Len(m.artifacts) \in Nat /\ DOMAIN m.artifacts = 1 .. Len(m.artifacts)
  BY ArtifactFacts, Zenon
<1>5. ValidArtifacts(m.artifacts)
  BY <1>1, <1>2, Zenon DEF TargetInv, Validate
<1>6. staging = {Folded(m.artifacts[i].path) : i \in 1 .. n - 1}
  BY <1>1, <1>2, <1>3, Zenon DEF StagingInv, Begun, Staged, At
<1>7. SUFFICES ASSUME Collides(Folded(m.artifacts[n].path))
               PROVE  FALSE
  BY <1>2, <1>3, Zenon DEF Artifact
<1>8. PICK i \in 1 .. n - 1 :
          LET file == Folded(m.artifacts[i].path)
              path == Folded(m.artifacts[n].path)
          IN  file = path \/ IsAncestor(file, path) \/ IsAncestor(path, file)
  BY <1>6, <1>7, Zenon DEF Collides
<1>9. i \in DOMAIN m.artifacts /\ n \in DOMAIN m.artifacts /\ i # n
  BY <1>4
<1> QED
  BY <1>5, <1>8, <1>9, ArtifactsApart, Zenon

\* manifest.json finds its place free, unless an artifact lies beneath it.
LEMMA ManifestFits ==
    ASSUME SupplyInv, At("commit"), Collides(ManifestFile)
    PROVE  \E a \in Range(job.manifest.artifacts) : IsAncestor(ManifestFile, Folded(a.path))
<1>1. job \in Jobs /\ TargetInv /\ StagingInv /\ CatalogInv
  BY Zenon DEF SupplyInv, At, Busy
<1>2. PICK m \in Known : m = job.manifest
  BY <1>1, KnownFromCatalog, Zenon DEF TargetInv, At
<1>3. PICK n \in 1 .. Len(m.artifacts) : n = job.next
  BY <1>1, <1>2, Zenon DEF TargetInv
<1>4. Len(m.artifacts) \in Nat /\ DOMAIN m.artifacts = 1 .. Len(m.artifacts)
  BY ArtifactFacts, Zenon
<1>5. staging = {Folded(m.artifacts[i].path) : i \in 1 .. n}
  BY <1>1, <1>2, <1>3, Zenon DEF StagingInv, Begun, Staged, At
<1>6. PICK i \in 1 .. n :
          LET file == Folded(m.artifacts[i].path)
          IN  file = ManifestFile \/ IsAncestor(file, ManifestFile) \/ IsAncestor(ManifestFile, file)
  BY <1>5, Zenon DEF Collides
<1>7. i \in DOMAIN m.artifacts
  BY <1>4
<1> DEFINE path == m.artifacts[i].path
<1>8. path \in Seq(STRING) /\ m.artifacts[i] \in Range(m.artifacts)
  BY <1>4, <1>7, ArtifactFacts, Zenon
<1>9. Folded(path) # ManifestFile /\ path # <<>>
  BY <1>1, <1>2, <1>7, Zenon DEF TargetInv, Validate, ValidArtifacts, ValidArtifact, ValidPath
<1> HIDE DEF path
<1>10. ~IsAncestor(Folded(path), ManifestFile)
  <2>1. Len(Folded(path)) = Len(path) /\ Len(path) \in Nat /\ Len(path) # 0
    BY <1>8, <1>9, FoldedFacts
  <2>2. Len(ManifestFile) = 1
    BY Zenon DEF ManifestFile
  <2> QED
    BY <2>1, <2>2 DEF IsAncestor
<1>11. IsAncestor(ManifestFile, Folded(path))
  BY <1>6, <1>9, <1>10, Zenon DEF path
<1> QED
  BY <1>2, <1>8, <1>11, Zenon DEF path

\* The invariant gives what StagingNeverCollides promises.
LEMMA SupplyApart == SupplyInv => StagingNeverCollides
BY ManifestFits, Zenon DEF SupplyInv, StagingNeverCollides

-----------------------------------------------------------------------------
(* Every step of the provisioning keeps the invariant.                         *)

\* A request is counted, with its origin.
LEMMA UsageAsked ==
    ASSUME NEW u \in Usages, NEW a \in SUBSET Options.allowed, NEW r \in Nat, NEW v,
           v = [u EXCEPT !.asked = a, !.requests = r]
    PROVE  v \in Usages /\ v.asked = a /\ v.requests = r /\ v.bytes = u.bytes
BY Zenon DEF Usages

\* The record of an installation that goes on to another artifact.
Moved(j, at, n, r, d, u) ==
    [j EXCEPT !.at = at, !.next = n, !.received = r, !.redirects = d, !.url = u]

\* It is the record of an installation.
LEMMA JobMoved ==
    ASSUME NEW j \in Jobs, NEW at \in Labels, NEW n \in Nat, NEW r \in Nat, NEW d \in Nat,
           NEW u \in Urls
    PROVE  LET k == Moved(j, at, n, r, d, u) IN
           /\ k \in Jobs /\ k.at = at /\ k.next = n /\ k.received = r /\ k.redirects = d
           /\ k.manifest = j.manifest
BY Zenon DEF Jobs, Moved

\* The record of an installation that follows a redirect.
Resent(j, at, d, u) == [j EXCEPT !.at = at, !.url = u, !.redirects = d]

\* It is the record of an installation.
LEMMA JobResent ==
    ASSUME NEW j \in Jobs, NEW at \in Labels, NEW d \in Nat, NEW u \in Urls
    PROVE  LET k == Resent(j, at, d, u) IN
           /\ k \in Jobs /\ k.at = at /\ k.next = j.next /\ k.received = j.received
           /\ k.redirects = d /\ k.manifest = j.manifest
BY Zenon DEF Jobs, Resent

\* The record of an installation that received bytes.
Receiving(j, r, b) == [j EXCEPT !.received = r, !.authentic = b]

\* It is the record of an installation.
LEMMA JobReceived ==
    ASSUME NEW j \in Jobs, NEW r \in Nat, NEW b \in BOOLEAN
    PROVE  LET k == Receiving(j, r, b) IN
           /\ k \in Jobs /\ k.at = j.at /\ k.next = j.next /\ k.received = r
           /\ k.redirects = j.redirects /\ k.manifest = j.manifest
BY Zenon DEF Jobs, Receiving

\* The record of an installation that does not run.
LEMMA RestingJob ==
    ASSUME NEW at \in {"failed", "installed"}, NEW n \in Nat,
           NEW j, j = [NoJob EXCEPT !.at = at, !.jobs = n]
    PROVE  j \in Jobs
<1>1. NoJob \in Jobs
  <2>1. <<>> \in Urls /\ <<>> \in Known \cup {<<>>} /\ "closed" \in Labels
    BY Zenon DEF Urls, Labels
  <2> QED
    BY <2>1, Zenon DEF Jobs, NoJob
<1>2. at \in Labels
  BY Zenon DEF Labels
<1> QED
  BY <1>1, <1>2, Zenon DEF Jobs

\* Nothing is used before the first request.
LEMMA UnusedType == Unused \in Usages
BY Zenon DEF Unused, Usages

\* An installation that ends leaves nothing but its staged files.
LEMMA EndKeeps ==
    ASSUME SupplyInv, NEW why \in {"failed", "installed"}, End(why),
           job.at \notin {"closed", "refused"}
    PROVE  SupplyInv'
<1>1. job' = [NoJob EXCEPT !.at = why, !.jobs = job.jobs] /\ usage' = Unused /\ catalog' = catalog
  BY Zenon DEF End
<1>2. job.jobs \in Nat
  BY Zenon DEF SupplyInv, Jobs
<1>3. job' \in Jobs
  BY <1>1, <1>2, RestingJob, Zenon
<1>4. job'.at = why
  BY <1>1, Zenon DEF NoJob
<1>5. CatalogInv'
  BY <1>1, Zenon DEF SupplyInv, CatalogInv
<1> QED
  BY <1>1, <1>3, <1>4, <1>5, UnusedType, Zenon DEF SupplyInv, At, Busy

\* A step inside an installation keeps its catalog and its manifest.
LEMMA KeepsTarget ==
    ASSUME SupplyInv, job.at \in Busy, UNCHANGED catalog,
           job'.at \in Busy, job'.manifest = job.manifest,
           job'.next \in 1 .. Len(job.manifest.artifacts)
    PROVE  CatalogInv' /\ TargetInv'
<1>1. CatalogInv /\ TargetInv
  BY Zenon DEF SupplyInv
<1>2. CatalogInv'
  BY <1>1, Zenon DEF CatalogInv, Busy
<1>3. TargetInv'
  BY <1>1, Zenon DEF TargetInv
<1> QED
  BY <1>2, <1>3, Zenon

\* What the steps of an installation at work start from.
LEMMA BusyFacts ==
    ASSUME SupplyInv, job.at \in Busy
    PROVE  /\ job \in Jobs /\ usage \in Usages /\ TargetInv /\ ProgressInv /\ StagingInv
           /\ job.manifest \in Known
           /\ job.next \in 1 .. Len(job.manifest.artifacts) /\ job.next \in Nat
           /\ Len(job.manifest.artifacts) \in Nat
           /\ job.received \in Nat /\ job.redirects \in Nat
           /\ usage.requests \in Nat /\ usage.bytes \in Nat
           /\ Artifact = job.manifest.artifacts[job.next] /\ Artifact.size \in Nat
           /\ Options.maxRedirects \in Nat
<1>1. job \in Jobs /\ usage \in Usages /\ TargetInv /\ ProgressInv /\ StagingInv /\ CatalogInv
  BY Zenon DEF SupplyInv
<1>2. job.manifest \in Known
  BY <1>1, KnownFromCatalog, Zenon DEF TargetInv, Busy
<1>3. job.next \in 1 .. Len(job.manifest.artifacts)
  BY <1>1, Zenon DEF TargetInv
<1>4. Len(job.manifest.artifacts) \in Nat /\ job.manifest.artifacts[job.next].size \in Nat
  BY <1>2, <1>3, ArtifactFacts, Zenon
<1>5. job.next \in Nat /\ job.received \in Nat /\ job.redirects \in Nat
  BY <1>1, Zenon DEF Jobs
<1>6. usage.requests \in Nat /\ usage.bytes \in Nat
  BY <1>1, Zenon DEF Usages
<1> QED
  BY <1>1, <1>2, <1>3, <1>4, <1>5, <1>6, ProvisioningAssumption, Zenon DEF Artifact

\* A catalog is opened once, and used if it is valid.
LEMMA OpenCatalogKeeps ==
    ASSUME SupplyInv, OpenCatalog
    PROVE  SupplyInv'
<1>1. PICK c \in Catalogs :
          /\ catalog' = c
          /\ job' = [job EXCEPT !.at = IF ValidCatalog(c.manifests, c.aliases)
                                       THEN "idle" ELSE "refused"]
  BY Zenon DEF OpenCatalog
<1>2. job \in Jobs /\ job.at = "closed" /\ usage \in Usages /\ usage = Unused /\ usage' = usage
  BY Zenon DEF OpenCatalog, SupplyInv, At, Busy
<1>3. job' \in Jobs /\ job'.at \in {"idle", "refused"}
      /\ (job'.at = "idle" => ValidCatalog(c.manifests, c.aliases))
  BY <1>1, <1>2, Zenon DEF Jobs, Labels
<1>4. CatalogInv'
  BY <1>1, <1>3, Zenon DEF CatalogInv
<1> QED
  BY <1>2, <1>3, <1>4, Zenon DEF SupplyInv, At, Busy

\* An installation begins with nothing staged and nothing received.
LEMMA BeginKeeps ==
    ASSUME SupplyInv, NEW name, Begin(name)
    PROVE  SupplyInv'
<1>1. /\ job \in Jobs /\ usage = Unused /\ usage' = Unused /\ catalog' = catalog /\ CatalogInv
      /\ job.at \notin {"closed", "refused"}
  BY Zenon DEF Begin, SupplyInv, Busy
<1>2. PICK m \in Resolve(catalog.manifests, catalog.aliases, name) :
          job' = IF ~(Validate(m) /\ FitsOptions(Options, m))
                 THEN [NoJob EXCEPT !.at = "failed", !.jobs = job.jobs + 1]
                 ELSE IF Installed(m)
                 THEN [NoJob EXCEPT !.at = "installed", !.jobs = job.jobs + 1]
                 ELSE IF Options.offline
                 THEN [NoJob EXCEPT !.at = "failed", !.jobs = job.jobs + 1]
                 ELSE [NoJob EXCEPT !.at = "send", !.jobs = job.jobs + 1, !.manifest = m,
                                    !.next = 1, !.url = m.artifacts[1].url]
  BY Zenon DEF Begin
<1>3. m \in Range(catalog.manifests)
  BY Zenon DEF Resolve
<1>4. m \in Known
  BY <1>1, <1>3, KnownFromCatalog, Zenon
<1>5. job.jobs + 1 \in Nat
  BY <1>1 DEF Jobs
<1>6. ASSUME NEW at \in {"failed", "installed"},
             job' = [NoJob EXCEPT !.at = at, !.jobs = job.jobs + 1]
      PROVE  SupplyInv'
  <2>1. job' \in Jobs
    BY <1>5, <1>6, RestingJob, Zenon
  <2>2. job'.at = at
    BY <1>6, Zenon DEF NoJob
  <2>3. CatalogInv'
    BY <1>1, Zenon DEF CatalogInv
  <2> QED
    BY <1>1, <2>1, <2>2, <2>3, UnusedType, Zenon DEF SupplyInv, At, Busy
<1>7. ASSUME Validate(m), FitsOptions(Options, m),
             job' = [NoJob EXCEPT !.at = "send", !.jobs = job.jobs + 1, !.manifest = m,
                                  !.next = 1, !.url = m.artifacts[1].url]
      PROVE  SupplyInv'
  <2>1. job' = [at |-> "send", manifest |-> m, next |-> 1, url |-> m.artifacts[1].url,
                redirects |-> 0, received |-> 0, authentic |-> TRUE, cancelled |-> FALSE,
                jobs |-> job.jobs + 1]
    BY <1>7, Zenon DEF NoJob
  <2>2. 1 \in 1 .. Len(m.artifacts) /\ Len(m.artifacts) \in Nat
    <3>1. Len(m.artifacts) \in 1 .. MaxArtifacts
      BY <1>7, Zenon DEF Validate
    <3> QED
      BY <3>1, ManifestAssumption
  <2>3. m.artifacts[1] \in Range(m.artifacts) /\ m.artifacts[1].size \in Nat
    BY <1>4, <2>2, ArtifactFacts, Zenon
  <2>4. m.artifacts[1].url \in Urls
    BY <1>4, <2>3, Zenon DEF Urls
  <2>5. job' \in Jobs
    BY <1>4, <1>5, <2>1, <2>4, Zenon DEF Jobs, Labels, Busy
  <2>6. job'.at = "send" /\ job'.manifest = m /\ job'.next = 1 /\ job'.received = 0
        /\ job'.redirects = 0
    BY <2>1, Zenon
  <2>7. CatalogInv'
    BY <1>1, Zenon DEF CatalogInv
  <2>8. TargetInv'
    BY <1>1, <1>3, <1>7, <2>2, <2>6, Zenon DEF TargetInv
  <2>9. ProgressInv'
    <3>1. CheckedSums(Sizes(m.artifacts))[0] = 0
      BY <1>4, <1>7, <2>2, SizeFacts, Zenon
    <3>2. usage'.bytes = 0 /\ usage'.requests = 0
      BY <1>1, Zenon DEF Unused
    <3>3. Artifact'.size \in Nat
      BY <2>3, <2>6, Zenon DEF Artifact
    <3> QED
      BY <2>6, <3>1, <3>2, <3>3, ProvisioningAssumption DEF ProgressInv, At
  <2>10. StagingInv'
    <3>1. staging' = {}
      BY <2>6, Zenon DEF Begin
    <3> QED
      BY <2>6, <3>1 DEF StagingInv, Begun, Staged
  <2> QED
    BY <1>1, <2>5, <2>6, <2>7, <2>8, <2>9, <2>10, UnusedType, Zenon DEF SupplyInv, At, Busy
<1> QED
  BY <1>2, <1>6, <1>7, Zenon

\* A cancellation changes nothing but its flag.
LEMMA CancelKeeps ==
    ASSUME SupplyInv, Cancel
    PROVE  SupplyInv'
<1>1. job.at \in Busy /\ job' = [job EXCEPT !.cancelled = TRUE] /\ UNCHANGED <<catalog, staging, usage>>
  BY Zenon DEF Cancel, Busy
<1>2. /\ job' \in Jobs /\ job'.at = job.at /\ job'.manifest = job.manifest /\ job'.next = job.next
      /\ job'.received = job.received /\ job'.redirects = job.redirects
  BY <1>1, Zenon DEF SupplyInv, Jobs
<1>3. CatalogInv' /\ TargetInv'
  BY <1>1, <1>2, BusyFacts, KeepsTarget, Zenon
<1>4. ProgressInv' /\ StagingInv'
  <2>1. ProgressInv /\ StagingInv
    BY <1>1, BusyFacts, Zenon
  <2> QED
    BY <1>1, <1>2, <2>1, Zenon DEF ProgressInv, StagingInv, Artifact, At, Begun
<1> QED
  BY <1>1, <1>2, <1>3, <1>4, Zenon DEF SupplyInv, At, Busy

\* Every hop is checked, and counted.
LEMMA SendKeeps ==
    ASSUME SupplyInv, Send
    PROVE  SupplyInv'
<1>1. job.at = "send" /\ job.at \in Busy
  BY Zenon DEF Send, At, Busy
<1>2. CASE End("failed")
  BY <1>1, <1>2, EndKeeps, Zenon
<1>3. CASE /\ Origin(job.url) \in Options.allowed
           /\ job' = [job EXCEPT !.at = "sent"]
           /\ usage' = [usage EXCEPT !.asked = @ \cup {Origin(job.url)}, !.requests = @ + 1]
           /\ UNCHANGED <<catalog, staging, cache>>
  <2>1. /\ job' \in Jobs /\ job'.at = "sent" /\ job'.manifest = job.manifest
        /\ job'.next = job.next /\ job'.received = job.received /\ job'.redirects = job.redirects
    BY <1>3, Zenon DEF SupplyInv, Jobs, Labels, Busy
  <2>2. usage' \in Usages /\ usage'.bytes = usage.bytes /\ usage'.requests = usage.requests + 1
    <3>1. usage \in [asked : SUBSET Options.allowed, requests : Nat, bytes : Nat]
      BY Zenon DEF SupplyInv, Usages
    <3>2. usage.asked \cup {Origin(job.url)} \in SUBSET Options.allowed /\ usage.requests + 1 \in Nat
      BY <1>3, <3>1
    <3> QED
      BY <1>3, <3>1, <3>2, UsageAsked, Zenon DEF Usages
  <2>3. CatalogInv' /\ TargetInv'
    BY <1>1, <1>3, <2>1, BusyFacts, KeepsTarget, Zenon DEF Busy
  <2>4. ProgressInv /\ StagingInv /\ job.redirects \in Nat
    BY <1>1, BusyFacts, Zenon
  <2>5. ProgressInv'
    <3>1. usage'.requests = job'.redirects + 1
      BY <1>1, <2>1, <2>2, <2>4, Zenon DEF ProgressInv, At
    <3> QED
      BY <1>1, <2>1, <2>2, <2>4, <3>1, ZenonT(30) DEF ProgressInv, Artifact, At
  <2>6. StagingInv'
    BY <1>1, <1>3, <2>1, <2>4, Zenon DEF StagingInv, Begun
  <2> QED
    BY <2>1, <2>2, <2>3, <2>5, <2>6, Zenon DEF SupplyInv, At, Busy
<1> QED
  BY <1>2, <1>3, Zenon DEF Send

\* A redirect is followed only below the limit.
LEMMA RedirectedKeeps ==
    ASSUME SupplyInv, Redirected
    PROVE  SupplyInv'
<1>1. job.at = "sent" /\ job.at \in Busy
  BY Zenon DEF Redirected, At, Busy
<1>2. CASE End("failed")
  BY <1>1, <1>2, EndKeeps, Zenon
<1>3. CASE /\ ~(job.redirects >= Options.maxRedirects)
           /\ \E url \in Elsewhere :
                  job' = [job EXCEPT !.at = "send", !.url = url, !.redirects = @ + 1]
           /\ UNCHANGED <<catalog, staging, cache, usage>>
  <2>0. PICK url \in Elsewhere :
            job' = [job EXCEPT !.at = "send", !.url = url, !.redirects = @ + 1]
    BY <1>3, Zenon
  <2>1. /\ job' \in Jobs /\ job'.at = "send" /\ job'.manifest = job.manifest
        /\ job'.next = job.next /\ job'.received = job.received
        /\ job'.redirects = job.redirects + 1
    <3>1. url \in Urls
      BY Zenon DEF Urls
    <3>2. job \in Jobs /\ job.redirects + 1 \in Nat /\ "send" \in Labels
      BY DEF SupplyInv, Jobs, Labels, Busy
    <3> QED
      <4>1. job' = Resent(job, "send", job.redirects + 1, url)
        BY <2>0, Zenon DEF Resent
      <4> QED
        BY <3>1, <3>2, <4>1, JobResent
  <2>3. CatalogInv' /\ TargetInv'
    BY <1>1, <1>3, <2>1, BusyFacts, KeepsTarget, Zenon DEF Busy
  <2>4. ProgressInv /\ StagingInv /\ job.redirects \in Nat /\ Options.maxRedirects \in Nat
    BY <1>1, BusyFacts, Zenon
  <2>5. ProgressInv'
    <3>1. usage'.requests = job'.redirects /\ job'.redirects <= Options.maxRedirects
      BY <1>1, <1>3, <2>1, <2>4 DEF ProgressInv, At
    <3> QED
      BY <1>1, <1>3, <2>1, <2>4, <3>1, Zenon DEF ProgressInv, Artifact, At
  <2>6. StagingInv'
    BY <1>1, <1>3, <2>1, <2>4, Zenon DEF StagingInv, Begun
  <2> QED
    BY <1>3, <2>1, <2>3, <2>5, <2>6, Zenon DEF SupplyInv, At, Busy
<1> QED
  BY <1>2, <1>3, ZenonT(30) DEF Redirected

\* The file of an artifact is added to staging; its place is free.
LEMMA AcceptedKeeps ==
    ASSUME SupplyInv, NEW length, Accepted(length)
    PROVE  SupplyInv'
<1>1. job.at = "sent" /\ job.at \in Busy /\ At("sent")
  BY Zenon DEF Accepted, At, Busy
<1>2. ~Collides(Folded(Artifact.path))
  BY <1>1, NoCollision, Zenon
<1>3. CASE End("failed")
  BY <1>1, <1>3, EndKeeps, Zenon
<1>4. CASE /\ job' = [job EXCEPT !.at = "body"]
           /\ staging' = staging \cup {Folded(Artifact.path)}
           /\ UNCHANGED <<catalog, cache, usage>>
  <2>1. /\ job' \in Jobs /\ job'.at = "body" /\ job'.manifest = job.manifest
        /\ job'.next = job.next /\ job'.received = job.received /\ job'.redirects = job.redirects
    BY <1>4, Zenon DEF SupplyInv, Jobs, Labels, Busy
  <2>3. CatalogInv' /\ TargetInv'
    BY <1>1, <1>4, <2>1, BusyFacts, KeepsTarget, Zenon DEF Busy
  <2>4. ProgressInv /\ StagingInv /\ job.next \in Nat /\ job.next # 0
        /\ Artifact = job.manifest.artifacts[job.next]
    BY <1>1, BusyFacts
  <2>5. ProgressInv'
    BY <1>1, <1>4, <2>1, <2>4, Zenon DEF ProgressInv, Artifact, At
  <2>6. StagingInv'
    <3> DEFINE m == job.manifest
               n == job.next
    <3>1. staging = {Folded(m.artifacts[i].path) : i \in 1 .. n - 1}
      BY <1>1, <2>4, Zenon DEF StagingInv, Begun, Staged
    <3>2. staging' = staging \cup {Folded(m.artifacts[n].path)}
      BY <1>4, <2>4, Zenon
    <3>3. 1 .. n = (1 .. n - 1) \cup {n}
      BY <2>4
    <3>4. staging' = {Folded(m.artifacts[i].path) : i \in 1 .. n}
      BY <3>1, <3>2, <3>3, Zenon
    <3> QED
      BY <2>1, <3>4, Zenon DEF StagingInv, Begun, Staged
  <2> QED
    BY <1>4, <2>1, <2>3, <2>5, <2>6, Zenon DEF SupplyInv, At, Busy
<1> QED
  BY <1>2, <1>3, <1>4, Zenon DEF Accepted

\* A chunk is counted only while it fits.
LEMMA ChunkKeeps ==
    ASSUME SupplyInv, NEW n \in Nat, NEW ok \in BOOLEAN, Chunk(n, ok)
    PROVE  SupplyInv'
<1>1. job.at = "body" /\ job.at \in Busy
  BY Zenon DEF Chunk, At, Busy
<1>2. CASE End("failed")
  BY <1>1, <1>2, EndKeeps, Zenon
<1>3. CASE ~End("failed")
  <2> DEFINE received == CheckedAdd(job.received, n)
  <2>1. /\ received # Overflow /\ ~(received > Artifact.size)
        /\ job' = [job EXCEPT !.received = received, !.authentic = @ /\ ok]
        /\ usage' = [usage EXCEPT !.bytes = @ + n]
        /\ UNCHANGED <<catalog, staging, cache>>
    BY <1>3, Zenon DEF Chunk
  <2>2. /\ job \in Jobs /\ job.received \in Nat /\ usage \in Usages /\ usage.bytes \in Nat
        /\ Artifact.size \in Nat /\ ProgressInv /\ StagingInv /\ job.manifest \in Known
        /\ job.next \in 1 .. Len(job.manifest.artifacts) /\ TargetInv
    BY <1>1, BusyFacts, Zenon
  <2>3. received = job.received + n
    BY <2>1, <2>2, CheckedAddIs, Zenon
  <2>4. received \in Nat /\ received <= Artifact.size
    BY <2>1, <2>2, <2>3
  <2> HIDE DEF received
  <2>5. /\ job' \in Jobs /\ job'.at = "body" /\ job'.manifest = job.manifest
        /\ job'.next = job.next /\ job'.received = received /\ job'.redirects = job.redirects
    <3>1. (job.authentic /\ ok) \in BOOLEAN
      BY Zenon
    <3> QED
      <4>1. job' = Receiving(job, received, job.authentic /\ ok)
        BY <2>1, Zenon DEF Receiving
      <4> QED
        BY <1>1, <2>2, <2>4, <3>1, <4>1, JobReceived, ZenonT(30)
  <2>6. usage' \in Usages /\ usage'.bytes = usage.bytes + n /\ usage'.requests = usage.requests
    BY <2>1, <2>2 DEF Usages
  <2>7. CatalogInv' /\ TargetInv'
    BY <1>1, <2>1, <2>2, <2>5, KeepsTarget, Zenon DEF Busy
  <2>8. ProgressInv'
    <3> DEFINE sum == CheckedSums(Sizes(job.manifest.artifacts))[job.next - 1]
    <3>1. usage.bytes = sum + job.received /\ sum \in Nat
      <4>1. sum \in Nat
        BY <2>2, SizeFacts, Zenon DEF TargetInv
      <4> QED
        BY <2>2, <4>1, Zenon DEF ProgressInv
    <3> HIDE DEF sum
    <3>2. usage'.bytes = sum + received
      BY <2>2, <2>3, <2>6, <3>1
    <3>3. usage'.requests = job'.redirects + 1 /\ job'.redirects <= Options.maxRedirects
      BY <1>1, <2>2, <2>5, <2>6, Zenon DEF ProgressInv, At
    <3> QED
      BY <2>4, <2>5, <3>2, <3>3, Zenon DEF sum, ProgressInv, Artifact, At
  <2>9. StagingInv'
    BY <1>1, <2>1, <2>2, <2>5, Zenon DEF StagingInv, Begun
  <2> QED
    BY <2>5, <2>6, <2>7, <2>8, <2>9, Zenon DEF SupplyInv, At, Busy
<1> QED
  BY <1>2, <1>3, Zenon

\* An artifact of the right size is followed by the next one, or by the commit.
LEMMA BodyEndsKeeps ==
    ASSUME SupplyInv, BodyEnds
    PROVE  SupplyInv'
<1>1. job.at = "body" /\ job.at \in Busy
  BY Zenon DEF BodyEnds, At, Busy
<1> DEFINE m == job.manifest
           sums == CheckedSums(Sizes(m.artifacts))
<1>2. /\ job \in Jobs /\ usage \in Usages /\ TargetInv /\ ProgressInv /\ StagingInv
      /\ m \in Known /\ job.next \in 1 .. Len(m.artifacts) /\ job.next \in Nat
      /\ Len(m.artifacts) \in Nat /\ job.received \in Nat /\ Options.maxRedirects \in Nat
      /\ Artifact = m.artifacts[job.next] /\ Artifact.size \in Nat
  BY <1>1, BusyFacts, Zenon
<1>3. CASE End("failed")
  BY <1>1, <1>3, EndKeeps, Zenon
<1>4. ASSUME usage' = [usage EXCEPT !.requests = 0]
      PROVE  usage' \in Usages /\ usage'.bytes = usage.bytes /\ usage'.requests = 0
  BY <1>2, <1>4, Zenon DEF Usages
<1>5. CASE /\ job.received = Artifact.size /\ job.next = Len(m.artifacts)
           /\ job' = [job EXCEPT !.at = "commit"]
           /\ usage' = [usage EXCEPT !.requests = 0]
           /\ UNCHANGED <<catalog, staging, cache>>
  <2>1. /\ job' \in Jobs /\ job'.at = "commit" /\ job'.manifest = m
        /\ job'.next = job.next /\ job'.received = job.received /\ job'.redirects = job.redirects
    BY <1>2, <1>5, Zenon DEF Jobs, Labels, Busy
  <2>2. CatalogInv' /\ TargetInv'
    BY <1>1, <1>2, <1>5, <2>1, KeepsTarget, Zenon DEF Busy
  <2>3. ProgressInv'
    BY <1>1, <1>2, <1>4, <1>5, <2>1, Zenon DEF ProgressInv, Artifact, At
  <2>4. StagingInv'
    BY <1>1, <1>2, <1>5, <2>1, Zenon DEF StagingInv, Begun
  <2> QED
    BY <1>4, <1>5, <2>1, <2>2, <2>3, <2>4, ZenonT(30) DEF SupplyInv, At, Busy
<1>6. CASE /\ job.received = Artifact.size /\ job.next # Len(m.artifacts)
           /\ job' = [job EXCEPT !.at = "send", !.next = @ + 1, !.received = 0,
                                 !.redirects = 0, !.url = m.artifacts[job.next + 1].url]
           /\ usage' = [usage EXCEPT !.requests = 0]
           /\ UNCHANGED <<catalog, staging, cache>>
  <2> DEFINE n == job.next + 1
  <2>1. n \in 1 .. Len(m.artifacts) /\ n \in Nat /\ n - 1 = job.next
    BY <1>2, <1>6
  <2>2. m.artifacts[n] \in Range(m.artifacts) /\ m.artifacts[n].size \in Nat
    BY <1>2, <2>1, ArtifactFacts, Zenon
  <2>3. m.artifacts[n].url \in Urls
    BY <1>2, <2>2, Zenon DEF Urls
  <2>4. /\ job' \in Jobs /\ job'.at = "send" /\ job'.manifest = m
        /\ job'.next = n /\ job'.received = 0 /\ job'.redirects = 0
    <3> DEFINE url == m.artifacts[n].url
    <3>1. job' = Moved(job, "send", n, 0, 0, url)
      BY <1>6, Zenon DEF Moved
    <3>2. job \in Jobs /\ n \in Nat /\ url \in Urls
      BY <1>2, <2>1, <2>3, Zenon
    <3>3. "send" \in Labels /\ 0 \in Nat
      BY Zenon DEF Labels, Busy
    <3> HIDE DEF n, url
    <3> QED
      BY <3>1, <3>2, <3>3, JobMoved
  <2>5. CatalogInv' /\ TargetInv'
    BY <1>1, <1>2, <1>6, <2>1, <2>4, KeepsTarget, Zenon DEF Busy
  <2>6. ProgressInv'
    <3>1. usage.bytes = sums[job.next - 1] + job.received
      BY <1>2, Zenon DEF ProgressInv
    <3>2. sums[job.next] = sums[job.next - 1] + m.artifacts[job.next].size /\ sums[job.next] \in Nat
      BY <1>2, SizeFacts, Zenon DEF TargetInv
    <3>3. usage'.bytes = sums[n - 1] + 0 /\ usage'.requests = 0
      BY <1>2, <1>4, <1>6, <2>1, <3>1, <3>2
    <3>4. Artifact'.size \in Nat
      BY <2>2, <2>4, Zenon DEF Artifact
    <3> QED
      BY <1>2, <2>4, <3>3, <3>4 DEF ProgressInv, At
  <2>7. StagingInv'
    BY <1>1, <1>2, <1>6, <2>1, <2>4, Zenon DEF StagingInv, Begun
  <2> QED
    BY <1>4, <1>6, <2>4, <2>5, <2>6, <2>7, Zenon DEF SupplyInv, At, Busy
<1> QED
  BY <1>3, <1>5, <1>6, Zenon DEF BodyEnds

\* The commit ends the installation, whatever it finds.
LEMMA CommitKeeps ==
    ASSUME SupplyInv, Commit
    PROVE  SupplyInv'
<1>1. job.at = "commit" /\ job.at \notin {"closed", "refused"}
  BY Zenon DEF Commit, At
<1>2. CASE End("failed")
  BY <1>1, <1>2, EndKeeps, Zenon
<1>3. CASE /\ job' = [NoJob EXCEPT !.at = "installed", !.jobs = job.jobs]
           /\ usage' = Unused /\ UNCHANGED catalog
  <2>1. job.jobs \in Nat
    BY Zenon DEF SupplyInv, Jobs
  <2>2. job' \in Jobs
    BY <1>3, <2>1, RestingJob, Zenon
  <2>3. job'.at = "installed"
    BY <1>3, Zenon DEF NoJob
  <2>4. CatalogInv'
    BY <1>1, <1>3, Zenon DEF SupplyInv, CatalogInv
  <2> QED
    BY <1>3, <2>2, <2>3, <2>4, UnusedType, Zenon DEF SupplyInv, At, Busy
<1> QED
  BY <1>2, <1>3, Zenon DEF Commit

\* Before the catalog is opened nothing was asked for.
LEMMA SupplyInit == ProvisioningInit => SupplyInv
<1> SUFFICES ASSUME ProvisioningInit
             PROVE  SupplyInv
  BY Zenon
<1>1. <<>> \in Urls /\ <<>> \in Known \cup {<<>>} /\ "closed" \in Labels
  BY Zenon DEF Urls, Labels
<1>2. job \in Jobs /\ job.at = "closed"
  BY <1>1, Zenon DEF ProvisioningInit, NoJob, Jobs
<1> QED
  BY <1>2, UnusedType, Zenon DEF ProvisioningInit, SupplyInv, CatalogInv, At, Busy

\* Every step of the provisioning keeps its invariant.
LEMMA SupplyStep == SupplyInv /\ ProvisioningNext => SupplyInv'
<1> SUFFICES ASSUME SupplyInv, ProvisioningNext
             PROVE  SupplyInv'
  BY Zenon
<1>1. CASE Broken
  BY <1>1, EndKeeps, Zenon DEF Broken
<1>2. ASSUME NEW name \in Names, Begin(name)
      PROVE  SupplyInv'
  BY <1>2, BeginKeeps, Zenon
<1>3. ASSUME NEW length, Accepted(length)
      PROVE  SupplyInv'
  BY <1>3, AcceptedKeeps, Zenon
<1>4. ASSUME At("body"), NEW n \in 1 .. Artifact.size + 1, NEW ok \in BOOLEAN, Chunk(n, ok)
      PROVE  SupplyInv'
  <2>1. Artifact.size \in Nat
    BY <1>4, BusyFacts, Zenon DEF At, Busy
  <2>2. n \in Nat
    BY <2>1
  <2> QED
    BY <1>4, <2>2, ChunkKeeps, Zenon
<1> QED
  BY <1>1, <1>2, <1>3, <1>4, OpenCatalogKeeps, CancelKeeps, SendKeeps, RedirectedKeeps,
     BodyEndsKeeps, CommitKeeps, Zenon DEF ProvisioningNext

\* The invariant depends on the variables of the provisioning only.
LEMMA SupplyStutter == SupplyInv /\ UNCHANGED supply => SupplyInv'
BY DEF supply, SupplyInv, CatalogInv, TargetInv, ProgressInv, StagingInv, Begun, Artifact, At

-----------------------------------------------------------------------------
(* Facts about encodings, costs and vectors.                                   *)

\* A model the engine may serve: its tokenizer adds and keeps some tokens, and its graph
\* was held against the contract.
Sound(m) ==
    /\ m.tokenizer.maxTokens \in Nat
    /\ Files[TokenizerDigest(m)].added \in Nat /\ Files[TokenizerDigest(m)].cut \in Nat
    /\ m.pooling \in {"cls", "mean", "last_token"} /\ Files[ModelDigest(m)].rank \in {2, 3}

\* The smaller of two numbers.
LEMMA MinOfTwo ==
    ASSUME NEW a \in Nat, NEW b \in Nat
    PROVE  Min({a, b}) \in Nat
<1>1. \E x \in {a, b} : \A y \in {a, b} : x <= y
  OBVIOUS
<1> QED
  BY <1>1, Zenon DEF Min

\* The larger of two numbers.
LEMMA MaxOfTwo ==
    ASSUME NEW a \in Nat, NEW b \in Nat
    PROVE  Max({a, b}) = IF a <= b THEN b ELSE a
<1>1. \E x \in {a, b} : \A y \in {a, b} : x >= y
  OBVIOUS
<1>2. Max({a, b}) \in {a, b} /\ \A y \in {a, b} : Max({a, b}) >= y
  BY <1>1, Zenon DEF Max
<1> QED
  BY <1>2

\* A request is encoded to one number of tokens for each text.
LEMMA EncodingFacts ==
    ASSUME NEW m, Sound(m), NEW request \in Requests
    PROVE  LET lengths == Encodings(m, request) IN
           /\ lengths \in Seq(Nat) /\ Len(lengths) = Len(request.texts) /\ Len(lengths) \in Nat
           /\ DOMAIN lengths = 1 .. Len(lengths) /\ DOMAIN request.texts = DOMAIN lengths
           /\ \A i \in DOMAIN lengths :
                  lengths[i] \in Nat /\ lengths[i] = Encoded(m, request, request.texts[i])
<1> DEFINE texts == request.texts
           length(i) == Encoded(m, request, texts[i])
<1>1. texts \in Seq([tokens : Nat, prefixed : BOOLEAN])
  BY EngineAssumption, Zenon
<1>2. Len(texts) \in Nat /\ DOMAIN texts = 1 .. Len(texts)
  BY <1>1
<1>3. ASSUME NEW i \in 1 .. Len(texts)
      PROVE  length(i) \in Nat
  <2>1. texts[i].tokens \in Nat
    <3>1. texts[i] \in [tokens : Nat, prefixed : BOOLEAN]
      <4> DEFINE Texts == [tokens : Nat, prefixed : BOOLEAN]
      <4>1. texts \in Seq(Texts)
        BY <1>1, Zenon
      <4> HIDE DEF texts, Texts
      <4>2. texts[i] \in Texts
        BY <1>3, <4>1
      <4> QED
        BY <4>2, Zenon DEF Texts
    <3> QED
      BY <3>1, Zenon
  <2>2. FullLength(m, request, texts[i]) \in Nat
    <3> DEFINE a == texts[i].tokens
               b == Files[TokenizerDigest(m)].added
               c == IF HasPrefix(m, request.task) /\ ~texts[i].prefixed THEN 1 ELSE 0
    <3>1. a \in Nat /\ b \in Nat /\ c \in Nat
      BY <2>1, Zenon DEF Sound
    <3>2. FullLength(m, request, texts[i]) = a + b + c
      BY Zenon DEF FullLength
    <3> HIDE DEF a, b, c
    <3> QED
      BY <3>1, <3>2
  <2>3. /\ Min({FullLength(m, request, texts[i]), m.tokenizer.maxTokens}) \in Nat
        /\ Min({FullLength(m, request, texts[i]), Files[TokenizerDigest(m)].cut}) \in Nat
    BY <2>2, MinOfTwo, Zenon DEF Sound
  <2> QED
    BY <2>2, <2>3, Zenon DEF Encoded
<1>4. Encodings(m, request) = [i \in 1 .. Len(texts) |-> length(i)]
  BY <1>2, Zenon DEF Encodings
<1> DEFINE n == Len(texts)
<1>5. n \in Nat /\ \A i \in 1 .. n : length(i) \in Nat
  BY <1>2, <1>3, Zenon
<1>6. Encodings(m, request) = [i \in 1 .. n |-> length(i)]
  BY <1>4, Zenon
<1> HIDE DEF n, length
<1>7. /\ Encodings(m, request) \in Seq(Nat) /\ Len(Encodings(m, request)) = n
      /\ DOMAIN Encodings(m, request) = 1 .. n
      /\ \A i \in 1 .. n : Encodings(m, request)[i] \in Nat /\ Encodings(m, request)[i] = length(i)
  BY <1>5, <1>6
<1> QED
  BY <1>2, <1>5, <1>7, Zenon DEF n, length

\* The longest row, of rows that are all below a bound.
LEMMA LongestFacts ==
    ASSUME NEW lengths \in Seq(Nat), NEW b \in Nat, \A n \in Range(lengths) : n <= b
    PROVE  /\ Longest(lengths) \in Nat /\ Longest(lengths) >= 1
           /\ \A i \in DOMAIN lengths : lengths[i] <= Longest(lengths)
<1> DEFINE S == {1} \cup Range(lengths)
           c == b + 1
<1>1. Range(lengths) \subseteq Nat /\ \A i \in DOMAIN lengths : lengths[i] \in Range(lengths)
  BY DEF Range
<1>2. S \in SUBSET Nat /\ 1 \in S /\ c \in Nat
  BY <1>1
<1>3. \A k \in S : k <= c
  BY <1>1
<1>4. Longest(lengths) = Max(S)
  BY Zenon DEF Longest
<1>5. \A i \in DOMAIN lengths : lengths[i] \in S
  BY <1>1, Zenon
<1> HIDE DEF S, c
<1>6. Max(S) \in S /\ \A k \in S : k <= Max(S)
  BY <1>2, <1>3, LargestNatural, Zenon
<1> QED
  BY <1>2, <1>4, <1>5, <1>6, Zenon

\* The positions that a row of n tokens is pooled from.
Picked(n, pooling) ==
    CASE pooling = "cls" -> {1}
      [] pooling = "last_token" -> {n}
      [] pooling = "mean" -> 1 .. n

\* The mask of a row marks exactly its tokens, and the pooling picks from these.
LEMMA PooledFacts ==
    ASSUME NEW lengths \in Seq(Nat), NEW i \in DOMAIN lengths,
           Longest(lengths) \in Nat, lengths[i] <= Longest(lengths), lengths[i] > 0,
           NEW pooling \in {"cls", "mean", "last_token"}
    PROVE  Pooled(Mask(lengths, i), pooling) = Picked(lengths[i], pooling)
<1> DEFINE n == lengths[i]
           mask == Mask(lengths, i)
           indices == {c \in DOMAIN mask : mask[c]}
<1>1. n \in Nat /\ n > 0 /\ n <= Longest(lengths)
  OBVIOUS
<1>2. mask = [c \in 1 .. Longest(lengths) |-> c <= n]
  BY Zenon DEF Mask
<1> HIDE DEF n, mask
<1>3. indices = 1 .. n
  <2>1. DOMAIN mask = 1 .. Longest(lengths)
    BY <1>2, Zenon
  <2>2. \A c \in 1 .. Longest(lengths) : mask[c] = (c <= n)
    BY <1>2, Zenon
  <2>3. \A c : c \in indices <=> c \in 1 .. Longest(lengths) /\ c <= n
    BY <2>1, <2>2, Zenon
  <2>4. \A c : (c \in 1 .. Longest(lengths) /\ c <= n) <=> c \in 1 .. n
    BY <1>1
  <2> QED
    BY <2>3, <2>4, Zenon
<1>4. Min(1 .. n) = 1
  <2>1. 1 \in 1 .. n /\ \A y \in 1 .. n : 1 <= y
    BY <1>1
  <2>2. Min(1 .. n) \in 1 .. n /\ \A y \in 1 .. n : Min(1 .. n) <= y
    BY <2>1, Zenon DEF Min
  <2> QED
    BY <2>1, <2>2
<1>5. Max(1 .. n) = n
  <2>1. n \in 1 .. n /\ \A y \in 1 .. n : n >= y
    BY <1>1
  <2>2. Max(1 .. n) \in 1 .. n /\ \A y \in 1 .. n : Max(1 .. n) >= y
    BY <2>1, Zenon DEF Max
  <2> QED
    BY <2>1, <2>2
<1>6. Pooled(mask, pooling) =
          CASE pooling = "cls" -> {Min(indices)}
            [] pooling = "last_token" -> {Max(indices)}
            [] pooling = "mean" -> indices
  BY Zenon DEF Pooled
<1> HIDE DEF indices
<1> QED
  BY <1>3, <1>4, <1>5, <1>6, Zenon DEF n, mask, Picked

\* A vector is cut before it is normalised, so its length is one over the width it
\* is delivered with.
LEMMA FinishFacts ==
    ASSUME NEW positions, NEW hidden, NEW dimensions, NEW normalize
    PROVE  LET width == IF dimensions = 0 THEN hidden ELSE dimensions IN
           Finish([positions |-> positions, width |-> hidden, unit |-> 0], dimensions, normalize) =
               [positions |-> positions, width |-> width, unit |-> IF normalize THEN width ELSE 0]
BY Zenon DEF Finish, Normalized

\* The vectors of an inference are those each text gives on its own.
LEMMA VectorsFacts ==
    ASSUME NEW m, Sound(m), NEW request \in Requests, Encodable(m, request),
           NEW hidden, Vectors(m, request, Encodings(m, request), hidden) # Nothing
    PROVE  LET vectors == Vectors(m, request, Encodings(m, request), hidden) IN
           \A i \in DOMAIN request.texts : vectors[i] = Alone(m, request, request.texts[i]).vector
<1> DEFINE lengths == Encodings(m, request)
           rank == Files[ModelDigest(m)].rank
           positions(i) == IF rank = 2 THEN {} ELSE Pooled(Mask(lengths, i), m.pooling)
           vector(i) == Finish([positions |-> positions(i), width |-> hidden, unit |-> 0],
                               request.dimensions, Normalizes(m, request))
<1>1. /\ lengths \in Seq(Nat) /\ DOMAIN request.texts = DOMAIN lengths
      /\ \A i \in DOMAIN lengths :
             lengths[i] \in Nat /\ lengths[i] = Encoded(m, request, request.texts[i])
  BY EncodingFacts, Zenon
<1>2. /\ hidden = m.dimensions.native /\ ~(rank = 3 /\ 0 \in Range(lengths))
      /\ Vectors(m, request, lengths, hidden) = [i \in DOMAIN lengths |-> vector(i)]
  BY Zenon DEF Vectors, ValidShape
<1>3. rank \in {2, 3} /\ m.pooling \in {"cls", "mean", "last_token"} /\ m.tokenizer.maxTokens \in Nat
  BY Zenon DEF Sound
<1>4. \A n \in Range(lengths) : n <= m.tokenizer.maxTokens
  BY Zenon DEF Encodable
<1> HIDE DEF lengths, rank
<1>5. Longest(lengths) \in Nat /\ \A i \in DOMAIN lengths : lengths[i] <= Longest(lengths)
  BY <1>1, <1>3, <1>4, LongestFacts, Zenon
<1> SUFFICES ASSUME NEW i \in DOMAIN lengths
             PROVE  vector(i) = Alone(m, request, request.texts[i]).vector
  BY <1>1, <1>2, Zenon DEF lengths
<1> DEFINE n == lengths[i]
           width == IF request.dimensions = 0 THEN m.dimensions.native ELSE request.dimensions
           pooled == Picked(n, m.pooling)
<1>6. positions(i) = IF rank = 2 THEN {} ELSE pooled
  <2>1. CASE rank = 2
    BY <2>1, Zenon
  <2>2. CASE rank # 2
    <3>1. n # 0 /\ n \in Nat
      BY <1>1, <1>2, <1>3, <2>2, Zenon DEF Range
    <3>2. n > 0
      BY <3>1
    <3>3. Pooled(Mask(lengths, i), m.pooling) = pooled
      <4>1. lengths[i] > 0 /\ lengths[i] <= Longest(lengths)
        BY <1>5, <3>2, Zenon
      <4> QED
        BY <1>1, <1>3, <1>5, <4>1, PooledFacts, Zenon
    <3> QED
      BY <2>2, <3>3, Zenon
  <2> QED
    BY <2>1, <2>2, Zenon
<1>7. vector(i) = [positions |-> positions(i), width |-> width,
                   unit |-> IF Normalizes(m, request) THEN width ELSE 0]
  <2> HIDE DEF positions
  <2> QED
    BY <1>2, FinishFacts
<1>8. Alone(m, request, request.texts[i]).vector =
          [positions |-> IF rank = 2 THEN {} ELSE pooled, width |-> width,
           unit |-> IF Normalizes(m, request) THEN width ELSE 0]
  <2>1. Encoded(m, request, request.texts[i]) = n
    BY <1>1, Zenon
  <2>2. Alone(m, request, request.texts[i]).vector =
            [positions |-> IF rank = 2 THEN {}
                           ELSE Picked(Encoded(m, request, request.texts[i]), m.pooling),
             width |-> width, unit |-> IF Normalizes(m, request) THEN width ELSE 0]
    BY Zenon DEF Alone, rank, Picked
  <2> QED
    BY <2>1, <2>2, Zenon
<1> HIDE DEF vector, positions, pooled, width
<1> QED
  BY <1>6, <1>7, <1>8

\* The tokens of an output are those of each text on its own.
LEMMA UsageFacts ==
    ASSUME NEW m, Sound(m), NEW request \in Requests
    PROVE  \A i \in DOMAIN request.texts :
               Encodings(m, request)[i] = Alone(m, request, request.texts[i]).tokens
<1>1. \A i \in DOMAIN request.texts :
          Encodings(m, request)[i] = Encoded(m, request, request.texts[i])
  BY EncodingFacts, Zenon
<1> QED
  BY <1>1, Zenon DEF Alone

\* A cost that preflight accepts is that of the inference itself.
LEMMA CostFacts ==
    ASSUME NEW m, Sound(m), NEW request \in Requests, ValidCost(Cost(m, request))
    PROVE  LET lengths == Encodings(m, request)
               cost == Cost(m, request)
           IN  /\ Len(lengths) = cost.items /\ Total(lengths) <= cost.tokens
               /\ Longest(lengths) = cost.longest
<1> DEFINE lengths == Encodings(m, request)
           counted(i) == Max({1, lengths[i]})
           counts == [i \in DOMAIN lengths |-> counted(i)]
<1>1. /\ lengths \in Seq(Nat) /\ Len(lengths) \in Nat /\ DOMAIN lengths = 1 .. Len(lengths)
      /\ \A i \in DOMAIN lengths : lengths[i] \in Nat
  BY EncodingFacts, Zenon
<1>2. Cost(m, request) = [items |-> Len(lengths), tokens |-> CheckedSum(counts),
                          longest |-> Longest(lengths)]
  BY Zenon DEF Cost
<1>3. CheckedSum(counts) # Overflow
  BY <1>2 DEF ValidCost
<1> HIDE DEF lengths
<1>4. ASSUME NEW i \in 1 .. Len(lengths)
      PROVE  counted(i) \in Nat /\ lengths[i] <= counted(i)
  <2>1. lengths[i] \in Nat
    BY <1>1, Zenon
  <2>2. counted(i) = IF 1 <= lengths[i] THEN lengths[i] ELSE 1
    BY <2>1, MaxOfTwo, Zenon
  <2> QED
    BY <2>1, <2>2
<1> HIDE DEF counted
<1>5. counts = [i \in 1 .. Len(lengths) |-> counted(i)]
  BY <1>1, Zenon
<1>6. counts \in Seq(Nat) /\ Len(counts) = Len(lengths)
      /\ \A i \in 1 .. Len(lengths) : lengths[i] <= counts[i]
  BY <1>1, <1>4, <1>5
<1> HIDE DEF counts
<1>7. Total(lengths) <= CheckedSum(counts)
  BY <1>1, <1>3, <1>6, TotalIsBounded, Zenon
<1> QED
  BY <1>2, <1>7 DEF lengths

-----------------------------------------------------------------------------
(* The inductive invariant of the engine.                                      *)

\* The models of the catalog that a load may name.
Usable == {m \in Range(catalog.manifests) : Loadable(m)}

Parts(m) == {ModelDigest(m), TokenizerDigest(m)}
Bytes(m, at) ==
    CASE at \in {"verify", "model"} -> {}
      [] at = "tokenizer" -> {ModelDigest(m)}
      [] at \in {"build", "publish"} -> Parts(m)

\* A load on its way: the epoch it reserved is the number of its transition, and
\* it holds the bytes it has read so far, each as the manifest declares them.
Loading(o, models, turns) ==
    /\ o.at \in {"verify", "model", "tokenizer", "build", "publish"}
    /\ o = [at |-> o.at, manifest |-> o.manifest, epoch |-> o.epoch, turn |-> o.turn,
            bytes |-> o.bytes]
    /\ o.manifest \in models /\ o.turn \in 1 .. turns /\ o.epoch = o.turn
    /\ o.bytes = Bytes(o.manifest, o.at)
    /\ o.at # "verify" => Executable(o.manifest)
    /\ o.at \in {"tokenizer", "build", "publish"} =>
           ~UsesExternalData(Files[ModelDigest(o.manifest)])
    /\ o.at = "publish" => MeetsContract(Files[ModelDigest(o.manifest)], o.manifest)

\* An inference on its way, and its model.
Reading(o, m) ==
    /\ o.at \in {"contract", "admitted", "run", "deliver", "returned"}
    /\ o.request \in Requests /\ m.id = o.request.model
    /\ o.contract = [model |-> Identity(m), width |-> m.dimensions.native]
    /\ o.at # "contract" => o.cost = Cost(m, o.request) /\ ValidCost(o.cost)
    /\ o.at \in {"run", "deliver"} => o.model = m /\ Encodable(m, o.request)
    /\ o.at \in {"run", "deliver", "returned"} => o.usage = Encodings(m, o.request)
    /\ o.at \in {"deliver", "returned"} =>
           \A i \in DOMAIN o.request.texts :
               o.vectors[i] = Alone(m, o.request, o.request.texts[i]).vector
    /\ o.at = "returned" => o.model = Identity(m)
    /\ o.at = "run" =>
           o = [at |-> o.at, request |-> o.request, model |-> o.model, contract |-> o.contract,
                cost |-> o.cost, usage |-> o.usage, active |-> o.active]
    /\ o.at = "deliver" =>
           o = [at |-> o.at, request |-> o.request, contract |-> o.contract, cost |-> o.cost,
                model |-> o.model, usage |-> o.usage, vectors |-> o.vectors, active |-> o.active]

Proper(o, models, turns) ==
    \/ o.at \in {"idle", "warm"}
    \/ Loading(o, models, turns)
    \/ \E m \in models : Sound(m) /\ Reading(o, m)

\* What is loaded was built from the declared bytes alone.
Holding(l, models) ==
    l.manifest # Nothing =>
        /\ l.manifest \in models /\ Sound(l.manifest)
        /\ ~UsesExternalData(Files[ModelDigest(l.manifest)])
        /\ l.bytes = Parts(l.manifest)

Tallies == [turns : Nat, effective : Nat, embeds : Nat, alterations : Nat]

\* The epoch counts the transitions, which are too few for it to wrap around.
TallyInv ==
    /\ tally \in Tallies /\ tally.turns <= MaxTransitions /\ tally.effective <= tally.turns
    /\ epoch = tally.turns /\ loaded.turn = tally.effective

\* Nobody has asked anything of the engine yet.
Fresh == tally.turns = 0 /\ tally.embeds = 0

OpsInv ==
    /\ op = [t \in Thread |-> op[t]]
    /\ \A t \in Thread : Proper(op[t], Usable, tally.turns)

\* The inductive invariant of the engine.
EngineInv ==
    /\ TallyInv
    /\ Holding(loaded, Usable)
    /\ OpsInv
    /\ Fresh => loaded.manifest = Nothing /\ \A t \in Thread : op[t] = Idle

\* The inductive invariant of the whole.
IInv == SupplyInv /\ EngineInv

-----------------------------------------------------------------------------
(* Every step of the engine keeps the invariant.                               *)

\* The engine runs on a catalog that was accepted.
Settled == SupplyInv /\ job.at \in {"failed", "installed"}

\* What the catalog guarantees of a model that a load may name.
LEMMA UsableFacts ==
    ASSUME Settled, NEW m \in Usable
    PROVE  /\ m.tokenizer.maxTokens \in Nat /\ m.pooling \in {"cls", "mean", "last_token"}
           /\ Executable(m) => /\ Files[TokenizerDigest(m)].added \in Nat
                               /\ Files[TokenizerDigest(m)].cut \in Nat
<1>1. catalog \in Catalogs /\ ValidCatalog(catalog.manifests, catalog.aliases)
  BY Zenon DEF Settled, SupplyInv, CatalogInv
<1>2. m \in Range(catalog.manifests)
  BY Zenon DEF Usable
<1>3. WellTyped(m)
  BY <1>1, <1>2, ProvisioningAssumption, Zenon
<1>4. Validate(m)
  BY <1>1, <1>2, Zenon DEF ValidCatalog, Range
<1>5. Executable(m) => /\ Files[TokenizerDigest(m)].added \in Nat
                       /\ Files[TokenizerDigest(m)].cut \in Nat
  BY <1>1, <1>2, <1>4, FilesAssumption, Zenon DEF Executable
<1> QED
  BY <1>3, <1>5, Zenon DEF WellTyped

\* An id names one model of the catalog.
LEMMA UniqueIds ==
    ASSUME Settled, NEW m \in Usable, NEW n \in Usable, m.id = n.id
    PROVE  m = n
<1>1. ValidCatalog(catalog.manifests, catalog.aliases)
  BY Zenon DEF Settled, SupplyInv, CatalogInv
<1>2. PICK i \in DOMAIN catalog.manifests : m = catalog.manifests[i]
  BY Zenon DEF Usable, Range
<1>3. PICK j \in DOMAIN catalog.manifests : n = catalog.manifests[j]
  BY Zenon DEF Usable, Range
<1> QED
  BY <1>1, <1>2, <1>3, Zenon DEF ValidCatalog

\* A later transition leaves what the others are doing in order.
LEMMA ProperLater ==
    ASSUME NEW o, NEW models, NEW n \in Nat, NEW k \in Nat, n <= k, Proper(o, models, n)
    PROVE  Proper(o, models, k)
<1>1. ASSUME Loading(o, models, n)
      PROVE  Loading(o, models, k)
  <2>1. o.turn \in 1 .. k
    BY <1>1 DEF Loading
  <2> QED
    BY <1>1, <2>1, Zenon DEF Loading
<1> QED
  BY <1>1, Zenon DEF Proper

\* A thread goes on to something else.
LEMMA Assigned ==
    ASSUME op = [u \in Thread |-> op[u]], NEW t \in Thread, NEW v, op' = [op EXCEPT ![t] = v]
    PROVE  /\ op' = [u \in Thread |-> op'[u]]
           /\ op'[t] = v /\ \A u \in Thread : u # t => op'[u] = op[u]
<1>1. op' = [u \in Thread |-> IF u = t THEN v ELSE op[u]]
  <2>1. DOMAIN op = Thread
    BY Zenon
  <2> QED
    BY <2>1, Zenon
<1> QED
  BY <1>1, Zenon

\* The models stay while the engine runs.
LEMMA UsableStays == UNCHANGED supply => Usable' = Usable
BY Zenon DEF supply, Usable, Loadable, Installed

\* A step of one thread that touches only what this thread is doing.
LEMMA OwnStep ==
    ASSUME Settled, EngineInv, UNCHANGED supply, NEW t \in Thread, op[t].at # "idle", NEW v,
           op' = [op EXCEPT ![t] = v], Proper(v, Usable, tally.turns),
           UNCHANGED <<epoch, loaded, tally>>
    PROVE  EngineInv'
<1>1. Usable' = Usable
  BY UsableStays, Zenon
<1>2. /\ op' = [u \in Thread |-> op'[u]]
      /\ op'[t] = v /\ \A u \in Thread : u # t => op'[u] = op[u]
  BY Assigned, Zenon DEF EngineInv, OpsInv
<1>3. ~Fresh
  BY DEF EngineInv, Idle
<1>4. ASSUME NEW u \in Thread
      PROVE  Proper(op'[u], Usable, tally.turns)
  BY <1>2, Zenon DEF EngineInv, OpsInv
<1>5. OpsInv'
  BY <1>1, <1>2, <1>4, Zenon DEF OpsInv
<1>6. TallyInv'
  BY Zenon DEF EngineInv, TallyInv
<1>7. Holding(loaded, Usable)'
  BY <1>1, Zenon DEF EngineInv
<1> QED
  BY <1>3, <1>5, <1>6, <1>7, Zenon DEF EngineInv, Fresh

\* A thread that stops is in order.
LEMMA StopKeeps ==
    ASSUME Settled, EngineInv, UNCHANGED supply, NEW t \in Thread, op[t].at # "idle",
           Stop(t), UNCHANGED <<epoch, loaded, tally>>
    PROVE  EngineInv'
<1>1. Proper(Idle, Usable, tally.turns)
  BY Zenon DEF Proper, Idle
<1> QED
  BY <1>1, OwnStep, Zenon DEF Stop

\* What a thread that loads is doing.
LEMMA LoadFacts ==
    ASSUME EngineInv, NEW t \in Thread,
           op[t].at \in {"verify", "model", "tokenizer", "build", "publish"}
    PROVE  Loading(op[t], Usable, tally.turns) /\ op[t].at # "idle"
BY Zenon DEF EngineInv, OpsInv, Proper, Reading

\* The next step of a load, written out.
LEMMA LoadMoved ==
    ASSUME NEW o, NEW models, NEW n, Loading(o, models, n), NEW at, NEW bytes
    PROVE  [o EXCEPT !.at = at, !.bytes = bytes] =
               [at |-> at, manifest |-> o.manifest, epoch |-> o.epoch, turn |-> o.turn,
                bytes |-> bytes]
<1>1. o = [at |-> o.at, manifest |-> o.manifest, epoch |-> o.epoch, turn |-> o.turn,
           bytes |-> o.bytes]
  BY Zenon DEF Loading
<1> DEFINE p == [o EXCEPT !.at = at]
<1>2. p = [at |-> at, manifest |-> o.manifest, epoch |-> o.epoch, turn |-> o.turn,
           bytes |-> o.bytes]
  BY <1>1
<1>3. [o EXCEPT !.at = at, !.bytes = bytes] = [p EXCEPT !.bytes = bytes]
  BY Zenon
<1> HIDE DEF p
<1>4. [p EXCEPT !.bytes = bytes] = [at |-> at, manifest |-> o.manifest, epoch |-> o.epoch,
                                    turn |-> o.turn, bytes |-> bytes]
  BY <1>2
<1> QED
  BY <1>3, <1>4, Zenon

\* A load that goes on with the bytes its next step calls for.
LEMMA LoadStep ==
    ASSUME Settled, EngineInv, UNCHANGED supply, NEW t \in Thread,
           op[t].at \in {"verify", "model", "tokenizer", "build"},
           NEW at \in {"model", "tokenizer", "build", "publish"}, NEW m, m = op[t].manifest,
           op' = [op EXCEPT ![t] = [@ EXCEPT !.at = at, !.bytes = Bytes(m, at)]],
           UNCHANGED <<epoch, loaded, tally>>,
           Executable(m), at # "model" => ~UsesExternalData(Files[ModelDigest(m)]),
           at = "publish" => MeetsContract(Files[ModelDigest(m)], m)
    PROVE  EngineInv'
<1> DEFINE o == op[t]
           v == [at |-> at, manifest |-> o.manifest, epoch |-> o.epoch, turn |-> o.turn,
                 bytes |-> Bytes(m, at)]
<1>1. Loading(o, Usable, tally.turns) /\ o.at # "idle"
  BY LoadFacts, Zenon
<1>2. op' = [op EXCEPT ![t] = v]
  <2>1. [o EXCEPT !.at = at, !.bytes = Bytes(m, at)] = v
    BY <1>1, LoadMoved, Zenon
  <2> HIDE DEF v
  <2> QED
    BY <2>1, ZenonT(30)
<1>3. Loading(v, Usable, tally.turns)
  BY <1>1, Zenon DEF Loading
<1>4. Proper(v, Usable, tally.turns)
  BY <1>3, Zenon DEF Proper
<1> HIDE DEF v
<1> QED
  BY <1>1, <1>2, <1>4, OwnStep, Zenon

\* A load that goes on keeps its bytes.
LEMMA GotoIs ==
    ASSUME NEW t \in Thread, NEW at, Goto(t, at), Loading(op[t], Usable, tally.turns)
    PROVE  op' = [op EXCEPT ![t] = [@ EXCEPT !.at = at, !.bytes = op[t].bytes]]
<1>1. [op[t] EXCEPT !.at = at, !.bytes = op[t].bytes] = [op[t] EXCEPT !.at = at]
  <2>1. op[t] = [at |-> op[t].at, manifest |-> op[t].manifest, epoch |-> op[t].epoch,
                 turn |-> op[t].turn, bytes |-> op[t].bytes]
    BY Zenon DEF Loading
  <2> QED
    BY <2>1, Zenon
<1>2. op' = [op EXCEPT ![t] = [@ EXCEPT !.at = at]]
  BY Zenon DEF Goto
<1> QED
  BY <1>1, <1>2, Zenon

\* A load passes its first verification, or stops.
LEMMA VerifyKeeps ==
    ASSUME Settled, EngineInv, UNCHANGED supply, NEW t \in Thread, Verify(t)
    PROVE  EngineInv'
<1>1. op[t].at = "verify" /\ UNCHANGED <<epoch, loaded, tally>>
  BY Zenon DEF Verify, Doing
<1>2. Loading(op[t], Usable, tally.turns) /\ op[t].at # "idle"
  BY <1>1, LoadFacts, Zenon
<1>3. CASE Stop(t)
  BY <1>1, <1>2, <1>3, StopKeeps, Zenon
<1>4. CASE Executable(op[t].manifest) /\ Goto(t, "model")
  <2>1. op[t].bytes = {} /\ Bytes(op[t].manifest, "model") = {}
    BY <1>1, <1>2, Zenon DEF Loading, Bytes
  <2>2. op' = [op EXCEPT ![t] = [@ EXCEPT !.at = "model", !.bytes = op[t].bytes]]
    BY <1>2, <1>4, GotoIs, Zenon
  <2> QED
    BY <1>1, <1>4, <2>1, <2>2, LoadStep, Zenon
<1> QED
  BY <1>3, <1>4, Zenon DEF Verify

\* The graph is read, if it keeps all its tensors to itself.
LEMMA ReadModelKeeps ==
    ASSUME Settled, EngineInv, UNCHANGED supply, NEW t \in Thread, ReadModel(t)
    PROVE  EngineInv'
<1> DEFINE m == op[t].manifest
<1>1. op[t].at = "model" /\ UNCHANGED <<epoch, loaded, tally>>
  BY Zenon DEF ReadModel, Doing
<1>2. Loading(op[t], Usable, tally.turns) /\ op[t].at # "idle"
  BY <1>1, LoadFacts, Zenon
<1>3. CASE Stop(t)
  BY <1>1, <1>2, <1>3, StopKeeps, Zenon
<1>4. CASE /\ ~UsesExternalData(Files[ModelDigest(m)])
           /\ op' = [op EXCEPT ![t] = [@ EXCEPT !.at = "tokenizer",
                                                !.bytes = op[t].bytes \cup {ModelDigest(m)}]]
  <2>1. op[t].bytes \cup {ModelDigest(m)} = Bytes(m, "tokenizer") /\ Executable(m)
    BY <1>1, <1>2, Zenon DEF Loading, Bytes
  <2>2. op' = [op EXCEPT ![t] = [@ EXCEPT !.at = "tokenizer",
                                                !.bytes = Bytes(m, "tokenizer")]]
    BY <1>4, <2>1, Zenon
  <2> QED
    BY <1>1, <1>4, <2>1, <2>2, LoadStep, Zenon
<1> QED
  BY <1>3, <1>4, Zenon DEF ReadModel, ArtifactBytes

\* The tokenizer is read.
LEMMA ReadTokenizerKeeps ==
    ASSUME Settled, EngineInv, UNCHANGED supply, NEW t \in Thread, ReadTokenizer(t)
    PROVE  EngineInv'
<1> DEFINE m == op[t].manifest
<1>1. op[t].at = "tokenizer" /\ UNCHANGED <<epoch, loaded, tally>>
  BY Zenon DEF ReadTokenizer, Doing
<1>2. Loading(op[t], Usable, tally.turns) /\ op[t].at # "idle"
  BY <1>1, LoadFacts, Zenon
<1>3. CASE Stop(t)
  BY <1>1, <1>2, <1>3, StopKeeps, Zenon
<1>4. CASE op' = [op EXCEPT ![t] = [@ EXCEPT !.at = "build",
                                             !.bytes = op[t].bytes \cup {TokenizerDigest(m)}]]
  <2>1. /\ op[t].bytes \cup {TokenizerDigest(m)} = Bytes(m, "build")
        /\ Executable(m) /\ ~UsesExternalData(Files[ModelDigest(m)])
    BY <1>1, <1>2, Zenon DEF Loading, Bytes, Parts
  <2>2. op' = [op EXCEPT ![t] = [@ EXCEPT !.at = "build", !.bytes = Bytes(m, "build")]]
    BY <1>4, <2>1, Zenon
  <2> QED
    BY <1>1, <1>4, <2>1, <2>2, LoadStep, Zenon
<1> QED
  BY <1>3, <1>4, Zenon DEF ReadTokenizer, ArtifactBytes

\* The session meets the contract, or the load stops.
LEMMA BuildKeeps ==
    ASSUME Settled, EngineInv, UNCHANGED supply, NEW t \in Thread, Build(t)
    PROVE  EngineInv'
<1> DEFINE m == op[t].manifest
<1>1. op[t].at = "build" /\ UNCHANGED <<epoch, loaded, tally>>
  BY Zenon DEF Build, Doing
<1>2. Loading(op[t], Usable, tally.turns) /\ op[t].at # "idle"
  BY <1>1, LoadFacts, Zenon
<1>3. CASE Stop(t)
  BY <1>1, <1>2, <1>3, StopKeeps, Zenon
<1>4. CASE MeetsContract(Files[ModelDigest(m)], m) /\ Goto(t, "publish")
  <2>1. /\ op[t].bytes = Bytes(m, "publish")
        /\ Executable(m) /\ ~UsesExternalData(Files[ModelDigest(m)])
    BY <1>1, <1>2, Zenon DEF Loading, Bytes
  <2>2. op' = [op EXCEPT ![t] = [@ EXCEPT !.at = "publish", !.bytes = Bytes(m, "publish")]]
    BY <1>2, <1>4, <2>1, GotoIs, Zenon
  <2> QED
    BY <1>1, <1>4, <2>1, <2>2, LoadStep, Zenon
<1> QED
  BY <1>3, <1>4, Zenon DEF Build

\* One more of what the tally counts.
LEMMA TallyFacts ==
    ASSUME NEW y \in Tallies, NEW n \in Nat
    PROVE  /\ [y EXCEPT !.turns = n] \in Tallies
           /\ [y EXCEPT !.turns = n].turns = n /\ [y EXCEPT !.turns = n].effective = y.effective
           /\ [y EXCEPT !.turns = n].embeds = y.embeds
           /\ [y EXCEPT !.effective = n] \in Tallies
           /\ [y EXCEPT !.effective = n].turns = y.turns
           /\ [y EXCEPT !.effective = n].effective = n /\ [y EXCEPT !.effective = n].embeds = y.embeds
           /\ [y EXCEPT !.embeds = n] \in Tallies /\ [y EXCEPT !.embeds = n].turns = y.turns
           /\ [y EXCEPT !.embeds = n].effective = y.effective /\ [y EXCEPT !.embeds = n].embeds = n
           /\ [y EXCEPT !.alterations = n] \in Tallies /\ [y EXCEPT !.alterations = n].turns = y.turns
           /\ [y EXCEPT !.alterations = n].effective = y.effective
           /\ [y EXCEPT !.alterations = n].embeds = y.embeds
BY Zenon DEF Tallies

\* The tally is made of numbers.
LEMMA TallyTypes ==
    ASSUME EngineInv
    PROVE  /\ TallyInv /\ tally \in Tallies
           /\ tally.turns \in Nat /\ tally.effective \in Nat
           /\ tally.embeds \in Nat /\ tally.alterations \in Nat
BY Zenon DEF EngineInv, TallyInv, Tallies

\* The epoch of the next transition.
LEMMA NextEpoch ==
    ASSUME TallyInv, tally.turns < MaxTransitions
    PROVE  (epoch + 1) % Epochs = tally.turns + 1
<1>1. /\ tally.turns \in Nat /\ MaxTransitions \in Nat /\ Epochs \in Nat /\ MaxTransitions < Epochs
      /\ epoch = tally.turns
  BY EngineAssumption, Zenon DEF TallyInv, Tallies
<1>2. ASSUME NEW a \in Nat, NEW b \in Nat, a < b
      PROVE  a % b = a
  BY <1>2
<1> QED
  BY <1>1, <1>2

\* A transition is published if no later one was reserved meanwhile.
LEMMA PublishKeeps ==
    ASSUME Settled, EngineInv, UNCHANGED supply, NEW t \in Thread, Publish(t)
    PROVE  EngineInv'
<1> DEFINE m == op[t].manifest
           k == op[t].turn
<1>1. op[t].at = "publish" /\ UNCHANGED epoch
  BY Zenon DEF Publish, Doing
<1>2. Loading(op[t], Usable, tally.turns) /\ op[t].at # "idle"
  BY <1>1, LoadFacts, Zenon
<1>3. CASE Stop(t) /\ UNCHANGED <<loaded, tally>>
  BY <1>1, <1>2, <1>3, StopKeeps, Zenon
<1>4. CASE /\ epoch = op[t].epoch
           /\ loaded' = [turn |-> k, manifest |-> m, bytes |-> op[t].bytes]
           /\ tally' = [tally EXCEPT !.effective = Max({@, k})]
           /\ op' = [op EXCEPT ![t] = [at |-> "warm"]]
  <2>1. TallyInv /\ tally \in Tallies /\ tally.turns \in Nat /\ tally.effective \in Nat
    BY TallyTypes, Zenon
  <2>2. k \in 1 .. tally.turns /\ op[t].epoch = k /\ m \in Usable /\ op[t].bytes = Parts(m)
        /\ Executable(m) /\ ~UsesExternalData(Files[ModelDigest(m)])
        /\ MeetsContract(Files[ModelDigest(m)], m)
    BY <1>1, <1>2, Zenon DEF Loading, Bytes
  <2>3. k = tally.turns /\ k \in Nat /\ tally.effective <= k
    BY <1>4, <2>1, <2>2, Zenon DEF TallyInv
  <2>4. Max({tally.effective, k}) = k
    <3> HIDE DEF k
    <3>1. Max({tally.effective, k}) = IF tally.effective <= k THEN k ELSE tally.effective
      BY <2>1, <2>3, MaxOfTwo, Zenon
    <3> QED
      BY <2>3, <3>1, Zenon
  <2>5. tally' = [tally EXCEPT !.effective = k]
    BY <1>4, <2>4, Zenon
  <2>6. Sound(m)
    BY <2>2, UsableFacts, Zenon DEF Sound, MeetsContract
  <2> HIDE DEF k, m
  <2>7. tally' \in Tallies /\ tally'.turns = tally.turns /\ tally'.effective = k
        /\ tally'.embeds = tally.embeds
    BY <2>1, <2>3, <2>5, TallyFacts, Zenon
  <2>8. Usable' = Usable
    BY UsableStays, Zenon
  <2>9. Holding(loaded, Usable)'
    BY <1>4, <2>2, <2>6, <2>8, Zenon DEF Holding
  <2>10. TallyInv'
    BY <1>1, <1>4, <2>1, <2>3, <2>7 DEF TallyInv
  <2>11. /\ op' = [u \in Thread |-> op'[u]]
         /\ op'[t] = [at |-> "warm"] /\ \A u \in Thread : u # t => op'[u] = op[u]
    BY <1>4, Assigned, Zenon DEF EngineInv, OpsInv
  <2>12. ASSUME NEW u \in Thread
         PROVE  Proper(op'[u], Usable, tally.turns)
    <3>1. Proper([at |-> "warm"], Usable, tally.turns)
      BY Zenon DEF Proper
    <3> QED
      BY <2>11, <3>1, Zenon DEF EngineInv, OpsInv
  <2>13. OpsInv'
    BY <2>7, <2>8, <2>11, <2>12, Zenon DEF OpsInv
  <2>14. ~Fresh'
    BY <2>3, <2>2, <2>7 DEF Fresh
  <2> QED
    BY <2>9, <2>10, <2>13, <2>14, Zenon DEF EngineInv
<1> QED
  BY <1>3, <1>4, Zenon DEF Publish, Accepts

\* The thread that loaded warms the model.
LEMMA WarmKeeps ==
    ASSUME Settled, EngineInv, UNCHANGED supply, NEW t \in Thread, Warm(t)
    PROVE  EngineInv'
BY StopKeeps, Zenon DEF Warm, Doing

\* What the other threads do stays in order when a transition is reserved.
LEMMA OthersLater ==
    ASSUME EngineInv, UNCHANGED supply, tally'.turns \in Nat, tally.turns <= tally'.turns,
           op' = [u \in Thread |-> op'[u]],
           \A u \in Thread : op'[u] = op[u] \/ Proper(op'[u], Usable, tally'.turns)
    PROVE  OpsInv'
<1>1. Usable' = Usable /\ tally.turns \in Nat
  BY UsableStays, TallyTypes, Zenon
<1>2. ASSUME NEW u \in Thread
      PROVE  Proper(op'[u], Usable, tally'.turns)
  <2>1. Proper(op[u], Usable, tally.turns)
    BY Zenon DEF EngineInv, OpsInv
  <2>2. Proper(op[u], Usable, tally'.turns)
    BY <1>1, <2>1, ProperLater, Zenon
  <2> QED
    BY <2>2, Zenon
<1> QED
  BY <1>1, <1>2, Zenon DEF OpsInv

\* A load reserves its transition.
LEMMA ReserveKeeps ==
    ASSUME Settled, EngineInv, UNCHANGED supply, NEW t \in Thread,
           NEW m \in Range(catalog.manifests), Reserve(t, m)
    PROVE  EngineInv'
<1> DEFINE n == tally.turns + 1
           v == [at |-> "verify", manifest |-> m, epoch |-> n, turn |-> n, bytes |-> {}]
<1>1. TallyInv /\ tally \in Tallies /\ tally.turns \in Nat /\ tally.effective \in Nat /\ n \in Nat
  BY TallyTypes
<1>2. tally.turns < MaxTransitions /\ MaxTransitions \in Nat
  BY EngineAssumption, Zenon DEF Reserve
<1>3. epoch' = n
  BY <1>1, <1>2, NextEpoch, Zenon DEF Reserve
<1>4. tally' = [tally EXCEPT !.turns = n] /\ loaded' = loaded /\ m \in Usable
  BY Zenon DEF Reserve, Usable
<1>5. op' = [op EXCEPT ![t] = v]
  BY <1>3, Zenon DEF Reserve
<1>6. tally' \in Tallies /\ tally'.turns = n /\ tally'.effective = tally.effective
  <2> HIDE DEF n
  <2> QED
    BY <1>1, <1>4, TallyFacts, Zenon
<1>7. Loading(v, Usable, n)
  BY <1>1, <1>4 DEF Loading, Bytes
<1>8. Proper(v, Usable, n)
  BY <1>7, Zenon DEF Proper
<1> HIDE DEF v
<1>9. /\ op' = [u \in Thread |-> op'[u]]
      /\ op'[t] = v /\ \A u \in Thread : u # t => op'[u] = op[u]
  BY <1>5, Assigned, Zenon DEF EngineInv, OpsInv
<1>10. OpsInv'
  BY <1>1, <1>6, <1>8, <1>9, OthersLater
<1>11. TallyInv'
  BY <1>1, <1>2, <1>3, <1>4, <1>6 DEF TallyInv
<1>12. Holding(loaded, Usable)'
  BY <1>4, UsableStays, Zenon DEF EngineInv
<1>13. ~Fresh'
  BY <1>1, <1>6 DEF Fresh
<1> QED
  BY <1>10, <1>11, <1>12, <1>13, Zenon DEF EngineInv

\* An unload takes effect at once.
LEMMA UnloadKeeps ==
    ASSUME Settled, EngineInv, UNCHANGED supply, Unload
    PROVE  EngineInv'
<1> DEFINE n == tally.turns + 1
<1>1. TallyInv /\ tally \in Tallies /\ tally.turns \in Nat /\ tally.effective \in Nat /\ n \in Nat
  BY TallyTypes
<1>2. tally.turns < MaxTransitions /\ MaxTransitions \in Nat
  BY EngineAssumption, Zenon DEF Unload
<1>3. epoch' = n
  BY <1>1, <1>2, NextEpoch, Zenon DEF Unload
<1>4. /\ tally' = [tally EXCEPT !.turns = n, !.effective = n] /\ op' = op
      /\ loaded'.turn = n /\ loaded'.manifest = Nothing
  BY Zenon DEF Unload
<1>5. tally' \in Tallies /\ tally'.turns = n /\ tally'.effective = n
  <2> HIDE DEF n
  <2> QED
    BY <1>1, <1>4, Zenon DEF Tallies
<1>6. OpsInv'
  BY <1>1, <1>4, <1>5, OthersLater DEF EngineInv, OpsInv
<1>7. TallyInv'
  BY <1>1, <1>2, <1>3, <1>4, <1>5 DEF TallyInv
<1>8. Holding(loaded, Usable)'
  BY <1>4, Zenon DEF Holding
<1>9. ~Fresh'
  BY <1>1, <1>5 DEF Fresh
<1> QED
  BY <1>6, <1>7, <1>8, <1>9, Zenon DEF EngineInv

\* A file is altered, or put back.
LEMMA AlterKeeps ==
    ASSUME Settled, EngineInv, UNCHANGED supply, NEW sha, Alter(sha)
    PROVE  EngineInv'
<1>1. tally \in Tallies /\ tally.alterations + 1 \in Nat /\ tally.turns \in Nat
  BY TallyTypes
<1>2. tally' = [tally EXCEPT !.alterations = tally.alterations + 1] /\ UNCHANGED <<epoch, loaded, op>>
  BY Zenon DEF Alter
<1>3. /\ tally' \in Tallies /\ tally'.turns = tally.turns /\ tally'.effective = tally.effective
      /\ tally'.embeds = tally.embeds
  BY <1>1, <1>2, TallyFacts, Zenon
<1>4. OpsInv'
  BY <1>1, <1>2, <1>3, OthersLater DEF EngineInv, OpsInv
<1>5. TallyInv'
  BY <1>2, <1>3, Zenon DEF EngineInv, TallyInv
<1>6. Holding(loaded, Usable)'
  BY <1>2, UsableStays, Zenon DEF EngineInv
<1> QED
  BY <1>2, <1>3, <1>4, <1>5, <1>6, Zenon DEF EngineInv, Fresh

\* A thread asks for the contract of the model that is loaded.
LEMMA ContractKeeps ==
    ASSUME Settled, EngineInv, UNCHANGED supply, NEW t \in Thread, NEW request \in Requests,
           Contract(t, request)
    PROVE  EngineInv'
<1> DEFINE m == loaded.manifest
           n == tally.embeds + 1
           w == [at |-> "contract", request |-> request,
                 contract |-> [model |-> Identity(m), width |-> m.dimensions.native]]
           v == IF Serves(m, request) THEN w ELSE Idle
<1>1. tally \in Tallies /\ n \in Nat /\ tally.turns \in Nat /\ tally.embeds \in Nat
  BY TallyTypes
<1>2. tally' = [tally EXCEPT !.embeds = n] /\ UNCHANGED <<epoch, loaded>>
  BY Zenon DEF Contract
<1>3. op' = [op EXCEPT ![t] = v]
  BY Zenon DEF Contract, Stop
<1>4. Proper(v, Usable, tally.turns)
  <2>1. CASE Serves(m, request)
    <3>1. m \in Usable /\ Sound(m) /\ m.id = request.model
      BY <2>1, Zenon DEF EngineInv, Holding, Serves
    <3>2. Reading(w, m)
      BY <3>1, Zenon DEF Reading
    <3>3. Proper(w, Usable, tally.turns)
      <4> HIDE DEF w
      <4> QED
        BY <3>1, <3>2, ZenonT(30) DEF Proper
    <3> QED
      BY <2>1, <3>3, Zenon
  <2>2. CASE ~Serves(m, request)
    BY <2>2, Zenon DEF Proper, Idle
  <2> QED
    BY <2>1, <2>2, Zenon
<1> HIDE DEF v, n
<1>5. /\ tally' \in Tallies /\ tally'.turns = tally.turns /\ tally'.effective = tally.effective
      /\ tally'.embeds = n
  BY <1>1, <1>2, TallyFacts, Zenon
<1>6. /\ op' = [u \in Thread |-> op'[u]]
      /\ op'[t] = v /\ \A u \in Thread : u # t => op'[u] = op[u]
  BY <1>3, Assigned, Zenon DEF EngineInv, OpsInv
<1>7. OpsInv'
  BY <1>1, <1>4, <1>5, <1>6, OthersLater, SMTT(30)
<1>8. TallyInv'
  BY <1>2, <1>5, Zenon DEF EngineInv, TallyInv
<1>9. Holding(loaded, Usable)'
  BY <1>2, UsableStays, Zenon DEF EngineInv
<1>10. ~Fresh'
  BY <1>1, <1>5 DEF Fresh, n
<1> QED
  BY <1>7, <1>8, <1>9, <1>10, Zenon DEF EngineInv

\* The model of an inference on its way.
LEMMA ReadFacts ==
    ASSUME EngineInv, NEW t \in Thread,
           op[t].at \in {"contract", "admitted", "run", "deliver", "returned"}
    PROVE  op[t].at # "idle" /\ \E m \in Usable : Sound(m) /\ Reading(op[t], m)
BY Zenon DEF EngineInv, OpsInv, Proper, Loading

\* An inference that goes on is in order.
LEMMA ReadStep ==
    ASSUME Settled, EngineInv, UNCHANGED supply, NEW t \in Thread,
           op[t].at \in {"contract", "admitted", "run", "deliver"}, NEW m \in Usable, Sound(m),
           NEW v, Reading(v, m), op' = [op EXCEPT ![t] = v], UNCHANGED <<epoch, loaded, tally>>
    PROVE  EngineInv'
<1>1. Proper(v, Usable, tally.turns)
  BY Zenon DEF Proper
<1>2. op[t].at # "idle"
  BY Zenon
<1> QED
  BY <1>1, <1>2, OwnStep, Zenon

\* The model that serves a request now is the one that served it before, since the
\* ids of a catalog differ.
LEMMA StillServes ==
    ASSUME Settled, EngineInv, NEW o, NEW m \in Usable, Reading(o, m),
           Serves(loaded.manifest, o.request)
    PROVE  loaded.manifest = m
<1>1. loaded.manifest \in Usable /\ loaded.manifest.id = o.request.model
  BY Zenon DEF EngineInv, Holding, Serves
<1>2. m.id = o.request.model
  BY Zenon DEF Reading
<1> QED
  BY <1>1, <1>2, UniqueIds, Zenon

\* Preflight announces the cost for the model of the contract.
LEMMA PreflightKeeps ==
    ASSUME Settled, EngineInv, UNCHANGED supply, NEW t \in Thread, Preflight(t)
    PROVE  EngineInv'
<1> DEFINE o == op[t]
<1>1. o.at = "contract" /\ UNCHANGED <<epoch, loaded, tally>>
  BY Zenon DEF Preflight, Doing
<1>2. o.at # "idle" /\ \E m \in Usable : Sound(m) /\ Reading(o, m)
  BY <1>1, ReadFacts, Zenon
<1>3. PICK m \in Usable : Sound(m) /\ Reading(o, m)
  BY <1>2, Zenon
<1>4. CASE Stop(t)
  BY <1>1, <1>2, <1>4, StopKeeps, Zenon
<1>5. CASE /\ Serves(loaded.manifest, o.request)
           /\ ValidCost(Cost(loaded.manifest, o.request))
           /\ op' = [op EXCEPT ![t] = [at |-> "admitted", request |-> o.request,
                                       contract |-> o.contract,
                                       cost |-> Cost(loaded.manifest, o.request)]]
  <2> DEFINE v == [at |-> "admitted", request |-> o.request, contract |-> o.contract,
                   cost |-> Cost(m, o.request)]
  <2>1. loaded.manifest = m
    BY <1>3, <1>5, StillServes, Zenon
  <2>2. op' = [op EXCEPT ![t] = v] /\ ValidCost(Cost(m, o.request))
    BY <1>5, <2>1, ZenonT(30)
  <2>3. Reading(v, m)
    BY <1>3, <2>2, Zenon DEF Reading
  <2> HIDE DEF v
  <2> QED
    BY <1>1, <1>3, <2>2, <2>3, ReadStep, ZenonT(30)
<1> QED
  BY <1>4, <1>5, Zenon DEF Preflight

\* The snapshot is of the model of the contract.
LEMMA SnapshotKeeps ==
    ASSUME Settled, EngineInv, UNCHANGED supply, NEW t \in Thread, Snapshot(t)
    PROVE  EngineInv'
<1> DEFINE o == op[t]
<1>1. o.at = "admitted" /\ UNCHANGED <<epoch, loaded, tally>>
  BY Zenon DEF Snapshot, Doing
<1>2. o.at # "idle" /\ \E m \in Usable : Sound(m) /\ Reading(o, m)
  BY <1>1, ReadFacts, Zenon
<1>3. PICK m \in Usable : Sound(m) /\ Reading(o, m)
  BY <1>2, Zenon
<1>4. CASE Stop(t)
  BY <1>1, <1>2, <1>4, StopKeeps, ZenonT(30)
<1>5. CASE /\ Serves(loaded.manifest, o.request) /\ Encodable(loaded.manifest, o.request)
           /\ op' = [op EXCEPT ![t] = [at |-> "run", request |-> o.request,
                                       model |-> loaded.manifest, contract |-> o.contract,
                                       cost |-> o.cost,
                                       usage |-> Encodings(loaded.manifest, o.request),
                                       active |-> TRUE]]
  <2> DEFINE v == [at |-> "run", request |-> o.request, model |-> m, contract |-> o.contract,
                   cost |-> o.cost, usage |-> Encodings(m, o.request), active |-> TRUE]
  <2>1. loaded.manifest = m
    BY <1>3, <1>5, StillServes, Zenon
  <2>2. op' = [op EXCEPT ![t] = v] /\ Encodable(m, o.request)
    BY <1>5, <2>1, ZenonT(30)
  <2>3. Reading(v, m)
    BY <1>1, <1>3, <2>2, Zenon DEF Reading
  <2> HIDE DEF v
  <2> QED
    BY <1>1, <1>3, <2>2, <2>3, ReadStep, ZenonT(30)
<1> QED
  BY <1>4, <1>5, Zenon DEF Snapshot

\* An inference that was revoked, before and after the session answered.
LEMMA RevokedRun ==
    ASSUME NEW o, NEW v, v = [o EXCEPT !.active = FALSE],
           o = [at |-> o.at, request |-> o.request, model |-> o.model, contract |-> o.contract,
                cost |-> o.cost, usage |-> o.usage, active |-> o.active]
    PROVE  v = [at |-> o.at, request |-> o.request, model |-> o.model, contract |-> o.contract,
                cost |-> o.cost, usage |-> o.usage, active |-> FALSE]
BY Zenon

\* The same once it has its vectors.
LEMMA RevokedDelivery ==
    ASSUME NEW o, NEW v, v = [o EXCEPT !.active = FALSE],
           o = [at |-> o.at, request |-> o.request, contract |-> o.contract, cost |-> o.cost,
                model |-> o.model, usage |-> o.usage, vectors |-> o.vectors, active |-> o.active]
    PROVE  v = [at |-> o.at, request |-> o.request, contract |-> o.contract, cost |-> o.cost,
                model |-> o.model, usage |-> o.usage, vectors |-> o.vectors, active |-> FALSE]
BY Zenon

\* A revoked inference keeps all else.
LEMMA RevokeKeeps ==
    ASSUME Settled, EngineInv, UNCHANGED supply, NEW t \in Thread, Revoke(t)
    PROVE  EngineInv'
<1> DEFINE o == op[t]
           v == [o EXCEPT !.active = FALSE]
<1>1. o.at \in {"run", "deliver"} /\ UNCHANGED <<epoch, loaded, tally>>
  BY Zenon DEF Revoke
<1>2. op' = [op EXCEPT ![t] = v]
  BY Zenon DEF Revoke
<1>3. \E m \in Usable : Sound(m) /\ Reading(o, m)
  BY <1>1, ReadFacts, Zenon
<1>4. PICK m \in Usable : Sound(m) /\ Reading(o, m)
  BY <1>3, Zenon
<1>5. Reading(v, m)
  <2> HIDE DEF o
  <2>1. CASE o.at = "run"
    <3>1. o = [at |-> o.at, request |-> o.request, model |-> o.model, contract |-> o.contract,
               cost |-> o.cost, usage |-> o.usage, active |-> o.active]
      BY <1>4, <2>1, Zenon DEF Reading
    <3>2. v = [at |-> o.at, request |-> o.request, model |-> o.model, contract |-> o.contract,
               cost |-> o.cost, usage |-> o.usage, active |-> FALSE]
      BY <3>1, RevokedRun, Zenon
    <3> HIDE DEF v
    <3>3. /\ v.at = o.at /\ v.request = o.request /\ v.model = o.model /\ v.contract = o.contract
          /\ v.cost = o.cost /\ v.usage = o.usage /\ v.active = FALSE
      BY <3>2, Zenon
    <3>4. v = [at |-> v.at, request |-> v.request, model |-> v.model, contract |-> v.contract,
               cost |-> v.cost, usage |-> v.usage, active |-> v.active]
      BY <3>2, <3>3, Zenon
    <3> QED
      BY <1>4, <2>1, <3>3, <3>4, ZenonT(30) DEF Reading
  <2>2. CASE o.at = "deliver"
    <3>1. o = [at |-> o.at, request |-> o.request, contract |-> o.contract, cost |-> o.cost,
               model |-> o.model, usage |-> o.usage, vectors |-> o.vectors, active |-> o.active]
      BY <1>4, <2>2, Zenon DEF Reading
    <3>2. v = [at |-> o.at, request |-> o.request, contract |-> o.contract, cost |-> o.cost,
               model |-> o.model, usage |-> o.usage, vectors |-> o.vectors, active |-> FALSE]
      BY <3>1, RevokedDelivery, Zenon
    <3> HIDE DEF v
    <3>3. /\ v.at = o.at /\ v.request = o.request /\ v.model = o.model /\ v.contract = o.contract
          /\ v.cost = o.cost /\ v.usage = o.usage /\ v.vectors = o.vectors /\ v.active = FALSE
      BY <3>2, Zenon
    <3>4. v = [at |-> v.at, request |-> v.request, contract |-> v.contract, cost |-> v.cost,
               model |-> v.model, usage |-> v.usage, vectors |-> v.vectors, active |-> v.active]
      BY <3>2, <3>3, Zenon
    <3> QED
      BY <1>4, <2>2, <3>3, <3>4, ZenonT(30) DEF Reading
  <2> QED
    BY <1>1, <2>1, <2>2, Zenon DEF o
<1> HIDE DEF v
<1> QED
  BY <1>1, <1>2, <1>4, <1>5, ReadStep, ZenonT(30)

\* The session answers with the vectors of the model of the snapshot.
LEMMA RunKeeps ==
    ASSUME Settled, EngineInv, UNCHANGED supply, NEW t \in Thread, Run(t)
    PROVE  EngineInv'
<1> DEFINE o == op[t]
<1>1. o.at = "run" /\ UNCHANGED <<epoch, loaded, tally>>
  BY Zenon DEF Run, Doing
<1>2. o.at # "idle" /\ \E m \in Usable : Sound(m) /\ Reading(o, m)
  BY <1>1, ReadFacts, Zenon
<1>3. PICK m \in Usable : Sound(m) /\ Reading(o, m)
  BY <1>2, Zenon
<1>4. CASE Stop(t)
  BY <1>1, <1>2, <1>4, StopKeeps, Zenon
<1>5. ASSUME NEW hidden,
             Vectors(o.model, o.request, o.usage, hidden) # Nothing,
             op' = [op EXCEPT ![t] = [at |-> "deliver", request |-> o.request,
                                      contract |-> o.contract, cost |-> o.cost,
                                      model |-> o.model, usage |-> o.usage,
                                      vectors |-> Vectors(o.model, o.request, o.usage, hidden),
                                      active |-> TRUE]]
      PROVE  EngineInv'
  <2> DEFINE vectors == Vectors(o.model, o.request, o.usage, hidden)
             v == [at |-> "deliver", request |-> o.request, contract |-> o.contract,
                   cost |-> o.cost, model |-> o.model, usage |-> o.usage, vectors |-> vectors,
                   active |-> TRUE]
  <2>1. /\ o.model = m /\ Encodable(m, o.request) /\ o.request \in Requests
        /\ o.usage = Encodings(m, o.request)
    BY <1>1, <1>3, Zenon DEF Reading
  <2>2. /\ vectors = Vectors(m, o.request, Encodings(m, o.request), hidden)
        /\ Vectors(m, o.request, Encodings(m, o.request), hidden) # Nothing
    BY <1>5, <2>1, Zenon
  <2>3. \A i \in DOMAIN o.request.texts :
            vectors[i] = Alone(m, o.request, o.request.texts[i]).vector
    <3> HIDE DEF vectors
    <3> QED
      BY <1>3, <2>1, <2>2, VectorsFacts, ZenonT(30)
  <2>4. op' = [op EXCEPT ![t] = v]
    BY <1>5, ZenonT(30)
  <2> HIDE DEF vectors
  <2>5. Reading(v, m)
    BY <1>1, <1>3, <2>1, <2>3, Zenon DEF Reading
  <2> HIDE DEF v
  <2> QED
    BY <1>1, <1>3, <2>4, <2>5, ReadStep, ZenonT(30)
<1> QED
  BY <1>4, <1>5, Zenon DEF Run

\* The output names the model of the snapshot.
LEMMA DeliverKeeps ==
    ASSUME Settled, EngineInv, UNCHANGED supply, NEW t \in Thread, Deliver(t)
    PROVE  EngineInv'
<1> DEFINE o == op[t]
           v == Output(t, o.model)
<1>1. o.at = "deliver" /\ UNCHANGED <<epoch, loaded, tally>>
  BY Zenon DEF Deliver, Doing
<1>2. o.at # "idle" /\ \E m \in Usable : Sound(m) /\ Reading(o, m)
  BY <1>1, ReadFacts, Zenon
<1>3. PICK m \in Usable : Sound(m) /\ Reading(o, m)
  BY <1>2, Zenon
<1>4. CASE Stop(t)
  BY <1>1, <1>2, <1>4, StopKeeps, Zenon
<1>5. CASE op' = [op EXCEPT ![t] = v]
  <2>1. /\ v.at = "returned" /\ v.request = o.request /\ v.contract = o.contract
        /\ v.cost = o.cost /\ v.vectors = o.vectors /\ v.usage = o.usage
        /\ v.model = Identity(o.model)
    BY Zenon DEF Output
  <2> HIDE DEF v
  <2>2. Reading(v, m)
    BY <1>1, <1>3, <2>1, ZenonT(30) DEF Reading
  <2> QED
    BY <1>1, <1>3, <1>5, <2>2, ReadStep, Zenon
<1> QED
  BY <1>4, <1>5, Zenon DEF Deliver

\* Every step of the engine keeps its invariant.
LEMMA EngineStep ==
    ASSUME Settled, EngineInv, UNCHANGED supply, EngineNext
    PROVE  EngineInv'
<1>1. ASSUME NEW sha, Alter(sha)
      PROVE  EngineInv'
  BY <1>1, AlterKeeps, Zenon
<1>2. ASSUME NEW t \in Thread, NEW m \in Range(catalog.manifests), Reserve(t, m)
      PROVE  EngineInv'
  BY <1>2, ReserveKeeps, Zenon
<1>3. ASSUME NEW t \in Thread, NEW request \in Requests, Contract(t, request)
      PROVE  EngineInv'
  BY <1>3, ContractKeeps, Zenon
<1>4. ASSUME NEW t \in Thread,
             \/ Verify(t) \/ ReadModel(t) \/ ReadTokenizer(t) \/ Build(t) \/ Publish(t) \/ Warm(t)
             \/ Preflight(t) \/ Snapshot(t) \/ Revoke(t) \/ Run(t) \/ Deliver(t)
      PROVE  EngineInv'
  BY <1>4, VerifyKeeps, ReadModelKeeps, ReadTokenizerKeeps, BuildKeeps, PublishKeeps, WarmKeeps,
     PreflightKeeps, SnapshotKeeps, RevokeKeeps, RunKeeps, DeliverKeeps, ZenonT(30)
<1> QED
  BY <1>1, <1>2, <1>3, <1>4, UnloadKeeps, ZenonT(30) DEF EngineNext

\* Before anything was asked of it, the engine has nothing to keep from a catalog.
LEMMA FreshStep ==
    ASSUME EngineInv, Untouched, UNCHANGED engine
    PROVE  EngineInv'
<1>1. UNCHANGED <<epoch, loaded, op, altered, tally>>
  BY Zenon DEF engine
<1>2. Fresh /\ loaded.manifest = Nothing /\ \A t \in Thread : op[t] = Idle
  BY Zenon DEF EngineInv, Fresh, Untouched
<1>3. OpsInv'
  BY <1>1, <1>2 DEF EngineInv, OpsInv, Proper, Idle
<1>4. Holding(loaded, Usable)'
  BY <1>1, <1>2, Zenon DEF Holding
<1>5. TallyInv'
  BY <1>1, Zenon DEF EngineInv, TallyInv
<1> QED
  BY <1>1, <1>2, <1>3, <1>4, <1>5, ZenonT(30) DEF EngineInv

-----------------------------------------------------------------------------
(* The theorems.                                                               *)

\* The invariant holds at first.
LEMMA InitInv == Init => IInv
<1> SUFFICES ASSUME Init
             PROVE  IInv
  BY Zenon
<1>1. SupplyInv
  BY SupplyInit, Zenon DEF Init
<1>2. EngineInit
  BY Zenon DEF Init
<1>3. TallyInv
  BY <1>2, EngineAssumption DEF EngineInit, TallyInv, Tallies
<1>4. op = [t \in Thread |-> Idle] /\ loaded.manifest = Nothing
  BY <1>2, Zenon DEF EngineInit
<1>5. OpsInv
  <2>1. \A t \in Thread : op[t] = Idle
    BY <1>4, Zenon
  <2>2. op = [t \in Thread |-> op[t]]
    BY <1>4, Zenon
  <2>3. \A t \in Thread : Proper(op[t], Usable, tally.turns)
    BY <2>1 DEF Proper, Idle
  <2> QED
    BY <2>2, <2>3, Zenon DEF OpsInv
<1>6. EngineInv
  BY <1>3, <1>4, <1>5, Zenon DEF EngineInv, Holding
<1> QED
  BY <1>1, <1>6, Zenon DEF IInv

\* Every step keeps it.
LEMMA StepInv == IInv /\ [Next]_<<supply, engine>> => IInv'
<1> SUFFICES ASSUME IInv, [Next]_<<supply, engine>>
             PROVE  IInv'
  BY Zenon
<1>1. CASE Untouched /\ ProvisioningNext /\ UNCHANGED engine
  BY <1>1, SupplyStep, FreshStep, Zenon DEF IInv
<1>2. CASE job.at \in {"failed", "installed"} /\ EngineNext /\ UNCHANGED supply
  <2>1. Settled
    BY <1>2, Zenon DEF Settled, IInv
  <2> QED
    BY <1>2, <2>1, EngineStep, SupplyStutter, ZenonT(30) DEF IInv
<1>3. CASE UNCHANGED supply /\ UNCHANGED engine
  <2>1. SupplyInv'
    BY <1>3, SupplyStutter, Zenon DEF IInv
  <2>2. Usable' = Usable
    BY <1>3, UsableStays, Zenon
  <2>3. UNCHANGED <<epoch, loaded, op, altered, tally>>
    BY <1>3, Zenon DEF engine
  <2>4. EngineInv'
    BY <2>2, <2>3, Zenon DEF IInv, EngineInv, OpsInv, TallyInv, Fresh
  <2> QED
    BY <2>1, <2>4, Zenon DEF IInv
<1> QED
  BY <1>1, <1>2, <1>3, Zenon DEF Next

\* From any catalog to any vector, the provisioning and the engine keep their
\* invariant.
THEOREM SupplySafe == Spec => []IInv
<1>1. Init => IInv
  BY InitInv, Zenon
<1>2. IInv /\ [Next]_<<supply, engine>> => IInv'
  BY StepInv, Zenon
<1> QED
  BY <1>1, <1>2, PTL DEF Spec

\* The loaded model is the one that Holding describes.
LEMMA InvLoaded == IInv => LatestTransitionWins /\ LoadedIsIntact
<1> SUFFICES ASSUME IInv
             PROVE  LatestTransitionWins /\ LoadedIsIntact
  BY Zenon
<1>1. LatestTransitionWins
  BY Zenon DEF IInv, EngineInv, TallyInv, LatestTransitionWins
<1>2. ASSUME loaded.manifest # Nothing
      PROVE  LET m == loaded.manifest IN
             /\ Loadable(m) /\ loaded.bytes = {ModelDigest(m), TokenizerDigest(m)}
             /\ ~UsesExternalData(Files[ModelDigest(m)])
  BY <1>2, Zenon DEF IInv, EngineInv, Holding, Usable, Parts
<1> QED
  BY <1>1, <1>2, Zenon DEF LoadedIsIntact, UsesExternalData

\* An inference that is over, or under way, is the one that Reading describes.
LEMMA InvReading == IInv => OutputIsOfOneModel /\ PreflightPredictsRun
<1> SUFFICES ASSUME IInv
             PROVE  OutputIsOfOneModel /\ PreflightPredictsRun
  BY Zenon
<1>1. EngineInv
  BY Zenon DEF IInv
<1>2. ASSUME NEW t \in Thread, op[t].at = "returned"
      PROVE  \E m \in Range(catalog.manifests) :
                 /\ op[t].model = Identity(m)
                 /\ op[t].request.model = m.id
                 /\ \A i \in DOMAIN op[t].request.texts :
                        /\ op[t].usage[i] = Alone(m, op[t].request, op[t].request.texts[i]).tokens
                        /\ op[t].vectors[i] = Alone(m, op[t].request, op[t].request.texts[i]).vector
  <2>1. PICK m \in Usable : Sound(m) /\ Reading(op[t], m)
    BY <1>1, <1>2, ReadFacts, Zenon
  <2>2. /\ op[t].model = Identity(m) /\ op[t].request.model = m.id /\ op[t].request \in Requests
        /\ op[t].usage = Encodings(m, op[t].request)
        /\ \A i \in DOMAIN op[t].request.texts :
               op[t].vectors[i] = Alone(m, op[t].request, op[t].request.texts[i]).vector
    BY <1>2, <2>1, Zenon DEF Reading
  <2>3. \A i \in DOMAIN op[t].request.texts :
            op[t].usage[i] = Alone(m, op[t].request, op[t].request.texts[i]).tokens
    BY <2>1, <2>2, UsageFacts, ZenonT(30)
  <2>4. m \in Range(catalog.manifests)
    BY Zenon DEF Usable
  <2> QED
    BY <2>2, <2>3, <2>4, Zenon
<1>3. OutputIsOfOneModel
  BY <1>2, Zenon DEF OutputIsOfOneModel, Doing
<1>4. ASSUME NEW t \in Thread, op[t].at \in {"run", "deliver"}
      PROVE  /\ Len(op[t].usage) = op[t].cost.items
             /\ Total(op[t].usage) <= op[t].cost.tokens
             /\ Longest(op[t].usage) = op[t].cost.longest
             /\ op[t].contract.width = op[t].model.dimensions.native
  <2>1. PICK m \in Usable : Sound(m) /\ Reading(op[t], m)
    BY <1>1, <1>4, ReadFacts, Zenon
  <2>2. /\ op[t].model = m /\ op[t].request \in Requests
        /\ op[t].contract = [model |-> Identity(m), width |-> m.dimensions.native]
        /\ op[t].cost = Cost(m, op[t].request) /\ ValidCost(Cost(m, op[t].request))
        /\ op[t].usage = Encodings(m, op[t].request)
    BY <1>4, <2>1, ZenonT(30) DEF Reading
  <2>3. op[t].contract.width = m.dimensions.native
    BY <2>2
  <2> QED
    BY <2>1, <2>2, <2>3, CostFacts
<1>5. PreflightPredictsRun
  BY <1>4, Zenon DEF PreflightPredictsRun
<1> QED
  BY <1>3, <1>5, ZenonT(30)

\* Whatever the servers answer, an installation asks allowed origins only, follows
\* a bounded number of redirects for each artifact, and never receives more bytes
\* than its manifest and the limits of Installer::new allow.
THEOREM DownloadsStayBounded == Spec => []DownloadIsBounded
BY SupplySafe, SupplyBounded, PTL DEF IInv

\* A manifest that validate accepted can be laid out on a file system that ignores
\* case: no artifact finds its place taken by another one, and manifest.json only
\* by an artifact that lies in a directory of that name.
THEOREM StagingStaysApart == Spec => []StagingNeverCollides
BY SupplySafe, SupplyApart, PTL DEF IInv

\* However many threads load and unload, and however long they take, what is loaded
\* is what the latest effective transition asked for (reserve_transition, accepts).
THEOREM LatestAlwaysWins == Spec => []LatestTransitionWins
BY SupplySafe, InvLoaded, PTL

\* A model is loaded from the declared bytes only, whenever files are altered and
\* put back between verify, artifact_bytes and the session build.
THEOREM LoadedAlwaysIntact == Spec => []LoadedIsIntact
BY SupplySafe, InvLoaded, PTL

\* An output is that of one model, text by text, whatever is loaded meanwhile and
\* whatever texts are beside it in the batch.
THEOREM OutputsAreOfOneModel == Spec => []OutputIsOfOneModel
BY SupplySafe, InvReading, PTL

\* The cost that preflight announced holds for the inference.
THEOREM PreflightAlwaysPredicts == Spec => []PreflightPredictsRun
BY SupplySafe, InvReading, PTL
=============================================================================
