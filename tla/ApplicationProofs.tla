------------------------- MODULE ApplicationProofs ---------------------------
(***************************************************************************)
(* Proofs about Application, for any catalog, any list of models to        *)
(* preload, and any number of lifecycle calls, shutdowns and requests.     *)
(***************************************************************************)
EXTENDS Application, TLAPS

-----------------------------------------------------------------------------
(* The first layer of the inductive invariant. *)

\* A call has the lifecycle mutex from Acquire to its end; shutdown never has it.
Unlocked == {"idle", "lock", "drain", "wait", "clear"}
Locked(c) == call[c].at \notin Unlocked

\* What a call that has come this far is.
CallOK(c) ==
    LET op == call[c].op
        at == call[c].at
    IN  /\ at = "lock" => op \in Op \ {"shutdown"} /\ (op # "preload" => call[c].m \in Model)
        /\ at \in {"load", "native", "insert"} =>
               /\ op \in {"load", "preload"} /\ call[c].m \in Model
               /\ op = "preload" => /\ call[c].m \in Range(PreloadModels)
                                    /\ tx.pos <= Len(PreloadModels)
        /\ at \in {"unload", "forget", "delete", "install"} =>
               op # "preload" /\ call[c].m \in Model
        /\ at \in {"begin", "gate", "rollback", "withdraw", "ungate"} =>
               op = "preload" /\ policy = "Strict"
        /\ at = "next" => op = "preload"
        /\ at \in {"drain", "wait", "clear"} => shuttingDown
        /\ at = "clear" => flight = "stopped"

\* Where the call that has the mutex is.
Here(at) == lifecycle # None /\ call[lifecycle].at = at

CallType == [op : Op \cup {"none"}, m : Model \cup {None}, at : Place]
TxType == [gated : SUBSET Model, newly : Seq(Model), undo : Seq(Model), pos : Nat,
           early : SUBSET Embed]

Shape ==
    /\ TypeOK
    /\ policy \in {"Strict", "BestEffort"}
    /\ flight \in {"none", "draining", "stopped"}
    /\ shuttingDown \in BOOLEAN /\ cleared \in BOOLEAN
    /\ tx \in TxType
    /\ \A c \in Caller : CallOK(c) /\ (Locked(c) <=> lifecycle = c)

-----------------------------------------------------------------------------
(* Sequences as the transaction uses them. *)

\* The model a rollback takes off its list, and what is left of the list.
Last(s) == s[Len(s)]
Front(s) == SubSeq(s, 1, Len(s) - 1)

\* Appending adds one element, and keeps a list injective when the element is new.
LEMMA AppendFacts ==
    ASSUME NEW S, NEW s \in Seq(S), NEW x \in S
    PROVE  /\ Append(s, x) \in Seq(S)
           /\ Range(Append(s, x)) = Range(s) \cup {x}
           /\ IsInjective(s) /\ x \notin Range(s) => IsInjective(Append(s, x))
<1>1. /\ Append(s, x) \in Seq(S) /\ Len(Append(s, x)) = Len(s) + 1
      /\ \A i \in 1 .. Len(s) : Append(s, x)[i] = s[i]
      /\ Append(s, x)[Len(s) + 1] = x
  OBVIOUS
<1>2. DOMAIN s = 1 .. Len(s) /\ DOMAIN Append(s, x) = 1 .. Len(s) + 1 /\ Len(s) \in Nat
  BY <1>1
<1>3. Range(Append(s, x)) = Range(s) \cup {x}
  BY <1>1, <1>2 DEF Range
<1>4. IsInjective(s) /\ x \notin Range(s) => IsInjective(Append(s, x))
  BY <1>1, <1>2 DEF Range, IsInjective
<1> QED
  BY <1>1, <1>3, <1>4, Zenon

\* Taking the last element off an injective list takes it out of the set.
LEMMA FrontFacts ==
    ASSUME NEW S, NEW s \in Seq(S), s # <<>>, IsInjective(s)
    PROVE  /\ Last(s) \in S /\ Front(s) \in Seq(S) /\ IsInjective(Front(s))
           /\ Range(Front(s)) = Range(s) \ {Last(s)}
           /\ Last(s) \in Range(s)
<1>1. /\ Len(s) \in Nat /\ Len(s) >= 1 /\ DOMAIN s = 1 .. Len(s)
      /\ Last(s) = s[Len(s)] /\ s[Len(s)] \in S
  BY DEF Last
<1>2. /\ Front(s) \in Seq(S) /\ DOMAIN Front(s) = 1 .. (Len(s) - 1)
      /\ \A i \in 1 .. (Len(s) - 1) : Front(s)[i] = s[i]
  BY <1>1 DEF Front
<1>3. IsInjective(Front(s))
  BY <1>1, <1>2 DEF IsInjective
<1>4. Range(Front(s)) = Range(s) \ {Last(s)} /\ Last(s) \in Range(s)
  BY <1>1, <1>2 DEF IsInjective, Range
<1> QED
  BY <1>1, <1>2, <1>3, <1>4, Zenon

\* The same without the assumption, as far as types go.
LEMMA FrontType ==
    ASSUME NEW S, NEW s \in Seq(S), s # <<>>
    PROVE  Last(s) \in S /\ Front(s) \in Seq(S)
<1>1. Len(s) \in Nat /\ Len(s) >= 1 /\ Last(s) = s[Len(s)]
  BY DEF Last
<1> QED
  BY <1>1 DEF Front

\* The empty list.
LEMMA EmptyFacts == Range(<<>>) = {} /\ IsInjective(<<>>)
BY DEF Range, IsInjective

\* Where a call can go with the lifecycle mutex in hand.
LEMMA PlaceFacts == {"begin", "next", "load", "unload", "delete", "install"} \subseteq Place
BY Zenon DEF Place

\* The list of models to preload.
LEMMA PreloadFacts ==
    /\ Len(PreloadModels) \in Nat
    /\ Range(PreloadModels) \subseteq Model
    /\ \A i \in 1 .. Len(PreloadModels) :
           PreloadModels[i] \in Model /\ PreloadModels[i] \in Range(PreloadModels)
BY ApplicationAssumption DEF Range

\* The initial states are in shape.
LEMMA InitShape == Init => Shape
<1> SUFFICES ASSUME Init PROVE Shape
  BY Zenon
<1> USE DEF Init
<1>1. tx.gated = {} /\ tx.newly = <<>> /\ tx.undo = <<>> /\ tx.pos = 1 /\ tx.early = {}
  BY Zenon DEF NoTx
<1>2. TypeOK
  <2>1. Idle \in [op : Op \cup {"none"}, m : Model \cup {None}, at : Place]
    BY Zenon DEF Idle, Place
  <2>3. Quiet \in [m : Model \cup {None}, at : {"idle", "pending", "go", "using"}]
    BY Zenon DEF Quiet
  <2>2. tx.pos \in 1 .. Len(PreloadModels) + 1
    BY <1>1, PreloadFacts
  <2> QED
    BY <1>1, <2>1, <2>2, <2>3, Zenon DEF TypeOK
<1>3. \A c \in Caller : CallOK(c) /\ (Locked(c) <=> lifecycle = c)
  BY ApplicationAssumption, Zenon DEF Unlocked, CallOK, Locked, Idle
<1>4. tx \in TxType
  BY DEF NoTx, TxType
<1> QED
  BY <1>2, <1>3, <1>4, Zenon DEF Shape

-----------------------------------------------------------------------------
(* Types, places and the mutex. *)

\* A step of call c leaves the other calls where they are.  It may move the
\* transaction only if it has the mutex.
Moves(c, k) ==
    /\ k \in CallType
    /\ call' = [call EXCEPT ![c] = k]
    /\ lifecycle' \in {lifecycle, c, None}
    /\ lifecycle' # lifecycle => lifecycle \in {c, None}
    /\ k.at \in Unlocked <=> lifecycle' # c
    /\ tx' # tx => lifecycle = c
    /\ UNCHANGED policy
    /\ shuttingDown => shuttingDown'
    /\ flight = "stopped" => flight' = "stopped"

\* Then the other calls stay in shape.
LEMMA OthersInShape ==
    ASSUME Shape, NEW c \in Caller, NEW k, Moves(c, k)
    PROVE  /\ call' \in [Caller -> CallType]
           /\ lifecycle' \in Caller \cup {None}
           /\ call'[c] = k
           /\ \A d \in Caller : Locked(d)' <=> lifecycle' = d
           /\ \A d \in Caller \ {c} : CallOK(d)'
<1> USE DEF Moves
<1>1. call \in [Caller -> CallType] /\ lifecycle \in Caller \cup {None}
  BY Zenon DEF Shape, TypeOK, CallType
<1>2. call' \in [Caller -> CallType] /\ lifecycle' \in Caller \cup {None}
  BY <1>1, Zenon
<1>3. call'[c] = k /\ \A d \in Caller \ {c} : call'[d] = call[d]
  BY <1>1, Zenon
<1>4. ASSUME NEW d \in Caller
      PROVE  Locked(d)' <=> lifecycle' = d
  BY <1>1, <1>3, ApplicationAssumption, ZenonT(30) DEF Shape, Locked
<1>5. ASSUME NEW d \in Caller \ {c}
      PROVE  CallOK(d)'
  <2>1. CallOK(d) /\ (Locked(d) <=> lifecycle = d) /\ call'[d] = call[d]
    BY <1>3, Zenon DEF Shape
  <2>2. CASE tx' = tx
    BY <2>1, <2>2, Zenon DEF CallOK
  <2>3. CASE tx' # tx
    BY <2>1, <2>3, Zenon DEF Unlocked, CallOK, Locked
  <2> QED
    BY <2>2, <2>3, Zenon
<1> QED
  BY <1>2, <1>3, <1>4, <1>5, Zenon

\* The fields beside the calls and the mutex.
Fields ==
    /\ loaded \cup pending \cup served \cup installed \cup detached \cup orphans \subseteq Model
    /\ embed \in [Embed -> [m : Model \cup {None}, at : {"idle", "pending", "go", "using"}]]
    /\ tx \in TxType /\ tx.pos \in 1 .. Len(PreloadModels) + 1
    /\ flight \in {"none", "draining", "stopped"}
    /\ shuttingDown \in BOOLEAN /\ cleared \in BOOLEAN

\* A step of a call keeps the shape if it leaves that call and the fields in shape.
LEMMA ShapeOfMove ==
    ASSUME Shape, NEW c \in Caller, NEW k, Moves(c, k), CallOK(c)', Fields'
    PROVE  Shape'
<1>1. TypeOK'
  BY OthersInShape, Zenon DEF TypeOK, Fields, CallType, TxType
<1>2. policy' \in {"Strict", "BestEffort"}
  BY Zenon DEF Shape, Moves
<1> QED
  BY <1>1, <1>2, OthersInShape, Zenon DEF Shape, Fields

\* What the shape says about one call.
LEMMA ShapeFacts ==
    ASSUME Shape, NEW c \in Caller
    PROVE  /\ Fields /\ policy \in {"Strict", "BestEffort"}
           /\ call \in [Caller -> CallType] /\ lifecycle \in Caller \cup {None}
           /\ call[c] \in CallType /\ CallOK(c)
           /\ Locked(c) <=> lifecycle = c
           /\ lifecycle = None => lifecycle # c
<1>1. Fields /\ policy \in {"Strict", "BestEffort"}
  BY Zenon DEF Shape, TypeOK, Fields, TxType
<1>2. call \in [Caller -> CallType] /\ lifecycle \in Caller \cup {None}
  BY Zenon DEF Shape, TypeOK, CallType
<1> QED
  BY <1>1, <1>2, ApplicationAssumption, Zenon DEF Shape

\* A call that goes to another place on the same side of the mutex.
LEMMA GotoMoves ==
    ASSUME Shape, NEW c \in Caller, NEW at \in Place, Goto(c, at), UNCHANGED <<policy, lifecycle>>,
           at \in Unlocked <=> ~Locked(c),
           tx' # tx => lifecycle = c,
           shuttingDown => shuttingDown', flight = "stopped" => flight' = "stopped"
    PROVE  /\ \E k : Moves(c, k)
           /\ call'[c].at = at /\ call'[c].op = call[c].op /\ call'[c].m = call[c].m
<1> DEFINE k == [call[c] EXCEPT !.at = at]
<1>1. /\ call \in [Caller -> CallType] /\ call[c] \in CallType
      /\ Locked(c) <=> lifecycle = c
  BY ShapeFacts, Zenon
<1>2. call' = [call EXCEPT ![c] = k]
  BY Zenon DEF Goto
<1>3. k \in CallType /\ k.at = at /\ k.op = call[c].op /\ k.m = call[c].m
  BY <1>1, Zenon DEF CallType
<1> HIDE DEF k
<1>4. Moves(c, k) /\ call'[c] = k
  BY <1>1, <1>2, <1>3, Zenon DEF Moves
<1> QED
  BY <1>3, <1>4, Zenon

\* A call that returns.
LEMMA ReturnMoves ==
    ASSUME Shape, NEW c \in Caller, Return(c), UNCHANGED policy,
           tx' # tx => lifecycle = c,
           shuttingDown => shuttingDown', flight = "stopped" => flight' = "stopped"
    PROVE  /\ Moves(c, Idle)
           /\ call'[c] = Idle /\ CallOK(c)'
           /\ lifecycle' = IF lifecycle = c THEN None ELSE lifecycle
<1>1. /\ call \in [Caller -> CallType] /\ lifecycle \in Caller \cup {None}
  BY ShapeFacts, Zenon
<1>2. Idle \in CallType /\ Idle.at = "idle" /\ Idle.at \in Unlocked
  BY Zenon DEF Idle, CallType, Place, Unlocked
<1>3. /\ call' = [call EXCEPT ![c] = Idle]
      /\ lifecycle' = IF lifecycle = c THEN None ELSE lifecycle
  BY Zenon DEF Return
<1>4. /\ lifecycle' \in {lifecycle, c, None} /\ lifecycle' # c
      /\ lifecycle' # lifecycle => lifecycle \in {c, None}
  BY <1>1, <1>3, ApplicationAssumption, Zenon
<1>5. call'[c] = Idle
  BY <1>1, <1>3, Zenon
<1>6. Moves(c, Idle)
  BY <1>2, <1>3, <1>4, Zenon DEF Moves
<1> QED
  BY <1>2, <1>3, <1>5, <1>6, Zenon DEF CallOK

\* How load_locked goes on: load is through, preload takes the next model, or the
\* transaction is rolled back.
LEMMA AfterLoadMoves ==
    ASSUME Shape, NEW c \in Caller, call[c].at \in {"load", "native", "insert"}, NEW ok \in BOOLEAN,
           AfterLoad(c, ok), UNCHANGED policy,
           shuttingDown => shuttingDown', flight = "stopped" => flight' = "stopped"
    PROVE  /\ lifecycle = c
           /\ tx' \in TxType /\ tx'.pos \in 1 .. Len(PreloadModels) + 1
           /\ \E k : Moves(c, k)
           /\ CallOK(c)'
           /\ \/ call'[c] = Idle /\ lifecycle' = None /\ tx' = tx /\ call[c].op = "load"
              \/ /\ call[c].op = "preload" /\ call'[c].op = "preload"
                 /\ ok \/ policy = "BestEffort"
                 /\ call'[c].at = "next" /\ UNCHANGED lifecycle
                 /\ tx' = [tx EXCEPT !.pos = @ + 1,
                                     !.newly = IF ok /\ policy = "Strict"
                                               THEN Append(@, call[c].m) ELSE @]
              \/ /\ call[c].op = "preload" /\ call'[c].op = "preload"
                 /\ ~ok /\ policy = "Strict"
                 /\ call'[c].at = "rollback" /\ UNCHANGED lifecycle
                 /\ tx' = [tx EXCEPT !.undo = tx.newly]
<1>1. /\ lifecycle = c /\ CallOK(c) /\ call[c] \in CallType /\ call \in [Caller -> CallType]
      /\ tx \in TxType /\ tx.pos \in 1 .. Len(PreloadModels) + 1
      /\ policy \in {"Strict", "BestEffort"}
  BY ShapeFacts, Zenon DEF Unlocked, Locked, Fields
<1>2. /\ call[c].op \in {"load", "preload"} /\ call[c].m \in Model
      /\ call[c].op = "preload" => tx.pos <= Len(PreloadModels)
  BY <1>1, Zenon DEF CallOK
<1>3. CASE call[c].op = "load"
  <2>1. Return(c) /\ tx' = tx
    BY <1>3, Zenon DEF AfterLoad
  <2>2. Moves(c, Idle) /\ call'[c] = Idle /\ CallOK(c)' /\ lifecycle' = None
    BY <1>1, <2>1, ReturnMoves, Zenon
  <2> QED
    BY <1>1, <1>3, <2>1, <2>2, Zenon
<1>4. CASE call[c].op = "preload" /\ (ok \/ policy = "BestEffort")
  <2> DEFINE newly == IF ok /\ policy = "Strict" THEN Append(tx.newly, call[c].m) ELSE tx.newly
  <2>1. /\ Goto(c, "next") /\ UNCHANGED lifecycle
        /\ tx' = [tx EXCEPT !.pos = @ + 1, !.newly = newly]
    BY <1>4, Zenon DEF AfterLoad
  <2>2. /\ \E k : Moves(c, k)
        /\ call'[c].at = "next" /\ call'[c].op = "preload"
    BY <1>1, <1>4, <2>1, GotoMoves, Zenon DEF Place, Unlocked, Locked
  <2>3. CallOK(c)'
    BY <2>2, Zenon DEF CallOK
  <2>4. tx' \in TxType /\ tx'.pos = tx.pos + 1
    <3>1. tx.newly \in Seq(Model) /\ tx.pos \in Nat
      BY <1>1, Zenon DEF TxType
    <3>2. newly \in Seq(Model) /\ tx.pos + 1 \in Nat
      BY <1>2, <3>1, AppendFacts
    <3> HIDE DEF newly
    <3> QED
      BY <1>1, <2>1, <3>2, Zenon DEF TxType
  <2>5. tx'.pos \in 1 .. Len(PreloadModels) + 1
    BY <1>1, <1>2, <1>4, <2>4, PreloadFacts
  <2> QED
    BY <1>1, <1>4, <2>1, <2>2, <2>3, <2>4, <2>5, Zenon
<1>5. CASE call[c].op = "preload" /\ ~ok /\ policy = "Strict"
  <2>1. /\ Goto(c, "rollback") /\ UNCHANGED lifecycle
        /\ tx' = [tx EXCEPT !.undo = tx.newly]
    BY <1>5, Zenon DEF AfterLoad
  <2>2. /\ \E k : Moves(c, k)
        /\ call'[c].at = "rollback" /\ call'[c].op = "preload"
    BY <1>1, <1>5, <2>1, GotoMoves, Zenon DEF Place, Unlocked, Locked
  <2>3. CallOK(c)'
    BY <1>5, <2>2, Zenon DEF CallOK
  <2>4. tx' \in TxType /\ tx'.pos = tx.pos
    BY <1>1, <2>1, Zenon DEF TxType
  <2> QED
    BY <1>1, <1>5, <2>1, <2>2, <2>3, <2>4, Zenon
<1> QED
  BY <1>1, <1>2, <1>3, <1>4, <1>5, Zenon

\* Entering, taking the mutex, and the first steps of a load keep the shape.
LEMMA ShapeOfEntry ==
    ASSUME Shape, NEW c \in Caller,
           \/ \E op \in Op, m \in Model \cup {None} : Enter(c, op, m)
           \/ Acquire(c) \/ LoadCheck(c) \/ LoadFails(c) \/ LoadPublished(c) \/ Insert(c)
    PROVE  Shape'
<1>1. /\ Fields /\ policy \in {"Strict", "BestEffort"}
      /\ call \in [Caller -> CallType] /\ lifecycle \in Caller \cup {None}
      /\ call[c] \in CallType /\ CallOK(c) /\ (Locked(c) <=> lifecycle = c)
      /\ lifecycle = None => lifecycle # c
  BY ShapeFacts, Zenon
<1>2. Idle \in CallType /\ Idle.at = "idle" /\ Idle.at \in Unlocked
  BY Zenon DEF Idle, CallType, Place, Unlocked
<1>3. ASSUME NEW op \in Op, NEW m \in Model \cup {None}, Enter(c, op, m)
      PROVE  Shape'
  <2> DEFINE k == [op |-> op, m |-> m, at |-> "lock"]
  <2>1. k \in CallType /\ k.at = "lock" /\ k.op = op /\ k.m = m
    BY Zenon DEF CallType, Place
  <2> HIDE DEF k
  <2>2. Moves(c, k)
    <3>1. call' = [call EXCEPT ![c] = k] /\ ~Locked(c)
      BY <1>3, Zenon DEF Unlocked, Enter, k, At, Locked
    <3>2. UNCHANGED <<lifecycle, tx, policy, shuttingDown, flight>>
      BY <1>3, Zenon DEF Enter, appVars, runtimeVars
    <3> QED
      BY <1>1, <2>1, <3>1, <3>2, Zenon DEF Unlocked, Moves
  <2>3. call'[c] = k
    BY <1>1, <1>3, Zenon DEF Enter, k
  <2>4. CallOK(c)' /\ Fields'
    BY <1>1, <1>3, <2>1, <2>3, Zenon DEF Enter, CallOK, Fields, appVars, runtimeVars, storeVars
  <2> QED
    BY <2>2, <2>4, ShapeOfMove, Zenon
<1>4. CASE Acquire(c)
  <2>1. CASE shuttingDown
    <3>1. Moves(c, Idle) /\ CallOK(c)'
      BY <1>4, <2>1, ReturnMoves, Zenon DEF Acquire, appVars, runtimeVars
    <3>2. Fields'
      BY <1>1, <1>4, Zenon DEF Acquire, Fields, appVars, runtimeVars, storeVars
    <3> QED
      BY <3>1, <3>2, ShapeOfMove, Zenon
  <2>2. CASE ~shuttingDown
    <3> DEFINE at == IF call[c].op = "preload" /\ policy = "Strict" THEN "begin"
                     ELSE IF call[c].op = "preload" THEN "next" ELSE call[c].op
               k == [call[c] EXCEPT !.at = at]
    <3>1. call' = [call EXCEPT ![c] = k] /\ lifecycle' = c
      BY <1>1, <1>4, <2>2, Zenon DEF Acquire, Goto
    <3>2. /\ call[c].op \in Op \ {"shutdown"} /\ (call[c].op # "preload" => call[c].m \in Model)
          /\ call[c].at = "lock"
      BY <1>1, <1>4, Zenon DEF Acquire, CallOK, At
    <3>3. at \in {"begin", "next", "load", "unload", "delete", "install"}
      BY <3>2, Zenon DEF Op
    <3>4. k \in CallType /\ k.at = at /\ k.op = call[c].op /\ k.m = call[c].m
      <4> HIDE DEF at
      <4>1. at \in Place
        BY <3>3, PlaceFacts, Zenon
      <4> QED
        BY <1>1, <4>1, Zenon DEF CallType
    <3>5. Moves(c, k) /\ call'[c] = k
      BY <1>1, <1>4, <3>1, <3>3, <3>4, Zenon DEF Unlocked, Acquire, Moves, appVars, runtimeVars
    <3>6. CallOK(c)'
      BY <1>1, <1>4, <3>2, <3>4, <3>5 DEF Acquire, CallOK, Op
    <3>7. Fields'
      BY <1>1, <1>4, Zenon DEF Acquire, Fields, appVars, runtimeVars, storeVars
    <3> QED
      BY <3>5, <3>6, <3>7, ShapeOfMove, Zenon
  <2> QED
    BY <2>1, <2>2, Zenon
<1>5. ASSUME NEW at \in {"native", "insert"}, Goto(c, at), UNCHANGED <<lifecycle, tx, policy>>,
             call[c].at \in {"load", "native"},
             shuttingDown' = shuttingDown, flight' = flight
      PROVE  CallOK(c)' /\ \E k : Moves(c, k)
  <2>1. /\ \E k : Moves(c, k)
        /\ call'[c].at = at /\ call'[c].op = call[c].op /\ call'[c].m = call[c].m
    BY <1>1, <1>5, GotoMoves, ZenonT(30) DEF Place, Unlocked, Locked
  <2> QED
    BY <1>1, <1>5, <2>1, Zenon DEF CallOK
<1>6. CASE LoadCheck(c)
  <2>2. CASE AfterLoad(c, FALSE)
    <3>1. /\ tx' \in TxType /\ tx'.pos \in 1 .. Len(PreloadModels) + 1
          /\ \E k : Moves(c, k)
          /\ CallOK(c)'
      BY <1>6, <2>2, AfterLoadMoves, Zenon DEF LoadCheck, At, appVars, runtimeVars
    <3>2. Fields'
      BY <1>1, <1>6, <3>1, Zenon DEF LoadCheck, Fields, appVars, runtimeVars, storeVars
    <3> QED
      BY <3>1, <3>2, ShapeOfMove, Zenon
  <2>3. CASE Goto(c, "native") /\ UNCHANGED <<lifecycle, tx>>
    <3>1. CallOK(c)' /\ \E k : Moves(c, k)
      BY <1>5, <1>6, <2>3, Zenon DEF LoadCheck, At, appVars, runtimeVars
    <3>2. Fields'
      BY <1>1, <1>6, <2>3, Zenon DEF LoadCheck, Fields, appVars, runtimeVars, storeVars
    <3> QED
      BY <3>1, <3>2, ShapeOfMove, Zenon
  <2> QED
    BY <1>6, <2>2, <2>3, Zenon DEF LoadCheck
<1>7. CASE LoadFails(c)
  <2>1. /\ tx' \in TxType /\ tx'.pos \in 1 .. Len(PreloadModels) + 1
        /\ \E k : Moves(c, k)
        /\ CallOK(c)'
    BY <1>7, AfterLoadMoves, Zenon DEF LoadFails, At, appVars, runtimeVars
  <2>2. Fields'
    BY <1>1, <1>7, <2>1, Zenon DEF LoadFails, Fields, appVars, runtimeVars, storeVars
  <2> QED
    BY <2>1, <2>2, ShapeOfMove, Zenon
<1>8. CASE LoadPublished(c)
  <2>1. CallOK(c)' /\ \E k : Moves(c, k)
    BY <1>5, <1>8, Zenon DEF LoadPublished, At, appVars, runtimeVars
  <2>2. Fields'
    BY <1>1, <1>8 DEF LoadPublished, Fields, appVars, storeVars
  <2> QED
    BY <2>1, <2>2, ShapeOfMove, Zenon
<1>9. CASE Insert(c)
  <2>1. /\ tx' \in TxType /\ tx'.pos \in 1 .. Len(PreloadModels) + 1
        /\ \E k : Moves(c, k)
        /\ CallOK(c)'
    BY <1>9, AfterLoadMoves, Zenon DEF Insert, At
  <2>2. call[c].m \in Model
    BY <1>1, <1>9, Zenon DEF Insert, At, CallOK
  <2>3. /\ served' \in {served, served \ {call[c].m}} /\ loaded' \in {loaded, loaded \cup {call[c].m}}
        /\ UNCHANGED <<pending, shuttingDown, embed, storeVars, flight, orphans, cleared>>
    BY <1>9, Zenon DEF Insert, TryUnload
  <2>4. Fields'
    BY <1>1, <2>1, <2>2, <2>3 DEF Fields, storeVars
  <2> QED
    BY <2>1, <2>4, ShapeOfMove, Zenon
<1> QED
  BY <1>3, <1>4, <1>6, <1>7, <1>8, <1>9, Zenon

\* A step that moves no call keeps the shape if it leaves the fields in shape; a step
\* of a strict preload may also move the transaction's place in the list.
LEMMA ShapeKept ==
    ASSUME Shape, Fields', UNCHANGED <<policy, lifecycle, call, shuttingDown>>,
           flight = "stopped" => flight' = "stopped",
           tx'.pos = tx.pos \/ Here("next")
    PROVE  Shape'
<1>1. TypeOK'
  BY Zenon DEF Shape, TypeOK, Fields, TxType
<1>2. ASSUME NEW c \in Caller
      PROVE  CallOK(c)' /\ (Locked(c)' <=> lifecycle' = c)
  <2>1. CallOK(c) /\ (Locked(c) <=> lifecycle = c)
    BY Zenon DEF Shape
  <2>2. Locked(c)' <=> lifecycle' = c
    BY <2>1, Zenon DEF Locked
  <2>3. CASE tx'.pos = tx.pos
    BY <2>1, <2>2, <2>3, Zenon DEF CallOK
  <2>4. CASE Here("next") /\ call[c].at \in {"load", "native", "insert"}
    BY <2>1, <2>4, Zenon DEF Here, Locked, Unlocked
  <2>5. CASE call[c].at \notin {"load", "native", "insert"}
    BY <2>1, <2>2, <2>5, Zenon DEF CallOK
  <2> QED
    BY <2>2, <2>3, <2>4, <2>5, Zenon
<1> QED
  BY <1>1, <1>2, Zenon DEF Shape, Fields

\* Unload, delete, install and preload keep the shape.
LEMMA ShapeOfWork ==
    ASSUME Shape, NEW c \in Caller,
           \/ Unload(c) \/ Forget(c) \/ Delete(c) \/ Install(c)
           \/ Begin(c) \/ Gate(c) \/ NextModel(c) \/ Rollback(c) \/ Withdraw(c) \/ Ungate(c)
    PROVE  Shape'
<1>1. /\ Fields /\ policy \in {"Strict", "BestEffort"}
      /\ call[c] \in CallType /\ CallOK(c) /\ (Locked(c) <=> lifecycle = c)
      /\ call \in [Caller -> CallType]
  BY ShapeFacts, Zenon
<1>2. NoTx \in TxType /\ NoTx.pos \in 1 .. Len(PreloadModels) + 1
  <2>1. NoTx \in TxType
    BY DEF NoTx, TxType
  <2>2. NoTx.pos = 1
    BY Zenon DEF NoTx
  <2> QED
    BY <2>1, <2>2, PreloadFacts
<1>3. lifecycle = c
  BY <1>1, Zenon DEF Locked, Unlocked, At, Unload, Forget, Delete, Install, Begin, Gate, NextModel,
     Rollback, Withdraw, Ungate
<1>4. CASE Return(c) /\ (Unload(c) \/ Forget(c) \/ Delete(c) \/ Install(c) \/ Ungate(c))
  <2>1. UNCHANGED <<policy, shuttingDown, flight>>
    BY <1>4, Zenon DEF Unload, Forget, Delete, Install, Ungate, appVars, runtimeVars
  <2>2. Moves(c, Idle) /\ CallOK(c)'
    BY <1>3, <1>4, <2>1, ReturnMoves, Zenon
  <2>3. call[c].m \in Model \/ Ungate(c)
    BY <1>1, <1>4, Zenon DEF CallOK, At, Unload, Forget, Delete, Install
  <2>4. Fields'
    <3>1. CASE Unload(c) \/ Forget(c)
      BY <1>1, <2>3, <3>1, ZenonT(30) DEF Unload, Forget, Fields, appVars, runtimeVars, storeVars
    <3>2. CASE Delete(c) \/ Install(c)
      BY <1>1, <2>3, <3>2, ZenonT(30)
      DEF At, CallOK, Delete, Install, Fields, appVars, runtimeVars, storeVars
    <3>3. CASE Ungate(c)
      BY <1>1, <1>2, <3>3, ZenonT(30) DEF Ungate, Fields, runtimeVars, storeVars
    <3> QED
      BY <1>4, <3>1, <3>2, <3>3, Zenon
  <2> QED
    BY <2>2, <2>4, ShapeOfMove, Zenon
<1>5. CASE Unload(c) /\ Goto(c, "forget") /\ UNCHANGED lifecycle
  <2>1. UNCHANGED <<policy, shuttingDown, flight, tx>> /\ call[c].at = "unload"
    BY <1>5, Zenon DEF Unload, At, appVars
  <2>2. /\ \E k : Moves(c, k)
        /\ call'[c].at = "forget" /\ call'[c].op = call[c].op /\ call'[c].m = call[c].m
    BY <1>1, <1>3, <1>5, <2>1, GotoMoves, Zenon DEF Place, Unlocked
  <2>3. CallOK(c)'
    BY <1>1, <2>1, <2>2, Zenon DEF CallOK
  <2>4. Fields'
    BY <1>1, <1>5 DEF Unload, Fields, appVars, storeVars
  <2> QED
    BY <2>2, <2>3, <2>4, ShapeOfMove, Zenon
<1>6. CASE Begin(c) \/ Gate(c) \/ Withdraw(c) \/ (Rollback(c) /\ tx.undo = <<>>)
  <2>1. /\ UNCHANGED <<policy, shuttingDown, flight, lifecycle>>
        /\ call[c].at \in {"begin", "gate", "withdraw", "rollback"}
        /\ \E at \in {"gate", "next", "ungate", "withdraw"} : Goto(c, at)
    BY <1>6, Zenon DEF Begin, Gate, Withdraw, Rollback, At, appVars, runtimeVars
  <2>2. /\ \E k : Moves(c, k)
        /\ call'[c].at \in {"gate", "next", "ungate", "withdraw"} /\ call'[c].op = call[c].op
    BY <1>1, <1>3, <2>1, GotoMoves, ZenonT(30) DEF Place, Unlocked
  <2>3. CallOK(c)'
    BY <1>1, <2>1, <2>2, Zenon DEF CallOK
  <2>4. tx' \in TxType /\ tx'.pos \in 1 .. Len(PreloadModels) + 1
    <3>1. CASE Begin(c)
      BY <1>1, <1>2, <3>1, PreloadFacts, Zenon DEF Begin, Fields, TxType, NoTx
    <3>2. CASE Gate(c)
      BY <1>1, <3>2, Zenon DEF Gate, Fields, TxType
    <3>3. CASE Withdraw(c) \/ (Rollback(c) /\ tx.undo = <<>>)
      <4>1. tx' = tx
        BY <3>3, Zenon DEF Withdraw, Rollback
      <4> QED
        BY <1>1, <4>1, Zenon DEF Fields
    <3> QED
      BY <1>6, <3>1, <3>2, <3>3, Zenon
  <2>5. Fields'
    <3>1. CASE Begin(c) \/ Withdraw(c) \/ (Rollback(c) /\ tx.undo = <<>>)
      BY <1>1, <2>4, <3>1, Zenon
      DEF Begin, Withdraw, Rollback, Fields, appVars, runtimeVars, storeVars
    <3>2. CASE Gate(c)
      <4>1. tx.gated \subseteq Model
        BY <1>1, Zenon DEF Fields, TxType
      <4> QED
        BY <1>1, <2>4, <3>2, <4>1, Zenon DEF Gate, Fields, runtimeVars, storeVars
    <3> QED
      BY <1>6, <3>1, <3>2, Zenon
  <2> QED
    BY <2>2, <2>3, <2>5, ShapeOfMove, Zenon
<1>7. CASE Rollback(c) /\ tx.undo # <<>>
  <2>1. /\ tx' = [tx EXCEPT !.undo = Front(@)]
        /\ served' \subseteq served /\ orphans' \subseteq orphans \cup {Last(tx.undo)}
        /\ UNCHANGED <<policy, lifecycle, appVars, call, embed, storeVars, flight, cleared>>
    BY <1>7, Zenon DEF Rollback, TryUnload, Last, Front
  <2>2. tx.undo \in Seq(Model)
    BY <1>1, Zenon DEF Fields, TxType
  <2>3. Front(tx.undo) \in Seq(Model) /\ Last(tx.undo) \in Model
    BY <1>7, <2>2, FrontType, Zenon
  <2>4. tx' \in TxType /\ tx'.pos = tx.pos
    BY <1>1, <2>1, <2>3, Zenon DEF Fields, TxType
  <2>5. Fields'
    BY <1>1, <2>1, <2>3, <2>4, Zenon DEF Fields, appVars, storeVars
  <2> QED
    BY <2>1, <2>4, <2>5, ShapeKept, Zenon DEF appVars
<1>8. CASE NextModel(c) /\ tx.pos > Len(PreloadModels)
  <2>1. Return(c) /\ UNCHANGED <<policy, shuttingDown, flight>>
    BY <1>8, Zenon DEF NextModel, runtimeVars
  <2>2. Moves(c, Idle) /\ CallOK(c)'
    BY <1>3, <2>1, ReturnMoves, Zenon
  <2>3. Fields'
    BY <1>1, <1>2, <1>8 DEF NextModel, Fields, runtimeVars, storeVars
  <2> QED
    BY <2>2, <2>3, ShapeOfMove, Zenon
<1>9. CASE NextModel(c) /\ ~(tx.pos > Len(PreloadModels)) /\ IsLoaded(PreloadModels[tx.pos])
  <2>1. /\ tx' = [tx EXCEPT !.pos = @ + 1]
        /\ UNCHANGED <<policy, lifecycle, appVars, call, embed, storeVars, runtimeVars, orphans, cleared>>
    BY <1>9, Zenon DEF NextModel, appVars
  <2>2. tx' \in TxType /\ tx'.pos \in 1 .. Len(PreloadModels) + 1
    <3>1. tx.pos \in Nat /\ tx.pos + 1 \in Nat /\ tx.pos + 1 \in 1 .. Len(PreloadModels) + 1
      BY <1>1, <1>9, PreloadFacts DEF Fields
    <3> QED
      BY <1>1, <2>1, <3>1, Zenon DEF Fields, TxType
  <2>3. Fields'
    BY <1>1, <2>1, <2>2, Zenon DEF Fields, appVars, runtimeVars, storeVars
  <2>4. Here("next")
    BY <1>3, <1>9, ApplicationAssumption, Zenon DEF NextModel, At, Here
  <2> QED
    BY <2>1, <2>3, <2>4, ShapeKept, Zenon DEF appVars, runtimeVars
<1>10. CASE NextModel(c) /\ ~(tx.pos > Len(PreloadModels)) /\ ~IsLoaded(PreloadModels[tx.pos])
  <2> DEFINE k == [call[c] EXCEPT !.m = PreloadModels[tx.pos], !.at = "load"]
  <2>1. /\ call' = [call EXCEPT ![c] = k]
        /\ UNCHANGED <<policy, lifecycle, appVars, tx, embed, storeVars, runtimeVars, orphans, cleared>>
    BY <1>10, Zenon DEF NextModel, appVars
  <2>2. /\ tx.pos \in 1 .. Len(PreloadModels) /\ tx.pos <= Len(PreloadModels)
        /\ call[c].at = "next" /\ call[c].op = "preload"
    BY <1>1, <1>10, PreloadFacts DEF NextModel, At, CallOK, Fields
  <2>3. PreloadModels[tx.pos] \in Model /\ PreloadModels[tx.pos] \in Range(PreloadModels)
    BY <2>2, PreloadFacts, Zenon
  <2>4. k \in CallType /\ k.at = "load" /\ k.op = "preload" /\ k.m = PreloadModels[tx.pos]
    BY <1>1, <2>2, <2>3, Zenon DEF CallType, Place
  <2> HIDE DEF k
  <2>5. Moves(c, k) /\ call'[c] = k
    BY <1>1, <1>3, <2>1, <2>4, Zenon DEF Moves, Unlocked, appVars, runtimeVars
  <2>6. CallOK(c)'
    BY <2>1, <2>2, <2>3, <2>4, <2>5, Zenon DEF CallOK
  <2>7. Fields'
    BY <1>1, <2>1, Zenon DEF Fields, appVars, runtimeVars, storeVars
  <2> QED
    BY <2>5, <2>6, <2>7, ShapeOfMove, Zenon
<1> QED
  BY <1>4, <1>5, <1>6, <1>7, <1>8, <1>9, <1>10, Zenon DEF Unload, Forget, Delete, Install, Ungate

\* shutdown, the drop of a future, requests and the runtime keep the shape.
LEMMA ShapeOfRest ==
    ASSUME Shape,
           \/ \E c \in Caller : \/ Fence(c) \/ Drain(c) \/ ClearLoaded(c) \/ ClearPending(c)
                                \/ Drop(c)
           \/ \E e \in Embed : EmbedPending(e) \/ EmbedLease(e) \/ EmbedEnds(e)
           \/ \E e \in Embed, m \in Model : EmbedEnter(e, m)
           \/ \E m \in Model : DetachedEnds(m)
           \/ FlightEnds
    PROVE  Shape'
<1>1. NoTx \in TxType /\ NoTx.pos \in 1 .. Len(PreloadModels) + 1
  BY PreloadFacts DEF NoTx, TxType
<1>2. ASSUME NEW c \in Caller,
             Fence(c) \/ Drain(c) \/ ClearLoaded(c) \/ ClearPending(c) \/ Drop(c)
      PROVE  Shape'
  <2>1. /\ Fields /\ policy \in {"Strict", "BestEffort"}
        /\ call[c] \in CallType /\ CallOK(c) /\ (Locked(c) <=> lifecycle = c)
        /\ call \in [Caller -> CallType]
    BY ShapeFacts, Zenon
  <2>2. CASE Fence(c)
    <3> DEFINE k == [op |-> "shutdown", m |-> None, at |-> "drain"]
    <3>1. k \in CallType /\ k.at = "drain"
      BY Zenon DEF CallType, Place, Op
    <3>2. /\ call' = [call EXCEPT ![c] = k] /\ ~Locked(c) /\ shuttingDown'
          /\ UNCHANGED <<policy, lifecycle, loaded, pending, embed, tx, storeVars, runtimeVars,
                         orphans, cleared>>
      BY <2>2, Zenon DEF Fence, At, Locked, Unlocked
    <3> HIDE DEF k
    <3>3. Moves(c, k) /\ call'[c] = k
      BY <2>1, <3>1, <3>2, Zenon DEF Moves, Unlocked, runtimeVars
    <3>4. CallOK(c)'
      BY <3>1, <3>2, <3>3, Zenon DEF CallOK
    <3>5. shuttingDown' \in BOOLEAN
      BY <2>2, Zenon DEF Fence
    <3>6. Fields'
      BY <2>1, <3>2, <3>5, Zenon DEF Fields, storeVars, runtimeVars
    <3> QED
      BY <3>3, <3>4, <3>6, ShapeOfMove, Zenon
  <2>3. CASE Drain(c) \/ ClearLoaded(c)
    <3>1. /\ UNCHANGED <<policy, lifecycle, tx, shuttingDown>> /\ call[c].at \in {"drain", "wait"}
          /\ \/ Goto(c, "wait")
             \/ Goto(c, "clear") /\ flight' = "stopped"
          /\ flight = "stopped" => flight' = "stopped"
      BY <2>3, Zenon DEF Drain, ClearLoaded, At, appVars, runtimeVars
    <3>2. /\ \E k : Moves(c, k)
          /\ call'[c].at = "wait" \/ (call'[c].at = "clear" /\ flight' = "stopped")
      BY <2>1, <3>1, GotoMoves, Zenon DEF Place, Unlocked, Locked
    <3>3. CallOK(c)'
      BY <2>1, <3>1, <3>2, Zenon DEF CallOK
    <3>4. Fields'
      BY <2>1, <2>3, Zenon DEF Drain, ClearLoaded, Fields, appVars, storeVars, runtimeVars
    <3> QED
      BY <3>2, <3>3, <3>4, ShapeOfMove, Zenon
  <2>4. CASE ClearPending(c)
    <3>1. Moves(c, Idle) /\ CallOK(c)'
      BY <2>4, ReturnMoves, Zenon DEF ClearPending, runtimeVars
    <3>2. Fields'
      BY <2>1, <2>4, Zenon DEF ClearPending, Fields, storeVars, runtimeVars
    <3> QED
      BY <3>1, <3>2, ShapeOfMove, Zenon
  <2>5. CASE Drop(c)
    <3>1. /\ UNCHANGED <<policy, appVars, embed, installed, runtimeVars, orphans, cleared>>
          /\ call[c].at \in {"lock", "native", "install", "wait"}
          /\ call[c].at = "install" => call[c].m \in Model
          /\ detached' = IF call[c].at = "install" THEN detached \cup {call[c].m} ELSE detached
      BY <2>1, <2>5, Zenon DEF Drop, At, CallOK
    <3>2. CASE Goto(c, "rollback") /\ tx' = [tx EXCEPT !.undo = tx.newly] /\ UNCHANGED lifecycle
               /\ call[c].op = "preload" /\ call[c].at = "native" /\ policy = "Strict"
      <4>1. lifecycle = c
        BY <2>1, <3>2, Zenon DEF Locked, Unlocked
      <4>2. /\ \E k : Moves(c, k)
            /\ call'[c].at = "rollback" /\ call'[c].op = "preload"
        BY <2>1, <3>1, <3>2, <4>1, GotoMoves, Zenon DEF Place, Unlocked, appVars, runtimeVars
      <4>3. CallOK(c)'
        BY <3>1, <3>2, <4>2, Zenon DEF CallOK
      <4>4. tx' \in TxType /\ tx'.pos = tx.pos
        BY <2>1, <3>2, Zenon DEF Fields, TxType
      <4>5. Fields'
        BY <2>1, <3>1, <4>4 DEF Fields, appVars, runtimeVars
      <4> QED
        BY <4>2, <4>3, <4>5, ShapeOfMove, Zenon
    <3>3. CASE Return(c) /\ tx' = IF lifecycle = c THEN NoTx ELSE tx
      <4>1. Moves(c, Idle) /\ CallOK(c)'
        BY <3>1, <3>3, ReturnMoves, Zenon DEF appVars, runtimeVars
      <4>2. Fields'
        BY <1>1, <2>1, <3>1, <3>3 DEF Fields, appVars, runtimeVars
      <4> QED
        BY <4>1, <4>2, ShapeOfMove, Zenon
    <3> QED
      BY <2>5, <3>2, <3>3, Zenon DEF Drop, At
  <2> QED
    BY <1>2, <2>2, <2>3, <2>4, <2>5, Zenon
<1>3. Fields
  BY Zenon DEF Shape, TypeOK, Fields, TxType
<1>4. ASSUME NEW e \in Embed,
             \/ EmbedPending(e) \/ EmbedLease(e) \/ EmbedEnds(e)
             \/ \E m \in Model : EmbedEnter(e, m)
      PROVE  Shape'
  <2>1. UNCHANGED <<policy, lifecycle, appVars, call, storeVars, runtimeVars, orphans, cleared>>
    BY <1>4, Zenon DEF EmbedPending, EmbedLease, EmbedEnds, EmbedEnter
  <2>2. embed' \in [Embed -> [m : Model \cup {None}, at : {"idle", "pending", "go", "using"}]]
    BY <1>3, <1>4 DEF EmbedPending, EmbedLease, EmbedEnds, EmbedEnter, Quiet, Fields
  <2>3. tx' = tx \/ tx' = [tx EXCEPT !.early = @ \ {e}]
    BY <1>4, Zenon DEF EmbedPending, EmbedLease, EmbedEnds, EmbedEnter
  <2>4. tx' \in TxType /\ tx'.pos = tx.pos
    BY <1>3, <2>3, Zenon DEF Fields, TxType
  <2>5. Fields'
    BY <1>3, <2>1, <2>2, <2>4, Zenon DEF Fields, appVars, runtimeVars, storeVars
  <2> QED
    BY <2>1, <2>4, <2>5, ShapeKept, Zenon DEF appVars, runtimeVars
<1>5. ASSUME (\E m \in Model : DetachedEnds(m)) \/ FlightEnds
      PROVE  Shape'
  <2>1. UNCHANGED <<policy, lifecycle, call, shuttingDown, tx>> /\ (flight = "stopped" => flight' = "stopped")
    BY <1>5, Zenon DEF DetachedEnds, FlightEnds, appVars, runtimeVars
  <2>2. Fields'
    BY <1>3, <1>5, ZenonT(30) DEF DetachedEnds, FlightEnds, Fields, appVars, runtimeVars, storeVars
  <2> QED
    BY <2>1, <2>2, ShapeKept, Zenon
<1> QED
  BY <1>2, <1>4, <1>5, Zenon

\* Every step keeps the shape.
LEMMA NextShape ==
    ASSUME Shape, Next
    PROVE  Shape'
BY ShapeOfEntry, ShapeOfWork, ShapeOfRest, Zenon DEF Next, CallStep

-----------------------------------------------------------------------------
(* The other layers of the inductive invariant. *)

\* The clear comes after the fence, and nothing is reported behind it.
StopInv ==
    /\ flight # "none" => shuttingDown
    /\ cleared => shuttingDown /\ loaded = {}

\* A strict preload is a transaction between Begin and its end, and its gate is
\* closed from Gate on.
InTx ==
    /\ policy = "Strict" /\ lifecycle # None
    /\ call[lifecycle].op = "preload" /\ call[lifecycle].at # "begin"
PastGate == InTx /\ ~Here("gate")

\* The gate holds back models of the transaction only, and all of them, until a
\* shutdown that has stopped the runtime opens it; a model that is not held back
\* was served when the transaction began and still is.
GateInv ==
    /\ pending \subseteq tx.gated
    /\ ~InTx => tx.gated = {}
    /\ PastGate /\ flight # "stopped" => tx.gated \subseteq pending
    /\ InTx /\ flight = "none" => Range(PreloadModels) \ tx.gated \subseteq served

\* What the transaction has loaded is held back, reported until it is withdrawn,
\* and undone once.
TxInv ==
    /\ ~PastGate => tx.newly = <<>>
    /\ Range(tx.newly) \subseteq tx.gated
    /\ IsInjective(tx.newly) /\ IsInjective(tx.undo)
    /\ Here("rollback") => Range(tx.undo) \subseteq Range(tx.newly)
    /\ Here("withdraw") => tx.undo = <<>>
    /\ flight = "none" /\ ~Here("ungate") => Range(tx.newly) \subseteq loaded
    /\ Here("insert") /\ InTx => call[lifecycle].m \in tx.gated

\* What `loaded` is going to be when the call that has the mutex is through with
\* the model it has in hand.
Due ==
    IF Here("insert") THEN loaded \cup {call[lifecycle].m}
    ELSE IF Here("forget") THEN loaded \ {call[lifecycle].m}
    ELSE IF Here("rollback") \/ Here("withdraw")
         THEN loaded \ (Range(tx.newly) \ Range(tx.undo))
    ELSE loaded

\* As long as the runtime serves, it serves what is due, and what a rollback had to
\* leave; without a shutdown it serves nothing else.
ReportInv ==
    /\ flight = "none" => /\ Due \subseteq served \ orphans
                          /\ orphans \subseteq served
                          /\ Here("insert") => call[lifecycle].m \notin loaded
    /\ ~shuttingDown => served \ orphans \subseteq Due

\* A request that is past its look at the gate was so when the gate was closed, or
\* else finds the runtime stopped.
EarlyInv ==
    PastGate =>
        \A e \in Embed :
            embed[e].m \in tx.gated =>
                /\ embed[e].at = "using" => e \in tx.early
                /\ embed[e].at = "go" => e \in tx.early \/ flight = "stopped"

AppInv ==
    Shape /\ StopInv /\ GateInv /\ TxInv /\ ReportInv /\ EarlyInv

-----------------------------------------------------------------------------
\* The initial states satisfy the invariant.
LEMMA InitAppInv == Init => AppInv
<1> SUFFICES ASSUME Init PROVE AppInv
  BY Zenon
<1> USE DEF Init
<1>1. tx.gated = {} /\ tx.newly = <<>> /\ tx.undo = <<>> /\ tx.pos = 1 /\ tx.early = {}
  BY Zenon DEF NoTx
<1>2. ~InTx /\ ~PastGate /\ \A at : ~Here(at)
  BY Zenon DEF InTx, PastGate, Here
<1>3. StopInv /\ GateInv
  BY <1>1, <1>2, Zenon DEF StopInv, GateInv
<1>4. TxInv /\ ReportInv /\ EarlyInv
  BY <1>1, <1>2, EmptyFacts, Zenon DEF TxInv, ReportInv, EarlyInv, Due
<1> QED
  BY <1>3, <1>4, InitShape, Zenon DEF AppInv

-----------------------------------------------------------------------------
(* Behind the clear. *)

\* Every step keeps the order of fence, flight and clear.
LEMMA NextStop ==
    ASSUME Shape, StopInv, Next
    PROVE  StopInv'
<1> USE DEF StopInv
<1>1. ASSUME NEW c \in Caller, Drain(c) \/ ClearLoaded(c) \/ Fence(c)
      PROVE  StopInv'
  <2>1. CallOK(c)
    BY Zenon DEF Shape
  <2> QED
    BY <1>1, <2>1 DEF Drain, ClearLoaded, Fence, CallOK, At, appVars, runtimeVars
<1>2. ASSUME NEW c \in Caller, Insert(c) \/ Forget(c) \/ Withdraw(c)
      PROVE  StopInv'
  <2>1. UNCHANGED <<shuttingDown, flight, cleared>>
    BY <1>2, Zenon DEF Insert, Forget, Withdraw, runtimeVars
  <2>2. shuttingDown => loaded' \subseteq loaded
    BY <1>2, Zenon DEF Insert, Forget, Withdraw
  <2> QED
    BY <2>1, <2>2, Zenon
<1>3. CASE UNCHANGED <<loaded, shuttingDown, flight, cleared>>
  BY <1>3, Zenon
<1>4. CASE FlightEnds
  BY <1>4, Zenon DEF FlightEnds, appVars
<1>5. ASSUME NEW c \in Caller,
             \/ \E op \in Op, m \in Model \cup {None} : Enter(c, op, m)
             \/ Acquire(c) \/ LoadCheck(c) \/ LoadFails(c) \/ LoadPublished(c)
             \/ Unload(c) \/ Delete(c) \/ Install(c)
      PROVE  UNCHANGED <<loaded, shuttingDown, flight, cleared>>
  BY <1>5, Zenon DEF Enter, Acquire, LoadCheck, LoadFails, LoadPublished, Unload, Delete, Install,
     appVars, runtimeVars
<1>6. ASSUME NEW c \in Caller,
             \/ Begin(c) \/ Gate(c) \/ NextModel(c) \/ Rollback(c) \/ Ungate(c)
             \/ ClearPending(c) \/ Drop(c)
      PROVE  UNCHANGED <<loaded, shuttingDown, flight, cleared>>
  BY <1>6, Zenon
  DEF Begin, Gate, NextModel, Rollback, Ungate, ClearPending, Drop, appVars, runtimeVars
<1>7. ASSUME \/ \E e \in Embed : EmbedPending(e) \/ EmbedLease(e) \/ EmbedEnds(e)
             \/ \E e \in Embed, m \in Model : EmbedEnter(e, m)
             \/ \E m \in Model : DetachedEnds(m)
      PROVE  UNCHANGED <<loaded, shuttingDown, flight, cleared>>
  BY <1>7, Zenon
  DEF EmbedPending, EmbedLease, EmbedEnds, EmbedEnter, DetachedEnds, appVars, runtimeVars
<1> HIDE DEF StopInv
<1> QED
  BY <1>1, <1>2, <1>3, <1>4, <1>5, <1>6, <1>7, Zenon DEF Next, CallStep

-----------------------------------------------------------------------------
(* Steps beside the call that has the mutex. *)

\* What such a step may do to what the transaction and the report are about.
Beside ==
    /\ UNCHANGED <<lifecycle, policy>> /\ (lifecycle # None => call'[lifecycle] = call[lifecycle])
    /\ tx'.gated = tx.gated /\ tx'.newly = tx.newly /\ tx'.undo = tx.undo
    /\ pending' = pending \/ (flight' = "stopped" /\ pending' = {})
    /\ flight' = "none" => UNCHANGED <<flight, loaded, served, orphans>>
    /\ flight = "stopped" => flight' = "stopped"
    /\ shuttingDown => shuttingDown'

\* It keeps the layers about them.
LEMMA BesideKeeps ==
    ASSUME Beside, StopInv', flight' \in {"none", "draining", "stopped"},
           GateInv, TxInv, ReportInv
    PROVE  GateInv' /\ TxInv' /\ ReportInv'
<1>1. \A at : Here(at)' <=> Here(at)
  BY Zenon DEF Beside, Here
<1>2. (InTx' <=> InTx) /\ (PastGate' <=> PastGate)
  BY <1>1, Zenon DEF Beside, InTx, PastGate
<1>3. GateInv'
  BY <1>2, Zenon DEF Beside, GateInv
<1>4. TxInv'
  BY <1>1, <1>2, Zenon DEF Beside, TxInv, Here
<1>5. ReportInv'
  <2>1. CASE flight' = "none"
    <3>1. Due' = Due
      BY <1>1, <2>1, Zenon DEF Beside, Due, Here
    <3> QED
      BY <1>1, <2>1, <3>1, Zenon DEF Beside, ReportInv, Here
  <2>2. CASE flight' # "none"
    BY <2>2, Zenon DEF ReportInv, StopInv
  <2> QED
    BY <2>1, <2>2, Zenon
<1> QED
  BY <1>3, <1>4, <1>5, Zenon

\* The steps that are beside it.
LEMMA StepsBeside ==
    ASSUME Shape, StopInv,
           \/ \E c \in Caller :
                 \/ \E op \in Op, m \in Model \cup {None} : Enter(c, op, m)
                 \/ Fence(c) \/ Drain(c) \/ ClearLoaded(c) \/ ClearPending(c)
                 \/ (Acquire(c) /\ shuttingDown) \/ (Drop(c) /\ lifecycle # c)
           \/ \E e \in Embed : EmbedPending(e) \/ EmbedLease(e) \/ EmbedEnds(e)
           \/ \E e \in Embed, m \in Model : EmbedEnter(e, m)
           \/ \E m \in Model : DetachedEnds(m)
           \/ FlightEnds
    PROVE  Beside
<1>1. tx \in TxType
  BY Zenon DEF Shape
<1>2. ASSUME NEW c \in Caller,
             \/ \E op \in Op, m \in Model \cup {None} : Enter(c, op, m)
             \/ Fence(c) \/ Drain(c) \/ ClearLoaded(c) \/ ClearPending(c)
             \/ (Acquire(c) /\ shuttingDown) \/ (Drop(c) /\ lifecycle # c)
      PROVE  Beside
  <2>1. /\ CallOK(c) /\ (Locked(c) <=> lifecycle = c) /\ call \in [Caller -> CallType]
        /\ lifecycle \in Caller \cup {None}
    BY ShapeFacts, Zenon
  <2>2. lifecycle # c
    BY <1>2, <2>1, Zenon
    DEF Enter, Fence, Drain, ClearLoaded, ClearPending, Acquire, At, Locked, Unlocked
  <2>3. UNCHANGED lifecycle /\ \E k : call' = [call EXCEPT ![c] = k]
    <3>1. CASE Drop(c)
      BY <2>1, <2>2, <3>1, Zenon DEF Drop, At, Return, Locked, Unlocked
    <3>2. CASE ~Drop(c)
      BY <1>2, <2>2, <3>2, Zenon
      DEF Enter, Fence, Drain, ClearLoaded, ClearPending, Acquire, Return, Goto
    <3> QED
      BY <3>1, <3>2, Zenon
  <2>4. lifecycle # None => call'[lifecycle] = call[lifecycle]
    BY <2>1, <2>2, <2>3, Zenon
  <2>5. UNCHANGED <<policy, tx, orphans>>
    <3>1. CASE Drop(c)
      BY <2>1, <2>2, <3>1, Zenon DEF Drop, At, Locked, Unlocked
    <3>2. CASE ~Drop(c)
      BY <1>2, <3>2, Zenon DEF Enter, Fence, Drain, ClearLoaded, ClearPending, Acquire
    <3> QED
      BY <3>1, <3>2, Zenon
  <2>6. /\ shuttingDown => shuttingDown'
        /\ flight' = "none" => UNCHANGED <<flight, loaded, served>>
        /\ flight = "stopped" => flight' = "stopped"
    <3>1. CASE Fence(c) \/ Drain(c) \/ ClearLoaded(c)
      BY <3>1 DEF Fence, Drain, ClearLoaded, appVars, runtimeVars
    <3>2. CASE ~(Fence(c) \/ Drain(c) \/ ClearLoaded(c))
      <4>1. UNCHANGED <<shuttingDown, flight, loaded, served>>
        BY <1>2, <3>2, Zenon DEF Enter, ClearPending, Acquire, Drop, appVars, runtimeVars
      <4> QED
        BY <4>1, Zenon
    <3> QED
      BY <3>1, <3>2, Zenon
  <2>7. pending' = pending \/ (flight' = "stopped" /\ pending' = {})
    BY <1>2, <2>1, Zenon
    DEF Enter, Fence, Drain, ClearLoaded, ClearPending, Acquire, Drop, CallOK, At,
       appVars, runtimeVars
  <2> QED
    BY <2>3, <2>4, <2>5, <2>6, <2>7, Zenon DEF Beside
<1>3. ASSUME NEW e \in Embed,
             \/ EmbedPending(e) \/ EmbedLease(e) \/ EmbedEnds(e)
             \/ \E m \in Model : EmbedEnter(e, m)
      PROVE  Beside
  <2>1. UNCHANGED <<policy, lifecycle, appVars, call, runtimeVars, orphans>>
    BY <1>3, Zenon DEF EmbedPending, EmbedLease, EmbedEnds, EmbedEnter
  <2>2. tx' = tx \/ tx' = [tx EXCEPT !.early = @ \ {e}]
    BY <1>3, Zenon DEF EmbedPending, EmbedLease, EmbedEnds, EmbedEnter
  <2>3. tx'.gated = tx.gated /\ tx'.newly = tx.newly /\ tx'.undo = tx.undo
    BY <1>1, <2>2, Zenon DEF TxType
  <2> QED
    BY <2>1, <2>3, Zenon DEF Beside, appVars, runtimeVars
<1>4. ASSUME (\E m \in Model : DetachedEnds(m)) \/ FlightEnds
      PROVE  Beside
  BY <1>4 DEF DetachedEnds, FlightEnds, Beside, appVars, runtimeVars
<1> QED
  BY <1>2, <1>3, <1>4, Zenon

-----------------------------------------------------------------------------
(* Steps of the call that has the mutex. *)

\* Where a call is that has the mutex.
LEMMA HolderFacts ==
    ASSUME NEW c \in Caller, lifecycle = c
    PROVE  /\ \A at : Here(at) <=> call[c].at = at
           /\ InTx <=> policy = "Strict" /\ call[c].op = "preload" /\ call[c].at # "begin"
           /\ PastGate <=> InTx /\ call[c].at # "gate"
BY ApplicationAssumption, Zenon DEF Here, InTx, PastGate

\* The same after a step.
LEMMA HolderFactsNext ==
    ASSUME NEW c \in Caller, lifecycle' = c
    PROVE  /\ \A at : Here(at)' <=> call'[c].at = at
           /\ InTx' <=> policy' = "Strict" /\ call'[c].op = "preload" /\ call'[c].at # "begin"
           /\ PastGate' <=> InTx' /\ call'[c].at # "gate"
BY ApplicationAssumption, Zenon DEF Here, InTx, PastGate

\* What is due, told by where the call is that has the mutex ...
LEMMA DueFacts ==
    ASSUME NEW c \in Caller, lifecycle = c
    PROVE  /\ call[c].at = "insert" => Due = loaded \cup {call[c].m}
           /\ call[c].at = "forget" => Due = loaded \ {call[c].m}
           /\ call[c].at \in {"rollback", "withdraw"} =>
                  Due = loaded \ (Range(tx.newly) \ Range(tx.undo))
           /\ call[c].at \notin {"insert", "forget", "rollback", "withdraw"} => Due = loaded
<1>1. \A at : Here(at) <=> call[c].at = at
  BY HolderFacts, Zenon
<1> QED
  BY <1>1, Zenon DEF Due

\* ... also after a step.
LEMMA DueFactsNext ==
    ASSUME NEW c \in Caller, lifecycle' = c
    PROVE  /\ call'[c].at = "insert" => Due' = loaded' \cup {call'[c].m}
           /\ call'[c].at = "forget" => Due' = loaded' \ {call'[c].m}
           /\ call'[c].at \in {"rollback", "withdraw"} =>
                  Due' = loaded' \ (Range(tx'.newly) \ Range(tx'.undo))
           /\ call'[c].at \notin {"insert", "forget", "rollback", "withdraw"} => Due' = loaded'
<1>1. \A at : Here(at)' <=> call'[c].at = at
  BY HolderFactsNext, Zenon
<1> QED
  BY <1>1, Zenon DEF Due

\* Nobody is inside when the mutex is free.
LEMMA FreeFacts ==
    /\ lifecycle = None => ~InTx /\ ~PastGate /\ \A at : ~Here(at)
    /\ lifecycle' = None => ~InTx' /\ ~PastGate' /\ \A at : ~Here(at)'
BY Zenon DEF Here, InTx, PastGate

\* The places at which a model is in hand, or the transaction is being undone.
Handling == {"insert", "forget", "rollback", "withdraw", "ungate"}

\* A step between other places that changes no model, or the one that turns to the
\* rollback.
Plain ==
    /\ UNCHANGED <<loaded, pending, shuttingDown, served, flight, orphans>>
    /\ tx'.gated = tx.gated /\ tx'.newly = tx.newly
    /\ tx'.undo \in {tx.undo, tx.newly, <<>>}
    /\ (InTx' <=> InTx) /\ (PastGate' <=> PastGate)
    /\ \A at \in Handling : ~Here(at)
    /\ \A at \in Handling : Here(at)' => at = "rollback" /\ tx'.undo = tx.newly

\* Such a step keeps the layers.
LEMMA PlainKeeps ==
    ASSUME Plain, GateInv, TxInv, ReportInv
    PROVE  GateInv' /\ TxInv' /\ ReportInv'
<1>1. /\ ~Here("insert") /\ ~Here("forget") /\ ~Here("rollback") /\ ~Here("withdraw")
      /\ ~Here("ungate")
      /\ ~Here("insert")' /\ ~Here("forget")' /\ ~Here("withdraw")' /\ ~Here("ungate")'
      /\ Here("rollback")' => tx'.undo = tx.newly
  BY Zenon DEF Plain, Handling
<1>2. GateInv'
  BY Zenon DEF Plain, GateInv
<1>3. TxInv'
  BY <1>1, EmptyFacts, Zenon DEF Plain, TxInv
<1>4. Due = loaded /\ Due' = loaded
  BY <1>1, Zenon DEF Due, Plain
<1>5. ReportInv'
  BY <1>1, <1>4, Zenon DEF Plain, ReportInv
<1> QED
  BY <1>2, <1>3, <1>5, Zenon

\* The steps of that kind.
LEMMA StepsPlain ==
    ASSUME Shape, GateInv, TxInv, NEW c \in Caller,
           \/ (Acquire(c) /\ ~shuttingDown) \/ LoadCheck(c) \/ LoadFails(c)
           \/ (Unload(c) /\ ~Unloadable(call[c].m)) \/ Delete(c) \/ Install(c)
           \/ (NextModel(c) /\ ~(tx.pos > Len(PreloadModels)))
           \/ (Drop(c) /\ lifecycle = c)
    PROVE  Plain
<1>1. /\ CallOK(c) /\ (Locked(c) <=> lifecycle = c) /\ call \in [Caller -> CallType]
      /\ lifecycle \in Caller \cup {None} /\ call[c] \in CallType /\ tx \in TxType
      /\ policy \in {"Strict", "BestEffort"}
  BY ShapeFacts, Zenon DEF Fields
<1>2. UNCHANGED <<loaded, pending, shuttingDown, served, flight, orphans, policy>>
  BY Zenon
  DEF Acquire, LoadCheck, LoadFails, Unload, Delete, Install, NextModel, Drop, appVars, runtimeVars
<1>3. CASE Acquire(c) /\ ~shuttingDown
  <2>1. /\ lifecycle = None /\ lifecycle' = c /\ tx' = tx /\ call'[c].op = call[c].op
        /\ call'[c].at = IF call[c].op = "preload" /\ policy = "Strict" THEN "begin"
                         ELSE IF call[c].op = "preload" THEN "next" ELSE call[c].op
        /\ call[c].op \in Op
    BY <1>1, <1>3 DEF Acquire, Goto, CallOK, At, CallType
  <2>2. ~InTx' /\ ~PastGate' /\ \A at \in Handling : ~Here(at)'
    BY <1>2, <2>1, HolderFactsNext, Zenon DEF Handling, Op
  <2> QED
    BY <1>2, <2>1, <2>2, FreeFacts, Zenon DEF Plain
<1>4. CASE Delete(c) \/ Install(c) \/ (Unload(c) /\ ~Unloadable(call[c].m))
  <2>1. lifecycle = c /\ call[c].op # "preload" /\ call[c].at \in {"delete", "install", "unload"}
    BY <1>1, <1>4, Zenon DEF Delete, Install, Unload, At, CallOK, Locked, Unlocked
  <2>2. lifecycle' = None /\ tx' = tx
    BY <1>4, <2>1, Zenon DEF Delete, Install, Unload, Return
  <2>3. ~InTx /\ ~PastGate /\ \A at \in Handling : ~Here(at)
    BY <2>1, HolderFacts, Zenon DEF Handling
  <2> QED
    BY <1>2, <2>2, <2>3, FreeFacts, Zenon DEF Plain
<1>5. CASE AfterLoad(c, FALSE) /\ (LoadCheck(c) \/ LoadFails(c))
  <2>1. call[c].at \in {"load", "native"}
    BY <1>5, Zenon DEF LoadCheck, LoadFails, At
  <2>2. /\ lifecycle = c
        /\ \/ call'[c] = Idle /\ lifecycle' = None /\ tx' = tx /\ call[c].op = "load"
           \/ /\ call[c].op = "preload" /\ call'[c].op = "preload"
              /\ policy = "BestEffort"
              /\ call'[c].at = "next" /\ UNCHANGED lifecycle
              /\ tx' = [tx EXCEPT !.pos = @ + 1, !.newly = @]
           \/ /\ call[c].op = "preload" /\ call'[c].op = "preload"
              /\ policy = "Strict"
              /\ call'[c].at = "rollback" /\ UNCHANGED lifecycle
              /\ tx' = [tx EXCEPT !.undo = tx.newly]
    BY <1>2, <1>5, <2>1, AfterLoadMoves, Zenon
  <2>3. \A at \in Handling : ~Here(at)
    BY <2>1, <2>2, HolderFacts, Zenon DEF Handling
  <2>4. /\ tx'.gated = tx.gated /\ tx'.newly = tx.newly
        /\ tx'.undo = tx.undo \/ (tx'.undo = tx.newly /\ call'[c].at = "rollback")
    BY <1>1, <2>2, Zenon DEF TxType
  <2>5. CASE lifecycle' = None
    <3>1. ~InTx /\ ~PastGate
      BY <2>1, <2>2, <2>5, HolderFacts, ApplicationAssumption, Zenon
    <3> QED
      BY <1>2, <2>3, <2>4, <2>5, <3>1, FreeFacts, Zenon DEF Plain
  <2>6. CASE lifecycle' = c
    <3>1. (InTx' <=> InTx) /\ (PastGate' <=> PastGate)
      BY <1>2, <2>1, <2>2, <2>6, HolderFacts, HolderFactsNext, ApplicationAssumption, Zenon
    <3>2. \A at \in Handling : Here(at)' => at = "rollback" /\ tx'.undo = tx.newly
      BY <1>1, <2>2, <2>4, <2>6, HolderFactsNext, ApplicationAssumption DEF Handling, TxType
    <3> QED
      BY <1>2, <2>3, <2>4, <3>1, <3>2, Zenon DEF Plain
  <2> QED
    BY <2>2, <2>5, <2>6, Zenon
<1>6. CASE LoadCheck(c) /\ Goto(c, "native") /\ UNCHANGED <<lifecycle, tx>>
  <2>1. /\ lifecycle = c /\ call[c].at = "load" /\ call'[c].at = "native"
        /\ call'[c].op = call[c].op /\ UNCHANGED <<lifecycle, tx>>
    BY <1>1, <1>6, Zenon DEF LoadCheck, At, Goto, Locked, Unlocked, CallType
  <2>2. (InTx' <=> InTx) /\ (PastGate' <=> PastGate) /\ \A at \in Handling : ~Here(at) /\ ~Here(at)'
    BY <1>2, <2>1, HolderFacts, HolderFactsNext, ZenonT(30) DEF Handling
  <2> QED
    BY <1>2, <2>1, <2>2, Zenon DEF Plain
<1>7. CASE NextModel(c) /\ ~(tx.pos > Len(PreloadModels))
  <2>1. /\ lifecycle = c /\ call[c].at = "next" /\ lifecycle' = c
        /\ call'[c].at \in {"load", "next"} /\ call'[c].op = call[c].op
    BY <1>1, <1>7 DEF NextModel, At, Locked, Unlocked, CallType
  <2>2. tx'.gated = tx.gated /\ tx'.newly = tx.newly /\ tx'.undo = tx.undo
    BY <1>1, <1>7, Zenon DEF NextModel, TxType
  <2>3. (InTx' <=> InTx) /\ (PastGate' <=> PastGate) /\ \A at \in Handling : ~Here(at) /\ ~Here(at)'
    BY <1>2, <2>1, HolderFacts, HolderFactsNext, Zenon DEF Handling
  <2> QED
    BY <1>2, <2>2, <2>3, Zenon DEF Plain
<1>8. CASE Drop(c) /\ lifecycle = c
  <2>1. /\ call[c].at \in {"native", "install"}
        /\ call[c].at = "install" => call[c].op # "preload"
    BY <1>1, <1>8, Zenon DEF Drop, At, Locked, Unlocked, CallOK
  <2>2. \A at \in Handling : ~Here(at)
    BY <1>8, <2>1, HolderFacts, Zenon DEF Handling
  <2>3. CASE call[c].op = "preload" /\ call[c].at = "native" /\ policy = "Strict"
    <3>1. /\ call'[c].at = "rollback" /\ call'[c].op = "preload" /\ lifecycle' = c
          /\ tx' = [tx EXCEPT !.undo = tx.newly]
      BY <1>1, <1>8, <2>3 DEF Drop, At, Goto, CallType
    <3>2. tx'.gated = tx.gated /\ tx'.newly = tx.newly /\ tx'.undo = tx.newly
      BY <1>1, <3>1, Zenon DEF TxType
    <3>3. /\ (InTx' <=> InTx) /\ (PastGate' <=> PastGate)
          /\ \A at \in Handling : Here(at)' => at = "rollback"
      BY <1>2, <1>8, <2>3, <3>1, HolderFacts, HolderFactsNext, Zenon
    <3> QED
      BY <1>2, <2>2, <3>2, <3>3, Zenon DEF Plain
  <2>4. CASE ~(call[c].op = "preload" /\ call[c].at = "native" /\ policy = "Strict")
    <3>1. lifecycle' = None /\ tx' = NoTx
      BY <1>8, <2>4, Zenon DEF Drop, At, Return
    <3>2. ~InTx /\ ~PastGate
      BY <1>1, <1>8, <2>1, <2>4, HolderFacts, Zenon
    <3>3. tx'.gated = tx.gated /\ tx'.newly = tx.newly /\ tx'.undo = <<>>
      BY <3>1, <3>2, Zenon DEF NoTx, GateInv, TxInv
    <3> QED
      BY <1>2, <2>2, <3>1, <3>2, <3>3, FreeFacts, Zenon DEF Plain
  <2> QED
    BY <2>3, <2>4, Zenon
<1> QED
  BY <1>3, <1>4, <1>5, <1>6, <1>7, <1>8, Zenon DEF LoadCheck, LoadFails

\* The publication by the runtime keeps the layers.
LEMMA LoadPublishedKeeps ==
    ASSUME Shape, GateInv, TxInv, ReportInv, NEW c \in Caller, LoadPublished(c)
    PROVE  GateInv' /\ TxInv' /\ ReportInv'
<1> DEFINE m == call[c].m
<1>1. /\ CallOK(c) /\ (Locked(c) <=> lifecycle = c) /\ call \in [Caller -> CallType]
      /\ call[c] \in CallType
  BY ShapeFacts, Zenon
<1>2. /\ lifecycle = c /\ lifecycle' = c /\ call[c].at = "native" /\ call'[c].at = "insert"
      /\ call'[c].op = call[c].op /\ call'[c].m = m
  BY <1>1, Zenon DEF LoadPublished, At, Goto, Locked, Unlocked, CallType
<1>3. /\ UNCHANGED <<policy, loaded, pending, shuttingDown, tx, flight, orphans>>
      /\ flight = "none" /\ m \notin served /\ served' = served \cup {m}
  BY Zenon DEF LoadPublished, appVars
<1>4. (InTx' <=> InTx) /\ (PastGate' <=> PastGate)
  BY <1>2, <1>3, HolderFacts, HolderFactsNext, Zenon
<1>5. Due = loaded /\ m \notin loaded /\ m \notin orphans
  BY <1>2, <1>3, HolderFacts, DueFacts, Zenon DEF ReportInv
<1>6. Due' = loaded \cup {m}
  BY <1>2, <1>3, HolderFactsNext, DueFactsNext, Zenon
<1>7. InTx => m \in tx.gated
  BY <1>1, <1>2, <1>3, HolderFacts, Zenon DEF GateInv, CallOK
<1> HIDE DEF m
<1>8. GateInv'
  BY <1>3, <1>4, Zenon DEF GateInv
<1>9. TxInv'
  BY <1>2, <1>3, <1>4, <1>7, HolderFacts, HolderFactsNext DEF TxInv
<1>10. ReportInv'
  BY <1>2, <1>3, <1>5, <1>6, Zenon DEF ReportInv
<1> QED
  BY <1>8, <1>9, <1>10, Zenon

\* The insertion, or the unload when a shutdown has begun, keeps the layers.
LEMMA InsertKeeps ==
    ASSUME Shape, StopInv, GateInv, TxInv, ReportInv, NEW c \in Caller, Insert(c)
    PROVE  GateInv' /\ TxInv' /\ ReportInv'
<1> DEFINE m == call[c].m
<1>1. /\ CallOK(c) /\ (Locked(c) <=> lifecycle = c) /\ call \in [Caller -> CallType]
      /\ call[c] \in CallType /\ tx \in TxType /\ shuttingDown \in BOOLEAN
      /\ policy \in {"Strict", "BestEffort"}
  BY ShapeFacts, Zenon DEF Fields
<1>2. /\ lifecycle = c /\ call[c].at = "insert" /\ m \in Model
      /\ UNCHANGED <<policy, pending, shuttingDown, flight, orphans>>
  BY <1>1, Zenon DEF Insert, At, Locked, Unlocked, CallOK
<1>3. /\ Due = loaded \cup {m}
      /\ InTx => m \in tx.gated
      /\ flight = "none" => m \notin loaded
  <2>1. Due = loaded \cup {m}
    BY <1>2, DueFacts, Zenon
  <2>2. Here("insert") /\ call[lifecycle].m = m
    BY <1>2, HolderFacts, Zenon
  <2> QED
    BY <2>1, <2>2, Zenon DEF TxInv, ReportInv
<1>4. CASE shuttingDown
  <2>1. /\ AfterLoad(c, FALSE) /\ UNCHANGED loaded
        /\ served' = served \/ served' = served \ {m}
    BY <1>4, Zenon DEF Insert, TryUnload
  <2>2. \/ lifecycle' = None /\ tx' = tx /\ call[c].op = "load"
        \/ /\ call[c].op = "preload" /\ call'[c].op = "preload"
           /\ policy = "BestEffort"
           /\ call'[c].at = "next" /\ lifecycle' = c
           /\ tx' = [tx EXCEPT !.pos = @ + 1, !.newly = @]
        \/ /\ call[c].op = "preload" /\ call'[c].op = "preload"
           /\ policy = "Strict"
           /\ call'[c].at = "rollback" /\ lifecycle' = c
           /\ tx' = [tx EXCEPT !.undo = tx.newly]
    BY <1>2, <2>1, AfterLoadMoves, Zenon
  <2>3. /\ tx'.gated = tx.gated /\ tx'.newly = tx.newly
        /\ tx'.undo = tx.undo \/ (tx'.undo = tx.newly /\ call'[c].at = "rollback")
    BY <1>1, <2>2, Zenon DEF TxType
  <2>4. (InTx' <=> InTx) /\ (PastGate' <=> PastGate)
    BY <1>2, <2>2, HolderFacts, HolderFactsNext, FreeFacts, Zenon
  <2>5. /\ ~Here("insert")' /\ ~Here("forget")' /\ ~Here("withdraw")'
        /\ Here("rollback")' => tx'.undo = tx.newly
    BY <1>1, <2>2, HolderFactsNext, FreeFacts DEF TxType
  <2>6. GateInv'
    BY <1>2, <1>3, <2>1, <2>3, <2>4, Zenon DEF GateInv
  <2>7. TxInv'
    BY <1>2, <2>1, <2>3, <2>4, <2>5, HolderFacts DEF TxInv
  <2>8. Due' = loaded
    BY <2>1, <2>3, <2>5, Zenon DEF Due
  <2>9. ReportInv'
    BY <1>2, <1>3, <1>4, <2>1, <2>5, <2>8, Zenon DEF ReportInv
  <2> QED
    BY <2>6, <2>7, <2>9, Zenon
<1>5. CASE ~shuttingDown
  <2>1. AfterLoad(c, TRUE) /\ loaded' = loaded \cup {m} /\ UNCHANGED served /\ flight = "none"
    BY <1>5, Zenon DEF Insert, StopInv
  <2>2. \/ lifecycle' = None /\ tx' = tx /\ call[c].op = "load"
        \/ /\ call[c].op = "preload" /\ call'[c].op = "preload"
           /\ call'[c].at = "next" /\ lifecycle' = c
           /\ tx' = [tx EXCEPT !.pos = @ + 1,
                               !.newly = IF policy = "Strict" THEN Append(@, m) ELSE @]
    BY <1>2, <2>1, AfterLoadMoves, Zenon
  <2>3. /\ tx'.gated = tx.gated /\ tx'.undo = tx.undo
        /\ tx'.newly = IF InTx THEN Append(tx.newly, m) ELSE tx.newly
    <3>1. InTx <=> policy = "Strict" /\ call[c].op = "preload"
      BY <1>2, HolderFacts, Zenon
    <3> QED
      BY <1>1, <2>2, <3>1, Zenon DEF TxType
  <2>4. (InTx' <=> InTx) /\ (PastGate' <=> PastGate)
    BY <1>2, <2>2, HolderFacts, HolderFactsNext, FreeFacts, Zenon
  <2>5. \A at \in Handling : ~Here(at)'
    BY <2>2, HolderFactsNext, FreeFacts, Zenon DEF Handling
  <2>6. GateInv'
    BY <1>2, <2>1, <2>3, <2>4, Zenon DEF GateInv
  <2>7. /\ tx.newly \in Seq(Model) /\ IsInjective(tx.newly) /\ IsInjective(tx.undo)
        /\ Range(tx.newly) \subseteq loaded /\ Range(tx.newly) \subseteq tx.gated
    BY <1>1, <1>2, <2>1, HolderFacts, Zenon DEF TxInv, TxType
  <2>8. /\ IsInjective(tx'.newly) /\ Range(tx'.newly) \subseteq loaded'
        /\ Range(tx'.newly) \subseteq tx'.gated
    BY <1>2, <1>3, <2>1, <2>3, <2>7, AppendFacts
  <2>9. TxInv'
    BY <1>2, <2>3, <2>4, <2>5, <2>7, <2>8, HolderFacts, Zenon DEF TxInv, Handling
  <2>10. Due' = loaded'
    BY <2>5, Zenon DEF Due, Handling
  <2>11. ReportInv'
    BY <1>2, <1>3, <2>1, <2>5, <2>10, Zenon DEF ReportInv, Handling
  <2> QED
    BY <2>6, <2>9, <2>11, Zenon
<1> QED
  BY <1>1, <1>4, <1>5, Zenon

\* Unload and the step behind it keep the layers.
LEMMA UnloadKeeps ==
    ASSUME Shape, GateInv, TxInv, ReportInv, NEW c \in Caller,
           (Unload(c) /\ Unloadable(call[c].m)) \/ Forget(c)
    PROVE  GateInv' /\ TxInv' /\ ReportInv'
<1> DEFINE m == call[c].m
<1>1. /\ CallOK(c) /\ (Locked(c) <=> lifecycle = c) /\ call \in [Caller -> CallType]
      /\ call[c] \in CallType
  BY ShapeFacts, Zenon
<1>2. /\ lifecycle = c /\ call[c].op # "preload"
      /\ UNCHANGED <<policy, pending, shuttingDown, flight, tx>>
  BY <1>1, Zenon DEF Unload, Forget, At, Locked, Unlocked, CallOK, appVars, runtimeVars
<1>3. ~InTx /\ ~PastGate
  BY <1>2, HolderFacts, Zenon
<1>4. CASE Unload(c) /\ Unloadable(m)
  <2>1. /\ lifecycle' = c /\ call[c].at = "unload" /\ call'[c].at = "forget"
        /\ call'[c].op = call[c].op /\ call'[c].m = m
        /\ served' = served \ {m} /\ orphans' = orphans \ {m} /\ UNCHANGED loaded
    BY <1>1, <1>2, <1>4 DEF Unload, At, Goto, CallType, appVars
  <2>2. ~InTx' /\ ~PastGate' /\ Due' = loaded \ {m} /\ Due = loaded
    BY <1>2, <2>1, HolderFacts, HolderFactsNext, DueFacts, DueFactsNext, Zenon
  <2>3. GateInv' /\ TxInv'
    BY <1>2, <1>3, <2>1, <2>2, HolderFacts, HolderFactsNext, Zenon DEF GateInv, TxInv
  <2>4. ReportInv'
    BY <1>2, <2>1, <2>2, HolderFactsNext, Zenon DEF ReportInv
  <2> QED
    BY <2>3, <2>4, Zenon
<1>5. CASE Forget(c)
  <2>1. /\ lifecycle' = None /\ call[c].at = "forget" /\ loaded' = loaded \ {m}
        /\ UNCHANGED <<served, orphans>>
    BY <1>2, <1>5, Zenon DEF Forget, At, Return, runtimeVars
  <2>2. Due = loaded \ {m}
    BY <1>2, <2>1, HolderFacts, DueFacts, Zenon
  <2>3. Due' = loaded' /\ ~InTx' /\ ~PastGate' /\ \A at : ~Here(at)'
    BY <2>1, FreeFacts, Zenon DEF Due
  <2>4. tx.newly = <<>> /\ Range(tx.newly) = {}
    BY <1>3, EmptyFacts, Zenon DEF TxInv
  <2>5. GateInv' /\ TxInv'
    BY <1>2, <1>3, <2>1, <2>3, <2>4, Zenon DEF GateInv, TxInv
  <2>6. ReportInv'
    BY <1>2, <2>1, <2>2, <2>3, Zenon DEF ReportInv
  <2> QED
    BY <2>5, <2>6, Zenon
<1> QED
  BY <1>4, <1>5, Zenon

\* The beginning of a transaction keeps the layers.
LEMMA BeginKeeps ==
    ASSUME Shape, GateInv, TxInv, ReportInv, NEW c \in Caller, Begin(c) \/ Gate(c)
    PROVE  GateInv' /\ TxInv' /\ ReportInv'
<1>1. /\ CallOK(c) /\ (Locked(c) <=> lifecycle = c) /\ call \in [Caller -> CallType]
      /\ call[c] \in CallType /\ tx \in TxType
  BY ShapeFacts, Zenon DEF Fields
<1>2. /\ lifecycle = c /\ lifecycle' = c /\ call[c].op = "preload" /\ policy = "Strict"
      /\ call[c].at \in {"begin", "gate"} /\ call'[c].op = "preload"
      /\ UNCHANGED <<policy, loaded, shuttingDown, served, flight, orphans>>
  BY <1>1 DEF Begin, Gate, At, Goto, Locked, Unlocked, CallOK, CallType, appVars, runtimeVars
<1>3. ~PastGate /\ tx.newly = <<>> /\ Due = loaded
  <2>1. Due = loaded
    BY <1>2, DueFacts, Zenon
  <2>2. ~PastGate
    BY <1>2, HolderFacts, Zenon
  <2> QED
    BY <2>1, <2>2, Zenon DEF TxInv
<1>4. CASE Begin(c)
  <2>1. /\ call[c].at = "begin" /\ call'[c].at = "gate" /\ UNCHANGED pending
        /\ tx'.gated = Range(PreloadModels) \ loaded /\ tx'.newly = <<>> /\ tx'.undo = <<>>
    BY <1>1, <1>4, Zenon DEF Begin, At, Goto, CallType, NoTx, appVars
  <2>2. ~InTx /\ InTx' /\ ~PastGate' /\ \A at \in Handling : ~Here(at)'
    BY <1>2, <2>1, HolderFacts, HolderFactsNext, Zenon DEF Handling
  <2>3. GateInv'
    BY <1>2, <1>3, <2>1, <2>2, Zenon DEF GateInv, ReportInv
  <2>4. TxInv'
    BY <2>1, <2>2, EmptyFacts, Zenon DEF TxInv, Handling
  <2>5. Due' = loaded
    BY <1>2, <2>2, Zenon DEF Due, Handling
  <2>6. ReportInv'
    BY <1>2, <1>3, <2>2, <2>5, Zenon DEF ReportInv, Handling
  <2> QED
    BY <2>3, <2>4, <2>6, Zenon
<1>5. CASE Gate(c)
  <2>1. /\ call[c].at = "gate" /\ call'[c].at = "next" /\ pending' = pending \cup tx.gated
        /\ tx'.gated = tx.gated /\ tx'.newly = tx.newly /\ tx'.undo = tx.undo
    BY <1>1, <1>5, Zenon DEF Gate, At, Goto, CallType, TxType
  <2>2. InTx /\ InTx' /\ \A at \in Handling : ~Here(at)' /\ ~Here(at)
    BY <1>2, <2>1, HolderFacts, HolderFactsNext, ZenonT(30) DEF Handling
  <2>3. GateInv'
    BY <1>2, <2>1, <2>2, Zenon DEF GateInv
  <2>4. TxInv'
    BY <1>2, <1>3, <2>1, <2>2, EmptyFacts, Zenon DEF TxInv, Handling
  <2>5. Due' = loaded
    BY <1>2, <2>2, Zenon DEF Due, Handling
  <2>6. ReportInv'
    BY <1>2, <1>3, <2>2, <2>5, Zenon DEF ReportInv, Handling
  <2> QED
    BY <2>3, <2>4, <2>6, Zenon
<1> QED
  BY <1>4, <1>5, Zenon

\* The end of a transaction, committed or rolled back, keeps the layers.
LEMMA EndKeeps ==
    ASSUME Shape, GateInv, TxInv, ReportInv, NEW c \in Caller,
           (NextModel(c) /\ tx.pos > Len(PreloadModels)) \/ Ungate(c)
    PROVE  GateInv' /\ TxInv' /\ ReportInv'
<1>1. CallOK(c) /\ (Locked(c) <=> lifecycle = c)
  BY ShapeFacts, Zenon
<1>2. /\ lifecycle = c /\ call[c].at \in {"next", "ungate"}
      /\ pending' = pending \ tx.gated /\ tx' = NoTx
      /\ UNCHANGED <<policy, loaded, shuttingDown, served, flight, orphans>>
  BY <1>1, Zenon DEF NextModel, Ungate, At, Locked, Unlocked, runtimeVars
<1>3. lifecycle' = None
  BY <1>2, Zenon DEF NextModel, Ungate, Return
<1>4. ~InTx' /\ ~PastGate' /\ \A at : ~Here(at)'
  BY <1>3, FreeFacts, Zenon
<1>5. Due = loaded /\ Due' = loaded
  <2>1. Due = loaded
    BY <1>2, DueFacts, Zenon
  <2>2. Due' = loaded'
    BY <1>4, Zenon DEF Due
  <2> QED
    BY <1>2, <2>1, <2>2, Zenon
<1>6. tx'.gated = {} /\ tx'.newly = <<>> /\ tx'.undo = <<>>
  BY <1>2, Zenon DEF NoTx
<1>7. GateInv' /\ TxInv'
  BY <1>2, <1>4, <1>6, EmptyFacts, Zenon DEF GateInv, TxInv
<1>8. ReportInv'
  BY <1>2, <1>4, <1>5, Zenon DEF ReportInv
<1> QED
  BY <1>7, <1>8, Zenon

\* The destructor of a transaction that did not commit keeps the layers.
LEMMA RollbackKeeps ==
    ASSUME Shape, StopInv, GateInv, TxInv, ReportInv, NEW c \in Caller, Rollback(c) \/ Withdraw(c)
    PROVE  GateInv' /\ TxInv' /\ ReportInv'
<1>1. /\ CallOK(c) /\ (Locked(c) <=> lifecycle = c) /\ call \in [Caller -> CallType]
      /\ call[c] \in CallType /\ tx \in TxType
  BY ShapeFacts, Zenon DEF Fields
<1>2. /\ lifecycle = c /\ lifecycle' = c /\ call[c].op = "preload" /\ policy = "Strict"
      /\ call[c].at \in {"rollback", "withdraw"} /\ call'[c].op = "preload"
      /\ UNCHANGED <<policy, pending, shuttingDown, flight>>
  BY <1>1 DEF Rollback, Withdraw, At, Goto, Locked, Unlocked, CallOK, CallType, appVars, runtimeVars
<1>3. InTx /\ PastGate
  BY <1>2, HolderFacts, Zenon
<1>4. /\ tx.newly \in Seq(Model) /\ tx.undo \in Seq(Model)
      /\ IsInjective(tx.newly) /\ IsInjective(tx.undo)
      /\ Range(tx.newly) \subseteq tx.gated
      /\ flight = "none" => Range(tx.newly) \subseteq loaded
      /\ Due = loaded \ (Range(tx.newly) \ Range(tx.undo))
  BY <1>1, <1>2, HolderFacts, DueFacts DEF TxInv, TxType
<1>5. CASE Rollback(c) /\ tx.undo = <<>>
  <2>1. /\ call[c].at = "rollback" /\ call'[c].at = "withdraw"
        /\ UNCHANGED <<tx, served, orphans, loaded>>
    BY <1>1, <1>5, ZenonT(30) DEF Rollback, At, Goto, CallType, appVars
  <2>2. InTx' /\ PastGate' /\ Due' = Due
    <3>1. InTx' /\ PastGate' /\ Due' = loaded \ (Range(tx.newly) \ Range(tx.undo))
      BY <1>2, <2>1, HolderFactsNext, DueFactsNext, Zenon
    <3> QED
      BY <1>4, <3>1, Zenon
  <2>3. GateInv' /\ TxInv'
    <3>1. GateInv'
      BY <1>2, <1>3, <1>4, <2>1, <2>2, Zenon DEF GateInv
    <3>2. Here("withdraw")' /\ ~Here("rollback")' /\ ~Here("insert")'
      BY <1>2, <2>1, HolderFactsNext
    <3> QED
      BY <1>2, <1>4, <1>5, <2>1, <2>2, <3>1, <3>2, Zenon DEF TxInv
  <2>4. ReportInv'
    BY <1>2, <2>1, <2>2, HolderFactsNext DEF ReportInv
  <2> QED
    BY <2>3, <2>4, Zenon
<1>6. CASE Rollback(c) /\ tx.undo # <<>>
  <2> DEFINE m == Last(tx.undo)
  <2>1. /\ call[c].at = "rollback" /\ call'[c].at = "rollback" /\ UNCHANGED loaded
        /\ tx' = [tx EXCEPT !.undo = Front(@)]
        /\ served' = (IF Unloadable(m) THEN served \ {m} ELSE served)
        /\ orphans' = (IF Unloadable(m) THEN orphans ELSE orphans \cup {m})
    BY <1>1, <1>6, Zenon DEF Rollback, At, TryUnload, appVars, Last, Front
  <2>2. /\ tx'.gated = tx.gated /\ tx'.newly = tx.newly /\ tx'.undo = Front(tx.undo)
    BY <1>1, <2>1, Zenon DEF TxType
  <2>3. /\ IsInjective(tx'.undo) /\ Range(tx'.undo) = Range(tx.undo) \ {m} /\ m \in Range(tx.undo)
        /\ Range(tx.undo) \subseteq Range(tx.newly)
    <3>1. Here("rollback")
      <4>1. call[c].at = "rollback"
        BY <2>1, Zenon
      <4>2. lifecycle = c
        BY <1>2, Zenon
      <4> QED
        BY <4>1, <4>2, HolderFacts, Zenon
    <3>2. Range(tx.undo) \subseteq Range(tx.newly)
      BY <3>1, Zenon DEF TxInv
    <3>3. /\ IsInjective(Front(tx.undo)) /\ Range(Front(tx.undo)) = Range(tx.undo) \ {m}
          /\ m \in Range(tx.undo)
      BY <1>4, <1>6, FrontFacts, Zenon
    <3> QED
      BY <2>2, <3>2, <3>3, Zenon
  <2>4. InTx' /\ PastGate' /\ Due' = loaded \ (Range(tx'.newly) \ Range(tx'.undo))
    BY <1>2, <2>1, HolderFactsNext, DueFactsNext, Zenon
  <2> HIDE DEF m
  <2>5. Due' = Due \ {m}
    BY <1>4, <2>2, <2>3, <2>4, Zenon
  <2>6. flight = "none" => m \in served \ orphans
    BY <1>4, <2>3, Zenon DEF ReportInv
  <2>7. served' \ orphans' = (served \ orphans) \ {m}
    BY <2>1, Zenon
  <2>8. GateInv'
    BY <1>2, <1>3, <1>4, <2>1, <2>2, <2>3, <2>4, Zenon DEF GateInv
  <2>9. TxInv'
    BY <1>2, <1>4, <2>1, <2>2, <2>3, <2>4, HolderFactsNext DEF TxInv
  <2>10. ReportInv'
    BY <1>2, <2>1, <2>5, <2>6, <2>7, HolderFactsNext DEF ReportInv
  <2> QED
    BY <2>8, <2>9, <2>10, Zenon
<1>7. CASE Withdraw(c)
  <2>1. /\ call[c].at = "withdraw" /\ call'[c].at = "ungate"
        /\ loaded' = loaded \ Range(tx.newly) /\ UNCHANGED <<tx, served, orphans>>
    BY <1>1, <1>7, Zenon DEF Withdraw, At, Goto, CallType, runtimeVars
  <2>2. InTx' /\ PastGate' /\ Due' = loaded'
    BY <1>2, <2>1, HolderFactsNext, DueFactsNext, Zenon
  <2>3. Due = loaded'
    BY <1>2, <1>4, <2>1, EmptyFacts, HolderFacts, Zenon DEF TxInv
  <2>4. GateInv' /\ TxInv'
    <3>1. GateInv'
      BY <1>2, <1>3, <1>4, <2>1, <2>2, Zenon DEF GateInv
    <3>2. /\ Here("ungate")' /\ ~Here("rollback")' /\ ~Here("withdraw")' /\ ~Here("insert")'
      <4>1. lifecycle' = c
        BY <1>2, Zenon
      <4>2. \A at : Here(at)' <=> call'[c].at = at
        BY <4>1, HolderFactsNext, Zenon
      <4> QED
        BY <2>1, <4>2, Zenon
    <3> QED
      BY <1>4, <2>1, <2>2, <3>1, <3>2, Zenon DEF TxInv
  <2>5. ReportInv'
    BY <1>2, <2>1, <2>2, <2>3, HolderFactsNext DEF ReportInv
  <2> QED
    BY <2>4, <2>5, Zenon
<1> QED
  BY <1>5, <1>6, <1>7, Zenon

\* Every step keeps the gate, the transaction and the report.
LEMMA NextReport ==
    ASSUME Shape, StopInv, GateInv, TxInv, ReportInv, Next
    PROVE  GateInv' /\ TxInv' /\ ReportInv'
<1>1. flight' \in {"none", "draining", "stopped"} /\ StopInv' /\ shuttingDown \in BOOLEAN
  BY NextShape, NextStop, Zenon DEF Shape
<1>2. CASE Beside
  BY <1>1, <1>2, BesideKeeps, Zenon
<1>3. CASE Plain
  BY <1>3, PlainKeeps, Zenon
<1>4. ASSUME NEW c \in Caller, CallStep(c)
      PROVE  GateInv' /\ TxInv' /\ ReportInv'
  <2>1. CASE \/ Acquire(c) \/ LoadCheck(c) \/ LoadFails(c) \/ Delete(c) \/ Install(c)
    BY <1>1, <1>2, <1>3, <2>1, StepsBeside, StepsPlain, Zenon
  <2>2. CASE LoadPublished(c) \/ Insert(c)
    BY <2>2, LoadPublishedKeeps, InsertKeeps, Zenon
  <2>3. CASE Unload(c) \/ Forget(c)
    BY <1>3, <2>3, UnloadKeeps, StepsPlain, Zenon
  <2>4. CASE Begin(c) \/ Gate(c) \/ Rollback(c) \/ Withdraw(c)
    BY <2>4, BeginKeeps, RollbackKeeps, Zenon
  <2>5. CASE NextModel(c) \/ Ungate(c)
    BY <1>3, <2>5, EndKeeps, StepsPlain, Zenon
  <2>6. CASE Drain(c) \/ ClearLoaded(c) \/ ClearPending(c)
    BY <1>2, <2>6, StepsBeside, Zenon
  <2> QED
    BY <1>4, <2>1, <2>2, <2>3, <2>4, <2>5, <2>6, Zenon DEF CallStep
<1>5. ASSUME NEW c \in Caller, Drop(c)
      PROVE  GateInv' /\ TxInv' /\ ReportInv'
  BY <1>2, <1>3, <1>5, StepsBeside, StepsPlain, Zenon
<1>6. ASSUME \/ \E c \in Caller : Fence(c)
             \/ \E c \in Caller, op \in Op, m \in Model \cup {None} : Enter(c, op, m)
             \/ \E e \in Embed : EmbedPending(e) \/ EmbedLease(e) \/ EmbedEnds(e)
             \/ \E e \in Embed, m \in Model : EmbedEnter(e, m)
             \/ \E m \in Model : DetachedEnds(m)
             \/ FlightEnds
      PROVE  GateInv' /\ TxInv' /\ ReportInv'
  <2>1. Beside
    BY <1>6, StepsBeside, Zenon
  <2> QED
    BY <1>2, <2>1, Zenon
<1> QED
  BY <1>4, <1>5, <1>6, Zenon DEF Next

-----------------------------------------------------------------------------
(* Requests and the gate. *)

\* Only Gate closes the gate.
LEMMA GateCloses ==
    ASSUME Shape, StopInv, GateInv, TxInv, NEW c \in Caller,
           \/ CallStep(c) /\ ~Gate(c)
           \/ Drop(c) \/ Fence(c)
           \/ \E op \in Op, m \in Model \cup {None} : Enter(c, op, m)
    PROVE  /\ PastGate' => PastGate /\ tx'.gated = tx.gated /\ tx'.early = tx.early
           /\ UNCHANGED embed
           /\ flight = "stopped" => flight' = "stopped"
<1>1. /\ CallOK(c) /\ (Locked(c) <=> lifecycle = c) /\ call \in [Caller -> CallType]
      /\ call[c] \in CallType /\ tx \in TxType
  BY ShapeFacts, Zenon DEF Fields
<1>2. UNCHANGED embed /\ (flight = "stopped" => flight' = "stopped")
  <2>1. ASSUME \/ Acquire(c) \/ LoadCheck(c) \/ LoadFails(c) \/ LoadPublished(c) \/ Insert(c)
               \/ Unload(c) \/ Forget(c) \/ Delete(c) \/ Install(c) \/ Begin(c)
        PROVE  UNCHANGED <<embed, flight>>
    BY <2>1, Zenon DEF Acquire, LoadCheck, LoadFails, LoadPublished, Insert, Unload, Forget, Delete,
       Install, Begin, runtimeVars
  <2>2. ASSUME \/ NextModel(c) \/ Rollback(c) \/ Withdraw(c) \/ Ungate(c) \/ ClearLoaded(c)
               \/ ClearPending(c) \/ Drop(c) \/ Fence(c)
               \/ \E op \in Op, m \in Model \cup {None} : Enter(c, op, m)
        PROVE  UNCHANGED <<embed, flight>>
    BY <2>2, Zenon
    DEF NextModel, Rollback, Withdraw, Ungate, ClearLoaded, ClearPending, Drop, Fence,
       Enter, runtimeVars
  <2>3. ASSUME Drain(c)
        PROVE  UNCHANGED embed /\ (flight = "stopped" => flight' = "stopped")
    BY <2>3, Zenon DEF Drain
  <2> QED
    BY <2>1, <2>2, <2>3, Zenon DEF CallStep
<1>3. CASE \/ \E op \in Op, m \in Model \cup {None} : Enter(c, op, m)
           \/ Fence(c) \/ Drain(c) \/ ClearLoaded(c) \/ ClearPending(c)
           \/ (Acquire(c) /\ shuttingDown) \/ (Drop(c) /\ lifecycle # c)
  <2>1. PastGate' <=> PastGate
    <3>1. Beside
      BY <1>3, StepsBeside, Zenon
    <3> QED
      BY <3>1, Zenon DEF Beside, PastGate, InTx, Here
  <2>2. tx' = tx
    BY <1>1, <1>3, Zenon
    DEF Enter, Fence, Drain, ClearLoaded, ClearPending, Acquire, Drop, At, Locked, Unlocked
  <2> QED
    BY <1>2, <2>1, <2>2, Zenon
<1>4. CASE \/ (Acquire(c) /\ ~shuttingDown) \/ LoadCheck(c) \/ LoadFails(c)
           \/ (Unload(c) /\ ~Unloadable(call[c].m)) \/ Delete(c) \/ Install(c)
           \/ (NextModel(c) /\ ~(tx.pos > Len(PreloadModels)))
           \/ (Drop(c) /\ lifecycle = c)
  <2>1. (PastGate' <=> PastGate) /\ tx'.gated = tx.gated
    BY <1>4, StepsPlain, Zenon DEF Plain
  <2>2. tx'.early = tx.early \/ lifecycle' = None
    <3>1. CASE LoadCheck(c) \/ LoadFails(c)
      BY <1>1, <3>1, Zenon DEF LoadCheck, LoadFails, AfterLoad, TxType
    <3>2. CASE NextModel(c) /\ ~(tx.pos > Len(PreloadModels))
      BY <1>1, <3>2, Zenon DEF NextModel, TxType
    <3>3. CASE Drop(c) /\ lifecycle = c
      BY <1>1, <3>3, Zenon DEF Drop, Return, TxType
    <3>4. CASE Acquire(c) \/ Unload(c) \/ Delete(c) \/ Install(c)
      BY <3>4, Zenon DEF Acquire, Unload, Delete, Install
    <3> QED
      BY <1>4, <3>1, <3>2, <3>3, <3>4, Zenon
  <2> QED
    BY <1>2, <2>1, <2>2, FreeFacts, Zenon
<1>5. CASE Begin(c)
  <2>1. lifecycle' = c /\ call'[c].at = "gate"
    BY <1>1, <1>5, Zenon DEF Begin, At, Goto, Locked, Unlocked, CallType
  <2> QED
    BY <1>2, <2>1, HolderFactsNext, Zenon
<1>6. CASE \/ LoadPublished(c) \/ Insert(c) \/ (Unload(c) /\ Unloadable(call[c].m)) \/ Forget(c)
           \/ Rollback(c) \/ Withdraw(c) \/ Ungate(c)
           \/ (NextModel(c) /\ tx.pos > Len(PreloadModels))
  <2>1. lifecycle = c /\ call[c].at \notin {"begin", "gate"} /\ UNCHANGED policy
    BY <1>1, <1>6, Zenon
    DEF LoadPublished, Insert, Unload, Forget, Rollback, Withdraw, Ungate, NextModel,
       At, Locked, Unlocked
  <2>2. lifecycle' = None \/ (lifecycle' = c /\ call'[c].op = call[c].op)
    <3>1. CASE Insert(c)
      BY <1>1, <2>1, <3>1 DEF Insert, AfterLoad, Return, Goto, CallType
    <3>2. CASE ~Insert(c)
      BY <1>1, <1>6, <2>1, <3>2 DEF LoadPublished, Unload, Forget, Rollback, Withdraw, Ungate,
         NextModel, Return, Goto, CallType
    <3> QED
      BY <3>1, <3>2, Zenon
  <2>3. lifecycle' = None \/ (tx'.gated = tx.gated /\ tx'.early = tx.early)
    <3>1. CASE Insert(c)
      BY <1>1, <2>1, <3>1, Zenon DEF Insert, AfterLoad, TxType
    <3>2. CASE Rollback(c)
      BY <1>1, <3>2, Zenon DEF Rollback, TxType
    <3>3. CASE Ungate(c) \/ (NextModel(c) /\ tx.pos > Len(PreloadModels))
      BY <2>1, <3>3, Zenon DEF Ungate, NextModel, Return
    <3>4. CASE LoadPublished(c) \/ Unload(c) \/ Forget(c) \/ Withdraw(c)
      BY <3>4, Zenon DEF LoadPublished, Unload, Forget, Withdraw
    <3> QED
      BY <1>6, <3>1, <3>2, <3>3, <3>4, Zenon
  <2>4. lifecycle' = c => (PastGate' => PastGate)
    BY <2>1, <2>2, HolderFacts, HolderFactsNext, ApplicationAssumption
  <2> QED
    BY <1>2, <2>2, <2>3, <2>4, FreeFacts, Zenon
<1> QED
  BY <1>3, <1>4, <1>5, <1>6, Zenon DEF CallStep, Shape

\* Every step keeps who may be past the gate.
LEMMA NextEarly ==
    ASSUME Shape, StopInv, GateInv, TxInv, EarlyInv, Next
    PROVE  EarlyInv'
<1>1. ASSUME NEW c \in Caller, Gate(c)
      PROVE  EarlyInv'
  <2>1. tx'.early = {e \in Embed : embed[e].at \in {"go", "using"}} /\ UNCHANGED embed
    BY <1>1, Zenon DEF Gate, Shape, TxType
  <2> QED
    BY <2>1, Zenon DEF EarlyInv
<1>2. ASSUME NEW c \in Caller,
             \/ CallStep(c) /\ ~Gate(c)
             \/ Drop(c) \/ Fence(c)
             \/ \E op \in Op, m \in Model \cup {None} : Enter(c, op, m)
      PROVE  EarlyInv'
  <2>1. /\ PastGate' => PastGate /\ tx'.gated = tx.gated /\ tx'.early = tx.early
        /\ UNCHANGED embed
        /\ flight = "stopped" => flight' = "stopped"
    BY <1>2, GateCloses, Zenon
  <2> QED
    BY <2>1, Zenon DEF EarlyInv
<1>3. ASSUME NEW e \in Embed,
             \/ EmbedPending(e) \/ EmbedLease(e) \/ EmbedEnds(e)
             \/ \E m \in Model : EmbedEnter(e, m)
      PROVE  EarlyInv'
  <2>1. /\ embed \in [Embed -> [m : Model \cup {None}, at : {"idle", "pending", "go", "using"}]]
        /\ tx \in TxType
    BY Zenon DEF Shape, TypeOK
  <2>2. /\ UNCHANGED <<lifecycle, policy, call, flight, pending>>
        /\ tx'.gated = tx.gated
        /\ \A f \in Embed \ {e} : embed'[f] = embed[f] /\ (f \in tx.early => f \in tx'.early)
    BY <1>3, <2>1 DEF EmbedPending, EmbedLease, EmbedEnds, EmbedEnter, TxType, appVars, runtimeVars
  <2>3. PastGate' <=> PastGate
    BY <2>2, Zenon DEF PastGate, InTx, Here
  <2>4. /\ embed'[e].at = "using" => /\ embed[e].at = "go" /\ embed'[e].m = embed[e].m
                                     /\ flight = "none" /\ tx' = tx
        /\ embed'[e].at = "go" => /\ embed[e].at = "pending" /\ embed'[e].m = embed[e].m
                                  /\ embed[e].m \notin pending
    BY <1>3, <2>1 DEF EmbedPending, EmbedLease, EmbedEnds, EmbedEnter, Quiet
  <2>5. ASSUME PastGate, NEW f \in Embed, embed'[f].m \in tx.gated
        PROVE  /\ embed'[f].at = "using" => f \in tx'.early
               /\ embed'[f].at = "go" => f \in tx'.early \/ flight = "stopped"
    <3>1. CASE f # e
      BY <2>2, <2>5, <3>1, Zenon DEF EarlyInv
    <3>2. CASE f = e
      BY <2>4, <2>5, <3>2, Zenon DEF EarlyInv, GateInv
    <3> QED
      BY <3>1, <3>2, Zenon
  <2> QED
    BY <2>2, <2>3, <2>5, Zenon DEF EarlyInv
<1>4. ASSUME (\E m \in Model : DetachedEnds(m)) \/ FlightEnds
      PROVE  EarlyInv'
  <2>1. UNCHANGED <<lifecycle, policy, call, tx, embed>> /\ (flight = "stopped" => flight' = "stopped")
    BY <1>4, Zenon DEF DetachedEnds, FlightEnds, runtimeVars
  <2>2. PastGate' <=> PastGate
    BY <2>1, Zenon DEF PastGate, InTx, Here
  <2> QED
    BY <2>1, <2>2, Zenon DEF EarlyInv
<1> QED
  BY <1>1, <1>2, <1>3, <1>4, Zenon DEF Next

\* The invariant is inductive.
LEMMA NextAppInv == AppInv /\ [Next]_vars => AppInv'
<1> SUFFICES ASSUME AppInv, [Next]_vars
             PROVE  AppInv'
  BY Zenon
<1>1. CASE Next
  BY <1>1, NextShape, NextStop, NextReport, NextEarly, Zenon DEF AppInv
<1>2. CASE UNCHANGED vars
  <2> USE <1>2 DEF vars, appVars, storeVars, runtimeVars, AppInv
  <2>1. Shape'
    BY DEF Shape, TypeOK, CallOK, Locked
  <2>2. \A at : Here(at)' <=> Here(at)
    BY Zenon DEF Here
  <2>3. (InTx' <=> InTx) /\ (PastGate' <=> PastGate) /\ Due' = Due
    BY <2>2, Zenon DEF InTx, PastGate, Due, Here
  <2>4. StopInv' /\ GateInv' /\ EarlyInv'
    BY <2>3, Zenon DEF StopInv, GateInv, EarlyInv
  <2>5. TxInv' /\ ReportInv'
    BY <2>2, <2>3, Zenon DEF TxInv, ReportInv
  <2> QED
    BY <2>1, <2>4, <2>5, Zenon
<1> QED
  BY <1>1, <1>2, Zenon

\* The invariant holds in every reachable state.
LEMMA Invariance == Spec => []AppInv
BY InitAppInv, NextAppInv, PTL DEF Spec

-----------------------------------------------------------------------------
(* The results. *)

\* A strict preload is a transaction, whatever the list of models, the number of
\* callers and requests, and the place at which a call fails, is dropped or meets a
\* shutdown.
THEOREM PreloadsAreAtomic == Spec => []PreloadIsAtomic
<1>1. ASSUME AppInv
      PROVE  PreloadIsAtomic
  <2>1. lifecycle = None /\ ~shuttingDown => loaded = served \ orphans
    BY <1>1, FreeFacts, Zenon DEF AppInv, StopInv, ReportInv, Due, Shape
  <2>2. lifecycle = None => pending = {}
    BY <1>1, FreeFacts, Zenon DEF AppInv, GateInv
  <2>3. ASSUME NEW e \in Embed, embed[e].at = "using", embed[e].m \in Uncommitted
        PROVE  e \in tx.early
    <3>1. CASE embed[e].m \in Range(tx.newly)
      BY <1>1, <2>3, <3>1, EmptyFacts, Zenon DEF AppInv, TxInv, EarlyInv
    <3>2. ASSUME NEW c \in Caller, call[c].at = "insert", tx.gated # {}, embed[e].m = call[c].m
          PROVE  e \in tx.early
      <4>1. lifecycle = c
        BY <1>1, <3>2, Zenon DEF AppInv, Shape, Locked, Unlocked
      <4>2. InTx /\ PastGate /\ Here("insert")
        BY <1>1, <3>2, <4>1, HolderFacts, Zenon DEF AppInv, GateInv
      <4> QED
        BY <1>1, <2>3, <3>2, <4>1, <4>2, Zenon DEF AppInv, TxInv, EarlyInv
    <3> QED
      BY <2>3, <3>1, <3>2, Zenon DEF Uncommitted, At
  <2> QED
    BY <1>1, <2>1, <2>2, <2>3, Zenon DEF PreloadIsAtomic, AppInv, Shape
<1> QED
  BY <1>1, Invariance, PTL

\* The clear of a shutdown is final, although it does not take the lifecycle mutex.
THEOREM ClearsAreFinal == Spec => []ClearIsFinal
<1>1. AppInv => ClearIsFinal
  BY Zenon DEF AppInv, StopInv, ClearIsFinal
<1> QED
  BY <1>1, Invariance, PTL
=============================================================================
