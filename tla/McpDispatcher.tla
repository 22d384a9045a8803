---------------------------- MODULE McpDispatcher ----------------------------
(***************************************************************************)
(* McpDispatcher: what it answers to an item of a frame, and the phase it  *)
(* is in afterwards.  Everything is decided at once except the call of a   *)
(* tool, whose result comes from the application.                          *)
(*                                                                         *)
(* An item has an id, {} for a notification, a method and params, which    *)
(* are missing ("none"), acceptable to the method ("ok") or not ("bad").   *)
(***************************************************************************)
EXTENDS Integers, Sequences

CONSTANT MaxBatchItems \* MAX_BATCH_ITEMS, 128 in the code

ParseError == -32700
InvalidRequest == -32600
MethodNotFound == -32601
InvalidParams == -32602
NotInitialized == -32002
Success == 0

\* rpc_success and rpc_error; a null id is {}.
Rpc(id, code) == [id |-> id, code |-> code]

Ready(phase) == phase \in {"ready", "stateless"}

\* parse_empty and list_tools: params may be missing; parse_params: they may not.
Optional(params) == IF params = "bad" THEN InvalidParams ELSE Success
Required(params) == IF params = "ok" THEN Success ELSE InvalidParams

\* McpDispatcher::initialize
Initialize(phase, params) ==
    IF phase \notin {"await_initialize", "stateless"}
    THEN InvalidRequest
    ELSE Required(params)

\* McpDispatcher::call_tool up to the application: the tool exists, and its
\* arguments, an empty object if there are none, are what it takes.
CallTool(item) ==
    IF \/ item.params # "ok"
       \/ item.tool = "other"
       \/ item.arguments = "bad"
       \/ item.tool = "embed" /\ item.arguments = "none"
    THEN InvalidParams
    ELSE Success

\* The code of the answer to a request.
Code(phase, item) ==
    CASE item.method = "initialize" -> Initialize(phase, item.params)
      [] item.method = "ping" -> Optional(item.params)
      [] item.method = "tools/list" ->
             IF Ready(phase) THEN Optional(item.params) ELSE NotInitialized
      [] item.method = "tools/call" -> IF Ready(phase) THEN CallTool(item) ELSE NotInitialized
      [] OTHER -> MethodNotFound

\* Mutant: the answer to initialize already opens the session.
PhaseAfterAtOnce(phase, item) ==
    IF item.valid /\ item.method = "initialize" /\ item.id # {} /\ phase = "await_initialize"
       /\ item.params = "ok"
    THEN "ready"
    ELSE phase

\* The phase after an item: a request to initialize that succeeds, and the
\* notification that the client has seen the answer.
PhaseAfter(phase, item) ==
    CASE /\ item.valid /\ item.method = "initialize" /\ item.id # {}
         /\ phase = "await_initialize" /\ item.params = "ok" -> "await_initialized"
      [] /\ item.valid /\ item.method = "notifications/initialized" /\ item.id = {}
         /\ phase = "await_initialized" /\ item.params # "bad" -> "ready"
      [] OTHER -> phase

\* The call of a tool that passed every check.
Calls(phase, item) ==
    /\ item.valid /\ item.id # {} /\ item.method = "tools/call"
    /\ Code(phase, item) = Success

\* into_incoming and dispatch_incoming: no answer to a notification.
Answer(phase, item) ==
    IF ~item.valid THEN <<Rpc({}, InvalidRequest)>>
    ELSE IF item.id = {} THEN <<>>
    ELSE <<Rpc(item.id, Code(phase, item))>>

\* In a batch initialize is not dispatched: it can change no phase.
InBatch(item) == item.valid /\ item.method = "initialize"
AnswerInBatch(phase, item) ==
    IF InBatch(item)
    THEN IF item.id = {} THEN <<>> ELSE <<Rpc(item.id, InvalidRequest)>>
    ELSE Answer(phase, item)

\* What dispatch refuses before it looks at an item, and with which code.
Refused(frame) ==
    \/ frame.form \in {"oversized", "garbled"}
    \/ frame.form = "batch" /\ Len(frame.items) \notin 1 .. MaxBatchItems
RefusalCode(frame) == IF frame.form = "garbled" THEN ParseError ELSE InvalidRequest
=============================================================================
