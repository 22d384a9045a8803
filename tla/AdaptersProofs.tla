---------------------------- MODULE AdaptersProofs ---------------------------
(***************************************************************************)
(* Proofs about the adapters and the configuration they run under, for     *)
(* every set of sources, requests, commands and frames.                    *)
(***************************************************************************)
EXTENDS Adapters, FiniteSetTheorems, SequenceTheorems, TLAPS

-----------------------------------------------------------------------------
(* The configuration is validated twice, as limits when it is loaded and as a  *)
(* scheduler policy when the runtime is built.                                 *)

\* A size or a time that validate_bounds accepts is a positive integer.
LEMMA BoundsArePositive ==
    ASSUME NEW limits, ValidBounds(limits), NEW k \in SizeKeys \cup TimeKeys
    PROVE  limits[k] \in Int /\ limits[k] > 0
<1>1. CASE k \in SizeKeys
  BY <1>1 DEF ValidBounds
<1>2. CASE k \in TimeKeys
  BY <1>2 DEF ValidBounds
<1> QED
  BY <1>1, <1>2, Zenon

\* BatchPolicy::validate accepts what from_limits makes of a configuration that
\* ServerConfig::validate has accepted: AppState::new never fails with
\* InvalidPolicy, and a limit that one of the two lists forgets would show here.
THEOREM AcceptedConfigBuilds ==
    ASSUME NEW limits, Validate(limits)
    PROVE  ValidPolicy(FromLimits(limits))
<1> DEFINE policy == FromLimits(limits)
<1>1. ValidBounds(limits)
  BY Zenon DEF Validate
<1>2. ASSUME NEW f \in DOMAIN policy
      PROVE  policy[f] > 0
  <2>1. /\ limits.max_queue_depth > 0 /\ limits.max_items > 0
        /\ limits.max_input_bytes > 0 /\ limits.max_request_bytes > 0
        /\ limits.max_tokens > 0 /\ limits.max_batch_items > 0
        /\ limits.max_batch_tokens > 0 /\ limits.max_concurrency > 0
        /\ limits.request_timeout_ms > 0
    BY <1>1, BoundsArePositive, Zenon DEF SizeKeys, TimeKeys
  <2> QED
    BY <2>1 DEF FromLimits
<1>3. /\ policy.max_items <= policy.max_batch_items
      /\ policy.max_input_bytes <= policy.max_request_bytes
      /\ policy.max_tokens <= policy.max_batch_tokens
  BY <1>1, Zenon DEF ValidBounds, FromLimits
<1> QED
  BY <1>2, <1>3, Zenon DEF ValidPolicy

-----------------------------------------------------------------------------
(* Startup: the configuration in use was accepted, and the credentials are     *)
(* those it names.                                                             *)

ProcessFields == {"at", "command", "exit"}
CallFields == {"at", "via", "request", "op", "passed", "cancelled", "timeout", "error", "reply"}
SessionFields == {"at", "phase", "frames", "todo", "batch", "answers", "tool"}

\* The fields of the records, all that is needed of their types.
ShapeInv ==
    /\ DOMAIN process = ProcessFields
    /\ call = NoCall \/ DOMAIN call = CallFields
    /\ DOMAIN session = SessionFields
    /\ session.phase \in {"await_initialize", "await_initialized", "ready", "stateless"}
    /\ session.phase = "stateless" => call # NoCall /\ call.at = "dispatching"

\* The tokens of a credential that may be configured.
Tokens(auth) == UNION {LoadCredential(s) : s \in auth}

\* From load to the end of a session the configuration is an accepted one, and
\* from AppState::new on the credentials are the ones it names.
BootInv ==
    /\ process.at \in {"loaded", "built", "serving"} =>
           config # {} /\ \A c \in config : Validate(c)
    /\ process.at \in {"built", "serving"} =>
           /\ secrets.public = Tokens(TheConfig.auth)
           /\ secrets.admin = Tokens(TheConfig.admin_auth)
           /\ TheConfig.auth # {} => secrets.public # {}
           /\ TheConfig.admin_auth # {} => secrets.admin # {}
           /\ secrets.public \cap secrets.admin = {}
    /\ call # NoCall => process.at = "serving"

\* A call that is there has all its fields.
LEMMA NoCallFacts == "via" \notin DOMAIN NoCall /\ NoCall.at = "none" /\ DOMAIN NoCall = {"at"}
BY Zenon DEF NoCall

\* A reply changes where the call is and the reply.
LEMMA RepliedFacts ==
    ASSUME NEW c, DOMAIN c = CallFields, NEW reply
    PROVE  /\ DOMAIN Replied(c, reply) = CallFields
           /\ Replied(c, reply).at = "replied" /\ Replied(c, reply).reply = {reply}
           /\ Replied(c, reply).via = c.via /\ Replied(c, reply).request = c.request
           /\ Replied(c, reply).passed = c.passed /\ Replied(c, reply).error = c.error
           /\ Replied(c, reply).op = c.op
BY Zenon DEF Replied, CallFields

\* The dispatcher opens a frame in the phase it is in.
LEMMA OpenedFacts ==
    ASSUME NEW s, DOMAIN s = SessionFields, NEW frame
    PROVE  /\ DOMAIN Opened(s, frame) = SessionFields /\ Opened(s, frame).phase = s.phase
           /\ Opened(s, frame).at = "dispatching" /\ Opened(s, frame).tool = {}
BY Zenon DEF Opened, SessionFields

\* A dispatcher that works on nothing.
LEMMA ClosedFacts ==
    /\ DOMAIN Closed = SessionFields /\ Closed.phase = "await_initialize"
    /\ Closed.at = "closed" /\ Closed.tool = {}
BY Zenon DEF Closed, SessionFields

\* No item leads into the stateless phase or out of it.
LEMMA PhaseFacts ==
    ASSUME NEW item,
           NEW phase \in {"await_initialize", "await_initialized", "ready", "stateless"}
    PROVE  /\ PhaseAfter(phase, item)
                  \in {"await_initialize", "await_initialized", "ready", "stateless"}
           /\ PhaseAfter(phase, item) = "stateless" <=> phase = "stateless"
BY Zenon DEF PhaseAfter

\* The steps of a call that is there: it stays the same call.
Proceeds ==
    /\ UNCHANGED boot
    /\ call # NoCall /\ call' # NoCall /\ DOMAIN call' = CallFields
    /\ call'.via = call.via /\ call'.request = call.request /\ call'.passed = call.passed

\* They are what the application returns, the timer, a client that leaves, and the
\* end of a POST.
LEMMA StepsProceed ==
    ASSUME ShapeInv,
           \/ \E outcome : Respond(outcome)
           \/ GrpcTimer \/ Disconnect \/ FinishPost \/ DropPost
    PROVE  Proceeds
<1>1. call # NoCall /\ DOMAIN call = CallFields
  BY NoCallFacts, Zenon DEF ShapeInv, Respond, GrpcTimer, Disconnect, FinishPost, DropPost
<1>2. ASSUME NEW outcome, Respond(outcome) PROVE Proceeds
  <2> DEFINE c == [call EXCEPT !.error = outcome, !.cancelled = (call.via = "grpc" /\ outcome # {})]
  <2>1. /\ DOMAIN c = CallFields /\ c.via = call.via /\ c.request = call.request
        /\ c.passed = call.passed
    BY <1>1, Zenon DEF CallFields
  <2>2. call' = Replied(c, ReplyFor(call, outcome)) /\ UNCHANGED boot
    BY <1>2, Zenon DEF Respond
  <2> HIDE DEF c
  <2> QED
    BY <1>1, <2>1, <2>2, RepliedFacts, NoCallFacts DEF Proceeds, CallFields
<1>3. CASE GrpcTimer
  <2> DEFINE c == [call EXCEPT !.cancelled = TRUE, !.error = {EngineFailure("deadline_exceeded")}]
  <2>1. /\ DOMAIN c = CallFields /\ c.via = call.via /\ c.request = call.request
        /\ c.passed = call.passed
    BY <1>1, Zenon DEF CallFields
  <2>2. call' = Replied(c, StatusForPublic("deadline_exceeded")) /\ UNCHANGED boot
    BY <1>3, Zenon DEF GrpcTimer
  <2> HIDE DEF c
  <2> QED
    BY <1>1, <2>1, <2>2, RepliedFacts, NoCallFacts DEF Proceeds, CallFields
<1>4. CASE Disconnect \/ DropPost
  <2>1. \/ call' = [call EXCEPT !.at = "gone", !.cancelled = (call.op = "embed")]
        \/ call' = [call EXCEPT !.at = "gone"]
    BY <1>4, Zenon DEF Disconnect, DropPost
  <2>2. /\ DOMAIN call' = CallFields /\ call'.via = call.via /\ call'.request = call.request
        /\ call'.passed = call.passed
    BY <1>1, <2>1, Zenon DEF CallFields
  <2> QED
    BY <1>1, <1>4, <2>2, NoCallFacts, Zenon DEF Proceeds, CallFields, Disconnect, DropPost
<1>5. CASE FinishPost
  BY <1>1, <1>5, RepliedFacts, NoCallFacts DEF Proceeds, CallFields, FinishPost
<1> QED
  BY <1>2, <1>3, <1>4, <1>5, Zenon

\* A request over HTTP becomes a call, which has passed only if no layer, router or
\* guard turned it away.
LEMMA ReceiveFacts ==
    ASSUME NEW via, NEW request, Receive(via, request)
    PROVE  /\ process.at = "serving" /\ call = NoCall /\ UNCHANGED <<boot, past, written>>
           /\ DOMAIN call' = CallFields /\ call'.via = via /\ call'.request = request
           /\ call'.error = {} /\ call'.at \in {"running", "replied", "dispatching"}
           /\ call'.passed => Turned(request) = {}
           /\ \/ session' = session
              \/ /\ call'.at = "dispatching"
                 /\ session' = Opened([Closed EXCEPT !.phase = "stateless"], request.frame)
<1> DEFINE c == Call(via, request)
           path == request.path
<1>1. process.at = "serving" /\ call = NoCall /\ UNCHANGED <<boot, past, written>>
  BY Zenon DEF Receive
<1>2. /\ DOMAIN c = CallFields /\ c.at = "running" /\ c.via = via /\ c.request = request
      /\ c.error = {} /\ c.passed = TRUE
  BY Zenon DEF Call, CallFields
<1>3. \/ /\ Turned(request) # {}
         /\ \E reply \in Turned(request) : call' = Replied([c EXCEPT !.passed = FALSE], reply)
         /\ UNCHANGED session
      \/ /\ Turned(request) = {}
         /\ \E reply : call' = Replied(c, reply)
         /\ UNCHANGED session
      \/ /\ Turned(request) = {}
         /\ call' = [c EXCEPT !.op = "list"]
         /\ UNCHANGED session
      \/ /\ Turned(request) = {}
         /\ LET admin == [c EXCEPT !.op = IF path \in AdminPaths THEN "admin" ELSE "embed"]
            IN  call' = admin \/ \E reply : call' = Replied(admin, reply)
         /\ UNCHANGED session
      \/ /\ Turned(request) = {}
         /\ call' = [c EXCEPT !.op = "mcp", !.at = "dispatching"]
         /\ session' = Opened([Closed EXCEPT !.phase = "stateless"], request.frame)
  BY Zenon DEF Receive
<1> HIDE DEF c
<1>4. CASE /\ Turned(request) # {}
           /\ \E reply \in Turned(request) : call' = Replied([c EXCEPT !.passed = FALSE], reply)
           /\ UNCHANGED session
  <2> DEFINE d == [c EXCEPT !.passed = FALSE]
  <2>1. /\ DOMAIN d = CallFields /\ d.via = via /\ d.request = request /\ d.error = {}
        /\ d.passed = FALSE
    BY <1>2, Zenon DEF CallFields
  <2>2. PICK reply : call' = Replied(d, reply)
    BY <1>4, Zenon
  <2> HIDE DEF d
  <2> QED
    <3>1. /\ DOMAIN call' = CallFields /\ call'.via = via /\ call'.request = request
          /\ call'.error = {} /\ call'.at = "replied" /\ call'.passed = FALSE
      BY <2>1, <2>2, RepliedFacts
    <3> QED
      BY <1>1, <1>4, <3>1, Zenon
<1>5. ASSUME NEW d, DOMAIN d = CallFields, d.via = via, d.request = request, d.error = {},
             Turned(request) = {}, d.at = "running",
             call' = d \/ \E reply : call' = Replied(d, reply),
             UNCHANGED session
      PROVE  /\ DOMAIN call' = CallFields /\ call'.via = via /\ call'.request = request
             /\ call'.error = {} /\ call'.at \in {"running", "replied", "dispatching"}
             /\ call'.passed => Turned(request) = {}
  BY <1>5, RepliedFacts
<1>6. CASE /\ Turned(request) = {}
           /\ \E reply : call' = Replied(c, reply)
           /\ UNCHANGED session
  BY <1>1, <1>2, <1>5, <1>6, Zenon
<1>7. CASE /\ Turned(request) = {}
           /\ call' = [c EXCEPT !.op = "list"]
           /\ UNCHANGED session
  BY <1>1, <1>2, <1>7, Zenon DEF CallFields
<1>8. CASE /\ Turned(request) = {}
           /\ LET admin == [c EXCEPT !.op = IF path \in AdminPaths THEN "admin" ELSE "embed"]
              IN  call' = admin \/ \E reply : call' = Replied(admin, reply)
           /\ UNCHANGED session
  <2> DEFINE admin == [c EXCEPT !.op = IF path \in AdminPaths THEN "admin" ELSE "embed"]
  <2>1. /\ DOMAIN admin = CallFields /\ admin.via = via /\ admin.request = request
        /\ admin.error = {} /\ admin.at = "running"
    BY <1>2, Zenon DEF CallFields
  <2>2. call' = admin \/ \E reply : call' = Replied(admin, reply)
    BY <1>8, Zenon
  <2> HIDE DEF admin
  <2> QED
    BY <1>1, <1>5, <1>8, <2>1, <2>2, Zenon
<1>9. CASE /\ Turned(request) = {}
           /\ call' = [c EXCEPT !.op = "mcp", !.at = "dispatching"]
           /\ session' = Opened([Closed EXCEPT !.phase = "stateless"], request.frame)
  BY <1>1, <1>2, <1>9, Zenon DEF CallFields
<1> QED
  BY <1>3, <1>4, <1>6, <1>7, <1>8, <1>9, Zenon

\* A request over gRPC becomes a call, which has passed only if it was authorized.
LEMMA GrpcReceiveFacts ==
    ASSUME NEW request, GrpcReceive(request)
    PROVE  /\ process.at = "serving" /\ call = NoCall /\ UNCHANGED <<boot, dialogue>>
           /\ DOMAIN call' = CallFields /\ call'.via = "grpc" /\ call'.request = request
           /\ call'.error = {} /\ call'.at \in {"running", "replied"}
           /\ call'.passed => GrpcAuthorized(request)
<1> DEFINE c == Call("grpc", request)
<1>1. process.at = "serving" /\ call = NoCall /\ UNCHANGED <<boot, dialogue>>
  BY Zenon DEF GrpcReceive
<1>2. /\ DOMAIN c = CallFields /\ c.at = "running" /\ c.via = "grpc" /\ c.request = request
      /\ c.error = {}
  BY Zenon DEF Call, CallFields
<1>3. \/ call' = Replied([c EXCEPT !.passed = FALSE], [status |-> "UNAUTHENTICATED"])
      \/ GrpcAuthorized(request) /\ \E reply : call' = Replied(c, reply)
      \/ GrpcAuthorized(request) /\ \E timeout : call' = [c EXCEPT !.timeout = timeout]
  BY Zenon DEF GrpcReceive
<1> HIDE DEF c
<1>4. CASE call' = Replied([c EXCEPT !.passed = FALSE], [status |-> "UNAUTHENTICATED"])
  <2> DEFINE d == [c EXCEPT !.passed = FALSE]
  <2>1. /\ DOMAIN d = CallFields /\ d.via = "grpc" /\ d.request = request /\ d.error = {}
        /\ d.passed = FALSE
    BY <1>2, Zenon DEF CallFields
  <2>2. call' = Replied(d, [status |-> "UNAUTHENTICATED"])
    BY <1>4, Zenon
  <2> HIDE DEF d
  <2> QED
    BY <1>1, <2>1, <2>2, RepliedFacts
<1>5. CASE GrpcAuthorized(request) /\ \E reply : call' = Replied(c, reply)
  BY <1>1, <1>2, <1>5, RepliedFacts
<1>6. CASE GrpcAuthorized(request) /\ \E timeout : call' = [c EXCEPT !.timeout = timeout]
  BY <1>1, <1>2, <1>6, Zenon DEF CallFields
<1> QED
  BY <1>3, <1>4, <1>5, <1>6, Zenon

\* The records keep their fields.
LEMMA NextShape ==
    ASSUME ShapeInv, Next
    PROVE  ShapeInv'
<1>1. CASE \/ \E command \in {"serve", "mcp", "doctor"}, d \in 0 .. Len(Documents),
                 e \in DOMAIN Environments, l \in DOMAIN CommandLines :
                    Load(command, IF d = 0 THEN {} ELSE {Documents[d]}, Environments[e],
                         CommandLines[l])
           \/ \E available \in BOOLEAN : Construct(available)
           \/ \E drained \in BOOLEAN : Drain(drained)
  <2>1. UNCHANGED <<call, session>> /\ DOMAIN process' = DOMAIN process
    BY <1>1, Zenon DEF Load, Construct, Drain, Exit, dialogue
  <2> QED
    BY <2>1, Zenon DEF ShapeInv
<1>2. CASE Preload
  <2>1. DOMAIN process' = DOMAIN process /\ UNCHANGED call
    BY <1>2, Zenon DEF Preload, Exit
  <2>2. session' = session \/ session' = [Closed EXCEPT !.at = "reading"]
    BY <1>2, Zenon DEF Preload
  <2>3. DOMAIN [Closed EXCEPT !.at = "reading"] = SessionFields
        /\ [Closed EXCEPT !.at = "reading"].phase = "await_initialize"
    BY ClosedFacts, Zenon DEF SessionFields
  <2> QED
    BY <2>1, <2>2, <2>3, Zenon DEF ShapeInv
<1>3. ASSUME NEW via, NEW request, Receive(via, request)
      PROVE  ShapeInv'
  <2>1. /\ DOMAIN call' = CallFields /\ UNCHANGED process /\ call = NoCall
        /\ \/ session' = session
           \/ /\ call'.at = "dispatching"
              /\ session' = Opened([Closed EXCEPT !.phase = "stateless"], request.frame)
    BY <1>3, ReceiveFacts, Zenon DEF boot
  <2> DEFINE s == [Closed EXCEPT !.phase = "stateless"]
  <2>2. DOMAIN s = SessionFields /\ s.phase = "stateless"
    BY ClosedFacts, Zenon DEF SessionFields
  <2>3. DOMAIN Opened(s, request.frame) = SessionFields /\ Opened(s, request.frame).phase = "stateless"
    BY <2>2, OpenedFacts, Zenon
  <2>4. call' # NoCall
    BY <2>1, NoCallFacts, Zenon DEF CallFields
  <2> HIDE DEF s
  <2>5. CASE session' = session
    BY <2>1, <2>5, Zenon DEF ShapeInv
  <2>6. CASE call'.at = "dispatching" /\ session' = Opened(s, request.frame)
    BY <2>1, <2>3, <2>4, <2>6, Zenon DEF ShapeInv
  <2> QED
    BY <2>1, <2>5, <2>6, Zenon DEF s
<1>4. ASSUME NEW request, GrpcReceive(request)
      PROVE  ShapeInv'
  <2>1. DOMAIN call' = CallFields /\ UNCHANGED <<process, session>> /\ call = NoCall
    BY <1>4, GrpcReceiveFacts, Zenon DEF boot, dialogue
  <2> QED
    BY <2>1, Zenon DEF ShapeInv
<1>5. CASE (\E outcome : Respond(outcome)) \/ GrpcTimer \/ Disconnect \/ FinishPost \/ DropPost
  <2>1. Proceeds
    BY <1>5, StepsProceed, Zenon
  <2>2. session' = Closed \/ (session' = session /\ call.at = "running")
    BY <1>5, Zenon DEF Respond, GrpcTimer, Disconnect, FinishPost, DropPost, dialogue
  <2> QED
    BY <2>1, <2>2, ClosedFacts, Zenon DEF ShapeInv, Proceeds, boot
<1>6. CASE Hangup
  BY <1>6, Zenon DEF Hangup, ShapeInv, boot, dialogue
<1>7. CASE Dispatch
  <2>1. UNCHANGED <<process, call>>
    BY <1>7, Zenon DEF Dispatch, boot
  <2>2. /\ DOMAIN session' = SessionFields
        /\ session'.phase = session.phase
              \/ session'.phase = PhaseAfter(session.phase, Head(session.todo))
    BY <1>7, Zenon DEF Dispatch, ShapeInv, SessionFields
  <2> QED
    BY <2>1, <2>2, PhaseFacts, Zenon DEF ShapeInv
<1>8. CASE (\E outcome : ToolReturns(outcome)) \/ (\E frame : ReadLine(frame)) \/ WriteFrame
  <2>1. UNCHANGED <<process, call>>
    BY <1>8, Zenon DEF ToolReturns, ReadLine, WriteFrame, boot
  <2>2. DOMAIN session' = SessionFields /\ session'.phase = session.phase
    <3>1. CASE \E frame : ReadLine(frame)
      BY <3>1, OpenedFacts DEF ReadLine, ShapeInv
    <3>2. CASE (\E outcome : ToolReturns(outcome)) \/ WriteFrame
      <4>1. CASE WriteFrame
        BY <4>1, Zenon DEF WriteFrame, ShapeInv, SessionFields
      <4>2. ASSUME NEW outcome, ToolReturns(outcome)
            PROVE  DOMAIN session' = SessionFields /\ session'.phase = session.phase
        BY <4>2, Zenon DEF ToolReturns, ShapeInv, SessionFields
      <4> QED
        BY <3>2, <4>1, <4>2, Zenon
    <3> QED
      BY <1>8, <3>1, <3>2, Zenon
  <2> QED
    BY <2>1, <2>2, Zenon DEF ShapeInv
<1>9. ASSUME NEW failed, CloseStdio(failed)
      PROVE  ShapeInv'
  BY <1>9, ClosedFacts, Zenon DEF CloseStdio, ShapeInv
<1> QED
  BY <1>1, <1>2, <1>3, <1>4, <1>5, <1>6, <1>7, <1>8, <1>9, Zenon DEF Next

\* The configuration and the credentials stay what startup made of them.
LEMMA NextBoot ==
    ASSUME ShapeInv, BootInv, Next
    PROVE  BootInv'
<1>1. ASSUME NEW command, NEW d, NEW v, NEW a, Load(command, d, v, a)
      PROVE  BootInv'
  <2>1. call = NoCall /\ call' = NoCall
    BY <1>1, Zenon DEF Load, BootInv
  <2>2. \A c \in config' : Validate(c)
    BY <1>1 DEF Load, LoadConfig
  <2>3. \/ process'.at = "exited"
        \/ process'.at = "loaded" /\ config' # {}
    BY <1>1, Zenon DEF Load, Exit, ShapeInv, ProcessFields
  <2> QED
    BY <2>1, <2>2, <2>3, Zenon DEF BootInv
<1>2. ASSUME NEW available, Construct(available)
      PROVE  BootInv'
  <2>1. call = NoCall /\ call' = NoCall /\ UNCHANGED config /\ TheConfig' = TheConfig
    BY <1>2, Zenon DEF Construct, BootInv, TheConfig
  <2>2. config # {} /\ \A c \in config : Validate(c)
    BY <1>2, Zenon DEF Construct, BootInv
  <2>3. \/ process'.at = "exited"
        \/ /\ process'.at = "built"
           /\ TheConfig.auth # {} => Tokens(TheConfig.auth) # {}
           /\ TheConfig.admin_auth # {} => Tokens(TheConfig.admin_auth) # {}
           /\ Tokens(TheConfig.auth) \cap Tokens(TheConfig.admin_auth) = {}
           /\ secrets' = [public |-> Tokens(TheConfig.auth), admin |-> Tokens(TheConfig.admin_auth)]
    BY <1>2, Zenon DEF Construct, Exit, ShapeInv, ProcessFields, Tokens
  <2> QED
    BY <2>1, <2>2, <2>3 DEF BootInv
<1>3. CASE Preload
  <2>1. call = NoCall /\ call' = NoCall
    BY <1>3, Zenon DEF Preload, BootInv
  <2>2. \/ process'.at \in {"exited", "stdio"}
        \/ process'.at = "serving" /\ UNCHANGED <<config, secrets>> /\ TheConfig' = TheConfig
    BY <1>3, Zenon DEF Preload, Exit, ShapeInv, ProcessFields, TheConfig
  <2> QED
    BY <1>3, <2>1, <2>2, Zenon DEF BootInv, Preload
<1>4. CASE UNCHANGED boot /\ (call' = NoCall \/ process.at = "serving")
  <2>1. UNCHANGED <<process, config, secrets>> /\ TheConfig' = TheConfig
    BY <1>4, Zenon DEF boot, TheConfig
  <2> QED
    BY <1>4, <2>1, Zenon DEF BootInv
<1>5. CASE (\E failed : CloseStdio(failed)) \/ (\E drained : Drain(drained))
  <2>1. process.at \in {"stdio", "draining"} /\ UNCHANGED call /\ process'.at \in {"draining", "exited"}
    BY <1>5, Zenon DEF CloseStdio, Drain, Exit, ShapeInv, ProcessFields
  <2> QED
    BY <2>1, Zenon DEF BootInv
<1>6. CASE \/ \E via, request : Receive(via, request)
           \/ \E request : GrpcReceive(request)
  BY <1>4, <1>6, ReceiveFacts, GrpcReceiveFacts, Zenon
<1>7. CASE (\E outcome : Respond(outcome)) \/ GrpcTimer \/ Disconnect \/ FinishPost \/ DropPost
  BY <1>4, <1>7, StepsProceed, Zenon DEF Proceeds, BootInv
<1>8. CASE Hangup \/ Dispatch \/ (\E outcome : ToolReturns(outcome))
           \/ (\E frame : ReadLine(frame)) \/ WriteFrame
  <2>1. UNCHANGED boot /\ (call' = NoCall \/ call' = call)
    BY <1>8, Zenon DEF Hangup, Dispatch, ToolReturns, ReadLine, WriteFrame
  <2> QED
    BY <1>4, <2>1, Zenon DEF BootInv
<1> QED
  BY <1>1, <1>2, <1>3, <1>5, <1>6, <1>7, <1>8, Zenon DEF Next

-----------------------------------------------------------------------------
(* Who gets past a guard. *)

\* ExposureIsGuarded for one request.
Guarded(via, request) ==
    LET held == Bearer(request.authorization)
        admin == via # "grpc" /\ request.path \in AdminPaths
        metrics == via # "grpc" /\ request.path = "/metrics"
        open == via # "grpc" /\ request.path \in OpenPaths
        needed == IF admin THEN TheConfig.admin_auth
                  ELSE IF metrics /\ TheConfig.admin_auth # {} THEN TheConfig.admin_auth
                  ELSE TheConfig.auth
    IN  /\ \/ open
           \/ needed # {} /\ held = Tokens(needed)
           \/ needed = {} /\ ~RemotelyExposed(TheConfig)
           \/ needed = {} /\ ~admin /\ TheConfig.allow_insecure_remote
        /\ admin => TheConfig.admin_api_enabled
        /\ admin /\ TheConfig.auth # {} /\ TheConfig.admin_auth # {} =>
               held # Tokens(TheConfig.auth)
        /\ via # "grpc" => Range(request.origins) \subseteq Range(TheConfig.allowed_origins)

\* ExposureIsGuarded in these terms, before and after a step.
LEMMA GuardedIsExposure ==
    /\ ExposureIsGuarded <=> (call # NoCall /\ call.passed => Guarded(call.via, call.request))
    /\ ExposureIsGuarded' <=>
           (call' # NoCall /\ call'.passed => Guarded(call.via, call.request)')
BY Zenon DEF ExposureIsGuarded, Guarded, Tokens

\* What a request has shown that origin_layer, the router and the guard let through.
LEMMA TurnedFacts ==
    ASSUME NEW request, Turned(request) = {}
    PROVE  /\ OriginAllowed(request.origins)
           /\ RouteMethod(request.path) # {}
           /\ Authorized(Guard(request.path), request.authorization)
<1>1. OriginAllowed(request.origins)
  BY ZenonT(30) DEF Turned
<1>2. request.method # "OPTIONS"
  BY <1>1, ZenonT(30) DEF Turned
<1> QED
  BY <1>1, <1>2 DEF Turned

\* A configuration that was accepted is exposed only behind a credential, or with
\* the operator's word for it and without the administrative routes.
LEMMA ServingFacts ==
    ASSUME BootInv, process.at = "serving"
    PROVE  /\ SafeExposure(TheConfig)
           /\ secrets.public = Tokens(TheConfig.auth)
           /\ secrets.admin = Tokens(TheConfig.admin_auth)
           /\ TheConfig.auth # {} <=> secrets.public # {}
           /\ TheConfig.admin_auth # {} <=> secrets.admin # {}
           /\ secrets.public \cap secrets.admin = {}
<1>1. Validate(TheConfig)
  BY Zenon DEF BootInv, TheConfig
<1>2. Tokens({}) = {}
  BY Zenon DEF Tokens
<1> QED
  BY <1>1, <1>2, Zenon DEF BootInv, Validate

\* A request over HTTP that is let through is guarded.
LEMMA HttpGuarded ==
    ASSUME BootInv, process.at = "serving", NEW via, via # "grpc", NEW request,
           request.origins \in Seq(Range(request.origins)), Turned(request) = {}
    PROVE  Guarded(via, request)
<1> DEFINE held == Bearer(request.authorization)
           path == request.path
<1>1. /\ OriginAllowed(request.origins) /\ RouteMethod(path) # {}
      /\ Authorized(Guard(path), request.authorization)
  BY TurnedFacts, Zenon
<1>2. Range(request.origins) \subseteq Range(TheConfig.allowed_origins)
  <2>1. CASE request.origins = <<>>
    BY <2>1 DEF Range
  <2>2. CASE Len(request.origins) = 1 /\ request.origins[1] \in Range(TheConfig.allowed_origins)
    <3>1. DOMAIN request.origins = {1}
      BY <2>2
    <3> QED
      BY <2>2, <3>1, Zenon DEF Range
  <2> QED
    BY <1>1, <2>1, <2>2, Zenon DEF OriginAllowed
<1>3. path \in AdminPaths => TheConfig.admin_api_enabled
  BY <1>1, Zenon DEF RouteMethod, AdminPaths, OpenPaths
<1>4. path \in OpenPaths \cup PublicPaths \cup AdminPaths \cup {"/metrics"}
  BY <1>1, Zenon DEF RouteMethod, AdminPaths, PublicPaths, OpenPaths
<1> HIDE DEF path
<1>5. ASSUME NEW secret, Guard(path) = secret
      PROVE  secret # {} => held = secret
  BY <1>1, <1>5, Zenon DEF Authorized
<1>6. /\ path \in PublicPaths => Guard(path) = secrets.public
      /\ path \in AdminPaths => Guard(path) = secrets.admin
      /\ path = "/metrics" => Guard(path) = MetricsSecret
      /\ path \in AdminPaths => path # "/metrics" /\ path \notin OpenPaths
  BY Zenon DEF Guard, PublicPaths, AdminPaths, OpenPaths
<1> HIDE DEF held
<1>7. /\ SafeExposure(TheConfig)
      /\ secrets.public = Tokens(TheConfig.auth) /\ secrets.admin = Tokens(TheConfig.admin_auth)
      /\ TheConfig.auth # {} <=> secrets.public # {}
      /\ TheConfig.admin_auth # {} <=> secrets.admin # {}
      /\ secrets.public \cap secrets.admin = {}
  BY ServingFacts, Zenon
<1>8. CASE path \in AdminPaths
  <2>1. TheConfig.admin_auth # {} => held = Tokens(TheConfig.admin_auth)
    BY <1>5, <1>6, <1>7, <1>8, Zenon
  <2>2. TheConfig.admin_auth = {} => ~RemotelyExposed(TheConfig)
    BY <1>3, <1>7, <1>8, Zenon DEF SafeExposure, path
  <2>3. TheConfig.auth # {} /\ TheConfig.admin_auth # {} => held # Tokens(TheConfig.auth)
    BY <1>7, <2>1, Zenon
  <2> QED
    BY <1>2, <1>3, <1>6, <1>8, <2>1, <2>2, <2>3, Zenon DEF Guarded, held, path
<1>9. CASE path \in OpenPaths \cup PublicPaths \cup {"/metrics"} /\ path \notin AdminPaths
  <2>1. CASE path \in OpenPaths
    BY <1>2, <1>9, <2>1, Zenon DEF Guarded, held, path
  <2> DEFINE needed == IF path = "/metrics" /\ TheConfig.admin_auth # {} THEN TheConfig.admin_auth
                       ELSE TheConfig.auth
  <2>2. CASE path \notin OpenPaths
    <3>1. Guard(path) = Tokens(needed) /\ (needed # {} => Tokens(needed) # {})
      BY <1>6, <1>7, <1>9, <2>2, Zenon DEF MetricsSecret
    <3>2. needed # {} => held = Tokens(needed)
      BY <1>5, <3>1
    <3>3. needed = {} => TheConfig.auth = {}
      BY Zenon
    <3>4. needed = {} => ~RemotelyExposed(TheConfig) \/ TheConfig.allow_insecure_remote
      BY <1>7, <3>3, Zenon DEF SafeExposure
    <3> QED
      BY <1>2, <1>9, <3>2, <3>4, Zenon DEF Guarded, held, path
  <2> QED
    BY <2>1, <2>2, Zenon
<1> QED
  BY <1>4, <1>8, <1>9, Zenon DEF path

\* So is a request over gRPC.
LEMMA GrpcGuarded ==
    ASSUME BootInv, process.at = "serving", NEW request, GrpcAuthorized(request)
    PROVE  Guarded("grpc", request)
<1>1. /\ SafeExposure(TheConfig) /\ secrets.public = Tokens(TheConfig.auth)
      /\ TheConfig.auth # {} <=> secrets.public # {}
  BY ServingFacts, Zenon
<1>2. TheConfig.auth # {} => Bearer(request.authorization) = Tokens(TheConfig.auth)
  BY <1>1, Zenon DEF GrpcAuthorized, Authorized
<1>3. TheConfig.auth = {} => ~RemotelyExposed(TheConfig) \/ TheConfig.allow_insecure_remote
  BY <1>1, Zenon DEF SafeExposure
<1> QED
  BY <1>2, <1>3, Zenon DEF Guarded

\* The configuration does not change under a call.
LEMMA SameConfig == UNCHANGED boot => TheConfig' = TheConfig /\ UNCHANGED <<process, config, secrets>>
BY Zenon DEF boot, TheConfig

\* A step that takes the call further, or away, leaves it guarded.
LEMMA NextExposure ==
    ASSUME ShapeInv, BootInv, ExposureIsGuarded, Next
    PROVE  ExposureIsGuarded'
<1>1. CASE call' = NoCall
  BY <1>1, GuardedIsExposure, Zenon
<1>2. ASSUME UNCHANGED boot, call'.passed => Guarded(call'.via, call'.request)
      PROVE  ExposureIsGuarded'
  <2>1. call'.passed => Guarded(call.via, call.request)'
    BY <1>2, SameConfig, Zenon DEF Guarded
  <2> QED
    BY <2>1, GuardedIsExposure, Zenon
<1>3. CASE UNCHANGED boot /\ call' = call
  BY <1>1, <1>2, <1>3, GuardedIsExposure, Zenon
<1>4. CASE Proceeds
  BY <1>2, <1>4, GuardedIsExposure, Zenon DEF Proceeds
<1>5. ASSUME NEW via \in {"http", "client"},
             NEW request \in IF via = "http" THEN HttpRequests
                             ELSE UNION {RunModels(m) : m \in ModelCommands},
             Receive(via, request)
      PROVE  ExposureIsGuarded'
  <2>1. request.origins \in Seq(Range(request.origins))
    <3>1. CASE via = "http"
      BY <1>5, <3>1, RequestAssumption, Zenon
    <3>2. CASE via # "http"
      <4>1. request.origins = <<>>
        BY <1>5, <3>2 DEF RunModels, ClientRequest
      <4> QED
        BY <4>1
    <3> QED
      BY <3>1, <3>2, Zenon
  <2>2. /\ process.at = "serving" /\ UNCHANGED boot /\ call'.via = via /\ call'.request = request
        /\ call'.passed => Turned(request) = {}
    BY <1>5, ReceiveFacts, Zenon
  <2>3. call'.passed => Guarded(via, request)
    BY <2>1, <2>2, HttpGuarded, Zenon
  <2> QED
    BY <1>2, <2>2, <2>3, Zenon
<1>6. ASSUME NEW request \in GrpcRequests, GrpcReceive(request)
      PROVE  ExposureIsGuarded'
  BY <1>2, <1>6, GrpcReceiveFacts, GrpcGuarded, Zenon
<1>7. CASE process.at # "serving" /\ UNCHANGED call
  BY <1>1, <1>7, Zenon DEF BootInv
<1>8. CASE \/ \E command \in {"serve", "mcp", "doctor"}, d \in 0 .. Len(Documents),
                 e \in DOMAIN Environments, l \in DOMAIN CommandLines :
                    Load(command, IF d = 0 THEN {} ELSE {Documents[d]}, Environments[e],
                         CommandLines[l])
           \/ \E available \in BOOLEAN : Construct(available)
           \/ Preload
           \/ \E failed \in BOOLEAN : CloseStdio(failed)
           \/ \E drained \in BOOLEAN : Drain(drained)
  BY <1>7, <1>8, Zenon DEF Load, Construct, Preload, CloseStdio, Drain
<1>9. CASE \/ \E outcome : ToolReturns(outcome)
           \/ Dispatch \/ (\E frame \in Frames : ReadLine(frame)) \/ WriteFrame
  BY <1>3, <1>9, Zenon DEF ToolReturns, Dispatch, ReadLine, WriteFrame
<1>10. CASE (\E outcome : Respond(outcome)) \/ GrpcTimer \/ Disconnect \/ FinishPost \/ DropPost
  BY <1>4, <1>10, StepsProceed, Zenon
<1>11. CASE Hangup
  BY <1>1, <1>11, Zenon DEF Hangup
<1> QED
  BY <1>5, <1>6, <1>8, <1>9, <1>10, <1>11, Zenon DEF Next

-----------------------------------------------------------------------------
(* What a failure is called. *)

\* The HTTP status of a failure, told by its code.
StatusOfCode(code) ==
    CASE code = "invalid_request" -> 400
      [] code = "model_unavailable" -> 503
      [] code = "queue_full" -> 429
      [] code = "cancelled" -> 499
      [] code = "deadline_exceeded" -> 408
      [] OTHER -> 500

\* Whatever an error of the application comes from, its kind and its code fit.
LEMMA Taxonomy ==
    ASSUME NEW e \in ApplicationErrors
    PROVE  e.code \in ErrorCode /\ HttpStatus(e.kind) = StatusOfCode(e.code)
<1>1. ASSUME NEW code \in ErrorCode, e = EngineFailure(code)
      PROVE  e.code \in ErrorCode /\ HttpStatus(e.kind) = StatusOfCode(e.code)
  <2>1. e.code = code /\ e.kind = KindOf(code)
    BY <1>1, Zenon DEF EngineFailure
  <2>2. HttpStatus(KindOf(code)) = StatusOfCode(code)
    BY DEF HttpStatus, KindOf, StatusOfCode, ErrorCode
  <2> QED
    BY <2>1, <2>2, Zenon
<1>2. ASSUME NEW l \in LifecycleError, e = LifecycleFailure(l)
      PROVE  e.code \in ErrorCode /\ HttpStatus(e.kind) = StatusOfCode(e.code)
  <2>1. \/ e = [kind |-> "ShuttingDown", code |-> "model_unavailable"]
        \/ e = [kind |-> "ModelUnavailable", code |-> "model_unavailable"]
        \/ e = [kind |-> "InvalidRequest", code |-> "invalid_request"]
        \/ e = [kind |-> "Internal", code |-> "internal"]
    BY <1>2, Zenon DEF LifecycleFailure, LifecycleError
  <2> QED
    BY <2>1 DEF HttpStatus, StatusOfCode, ErrorCode
<1>3. CASE e \in {CatalogRequestError, InfrastructureError}
  BY <1>3 DEF CatalogRequestError, InfrastructureError, HttpStatus, StatusOfCode, ErrorCode
<1> QED
  BY <1>1, <1>2, <1>3, Zenon DEF ApplicationErrors

\* HTTP, which goes by the kind, and gRPC, which goes by the code, tell the same
\* failures apart.
LEMMA StatusesAgree ==
    ASSUME NEW e \in ApplicationErrors, NEW o \in ApplicationErrors
    PROVE  /\ HttpStatus(o.kind) = HttpStatus(e.kind) <=> GrpcStatus(o.code) = GrpcStatus(e.code)
           /\ HttpStatus(e.kind) = 400 <=> e.code = "invalid_request"
           /\ GrpcStatus(e.code) = "INVALID_ARGUMENT" <=> e.code = "invalid_request"
<1>1. /\ e.code \in ErrorCode /\ HttpStatus(e.kind) = StatusOfCode(e.code)
      /\ o.code \in ErrorCode /\ HttpStatus(o.kind) = StatusOfCode(o.code)
  BY Taxonomy, Zenon
<1>2. ASSUME NEW c \in ErrorCode, NEW d \in ErrorCode
      PROVE  /\ StatusOfCode(c) = StatusOfCode(d) <=> GrpcStatus(c) = GrpcStatus(d)
             /\ StatusOfCode(c) = 400 <=> c = "invalid_request"
             /\ GrpcStatus(c) = "INVALID_ARGUMENT" <=> c = "invalid_request"
  BY DEF StatusOfCode, GrpcStatus, ErrorCode
<1> QED
  BY <1>1, <1>2

\* The reply to a call that failed is made from the failure.
Told(c) ==
    \E e \in ApplicationErrors :
        /\ c.error = {e}
        /\ c.reply = {IF c.via = "grpc" THEN StatusForPublic(e.code)
                      ELSE ApplicationResponse(e, FlavorForPath(c.request.path))}

\* A call fails at most once and is told so, and the same goes for a tool.
FailInv ==
    /\ call # NoCall /\ call.at \in {"running", "dispatching"} => call.error = {}
    /\ call # NoCall /\ call.at = "replied" => call.error = {} \/ Told(call)
    /\ session.tool \subseteq {[error |-> e, result |-> ToolError(e)] : e \in ApplicationErrors}

\* A reply made from a failure says what the other transports would say of it.
LEMMA FailuresAreTold == FailInv => FailuresAgree
<1> SUFFICES ASSUME FailInv PROVE FailuresAgree
  BY Zenon
<1>1. ASSUME call # NoCall, call.at = "replied", NEW error \in call.error, NEW reply \in call.reply
      PROVE  /\ error \in ApplicationErrors
             /\ reply = IF call.via = "grpc" THEN StatusForPublic(error.code)
                        ELSE ApplicationResponse(error, FlavorForPath(call.request.path))
  BY <1>1, Zenon DEF FailInv, Told
<1>2. ASSUME NEW error \in ApplicationErrors
      PROVE  /\ StatusForPublic(error.code).code = error.code
             /\ StatusForPublic(error.code).status = GrpcStatus(error.code)
             /\ StatusForPublic(error.code).retryability = Retryability(error.code)
             /\ "retryable" \notin DOMAIN StatusForPublic(error.code)
  BY Zenon DEF StatusForPublic
<1>3. ASSUME NEW error \in ApplicationErrors, NEW flavor
      PROVE  LET reply == ApplicationResponse(error, flavor)
             IN  /\ reply.code = error.code /\ reply.status = HttpStatus(error.kind)
                 /\ "retryable" \in DOMAIN reply =>
                        reply.retryable = (Retryability(error.code) = "retryable")
  BY Zenon DEF ApplicationResponse, ErrorResponse
<1>4. ASSUME call # NoCall, call.at = "replied", NEW error \in call.error, NEW reply \in call.reply
      PROVE  /\ reply.code = error.code
             /\ (IF call.via = "grpc" THEN reply.status = "INVALID_ARGUMENT" ELSE reply.status = 400)
                    <=> error.code = "invalid_request"
             /\ "retryable" \in DOMAIN reply =>
                    reply.retryable = (StatusForPublic(error.code).retryability = "retryable")
             /\ \A other \in ApplicationErrors :
                    HttpStatus(other.kind) = HttpStatus(error.kind)
                        <=> GrpcStatus(other.code) = GrpcStatus(error.code)
  BY <1>1, <1>2, <1>3, <1>4, StatusesAgree
<1>5. ASSUME NEW tool \in session.tool
      PROVE  /\ tool.result.code = tool.error.code
             /\ tool.result.retryable = (StatusForPublic(tool.error.code).retryability = "retryable")
  <2>1. PICK e \in ApplicationErrors : tool = [error |-> e, result |-> ToolError(e)]
    BY <1>5, Zenon DEF FailInv
  <2>2. tool.error = e /\ tool.result = ToolError(e)
    BY <2>1, Zenon
  <2>3. ToolError(e).code = e.code /\ ToolError(e).retryable = (Retryability(e.code) = "retryable")
    BY Zenon DEF ToolError
  <2> QED
    BY <1>2, <2>2, <2>3, Zenon
<1> QED
  BY <1>4, <1>5, Zenon DEF FailuresAgree

\* Every step keeps replies true to their failures.
LEMMA NextFail ==
    ASSUME ShapeInv, FailInv, Next
    PROVE  FailInv'
<1> DEFINE ToolOK(t) == t \subseteq {[error |-> e, result |-> ToolError(e)] : e \in ApplicationErrors}
           CallOK(c) == /\ c # NoCall /\ c.at \in {"running", "dispatching"} => c.error = {}
                        /\ c # NoCall /\ c.at = "replied" => c.error = {} \/ Told(c)
<1>1. FailInv <=> CallOK(call) /\ ToolOK(session.tool)
  BY Zenon DEF FailInv
<1>2. FailInv' <=> CallOK(call') /\ ToolOK(session'.tool)
  BY Zenon DEF FailInv, Told
<1>3. CallOK(NoCall) /\ ToolOK({})
  BY Zenon
<1> HIDE DEF ToolOK, CallOK
<1>4. CASE UNCHANGED call /\ session'.tool = session.tool
  BY <1>1, <1>2, <1>4, Zenon
<1>5. CASE \/ \E command \in {"serve", "mcp", "doctor"}, d \in 0 .. Len(Documents),
                 e \in DOMAIN Environments, l \in DOMAIN CommandLines :
                    Load(command, IF d = 0 THEN {} ELSE {Documents[d]}, Environments[e],
                         CommandLines[l])
           \/ \E available \in BOOLEAN : Construct(available)
           \/ \E drained \in BOOLEAN : Drain(drained)
  BY <1>4, <1>5, Zenon DEF Load, Construct, Drain, dialogue
<1>6. CASE Preload \/ \E failed \in BOOLEAN : CloseStdio(failed)
  <2>1. [Closed EXCEPT !.at = "reading"].tool = {} /\ Closed.tool = {}
    BY ClosedFacts, Zenon DEF SessionFields
  <2>2. UNCHANGED call /\ session' \in {session, [Closed EXCEPT !.at = "reading"], Closed}
    BY <1>6, Zenon DEF Preload, CloseStdio
  <2> QED
    BY <1>1, <1>2, <1>3, <2>1, <2>2, Zenon
<1>7. ASSUME NEW via, NEW request, Receive(via, request)
      PROVE  FailInv'
  <2>1. call'.error = {}
    BY <1>7, ReceiveFacts, Zenon
  <2>2. session' = session \/ session' = Opened([Closed EXCEPT !.phase = "stateless"], request.frame)
    BY <1>7, ReceiveFacts, Zenon
  <2>3. DOMAIN [Closed EXCEPT !.phase = "stateless"] = SessionFields
    BY ClosedFacts, Zenon
  <2>4. session'.tool = session.tool \/ session'.tool = {}
    BY <2>2, <2>3, OpenedFacts
  <2> QED
    BY <1>1, <1>2, <1>3, <2>1, <2>4, Zenon DEF CallOK
<1>8. ASSUME NEW request, GrpcReceive(request)
      PROVE  FailInv'
  <2>1. call'.error = {} /\ session' = session
    BY <1>8, GrpcReceiveFacts, Zenon DEF dialogue
  <2> QED
    BY <1>1, <1>2, <2>1, Zenon DEF CallOK
<1>9. ASSUME NEW outcome \in {{}} \cup {{e} : e \in ApplicationErrors}, Respond(outcome)
      PROVE  FailInv'
  <2> DEFINE c == [call EXCEPT !.error = outcome, !.cancelled = (call.via = "grpc" /\ outcome # {})]
  <2>1. call # NoCall /\ DOMAIN call = CallFields
    BY <1>9, NoCallFacts, Zenon DEF ShapeInv, Respond
  <2>2. /\ DOMAIN c = CallFields /\ c.via = call.via /\ c.request = call.request
        /\ c.error = outcome
    BY <2>1, Zenon DEF CallFields
  <2>3. call' = Replied(c, ReplyFor(call, outcome)) /\ session' = session
    BY <1>9, Zenon DEF Respond, dialogue
  <2> HIDE DEF c
  <2>4. /\ call'.error = outcome /\ call'.reply = {ReplyFor(call, outcome)} /\ call'.at = "replied"
        /\ call'.via = call.via /\ call'.request = call.request
    BY <2>2, <2>3, RepliedFacts
  <2>5. ASSUME NEW e \in ApplicationErrors, outcome = {e}
        PROVE  Told(call')
    <3>1. (CHOOSE x \in outcome : TRUE) = e
      BY <2>5, Zenon
    <3>2. ReplyFor(call, outcome) =
              IF call.via = "grpc" THEN StatusForPublic(e.code)
              ELSE ApplicationResponse(e, FlavorForPath(call.request.path))
      BY <2>5, <3>1, Zenon DEF ReplyFor
    <3> QED
      BY <2>4, <2>5, <3>2, Zenon DEF Told
  <2> QED
    BY <1>1, <1>2, <2>3, <2>4, <2>5, Zenon DEF CallOK
<1>10. CASE GrpcTimer
  <2> DEFINE e == EngineFailure("deadline_exceeded")
             c == [call EXCEPT !.cancelled = TRUE, !.error = {e}]
  <2>1. call # NoCall /\ DOMAIN call = CallFields
    BY <1>10, NoCallFacts, Zenon DEF ShapeInv, GrpcTimer
  <2>2. /\ DOMAIN c = CallFields /\ c.via = call.via /\ c.error = {e}
    BY <2>1, Zenon DEF CallFields
  <2>3. /\ call' = Replied(c, StatusForPublic("deadline_exceeded")) /\ session' = session
        /\ call.via = "grpc"
    BY <1>10, Zenon DEF GrpcTimer, dialogue
  <2>4. e \in ApplicationErrors /\ e.code = "deadline_exceeded"
    BY Zenon DEF EngineFailure, ApplicationErrors, ErrorCode
  <2> HIDE DEF c, e
  <2>5. /\ call'.error = {e} /\ call'.reply = {StatusForPublic("deadline_exceeded")}
        /\ call'.at = "replied" /\ call'.via = "grpc"
    BY <2>2, <2>3, RepliedFacts
  <2>6. Told(call')
    BY <2>4, <2>5, Zenon DEF Told
  <2> QED
    BY <1>1, <1>2, <2>3, <2>5, <2>6, Zenon DEF CallOK
<1>11. CASE Disconnect \/ DropPost
  <2>1. call # NoCall /\ DOMAIN call = CallFields
    BY <1>11, NoCallFacts, Zenon DEF ShapeInv, Disconnect, DropPost
  <2>2. call'.at = "gone"
    BY <1>11, <2>1, Zenon DEF Disconnect, DropPost, CallFields
  <2>3. session' = session \/ session' = Closed
    BY <1>11, Zenon DEF Disconnect, DropPost, dialogue
  <2> QED
    BY <1>1, <1>2, <1>3, <2>2, <2>3, ClosedFacts, Zenon DEF CallOK
<1>12. CASE FinishPost
  <2>1. call # NoCall /\ DOMAIN call = CallFields /\ call.at = "dispatching" /\ call.error = {}
    BY <1>12, Zenon DEF ShapeInv, FinishPost, FailInv
  <2>2. call'.error = {} /\ session' = Closed
    BY <1>12, <2>1, RepliedFacts DEF FinishPost
  <2> QED
    BY <1>1, <1>2, <1>3, <2>2, ClosedFacts, Zenon DEF CallOK
<1>13. CASE Hangup
  BY <1>1, <1>2, <1>3, <1>13, Zenon DEF Hangup, dialogue
<1>14. CASE Dispatch
  <2>1. UNCHANGED call /\ session'.tool = session.tool
    BY <1>14, Zenon DEF Dispatch, ShapeInv, SessionFields
  <2> QED
    BY <1>4, <2>1, Zenon
<1>15. ASSUME NEW outcome \in {{}} \cup {{e} : e \in ApplicationErrors}, ToolReturns(outcome)
       PROVE  FailInv'
  <2>1. /\ UNCHANGED call
        /\ session'.tool = {[error |-> e, result |-> ToolError(e)] : e \in outcome}
    BY <1>15, Zenon DEF ToolReturns, ShapeInv, SessionFields
  <2>2. outcome \subseteq ApplicationErrors
    BY Zenon
  <2>3. ToolOK(session'.tool)
    BY <2>1, <2>2, Zenon DEF ToolOK
  <2> QED
    BY <1>1, <1>2, <2>1, <2>3, Zenon
<1>16. CASE (\E frame \in Frames : ReadLine(frame)) \/ WriteFrame
  <2>1. UNCHANGED call /\ session'.tool = {}
    BY <1>16, OpenedFacts, Zenon DEF ReadLine, WriteFrame, ShapeInv, SessionFields
  <2> QED
    BY <1>1, <1>2, <1>3, <2>1, Zenon
<1> QED
  BY <1>5, <1>6, <1>7, <1>8, <1>9, <1>10, <1>11, <1>12, <1>13, <1>14, <1>15, <1>16, Zenon DEF Next

-----------------------------------------------------------------------------
(* The handshake of a session. *)

\* An initialize that was answered outside a batch, and the client's notification.
Greets(p) ==
    /\ p.item.valid /\ p.item.method = "initialize"
    /\ ~p.batch /\ p.answer # <<>> /\ p.answer[1].code = Success
Confirms(p) == p.item.valid /\ p.item.method = "notifications/initialized" /\ p.item.id = {}
Uses(p) ==
    /\ p.item.valid /\ p.item.method \in {"tools/list", "tools/call"}
    /\ p.answer # <<>> /\ p.answer[1].code # NotInitialized

\* The phase of the dispatcher is what has come so far.
HandshakeInv ==
    /\ \E S : past \in Seq(S)
    /\ session.at = "calling" => Calls(session.phase, Head(session.todo))
    /\ session.phase = "await_initialized" => \E i \in 1 .. Len(past) : Greets(past[i])
    /\ session.phase = "ready" =>
           \E i, j \in 1 .. Len(past) : i < j /\ Greets(past[i]) /\ Confirms(past[j])
    /\ process.at = "draining" => session.at = "closed" /\ session.phase = "await_initialize"
    /\ \A k \in 1 .. Len(past) :
           Uses(past[k]) => \E i, j \in 1 .. k - 1 : i < j /\ Greets(past[i]) /\ Confirms(past[j])

\* The last conjunct is HandshakeFirst in shorter terms.
LEMMA HandshakesCome == HandshakeInv => HandshakeFirst
<1> SUFFICES ASSUME HandshakeInv PROVE HandshakeFirst
  BY Zenon
<1>1. DOMAIN past = 1 .. Len(past) /\ Len(past) \in Nat
  BY DEF HandshakeInv
<1>2. ASSUME NEW k \in DOMAIN past, Uses(past[k])
      PROVE  \E i \in 1 .. k - 1 : \E j \in i + 1 .. k - 1 : Greets(past[i]) /\ Confirms(past[j])
  <2>1. PICK i \in 1 .. k - 1, j \in 1 .. k - 1 : i < j /\ Greets(past[i]) /\ Confirms(past[j])
    BY <1>1, <1>2, Zenon DEF HandshakeInv
  <2>2. k \in Nat /\ j \in i + 1 .. k - 1
    BY <1>1, <2>1
  <2> QED
    BY <2>1, <2>2, Zenon
<1> QED
  BY <1>2, Zenon DEF HandshakeFirst, Uses, Greets, Confirms

\* A list with one more element.
LEMMA AppendFacts ==
    ASSUME NEW S, NEW s \in Seq(S), NEW x
    PROVE  /\ Append(s, x) \in Seq(S \cup {x}) /\ Len(s) \in Nat
           /\ Len(Append(s, x)) = Len(s) + 1 /\ Append(s, x)[Len(s) + 1] = x
           /\ \A i \in 1 .. Len(s) : Append(s, x)[i] = s[i]
<1>1. s \in Seq(S \cup {x})
  OBVIOUS
<1> QED
  BY <1>1

\* One more item keeps what is said of the ones before it, and is answered like a
\* tool only behind a handshake.
LEMMA OneMore ==
    ASSUME HandshakeInv, NEW p, past' = Append(past, p),
           Uses(p) => session.phase = "ready"
    PROVE  /\ \E S : past' \in Seq(S)
           /\ Len(past) \in Nat /\ Len(past') = Len(past) + 1 /\ past'[Len(past) + 1] = p
           /\ \A i \in 1 .. Len(past) : past'[i] = past[i]
           /\ \A k \in 1 .. Len(past') :
                  Uses(past'[k]) =>
                      \E i, j \in 1 .. k - 1 : i < j /\ Greets(past'[i]) /\ Confirms(past'[j])
<1>1. PICK S : past \in Seq(S)
  BY Zenon DEF HandshakeInv
<1>2. /\ \E T : past' \in Seq(T)
      /\ Len(past) \in Nat /\ Len(past') = Len(past) + 1 /\ past'[Len(past) + 1] = p
      /\ \A i \in 1 .. Len(past) : past'[i] = past[i]
  <2>1. /\ Append(past, p) \in Seq(S \cup {p}) /\ Len(past) \in Nat
        /\ Len(Append(past, p)) = Len(past) + 1 /\ Append(past, p)[Len(past) + 1] = p
        /\ \A i \in 1 .. Len(past) : Append(past, p)[i] = past[i]
    BY <1>1, AppendFacts
  <2> QED
    BY <2>1, Zenon
<1>3. ASSUME NEW k \in 1 .. Len(past'), Uses(past'[k])
      PROVE  \E i, j \in 1 .. k - 1 : i < j /\ Greets(past'[i]) /\ Confirms(past'[j])
  <2>1. CASE k \in 1 .. Len(past)
    <3>1. PICK i \in 1 .. k - 1, j \in 1 .. k - 1 : i < j /\ Greets(past[i]) /\ Confirms(past[j])
      BY <1>2, <1>3, <2>1, Zenon DEF HandshakeInv
    <3>2. past'[i] = past[i] /\ past'[j] = past[j]
      BY <1>2, <2>1
    <3> QED
      BY <3>1, <3>2, Zenon
  <2>2. CASE k = Len(past) + 1
    <3>1. PICK i \in 1 .. Len(past), j \in 1 .. Len(past) : i < j /\ Greets(past[i]) /\ Confirms(past[j])
      BY <1>2, <1>3, <2>2, Zenon DEF HandshakeInv
    <3>2. past'[i] = past[i] /\ past'[j] = past[j] /\ k - 1 = Len(past)
      BY <1>2, <2>2
    <3> QED
      BY <3>1, <3>2, Zenon
  <2> QED
    BY <1>2, <2>1, <2>2
<1> QED
  BY <1>2, <1>3, Zenon

\* A tool is answered in a phase that is ready.
LEMMA AnswerFacts ==
    ASSUME NEW phase, NEW item, NEW batch,
           NEW answer, answer = IF batch THEN AnswerInBatch(phase, item) ELSE Answer(phase, item)
    PROVE  /\ Uses([item |-> item, batch |-> batch, answer |-> answer]) => Ready(phase)
           /\ /\ item.valid /\ item.method = "initialize" /\ item.id # {} /\ ~batch
              /\ phase = "await_initialize" /\ item.params = "ok"
              => Greets([item |-> item, batch |-> batch, answer |-> answer])
<1> DEFINE p == [item |-> item, batch |-> batch, answer |-> answer]
<1>1. p.item = item /\ p.batch = batch /\ p.answer = answer
  BY Zenon
<1> HIDE DEF p
<1>2. ASSUME item.valid, item.id # {}, ~(batch /\ InBatch(item))
      PROVE  answer # <<>> /\ answer[1].code = Code(phase, item)
  <2>1. answer = <<Rpc(item.id, Code(phase, item))>>
    BY <1>2, Zenon DEF AnswerInBatch, Answer
  <2> QED
    BY <2>1 DEF Rpc
<1>3. ASSUME Uses(p)
      PROVE  Ready(phase)
  <2>1. item.valid /\ item.method \in {"tools/list", "tools/call"} /\ answer # <<>>
    BY <1>1, <1>3, Zenon DEF Uses
  <2>2. ~InBatch(item)
    BY <2>1, Zenon DEF InBatch
  <2>3. item.id # {}
    BY <2>1, <2>2, Zenon DEF AnswerInBatch, Answer
  <2>4. Code(phase, item) # NotInitialized
    BY <1>1, <1>2, <1>3, <2>1, <2>2, <2>3, ZenonT(30) DEF Uses
  <2> QED
    BY <2>1, <2>4, Zenon DEF Code
<1>4. ASSUME item.valid, item.method = "initialize", item.id # {}, ~batch,
             phase = "await_initialize", item.params = "ok"
      PROVE  Greets(p)
  <2>1. Code(phase, item) = Success
    BY <1>4, Zenon DEF Code, Initialize, Required
  <2> QED
    BY <1>1, <1>2, <1>4, <2>1, Zenon DEF Greets
<1> QED
  BY <1>3, <1>4, Zenon DEF p

\* How an item changes the phase.
LEMMA PhaseSteps ==
    ASSUME NEW phase, NEW item
    PROVE  \/ PhaseAfter(phase, item) = phase
           \/ /\ PhaseAfter(phase, item) = "await_initialized"
              /\ item.valid /\ item.method = "initialize" /\ item.id # {}
              /\ phase = "await_initialize" /\ item.params = "ok"
           \/ /\ PhaseAfter(phase, item) = "ready"
              /\ item.valid /\ item.method = "notifications/initialized" /\ item.id = {}
              /\ phase = "await_initialized"
BY Zenon DEF PhaseAfter

\* Every step keeps the phase and the past together.
LEMMA NextHandshake ==
    ASSUME ShapeInv, HandshakeInv, Next
    PROVE  HandshakeInv'
<1>1. ASSUME UNCHANGED past, session'.at # "calling", session'.phase \in {session.phase, "await_initialize", "stateless"},
             process'.at # "draining"
      PROVE  HandshakeInv'
  BY <1>1, Zenon DEF HandshakeInv
<1>2. CASE UNCHANGED <<past, session>> /\ (process'.at = process.at \/ process'.at # "draining")
  BY <1>2, Zenon DEF HandshakeInv
<1>3. ASSUME NEW p, past' = Append(past, p), Uses(p) => session.phase = "ready",
             session'.at # "calling", process.at # "draining", UNCHANGED process,
             \/ session'.phase = session.phase
             \/ session'.phase = "await_initialized" /\ Greets(p)
             \/ session'.phase = "ready" /\ session.phase = "await_initialized" /\ Confirms(p)
      PROVE  HandshakeInv'
  <2>1. /\ \E S : past' \in Seq(S)
        /\ Len(past) \in Nat /\ Len(past') = Len(past) + 1 /\ past'[Len(past) + 1] = p
        /\ \A i \in 1 .. Len(past) : past'[i] = past[i]
    BY <1>3, OneMore, Zenon
  <2>2. \A k \in 1 .. Len(past') :
            Uses(past'[k]) =>
                \E i, j \in 1 .. k - 1 : i < j /\ Greets(past'[i]) /\ Confirms(past'[j])
    BY <1>3, OneMore, Zenon
  <2>3. ASSUME session'.phase = "await_initialized"
        PROVE  \E i \in 1 .. Len(past') : Greets(past'[i])
    <3>1. CASE session'.phase = session.phase
      <4>1. PICK i \in 1 .. Len(past) : Greets(past[i])
        BY <2>3, <3>1, Zenon DEF HandshakeInv
      <4>2. i \in 1 .. Len(past') /\ past'[i] = past[i]
        BY <2>1
      <4> QED
        BY <4>1, <4>2, Zenon
    <3>2. CASE Greets(p)
      <4>1. Len(past) + 1 \in 1 .. Len(past')
        BY <2>1
      <4> QED
        BY <2>1, <3>2, <4>1, Zenon
    <3> QED
      BY <1>3, <2>3, <3>1, <3>2, Zenon
  <2>4. ASSUME session'.phase = "ready"
        PROVE  \E i, j \in 1 .. Len(past') : i < j /\ Greets(past'[i]) /\ Confirms(past'[j])
    <3>1. CASE session'.phase = session.phase
      <4>1. PICK i \in 1 .. Len(past), j \in 1 .. Len(past) : i < j /\ Greets(past[i]) /\ Confirms(past[j])
        BY <2>4, <3>1, Zenon DEF HandshakeInv
      <4>2. i \in 1 .. Len(past') /\ past'[i] = past[i] /\ j \in 1 .. Len(past') /\ past'[j] = past[j]
        BY <2>1
      <4> QED
        BY <4>1, <4>2, Zenon
    <3>2. CASE session.phase = "await_initialized" /\ Confirms(p)
      <4>1. PICK i \in 1 .. Len(past) : Greets(past[i])
        BY <3>2, Zenon DEF HandshakeInv
      <4>2. /\ i \in 1 .. Len(past') /\ past'[i] = past[i]
            /\ Len(past) + 1 \in 1 .. Len(past') /\ i < Len(past) + 1
        BY <2>1
      <4> QED
        BY <2>1, <3>2, <4>1, <4>2, Zenon
    <3> QED
      BY <1>3, <2>4, <3>1, <3>2, Zenon
  <2> QED
    BY <1>3, <2>1, <2>2, <2>3, <2>4, Zenon DEF HandshakeInv
<1>4. CASE \/ \E command \in {"serve", "mcp", "doctor"}, d \in 0 .. Len(Documents),
                 e \in DOMAIN Environments, l \in DOMAIN CommandLines :
                    Load(command, IF d = 0 THEN {} ELSE {Documents[d]}, Environments[e],
                         CommandLines[l])
           \/ \E available \in BOOLEAN : Construct(available)
  <2>1. UNCHANGED <<past, session>> /\ process'.at \in {"exited", "loaded", "built"}
    BY <1>4, Zenon DEF Load, Construct, Exit, dialogue, ShapeInv, ProcessFields
  <2> QED
    BY <1>2, <2>1, Zenon
<1>5. CASE Preload
  <2>1. /\ UNCHANGED past /\ session' \in {session, [Closed EXCEPT !.at = "reading"]}
        /\ process'.at \in {"exited", "serving", "stdio"}
    BY <1>5, Zenon DEF Preload, Exit, ShapeInv, ProcessFields
  <2>2. [Closed EXCEPT !.at = "reading"].phase = "await_initialize"
        /\ [Closed EXCEPT !.at = "reading"].at = "reading"
    BY ClosedFacts, Zenon DEF SessionFields
  <2> QED
    BY <1>1, <1>2, <2>1, <2>2, Zenon
<1>6. ASSUME NEW via, NEW request, Receive(via, request)
      PROVE  HandshakeInv'
  <2>1. /\ UNCHANGED <<process, past>> /\ process.at = "serving"
        /\ session' \in {session, Opened([Closed EXCEPT !.phase = "stateless"], request.frame)}
    BY <1>6, ReceiveFacts, Zenon DEF boot
  <2> DEFINE s == [Closed EXCEPT !.phase = "stateless"]
  <2>2. DOMAIN s = SessionFields /\ s.phase = "stateless"
    BY ClosedFacts, Zenon DEF SessionFields
  <2>3. Opened(s, request.frame).phase = "stateless" /\ Opened(s, request.frame).at = "dispatching"
    BY <2>2, OpenedFacts, Zenon
  <2> QED
    BY <1>1, <1>2, <2>1, <2>3, Zenon
<1>7. CASE (\E request : GrpcReceive(request)) \/ (\E outcome : Respond(outcome))
           \/ GrpcTimer \/ Disconnect \/ Hangup
  <2>1. UNCHANGED <<process, past, session>>
    BY <1>7, Zenon DEF GrpcReceive, Respond, GrpcTimer, Disconnect, Hangup, boot, dialogue
  <2> QED
    BY <1>2, <2>1, Zenon
<1>8. CASE FinishPost \/ DropPost
  <2>1. UNCHANGED <<process, past>> /\ session' = Closed /\ session.at \in {"dispatching", "calling"}
    BY <1>8, Zenon DEF FinishPost, DropPost, boot
  <2>2. process.at # "draining"
    BY <2>1, Zenon DEF HandshakeInv
  <2> QED
    BY <1>1, <2>1, <2>2, ClosedFacts, Zenon
<1>9. ASSUME NEW failed, CloseStdio(failed)
      PROVE  HandshakeInv'
  <2>1. UNCHANGED past /\ session' = Closed
    BY <1>9, Zenon DEF CloseStdio
  <2> QED
    BY <2>1, ClosedFacts, Zenon DEF HandshakeInv
<1>10. ASSUME NEW drained, Drain(drained)
       PROVE  HandshakeInv'
  <2>1. past' = <<>> /\ session' = session /\ process'.at = "exited"
        /\ session.at = "closed" /\ session.phase = "await_initialize"
    BY <1>10, Zenon DEF Drain, Exit, HandshakeInv, ShapeInv, ProcessFields
  <2> QED
    BY <2>1 DEF HandshakeInv
<1>11. ASSUME NEW frame, ReadLine(frame)
       PROVE  HandshakeInv'
  <2>1. /\ UNCHANGED process /\ session.at = "reading"
        /\ session'.at = "dispatching" /\ session'.phase = session.phase
    BY <1>11, OpenedFacts, Zenon DEF ReadLine, boot, ShapeInv
  <2>2. process.at # "draining"
    BY <2>1, Zenon DEF HandshakeInv
  <2>3. CASE UNCHANGED past
    BY <1>1, <2>1, <2>2, <2>3, Zenon
  <2>4. CASE past' = Append(past, [item |-> [valid |-> FALSE], batch |-> FALSE,
                                  answer |-> session'.answers])
    <3> DEFINE p == [item |-> [valid |-> FALSE], batch |-> FALSE, answer |-> session'.answers]
    <3>1. ~Uses(p)
      BY Zenon DEF Uses
    <3> HIDE DEF p
    <3>2. past' = Append(past, p)
      BY <2>4, Zenon DEF p
    <3> QED
      BY <1>3, <2>1, <2>2, <3>1, <3>2, Zenon
  <2> QED
    BY <1>11, <2>3, <2>4, Zenon DEF ReadLine
<1>12. CASE WriteFrame
  <2>1. /\ UNCHANGED <<process, past>> /\ session.at = "dispatching"
        /\ session'.at = "reading" /\ session'.phase = session.phase
    BY <1>12, Zenon DEF WriteFrame, boot, ShapeInv, SessionFields
  <2>2. process.at # "draining"
    BY <2>1, Zenon DEF HandshakeInv
  <2> QED
    BY <1>1, <2>1, <2>2, Zenon
<1>13. ASSUME NEW outcome, ToolReturns(outcome)
       PROVE  HandshakeInv'
  <2> DEFINE item == Head(session.todo)
             p == [item |-> item, batch |-> session.batch, answer |-> <<Rpc(item.id, Success)>>]
  <2>1. /\ UNCHANGED process /\ session.at = "calling" /\ session'.at = "dispatching"
        /\ session'.phase = session.phase
        /\ past' = IF session.phase = "stateless" THEN past ELSE Append(past, p)
    BY <1>13, Zenon DEF ToolReturns, Recorded, boot, ShapeInv, SessionFields
  <2>2. process.at # "draining" /\ Calls(session.phase, item)
    BY <2>1 DEF HandshakeInv
  <2>3. Ready(session.phase)
    BY <2>2 DEF Calls, Code, Success, NotInitialized
  <2> HIDE DEF p
  <2>4. CASE session.phase = "stateless"
    BY <1>1, <2>1, <2>2, <2>4, Zenon
  <2>5. CASE session.phase = "ready"
    BY <1>3, <2>1, <2>2, <2>5, Zenon
  <2> QED
    BY <2>3, <2>4, <2>5, Zenon DEF Ready
<1>14. CASE Dispatch
  <2> DEFINE item == Head(session.todo)
             skipped == session.batch /\ InBatch(item)
             answer == IF session.batch THEN AnswerInBatch(session.phase, item)
                       ELSE Answer(session.phase, item)
             p == [item |-> item, batch |-> session.batch, answer |-> answer]
  <2>1. UNCHANGED process /\ session.at = "dispatching"
    BY <1>14, Zenon DEF Dispatch, boot
  <2>2. process.at # "draining"
    BY <2>1, Zenon DEF HandshakeInv
  <2>3. \/ /\ Calls(session.phase, item)
           /\ session' = [session EXCEPT !.at = "calling"] /\ UNCHANGED past
        \/ /\ session' = [session EXCEPT !.todo = Tail(@), !.answers = @ \o answer,
                              !.phase = IF skipped THEN @ ELSE PhaseAfter(@, item)]
           /\ past' = Recorded(item, answer)
    BY <1>14, Zenon DEF Dispatch
  <2>4. CASE /\ Calls(session.phase, item)
             /\ session' = [session EXCEPT !.at = "calling"] /\ UNCHANGED past
    <3>1. session'.todo = session.todo /\ session'.phase = session.phase
      BY <2>4, Zenon DEF ShapeInv, SessionFields
    <3> QED
      BY <2>1, <2>4, <3>1, ZenonT(30) DEF HandshakeInv
  <2>5. CASE /\ session' = [session EXCEPT !.todo = Tail(@), !.answers = @ \o answer,
                                !.phase = IF skipped THEN @ ELSE PhaseAfter(@, item)]
             /\ past' = Recorded(item, answer)
    <3>1. /\ session'.at = "dispatching"
          /\ session'.phase = IF skipped THEN session.phase ELSE PhaseAfter(session.phase, item)
          /\ past' = IF session.phase = "stateless" THEN past ELSE Append(past, p)
      BY <2>1, <2>5, Zenon DEF ShapeInv, SessionFields, Recorded
    <3>2. Uses(p) => Ready(session.phase)
      BY AnswerFacts, Zenon
    <3>3. /\ item.valid /\ item.method = "initialize" /\ item.id # {} /\ ~session.batch
          /\ session.phase = "await_initialize" /\ item.params = "ok"
          => Greets(p)
      BY AnswerFacts, Zenon
    <3>4. item.valid /\ item.method = "notifications/initialized" /\ item.id = {} => Confirms(p)
      BY Zenon DEF Confirms
    <3> HIDE DEF p, answer, item
    <3>5. \/ session'.phase = session.phase
          \/ session'.phase = "await_initialized" /\ Greets(p) /\ session.phase # "stateless"
          \/ session'.phase = "ready" /\ session.phase = "await_initialized" /\ Confirms(p)
      <4>1. CASE skipped
        BY <3>1, <4>1, Zenon
      <4>2. CASE ~skipped
        BY <3>1, <3>3, <3>4, <4>2, PhaseSteps DEF InBatch
      <4> QED
        BY <4>1, <4>2, Zenon
    <3>6. CASE session.phase = "stateless"
      BY <1>1, <2>1, <2>2, <3>1, <3>5, <3>6, ZenonT(30)
    <3>7. CASE session.phase # "stateless"
      BY <1>3, <2>1, <2>2, <3>1, <3>2, <3>5, <3>7, ZenonT(30) DEF Ready
    <3> QED
      BY <3>6, <3>7, Zenon
  <2> QED
    BY <2>3, <2>4, <2>5, Zenon
<1> QED
  BY <1>4, <1>5, <1>6, <1>7, <1>8, <1>9, <1>10, <1>11, <1>12, <1>13, <1>14, Zenon DEF Next

-----------------------------------------------------------------------------
(* Where a field of the configuration comes from. *)

\* Until AppState is built, the sources are those the configuration was loaded from.
SourceInv ==
    process.at = "loaded" =>
        \E d, v, a : /\ sources = {[toml |-> d, env |-> v, cli |-> a]}
                     /\ config = LoadConfig(d, v, a) /\ config # {}
                     /\ \A x, y \in d : x = y

\* A patch has the keys of its entries, each with the one value the source gives.
LEMMA PatchFacts ==
    ASSUME NEW entries, NEW p \in Patch(entries)
    PROVE  /\ DOMAIN p = {entries[i].key : i \in DOMAIN entries}
           /\ \A i \in DOMAIN entries : p[entries[i].key] = entries[i].raw
<1>1. /\ \A i, j \in DOMAIN entries : entries[i].key = entries[j].key => i = j
      /\ p = [k \in {entries[i].key : i \in DOMAIN entries} |->
                  entries[CHOOSE i \in DOMAIN entries : entries[i].key = k].raw]
  BY Zenon DEF Patch
<1>2. ASSUME NEW i \in DOMAIN entries
      PROVE  p[entries[i].key] = entries[i].raw
  <2> DEFINE j == CHOOSE j \in DOMAIN entries : entries[j].key = entries[i].key
  <2>1. j \in DOMAIN entries /\ entries[j].key = entries[i].key
    BY Zenon
  <2>2. j = i
    BY <1>1, <2>1, Zenon
  <2>3. p[entries[i].key] = entries[j].raw
    BY <1>1, Zenon
  <2> QED
    BY <2>2, <2>3, Zenon
<1> QED
  BY <1>1, <1>2, Zenon

\* Two keys set the same field only if they are alternatives for a credential.
LEMMA FieldFacts ==
    ASSUME NEW j \in ConfigKey, NEW k \in ConfigKey, FieldOf(j) = FieldOf(k)
    PROVE  j = k \/ (j \in PublicAuth /\ k \in PublicAuth) \/ (j \in AdminAuth /\ k \in AdminAuth)
<1>1. "auth" \notin ConfigKey /\ "admin_auth" \notin ConfigKey
  BY Zenon DEF ConfigKey, PublicAuth, AdminAuth, FlagKeys, ListKeys, SizeKeys, TimeKeys
<1>2. PublicAuth \cap AdminAuth = {}
  BY Zenon DEF PublicAuth, AdminAuth
<1> QED
  BY <1>1, <1>2, Zenon DEF FieldOf

\* A patch that applies sets the fields of its keys and leaves the others.
LEMMA ApplyFacts ==
    ASSUME NEW patch, DOMAIN patch \subseteq ConfigKey, NEW base, NEW c \in Apply(patch, base)
    PROVE  /\ DOMAIN c = DOMAIN base
           /\ \A f \in DOMAIN base :
                  /\ \A k \in DOMAIN patch : FieldOf(k) = f => c[f] = Applied(k, patch[k])
                  /\ (\A k \in DOMAIN patch : FieldOf(k) # f) => c[f] = base[f]
<1>1. /\ \A j, k \in PublicAuth \cap DOMAIN patch : j = k
      /\ \A j, k \in AdminAuth \cap DOMAIN patch : j = k
      /\ c = [f \in DOMAIN base |->
                 IF \E k \in DOMAIN patch : FieldOf(k) = f
                 THEN Applied(CHOOSE k \in DOMAIN patch : FieldOf(k) = f,
                              patch[CHOOSE k \in DOMAIN patch : FieldOf(k) = f])
                 ELSE base[f]]
  BY Zenon DEF Apply
<1>2. ASSUME NEW f \in DOMAIN base, NEW k \in DOMAIN patch, FieldOf(k) = f
      PROVE  c[f] = Applied(k, patch[k])
  <2> DEFINE j == CHOOSE j \in DOMAIN patch : FieldOf(j) = f
  <2>1. j \in DOMAIN patch /\ FieldOf(j) = f
    BY <1>2, Zenon
  <2>2. j = k
    BY <1>1, <1>2, <2>1, FieldFacts, Zenon
  <2>3. c[f] = Applied(j, patch[j])
    BY <1>1, <1>2, Zenon
  <2> QED
    BY <2>2, <2>3, Zenon
<1>3. ASSUME NEW f \in DOMAIN base, \A k \in DOMAIN patch : FieldOf(k) # f
      PROVE  c[f] = base[f]
  BY <1>1, <1>3, Zenon
<1> QED
  BY <1>1, <1>2, <1>3, Zenon

\* What a list of entries says of a field.
Said(entries, f) ==
    {Applied(entries[i].key, entries[i].raw) : i \in {j \in DOMAIN entries : FieldOf(entries[j].key) = f}}

\* What an environment and a command line say of it.
EnvSays(variables, f) ==
    {IF variables[i].key \in TokenPresent THEN {[kind |-> "env", name |-> variables[i].name]}
     ELSE Applied(variables[i].key, variables[i].raw) :
        i \in {j \in DOMAIN variables : variables[j].prefixed /\ FieldOf(variables[j].key) = f}}
CliSays(arguments, f) ==
    {IF arguments[i].option \in FlagKeys THEN TRUE
     ELSE Applied(arguments[i].option, CHOOSE r \in arguments[i].raw : TRUE) :
        i \in {j \in DOMAIN arguments : FieldOf(arguments[j].option) = f}}

\* A source that says something of a field sets it, and else leaves it.
LEMMA SourceSets ==
    ASSUME NEW entries, \A i \in DOMAIN entries : entries[i].key \in ConfigKey,
           NEW p \in Patch(entries), NEW base, NEW c \in Apply(p, base)
    PROVE  /\ DOMAIN c = DOMAIN base
           /\ \A f \in DOMAIN base :
                  {c[f]} = IF Said(entries, f) # {} THEN Said(entries, f) ELSE {base[f]}
<1>1. /\ DOMAIN p = {entries[i].key : i \in DOMAIN entries}
      /\ \A i \in DOMAIN entries : p[entries[i].key] = entries[i].raw
  BY PatchFacts, Zenon
<1>2. DOMAIN p \subseteq ConfigKey
  BY <1>1, Zenon
<1>3. /\ DOMAIN c = DOMAIN base
      /\ \A f \in DOMAIN base :
             /\ \A k \in DOMAIN p : FieldOf(k) = f => c[f] = Applied(k, p[k])
             /\ (\A k \in DOMAIN p : FieldOf(k) # f) => c[f] = base[f]
  BY <1>2, ApplyFacts
<1>4. ASSUME NEW f \in DOMAIN base
      PROVE  {c[f]} = IF Said(entries, f) # {} THEN Said(entries, f) ELSE {base[f]}
  <2>1. ASSUME NEW i \in DOMAIN entries, FieldOf(entries[i].key) = f
        PROVE  c[f] = Applied(entries[i].key, entries[i].raw)
    BY <1>1, <1>3, <1>4, <2>1
  <2>2. CASE \E i \in DOMAIN entries : FieldOf(entries[i].key) = f
    <3>1. Said(entries, f) = {c[f]}
      BY <2>1, <2>2, Zenon DEF Said
    <3> QED
      BY <3>1, Zenon
  <2>3. CASE \A i \in DOMAIN entries : FieldOf(entries[i].key) # f
    <3>1. Said(entries, f) = {}
      BY <2>3, Zenon DEF Said
    <3>2. c[f] = base[f]
      BY <1>1, <1>3, <1>4, <2>3
    <3> QED
      BY <3>1, <3>2, Zenon
  <2> QED
    BY <2>2, <2>3, Zenon
<1> QED
  BY <1>3, <1>4, Zenon

\* The keys that are flags or stand for a token, and the fields they set.
LEMMA SpecialKeys ==
    /\ \A k \in TokenPresent : \A raw : Applied(k, raw) = {raw.value}
    /\ \A k \in FlagKeys : \A raw : Applied(k, raw) = raw.value
<1>1. \A k \in TokenPresent : FieldOf(k) \in {"auth", "admin_auth"}
  BY Zenon DEF TokenPresent, FieldOf, PublicAuth, AdminAuth
<1>2. \A k \in FlagKeys : FieldOf(k) \notin {"auth", "admin_auth"}
  BY Zenon DEF FlagKeys, FieldOf, PublicAuth, AdminAuth
<1> QED
  BY <1>1, <1>2, Zenon DEF Applied

\* The environment is a list of entries: what it says is what its own variables say.
LEMMA EnvironmentFacts ==
    ASSUME NEW variables, NEW p \in ParseEnvironment(variables)
    PROVE  \E entries :
               /\ p \in Patch(entries)
               /\ \A i \in DOMAIN entries : entries[i].key \in ConfigKey
               /\ \A f : Said(entries, f) = EnvSays(variables, f)
<1> DEFINE ours == RestrictValues(variables, LAMBDA v : v.prefixed)
           Entry(v) == IF v.key \in TokenPresent
                       THEN [key |-> v.key, raw |-> [form |-> "scalar", parses |-> TRUE,
                                                     value |-> [kind |-> "env", name |-> v.name]]]
                       ELSE [key |-> v.key, raw |-> v.raw]
           entries == [i \in DOMAIN ours |-> Entry(ours[i])]
           Value(v) == IF v.key \in TokenPresent THEN {[kind |-> "env", name |-> v.name]}
                       ELSE Applied(v.key, v.raw)
<1>1. /\ DOMAIN ours = {i \in DOMAIN variables : variables[i].prefixed}
      /\ \A i \in DOMAIN ours : ours[i] = variables[i]
  BY Zenon DEF RestrictValues, Restrict
<1>2. p \in Patch(entries) /\ \A i \in DOMAIN ours : ours[i].key \in ConfigKey
  BY Zenon DEF ParseEnvironment
<1>3. ASSUME NEW v
      PROVE  Entry(v).key = v.key /\ Applied(Entry(v).key, Entry(v).raw) = Value(v)
  <2>1. CASE v.key \in TokenPresent
    BY <2>1, SpecialKeys
  <2>2. CASE v.key \notin TokenPresent
    BY <2>2, Zenon
  <2> QED
    BY <2>1, <2>2, Zenon
<1> HIDE DEF ours, Entry, Value
<1>4. /\ DOMAIN entries = DOMAIN ours
      /\ \A i \in DOMAIN ours : entries[i] = Entry(variables[i])
  BY <1>1, Zenon
<1> HIDE DEF entries
<1>5. \A i \in DOMAIN entries : entries[i].key \in ConfigKey
  BY <1>1, <1>2, <1>3, <1>4
<1>6. ASSUME NEW f
      PROVE  Said(entries, f) =
                 {Value(variables[i]) : i \in {j \in DOMAIN variables : variables[j].prefixed /\ FieldOf(variables[j].key) = f}}
  <2>1. \A i \in DOMAIN entries : /\ entries[i].key = variables[i].key
                                  /\ Applied(entries[i].key, entries[i].raw) = Value(variables[i])
    BY <1>3, <1>4, Zenon
  <2>2. {j \in DOMAIN entries : FieldOf(entries[j].key) = f} =
            {j \in DOMAIN variables : variables[j].prefixed /\ FieldOf(variables[j].key) = f}
    BY <1>1, <1>4, <2>1, Zenon
  <2> QED
    BY <2>1, <2>2, Zenon DEF Said
<1> QED
  BY <1>2, <1>5, <1>6, Zenon DEF Value, EnvSays

\* So is the command line.
LEMMA CommandLineFacts ==
    ASSUME NEW arguments, NEW p \in ParseCli(arguments)
    PROVE  \E entries :
               /\ p \in Patch(entries)
               /\ \A i \in DOMAIN entries : entries[i].key \in ConfigKey
               /\ \A f : Said(entries, f) = CliSays(arguments, f)
<1> DEFINE Entry(a) == [key |-> a.option,
                        raw |-> IF a.option \in FlagKeys
                                THEN [form |-> "scalar", parses |-> TRUE, value |-> TRUE]
                                ELSE CHOOSE r \in a.raw : TRUE]
           entries == [i \in DOMAIN arguments |-> Entry(arguments[i])]
           Value(a) == IF a.option \in FlagKeys THEN TRUE
                       ELSE Applied(a.option, CHOOSE r \in a.raw : TRUE)
<1>1. p \in Patch(entries) /\ \A i \in DOMAIN arguments : arguments[i].option \in ConfigKey
  BY Zenon DEF ParseCli
<1>2. ASSUME NEW a
      PROVE  Entry(a).key = a.option /\ Applied(Entry(a).key, Entry(a).raw) = Value(a)
  <2>1. CASE a.option \in FlagKeys
    <3>1. Entry(a).key = a.option /\ Entry(a).raw.value = TRUE
      BY <2>1, Zenon
    <3>2. Applied(a.option, Entry(a).raw) = Entry(a).raw.value
      BY <2>1, SpecialKeys, Zenon
    <3> HIDE DEF Entry
    <3> QED
      BY <2>1, <3>1, <3>2, Zenon
  <2>2. CASE a.option \notin FlagKeys
    BY <2>2
  <2> QED
    BY <2>1, <2>2, Zenon
<1> HIDE DEF Entry, Value
<1>3. /\ DOMAIN entries = DOMAIN arguments
      /\ \A i \in DOMAIN arguments : entries[i] = Entry(arguments[i])
  BY Zenon
<1> HIDE DEF entries
<1>4. \A i \in DOMAIN entries : entries[i].key \in ConfigKey
  BY <1>1, <1>2, <1>3
<1>5. ASSUME NEW f
      PROVE  Said(entries, f) =
                 {Value(arguments[i]) : i \in {j \in DOMAIN arguments : FieldOf(arguments[j].option) = f}}
  <2>1. \A i \in DOMAIN entries : /\ entries[i].key = arguments[i].option
                                  /\ Applied(entries[i].key, entries[i].raw) = Value(arguments[i])
    BY <1>2, <1>3, Zenon
  <2>2. {j \in DOMAIN entries : FieldOf(entries[j].key) = f} =
            {j \in DOMAIN arguments : FieldOf(arguments[j].option) = f}
    BY <1>3, <2>1, Zenon
  <2> QED
    BY <2>1, <2>2, Zenon DEF Said
<1> QED
  BY <1>1, <1>4, <1>5, Zenon DEF Value, CliSays

\* The sources as the property reads them.
LEMMA SaysFacts ==
    ASSUME NEW d, NEW v, NEW a, sources = {[toml |-> d, env |-> v, cli |-> a]}, NEW f
    PROVE  /\ Says("cli", f) = CliSays(a, f)
           /\ Says("env", f) = EnvSays(v, f)
           /\ Says("toml", f) = UNION {Said(x.entries, f) : x \in d}
<1> DEFINE from == CHOOSE s \in sources : TRUE
<1>1. from = [toml |-> d, env |-> v, cli |-> a]
  BY Zenon
<1>2. from.toml = d /\ from.env = v /\ from.cli = a
  BY <1>1
<1> HIDE DEF from
<1> QED
  BY <1>2, Zenon DEF Says, from, Said, CliSays, EnvSays

\* The merge takes every field from the strongest source.
LEMMA StrongestWins == SourceInv => StrongestSourceWins
<1> SUFFICES ASSUME SourceInv, process.at = "loaded", NEW f \in DOMAIN DefaultConfig
             PROVE  {TheConfig[f]} =
                        IF Says("cli", f) # {} THEN Says("cli", f)
                        ELSE IF Says("env", f) # {} THEN Says("env", f)
                        ELSE IF Says("toml", f) # {} THEN Says("toml", f)
                        ELSE {DefaultConfig[f]}
  BY Zenon DEF StrongestSourceWins
<1>1. PICK d, v, a : /\ sources = {[toml |-> d, env |-> v, cli |-> a]}
                     /\ config = LoadConfig(d, v, a) /\ config # {}
                     /\ \A x, y \in d : x = y
  BY Zenon DEF SourceInv
<1>2. TheConfig \in LoadConfig(d, v, a)
  BY <1>1, Zenon DEF TheConfig
<1> DEFINE Over(patches, configs) == UNION {Apply(p, c) : p \in patches, c \in configs}
           toml == IF d = {} THEN {DefaultConfig}
                   ELSE Over(UNION {ParseToml(x) : x \in d}, {DefaultConfig})
           env == Over(ParseEnvironment(v), toml)
<1>3. TheConfig \in Over(ParseCli(a), env)
  BY <1>2 DEF LoadConfig
<1>4. PICK p \in ParseCli(a), e \in env : TheConfig \in Apply(p, e)
  <2> HIDE DEF env
  <2> QED
    BY <1>3
<1>5. PICK q \in ParseEnvironment(v), t \in toml : e \in Apply(q, t)
  <2> HIDE DEF toml
  <2> QED
    BY <1>4
<1>6. (t = DefaultConfig /\ d = {}) \/ \E x \in d : \E r \in ParseToml(x) : t \in Apply(r, DefaultConfig)
  BY <1>5
<1> HIDE DEF Over, toml, env
<1>7. /\ Says("cli", f) = CliSays(a, f) /\ Says("env", f) = EnvSays(v, f)
      /\ Says("toml", f) = UNION {Said(x.entries, f) : x \in d}
  <2>1. sources = {[toml |-> d, env |-> v, cli |-> a]}
    BY <1>1, Zenon
  <2> QED
    BY <2>1, SaysFacts
<1>8. /\ DOMAIN t = DOMAIN DefaultConfig
      /\ {t[f]} = IF Says("toml", f) # {} THEN Says("toml", f) ELSE {DefaultConfig[f]}
  <2>1. Says("toml", f) = UNION {Said(x.entries, f) : x \in d}
    BY <1>7, Zenon
  <2>2. CASE t = DefaultConfig /\ d = {}
    <3>1. Says("toml", f) = {}
      BY <2>1, <2>2, Zenon
    <3> QED
      BY <2>2, <3>1, Zenon
  <2>3. ASSUME NEW x \in d, NEW r \in ParseToml(x), t \in Apply(r, DefaultConfig)
        PROVE  /\ DOMAIN t = DOMAIN DefaultConfig
               /\ {t[f]} = IF Says("toml", f) # {} THEN Says("toml", f) ELSE {DefaultConfig[f]}
    <3>1. r \in Patch(x.entries) /\ \A i \in DOMAIN x.entries : x.entries[i].key \in ConfigKey
      BY <2>3, Zenon DEF ParseToml
    <3>2. d = {x}
      BY <1>1, <2>3, Zenon
    <3>3. Says("toml", f) = Said(x.entries, f)
      <4>1. {Said(y.entries, f) : y \in d} = {Said(x.entries, f)}
        BY <3>2, Zenon
      <4> QED
        BY <2>1, <4>1, Zenon
    <3> QED
      BY <2>3, <3>1, <3>3, SourceSets
  <2> QED
    BY <1>6, <2>2, <2>3, Zenon
<1>9. /\ DOMAIN e = DOMAIN t
      /\ {e[f]} = IF Says("env", f) # {} THEN Says("env", f) ELSE {t[f]}
  <2>1. PICK entries :
            /\ q \in Patch(entries) /\ \A i \in DOMAIN entries : entries[i].key \in ConfigKey
            /\ \A g : Said(entries, g) = EnvSays(v, g)
    BY <1>5, EnvironmentFacts, Zenon
  <2>2. Said(entries, f) = Says("env", f)
    BY <1>7, <2>1, Zenon
  <2>3. f \in DOMAIN t
    BY <1>8, Zenon
  <2> QED
    BY <1>5, <2>1, <2>2, <2>3, SourceSets
<1>10. {TheConfig[f]} = IF Says("cli", f) # {} THEN Says("cli", f) ELSE {e[f]}
  <2>1. PICK entries :
            /\ p \in Patch(entries) /\ \A i \in DOMAIN entries : entries[i].key \in ConfigKey
            /\ \A g : Said(entries, g) = CliSays(a, g)
    BY <1>4, CommandLineFacts, Zenon
  <2>2. Said(entries, f) = Says("cli", f)
    BY <1>7, <2>1, Zenon
  <2>3. f \in DOMAIN e
    BY <1>8, <1>9, Zenon
  <2> QED
    BY <1>4, <2>1, <2>2, <2>3, SourceSets
<1> QED
  BY <1>8, <1>9, <1>10, Zenon

\* Only Load sets the sources, and Construct leaves them.
LEMMA NextSource ==
    ASSUME ShapeInv, SourceInv, Next
    PROVE  SourceInv'
<1>1. ASSUME NEW command, NEW d, NEW v, NEW a, Load(command, d, v, a), \A x, y \in d : x = y
      PROVE  SourceInv'
  <2>1. \/ process'.at = "exited"
        \/ /\ sources' = {[toml |-> d, env |-> v, cli |-> a]}
           /\ config' = LoadConfig(d, v, a) /\ config' # {}
    BY <1>1, Zenon DEF Load, Exit, ShapeInv, ProcessFields
  <2> QED
    BY <1>1, <2>1, Zenon DEF SourceInv
<1>2. ASSUME NEW d \in 0 .. Len(Documents)
      PROVE  \A x, y \in (IF d = 0 THEN {} ELSE {Documents[d]}) : x = y
  BY Zenon
<1>3. CASE \/ \E available \in BOOLEAN : Construct(available)
           \/ Preload
           \/ \E failed \in BOOLEAN : CloseStdio(failed)
           \/ \E drained \in BOOLEAN : Drain(drained)
  <2>1. process'.at # "loaded"
    BY <1>3, Zenon DEF Construct, Preload, CloseStdio, Drain, Exit, ShapeInv, ProcessFields
  <2> QED
    BY <2>1, Zenon DEF SourceInv
<1>4. CASE UNCHANGED boot
  BY <1>4, Zenon DEF SourceInv, boot
<1>5. CASE \/ \E via, request : Receive(via, request)
           \/ \E request : GrpcReceive(request)
           \/ \E outcome : Respond(outcome) \/ ToolReturns(outcome)
           \/ GrpcTimer \/ Disconnect \/ Hangup \/ Dispatch \/ FinishPost \/ DropPost
           \/ (\E frame : ReadLine(frame)) \/ WriteFrame
  <2>1. UNCHANGED boot
    BY <1>5, Zenon DEF Receive, GrpcReceive, Respond, ToolReturns, GrpcTimer, Disconnect, Hangup,
          Dispatch, FinishPost, DropPost, ReadLine, WriteFrame
  <2> QED
    BY <1>4, <2>1, Zenon
<1> QED
  <2>1. CASE \E command \in {"serve", "mcp", "doctor"}, d \in 0 .. Len(Documents),
                e \in DOMAIN Environments, l \in DOMAIN CommandLines :
                   Load(command, IF d = 0 THEN {} ELSE {Documents[d]}, Environments[e],
                        CommandLines[l])
    <3>1. PICK command \in {"serve", "mcp", "doctor"}, d \in 0 .. Len(Documents),
               e \in DOMAIN Environments, l \in DOMAIN CommandLines :
                  Load(command, IF d = 0 THEN {} ELSE {Documents[d]}, Environments[e],
                       CommandLines[l])
      BY <2>1, Zenon
    <3> QED
      BY <1>1, <1>2, <3>1
  <2> QED
    BY <1>3, <1>5, <2>1, Zenon DEF Next

-----------------------------------------------------------------------------
(* A client that goes by the convention. *)

\* The server and a client share the conventional variables, and this is a request
\* of the client.
Conventional(request) ==
    /\ TheConfig.auth \in {{}, {[kind |-> "env", name |-> "IMPOSSIBLE_AUTH_TOKEN"]}}
    /\ TheConfig.admin_auth \in {{}, {[kind |-> "env", name |-> "IMPOSSIBLE_ADMIN_AUTH_TOKEN"]}}
    /\ \E command \in ModelCommands :
           /\ command.conventional /\ command.explicit = {}
           /\ request \in RunModels(command)

\* ConventionAuthenticates in these terms, before and after a step.
LEMMA ConventionFacts ==
    /\ ConventionAuthenticates <=>
           (call # NoCall /\ call.via = "client" /\ call.at = "replied" /\ Conventional(call.request)
            => \A reply \in call.reply : ClientExit(reply.status) # 4)
    /\ ConventionAuthenticates' <=>
           (call' # NoCall /\ call'.via = "client" /\ call'.at = "replied" /\ Conventional(call.request)'
            => \A reply \in call'.reply : ClientExit(reply.status) # 4)
BY Zenon DEF ConventionAuthenticates, Conventional

\* The statuses that mean it.
LEMMA ExitFacts ==
    ASSUME NEW status \in Int, status \notin {401, 403}
    PROVE  ClientExit(status) # 4
BY DEF ClientExit, ExitForStatus

\* The replies of the handlers carry none of them.
LEMMA HandlerReplies ==
    ASSUME NEW request
    PROVE  /\ \A reply \in Immediate(request.path) \cup Rejected(request) \cup McpRejected(request) :
                  ClientExit(reply.status) # 4
           /\ \A s : ClientExit(McpStatus(s)) # 4
<1>1. ASSUME NEW n \in {200, 202, 400, 406, 413, 415, 503}
      PROVE  ClientExit(n) # 4
  BY ExitFacts
<1>2. \A reply \in Immediate(request.path) : reply.status \in {200, 503}
  BY DEF Immediate, Plain
<1>3. \A reply \in McpRejected(request) : reply.status \in {400, 406, 413, 415}
  BY DEF McpRejected, Plain
<1>4. ASSUME NEW reply \in Rejected(request)
      PROVE  reply.status \in {400, 413, 415}
  <2>1. Undecodable(request) \subseteq {400, 413, 415} /\ InvalidInputs(request) \subseteq {400, 413, 415}
    <3>1. Undecodable(request) \in {{415}, {400}, {413}, {}}
      BY DEF Undecodable
    <3>2. InvalidInputs(request) \in {{400}, {413}, {}}
      BY DEF InvalidInputs
    <3> QED
      BY <3>1, <3>2
  <2>2. \E n \in {400, 413, 415} :
            reply = ErrorResponse(FlavorForPath(request.path), n, "invalid_request")
    <3> DEFINE E(n) == ErrorResponse(FlavorForPath(request.path), n, "invalid_request")
    <3>1. CASE Undecodable(request) # {}
      <4>1. Rejected(request) = {E(n) : n \in Undecodable(request)}
        BY <3>1, Zenon DEF Rejected
      <4> HIDE DEF E
      <4>2. PICK n \in Undecodable(request) : reply = E(n)
        BY <1>4, <4>1, Zenon
      <4> QED
        BY <2>1, <4>2 DEF E
    <3>2. CASE Undecodable(request) = {} /\ request.path \in AdminPaths
      <4>1. Rejected(request) = {E(n) : n \in IF request.model = "" THEN {400} ELSE {}}
        BY <3>2, Zenon DEF Rejected
      <4> HIDE DEF E
      <4>2. reply = E(400)
        BY <1>4, <4>1
      <4> QED
        BY <4>2 DEF E
    <3>3. CASE Undecodable(request) = {} /\ request.path \notin AdminPaths
      <4>1. Rejected(request) = {E(n) : n \in InvalidInputs(request)}
        BY <3>3, Zenon DEF Rejected
      <4> HIDE DEF E
      <4>2. PICK n \in InvalidInputs(request) : reply = E(n)
        BY <1>4, <4>1, ZenonT(30)
      <4> QED
        BY <2>1, <4>2 DEF E
    <3> QED
      BY <3>1, <3>2, <3>3
  <2> QED
    BY <2>2 DEF ErrorResponse
<1>5. \A s : McpStatus(s) \in {200, 202, 400}
  BY DEF McpStatus
<1> QED
  BY <1>1, <1>2, <1>3, <1>4, <1>5

\* Neither does a reply made from what the application returned.
LEMMA OutcomeReplies ==
    ASSUME NEW c, c.via # "grpc", NEW outcome \in {{}} \cup {{e} : e \in ApplicationErrors}
    PROVE  ClientExit(ReplyFor(c, outcome).status) # 4
<1>1. CASE outcome = {}
  <2>1. ReplyFor(c, outcome) \in {Plain(202), Plain(200)}
    BY <1>1 DEF ReplyFor
  <2> QED
    BY <2>1, ExitFacts DEF Plain
<1>2. ASSUME NEW e \in ApplicationErrors, outcome = {e}
      PROVE  ClientExit(ReplyFor(c, outcome).status) # 4
  <2>1. ReplyFor(c, outcome) = ApplicationResponse(e, FlavorForPath(c.request.path))
    BY <1>2, Zenon DEF ReplyFor
  <2>2. ReplyFor(c, outcome).status = HttpStatus(e.kind)
    BY <2>1 DEF ApplicationResponse, ErrorResponse
  <2>3. HttpStatus(e.kind) \in {400, 503, 429, 499, 408, 500}
    BY Taxonomy DEF StatusOfCode
  <2> QED
    BY <2>2, <2>3, ExitFacts
<1> QED
  BY <1>1, <1>2, Zenon

\* Who sends the credential that guards a route is not turned away for want of it.
LEMMA TurnedRight ==
    ASSUME NEW request, request.origins = <<>>, request.method # "OPTIONS",
           request.method \in RouteMethod(request.path) \/ RouteMethod(request.path) = {},
           Authorized(Guard(request.path), request.authorization),
           NEW reply \in Turned(request)
    PROVE  ClientExit(reply.status) # 4
<1>1. OriginAllowed(request.origins)
  BY Zenon DEF OriginAllowed
<1>2. reply = Plain(404)
  BY <1>1 DEF Turned
<1> QED
  BY <1>2, ExitFacts DEF Plain

\* A token that was loaded opens what the same source guards.
LEMMA TokenOpens ==
    ASSUME NEW source \in DOMAIN Vault, NEW t \in LoadCredential(source)
    PROVE  /\ LoadCredential(source) = {t}
           /\ Bearer(<<[scheme |-> "Bearer", token |-> t]>>) = {t}
<1>1. \A a, b \in Vault[source] : a = b
  BY RequestAssumption, Zenon
<1>2. \A u \in LoadCredential(source) : u = t
  BY <1>1, Zenon DEF LoadCredential
<1>3. t # ""
  BY Zenon DEF LoadCredential
<1> DEFINE headers == <<[scheme |-> "Bearer", token |-> t]>>
<1>4. Len(headers) = 1 /\ headers[1].scheme = "Bearer" /\ headers[1].token = t
  BY Zenon
<1> HIDE DEF headers
<1>5. Bearer(headers) = {t}
  BY <1>3, <1>4, Zenon DEF Bearer
<1> QED
  BY <1>2, <1>5, Zenon DEF headers

\* A request of a conventional command holds what its route asks for.
LEMMA ConventionalRequest ==
    ASSUME BootInv, process.at = "serving", NEW request, Conventional(request),
           NEW reply \in Turned(request)
    PROVE  ClientExit(reply.status) # 4
<1>0. PICK command \in ModelCommands :
          command.conventional /\ command.explicit = {} /\ request \in RunModels(command)
  BY Zenon DEF Conventional
<1> DEFINE s == [kind |-> "env", name |-> IF command.action = "list" THEN "IMPOSSIBLE_AUTH_TOKEN"
                                          ELSE "IMPOSSIBLE_ADMIN_AUTH_TOKEN"]
           tokens == Tokens({s})
<1>1. s \in DOMAIN Vault
  BY RequestAssumption, Zenon
<1>2. ClientSource(command) = {s}
  BY <1>0, Zenon DEF ClientSource
<1>3. Tokens({}) = {} /\ tokens = LoadCredential(s)
  BY Zenon DEF Tokens
<1>4. tokens # {} /\ request = ClientRequest(command, tokens)
  BY <1>0, <1>2, Zenon DEF RunModels, Tokens
<1>5. PICK t : t \in tokens
  BY <1>4, Zenon
<1> HIDE DEF tokens, s
<1>6. tokens = {t} /\ Bearer(<<[scheme |-> "Bearer", token |-> t]>>) = {t}
  BY <1>1, <1>3, <1>5, TokenOpens, Zenon
<1>7. /\ request.authorization = <<[scheme |-> "Bearer", token |-> t]>>
      /\ request.origins = <<>>
      /\ request.method = IF command.action = "list" THEN "GET" ELSE "POST"
  BY <1>4, <1>6, Zenon DEF ClientRequest
<1>8. Bearer(request.authorization) = tokens
  BY <1>6, <1>7, ZenonT(30)
<1>9. secrets.public = Tokens(TheConfig.auth) /\ secrets.admin = Tokens(TheConfig.admin_auth)
  BY ServingFacts, Zenon
<1>10. CASE command.action = "list"
  <2>1. request.path = "/v1/models"
    BY <1>4, <1>10, Zenon DEF ClientRequest
  <2>2. RouteMethod(request.path) = {"GET"} /\ Guard(request.path) = secrets.public
    BY <2>1, Zenon DEF RouteMethod, Guard, PublicPaths, AdminPaths, OpenPaths
  <2>3. s = [kind |-> "env", name |-> "IMPOSSIBLE_AUTH_TOKEN"]
    BY <1>10, Zenon DEF s
  <2>4. secrets.public \in {{}, tokens}
    BY <1>3, <1>9, <2>3, Zenon DEF tokens, Conventional
  <2>5. Authorized(Guard(request.path), request.authorization)
    BY <1>8, <2>2, <2>4, Zenon DEF Authorized
  <2> QED
    BY <1>7, <1>10, <2>2, <2>5, TurnedRight, Zenon
<1>11. CASE command.action # "list"
  <2>1. request.path \in AdminPaths
    BY <1>4, <1>11, RequestAssumption, Zenon DEF ClientRequest, AdminPaths
  <2>2. RouteMethod(request.path) \in {{"POST"}, {}} /\ Guard(request.path) = secrets.admin
    BY <2>1, Zenon DEF RouteMethod, Guard, PublicPaths, AdminPaths, OpenPaths
  <2>3. s = [kind |-> "env", name |-> "IMPOSSIBLE_ADMIN_AUTH_TOKEN"]
    BY <1>11, Zenon DEF s
  <2>4. secrets.admin \in {{}, tokens}
    BY <1>3, <1>9, <2>3, Zenon DEF tokens, Conventional
  <2>5. Authorized(Guard(request.path), request.authorization)
    BY <1>8, <2>2, <2>4, Zenon DEF Authorized
  <2> QED
    BY <1>7, <1>11, <2>2, <2>5, TurnedRight, ZenonT(30)
<1> QED
  BY <1>10, <1>11, Zenon

\* Every step keeps what a client is told.
LEMMA NextClient ==
    ASSUME ShapeInv, BootInv, ConventionAuthenticates, Next
    PROVE  ConventionAuthenticates'
<1>1. CASE call' = NoCall
  BY <1>1, ConventionFacts, Zenon
<1>2. ASSUME UNCHANGED boot,
             call'.via = "client" /\ call'.at = "replied" /\ Conventional(call'.request) =>
                 \A reply \in call'.reply : ClientExit(reply.status) # 4
      PROVE  ConventionAuthenticates'
  <2>1. Conventional(call.request)' => Conventional(call'.request)
    BY <1>2, SameConfig, Zenon DEF Conventional
  <2> QED
    BY <1>2, <2>1, ConventionFacts, Zenon
<1>3. CASE UNCHANGED boot /\ call' = call
  BY <1>1, <1>2, <1>3, ConventionFacts, Zenon
<1>5. ASSUME NEW via, NEW request, Receive(via, request)
      PROVE  ConventionAuthenticates'
  <2> DEFINE c == Call(via, request)
             admin == [c EXCEPT !.op = IF request.path \in AdminPaths THEN "admin" ELSE "embed"]
             rejected == [c EXCEPT !.passed = FALSE]
             Fine(reply) == Conventional(request) => ClientExit(reply.status) # 4
  <2>0. process.at = "serving"
    BY <1>5, Zenon DEF Receive
  <2>1. /\ DOMAIN c = CallFields /\ c.at = "running"
        /\ DOMAIN admin = CallFields /\ admin.at = "running"
        /\ DOMAIN rejected = CallFields
    BY Zenon DEF Call, CallFields
  <2>2. \A reply \in Immediate(request.path) \cup Rejected(request) \cup McpRejected(request) \cup Turned(request) :
            Fine(reply)
    BY <2>0, HandlerReplies, ConventionalRequest, Zenon
  <2>3. \/ \E reply \in Turned(request) : call' = Replied(rejected, reply)
        \/ \E reply \in Immediate(request.path) \cup McpRejected(request) : call' = Replied(c, reply)
        \/ \E reply \in Rejected(request) : call' = Replied(admin, reply)
        \/ call' \in {admin, [c EXCEPT !.op = "list"], [c EXCEPT !.op = "mcp", !.at = "dispatching"]}
    BY <1>5, Zenon DEF Receive
  <2>4. UNCHANGED boot /\ call'.request = request
    BY <1>5, ReceiveFacts, Zenon
  <2>5. [c EXCEPT !.op = "list"].at = "running"
        /\ [c EXCEPT !.op = "mcp", !.at = "dispatching"].at = "dispatching"
    BY <2>1, Zenon DEF CallFields
  <2> HIDE DEF c, admin, rejected, Fine
  <2>6. CASE call' \in {admin, [c EXCEPT !.op = "list"], [c EXCEPT !.op = "mcp", !.at = "dispatching"]}
    BY <1>2, <2>1, <2>4, <2>5, <2>6, Zenon
  <2>7. ASSUME NEW d, DOMAIN d = CallFields, NEW reply, Fine(reply), call' = Replied(d, reply)
        PROVE  ConventionAuthenticates'
    <3>1. call'.reply = {reply}
      BY <2>7, RepliedFacts
    <3> QED
      BY <1>2, <2>4, <2>7, <3>1, Zenon DEF Fine
  <2> QED
    BY <2>1, <2>2, <2>3, <2>6, <2>7, Zenon
<1>6. ASSUME NEW request, GrpcReceive(request)
      PROVE  ConventionAuthenticates'
  BY <1>2, <1>6, GrpcReceiveFacts, Zenon
<1>7. ASSUME NEW outcome \in {{}} \cup {{e} : e \in ApplicationErrors}, Respond(outcome)
      PROVE  ConventionAuthenticates'
  <2> DEFINE c == [call EXCEPT !.error = outcome, !.cancelled = (call.via = "grpc" /\ outcome # {})]
  <2>1. call # NoCall /\ DOMAIN call = CallFields
    BY <1>7, NoCallFacts, Zenon DEF Respond, ShapeInv
  <2>2. DOMAIN c = CallFields /\ c.via = call.via
    BY <2>1, Zenon DEF CallFields
  <2>3. call' = Replied(c, ReplyFor(call, outcome)) /\ UNCHANGED boot
    BY <1>7, Zenon DEF Respond
  <2> HIDE DEF c
  <2>4. call'.reply = {ReplyFor(call, outcome)} /\ call'.via = call.via
    BY <2>2, <2>3, RepliedFacts
  <2>5. call.via = "client" => ClientExit(ReplyFor(call, outcome).status) # 4
    BY OutcomeReplies, Zenon
  <2> QED
    BY <1>2, <2>3, <2>4, <2>5, Zenon
<1>8. CASE GrpcTimer
  BY <1>2, <1>8, StepsProceed, Zenon DEF Proceeds, GrpcTimer
<1>9. CASE Disconnect \/ DropPost
  <2>1. call # NoCall /\ DOMAIN call = CallFields
    BY <1>9, NoCallFacts, Zenon DEF Disconnect, DropPost, ShapeInv
  <2>2. call'.at = "gone" /\ UNCHANGED boot
    BY <1>9, <2>1, Zenon DEF Disconnect, DropPost, CallFields
  <2> QED
    BY <1>2, <2>2, Zenon
<1>10. CASE FinishPost
  <2>1. DOMAIN call = CallFields /\ UNCHANGED boot
    BY <1>10, Zenon DEF FinishPost, ShapeInv
  <2>2. call'.reply = {[status |-> McpStatus(session), answers |-> session.answers]}
    BY <1>10, <2>1, RepliedFacts DEF FinishPost
  <2>3. ClientExit([status |-> McpStatus(session), answers |-> session.answers].status) # 4
    BY HandlerReplies
  <2> QED
    BY <1>2, <2>1, <2>2, <2>3, Zenon
<1>11. CASE process.at # "serving" /\ UNCHANGED call
  BY <1>1, <1>11, Zenon DEF BootInv
<1>12. CASE \/ \E command \in {"serve", "mcp", "doctor"}, d \in 0 .. Len(Documents),
                 e \in DOMAIN Environments, l \in DOMAIN CommandLines :
                    Load(command, IF d = 0 THEN {} ELSE {Documents[d]}, Environments[e],
                         CommandLines[l])
            \/ \E available \in BOOLEAN : Construct(available)
            \/ Preload
            \/ \E failed \in BOOLEAN : CloseStdio(failed)
            \/ \E drained \in BOOLEAN : Drain(drained)
  BY <1>11, <1>12, Zenon DEF Load, Construct, Preload, CloseStdio, Drain
<1>13. CASE \/ \E outcome : ToolReturns(outcome)
            \/ Dispatch \/ (\E frame \in Frames : ReadLine(frame)) \/ WriteFrame
  BY <1>3, <1>13, Zenon DEF ToolReturns, Dispatch, ReadLine, WriteFrame
<1>14. CASE Hangup
  BY <1>1, <1>14, Zenon DEF Hangup
<1> QED
  BY <1>5, <1>6, <1>7, <1>8, <1>9, <1>10, <1>12, <1>13, <1>14, Zenon DEF Next

-----------------------------------------------------------------------------
(* The theorems. *)

\* What every reachable state satisfies.
AdaptersInv ==
    /\ ShapeInv /\ BootInv /\ SourceInv
    /\ ExposureIsGuarded /\ FailInv /\ HandshakeInv /\ ConventionAuthenticates

\* Nothing has happened yet.
LEMMA InitInv == Init => AdaptersInv
<1> SUFFICES ASSUME Init PROVE AdaptersInv
  BY Zenon
<1>1. /\ process.at = "start" /\ DOMAIN process = ProcessFields
      /\ call = NoCall /\ session = Closed /\ past = <<>>
  BY Zenon DEF Init, ProcessFields
<1>2. /\ DOMAIN session = SessionFields /\ session.phase = "await_initialize"
      /\ session.at = "closed" /\ session.tool = {}
  BY <1>1, ClosedFacts, Zenon
<1>3. ShapeInv /\ BootInv /\ SourceInv /\ ExposureIsGuarded /\ FailInv /\ ConventionAuthenticates
  BY <1>1, <1>2, Zenon
  DEF ShapeInv, BootInv, SourceInv, ExposureIsGuarded, FailInv, ConventionAuthenticates
<1>4. HandshakeInv
  <2>1. past \in Seq({}) /\ Len(past) = 0
    BY <1>1
  <2> QED
    BY <1>1, <1>2, <2>1 DEF HandshakeInv
<1> QED
  BY <1>3, <1>4, Zenon DEF AdaptersInv

\* A step in which nothing happens.
LEMMA StutterInv == AdaptersInv /\ UNCHANGED vars => AdaptersInv'
<1> SUFFICES ASSUME AdaptersInv, UNCHANGED vars PROVE AdaptersInv'
  BY Zenon
<1>1. UNCHANGED <<process, config, sources, secrets, call, session, past, written>>
  BY Zenon DEF vars, boot, dialogue
<1>2. ShapeInv' /\ BootInv' /\ SourceInv' /\ FailInv' /\ HandshakeInv'
  BY <1>1, Zenon
  DEF AdaptersInv, ShapeInv, BootInv, SourceInv, FailInv, HandshakeInv, TheConfig, Told
<1>3. ExposureIsGuarded'
  BY <1>1, Zenon DEF AdaptersInv, ExposureIsGuarded, TheConfig
<1>4. ConventionAuthenticates'
  BY <1>1, Zenon DEF AdaptersInv, ConventionAuthenticates, TheConfig
<1> QED
  BY <1>2, <1>3, <1>4, Zenon DEF AdaptersInv

\* AdaptersInv is inductive.
LEMMA AdaptersInvariance == Spec => []AdaptersInv
<1>1. ASSUME AdaptersInv, [Next]_vars PROVE AdaptersInv'
  <2>1. CASE Next
    BY <1>1, <2>1, NextShape, NextBoot, NextSource, NextExposure, NextFail, NextHandshake, NextClient, Zenon
       DEF AdaptersInv
  <2> QED
    BY <1>1, <2>1, StutterInv, Zenon
<1> QED
  BY <1>1, InitInv, PTL DEF Spec

\* Under every file, environment and command line that load accepts, no handler
\* runs for a caller who does not hold what guards it, unless nothing guards it
\* and the listeners are local or the operator has said so; administration is
\* never open to the public credential.
THEOREM HandlersAreGuarded == Spec => []ExposureIsGuarded
<1>1. AdaptersInv => ExposureIsGuarded
  BY Zenon DEF AdaptersInv
<1> QED
  BY <1>1, AdaptersInvariance, PTL

\* A failure has the same code, blame and advice to retry over HTTP, gRPC and MCP,
\* whatever was asked and whatever the application returned.
THEOREM TransportsAgree == Spec => []FailuresAgree
<1>1. AdaptersInv => FailuresAgree
  BY FailuresAreTold, Zenon DEF AdaptersInv
<1> QED
  BY <1>1, AdaptersInvariance, PTL

\* However frames, batches and notifications are mixed, and in sessions of any
\* length, no tool is listed or called before the handshake is over.
THEOREM ToolsFollowHandshake == Spec => []HandshakeFirst
<1>1. AdaptersInv => HandshakeFirst
  BY HandshakesCome, ZenonT(30) DEF AdaptersInv
<1> QED
  BY <1>1, AdaptersInvariance, PTL

\* ServerConfig::load takes every field from the command line, else from the
\* environment, else from the file, for sources of any size and content.
THEOREM SourcesAreRanked == Spec => []StrongestSourceWins
<1>1. AdaptersInv => StrongestSourceWins
  BY StrongestWins, ZenonT(30) DEF AdaptersInv
<1> QED
  BY <1>1, AdaptersInvariance, PTL

\* The command line client sends the right one of the two conventional variables:
\* a server that is configured by them never turns it away as unauthenticated.
THEOREM ConventionSuffices == Spec => []ConventionAuthenticates
<1>1. AdaptersInv => ConventionAuthenticates
  BY Zenon DEF AdaptersInv
<1> QED
  BY <1>1, AdaptersInvariance, PTL


-----------------------------------------------------------------------------
(* The answers of a session. *)

\* What is answered, with which id, and where among the answers.
Due(p) == p.item.valid => p.item.id # {}
Owner(p) == IF p.item.valid THEN p.item.id ELSE {}
Owed(ps) == {i \in DOMAIN ps : Due(ps[i])}
Place(ps, i) == Cardinality({k \in Owed(ps) : k <= i})
Matches(ps, answers) ==
    /\ Len(answers) = Cardinality(Owed(ps))
    /\ \A i \in Owed(ps) : answers[Place(ps, i)].id = Owner(ps[i])

\* What was written and what is still to be written together answer what came so
\* far, one by one.
AnswerInv ==
    /\ \E S : written \in Seq(S) /\ session.answers \in Seq(S)
    /\ session.at # "closed" /\ session.phase # "stateless" =>
           /\ process.at = "stdio"
           /\ Matches(past, written \o session.answers)
    /\ session.at = "reading" => session.phase # "stateless" /\ session.answers = <<>>
    /\ process.at \notin {"stdio", "draining"} => past = <<>> /\ written = <<>>

\* The items that are due have the places from the first on.
LEMMA PlaceFacts ==
    ASSUME NEW S, NEW ps \in Seq(S)
    PROVE  /\ IsFiniteSet(Owed(ps)) /\ Cardinality(Owed(ps)) \in Nat
           /\ \A i \in Owed(ps) : Place(ps, i) \in 1 .. Cardinality(Owed(ps))
<1>1. Owed(ps) \subseteq 1 .. Len(ps) /\ IsFiniteSet(1 .. Len(ps))
  BY FS_Interval DEF Owed
<1>2. IsFiniteSet(Owed(ps)) /\ Cardinality(Owed(ps)) \in Nat
  BY <1>1, FS_Subset, FS_CardinalityType, ZenonT(30)
<1>3. ASSUME NEW i \in Owed(ps)
      PROVE  Place(ps, i) \in 1 .. Cardinality(Owed(ps))
  <2> DEFINE T == {k \in Owed(ps) : k <= i}
  <2>1. T \subseteq Owed(ps) /\ i \in T
    BY <1>1
  <2> HIDE DEF T
  <2>2. IsFiniteSet(T) /\ Cardinality(T) <= Cardinality(Owed(ps)) /\ Cardinality(T) \in Nat
    BY <1>2, <2>1, FS_Subset, FS_CardinalityType, Zenon
  <2>3. Cardinality(T) # 0
    BY <2>1, <2>2, FS_EmptySet, Zenon
  <2>4. Place(ps, i) = Cardinality(T)
    BY Zenon DEF Place, T
  <2> QED
    BY <1>2, <2>2, <2>3, <2>4
<1> QED
  BY <1>2, <1>3, Zenon

\* One more item, and its answer if it is due.
LEMMA OneMoreAnswer ==
    ASSUME NEW S, NEW ps \in Seq(S), NEW p, NEW R, NEW answers \in Seq(R), NEW x,
           Matches(ps, answers), x.id = Owner(p)
    PROVE  Matches(Append(ps, p), IF Due(p) THEN Append(answers, x) ELSE answers)
<1> DEFINE n == Len(ps)
           qs == Append(ps, p)
           more == IF Due(p) THEN {n + 1} ELSE {}
<1>1. /\ qs \in Seq(S \cup {p}) /\ n \in Nat /\ DOMAIN qs = 1 .. n + 1 /\ DOMAIN ps = 1 .. n
      /\ qs[n + 1] = p /\ \A i \in 1 .. n : qs[i] = ps[i]
  BY AppendFacts
<1> HIDE DEF qs, n
<1>2. Owed(qs) = Owed(ps) \cup more /\ Owed(ps) \subseteq 1 .. n
  BY <1>1 DEF Owed
<1>3. /\ IsFiniteSet(Owed(ps)) /\ Cardinality(Owed(ps)) \in Nat
      /\ \A i \in Owed(ps) : Place(ps, i) \in 1 .. Cardinality(Owed(ps))
  BY PlaceFacts, Zenon
<1>4. ASSUME NEW i \in Owed(ps)
      PROVE  Place(qs, i) = Place(ps, i) /\ Owner(qs[i]) = Owner(ps[i])
  <2>1. {k \in Owed(qs) : k <= i} = {k \in Owed(ps) : k <= i}
    BY <1>1, <1>2
  <2> QED
    BY <1>1, <1>2, <2>1, Zenon DEF Place
<1>5. CASE ~Due(p)
  <2>1. Owed(qs) = Owed(ps)
    BY <1>2, <1>5, Zenon
  <2> QED
    BY <1>4, <1>5, <2>1, Zenon DEF Matches, qs
<1>6. CASE Due(p)
  <2>1. Owed(qs) = Owed(ps) \cup {n + 1} /\ n + 1 \notin Owed(ps)
    BY <1>1, <1>2, <1>6
  <2>2. Cardinality(Owed(qs)) = Cardinality(Owed(ps)) + 1
    BY <1>3, <2>1, FS_AddElement, Zenon
  <2>3. {k \in Owed(qs) : k <= n + 1} = Owed(qs)
    BY <1>1, <1>2
  <2>4. Place(qs, n + 1) = Cardinality(Owed(ps)) + 1
    BY <2>2, <2>3, Zenon DEF Place
  <2> DEFINE more2 == Append(answers, x)
  <2>5. /\ Len(more2) = Len(answers) + 1 /\ more2[Len(answers) + 1] = x
        /\ \A i \in 1 .. Len(answers) : more2[i] = answers[i]
    BY AppendFacts
  <2> HIDE DEF more2
  <2>6. Len(answers) = Cardinality(Owed(ps))
    BY Zenon DEF Matches
  <2>7. more2[Place(qs, n + 1)].id = Owner(qs[n + 1])
    BY <1>1, <2>4, <2>5, <2>6, Zenon
  <2>8. ASSUME NEW i \in Owed(ps)
        PROVE  more2[Place(qs, i)].id = Owner(qs[i])
    BY <1>3, <1>4, <2>5, <2>6, ZenonT(30) DEF Matches
  <2>9. Matches(qs, more2)
    BY <2>1, <2>2, <2>5, <2>6, <2>7, <2>8, Zenon DEF Matches
  <2> QED
    BY <1>6, <2>9, Zenon DEF qs, more2
<1> QED
  BY <1>5, <1>6, Zenon

\* The dispatcher answers an item once, with its id, if it is due.
LEMMA AnswersAreDue ==
    ASSUME NEW phase, NEW item, NEW p, p.item = item
    PROVE  /\ \E code : Answer(phase, item) = IF Due(p) THEN <<Rpc(Owner(p), code)>> ELSE <<>>
           /\ \E code : AnswerInBatch(phase, item) =
                             IF Due(p) THEN <<Rpc(Owner(p), code)>> ELSE <<>>
<1>1. CASE ~item.valid
  BY <1>1, Zenon DEF AnswerInBatch, Answer, InBatch, Due, Owner
<1>2. CASE item.valid /\ item.id = {}
  BY <1>2, Zenon DEF AnswerInBatch, Answer, InBatch, Due, Owner
<1>3. CASE item.valid /\ item.id # {}
  BY <1>3, Zenon DEF AnswerInBatch, Answer, InBatch, Due, Owner
<1> QED
  BY <1>1, <1>2, <1>3, Zenon

\* An answer is added behind the others.
LEMMA AnswersGrow ==
    ASSUME NEW S, NEW v \in Seq(S), NEW s \in Seq(S), NEW x
    PROVE  /\ s \o <<x>> = Append(s, x) /\ s \o <<>> = s
           /\ Append(s, x) \in Seq(S \cup {x}) /\ v \in Seq(S \cup {x})
           /\ v \o Append(s, x) = Append(v \o s, x) /\ v \o s \in Seq(S)
<1> DEFINE T == S \cup {x}
<1>1. v \in Seq(T) /\ s \in Seq(T) /\ x \in T
  OBVIOUS
<1> HIDE DEF T
<1>2. s \o <<x>> = Append(s, x)
  BY <1>1, AppendIsConcat, Zenon
<1>3. Append(v \o s, x) = (v \o s) \o <<x>>
  BY <1>1, AppendIsConcat, ConcatProperties, ZenonT(30)
<1>4. <<x>> \in Seq(T)
  BY <1>1
<1>5. (v \o s) \o <<x>> = v \o (s \o <<x>>)
  BY <1>1, <1>4, ConcatAssociative
<1>6. v \o s \in Seq(S) /\ s \o <<>> = s
  BY ConcatProperties, ConcatEmptySeq, Zenon
<1>7. Append(s, x) \in Seq(T)
  BY <1>1
<1> QED
  BY <1>1, <1>2, <1>3, <1>5, <1>6, <1>7, ZenonT(30) DEF T

\* The dispatcher opens a frame with its refusal or with nothing to answer.
LEMMA OpenedAnswers ==
    ASSUME NEW s, DOMAIN s = SessionFields, NEW frame
    PROVE  Opened(s, frame).answers = IF Refused(frame) THEN <<Rpc({}, RefusalCode(frame))>> ELSE <<>>
BY Zenon DEF Opened, SessionFields

\* An item that the dispatcher has finished with.
LEMMA ItemAnswered ==
    ASSUME HandshakeInv, AnswerInv, session.at # "closed", session.phase # "stateless",
           NEW p, past' = Append(past, p), UNCHANGED written, NEW x, x.id = Owner(p),
           session'.answers = IF Due(p) THEN Append(session.answers, x) ELSE session.answers
    PROVE  /\ \E S : written' \in Seq(S) /\ session'.answers \in Seq(S)
           /\ Matches(past', written' \o session'.answers)
<1>1. PICK S : written \in Seq(S) /\ session.answers \in Seq(S)
  BY Zenon DEF AnswerInv
<1>2. PICK R : past \in Seq(R)
  BY Zenon DEF HandshakeInv
<1> DEFINE so == written \o session.answers
<1>3. so \in Seq(S) /\ Matches(past, so)
  BY <1>1, AnswersGrow, Zenon DEF AnswerInv
<1>4. /\ Append(session.answers, x) \in Seq(S \cup {x}) /\ written \in Seq(S \cup {x})
      /\ written \o Append(session.answers, x) = Append(so, x)
  BY <1>1, AnswersGrow
<1> HIDE DEF so
<1>5. Matches(Append(past, p), IF Due(p) THEN Append(so, x) ELSE so)
  BY <1>2, <1>3, OneMoreAnswer, Zenon
<1>6. CASE Due(p)
  BY <1>4, <1>5, <1>6, Zenon
<1>7. CASE ~Due(p)
  BY <1>1, <1>5, <1>7, Zenon DEF so
<1> QED
  BY <1>6, <1>7, Zenon

\* Nothing has come and nothing was answered.
LEMMA NothingMatches == Matches(<<>>, <<>>) /\ <<>> \o <<>> = <<>>
<1>1. Owed(<<>>) = {}
  BY DEF Owed
<1>2. <<>> \o <<>> = <<>>
  BY EmptySeq, ConcatEmptySeq, Zenon
<1> QED
  BY <1>1, <1>2, FS_EmptySet, Zenon DEF Matches

\* Every step keeps the answers and the past together.
LEMMA NextAnswer ==
    ASSUME ShapeInv, BootInv, HandshakeInv, AnswerInv, Next
    PROVE  AnswerInv'
<1>0. PICK S : written \in Seq(S) /\ session.answers \in Seq(S)
  BY Zenon DEF AnswerInv
<1>1. ASSUME UNCHANGED <<past, written, session>>, process'.at = process.at
      PROVE  AnswerInv'
  BY <1>1, Zenon DEF AnswerInv
<1>2. ASSUME UNCHANGED <<past, written, session>>, process.at \notin {"stdio", "draining"}
      PROVE  AnswerInv'
  BY <1>2, Zenon DEF AnswerInv
<1>3. ASSUME UNCHANGED <<past, written>>, session'.at # "reading",
             session'.at = "closed" \/ session'.phase = "stateless",
             \E R : session'.answers \in Seq(R),
             process'.at \in {process.at, "draining"}
      PROVE  AnswerInv'
  <2>1. PICK R : session'.answers \in Seq(R)
    BY <1>3, Zenon
  <2>2. written \in Seq(S \cup R) /\ session'.answers \in Seq(S \cup R)
    BY <1>0, <2>1
  <2>3. \E Q : written' \in Seq(Q) /\ session'.answers \in Seq(Q)
    BY <1>3, <2>2, Zenon
  <2> QED
    BY <1>3, <2>3, Zenon DEF AnswerInv
<1>4. CASE \/ \E command \in {"serve", "mcp", "doctor"}, d \in 0 .. Len(Documents),
                 e \in DOMAIN Environments, l \in DOMAIN CommandLines :
                    Load(command, IF d = 0 THEN {} ELSE {Documents[d]}, Environments[e],
                         CommandLines[l])
           \/ \E available \in BOOLEAN : Construct(available)
  <2>1. UNCHANGED <<past, written, session>> /\ process.at \notin {"stdio", "draining"}
    BY <1>4, Zenon DEF Load, Construct, dialogue
  <2> QED
    BY <1>2, <2>1, Zenon
<1>5. CASE Preload
  <2>1. /\ UNCHANGED <<past, written>> /\ process.at = "built"
        /\ \/ UNCHANGED session
           \/ session' = [Closed EXCEPT !.at = "reading"] /\ process'.at = "stdio"
    BY <1>5, Zenon DEF Preload, ShapeInv, ProcessFields
  <2>2. CASE UNCHANGED session
    BY <1>2, <2>1, <2>2, Zenon
  <2>3. CASE session' = [Closed EXCEPT !.at = "reading"] /\ process'.at = "stdio"
    <3>1. session'.at = "reading" /\ session'.phase = "await_initialize" /\ session'.answers = <<>>
      BY <2>3, Zenon DEF Closed
    <3>2. past = <<>> /\ written = <<>>
      BY <2>1, Zenon DEF AnswerInv
    <3>3. \E R : written' \in Seq(R) /\ session'.answers \in Seq(R)
      BY <1>0, <2>1, <3>1, <3>2, Zenon
    <3>4. Matches(past', written' \o session'.answers)
      BY <2>1, <3>1, <3>2, NothingMatches, Zenon
    <3> QED
      BY <2>3, <3>1, <3>3, <3>4, Zenon DEF AnswerInv
  <2> QED
    BY <2>1, <2>2, <2>3, Zenon
<1>6. ASSUME NEW via, NEW request, Receive(via, request)
      PROVE  AnswerInv'
  <2>1. /\ UNCHANGED <<process, past, written>> /\ process.at = "serving"
        /\ session' \in {session, Opened([Closed EXCEPT !.phase = "stateless"], request.frame)}
    BY <1>6, ReceiveFacts, Zenon DEF boot, Receive
  <2> DEFINE s == [Closed EXCEPT !.phase = "stateless"]
  <2>2. DOMAIN s = SessionFields /\ s.phase = "stateless"
    BY ClosedFacts, Zenon DEF SessionFields
  <2>3. /\ Opened(s, request.frame).phase = "stateless"
        /\ Opened(s, request.frame).at = "dispatching"
        /\ \E x : Opened(s, request.frame).answers \in {<<>>, <<x>>}
    BY <2>2, OpenedFacts, OpenedAnswers, Zenon
  <2> HIDE DEF s
  <2>4. CASE session' = session
    BY <1>1, <2>1, <2>4, Zenon
  <2>5. CASE session' = Opened(s, request.frame)
    <3>1. PICK x : session'.answers \in {<<>>, <<x>>}
      BY <2>3, <2>5, Zenon
    <3>2. session'.answers \in Seq({x})
      <4>1. session'.answers = <<>> \/ session'.answers = <<x>>
        BY <3>1, Zenon
      <4>2. <<>> \in Seq({x}) /\ <<x>> \in Seq({x})
        OBVIOUS
      <4> QED
        BY <4>1, <4>2, ZenonT(30)
    <3> QED
      BY <1>3, <2>1, <2>3, <2>5, <3>2, Zenon
  <2> QED
    BY <2>1, <2>4, <2>5, Zenon DEF s
<1>7. CASE (\E request : GrpcReceive(request)) \/ (\E outcome : Respond(outcome))
           \/ GrpcTimer \/ Disconnect \/ Hangup
  <2>1. UNCHANGED <<process, past, written, session>>
    BY <1>7, Zenon DEF GrpcReceive, Respond, GrpcTimer, Disconnect, Hangup, boot, dialogue
  <2> QED
    BY <1>1, <2>1, Zenon
<1>8. CASE FinishPost \/ DropPost \/ \E failed : CloseStdio(failed)
  <2>1. /\ UNCHANGED <<past, written>> /\ session' = Closed
        /\ process'.at \in {process.at, "draining"}
    BY <1>8, Zenon DEF FinishPost, DropPost, CloseStdio, boot, ShapeInv, ProcessFields
  <2>2. Closed.at = "closed" /\ Closed.answers = <<>>
    BY Zenon DEF Closed
  <2>3. session'.answers \in Seq({})
    BY <2>1, <2>2
  <2> QED
    BY <1>3, <2>1, <2>2, <2>3, Zenon
<1>9. ASSUME NEW drained, Drain(drained)
      PROVE  AnswerInv'
  <2>1. /\ past' = <<>> /\ written' = <<>> /\ session' = session /\ process'.at = "exited"
        /\ session.at = "closed"
    BY <1>9, Zenon DEF Drain, Exit, HandshakeInv, ShapeInv, ProcessFields
  <2>2. written' \in Seq(S) /\ session'.answers \in Seq(S)
    BY <1>0, <2>1
  <2> QED
    BY <2>1, <2>2, Zenon DEF AnswerInv
<1>10. ASSUME NEW frame, ReadLine(frame)
       PROVE  AnswerInv'
  <2>1. /\ UNCHANGED <<process, written>> /\ session.at = "reading"
        /\ session'.at = "dispatching" /\ session'.phase = session.phase
        /\ session'.answers = IF Refused(frame) THEN <<Rpc({}, RefusalCode(frame))>> ELSE <<>>
    BY <1>10, OpenedFacts, OpenedAnswers, Zenon DEF ReadLine, boot, ShapeInv
  <2>2. session.phase # "stateless" /\ session.answers = <<>> /\ process.at = "stdio"
    BY <2>1, Zenon DEF AnswerInv
  <2>3. CASE ~Refused(frame)
    <3>1. UNCHANGED past /\ session'.answers = session.answers
      BY <1>10, <2>1, <2>2, <2>3, Zenon DEF ReadLine
    <3> QED
      BY <2>1, <2>2, <3>1, Zenon DEF AnswerInv
  <2>4. CASE Refused(frame)
    <3> DEFINE p == [item |-> [valid |-> FALSE], batch |-> FALSE, answer |-> session'.answers]
               x == Rpc({}, RefusalCode(frame))
    <3>1. Due(p) /\ Owner(p) = {}
      BY Zenon DEF Due, Owner
    <3>2. past' = Append(past, p)
      BY <1>10, <2>4, Zenon DEF ReadLine
    <3>3. x.id = {}
      BY Zenon DEF Rpc
    <3>4. session'.answers = <<x>> /\ <<x>> = Append(<<>>, x)
      BY <2>1, <2>4
    <3> HIDE DEF p, x
    <3>5. /\ \E R : written' \in Seq(R) /\ session'.answers \in Seq(R)
          /\ Matches(past', written' \o session'.answers)
      BY <2>1, <2>2, <3>1, <3>2, <3>3, <3>4, ItemAnswered, ZenonT(30)
    <3> QED
      BY <2>1, <2>2, <3>5, Zenon DEF AnswerInv
  <2> QED
    BY <2>3, <2>4, Zenon
<1>11. CASE WriteFrame
  <2>1. /\ UNCHANGED <<process, past>> /\ session.at = "dispatching" /\ session.phase # "stateless"
        /\ session'.at = "reading" /\ session'.phase = session.phase /\ session'.answers = <<>>
        /\ written' = written \o session.answers
    BY <1>11, Zenon DEF WriteFrame, boot, ShapeInv, SessionFields
  <2>2. written' \in Seq(S) /\ session'.answers \in Seq(S)
    BY <1>0, <2>1, ConcatProperties
  <2>3. written' \o session'.answers = written'
    BY <2>1, <2>2, ConcatEmptySeq, Zenon
  <2>4. process.at = "stdio" /\ Matches(past, written')
    BY <2>1, Zenon DEF AnswerInv
  <2> QED
    BY <2>1, <2>2, <2>3, <2>4, Zenon DEF AnswerInv
<1>12. ASSUME NEW outcome, ToolReturns(outcome)
       PROVE  AnswerInv'
  <2> DEFINE item == Head(session.todo)
             x == Rpc(item.id, Success)
             p == [item |-> item, batch |-> session.batch, answer |-> <<x>>]
  <2>1. /\ UNCHANGED <<process, written>> /\ session.at = "calling" /\ session'.at = "dispatching"
        /\ session'.phase = session.phase
        /\ past' = IF session.phase = "stateless" THEN past ELSE Append(past, p)
        /\ session'.answers = Append(session.answers, x)
    BY <1>12, Zenon DEF ToolReturns, Recorded, boot, ShapeInv, SessionFields
  <2>2. item.valid /\ item.id # {}
    BY <2>1, Zenon DEF HandshakeInv, Calls
  <2>3. Due(p) /\ Owner(p) = item.id
    BY <2>2, Zenon DEF Due, Owner
  <2>4. x.id = item.id
    BY Zenon DEF Rpc
  <2> HIDE DEF p, x, item
  <2>5. CASE session.phase = "stateless"
    <3>1. session'.answers \in Seq(S \cup {x})
      BY <1>0, <2>1
    <3> QED
      BY <1>3, <2>1, <2>5, <3>1, Zenon
  <2>6. CASE session.phase # "stateless"
    <3>1. /\ \E R : written' \in Seq(R) /\ session'.answers \in Seq(R)
          /\ Matches(past', written' \o session'.answers)
      BY <2>1, <2>3, <2>4, <2>6, ItemAnswered, Zenon
    <3> QED
      BY <2>1, <2>6, <3>1, Zenon DEF AnswerInv
  <2> QED
    BY <2>5, <2>6, Zenon
<1>13. CASE Dispatch
  <2> DEFINE item == Head(session.todo)
             skipped == session.batch /\ InBatch(item)
             answer == IF session.batch THEN AnswerInBatch(session.phase, item)
                       ELSE Answer(session.phase, item)
             p == [item |-> item, batch |-> session.batch, answer |-> answer]
  <2>1. UNCHANGED <<process, written>> /\ session.at = "dispatching"
    BY <1>13, Zenon DEF Dispatch, boot
  <2>2. \/ session' = [session EXCEPT !.at = "calling"] /\ UNCHANGED past
        \/ /\ session' = [session EXCEPT !.todo = Tail(@), !.answers = @ \o answer,
                              !.phase = IF skipped THEN @ ELSE PhaseAfter(@, item)]
           /\ past' = Recorded(item, answer)
    BY <1>13, Zenon DEF Dispatch
  <2>3. CASE session' = [session EXCEPT !.at = "calling"] /\ UNCHANGED past
    <3>1. /\ session'.at = "calling" /\ session'.phase = session.phase
          /\ session'.answers = session.answers
      BY <2>3, ZenonT(30) DEF ShapeInv, SessionFields
    <3> QED
      BY <2>1, <2>3, <3>1, Zenon DEF AnswerInv
  <2>4. CASE /\ session' = [session EXCEPT !.todo = Tail(@), !.answers = @ \o answer,
                                !.phase = IF skipped THEN @ ELSE PhaseAfter(@, item)]
             /\ past' = Recorded(item, answer)
    <3>1. /\ session'.at = "dispatching" /\ session'.answers = session.answers \o answer
          /\ session'.phase = IF skipped THEN session.phase ELSE PhaseAfter(session.phase, item)
          /\ past' = IF session.phase = "stateless" THEN past ELSE Append(past, p)
      BY <2>1, <2>4, Zenon DEF ShapeInv, SessionFields, Recorded
    <3>2. p.item = item
      BY Zenon
    <3>3. PICK code : answer = IF Due(p) THEN <<Rpc(Owner(p), code)>> ELSE <<>>
      <4> HIDE DEF p, item
      <4>1. CASE session.batch
        BY <3>2, <4>1, AnswersAreDue, ZenonT(40)
      <4>2. CASE ~session.batch
        BY <3>2, <4>2, AnswersAreDue, ZenonT(40)
      <4> QED
        BY <4>1, <4>2, Zenon
    <3>4. session'.phase = "stateless" <=> session.phase = "stateless"
      <4> HIDE DEF p, item, answer
      <4> QED
        BY <3>1, PhaseFacts, Zenon DEF ShapeInv
    <3> DEFINE x == Rpc(Owner(p), code)
    <3>5. x.id = Owner(p)
      BY Zenon DEF Rpc
    <3> HIDE DEF p, answer, item, skipped, x
    <3>6. session'.answers = IF Due(p) THEN Append(session.answers, x) ELSE session.answers
      <4>1. session.answers \o <<x>> = Append(session.answers, x)
            /\ session.answers \o <<>> = session.answers
        BY <1>0, AnswersGrow
      <4>2. answer = IF Due(p) THEN <<x>> ELSE <<>>
        BY <3>3, Zenon DEF x
      <4>3. CASE Due(p)
        BY <3>1, <4>1, <4>2, <4>3, Zenon
      <4>4. CASE ~Due(p)
        BY <3>1, <4>1, <4>2, <4>4, Zenon
      <4> QED
        BY <4>3, <4>4, Zenon
    <3>7. CASE session.phase = "stateless"
      <4>1. session'.answers \in Seq(S \cup {x})
        BY <1>0, <3>6, AnswersGrow
      <4> QED
        BY <1>3, <2>1, <3>1, <3>4, <3>7, <4>1, Zenon
    <3>8. CASE session.phase # "stateless"
      <4>1. /\ \E R : written' \in Seq(R) /\ session'.answers \in Seq(R)
            /\ Matches(past', written' \o session'.answers)
        BY <2>1, <3>1, <3>5, <3>6, <3>8, ItemAnswered, Zenon
      <4> QED
        BY <2>1, <3>1, <3>8, <4>1, Zenon DEF AnswerInv
    <3> QED
      BY <3>7, <3>8, Zenon
  <2> QED
    BY <2>2, <2>3, <2>4, Zenon
<1> QED
  BY <1>4, <1>5, <1>6, <1>7, <1>8, <1>9, <1>10, <1>11, <1>12, <1>13, Zenon DEF Next

\* When the session waits for a line nothing is left to be written.
LEMMA AnswersComeInOrder == AnswerInv => AnsweredInOrder
<1> SUFFICES ASSUME AnswerInv, session.at = "reading" PROVE AnsweredInOrder
  BY Zenon DEF AnsweredInOrder
<1>1. PICK S : written \in Seq(S)
  BY Zenon DEF AnswerInv
<1>2. Matches(past, written)
  BY <1>1, ConcatEmptySeq, Zenon DEF AnswerInv
<1> QED
  BY <1>2, Zenon DEF Matches, Owed, Place, Owner, Due, AnsweredInOrder

\* AnswerInv is inductive, relative to AdaptersInv.
LEMMA AnswerInvariance == Spec => []AnswerInv
<1>1. Init => AnswerInv
  <2> SUFFICES ASSUME Init PROVE AnswerInv
    BY Zenon
  <2>1. session.at = "closed" /\ session.answers = <<>> /\ past = <<>> /\ written = <<>>
    BY Zenon DEF Init, Closed
  <2>2. written \in Seq({}) /\ session.answers \in Seq({})
    BY <2>1
  <2> QED
    BY <2>1, <2>2, Zenon DEF AnswerInv
<1>2. ASSUME AdaptersInv, AnswerInv, [Next]_vars PROVE AnswerInv'
  <2>1. CASE Next
    BY <1>2, <2>1, NextAnswer, Zenon DEF AdaptersInv
  <2>2. CASE UNCHANGED vars
    <3>1. UNCHANGED <<process, session, past, written>>
      BY <2>2, Zenon DEF vars, boot, dialogue
    <3> QED
      BY <1>2, <3>1, Zenon DEF AnswerInv
  <2> QED
    BY <1>2, <2>1, <2>2, Zenon
<1> QED
  BY <1>1, <1>2, AdaptersInvariance, PTL DEF Spec

\* Whenever a session over standard input waits for a line, every item that was due
\* an answer has got exactly one, with its id and in the order in which the items
\* came, however they were framed, batched or refused and whatever the tools
\* returned.
THEOREM AnswersKeepOrder == Spec => []AnsweredInOrder
<1>1. AnswerInv => AnsweredInOrder
  BY AnswersComeInOrder, Zenon
<1> QED
  BY <1>1, AnswerInvariance, PTL
=============================================================================
