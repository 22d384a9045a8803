------------------------------- MODULE Adapters ------------------------------
(***************************************************************************)
(* A process from its command line to its clients: the configuration is    *)
(* loaded, AppState is built from it, and the transports take calls over   *)
(* HTTP and gRPC, or one MCP session over standard input and output.       *)
(* Calls share nothing in the adapters, so there is one at a time; what    *)
(* the application does with it is in EmbedPipeline and Application, and   *)
(* here any of its results may come back.                                  *)
(***************************************************************************)
EXTENDS Configuration, PublicErrors, McpDispatcher, FiniteSets

CONSTANTS
    Documents,    \* a sequence of TOML files
    Environments, \* a sequence of environments of the process
    CommandLines, \* a sequence of lists of options
    Canonical,    \* the canonical name of a model, for every name that resolves
    HttpRequests, \* requests of HTTP clients
    GrpcRequests, \* requests of gRPC clients
    ModelCommands,\* uses of the command line client
    Frames,       \* frames on standard input
    MaxFrames,    \* frames read in a session
    Ticks         \* what a unit of grpc-timeout stands for, in increasing ticks

ASSUME AdaptersAssumption == MaxFrames \in Nat /\ MaxBatchItems \in Nat \ {0}

\* A header may be repeated, the client has five commands, and a source of a
\* credential, such as one of the two conventional variables, has at most one content.
ASSUME RequestAssumption ==
    /\ \A r \in HttpRequests : r.origins \in Seq(Range(r.origins))
    /\ \A m \in ModelCommands : m.action \in {"list", "install", "load", "unload", "delete"}
    /\ \A name \in {"IMPOSSIBLE_AUTH_TOKEN", "IMPOSSIBLE_ADMIN_AUTH_TOKEN"} :
           [kind |-> "env", name |-> name] \in DOMAIN Vault
    /\ \A s \in DOMAIN Vault : \A a, b \in Vault[s] : a = b

VARIABLES
    process, \* where the process is, its command, and its exit status
    config,  \* {} or the configuration
    sources, \* the sources of the configuration, until AppState is built
    secrets, \* the credentials of AppState: each {} or one
    call,    \* the call in flight
    session, \* the dispatcher and the frame it works on
    past,    \* the items dispatched in a session, each with its answer
    written  \* the answers on standard output

boot == <<process, config, sources, secrets>>
dialogue == <<session, past, written>>
vars == <<boot, call, dialogue>>

NoCall == [at |-> "none"]
Closed == [at |-> "closed", phase |-> "await_initialize", frames |-> 0, todo |-> <<>>,
           batch |-> FALSE, answers |-> <<>>, tool |-> {}]
NoSecrets == [public |-> {}, admin |-> {}]

Init ==
    /\ process = [at |-> "start", command |-> "none", exit |-> 0]
    /\ config = {} /\ sources = {} /\ secrets = NoSecrets
    /\ call = NoCall
    /\ session = Closed /\ past = <<>> /\ written = <<>>

TheConfig == CHOOSE c \in config : TRUE

-----------------------------------------------------------------------------
(* Startup.                                                                    *)

Exit(status) == process' = [process EXCEPT !.at = "exited", !.exit = status]

\* The sources are read and merged: ConfigArgs::load.
Load(command, document, variables, arguments) ==
    /\ process.at = "start"
    /\ config' = LoadConfig(document, variables, arguments)
    /\ IF config' = {}
       THEN Exit(2) /\ UNCHANGED sources
       ELSE /\ process' = [process EXCEPT !.at = "loaded", !.command = command]
            /\ sources' = {[toml |-> document, env |-> variables, cli |-> arguments]}
    /\ UNCHANGED <<secrets, call, dialogue>>

\* with_catalog: every model to preload resolves, and no two to the same one.
Preloadable(models) ==
    /\ Range(models) \subseteq DOMAIN Canonical
    /\ IsInjective([i \in DOMAIN models |-> Canonical[models[i]]])

\* AppState::new: the credentials are read once and must differ, and the store and
\* the installer must be available.
Construct(available) ==
    /\ process.at = "loaded"
    /\ LET public == UNION {LoadCredential(s) : s \in TheConfig.auth}
           admin == UNION {LoadCredential(s) : s \in TheConfig.admin_auth}
       IN  IF /\ TheConfig.auth # {} => public # {}
              /\ TheConfig.admin_auth # {} => admin # {}
              /\ public \cap admin = {}
              /\ Preloadable(TheConfig.preload_models) /\ available
              /\ ValidPolicy(FromLimits(TheConfig))
           THEN /\ process' = [process EXCEPT !.at = "built"]
                /\ secrets' = [public |-> public, admin |-> admin]
           ELSE Exit(1) /\ UNCHANGED secrets
    /\ sources' = {}
    /\ UNCHANGED <<config, call, dialogue>>

\* preload, which only a strict policy lets fail, and then the command.  A session
\* over standard input uses neither credentials nor listeners.
Preload ==
    /\ process.at = "built"
    /\ \/ /\ TheConfig.startup_policy = "strict" /\ TheConfig.preload_models # <<>>
          /\ Exit(1)
          /\ UNCHANGED <<config, secrets, session>>
       \/ /\ process.command = "doctor"
          /\ Exit(0)
          /\ UNCHANGED <<config, secrets, session>>
       \/ /\ process.command = "serve"
          /\ process' = [process EXCEPT !.at = "serving"]
          /\ UNCHANGED <<config, secrets, session>>
       \/ /\ process.command = "mcp"
          /\ process' = [process EXCEPT !.at = "stdio"]
          /\ config' = {} /\ secrets' = NoSecrets
          /\ session' = [Closed EXCEPT !.at = "reading"]
    /\ UNCHANGED <<sources, call, past, written>>

-----------------------------------------------------------------------------
(* Who may call.                                                               *)

\* bearer_candidate: one header, with the scheme and a token behind it.
Bearer(headers) ==
    IF Len(headers) = 1 /\ headers[1].scheme = "Bearer" /\ headers[1].token # ""
    THEN {headers[1].token}
    ELSE {}

\* metrics_credential
MetricsSecret == IF secrets.admin # {} THEN secrets.admin ELSE secrets.public

\* require_public_auth, require_admin_auth and require_metrics_auth
Authorized(secret, headers) == secret # {} => Bearer(headers) = secret

\* authorize, the interceptor of gRPC: a header that is there must be well formed
\* even if no credential is required.
GrpcAuthorized(request) ==
    /\ ~request.binary
    /\ IF request.authorization = <<>>
       THEN secrets.public = {}
       ELSE Bearer(request.authorization) # {} /\ Authorized(secrets.public, request.authorization)

PublicPaths == {"/v1/embeddings", "/v1/embed", "/v1/models", "/mcp"}
AdminPaths == {"/v1/admin/models/install", "/v1/admin/models/load",
               "/v1/admin/models/unload", "/v1/admin/models/delete"}
OpenPaths == {"/", "/health/live", "/health/ready", "/openapi.json"}

\* route_method, and the routes that router builds.  The router answers HEAD as it
\* answers GET, less the body: a request with method "GET" stands for both.
RouteMethod(path) ==
    CASE path \in OpenPaths \cup {"/v1/models", "/metrics"} -> {"GET"}
      [] path \in {"/v1/embeddings", "/v1/embed", "/mcp"} -> {"POST"}
      [] path \in AdminPaths /\ TheConfig.admin_api_enabled -> {"POST"}
      [] OTHER -> {}

\* The credential that guards a route.
Guard(path) ==
    CASE path \in PublicPaths -> secrets.public
      [] path \in AdminPaths -> secrets.admin
      [] path = "/metrics" -> MetricsSecret
      [] OTHER -> {}

\* OriginPolicy::allows and the checks in front of it: no origin, or one that is
\* listed exactly.
OriginAllowed(origins) ==
    \/ origins = <<>>
    \/ Len(origins) = 1 /\ origins[1] \in Range(TheConfig.allowed_origins)

FlavorForPath(path) == IF path = "/v1/embeddings" THEN "compatibility" ELSE "native"

Plain(status) == [status |-> status]

\* The preflight of a browser, for a route that exists and what it may ask for.
Preflight(request) ==
    CASE request.origins = <<>> -> ErrorResponse(FlavorForPath(request.path), 403, "invalid_request")
      [] request.origins # <<>> /\ RouteMethod(request.path) = {} -> Plain(404)
      [] OTHER -> IF request.asks \in RouteMethod(request.path) /\ request.asksHeaders
                  THEN Plain(204)
                  ELSE ErrorResponse(FlavorForPath(request.path), 403, "invalid_request")

\* What origin_layer, the router and the route's guard may answer without a handler:
\* {} if they let the request through.  Whether the guard is asked before a wrong
\* method is refused is up to the router.
Turned(request) ==
    LET flavor == FlavorForPath(request.path)
        unauthorized == IF Authorized(Guard(request.path), request.authorization) THEN {}
                        ELSE {ErrorResponse(flavor, 401, "invalid_request")}
    IN
    CASE ~OriginAllowed(request.origins) -> {ErrorResponse(flavor, 403, "invalid_request")}
      [] OriginAllowed(request.origins) /\ request.method = "OPTIONS" -> {Preflight(request)}
      [] OTHER -> IF RouteMethod(request.path) = {} THEN {Plain(404)}
                  ELSE IF request.method \in RouteMethod(request.path) THEN unauthorized
                  ELSE unauthorized \cup {Plain(405)}

-----------------------------------------------------------------------------
(* What a handler answers before it asks the application: {} if nothing.       *)

\* decode_json
Undecodable(request) ==
    CASE request.media # "json" -> {415}
      [] request.media = "json" /\ request.length = "garbled" -> {400}
      [] request.media = "json" /\ "large" \in {request.length, request.size}
             /\ request.length # "garbled" -> {413}
      [] OTHER -> IF request.body = "ok" THEN {} ELSE {400}

\* validate_inputs
InvalidInputs(request) ==
    IF \/ request.model = "" \/ request.inputs = <<>>
       \/ Len(request.inputs) > TheConfig.max_items
    THEN {400}
    ELSE IF \/ \E n \in Range(request.inputs) : n > TheConfig.max_input_bytes
            \/ SumFunction(request.inputs) > TheConfig.max_request_bytes
    THEN {413}
    ELSE {}

\* openai_embeddings, native_embeddings and admin_command up to their await.
Rejected(request) ==
    LET undecodable == Undecodable(request)
        status == IF undecodable # {} THEN undecodable
                  ELSE IF request.path \in AdminPaths
                  THEN IF request.model = "" THEN {400} ELSE {}
                  ELSE InvalidInputs(request)
    IN  {ErrorResponse(FlavorForPath(request.path), n, "invalid_request") : n \in status}

\* http_handler of MCP up to the dispatcher.
McpRejected(request) ==
    CASE request.sessionId -> {[status |-> 400, answers |-> <<Rpc({}, InvalidRequest)>>]}
      [] ~request.sessionId /\ ~request.accepts -> {Plain(406)}
      [] ~request.sessionId /\ request.accepts /\ request.media # "json" -> {Plain(415)}
      [] OTHER -> IF request.length \in {"large", "garbled"} \/ request.size = "large"
                  THEN {Plain(413)}
                  ELSE {}

\* parse_grpc_timeout: no timeout is {}, a malformed one is {-1}.  A grpc-timeout-bin is
\* in the sequence with "bin" for its unit.
GrpcTimeout(timeouts) ==
    IF timeouts = <<>> THEN {}
    ELSE IF /\ Len(timeouts) = 1 /\ timeouts[1].digits \in 1 .. 8
            /\ timeouts[1].unit \in DOMAIN Ticks
    THEN {timeouts[1].amount * Ticks[timeouts[1].unit]}
    ELSE {-1}

\* embed of the gRPC service up to its await.
GrpcRejected(request) ==
    LET timeout == GrpcTimeout(request.timeouts) IN
    IF timeout = {-1} THEN {StatusForPublic("invalid_request")}
    ELSE IF timeout = {0} THEN {StatusForPublic("deadline_exceeded")}
    ELSE IF ~request.enums THEN {StatusForPublic("invalid_request")}
    ELSE {}

\* effective_timeout, in ticks.
EffectiveTimeout(request) ==
    LET server == TheConfig.request_timeout_ms * Ticks["m"]
    IN  CHOOSE t \in GrpcTimeout(request.timeouts) \cup {server} :
            \A u \in GrpcTimeout(request.timeouts) \cup {server} : t <= u

-----------------------------------------------------------------------------
(* Calls over HTTP and gRPC.                                                   *)

\* The dispatcher takes a frame: it answers at once, or goes through its items.
Opened(s, frame) ==
    [s EXCEPT !.at = "dispatching", !.frames = @ + 1, !.tool = {},
              !.batch = (frame.form = "batch" /\ ~Refused(frame)),
              !.todo = IF Refused(frame) THEN <<>> ELSE frame.items,
              !.answers = IF Refused(frame) THEN <<Rpc({}, RefusalCode(frame))>> ELSE <<>>]

Call(via, request) ==
    [at |-> "running", via |-> via, request |-> request, op |-> "embed", passed |-> TRUE,
     cancelled |-> FALSE, timeout |-> 0, error |-> {}, reply |-> {}]

Replied(c, reply) == [c EXCEPT !.at = "replied", !.reply = {reply}]

\* The reply of a call that was let through but needs no application.
Immediate(path) ==
    IF path \in {"/health/live", "/health/ready"} THEN {Plain(200), Plain(503)} ELSE {Plain(200)}

\* A request over HTTP from any client: the layers, the guard, the handler.
Receive(via, request) ==
    /\ process.at = "serving" /\ call = NoCall
    /\ LET c == Call(via, request)
           turned == Turned(request)
           path == request.path
       IN  \/ /\ turned # {}
             /\ \E reply \in turned : call' = Replied([c EXCEPT !.passed = FALSE], reply)
             /\ UNCHANGED session
          \/ /\ turned = {} /\ path \in OpenPaths \cup {"/metrics"}
             /\ \E reply \in Immediate(path) : call' = Replied(c, reply)
             /\ UNCHANGED session
          \/ /\ turned = {} /\ path = "/v1/models"
             /\ call' = [c EXCEPT !.op = "list"]
             /\ UNCHANGED session
          \/ /\ turned = {} /\ path \in {"/v1/embeddings", "/v1/embed"} \cup AdminPaths
             /\ LET admin == [c EXCEPT !.op = IF path \in AdminPaths THEN "admin" ELSE "embed"] IN
                IF Rejected(request) = {}
                THEN call' = admin
                ELSE \E reply \in Rejected(request) : call' = Replied(admin, reply)
             /\ UNCHANGED session
          \/ /\ turned = {} /\ path = "/mcp"
             /\ IF McpRejected(request) = {}
                THEN /\ call' = [c EXCEPT !.op = "mcp", !.at = "dispatching"]
                     /\ session' = Opened([Closed EXCEPT !.phase = "stateless"], request.frame)
                ELSE /\ \E reply \in McpRejected(request) : call' = Replied(c, reply)
                     /\ UNCHANGED session
    /\ UNCHANGED <<boot, past, written>>

\* The interceptor and the handler of gRPC.
GrpcReceive(request) ==
    /\ process.at = "serving" /\ call = NoCall
    /\ LET c == Call("grpc", request) IN
       IF ~GrpcAuthorized(request)
       THEN call' = Replied([c EXCEPT !.passed = FALSE], [status |-> "UNAUTHENTICATED"])
       ELSE IF GrpcRejected(request) # {}
       THEN \E reply \in GrpcRejected(request) : call' = Replied(c, reply)
       ELSE call' = [c EXCEPT !.timeout = EffectiveTimeout(request)]
    /\ UNCHANGED <<boot, dialogue>>

\* What the application may return: {} for success, or an error.
Outcomes(op) ==
    {{}} \cup
    CASE op = "embed" -> {{e} : e \in {EngineFailure(c) : c \in ErrorCode}
                                      \cup {CatalogRequestError, InfrastructureError}}
      [] op = "admin" -> {{e} : e \in {LifecycleFailure(l) : l \in LifecycleError}
                                      \cup {CatalogRequestError, InfrastructureError}}
      [] op \in {"list", "list_models"} -> {{InfrastructureError}}

\* The reply to a call that the application has answered.
ReplyFor(c, outcome) ==
    IF outcome = {}
    THEN CASE c.via = "grpc" -> [status |-> "OK"]
           [] c.request.path = "/v1/admin/models/install" -> Plain(202)
           [] OTHER -> Plain(200)
    ELSE LET error == CHOOSE e \in outcome : TRUE IN
         IF c.via = "grpc" THEN StatusForPublic(error.code)
         ELSE ApplicationResponse(error, FlavorForPath(c.request.path))

\* The handler goes on behind its await.  A failure leaves the gRPC handler before it
\* disarms its DisconnectGuard.
Respond(outcome) ==
    /\ call.at = "running"
    /\ outcome \in Outcomes(call.op)
    /\ call' = Replied([call EXCEPT !.error = outcome,
                                    !.cancelled = (call.via = "grpc" /\ outcome # {})],
                       ReplyFor(call, outcome))
    /\ UNCHANGED <<boot, dialogue>>

\* The sleep beside the application in the gRPC handler.
GrpcTimer ==
    /\ call.at = "running" /\ call.via = "grpc"
    /\ call' = Replied([call EXCEPT !.cancelled = TRUE, !.error = {EngineFailure("deadline_exceeded")}],
                       StatusForPublic("deadline_exceeded"))
    /\ UNCHANGED <<boot, dialogue>>

\* The client goes away and the handler's future is dropped where it awaits:
\* CancelOnDrop and DisconnectGuard cancel the token of an embedding.
Disconnect ==
    /\ call.at = "running" /\ call.op \in {"embed", "admin"}
    /\ call' = [call EXCEPT !.at = "gone", !.cancelled = (call.op = "embed")]
    /\ UNCHANGED <<boot, dialogue>>

Hangup ==
    /\ call # NoCall /\ call.at \in {"replied", "gone"} /\ process.at = "serving"
    /\ call' = NoCall
    /\ UNCHANGED <<boot, dialogue>>

-----------------------------------------------------------------------------
(* The command line client, models list|install|load|unload|delete.            *)

\* Mutant: every command takes the variable of the public credential.
ClientSourcePublic(command) ==
    IF command.explicit # {} THEN command.explicit
    ELSE IF command.conventional THEN {[kind |-> "env", name |-> "IMPOSSIBLE_AUTH_TOKEN"]}
    ELSE {}

\* client_credential_source: an explicit source, or the conventional variable.
ClientSource(command) ==
    IF command.explicit # {} THEN command.explicit
    ELSE IF command.conventional
    THEN {[kind |-> "env", name |-> IF command.action = "list" THEN "IMPOSSIBLE_AUTH_TOKEN"
                                    ELSE "IMPOSSIBLE_ADMIN_AUTH_TOKEN"]}
    ELSE {}

\* request_models up to send.
ClientRequest(command, tokens) ==
    [method |-> IF command.action = "list" THEN "GET" ELSE "POST",
     path |-> CASE command.action = "list" -> "/v1/models"
                [] command.action = "install" -> "/v1/admin/models/install"
                [] command.action = "load" -> "/v1/admin/models/load"
                [] command.action = "unload" -> "/v1/admin/models/unload"
                [] command.action = "delete" -> "/v1/admin/models/delete",
     authorization |-> IF tokens = {} THEN <<>>
                       ELSE <<[scheme |-> "Bearer", token |-> CHOOSE t \in tokens : TRUE]>>,
     origins |-> <<>>, media |-> "json", length |-> "ok", size |-> "ok", body |-> "ok",
     model |-> "m", inputs |-> <<>>]

\* run_models: a credential that cannot be loaded ends the client before it sends.
RunModels(command) ==
    LET source == ClientSource(command)
        tokens == UNION {LoadCredential(c) : c \in source}
    IN  IF source # {} /\ tokens = {} THEN {} ELSE {ClientRequest(command, tokens)}

\* ClientError and its exit code, for the reply that came.
ClientExit(status) == IF status \in 200 .. 299 THEN 0 ELSE ExitForStatus(status)

-----------------------------------------------------------------------------
(* The dispatcher, for standard input and for a POST to /mcp.                  *)

Recorded(item, answer) ==
    IF session.phase = "stateless" THEN past
    ELSE Append(past, [item |-> item, batch |-> session.batch, answer |-> answer])

\* The next item of the frame.
Dispatch ==
    /\ session.at = "dispatching" /\ session.todo # <<>>
    /\ LET item == Head(session.todo)
           skipped == session.batch /\ InBatch(item)
           answer == IF session.batch THEN AnswerInBatch(session.phase, item)
                     ELSE Answer(session.phase, item)
       IN  IF ~skipped /\ Calls(session.phase, item)
           THEN session' = [session EXCEPT !.at = "calling"] /\ UNCHANGED past
           ELSE /\ session' = [session EXCEPT !.todo = Tail(@), !.answers = @ \o answer,
                                 !.phase = IF skipped THEN @ ELSE PhaseAfter(@, item)]
                /\ past' = Recorded(item, answer)
    /\ UNCHANGED <<boot, call, written>>

\* The application returns to embed or list_models: a failure is a result too.
ToolReturns(outcome) ==
    /\ session.at = "calling"
    /\ LET item == Head(session.todo)
           answer == Rpc(item.id, Success)
       IN  /\ outcome \in Outcomes(item.tool)
           /\ session' = [session EXCEPT !.at = "dispatching", !.todo = Tail(@),
                             !.answers = Append(@, answer),
                             !.tool = {[error |-> e, result |-> ToolError(e)] : e \in outcome}]
           /\ past' = Recorded(item, <<answer>>)
    /\ UNCHANGED <<boot, call, written>>

\* The status of a POST: a batch is always 200, whatever is in it.
McpStatus(s) ==
    IF s.answers = <<>> THEN 202
    ELSE IF ~s.batch /\ s.answers[1].code \in {ParseError, InvalidRequest} THEN 400
    ELSE 200

FinishPost ==
    /\ session.at = "dispatching" /\ session.todo = <<>> /\ session.phase = "stateless"
    /\ call' = Replied(call, [status |-> McpStatus(session), answers |-> session.answers])
    /\ session' = Closed
    /\ UNCHANGED <<boot, past, written>>

\* A client that leaves while a tool is waited for.
DropPost ==
    /\ session.at = "calling" /\ session.phase = "stateless"
    /\ Head(session.todo).tool = "embed"
    /\ call' = [call EXCEPT !.at = "gone"]
    /\ session' = Closed
    /\ UNCHANGED <<boot, past, written>>

-----------------------------------------------------------------------------
(* run_stdio and what run_mcp does behind it.                                  *)

ReadLine(frame) ==
    /\ session.at = "reading" /\ session.frames < MaxFrames
    /\ session' = Opened(session, frame)
    /\ past' = IF Refused(frame)
               THEN Append(past, [item |-> [valid |-> FALSE], batch |-> FALSE,
                                  answer |-> session'.answers])
               ELSE past
    /\ UNCHANGED <<boot, call, written>>

\* Mutant: the answers of a batch are collected from the end.
WriteFrameReversed ==
    /\ session.at = "dispatching" /\ session.todo = <<>> /\ session.phase # "stateless"
    /\ LET n == Len(session.answers)
       IN  written' = written \o [i \in 1 .. n |-> session.answers[n + 1 - i]]
    /\ session' = [session EXCEPT !.at = "reading", !.answers = <<>>, !.tool = {}]
    /\ UNCHANGED <<boot, call, past>>

\* write_frame, unless there is nothing to answer.
WriteFrame ==
    /\ session.at = "dispatching" /\ session.todo = <<>> /\ session.phase # "stateless"
    /\ written' = written \o session.answers
    /\ session' = [session EXCEPT !.at = "reading", !.answers = <<>>, !.tool = {}]
    /\ UNCHANGED <<boot, call, past>>

\* The end of input or a shutdown is seen while a line is awaited; an I/O error
\* ends the session there or when an answer is written.
CloseStdio(failed) ==
    /\ process.at = "stdio"
    /\ \/ session.at = "reading"
       \/ failed /\ session.at = "dispatching" /\ session.todo = <<>> /\ session.answers # <<>>
    /\ process' = [process EXCEPT !.at = "draining", !.exit = IF failed THEN 1 ELSE 0]
    /\ session' = Closed
    /\ UNCHANGED <<config, sources, secrets, call, past, written>>

\* The trigger, the shutdown of the application and the exit status.
Drain(drained) ==
    /\ process.at = "draining"
    /\ Exit(IF process.exit = 1 \/ ~drained THEN 1 ELSE 0)
    /\ past' = <<>> /\ written' = <<>>
    /\ UNCHANGED <<config, sources, secrets, call, session>>

Next ==
    \/ \E command \in {"serve", "mcp", "doctor"}, d \in 0 .. Len(Documents),
          e \in DOMAIN Environments, c \in DOMAIN CommandLines :
             Load(command, IF d = 0 THEN {} ELSE {Documents[d]}, Environments[e], CommandLines[c])
    \/ \E available \in BOOLEAN : Construct(available)
    \/ Preload
    \/ \E via \in {"http", "client"} :
          \E request \in IF via = "http" THEN HttpRequests ELSE UNION {RunModels(m) : m \in ModelCommands} :
             Receive(via, request)
    \/ \E request \in GrpcRequests : GrpcReceive(request)
    \/ \E outcome \in {{}} \cup {{e} : e \in ApplicationErrors} : Respond(outcome) \/ ToolReturns(outcome)
    \/ GrpcTimer \/ Disconnect \/ Hangup
    \/ Dispatch \/ FinishPost \/ DropPost
    \/ \E frame \in Frames : ReadLine(frame)
    \/ WriteFrame
    \/ \E failed \in BOOLEAN : CloseStdio(failed)
    \/ \E drained \in BOOLEAN : Drain(drained)

Spec == Init /\ [][Next]_vars

-----------------------------------------------------------------------------
(* Properties.                                                                 *)

\* What a source says of a field: {} or one value.
Says(source, f) ==
    LET from == CHOOSE s \in sources : TRUE
        Option(a) == IF a.option \in FlagKeys THEN TRUE
                     ELSE Applied(a.option, CHOOSE r \in a.raw : TRUE)
        Variable(v) == IF v.key \in TokenPresent THEN {[kind |-> "env", name |-> v.name]}
                       ELSE Applied(v.key, v.raw)
        Pick(entries, Is(_), Value(_)) ==
            {Value(entries[i]) : i \in {j \in DOMAIN entries : Is(entries[j])}}
    IN  CASE source = "cli" -> Pick(from.cli, LAMBDA a : FieldOf(a.option) = f, Option)
          [] source = "env" -> Pick(from.env, LAMBDA v : v.prefixed /\ FieldOf(v.key) = f, Variable)
          [] source = "toml" -> UNION {Pick(d.entries, LAMBDA e : FieldOf(e.key) = f,
                                            LAMBDA e : Applied(e.key, e.raw)) : d \in from.toml}

\* A configuration that load accepts has every field from the strongest source
\* that says anything of it, the command line before the environment before the
\* file, and a credential is one field however it is given.
StrongestSourceWins ==
    process.at = "loaded" =>
        \A f \in DOMAIN DefaultConfig :
            {TheConfig[f]} =
                IF Says("cli", f) # {} THEN Says("cli", f)
                ELSE IF Says("env", f) # {} THEN Says("env", f)
                ELSE IF Says("toml", f) # {} THEN Says("toml", f)
                ELSE {DefaultConfig[f]}

\* A handler runs for a caller without the credential of its route only if none
\* is configured, and then every listener is local, or the route is not
\* administrative and the operator has acknowledged it.  The public credential
\* opens no administrative route, and a browser is let in by its exact origin.
ExposureIsGuarded ==
    call # NoCall /\ call.passed =>
        LET request == call.request
            held == Bearer(request.authorization)
            admin == call.via # "grpc" /\ request.path \in AdminPaths
            metrics == call.via # "grpc" /\ request.path = "/metrics"
            open == call.via # "grpc" /\ request.path \in OpenPaths
            needed == IF admin THEN TheConfig.admin_auth
                      ELSE IF metrics /\ TheConfig.admin_auth # {} THEN TheConfig.admin_auth
                      ELSE TheConfig.auth
        IN  /\ \/ open
               \/ needed # {} /\ held = UNION {LoadCredential(s) : s \in needed}
               \/ needed = {} /\ ~RemotelyExposed(TheConfig)
               \/ needed = {} /\ ~admin /\ TheConfig.allow_insecure_remote
            /\ admin => TheConfig.admin_api_enabled
            /\ admin /\ TheConfig.auth # {} /\ TheConfig.admin_auth # {} =>
                   held # UNION {LoadCredential(s) : s \in TheConfig.auth}
            /\ call.via # "grpc" =>
                   Range(request.origins) \subseteq Range(TheConfig.allowed_origins)

\* A failure means the same on every transport: the reply names its code, only
\* an invalid request is put down to the caller, a retry is advised by all or by
\* none, and HTTP, which goes by the kind, tells the same failures apart as gRPC,
\* which goes by the code.
FailuresAgree ==
    LET Advised(code) == StatusForPublic(code).retryability = "retryable" IN
    /\ call # NoCall /\ call.at = "replied" =>
           \A error \in call.error, reply \in call.reply :
               /\ reply.code = error.code
               /\ (IF call.via = "grpc" THEN reply.status = "INVALID_ARGUMENT" ELSE reply.status = 400)
                      <=> error.code = "invalid_request"
               /\ "retryable" \in DOMAIN reply => reply.retryable = Advised(error.code)
               /\ \A other \in ApplicationErrors :
                      HttpStatus(other.kind) = HttpStatus(error.kind)
                          <=> GrpcStatus(other.code) = GrpcStatus(error.code)
    /\ \A tool \in session.tool :
           tool.result.code = tool.error.code /\ tool.result.retryable = Advised(tool.error.code)

\* A client that is given no credential but shares its conventional variables
\* with the server, which takes its credentials from nowhere else, is never turned
\* away as unauthenticated.
ConventionAuthenticates ==
    LET Conventional(name) == {{}, {[kind |-> "env", name |-> name]}} IN
    /\ call # NoCall /\ call.via = "client" /\ call.at = "replied"
    /\ TheConfig.auth \in Conventional("IMPOSSIBLE_AUTH_TOKEN")
    /\ TheConfig.admin_auth \in Conventional("IMPOSSIBLE_ADMIN_AUTH_TOKEN")
    /\ \E command \in ModelCommands :
           /\ command.conventional /\ command.explicit = {}
           /\ call.request \in RunModels(command)
    => \A reply \in call.reply : ClientExit(reply.status) # 4

\* A tool is listed or called only behind the handshake: an initialize that was
\* answered outside a batch, and then the client's notification.
HandshakeFirst ==
    LET Opens(i, k) ==
            \E j \in i + 1 .. k - 1 :
                /\ past[i].item.valid /\ past[i].item.method = "initialize"
                /\ ~past[i].batch /\ past[i].answer # <<>> /\ past[i].answer[1].code = Success
                /\ past[j].item.valid /\ past[j].item.method = "notifications/initialized"
                /\ past[j].item.id = {}
    IN  \A k \in DOMAIN past :
            /\ past[k].item.valid /\ past[k].item.method \in {"tools/list", "tools/call"}
            /\ past[k].answer # <<>> /\ past[k].answer[1].code # NotInitialized
            => \E i \in 1 .. k - 1 : Opens(i, k)

\* When the session waits for a line, every request so far has been answered once
\* with its id, every line or item that is none with a null id, no notification
\* at all, and all in the order in which they came.
AnsweredInOrder ==
    session.at = "reading" =>
        LET due == {i \in DOMAIN past : past[i].item.valid => past[i].item.id # {}} IN
        /\ Len(written) = Cardinality(due)
        /\ \A i \in due : written[Cardinality({k \in due : k <= i})].id =
                               IF past[i].item.valid THEN past[i].item.id ELSE {}
=============================================================================
