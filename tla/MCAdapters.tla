------------------------------ MODULE MCAdapters -----------------------------
(* Listeners that are local or not, credentials that are missing, equal or    *)
(* distinct, limits at their bounds, and clients that hold one of the tokens. *)
EXTENDS Adapters

Env(name) == [kind |-> "env", name |-> name]
File(name) == [kind |-> "file", name |-> name]
Public == Env("IMPOSSIBLE_AUTH_TOKEN")
Admin == Env("IMPOSSIBLE_ADMIN_AUTH_TOKEN")

Content(text) == {[text |-> text, safe |-> TRUE, stable |-> TRUE]}
MCVault ==
    [s \in {Public, Admin, Env("OTHER"), Env("UNSET"), File("same"), File("swapped"), File("empty")} |->
        CASE s \in {Public, File("same")} -> Content("p")
          [] s = Admin -> Content("a")
          [] s = Env("OTHER") -> Content("o")
          [] s = Env("UNSET") -> {}
          [] s = File("swapped") -> {[text |-> "a", safe |-> TRUE, stable |-> FALSE]}
          [] s = File("empty") -> Content("")]

Scalar(value) == [form |-> "scalar", parses |-> TRUE, value |-> value]
List(value) == [form |-> "list", parses |-> TRUE, value |-> value]
Garbled == [form |-> "scalar", parses |-> FALSE, value |-> 0]
Wildcard(port) == [ip |-> "any", port |-> port]

Entry(key, raw) == [key |-> key, raw |-> raw]
Document(entries) == [readable |-> TRUE, entries |-> entries]
MCDocuments ==
    <<Document(<<Entry("http_bind", Scalar(Wildcard(80))), Entry("auth_env", Scalar(Env("OTHER"))),
                Entry("offline", Scalar(TRUE)), Entry("allowed_origins", List(<<"https://a">>))>>),
     Document(<<Entry("allow_insecure_remote", Scalar(TRUE)), Entry("admin_auth_file", Scalar(File("same"))),
                Entry("max_items", Scalar(1))>>),
     Document(<<Entry("allowed_origins", List(<<"*">>))>>),
     Document(<<Entry("max_items", [form |-> "other", parses |-> TRUE, value |-> 0])>>),
     [readable |-> FALSE, entries |-> <<>>]>>

Variable(key, raw) == [prefixed |-> TRUE, key |-> key, name |-> key, empty |-> FALSE, raw |-> raw]
Token(key, source) == [prefixed |-> TRUE, key |-> key, name |-> source.name, empty |-> FALSE,
                       raw |-> Garbled]
PublicToken == Token("auth_token_present", Public)
AdminToken == Token("admin_auth_token_present", Admin)
Foreign == [prefixed |-> FALSE, key |-> "PATH", name |-> "PATH", empty |-> FALSE, raw |-> Garbled]
MCEnvironments ==
    <<<<Foreign>>,
     <<PublicToken, AdminToken>>,
     <<AdminToken, Variable("offline", Scalar(FALSE)), Variable("startup_policy", Scalar("strict")),
       Variable("preload_models", Scalar(<<"m">>))>>,
     <<PublicToken, Variable("grpc_bind", Scalar(Wildcard(81)))>>,
     <<PublicToken, Variable("auth_file", Scalar(File("same")))>>,
     <<Variable("preload_models", Scalar(<<"m", "alias">>))>>,
     <<Variable("max_items", Scalar(0))>>,
     <<Variable("max_tokens", Scalar(1000001)), Variable("max_batch_tokens", Scalar(1000001))>>,
     <<[PublicToken EXCEPT !.empty = TRUE]>>,
     <<Variable("unknown", Garbled)>>>>

Option(option, raw) == [dashes |-> TRUE, option |-> option, inline |-> FALSE, raw |-> raw]
MCCommandLines ==
    <<<<>>,
     <<Option("http_bind", {Scalar(Wildcard(80))}), Option("admin_api_enabled", {Scalar(FALSE)})>>,
     <<Option("http_bind", {Scalar(Wildcard(80))}), Option("allow_insecure_remote", {})>>,
     <<Option("auth_file", {Scalar(File("same"))}), Option("offline", {})>>,
     <<Option("admin_auth_env", {Scalar(Env("UNSET"))})>>,
     <<Option("admin_auth_file", {Scalar(File("swapped"))})>>,
     <<Option("max_tokens", {Scalar(1)})>>,
     <<Option("max_items", {Garbled})>>,
     <<Option("offline", {}), Option("offline", {})>>,
     <<Option("grpc_bind", {Scalar(Loopback6(8080))})>>>>

MCCanonical == [n \in {"m", "alias"} |-> "m"]

Auth(token) == <<[scheme |-> "Bearer", token |-> token]>>
Get(path) ==
    [method |-> "GET", path |-> path, origins |-> <<>>, authorization |-> <<>>, asks |-> "GET",
     asksHeaders |-> TRUE, media |-> "json", length |-> "none", size |-> "ok", body |-> "ok",
     model |-> "m", inputs |-> <<1>>, sessionId |-> FALSE, accepts |-> TRUE, frame |-> <<>>]
Post(path) == [Get(path) EXCEPT !.method = "POST"]
Held == {<<>>, Auth("p"), Auth("a"), Auth("o"), Auth(""), <<[scheme |-> "Basic", token |-> "p"]>>,
         Auth("p") \o Auth("a")}
From(origins) == [Get("/v1/models") EXCEPT !.origins = origins]
Browser == [From(<<"https://a">>) EXCEPT !.method = "OPTIONS"]
Embed == [Post("/v1/embed") EXCEPT !.authorization = Auth("p")]

Item(id, method, params) ==
    [valid |-> TRUE, id |-> id, method |-> method, params |-> params, tool |-> "none", arguments |-> "none"]
Hello == Item({1}, "initialize", "ok")
Seen == Item({}, "notifications/initialized", "none")
Tool(tool, arguments) == [Item({2}, "tools/call", "ok") EXCEPT !.tool = tool, !.arguments = arguments]
Nonsense == [Hello EXCEPT !.valid = FALSE]
Items == {Hello, [Hello EXCEPT !.params = "bad"], [Hello EXCEPT !.id = {}], Seen, [Seen EXCEPT !.id = {3}],
          Item({1}, "ping", "none"), Item({2}, "tools/list", "none"), Tool("embed", "ok"),
          Tool("embed", "none"), Tool("list_models", "none"), Nonsense}
Single(item) == [form |-> "single", items |-> <<item>>]
Batch(items) == [form |-> "batch", items |-> items]
Unread(form) == [form |-> form, items |-> <<>>]
MCFrames ==
    {Single(i) : i \in Items}
    \cup {Batch(<<Hello, Seen>>), Batch(<<Seen, Tool("embed", "ok")>>), Batch(<<Nonsense, Seen, Hello>>),
          Batch(<<Seen>>), Batch(<<>>), Batch(<<Seen, Seen, Seen, Seen>>),
          Unread("oversized"), Unread("garbled")}

MCHttpRequests ==
    {[Get("/v1/models") EXCEPT !.authorization = h] : h \in Held}
    \cup {[Get("/metrics") EXCEPT !.authorization = h] : h \in Held}
    \cup {[Post(p) EXCEPT !.authorization = h] : h \in Held, p \in {"/v1/admin/models/install",
                                                               "/v1/embed", "/v1/embeddings"}}
    \cup {Get("/health/ready"), Get("/"), Get("/elsewhere"), From(<<"https://a">>), From(<<"https://b">>),
          From(<<"https://a", "https://a">>), Browser, [Browser EXCEPT !.asks = "POST"],
          [Browser EXCEPT !.path = "/elsewhere"], [Browser EXCEPT !.origins = <<>>],
          Get("/v1/embed"), Post("/metrics"), [Embed EXCEPT !.media = "other"], [Embed EXCEPT !.length = "garbled"],
          [Embed EXCEPT !.size = "large"], [Embed EXCEPT !.body = "garbled"],
          [Embed EXCEPT !.inputs = <<>>], [Embed EXCEPT !.inputs = <<1, 1>>],
          [Embed EXCEPT !.inputs = <<262145>>], [Embed EXCEPT !.inputs = [i \in 1 .. 5 |-> 262144]]}
    \cup {[Post("/mcp") EXCEPT !.authorization = Auth("p"), !.frame = f] : f \in MCFrames \ {Unread("oversized")}}
    \cup {[Post("/mcp") EXCEPT !.sessionId = TRUE], [Post("/mcp") EXCEPT !.accepts = FALSE],
          [Post("/mcp") EXCEPT !.length = "garbled"], [Post("/mcp") EXCEPT !.media = "other"]}

Timeout(digits, amount, unit) == [digits |-> digits, amount |-> amount, unit |-> unit]
Grpc == [binary |-> FALSE, authorization |-> <<>>, timeouts |-> <<>>, enums |-> TRUE]
MCGrpcRequests ==
    {[Grpc EXCEPT !.authorization = h] : h \in Held}
    \cup {[Grpc EXCEPT !.binary = TRUE], [Grpc EXCEPT !.enums = FALSE],
          [Grpc EXCEPT !.timeouts = <<Timeout(9, 1, "S")>>], [Grpc EXCEPT !.timeouts = <<Timeout(1, 0, "S")>>],
          [Grpc EXCEPT !.timeouts = <<Timeout(1, 1, "m")>>], [Grpc EXCEPT !.timeouts = <<Timeout(2, 40, "S")>>],
          [Grpc EXCEPT !.timeouts = <<Timeout(1, 1, "m"), Timeout(1, 1, "bin")>>]}
MCTicks == [u \in {"m", "S"} |-> IF u = "m" THEN 1 ELSE 1000]

Command(action, explicit, conventional) ==
    [action |-> action, explicit |-> explicit, conventional |-> conventional]
MCModelCommands ==
    {Command(a, {}, c) : a \in {"list", "install", "load", "unload", "delete"}, c \in BOOLEAN}
    \cup {Command("load", {Env("OTHER")}, TRUE), Command("load", {Env("UNSET")}, TRUE)}
=============================================================================
