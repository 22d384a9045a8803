---------------------------- MODULE Configuration ----------------------------
(***************************************************************************)
(* ServerConfig: the three sources and how they are merged, validation,    *)
(* the credentials a configuration points to, and the scheduler policy     *)
(* that is built from it.                                                  *)
(*                                                                         *)
(* An entry of a source is a key with a raw value, and a raw value is a    *)
(* scalar or a list, whether the parser of its key accepts the text, and   *)
(* what it makes of it.  An operation that may fail returns a set: {} or   *)
(* its one result.                                                         *)
(***************************************************************************)
EXTENDS Integers, Sequences, Functions

CONSTANT Vault \* what a credential source holds: {} or one content

PublicAuth == {"auth_env", "auth_file", "auth_token_present"}
AdminAuth == {"admin_auth_env", "admin_auth_file", "admin_auth_token_present"}
TokenPresent == {"auth_token_present", "admin_auth_token_present"}
FlagKeys == {"allow_insecure_remote", "offline"}
ListKeys == {"allowed_origins", "model_directories", "preload_models"}
SizeKeys == {"max_body_bytes", "max_input_bytes", "max_request_bytes", "max_items", "max_tokens",
             "max_queue_depth", "max_batch_items", "max_batch_tokens", "max_concurrency"}
TimeKeys == {"request_timeout_ms", "shutdown_timeout_ms"}

ConfigKey ==
    {"http_bind", "grpc_bind", "admin_api_enabled", "cache_directory", "startup_policy"}
    \cup PublicAuth \cup AdminAuth \cup FlagKeys \cup ListKeys \cup SizeKeys \cup TimeKeys

\* The field of ServerConfig that a key sets.
FieldOf(key) ==
    CASE key \in PublicAuth -> "auth"
      [] key \in AdminAuth -> "admin_auth"
      [] OTHER -> key

Loopback6(port) == [ip |-> "loopback", port |-> port]

DefaultConfig ==
    [http_bind |-> Loopback6(8080), grpc_bind |-> Loopback6(50051),
     allow_insecure_remote |-> FALSE, auth |-> {}, admin_auth |-> {}, admin_api_enabled |-> TRUE,
     allowed_origins |-> <<>>, model_directories |-> <<>>, cache_directory |-> "cache",
     preload_models |-> <<>>, offline |-> FALSE, startup_policy |-> "best_effort",
     max_body_bytes |-> 2097152, max_input_bytes |-> 262144, max_request_bytes |-> 1048576,
     max_items |-> 128, max_tokens |-> 32768, max_queue_depth |-> 256, max_batch_items |-> 128,
     max_batch_tokens |-> 32768, max_concurrency |-> 4,
     request_timeout_ms |-> 30000, shutdown_timeout_ms |-> 20000]

-----------------------------------------------------------------------------
(* The sources.                                                                *)

\* Patch::set for every entry: a source names a key at most once.
Patch(entries) ==
    IF \A i, j \in DOMAIN entries : entries[i].key = entries[j].key => i = j
    THEN {[k \in {entries[i].key : i \in DOMAIN entries} |->
              entries[CHOOSE i \in DOMAIN entries : entries[i].key = k].raw]}
    ELSE {}

\* read_config_file and parse_toml: the file is regular, bounded, unchanged while
\* it is read and a TOML document, every key is known, and every value is text, a
\* number, a truth value or a list of texts.
ParseToml(document) ==
    IF /\ document.readable
       /\ \A i \in DOMAIN document.entries :
              document.entries[i].key \in ConfigKey /\ document.entries[i].raw.form # "other"
    THEN Patch(document.entries)
    ELSE {}

\* parse_environment: variables without the prefix are ignored and unknown ones
\* with it refused.  A variable that holds a token is recorded by its name.
ParseEnvironment(variables) ==
    LET ours == RestrictValues(variables, LAMBDA v : v.prefixed)
        Entry(v) == IF v.key \in TokenPresent
                    THEN [key |-> v.key, raw |-> [form |-> "scalar", parses |-> TRUE,
                                                  value |-> [kind |-> "env", name |-> v.name]]]
                    ELSE [key |-> v.key, raw |-> v.raw]
        Known(v) == v.key \in ConfigKey /\ (v.key \in TokenPresent => ~v.empty)
    IN  IF \A i \in DOMAIN ours : Known(ours[i])
        THEN Patch([i \in DOMAIN ours |-> Entry(ours[i])])
        ELSE {}

\* credential_like_option: the name is auth, or contains one of a few words, of
\* which "token" occurs in names of keys.
CredentialLike(option) ==
    option \in TokenPresent \cup {"auth", "max_tokens", "max_batch_tokens", "api_key"}

\* parse_cli: an option with the argument behind it, if there is one.  A flag
\* takes none and can only be switched on.
ParseCli(arguments) ==
    LET Wellformed(a) ==
            /\ a.dashes /\ ~CredentialLike(a.option) /\ a.option \in ConfigKey /\ ~a.inline
            /\ a.option \in FlagKeys \/ a.raw # {}
        Entry(a) == [key |-> a.option,
                     raw |-> IF a.option \in FlagKeys
                             THEN [form |-> "scalar", parses |-> TRUE, value |-> TRUE]
                             ELSE CHOOSE r \in a.raw : TRUE]
    IN  IF \A i \in DOMAIN arguments : Wellformed(arguments[i])
        THEN Patch([i \in DOMAIN arguments |-> Entry(arguments[i])])
        ELSE {}

\* apply_value accepts it: a list where a list belongs, without empty entries.
Applicable(key, raw) ==
    /\ raw.form = "list" => key \in ListKeys
    /\ raw.parses
    /\ key \in ListKeys => "" \notin Range(raw.value)

\* What a field becomes: credentials are optional in ServerConfig.
Applied(key, raw) == IF FieldOf(key) \in {"auth", "admin_auth"} THEN {raw.value} ELSE raw.value

\* Mutant: a later source only fills in what no earlier one has set.
ApplyMissing(patch, config) ==
    {[f \in DOMAIN config |->
        IF config[f] = DefaultConfig[f] /\ \E k \in DOMAIN patch : FieldOf(k) = f
        THEN LET k == CHOOSE k \in DOMAIN patch : FieldOf(k) = f IN Applied(k, patch[k])
        ELSE config[f]]}

\* Patch::apply: at most one source for a credential, and every value applies.
Apply(patch, config) ==
    IF /\ \A alternatives \in {PublicAuth, AdminAuth} :
              \A j, k \in alternatives \cap DOMAIN patch : j = k
       /\ \A k \in DOMAIN patch : Applicable(k, patch[k])
    THEN {[f \in DOMAIN config |->
              IF \E k \in DOMAIN patch : FieldOf(k) = f
              THEN LET k == CHOOSE k \in DOMAIN patch : FieldOf(k) = f IN Applied(k, patch[k])
              ELSE config[f]]}
    ELSE {}

-----------------------------------------------------------------------------
(* Validation.                                                                 *)

\* The upper bounds of validate_bounds.
Ceiling ==
    [max_body_bytes |-> 67108864, max_input_bytes |-> 67108864, max_request_bytes |-> 67108864,
     max_items |-> 4096, max_tokens |-> 1000000, max_queue_depth |-> 100000,
     max_batch_items |-> 4096, max_batch_tokens |-> 10000000, max_concurrency |-> 1024,
     request_timeout_ms |-> 600000, shutdown_timeout_ms |-> 600000]

ValidBounds(config) ==
    /\ \A k \in SizeKeys : config[k] \in 1 .. Ceiling[k]
    /\ \A k \in TimeKeys : config[k] \in 10 .. Ceiling[k]
    /\ config.max_items <= config.max_batch_items
    /\ config.max_input_bytes <= config.max_request_bytes
    /\ config.max_request_bytes <= config.max_body_bytes
    /\ config.max_tokens <= config.max_batch_tokens

RemotelyExposed(config) ==
    \E bind \in {config.http_bind, config.grpc_bind} : bind.ip # "loopback"

\* Mutant: the acknowledgement of an insecure listener covers the
\* administrative routes as well.
SafeExposureWaived(config) ==
    /\ RemotelyExposed(config) => config.auth # {} \/ config.allow_insecure_remote
    /\ config.admin_auth # {} => config.admin_auth # config.auth
    /\ RemotelyExposed(config) /\ config.admin_api_enabled =>
           config.admin_auth # {} \/ config.allow_insecure_remote

\* UnsafeRemoteBind and InvalidAdminCredentialPolicy
SafeExposure(config) ==
    /\ RemotelyExposed(config) => config.auth # {} \/ config.allow_insecure_remote
    /\ config.admin_auth # {} => config.admin_auth # config.auth
    /\ RemotelyExposed(config) /\ config.admin_api_enabled => config.admin_auth # {}

\* Exactly what a browser sends: a scheme of the web, a host and a port.
ValidOrigin(origin) == origin \notin {"*", "http://a/path", "ftp://a"}

\* A model name is bounded, not blank and without control characters.
Validate(config) ==
    /\ SafeExposure(config)
    /\ config.http_bind # config.grpc_bind
    /\ config.cache_directory # ""
    /\ IsInjective(config.preload_models)
    /\ Range(config.preload_models) \cap {" ", "long", "control"} = {}
    /\ ValidBounds(config)
    /\ \A origin \in Range(config.allowed_origins) : ValidOrigin(origin)

\* ServerConfig::load.  A document is optional: {} or {document}.
LoadConfig(document, variables, arguments) ==
    LET Over(patches, configs) == UNION {Apply(p, c) : p \in patches, c \in configs}
        toml == IF document = {} THEN {DefaultConfig}
                ELSE Over(UNION {ParseToml(d) : d \in document}, {DefaultConfig})
        env == Over(ParseEnvironment(variables), toml)
    IN  {c \in Over(ParseCli(arguments), env) : Validate(c)}

-----------------------------------------------------------------------------
(* What is built from a configuration.                                         *)

\* load_credential: there, a regular file that did not change while it was read,
\* and neither empty nor too long once one line ending is cut off.
LoadCredential(source) ==
    {c.text : c \in {v \in Vault[source] : v.safe /\ v.stable /\ v.text \notin {"", "long"}}}

\* BatchPolicy::from_limits
FromLimits(config) ==
    [queue_depth |-> config.max_queue_depth, max_items |-> config.max_items,
     max_input_bytes |-> config.max_input_bytes, max_request_bytes |-> config.max_request_bytes,
     max_tokens |-> config.max_tokens, max_batch_items |-> config.max_batch_items,
     max_batch_tokens |-> config.max_batch_tokens,
     blocking_concurrency |-> config.max_concurrency,
     request_timeout |-> config.request_timeout_ms]

\* BatchPolicy::validate
ValidPolicy(policy) ==
    /\ \A f \in DOMAIN policy : policy[f] > 0
    /\ policy.max_items <= policy.max_batch_items
    /\ policy.max_input_bytes <= policy.max_request_bytes
    /\ policy.max_tokens <= policy.max_batch_tokens
=============================================================================
