----------------------------- MODULE PublicErrors ----------------------------
(***************************************************************************)
(* The taxonomy of failures: what the engine and the lifecycle report,     *)
(* what the application makes of it, and how each transport says it.  The  *)
(* HTTP status follows the kind of an ApplicationError, the gRPC status    *)
(* its public code.                                                        *)
(***************************************************************************)
EXTENDS Integers

ErrorCode == {"invalid_request", "model_unavailable", "queue_full", "cancelled",
              "deadline_exceeded", "inference_failed", "internal"}

LifecycleError == {"InvalidPolicy", "InitializationFailed", "ShuttingDown", "NotFound",
                   "AlreadyLoaded", "InUse", "LoadFailed", "InstallFailed", "DeleteFailed"}

\* PublicError::for_code
Retryability(code) ==
    CASE code \in {"invalid_request", "cancelled", "deadline_exceeded"} -> "never"
      [] code \in {"model_unavailable", "queue_full"} -> "retryable"
      [] OTHER -> "unknown"

\* Mutant: a full queue is not told from the failures of the implementation.
KindOfInternal(code) ==
    CASE code = "invalid_request" -> "InvalidRequest"
      [] code = "model_unavailable" -> "ModelUnavailable"
      [] code = "cancelled" -> "Cancelled"
      [] code = "deadline_exceeded" -> "DeadlineExceeded"
      [] OTHER -> "Internal"

\* From<EngineFailure>
KindOf(code) ==
    CASE code = "invalid_request" -> "InvalidRequest"
      [] code = "model_unavailable" -> "ModelUnavailable"
      [] code = "queue_full" -> "Overloaded"
      [] code = "cancelled" -> "Cancelled"
      [] code = "deadline_exceeded" -> "DeadlineExceeded"
      [] OTHER -> "Internal"

EngineFailure(code) == [kind |-> KindOf(code), code |-> code]

\* From<LifecycleError>
LifecycleFailure(error) ==
    CASE error = "ShuttingDown" -> [kind |-> "ShuttingDown", code |-> "model_unavailable"]
      [] error \in {"NotFound", "LoadFailed"} ->
             [kind |-> "ModelUnavailable", code |-> "model_unavailable"]
      [] error \in {"InvalidPolicy", "AlreadyLoaded", "InUse"} ->
             [kind |-> "InvalidRequest", code |-> "invalid_request"]
      [] OTHER -> [kind |-> "Internal", code |-> "internal"]

\* catalog_request_error and infrastructure_error
CatalogRequestError == [kind |-> "InvalidRequest", code |-> "invalid_request"]
InfrastructureError == [kind |-> "Internal", code |-> "internal"]

ApplicationErrors ==
    {EngineFailure(c) : c \in ErrorCode} \cup {LifecycleFailure(e) : e \in LifecycleError}
    \cup {CatalogRequestError, InfrastructureError}

-----------------------------------------------------------------------------
(* HTTP.                                                                       *)

HttpStatus(kind) ==
    CASE kind = "InvalidRequest" -> 400
      [] kind \in {"ModelUnavailable", "ShuttingDown"} -> 503
      [] kind = "Overloaded" -> 429
      [] kind = "Cancelled" -> 499
      [] kind = "DeadlineExceeded" -> 408
      [] kind = "Internal" -> 500

\* wire_error and compatibility_error: the two shapes of a failure.
ErrorResponse(flavor, status, code) ==
    IF flavor = "native"
    THEN [status |-> status, code |-> code, retryable |-> Retryability(code) = "retryable"]
    ELSE [status |-> status, code |-> code,
          type |-> IF code = "invalid_request" THEN "invalid_request_error" ELSE "server_error"]

\* application_error
ApplicationResponse(error, flavor) == ErrorResponse(flavor, HttpStatus(error.kind), error.code)

-----------------------------------------------------------------------------
(* gRPC, the tools of MCP, and the command line client.                        *)

GrpcStatus(code) ==
    CASE code = "invalid_request" -> "INVALID_ARGUMENT"
      [] code = "model_unavailable" -> "UNAVAILABLE"
      [] code = "queue_full" -> "RESOURCE_EXHAUSTED"
      [] code = "cancelled" -> "CANCELLED"
      [] code = "deadline_exceeded" -> "DEADLINE_EXCEEDED"
      [] OTHER -> "INTERNAL"

\* status_for_public with public_error_detail
StatusForPublic(code) ==
    [status |-> GrpcStatus(code), code |-> code, retryability |-> Retryability(code)]

\* tool_error: a result of the call, flagged as an error.
ToolError(error) ==
    [isError |-> TRUE, code |-> error.code, retryable |-> Retryability(error.code) = "retryable"]

\* ClientError::for_status and exit_code, for a reply that is not a success.
ExitForStatus(status) ==
    CASE status \in {401, 403} -> 4
      [] status \in 400 .. 499 \ {401, 403} -> 5
      [] OTHER -> 6
=============================================================================
