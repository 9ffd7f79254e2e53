------------------------------- MODULE Errors -------------------------------
(***************************************************************************)
(* What an error is taken for (src/src/error.rs): the class of a failed    *)
(* RPC, from the code the bridge attached, the Connect code or the HTTP    *)
(* status, and whether a caller is told that it may try again.             *)
(***************************************************************************)
EXTENDS Naturals

\* The classes a caller branches on.
ErrorKinds ==
  {"Unauthenticated", "PermissionDenied", "NotFound", "Validation", "RateLimited",
   "AgentBusy", "InvalidState", "Upstream", "Internal", "Cancelled", "Unknown"}

\* SdkErrorDetails.sdk_error_code, what the bridge says of a failure, by class; a newer
\* bridge may say more.
SdkCodesOf(kind) ==
  CASE kind = "Unauthenticated"  -> {"Unauthorized", "ApiKeyNotFound"}
    [] kind = "PermissionDenied" -> {"PlanRequired", "RoleForbidden", "FeatureUnavailable",
                                     "RepositoryAccess"}
    [] kind = "NotFound"         -> {"AgentNotFound", "RunNotFound"}
    [] kind = "Validation"       -> {"ValidationError", "InvalidModel", "InvalidBranchName",
                                     "RepositoryRequired", "PrResolutionFailed"}
    [] kind = "RateLimited"      -> {"UsageLimitExceeded", "RateLimitExceeded"}
    [] kind = "AgentBusy"        -> {"AgentBusy"}
    [] kind = "InvalidState"     -> {"AgentArchived", "RunNotCancellable"}
    [] kind = "Upstream"         -> {"UpstreamError"}
    [] kind = "Internal"         -> {"InternalError"}
    [] kind = "Cancelled"        -> {"ClientCancelled"}
    [] OTHER                     -> {}

ConnectCodesOf(kind) ==
  CASE kind = "Unauthenticated"  -> {"unauthenticated"}
    [] kind = "PermissionDenied" -> {"permission_denied"}
    [] kind = "NotFound"         -> {"not_found"}
    [] kind = "Validation"       -> {"invalid_argument", "failed_precondition", "out_of_range"}
    [] kind = "RateLimited"      -> {"resource_exhausted"}
    [] kind = "InvalidState"     -> {"aborted"}
    [] kind = "Upstream"         -> {"unavailable"}
    [] kind = "Internal"         -> {"internal", "data_loss"}
    [] kind = "Cancelled"        -> {"canceled", "cancelled"}
    [] OTHER                     -> {}

\* What stands for the Connect code when the body has none; no status in a stream.
CodeOfStatus(s) ==
  CASE s = 400 -> "invalid_argument"   [] s = 401 -> "unauthenticated"
    [] s = 403 -> "permission_denied"  [] s = 404 -> "not_found"
    [] s = 408 -> "deadline_exceeded"  [] s = 429 -> "resource_exhausted"
    [] s = 500 -> "internal"           [] s = 503 -> "unavailable"
    [] OTHER   -> "unknown"

\* A failed answer: the Connect code of its body ("" if it has none or is no JSON), its
\* HTTP status, and the code in its details ("none" if they cannot be read).
ConnectCode(f) == IF f.code = "" THEN CodeOfStatus(f.status) ELSE f.code

KindsBySdkCode(f) == {k \in ErrorKinds : f.sdk \in SdkCodesOf(k)}
KindsByConnectCode(f) == {k \in ErrorKinds : ConnectCode(f) \in ConnectCodesOf(k)}

\* mutant: the Connect code wins over the bridge's own
KindOfFailure_CodeFirst(f) ==
  IF KindsByConnectCode(f) # {} THEN CHOOSE k \in KindsByConnectCode(f) : TRUE
  ELSE IF KindsBySdkCode(f) # {} THEN CHOOSE k \in KindsBySdkCode(f) : TRUE
  ELSE "Unknown"

\* The bridge's own classification wins; a code this crate does not know leaves the
\* Connect code to tell, and an unknown Connect code says nothing.
KindOfFailure(f) ==
  IF KindsBySdkCode(f) # {} THEN CHOOSE k \in KindsBySdkCode(f) : TRUE
  ELSE IF KindsByConnectCode(f) # {} THEN CHOOSE k \in KindsByConnectCode(f) : TRUE
  ELSE "Unknown"

\* Error::is_retryable: the connection broke, or the failure is a passing one.  A
\* deadline of this side, a bad configuration or an unreadable answer is not.
IsRetryable(e) ==
  \/ e.error = "Transport"
  \/ e.error = "Rpc" /\ e.kind \in {"RateLimited", "Upstream", "Internal"}
==============================================================================
