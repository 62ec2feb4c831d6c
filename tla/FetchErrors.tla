----------------------------- MODULE FetchErrors -----------------------------
(***************************************************************************)
(* What a single-shot fetcher makes of the remote's answer: the exception   *)
(* hierarchy of the fetcher port and the mapping from HTTP status codes to  *)
(* it, which the three fetchers (httpx, curl_cffi, browser) share, and the   *)
(* classes the retry policy and the orchestrator tell apart.                *)
(*                                                                         *)
(* An answer is a record: fault is "none", "timeout" or "network"; status   *)
(* is the HTTP status when there is no fault; retryAfter holds the seconds   *)
(* of a Retry-After header and is empty when there is none or when it is an  *)
(* HTTP date.                                                               *)
(***************************************************************************)
EXTENDS Integers

\* A status code as the fetchers read it: "ok" is a response, the rest are
\* subclasses of FetchError.
StatusOutcome(status) ==
    CASE status \in 200..399 -> "ok"
      [] status = 429        -> "rate_limited"
      [] status = 403        -> "forbidden"
      [] status \in 500..599 -> "server"
      [] OTHER               -> "permanent"

\* The outcome of one HTTP exchange.
Outcome(answer) ==
    IF answer.fault # "none" THEN answer.fault ELSE StatusOutcome(answer.status)

\* Every FetchError a single-shot fetcher raises.
FetchErrorKinds ==
    {"timeout", "network", "rate_limited", "forbidden", "server", "permanent"}

\* _RETRIABLE_TYPES.
IsRetriable(outcome) ==
    outcome \in {"timeout", "network", "rate_limited", "forbidden", "server"}
=============================================================================
