---------------------------- MODULE MCFetchStack -----------------------------
(* Instance of FetchStack for TLC: see FetchStack.cfg.                       *)
EXTENDS FetchStack

CONSTANTS c1, c2, c3

ThreeCallers == {c1, c2, c3}

StatusAnswer(status, retryAfter) ==
    [fault |-> "none", status |-> status, retryAfter |-> retryAfter]
FaultAnswer(fault) == [fault |-> fault, status |-> 0, retryAfter |-> {}]

\* One answer per class the code tells apart: a permanent error, a 429 with and
\* without Retry-After (one above the cap), a 5xx and a transport fault.
MCAnswers ==
    {StatusAnswer(404, {}), StatusAnswer(429, {0}), StatusAnswer(429, {9}),
     StatusAnswer(429, {}), StatusAnswer(503, {}), FaultAnswer("timeout")}
=============================================================================
