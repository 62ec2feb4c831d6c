--------------------------- MODULE MCTieredFetch -----------------------------
(***************************************************************************)
(* An instance of TieredFetch for TLC: three tiers, the middle one with two   *)
(* browser profiles, two tasks and two pages, one of which the site's rules   *)
(* exclude.                                                                  *)
(***************************************************************************)
EXTENDS TieredFetch

CONSTANTS c1, c2, open, private

MCPoolSize == <<1, 2, 1>>

Page(status, text, html, long, pattern) ==
    [fault |-> "none", status |-> status, retryAfter |-> {},
     text |-> text, html |-> html, long |-> long, pattern |-> pattern]

\* A page, a challenge, an image that contains a pattern, a long plain text
\* that does, a refusal, a missing page, a server error and a timeout.
MCAnswers ==
    {Page(200, TRUE, TRUE, TRUE, FALSE), Page(200, TRUE, TRUE, TRUE, TRUE),
     Page(200, FALSE, FALSE, TRUE, TRUE), Page(200, TRUE, FALSE, TRUE, TRUE),
     Page(403, TRUE, TRUE, FALSE, TRUE), Page(404, TRUE, TRUE, FALSE, FALSE),
     Page(503, TRUE, TRUE, FALSE, FALSE),
     [Page(0, FALSE, FALSE, FALSE, FALSE) EXCEPT !.fault = "timeout"]}
=============================================================================
