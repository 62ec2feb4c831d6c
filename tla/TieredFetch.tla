----------------------------- MODULE TieredFetch -----------------------------
(***************************************************************************)
(* TieredFetcher over one domain: robots.txt first, then the tiers from the  *)
(* one the domain is pinned to upwards, each a single-shot fetcher.  A        *)
(* refusal (403 or a page that is a challenge) moves on to the next tier and  *)
(* pins the domain higher.  Tier 1 is httpx, the middle tiers are curl_cffi   *)
(* with a pool of browser profiles, the last tier is the headless browser.    *)
(*                                                                         *)
(* The tasks share the fetcher on one event loop; a step goes from one        *)
(* suspension point to the next.                                             *)
(***************************************************************************)
EXTENDS FetchErrors, FiniteSets

CONSTANTS
    Callers,          \* tasks that share the fetcher
    Urls,             \* the pages of the domain they ask for
    Disallowed,       \* those the rules of its robots.txt exclude
    Tiers,            \* number of tiers, the last of which is the browser
    PoolSize,         \* browser profiles of each tier (1: no rotation)
    EscalateAfter,    \* escalate_after_403
    Ttl,              \* RobotsPolicy.cache_ttl_s, in ticks
    MaxContexts,      \* BrowserFetcher.max_concurrent_contexts
    Answers           \* what the site may answer

ASSUME TiersAssumption ==
    /\ Tiers \in Nat /\ Tiers >= 2
    /\ PoolSize \in [1..Tiers -> Nat \ {0}]
    /\ EscalateAfter \in Nat \ {0}
ASSUME RobotsAssumption == Disallowed \subseteq Urls /\ Ttl \in Nat
ASSUME BrowserAssumption == MaxContexts \in Nat \ {0} /\ IsFiniteSet(Callers)

VARIABLES
    policy,    \* RobotsPolicy: effective mode and on_fetch_error
    pc,        \* where each task is suspended
    url,       \* the page it asks for
    tier,      \* the tier its loop has reached
    tried,     \* profiles of that tier that have answered 403
    robots,    \* _cache[host]: what robots.txt said
    age,       \* ticks since fetched_at, up to Ttl
    forbids,   \* _forbids[domain], up to EscalateAfter
    pinned,    \* _pinned_tier[domain]
    browser,   \* BrowserFetcher._browser: "down" or "up"
    refused    \* history: tiers that have refused a request

loopVars == <<url, tier, tried>>
robotsVars == <<robots, age>>
pinVars == <<forbids, pinned, refused>>
vars == <<policy, pc, url, tier, tried, robots, age, forbids, pinned, browser, refused>>

\* "robots_wait" waits for the host's lock, "robots_get" downloads with the
\* lock held; "launch_wait" and "launching" are the same for the browser, and
\* "context_wait" waits for the semaphore of contexts.
Locations == {"idle", "robots_wait", "robots_get", "exchange",
              "launch_wait", "launching", "context_wait", "page"}
RobotsEntries == {"rules", "deny_all", "allow_all", "unavailable"}

TypeOK ==
    /\ policy \in [mode : {"respect", "log_only", "ignore"}, on_error : {"allow", "deny"}]
    /\ pc \in [Callers -> Locations]
    /\ url \in [Callers -> Urls]
    /\ tier \in [Callers -> 1..Tiers]
    /\ tried \in [Callers -> Nat]
    /\ \A c \in Callers : tried[c] < PoolSize[tier[c]]
    /\ robots \in RobotsEntries \union {"none"}
    /\ age \in 0..Ttl
    /\ forbids \in 0..EscalateAfter
    /\ pinned \in 1..Tiers
    /\ browser \in {"down", "up"}
    /\ refused \subseteq 1..Tiers

Init ==
    /\ policy \in [mode : {"respect", "log_only", "ignore"}, on_error : {"allow", "deny"}]
    /\ pc = [c \in Callers |-> "idle"]
    /\ url \in [Callers -> Urls]
    /\ tier = [c \in Callers |-> 1]
    /\ tried = [c \in Callers |-> 0]
    /\ robots = "none"
    /\ age = Ttl
    /\ forbids = 0
    /\ pinned = 1
    /\ browser = "down"
    /\ refused = {}

-----------------------------------------------------------------------------
(* robots.txt.                                                              *)

\* _load: what is cached is used while it is younger than the TTL.
Fresh == robots # "none" /\ age < Ttl

\* _load: the status of robots.txt; anything but a 4xx or a 200 is an error.
RobotsEntry(answer) ==
    IF answer.fault # "none" THEN "unavailable"
    ELSE CASE answer.status = 200            -> "rules"
           [] answer.status \in {401, 403}   -> "deny_all"
           [] answer.status \in (400..499) \ {401, 403} -> "allow_all"
           [] OTHER                          -> "unavailable"

\* can_fetch of the standard library's parser.
CanFetch(entry, u) ==
    \/ entry = "allow_all"
    \/ entry = "rules" /\ u \notin Disallowed

\* Mutation: a robots.txt that cannot be read always allows.
AllowedWhenUnknown(entry, u) ==
    entry = "unavailable" \/ policy.mode = "log_only" \/ CanFetch(entry, u)

\* is_allowed, once an entry is there.
Allowed(entry, u) ==
    IF entry = "unavailable"
    THEN policy.on_error = "allow"
    ELSE policy.mode = "log_only" \/ CanFetch(entry, u)

\* The loop enters tier t: the browser must be up and a context free before
\* its exchange.
EntryOf(t) ==
    IF t < Tiers THEN "exchange"
    ELSE IF browser = "up" THEN "context_wait" ELSE "launch_wait"

\* The tiers are entered at the pinned one.
StartTiers(c) ==
    /\ pc' = [pc EXCEPT ![c] = EntryOf(pinned)]
    /\ tier' = [tier EXCEPT ![c] = pinned]
    /\ tried' = [tried EXCEPT ![c] = 0]

\* assert_allowed on a known entry: go on or raise RobotsBlockedError.
PassRobots(c, entry, u) ==
    IF Allowed(entry, u)
    THEN StartTiers(c)
    ELSE pc' = [pc EXCEPT ![c] = "idle"] /\ UNCHANGED <<tier, tried>>

\* TieredFetcher.fetch, up to its first suspension point.
Fetch(c, u) ==
    /\ pc[c] = "idle"
    /\ url' = [url EXCEPT ![c] = u]
    /\ \/ policy.mode = "ignore" /\ StartTiers(c)
       \/ policy.mode # "ignore" /\ Fresh /\ PassRobots(c, robots, u)
       \/ /\ policy.mode # "ignore" /\ ~Fresh
          /\ pc' = [pc EXCEPT ![c] = "robots_wait"]
          /\ UNCHANGED <<tier, tried>>
    /\ UNCHANGED <<policy, robotsVars, pinVars, browser>>

RobotsLockFree == \A c \in Callers : pc[c] # "robots_get"

\* Mutation: the cache is not looked at again under the lock.
EnterRobotsLockBlindly(c) ==
    /\ pc[c] = "robots_wait"
    /\ RobotsLockFree
    /\ pc' = [pc EXCEPT ![c] = "robots_get"]
    /\ UNCHANGED <<policy, loopVars, robotsVars, pinVars, browser>>

\* The host's lock is acquired and the cache looked at once more.
EnterRobotsLock(c) ==
    /\ pc[c] = "robots_wait"
    /\ RobotsLockFree
    /\ IF Fresh
       THEN PassRobots(c, robots, url[c])
       ELSE pc' = [pc EXCEPT ![c] = "robots_get"] /\ UNCHANGED <<tier, tried>>
    /\ UNCHANGED <<policy, url, robotsVars, pinVars, browser>>

\* robots.txt arrives, or does not: the cache entry is replaced.
LoadRobots(c) ==
    /\ pc[c] = "robots_get"
    /\ \E a \in Answers :
          /\ robots' = RobotsEntry(a)
          /\ PassRobots(c, RobotsEntry(a), url[c])
    /\ age' = 0
    /\ UNCHANGED <<policy, url, pinVars, browser>>

-----------------------------------------------------------------------------
(* The tiers.                                                               *)

\* SoftBanDetector.inspect: a text response that looks like HTML, or is short,
\* and contains one of the patterns.
SoftBan(answer) ==
    /\ answer.text
    /\ answer.html \/ ~answer.long
    /\ answer.pattern

\* What a tier makes of an answer: a refusal is a 403 or a challenge page.
Refusal(answer) ==
    \/ Outcome(answer) = "forbidden"
    \/ Outcome(answer) = "ok" /\ SoftBan(answer)

Lesser(m, n) == IF m <= n THEN m ELSE n

\* Mutation: the first refusal pins the domain.
PinAtOnce(t) ==
    LET target == Lesser(t + 1, Tiers) IN
    /\ forbids' = Lesser(forbids + 1, EscalateAfter)
    /\ pinned' = IF pinned < target THEN target ELSE pinned
    /\ refused' = refused \union {t}

\* Mutation: the pin follows whichever task was refused last.
PinWithoutLooking(t) ==
    /\ forbids' = Lesser(forbids + 1, EscalateAfter)
    /\ pinned' = IF forbids + 1 >= EscalateAfter THEN Lesser(t + 1, Tiers) ELSE pinned
    /\ refused' = refused \union {t}

\* _record_forbid: count, and pin the domain above the tier that refused.
RecordForbid(t) ==
    LET target == Lesser(t + 1, Tiers) IN
    /\ forbids' = Lesser(forbids + 1, EscalateAfter)
    /\ pinned' = IF forbids + 1 >= EscalateAfter /\ pinned < target THEN target ELSE pinned
    /\ refused' = refused \union {t}

\* curl_cffi: 403 with profiles left in the pool, try the next one.
TryNextProfile(c) ==
    /\ pc[c] = "exchange"
    /\ \E a \in Answers : Outcome(a) = "forbidden"
    /\ tried[c] + 1 < PoolSize[tier[c]]
    /\ tried' = [tried EXCEPT ![c] = @ + 1]
    /\ UNCHANGED <<policy, pc, url, tier, robotsVars, pinVars, browser>>

\* Mutation: after the last tier the loop starts over.
RefusedStartsOver(c) ==
    /\ pc[c] \in {"exchange", "page"}
    /\ RecordForbid(tier[c])
    /\ tier' = [tier EXCEPT ![c] = IF @ < Tiers THEN @ + 1 ELSE pinned]
    /\ tried' = [tried EXCEPT ![c] = 0]
    /\ pc' = [pc EXCEPT ![c] = EntryOf(tier'[c])]
    /\ UNCHANGED <<policy, url, robotsVars, browser>>

\* The tier refuses: escalate, or raise ForbiddenError after the last one.
Refused(c) ==
    /\ pc[c] \in {"exchange", "page"}
    /\ \E a \in Answers :
          /\ Refusal(a)
          /\ Outcome(a) = "forbidden" => tried[c] + 1 = PoolSize[tier[c]]
    /\ RecordForbid(tier[c])
    /\ IF tier[c] < Tiers
       THEN /\ tier' = [tier EXCEPT ![c] = @ + 1]
            /\ tried' = [tried EXCEPT ![c] = 0]
            /\ pc' = [pc EXCEPT ![c] = EntryOf(tier[c] + 1)]
       ELSE pc' = [pc EXCEPT ![c] = "idle"] /\ UNCHANGED <<tier, tried>>
    /\ UNCHANGED <<policy, url, robotsVars, browser>>

\* The page is returned, or any other error is raised.
Answered(c) ==
    /\ pc[c] \in {"exchange", "page"}
    /\ \E a \in Answers : Outcome(a) # "forbidden" /\ ~Refusal(a)
    /\ pc' = [pc EXCEPT ![c] = "idle"]
    /\ UNCHANGED <<policy, loopVars, robotsVars, pinVars, browser>>

LaunchLockFree == \A c \in Callers : pc[c] # "launching"

\* Mutation: the browser is not looked at again under the lock.
LaunchAgain(c) ==
    /\ pc[c] = "launch_wait"
    /\ LaunchLockFree
    /\ pc' = [pc EXCEPT ![c] = "launching"]
    /\ UNCHANGED <<policy, loopVars, robotsVars, pinVars, browser>>

\* _ensure_started: the start lock is acquired and the browser looked at again.
EnterLaunchLock(c) ==
    /\ pc[c] = "launch_wait"
    /\ LaunchLockFree
    /\ pc' = [pc EXCEPT ![c] = IF browser = "up" THEN "context_wait" ELSE "launching"]
    /\ UNCHANGED <<policy, loopVars, robotsVars, pinVars, browser>>

\* The browser is up, or cannot be started and the error is raised.
Launch(c) ==
    /\ pc[c] = "launching"
    /\ \/ browser' = "up" /\ pc' = [pc EXCEPT ![c] = "context_wait"]
       \/ UNCHANGED browser /\ pc' = [pc EXCEPT ![c] = "idle"]
    /\ UNCHANGED <<policy, loopVars, robotsVars, pinVars>>

Contexts == {c \in Callers : pc[c] = "page"}

\* A context of the semaphore; it is closed whatever happens to the page.
OpenContext(c) ==
    /\ pc[c] = "context_wait"
    /\ Cardinality(Contexts) < MaxContexts
    /\ pc' = [pc EXCEPT ![c] = "page"]
    /\ UNCHANGED <<policy, loopVars, robotsVars, pinVars, browser>>

\* The task is cancelled, or something that is not a FetchError is raised: the
\* locks and the context it holds are given back.
Cancel(c) ==
    /\ pc[c] # "idle"
    /\ pc' = [pc EXCEPT ![c] = "idle"]
    /\ UNCHANGED <<policy, loopVars, robotsVars, pinVars, browser>>

\* A tick of the clock, which matters to the robots cache only.
Tick ==
    /\ age < Ttl
    /\ age' = age + 1
    /\ UNCHANGED <<policy, pc, loopVars, robots, pinVars, browser>>

Step(c) ==
    \/ EnterRobotsLock(c) \/ LoadRobots(c)
    \/ TryNextProfile(c) \/ Refused(c) \/ Answered(c)
    \/ EnterLaunchLock(c) \/ Launch(c) \/ OpenContext(c) \/ Cancel(c)

Next == Tick \/ \E c \in Callers : Step(c) \/ \E u \in Urls : Fetch(c, u)

\* Waiters of a lock or a semaphore are woken in order, and an exchange, a
\* download or a launch comes to an end because it has a timeout.
Fairness ==
    \A c \in Callers :
        /\ SF_vars(EnterRobotsLock(c))
        /\ SF_vars(EnterLaunchLock(c))
        /\ SF_vars(OpenContext(c))
        /\ WF_vars(LoadRobots(c) \/ Launch(c))
        /\ WF_vars(TryNextProfile(c) \/ Refused(c) \/ Answered(c))

Spec == Init /\ [][Next]_vars /\ Fairness
-----------------------------------------------------------------------------
(* Properties.                                                              *)

\* robots.txt is downloaded by one task at a time and only while nothing young
\* enough is cached, however many tasks find the cache empty together
\* (robots.py:88-123).
OneRobotsDownload ==
    \A c, d \in Callers :
        pc[c] = "robots_get" => ~Fresh /\ (pc[d] = "robots_get" => c = d)

AtTiers(c) == pc[c] \notin {"idle", "robots_wait", "robots_get"}
Enters(c) == ~AtTiers(c) /\ AtTiers(c)'

\* robots.py:54-55 counts a robots.txt that is not there (404) among those that
\* cannot be retrieved, where on_fetch_error = "deny" blocks everything; the
\* code opens the site whatever on_fetch_error says (robots.py:112-115).
MissingDespiteDeny == robots' = "allow_all" /\ policy.on_error = "deny"

\* In mode respect a fetch reaches the tiers only on the entry that is cached
\* at that moment, whichever task loaded it, and only when that entry allows
\* the page: its rules do not exclude it, or there is nothing to read and
\* on_fetch_error allows it.  After a 401 or 403 on robots.txt the site is
\* closed until a later answer opens it (robots.py:125-164).  Left out by name
\* is the case above, in which the code does not do what it documents.
ExcludedStaysOut ==
    [][\A c \in Callers :
          Enters(c) /\ policy.mode = "respect" /\ ~MissingDespiteDeny
             => \/ robots' = "rules" /\ url'[c] \notin Disallowed
                \/ robots' \in {"allow_all", "unavailable"} /\ policy.on_error = "allow"]_vars

\* What robots.py:54-55 says without that exception: with "deny", nothing is
\* fetched unless the rules of robots.txt were read.  The code does not keep it.
DenyBlocksEverything ==
    [][\A c \in Callers :
          Enters(c) /\ policy.mode = "respect" /\ policy.on_error = "deny"
             => robots' = "rules"]_vars

\* A domain is pinned above the first tier only after EscalateAfter refusals,
\* and to the tier above one that refused (or the last one, when that one
\* refused): tasks at different tiers never pin it past a tier that nobody
\* was refused by (tiered.py:169-176).
PinIsJustified ==
    pinned > 1 =>
        /\ forbids >= EscalateAfter
        /\ pinned - 1 \in refused \/ (pinned = Tiers /\ Tiers \in refused)

\* A task that is slow at a low tier never lowers the pin that a faster one
\* raised (tiered.py:174).
PinNeverFalls == [][pinned' >= pinned]_vars

\* At most one browser is launched at a time, never a second one while one is
\* up, and no page is opened without it (browser_fetcher.py:79-91).  This is
\* about _browser: the driver of a launch that fails or is cancelled between
\* the two awaits is not closed, and is not part of the model.
OneBrowser ==
    \A c, d \in Callers :
        /\ pc[c] = "launching" => browser = "down" /\ (pc[d] = "launching" => c = d)
        /\ pc[c] \in {"context_wait", "page"} => browser = "up"

\* Every fetch returns or raises: the robots lock, the launch lock and the
\* contexts are given back on every path.
FetchEnds == \A c \in Callers : pc[c] # "idle" ~> pc[c] = "idle"
=============================================================================
