--------------------------- MODULE TieredFetchProofs ---------------------------
(***************************************************************************)
(* Theorems about TieredFetch, for every number of tasks, tiers and profiles, *)
(* every robots.txt and whatever the site answers.                             *)
(***************************************************************************)
EXTENDS TieredFetch, TLAPS

IInv == TypeOK /\ OneRobotsDownload /\ OneBrowser /\ PinIsJustified

(* A domain nobody has asked for is not pinned, and no browser runs.           *)
LEMMA InitIInv == Init => IInv
<1> SUFFICES ASSUME Init PROVE IInv
  OBVIOUS
<1>1. TypeOK
  BY TiersAssumption, RobotsAssumption DEF Init, TypeOK, Locations, RobotsEntries
<1>2. OneRobotsDownload /\ OneBrowser /\ PinIsJustified
  BY DEF Init, OneRobotsDownload, OneBrowser, PinIsJustified
<1>3. QED
  BY <1>1, <1>2 DEF IInv

-----------------------------------------------------------------------------
(* The parts of a step.                                                     *)

(* Entering the tiers: at the pinned one, with its pool untried.               *)
LEMMA StartTiersEffect ==
  ASSUME TypeOK, NEW c \in Callers, StartTiers(c)
  PROVE  /\ pc' \in [Callers -> Locations] /\ tier' \in [Callers -> 1..Tiers]
         /\ tried' \in [Callers -> Nat]
         /\ \A d \in Callers : tried'[d] < PoolSize[tier'[d]]
         /\ \A d \in Callers : d # c => pc'[d] = pc[d]
         /\ pc'[c] \in {"exchange", "context_wait", "launch_wait"}
         /\ pc'[c] = "context_wait" => browser = "up"
BY TiersAssumption DEF TypeOK, StartTiers, EntryOf, Locations

(* Passing robots.txt leads into the tiers or back to the caller.              *)
LEMMA PassRobotsEffect ==
  ASSUME TypeOK, NEW c \in Callers, NEW entry, NEW u, PassRobots(c, entry, u)
  PROVE  /\ pc' \in [Callers -> Locations] /\ tier' \in [Callers -> 1..Tiers]
         /\ tried' \in [Callers -> Nat]
         /\ \A d \in Callers : tried'[d] < PoolSize[tier'[d]]
         /\ \A d \in Callers : d # c => pc'[d] = pc[d]
         /\ pc'[c] \in {"idle", "exchange", "context_wait", "launch_wait"}
         /\ pc'[c] = "context_wait" => browser = "up"
<1>1. CASE Allowed(entry, u)
  BY <1>1, StartTiersEffect DEF PassRobots
<1>2. CASE ~Allowed(entry, u)
  BY <1>2 DEF PassRobots, TypeOK, Locations
<1>3. QED
  BY <1>1, <1>2

(* What a refusal does to the pin.                                            *)
LEMMA RecordForbidEffect ==
  ASSUME TypeOK, NEW t \in 1..Tiers, RecordForbid(t)
  PROVE  /\ forbids' \in 0..EscalateAfter /\ pinned' \in 1..Tiers /\ refused' \subseteq 1..Tiers
         /\ pinned' >= pinned
         /\ PinIsJustified => PinIsJustified'
<1>1. /\ EscalateAfter \in Nat \ {0} /\ Tiers \in Nat /\ Tiers >= 2
      /\ forbids \in 0..EscalateAfter /\ pinned \in 1..Tiers /\ refused \subseteq 1..Tiers
  BY TiersAssumption DEF TypeOK
<1>2. PICK target \in 1..Tiers :
        /\ target = Lesser(t + 1, Tiers)
        /\ target = t + 1 \/ (target = Tiers /\ t = Tiers)
  BY <1>1 DEF Lesser
<1>3. /\ forbids' = Lesser(forbids + 1, EscalateAfter)
      /\ pinned' = IF forbids + 1 >= EscalateAfter /\ pinned < target THEN target ELSE pinned
      /\ refused' = refused \cup {t}
  BY <1>2 DEF RecordForbid
<1>4. forbids' \in 0..EscalateAfter /\ pinned' \in 1..Tiers /\ refused' \subseteq 1..Tiers
  BY <1>1, <1>2, <1>3 DEF Lesser
<1>5. pinned' >= pinned
  BY <1>1, <1>2, <1>3
<1>6. ASSUME PinIsJustified PROVE PinIsJustified'
  <2>1. CASE pinned' = pinned
    BY <1>1, <1>3, <1>6, <2>1 DEF PinIsJustified, Lesser
  <2>2. CASE pinned' # pinned
    <3>1. pinned' = target /\ forbids' = EscalateAfter
      BY <1>1, <1>3, <2>2 DEF Lesser
    <3>2. t \in refused' /\ (pinned' - 1 = t \/ (pinned' = Tiers /\ t = Tiers))
      BY <1>2, <1>3, <3>1
    <3>3. QED
      BY <1>1, <3>1, <3>2 DEF PinIsJustified
  <2>3. QED
    BY <2>1, <2>2
<1>7. QED
  BY <1>4, <1>5, <1>6

-----------------------------------------------------------------------------
(* The steps.                                                               *)

(* A call of fetch.                                                           *)
LEMMA FetchKeeps ==
  ASSUME IInv, NEW c \in Callers, NEW u \in Urls, Fetch(c, u)
  PROVE  IInv'
<1> USE DEF IInv
<1>1. /\ pc' \in [Callers -> Locations] /\ tier' \in [Callers -> 1..Tiers]
      /\ tried' \in [Callers -> Nat]
      /\ \A d \in Callers : tried'[d] < PoolSize[tier'[d]]
      /\ \A d \in Callers : d # c => pc'[d] = pc[d]
      /\ pc'[c] \in {"idle", "robots_wait", "exchange", "context_wait", "launch_wait"}
      /\ pc'[c] = "context_wait" => browser = "up"
  <2>1. CASE StartTiers(c)
    BY <2>1, StartTiersEffect
  <2>2. CASE PassRobots(c, robots, u)
    BY <2>2, PassRobotsEffect
  <2>3. CASE pc' = [pc EXCEPT ![c] = "robots_wait"] /\ UNCHANGED <<tier, tried>>
    BY <2>3 DEF TypeOK, Locations
  <2>4. QED
    BY <2>1, <2>2, <2>3 DEF Fetch
<1>2. TypeOK'
  BY <1>1 DEF Fetch, TypeOK, robotsVars, pinVars
<1>3. OneRobotsDownload' /\ OneBrowser' /\ PinIsJustified'
  BY <1>1 DEF Fetch, robotsVars, pinVars, OneRobotsDownload, OneBrowser, PinIsJustified, Fresh
<1>4. QED
  BY <1>2, <1>3

(* The robots lock.                                                           *)
LEMMA EnterRobotsLockKeeps ==
  ASSUME IInv, NEW c \in Callers, EnterRobotsLock(c)
  PROVE  IInv'
<1> USE DEF IInv
<1>1. CASE Fresh
  <2>1. PassRobots(c, robots, url[c])
    BY <1>1 DEF EnterRobotsLock
  <2>2. TypeOK'
    BY <2>1, PassRobotsEffect DEF EnterRobotsLock, TypeOK, robotsVars, pinVars
  <2>3. OneRobotsDownload' /\ OneBrowser' /\ PinIsJustified'
    BY <2>1, PassRobotsEffect DEF EnterRobotsLock, robotsVars, pinVars, OneRobotsDownload,
                                  OneBrowser, PinIsJustified, Fresh
  <2>4. QED
    BY <2>2, <2>3
<1>2. CASE ~Fresh
  <2>1. pc' = [pc EXCEPT ![c] = "robots_get"] /\ UNCHANGED <<tier, tried>>
    BY <1>2 DEF EnterRobotsLock
  <2>2. TypeOK'
    BY <2>1 DEF EnterRobotsLock, TypeOK, Locations, robotsVars, pinVars
  <2>3. OneRobotsDownload'
    BY <1>2, <2>1 DEF EnterRobotsLock, RobotsLockFree, robotsVars, OneRobotsDownload, Fresh, TypeOK
  <2>4. OneBrowser' /\ PinIsJustified'
    BY <2>1 DEF EnterRobotsLock, pinVars, OneBrowser, PinIsJustified, TypeOK
  <2>5. QED
    BY <2>2, <2>3, <2>4
<1>3. QED
  BY <1>1, <1>2

(* robots.txt arrives.                                                        *)
LEMMA LoadRobotsKeeps ==
  ASSUME IInv, NEW c \in Callers, LoadRobots(c)
  PROVE  IInv'
<1> USE DEF IInv
<1>1. PICK a \in Answers : robots' = RobotsEntry(a) /\ PassRobots(c, RobotsEntry(a), url[c])
  BY DEF LoadRobots
<1>2. RobotsEntry(a) \in RobotsEntries
  BY DEF RobotsEntry, RobotsEntries
<1>3. TypeOK'
  BY <1>1, <1>2, PassRobotsEffect, RobotsAssumption DEF LoadRobots, TypeOK, pinVars
<1>4. \A d \in Callers : pc'[d] # "robots_get"
  BY <1>1, PassRobotsEffect DEF LoadRobots, OneRobotsDownload
<1>5. OneRobotsDownload' /\ OneBrowser' /\ PinIsJustified'
  BY <1>1, <1>4, PassRobotsEffect DEF LoadRobots, pinVars, OneRobotsDownload, OneBrowser,
                                      PinIsJustified
<1>6. QED
  BY <1>3, <1>5

(* A refusal.                                                                 *)
LEMMA RefusedKeeps ==
  ASSUME IInv, NEW c \in Callers, Refused(c)
  PROVE  IInv'
<1> USE DEF IInv
<1>1. tier[c] \in 1..Tiers /\ RecordForbid(tier[c])
  BY DEF TypeOK, Refused
<1>2. /\ pc' \in [Callers -> Locations] /\ tier' \in [Callers -> 1..Tiers]
      /\ tried' \in [Callers -> Nat]
      /\ \A d \in Callers : tried'[d] < PoolSize[tier'[d]]
      /\ \A d \in Callers : d # c => pc'[d] = pc[d]
      /\ pc'[c] \in {"idle", "exchange", "context_wait", "launch_wait"}
      /\ pc'[c] = "context_wait" => browser = "up"
  <2>1. CASE tier[c] < Tiers
    <3>1. /\ tier' = [tier EXCEPT ![c] = @ + 1]
          /\ tried' = [tried EXCEPT ![c] = 0]
          /\ pc' = [pc EXCEPT ![c] = EntryOf(tier[c] + 1)]
      BY <2>1 DEF Refused
    <3>2. tier[c] + 1 \in 1..Tiers /\ PoolSize[tier[c] + 1] \in Nat \ {0}
      BY <1>1, <2>1, TiersAssumption
    <3>3. tier' \in [Callers -> 1..Tiers] /\ tried' \in [Callers -> Nat]
      BY <3>1, <3>2 DEF TypeOK
    <3>4. \A d \in Callers : tried'[d] < PoolSize[tier'[d]]
      BY <3>1, <3>2 DEF TypeOK
    <3>5. /\ pc' \in [Callers -> Locations]
          /\ \A d \in Callers : d # c => pc'[d] = pc[d]
          /\ pc'[c] \in {"idle", "exchange", "context_wait", "launch_wait"}
          /\ pc'[c] = "context_wait" => browser = "up"
      BY <3>1 DEF TypeOK, Locations, EntryOf
    <3>6. QED
      BY <3>3, <3>4, <3>5
  <2>2. CASE ~(tier[c] < Tiers)
    BY <1>1, <2>2, TiersAssumption DEF Refused, TypeOK, Locations
  <2>3. QED
    BY <2>1, <2>2
<1>3. TypeOK'
  BY <1>1, <1>2, RecordForbidEffect DEF Refused, TypeOK, robotsVars
<1>4. OneRobotsDownload' /\ OneBrowser'
  BY <1>2 DEF Refused, robotsVars, OneRobotsDownload, OneBrowser, Fresh
<1>5. PinIsJustified'
  BY <1>1, RecordForbidEffect
<1>6. QED
  BY <1>3, <1>4, <1>5

(* The steps that leave robots.txt, pins and browser alone.                   *)
LEMMA QuietKeeps ==
  ASSUME IInv, NEW c \in Callers,
         TryNextProfile(c) \/ Answered(c) \/ EnterLaunchLock(c) \/ OpenContext(c) \/ Cancel(c)
  PROVE  IInv'
<1> USE DEF IInv
<1>1. TypeOK'
  <2>1. CASE TryNextProfile(c)
    <3>1. PoolSize[tier[c]] \in Nat \ {0} /\ tried[c] \in Nat /\ tried[c] + 1 < PoolSize[tier[c]]
      BY <2>1, TiersAssumption DEF TryNextProfile, TypeOK
    <3>2. QED
      BY <2>1, <3>1 DEF TryNextProfile, TypeOK, robotsVars, pinVars
  <2>2. CASE Answered(c) \/ EnterLaunchLock(c) \/ OpenContext(c) \/ Cancel(c)
    BY <2>2 DEF Answered, EnterLaunchLock, OpenContext, Cancel, TypeOK, Locations, loopVars,
                robotsVars, pinVars
  <2>3. QED
    BY <2>1, <2>2
<1>2. OneRobotsDownload'
  BY DEF TryNextProfile, Answered, EnterLaunchLock, OpenContext, Cancel, robotsVars, TypeOK,
         OneRobotsDownload, Fresh
<1>3. OneBrowser'
  <2>1. CASE EnterLaunchLock(c)
    BY <2>1 DEF EnterLaunchLock, LaunchLockFree, OneBrowser, TypeOK
  <2>2. CASE TryNextProfile(c) \/ Answered(c) \/ OpenContext(c) \/ Cancel(c)
    BY <2>2 DEF TryNextProfile, Answered, OpenContext, Cancel, OneBrowser, TypeOK
  <2>3. QED
    BY <2>1, <2>2
<1>4. PinIsJustified'
  BY DEF TryNextProfile, Answered, EnterLaunchLock, OpenContext, Cancel, pinVars, PinIsJustified
<1>5. QED
  BY <1>1, <1>2, <1>3, <1>4

(* The browser starts, or does not.                                           *)
LEMMA LaunchKeeps ==
  ASSUME IInv, NEW c \in Callers, Launch(c)
  PROVE  IInv'
<1> USE DEF IInv
<1>1. TypeOK'
  BY DEF Launch, TypeOK, Locations, loopVars, robotsVars, pinVars
<1>2. OneRobotsDownload' /\ PinIsJustified'
  BY DEF Launch, TypeOK, robotsVars, pinVars, OneRobotsDownload, PinIsJustified, Fresh
<1>3. OneBrowser'
  BY DEF Launch, TypeOK, OneBrowser
<1>4. QED
  BY <1>1, <1>2, <1>3

(* Every step keeps the invariant.                                            *)
LEMMA NextIInv == IInv /\ [Next]_vars => IInv'
<1> SUFFICES ASSUME IInv, [Next]_vars PROVE IInv'
  OBVIOUS
<1>1. CASE Tick
  BY <1>1, RobotsAssumption DEF Tick, IInv, TypeOK, loopVars, pinVars, OneRobotsDownload, OneBrowser,
              PinIsJustified, Fresh
<1>2. ASSUME NEW c \in Callers, Step(c) PROVE IInv'
  BY <1>2, EnterRobotsLockKeeps, LoadRobotsKeeps, RefusedKeeps, QuietKeeps, LaunchKeeps DEF Step
<1>3. ASSUME NEW c \in Callers, NEW u \in Urls, Fetch(c, u) PROVE IInv'
  BY <1>3, FetchKeeps
<1>4. CASE UNCHANGED vars
  BY <1>4 DEF vars, IInv, TypeOK, OneRobotsDownload, OneBrowser, PinIsJustified, Fresh
<1>5. QED
  BY <1>1, <1>2, <1>3, <1>4 DEF Next

(* The pin never falls in a step.                                             *)
LEMMA NextPin == TypeOK /\ [Next]_vars => pinned' >= pinned
<1> SUFFICES ASSUME TypeOK, [Next]_vars PROVE pinned' >= pinned
  OBVIOUS
<1>1. pinned \in Int
  BY TiersAssumption DEF TypeOK
<1>2. ASSUME NEW c \in Callers, Refused(c) PROVE pinned' >= pinned
  <2>1. tier[c] \in 1..Tiers /\ RecordForbid(tier[c])
    BY <1>2 DEF TypeOK, Refused
  <2>2. QED
    BY <2>1, RecordForbidEffect
<1>3. CASE UNCHANGED pinned
  BY <1>1, <1>3
<1>4. QED
  BY <1>2, <1>3
     DEF Next, Step, Tick, Fetch, EnterRobotsLock, LoadRobots, TryNextProfile, Answered,
         EnterLaunchLock, Launch, OpenContext, Cancel, pinVars, vars

-----------------------------------------------------------------------------
(* robots.txt as a promise about steps.                                     *)

Obeys(c) ==
  Enters(c) /\ policy.mode = "respect" /\ ~MissingDespiteDeny
     => \/ robots' = "rules" /\ url'[c] \notin Disallowed
        \/ robots' \in {"allow_all", "unavailable"} /\ policy.on_error = "allow"

(* A task that passes the entry which the step leaves in the cache obeys it.  *)
LEMMA PassObeys ==
  ASSUME NEW c \in Callers, TypeOK, url'[c] \in Urls, PassRobots(c, robots', url'[c])
  PROVE  Obeys(c)
BY DEF Obeys, Enters, MissingDespiteDeny, PassRobots, Allowed, CanFetch, AtTiers, TypeOK, RobotsEntries

(* So does every task in every step.                                          *)
LEMMA NextObeys ==
  ASSUME TypeOK, [Next]_vars, NEW c \in Callers
  PROVE  Obeys(c)
<1>1. ASSUME NEW d \in Callers, d # c, Step(d) \/ \E u \in Urls : Fetch(d, u)
      PROVE  pc'[c] = pc[c]
  BY <1>1 DEF Step, Fetch, EnterRobotsLock, LoadRobots, TryNextProfile, Refused, Answered,
     EnterLaunchLock, Launch, OpenContext, Cancel, PassRobots, StartTiers, TypeOK
<1>2. ASSUME NEW u \in Urls, Fetch(c, u) PROVE Obeys(c)
  <2>1. url'[c] = u /\ robots' = robots
    BY <1>2 DEF Fetch, TypeOK, robotsVars
  <2>2. CASE policy.mode = "ignore"
    BY <2>2 DEF Obeys
  <2>3. CASE PassRobots(c, robots, u)
    BY <2>1, <2>3, PassObeys
  <2>4. CASE pc' = [pc EXCEPT ![c] = "robots_wait"]
    BY <2>4 DEF Obeys, Enters, AtTiers, TypeOK
  <2>5. QED
    BY <1>2, <2>2, <2>3, <2>4 DEF Fetch
<1>3. CASE EnterRobotsLock(c)
  <2>1. url'[c] = url[c] /\ url[c] \in Urls /\ robots' = robots
    BY <1>3 DEF EnterRobotsLock, TypeOK, robotsVars
  <2>2. CASE Fresh
    BY <1>3, <2>1, <2>2, PassObeys DEF EnterRobotsLock
  <2>3. CASE ~Fresh
    BY <1>3, <2>3 DEF EnterRobotsLock, Obeys, Enters, AtTiers, TypeOK
  <2>4. QED
    BY <2>2, <2>3
<1>4. CASE LoadRobots(c)
  <2>1. url'[c] = url[c] /\ url[c] \in Urls /\ PassRobots(c, robots', url[c])
    BY <1>4 DEF LoadRobots, TypeOK
  <2>2. QED
    BY <2>1, PassObeys
<1>5. CASE \/ TryNextProfile(c) \/ Refused(c) \/ Answered(c)
           \/ EnterLaunchLock(c) \/ Launch(c) \/ OpenContext(c)
  BY <1>5 DEF TryNextProfile, Refused, Answered, EnterLaunchLock, Launch, OpenContext, Obeys, Enters, AtTiers
<1>6. CASE Cancel(c)
  BY <1>6 DEF Cancel, Obeys, Enters, AtTiers, TypeOK
<1>7. CASE pc'[c] = pc[c]
  BY <1>7 DEF Obeys, Enters, AtTiers
<1>8. QED
  BY <1>1, <1>2, <1>3, <1>4, <1>5, <1>6, <1>7 DEF Next, Step, Tick, vars

-----------------------------------------------------------------------------
(* The theorems.                                                            *)

(* The inductive invariant holds in every reachable state: who holds the robots *)
(* and launch locks, what the refusals amount to and which tier was pinned.      *)
THEOREM SpecIInv == Spec => []IInv
BY InitIInv, NextIInv, PTL DEF Spec

(* The fetcher's state stays in its types (tiered.py:49-70, robots.py:60-86).  *)
THEOREM Types == Spec => []TypeOK
<1>1. IInv => TypeOK
  BY DEF IInv
<1>2. QED
  BY <1>1, SpecIInv, PTL

(* One download of robots.txt at a time, for any number of tasks that find the *)
(* cache expired together (robots.py:88-123).                                   *)
THEOREM RobotsDownloadedOnce == Spec => []OneRobotsDownload
<1>1. IInv => OneRobotsDownload
  BY DEF IInv
<1>2. QED
  BY <1>1, SpecIInv, PTL

(* One browser, launched before any page of it is opened, however many tasks   *)
(* reach the browser tier at once (browser_fetcher.py:79-91).                    *)
THEOREM BrowserIsUnique == Spec => []OneBrowser
<1>1. IInv => OneBrowser
  BY DEF IInv
<1>2. QED
  BY <1>1, SpecIInv, PTL

(* A pin stands for enough refusals and for a tier that refused, through the   *)
(* lock-free updates of tiered.py:169-181.                                       *)
THEOREM PinsAreJustified == Spec => []PinIsJustified
<1>1. IInv => PinIsJustified
  BY DEF IInv
<1>2. QED
  BY <1>1, SpecIInv, PTL

(* A task that read the pin before it was raised never lowers it                *)
(* (tiered.py:169-181).                                                          *)
THEOREM PinsNeverFall == Spec => PinNeverFalls
<1>1. IInv /\ [Next]_vars => [pinned' >= pinned]_vars
  BY NextPin DEF IInv
<1>2. QED
  BY <1>1, SpecIInv, PTL DEF Spec, PinNeverFalls

(* In mode respect no page reaches the tiers that the entry cached at that       *)
(* moment excludes, whatever an expired one said; a missing robots.txt under     *)
(* "deny", which the code lets through, is left out by name (robots.py:125-164).   *)
THEOREM RobotsAreObeyed == Spec => ExcludedStaysOut
<1> DEFINE A == \A c \in Callers :
          Enters(c) /\ policy.mode = "respect" /\ ~MissingDespiteDeny
             => \/ robots' = "rules" /\ url'[c] \notin Disallowed
                \/ robots' \in {"allow_all", "unavailable"} /\ policy.on_error = "allow"
<1>1. IInv /\ [Next]_vars => [A]_vars
  BY NextObeys DEF IInv, Obeys
<1>2. QED
  BY <1>1, SpecIInv, PTL DEF Spec, ExcludedStaysOut
=============================================================================
