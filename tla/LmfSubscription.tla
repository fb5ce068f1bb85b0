--------------------------- MODULE LmfSubscription ---------------------------
(***************************************************************************)
(* The LMF's event subscriptions and its location-privacy gate.            *)
(*                                                                         *)
(* Every subscription has a registry entry and a goroutine.  The goroutine *)
(* samples the device's location on a ticker and posts notifications,      *)
(* until its context ends: by DELETE, by expiry or by shutdown.  DELETE    *)
(* removes the entry itself; after an expiry the goroutine does.  For an   *)
(* area of interest the goroutine keeps the previous state in a local      *)
(* variable beside the one the registry shows, and reports a crossing once *)
(* with a bounded number of attempts.                                      *)
(*                                                                         *)
(* The privacy policy is asked of the UDM when a subscription is created   *)
(* or a location is requested, through a five-minute cache, and fails open.*)
(*                                                                         *)
(* Left out: the intervals, the coordinates (a sample is inside or outside *)
(* the polygon), and the synthetic mobility model.                         *)
(***************************************************************************)
EXTENDS Naturals, FiniteSets

CONSTANTS SubIds,        \* subscription identifiers (each used once)
          NotifyAttempts,\* 1 + notification_retry of the configuration
          LmfEvents,     \* subset of {"failure", "expire", "shutdown", "privacy"}
          MaxSamples     \* bound: samples taken by the subscriptions together

VARIABLES
    subs,        \* registry: identifiers present
    aoiShown,    \* the AOI state in the registry entry, as GET returns it
    loop,        \* the goroutines: where they are, their previous AOI state
    inside,      \* whether the device is inside the polygon
    heard,       \* the last area event each consumer received
    lossy,       \* subscriptions with a failed delivery attempt
    policy,      \* the subscriber's policy at the UDM
    policyCache, \* the LMF's cached answer, "none" when absent or expired
    allowedOnce, \* the UDM said ALLOW_ALL to a fetch the cache may reflect
    gates,       \* admissions waiting for their privacy answer
    misled,      \* an allow-all the UDM never gave was read from the cache
    samples

lmfSubVars == <<subs, aoiShown, loop, inside, heard, lossy, samples>>
gateVars == <<policy, policyCache, allowedOnce, gates, misled>>
lmfVars == <<lmfSubVars, gateVars>>

AoiStates == {"UNKNOWN", "IN", "OUT"}
NewLoop == [pc |-> "none", prev |-> "UNKNOWN", done |-> FALSE, aoi |-> FALSE, tries |-> 0, event |-> "none"]

LmfInit ==
    /\ subs = {}
    /\ aoiShown = [s \in SubIds |-> "UNKNOWN"]
    /\ loop = [s \in SubIds |-> NewLoop]
    /\ inside \in BOOLEAN
    /\ heard = [s \in SubIds |-> "none"]
    /\ lossy = {}
    /\ policy \in IF "privacy" \in LmfEvents THEN {"ALLOW_ALL", "BLOCK_ALL"} ELSE {"ALLOW_ALL"}
    /\ policyCache = "none"
    /\ allowedOnce = FALSE
    /\ gates = {}
    /\ misled = FALSE
    /\ samples = 0

-----------------------------------------------------------------------------
(* The privacy gate.                                                       *)

\* A cached policy is used until it expires; otherwise the UDM is asked.  A gate
\* is the subscription it is for ("once" for a DetermineLocation), what it was
\* told, and whether the UDM said so just now.
askPolicy(s) ==
    /\ \A g \in gates : g.s # s
    /\ s # "once" => loop[s].pc = "none"
    /\ gates' = gates \union {[s |-> s, answer |-> IF policyCache = "none" THEN "asking" ELSE policyCache,
                              fetched |-> policyCache = "none"]}
    /\ misled' = (misled \/ (policyCache = "ALLOW_ALL" /\ ~allowedOnce))
    /\ UNCHANGED <<lmfSubVars, policy, policyCache, allowedOnce>>

\* The UDM answers with the policy it has, or does not answer.
udmAnswers ==
    \E g \in gates, answer \in {policy} \union (IF "failure" \in LmfEvents THEN {"failed"} ELSE {}) :
        /\ g.answer = "asking"
        /\ gates' = (gates \ {g}) \union {[g EXCEPT !.answer = answer]}
        /\ UNCHANGED <<lmfSubVars, policy, policyCache, allowedOnce, misled>>

\* What a fetch leaves in the cache: an answer of the UDM, never the
\* fail-open default of an error or a non-200 status.
GetLcsPrivacyData(g) ==
    /\ policyCache' = IF g.fetched /\ g.answer # "failed" THEN g.answer ELSE policyCache
    /\ allowedOnce' = (allowedOnce \/ (g.fetched /\ g.answer = "ALLOW_ALL"))

\* BLOCK_ALL is refused with 403, everything else passes.
Passes(g) == g.answer # "BLOCK_ALL"

\* The five minutes of the cached answer pass.
cacheExpires ==
    /\ "expire" \in LmfEvents
    /\ policyCache # "none"
    /\ policyCache' = "none"
    /\ allowedOnce' = FALSE
    /\ UNCHANGED <<lmfSubVars, policy, gates, misled>>

\* The subscriber changes the policy at the UDM.
policyChanges ==
    /\ "privacy" \in LmfEvents
    /\ policy' \in {"ALLOW_ALL", "BLOCK_ALL"} \ {policy}
    /\ UNCHANGED <<lmfSubVars, policyCache, allowedOnce, gates, misled>>

\* DetermineLocation after its gate: refused, or located and answered.
handleDetermineOnce ==
    \E g \in gates :
        /\ g.s = "once" /\ g.answer # "asking"
        /\ gates' = gates \ {g}
        /\ GetLcsPrivacyData(g)
        /\ UNCHANGED <<lmfSubVars, policy, misled>>

-----------------------------------------------------------------------------
(* The registry.                                                           *)

\* The entry is added, then the goroutine started.
handleCreateSubscription(s) ==
    \E g \in gates, aoi \in BOOLEAN :
        /\ g.s = s /\ g.answer # "asking"
        /\ gates' = gates \ {g}
        /\ GetLcsPrivacyData(g)
        /\ IF Passes(g)
           THEN /\ subs' = subs \union {s}
                /\ loop' = [loop EXCEPT ![s] = [NewLoop EXCEPT !.pc = "start", !.aoi = aoi]]
           ELSE UNCHANGED <<subs, loop>>
        /\ UNCHANGED <<aoiShown, inside, heard, lossy, samples, policy, misled>>

\* The entry is removed and the context cancelled under one lock.
handleDeleteSubscription(s) ==
    /\ s \in subs
    /\ subs' = subs \ {s}
    /\ loop' = [loop EXCEPT ![s].done = TRUE]
    /\ UNCHANGED <<aoiShown, inside, heard, lossy, samples, gateVars>>

\* The duration passes: only the context ends.
durationExpires(s) ==
    /\ "expire" \in LmfEvents
    /\ loop[s].pc \notin {"none", "exited"}
    /\ ~loop[s].done
    /\ loop' = [loop EXCEPT ![s].done = TRUE]
    /\ UNCHANGED <<subs, aoiShown, inside, heard, lossy, samples, gateVars>>

cancelAll ==
    /\ "shutdown" \in LmfEvents
    /\ subs # {}
    /\ subs' = {}
    /\ loop' = [s \in SubIds |-> IF s \in subs THEN [loop[s] EXCEPT !.done = TRUE] ELSE loop[s]]
    /\ UNCHANGED <<aoiShown, inside, heard, lossy, samples, gateVars>>

-----------------------------------------------------------------------------
(* The goroutine.                                                          *)

\* It reads its entry once to learn its interval; it returns if the
\* subscription is gone already.
runSubscription(s) ==
    /\ loop[s].pc = "start"
    /\ loop' = [loop EXCEPT ![s].pc = IF s \in subs THEN "select" ELSE "exited"]
    /\ UNCHANGED <<subs, aoiShown, inside, heard, lossy, samples, gateVars>>

\* A mutant of contextDone: an expired subscription stays in the registry.
leavesEntry(s) ==
    /\ loop[s].pc = "select"
    /\ loop[s].done
    /\ loop' = [loop EXCEPT ![s].pc = "exited"]
    /\ UNCHANGED <<subs, aoiShown, inside, heard, lossy, samples, gateVars>>

\* The context is done: the goroutine removes the entry if it is still there.
contextDone(s) ==
    /\ loop[s].pc = "select"
    /\ loop[s].done
    /\ subs' = subs \ {s}
    /\ loop' = [loop EXCEPT ![s].pc = "exited"]
    /\ UNCHANGED <<aoiShown, inside, heard, lossy, samples, gateVars>>

\* A tick, which select may choose even when the context is done as well.
tick(s) ==
    /\ loop[s].pc = "select"
    /\ samples < MaxSamples
    /\ samples' = samples + 1
    /\ loop' = [loop EXCEPT ![s].pc = IF s \in subs THEN "locating" ELSE "exited"]
    /\ UNCHANGED <<subs, aoiShown, inside, heard, lossy, gateVars>>

\* The sample fails (always on a finished context): the tick is skipped.
locateFails(s) ==
    /\ loop[s].pc = "locating"
    /\ loop[s].done \/ "failure" \in LmfEvents
    /\ loop' = [loop EXCEPT ![s].pc = "select"]
    /\ UNCHANGED <<subs, aoiShown, inside, heard, lossy, samples, gateVars>>

StateNow == IF inside THEN "IN" ELSE "OUT"
EventFor(state) == IF state = "IN" THEN "AREA_ENTERING" ELSE "AREA_LEAVING"

Post(q, event) == [q EXCEPT !.pc = "posting", !.tries = NotifyAttempts, !.event = event]

\* The first sample sets the baseline silently; a change of state is reported.
evaluateAOI(q, new) ==
    IF q.prev = "UNKNOWN" THEN [q EXCEPT !.pc = "select", !.prev = new]
    ELSE IF new # q.prev THEN Post([q EXCEPT !.prev = new], EventFor(new))
    ELSE [q EXCEPT !.pc = "select"]

\* The sample arrives.  A periodic subscription reports it; one for an area
\* stores its state in the registry, if it is still there, and compares.
sampled(s) ==
    /\ loop[s].pc = "locating"
    /\ ~loop[s].done
    /\ \/ /\ ~loop[s].aoi
          /\ loop' = [loop EXCEPT ![s] = Post(loop[s], "sample")]
          /\ UNCHANGED aoiShown
       \/ /\ loop[s].aoi
          /\ aoiShown' = IF s \in subs THEN [aoiShown EXCEPT ![s] = StateNow] ELSE aoiShown
          /\ loop' = [loop EXCEPT ![s] = evaluateAOI(loop[s], StateNow)]
    /\ UNCHANGED <<subs, inside, heard, lossy, samples, gateVars>>

\* One attempt to post.  On a finished context nothing is sent; a failed
\* attempt may have reached the consumer; after the last one it is dropped.
sendNotification(s) ==
    LET q == loop[s] IN
    /\ q.pc = "posting"
    /\ \/ /\ ~q.done
          /\ heard' = [heard EXCEPT ![s] = q.event]
          /\ loop' = [loop EXCEPT ![s].pc = "select", ![s].tries = 0, ![s].event = "none"]
          /\ UNCHANGED lossy
       \/ /\ q.done \/ "failure" \in LmfEvents
          /\ \E reached \in IF q.done THEN {FALSE} ELSE BOOLEAN :
                heard' = IF reached THEN [heard EXCEPT ![s] = q.event] ELSE heard
          /\ lossy' = lossy \union {s}
          /\ loop' = [loop EXCEPT ![s] = IF q.tries > 1 THEN [q EXCEPT !.tries = q.tries - 1]
                                         ELSE [q EXCEPT !.pc = "select", !.tries = 0, !.event = "none"]]
    /\ UNCHANGED <<subs, aoiShown, inside, samples, gateVars>>

\* The device crosses the polygon's edge.
deviceMoves ==
    /\ inside' = ~inside
    /\ UNCHANGED <<subs, aoiShown, loop, heard, lossy, samples, gateVars>>

-----------------------------------------------------------------------------
LmfNext ==
    \/ \E s \in SubIds \union {"once"} : askPolicy(s)
    \/ udmAnswers \/ cacheExpires \/ policyChanges \/ handleDetermineOnce
    \/ \E s \in SubIds : handleCreateSubscription(s) \/ handleDeleteSubscription(s) \/ durationExpires(s)
    \/ cancelAll
    \/ \E s \in SubIds : runSubscription(s) \/ contextDone(s) \/ tick(s) \/ locateFails(s)
    \/ \E s \in SubIds : sampled(s) \/ sendNotification(s)
    \/ deviceMoves

LmfSpec == LmfInit /\ [][LmfNext]_lmfVars

-----------------------------------------------------------------------------
\* Types.
LmfTypeOK ==
    /\ subs \subseteq SubIds
    /\ aoiShown \in [SubIds -> AoiStates]
    /\ \A s \in SubIds : /\ loop[s].pc \in {"none", "start", "select", "locating", "posting", "exited"}
                         /\ loop[s].prev \in AoiStates
                         /\ loop[s].tries \in 0..NotifyAttempts
    /\ policyCache \in {"none", "ALLOW_ALL", "BLOCK_ALL"}

\* Every registry entry has a goroutine that has not returned, and a goroutine
\* whose entry is gone has had its context cancelled: no subscription is listed
\* that nobody serves, and none is served that DELETE can no longer stop.
SubscriptionsOwned ==
    \A s \in SubIds : /\ s \in subs => loop[s].pc \notin {"none", "exited"}
                      /\ s \notin subs /\ loop[s].pc \notin {"none", "exited"} => loop[s].done

\* Between two ticks, the state GET shows is the one the goroutine compares
\* with, and the last area event the consumer received is the one that led
\* there, unless a delivery attempt of the subscription failed.
ConsumerFollows ==
    \A s \in SubIds : loop[s].pc = "select" /\ loop[s].aoi =>
        /\ s \in subs => aoiShown[s] = loop[s].prev
        /\ heard[s] # "none" /\ s \notin lossy => heard[s] = EventFor(loop[s].prev)

\* A request passes the gate on a cached allow-all only if the UDM gave that
\* answer to a fetch the cache may still reflect: the allow-all assumed during
\* an outage admits that one request and is never remembered.
OutageNotRemembered == ~misled
=============================================================================
