----------------------------- MODULE Positioning -----------------------------
(***************************************************************************)
(* Locating a device: the LMF's DetermineLocation and the AMF's relays.    *)
(*                                                                         *)
(* A request picks a method by the accuracy asked for and degrades from    *)
(* GNSS over LPP, through E-CID over NRPPa, to the serving cell.  Each leg *)
(* is one HTTP call to the AMF, which sends a downlink to the device or    *)
(* its gNB and blocks on a channel until an uplink of the same kind        *)
(* arrives.  The channels are found by (kind, AMF-UE-NGAP-ID) alone: the   *)
(* PDUs are opaque to the AMF, an entry outlives the call that timed out,  *)
(* and a second call of the same kind replaces the first one's entry.      *)
(* A cell leg first pages an idle device and waits for it on a channel of  *)
(* its own.  CancelLocation finds a request by the UE it locates.          *)
(*                                                                         *)
(* Left out: the coordinates (the mobility model, the WLS solver), the     *)
(* coding of the PDUs, and the per-UE LPP state kept for the log.          *)
(***************************************************************************)
EXTENDS Naturals, FiniteSets

CONSTANTS LocReqs,     \* DetermineLocation requests and subscription ticks
          LocUes,      \* devices, by AMF-UE-NGAP-ID
          Accuracies,  \* horizontal accuracies asked for, in metres (0: none)
          LocEvents,   \* subset of {"idle", "failure", "timeout", "cancel", "tick"}
          MaxOpen      \* bound: questions on the air that may still be answered

NoReq == "no request"
Legs == {"lppCaps", "lppAssist", "lppMeas", "lppTai", "ecidCap", "ecidMeas", "ecidTai", "cell"}
Kinds == {"lpp", "nrppa", "loc"}

VARIABLES
    locCmState,    \* CM state of every device
    locate,        \* the requests: device, leg, where the leg stands, its answer
    cancelFns,     \* LMF pendingLoc: ueContextId -> the request cancel-loc would abort
    pendingLocPage,\* AMF: UE -> the request waiting for its page
    pendingUl,     \* AMF pendingLPP, pendingNRPPa, pendingLoc: UE -> the leg waiting
    asked,         \* downlinks the device or gNB has not answered
    crossed,       \* requests that asked while an older question of the kind was open
    overlooked     \* requests whose wait for the page or cancel another one disturbed

locVars == <<locCmState, locate, cancelFns, pendingLocPage, pendingUl, asked, crossed, overlooked>>

-----------------------------------------------------------------------------
Kind(leg) == CASE leg \in {"lppCaps", "lppAssist", "lppMeas"} -> "lpp"
               [] leg \in {"ecidCap", "ecidMeas"} -> "nrppa"
               [] OTHER -> "loc"

\* The method for a horizontal accuracy in metres: its first leg.
selectMethod(hAccuracy) == CASE hAccuracy = 0 \/ hAccuracy > 200 -> "cell"
                             [] hAccuracy > 0 /\ hAccuracy < 50 -> "lppCaps"
                             [] OTHER -> "ecidCap"

FirstLegs == {selectMethod(a) : a \in Accuracies}

Running(r) == locate[r].at \notin {"new", "done"}

\* The GNSS legs in order: what an answer of the right message type leads to.
lppCapabilities(q) == [q EXCEPT !.at = "lmf", !.leg = "lppAssist"]
lppAssistance(q) == [q EXCEPT !.at = "lmf", !.leg = "lppMeas"]
lppMeasurement(q) == [q EXCEPT !.at = "lmf", !.leg = "lppTai", !.basis = q.got.by]
lppFixed(q) == [q EXCEPT !.at = "done", !.fix = "gnss"]

performLPPOrFallback(q) == CASE q.leg = "lppCaps" -> lppCapabilities(q)
                             [] q.leg = "lppAssist" -> lppAssistance(q)
                             [] q.leg = "lppMeas" -> lppMeasurement(q)
                             [] q.leg = "lppTai" -> lppFixed(q)

ecidCapability(q) == [q EXCEPT !.at = "lmf", !.leg = "ecidMeas"]
ecidMeasurement(q) == [q EXCEPT !.at = "lmf", !.leg = "ecidTai", !.basis = q.got.by]
ecidFixed(q) == [q EXCEPT !.at = "done", !.fix = "eCID"]

performECIDOrFallback(q) == CASE q.leg = "ecidCap" -> ecidCapability(q)
                              [] q.leg = "ecidMeas" -> ecidMeasurement(q)
                              [] q.leg = "ecidTai" -> ecidFixed(q)

\* The leg ends without an answer.  A position already computed is returned
\* without its tracking area; otherwise the next poorer method is tried.
Fallback(q) ==
    CASE q.leg = "lppTai" -> lppFixed(q)
      [] q.leg = "ecidTai" -> ecidFixed(q)
      [] q.leg = "cell" -> [q EXCEPT !.at = "done", !.fix = "failed"]
      [] Kind(q.leg) = "lpp" -> [q EXCEPT !.at = "lmf", !.leg = "ecidCap"]
      [] Kind(q.leg) = "nrppa" -> [q EXCEPT !.at = "lmf", !.leg = "cell"]

locateCell(q) == [q EXCEPT !.at = "done", !.fix = "cell", !.basis = q.got.by]

\* A mutant of Usable: any uplink that decodes is taken for the one awaited.
usesAnyMessage(q) == Kind(q.leg) = "loc" \/ q.got.ok

\* An uplink is of use when it decodes to the message the leg waits for and
\* reports the capability or the measurement; a LocationReport always is.
Usable(q) == Kind(q.leg) = "loc" \/ (q.got.by[2] = q.leg /\ q.got.ok)

Advance(q) == CASE ~Usable(q) -> Fallback(q)
                [] q.leg \in {"lppCaps", "lppAssist", "lppMeas", "lppTai"} -> performLPPOrFallback(q)
                [] q.leg \in {"ecidCap", "ecidMeas", "ecidTai"} -> performECIDOrFallback(q)
                [] OTHER -> locateCell(q)

NoAnswer == [by |-> <<>>, ok |-> FALSE]
Fresh == [ue |-> NoReq, leg |-> "cell", at |-> "new", tick |-> FALSE, woken |-> FALSE,
          got |-> NoAnswer, cancelled |-> FALSE, basis |-> <<>>, fix |-> "none"]

LocInit ==
    /\ locCmState \in [LocUes -> IF "idle" \in LocEvents THEN {"idle", "connected"} ELSE {"connected"}]
    /\ locate = [r \in LocReqs |-> Fresh]
    /\ cancelFns = [u \in LocUes |-> NoReq]
    /\ pendingLocPage = [u \in LocUes |-> NoReq]
    /\ pendingUl = [k \in Kinds |-> [u \in LocUes |-> <<>>]]
    /\ asked = {}
    /\ crossed = {}
    /\ overlooked = {}

-----------------------------------------------------------------------------
(* The LMF.                                                                *)

\* A returning DetermineLocation deletes the cancel function of its UE: its
\* own, or the one a later request for the same UE stored.
forgetPending(r, q) ==
    IF q.at = "done" /\ ~q.tick
    THEN /\ cancelFns' = [cancelFns EXCEPT ![q.ue] = NoReq]
         /\ overlooked' = overlooked \union ({cancelFns[q.ue]} \ {r, NoReq})
    ELSE UNCHANGED <<cancelFns, overlooked>>

Becomes(r, q) ==
    /\ locate' = [locate EXCEPT ![r] = [q EXCEPT !.got = NoAnswer, !.woken = FALSE]]
    /\ forgetPending(r, q)

FailLeg(r) == Becomes(r, Fallback(locate[r]))

\* A request enters, is registered for CancelLocation, and starts its method.
\* A subscription's tick locates by cell and cannot be cancelled this way.
handleDetermineLocation(r) ==
    /\ locate[r].at = "new"
    /\ \E u \in LocUes, first \in FirstLegs, tick \in BOOLEAN :
        /\ tick => "tick" \in LocEvents /\ first = "cell"
        /\ locate' = [locate EXCEPT ![r] = [Fresh EXCEPT !.ue = u, !.leg = first, !.at = "lmf", !.tick = tick]]
        /\ IF tick THEN UNCHANGED <<cancelFns, overlooked>>
           ELSE /\ cancelFns' = [cancelFns EXCEPT ![u] = r]
                /\ overlooked' = overlooked \union {s \in {cancelFns[u]} \ {NoReq} : Running(s)}
    /\ UNCHANGED <<locCmState, pendingLocPage, pendingUl, asked, crossed>>

\* CancelLocation aborts the request it finds and forgets it; it answers 204
\* in any case.
handleCancelLocation(u) ==
    /\ "cancel" \in LocEvents
    /\ cancelFns[u] # NoReq
    /\ locate' = [locate EXCEPT ![cancelFns[u]].cancelled = TRUE]
    /\ cancelFns' = [cancelFns EXCEPT ![u] = NoReq]
    /\ UNCHANGED <<locCmState, pendingLocPage, pendingUl, asked, crossed, overlooked>>

\* A call on a cancelled context fails before it is sent; any call may fail
\* on the way, or because the AMF no longer knows the UE.
callFails(r) ==
    /\ locate[r].at = "lmf"
    /\ locate[r].cancelled \/ "failure" \in LocEvents
    /\ FailLeg(r)
    /\ UNCHANGED <<locCmState, pendingLocPage, pendingUl, asked, crossed>>

\* The client returns with the AMF's answer, unless its context was cancelled
\* meanwhile.
clientReturns(r, kind) ==
    /\ locate[r].at = "answered"
    /\ Kind(locate[r].leg) = kind
    /\ Becomes(r, IF locate[r].cancelled THEN Fallback(locate[r]) ELSE Advance(locate[r]))
    /\ UNCHANGED <<locCmState, pendingLocPage, pendingUl, asked, crossed>>

ProvideLocationInfo(r) == clientReturns(r, "loc")
SendDLNRPPa(r) == clientReturns(r, "nrppa")
SendDLLPP(r) == clientReturns(r, "lpp")

-----------------------------------------------------------------------------
(* The AMF.                                                                *)

\* The handlers read the CM state under the UE's lock.  The relays refuse an
\* idle device; the cell leg pages it.
readCMState(r, kind) ==
    /\ locate[r].at = "lmf"
    /\ Kind(locate[r].leg) = kind
    /\ ~locate[r].cancelled
    /\ UNCHANGED <<locCmState, pendingLocPage, pendingUl, asked, crossed>>

handleProvideLocInfo(r) ==
    /\ readCMState(r, "loc")
    /\ locate' = [locate EXCEPT ![r].at = IF locCmState[locate[r].ue] = "connected" THEN "send" ELSE "page"]
    /\ UNCHANGED <<cancelFns, overlooked>>

relayDownlink(r) ==
    IF locCmState[locate[r].ue] = "idle" THEN FailLeg(r)
    ELSE locate' = [locate EXCEPT ![r].at = "send"] /\ UNCHANGED <<cancelFns, overlooked>>

handleDLNRPPaInfo(r) == readCMState(r, "nrppa") /\ relayDownlink(r)
handleDLLPPInfo(r) == readCMState(r, "lpp") /\ relayDownlink(r)

\* The waiter is stored, then the page is sent.  The device may have connected
\* since its state was read; another request may be waiting already.
storeWaiter(r) ==
    /\ locate[r].at = "page"
    /\ pendingLocPage' = [pendingLocPage EXCEPT ![locate[r].ue] = r]
    /\ locate' = [locate EXCEPT ![r].at = "paging"]
    /\ overlooked' = overlooked
         \union ({pendingLocPage[locate[r].ue]} \ {NoReq})
         \union (IF locCmState[locate[r].ue] = "connected" THEN {r} ELSE {})
    /\ UNCHANGED <<locCmState, cancelFns, pendingUl, asked, crossed>>

\* No gNB takes the page, the guard expires, or the LMF hangs up: the UE's
\* waiter is deleted, whoever's it is.
leavePaging(r) ==
    /\ locate[r].at = "paging"
    /\ locate[r].cancelled \/ LocEvents \intersect {"failure", "timeout"} # {}
    /\ pendingLocPage' = [pendingLocPage EXCEPT ![locate[r].ue] = NoReq]
    /\ LET q == Fallback(locate[r])
           orphan == {pendingLocPage[locate[r].ue]} \ {r, NoReq}
       IN  /\ locate' = [locate EXCEPT ![r] = [q EXCEPT !.woken = FALSE]]
           /\ IF q.at = "done" /\ ~q.tick
              THEN /\ cancelFns' = [cancelFns EXCEPT ![q.ue] = NoReq]
                   /\ overlooked' = overlooked \union orphan \union ({cancelFns[q.ue]} \ {r, NoReq})
              ELSE overlooked' = overlooked \union orphan /\ UNCHANGED cancelFns
    /\ UNCHANGED <<locCmState, pendingUl, asked, crossed>>

\* The waiter is taken from the map and its channel gets a token.
NotifyUEReachable(u) ==
    /\ pendingLocPage' = [pendingLocPage EXCEPT ![u] = NoReq]
    /\ locate' = [r \in LocReqs |-> IF r = pendingLocPage[u] THEN [locate[r] EXCEPT !.woken = TRUE]
                                                             ELSE locate[r]]

\* The device comes back by a Service Request.
handleServiceRequestLoc(u) ==
    /\ locCmState[u] = "idle"
    /\ locCmState' = [locCmState EXCEPT ![u] = "connected"]
    /\ NotifyUEReachable(u)
    /\ UNCHANGED <<cancelFns, pendingUl, asked, crossed, overlooked>>

\* AN release: the device is idle again; what it was asked is not answered.
anRelease(u) ==
    /\ "idle" \in LocEvents
    /\ locCmState[u] = "connected"
    /\ locCmState' = [locCmState EXCEPT ![u] = "idle"]
    /\ asked' = {x \in asked : x.ue # u}
    /\ UNCHANGED <<locate, cancelFns, pendingLocPage, pendingUl, crossed, overlooked>>

pageAnswered(r) ==
    /\ locate[r].at = "paging"
    /\ locate[r].woken
    /\ locate' = [locate EXCEPT ![r].at = "send", ![r].woken = FALSE]
    /\ UNCHANGED <<locCmState, cancelFns, pendingLocPage, pendingUl, asked, crossed, overlooked>>

Question(r) == [kind |-> Kind(locate[r].leg), ue |-> locate[r].ue, req |-> r, leg |-> locate[r].leg]

\* Older questions of the kind to the device that may still be answered.
Open(r) == {x \in asked : x.kind = Kind(locate[r].leg) /\ x.ue = locate[r].ue}

\* A channel is stored under the UE and the downlink is written; a device that
\* went idle meanwhile does not get it.  Without a gNB nothing is stored; a
\* failed write deletes the UE's entry.
SendDownlink(r, kind) ==
    LET q == locate[r] IN
    /\ q.at = "send"
    /\ Kind(q.leg) = kind
    /\ q.leg # "lppAssist"
    /\ \/ /\ Cardinality(asked) < MaxOpen
          /\ pendingUl' = [pendingUl EXCEPT ![kind][q.ue] = <<r, q.leg>>]
          /\ asked' = IF locCmState[q.ue] = "connected" THEN asked \union {Question(r)} ELSE asked
          /\ crossed' = IF Open(r) # {} THEN crossed \union {r} ELSE crossed
          /\ locate' = [locate EXCEPT ![r].at = "wait"]
          /\ UNCHANGED <<cancelFns, overlooked>>
       \/ /\ "failure" \in LocEvents \/ locCmState[q.ue] = "idle"
          /\ pendingUl' \in {pendingUl, [pendingUl EXCEPT ![kind][q.ue] = <<>>]}
          /\ FailLeg(r)
          /\ UNCHANGED <<asked, crossed>>
    /\ UNCHANGED <<locCmState, pendingLocPage>>

SendLocationReportingControl(r) == SendDownlink(r, "loc")
SendDownlinkNRPPa(r) == SendDownlink(r, "nrppa")
SendDownlinkLPP(r) == SendDownlink(r, "lpp")

\* Assistance data waits for no uplink.
SendDownlinkLPPNoWait(r) ==
    LET q == locate[r] IN
    /\ q.at = "send"
    /\ q.leg = "lppAssist"
    /\ \/ Becomes(r, performLPPOrFallback(q))
       \/ ("failure" \in LocEvents \/ locCmState[q.ue] = "idle") /\ FailLeg(r)
    /\ UNCHANGED <<locCmState, pendingLocPage, pendingUl, asked, crossed>>

\* The guard timer, the LMF's client timeout or a cancel ends the wait.  The
\* entry stays in the map.
guardExpires(r) ==
    /\ locate[r].at \in {"wait", "answered"}
    /\ locate[r].cancelled \/ "timeout" \in LocEvents
    /\ FailLeg(r)
    /\ UNCHANGED <<locCmState, pendingLocPage, pendingUl, asked, crossed>>

\* An uplink arrives and the entry is taken; a caller that still waits on that
\* channel gets the PDU, whatever question it answers.  Without an entry it is
\* dropped.
Resolve(x, ok) ==
    LET e == pendingUl[x.kind][x.ue]
        heard == e # <<>> /\ locate[e[1]].at = "wait" /\ locate[e[1]].leg = e[2]
    IN
    /\ asked' = asked \ {x}
    /\ pendingUl' = [pendingUl EXCEPT ![x.kind][x.ue] = <<>>]
    /\ locate' = IF heard
                 THEN [locate EXCEPT ![e[1]].at = "answered", ![e[1]].got = [by |-> <<x.req, x.leg>>, ok |-> ok]]
                 ELSE locate
    /\ UNCHANGED <<locCmState, cancelFns, pendingLocPage, crossed, overlooked>>

handleLocationReport(x) == x.kind = "loc" /\ Resolve(x, TRUE)
handleUplinkUEAssociatedNRPPa(x, ok) == x.kind = "nrppa" /\ Resolve(x, ok)
handleULLPP(x, ok) == x.kind = "lpp" /\ Resolve(x, ok)

\* The device or the gNB does not answer, or the answer is lost.
uplinkLost(x) ==
    /\ asked' = asked \ {x}
    /\ UNCHANGED <<locCmState, locate, cancelFns, pendingLocPage, pendingUl, crossed, overlooked>>

-----------------------------------------------------------------------------
LocNext ==
    \/ \E r \in LocReqs : handleDetermineLocation(r) \/ callFails(r)
    \/ \E r \in LocReqs : ProvideLocationInfo(r) \/ SendDLNRPPa(r) \/ SendDLLPP(r)
    \/ \E u \in LocUes : handleCancelLocation(u)
    \/ \E r \in LocReqs : handleProvideLocInfo(r) \/ handleDLNRPPaInfo(r) \/ handleDLLPPInfo(r)
    \/ \E r \in LocReqs : storeWaiter(r) \/ leavePaging(r) \/ pageAnswered(r)
    \/ \E r \in LocReqs : SendLocationReportingControl(r) \/ SendDownlinkNRPPa(r)
    \/ \E r \in LocReqs : SendDownlinkLPP(r) \/ SendDownlinkLPPNoWait(r) \/ guardExpires(r)
    \/ \E u \in LocUes : handleServiceRequestLoc(u) \/ anRelease(u)
    \/ \E x \in asked : handleLocationReport(x) \/ uplinkLost(x)
    \/ \E x \in asked, ok \in BOOLEAN : handleUplinkUEAssociatedNRPPa(x, ok) \/ handleULLPP(x, ok)

LocSpec == LocInit /\ [][LocNext]_locVars

-----------------------------------------------------------------------------
\* Types.
LocTypeOK ==
    /\ locCmState \in [LocUes -> {"idle", "connected"}]
    /\ \A r \in LocReqs : /\ locate[r].ue \in LocUes \union {NoReq}
                          /\ locate[r].leg \in Legs
                          /\ locate[r].at \in {"new", "lmf", "page", "paging", "send", "wait", "answered", "done"}
    /\ cancelFns \in [LocUes -> LocReqs \union {NoReq}]
    /\ pendingLocPage \in [LocUes -> LocReqs \union {NoReq}]
    /\ crossed \subseteq LocReqs
    /\ overlooked \subseteq LocReqs

\* A position rests on a measurement, and on the one the request itself asked
\* for unless an older question of the same kind was still open when it asked:
\* then the AMF may hand it the late answer to that one (the relays do not
\* correlate, and an LPP transaction that does not match is only logged).  A
\* capability report or a location report is never taken for a measurement.
FixesAreMeasured ==
    \A r \in LocReqs : LET q == locate[r] IN
        /\ q.fix = "gnss" => q.basis[2] = "lppMeas"
        /\ q.fix = "eCID" => q.basis[2] = "ecidMeas"
        /\ q.fix \in {"gnss", "eCID", "cell"} => q.basis[1] = r \/ r \in crossed

\* A running DetermineLocation can be found by CancelLocation, or has been
\* cancelled, or has answered, unless a second request for the same UE ran at
\* the same time (pendingLoc keeps one cancel function per UE).
CancelReaches ==
    \A r \in LocReqs : Running(r) /\ ~locate[r].tick /\ ~locate[r].cancelled
                         => cancelFns[locate[r].ue] = r \/ r \in overlooked

\* A request that waits for the page of a device that has connected has been
\* woken, unless the device connected before the waiter was stored or another
\* request for the device stored or deleted the waiter.
PagedAreWoken ==
    \A r \in LocReqs : locate[r].at = "paging" /\ ~locate[r].woken /\ r \notin overlooked
                         => pendingLocPage[locate[r].ue] = r

\* What ngap.go says of SendDownlinkNRPPa and sbi/server.go of Locator: the
\* entry is cleaned up when its caller times out.
EntriesHaveWaiters ==
    \A k \in Kinds, u \in LocUes : pendingUl[k][u] # <<>>
        => LET e == pendingUl[k][u] IN locate[e[1]].at = "wait" /\ locate[e[1]].leg = e[2]
=============================================================================
