------------------------------- MODULE AmfPws -------------------------------
(***************************************************************************)
(* Public warnings: the management portal as the Cell Broadcast Centre and *)
(* store of record, the AMF's registry and its fan-out of Write-Replace    *)
(* Warning and PWS Cancel to the gNBs, and the gNBs' answers, which are    *)
(* correlated by (MessageIdentifier, SerialNumber) alone.  A fan-out takes *)
(* the set of gNBs under one lock, writes the registry under another and   *)
(* then writes to each association with neither held.                      *)
(***************************************************************************)
EXTENDS Naturals, Sequences, FiniteSets

CONSTANTS WarningKeys,   \* PWSKey: (MessageIdentifier, SerialNumber)
          PwsGnbs,       \* gNBs, by the address of their association
          PwsEvents,     \* the faults that happen
          MaxPws         \* bound on requests, losses and restarts

VARIABLES gnbs,          \* Server.gnbs
          closing,       \* associations in handleGNBConn's clean-up, past markPWSGNBFailed
          pws,           \* Server.pws
          requests,      \* the portal's requests in progress
          toGnb, fromGnb, \* the associations, in order
          onAir,         \* what each gNB broadcasts
          cbcStore,      \* the portal's pws_broadcasts
          mixedKeys,     \* history: keys whose exchanges overlapped or were cut short
          lateEntries,   \* history: entries made for a gNB whose clean-up had passed
          pwsOps

pwsLinks == <<toGnb, fromGnb, onAir>>
pwsHistory == <<mixedKeys, lateEntries>>
pwsVars == <<gnbs, closing, pws, requests, pwsLinks, cbcStore, pwsHistory, pwsOps>>

NoBroadcast == [known |-> FALSE]
NoRequest == [op |-> "none"]
Requests == {1, 2}
Pending == [completed |-> FALSE, cancelled |-> FALSE, failed |-> FALSE]

PwsSpend == pwsOps < MaxPws /\ pwsOps' = pwsOps + 1

\* A key with a request in progress or a message under way.
UnderWay(k) ==
    \/ \E r \in Requests : requests[r].op # "none" /\ requests[r].key = k
    \/ \E g \in PwsGnbs : \E msg \in {toGnb[g][i] : i \in DOMAIN toGnb[g]}
                                 \union {fromGnb[g][i] : i \in DOMAIN fromGnb[g]} : msg.key = k

\* Cancel-All-Warning-Messages reaches every key.
Touched(op, k) == IF op = "cancelAll" THEN WarningKeys ELSE {k}

---------------------------------------------------------------------------
(* The portal: broadcast, resend and cancel go to the AMF first. *)

Ask(r, op, k) ==
    /\ requests[r] = NoRequest /\ PwsSpend
    /\ requests' = [requests EXCEPT ![r] = [op |-> op, key |-> k, at |-> "amf", targets |-> {}]]
    /\ mixedKeys' = IF op = "cancelAll" THEN mixedKeys \union WarningKeys
                ELSE IF UnderWay(k) THEN mixedKeys \union {k} ELSE mixedKeys
    /\ UNCHANGED <<gnbs, closing, pws, pwsLinks, cbcStore, lateEntries>>

handlePWSBroadcast(r, k) == Ask(r, "broadcast", k)
handlePWSResend(r, k) == cbcStore[k] # "absent" /\ Ask(r, "broadcast", k)
handlePWSCancel(r, k) == \/ Ask(r, "cancel", k)
                         \/ "cancelAll" \in PwsEvents /\ Ask(r, "cancelAll", k)

\* UpsertPWSBroadcast clears the cancelled flag, MarkPWSCancelled needs a row.
\* A failed write goes unnoticed by the AMF and the gNBs.
persist(r) ==
    LET k == requests[r].key
    IN /\ requests[r].op # "none" /\ requests[r].at = "store"
       /\ \/ /\ cbcStore' = [cbcStore EXCEPT ![k] =
                               IF requests[r].op = "broadcast" THEN "active"
                               ELSE IF @ = "absent" THEN @ ELSE "cancelled"]
             /\ UNCHANGED mixedKeys
          \/ /\ "failure" \in PwsEvents
             /\ mixedKeys' = mixedKeys \union {k}
             /\ UNCHANGED cbcStore
       /\ requests' = [requests EXCEPT ![r] = NoRequest]
       /\ UNCHANGED <<gnbs, closing, pws, pwsLinks, pwsOps, lateEntries>>

---------------------------------------------------------------------------
(* The AMF. *)

AmfGoesOn(r, at, targets) ==
    requests' = [requests EXCEPT ![r].at = at, ![r].targets = targets]

\* SendWriteReplaceWarning: the gNBs now connected, ...
snapshotGNBs(r) ==
    /\ requests[r].op = "broadcast" /\ requests[r].at = "amf"
    /\ AmfGoesOn(r, "record", gnbs)
    /\ UNCHANGED <<gnbs, closing, pws, pwsLinks, cbcStore, pwsHistory, pwsOps>>

\* Mutant: a re-broadcast keeps the entries of the one it replaces.
keepsEntries(r) ==
    /\ requests[r].op = "broadcast" /\ requests[r].at = "record"
    /\ pws' = [pws EXCEPT ![requests[r].key] =
                 [known |-> TRUE, cancelled |-> FALSE,
                  perGNB |-> [g \in requests[r].targets |->
                                IF @.known /\ g \in DOMAIN @.perGNB THEN @.perGNB[g] ELSE Pending]]]
    /\ lateEntries' = lateEntries \union ({requests[r].key} \X (requests[r].targets \ (gnbs \ closing)))
    /\ AmfGoesOn(r, IF requests[r].targets = {} THEN "store" ELSE "write", requests[r].targets)
    /\ UNCHANGED <<gnbs, closing, pwsLinks, cbcStore, mixedKeys, pwsOps>>

\* ... the registry entry, recorded even for no gNB at all, ...
recordBroadcast(r) ==
    /\ requests[r].op = "broadcast" /\ requests[r].at = "record"
    /\ pws' = [pws EXCEPT ![requests[r].key] =
                 [known |-> TRUE, cancelled |-> FALSE,
                  perGNB |-> [g \in requests[r].targets |-> Pending]]]
    /\ lateEntries' = lateEntries \union ({requests[r].key} \X (requests[r].targets \ (gnbs \ closing)))
    /\ AmfGoesOn(r, IF requests[r].targets = {} THEN "store" ELSE "write", requests[r].targets)
    /\ UNCHANGED <<gnbs, closing, pwsLinks, cbcStore, mixedKeys, pwsOps>>

\* ... and one write per gNB.  A write to an association that is gone fails and
\* only a log line says so.
writeNGAP(r, g) ==
    LET k == requests[r].key
        rest == requests[r].targets \ {g}
    IN /\ requests[r].op # "none" /\ requests[r].at = "write" /\ g \in requests[r].targets
       /\ IF g \in gnbs
          THEN /\ toGnb' = [toGnb EXCEPT ![g] = Append(@, [op |-> requests[r].op, key |-> k])]
               /\ UNCHANGED mixedKeys
          ELSE /\ mixedKeys' = mixedKeys \union {k}
               /\ UNCHANGED toGnb
       /\ AmfGoesOn(r, IF rest = {} THEN "store" ELSE "write", rest)
       /\ UNCHANGED <<gnbs, closing, pws, fromGnb, onAir, cbcStore, pwsOps, lateEntries>>

\* SendPWSCancel: an unknown key is a 404, on which the portal still marks its
\* row; else the entry is cancelled first and the gNBs are read after it.
SendPWSCancel(r) ==
    LET k == requests[r].key
    IN /\ requests[r].op \in {"cancel", "cancelAll"} /\ requests[r].at = "amf"
       /\ IF pws[k].known
          THEN /\ pws' = [pws EXCEPT ![k].cancelled = TRUE]
               /\ AmfGoesOn(r, IF gnbs = {} THEN "store" ELSE "write", gnbs)
          ELSE /\ AmfGoesOn(r, "store", {})
               /\ UNCHANGED pws
       /\ UNCHANGED <<gnbs, closing, pwsLinks, cbcStore, pwsHistory, pwsOps>>

GnbEntry(k, g) == IF g \in DOMAIN pws[k].perGNB THEN pws[k].perGNB[g] ELSE Pending

\* The answers, dropped for a key the registry does not have; an entry is made
\* for a gNB that was not among the targets.
Answered(k, g, st) ==
    pws' = IF pws[k].known
           THEN [pws EXCEPT ![k].perGNB =
                   [h \in DOMAIN @ \union {g} |-> IF h = g THEN st ELSE @[h]]]
           ELSE pws

FromGnb(g, op) ==
    /\ g \in gnbs /\ fromGnb[g] # <<>> /\ Head(fromGnb[g]).op = op
    /\ fromGnb' = [fromGnb EXCEPT ![g] = Tail(@)]
    /\ UNCHANGED <<gnbs, closing, requests, toGnb, onAir, cbcStore, pwsHistory, pwsOps>>

handleWriteReplaceWarningResponse(g) ==
    /\ FromGnb(g, "broadcast")
    /\ LET k == Head(fromGnb[g]).key
       IN Answered(k, g, IF pws[k].known THEN [GnbEntry(k, g) EXCEPT !.completed = TRUE] ELSE Pending)

handlePWSCancelResponse(g) ==
    \E op \in {"cancel", "cancelAll"} :
        /\ FromGnb(g, op)
        /\ LET k == Head(fromGnb[g]).key
           IN Answered(k, g, IF pws[k].known THEN [GnbEntry(k, g) EXCEPT !.cancelled = TRUE] ELSE Pending)

\* Entries neither completed nor cancelled will hear nothing more.
markPWSGNBFailed(g) ==
    [k \in WarningKeys |->
        IF pws[k].known /\ g \in DOMAIN pws[k].perGNB
              /\ ~pws[k].perGNB[g].completed /\ ~pws[k].perGNB[g].cancelled
        THEN [pws[k] EXCEPT !.perGNB[g].failed = TRUE] ELSE pws[k]]

\* handleGNBConn's deferred clean-up: the registry first, the gNB table last.
loseGNB(g) ==
    /\ "loss" \in PwsEvents /\ g \in gnbs \ closing /\ PwsSpend
    /\ pws' = markPWSGNBFailed(g)
    /\ closing' = closing \union {g}
    /\ mixedKeys' = mixedKeys \union {k \in WarningKeys : UnderWay(k)}
    /\ toGnb' = [toGnb EXCEPT ![g] = <<>>]
    /\ fromGnb' = [fromGnb EXCEPT ![g] = <<>>]
    /\ UNCHANGED <<gnbs, requests, onAir, cbcStore, lateEntries>>

forgetGNB(g) ==
    /\ g \in closing
    /\ gnbs' = gnbs \ {g}
    /\ closing' = closing \ {g}
    /\ toGnb' = [toGnb EXCEPT ![g] = <<>>]
    /\ mixedKeys' = mixedKeys \union {k \in WarningKeys : \E i \in DOMAIN toGnb[g] : toGnb[g][i].key = k}
    /\ UNCHANGED <<pws, requests, fromGnb, onAir, cbcStore, pwsOps, lateEntries>>

connectGNB(g) ==
    /\ g \notin gnbs
    /\ gnbs' = gnbs \union {g}
    /\ UNCHANGED <<closing, pws, requests, pwsLinks, cbcStore, pwsHistory, pwsOps>>

\* A restart loses the registry and the associations; the portal's requests in
\* the AMF end in an error and write nothing.
restartAMF ==
    /\ "restart" \in PwsEvents /\ PwsSpend
    /\ gnbs' = {} /\ closing' = {}
    /\ pws' = [k \in WarningKeys |-> NoBroadcast]
    /\ requests' = [r \in Requests |->
                      IF requests[r].op # "none" /\ requests[r].at # "store" THEN NoRequest
                      ELSE requests[r]]
    /\ toGnb' = [g \in PwsGnbs |-> <<>>]
    /\ fromGnb' = [g \in PwsGnbs |-> <<>>]
    /\ mixedKeys' = mixedKeys \union {k \in WarningKeys : UnderWay(k)}
    /\ UNCHANGED <<onAir, cbcStore, lateEntries>>

---------------------------------------------------------------------------
(* A gNB takes what it receives in order and answers each request. *)

GnbAnswers(g) ==
    /\ g \in gnbs \ closing /\ toGnb[g] # <<>>
    /\ LET msg == Head(toGnb[g])
       IN /\ onAir' = [onAir EXCEPT ![g] = IF msg.op = "broadcast" THEN @ \union {msg.key}
                                           ELSE @ \ Touched(msg.op, msg.key)]
          /\ fromGnb' = [fromGnb EXCEPT ![g] = Append(@, msg)]
          /\ toGnb' = [toGnb EXCEPT ![g] = Tail(@)]
    /\ UNCHANGED <<gnbs, closing, pws, requests, cbcStore, pwsHistory, pwsOps>>

---------------------------------------------------------------------------
PwsInit ==
    /\ gnbs = {} /\ closing = {}
    /\ pws = [k \in WarningKeys |-> NoBroadcast]
    /\ requests = [r \in Requests |-> NoRequest]
    /\ toGnb = [g \in PwsGnbs |-> <<>>]
    /\ fromGnb = [g \in PwsGnbs |-> <<>>]
    /\ onAir = [g \in PwsGnbs |-> {}]
    /\ cbcStore = [k \in WarningKeys |-> "absent"]
    /\ mixedKeys = {} /\ lateEntries = {}
    /\ pwsOps = 0

PwsNext ==
    \/ \E r \in Requests :
         \/ \E k \in WarningKeys : \/ handlePWSBroadcast(r, k) \/ handlePWSResend(r, k)
                                   \/ handlePWSCancel(r, k)
         \/ snapshotGNBs(r) \/ recordBroadcast(r) \/ SendPWSCancel(r) \/ persist(r)
         \/ \E g \in PwsGnbs : writeNGAP(r, g)
    \/ \E g \in PwsGnbs :
         \/ handleWriteReplaceWarningResponse(g) \/ handlePWSCancelResponse(g)
         \/ loseGNB(g) \/ forgetGNB(g) \/ connectGNB(g) \/ GnbAnswers(g)
    \/ restartAMF

PwsSpec == PwsInit /\ [][PwsNext]_pwsVars

---------------------------------------------------------------------------
GnbStatus == [completed: BOOLEAN, cancelled: BOOLEAN, failed: BOOLEAN]

\* The variables of the warning exchange have their types.
PwsTypeOK ==
    /\ closing \subseteq gnbs /\ gnbs \subseteq PwsGnbs
    /\ \A k \in WarningKeys : pws[k] = NoBroadcast
         \/ /\ pws[k].cancelled \in BOOLEAN
            /\ DOMAIN pws[k].perGNB \subseteq PwsGnbs
            /\ \A g \in DOMAIN pws[k].perGNB : pws[k].perGNB[g] \in GnbStatus
    /\ \A r \in Requests : requests[r] = NoRequest
         \/ /\ requests[r].key \in WarningKeys
            /\ requests[r].at \in {"amf", "record", "write", "store"}
    /\ onAir \in [PwsGnbs -> SUBSET WarningKeys]
    /\ cbcStore \in [WarningKeys -> {"absent", "active", "cancelled"}]
    /\ mixedKeys \subseteq WarningKeys /\ lateEntries \subseteq WarningKeys \X PwsGnbs
    /\ pwsOps \in 0..MaxPws

PwsSettled(k) == ~UnderWay(k) /\ k \notin mixedKeys

\* What the AMF reports of a warning is what its gNBs do: once the exchanges of
\* a key are over, and as long as they neither overlapped nor were cut short, a
\* gNB reported as completed and not cancelled broadcasts it and one reported as
\* cancelled does not.
ReportsAreTrue ==
    \A k \in WarningKeys : PwsSettled(k) /\ pws[k].known =>
        \A g \in DOMAIN pws[k].perGNB : LET st == pws[k].perGNB[g] IN
            /\ st.completed /\ ~st.cancelled => k \in onAir[g]
            /\ st.cancelled => k \notin onAir[g]

\* The portal's row of a warning the AMF knows says cancelled exactly when the
\* AMF's entry does, over restarts of the AMF and re-sent warnings too.
StoreFollowsRegistry ==
    \A k \in WarningKeys : PwsSettled(k) /\ pws[k].known =>
        (cbcStore[k] = "cancelled") = pws[k].cancelled

Concluded(st) == st.completed \/ st.cancelled \/ st.failed

\* A gNB that has left is not waited for: its entry in every broadcast no longer
\* being sent says completed, cancelled or failed, unless the entry was made
\* after the clean-up of the gNB's association had passed over the registry.
DroppedAreMarked ==
    \A k \in WarningKeys : pws[k].known /\ ~UnderWay(k) =>
        \A g \in DOMAIN pws[k].perGNB \ gnbs : Concluded(pws[k].perGNB[g]) \/ <<k, g>> \in lateEntries

\* markPWSGNBFailed "so a dropped SCTP association doesn't leave a broadcast entry
\* stuck pending forever".
DroppedNotPending ==
    \A k \in WarningKeys : pws[k].known /\ ~UnderWay(k) =>
        \A g \in DOMAIN pws[k].perGNB \ gnbs : Concluded(pws[k].perGNB[g])
============================================================================
