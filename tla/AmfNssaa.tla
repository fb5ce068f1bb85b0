------------------------------ MODULE AmfNssaa ------------------------------
(* Network slice-specific authentication of one registered device.  A slice subject to it is
   withheld from the Allowed NSSAI of a registration; the AMF then runs one EAP exchange after
   another, relaying the device's answer to the AAA server through the AUSF, and the AAA server
   may revoke a slice or have it authenticated again at any time, on a goroutine of its own,
   while an answer is being relayed.                                                        *)
EXTENDS Naturals, Sequences, FiniteSets, SequencesExt

CONSTANTS Subscribed,     \* the slices of the subscription
          SubjectToNSSAA, \* those that need authentication
          NssaaEvents,    \* what may happen besides
          MaxNssaa        \* bound on registrations and AAA requests

VARIABLES AllowedNSSAI, RejectedNSSAI, PendingNSSAA, NSSAAInProgress, \* of the UEContext
          relay,     \* the slice whose EAP response is with the AUSF, or None
          nssaaDown, nssaaUp, \* NAS messages in flight
          ue,        \* the device: its Allowed NSSAI, and whether it is registering
          nssaaOps   \* registrations and AAA requests so far

nssaaVars == <<AllowedNSSAI, RejectedNSSAI, PendingNSSAA, NSSAAInProgress, relay, nssaaDown,
               nssaaUp, ue, nssaaOps>>

NoSlice == "none"

NssaaTypeOK ==
    /\ AllowedNSSAI \subseteq Subscribed /\ RejectedNSSAI \subseteq SubjectToNSSAA
    /\ Range(PendingNSSAA) \subseteq SubjectToNSSAA
    /\ NSSAAInProgress \in SubjectToNSSAA \cup {NoSlice} /\ relay \in SubjectToNSSAA \cup {NoSlice}

NssaaInit ==
    /\ AllowedNSSAI = {} /\ RejectedNSSAI = {} /\ PendingNSSAA = <<>>
    /\ NSSAAInProgress = NoSlice /\ relay = NoSlice
    /\ nssaaDown = <<>> /\ nssaaUp = <<>>
    /\ ue = [allowed |-> {}, registering |-> FALSE] /\ nssaaOps = 0

DownTo(msgs) == nssaaDown' = nssaaDown \o msgs
Spend == nssaaOps < MaxNssaa /\ nssaaOps' = nssaaOps + 1
----------------------------------------------------------------------------
(* procedures/nssaa.go *)

\* Requested slices that are subscribed; all of them when none is requested.
filterAllowed(requested, subscribed) ==
    IF requested = {} THEN subscribed ELSE requested \cap subscribed

\* What is withheld joins what an earlier registration left pending.
SplitPendingNSSAA(computed) ==
    [allowed |-> computed \ SubjectToNSSAA,
     pending |-> PendingNSSAA \o SetToSeq(computed \cap SubjectToNSSAA)]

beginSlice(slice) ==
    /\ NSSAAInProgress' = slice
    /\ DownTo(<<[t |-> "command", slice |-> slice]>>)

StartNSSAA ==
    IF PendingNSSAA = <<>> THEN UNCHANGED <<NSSAAInProgress, nssaaDown>>
    ELSE beginSlice(Head(PendingNSSAA))

\* Mutant: the marker is cleared after the next command has set it.
clearsMarker(rest) == NoSlice

\* The slice in progress after one has been resolved.
advance(rest) == IF rest = <<>> THEN NoSlice ELSE Head(rest)

dropSlice(pending, slice) == SelectSeq(pending, LAMBDA s : s # slice)

ConfigUpdate(allowed) == [t |-> "config", allowed |-> allowed]

\* The AAA server has decided, or could not be reached: ProcessNSSAAComplete from there on, and
\* what handleNSSAAComplete sends: the result, and the next command or, after a success, the
\* Allowed NSSAI.
ProcessNSSAAComplete(authorized) ==
    LET rest == dropSlice(PendingNSSAA, relay)
        result == [t |-> "result", slice |-> relay]
    IN /\ relay # NoSlice
       /\ IF authorized
          THEN /\ AllowedNSSAI' = AllowedNSSAI \cup {relay}
               /\ RejectedNSSAI' = RejectedNSSAI \ {relay}
          ELSE /\ RejectedNSSAI' = RejectedNSSAI \cup {relay}
               /\ UNCHANGED AllowedNSSAI
       /\ PendingNSSAA' = rest /\ NSSAAInProgress' = advance(rest) /\ relay' = NoSlice
       /\ DownTo(<<result>> \o
                 IF rest # <<>> THEN <<[t |-> "command", slice |-> Head(rest)]>>
                 ELSE IF authorized THEN <<ConfigUpdate(AllowedNSSAI')>> ELSE <<>>)
       /\ UNCHANGED <<nssaaUp, ue, nssaaOps>>

\* The AUSF's answer: the simulated AAA server accepts or refuses the identity; a malformed EAP
\* packet or a failed call is a refusal to the AMF.
handleNSSAAAuthenticate == \E authorized \in BOOLEAN : ProcessNSSAAComplete(authorized)

\* A COMPLETE for another slice than the one in progress is dropped.
handleNSSAAComplete ==
    /\ nssaaUp # <<>> /\ Head(nssaaUp).t = "complete" /\ relay = NoSlice
    /\ relay' = IF Head(nssaaUp).slice = NSSAAInProgress THEN NSSAAInProgress ELSE NoSlice
    /\ nssaaUp' = Tail(nssaaUp)
    /\ UNCHANGED <<AllowedNSSAI, RejectedNSSAI, PendingNSSAA, NSSAAInProgress, nssaaDown, ue, nssaaOps>>

\* RevokeNSSAASlice; the AAA server revokes what it has granted.
RevokeNSSAA(slice) ==
    /\ "revoke" \in NssaaEvents /\ Spend /\ slice \in AllowedNSSAI
    /\ AllowedNSSAI' = AllowedNSSAI \ {slice}
    /\ RejectedNSSAI' = RejectedNSSAI \cup {slice}
    /\ DownTo(<<ConfigUpdate(AllowedNSSAI')>>)
    /\ UNCHANGED <<PendingNSSAA, NSSAAInProgress, relay, nssaaUp, ue>>

\* ReauthNSSAASlice: the slice is queued, unless it is, and the head of the queue begins, again
\* if it is in progress.
ReauthNSSAA(slice) ==
    /\ "reauth" \in NssaaEvents /\ Spend /\ slice \in AllowedNSSAI
    /\ PendingNSSAA' = IF slice \in Range(PendingNSSAA) THEN PendingNSSAA ELSE Append(PendingNSSAA, slice)
    /\ beginSlice(Head(PendingNSSAA'))
    /\ UNCHANGED <<AllowedNSSAI, RejectedNSSAI, relay, nssaaUp, ue>>
----------------------------------------------------------------------------
(* Registrations, and the device (external) *)

\* Phase 3 of an initial registration, on the connection whose messages come one at a time.
RegistrationAccepted(requested) ==
    LET split == SplitPendingNSSAA(filterAllowed(requested, Subscribed))
    IN /\ relay = NoSlice /\ ~ue.registering /\ Spend
       /\ AllowedNSSAI' = split.allowed /\ PendingNSSAA' = split.pending
       /\ DownTo(<<[t |-> "accept", allowed |-> split.allowed]>>)
       /\ ue' = [ue EXCEPT !.registering = TRUE]
       /\ UNCHANGED <<RejectedNSSAI, NSSAAInProgress, relay, nssaaUp>>

\* The accept of a registration update repeats the Allowed NSSAI.
UpdateAccepted ==
    /\ "update" \in NssaaEvents /\ relay = NoSlice /\ ~ue.registering /\ Spend
    /\ DownTo(<<[t |-> "accept", allowed |-> AllowedNSSAI]>>)
    /\ ue' = [ue EXCEPT !.registering = TRUE]
    /\ UNCHANGED <<AllowedNSSAI, RejectedNSSAI, PendingNSSAA, NSSAAInProgress, relay, nssaaUp>>

RegistrationComplete ==
    /\ nssaaUp # <<>> /\ Head(nssaaUp).t = "registered" /\ relay = NoSlice
    /\ nssaaUp' = Tail(nssaaUp) /\ StartNSSAA
    /\ UNCHANGED <<AllowedNSSAI, RejectedNSSAI, PendingNSSAA, relay, ue, nssaaOps>>

DeviceReceives ==
    LET msg == Head(nssaaDown)
    IN /\ nssaaDown # <<>>
       /\ nssaaDown' = Tail(nssaaDown)
       /\ CASE msg.t = "accept" ->
                 /\ ue' = [allowed |-> msg.allowed, registering |-> FALSE]
                 /\ nssaaUp' = Append(nssaaUp, [t |-> "registered"])
            [] msg.t = "command" ->
                 nssaaUp' = Append(nssaaUp, [t |-> "complete", slice |-> msg.slice]) /\ UNCHANGED ue
            [] msg.t = "config" -> ue' = [ue EXCEPT !.allowed = msg.allowed] /\ UNCHANGED nssaaUp
            [] OTHER -> UNCHANGED <<ue, nssaaUp>>
       /\ UNCHANGED <<AllowedNSSAI, RejectedNSSAI, PendingNSSAA, NSSAAInProgress, relay, nssaaOps>>

NssaaNext ==
    \/ handleNSSAAAuthenticate \/ handleNSSAAComplete
    \/ \E slice \in SubjectToNSSAA : RevokeNSSAA(slice) \/ ReauthNSSAA(slice)
    \/ \E requested \in SUBSET Subscribed : RegistrationAccepted(requested)
    \/ UpdateAccepted \/ RegistrationComplete \/ DeviceReceives

NssaaSpec == NssaaInit /\ [][NssaaNext]_nssaaVars
----------------------------------------------------------------------------
(* Properties *)

NssaaQuiet == nssaaDown = <<>> /\ nssaaUp = <<>> /\ relay = NoSlice

\* Every slice that was withheld or queued again gets its exchange, whatever commands were
\* repeated, answers dropped and slices revoked in between: nothing is pending, or marked in
\* progress, once the device has answered all it was asked.
QueueDrains == NssaaQuiet => PendingNSSAA = <<>> /\ NSSAAInProgress = NoSlice

\* Once nothing is in flight the device does not take for allowed what the AMF has withdrawn.
DeviceNotAhead == NssaaQuiet => ue.allowed \subseteq AllowedNSSAI
=============================================================================
