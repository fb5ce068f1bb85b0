---------------------------- MODULE AmfHandover ----------------------------
(* Xn and N2 handovers of one UE through the AMF (handover.go, smf_leg.go): the part of
   each handler that runs on the read loop of a gNB's association, the part that waits
   for the SMF on the UE's serial queue, and the SMF calls that run detached.  Beside the
   AMF: the gNBs and the device, and what the SMF makes of each call (handover_n2.go).
   A PDU session is its PSI.                                                        *)
EXTENDS Naturals, Sequences, FiniteSets

CONSTANTS HoGnb, HoRan, Psi, Nobody,
          Home,         \* the gNB that serves the device first
          Others,       \* the <<gNB, RAN ID>> another UE is served under
          HoEvents,     \* what may disturb a handover
          MaxHo         \* how many handovers the RAN starts

ASSUME HandoverAssumption ==
    Home \in HoGnb /\ Nobody \notin HoGnb /\ Others \subseteq HoGnb \X HoRan
    /\ MaxHo \in Nat /\ \E r \in HoRan : <<Home, r>> \notin Others

VARIABLES served,      \* UEContext.GNBAddr, RANUENGAPId
          entry,       \* GNBContext.UEs: whose context a RAN ID leads to
          idle,        \* CMState is CM-IDLE
          pdu,        \* UEContext.PDUSessions
          chain, allowed, \* the NH chain is usable, AllowedNSSAI is not empty
          ncc,         \* UEContext.NCC
          keys,        \* the NCCs sent to a target so far
          task,        \* UEContext.taskQueue, the running task at its head
          pendingN2HO, \* Server.pendingN2HO: 0, or the state it points to
          ho,          \* the n2HandoverStates made
          calls,       \* detached UpdateSMContext calls on their way
          path, tgt,   \* at the SMF: where the UPF sends DL packets, the target's tunnel
          dl,          \* per gNB, NGAP messages on their way to it
          down,        \* associations that broke and were not noticed yet
          inUse,       \* the RAN IDs each gNB has in use
          radio,       \* where the device is
          bearers,     \* the sessions the gNB there carries
          ran          \* the handover the RAN is in

amfHo == <<served, entry, idle, pdu, chain, allowed, ncc, keys, task, pendingN2HO, ho, calls>>
smfHo == <<path, tgt>>
ranHo == <<dl, down, inUse, radio, bearers, ran>>
hoVars == <<amfHo, smfHo, ranHo>>

HoHas(event) == event \in HoEvents
Place(g, r) == [g |-> g, r |-> r]
nccModulus == 8
Places == [g : HoGnb, r : HoRan]

HandoverTypeOK ==
    /\ served \in Places /\ radio \in Places
    /\ entry \in [HoGnb -> [HoRan -> {"none", "ue", "other"}]]
    /\ idle \in BOOLEAN /\ chain \in BOOLEAN /\ allowed \in BOOLEAN
    /\ pdu \subseteq Psi /\ bearers \subseteq Psi
    /\ ncc \in 0..nccModulus - 1 /\ keys \in Seq(0..nccModulus - 1)
    /\ pendingN2HO \in 0..Len(ho)
    /\ \A i \in DOMAIN ho : /\ ho[i].src \in Places /\ ho[i].prepReleased \subseteq Psi
                            /\ ho[i].admitted \subseteq Psi /\ ho[i].targetFailed \subseteq Psi
    /\ \A i \in DOMAIN task : task[i].kind \in {"xn", "required", "ack"}
                              /\ task[i].step \in {"queued", "smf", "register"}
    /\ calls \subseteq [leg : {"comp", "deact", "release"}, psi : Psi]
    /\ path \in [Psi -> HoGnb \cup {Nobody}] /\ tgt \in [Psi -> HoGnb \cup {Nobody}]
    /\ DOMAIN dl = HoGnb /\ down \subseteq HoGnb /\ inUse \in [HoGnb -> SUBSET HoRan]
    /\ ran.at \in {"idle", "xn", "required", "refused", "moved", "lost"}

\* A registered UE with its sessions active; its chain is about to wrap.
HandoverInit ==
    /\ served \in {Place(Home, r) : r \in {q \in HoRan : <<Home, q>> \notin Others}}
    /\ radio = served
    /\ entry = [g \in HoGnb |-> [r \in HoRan |->
                 IF Place(g, r) = served THEN "ue" ELSE IF <<g, r>> \in Others THEN "other" ELSE "none"]]
    /\ inUse = [g \in HoGnb |-> {r \in HoRan : entry[g][r] # "none"}]
    /\ idle = FALSE /\ pdu = Psi /\ bearers = Psi
    /\ chain \in BOOLEAN /\ allowed \in BOOLEAN
    /\ ncc = nccModulus - 1 /\ keys = <<>>
    /\ task = <<>> /\ pendingN2HO = 0 /\ ho = <<>> /\ calls = {}
    /\ path = [p \in Psi |-> Home] /\ tgt = [p \in Psi |-> Nobody]
    /\ dl = [g \in HoGnb |-> <<>>] /\ down = {}
    /\ ran = [at |-> "idle", n |-> 0]

\* writeNGAP: what is written to a broken association is lost.
Sent(g, m) == IF g \in down THEN dl ELSE [dl EXCEPT ![g] = Append(@, m)]
Send(g, m) == dl' = Sent(g, m)
Received(g) == [dl EXCEPT ![g] = Tail(@)]
Enqueue(t) == task' = Append(task, t)
Heading(kind, step) == task # <<>> /\ Head(task).kind = kind /\ Head(task).step = step
Continue(t) == task' = <<t>> \o Tail(task)
Done == task' = Tail(task)

\* What the SMF makes of a call per session: the accepted ones took effect; one that is
\* reported as failed had no effect, unless the AMF stopped waiting for it too early.
Applied(accepted, all) ==
    {accepted \cup late : late \in IF HoHas("late") THEN SUBSET (all \ accepted) ELSE {{}}}
With(f, ps, v) == [p \in Psi |-> IF p \in ps THEN v ELSE f[p]]

\* Mutant: the pair is sent, the chain stays.
sameNH == ncc' = ncc /\ keys' = Append(keys, ncc)

NextNHLocked == ncc' = (ncc + 1) % nccModulus /\ keys' = Append(keys, ncc')
-----------------------------------------------------------------------------
(* Xn handover *)

rejectPathSwitch(g) == Send(g, [type |-> "PathSwitchRequestFailure"])

\* The Allowed NSSAI falls back on the slices of the sessions.
resolveAllowedNSSAI == allowed \/ pdu # {}

\* On the read loop: a PSI in both lists, no known PSI, an unusable chain and no Allowed
\* NSSAI are refused before the SMF is asked.
handlePathSwitchRequest(g, r, list, failed) ==
    IF list \cap failed # {} \/ list \cap pdu = {} \/ ~chain \/ ~resolveAllowedNSSAI
    THEN rejectPathSwitch(g) /\ UNCHANGED task
    ELSE /\ Enqueue([kind |-> "xn", step |-> "queued", to |-> Place(g, r), list |-> list,
                     failed |-> failed, known |-> pdu, ok |-> {}])
         /\ UNCHANGED dl

\* The SMF legs of the task: PATH_SWITCH_REQ per known session of the list,
\* PATH_SWITCH_SETUP_FAIL per known failed one, whose outcome is only logged.
xnSwitchPSI ==
    LET t == Head(task) IN
    /\ Heading("xn", "queued")
    /\ \E ok \in SUBSET (t.list \cap t.known) :
       \E switched \in Applied(ok, t.list \cap t.known), dropped \in SUBSET (t.failed \cap t.known) :
          /\ Continue([t EXCEPT !.step = "smf", !.ok = ok])
          /\ path' = With(With(path, switched, t.to.g), dropped, Nobody)
    /\ UNCHANGED <<served, entry, idle, pdu, chain, allowed, ncc, keys, pendingN2HO, ho, calls,
                   tgt, ranHo>>

\* findSourceGNB: the first association, in map order, that has the UE.
Holders == {g \in HoGnb : \E r \in HoRan : entry[g][r] = "ue"}

\* Mutant: the entry is deleted under the RAN ID of the target.
ReboundByNewId(t, src) ==
    LET freed == IF src = Nobody THEN entry ELSE [entry EXCEPT ![src][t.to.r] = "none"]
    IN [freed EXCEPT ![t.to.g][t.to.r] = "ue"]

Rebound(t, src) ==
    LET freed == IF src = Nobody THEN entry ELSE [entry EXCEPT ![src][served.r] = "none"]
    IN [freed EXCEPT ![t.to.g][t.to.r] = "ue"]

\* deactivateUnlistedSessions: one detached call per session in neither list.
unlistedCalls(t) == {[leg |-> "deact", psi |-> p] : p \in pdu \ (t.list \cup t.failed)}

\* At least one session was switched: the chain advances, the target is acknowledged and
\* the UE bound to it; sessions in neither list are deactivated by detached calls.
completePathSwitch ==
    LET t == Head(task) IN
    /\ Heading("xn", "smf") /\ t.ok # {} /\ resolveAllowedNSSAI /\ t.to.g \notin down
    /\ NextNHLocked
    /\ \E src \in IF Holders = {} THEN {Nobody} ELSE Holders : entry' = Rebound(t, src)
    /\ served' = t.to
    /\ calls' = calls \cup unlistedCalls(t)
    /\ Send(t.to.g, [type |-> "PathSwitchRequestAcknowledge", switched |-> t.ok])
    /\ Done
    /\ UNCHANGED <<idle, pdu, chain, allowed, pendingN2HO, ho, smfHo, down, inUse, radio,
                   bearers, ran>>

\* The acknowledgement cannot be written: an NCC is used up and nothing is bound.
pathSwitchAckLost ==
    LET t == Head(task) IN
    /\ Heading("xn", "smf") /\ t.ok # {} /\ resolveAllowedNSSAI /\ t.to.g \in down
    /\ NextNHLocked /\ Done
    /\ UNCHANGED <<served, entry, idle, pdu, chain, allowed, pendingN2HO, ho, calls, smfHo, ranHo>>

\* The last session, and with it the Allowed NSSAI, went while the SMF was asked.
pathSwitchTooLate ==
    /\ Heading("xn", "smf") /\ Head(task).ok # {} /\ ~resolveAllowedNSSAI
    /\ NextNHLocked /\ rejectPathSwitch(Head(task).to.g) /\ Done
    /\ UNCHANGED <<served, entry, idle, pdu, chain, allowed, pendingN2HO, ho, calls, smfHo,
                   down, inUse, radio, bearers, ran>>

\* No session was switched: no NCC is used and nothing is bound.
pathSwitchFails ==
    /\ Heading("xn", "smf") /\ Head(task).ok = {}
    /\ rejectPathSwitch(Head(task).to.g) /\ Done
    /\ UNCHANGED <<served, entry, idle, pdu, chain, allowed, ncc, keys, pendingN2HO, ho, calls,
                   smfHo, down, inUse, radio, bearers, ran>>
-----------------------------------------------------------------------------
(* N2 handover *)

PrepFailure == [type |-> "HandoverPreparationFailure"]
rejectHandoverPreparation(g) == Send(g, PrepFailure)

\* On the read loop of the source: the target is unknown, or is the source itself, or the
\* chain is unusable; else the rest waits for the UE's queue.  No NCC is used yet.
handleHandoverRequired(src, target, list) ==
    IF target \in {Nobody, src.g} \/ ~chain
    THEN rejectHandoverPreparation(src.g) /\ UNCHANGED task
    ELSE /\ Enqueue([kind |-> "required", step |-> "queued", src |-> src, target |-> target,
                     list |-> list, cands |-> {}, ok |-> {}])
         /\ UNCHANGED dl

Candidates(list) == IF list = {} THEN pdu ELSE list \cap pdu

\* A HANDOVER REQUEST without a session or without Allowed NSSAI is not tried.
HandoverRequestMissingIE(list) == Candidates(list) = {} \/ ~allowed

preparationAborted ==
    LET t == Head(task) IN
    /\ Heading("required", "queued") /\ HandoverRequestMissingIE(t.list)
    /\ rejectHandoverPreparation(t.src.g) /\ Done
    /\ UNCHANGED <<served, entry, idle, pdu, chain, allowed, ncc, keys, pendingN2HO, ho, calls,
                   smfHo, down, inUse, radio, bearers, ran>>

\* PREPARING at the SMF per candidate; the SMF keeps no target yet.
n2PreparingSMF ==
    LET t == Head(task) IN
    /\ Heading("required", "queued") /\ ~HandoverRequestMissingIE(t.list)
    /\ \E ok \in SUBSET Candidates(t.list) :
          Continue([t EXCEPT !.step = "smf", !.cands = Candidates(t.list), !.ok = ok])
    /\ UNCHANGED <<served, entry, idle, pdu, chain, allowed, ncc, keys, pendingN2HO, ho, calls,
                   smfHo, ranHo>>

\* Mutant: the sessions the SMF did not prepare are forgotten.
prepReleasedUnknownOnly(t) == t.list \ t.cands

\* The sessions rejected by the SMF, and those listed that the AMF does not know.
prepReleased(t) == (t.cands \ t.ok) \cup (t.list \ t.cands)

\* The chain advances, the state is stored and the HANDOVER REQUEST sent; when it cannot
\* be sent the state is deleted again and the source told.
continueHandoverPreparation ==
    LET t == Head(task)
        state == [src |-> t.src, prepReleased |-> prepReleased(t), admitted |-> {},
                  targetFailed |-> {}]
    IN /\ Heading("required", "smf") /\ t.ok # {}
       /\ NextNHLocked
       /\ ho' = Append(ho, state)
       /\ IF t.target \in down
          THEN pendingN2HO' = 0 /\ rejectHandoverPreparation(t.src.g)
          ELSE pendingN2HO' = Len(ho') /\ Send(t.target, [type |-> "HandoverRequest", list |-> t.ok])
       /\ Done
       /\ UNCHANGED <<served, entry, idle, pdu, chain, allowed, calls, smfHo, down, inUse, radio,
                      bearers, ran>>

preparationRejected ==
    /\ Heading("required", "smf") /\ Head(task).ok = {}
    /\ rejectHandoverPreparation(Head(task).src.g) /\ Done
    /\ UNCHANGED <<served, entry, idle, pdu, chain, allowed, ncc, keys, pendingN2HO, ho, calls,
                   smfHo, down, inUse, radio, bearers, ran>>

\* On the read loop of the target: the pending state is found by the AMF UE NGAP ID alone.
handleHandoverRequestAcknowledge(g, r, admitted, failed) ==
    IF pendingN2HO = 0 THEN UNCHANGED task
    ELSE Enqueue([kind |-> "ack", step |-> "queued", to |-> Place(g, r), admitted |-> admitted,
                  failed |-> failed, known |-> {}, ok |-> {}, state |-> pendingN2HO])

\* PREPARED at the SMF: HANDOVER_REQ_ACK stores the target's tunnel per known admitted
\* session, HANDOVER_RES_ALLOC_FAIL forgets it per known failed one.
n2PrepareSMF ==
    LET t == Head(task) IN
    /\ Heading("ack", "queued")
    /\ \E ok \in SUBSET (t.admitted \cap pdu) :
       \E stored \in Applied(ok, t.admitted \cap pdu), cleared \in SUBSET (t.failed \cap pdu) :
          /\ Continue([t EXCEPT !.step = "smf", !.known = pdu, !.ok = ok])
          /\ tgt' = With(With(tgt, stored, t.to.g), cleared, Nobody)
    /\ UNCHANGED <<served, entry, idle, pdu, chain, allowed, ncc, keys, pendingN2HO, ho, calls,
                   path, ranHo>>

\* No session is left for the HANDOVER COMMAND: the state is dropped if it is still the
\* pending one, and the source told.
preparationDropped ==
    LET t == Head(task) IN
    /\ Heading("ack", "smf") /\ t.ok = {}
    /\ pendingN2HO' = IF pendingN2HO = t.state THEN 0 ELSE pendingN2HO
    /\ rejectHandoverPreparation(ho[t.state].src.g) /\ Done
    /\ UNCHANGED <<served, entry, idle, pdu, chain, allowed, ncc, keys, ho, calls, smfHo,
                   down, inUse, radio, bearers, ran>>

\* The accepted sessions are remembered and the source commanded; the UE's entry at the
\* target follows the command.
completeHandoverPreparation ==
    LET t == Head(task)
        release == ((t.admitted \ t.ok) \cup t.failed \cup ho[t.state].prepReleased) \ t.ok
    IN /\ Heading("ack", "smf") /\ t.ok # {}
       /\ ho' = [ho EXCEPT ![t.state].admitted = t.ok,
                           ![t.state].targetFailed = t.failed \cap t.known]
       /\ Send(ho[t.state].src.g, [type |-> "HandoverCommand", to |-> t.to, cmd |-> t.ok,
                                   release |-> release])
       /\ IF ho[t.state].src.g \in down THEN Done ELSE Continue([t EXCEPT !.step = "register"])
       /\ UNCHANGED <<served, entry, idle, pdu, chain, allowed, ncc, keys, pendingN2HO, calls,
                      smfHo, down, inUse, radio, bearers, ran>>

\* Mutant: the command is the last step.
registerNowhere ==
    /\ Heading("ack", "register") /\ Done
    /\ UNCHANGED <<served, entry, idle, pdu, chain, allowed, ncc, keys, pendingN2HO, ho, calls,
                   smfHo, ranHo>>

registerAtTarget ==
    LET t == Head(task) IN
    /\ Heading("ack", "register")
    /\ entry' = [entry EXCEPT ![t.to.g][t.to.r] = "ue"] /\ Done
    /\ UNCHANGED <<served, idle, pdu, chain, allowed, ncc, keys, pendingN2HO, ho, calls, smfHo, ranHo>>

\* notifyHandoverComplete and notifyTargetFailedDeactivate: one detached call per session.
completionCalls(state) ==
    {[leg |-> "comp", psi |-> p] : p \in state.admitted \cap pdu}
    \cup {[leg |-> "deact", psi |-> p] : p \in state.targetFailed \cap pdu}

\* On the read loop of the target: the state is consumed, the UE bound to the sender, the
\* SMF told by detached calls and the source commanded to release.
handleHandoverNotify(to) ==
    IF pendingN2HO = 0 THEN UNCHANGED <<pendingN2HO, entry, served, calls, dl>>
    ELSE LET state == ho[pendingN2HO] IN
         /\ pendingN2HO' = 0
         /\ entry' = [entry EXCEPT ![state.src.g][state.src.r] = "none"]
         /\ served' = to
         /\ calls' = calls \cup completionCalls(state)
         /\ Send(state.src.g, [type |-> "UEContextReleaseCommand", r |-> state.src.r])

isStaleSourceRelease(g, r) == served # Place(g, r)

\* The source has released: only the old connection is forgotten.  Else the UE is idle
\* (AmfUe has what follows from that).
handleUEContextReleaseComplete(g, r) ==
    /\ entry' = [entry EXCEPT ![g][r] = "none"]
    /\ idle' = (idle \/ ~isStaleSourceRelease(g, r))
-----------------------------------------------------------------------------
(* The SMF's side of the detached calls, and a failed session setup *)

\* COMPLETED switches to the stored target and is refused without one; DEACTIVATED drops
\* the DL path, and so does a release.  Calls are late here, not lost.
smfExecutes(c) ==
    /\ c \in calls /\ calls' = calls \ {c}
    /\ path' = [path EXCEPT ![c.psi] = IF c.leg # "comp" THEN Nobody
                                       ELSE IF tgt[c.psi] = Nobody THEN @ ELSE tgt[c.psi]]
    /\ tgt' = [tgt EXCEPT ![c.psi] = IF c.leg = "deact" THEN @ ELSE Nobody]
    /\ UNCHANGED <<served, entry, idle, pdu, chain, allowed, ncc, keys, task, pendingN2HO, ho, ranHo>>

\* A gNB reports late that it could not set up a session: the AMF forgets it at once and
\* has the SMF release it by a detached call.
handlePDUSessionResourceSetupResponse(p) ==
    /\ HoHas("setupfail") /\ p \in pdu
    /\ pdu' = pdu \ {p} /\ calls' = calls \cup {[leg |-> "release", psi |-> p]}
    /\ UNCHANGED <<served, entry, idle, chain, allowed, ncc, keys, task, pendingN2HO, ho,
                   smfHo, ranHo>>
-----------------------------------------------------------------------------
(* The RAN: one handover at a time, RAN IDs not in use, answers in any order *)

\* The next handover starts when the former is over, and, unless it is a fast one, when
\* the SMF has been told.
Starts ==
    /\ ran.at = "idle" /\ ran.n < MaxHo /\ (calls = {} \/ HoHas("fast"))
    /\ radio.g \notin down

XnHandover(g, r, list, failed) ==
    /\ Starts /\ g \notin down \cup {radio.g} /\ r \in HoRan \ inUse[g]
    /\ list # {} /\ list \cup failed \subseteq bearers
    /\ radio' = Place(g, r) /\ inUse' = [inUse EXCEPT ![g] = @ \cup {r}]
    /\ ran' = [at |-> "xn", n |-> ran.n + 1, from |-> radio]
    /\ handlePathSwitchRequest(g, r, list, failed)
    /\ UNCHANGED <<served, entry, idle, pdu, chain, allowed, ncc, keys, pendingN2HO, ho, calls,
                   smfHo, down, bearers>>

SourceRequires(target, list) ==
    /\ Starts /\ list \subseteq bearers
    /\ ran' = [at |-> "required", n |-> ran.n + 1, list |-> list, kept |-> {}]
    /\ handleHandoverRequired(radio, target, list)
    /\ UNCHANGED <<served, entry, idle, pdu, chain, allowed, ncc, keys, pendingN2HO, ho, calls,
                   smfHo, down, inUse, radio, bearers>>

Receives(g, type) == dl[g] # <<>> /\ Head(dl[g]).type = type

TargetAdmits(g, r, admitted) ==
    LET list == Head(dl[g]).list IN
    /\ Receives(g, "HandoverRequest") /\ dl' = Received(g)
    /\ r \notin inUse[g] /\ inUse' = [inUse EXCEPT ![g] = @ \cup {r}]
    /\ ran' = [ran EXCEPT !.kept = {Place(g, r)}]
    /\ admitted \subseteq list /\ admitted # {}
    /\ handleHandoverRequestAcknowledge(g, r, admitted, list \ admitted)
    /\ UNCHANGED <<served, entry, idle, pdu, chain, allowed, ncc, keys, pendingN2HO, ho, calls,
                   smfHo, down, radio, bearers>>

\* HANDOVER FAILURE, for which the AMF's dispatch has no case.
TargetRefuses(g) ==
    /\ HoHas("refuse") /\ Receives(g, "HandoverRequest") /\ dl' = Received(g)
    /\ ran' = [at |-> "refused", n |-> ran.n]
    /\ UNCHANGED <<amfHo, smfHo, down, inUse, radio, bearers>>

\* Nor has it one for the HANDOVER CANCEL of a source that waited in vain.
SourceGivesUp ==
    /\ ran.at = "refused" /\ ran' = [at |-> "idle", n |-> ran.n]
    /\ UNCHANGED <<amfHo, smfHo, dl, down, inUse, radio, bearers>>

DeviceMoves(g) ==
    LET m == Head(dl[g]) IN
    /\ Receives(g, "HandoverCommand") /\ dl' = Received(g)
    /\ radio' = m.to /\ bearers' = m.cmd
    /\ ran' = [at |-> "moved", n |-> ran.n]
    /\ UNCHANGED <<amfHo, smfHo, down, inUse>>

TargetNotifies ==
    /\ ran.at = "moved" /\ radio.g \notin down
    /\ ran' = [at |-> "idle", n |-> ran.n]
    /\ handleHandoverNotify(radio)
    /\ UNCHANGED <<idle, pdu, chain, allowed, ncc, keys, task, ho, smfHo, down, inUse, radio, bearers>>

SourceReleases(g) ==
    LET r == Head(dl[g]).r IN
    /\ Receives(g, "UEContextReleaseCommand") /\ dl' = Received(g)
    /\ inUse' = [inUse EXCEPT ![g] = @ \ {r}]
    /\ handleUEContextReleaseComplete(g, r)
    /\ UNCHANGED <<served, pdu, chain, allowed, ncc, keys, task, pendingN2HO, ho, calls, smfHo,
                   down, radio, bearers, ran>>

\* The target frees by itself what it kept for a device that does not come.
SourceStays(g) ==
    /\ Receives(g, "HandoverPreparationFailure") /\ dl' = Received(g)
    /\ inUse' = [h \in HoGnb |-> {r \in inUse[h] : Place(h, r) \notin ran.kept}]
    /\ ran' = [at |-> "idle", n |-> ran.n]
    /\ UNCHANGED <<amfHo, smfHo, down, radio, bearers>>

\* The target releases the source over XnAP.
TargetSwitched(g) ==
    /\ Receives(g, "PathSwitchRequestAcknowledge") /\ dl' = Received(g)
    /\ bearers' = Head(dl[g]).switched
    /\ inUse' = [inUse EXCEPT ![ran.from.g] = @ \ {ran.from.r}]
    /\ ran' = [at |-> "idle", n |-> ran.n]
    /\ UNCHANGED <<amfHo, smfHo, down, radio>>

\* After a failed path switch the target gives the device up.
TargetGivesUp(g) ==
    /\ Receives(g, "PathSwitchRequestFailure") /\ dl' = Received(g)
    /\ ran' = [at |-> "lost", n |-> ran.n]
    /\ UNCHANGED <<amfHo, smfHo, down, inUse, radio, bearers>>

\* One association breaks during a handover; until the AMF notices (AmfUe), what it
\* writes there is lost.
AssociationBreaks(g) ==
    /\ HoHas("down") /\ down = {} /\ ran.at # "idle"
    /\ down' = {g} /\ dl' = [dl EXCEPT ![g] = <<>>]
    /\ UNCHANGED <<amfHo, smfHo, inUse, radio, bearers, ran>>
-----------------------------------------------------------------------------
Serial ==
    \/ xnSwitchPSI \/ completePathSwitch \/ pathSwitchAckLost
    \/ pathSwitchTooLate \/ pathSwitchFails
    \/ preparationAborted \/ n2PreparingSMF \/ continueHandoverPreparation \/ preparationRejected
    \/ n2PrepareSMF \/ preparationDropped \/ completeHandoverPreparation \/ registerAtTarget

RanReacts ==
    \/ \E g \in HoGnb : \/ \E r \in HoRan, admitted \in SUBSET Psi : TargetAdmits(g, r, admitted)
                        \/ DeviceMoves(g) \/ SourceReleases(g) \/ SourceStays(g)
                        \/ TargetSwitched(g) \/ TargetGivesUp(g)
    \/ TargetNotifies \/ SourceGivesUp

HandoverNext ==
    \/ Serial \/ RanReacts
    \/ \E c \in calls : smfExecutes(c)
    \/ \E g \in HoGnb, r \in HoRan, list \in SUBSET Psi, failed \in SUBSET Psi :
          XnHandover(g, r, list, failed)
    \/ \E target \in HoGnb \cup {Nobody}, list \in SUBSET Psi : SourceRequires(target, list)
    \/ \E p \in Psi : handlePDUSessionResourceSetupResponse(p)
    \/ \E g \in HoGnb : TargetRefuses(g) \/ AssociationBreaks(g)

HandoverSpec == HandoverInit /\ [][HandoverNext]_hoVars
-----------------------------------------------------------------------------
\* Nothing is on its way between the AMF, the SMF and the gNBs, nor in the UE's queue.
NothingUnderWay == task = <<>> /\ calls = {} /\ \A g \in HoGnb : dl[g] = <<>>
Quiet == NothingUnderWay /\ ran.at = "idle"

\* Between handovers the AMF reaches the device where it is: the binding, and the one
\* entry from which the loss of that gNB is cleaned up, lead there, and a handover left
\* nothing pending but a preparation that no command followed.
BoundWhereDeviceIs ==
    Quiet => /\ served = radio /\ (pendingN2HO # 0 => ho[pendingN2HO].admitted = {})
             /\ \A g \in HoGnb, r \in HoRan : entry[g][r] = "ue" <=> Place(g, r) = radio

\* Between handovers the UPF sends every session that the serving gNB carries to that
\* gNB ("the user-plane downlink switch at the UPF").
PathFollowsDevice == Quiet => \A p \in bearers \cap pdu : path[p] = radio.g

\* The HANDOVER COMMAND tells the source of each session it listed, once: handed over, or
\* to be released (IE 59, IE 78).
CommandCoversList ==
    \A g \in HoGnb : \A i \in DOMAIN dl[g] :
        dl[g][i].type = "HandoverCommand" =>
            /\ dl[g][i].cmd \cap dl[g][i].release = {}
            /\ ran.list \subseteq dl[g][i].cmd \cup dl[g][i].release

\* No NCC is sent to two targets ("two hops in flight cannot reuse an NCC").
KeysFresh == \A i, j \in DOMAIN keys : keys[i] = keys[j] => i = j

\* The source's UE CONTEXT RELEASE COMPLETE, however late, never makes the UE idle.
StaysConnected == ~idle

\* A handover leaves the entries of other UEs alone.
OthersKept ==
    [][\A g \in HoGnb, r \in HoRan : entry[g][r] = "other" => entry'[g][r] = "other"]_hoVars

\* No handover is forgotten: when nothing is under way any more, whoever asked for one has
\* been answered, if no association broke meanwhile.
HandoverAnswered == NothingUnderWay /\ down = {} => ran.at \notin {"xn", "required"}

\* The user plane and the bearers follow the device, the command covers the sessions of the
\* list, the device stays connected and every request is answered.
HandoverSettles ==
    HandoverTypeOK /\ PathFollowsDevice /\ CommandCoversList /\ StaysConnected /\ HandoverAnswered
=============================================================================
