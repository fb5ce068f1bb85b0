----------------------------- MODULE AmfSessions -----------------------------
(***************************************************************************)
(* The PDU sessions of one device as the AMF keeps them: the map of        *)
(* sessions in the UE context (nas.go, ngap.go), the SM contexts that the  *)
(* AMF creates and deletes at the SMF (clients.go), the network-initiated  *)
(* releases that wait for the device or for T3592, and the set of sessions *)
(* the device was paged for (sbi/server.go).                               *)
(*                                                                         *)
(* Several goroutines work on the one map.  The uplink of the device is    *)
(* served by one handler at a time, which waits for the SMF inside; the    *)
(* management API starts network releases; timers and `go` statements      *)
(* finish them; deletions at the SMF run detached; N1N2 transfers page.    *)
(***************************************************************************)
EXTENDS Naturals, Sequences, FiniteSets, FiniteSetsExt

CONSTANTS
  PduIds,      \* PDU session identities the device uses
  MaxRef,      \* SM contexts the SMF creates in one behaviour
  MaxMoves,    \* management calls, transfers and device requests in one behaviour
  SessEvents   \* which disturbances happen, a subset of SessDisturbances

VARIABLES
  PDUSessions,    \* UE context: session identity -> SM context reference, NoRef when absent
  smContexts,     \* references live at the SMF
  deletions,      \* references whose detached DELETE is under way
  pendingRelease, \* network release waiting for the device: identity -> reference
  guards,         \* running T3592 timers of an identity
  commanded,      \* releases whose command is sent and not yet stored as pending: <<identity, reference>>
  completing,     \* completions waiting for the SMF: <<identity, reference>>
  handler,        \* what the uplink handler is waiting for
  cmState,        \* "idle" or "connected"
  pagedSet,       \* pagedPDUSessions of the UE context
  paging,         \* N1N2 transfers that paged and did not yet record their session
  uplinkMsgs,     \* device -> AMF, in order
  downlinkMsgs,   \* AMF -> device, in order
  devSessions,    \* sessions active at the device
  synced,         \* history: device and AMF exchanged their sessions since the radio was last lost
  moves,          \* calls and requests so far
  refs,           \* SM contexts created so far
  released,       \* history: identities the last Service Request released locally
  carried,        \* history: identities whose resources it asked the gNB to set up
  sweptSessions,  \* history: contexts the AMF forgot by completing an older release
  repeated,       \* history: identities established over a session the AMF still had
  failedDeletes   \* history: contexts whose DELETE the SMF did not carry out

sessVars == <<PDUSessions, smContexts, deletions, pendingRelease, guards, commanded,
              completing, handler, cmState, pagedSet, paging, uplinkMsgs, downlinkMsgs,
              devSessions, synced, moves, refs, released, carried, sweptSessions, repeated,
              failedDeletes>>

smfVars == <<smContexts, refs, failedDeletes>>
networkRelease == <<pendingRelease, guards, commanded, completing>>
reach == <<cmState, pagedSet, paging>>
device == <<devSessions, synced>>
air == <<uplinkMsgs, downlinkMsgs>>
history == <<released, carried, sweptSessions, repeated>>

NoRef == 0
SessDisturbances == {"network", "page", "failure", "radio", "refuse"}
Free1 == [op |-> "none", psi |-> NoRef, ref |-> NoRef, aim |-> {}, told |-> FALSE]
Op(o, p, r) == [Free1 EXCEPT !.op = o, !.psi = p, !.ref = r]
Established == {p \in PduIds : PDUSessions[p] # NoRef}

(***************************************************************************)
(* The type of the session state.                                          *)
(***************************************************************************)
SessTypeOK ==
  /\ PDUSessions \in [PduIds -> 0..MaxRef] /\ pendingRelease \in [PduIds -> 0..MaxRef]
  /\ smContexts \subseteq 1..MaxRef /\ deletions \subseteq 1..MaxRef
  /\ guards \in [PduIds -> 0..MaxMoves]
  /\ commanded \subseteq PduIds \X (1..MaxRef) /\ completing \subseteq PduIds \X (1..MaxRef)
  /\ handler.op \in {"none", "displace", "create", "complete", "activate"}
  /\ cmState \in {"idle", "connected"}
  /\ pagedSet \subseteq PduIds /\ paging \subseteq PduIds /\ devSessions \subseteq PduIds
  /\ moves \in 0..MaxMoves /\ refs \in 0..MaxRef

SessInit ==
  /\ PDUSessions = [p \in PduIds |-> NoRef] /\ pendingRelease = [p \in PduIds |-> NoRef]
  /\ smContexts = {} /\ deletions = {} /\ commanded = {} /\ completing = {}
  /\ guards = [p \in PduIds |-> 0]
  /\ handler = Free1 /\ cmState = "connected"
  /\ pagedSet = {} /\ paging = {} /\ uplinkMsgs = <<>> /\ downlinkMsgs = <<>>
  /\ devSessions = {} /\ synced = TRUE /\ moves = 0 /\ refs = 0
  /\ released = {} /\ carried = {} /\ sweptSessions = {} /\ repeated = {} /\ failedDeletes = {}

(***************************************************************************)
(* The N2 association: what is sent reaches the device while the UE is     *)
(* CM-CONNECTED; without it the send fails.                                *)
(***************************************************************************)
SendPDUSession(m) ==
  downlinkMsgs' = IF cmState = "connected" THEN Append(downlinkMsgs, m) ELSE downlinkMsgs
Sendable == cmState = "connected"

\* One uplink message taken by the handler, which is free.
Take(type) ==
  /\ handler = Free1 /\ uplinkMsgs # <<>> /\ Head(uplinkMsgs).type = type
  /\ uplinkMsgs' = Tail(uplinkMsgs)

\* DELETE of a context at the SMF: carried out, or failed and logged only.
DeleteSMContext(ref) ==
  \/ smContexts' = smContexts \ {ref} /\ UNCHANGED failedDeletes
  \/ /\ "failure" \in SessEvents /\ ref \in smContexts
     /\ failedDeletes' = failedDeletes \cup {ref} /\ UNCHANGED smContexts

(***************************************************************************)
(* Establishment.  A session that the map still holds is deleted at the    *)
(* SMF and taken out first; then the SMF creates a context, the map takes  *)
(* it and the gNB is asked for resources, with the Accept inside.          *)
(***************************************************************************)
handleEstablishment ==
  /\ Take("establish")
  /\ LET p == Head(uplinkMsgs).psi IN
     handler' = IF p \in Established THEN Op("displace", p, PDUSessions[p])
                ELSE Op("create", p, NoRef)
  /\ UNCHANGED <<smfVars, networkRelease, reach, device, history, PDUSessions, deletions,
                 downlinkMsgs, moves>>

\* Mutant: a retransmitted request keeps the context it displaces alive at the SMF.
displacesLocally ==
  /\ handler.op = "displace"
  /\ PDUSessions' = [PDUSessions EXCEPT ![handler.psi] = NoRef]
  /\ repeated' = repeated \cup {handler.psi}
  /\ handler' = Op("create", handler.psi, NoRef)
  /\ UNCHANGED <<smfVars, networkRelease, reach, device, air, deletions, moves, released,
                 carried, sweptSessions>>

displaceExisting ==
  /\ handler.op = "displace"
  /\ DeleteSMContext(handler.ref)
  /\ PDUSessions' = [PDUSessions EXCEPT ![handler.psi] = NoRef]
  /\ repeated' = repeated \cup {handler.psi}
  /\ handler' = Op("create", handler.psi, NoRef)
  /\ UNCHANGED <<networkRelease, reach, device, air, deletions, moves, refs, released, carried,
                 sweptSessions>>

CallSMF ==
  /\ handler.op = "create" /\ refs < MaxRef
  /\ refs' = refs + 1
  /\ smContexts' = smContexts \cup {refs + 1}
  /\ PDUSessions' = [PDUSessions EXCEPT ![handler.psi] = refs + 1]
  /\ SendPDUSession([type |-> "accept", psi |-> handler.psi])
  /\ handler' = Free1
  /\ UNCHANGED <<networkRelease, reach, device, history, deletions, uplinkMsgs, moves,
                 failedDeletes>>

\* The slice is not allowed (payload returned with cause #90), or the SMF refuses
\* (logged, the device is told nothing).
rejectULNASTransport ==
  /\ handler.op = "create" /\ ("refuse" \in SessEvents \/ refs = MaxRef)
  /\ SendPDUSession([type |-> "reject", psi |-> handler.psi]) \/ UNCHANGED downlinkMsgs
  /\ handler' = Free1
  /\ UNCHANGED <<smfVars, networkRelease, reach, device, history, PDUSessions, deletions,
                 uplinkMsgs, moves>>

(***************************************************************************)
(* Release asked by the device: the DELETE runs detached, the command goes *)
(* out and the session leaves the map.                                     *)
(***************************************************************************)
handlePDUSessionRelease ==
  /\ Take("release")
  /\ LET p == Head(uplinkMsgs).psi IN
     \/ /\ p \in Established
        /\ deletions' = deletions \cup {PDUSessions[p]}
        /\ SendPDUSession([type |-> "command", psi |-> p])
        /\ PDUSessions' = IF Sendable THEN [PDUSessions EXCEPT ![p] = NoRef] ELSE PDUSessions
     \/ p \notin Established /\ UNCHANGED <<deletions, downlinkMsgs, PDUSessions>>
  /\ UNCHANGED <<smfVars, networkRelease, reach, device, history, handler, moves>>

DetachedDelete(ref) ==
  /\ ref \in deletions
  /\ deletions' = deletions \ {ref}
  /\ DeleteSMContext(ref)
  /\ UNCHANGED <<networkRelease, reach, device, air, history, PDUSessions, handler, moves, refs>>

(***************************************************************************)
(* Release started by the network.  The command is sent first, the pending *)
(* entry and its T3592 guard are stored after it; the device's Complete,   *)
(* the guard or a Service Request finishes it.                             *)
(***************************************************************************)
InitiateNetworkPDUSessionRelease(p) ==
  /\ "network" \in SessEvents /\ moves < MaxMoves
  /\ p \in Established /\ Sendable
  /\ moves' = moves + 1
  /\ SendPDUSession([type |-> "command", psi |-> p])
  /\ commanded' = commanded \cup {<<p, PDUSessions[p]>>}
  /\ UNCHANGED <<smfVars, reach, device, history, PDUSessions, deletions, pendingRelease,
                 guards, completing, handler, uplinkMsgs>>

StorePending(c) ==
  /\ c \in commanded
  /\ commanded' = commanded \ {c}
  /\ pendingRelease' = [pendingRelease EXCEPT ![c[1]] = c[2]]
  /\ guards' = [guards EXCEPT ![c[1]] = @ + 1]
  /\ UNCHANGED <<smfVars, reach, device, air, history, PDUSessions, deletions, completing,
                 handler, moves>>

\* LoadAndDelete, then the guard stops: the start of completeNetworkPDUSessionRelease.
LoadAndDelete(p) ==
  /\ pendingRelease' = [pendingRelease EXCEPT ![p] = NoRef]
  /\ guards' = [guards EXCEPT ![p] = IF pendingRelease[p] # NoRef /\ @ > 0 THEN @ - 1 ELSE @]

\* The end of it: whatever session the map holds under the identity goes.
DropSession(p, ref) ==
  /\ PDUSessions' = [PDUSessions EXCEPT ![p] = NoRef]
  /\ sweptSessions' = IF PDUSessions[p] \notin {NoRef, ref} THEN sweptSessions \cup {PDUSessions[p]} ELSE sweptSessions

completeFromDevice ==
  /\ Take("complete")
  /\ LET p == Head(uplinkMsgs).psi IN
     /\ LoadAndDelete(p)
     /\ handler' = IF pendingRelease[p] # NoRef THEN Op("complete", p, pendingRelease[p]) ELSE Free1
  /\ UNCHANGED <<smfVars, reach, device, history, PDUSessions, deletions, commanded,
                 completing, downlinkMsgs, moves>>

completeInHandler ==
  /\ handler.op = "complete"
  /\ DeleteSMContext(handler.ref) /\ DropSession(handler.psi, handler.ref)
  /\ handler' = Free1
  /\ UNCHANGED <<networkRelease, reach, device, air, deletions, moves, refs, released,
                 repeated, carried>>

GuardExpires(p) ==
  /\ guards[p] > 0
  /\ guards' = [guards EXCEPT ![p] = @ - 1]
  /\ pendingRelease' = [pendingRelease EXCEPT ![p] = NoRef]
  /\ completing' = IF pendingRelease[p] # NoRef THEN completing \cup {<<p, pendingRelease[p]>>} ELSE completing
  /\ UNCHANGED <<smfVars, reach, device, air, history, PDUSessions, deletions, commanded,
                 handler, moves>>

completeNetworkPDUSessionRelease(c) ==
  /\ c \in completing
  /\ completing' = completing \ {c}
  /\ DeleteSMContext(c[2]) /\ DropSession(c[1], c[2])
  /\ UNCHANGED <<reach, device, air, deletions, pendingRelease, guards, commanded, handler,
                 moves, refs, released, repeated, carried>>

(***************************************************************************)
(* Service Request.  Sessions the device reports inactive are released:    *)
(* those with a network release pending are completed by a goroutine, the  *)
(* others leave the map at once.  The sessions the device flagged and the  *)
(* paged ones are then activated at the SMF, unless released, and the      *)
(* Service Accept tells the device which sessions the AMF still has.       *)
(***************************************************************************)
\* The device may leave the status out (PduIds stands for that): nothing is released then.
Inactive(status) == {p \in Established : p \notin status}
ToComplete(status) == {p \in Inactive(status) : pendingRelease[p] # NoRef}

releaseInactivePDUSessions(status) ==
  LET gone == Inactive(status)  later == ToComplete(status) IN
  /\ released' = gone
  /\ PDUSessions' = [p \in PduIds |-> IF p \in gone \ later THEN NoRef ELSE PDUSessions[p]]
  /\ deletions' = deletions \cup {PDUSessions[p] : p \in gone \ later}
  /\ completing' = completing \cup {<<p, pendingRelease[p]>> : p \in later}
  /\ pendingRelease' = [p \in PduIds |-> IF p \in later THEN NoRef ELSE pendingRelease[p]]
  /\ guards' = [p \in PduIds |-> IF p \in later THEN guards[p] - 1 ELSE guards[p]]

\* Flagged by the device or paged, known with a context, and not just released.
ActivationTargets(wanted, gone) == {p \in wanted : p \in Established /\ p \notin gone}
handleServiceRequest ==
  /\ Take("service")
  /\ LET m == Head(uplinkMsgs) IN
     /\ releaseInactivePDUSessions(m.status)
     /\ handler' = [Free1 EXCEPT !.op = "activate", !.told = m.told,
                      !.aim = ActivationTargets(m.flagged \cup pagedSet, Inactive(m.status))]
  /\ pagedSet' = {}
  /\ UNCHANGED <<smfVars, device, commanded, cmState, paging, downlinkMsgs, moves, repeated,
                 carried, sweptSessions>>

\* No release of the network is under way.
NoRelease == commanded = {} /\ completing = {} /\ \A p \in PduIds : pendingRelease[p] = NoRef

\* The Accept lists the sessions the AMF has exactly when the request listed the device's.
buildServiceAccept ==
  [type |-> "serviceAccept", told |-> handler.told /\ NoRelease,
   status |-> IF handler.told THEN Established \ released ELSE PduIds]

\* ActivateSMContext succeeds for the sessions of `up`; the Accept and the ICS Request follow.
activatePDUSessions(up) ==
  /\ handler.op = "activate" /\ up \subseteq handler.aim
  /\ \A p \in up : PDUSessions[p] \in smContexts
  /\ "failure" \in SessEvents \/ up = {p \in handler.aim : PDUSessions[p] \in smContexts}
  /\ carried' = up
  /\ cmState' = "connected" /\ pagedSet' = {}
  /\ downlinkMsgs' = <<buildServiceAccept>>
  /\ handler' = Free1
  /\ UNCHANGED <<smfVars, networkRelease, device, repeated, PDUSessions, deletions, paging,
                 uplinkMsgs, moves, released, sweptSessions>>

(***************************************************************************)
(* The gNB: it may fail to set up the resources of a session, which takes  *)
(* the session out of the map; the radio connection may be released.       *)
(***************************************************************************)
handlePDUSessionResourceSetupResponse ==
  /\ "radio" \in SessEvents
  /\ handler = Free1 /\ downlinkMsgs # <<>> /\ Head(downlinkMsgs).type = "accept"
  /\ LET p == Head(downlinkMsgs).psi IN
     /\ deletions' = IF p \in Established THEN deletions \cup {PDUSessions[p]} ELSE deletions
     /\ PDUSessions' = [PDUSessions EXCEPT ![p] = NoRef]
  /\ downlinkMsgs' = Tail(downlinkMsgs)
  /\ UNCHANGED <<smfVars, networkRelease, reach, device, history, handler, uplinkMsgs, moves>>

ANRelease ==
  /\ "radio" \in SessEvents /\ cmState = "connected" /\ handler = Free1
  /\ cmState' = "idle" /\ downlinkMsgs' = <<>> /\ uplinkMsgs' = <<>> /\ synced' = FALSE
  /\ UNCHANGED <<smfVars, networkRelease, history, PDUSessions, deletions, handler, pagedSet,
                 paging, devSessions, moves>>

(***************************************************************************)
(* N1N2 transfer for an idle device: the page goes out, and the session it *)
(* is for is recorded afterwards.                                          *)
(***************************************************************************)
handleN1N2MessageTransfer(p) ==
  /\ "page" \in SessEvents /\ moves < MaxMoves /\ cmState = "idle"
  /\ moves' = moves + 1
  /\ paging' = paging \cup {p}
  /\ UNCHANGED <<smfVars, networkRelease, device, air, history, PDUSessions, deletions,
                 handler, cmState, pagedSet>>

AddPagedPDUSession(p) ==
  /\ p \in paging
  /\ paging' = paging \ {p} /\ pagedSet' = pagedSet \cup {p}
  /\ UNCHANGED <<smfVars, networkRelease, device, air, history, PDUSessions, deletions,
                 handler, cmState, moves>>

(***************************************************************************)
(* The device (outside src/): it asks for sessions and their release,      *)
(* obeys commands and accepts, and may report its sessions when it returns *)
(* from idle.  It repeats a request only once the AMF is done with it and  *)
(* no answer is on its way (T3580 is far longer than that).                *)
(***************************************************************************)
deviceUnchanged == <<PDUSessions, smContexts, deletions, pendingRelease, guards, commanded, completing,
                     handler, cmState, pagedSet, paging, refs, released, repeated, carried, sweptSessions, failedDeletes>>

DeviceAsks ==
  /\ moves < MaxMoves /\ cmState = "connected" /\ uplinkMsgs = <<>>
  /\ \E p \in PduIds :
       /\ handler.psi # p
       /\ \A i \in DOMAIN downlinkMsgs : downlinkMsgs[i].type # "serviceAccept" => downlinkMsgs[i].psi # p
       /\ uplinkMsgs' = <<[type |-> IF p \in devSessions THEN "release" ELSE "establish", psi |-> p]>>
  /\ moves' = moves + 1
  /\ UNCHANGED <<device, deviceUnchanged, downlinkMsgs>>

DeviceReturns ==
  /\ moves < MaxMoves /\ cmState = "idle" /\ uplinkMsgs = <<>> /\ handler = Free1
  /\ \E f \in SUBSET devSessions, told \in BOOLEAN :
       uplinkMsgs' = <<[type |-> "service", told |-> told, flagged |-> f,
                        status |-> IF told THEN devSessions ELSE PduIds]>>
  /\ moves' = moves + 1
  /\ UNCHANGED <<device, deviceUnchanged, downlinkMsgs>>

DeviceTakes ==
  /\ downlinkMsgs # <<>>
  /\ downlinkMsgs' = Tail(downlinkMsgs)
  /\ LET m == Head(downlinkMsgs) IN
     \/ m.type = "accept" /\ devSessions' = devSessions \cup {m.psi} /\ UNCHANGED uplinkMsgs
     \/ m.type = "reject" /\ devSessions' = devSessions \ {m.psi} /\ UNCHANGED uplinkMsgs
     \/ /\ m.type = "command"
        /\ devSessions' = devSessions \ {m.psi}
        /\ uplinkMsgs' = Append(uplinkMsgs, [type |-> "complete", psi |-> m.psi])
     \/ m.type = "serviceAccept" /\ devSessions' = devSessions \cap m.status /\ UNCHANGED uplinkMsgs
  /\ synced' = (synced \/ (Head(downlinkMsgs).type = "serviceAccept" /\ Head(downlinkMsgs).told))
  /\ UNCHANGED <<deviceUnchanged, moves>>

SessNext ==
  \/ handleEstablishment \/ displaceExisting \/ CallSMF \/ rejectULNASTransport
  \/ handlePDUSessionRelease \/ completeFromDevice \/ completeInHandler
  \/ handleServiceRequest \/ handlePDUSessionResourceSetupResponse \/ ANRelease
  \/ DeviceAsks \/ DeviceReturns \/ DeviceTakes
  \/ \E ref \in deletions : DetachedDelete(ref)
  \/ \E p \in PduIds : \/ InitiateNetworkPDUSessionRelease(p) \/ GuardExpires(p)
                       \/ handleN1N2MessageTransfer(p) \/ AddPagedPDUSession(p)
  \/ \E c \in commanded : StorePending(c)
  \/ \E c \in completing : completeNetworkPDUSessionRelease(c)
  \/ \E up \in SUBSET handler.aim : activatePDUSessions(up)

SessSpec == SessInit /\ [][SessNext]_sessVars

-----------------------------------------------------------------------------
\* Contexts somebody at the AMF still answers for.
Owned ==
  {PDUSessions[p] : p \in PduIds} \cup {pendingRelease[p] : p \in PduIds} \cup deletions
    \cup {c[2] : c \in commanded \cup completing} \cup {handler.ref}

(***************************************************************************)
(* No SM context outlives the AMF's knowledge of it: whatever order the    *)
(* requests of the device, the operator, the timers and the goroutines     *)
(* take, a context that lives at the SMF (with its address and its N4      *)
(* session) is in the map or its deletion is under way.  Left out are only *)
(* the contexts whose DELETE failed, which nobody repeats, and those swept *)
(* from the map by the completion of an older release.                     *)
(***************************************************************************)
ContextsOwned == smContexts \subseteq Owned \cup sweptSessions \cup failedDeletes

(***************************************************************************)
(* A Service Request never sets up a session it has just released on the   *)
(* device's word, even when the session is still in the map because its    *)
(* network release is completed by a goroutine (nas.go:1400-1405).         *)
(***************************************************************************)
ReleasedNotCarried == handler = Free1 => carried \cap released = {}

\* Nothing is on its way and nobody is at work.
SessQuiet ==
  /\ handler = Free1 /\ uplinkMsgs = <<>> /\ downlinkMsgs = <<>> /\ cmState = "connected"
  /\ NoRelease

(***************************************************************************)
(* A Service Request that reports the device's sessions brings the two     *)
(* sides together (unless a network release was under way, whose command   *)
(* may be lost), and they stay together until the radio is lost again:     *)
(* once everything has settled the device and the AMF have the same        *)
(* sessions.  Left out are a session swept by the completion of an older   *)
(* release, and an establishment repeated over a session the AMF still had *)
(* (the gNB's answers name the identity only, a failure of one hits both). *)
(***************************************************************************)
ReportRestoresAgreement ==
  SessQuiet /\ synced /\ sweptSessions = {} /\ repeated = {} => devSessions = Established

(***************************************************************************)
(* What the comment of completeNetworkPDUSessionRelease says, nas.go:2540: *)
(* it is a no-op for sessions that were never network-released.            *)
(***************************************************************************)
CompletesOnlyItsOwn == sweptSessions = {}
=============================================================================
