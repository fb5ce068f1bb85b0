----------------------------- MODULE SmfSession -----------------------------
(***************************************************************************)
(* The SMF's PDU session table: the SM context handlers of                 *)
(* Nsmf_PDUSession, the goroutines they start towards the UPF, the release *)
(* of sessions after a UPF failure, and the SMF's restart.                 *)
(*                                                                         *)
(* Handlers and goroutines run concurrently; each holds sessionMu only for *)
(* a few assignments.  A handler is therefore split where it unlocks.  What*)
(* is still running is the set ops; an operation keeps the session pointer *)
(* it read (ref: the object sess[ref] outlives its removal from table).    *)
(*                                                                         *)
(* The rows of smf_sessions are left out: they are written, deleted and,   *)
(* on start, purged, but never read into a session.                        *)
(***************************************************************************)
EXTENDS N4, FiniteSetsExt

CONSTANTS
    Legs,       \* the UpdateSMContext requests the AMF sends in an instance
    MaxReqs,    \* bound on UpdateSMContext requests and recovery events
    MaxRestarts \* bound on SMF restarts

\* The kinds of UpdateSMContext request that reach a session.
UpdateLegs == {"n2", "deact", "actv", "prep", "ack", "rafail", "comp", "psreq", "psfail"}

ASSUME SmfAssumption ==
    Legs \subseteq UpdateLegs /\ MaxReqs \in Nat /\ MaxRestarts \in Nat

VARIABLES
    sess,       \* the Session objects
    table,      \* s.sessions: the references it maps
    pc,         \* progress of the CreateSMContext handler of each reference
    pool,       \* allocated IPv4 host offsets
    v6pool,     \* allocated /64 indexes
    nextSEID,   \* nextSEID and nextTEID
    ops,        \* running handlers and goroutines
    stopping,   \* references cleanupAllSessions still has to visit; None before
    reqs, restarts    \* counters of the bounds

smfVars == <<sess, table, pc, pool, v6pool, nextSEID, ops, stopping,
             reqs, restarts>>

PDUTypes == {"v4", "v6", "v4v6"}
States == {"ACTIVE", "IDLE", "RELEASING"}
HOStates == {"NONE", "PREPARING", "PREPARED", "COMPLETED"}
\* HOTargetFailed and HOReleaseOnDeactivate together.
Decisions == {"no", "deactivate", "release"}
Session == [seid : SEIDs \cup {None}, ip : Hosts \cup {None},
            pfx : Prefixes \cup {None}, state : States, stale : BOOLEAN,
            ho : HOStates, tgt : Tunnels \cup {None},
            failed : Decisions]
NoSession == [seid |-> None, ip |-> None, pfx |-> None, state |-> "ACTIVE",
              stale |-> FALSE, ho |-> "NONE", tgt |-> None,
              failed |-> "no"]

\* A handler or goroutine: what it does, for which session, where it stands, and
\* the tunnel, the former state and the decision it holds in local variables.
Op == [leg : UpdateLegs \cup {"tfail", "est", "mod", "drop", "del", "rel", "guard", "fin"},
       ref : Refs,
       at : {"start", "mark", "check", "send", "wait"},
       tun : Tunnels \cup {None},
       prev : {"ACTIVE", "IDLE"},
       does : Decisions]

SmfTypeOK ==
    /\ sess \in [Refs -> Session]
    /\ table \subseteq Refs
    /\ pc \in [Refs -> {"unused", "allocated", "inserted", "done", "refused",
                        "encodeFailed", "lost"}]
    /\ pool \subseteq Hosts
    /\ v6pool \subseteq Prefixes
    /\ nextSEID \in 0..MaxSEID
    /\ ops \subseteq Op
    /\ stopping \in (SUBSET Refs) \cup {None}
    /\ reqs \in 0..MaxReqs
    /\ restarts \in 0..MaxRestarts

SmfInit ==
    /\ sess = [r \in Refs |-> NoSession]
    /\ table = {}
    /\ pc = [r \in Refs |-> "unused"]
    /\ pool = {}
    /\ v6pool = {}
    /\ nextSEID = 0
    /\ ops = {}
    /\ stopping = None
    /\ reqs = 0
    /\ restarts = 0

\* A goroutine started for the session of r.
Go(leg, r, at) == [leg |-> leg, ref |-> r, at |-> at, tun |-> None,
                   prev |-> "ACTIVE", does |-> "no"]

-----------------------------------------------------------------------------
(* CreateSMContext *)

selectPDUSessionType(requested) == IF PrefixMax > 0 THEN requested ELSE "v4"
pduTypeNeedsIPv4(t) == t \in {"v4", "v4v6"}
pduTypeNeedsIPv6(t) == t \in {"v6", "v4v6"}

\* IPPool.Allocate and IPv6Pool.Allocate: the lowest free entry.
AllocateIPv4 == Min(Hosts \ pool)
AllocateIPv6 == Min(Prefixes \ v6pool)

IPv4Exhausted(t) == pduTypeNeedsIPv4(t) /\ Hosts \ pool = {}
IPv6Exhausted(t) == pduTypeNeedsIPv6(t) /\ Prefixes \ v6pool = {}

\* The handler's first part: the addresses and the identifiers are reserved.  An
\* IPv4 address taken before the /64 pool turns out empty goes back at once.
createReserve(r, requested) ==
    LET t == selectPDUSessionType(requested) IN
    /\ pc[r] = "unused" /\ nextSEID < MaxSEID
    /\ \/ /\ IPv4Exhausted(t) \/ IPv6Exhausted(t)
          /\ pc' = [pc EXCEPT ![r] = "refused"]
          /\ UNCHANGED <<sess, pool, v6pool, nextSEID>>
       \/ /\ ~IPv4Exhausted(t) /\ ~IPv6Exhausted(t)
          /\ nextSEID' = nextSEID + 1
          /\ sess' = [sess EXCEPT ![r].seid = nextSEID + 1,
                        ![r].ip = IF pduTypeNeedsIPv4(t) THEN AllocateIPv4 ELSE None,
                        ![r].pfx = IF pduTypeNeedsIPv6(t) THEN AllocateIPv6 ELSE None]
          /\ pool' = pool \cup ({sess'[r].ip} \ {None})
          /\ v6pool' = v6pool \cup ({sess'[r].pfx} \ {None})
          /\ pc' = [pc EXCEPT ![r] = "allocated"]
    /\ UNCHANGED <<table, ops, stopping, reqs, restarts, net>>

\* The N2 SM transfer does not encode: 500, and the addresses stay reserved.
createEncodeFailure(r) ==
    /\ pc[r] = "allocated"
    /\ pc' = [pc EXCEPT ![r] = "encodeFailed"]
    /\ UNCHANGED <<sess, table, pool, v6pool, nextSEID, ops, stopping, reqs,
                   restarts, net>>

createInsert(r) ==
    /\ pc[r] = "allocated"
    /\ table' = table \cup {r}
    /\ pc' = [pc EXCEPT ![r] = "inserted"]
    /\ UNCHANGED <<sess, pool, v6pool, nextSEID, ops, stopping, reqs,
                   restarts, net>>

\* persistSession, then the PFCP establishment starts and the AMF gets its 201.
createFinish(r) ==
    /\ pc[r] = "inserted"
    /\ ops' = ops \cup {Go("est", r, "send")}
    /\ pc' = [pc EXCEPT ![r] = "done"]
    /\ UNCHANGED <<sess, table, pool, v6pool, nextSEID, stopping, reqs, restarts,
                   net>>
-----------------------------------------------------------------------------
(* UpdateSMContext: a request finds its session, unlocks, and goes on with the
   pointer.  An unknown reference is answered 404 and changes nothing.       *)

RELEASING(r) == sess[r].state = "RELEASING"

handleUpdateSMContext(r, leg, tun, decision) ==
    /\ pc[r] = "done" /\ r \in table
    /\ reqs < MaxReqs
    /\ reqs' = reqs + 1
    /\ ops' = ops \cup {[Go(leg, r, "start") EXCEPT !.tun = tun, !.does = decision]}
    /\ UNCHANGED <<sess, table, pc, pool, v6pool, nextSEID, stopping, restarts,
                   net>>

\* o ends and the operations in new take over.
Then(o, new) == ops' = (ops \ {o}) \cup new

OnlySessAndOps == UNCHANGED <<table, pc, pool, v6pool, nextSEID, stopping, reqs,
                              restarts, net>>

\* The gNB's tunnel of a resource setup: markSessionActive, then the DL switch is
\* sent by a goroutine of its own.
updateN2SmInfo(o) ==
    LET r == o.ref IN
    /\ o.leg = "n2"
    /\ \/ RELEASING(r) /\ sess' = sess /\ Then(o, {})
       \/ /\ ~RELEASING(r)
          /\ sess' = [sess EXCEPT ![r].state = "ACTIVE"]
          /\ Then(o, {[Go("mod", r, "check") EXCEPT !.tun = o.tun]})
    /\ OnlySessAndOps

\* upCnxState ACTIVATING: the N2 transfer is rebuilt, the handover flags are cleared.
updateActivating(o) ==
    LET r == o.ref IN
    /\ o.leg = "actv"
    /\ sess' = IF RELEASING(r) THEN sess
               ELSE [sess EXCEPT ![r].failed = "no"]
    /\ Then(o, {})
    /\ OnlySessAndOps

\* upCnxState DEACTIVATED: a target-failed session follows the stored decision; any
\* other becomes IDLE and its DL path is dropped.
updateDeactivated(o) ==
    LET r == o.ref
        s == [sess EXCEPT ![r].failed = "no"] IN
    /\ o.leg = "deact"
    /\ \/ /\ sess[r].failed # "no" /\ ~RELEASING(r)
          /\ sess' = s
          /\ Then(o, {[Go("tfail", r, "start") EXCEPT !.does = sess[r].failed]})
       \/ /\ sess[r].failed = "no" \/ RELEASING(r)
          /\ sess' = IF RELEASING(r) THEN s ELSE [s EXCEPT ![r].state = "IDLE"]
          /\ Then(o, {Go("drop", r, "check")})
    /\ OnlySessAndOps

\* hoState PREPARING: the setup transfer for the target is built, and a newer handover
\* supersedes the outcome of an older one.  The older target tunnel stays stored.
handleHandoverPreparing(o) ==
    /\ o.leg = "prep"
    /\ sess' = [sess EXCEPT ![o.ref].ho = "PREPARING", ![o.ref].failed = "no"]
    /\ Then(o, {})
    /\ OnlySessAndOps

\* HANDOVER_REQ_ACK: the target's tunnel is stored until the handover completes.
handleHandoverReqAck(o) ==
    /\ o.leg = "ack"
    /\ sess' = [sess EXCEPT ![o.ref].tgt = o.tun, ![o.ref].ho = "PREPARED"]
    /\ Then(o, {})
    /\ OnlySessAndOps

\* HANDOVER_RES_ALLOC_FAIL: no target tunnel; rule R1's decision waits for the AMF.
handleHandoverResAllocFail(o) ==
    LET s == [sess EXCEPT ![o.ref].tgt = None, ![o.ref].ho = "NONE"] IN
    /\ o.leg = "rafail"
    /\ sess' = IF RELEASING(o.ref) THEN s
               ELSE [s EXCEPT ![o.ref].failed = o.does]
    /\ Then(o, {})
    /\ OnlySessAndOps

\* PATH_SWITCH_SETUP_FAIL: answered at once, the action runs detached.
handlePathSwitchSetupFail(o) ==
    /\ o.leg = "psfail"
    /\ sess' = sess
    /\ Then(o, IF RELEASING(o.ref) THEN {}
               ELSE {[Go("tfail", o.ref, "start") EXCEPT !.does = o.does]})
    /\ OnlySessAndOps

\* hoState COMPLETED: refused while RELEASING or without a target, idempotent once
\* COMPLETED; else the state to restore on a failure is remembered.
handleHandoverComplete(o) ==
    LET s == sess[o.ref] IN
    /\ o.leg = "comp" /\ o.at = "start"
    /\ sess' = sess
    /\ Then(o, IF RELEASING(o.ref) \/ s.ho = "COMPLETED" \/ s.tgt = None THEN {}
               ELSE {[o EXCEPT !.at = "mark", !.tun = s.tgt, !.prev = s.state]})
    /\ OnlySessAndOps

handlePathSwitchReq(o) ==
    /\ o.leg = "psreq" /\ o.at = "start"
    /\ sess' = sess
    /\ Then(o, IF RELEASING(o.ref) THEN {}
               ELSE {[o EXCEPT !.at = "mark", !.prev = sess[o.ref].state]})
    /\ OnlySessAndOps

\* runTargetFailedAction: the AMF accepts to release the session, or its DL path is
\* dropped.
runTargetFailedAction(o) ==
    /\ o.leg = "tfail" /\ o.at = "start"
    /\ sess' = sess
    /\ \/ o.does = "release" /\ Then(o, {})
       \/ Then(o, {[o EXCEPT !.at = "check"]})
    /\ OnlySessAndOps

\* markSessionActive of the two synchronous switches.
markSessionActive(o) ==
    /\ o.at = "mark"
    /\ sess' = IF RELEASING(o.ref) THEN sess ELSE [sess EXCEPT ![o.ref].state = "ACTIVE"]
    /\ Then(o, IF RELEASING(o.ref) THEN {} ELSE {[o EXCEPT !.at = "check"]})
    /\ OnlySessAndOps

-----------------------------------------------------------------------------
(* N4 exchanges *)

\* Mutant: the former state is restored over RELEASING.
restoreAlways(o) ==
    sess' = IF o.leg \in {"comp", "psreq"}
            THEN [sess EXCEPT ![o.ref].state = o.prev] ELSE sess

\* What a failed exchange does: the two switches restore the state they found.
N4Failure(o) ==
    sess' = IF o.leg \in {"comp", "psreq"} /\ ~RELEASING(o.ref)
            THEN [sess EXCEPT ![o.ref].state = o.prev] ELSE sess

\* What an accepted exchange does.
N4Success(o) ==
    LET r == o.ref IN
    sess' = CASE o.leg = "comp" -> [sess EXCEPT ![r].ho = "COMPLETED", ![r].tgt = None,
                                        ![r].failed = "no"]
              [] o.leg = "tfail" /\ ~RELEASING(r) -> [sess EXCEPT ![r].state = "IDLE"]
              [] OTHER -> sess

\* The session is looked at once more, and the lock is left before the request is sent.
skipN4ForReleasing(o) ==
    /\ o.at = "check"
    /\ \/ RELEASING(o.ref) /\ N4Failure(o) /\ Then(o, {})
       \/ ~RELEASING(o.ref) /\ sess' = sess /\ Then(o, {[o EXCEPT !.at = "send"]})
    /\ OnlySessAndOps

PFCPRequest(o) ==
    LET s == sess[o.ref] IN
    CASE o.leg = "est" -> [type |-> "est", ref |-> o.ref, seid |-> s.seid,
                           ip |-> s.ip, pfx |-> s.pfx]
      [] o.leg = "del" -> [type |-> "del", ref |-> o.ref, seid |-> s.seid]
      [] OTHER -> [type |-> "mod", ref |-> o.ref, seid |-> s.seid, far |-> o.tun,
                   leg |-> o.leg]

\* Only the answers that change the session are waited for in the model.
sendPFCP(o) ==
    /\ o.at = "send"
    /\ net' = net \cup {PFCPRequest(o)}
    /\ Then(o, IF Awaited(PFCPRequest(o)) THEN {[o EXCEPT !.at = "wait"]} ELSE {})
    /\ UNCHANGED <<sess, table, pc, pool, v6pool, nextSEID, stopping, reqs, restarts>>

\* pfcpTransact sends the switch again after T1.
retransmit(o) ==
    /\ o.at = "wait"
    /\ net' = net \cup {PFCPRequest(o)}
    /\ UNCHANGED smfVars

receivePFCP(o, m) ==
    /\ o.at = "wait" /\ m \in net /\ m.type = "rsp" /\ m.req = PFCPRequest(o)
    /\ net' = net \ {m}
    /\ IF m.cause = "accepted" THEN N4Success(o) ELSE N4Failure(o)
    /\ Then(o, {})
    /\ UNCHANGED <<table, pc, pool, v6pool, nextSEID, stopping, reqs, restarts>>

\* Mutant: a missing answer is taken for an accepted one.
timeoutIsSuccess(o) ==
    /\ o.at = "wait"
    /\ N4Success(o)
    /\ Then(o, {})
    /\ OnlySessAndOps

timeoutPFCP(o) ==
    /\ o.at = "wait"
    /\ N4Failure(o)
    /\ Then(o, {})
    /\ OnlySessAndOps

-----------------------------------------------------------------------------
(* Release *)

\* Mutants: an object released twice frees its address twice; the entry is forgotten.
releaseWithoutPointerCheck(r) ==
    /\ table' = table \ {r}
    /\ pool' = pool \ {sess[r].ip}
    /\ v6pool' = v6pool \ {sess[r].pfx}
releaseKeepsEntry(r) ==
    /\ table' = table
    /\ pool' = pool \ {sess[r].ip}
    /\ v6pool' = v6pool \ {sess[r].pfx}

\* The locked part of releaseSessionLocal: only the first release of the object acts.
releaseSessionLocal(r) ==
    /\ table' = table \ {r}
    /\ pool' = IF r \in table THEN pool \ {sess[r].ip} ELSE pool
    /\ v6pool' = IF r \in table THEN v6pool \ {sess[r].pfx} ELSE v6pool

\* Its rest, after the lock: the UPF is told unless it lost the session itself.
releaseFinish(o) ==
    /\ o.leg = "fin"
    /\ Then(o, IF sess[o.ref].stale THEN {} ELSE {Go("del", o.ref, "send")})
    /\ UNCHANGED <<sess, table, pc, pool, v6pool, nextSEID, stopping, reqs, restarts, net>>

\* DELETE of an SM context the AMF holds; one the SMF lost has nothing left to free.
handleDeleteSMContext(r) ==
    /\ pc[r] = "done" /\ r \in table
    /\ releaseSessionLocal(r)
    /\ ops' = ops \cup {Go("fin", r, "start")}
    /\ UNCHANGED <<sess, pc, nextSEID, stopping, reqs, restarts, net>>

\* The UPF failed or restarted: the sessions in hit become RELEASING, stale when the
\* UPF lost them, and a worker takes each of them.
markSessionsReleasing(hit, restarted) ==
    LET marked == {r \in hit : ~RELEASING(r)} IN
    /\ reqs < MaxReqs /\ marked # {}
    /\ reqs' = reqs + 1
    /\ sess' = [r \in Refs |-> IF r \in marked
                    THEN [sess[r] EXCEPT !.state = "RELEASING",
                                         !.stale = IF restarted THEN TRUE ELSE @]
                    ELSE sess[r]]
    /\ ops' = ops \cup {Go("rel", r, "start") : r \in marked}
    /\ UNCHANGED <<table, pc, pool, v6pool, nextSEID, stopping, restarts, net>>

\* The worker asks the AMF; an AMF that refuses leaves it to the SMF, one that accepts
\* is given the guard time.
releaseOne(o) ==
    /\ o.leg = "rel"
    /\ \/ /\ Then(o, {Go("guard", o.ref, "start")})
          /\ UNCHANGED <<table, pool, v6pool>>
       \/ /\ releaseSessionLocal(o.ref)
          /\ Then(o, IF o.ref \in table THEN {Go("fin", o.ref, "start")} ELSE {})
    /\ UNCHANGED <<sess, pc, nextSEID, stopping, reqs, restarts, net>>

\* Mutant: the guard timer fires and nothing happens.
guardWithoutRelease(o) ==
    /\ o.leg = "guard"
    /\ Then(o, {})
    /\ UNCHANGED <<sess, table, pc, pool, v6pool, nextSEID, stopping, reqs, restarts, net>>

\* The guard expires: what the AMF did not release by then is released here.  It ends
\* with the supervisor when the SMF stops.
startReleaseGuard(o) ==
    /\ o.leg = "guard"
    /\ \/ /\ RELEASING(o.ref)
          /\ releaseSessionLocal(o.ref)
          /\ Then(o, IF o.ref \in table THEN {Go("fin", o.ref, "start")} ELSE {})
       \/ /\ stopping # None \/ ~RELEASING(o.ref)
          /\ Then(o, {})
          /\ UNCHANGED <<table, pool, v6pool>>
    /\ UNCHANGED <<sess, pc, nextSEID, stopping, reqs, restarts, net>>

-----------------------------------------------------------------------------
(* Shutdown and restart *)

\* cleanupAllSessions takes its snapshot, then visits the sessions one by one.
cleanupAllSessions ==
    /\ stopping = None /\ restarts < MaxRestarts
    /\ stopping' = table
    /\ UNCHANGED <<sess, table, pc, pool, v6pool, nextSEID, ops, reqs, restarts, net>>

cleanupOne(r) ==
    /\ stopping # None /\ r \in stopping
    /\ stopping' = stopping \ {r}
    /\ ops' = IF sess[r].stale THEN ops ELSE ops \cup {Go("del", r, "send")}
    /\ UNCHANGED <<sess, table, pc, pool, v6pool, nextSEID, reqs, restarts, net>>

\* The process ends, after or without a cleanup, and starts again: nothing in memory
\* survives, the counters start over, and the supervisor sets the association up anew.
SmfRestart ==
    /\ restarts < MaxRestarts
    /\ restarts' = restarts + 1
    /\ sess' = [r \in Refs |-> NoSession]
    /\ pc' = [r \in Refs |-> IF pc[r] \in {"allocated", "inserted", "encodeFailed"}
                             THEN "lost" ELSE pc[r]]
    /\ table' = {} /\ pool' = {} /\ v6pool' = {} /\ nextSEID' = 0 /\ ops' = {}
    /\ stopping' = None
    /\ net' = net \cup {AssocMsg}
    /\ reqs' = reqs

-----------------------------------------------------------------------------
\* The tunnels and decisions an update request of each kind carries.
Inputs(leg) ==
    (IF leg \in {"n2", "ack", "psreq"} THEN Tunnels ELSE {None})
    \X (IF leg \in {"rafail", "psfail"} THEN Decisions \ {"no"} ELSE {"no"})

Create(r) ==
    \/ \E t \in PDUTypes : createReserve(r, t)
    \/ createEncodeFailure(r)
    \/ createInsert(r)
    \/ createFinish(r)

Step(o) ==
    \/ updateN2SmInfo(o) \/ updateActivating(o) \/ updateDeactivated(o)
    \/ handleHandoverPreparing(o) \/ handleHandoverReqAck(o)
    \/ handleHandoverResAllocFail(o) \/ handlePathSwitchSetupFail(o)
    \/ handleHandoverComplete(o) \/ handlePathSwitchReq(o)
    \/ runTargetFailedAction(o) \/ markSessionActive(o) \/ skipN4ForReleasing(o)
    \/ sendPFCP(o) \/ retransmit(o) \/ timeoutPFCP(o)
    \/ \E m \in net : receivePFCP(o, m)
    \/ releaseFinish(o) \/ releaseOne(o) \/ startReleaseGuard(o)

SmfNext ==
    \/ \E r \in Refs : Create(r) \/ handleDeleteSMContext(r) \/ cleanupOne(r)
    \/ \E r \in Refs, leg \in Legs : \E i \in Inputs(leg) :
            handleUpdateSMContext(r, leg, i[1], i[2])
    \/ \E o \in ops : Step(o)
    \/ markSessionsReleasing(table, FALSE)
    \/ \E hit \in SUBSET table : markSessionsReleasing(hit, TRUE)
    \/ cleanupAllSessions
    \/ SmfRestart
-----------------------------------------------------------------------------
\* Whatever still works on a session works on one whose identifiers are assigned, and
\* only what exchanges N4 messages goes beyond its first step.
N4Legs == {"est", "del", "mod", "drop", "comp", "psreq", "tfail"}
Assigned(r) == sess[r].seid # None
OnlyAssigned ==
    /\ \A r \in Refs : pc[r] \in {"allocated", "inserted"} => Assigned(r)
    /\ \A r \in table : Assigned(r) /\ pc[r] \in {"inserted", "done"}
    /\ \A o \in ops : Assigned(o.ref) /\ (o.at # "start" => o.leg \in N4Legs)
    /\ stopping # None => \A r \in stopping : Assigned(r)

\* The SM contexts that own addresses.  The encode-failure path of the create handler
\* never returns its addresses.
Held(r) == pc[r] \in {"allocated", "encodeFailed"} \/ r \in table

\* No two live SM contexts share an IPv4 address or an IPv6 /64, however creations,
\* deletions and recovery releases interleave (releaseSessionLocal: "never
\* double-frees an address").
AddressExclusive ==
    \A r, q \in Refs : Held(r) /\ Held(q) /\ r # q =>
        /\ sess[r].ip # None => sess[r].ip # sess[q].ip
        /\ sess[r].pfx # None => sess[r].pfx # sess[q].pfx

\* The pools hold exactly the addresses of the live SM contexts, and of creates whose N2 SM
\* transfer did not encode, which the code never returns: no release path
\* leaks one or frees it early.
PoolAccounted ==
    /\ pool = {sess[r].ip : r \in {q \in Refs : Held(q)}} \ {None}
    /\ v6pool = {sess[r].pfx : r \in {q \in Refs : Held(q)}} \ {None}

\* RELEASING is final: no concurrent activation, deactivation or failed switch that
\* restores an older state takes a session of the table out of it.
ReleasingIsFinal ==
    [][\A r \in Refs : r \in table /\ RELEASING(r) /\ r \in table' => RELEASING(r)']_smfVars

\* A session marked RELEASING leaves the table: by the AMF, by the fallback of the
\* worker, or by the guard timer.
ReleasingEnds == \A r \in Refs : (r \in table /\ RELEASING(r)) ~> (r \notin table)
=============================================================================
