------------------------------ MODULE N4Proof -------------------------------
(***************************************************************************)
(* Proofs about N4System, for every number of SM contexts, every pool size *)
(* and every bound.                                                        *)
(***************************************************************************)
EXTENDS N4System, FiniteSetTheorems, WellFoundedInduction, TLAPS

\* The allocators find an entry whenever one is free: every non-empty set of natural
\* numbers has a least element, because of two initial segments one contains the other
\* and finite sets cannot shrink for ever.
LEMMA LeastFree ==
    ASSUME NEW S \in SUBSET Nat, S # {}
    PROVE  Min(S) \in S
<1> DEFINE Below(x) == 0..(x - 1)
           T == {Below(x) : x \in S}
           F == FiniteSubsetsOf(Nat)
           R == StrictSubsetOrdering(Nat)
<1>1. T \subseteq F /\ T # {}
  <2>1. ASSUME NEW x \in S PROVE Below(x) \in F
    <3>1. IsFiniteSet(Below(x)) BY FS_Interval
    <3>2. Below(x) \subseteq Nat OBVIOUS
    <3> QED BY <3>1, <3>2 DEF FiniteSubsetsOf
  <2> QED BY ZenonT(60), <2>1
<1>2. PICK b \in T : \A c \in T : <<c, b>> \notin R
  BY ZenonT(60), <1>1, FS_StrictSubsetOrderingWellFounded, WFMin
<1>3. PICK x \in S : b = Below(x)
  OBVIOUS
<1>4. ASSUME NEW y \in S, y < x PROVE FALSE
  <2>1. Below(y) \subseteq Below(x) /\ Below(y) # Below(x)
    BY <1>4
  <2>2. <<Below(y), Below(x)>> \in R
    BY SMTT(60), <2>1 DEF StrictSubsetOrdering
  <2> QED BY ZenonT(60), <1>2, <1>3, <2>2
<1>5. \A y \in S : x <= y
  BY <1>4
<1> QED
  BY ZenonT(60), <1>5 DEF Min
-----------------------------------------------------------------------------
\* The inductive invariant of the types: a handler or goroutine that works on a session, and
\* a context in the table, has its SEID assigned.
IInv == N4TypeInv /\ OnlyAssigned

\* A step that leaves the identifiers and addresses of every session alone.
SameIds == \A q \in Refs : /\ sess'[q].seid = sess[q].seid
                           /\ sess'[q].ip = sess[q].ip
                           /\ sess'[q].pfx = sess[q].pfx

USE ZenonT(30), N4Assumption, SmfAssumption, N4SystemAssumption

\* The programs start with empty tables, pools and network.
LEMMA InitTyped == N4Init => IInv
  BY SMTT(30) DEF N4Init, SmfInit, UpfInit, NewSessionTable, IInv, N4TypeInv, N4TypeOK, SmfTypeOK,
         UpfTypeOK, OnlyAssigned, NoSession, NoObj, Session, States, HOStates, Decisions, SEIDs, Hosts,
         Prefixes

\* The record of a started handler or goroutine.
LEMMA GoTyped ==
    ASSUME NEW r \in Refs, NEW at \in {"start", "check", "send"},
           NEW leg \in {"tfail", "est", "mod", "drop", "del", "rel", "guard", "fin"}
    PROVE  /\ Go(leg, r, at) \in Op /\ Go(leg, r, at).ref = r
           /\ Go(leg, r, at).leg = leg /\ Go(leg, r, at).at = at
  BY DEF Go, Op, Decisions

\* The create handler, from the reservation of the addresses to the answer.
LEMMA CreateTyped ==
    ASSUME IInv, NEW r \in Refs, Create(r)
    PROVE  (SmfTypeOK /\ OnlyAssigned /\ N4TypeOK)'
<1> USE DEF IInv, N4TypeInv
<1>1. ASSUME NEW t \in PDUTypes, createReserve(r, t)
      PROVE  (SmfTypeOK /\ OnlyAssigned /\ N4TypeOK)'
  <2>1. ~IPv4Exhausted(selectPDUSessionType(t)) /\ pduTypeNeedsIPv4(selectPDUSessionType(t))
            => AllocateIPv4 \in Hosts \ pool
    BY SMTT(30), LeastFree DEF IPv4Exhausted, AllocateIPv4, Hosts
  <2>2. ~IPv6Exhausted(selectPDUSessionType(t)) /\ pduTypeNeedsIPv6(selectPDUSessionType(t))
            => AllocateIPv6 \in Prefixes \ v6pool
    BY SMTT(30), LeastFree DEF IPv6Exhausted, AllocateIPv6, Prefixes
  <2>3. sess' \in [Refs -> Session] /\ \A q \in Refs : Assigned(q) => Assigned(q)'
    BY SMTT(30), <1>1, <2>1, <2>2 DEF createReserve, SmfTypeOK, Session, SEIDs, Assigned
  <2>4. pc'[r] = "allocated" => Assigned(r)'
    BY SMTT(30), <1>1 DEF createReserve, SmfTypeOK, Session, SEIDs, Assigned
  <2>5. pool' \subseteq Hosts /\ v6pool' \subseteq Prefixes /\ nextSEID' \in 0..MaxSEID
    BY SMTT(30), <1>1, <2>3 DEF createReserve, SmfTypeOK, Session
  <2> QED
    BY <1>1, <2>3, <2>4, <2>5 DEF createReserve, SmfTypeOK, OnlyAssigned, N4TypeOK, Op
<1>2. CASE createEncodeFailure(r)
  BY <1>2 DEF createEncodeFailure, SmfTypeOK, OnlyAssigned, N4TypeOK, Assigned
<1>3. CASE createInsert(r)
  BY <1>3 DEF createInsert, SmfTypeOK, OnlyAssigned, N4TypeOK, Assigned
<1>4. CASE createFinish(r)
  <2>1. Go("est", r, "send") \in Op /\ Go("est", r, "send").ref = r
        /\ Go("est", r, "send").leg = "est"
    BY SMTT(30), GoTyped
  <2> QED
    BY <1>4, <2>1 DEF createFinish, SmfTypeOK, OnlyAssigned, N4TypeOK, Assigned, N4Legs
<1> QED
  BY <1>1, <1>2, <1>3, <1>4 DEF Create
\* Clearing the decision of a failed target leaves a session with its identifiers.
LEMMA DecisionCleared ==
    ASSUME NEW f \in [Refs -> Session], NEW r \in Refs
    PROVE  LET g == [f EXCEPT ![r].failed = "no"] IN
           /\ g \in [Refs -> Session]
           /\ \A q \in Refs : g[q].seid = f[q].seid /\ g[q].ip = f[q].ip /\ g[q].pfx = f[q].pfx
  BY DEF Session, Decisions

\* The handlers and goroutines that touch only the session and what runs.
LEMMA UpdateTyped ==
    ASSUME IInv, NEW o \in ops,
           \/ updateN2SmInfo(o) \/ updateActivating(o) \/ updateDeactivated(o)
           \/ handleHandoverPreparing(o) \/ handleHandoverReqAck(o)
           \/ handleHandoverResAllocFail(o) \/ handlePathSwitchSetupFail(o)
           \/ handleHandoverComplete(o) \/ handlePathSwitchReq(o)
           \/ runTargetFailedAction(o) \/ markSessionActive(o)
    PROVE  /\ (SmfTypeOK /\ OnlyAssigned /\ N4TypeOK)'
           /\ SameIds /\ UNCHANGED <<table, pc, pool, v6pool, nextSEID>>
<1> USE DEF IInv, N4TypeInv
<1>1. o \in Op /\ o.ref \in Refs /\ o.tun \in Tunnels \cup {None}
  BY DEF SmfTypeOK, Op
<1> DEFINE r == o.ref
<1>2. OnlySessAndOps /\ sess' \in [Refs -> Session] /\ SameIds
  <2>0. sess \in [Refs -> Session]
    BY DEF SmfTypeOK
  <2> USE <1>1, <2>0 DEF SameIds
  <2>1. CASE updateN2SmInfo(o) \/ markSessionActive(o)
    BY SMTT(30), <2>1 DEF updateN2SmInfo, markSessionActive, Session, States
  <2>2. CASE updateActivating(o)
    BY <2>2, DecisionCleared DEF updateActivating
  <2>3. CASE updateDeactivated(o)
    <3> DEFINE s == [sess EXCEPT ![r].failed = "no"]
    <3> DEFINE Eq(g, q) == g[q].seid = s[q].seid /\ g[q].ip = s[q].ip /\ g[q].pfx = s[q].pfx
    <3>1. s \in [Refs -> Session] /\ \A q \in Refs : Eq(sess, q)
      BY DecisionCleared
    <3>2. OnlySessAndOps /\ (sess' = s \/ sess' = [s EXCEPT ![r].state = "IDLE"])
      BY <2>3 DEF updateDeactivated
    <3> HIDE DEF s
    <3>3. CASE sess' = s
      BY <3>1, <3>2, <3>3
    <3>4. CASE sess' = [s EXCEPT ![r].state = "IDLE"]
      <4>1. [s[r] EXCEPT !.state = "IDLE"] \in Session
        BY SMTT(30), <3>1 DEF Session, States
      <4>3. sess' \in [Refs -> Session]
        BY <3>1, <3>4, <4>1
      <4>2. \A q \in Refs : Eq(sess', q)
        BY SMTT(30), <3>1, <3>4 DEF Session
      <4> QED BY <3>1, <3>2, <4>3, <4>2
    <3> QED BY <3>2, <3>3, <3>4
  <2>4. CASE handleHandoverPreparing(o) \/ handleHandoverReqAck(o)
    BY SMTT(30), <2>4 DEF handleHandoverPreparing, handleHandoverReqAck, Session, HOStates, Decisions
  <2>5. CASE handleHandoverResAllocFail(o)
    BY SMTT(30), <2>5 DEF handleHandoverResAllocFail, Op, Session, HOStates
  <2>6. CASE handlePathSwitchSetupFail(o) \/ handleHandoverComplete(o)
             \/ handlePathSwitchReq(o) \/ runTargetFailedAction(o)
    BY <2>6 DEF handlePathSwitchSetupFail, handleHandoverComplete, handlePathSwitchReq,
       runTargetFailedAction
  <2> QED BY <2>1, <2>2, <2>3, <2>4, <2>5, <2>6
<1> DEFINE OpOK(p) == p.ref = r /\ (p.at # "start" => p.leg \in N4Legs)
<1>3. ops' \subseteq Op /\ \A p \in ops' : p \in ops \/ OpOK(p)
  <2> USE DEF N4Legs
  <2>1. CASE updateN2SmInfo(o)
    <3> DEFINE m == [Go("mod", r, "check") EXCEPT !.tun = o.tun]
    <3>1. m \in Op /\ OpOK(m)
      BY <1>1 DEF Go, Op, Decisions
    <3>2. ops' = ops \ {o} \/ ops' = (ops \ {o}) \cup {m}
      BY <2>1 DEF updateN2SmInfo, Then
    <3> HIDE DEF m, OpOK
    <3> QED BY <3>1, <3>2 DEF SmfTypeOK
  <2>2. CASE updateActivating(o) \/ handleHandoverPreparing(o) \/ handleHandoverReqAck(o)
             \/ handleHandoverResAllocFail(o)
    BY <2>2 DEF updateActivating, handleHandoverPreparing, handleHandoverReqAck,
       handleHandoverResAllocFail, Then, SmfTypeOK
  <2>3. CASE updateDeactivated(o)
    <3> DEFINE t == [Go("tfail", r, "start") EXCEPT !.does = sess[r].failed]
    <3>1. t \in Op /\ OpOK(t)
      BY <1>1 DEF Go, Op, SmfTypeOK, Session
    <3>2. Go("drop", r, "check") \in Op /\ OpOK(Go("drop", r, "check"))
      BY SMTT(30), <1>1, GoTyped
    <3>3. ops' = (ops \ {o}) \cup {t} \/ ops' = (ops \ {o}) \cup {Go("drop", r, "check")}
      BY <2>3 DEF updateDeactivated, Then
    <3> QED BY <3>1, <3>2, <3>3 DEF SmfTypeOK
  <2>4. CASE handlePathSwitchSetupFail(o)
    <3>1. [Go("tfail", r, "start") EXCEPT !.does = o.does] \in Op
      BY <1>1 DEF Go, Op, Decisions
    <3> QED BY <2>4, <3>1 DEF handlePathSwitchSetupFail, Then, SmfTypeOK, Go
  <2>5. CASE handleHandoverComplete(o)
    <3>1. ~RELEASING(r) =>
            [o EXCEPT !.at = "mark", !.tun = sess[r].tgt, !.prev = sess[r].state] \in Op
      BY <1>1 DEF Op, SmfTypeOK, Session, States, RELEASING
    <3> QED BY <1>1, <2>5, <3>1 DEF handleHandoverComplete, Then, SmfTypeOK, Op
  <2>6. CASE handlePathSwitchReq(o)
    <3>1. ~RELEASING(r) => [o EXCEPT !.at = "mark", !.prev = sess[r].state] \in Op
      BY <1>1 DEF Op, SmfTypeOK, Session, States, RELEASING
    <3> QED BY <1>1, <2>6, <3>1 DEF handlePathSwitchReq, Then, SmfTypeOK, Op
  <2>7. CASE runTargetFailedAction(o) \/ markSessionActive(o)
    <3> DEFINE c == [o EXCEPT !.at = "check"]
    <3>1. o.leg \in N4Legs
      BY <2>7 DEF runTargetFailedAction, markSessionActive, OnlyAssigned
    <3>2. c \in Op /\ OpOK(c)
      BY <1>1, <3>1 DEF Op
    <3>3. ops' = ops \ {o} \/ ops' = (ops \ {o}) \cup {c}
      BY <2>7 DEF runTargetFailedAction, markSessionActive, Then
    <3> HIDE DEF c, OpOK
    <3> QED BY <3>2, <3>3 DEF SmfTypeOK
  <2> QED BY <2>1, <2>2, <2>3, <2>4, <2>5, <2>6, <2>7
<1> QED
  <2>1. SmfTypeOK' /\ N4TypeOK'
    BY <1>2, <1>3 DEF SmfTypeOK, N4TypeOK, OnlySessAndOps
  <2>2. OnlyAssigned'
    BY SMTT(30), <1>1, <1>2, <1>3 DEF SmfTypeOK, OnlyAssigned, OnlySessAndOps, Op, SameIds, Assigned
  <2> QED BY <1>2, <2>1, <2>2 DEF OnlySessAndOps

\* What an N4 exchange does to its session when it ends.
LEMMA N4EndTyped ==
    ASSUME SmfTypeOK, NEW o \in ops, N4Failure(o) \/ N4Success(o)
    PROVE  sess' \in [Refs -> Session] /\ SameIds
<1> USE DEF SameIds
<1>1. o.ref \in Refs /\ o.prev \in States /\ sess \in [Refs -> Session]
  BY DEF SmfTypeOK, Op, States
<1>2. CASE N4Failure(o)
  BY SMTT(30), <1>1, <1>2 DEF N4Failure, Session
<1>3. CASE N4Success(o)
  <2>1. \/ sess' = [sess EXCEPT ![o.ref].ho = "COMPLETED", ![o.ref].tgt = None,
                                ![o.ref].failed = "no"]
        \/ sess' = [sess EXCEPT ![o.ref].state = "IDLE"]
        \/ sess' = sess
    BY <1>3 DEF N4Success
  <2> QED BY SMTT(30), <1>1, <2>1 DEF Session, States, HOStates, Decisions
<1> QED BY <1>2, <1>3

\* A request the SMF sends refers to a session with an assigned SEID.
LEMMA PFCPRequestTyped ==
    ASSUME IInv, NEW o \in ops, o.at # "start"
    PROVE  PFCPRequest(o) \in Request
<1>1. o \in Op /\ sess[o.ref] \in Session /\ sess[o.ref].seid # None /\ o.leg \in N4Legs
  BY DEF IInv, N4TypeInv, SmfTypeOK, OnlyAssigned, Assigned, Op
<1>2. CASE o.leg = "est"
  BY <1>1, <1>2 DEF PFCPRequest, Request, EstMsg, Op, Session
<1>3. CASE o.leg = "del"
  BY <1>1, <1>3 DEF PFCPRequest, Request, DelMsg, Op, Session
<1>4. CASE o.leg \notin {"est", "del"}
  BY <1>1, <1>4 DEF PFCPRequest, Request, ModMsg, Op, Session, N4Legs
<1> QED
  BY <1>2, <1>3, <1>4
\* The PFCP exchange: send, retransmission, timeout and receipt of an answer.
LEMMA ExchangeTyped ==
    ASSUME IInv, NEW o \in ops,
           \/ skipN4ForReleasing(o) \/ sendPFCP(o) \/ retransmit(o) \/ timeoutPFCP(o)
           \/ \E m \in net : receivePFCP(o, m)
    PROVE  /\ (SmfTypeOK /\ OnlyAssigned /\ N4TypeOK)'
           /\ SameIds /\ UNCHANGED <<table, pc, pool, v6pool, nextSEID>>
<1> USE DEF IInv, N4TypeInv
<1>1. o \in Op /\ (o.at # "start" => o.leg \in N4Legs) /\ Assigned(o.ref)
  BY DEF SmfTypeOK, OnlyAssigned
<1>2. CASE skipN4ForReleasing(o)
  <2> DEFINE c == [o EXCEPT !.at = "send"]
  <2>1. c \in Op /\ c.ref = o.ref /\ c.leg \in N4Legs
    BY <1>1, <1>2 DEF skipN4ForReleasing, Op
  <2>2. /\ ops' = ops \ {o} \/ ops' = (ops \ {o}) \cup {c}
        /\ OnlySessAndOps /\ (N4Failure(o) \/ sess' = sess)
    BY <1>2 DEF skipN4ForReleasing, Then
  <2>3. sess' \in [Refs -> Session] /\ SameIds
    BY <2>2, N4EndTyped DEF SmfTypeOK, SameIds
  <2> HIDE DEF c
  <2> QED BY SMTT(30), <1>1, <2>1, <2>2, <2>3 DEF OnlySessAndOps, SmfTypeOK, OnlyAssigned, N4TypeOK,
             Assigned, SameIds, Op
<1>3. CASE sendPFCP(o)
  <2> DEFINE c == [o EXCEPT !.at = "wait"]
  <2>1. c \in Op /\ c.ref = o.ref /\ c.leg \in N4Legs
    BY <1>1, <1>3 DEF sendPFCP, Op
  <2>2. ops' = ops \ {o} \/ ops' = (ops \ {o}) \cup {c}
    BY <1>3 DEF sendPFCP, Then
  <2>3. PFCPRequest(o) \in Request
    BY <1>3, PFCPRequestTyped DEF sendPFCP
  <2> HIDE DEF c
  <2> QED BY <1>1, <1>3, <2>1, <2>2, <2>3 DEF sendPFCP, SmfTypeOK, OnlyAssigned, N4TypeOK,
             Assigned, SameIds, Op
<1>4. CASE retransmit(o)
  <2>1. PFCPRequest(o) \in Request
    BY <1>4, PFCPRequestTyped DEF retransmit
  <2> QED BY <1>4, <2>1 DEF retransmit, smfVars, SmfTypeOK, OnlyAssigned, N4TypeOK, Assigned, SameIds
<1>5. CASE timeoutPFCP(o)
  <2>1. sess' \in [Refs -> Session] /\ SameIds
    BY <1>5, N4EndTyped DEF timeoutPFCP
  <2> QED BY <1>5, <2>1 DEF timeoutPFCP, Then, OnlySessAndOps, SmfTypeOK, OnlyAssigned,
             N4TypeOK, Assigned, SameIds, Op
<1>6. ASSUME NEW m \in net, receivePFCP(o, m)
      PROVE  /\ (SmfTypeOK /\ OnlyAssigned /\ N4TypeOK)'
             /\ SameIds /\ UNCHANGED <<table, pc, pool, v6pool, nextSEID>>
  <2>1. sess' \in [Refs -> Session] /\ SameIds
    BY <1>6, N4EndTyped DEF receivePFCP
  <2> QED BY <1>6, <2>1 DEF receivePFCP, Then, SmfTypeOK, OnlyAssigned, N4TypeOK, Assigned, SameIds, Op
<1> QED BY <1>2, <1>3, <1>4, <1>5, <1>6

\* The local release: by the recovery, its guard, the AMF's DELETE or the shutdown.
LEMMA ReleaseTyped ==
    ASSUME IInv,
           \/ \E o \in ops : releaseFinish(o) \/ releaseOne(o) \/ startReleaseGuard(o)
           \/ \E r \in Refs : handleDeleteSMContext(r) \/ cleanupOne(r)
    PROVE  (SmfTypeOK /\ OnlyAssigned /\ N4TypeOK)'
<1> USE DEF IInv, N4TypeInv
<1> DEFINE Rel(o) == releaseFinish(o) \/ releaseOne(o) \/ startReleaseGuard(o)
<1>1. PICK r \in Refs : /\ \/ \E o \in ops : o.ref = r /\ Rel(o)
                           \/ handleDeleteSMContext(r) \/ cleanupOne(r)
                        /\ Assigned(r)
  BY DEF SmfTypeOK, OnlyAssigned, Op, handleDeleteSMContext, cleanupOne
<1> DEFINE New == {Go("fin", r, "start"), Go("del", r, "send"), Go("guard", r, "start")}
<1>2. \A p \in New : p \in Op /\ p.ref = r /\ (p.at # "start" => p.leg \in N4Legs)
  BY SMTT(30), GoTyped DEF N4Legs
<1>3. ops' \subseteq ops \cup New
  <2>1. ASSUME NEW o \in ops, o.ref = r, releaseFinish(o) PROVE ops' \subseteq ops \cup New
    BY <2>1 DEF releaseFinish, Then
  <2>2. ASSUME NEW o \in ops, o.ref = r, releaseOne(o) PROVE ops' \subseteq ops \cup New
    BY <2>2 DEF releaseOne, Then
  <2>3. ASSUME NEW o \in ops, o.ref = r, startReleaseGuard(o) PROVE ops' \subseteq ops \cup New
    BY <2>3 DEF startReleaseGuard, Then
  <2>4. CASE handleDeleteSMContext(r) \/ cleanupOne(r)
    BY <2>4 DEF handleDeleteSMContext, cleanupOne
  <2> HIDE DEF New
  <2> QED BY <1>1, <2>1, <2>2, <2>3, <2>4
<1>4. /\ UNCHANGED <<sess, pc, nextSEID, reqs, restarts, net>>
      /\ table' \subseteq table /\ pool' \subseteq pool /\ v6pool' \subseteq v6pool
      /\ stopping' = stopping \/ (stopping # None /\ stopping' = stopping \ {r})
  BY <1>1 DEF releaseFinish, releaseOne, startReleaseGuard, handleDeleteSMContext, cleanupOne,
     releaseSessionLocal
<1>5. stopping' \in (SUBSET Refs) \cup {None}
      /\ (stopping' # None => \A q \in stopping' : Assigned(q))
  BY <1>4 DEF SmfTypeOK, OnlyAssigned, Assigned
<1> HIDE DEF New
<1>6. SmfTypeOK' /\ N4TypeOK'
  BY <1>2, <1>3, <1>4, <1>5 DEF SmfTypeOK, N4TypeOK
<1>7. OnlyAssigned'
  BY <1>1, <1>2, <1>3, <1>4, <1>5 DEF OnlyAssigned, Assigned
<1> QED BY <1>6, <1>7
\* Marking sessions RELEASING changes neither their identifiers nor their addresses.
LEMMA MarkTyped ==
    ASSUME SmfTypeOK, NEW hit \in SUBSET table, NEW b \in BOOLEAN, markSessionsReleasing(hit, b)
    PROVE  sess' \in [Refs -> Session] /\ SameIds
<1>1. \A q \in Refs : sess[q] \in Session
  BY DEF SmfTypeOK
<1>2. ASSUME NEW q \in Refs
      PROVE  LET s == [sess[q] EXCEPT !.state = "RELEASING",
                                      !.stale = IF b THEN TRUE ELSE @]
             IN  /\ s \in Session /\ s.seid = sess[q].seid
                 /\ s.ip = sess[q].ip /\ s.pfx = sess[q].pfx
  <2>1. CASE b
    BY <1>1, <2>1 DEF Session, States
  <2>2. CASE ~b
    BY <1>1, <2>2 DEF Session, States
  <2> QED BY <2>1, <2>2
<1> QED BY <1>1, <1>2 DEF markSessionsReleasing, SameIds

\* Update requests, recovery and the SMF's end.
LEMMA EventTyped ==
    ASSUME IInv,
           \/ \E r \in Refs, leg \in Legs : \E i \in Inputs(leg) :
                    handleUpdateSMContext(r, leg, i[1], i[2])
           \/ \E hit \in SUBSET table, b \in BOOLEAN : markSessionsReleasing(hit, b)
           \/ cleanupAllSessions
           \/ SmfRestart
    PROVE  (SmfTypeOK /\ OnlyAssigned /\ N4TypeOK)'
<1> USE DEF IInv, N4TypeInv
<1>1. ASSUME NEW r \in Refs, NEW leg \in Legs, NEW i \in Inputs(leg),
             handleUpdateSMContext(r, leg, i[1], i[2])
      PROVE  (SmfTypeOK /\ OnlyAssigned /\ N4TypeOK)'
  <2> DEFINE p == [Go(leg, r, "start") EXCEPT !.tun = i[1], !.does = i[2]]
  <2>1. p \in Op /\ p.ref = r /\ p.at = "start"
    BY SmfAssumption DEF Inputs, Go, Op, Decisions, UpdateLegs
  <2>2. /\ ops' = ops \cup {p} /\ r \in table
        /\ reqs < MaxReqs /\ reqs' = reqs + 1
        /\ UNCHANGED <<sess, table, pc, pool, v6pool, nextSEID, stopping, restarts, net>>
    BY <1>1 DEF handleUpdateSMContext
  <2> HIDE DEF p
  <2>3. SmfTypeOK' /\ N4TypeOK'
    BY SMTT(30), <2>1, <2>2 DEF SmfTypeOK, N4TypeOK
  <2>4. OnlyAssigned'
    BY <2>1, <2>2 DEF OnlyAssigned, Assigned
  <2> QED BY <2>3, <2>4
<1>2. ASSUME NEW hit \in SUBSET table, NEW b \in BOOLEAN, markSessionsReleasing(hit, b)
      PROVE  (SmfTypeOK /\ OnlyAssigned /\ N4TypeOK)'
  <2>1. sess' \in [Refs -> Session] /\ SameIds
    BY <1>2, MarkTyped
  <2>2. \A q \in Refs : /\ Go("rel", q, "start") \in Op /\ Go("rel", q, "start").ref = q
                        /\ Go("rel", q, "start").at = "start"
    BY SMTT(30), GoTyped
  <2>3. \A p \in ops' : p \in ops \/ \E q \in table : p = Go("rel", q, "start")
    BY <1>2 DEF markSessionsReleasing
  <2>4. /\ reqs < MaxReqs /\ reqs' = reqs + 1
        /\ UNCHANGED <<table, pc, pool, v6pool, nextSEID, stopping, restarts, net>>
    BY <1>2 DEF markSessionsReleasing
  <2>5. table \subseteq Refs /\ ops \subseteq Op /\ \A p \in ops : p.ref \in Refs
    BY DEF SmfTypeOK, Op
  <2>6. ops' \subseteq Op
    BY <2>2, <2>3, <2>5
  <2>7. SmfTypeOK' /\ N4TypeOK'
    BY SMTT(30), <2>1, <2>4, <2>6 DEF SmfTypeOK, N4TypeOK
  <2>8. \A q \in Refs : Assigned(q) => Assigned(q)'
    BY <2>1 DEF Assigned, SameIds
  <2>9. OnlyAssigned'
    <3>1. \A p \in ops' : Assigned(p.ref)' /\ (p.at # "start" => p.leg \in N4Legs)
      BY SMTT(30), <2>2, <2>3, <2>5, <2>8 DEF OnlyAssigned
    <3> QED BY <2>4, <2>5, <2>8, <3>1 DEF OnlyAssigned, SmfTypeOK
  <2> QED BY <2>7, <2>9
<1>3. CASE cleanupAllSessions
  BY <1>3 DEF cleanupAllSessions, SmfTypeOK, OnlyAssigned, N4TypeOK, Assigned
<1>4. CASE SmfRestart
  BY SMTT(30), <1>4 DEF SmfRestart, SmfTypeOK, OnlyAssigned, N4TypeOK, Session, NoSession, States,
     HOStates, Decisions
<1> QED BY <1>1, <1>2, <1>3, <1>4

\* The UPF's handlers and its restart.
LEMMA UpfTyped ==
    ASSUME IInv, UpfNext \/ UpfRestart
    PROVE  (UpfTypeOK /\ N4TypeOK)'
<1> USE DEF IInv, N4TypeInv
<1>1. ASSUME NEW m \in net, handleSessionEstablishment(m)
      PROVE  (UpfTypeOK /\ N4TypeOK)'
  BY SMTT(30), <1>1 DEF handleSessionEstablishment, store, Index, Respond, Answer, Awaited, UpfTypeOK,
     N4TypeOK, Request, Response, EstMsg, ModMsg, DelMsg, AssocMsg
<1>2. ASSUME NEW m \in net, handleSessionModification(m)
      PROVE  (UpfTypeOK /\ N4TypeOK)'
  BY SMTT(30), <1>2 DEF handleSessionModification, Respond, Answer, Awaited, UpfTypeOK,
     N4TypeOK, Request, Response, EstMsg, ModMsg, DelMsg, AssocMsg
<1>3. ASSUME NEW m \in net, handleSessionDeletion(m)
      PROVE  (UpfTypeOK /\ N4TypeOK)'
  BY SMTT(30), <1>3 DEF handleSessionDeletion, delete, Index, NoObj, Respond, Answer, Awaited, UpfTypeOK,
     upfVars, N4TypeOK, Request, Response, EstMsg, ModMsg, DelMsg, AssocMsg
<1>4. ASSUME NEW m \in net, handleAssociationSetup(m)
      PROVE  (UpfTypeOK /\ N4TypeOK)'
  BY <1>4 DEF handleAssociationSetup, UpfTypeOK, upfVars, N4TypeOK
<1>5. CASE UpfRestart
  BY <1>5 DEF UpfRestart, NoObj, UpfTypeOK, N4TypeOK
<1> QED BY <1>1, <1>2, <1>3, <1>4, <1>5 DEF UpfNext
\* The SMF, the UPF and the network keep every variable in its type, whatever the number
\* of SM contexts, the size of the pools and the order of handlers and goroutines.
THEOREM TypeCorrect == N4Spec => [](N4TypeInv /\ OnlyAssigned)
<1>1. N4Init => IInv
  BY InitTyped
<1>2. IInv /\ [N4Next]_n4Vars => IInv'
  <2> SUFFICES ASSUME IInv, [N4Next]_n4Vars PROVE IInv'
    OBVIOUS
  <2> USE DEF IInv, N4TypeInv
  <2>1. CASE SmfNext /\ UNCHANGED upfVars
    <3>1. UpfTypeOK'
      BY <2>1 DEF upfVars, UpfTypeOK
    <3>2. (SmfTypeOK /\ OnlyAssigned /\ N4TypeOK)'
      <4>1. ASSUME NEW o \in ops, Step(o) PROVE (SmfTypeOK /\ OnlyAssigned /\ N4TypeOK)'
        BY <4>1, UpdateTyped, ExchangeTyped, ReleaseTyped DEF Step
      <4>2. ASSUME NEW r \in Refs, Create(r) \/ handleDeleteSMContext(r) \/ cleanupOne(r)
            PROVE  (SmfTypeOK /\ OnlyAssigned /\ N4TypeOK)'
        BY <4>2, CreateTyped, ReleaseTyped
      <4>3. ASSUME \/ \E r \in Refs, leg \in Legs : \E i \in Inputs(leg) :
                            handleUpdateSMContext(r, leg, i[1], i[2])
                   \/ markSessionsReleasing(table, FALSE)
                   \/ \E hit \in SUBSET table : markSessionsReleasing(hit, TRUE)
                   \/ cleanupAllSessions
                   \/ SmfRestart
            PROVE  (SmfTypeOK /\ OnlyAssigned /\ N4TypeOK)'
        BY <4>3, EventTyped
      <4> QED BY <2>1, <4>1, <4>2, <4>3 DEF SmfNext
    <3> QED BY <3>1, <3>2
  <2>2. CASE (UpfNext \/ UpfRestart) /\ UNCHANGED smfVars
    <3>1. (SmfTypeOK /\ OnlyAssigned)'
      BY <2>2 DEF smfVars, SmfTypeOK, OnlyAssigned, Assigned
    <3> QED BY <2>2, <3>1, UpfTyped
  <2>3. CASE \E m \in net : Lose(m) /\ UNCHANGED <<smfVars, upfVars>>
    BY <2>3 DEF Lose, smfVars, upfVars, SmfTypeOK, UpfTypeOK, N4TypeOK, OnlyAssigned, Assigned
  <2>4. CASE UNCHANGED n4Vars
    BY <2>4 DEF n4Vars, smfVars, upfVars, SmfTypeOK, UpfTypeOK, N4TypeOK, OnlyAssigned, Assigned
  <2> QED BY <2>1, <2>2, <2>3, <2>4 DEF N4Next
<1> QED
  BY <1>1, <1>2, PTL DEF N4Spec, IInv
-----------------------------------------------------------------------------
AddrInv == AddressExclusive /\ PoolAccounted

\* A step that changes neither the addresses, nor who holds one, nor the pools.
LEMMA AddrKept ==
    ASSUME AddrInv, SameIds, UNCHANGED <<pool, v6pool>>,
           \A q \in Refs : Held(q)' <=> Held(q)
    PROVE  AddrInv'
<1>1. AddressExclusive'
  BY SMTT(30) DEF AddrInv, AddressExclusive, SameIds
<1>2. {sess'[r].ip : r \in {q \in Refs : Held(q)'}} = {sess[r].ip : r \in {q \in Refs : Held(q)}}
  BY DEF SameIds
<1>3. {sess'[r].pfx : r \in {q \in Refs : Held(q)'}} = {sess[r].pfx : r \in {q \in Refs : Held(q)}}
  BY DEF SameIds
<1> QED BY <1>1, <1>2, <1>3 DEF AddrInv, PoolAccounted

\* A new SM context takes addresses that were free.
LEMMA AddrReserve ==
    ASSUME IInv, AddrInv, NEW r \in Refs, NEW t \in PDUTypes, createReserve(r, t)
    PROVE  AddrInv'
<1> DEFINE y == selectPDUSessionType(t)
<1>1. r \notin table /\ pc[r] = "unused" /\ UNCHANGED table /\ ~Held(r)
  BY DEF createReserve, IInv, OnlyAssigned, Held
<1>2. CASE pc' = [pc EXCEPT ![r] = "refused"]
  <2>1. UNCHANGED <<sess, pool, v6pool>> /\ \A q \in Refs : Held(q)' <=> Held(q)
    BY <1>1, <1>2 DEF createReserve, Held, IInv, N4TypeInv, SmfTypeOK
  <2> QED BY <2>1, AddrKept DEF SameIds
<1>3. CASE pc' # [pc EXCEPT ![r] = "refused"]
  <2>1. /\ ~IPv4Exhausted(y) /\ ~IPv6Exhausted(y)
        /\ pc' = [pc EXCEPT ![r] = "allocated"]
        /\ pool' = pool \cup ({sess'[r].ip} \ {None})
        /\ v6pool' = v6pool \cup ({sess'[r].pfx} \ {None})
    BY <1>3 DEF createReserve
  <2>2. \A q \in Refs : Held(q)' <=> (Held(q) \/ q = r)
    BY <1>1, <2>1 DEF Held, IInv, N4TypeInv, SmfTypeOK
  <2>3. \A q \in Refs \ {r} : sess'[q] = sess[q]
    BY <1>3 DEF createReserve, IInv, N4TypeInv, SmfTypeOK
  <2>4. sess'[r].ip = None \/ sess'[r].ip \notin pool
    <3>1. pduTypeNeedsIPv4(y) => AllocateIPv4 \in Hosts \ pool
      BY SMTT(30), <2>1, LeastFree DEF IPv4Exhausted, AllocateIPv4, Hosts
    <3>2. sess'[r].ip = IF pduTypeNeedsIPv4(y) THEN AllocateIPv4 ELSE None
      BY SMTT(30), <1>3 DEF createReserve, IInv, N4TypeInv, SmfTypeOK, Session
    <3> QED BY <3>1, <3>2
  <2>5. sess'[r].pfx = None \/ sess'[r].pfx \notin v6pool
    <3>1. pduTypeNeedsIPv6(y) => AllocateIPv6 \in Prefixes \ v6pool
      BY SMTT(30), <2>1, LeastFree DEF IPv6Exhausted, AllocateIPv6, Prefixes
    <3>2. sess'[r].pfx = IF pduTypeNeedsIPv6(y) THEN AllocateIPv6 ELSE None
      BY SMTT(30), <1>3 DEF createReserve, IInv, N4TypeInv, SmfTypeOK, Session
    <3> QED BY <3>1, <3>2
  <2>6. \A q \in Refs : Held(q) => /\ sess[q].ip # None => sess[q].ip \in pool
                                   /\ sess[q].pfx # None => sess[q].pfx \in v6pool
    BY DEF AddrInv, PoolAccounted
  <2>7. AddressExclusive'
    BY <1>1, <2>2, <2>3, <2>4, <2>5, <2>6 DEF AddrInv, AddressExclusive
  <2>8. PoolAccounted'
    BY <1>1, <2>1, <2>2, <2>3 DEF AddrInv, PoolAccounted
  <2> QED BY <2>7, <2>8 DEF AddrInv
<1> QED BY <1>2, <1>3
\* The locked part of a release frees what the session held and nothing else.
LEMMA AddrRelease ==
    ASSUME IInv, AddrInv, NEW r \in Refs, releaseSessionLocal(r), UNCHANGED <<sess, pc>>
    PROVE  AddrInv'
<1>1. CASE r \notin table
  BY <1>1, AddrKept DEF releaseSessionLocal, SameIds, Held
<1>2. CASE r \in table
  <2>1. /\ pool' = pool \ {sess[r].ip} /\ v6pool' = v6pool \ {sess[r].pfx}
        /\ Held(r) /\ \A q \in Refs : Held(q)' <=> (Held(q) /\ q # r)
    BY <1>2 DEF releaseSessionLocal, Held, IInv, OnlyAssigned
  <2>2. AddressExclusive'
    BY <2>1 DEF AddrInv, AddressExclusive
  <2>3. PoolAccounted'
    BY <2>1 DEF AddrInv, AddressExclusive, PoolAccounted
  <2> QED BY <2>2, <2>3 DEF AddrInv
<1> QED BY <1>1, <1>2

\* No step gives an address to two contexts or takes it out of the pool while it is held.
LEMMA AddrStep ==
    ASSUME IInv, AddrInv, SmfNext
    PROVE  AddrInv'
<1> USE DEF IInv, N4TypeInv
<1>1. ASSUME NEW r \in Refs, Create(r) PROVE AddrInv'
  <2>1. ASSUME NEW t \in PDUTypes, createReserve(r, t) PROVE AddrInv'
    BY <2>1, AddrReserve
  <2>2. CASE createEncodeFailure(r) \/ createInsert(r) \/ createFinish(r)
    <3>1. UNCHANGED <<sess, pool, v6pool>> /\ \A q \in Refs : Held(q)' <=> Held(q)
      BY <2>2 DEF createEncodeFailure, createInsert, createFinish, Held, SmfTypeOK, OnlyAssigned
    <3> QED BY <3>1, AddrKept DEF SameIds
  <2> QED BY <1>1, <2>1, <2>2 DEF Create
<1>2. ASSUME NEW r \in Refs, handleDeleteSMContext(r) \/ cleanupOne(r) PROVE AddrInv'
  <2>1. CASE handleDeleteSMContext(r)
    BY <2>1, AddrRelease DEF handleDeleteSMContext
  <2>2. CASE cleanupOne(r)
    BY <2>2, AddrKept DEF cleanupOne, SameIds, Held
  <2> QED BY <1>2, <2>1, <2>2
<1>3. ASSUME NEW o \in ops, Step(o) PROVE AddrInv'
  <2>1. o.ref \in Refs
    BY DEF SmfTypeOK, Op
  <2>2. CASE releaseFinish(o)
    BY <2>2, AddrKept DEF releaseFinish, SameIds, Held
  <2>3. CASE releaseOne(o) \/ startReleaseGuard(o)
    <3>1. CASE releaseSessionLocal(o.ref) /\ UNCHANGED <<sess, pc>>
      BY <2>1, <3>1, AddrRelease
    <3>2. CASE UNCHANGED <<sess, pc, table, pool, v6pool>>
      BY <3>2, AddrKept DEF SameIds, Held
    <3> QED BY <2>3, <3>1, <3>2 DEF releaseOne, startReleaseGuard
  <2>4. CASE SameIds /\ UNCHANGED <<table, pc, pool, v6pool>>
    BY <2>4, AddrKept DEF Held
  <2> QED BY <1>3, <2>2, <2>3, <2>4, UpdateTyped, ExchangeTyped DEF Step
<1>4. ASSUME NEW r \in Refs, NEW leg \in Legs, NEW i \in Inputs(leg),
             handleUpdateSMContext(r, leg, i[1], i[2])
      PROVE  AddrInv'
  BY <1>4, AddrKept DEF handleUpdateSMContext, SameIds, Held
<1>5. ASSUME NEW hit \in SUBSET table, NEW b \in BOOLEAN, markSessionsReleasing(hit, b)
      PROVE  AddrInv'
  <2>1. SameIds
    BY <1>5, MarkTyped
  <2> QED BY <1>5, <2>1, AddrKept DEF markSessionsReleasing, Held
<1>6. CASE cleanupAllSessions
  BY <1>6, AddrKept DEF cleanupAllSessions, SameIds, Held
<1>7. CASE SmfRestart
  BY <1>7 DEF SmfRestart, AddrInv, AddressExclusive, PoolAccounted, Held
<1> QED BY <1>1, <1>2, <1>3, <1>4, <1>5, <1>6, <1>7 DEF SmfNext

\* The two hold together, through every interleaving of creations, deletions, recovery
\* releases, guard timers, shutdown and restart.
LEMMA AddressesKept == N4Spec => [](AddressExclusive /\ PoolAccounted)
<1>1. N4Init => AddrInv
  BY DEF N4Init, SmfInit, AddrInv, AddressExclusive, PoolAccounted, Held
<1>2. IInv /\ AddrInv /\ [N4Next]_n4Vars => AddrInv'
  <2> SUFFICES ASSUME IInv, AddrInv, [N4Next]_n4Vars PROVE AddrInv'
    OBVIOUS
  <2>1. CASE UNCHANGED smfVars
    BY <2>1, AddrKept DEF smfVars, SameIds, Held
  <2> QED BY <2>1, AddrStep DEF N4Next, n4Vars
<1> QED
  BY <1>1, <1>2, TypeCorrect, PTL DEF N4Spec, AddrInv, IInv

\* No two live SM contexts share an address or a prefix (allocate, releaseSession).
THEOREM AddressSafety == N4Spec => []AddressExclusive
  BY AddressesKept, PTL

\* The pools hold exactly the addresses and prefixes of the live SM contexts: none is lost
\* and none is returned twice (IPPool).
THEOREM PoolSafety == N4Spec => []PoolAccounted
  BY AddressesKept, PTL
-----------------------------------------------------------------------------
StaysReleasing(q) == q \in table /\ RELEASING(q) /\ q \in table' => RELEASING(q)'

\* No step takes a session of the table out of RELEASING.
LEMMA ReleasingStep ==
    ASSUME IInv, SmfNext, NEW q \in Refs
    PROVE  StaysReleasing(q)
<1> USE DEF IInv, N4TypeInv, StaysReleasing, RELEASING
<1>0. sess \in [Refs -> Session] /\ \A s \in Session : DOMAIN s = DOMAIN NoSession
  BY DEF SmfTypeOK, Session, NoSession
<1>1. ASSUME NEW r \in Refs, Create(r) PROVE StaysReleasing(q)
  <2>1. ASSUME NEW t \in PDUTypes, createReserve(r, t) PROVE StaysReleasing(q)
    <3>1. q \in table => q # r
      BY <2>1 DEF createReserve, OnlyAssigned
    <3>2. q # r => sess'[q] = sess[q]
      BY <2>1, <1>0 DEF createReserve
    <3> QED BY <3>1, <3>2
  <2> QED BY <1>1, <2>1 DEF Create, createEncodeFailure, createInsert, createFinish
<1>2. ASSUME NEW r \in Refs, handleDeleteSMContext(r) \/ cleanupOne(r)
      PROVE  StaysReleasing(q)
  BY <1>2 DEF handleDeleteSMContext, cleanupOne
<1>3. ASSUME NEW o \in ops, Step(o) PROVE StaysReleasing(q)
  <2>1. o.ref \in Refs
    BY DEF SmfTypeOK, Op
  <2>2. CASE updateN2SmInfo(o) \/ updateActivating(o) \/ markSessionActive(o)
    BY <1>0, <2>1, <2>2 DEF updateN2SmInfo, updateActivating, markSessionActive
  <2>3. CASE updateDeactivated(o)
    <3>1. RELEASING(o.ref) => sess' = [sess EXCEPT ![o.ref].failed = "no"]
      BY <2>3 DEF updateDeactivated
    <3>2. q # o.ref => sess'[q] = sess[q]
      BY <1>0, <2>1, <2>3 DEF updateDeactivated
    <3> QED BY SMTT(30), <1>0, <2>1, <3>1, <3>2 DEF Session
  <2>4. CASE handleHandoverPreparing(o) \/ handleHandoverReqAck(o)
    BY SMTT(30), <1>0, <2>1, <2>4 DEF handleHandoverPreparing, handleHandoverReqAck, Session
  <2>5. CASE handleHandoverResAllocFail(o)
    BY <1>0, <2>1, <2>5 DEF handleHandoverResAllocFail, Session
  <2>6. CASE \/ handlePathSwitchSetupFail(o) \/ handleHandoverComplete(o)
             \/ handlePathSwitchReq(o) \/ runTargetFailedAction(o)
             \/ sendPFCP(o) \/ retransmit(o)
             \/ releaseFinish(o) \/ releaseOne(o) \/ startReleaseGuard(o)
    BY <2>6 DEF handlePathSwitchSetupFail, handleHandoverComplete, handlePathSwitchReq,
       runTargetFailedAction, sendPFCP, retransmit, releaseFinish, releaseOne,
       startReleaseGuard, smfVars
  <2>7. CASE N4Failure(o) \/ N4Success(o)
    <3>1. CASE N4Failure(o)
      BY <1>0, <2>1, <3>1 DEF N4Failure, Session
    <3>2. CASE N4Success(o)
      <4>1. \/ sess' = [sess EXCEPT ![o.ref].ho = "COMPLETED", ![o.ref].tgt = None,
                                    ![o.ref].failed = "no"]
            \/ ~RELEASING(o.ref) /\ sess' = [sess EXCEPT ![o.ref].state = "IDLE"]
            \/ sess' = sess
        BY <3>2 DEF N4Success
      <4> QED BY SMTT(30), <1>0, <2>1, <4>1 DEF Session
    <3> QED BY <2>7, <3>1, <3>2
  <2>8. CASE skipN4ForReleasing(o) \/ timeoutPFCP(o) \/ \E m \in net : receivePFCP(o, m)
    BY <2>7, <2>8 DEF skipN4ForReleasing, timeoutPFCP, receivePFCP
  <2> QED BY <1>3, <2>2, <2>3, <2>4, <2>5, <2>6, <2>8 DEF Step
<1>4. ASSUME NEW hit \in SUBSET table, NEW b \in BOOLEAN, markSessionsReleasing(hit, b)
      PROVE  StaysReleasing(q)
  <2>1. RELEASING(q) => sess'[q] = sess[q]
    BY <1>4 DEF markSessionsReleasing
  <2> QED BY <2>1
<1>5. CASE \/ \E r \in Refs, leg \in Legs : \E i \in Inputs(leg) :
                    handleUpdateSMContext(r, leg, i[1], i[2])
           \/ cleanupAllSessions
           \/ SmfRestart
  BY <1>5 DEF handleUpdateSMContext, cleanupAllSessions, SmfRestart
<1> QED BY <1>1, <1>2, <1>3, <1>4, <1>5 DEF SmfNext

\* A session marked RELEASING by the node recovery is never revived: not by an
\* activation, not by a deactivation, not by a switch that fails and restores a state.
THEOREM ReleasingFinal == N4Spec => ReleasingIsFinal
<1>1. IInv /\ [N4Next]_n4Vars
        => [\A r \in Refs : r \in table /\ RELEASING(r) /\ r \in table' => RELEASING(r)']_smfVars
  <2> SUFFICES ASSUME IInv, [N4Next]_n4Vars, NEW r \in Refs, ~UNCHANGED smfVars
               PROVE  StaysReleasing(r)
    BY DEF StaysReleasing
  <2> QED BY ReleasingStep DEF N4Next, n4Vars
<1> QED
  BY <1>1, TypeCorrect, PTL DEF N4Spec, ReleasingIsFinal, IInv
-----------------------------------------------------------------------------
\* What makes SEIDs names while the SMF does not restart: a context takes its SEID once, from
\* the counter.
SeidsUnique ==
    /\ \A r \in Refs : pc[r] = "unused" => ~Assigned(r)
    /\ \A r \in Refs : Assigned(r) => sess[r].seid <= nextSEID
    /\ \A r, q \in Refs : Assigned(r) /\ sess[r].seid = sess[q].seid => r = q

\* A request on its way carries the identifiers of the session it is about.
Names(m) ==
    /\ m.seid = sess[m.ref].seid
    /\ m.type = "est" => m.ip = sess[m.ref].ip /\ m.pfx = sess[m.ref].pfx
RequestsName ==
    \A m \in net : /\ m \in Request => Names(m)
                   /\ m \in Response => Names(m.req)

\* The UPF knows a session by its SEID under the identifiers the SMF gave it, the TEID index
\* agrees with the SEID index, and so do the address indexes.
TableNames ==
    /\ \A s \in SEIDs : bySEID[s] # None =>
          LET r == bySEID[s] IN
          /\ sess[r].seid = s /\ upfObj[r].seid = s
          /\ upfObj[r].ip = sess[r].ip /\ upfObj[r].pfx = sess[r].pfx
    /\ \A s \in SEIDs : byULTEID[s] \in {None, bySEID[s]}
    /\ IndexesLeadToStored

LinkInv == SeidsUnique /\ RequestsName /\ TableNames

\* A request names the session it was built for.
LEMMA RequestNames ==
    ASSUME IInv, NEW o \in ops, o.at # "start"
    PROVE  LET m == PFCPRequest(o) IN
           m \in Request /\ m.ref = o.ref /\ o.ref \in Refs /\ Names(m)
<1>1. PFCPRequest(o) \in Request /\ o.ref \in Refs
  BY PFCPRequestTyped DEF IInv, N4TypeInv, SmfTypeOK, Op
<1> QED BY <1>1 DEF PFCPRequest, Names

\* What is on its way is a request of some session or the answer to one.
LEMMA NetTyped ==
    ASSUME N4TypeOK, NEW m \in net
    PROVE  \/ /\ m \in Request /\ m.ref \in Refs /\ m.seid \in SEIDs
              /\ m.type \in {"est", "mod", "del"}
           \/ m \in Response /\ m.type = "rsp" /\ m.req \in Request /\ m.req.ref \in Refs
           \/ m = AssocMsg /\ m.type = "assoc"
  BY SMTT(30) DEF N4TypeOK, Request, Response, EstMsg, ModMsg, DelMsg, AssocMsg

\* Only the reservation gives identifiers, and only requests built for a session are sent.
LEMMA IdsStep ==
    ASSUME IInv, SmfNext, ~SmfRestart,
           ~\E r \in Refs, t \in PDUTypes : createReserve(r, t)
    PROVE  /\ SameIds /\ UNCHANGED nextSEID
           /\ \A q \in Refs : pc'[q] = "unused" => pc[q] = "unused"
           /\ \A m \in net' : m \in net \/ \E o \in ops : o.at # "start" /\ m = PFCPRequest(o)
<1> DEFINE Goal == /\ SameIds /\ UNCHANGED nextSEID
                   /\ \A q \in Refs : pc'[q] = "unused" => pc[q] = "unused"
                   /\ \A m \in net' : m \in net \/ \E o \in ops : o.at # "start" /\ m = PFCPRequest(o)
<1> USE DEF IInv, N4TypeInv
<1>1. ASSUME NEW r \in Refs, Create(r) \/ handleDeleteSMContext(r) \/ cleanupOne(r)
      PROVE  Goal
  BY <1>1 DEF Create, createEncodeFailure, createInsert, createFinish, handleDeleteSMContext,
     cleanupOne, SameIds, SmfTypeOK
<1>2. ASSUME NEW o \in ops, Step(o) PROVE Goal
  <2>1. CASE releaseFinish(o) \/ releaseOne(o) \/ startReleaseGuard(o)
    BY <2>1 DEF releaseFinish, releaseOne, startReleaseGuard, SameIds
  <2>2. CASE \/ updateN2SmInfo(o) \/ updateActivating(o) \/ updateDeactivated(o)
             \/ handleHandoverPreparing(o) \/ handleHandoverReqAck(o)
             \/ handleHandoverResAllocFail(o) \/ handlePathSwitchSetupFail(o)
             \/ handleHandoverComplete(o) \/ handlePathSwitchReq(o)
             \/ runTargetFailedAction(o) \/ markSessionActive(o)
    <3>1. SameIds /\ UNCHANGED <<pc, nextSEID>>
      BY <2>2, UpdateTyped
    <3>2. net' = net
      BY <2>2 DEF updateN2SmInfo, updateActivating, updateDeactivated, handleHandoverPreparing,
         handleHandoverReqAck, handleHandoverResAllocFail, handlePathSwitchSetupFail,
         handleHandoverComplete, handlePathSwitchReq, runTargetFailedAction, markSessionActive,
         OnlySessAndOps
    <3> QED BY <3>1, <3>2
  <2>3. CASE \/ skipN4ForReleasing(o) \/ sendPFCP(o) \/ retransmit(o) \/ timeoutPFCP(o)
             \/ \E m \in net : receivePFCP(o, m)
    <3>1. SameIds /\ UNCHANGED <<pc, nextSEID>>
      BY <2>3, ExchangeTyped
    <3>2. \/ net' \subseteq net
          \/ o.at # "start" /\ net' = net \cup {PFCPRequest(o)}
      BY <2>3 DEF skipN4ForReleasing, sendPFCP, retransmit, timeoutPFCP, receivePFCP,
         OnlySessAndOps
    <3> QED BY <3>1, <3>2
  <2> QED BY <1>2, <2>1, <2>2, <2>3 DEF Step
<1>3. ASSUME NEW r \in Refs, NEW leg \in Legs, NEW i \in Inputs(leg),
             handleUpdateSMContext(r, leg, i[1], i[2])
      PROVE  Goal
  BY <1>3 DEF handleUpdateSMContext, SameIds
<1>4. ASSUME NEW hit \in SUBSET table, NEW b \in BOOLEAN, markSessionsReleasing(hit, b)
      PROVE  Goal
  <2>1. SameIds
    BY <1>4, MarkTyped
  <2> QED BY <1>4, <2>1 DEF markSessionsReleasing
<1>5. CASE cleanupAllSessions
  BY <1>5 DEF cleanupAllSessions, SameIds
<1> HIDE DEF Goal
<1> QED BY <1>1, <1>2, <1>3, <1>4, <1>5 DEF SmfNext, Goal

\* A step that changes no identifier keeps them exact.
LEMMA LinkSame ==
    ASSUME IInv, LinkInv, SameIds, UNCHANGED <<nextSEID, upfVars>>,
           \A q \in Refs : pc'[q] = "unused" => pc[q] = "unused",
           \A m \in net' : m \in net \/ \E o \in ops : o.at # "start" /\ m = PFCPRequest(o)
    PROVE  LinkInv'
<1> USE DEF IInv, N4TypeInv
<1>1. SeidsUnique'
  BY SMTT(30) DEF LinkInv, SeidsUnique, SameIds, Assigned
<1>2. RequestsName'
  <2> SUFFICES ASSUME NEW m \in net'
               PROVE  (m \in Request => Names(m)') /\ (m \in Response => Names(m.req)')
    BY DEF RequestsName
  <2>1. ASSUME NEW x \in Request, Names(x) PROVE Names(x)'
    <3>1. x.ref \in Refs BY DEF Request, EstMsg, ModMsg, DelMsg
    <3> QED BY <2>1, <3>1 DEF Names, SameIds
  <2>2. CASE m \in net
    <3>1. m \in Response => m.req \in Request BY DEF Response
    <3> QED BY <2>1, <2>2, <3>1 DEF LinkInv, RequestsName
  <2>3. ASSUME NEW o \in ops, o.at # "start", m = PFCPRequest(o)
        PROVE  m \in Request /\ m \notin Response /\ Names(m)'
    <3>1. m \in Request /\ Names(m) BY <2>3, RequestNames
    <3>2. m \notin Response BY <3>1 DEF Request, EstMsg, ModMsg, DelMsg, Response
    <3> QED BY <2>1, <3>1, <3>2
  <2> QED BY <2>2, <2>3
<1>3. TableNames'
  <2>1. \A s \in SEIDs : bySEID[s] # None => bySEID[s] \in Refs BY DEF UpfTypeOK
  <2> QED BY SMTT(30), <2>1 DEF LinkInv, TableNames, SameIds, upfVars, IndexesLeadToStored, Stored
<1> QED BY <1>1, <1>2, <1>3 DEF LinkInv

\* A new context takes a SEID nobody has, and nobody has heard of it yet.
LEMMA LinkReserve ==
    ASSUME IInv, LinkInv, NEW r \in Refs, NEW t \in PDUTypes, createReserve(r, t),
           UNCHANGED upfVars
    PROVE  LinkInv'
<1> USE DEF IInv, N4TypeInv
<1>0. UNCHANGED net BY DEF createReserve
<1>1. CASE UNCHANGED <<sess, nextSEID>>
  <2>1. \A q \in Refs : pc'[q] = "unused" => pc[q] = "unused"
    BY DEF createReserve, SmfTypeOK
  <2> QED BY <1>0, <1>1, <2>1, LinkSame DEF SameIds
<1>2. CASE ~UNCHANGED <<sess, nextSEID>>
  <2>1. /\ pc[r] = "unused" /\ ~Assigned(r) /\ nextSEID \in Nat
        /\ nextSEID' = nextSEID + 1 /\ pc' = [pc EXCEPT ![r] = "allocated"]
    BY SMTT(30), <1>2 DEF createReserve, LinkInv, SeidsUnique, SmfTypeOK
  <2>2. /\ sess'[r].seid = nextSEID + 1
        /\ \A q \in Refs : q # r => sess'[q] = sess[q]
    BY SMTT(30), <1>2 DEF createReserve, SmfTypeOK, Session
  <2>3. \A q \in Refs : Assigned(q) => sess[q].seid \in Nat /\ sess[q].seid <= nextSEID
    BY SMTT(30) DEF SmfTypeOK, Session, Assigned, SEIDs, LinkInv, SeidsUnique
  <2>4. \A q \in Refs : Assigned(q)' <=> Assigned(q) \/ q = r
    BY SMTT(30), <2>1, <2>2 DEF Assigned
  <2>5. SeidsUnique'
    <3>1. \A q \in Refs : pc'[q] = "unused" => ~Assigned(q)'
      BY <2>1, <2>4 DEF SmfTypeOK, LinkInv, SeidsUnique
    <3>2. \A q \in Refs : Assigned(q)' => sess'[q].seid <= nextSEID'
      BY SMTT(30), <2>1, <2>2, <2>3, <2>4
    <3>3. ASSUME NEW p \in Refs, NEW q \in Refs, Assigned(p)', sess'[p].seid = sess'[q].seid
          PROVE  p = q
      <4>1. Assigned(q)' BY <3>3 DEF Assigned
      <4>2. CASE p = r /\ q # r BY SMTT(30), <2>1, <2>2, <2>3, <2>4, <3>3, <4>1, <4>2
      <4>3. CASE p # r /\ q = r BY SMTT(30), <2>1, <2>2, <2>3, <2>4, <3>3, <4>1, <4>3
      <4>4. CASE p # r /\ q # r BY <2>2, <2>4, <3>3, <4>4 DEF LinkInv, SeidsUnique
      <4> QED BY <4>2, <4>3, <4>4
    <3> QED BY <3>1, <3>2, <3>3 DEF SeidsUnique
  <2>6. RequestsName'
    <3>1. ASSUME NEW x \in Request, Names(x) PROVE Names(x)'
      <4>1. x.ref \in Refs /\ x.seid \in SEIDs BY DEF Request, EstMsg, ModMsg, DelMsg
      <4>2. x.ref # r BY SMTT(30), <2>1, <3>1, <4>1 DEF Names, Assigned, SEIDs
      <4> QED BY <2>2, <3>1, <4>1, <4>2 DEF Names
    <3>2. \A m \in Response : m.req \in Request BY DEF Response
    <3> QED BY <1>0, <3>1, <3>2 DEF LinkInv, RequestsName
  <2>7. TableNames'
    <3>1. \A s \in SEIDs : bySEID[s] # None => bySEID[s] \in Refs \ {r}
      BY SMTT(30), <2>1 DEF UpfTypeOK, LinkInv, TableNames, Assigned, SEIDs
    <3> QED BY SMTT(30), <2>2, <3>1 DEF LinkInv, TableNames, upfVars, IndexesLeadToStored, Stored
  <2> QED BY <2>5, <2>6, <2>7 DEF LinkInv
<1> QED BY <1>1, <1>2

\* An answer names the session its request named.
LEMMA AnswerNames ==
    ASSUME IInv, RequestsName, NEW m \in net, m \in Request, NEW c, UNCHANGED sess,
           Respond(m, c)
    PROVE  RequestsName'
<1>1. Names(m) BY DEF RequestsName
<1>2. \A x \in net' : x \in net \/ x = Answer(m, c) BY DEF Respond
<1>3. Answer(m, c).type = "rsp" /\ Answer(m, c).req = m BY DEF Answer
<1>4. Answer(m, c) \notin Request BY <1>3 DEF Request, EstMsg, ModMsg, DelMsg
<1> QED BY <1>1, <1>2, <1>3, <1>4 DEF RequestsName, Names

\* A session the table knows is found under its own SEID and no other.
LEMMA StoredAt ==
    ASSUME IInv, LinkInv
    PROVE  \A q \in Refs : q \in Stored <=>
               sess[q].seid \in SEIDs /\ bySEID[sess[q].seid] = q
  BY SMTT(30) DEF Stored, LinkInv, TableNames, IInv, N4TypeInv, UpfTypeOK

\* The handlers of the UPF keep its indexes on the sessions it stores.
LEMMA LinkUpf ==
    ASSUME IInv, LinkInv, UpfNext \/ UpfRestart, UNCHANGED smfVars
    PROVE  LinkInv'
<1> USE DEF IInv, N4TypeInv
<1>1. UNCHANGED <<sess, pc, nextSEID>> BY DEF smfVars
<1>2. SeidsUnique' BY <1>1 DEF LinkInv, SeidsUnique, Assigned
<1>3. ASSUME NEW m \in net, handleSessionEstablishment(m) PROVE RequestsName' /\ TableNames'
  <2>1. m \in EstMsg /\ m \in Request /\ Names(m) /\ m.ref \in Refs /\ m.seid \in SEIDs
    BY <1>3, NetTyped DEF handleSessionEstablishment, Request, EstMsg, ModMsg, DelMsg, LinkInv,
       RequestsName
  <2>2. RequestsName' BY <1>1, <1>3, <2>1, AnswerNames DEF handleSessionEstablishment, LinkInv
  <2> DEFINE r == m.ref
  <2>3. /\ m.seid = sess[r].seid /\ m.ip = sess[r].ip /\ m.pfx = sess[r].pfx
    BY <2>1 DEF Names, EstMsg
  <2>4. /\ upfObj'[r].seid = m.seid /\ upfObj'[r].ip = m.ip /\ upfObj'[r].pfx = m.pfx
        /\ \A q \in Refs : q # r => upfObj'[q] = upfObj[q]
    BY <1>3, <2>1 DEF handleSessionEstablishment, UpfTypeOK
  <2>5. /\ bySEID' = Index(bySEID, m.seid, r) /\ byULTEID' = Index(byULTEID, m.seid, r)
        /\ byUEIP' = Index(byUEIP, m.ip, r) /\ byUEIPv6Net' = Index(byUEIPv6Net, m.pfx, r)
    BY <1>3 DEF handleSessionEstablishment, store
  <2>6. \A q \in Refs : q \in Stored \/ q = r => q \in Stored'
    <3>1. r \in Stored' BY <2>1, <2>5 DEF Stored, Index, UpfTypeOK
    <3>2. ASSUME NEW q \in Refs, q \in Stored, q # r PROVE q \in Stored'
      <4>1. sess[q].seid \in SEIDs /\ bySEID[sess[q].seid] = q BY <3>2, StoredAt
      <4>2. sess[q].seid # m.seid
        BY SMTT(30), <2>1, <2>3, <3>2, <4>1 DEF LinkInv, SeidsUnique, Assigned, SEIDs
      <4> QED BY <2>5, <4>1, <4>2 DEF Stored, Index, UpfTypeOK
    <3> QED BY <3>1, <3>2
  <2>7. ASSUME NEW s \in SEIDs, bySEID'[s] # None
        PROVE  /\ sess'[bySEID'[s]].seid = s /\ upfObj'[bySEID'[s]].seid = s
               /\ upfObj'[bySEID'[s]].ip = sess'[bySEID'[s]].ip
               /\ upfObj'[bySEID'[s]].pfx = sess'[bySEID'[s]].pfx
    <3>1. CASE s = m.seid BY <1>1, <2>1, <2>3, <2>4, <2>5, <3>1 DEF Index, UpfTypeOK
    <3>2. CASE s # m.seid
      <4>1. bySEID'[s] = bySEID[s] BY <2>5, <3>2 DEF Index, UpfTypeOK
      <4>2. bySEID[s] \in Refs /\ bySEID[s] # r
        BY SMTT(30), <2>3, <2>7, <3>2, <4>1 DEF LinkInv, TableNames, UpfTypeOK
      <4> QED BY SMTT(30), <1>1, <2>4, <2>7, <4>1, <4>2 DEF LinkInv, TableNames
    <3> QED BY <3>1, <3>2
  <2>8. \A s \in SEIDs : byULTEID'[s] \in {None, bySEID'[s]}
    BY <2>5 DEF Index, LinkInv, TableNames, UpfTypeOK
  <2>9. r \in Stored => upfObj[r].ip = m.ip /\ upfObj[r].pfx = m.pfx
    BY SMTT(30), <2>1, <2>3, StoredAt DEF LinkInv, TableNames
  <2>10. IndexesLeadToStored'
    <3>1. ASSUME NEW s \in SEIDs, byULTEID'[s] # None PROVE byULTEID'[s] \in Stored'
      BY <2>8, <3>1 DEF Stored
    <3>2. ASSUME NEW a \in Hosts, byUEIP'[a] # None
          PROVE  byUEIP'[a] \in Stored' /\ upfObj'[byUEIP'[a]].ip = a
      <4>1. byUEIP'[a] \in Refs /\ byUEIP'[a] = IF a = m.ip THEN r ELSE byUEIP[a]
        BY <2>1, <2>5, <3>2 DEF Index, UpfTypeOK
      <4>2. CASE a = m.ip BY <2>1, <2>4, <2>6, <4>1, <4>2
      <4>3. CASE a # m.ip
        <5>1. byUEIP[a] \in Stored /\ upfObj[byUEIP[a]].ip = a
          BY <3>2, <4>1, <4>3 DEF LinkInv, TableNames, IndexesLeadToStored
        <5> QED BY <2>4, <2>6, <2>9, <4>1, <4>3, <5>1
      <4> QED BY <4>2, <4>3
    <3>3. ASSUME NEW a \in Prefixes, byUEIPv6Net'[a] # None
          PROVE  byUEIPv6Net'[a] \in Stored' /\ upfObj'[byUEIPv6Net'[a]].pfx = a
      <4>1. byUEIPv6Net'[a] \in Refs /\ byUEIPv6Net'[a] = IF a = m.pfx THEN r ELSE byUEIPv6Net[a]
        BY <2>1, <2>5, <3>3 DEF Index, UpfTypeOK
      <4>2. CASE a = m.pfx BY <2>1, <2>4, <2>6, <4>1, <4>2
      <4>3. CASE a # m.pfx
        <5>1. byUEIPv6Net[a] \in Stored /\ upfObj[byUEIPv6Net[a]].pfx = a
          BY <3>3, <4>1, <4>3 DEF LinkInv, TableNames, IndexesLeadToStored
        <5> QED BY <2>4, <2>6, <2>9, <4>1, <4>3, <5>1
      <4> QED BY <4>2, <4>3
    <3> QED BY <3>1, <3>2, <3>3 DEF IndexesLeadToStored
  <2> QED BY <2>2, <2>7, <2>8, <2>10 DEF TableNames
<1>4. ASSUME NEW m \in net, handleSessionModification(m) PROVE RequestsName' /\ TableNames'
  <2>1. m \in Request /\ m.ref \in Refs /\ m.seid \in SEIDs
    BY <1>4, NetTyped DEF handleSessionModification, AssocMsg
  <2>2. RequestsName' BY <1>1, <1>4, <2>1, AnswerNames DEF handleSessionModification, LinkInv
  <2>3. \A q \in Refs : /\ upfObj'[q].seid = upfObj[q].seid
                        /\ upfObj'[q].ip = upfObj[q].ip /\ upfObj'[q].pfx = upfObj[q].pfx
    BY SMTT(30), <1>4, <2>1 DEF handleSessionModification, UpfTypeOK
  <2>4. UNCHANGED <<bySEID, byULTEID, byUEIP, byUEIPv6Net>>
    BY <1>4 DEF handleSessionModification
  <2>5. TableNames' 
    BY SMTT(30), <1>1, <2>3, <2>4 DEF LinkInv, TableNames, UpfTypeOK, IndexesLeadToStored, Stored
  <2> QED BY <2>2, <2>5
<1>5. ASSUME NEW m \in net, handleSessionDeletion(m) PROVE RequestsName' /\ TableNames'
  <2>1. m \in Request /\ m.ref \in Refs /\ m.seid \in SEIDs
    BY <1>5, NetTyped DEF handleSessionDeletion, AssocMsg
  <2>2. RequestsName' BY <1>1, <1>5, <2>1, AnswerNames DEF handleSessionDeletion, LinkInv
  <2>3. CASE UNCHANGED upfVars
    BY SMTT(30), <1>1, <2>2, <2>3 DEF LinkInv, TableNames, IndexesLeadToStored, Stored, upfVars
  <2>4. CASE bySEID[m.seid] # None /\ delete(m.seid)
             /\ upfObj' = [upfObj EXCEPT ![bySEID[m.seid]] = NoObj]
    <3> DEFINE r == bySEID[m.seid]
    <3>1. /\ r \in Refs /\ sess[r].seid = m.seid /\ upfObj[r].seid = m.seid
      BY SMTT(30), <2>1, <2>4 DEF LinkInv, TableNames, UpfTypeOK
    <3>2. \A q \in Refs : q # r => upfObj'[q] = upfObj[q]
      BY <2>4, <3>1 DEF UpfTypeOK
    <3>3. /\ bySEID' = Index(bySEID, m.seid, None) /\ byULTEID' = Index(byULTEID, m.seid, None)
          /\ byUEIP' = Index(byUEIP, upfObj[r].ip, None)
          /\ byUEIPv6Net' = Index(byUEIPv6Net, upfObj[r].pfx, None)
      BY <2>4, <3>1 DEF delete
    <3>4. \A q \in Refs : q \in Stored /\ q # r => q \in Stored'
      BY SMTT(30), <3>1, <3>3, StoredAt DEF Stored, Index, UpfTypeOK
    <3>5. ASSUME NEW s \in SEIDs, bySEID'[s] # None
          PROVE  bySEID'[s] = bySEID[s] /\ bySEID[s] \in Refs /\ bySEID[s] # r
      <4>1. s # m.seid /\ bySEID'[s] = bySEID[s]
        BY <3>3, <3>5 DEF Index, UpfTypeOK
      <4> QED BY SMTT(30), <3>1, <3>5, <4>1 DEF LinkInv, TableNames, UpfTypeOK
    <3>6. \A s \in SEIDs : byULTEID'[s] \in {None, bySEID'[s]}
      BY <3>3 DEF Index, LinkInv, TableNames, UpfTypeOK
    <3>7. IndexesLeadToStored'
      <4>1. ASSUME NEW s \in SEIDs, byULTEID'[s] # None PROVE byULTEID'[s] \in Stored'
        BY <3>6, <4>1 DEF Stored
      <4>2. ASSUME NEW a \in Hosts, byUEIP'[a] # None
            PROVE  byUEIP'[a] \in Stored' /\ upfObj'[byUEIP'[a]].ip = a
        <5>1. a # upfObj[r].ip /\ byUEIP'[a] = byUEIP[a] /\ byUEIP[a] \in Refs
          BY <3>3, <4>2 DEF Index, UpfTypeOK
        <5>2. byUEIP[a] \in Stored /\ upfObj[byUEIP[a]].ip = a
          BY <4>2, <5>1 DEF LinkInv, TableNames, IndexesLeadToStored
        <5> QED BY <3>2, <3>4, <5>1, <5>2
      <4>3. ASSUME NEW a \in Prefixes, byUEIPv6Net'[a] # None
            PROVE  byUEIPv6Net'[a] \in Stored' /\ upfObj'[byUEIPv6Net'[a]].pfx = a
        <5>1. a # upfObj[r].pfx /\ byUEIPv6Net'[a] = byUEIPv6Net[a] /\ byUEIPv6Net[a] \in Refs
          BY <3>3, <4>3 DEF Index, UpfTypeOK
        <5>2. byUEIPv6Net[a] \in Stored /\ upfObj[byUEIPv6Net[a]].pfx = a
          BY <4>3, <5>1 DEF LinkInv, TableNames, IndexesLeadToStored
        <5> QED BY <3>2, <3>4, <5>1, <5>2
      <4> QED BY <4>1, <4>2, <4>3 DEF IndexesLeadToStored
    <3>8. TableNames' BY SMTT(30), <1>1, <3>2, <3>5, <3>6, <3>7 DEF LinkInv, TableNames
    <3> QED BY <2>2, <3>8
  <2> QED BY <1>5, <2>3, <2>4 DEF handleSessionDeletion
<1>6. ASSUME NEW m \in net, handleAssociationSetup(m) PROVE RequestsName' /\ TableNames'
  BY SMTT(30), <1>1, <1>6 DEF handleAssociationSetup, LinkInv, RequestsName, Names, TableNames,
     IndexesLeadToStored, Stored, upfVars
<1>7. CASE UpfRestart
  <2>1. RequestsName' BY <1>1, <1>7 DEF UpfRestart, LinkInv, RequestsName, Names
  <2>2. TableNames' BY <1>7 DEF UpfRestart, TableNames, IndexesLeadToStored
  <2> QED BY <1>2, <2>1, <2>2 DEF LinkInv
<1> QED BY <1>2, <1>3, <1>4, <1>5, <1>6, <1>7 DEF UpfNext, LinkInv

\* While the SMF does not restart, no step of the system confuses two sessions.
LEMMA LinkKept ==
    ASSUME MaxRestarts = 0
    PROVE  IInv /\ LinkInv /\ [N4Next]_n4Vars => LinkInv'
<1> SUFFICES ASSUME IInv, LinkInv, [N4Next]_n4Vars PROVE LinkInv'
  OBVIOUS
<1>1. ~SmfRestart BY SMTT(30) DEF SmfRestart, IInv, N4TypeInv, SmfTypeOK
<1>2. CASE SmfNext /\ UNCHANGED upfVars
  <2>1. CASE \E r \in Refs, t \in PDUTypes : createReserve(r, t) BY <1>2, <2>1, LinkReserve
  <2>2. CASE ~\E r \in Refs, t \in PDUTypes : createReserve(r, t)
    BY <1>1, <1>2, <2>2, IdsStep, LinkSame DEF upfVars
  <2> QED BY <2>1, <2>2
<1>3. CASE (UpfNext \/ UpfRestart) /\ UNCHANGED smfVars BY <1>3, LinkUpf
<1>4. CASE net' \subseteq net /\ UNCHANGED <<smfVars, upfVars>>
  BY <1>4, LinkSame DEF smfVars, SameIds
<1> QED BY <1>2, <1>3, <1>4 DEF N4Next, Lose, n4Vars

\* Every entry of the UPF's TEID and address indexes leads to a session it still knows by
\* its SEID (SessionTable.store and delete), whatever requests are lost, repeated or
\* overtake one another and although the SMF reuses an address while requests of its
\* former holder are still on their way.  A restart of the SMF would reuse SEIDs.
THEOREM IndexSafety ==
    ASSUME MaxRestarts = 0
    PROVE  N4Spec => []IndexesLeadToStored
<1>1. N4Init => LinkInv
  BY SMTT(30) DEF N4Init, SmfInit, UpfInit, NewSessionTable, LinkInv, SeidsUnique, RequestsName,
         TableNames, IndexesLeadToStored, NoSession, Assigned
<1>2. LinkInv => IndexesLeadToStored BY DEF LinkInv, TableNames
<1>3. IInv /\ LinkInv /\ [N4Next]_n4Vars => LinkInv' BY LinkKept
<1> QED BY <1>1, <1>2, <1>3, TypeCorrect, PTL DEF N4Spec, IInv
-----------------------------------------------------------------------------
\* Before the UPF has handled its establishment request a session has no accepted switch.
Establishing(r) ==
    \/ pc[r] # "done"
    \/ \E o \in ops : o.leg = "est" /\ o.ref = r
    \/ \E m \in net : m.type = "est" /\ m.ref = r
Accepted(r) ==
    \/ sess[r].ho = "COMPLETED"
    \/ \E m \in net : m.type = "rsp" /\ m.cause = "accepted" /\ m.req.ref = r

\* An establishment is sent once, and every other exchange names a tunnel.
OpSwitches(o) ==
    /\ o.leg = "est" => o = Go("est", o.ref, "send") /\ pc[o.ref] = "done"
    /\ o.leg \notin {"tfail", "drop", "deact", "psfail"}
    /\ o.leg \in {"n2", "mod", "psreq"} => o.tun # None
    /\ o.leg = "comp" /\ o.at # "start" => o.tun # None
MessageSwitches(m) ==
    /\ m.type = "est" => pc[m.ref] = "done" /\ Go("est", m.ref, "send") \notin ops
    /\ m.type = "mod" => m.far # None

\* An accepted switch has left the session with a tunnel.
SwitchInv ==
    /\ \A o \in ops : OpSwitches(o)
    /\ \A m \in net : MessageSwitches(m)
    /\ \A r \in Refs : Establishing(r) => r \notin Stored /\ ~Accepted(r)
    /\ \A r \in Stored : Accepted(r) => upfObj[r].dl # None

\* A step that starts no operation but these, and that sends nothing.
LEMMA QuietSwitch ==
    ASSUME IInv, SwitchInv, NEW new, NEW o \in ops, Then(o, new), UNCHANGED <<pc, net>>,
           \A p \in new : p.leg # "est" /\ OpSwitches(p)
    PROVE  /\ \A p \in ops' : OpSwitches(p)'
           /\ \A m \in net' : MessageSwitches(m)'
           /\ \A q \in Refs : Establishing(q)' => Establishing(q)
<1>1. \A p \in ops' : p \in ops \/ p \in new BY DEF Then
<1>2. \A q \in Refs : Go("est", q, "send") \notin ops => Go("est", q, "send") \notin ops'
  <2>1. \A q \in Refs : Go("est", q, "send").leg = "est" BY DEF Go
  <2> QED BY <1>1, <2>1
<1>3. \A p \in ops' : OpSwitches(p)' BY <1>1 DEF SwitchInv, OpSwitches
<1>4. \A m \in net' : MessageSwitches(m)'
  <2>1. \A m \in net : m.type = "est" => m.ref \in Refs
    BY NetTyped DEF IInv, N4TypeInv
  <2> QED BY <1>2, <2>1 DEF SwitchInv, MessageSwitches
<1>5. \A q \in Refs : Establishing(q)' => Establishing(q) BY <1>1 DEF Establishing
<1> QED BY <1>3, <1>4, <1>5

\* What the induction asks of a step of the SMF.
SwitchStep ==
    /\ \A o \in ops' : OpSwitches(o)'
    /\ \A m \in net' : MessageSwitches(m)'
    /\ \A q \in Refs : Establishing(q)' => Establishing(q)
    /\ \A q \in Refs : Accepted(q)' => Accepted(q)

\* A handler that ends, or goes on to a step with a tunnel.
LEMMA UpdateSwitch ==
    ASSUME IInv, SwitchInv, NEW o \in ops,
           \/ updateN2SmInfo(o) \/ updateActivating(o) \/ updateDeactivated(o)
           \/ handleHandoverPreparing(o) \/ handleHandoverReqAck(o)
           \/ handleHandoverResAllocFail(o) \/ handlePathSwitchSetupFail(o)
           \/ handleHandoverComplete(o) \/ handlePathSwitchReq(o)
           \/ runTargetFailedAction(o) \/ markSessionActive(o)
    PROVE  SwitchStep
<1>0. o \in Op /\ o.ref \in Refs /\ OpSwitches(o) /\ sess \in [Refs -> Session]
  BY DEF IInv, N4TypeInv, SmfTypeOK, Op, SwitchInv
<1>1. ~updateDeactivated(o) /\ ~handlePathSwitchSetupFail(o) /\ ~runTargetFailedAction(o)
  BY <1>0 DEF updateDeactivated, handlePathSwitchSetupFail, runTargetFailedAction, OpSwitches
<1>2. OnlySessAndOps
  BY DEF updateN2SmInfo, updateActivating, updateDeactivated, handleHandoverPreparing,
     handleHandoverReqAck, handleHandoverResAllocFail, handlePathSwitchSetupFail,
     handleHandoverComplete, handlePathSwitchReq, runTargetFailedAction, markSessionActive
<1>3. \E new : Then(o, new) /\ \A p \in new : p.leg # "est" /\ OpSwitches(p)
  <2>1. CASE updateN2SmInfo(o)
    <3> DEFINE m == [Go("mod", o.ref, "check") EXCEPT !.tun = o.tun]
    <3>1. m.leg = "mod" /\ m.tun = o.tun /\ o.tun # None
      BY <1>0, <2>1 DEF Go, OpSwitches, updateN2SmInfo
    <3>2. m.leg # "est" /\ OpSwitches(m) BY <3>1 DEF OpSwitches
    <3>3. Then(o, {}) \/ Then(o, {m}) BY <2>1 DEF updateN2SmInfo
    <3> HIDE DEF m
    <3> QED BY SMTT(30), <3>2, <3>3
  <2>2. CASE updateActivating(o) \/ handleHandoverPreparing(o) \/ handleHandoverReqAck(o)
             \/ handleHandoverResAllocFail(o)
    <3>1. Then(o, {}) BY <2>2 DEF updateActivating, handleHandoverPreparing,
             handleHandoverReqAck, handleHandoverResAllocFail
    <3> QED BY SMTT(30), <3>1
  <2>3. CASE handleHandoverComplete(o)
    <3> DEFINE m == [o EXCEPT !.at = "mark", !.tun = sess[o.ref].tgt, !.prev = sess[o.ref].state]
    <3>1. Then(o, {}) \/ (sess[o.ref].tgt # None /\ Then(o, {m}))
      BY <2>3 DEF handleHandoverComplete
    <3>2. sess[o.ref].tgt # None => m.leg # "est" /\ OpSwitches(m)
      <4>1. m.leg = "comp" /\ m.tun = sess[o.ref].tgt BY <1>0, <2>3 DEF handleHandoverComplete, Op
      <4> HIDE DEF m
      <4> QED BY <4>1 DEF OpSwitches
    <3> HIDE DEF m
    <3> QED BY SMTT(30), <3>1, <3>2
  <2>4. CASE handlePathSwitchReq(o)
    <3> DEFINE m == [o EXCEPT !.at = "mark", !.prev = sess[o.ref].state]
    <3>1. Then(o, {}) \/ Then(o, {m}) BY <2>4 DEF handlePathSwitchReq
    <3>2. m.leg = "psreq" /\ m.tun = o.tun /\ o.tun # None
      BY <1>0, <2>4 DEF handlePathSwitchReq, Op, OpSwitches
    <3> HIDE DEF m
    <3>3. m.leg # "est" /\ OpSwitches(m) BY <3>2 DEF OpSwitches
    <3> QED BY SMTT(30), <3>1, <3>3
  <2>5. CASE markSessionActive(o)
    <3> DEFINE m == [o EXCEPT !.at = "check"]
    <3>1. Then(o, {}) \/ Then(o, {m}) BY <2>5 DEF markSessionActive
    <3>2. m.leg = o.leg /\ m.tun = o.tun /\ m.at = "check" /\ o.at = "mark"
      BY <1>0, <2>5 DEF markSessionActive, Op
    <3>3. o.leg # "est" BY SMTT(30), <1>0, <3>2 DEF OpSwitches, Go
    <3> HIDE DEF m
    <3>4. m.leg # "est" /\ OpSwitches(m) BY <1>0, <3>2, <3>3 DEF OpSwitches
    <3> QED BY SMTT(30), <3>1, <3>4
  <2> QED BY <1>1, <2>1, <2>2, <2>3, <2>4, <2>5
<1>4. \A q \in Refs : sess'[q].ho = "COMPLETED" => sess[q].ho = "COMPLETED"
  <2>1. CASE updateN2SmInfo(o) \/ updateActivating(o) \/ markSessionActive(o)
    BY SMTT(30), <1>0, <2>1 DEF updateN2SmInfo, updateActivating, markSessionActive, Session
  <2>2. CASE handleHandoverPreparing(o) \/ handleHandoverReqAck(o)
    BY <1>0, <2>2 DEF handleHandoverPreparing, handleHandoverReqAck, Session
  <2>3. CASE handleHandoverResAllocFail(o)
    BY SMTT(30), <1>0, <2>3 DEF handleHandoverResAllocFail, Session
  <2>4. CASE handleHandoverComplete(o) \/ handlePathSwitchReq(o)
    BY <2>4 DEF handleHandoverComplete, handlePathSwitchReq
  <2> QED BY <1>1, <2>1, <2>2, <2>3, <2>4
<1> QED BY <1>2, <1>3, <1>4, QuietSwitch DEF OnlySessAndOps, SwitchStep, Accepted

\* An exchange: what is sent names a tunnel, and what is marked COMPLETED was accepted.
LEMMA ExchangeSwitch ==
    ASSUME IInv, SwitchInv, NEW o \in ops,
           \/ skipN4ForReleasing(o) \/ sendPFCP(o) \/ retransmit(o) \/ timeoutPFCP(o)
           \/ \E m \in net : receivePFCP(o, m)
    PROVE  SwitchStep
<1>0. /\ o \in Op /\ o.ref \in Refs /\ OpSwitches(o) /\ sess \in [Refs -> Session]
      /\ o.at # "start" => o.leg \in N4Legs
  BY DEF IInv, N4TypeInv, SmfTypeOK, Op, SwitchInv, OnlyAssigned
<1>1. \A q \in Refs : N4Failure(o) => sess'[q].ho = sess[q].ho
  BY SMTT(30), <1>0 DEF N4Failure, Session
<1>2. CASE skipN4ForReleasing(o)
  <2> DEFINE m == [o EXCEPT !.at = "send"]
  <2>1. Then(o, {}) \/ Then(o, {m}) BY <1>2 DEF skipN4ForReleasing
  <2>2. m.leg = o.leg /\ m.tun = o.tun /\ m.at = "send" /\ o.at = "check"
    BY <1>0, <1>2 DEF skipN4ForReleasing, Op
  <2>3. o.leg # "est" BY SMTT(30), <1>0, <2>2 DEF OpSwitches, Go
  <2> HIDE DEF m
  <2>4. m.leg # "est" /\ OpSwitches(m) BY <1>0, <2>2, <2>3 DEF OpSwitches
  <2>5. OnlySessAndOps /\ \A q \in Refs : sess'[q].ho = sess[q].ho
    BY <1>1, <1>2 DEF skipN4ForReleasing
  <2> QED BY SMTT(30), <2>1, <2>4, <2>5, QuietSwitch DEF OnlySessAndOps, SwitchStep, Accepted
<1>3. CASE timeoutPFCP(o)
  <2>1. Then(o, {}) /\ OnlySessAndOps /\ \A q \in Refs : sess'[q].ho = sess[q].ho
    BY <1>1, <1>3 DEF timeoutPFCP
  <2> QED BY SMTT(30), <2>1, QuietSwitch DEF OnlySessAndOps, SwitchStep, Accepted
<1>4. ASSUME NEW m \in net, receivePFCP(o, m) PROVE SwitchStep
  <2>1. /\ ops' = ops \ {o} /\ net' = net \ {m} /\ pc' = pc
        /\ m.type = "rsp" /\ m.req = PFCPRequest(o) /\ o.at = "wait"
        /\ IF m.cause = "accepted" THEN N4Success(o) ELSE N4Failure(o)
    BY <1>4 DEF receivePFCP, Then
  <2>2. \A p \in ops' : OpSwitches(p)' BY <2>1 DEF SwitchInv, OpSwitches
  <2>3. \A x \in net' : MessageSwitches(x)' BY <2>1 DEF SwitchInv, MessageSwitches
  <2>4. \A q \in Refs : Establishing(q)' => Establishing(q) BY <2>1 DEF Establishing
  <2>5. m.req.ref = o.ref BY <1>0, <2>1, RequestNames
  <2>6. ASSUME NEW q \in Refs, sess'[q].ho = "COMPLETED" PROVE Accepted(q)
    <3>1. CASE N4Failure(o) BY <1>1, <2>6, <3>1 DEF Accepted
    <3>2. CASE m.cause = "accepted" /\ N4Success(o)
      <4>1. q # o.ref => sess'[q].ho = sess[q].ho BY <1>0, <3>2 DEF N4Success, Session
      <4> QED BY <2>1, <2>5, <2>6, <3>2, <4>1 DEF Accepted
    <3> QED BY <2>1, <3>1, <3>2
  <2>7. \A q \in Refs : Accepted(q)' => Accepted(q) BY <2>1, <2>6 DEF Accepted
  <2> QED BY <2>2, <2>3, <2>4, <2>7 DEF SwitchStep
<1>5. CASE sendPFCP(o) \/ retransmit(o)
  <2> DEFINE c == [o EXCEPT !.at = "wait"]
  <2>0. PICK m : m = PFCPRequest(o) OBVIOUS
  <2>1. /\ o.at \in {"send", "wait"} /\ UNCHANGED <<sess, pc>> /\ net' = net \cup {m}
        /\ \/ ops' = ops \ {o} \/ ops' = (ops \ {o}) \cup {c}
           \/ o.at = "wait" /\ ops' = ops
        /\ o.leg = "est" => ops' = ops \ {o} \/ (o.at = "wait" /\ ops' = ops)
    BY <1>5, <2>0 DEF sendPFCP, retransmit, Then, smfVars, PFCPRequest, Awaited
  <2>2. m \in Request /\ m.ref = o.ref BY <2>0, <2>1, RequestNames
  <2>3. m.type = IF o.leg \in {"est", "del"} THEN o.leg ELSE "mod" BY <2>0 DEF PFCPRequest
  <2>4. m.type = "mod" => o.leg \notin {"est", "del"} /\ m.far = o.tun
    BY <2>0 DEF PFCPRequest
  <2>5. o.leg = "est" => o = Go("est", o.ref, "send") /\ o.at = "send" BY SMTT(30), <1>0 DEF OpSwitches, Go
  <2>6. o.leg # "est" => c.leg = o.leg /\ OpSwitches(c)
    BY <1>0, <2>1 DEF Op, OpSwitches
  <2>7. o.leg \notin {"est", "del"} => o.tun # None
    BY <1>0, <2>1 DEF OpSwitches, N4Legs
  <2> HIDE DEF c
  <2>8. \A p \in ops' : p \in ops \/ (p = c /\ o.leg # "est") BY <2>1, <2>5
  <2>9. \A p \in ops' : OpSwitches(p)'
    BY <2>1, <2>6, <2>8 DEF SwitchInv, OpSwitches
  <2>10. \A q \in Refs : Go("est", q, "send") \notin ops => Go("est", q, "send") \notin ops'
    <3>1. \A q \in Refs : Go("est", q, "send").leg = "est" BY DEF Go
    <3> QED BY <2>6, <2>8, <3>1
  <2>11. \A x \in net' : MessageSwitches(x)'
    <3>1. \A x \in net : x.type = "est" => x.ref \in Refs
      BY NetTyped DEF IInv, N4TypeInv
    <3>2. \A x \in net : MessageSwitches(x)'
      BY <2>1, <2>10, <3>1 DEF SwitchInv, MessageSwitches
    <3>3. MessageSwitches(m)'
      <4>1. m.type = "est" => o.leg = "est" /\ ops' = ops \ {o} /\ pc'[m.ref] = "done"
        BY <1>0, <2>1, <2>2, <2>3, <2>5 DEF OpSwitches
      <4> QED BY <2>2, <2>4, <2>5, <2>7, <4>1 DEF MessageSwitches
    <3> QED BY <2>1, <3>2, <3>3
  <2>12. \A q \in Refs : Establishing(q)' => Establishing(q)
    <3>1. m.type = "est" => o.leg = "est" BY <2>3
    <3> QED BY <2>1, <2>2, <2>6, <2>8, <3>1 DEF Establishing
  <2>13. \A q \in Refs : Accepted(q)' => Accepted(q)
    <3>1. m.type # "rsp" BY <1>0, <2>3
    <3> QED BY <2>1, <3>1 DEF Accepted
  <2> QED BY <2>9, <2>11, <2>12, <2>13 DEF SwitchStep
<1> QED BY <1>2, <1>3, <1>4, <1>5

\* A step of the SMF that starts no exchange but these, and that sends nothing.
LEMMA AddSwitch ==
    ASSUME IInv, SwitchInv, UNCHANGED <<pc, net>>,
           \A p \in ops' : p \in ops \/ (p.leg # "est" /\ OpSwitches(p)),
           \A q \in Refs : sess'[q].ho = sess[q].ho
    PROVE  SwitchStep
<1>1. \A q \in Refs : Go("est", q, "send") \notin ops => Go("est", q, "send") \notin ops'
  <2>1. \A q \in Refs : Go("est", q, "send").leg = "est" BY DEF Go
  <2> QED BY <2>1
<1>2. \A p \in ops' : OpSwitches(p)' BY DEF SwitchInv, OpSwitches
<1>3. \A m \in net' : MessageSwitches(m)'
  <2>1. \A m \in net : m.type = "est" => m.ref \in Refs
    BY NetTyped DEF IInv, N4TypeInv
  <2> QED BY <1>1, <2>1 DEF SwitchInv, MessageSwitches
<1>4. \A q \in Refs : Establishing(q)' => Establishing(q) BY DEF Establishing
<1>5. \A q \in Refs : Accepted(q)' => Accepted(q) BY DEF Accepted
<1> QED BY <1>2, <1>3, <1>4, <1>5 DEF SwitchStep

\* A creation: the establishment is started once, by a handler that has not finished.
LEMMA CreateSwitch ==
    ASSUME IInv, SwitchInv, NEW r \in Refs, Create(r)
    PROVE  SwitchStep
<1>0. /\ sess \in [Refs -> Session] /\ ops \subseteq Op
      /\ \A m \in net : m.type = "est" => m.ref \in Refs
      /\ DOMAIN pc = Refs
  BY NetTyped DEF IInv, N4TypeInv, SmfTypeOK
<1> DEFINE g == Go("est", r, "send")
<1>1. /\ UNCHANGED net /\ pc[r] # "done" /\ pc' = [pc EXCEPT ![r] = pc'[r]]
      /\ ops' = ops \/ (ops' = ops \cup {g} /\ pc'[r] = "done")
  <2>1. ASSUME NEW t \in PDUTypes, createReserve(r, t)
        PROVE  \/ pc' = [pc EXCEPT ![r] = "refused"] \/ pc' = [pc EXCEPT ![r] = "allocated"]
    BY <2>1 DEF createReserve
  <2>2. ASSUME NEW t \in PDUTypes, createReserve(r, t)
        PROVE  UNCHANGED net /\ pc[r] # "done" /\ ops' = ops
    BY <2>2 DEF createReserve
  <2>3. CASE \E t \in PDUTypes : createReserve(r, t) BY <1>0, <2>1, <2>2, <2>3
  <2>4. CASE createEncodeFailure(r) BY <1>0, <2>4 DEF createEncodeFailure
  <2>5. CASE createInsert(r) BY <1>0, <2>5 DEF createInsert
  <2>6. CASE createFinish(r) BY <1>0, <2>6 DEF createFinish
  <2> QED BY <2>3, <2>4, <2>5, <2>6 DEF Create
<1>2. \A q \in Refs : sess'[q].ho = sess[q].ho
  <2>1. ASSUME NEW t \in PDUTypes, createReserve(r, t)
        PROVE  \A q \in Refs : sess'[q].ho = sess[q].ho
    <3> DEFINE u == selectPDUSessionType(t)
               x == nextSEID + 1
               y == IF pduTypeNeedsIPv4(u) THEN AllocateIPv4 ELSE None
               z == IF pduTypeNeedsIPv6(u) THEN AllocateIPv6 ELSE None
    <3>1. \/ sess' = sess \/ sess' = [sess EXCEPT ![r].seid = x, ![r].ip = y, ![r].pfx = z]
      BY <2>1 DEF createReserve
    <3> HIDE DEF x, y, z
    <3> QED BY SMTT(30), <1>0, <3>1 DEF Session
  <2> QED BY <2>1 DEF Create, createEncodeFailure, createInsert, createFinish
<1>3. g.leg = "est" /\ g.ref = r BY DEF Go
<1>4. \A q \in Refs : q # r => Go("est", q, "send") # g BY DEF Go
<1>5. OpSwitches(g)' <=> pc'[r] = "done" BY <1>3 DEF OpSwitches
<1> HIDE DEF g
<1>6. ASSUME NEW p \in ops PROVE OpSwitches(p)'
  <2>1. OpSwitches(p) /\ p.ref \in Refs BY <1>0 DEF SwitchInv, Op
  <2>2. p.leg = "est" => p.ref # r BY <1>1, <2>1 DEF OpSwitches
  <2> QED BY <1>0, <1>1, <2>1, <2>2 DEF OpSwitches
<1>7. \A p \in ops' : OpSwitches(p)' BY <1>1, <1>5, <1>6
<1>8. \A m \in net' : MessageSwitches(m)'
  <2>1. ASSUME NEW m \in net PROVE MessageSwitches(m)'
    <3>1. MessageSwitches(m) BY DEF SwitchInv
    <3>2. m.type = "est" => m.ref # r /\ m.ref \in Refs BY <1>0, <1>1, <3>1 DEF MessageSwitches
    <3> QED BY <1>0, <1>1, <1>4, <3>1, <3>2 DEF MessageSwitches
  <2> QED BY <1>1, <2>1
<1>9. \A q \in Refs : Establishing(q)' => Establishing(q)
  BY <1>0, <1>1, <1>3 DEF Establishing
<1>10. \A q \in Refs : Accepted(q)' => Accepted(q) BY <1>1, <1>2 DEF Accepted
<1> QED BY <1>7, <1>8, <1>9, <1>10 DEF SwitchStep

\* The steps of the SMF: none but an accepted answer makes a handover COMPLETED.
LEMMA SmfSwitch ==
    ASSUME IInv, SwitchInv, SmfNext, MaxRestarts = 0, Legs \cap {"deact", "psfail"} = {}
    PROVE  SwitchStep
<1>0. /\ sess \in [Refs -> Session] /\ ops \subseteq Op /\ table \subseteq Refs
      /\ restarts \in 0..MaxRestarts
  BY DEF IInv, N4TypeInv, SmfTypeOK
<1>1. \A r \in Refs, leg \in {"fin", "del", "guard", "rel"}, at \in {"start", "send"} :
          Go(leg, r, at).leg # "est" /\ OpSwitches(Go(leg, r, at))
  BY SMTT(30) DEF Go, OpSwitches
<1>2. ASSUME NEW r \in Refs, Create(r) PROVE SwitchStep BY <1>2, CreateSwitch
<1>3. ASSUME NEW r \in Refs, handleDeleteSMContext(r) \/ cleanupOne(r) PROVE SwitchStep
  <2>1. UNCHANGED <<pc, net, sess>> BY <1>3 DEF handleDeleteSMContext, cleanupOne
  <2>2. \/ ops' = ops \cup {Go("fin", r, "start")} \/ ops' = ops
        \/ ops' = ops \cup {Go("del", r, "send")}
    BY <1>3 DEF handleDeleteSMContext, cleanupOne
  <2> QED BY <1>1, <2>1, <2>2, AddSwitch
<1>4. ASSUME NEW r \in Refs, NEW leg \in Legs, NEW i \in Inputs(leg),
             handleUpdateSMContext(r, leg, i[1], i[2])
      PROVE  SwitchStep
  <2> DEFINE o == [Go(leg, r, "start") EXCEPT !.tun = i[1], !.does = i[2]]
  <2>1. leg \in UpdateLegs \ {"deact", "psfail"} BY SmfAssumption
  <2>2. leg \in {"n2", "psreq"} => i[1] # None BY N4Assumption DEF Inputs
  <2>3. o.leg = leg /\ o.tun = i[1] /\ o.at = "start" BY DEF Go
  <2>4. UNCHANGED <<pc, net, sess>> /\ ops' = ops \cup {o} BY <1>4 DEF handleUpdateSMContext
  <2> HIDE DEF o
  <2>5. o.leg # "est" /\ OpSwitches(o) BY <2>1, <2>2, <2>3 DEF OpSwitches, UpdateLegs
  <2> QED BY <2>4, <2>5, AddSwitch
<1>5. ASSUME NEW o \in ops, Step(o) PROVE SwitchStep
  <2>1. CASE releaseFinish(o) \/ releaseOne(o) \/ startReleaseGuard(o)
    <3>1. o.ref \in Refs BY <1>0 DEF Op
    <3>2. UNCHANGED <<pc, net, sess>>
      BY <2>1 DEF releaseFinish, releaseOne, startReleaseGuard
    <3>3. \/ Then(o, {}) \/ Then(o, {Go("del", o.ref, "send")})
          \/ Then(o, {Go("guard", o.ref, "start")}) \/ Then(o, {Go("fin", o.ref, "start")})
      BY <2>1 DEF releaseFinish, releaseOne, startReleaseGuard
    <3>4. \A p \in ops' : p \in ops \/ (p.leg # "est" /\ OpSwitches(p))
      BY SMTT(30), <1>1, <3>1, <3>3 DEF Then
    <3> QED BY <3>2, <3>4, AddSwitch
  <2> QED BY <1>5, <2>1, UpdateSwitch, ExchangeSwitch DEF Step
<1>6. ASSUME NEW hit \in SUBSET table, NEW b \in BOOLEAN, markSessionsReleasing(hit, b)
      PROVE  SwitchStep
  <2>1. UNCHANGED <<pc, net>> /\ \A q \in Refs : sess'[q].ho = sess[q].ho
    BY <1>0, <1>6 DEF markSessionsReleasing, Session
  <2>2. \A p \in ops' : p \in ops \/ \E r \in Refs : p = Go("rel", r, "start")
    BY <1>0, <1>6 DEF markSessionsReleasing
  <2> QED BY <1>1, <2>1, <2>2, AddSwitch
<1>7. ~cleanupAllSessions /\ ~SmfRestart
  BY SMTT(30), <1>0 DEF cleanupAllSessions, SmfRestart
<1> QED BY <1>2, <1>3, <1>4, <1>5, <1>6, <1>7 DEF SmfNext

\* The handlers of the UPF, and its restart: an accepted switch finds the session it is about
\* and leaves it with a tunnel, and an establishment comes before every switch.
LEMMA UpfSwitch ==
    ASSUME IInv, LinkInv, SwitchInv, UpfNext \/ UpfRestart, UNCHANGED smfVars
    PROVE  SwitchInv'
<1> USE DEF IInv, N4TypeInv
<1>1. UNCHANGED <<sess, pc, ops>> BY DEF smfVars
<1>2. \A o \in ops' : OpSwitches(o)' BY <1>1 DEF SwitchInv, OpSwitches
<1>3. Stored \subseteq Refs BY DEF Stored, UpfTypeOK
<1>4. ASSUME net' \subseteq net
      PROVE  /\ \A m \in net' : MessageSwitches(m)'
             /\ \A q \in Refs : Establishing(q)' => Establishing(q)
             /\ \A q \in Refs : Accepted(q)' => Accepted(q)
  BY <1>1, <1>4 DEF SwitchInv, MessageSwitches, Establishing, Accepted
<1>5. ASSUME NEW m \in net, handleSessionEstablishment(m) PROVE SwitchInv'
  <2>1. m \in EstMsg /\ Names(m) /\ m.type = "est" /\ m.ref \in Refs
    BY <1>5, NetTyped DEF handleSessionEstablishment, Request, EstMsg, ModMsg, DelMsg, LinkInv,
       RequestsName
  <2>2. net' = net \ {m} BY <1>5, <2>1 DEF handleSessionEstablishment, Respond, Awaited
  <2>3. Establishing(m.ref) /\ ~Accepted(m.ref) BY <2>1 DEF Establishing, SwitchInv
  <2>4. ~Establishing(m.ref)'
    <3>1. MessageSwitches(m) BY DEF SwitchInv
    <3>2. pc'[m.ref] = "done" /\ Go("est", m.ref, "send") \notin ops'
      BY <1>1, <2>1, <3>1 DEF MessageSwitches
    <3>3. \A o \in ops' : ~(o.leg = "est" /\ o.ref = m.ref)
      BY <1>1, <3>2 DEF SwitchInv, OpSwitches
    <3>4. ASSUME NEW x \in net', x.type = "est", x.ref = m.ref PROVE FALSE
      <4>1. x \in net /\ x # m BY <2>2
      <4>2. x \in EstMsg /\ Names(x)
        BY <3>4, <4>1, NetTyped DEF Request, EstMsg, ModMsg, DelMsg, LinkInv, RequestsName
      <4>3. x.seid = m.seid /\ x.ip = m.ip /\ x.pfx = m.pfx BY <2>1, <3>4, <4>2 DEF Names
      <4> QED BY SMTT(30), <2>1, <3>4, <4>1, <4>2, <4>3 DEF EstMsg
    <3> QED BY <3>2, <3>3, <3>4 DEF Establishing
  <2>5. Stored' \subseteq Stored \cup {m.ref}
    BY <1>5 DEF handleSessionEstablishment, store, Index, Stored, UpfTypeOK
  <2>6. \A q \in Refs : q # m.ref => upfObj'[q] = upfObj[q]
    BY <1>5, <2>1 DEF handleSessionEstablishment, UpfTypeOK
  <2> QED BY <1>1, <1>2, <1>3, <1>4, <2>1, <2>2, <2>3, <2>4, <2>5, <2>6 DEF SwitchInv
<1>6. ASSUME NEW m \in net, handleSessionModification(m) PROVE SwitchInv'
  <2>1. m \in Request /\ Names(m) /\ m.type = "mod" /\ m.ref \in Refs /\ m.seid \in SEIDs
    BY <1>6, NetTyped DEF handleSessionModification, AssocMsg, LinkInv, RequestsName
  <2>2. m.far # None BY <2>1 DEF SwitchInv, MessageSwitches
  <2>3. bySEID[m.seid] \in {None, m.ref}
    <3>1. bySEID[m.seid] \in Refs \cup {None} BY <2>1 DEF UpfTypeOK
    <3>2. CASE bySEID[m.seid] \in Refs
      <4>1. sess[bySEID[m.seid]].seid = m.seid /\ m.seid # None
        BY SMTT(30), <2>1, <3>2, N4Assumption DEF LinkInv, TableNames, SEIDs
      <4>2. sess[m.ref].seid = m.seid BY <2>1 DEF Names
      <4> QED BY <2>1, <3>2, <4>1, <4>2 DEF LinkInv, SeidsUnique, Assigned
    <3> QED BY <3>1, <3>2
  <2>4. Stored' = Stored BY <1>6 DEF handleSessionModification, Stored
  <2>5. PICK c \in {"accepted", "notFound"} :
           /\ Respond(m, c)
           /\ c = "accepted" => bySEID[m.seid] # None /\ upfObj'[m.ref].dl # None
    BY <1>6, <2>1, <2>2, <2>3 DEF handleSessionModification, UpfTypeOK
  <2>6. \A q \in Refs : q # m.ref => upfObj'[q] = upfObj[q]
    BY <1>6, <2>1, <2>3 DEF handleSessionModification, UpfTypeOK
  <2>7. upfObj'[m.ref].dl = upfObj[m.ref].dl \/ upfObj'[m.ref].dl # None
    BY <1>6, <2>1, <2>2, <2>3 DEF handleSessionModification, UpfTypeOK
  <2>8. PICK a : a = Answer(m, c) OBVIOUS
  <2>9. a.type = "rsp" /\ a.req = m /\ a.cause = c BY <2>8 DEF Answer
  <2>10. \A x \in net' : x \in net \/ x = a BY <2>5, <2>8 DEF Respond
  <2>11. \A x \in net' : MessageSwitches(x)'
    BY <1>1, <2>9, <2>10 DEF SwitchInv, MessageSwitches
  <2>12. \A q \in Refs : Establishing(q)' => Establishing(q)
    BY <1>1, <2>9, <2>10 DEF Establishing
  <2>13. \A q \in Refs : Accepted(q)' => Accepted(q) \/ (q = m.ref /\ c = "accepted")
    BY <1>1, <2>9, <2>10 DEF Accepted
  <2>14. c = "accepted" => m.ref \in Stored BY <2>1, <2>3, <2>5 DEF Stored
  <2> QED BY <1>1, <1>2, <1>3, <2>4, <2>5, <2>6, <2>7, <2>11, <2>12, <2>13, <2>14
          DEF SwitchInv
<1>7. ASSUME NEW m \in net, handleSessionDeletion(m) PROVE SwitchInv'
  <2>1. m \in Request /\ m.type = "del" /\ m.seid \in SEIDs
    BY <1>7, NetTyped DEF handleSessionDeletion, AssocMsg
  <2>2. net' \subseteq net BY <1>7, <2>1 DEF handleSessionDeletion, Respond, Awaited
  <2>3. \A q \in Stored' : q \in Stored /\ upfObj'[q] = upfObj[q]
    <3>1. CASE UNCHANGED upfVars BY <3>1 DEF upfVars, Stored
    <3>2. CASE bySEID[m.seid] # None /\ delete(m.seid)
               /\ upfObj' = [upfObj EXCEPT ![bySEID[m.seid]] = NoObj]
      <4>1. bySEID' = Index(bySEID, m.seid, None) BY <3>2 DEF delete
      <4>2. ASSUME NEW s \in SEIDs, bySEID'[s] # None
            PROVE  bySEID'[s] = bySEID[s] /\ bySEID[s] # bySEID[m.seid] /\ bySEID[s] \in Refs
        <5>1. s # m.seid /\ bySEID'[s] = bySEID[s] /\ bySEID[s] \in Refs
          BY <4>1, <4>2 DEF Index, UpfTypeOK
        <5> QED BY SMTT(30), <2>1, <3>2, <4>2, <5>1 DEF LinkInv, TableNames
      <4> QED BY SMTT(30), <3>2, <4>2 DEF Stored, UpfTypeOK
    <3> QED BY <1>7, <3>1, <3>2 DEF handleSessionDeletion
  <2> QED BY <1>1, <1>2, <1>3, <1>4, <2>2, <2>3 DEF SwitchInv
<1>8. ASSUME NEW m \in net, handleAssociationSetup(m) PROVE SwitchInv'
  <2>1. net' \subseteq net /\ UNCHANGED upfVars BY <1>8 DEF handleAssociationSetup
  <2> QED BY <1>1, <1>2, <1>3, <1>4, <2>1 DEF SwitchInv, upfVars, Stored
<1>9. CASE UpfRestart
  <2>1. net' \subseteq net /\ Stored' = {} BY <1>9 DEF UpfRestart, Stored
  <2> QED BY <1>1, <1>2, <1>4, <2>1 DEF SwitchInv
<1> QED BY <1>5, <1>6, <1>7, <1>8, <1>9 DEF UpfNext

\* Every step keeps the link between what was accepted and what the UPF forwards.
LEMMA SwitchKept ==
    ASSUME IInv, LinkInv, SwitchInv, [N4Next]_n4Vars, MaxRestarts = 0,
           Legs \cap {"deact", "psfail"} = {}
    PROVE  SwitchInv'
<1>1. CASE SmfNext /\ UNCHANGED upfVars
  <2>1. SwitchStep BY <1>1, SmfSwitch
  <2>2. Stored \subseteq Refs BY DEF IInv, N4TypeInv, UpfTypeOK, Stored
  <2> QED BY <1>1, <2>1, <2>2 DEF SwitchStep, SwitchInv, upfVars, Stored
<1>2. CASE (UpfNext \/ UpfRestart) /\ UNCHANGED smfVars BY <1>2, UpfSwitch
<1>3. CASE net' \subseteq net /\ UNCHANGED <<smfVars, upfVars>>
  <2>1. UNCHANGED <<sess, pc, ops>> /\ Stored' = Stored /\ upfObj' = upfObj
    BY <1>3 DEF smfVars, upfVars, Stored
  <2>2. Stored \subseteq Refs BY DEF IInv, N4TypeInv, UpfTypeOK, Stored
  <2>3. /\ \A o \in ops' : OpSwitches(o)'
        /\ \A m \in net' : MessageSwitches(m)'
    BY <1>3, <2>1 DEF SwitchInv, OpSwitches, MessageSwitches
  <2>4. \A q \in Refs : (Establishing(q)' => Establishing(q)) /\ (Accepted(q)' => Accepted(q))
    BY <1>3, <2>1 DEF Establishing, Accepted
  <2> QED BY <2>1, <2>2, <2>3, <2>4 DEF SwitchInv
<1> QED BY <1>1, <1>2, <1>3 DEF N4Next, Lose, n4Vars

\* A handover the SMF calls COMPLETED was switched by the UPF (handleHandoverComplete, "only
\* after the Session Modification Response with Cause 1"): whatever is lost, repeated or
\* overtakes, and although the UPF may restart, the session it still knows forwards down a
\* tunnel.  A deactivation takes the tunnel away, and a restart of the SMF reuses SEIDs.
THEOREM SwitchSafety ==
    ASSUME MaxRestarts = 0, Legs \cap {"deact", "psfail"} = {}
    PROVE  N4Spec => []CompletedIsSwitched
<1>1. N4Init => LinkInv /\ SwitchInv
  BY SMTT(30) DEF N4Init, SmfInit, UpfInit, NewSessionTable, LinkInv, SeidsUnique, RequestsName,
         TableNames, IndexesLeadToStored, NoSession, Assigned, SwitchInv, Stored, Accepted
<1>2. IInv /\ SwitchInv => CompletedIsSwitched
  BY DEF IInv, N4TypeInv, SmfTypeOK, SwitchInv, CompletedIsSwitched, Accepted
<1>3. IInv /\ LinkInv /\ SwitchInv /\ [N4Next]_n4Vars => LinkInv' /\ SwitchInv'
  BY LinkKept, SwitchKept
<1> QED BY <1>1, <1>2, <1>3, TypeCorrect, PTL DEF N4Spec, IInv
=============================================================================
