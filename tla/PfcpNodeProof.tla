--------------------------- MODULE PfcpNodeProof ----------------------------
(* For every number of sessions, restarts and instants: the types of PfcpNode, the
   rule that a baseline belongs to an association, and that only sessions the UPF
   really lost are released without a deletion.                                *)
EXTENDS PfcpNode, TLAPS

\* No time stamp of the UPF, wherever it is, is later than its present start; what the
\* UPF holds it installed in its present life and not after the SMF's own record of it.
NodeInv ==
    /\ NodeTypeOK
    /\ upfStart <= now
    /\ ans # None => ans <= upfStart
    /\ \A t \in inbound : t <= upfStart
    /\ \A p \in Procs : job[p].cutoff <= upfStart
    /\ \A s \in Sess : held[s] # None => upfStart <= held[s] /\ held[s] <= now
    /\ \A s \in Sess : held[s] # None => up
    /\ \A s \in Sess : smf[s] = "none" => exch[s] = "none"
    /\ \A s \in Sess : estAt[s] # None => exch[s] = "done"
    /\ \A s \in Sess : estAt[s] # None /\ held[s] # None => held[s] <= estAt[s]
    /\ sup \in {"setup", "assocWait"} => state # "ASSOCIATED"
    /\ BaselineOfAssociation

USE DEF Time, TimeOrNone, Procs

\* A time stamp is an instant, and not after the start it stands for (rtsOf).
LEMMA StampBounded == ASSUME NEW t \in Time PROVE rtsOf(t) \in Time /\ rtsOf(t) <= t
  <1>1. t % 2 \in 0..1 /\ (t > 0 \/ t = 0) /\ (t = 0 => t % 2 = 0)
    BY PfcpNodeAssumption
  <1> QED BY <1>1, PfcpNodeAssumption DEF rtsOf

\* The supervisor starts without an association, and nothing is on its way (NodeInit).
LEMMA NodeStarts == NodeInit => NodeInv
  <1> SUFFICES ASSUME NodeInit PROVE NodeInv OBVIOUS
  <1> USE PfcpNodeAssumption DEF NodeInit
  <1>1. up \in BOOLEAN BY ZenonT(60)
  <1>2. now \in Time /\ upfStart \in Time /\ starts \in 0..MaxStarts OBVIOUS
  <1>3. NodeTypeOK BY <1>1, <1>2 DEF NodeTypeOK
  <1>4. \A p \in Procs : job[p].cutoff <= upfStart BY DEF NoJob
  <1> QED BY <1>3, <1>4 DEF NodeInv, BaselineOfAssociation

\* The clock and the UPF preserve the invariant.
LEMMA UpfKeeps == NodeInv /\ (Tick \/ Upf) => NodeInv'
  <1> SUFFICES ASSUME NodeInv, Tick \/ Upf PROVE NodeInv' OBVIOUS
  <1> USE PfcpNodeAssumption DEF NodeInv, NodeTypeOK, BaselineOfAssociation
  <1>1. rtsOf(upfStart) \in Time /\ rtsOf(upfStart) <= upfStart BY StampBounded
  <1>2. CASE Tick BY <1>2 DEF Tick, upfVars, assocVars, sessVars
  <1>3. CASE UpfStarts
    <2>1. \A s \in Sess : held[s] = None BY <1>3 DEF UpfStarts
    <2> QED BY <1>3, <2>1 DEF UpfStarts, assocVars, sessVars, Job, NoJob
  <1>4. CASE UpfStops BY ZenonT(60), <1>4 DEF UpfStops, assocVars, sessVars
  <1>5. CASE UpfAnswers BY <1>1, <1>5 DEF UpfAnswers, upfVars, sessVars
  <1>6. CASE UpfHeartbeat BY ZenonT(60), <1>1, <1>6 DEF UpfHeartbeat, upfVars, sessVars
  <1> QED BY <1>2, <1>3, <1>4, <1>5, <1>6 DEF Upf

\* A goroutine that feeds a time stamp the UPF sent to observePeerRTS keeps to it.
LEMMA ObserveKeeps ==
  ASSUME NodeInv, NEW p \in Procs, NEW rts \in Time, rts <= upfStart,
         observePeerRTS(p, rts), state' = state
  PROVE /\ remoteRTS' \in TimeOrNone
        /\ job' \in [Procs -> Job \cup {NoJob}]
        /\ \A q \in Procs : job'[q].cutoff <= upfStart
        /\ BaselineOfAssociation'
  BY PfcpNodeAssumption DEF NodeInv, NodeTypeOK, observePeerRTS, Job, NoJob, BaselineOfAssociation

\* The recovery of either goroutine preserves the invariant.
LEMMA RecoveryKeeps ==
  ASSUME NodeInv, NEW p \in Procs, beginRecovery(p) \/ markSessionsReleasing(p)
  PROVE NodeInv'
  <1> USE PfcpNodeAssumption DEF NodeInv, NodeTypeOK, BaselineOfAssociation
  <1>1. job' \in [Procs -> Job \cup {NoJob}] /\ \A q \in Procs : job'[q].cutoff <= upfStart
    BY DEF beginRecovery, markSessionsReleasing, Job, NoJob
  <1>2. CASE beginRecovery(p)
    BY <1>1, <1>2 DEF beginRecovery, upfVars, sessVars
  <1>3. CASE markSessionsReleasing(p)
    BY <1>1, <1>3 DEF markSessionsReleasing, upfVars
  <1> QED BY <1>2, <1>3

\* The supervisor and the receiver preserve the invariant.
LEMMA SmfKeeps == NodeInv /\ (Supervisor \/ Receiver) => NodeInv'
  <1> SUFFICES ASSUME NodeInv, Supervisor \/ Receiver PROVE NodeInv' OBVIOUS
  <1>1. CASE beginRecovery("supervisor") \/ markSessionsReleasing("supervisor")
             \/ beginRecovery("receiver") \/ markSessionsReleasing("receiver")
    BY <1>1, RecoveryKeeps
  <1> USE PfcpNodeAssumption
  <1>2. CASE associationRequest \/ runAssociationSetup \/ associationTimeout \/ heartbeatRequest
             \/ heartbeatLoop
    BY ZenonT(60), <1>2 DEF NodeInv, NodeTypeOK, BaselineOfAssociation, associationRequest,
       runAssociationSetup, associationTimeout, heartbeatRequest, heartbeatLoop, upfVars, sessVars
  <1>3. CASE heartbeatTimeout
    BY <1>3 DEF NodeInv, NodeTypeOK, BaselineOfAssociation, heartbeatTimeout, Job, NoJob,
       upfVars, sessVars
  <1>4. CASE heartbeatResponse
    <2>1. ans \in Time /\ ans <= upfStart /\ state' = state
      BY <1>4 DEF heartbeatResponse, NodeInv, NodeTypeOK
    <2> QED BY <1>4, <2>1, ObserveKeeps DEF heartbeatResponse, NodeInv, NodeTypeOK, upfVars, sessVars
  <1>5. CASE \E rts \in inbound : handlePFCPHeartbeatRequest(rts)
    <2>1. PICK rts \in inbound : handlePFCPHeartbeatRequest(rts) BY <1>5
    <2>2. rts \in Time /\ rts <= upfStart /\ state' = state
      BY <2>1 DEF handlePFCPHeartbeatRequest, NodeInv, NodeTypeOK
    <2> QED BY <2>1, <2>2, ObserveKeeps
            DEF handlePFCPHeartbeatRequest, NodeInv, NodeTypeOK, upfVars, sessVars
  <1> QED BY <1>1, <1>2, <1>3, <1>4, <1>5 DEF Supervisor, Receiver

\* Creating, establishing and releasing a session preserve the invariant.
LEMMA SessionKeeps == ASSUME NodeInv, NEW s \in Sess, Sessions(s) PROVE NodeInv'
  <1> USE PfcpNodeAssumption DEF NodeInv, NodeTypeOK, BaselineOfAssociation
  <1>1. CASE createSession(s) BY <1>1 DEF createSession, upfVars, assocVars
  <1>2. CASE UpfEstablishes(s) BY <1>2 DEF UpfEstablishes, assocVars
  <1>3. CASE establishmentResponse(s) BY <1>3 DEF establishmentResponse, upfVars, assocVars
  <1>4. CASE establishmentTimeout(s) BY <1>4 DEF establishmentTimeout, upfVars, assocVars
  <1>5. CASE releaseOne(s) BY <1>5 DEF releaseOne, assocVars
  <1> QED BY <1>1, <1>2, <1>3, <1>4, <1>5 DEF Sessions

\* Every step preserves the invariant.
LEMMA NodeStep == NodeInv /\ [NodeNext]_nodeVars => NodeInv'
  <1> SUFFICES ASSUME NodeInv, [NodeNext]_nodeVars PROVE NodeInv' OBVIOUS
  <1>1. CASE UNCHANGED nodeVars
    BY <1>1 DEF nodeVars, upfVars, assocVars, sessVars, NodeInv, NodeTypeOK, BaselineOfAssociation
  <1>2. CASE NodeNext BY <1>2, UpfKeeps, SmfKeeps, SessionKeeps DEF NodeNext
  <1> QED BY <1>1, <1>2

\* The types of the supervision's state, and a baseline only while the UPF is associated.
THEOREM NodeTypeCorrect == NodeSpec => [](NodeTypeOK /\ BaselineOfAssociation)
  <1>1. NodeInv => NodeTypeOK /\ BaselineOfAssociation BY DEF NodeInv
  <1> QED BY <1>1, NodeStarts, NodeStep, PTL DEF NodeSpec

\* A step marks a session stale only if the UPF lost it: the cutoff is not after the
\* UPF's start, and an acknowledged session it still holds was installed after that.
LEMMA MarkingIsRight ==
  ASSUME NodeInv, NodeNext, NEW s \in Sess, smf[s] = "ACTIVE", smf'[s] = "STALE", estAt[s] # None
  PROVE held[s] = None
  <1>1. PICK p \in Procs : markSessionsReleasing(p)
    <2>1. smf' # smf OBVIOUS
    <2>2. \A q \in Sess : smf'[s] = "STALE" => ~Sessions(q)
      BY DEF NodeInv, NodeTypeOK, Sessions, createSession, UpfEstablishes, establishmentResponse,
         establishmentTimeout, releaseOne
    <2> QED BY <2>1, <2>2 DEF NodeNext, Tick, Upf, UpfStarts, UpfStops, UpfAnswers, UpfHeartbeat,
          Supervisor, Receiver, associationRequest, runAssociationSetup, associationTimeout,
          heartbeatRequest, heartbeatResponse, heartbeatTimeout, heartbeatLoop, beginRecovery,
          handlePFCPHeartbeatRequest, sessVars
  <1>2. estAt[s] < job[p].cutoff
    BY <1>1 DEF markSessionsReleasing, established, NodeInv, NodeTypeOK
  <1> QED BY <1>2, PfcpNodeAssumption DEF NodeInv, NodeTypeOK, Job, NoJob

\* Only sessions the UPF really lost are released without a deletion (StaleIsLost).
THEOREM OnlyLostIsStale == NodeSpec => StaleIsLost
  <1>1. NodeInv /\ [NodeNext]_nodeVars =>
          [MarksOnlyLost]_nodeVars
    BY MarkingIsRight DEF MarksOnlyLost
  <1> QED BY <1>1, NodeStarts, NodeStep, PTL DEF NodeSpec, StaleIsLost
=============================================================================
