------------------------------ MODULE PfcpNode ------------------------------
(* Supervision of the UPF by the SMF: association setup, heartbeats and the
   Recovery Time Stamp from which the SMF concludes that the UPF restarted and
   lost its sessions (pfcp_node.go), with the lives of the UPF and the sessions
   established in them.  Time counts half seconds, so that a restart and an
   establishment can fall into the same second: a time stamp is whole seconds. *)
EXTENDS Integers

CONSTANTS Sess, None,
          MaxTime,       \* the last instant considered
          MaxStarts,     \* how often the UPF starts
          Lossy,         \* whether an exchange with a running UPF may time out
          PeerHeartbeats \* whether the UPF sends heartbeats of its own

ASSUME PfcpNodeAssumption ==
    MaxTime \in Nat /\ MaxStarts \in Nat /\ None \notin Nat
    /\ Lossy \in BOOLEAN /\ PeerHeartbeats \in BOOLEAN

Time == 0..MaxTime
TimeOrNone == Time \cup {None}
Procs == {"supervisor", "receiver"}

VARIABLES now,
          up, upfStart, starts, \* the UPF: running, since when, how often started
          held,      \* per session the instant the running UPF installed it
          state,     \* assoc.state
          remoteRTS, \* assoc.remoteRTS, None when unknown
          sup,       \* where RunPFCPNodeSupervisor is
          ans,       \* the time stamp in the answer to its open transaction
          inbound,   \* time stamps of heartbeat requests on their way to the SMF
          job,       \* per goroutine, a recovery between two of its locked parts
          smf,       \* per session, what the session table says
          createdAt, estAt, \* Session.CreatedAt and N4EstablishedAt
          exch       \* per session, its establishment exchange

upfVars == <<up, upfStart, starts, held>>
assocVars == <<state, remoteRTS, sup, ans, inbound, job>>
sessVars == <<smf, createdAt, estAt, exch>>
nodeVars == <<now, upfVars, assocVars, sessVars>>

Job == [at : {"begin", "mark"}, cutoff : Time, cause : {"PEER_RESTART", "PEER_NOT_RESPONDING"}]
NoJob == [at |-> "none", cutoff |-> 0, cause |-> "none"]

NodeTypeOK ==
    /\ now \in Time
    /\ up \in BOOLEAN /\ upfStart \in Time /\ starts \in 0..MaxStarts
    /\ held \in [Sess -> TimeOrNone]
    /\ state \in {"SETUP_PENDING", "ASSOCIATED", "RECOVERING"}
    /\ remoteRTS \in TimeOrNone
    /\ sup \in {"setup", "assocWait", "heartbeat", "hbWait", "loop"}
    /\ ans \in TimeOrNone
    /\ inbound \subseteq Time
    /\ job \in [Procs -> Job \cup {NoJob}]
    /\ smf \in [Sess -> {"none", "ACTIVE", "RELEASING", "STALE", "released"}]
    /\ createdAt \in [Sess -> TimeOrNone]
    /\ estAt \in [Sess -> TimeOrNone]
    /\ exch \in [Sess -> {"none", "request", "response", "done"}]

NodeInit ==
    /\ now = 0
    /\ up = FALSE /\ upfStart = 0 /\ starts = 0
    /\ held = [s \in Sess |-> None]
    /\ state = "SETUP_PENDING" /\ remoteRTS = None
    /\ sup = "setup" /\ ans = None /\ inbound = {}
    /\ job = [p \in Procs |-> NoJob]
    /\ smf = [s \in Sess |-> "none"]
    /\ createdAt = [s \in Sess |-> None]
    /\ estAt = [s \in Sess |-> None]
    /\ exch = [s \in Sess |-> "none"]

\* Mutant: the time stamp is rounded, not truncated.
rtsRounded(t) == t + (t % 2)

\* The wire resolution of a Recovery Time Stamp: the start of its second.
rtsOf(t) == t - (t % 2)

Tick ==
    /\ now < MaxTime
    /\ now' = now + 1
    /\ UNCHANGED <<upfVars, assocVars, sessVars>>

-----------------------------------------------------------------------------
(* The UPF *)

UpfStarts ==
    /\ ~up /\ starts < MaxStarts
    /\ up' = TRUE /\ upfStart' = now /\ starts' = starts + 1
    /\ UNCHANGED <<now, held, assocVars, sessVars>>

\* The session table is in memory only.
UpfStops ==
    /\ up
    /\ up' = FALSE
    /\ held' = [s \in Sess |-> None]
    /\ UNCHANGED <<now, upfStart, starts, assocVars, sessVars>>

\* handleAssociationSetup and handleHeartbeat answer with the UPF's time stamp.
UpfAnswers ==
    /\ up /\ sup \in {"assocWait", "hbWait"} /\ ans = None
    /\ ans' = rtsOf(upfStart)
    /\ UNCHANGED <<now, upfVars, state, remoteRTS, sup, inbound, job, sessVars>>

\* A UPF that supervises the SMF in turn.
UpfHeartbeat ==
    /\ PeerHeartbeats /\ up
    /\ inbound' = inbound \cup {rtsOf(upfStart)}
    /\ UNCHANGED <<now, upfVars, state, remoteRTS, sup, ans, job, sessVars>>

UpfEstablishes(s) ==
    /\ up /\ exch[s] = "request"
    /\ held' = [held EXCEPT ![s] = now]
    /\ exch' = [exch EXCEPT ![s] = "response"]
    /\ UNCHANGED <<now, up, upfStart, starts, assocVars, smf, createdAt, estAt>>

-----------------------------------------------------------------------------
(* Sessions of the SMF.  Creating one does not depend on the association. *)

createSession(s) ==
    /\ smf[s] = "none"
    /\ smf' = [smf EXCEPT ![s] = "ACTIVE"]
    /\ createdAt' = [createdAt EXCEPT ![s] = now]
    /\ exch' = [exch EXCEPT ![s] = "request"]
    /\ UNCHANGED <<now, upfVars, assocVars, estAt>>

\* The end of sendPFCPSessionEstablishment: the answer arrives, or the wait ends.
establishmentResponse(s) ==
    /\ exch[s] = "response"
    /\ estAt' = [estAt EXCEPT ![s] = now]
    /\ exch' = [exch EXCEPT ![s] = "done"]
    /\ UNCHANGED <<now, upfVars, assocVars, smf, createdAt>>

establishmentTimeout(s) ==
    /\ exch[s] \in {"request", "response"}
    /\ exch' = [exch EXCEPT ![s] = "done"]
    /\ UNCHANGED <<now, upfVars, assocVars, smf, createdAt, estAt>>

\* The release of a marked session; its deletion may reach the UPF unless it is stale.
releaseOne(s) ==
    /\ smf[s] \in {"RELEASING", "STALE"}
    /\ smf' = [smf EXCEPT ![s] = "released"]
    /\ \/ held' = held
       \/ smf[s] = "RELEASING" /\ held' = [held EXCEPT ![s] = None]
    /\ UNCHANGED <<now, up, upfStart, starts, assocVars, createdAt, estAt, exch>>

-----------------------------------------------------------------------------
(* Recovery, by the supervisor or by the receiver of heartbeat requests *)

\* The session's establishment as markSessionsReleasing sees it.
established(s) == IF estAt[s] = None THEN createdAt[s] ELSE estAt[s]

markSessionsReleasing(p) ==
    LET all == job[p].cause = "PEER_NOT_RESPONDING" IN
    /\ job[p].at = "mark"
    /\ smf' = [s \in Sess |->
                 IF smf[s] = "ACTIVE" /\ (all \/ established(s) < job[p].cutoff)
                 THEN IF all THEN "RELEASING" ELSE "STALE" ELSE smf[s]]
    /\ job' = [job EXCEPT ![p] = NoJob]
    /\ UNCHANGED <<now, upfVars, state, remoteRTS, sup, ans, inbound, createdAt, estAt, exch>>

\* Mutant: the baseline outlives the association.
recoveryKeepsBaseline(p) ==
    /\ job[p].at = "begin"
    /\ IF state = "ASSOCIATED"
       THEN /\ state' = "RECOVERING"
            /\ job' = [job EXCEPT ![p].at = "mark"]
       ELSE state' = state /\ job' = [job EXCEPT ![p] = NoJob]
    /\ UNCHANGED <<now, upfVars, remoteRTS, sup, ans, inbound, sessVars>>

\* Only the first detection acts; the sessions are marked under another lock.
beginRecovery(p) ==
    /\ job[p].at = "begin"
    /\ IF state = "ASSOCIATED"
       THEN /\ state' = "RECOVERING" /\ remoteRTS' = None
            /\ job' = [job EXCEPT ![p].at = "mark"]
       ELSE UNCHANGED <<state, remoteRTS>> /\ job' = [job EXCEPT ![p] = NoJob]
    /\ UNCHANGED <<now, upfVars, sup, ans, inbound, sessVars>>

\* observePeerRTS compares under the lock and leaves it before it begins a recovery.
observePeerRTS(p, rts) ==
    \/ /\ state = "ASSOCIATED" /\ remoteRTS = None
       /\ remoteRTS' = rts /\ job' = job
    \/ /\ state = "ASSOCIATED" /\ remoteRTS # None /\ remoteRTS < rts
       /\ job' = [job EXCEPT ![p] = [at |-> "begin", cutoff |-> rts,
                                     cause |-> "PEER_RESTART"]]
       /\ remoteRTS' = remoteRTS
    \/ /\ state = "ASSOCIATED" => remoteRTS # None /\ remoteRTS >= rts
       /\ UNCHANGED <<remoteRTS, job>>

handlePFCPHeartbeatRequest(rts) ==
    /\ rts \in inbound /\ job["receiver"] = NoJob
    /\ inbound' = inbound \ {rts}
    /\ observePeerRTS("receiver", rts)
    /\ UNCHANGED <<now, upfVars, state, sup, ans, sessVars>>

-----------------------------------------------------------------------------
(* RunPFCPNodeSupervisor *)

associationRequest ==
    /\ sup = "setup"
    /\ state' = "SETUP_PENDING"
    /\ sup' = "assocWait" /\ ans' = None
    /\ UNCHANGED <<now, upfVars, remoteRTS, inbound, job, sessVars>>

\* The time stamp of an association setup response is ignored.
runAssociationSetup ==
    /\ sup = "assocWait" /\ ans # None
    /\ state' = "ASSOCIATED"
    /\ sup' = "heartbeat"
    /\ UNCHANGED <<now, upfVars, remoteRTS, ans, inbound, job, sessVars>>

associationTimeout ==
    /\ sup = "assocWait" /\ (Lossy \/ ~up)
    /\ sup' = "setup"
    /\ UNCHANGED <<now, upfVars, state, remoteRTS, ans, inbound, job, sessVars>>

heartbeatRequest ==
    /\ sup = "heartbeat"
    /\ sup' = "hbWait" /\ ans' = None
    /\ UNCHANGED <<now, upfVars, state, remoteRTS, inbound, job, sessVars>>

heartbeatResponse ==
    /\ sup = "hbWait" /\ ans # None
    /\ observePeerRTS("supervisor", ans)
    /\ sup' = "loop"
    /\ UNCHANGED <<now, upfVars, state, ans, inbound, sessVars>>

\* Mutant: a missing answer is not a failure of the peer.
timeoutIgnored ==
    /\ sup = "hbWait" /\ (Lossy \/ ~up)
    /\ sup' = "loop"
    /\ UNCHANGED <<now, upfVars, state, remoteRTS, ans, inbound, job, sessVars>>

heartbeatTimeout ==
    /\ sup = "hbWait" /\ (Lossy \/ ~up)
    /\ job' = [job EXCEPT !["supervisor"] = [at |-> "begin", cutoff |-> 0,
                                          cause |-> "PEER_NOT_RESPONDING"]]
    /\ sup' = "loop"
    /\ UNCHANGED <<now, upfVars, state, remoteRTS, ans, inbound, sessVars>>

\* heartbeatLoop ends when the association was lost, else the ticker fires again.
heartbeatLoop ==
    /\ sup = "loop" /\ job["supervisor"] = NoJob
    /\ sup' = IF state = "ASSOCIATED" THEN "heartbeat" ELSE "setup"
    /\ UNCHANGED <<now, upfVars, state, remoteRTS, ans, inbound, job, sessVars>>

Supervisor ==
    \/ associationRequest \/ runAssociationSetup \/ associationTimeout
    \/ heartbeatRequest \/ heartbeatResponse \/ heartbeatTimeout \/ heartbeatLoop
    \/ beginRecovery("supervisor") \/ markSessionsReleasing("supervisor")

Receiver ==
    \/ \E rts \in inbound : handlePFCPHeartbeatRequest(rts)
    \/ beginRecovery("receiver") \/ markSessionsReleasing("receiver")

Upf == UpfStarts \/ UpfStops \/ UpfAnswers \/ UpfHeartbeat

Sessions(s) ==
    \/ createSession(s) \/ UpfEstablishes(s) \/ establishmentResponse(s)
    \/ establishmentTimeout(s) \/ releaseOne(s)

NodeNext == Tick \/ Upf \/ Supervisor \/ Receiver \/ \E s \in Sess : Sessions(s)

NodeSpec == NodeInit /\ [][NodeNext]_nodeVars

\* The two goroutines of the SMF run on, and every exchange ends, by the answer of a
\* running UPF or by its timeout.
NodeFairSpec ==
    /\ NodeSpec
    /\ WF_nodeVars(Supervisor) /\ WF_nodeVars(Receiver) /\ WF_nodeVars(UpfAnswers)
-----------------------------------------------------------------------------
\* A session released as lost with the UPF's former life (N4Stale: no deletion is
\* sent) is really lost, whichever goroutine noticed the restart and however late the
\* heartbeats were, provided its establishment was acknowledged.
MarksOnlyLost ==
    \A s \in Sess : smf[s] = "ACTIVE" /\ smf'[s] = "STALE" /\ estAt[s] # None
                        => held[s] = None
StaleIsLost == [][MarksOnlyLost]_nodeVars

\* A baseline is known only while the UPF is associated: the recovery forgets it, so
\* that the first heartbeat of the next association sets it anew.
BaselineOfAssociation == remoteRTS # None => state = "ASSOCIATED"

\* A session that was lost with a life of the UPF whose time stamp was the baseline
\* does not stay ACTIVE: the next heartbeat tells, or fails.  Not promised when the UPF
\* restarted again before the time stamp of the life in between was dealt with.
LostIsReleased ==
    \A s \in Sess :
        (/\ smf[s] = "ACTIVE" /\ held[s] = None /\ estAt[s] # None
         /\ remoteRTS # None /\ remoteRTS <= estAt[s] /\ estAt[s] < rtsOf(upfStart)
         /\ \A p \in Procs : job[p] = NoJob
         /\ {ans} \cup inbound \subseteq {None, remoteRTS, rtsOf(upfStart)})
            ~> (smf[s] # "ACTIVE")
=============================================================================
