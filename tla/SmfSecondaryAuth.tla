-------------------------- MODULE SmfSecondaryAuth --------------------------
(* Secondary authentication of a PDU session by the data network (secondary_auth.go):
   the create handler reserves an address and leaves a pending entry; the UE's AUTH
   COMPLETE is relayed to the DN-AAA, whose answer turns the entry into a session or
   into a rejection.  Every AUTH COMPLETE is a handler of its own.              *)
EXTENDS Integers, FiniteSetsExt

CONSTANTS Refs, None,
          Addrs,        \* the addresses of the pool
          Handlers      \* the AUTH COMPLETE messages the AMF relays

ASSUME SecAuthAssumption == Addrs \subseteq Nat /\ None \notin Nat /\ None \notin Refs

VARIABLES ip,          \* per context, the address reserved for it
          allocated,   \* IPPool.allocated
          pendingAuth, \* Server.pendingAuth
          sessions,    \* Server.sessions
          handler,     \* per AUTH COMPLETE, its context and how far it is
          success,     \* contexts for which the DN-AAA answered EAP-Success
          accepts, rejects, \* contexts whose ACCEPT, REJECT was pushed to the UE
          n4           \* contexts whose PFCP establishment was started

authVars == <<ip, allocated, pendingAuth, sessions, handler, success, accepts, rejects, n4>>

Idle == [ref |-> None, at |-> "idle"]
Stages == {"aaa", "authorized", "accept", "rejected", "release", "reject", "done"}

AuthTypeOK ==
    /\ ip \in [Refs -> Addrs \cup {None}]
    /\ allocated \subseteq Addrs
    /\ pendingAuth \subseteq Refs /\ sessions \subseteq Refs
    /\ handler \in [Handlers -> [ref : Refs, at : Stages] \cup {Idle}]
    /\ success \subseteq Refs /\ accepts \subseteq Refs /\ rejects \subseteq Refs
    /\ n4 \subseteq Refs

AuthInit ==
    /\ ip = [r \in Refs |-> None]
    /\ handler = [h \in Handlers |-> Idle]
    /\ allocated = {} /\ pendingAuth = {} /\ sessions = {}
    /\ success = {} /\ accepts = {} /\ rejects = {} /\ n4 = {}

At(h, stage) == handler[h].at = stage
Move(h, stage) == handler' = [handler EXCEPT ![h].at = stage]

\* The create handler on a DNN that asks for secondary authentication.
startSecondaryAuth(r) ==
    /\ ip[r] = None /\ Addrs \ allocated # {}
    /\ ip' = [ip EXCEPT ![r] = Min(Addrs \ allocated)]
    /\ allocated' = allocated \cup {ip'[r]}
    /\ pendingAuth' = pendingAuth \cup {r}
    /\ UNCHANGED <<sessions, handler, success, accepts, rejects, n4>>

\* AUTH COMPLETE: a context without a pending entry is answered 404, else the EAP
\* response goes to the DN-AAA.  The entry stays where it is.  The AMF's serial queue
\* relays the messages of a UE one after the other.
handleSecondaryAuthComplete(h, r) ==
    /\ handler[h] = Idle /\ ip[r] # None
    /\ \A k \in Handlers : handler[k].ref = r => At(k, "done")
    /\ handler' = [handler EXCEPT ![h] = [ref |-> r,
                        at |-> IF r \in pendingAuth THEN "aaa" ELSE "done"]]
    /\ UNCHANGED <<ip, allocated, pendingAuth, sessions, success, accepts, rejects, n4>>

\* Mutant: without an answer the handler returns and leaves the entry behind.
authenticateOrReturn(h) ==
    /\ At(h, "aaa")
    /\ \/ Move(h, "authorized") /\ success' = success \cup {handler[h].ref}
       \/ Move(h, "done") /\ success' = success
    /\ UNCHANGED <<ip, allocated, pendingAuth, sessions, accepts, rejects, n4>>

\* EAP-Success, or EAP-Failure, or no answer within SecondaryAuthDNAAATimeout.
Authenticate(h) ==
    /\ At(h, "aaa")
    /\ \/ Move(h, "authorized") /\ success' = success \cup {handler[h].ref}
       \/ Move(h, "rejected") /\ success' = success
    /\ UNCHANGED <<ip, allocated, pendingAuth, sessions, accepts, rejects, n4>>

\* Mutant: the pending entry outlives the decision.
completeKeepsEntry(h) ==
    /\ At(h, "authorized")
    /\ Move(h, "accept")
    /\ UNCHANGED <<ip, allocated, pendingAuth, sessions, success, accepts, rejects, n4>>

\* completeSecondaryAuth drops the pending entry, asks the PCF for the policy ...
completeSecondaryAuth(h) ==
    /\ At(h, "authorized")
    /\ pendingAuth' = pendingAuth \ {handler[h].ref}
    /\ Move(h, "accept")
    /\ UNCHANGED <<ip, allocated, sessions, success, accepts, rejects, n4>>

\* ... and inserts the session, starts its establishment and pushes the ACCEPT.
acceptSession(h) ==
    LET r == handler[h].ref IN
    /\ At(h, "accept")
    /\ sessions' = sessions \cup {r}
    /\ n4' = n4 \cup {r}
    /\ accepts' = accepts \cup {r}
    /\ Move(h, "done")
    /\ UNCHANGED <<ip, allocated, pendingAuth, success, rejects>>

\* rejectSecondaryAuth drops the pending entry, then the session, then frees the
\* address and pushes the REJECT.
rejectSecondaryAuth(h) ==
    /\ At(h, "rejected")
    /\ pendingAuth' = pendingAuth \ {handler[h].ref}
    /\ Move(h, "release")
    /\ UNCHANGED <<ip, allocated, sessions, success, accepts, rejects, n4>>

rejectDeletesSession(h) ==
    /\ At(h, "release")
    /\ sessions' = sessions \ {handler[h].ref}
    /\ Move(h, "reject")
    /\ UNCHANGED <<ip, allocated, pendingAuth, success, accepts, rejects, n4>>

rejectReleases(h) ==
    /\ At(h, "reject")
    /\ allocated' = allocated \ {ip[handler[h].ref]}
    /\ rejects' = rejects \cup {handler[h].ref}
    /\ Move(h, "done")
    /\ UNCHANGED <<ip, pendingAuth, sessions, success, accepts, n4>>

\* DELETE: a session is released, a context that is still pending is not found.
handleDeleteSMContext(r) ==
    /\ ip[r] # None
    /\ sessions' = sessions \ {r}
    /\ allocated' = IF r \in sessions THEN allocated \ {ip[r]} ELSE allocated
    /\ UNCHANGED <<ip, pendingAuth, handler, success, accepts, rejects, n4>>

Handle(h) ==
    \/ Authenticate(h) \/ completeSecondaryAuth(h) \/ acceptSession(h)
    \/ rejectSecondaryAuth(h) \/ rejectDeletesSession(h) \/ rejectReleases(h)

AuthNext ==
    \/ \E r \in Refs : startSecondaryAuth(r) \/ handleDeleteSMContext(r)
    \/ \E h \in Handlers, r \in Refs : handleSecondaryAuthComplete(h, r)
    \/ \E h \in Handlers : Handle(h)

AuthSpec == AuthInit /\ [][AuthNext]_authVars

\* A handler is a goroutine with a bounded wait: it runs to its end.
AuthFairSpec == AuthSpec /\ \A h \in Handlers : WF_authVars(Handle(h))
-----------------------------------------------------------------------------
\* Who has a claim to the address of r: its pending entry, the handler that is turning
\* the entry into a session or a rejection, or its session.
Claims(r) ==
    \/ r \in pendingAuth \/ r \in sessions
    \/ \E h \in Handlers : handler[h].ref = r /\ handler[h].at \in {"accept", "release", "reject"}

\* Exactly the addresses somebody has a claim to are reserved ("reserved up front so
\* they can be released cleanly on rejection"), each for one context.
AddressesClaimed ==
    /\ allocated = {ip[r] : r \in {q \in Refs : Claims(q)}}
    /\ \A r, q \in Refs : Claims(r) /\ Claims(q) /\ r # q => ip[r] # ip[q]

\* The UE gets an ACCEPT, and the UPF a session, only for a context the DN-AAA let in.
AcceptedWasAuthorized == accepts \cup n4 \subseteq success

\* An AUTH COMPLETE that found its entry ends with an ACCEPT or a REJECT: an
\* unreachable DN-AAA does not leave the establishment hanging.
CompleteIsAnswered ==
    \A r \in Refs :
        (\E h \in Handlers : handler[h] = [ref |-> r, at |-> "aaa"]) ~> (r \in accepts \cup rejects)

\* A context is never both rejected and established at the UPF (rejectSecondaryAuth: "No
\* N4 session is ever created"), however often the UE repeats its AUTH COMPLETE.
RejectedHasNoN4 == rejects \cap n4 = {}

\* Together, and on well-typed states: what secondary authentication promises at every moment.
AuthSound == AuthTypeOK /\ AddressesClaimed /\ AcceptedWasAuthorized /\ RejectedHasNoN4
=============================================================================
