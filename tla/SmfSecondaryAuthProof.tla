----------------------- MODULE SmfSecondaryAuthProof ------------------------
(* For every pool of addresses and every number of contexts and of repeated AUTH COMPLETEs:
   what the SMF promises of a session that the data network authenticates.             *)
EXTENDS SmfSecondaryAuth, FiniteSetTheorems, WellFoundedInduction, TLAPS

\* A handler between the decision and its end holds the only claim there is to the context.
Deciding == {"accept", "release", "reject"}

\* A pending entry is consumed by one handler, which passes it on to the session or gives up
\* its address: a context is waiting, being decided or decided.
StageInv ==
    /\ AuthTypeOK
    /\ \A r \in Refs : ip[r] = None => r \notin pendingAuth \cup sessions \cup rejects \cup n4
    /\ \A h \in Handlers : handler[h].ref # None => ip[handler[h].ref] # None
    /\ \A h, k \in Handlers : h # k /\ handler[h].ref = handler[k].ref
                                 => At(h, "idle") \/ At(h, "done") \/ At(k, "done")
    /\ \A h \in Handlers : handler[h].at \in {"aaa", "authorized", "rejected"}
                             => handler[h].ref \in pendingAuth
    /\ \A h \in Handlers : handler[h].at \in Deciding
                             => handler[h].ref \notin pendingAuth \cup sessions \cup rejects \cup n4
    /\ \A h \in Handlers : handler[h].at \in {"authorized", "accept"} => handler[h].ref \in success
    /\ pendingAuth \cap (sessions \cup rejects \cup n4) = {}
    /\ sessions \subseteq n4
    /\ AcceptedWasAuthorized /\ RejectedHasNoN4

\* The inductive invariant.
AuthInv == StageInv /\ AddressesClaimed
-----------------------------------------------------------------------------
\* The pool hands out its least free address: of the initial segments below the members of a
\* set of numbers, which are finite and ordered by inclusion, one is the smallest.
LEMMA LeastAddress ==
  ASSUME NEW S \in SUBSET Nat, S # {}
  PROVE  Min(S) \in S
  <1> DEFINE Below(x) == 0 .. (x - 1)
             T == {Below(x) : x \in S}
  <1>1. T \subseteq FiniteSubsetsOf(Nat) /\ T # {}
    <2>1. ASSUME NEW x \in S PROVE Below(x) \in FiniteSubsetsOf(Nat)
      BY FS_Interval DEF FiniteSubsetsOf
    <2> QED BY ZenonT(60), <2>1
  <1>2. PICK b \in T : \A c \in T : <<c, b>> \notin StrictSubsetOrdering(Nat)
    BY ZenonT(60), <1>1, FS_StrictSubsetOrderingWellFounded, WFMin
  <1>3. PICK x \in S : b = Below(x) OBVIOUS
  <1>4. ASSUME NEW y \in S, y < x PROVE FALSE
    <2>1. Below(y) \subseteq Below(x) /\ Below(y) # Below(x) BY <1>4
    <2>2. <<Below(y), Below(x)>> \in StrictSubsetOrdering(Nat)
      BY SMTT(60), <2>1 DEF StrictSubsetOrdering
    <2> QED BY ZenonT(60), <1>2, <1>3, <2>2
  <1>5. \A y \in S : x <= y BY <1>4
  <1> QED BY ZenonT(60), <1>5 DEF Min

\* A handler that takes its next step keeps its context; the others stay where they are.
LEMMA Moved ==
  ASSUME AuthTypeOK, NEW h \in Handlers, NEW stage \in Stages, handler[h].at \in Stages,
         Move(h, stage)
  PROVE  /\ handler[h].ref \in Refs
         /\ handler' \in [Handlers -> [ref : Refs, at : Stages] \cup {Idle}]
         /\ handler'[h].ref = handler[h].ref /\ handler'[h].at = stage
         /\ \A k \in Handlers \ {h} : handler'[k] = handler[k]
  <1>1. handler[h] \in [ref : Refs, at : Stages]
    BY DEF AuthTypeOK, Idle, Stages
  <1>2. handler' = [handler EXCEPT ![h] = [handler[h] EXCEPT !.at = stage]]
    BY DEF Move
  <1>3. /\ [handler[h] EXCEPT !.at = stage] \in [ref : Refs, at : Stages]
        /\ [handler[h] EXCEPT !.at = stage].ref = handler[h].ref
        /\ [handler[h] EXCEPT !.at = stage].at = stage
    BY <1>1
  <1> QED BY <1>1, <1>2, <1>3 DEF AuthTypeOK
-----------------------------------------------------------------------------
\* Every operation keeps the order of the stages.
LEMMA StagesKept ==
  ASSUME StageInv, [AuthNext]_authVars
  PROVE  StageInv'
  <1> USE SecAuthAssumption DEF Stages, Deciding, At
  <1>1. ASSUME NEW r \in Refs, startSecondaryAuth(r) PROVE StageInv'
    <2>1. Min(Addrs \ allocated) \in Addrs \ allocated
      BY <1>1, LeastAddress DEF startSecondaryAuth
    <2>2. AuthTypeOK' BY <1>1, <2>1 DEF startSecondaryAuth, StageInv, AuthTypeOK
    <2>3. \A q \in Refs : ip[q] # None => ip'[q] # None
      BY <1>1 DEF startSecondaryAuth, StageInv, AuthTypeOK
    <2>4. ip'[r] # None BY <1>1, <2>1 DEF startSecondaryAuth, StageInv, AuthTypeOK
    <2>5. \A h \in Handlers : /\ handler[h].ref \in Refs \cup {None}
                              /\ handler[h].at # "idle" => handler[h].ref \in Refs \ {r}
      BY <1>1 DEF startSecondaryAuth, StageInv, AuthTypeOK, Idle
    <2> QED BY <1>1, <2>2, <2>3, <2>4, <2>5 DEF startSecondaryAuth, StageInv,
               AcceptedWasAuthorized, RejectedHasNoN4
  <1>2. ASSUME NEW r \in Refs, handleDeleteSMContext(r) PROVE StageInv'
    BY <1>2 DEF handleDeleteSMContext, StageInv, AuthTypeOK, AcceptedWasAuthorized,
       RejectedHasNoN4
  <1>3. ASSUME NEW h \in Handlers, NEW r \in Refs, handleSecondaryAuthComplete(h, r)
        PROVE  StageInv'
    <2>1. /\ handler'[h].ref = r
          /\ handler'[h].at = IF r \in pendingAuth THEN "aaa" ELSE "done"
          /\ \A k \in Handlers \ {h} : handler'[k] = handler[k]
          /\ handler' \in [Handlers -> [ref : Refs, at : Stages] \cup {Idle}]
      BY <1>3 DEF handleSecondaryAuthComplete, StageInv, AuthTypeOK
    <2>2. AuthTypeOK' BY <1>3, <2>1 DEF handleSecondaryAuthComplete, StageInv, AuthTypeOK
    <2>3. \A k \in Handlers : handler[k].ref = r => At(k, "done")
      BY <1>3 DEF handleSecondaryAuthComplete
    <2> HIDE DEF Stages
    <2> QED BY <1>3, <2>1, <2>2, <2>3 DEF handleSecondaryAuthComplete, StageInv,
               AcceptedWasAuthorized, RejectedHasNoN4
  <1>4. ASSUME NEW h \in Handlers, Handle(h) PROVE StageInv'
    <2> DEFINE r == handler[h].ref
    <2>1. CASE Authenticate(h)
      <3>1. CASE Move(h, "authorized") /\ success' = success \cup {r}
        BY <2>1, <3>1, Moved DEF Authenticate, StageInv, AuthTypeOK, AcceptedWasAuthorized,
           RejectedHasNoN4
      <3>2. CASE Move(h, "rejected") /\ success' = success
        BY <2>1, <3>2, Moved DEF Authenticate, StageInv, AuthTypeOK, AcceptedWasAuthorized,
           RejectedHasNoN4
      <3> QED BY <2>1, <3>1, <3>2 DEF Authenticate
    <2>2. CASE completeSecondaryAuth(h)
      BY <2>2, Moved DEF completeSecondaryAuth, StageInv, AuthTypeOK, AcceptedWasAuthorized,
         RejectedHasNoN4
    <2>3. CASE acceptSession(h)
      BY <2>3, Moved DEF acceptSession, StageInv, AuthTypeOK, AcceptedWasAuthorized,
         RejectedHasNoN4
    <2>4. CASE rejectSecondaryAuth(h)
      BY <2>4, Moved DEF rejectSecondaryAuth, StageInv, AuthTypeOK, AcceptedWasAuthorized,
         RejectedHasNoN4
    <2>5. CASE rejectDeletesSession(h)
      BY <2>5, Moved DEF rejectDeletesSession, StageInv, AuthTypeOK, AcceptedWasAuthorized,
         RejectedHasNoN4
    <2>6. CASE rejectReleases(h)
      <3>1. /\ r \in Refs /\ handler'[h].ref = r /\ handler'[h].at = "done"
            /\ \A k \in Handlers \ {h} : handler'[k] = handler[k]
            /\ handler' \in [Handlers -> [ref : Refs, at : Stages] \cup {Idle}]
        BY <2>6, Moved DEF rejectReleases, StageInv
      <3>0. AuthTypeOK'
        <4> HIDE DEF r
        <4> QED BY <2>6, <3>1 DEF r, rejectReleases, StageInv, AuthTypeOK
      <3>2. /\ r \notin pendingAuth \cup sessions \cup n4 /\ ip[r] # None
            /\ \A k \in Handlers \ {h} : handler[k].ref = r => handler[k].at = "done"
        <4>1. r # None BY <3>1
        <4>2. handler[h].at = "reject" BY <2>6 DEF rejectReleases
        <4> HIDE DEF r
        <4> QED BY <3>1, <4>1, <4>2 DEF r, StageInv
      <3> QED BY <2>6, <3>0, <3>1, <3>2 DEF rejectReleases, StageInv, AcceptedWasAuthorized,
                 RejectedHasNoN4
    <2> QED BY <1>4, <2>1, <2>2, <2>3, <2>4, <2>5, <2>6 DEF Handle
  <1>5. CASE UNCHANGED authVars
    BY <1>5 DEF authVars, StageInv, AuthTypeOK, AcceptedWasAuthorized, RejectedHasNoN4
  <1> QED BY <1>1, <1>2, <1>3, <1>4, <1>5 DEF AuthNext
-----------------------------------------------------------------------------
\* Every operation leaves the claims as they are, makes one with a free address, or ends one
\* and frees its address.
LEMMA ClaimsStep ==
  ASSUME StageInv, [AuthNext]_authVars
  PROVE  \/ /\ UNCHANGED <<ip, allocated>>
            /\ \A q \in Refs : Claims(q)' <=> Claims(q)
         \/ \E r \in Refs, a \in Addrs \ allocated :
               /\ ip' = [ip EXCEPT ![r] = a] /\ allocated' = allocated \cup {a}
               /\ ~Claims(r)
               /\ \A q \in Refs : Claims(q)' <=> Claims(q) \/ q = r
         \/ \E r \in Refs :
               /\ ip' = ip /\ allocated' = allocated \ {ip[r]}
               /\ Claims(r)
               /\ \A q \in Refs : Claims(q)' <=> Claims(q) /\ q # r
  <1> USE SecAuthAssumption DEF Stages, Deciding, At
  <1>1. ASSUME NEW r \in Refs, startSecondaryAuth(r)
        PROVE  \E a \in Addrs \ allocated :
                  /\ ip' = [ip EXCEPT ![r] = a] /\ allocated' = allocated \cup {a}
                  /\ ~Claims(r)
                  /\ \A q \in Refs : Claims(q)' <=> Claims(q) \/ q = r
    <2> DEFINE a == Min(Addrs \ allocated)
    <2>1. a \in Addrs \ allocated BY <1>1, LeastAddress DEF startSecondaryAuth
    <2>2. ip' = [ip EXCEPT ![r] = a] /\ allocated' = allocated \cup {a}
      BY <1>1 DEF startSecondaryAuth, StageInv, AuthTypeOK
    <2>3. ~Claims(r) BY <1>1 DEF startSecondaryAuth, Claims, StageInv
    <2>4. \A q \in Refs : Claims(q)' <=> Claims(q) \/ q = r
      BY <1>1 DEF startSecondaryAuth, Claims
    <2> QED BY <2>1, <2>2, <2>3, <2>4
  <1>2. ASSUME NEW r \in Refs, handleDeleteSMContext(r), r \in sessions
        PROVE  /\ ip' = ip /\ allocated' = allocated \ {ip[r]} /\ Claims(r)
               /\ \A q \in Refs : Claims(q)' <=> Claims(q) /\ q # r
    <2>1. r \notin pendingAuth
          /\ \A h \in Handlers : handler[h].ref = r => handler[h].at \notin Deciding
      BY <1>2 DEF StageInv
    <2> QED BY <1>2, <2>1 DEF handleDeleteSMContext, Claims
  <1>3. ASSUME NEW r \in Refs, handleDeleteSMContext(r), r \notin sessions
        PROVE  UNCHANGED <<ip, allocated>> /\ \A q \in Refs : Claims(q)' <=> Claims(q)
    BY <1>3 DEF handleDeleteSMContext, Claims
  <1>4. ASSUME NEW h \in Handlers, NEW r \in Refs, handleSecondaryAuthComplete(h, r)
        PROVE  UNCHANGED <<ip, allocated>> /\ \A q \in Refs : Claims(q)' <=> Claims(q)
    <2>1. /\ handler'[h].at \notin Deciding /\ handler[h].at \notin Deciding
          /\ \A k \in Handlers \ {h} : handler'[k] = handler[k]
      BY <1>4 DEF handleSecondaryAuthComplete, StageInv, AuthTypeOK, Idle
    <2> QED BY <1>4, <2>1 DEF handleSecondaryAuthComplete, Claims
  <1>5. ASSUME NEW h \in Handlers, Authenticate(h)
        PROVE  UNCHANGED <<ip, allocated>> /\ \A q \in Refs : Claims(q)' <=> Claims(q)
    <2>1. /\ handler'[h].at \notin Deciding /\ handler[h].at \notin Deciding
          /\ \A k \in Handlers \ {h} : handler'[k] = handler[k]
      BY <1>5, Moved DEF Authenticate, StageInv
    <2> QED BY <1>5, <2>1 DEF Authenticate, Claims
  <1>6. ASSUME NEW h \in Handlers, completeSecondaryAuth(h) \/ rejectSecondaryAuth(h)
        PROVE  UNCHANGED <<ip, allocated>> /\ \A q \in Refs : Claims(q)' <=> Claims(q)
    <2>1. /\ handler'[h].at \in Deciding /\ handler[h].at \notin Deciding
          /\ handler'[h].ref = handler[h].ref /\ handler[h].ref \in pendingAuth
          /\ \A k \in Handlers \ {h} : handler'[k] = handler[k]
      BY <1>6, Moved DEF completeSecondaryAuth, rejectSecondaryAuth, StageInv
    <2> QED BY <1>6, <2>1 DEF completeSecondaryAuth, rejectSecondaryAuth, Claims
  <1>7. ASSUME NEW h \in Handlers, acceptSession(h) \/ rejectDeletesSession(h)
        PROVE  UNCHANGED <<ip, allocated>> /\ \A q \in Refs : Claims(q)' <=> Claims(q)
    <2>1. /\ handler[h].at \in Deciding /\ handler'[h].ref = handler[h].ref
          /\ handler[h].ref \notin sessions
          /\ \A k \in Handlers \ {h} : handler'[k] = handler[k]
      BY <1>7, Moved DEF acceptSession, rejectDeletesSession, StageInv
    <2>2. CASE acceptSession(h)
      <3>1. handler'[h].at = "done" BY <2>2, Moved DEF acceptSession, StageInv
      <3> QED BY <2>1, <2>2, <3>1 DEF acceptSession, Claims
    <2>3. CASE rejectDeletesSession(h)
      <3>1. handler'[h].at \in Deciding BY <2>3, Moved DEF rejectDeletesSession, StageInv
      <3> QED BY <2>1, <2>3, <3>1 DEF rejectDeletesSession, Claims
    <2> QED BY <1>7, <2>2, <2>3
  <1>8. ASSUME NEW h \in Handlers, rejectReleases(h)
        PROVE  \E r \in Refs :
                  /\ ip' = ip /\ allocated' = allocated \ {ip[r]} /\ Claims(r)
                  /\ \A q \in Refs : Claims(q)' <=> Claims(q) /\ q # r
    <2> DEFINE r == handler[h].ref
    <2>1. /\ r \in Refs /\ handler[h].at \in Deciding
          /\ handler'[h].ref = r /\ handler'[h].at = "done"
          /\ \A k \in Handlers \ {h} : handler'[k] = handler[k]
      BY <1>8, Moved DEF rejectReleases, StageInv
    <2>2. /\ r \notin pendingAuth \cup sessions
          /\ \A k \in Handlers \ {h} : handler[k].ref = r => handler[k].at = "done"
      BY <1>8, <2>1 DEF rejectReleases, StageInv
    <2>3. ip' = ip /\ allocated' = allocated \ {ip[r]} /\ UNCHANGED <<pendingAuth, sessions>>
      BY <1>8 DEF rejectReleases
    <2>4. Claims(r) BY <2>1 DEF Claims
    <2>5. \A q \in Refs : Claims(q)' <=> Claims(q) /\ q # r
      BY <2>1, <2>2, <2>3 DEF Claims
    <2> QED BY <2>1, <2>3, <2>4, <2>5
  <1>9. CASE UNCHANGED authVars BY <1>9 DEF authVars, Claims
  <1> QED BY <1>1, <1>2, <1>3, <1>4, <1>5, <1>6, <1>7, <1>8, <1>9 DEF AuthNext, Handle

\* So the addresses reserved stay exactly those somebody has a claim to, each for one context.
LEMMA AddressesKept ==
  ASSUME AuthInv, [AuthNext]_authVars
  PROVE  AddressesClaimed'
  <1> USE DEF AddressesClaimed
  <1>0. AuthTypeOK /\ AddressesClaimed /\ StageInv BY DEF AuthInv, StageInv
  <1>1. CASE /\ UNCHANGED <<ip, allocated>>
             /\ \A q \in Refs : Claims(q)' <=> Claims(q)
    BY <1>0, <1>1
  <1>2. ASSUME NEW r \in Refs, NEW a \in Addrs \ allocated,
               ip' = [ip EXCEPT ![r] = a], allocated' = allocated \cup {a}, ~Claims(r),
               \A q \in Refs : Claims(q)' <=> Claims(q) \/ q = r
        PROVE  AddressesClaimed'
    <2>1. ip'[r] = a /\ \A q \in Refs \ {r} : ip'[q] = ip[q] BY <1>0, <1>2 DEF AuthTypeOK
    <2>2. \A q \in Refs : Claims(q) => ip[q] \in allocated BY <1>0
    <2> QED BY <1>0, <1>2, <2>1, <2>2
  <1>3. ASSUME NEW r \in Refs, ip' = ip, allocated' = allocated \ {ip[r]}, Claims(r),
               \A q \in Refs : Claims(q)' <=> Claims(q) /\ q # r
        PROVE  AddressesClaimed'
    BY <1>0, <1>3
  <1> QED BY <1>0, <1>1, <1>2, <1>3, ClaimsStep

\* For every pool and any number of contexts and repeated messages: exactly the addresses
\* somebody has a claim to are reserved, each for one context; only a context the DN-AAA let in
\* is accepted or set up at the UPF; and none is both rejected and set up
\* (startSecondaryAuth, completeSecondaryAuth, rejectSecondaryAuth).
THEOREM AuthSafe == AuthSpec => []AuthSound
  <1>1. AuthInit => AuthInv
    BY SecAuthAssumption DEF AuthInit, AuthInv, StageInv, AuthTypeOK, Idle, Stages, Deciding, At,
       AddressesClaimed, Claims, AcceptedWasAuthorized, RejectedHasNoN4
  <1>2. AuthInv /\ [AuthNext]_authVars => AuthInv'
    BY StagesKept, AddressesKept DEF AuthInv
  <1>3. AuthInv => AuthSound BY DEF AuthInv, StageInv, AuthSound
  <1> QED BY <1>1, <1>2, <1>3, PTL DEF AuthSpec
=============================================================================
