----------------------------- MODULE AmfUeProof -----------------------------
(* For every number of gNBs, subscribers, contexts and TMSIs: a removal leaves a SUPI slot
   to its owner and, with TMSIs counted in Redis, a TMSI a device holds never finds
   another subscriber's context.                                                   *)
EXTENDS AmfUe, TLAPS

USE ZenonT(30), AmfUeAssumption DEF Ctx, Tmsi, counters, index, ue, timer, n2, outside

\* What the theorems are about: the counters, the indexes, and who holds what.
core == <<next, redis, byNgap, bySupi, byTmsi, guti, row, queue, who, held>>

CoreTypes ==
    /\ next \in 0..MaxCtx /\ redis \in Nat
    /\ bySupi \in [Supi -> 0..MaxCtx] /\ byTmsi \in [Tmsi -> 0..MaxCtx]
    /\ guti \in [Ctx -> Nat] /\ row \in [Supi -> Nat] /\ held \in [Supi -> 0..MaxTmsi]
    /\ queue \in [Ctx -> Seq(Tasks)] /\ who \in [Ctx -> Supi \cup {None}]

\* Contexts are numbered in the order they are made, so the next one is in no index and
\* has no message queued.
Numbered ==
    /\ byNgap \subseteq 1..next
    /\ \A t \in Tmsi : byTmsi[t] <= next
    /\ \A c \in Ctx : queue[c] # <<>> => c <= next

\* The counter is ahead of every TMSI a device has been given.
Counted == \A s \in Supi : held[s] <= redis

HeldInv == CoreTypes /\ Numbered /\ Counted /\ HeldTmsiOwn

\* TMSIs come from Redis alone.
RedisOnly == Cache = "redis" /\ ~Has("redisfail")

\* Every step that is not one of these leaves the core alone or takes a message from a queue.
Pops == /\ \E c \in Ctx : queue[c] # <<>> /\ queue' = [queue EXCEPT ![c] = Tail(@)]
        /\ UNCHANGED <<next, redis, byNgap, bySupi, byTmsi, guti, row, who, held>>

CoreStep ==
    \/ \E g \in Gnb, r \in Ran, s \in Supi :
         freshRegistration(g, r, s) \/ rejectUnknownTMSI(g, r, s) \/ rejectUnsent(g, r, s)
    \/ \E g \in Gnb, r \in Ran, s \in Supi, task \in {"sr", "ru", "dereg"} : returningUE(g, r, s, task)
    \/ \E g \in Gnb, r \in Ran, task \in Tasks : handleUplinkNASTransport(g, r, task)
    \/ \E c \in Ctx : \/ handleAuthenticationResponse(c) \/ handleSecurityModeComplete(c)
                      \/ handleRegistrationComplete(c) \/ handleRegistrationUpdate(c)
    \/ \E w \in work : Remove(w) \/ DeleteUE(w)
    \/ LoadFromStore

\* The steps of the associations, the timers and the releases touch none of the core.
LEMMA CoreSteps ==
  ASSUME AmfUeNext PROVE CoreStep \/ Pops \/ UNCHANGED core
  <1> USE DEF core
  <1>1. ASSUME NEW g \in Gnb, handleNGSetup(g) \/ handleGNBConn(g) PROVE UNCHANGED core
    BY <1>1 DEF handleNGSetup, handleGNBConn
  <1>2. ASSUME NEW g \in Gnb, NEW r \in Ran,
               \/ GnbDropsLink(g, r) \/ handleInitialContextSetupFailure(g, r)
               \/ handleUEContextReleaseRequest(g, r)
        PROVE UNCHANGED core
    BY <1>2 DEF GnbDropsLink, handleInitialContextSetupFailure, releaseForRemoval,
                handleUEContextReleaseRequest
  <1>3. ASSUME NEW m \in cmd, \/ GnbDropsCommand(m) \/ staleReleaseComplete(m)
                              \/ handleUEContextReleaseComplete(m)
        PROVE UNCHANGED core
    BY <1>3 DEF GnbDropsCommand, staleReleaseComplete, handleUEContextReleaseComplete
  <1>4. ASSUME NEW c \in Ctx, \/ SendNetworkDeregistration(c) \/ ANReleaseHandler(c)
                              \/ StartMobileReachableTimer(c) \/ implicitDetachExpires(c)
                              \/ startPendingRemovalTimer(c)
        PROVE UNCHANGED core
    BY <1>4 DEF SendNetworkDeregistration, ANReleaseHandler, StartMobileReachableTimer,
                implicitDetachExpires, startPendingRemovalTimer
  <1>5. ASSUME NEW w \in work, \/ completeRelease(w) \/ startImplicitDetachTimer(w)
                               \/ removeUEFromIdleUEs(w) \/ SetImplicitDetachHandler(w)
                               \/ releaseDisplacedContext(w)
        PROVE UNCHANGED core
    BY <1>5 DEF completeRelease, startImplicitDetachTimer, removeUEFromIdleUEs,
                SetImplicitDetachHandler, releaseDisplacedContext
  <1>6. ASSUME NEW c \in Ctx, \/ handleRegistrationRequest(c) \/ rejectSecurityModeComplete(c)
                              \/ handleServiceRequest(c) \/ handleDeregistration(c)
                              \/ handleNWDeregistrationAccept(c)
        PROVE Pops
    BY <1>6 DEF handleRegistrationRequest, rejectSecurityModeComplete, handleServiceRequest,
                handleDeregistration, handleNWDeregistrationAccept, teardown,
                releaseForRemoval, Runs, Pops
  <1> QED BY <1>1, <1>2, <1>3, <1>4, <1>5, <1>6 DEF AmfUeNext, CoreStep

\* Nothing is held and nothing is indexed at the start (AmfUeInit).
LEMMA HeldStarts == AmfUeInit => HeldInv
  BY SMTT(30) DEF AmfUeInit, HeldInv, CoreTypes, Numbered, Counted, HeldTmsiOwn

\* One more context (AllocateUEContext).
LEMMA OneMore ==
  ASSUME NEW n \in Nat, NEW S, S \subseteq 1..n
  PROVE S \cup {n + 1} \subseteq 1..(n + 1)
  BY SMTT(30)

\* A new TMSI is above every one held, so giving it to c, told or not, keeps the invariant
\* (AssignGUTI, Delivered).
LEMMA AssignKeeps ==
  ASSUME HeldInv, RedisOnly, NEW c \in Ctx, NEW t \in Tmsi, Runs(c, "smc") \/ Runs(c, "ru"),
         AssignGUTI(c, t), Delivered(c, t) \/ UNCHANGED held,
         UNCHANGED <<next, byNgap, bySupi, row, who>>
  PROVE HeldInv'
  <1> USE DEF HeldInv, CoreTypes
  <1>1. t = redis + 1 /\ redis' = t BY DEF AssignGUTI, NextTMSI, RedisOnly
  <1>2. c <= next /\ queue' = [queue EXCEPT ![c] = Tail(@)] /\ queue[c] # <<>>
    BY DEF Runs, Numbered
  <1>3. byTmsi' = [byTmsi EXCEPT ![t] = c] /\ guti' = [guti EXCEPT ![c] = t] BY DEF AssignGUTI
  <1>4. held' = held \/ held' = [held EXCEPT ![who[c]] = t] BY DEF Delivered
  <1>5. CoreTypes'
    <2>1. queue' \in [Ctx -> Seq(Tasks)] BY SMTT(30), <1>2
    <2>2. held' \in [Supi -> 0..MaxTmsi]
      <3>1. CASE held' = held BY <3>1
      <3>2. CASE held' = [held EXCEPT ![who[c]] = t]
        <4>1. held \in [Supi -> 0..MaxTmsi] /\ t \in 0..MaxTmsi BY SMTT(30)
        <4> QED BY ONLY ZenonT(60), <3>2, <4>1
      <3> QED BY <1>4, <3>1, <3>2
    <2>3. redis' \in Nat BY SMTT(30), <1>1
    <2>4. byTmsi' \in [Tmsi -> 0..MaxCtx] /\ guti' \in [Ctx -> Nat] BY SMTT(30), <1>3
    <2> QED BY <2>1, <2>2, <2>3, <2>4
  <1>6. Numbered' BY <1>2, <1>3 DEF Numbered
  <1>7. Counted'
    <2> SUFFICES ASSUME NEW s \in Supi PROVE held'[s] <= redis' BY DEF Counted
    <2>1. held'[s] = held[s] \/ held'[s] = t BY <1>4
    <2>2. held[s] <= redis /\ held[s] \in Nat BY SMTT(30) DEF Counted
    <2> QED BY SMTT(30), <1>1, <2>1, <2>2
  <1>8. HeldTmsiOwn'
    <2> SUFFICES ASSUME NEW s \in Supi, held'[s] # 0, byTmsi'[held'[s]] # 0
                 PROVE who[byTmsi'[held'[s]]] = s
      BY DEF HeldTmsiOwn
    <2>1. CASE held'[s] = held[s]
      <3>1. held[s] # t BY SMTT(30), <1>1 DEF Counted
      <3> QED BY SMTT(30), <1>3, <2>1, <3>1 DEF HeldTmsiOwn
    <2>2. CASE held'[s] # held[s]
      <3>1. s = who[c] /\ held'[s] = t BY <1>4, <2>2
      <3> QED BY <1>3, <3>1
    <2> QED BY <2>1, <2>2
  <1> QED BY <1>5, <1>6, <1>7, <1>8

\* The initial UE message: a new context has a number no TMSI leads to.
LEMMA InitialKeeps ==
  ASSUME HeldInv, NEW g \in Gnb, NEW r \in Ran, NEW s \in Supi,
         \/ freshRegistration(g, r, s) \/ rejectUnknownTMSI(g, r, s) \/ rejectUnsent(g, r, s)
         \/ \E task \in {"sr", "ru", "dereg"} : returningUE(g, r, s, task)
  PROVE HeldInv'
  <1> USE DEF HeldInv, CoreTypes
  <1>1. CASE freshRegistration(g, r, s)
    <2>1. PICK c \in Ctx : /\ c = next + 1 /\ next' = c /\ byNgap' = byNgap \cup {c}
                           /\ queue' = [queue EXCEPT ![c] = <<"reg">>]
                           /\ who' = [who EXCEPT ![c] = s]
                           /\ UNCHANGED <<redis, bySupi, byTmsi, guti, row, held>>
      BY <1>1 DEF freshRegistration, AllocateUEContext
    <2>2. CoreTypes' BY SMTT(30), <2>1 DEF Tasks
    <2>3. Numbered'
      <3>1. byNgap' \subseteq 1..next'
        <4>1. next \in Nat /\ byNgap \subseteq 1..next BY SMTT(30) DEF Numbered
        <4> QED BY ONLY <2>1, <4>1, OneMore
      <3>2. \A t \in Tmsi : byTmsi'[t] <= next' BY SMTT(30), <2>1 DEF Numbered
      <3>3. \A d \in Ctx : queue'[d] # <<>> => d <= next'
        <4> SUFFICES ASSUME NEW d \in Ctx, queue'[d] # <<>> PROVE d <= next' OBVIOUS
        <4>1. CASE d = c BY SMTT(30), <2>1, <4>1
        <4>2. CASE d # c
          <5>1. queue'[d] = queue[d] BY <2>1, <4>2
          <5> QED BY SMTT(30), <2>1, <5>1 DEF Numbered
        <4> QED BY <4>1, <4>2
      <3> QED BY <3>1, <3>2, <3>3 DEF Numbered
    <2>4. HeldTmsiOwn'
      <3>1. \A t \in Tmsi : byTmsi[t] # c BY SMTT(30), <2>1 DEF Numbered
      <3> SUFFICES ASSUME NEW z \in Supi, held[z] # 0, byTmsi[held[z]] # 0
                   PROVE who'[byTmsi[held[z]]] = z
        BY <2>1 DEF HeldTmsiOwn
      <3>2. held[z] \in Tmsi
        <4>1. held[z] \in 0..MaxTmsi /\ held[z] # 0 OBVIOUS
        <4> QED BY ONLY <4>1, MaxTmsi \in Nat DEF Tmsi
      <3>3. byTmsi[held[z]] \in Ctx /\ byTmsi[held[z]] # c
        <4>1. byTmsi[held[z]] \in 0..MaxCtx /\ byTmsi[held[z]] # 0 BY <3>2
        <4>2. byTmsi[held[z]] \in Ctx BY ONLY <4>1, MaxCtx \in Nat DEF Ctx
        <4> QED BY <3>1, <3>2, <4>2
      <3>4. who'[byTmsi[held[z]]] = who[byTmsi[held[z]]]
        <4>1. who \in [Ctx -> Supi \cup {None}] OBVIOUS
        <4> QED BY ONLY <2>1, <3>3, <4>1
      <3> QED BY <3>4 DEF HeldTmsiOwn
    <2> QED BY <2>1, <2>2, <2>3, <2>4 DEF Counted
  <1>2. CASE rejectUnknownTMSI(g, r, s)
    <2>1. /\ next' = next + 1 /\ next' <= MaxCtx /\ byNgap' = byNgap \cup {next + 1}
          /\ held' = [held EXCEPT ![s] = 0]
          /\ UNCHANGED <<redis, bySupi, byTmsi, guti, row, queue, who>>
      BY <1>2 DEF rejectUnknownTMSI, AllocateUEContext
    <2>2. CoreTypes' BY SMTT(30), <2>1
    <2>3. Numbered'
      <3>1. next \in Nat /\ byNgap \subseteq 1..next BY SMTT(30) DEF Numbered
      <3>2. byNgap' \subseteq 1..next' BY ONLY <2>1, <3>1, OneMore
      <3>3. \A t \in Tmsi : byTmsi'[t] <= next' BY SMTT(30), <2>1 DEF Numbered
      <3>4. \A c \in Ctx : queue'[c] # <<>> => c <= next' BY SMTT(30), <2>1 DEF Numbered
      <3> QED BY <3>2, <3>3, <3>4 DEF Numbered
    <2>4. \A z \in Supi : held'[z] = 0 \/ held'[z] = held[z]
      <3>1. held \in [Supi -> 0..MaxTmsi] OBVIOUS
      <3> QED BY ONLY <2>1, <3>1
    <2>5. Counted' BY SMTT(30), <2>1, <2>4 DEF Counted
    <2>6. HeldTmsiOwn' BY <2>1, <2>4 DEF HeldTmsiOwn
    <2> QED BY <2>2, <2>3, <2>5, <2>6
  <1>3. CASE rejectUnsent(g, r, s)
    BY SMTT(30), <1>3 DEF rejectUnsent, Numbered, Counted, HeldTmsiOwn
  <1>4. CASE \E task \in {"sr", "ru", "dereg"} : returningUE(g, r, s, task)
    <2>1. PICK task \in Tasks, c \in Ctx :
             /\ c <= next
             /\ queue' = [queue EXCEPT ![c] = Append(@, task)]
             /\ UNCHANGED <<next, redis, byNgap, bySupi, byTmsi, guti, row, who, held>>
      <3>1. PICK task \in {"sr", "ru", "dereg"} : returningUE(g, r, s, task) BY <1>4
      <3>2. byTmsi[held[s]] \in Ctx /\ byTmsi[held[s]] <= next
        BY SMTT(30), <3>1 DEF returningUE, Numbered
      <3> QED BY <3>1, <3>2 DEF returningUE, Tasks
    <2>2. CoreTypes' BY SMTT(30), <2>1
    <2> QED BY <2>1, <2>2 DEF Numbered, Counted, HeldTmsiOwn
  <1> QED BY <1>1, <1>2, <1>3, <1>4

\* A message taken from a queue, or put in that of a context the AMF knows.
LEMMA QueueKeeps ==
  ASSUME HeldInv, NEW c \in Ctx,
         \/ queue[c] # <<>> /\ queue' = [queue EXCEPT ![c] = Tail(@)]
         \/ \E task \in Tasks : c <= next /\ queue' = [queue EXCEPT ![c] = Append(@, task)],
         UNCHANGED <<next, redis, byNgap, byTmsi, who, held>>,
         bySupi' \in [Supi -> 0..MaxCtx], guti' \in [Ctx -> Nat], row' \in [Supi -> Nat]
  PROVE HeldInv'
  <1>1. queue' \in [Ctx -> Seq(Tasks)]
    <2>1. queue \in [Ctx -> Seq(Tasks)] BY DEF HeldInv, CoreTypes
    <2>2. CASE queue[c] # <<>> /\ queue' = [queue EXCEPT ![c] = Tail(@)] BY ONLY <2>1, <2>2
    <2>3. CASE \E task \in Tasks : queue' = [queue EXCEPT ![c] = Append(@, task)]
      BY ONLY <2>1, <2>3, c \in Ctx
    <2> QED BY <2>2, <2>3
  <1>2. CoreTypes'
    <2>1. CoreTypes BY DEF HeldInv
    <2>2. UNCHANGED <<next, redis, byTmsi, who, held>> OBVIOUS
    <2>3. bySupi' \in [Supi -> 0..MaxCtx] /\ guti' \in [Ctx -> Nat] /\ row' \in [Supi -> Nat]
      OBVIOUS
    <2> QED BY ONLY ZenonT(30), <1>1, <2>1, <2>2, <2>3 DEF CoreTypes
  <1>3. Numbered' BY DEF HeldInv, CoreTypes, Numbered
  <1> QED BY <1>2, <1>3 DEF HeldInv, Counted, HeldTmsiOwn

\* The handlers of NAS messages.
LEMMA HandlerKeeps ==
  ASSUME HeldInv, RedisOnly, NEW c \in Ctx,
         \/ handleAuthenticationResponse(c) \/ handleSecurityModeComplete(c)
         \/ handleRegistrationComplete(c) \/ handleRegistrationUpdate(c)
  PROVE HeldInv'
  <1>1. CASE handleAuthenticationResponse(c)
    <2>1. bySupi' \in [Supi -> 0..MaxCtx]
      <3>1. bySupi \in [Supi -> 0..MaxCtx] /\ c \in 0..MaxCtx BY SMTT(30) DEF HeldInv, CoreTypes
      <3>2. bySupi' = bySupi \/ bySupi' = [bySupi EXCEPT ![who[c]] = c]
        BY <1>1 DEF handleAuthenticationResponse, SetSUPI
      <3> QED BY ONLY <3>1, <3>2
    <2> QED BY <1>1, <2>1, QueueKeeps DEF handleAuthenticationResponse, Runs, HeldInv, CoreTypes
  <1>2. CASE handleSecurityModeComplete(c)
    BY <1>2, AssignKeeps DEF handleSecurityModeComplete
  <1>3. CASE handleRegistrationComplete(c)
    <2>1. row' \in [Supi -> Nat]
      BY <1>3 DEF handleRegistrationComplete, HeldInv, CoreTypes
    <2> QED BY <1>3, <2>1, QueueKeeps DEF handleRegistrationComplete, Runs, HeldInv, CoreTypes
  <1>4. CASE handleRegistrationUpdate(c)
    BY <1>4, AssignKeeps DEF handleRegistrationUpdate
  <1> QED BY <1>1, <1>2, <1>3, <1>4

\* Removal only takes entries out, and a restart empties the indexes and never turns the
\* counter of Redis back (Remove, DeleteUE, LoadFromStore).
LEMMA RemovalKeeps ==
  ASSUME HeldInv, LoadFromStore \/ \E w \in work : Remove(w) \/ DeleteUE(w)
  PROVE HeldInv'
  <1> USE DEF HeldInv, CoreTypes
  <1>1. ASSUME NEW w \in work, Remove(w) PROVE HeldInv'
    <2>1. /\ byNgap' \subseteq byNgap
          /\ bySupi' \in [Supi -> 0..MaxCtx] /\ byTmsi' \in [Tmsi -> 0..MaxCtx]
          /\ \A t \in Tmsi : byTmsi'[t] = 0 \/ byTmsi'[t] = byTmsi[t]
      BY SMTT(30), <1>1 DEF Remove, clearSupiSlot
    <2>2. UNCHANGED <<next, redis, guti, row, held, queue, who>> BY <1>1 DEF Remove
    <2>3. CoreTypes' BY <2>1, <2>2
    <2>4. Numbered'
      <3>1. byNgap' \subseteq 1..next' BY <2>1, <2>2 DEF Numbered
      <3>2. \A t \in Tmsi : byTmsi'[t] <= next'
        <4>1. next \in Nat /\ \A t \in Tmsi : byTmsi[t] <= next BY SMTT(30) DEF Numbered
        <4> QED BY ONLY <2>1, <2>2, <4>1
      <3>3. \A c \in Ctx : queue'[c] # <<>> => c <= next' BY <2>2 DEF Numbered
      <3> QED BY <3>1, <3>2, <3>3 DEF Numbered
    <2>5. HeldTmsiOwn' BY SMTT(30), <2>1, <2>2 DEF HeldTmsiOwn
    <2> QED BY <2>2, <2>3, <2>4, <2>5 DEF Counted
  <1>2. ASSUME NEW w \in work, DeleteUE(w) PROVE HeldInv'
    <2>1. row' \in [Supi -> Nat] BY <1>2 DEF DeleteUE
    <2> QED BY <1>2, <2>1 DEF DeleteUE, Numbered, Counted, HeldTmsiOwn
  <1>3. CASE LoadFromStore
    <2>1. redis' \in Nat /\ redis' >= redis BY SMTT(30), <1>3 DEF LoadFromStore
    <2>2. /\ byNgap' = {} /\ bySupi' = [s \in Supi |-> 0] /\ byTmsi' = [t \in Tmsi |-> 0]
          /\ queue' = [c \in Ctx |-> <<>>] /\ row' = [s \in Supi |-> 0]
          /\ UNCHANGED <<next, guti, who, held>>
      BY <1>3 DEF LoadFromStore
    <2>3. CoreTypes' BY SMTT(30), <2>1, <2>2
    <2>4. Numbered' BY SMTT(30), <2>2 DEF Numbered
    <2>5. Counted' BY SMTT(30), <2>1, <2>2 DEF Counted
    <2>6. HeldTmsiOwn' BY SMTT(30), <2>2 DEF HeldTmsiOwn
    <2> QED BY <2>3, <2>4, <2>5, <2>6
  <1> QED BY <1>1, <1>2, <1>3

\* With TMSIs counted in Redis, and Redis never failing, the TMSI a device holds finds
\* that device's context or none, through lost Accepts, removals and restarts.
THEOREM HeldTmsiSafe ==
  ASSUME RedisOnly PROVE AmfUeSpec => []HeldTmsiOwn
  <1>1. HeldInv /\ [AmfUeNext]_amfVars => HeldInv'
    <2> SUFFICES ASSUME HeldInv, [AmfUeNext]_amfVars PROVE HeldInv' OBVIOUS
    <2>1. CASE UNCHANGED core
      <3>1. CoreTypes' BY <2>1 DEF core, HeldInv, CoreTypes
      <3>2. Numbered' /\ Counted' /\ HeldTmsiOwn'
        BY <2>1 DEF core, HeldInv, Numbered, Counted, HeldTmsiOwn
      <3> QED BY <3>1, <3>2 DEF HeldInv
    <2>2. CASE Pops BY <2>2, QueueKeeps DEF Pops, HeldInv, CoreTypes
    <2>3. ASSUME NEW g \in Gnb, NEW r \in Ran, NEW task \in Tasks,
                 handleUplinkNASTransport(g, r, task)
          PROVE HeldInv'
      <3>1. link[g][r] \in Ctx /\ link[g][r] <= next
        <4>1. link[g][r] \in byNgap BY <2>3 DEF handleUplinkNASTransport
        <4>2. byNgap \subseteq 1..next /\ next \in 0..MaxCtx BY DEF HeldInv, Numbered, CoreTypes
        <4>3. link[g][r] \in 1..next BY ONLY ZenonT(60), <4>1, <4>2
        <4> QED BY ONLY <4>2, <4>3, MaxCtx \in Nat DEF Ctx
      <3> QED BY <2>3, <3>1, QueueKeeps DEF handleUplinkNASTransport, HeldInv, CoreTypes
    <2>4. CASE CoreStep
      BY <2>3, <2>4, InitialKeeps, HandlerKeeps, RemovalKeeps DEF CoreStep
    <2>5. CASE UNCHANGED amfVars BY <2>1, <2>5 DEF amfVars, core
    <2> QED BY <2>1, <2>2, <2>4, <2>5, CoreSteps
  <1>2. HeldInv => HeldTmsiOwn BY DEF HeldInv
  <1> QED BY <1>1, <1>2, HeldStarts, PTL DEF AmfUeSpec

\* Slots are functions and a context that answers has a number.
SlotTypes == bySupi \in [Supi -> 0..MaxCtx]

\* A SUPI slot is emptied only together with the removal of the context that has it: a
\* displaced context leaves the slot to the newer registration (Remove, SetSUPI).
THEOREM OwnerSafe == AmfUeSpec => OwnerKept
  <1>1. AmfUeInit => SlotTypes BY SMTT(30) DEF AmfUeInit, SlotTypes
  <1>2. SlotTypes /\ [AmfUeNext]_amfVars =>
          /\ SlotTypes'
          /\ \A s \in Supi : bySupi[s] # 0 /\ bySupi'[s] = 0 => bySupi[s] \notin byNgap'
    <2> SUFFICES ASSUME SlotTypes, [AmfUeNext]_amfVars
                 PROVE /\ SlotTypes'
                       /\ \A s \in Supi :
                            bySupi[s] # 0 /\ bySupi'[s] = 0 => bySupi[s] \notin byNgap'
      OBVIOUS
    <2>1. CASE UNCHANGED bySupi BY <2>1 DEF SlotTypes
    <2>2. CASE LoadFromStore BY SMTT(30), <2>2 DEF LoadFromStore, SlotTypes
    <2>3. ASSUME NEW w \in work, Remove(w)
          PROVE /\ SlotTypes'
                /\ \A s \in Supi : bySupi[s] # 0 /\ bySupi'[s] = 0 => bySupi[s] \notin byNgap'
      BY SMTT(30), <2>3 DEF Remove, clearSupiSlot, Owns, SlotTypes
    <2>4. ASSUME NEW c \in Ctx, bySupi' = [bySupi EXCEPT ![who[c]] = c]
          PROVE /\ SlotTypes'
                /\ \A s \in Supi : bySupi[s] # 0 /\ bySupi'[s] = 0 => bySupi[s] \notin byNgap'
      <3>1. bySupi \in [Supi -> 0..MaxCtx] /\ c \in 0..MaxCtx /\ c # 0 BY SMTT(30) DEF SlotTypes
      <3>2. bySupi' \in [Supi -> 0..MaxCtx] BY ONLY ZenonT(60), <2>4, <3>1
      <3>3. \A s \in Supi : bySupi[s] # 0 => bySupi'[s] # 0 BY ONLY <2>4, <3>1
      <3> QED BY <3>2, <3>3 DEF SlotTypes
    <2>5. ASSUME NEW c \in Ctx, handleAuthenticationResponse(c)
          PROVE UNCHANGED bySupi \/ bySupi' = [bySupi EXCEPT ![who[c]] = c]
      BY <2>5 DEF handleAuthenticationResponse, SetSUPI
    <2>6. CASE CoreStep
      <3>1. \/ UNCHANGED bySupi \/ LoadFromStore
            \/ \E w \in work : Remove(w)
            \/ \E c \in Ctx : handleAuthenticationResponse(c)
        <4>1. ASSUME NEW g \in Gnb, NEW r \in Ran, NEW s \in Supi,
                     \/ freshRegistration(g, r, s) \/ rejectUnknownTMSI(g, r, s)
                     \/ rejectUnsent(g, r, s)
              PROVE UNCHANGED bySupi
          BY <4>1 DEF freshRegistration, rejectUnknownTMSI, rejectUnsent
        <4>2. ASSUME NEW g \in Gnb, NEW r \in Ran, NEW s \in Supi, NEW task,
                     returningUE(g, r, s, task)
              PROVE UNCHANGED bySupi
          BY <4>2 DEF returningUE
        <4>3. ASSUME NEW g \in Gnb, NEW r \in Ran, NEW task, handleUplinkNASTransport(g, r, task)
              PROVE UNCHANGED bySupi
          BY <4>3 DEF handleUplinkNASTransport
        <4>4. ASSUME NEW c \in Ctx, \/ handleSecurityModeComplete(c)
                                    \/ handleRegistrationComplete(c)
                                    \/ handleRegistrationUpdate(c)
              PROVE UNCHANGED bySupi
          BY <4>4 DEF handleSecurityModeComplete, handleRegistrationComplete,
                      handleRegistrationUpdate
        <4>5. ASSUME NEW w \in work, DeleteUE(w) PROVE UNCHANGED bySupi BY <4>5 DEF DeleteUE
        <4> QED BY <2>6, <4>1, <4>2, <4>3, <4>4, <4>5 DEF CoreStep
      <3> QED BY <2>1, <2>2, <2>3, <2>4, <2>5, <3>1
    <2> QED BY <2>1, <2>6, CoreSteps DEF Pops, core, amfVars
  <1> QED BY <1>1, <1>2, PTL DEF AmfUeSpec, OwnerKept
=============================================================================
