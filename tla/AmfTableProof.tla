---------------------------- MODULE AmfTableProof ----------------------------
(* For every number of gNBs, RAN IDs, subscribers and contexts: the entry of a RAN UE NGAP
   ID is the context the gNB means, and the SUPI index leads to a context that is in the
   table and is that subscriber's.                                                  *)
EXTENDS AmfUe, TLAPS

USE ZenonT(30) DEF counters, index, ue, timer, n2, outside
----------------------------------------------------------------------------
(* GNBContext.UEs *)

\* A table of every gNB by RAN UE NGAP ID, whatever is in it, and one with an entry written.
Table(m) ==
    /\ m = [g \in Gnb |-> m[g]]
    /\ \A g \in Gnb : m[g] = [r \in Ran |-> m[g][r]]
Write(m, x, y, v) == [m EXCEPT ![x][y] = v]

\* Writing an entry changes that entry.
LEMMA TableWrite ==
    ASSUME NEW m, Table(m), NEW x, NEW y, NEW v
    PROVE  /\ Table(Write(m, x, y, v))
           /\ \A g \in Gnb, r \in Ran :
                Write(m, x, y, v)[g][r] = IF g = x /\ r = y THEN v ELSE m[g][r]
<1>0. PICK n : n = Write(m, x, y, v) OBVIOUS
<1>1. DOMAIN m = Gnb /\ \A g \in Gnb : DOMAIN m[g] = Ran /\ m[g] = [r \in Ran |-> m[g][r]]
  BY DEF Table
<1>2. \A g \in Gnb : n[g] = IF g = x THEN [m[x] EXCEPT ![y] = v] ELSE m[g]
  BY <1>0, <1>1 DEF Write
<1>3. \A g \in Gnb : n[g] = [r \in Ran |-> IF g = x /\ r = y THEN v ELSE m[g][r]]
  BY SMT, <1>1, <1>2
<1>4. n = [g \in Gnb |-> n[g]] BY <1>0, <1>1 DEF Write
<1>5. ASSUME NEW g \in Gnb PROVE n[g] = [r \in Ran |-> n[g][r]]
  <2> DEFINE f == n[g]
  <2>2. f = [r \in Ran |-> IF g = x /\ r = y THEN v ELSE m[g][r]] BY <1>3
  <2>3. f = [r \in Ran |-> f[r]] BY <2>2
  <2> QED BY <2>3
<1>6. Table(n) BY <1>4, <1>5 DEF Table
<1> QED BY <1>0, <1>3, <1>6

\* An entry and a link that both exist agree, at every gNB.
EntryInv ==
    /\ gnbs \subseteq Gnb /\ Table(link) /\ Table(UEs)
    /\ \A g \in Gnb, r \in Ran : link[g][r] # 0 /\ UEs[g][r] # 0 => UEs[g][r] = link[g][r]

\* An initial message writes both, and so they agree (addEntry).
LEMMA BothWritten ==
    ASSUME EntryInv, NEW g \in Gnb, NEW r \in Ran, NEW c, gnbs' = gnbs,
           UEs' = Write(UEs, g, r, c), link' = Write(link, g, r, c)
    PROVE  EntryInv'
<1>1. /\ Table(link)'
      /\ \A h \in Gnb, x \in Ran : link'[h][x] = IF h = g /\ x = r THEN c ELSE link[h][x]
  BY SMT, TableWrite DEF EntryInv
<1>2. /\ Table(UEs)'
      /\ \A h \in Gnb, x \in Ran : UEs'[h][x] = IF h = g /\ x = r THEN c ELSE UEs[h][x]
  BY SMT, TableWrite DEF EntryInv
<1>3. gnbs' \subseteq Gnb BY DEF EntryInv
<1>4. \A h \in Gnb, x \in Ran : link'[h][x] # 0 /\ UEs'[h][x] # 0 => UEs'[h][x] = link'[h][x]
  BY SMT, <1>1, <1>2 DEF EntryInv
<1> QED BY <1>1, <1>2, <1>3, <1>4 DEF EntryInv

\* Every other step only clears entries and links.
LEMMA OnlyCleared ==
    ASSUME EntryInv, gnbs' \subseteq Gnb, Table(link'), Table(UEs'),
           \A g \in Gnb, r \in Ran : link'[g][r] \in {0, link[g][r]},
           \A g \in Gnb, r \in Ran : UEs'[g][r] \in {0, UEs[g][r]}
    PROVE  EntryInv'
BY SMT DEF EntryInv, Table

\* The same for one entry (removal from GNBContext.UEs, a link the gNB ends).
LEMMA ClearedWrite ==
    ASSUME NEW m, Table(m), NEW n, n = m \/ \E x, y : n = Write(m, x, y, 0)
    PROVE  Table(n) /\ \A g \in Gnb, r \in Ran : n[g][r] \in {0, m[g][r]}
<1>1. ASSUME NEW x, NEW y, n = Write(m, x, y, 0)
      PROVE  Table(n) /\ \A g \in Gnb, r \in Ran : n[g][r] \in {0, m[g][r]}
  <2>1. /\ Table(n)
        /\ \A g \in Gnb, r \in Ran : n[g][r] = IF g = x /\ r = y THEN 0 ELSE m[g][r]
    BY SMT, <1>1, TableWrite
  <2> QED BY <2>1
<1> QED BY <1>1

\* In every state, also when associations are lost and the AMF restarts, a RAN UE NGAP ID in
\* use at a gNB leads the AMF to the context the gNB means by it (GNBContext.UEs).
THEOREM EntrySafe == AmfUeSpec => []EntryIsLinked
<1>1. AmfUeInit => EntryInv BY SMT DEF AmfUeInit, EntryInv, Table, NoUE
<1>2. EntryInv /\ [AmfUeNext]_amfVars => EntryInv'
  <2> SUFFICES ASSUME EntryInv, [AmfUeNext]_amfVars PROVE EntryInv' OBVIOUS
  <2>0. ASSUME gnbs' \subseteq Gnb,
               link' = link \/ \E x, y : link' = Write(link, x, y, 0),
               UEs' = UEs \/ \E x, y : UEs' = Write(UEs, x, y, 0)
        PROVE  EntryInv'
    <3>1. Table(link') /\ \A g \in Gnb, r \in Ran : link'[g][r] \in {0, link[g][r]}
      BY <2>0, ClearedWrite DEF EntryInv
    <3>2. Table(UEs') /\ \A g \in Gnb, r \in Ran : UEs'[g][r] \in {0, UEs[g][r]}
      BY <2>0, ClearedWrite DEF EntryInv
    <3> QED BY <2>0, <3>1, <3>2, OnlyCleared
  <2>1. CASE UNCHANGED <<gnbs, link, UEs>>
    BY <2>0, <2>1 DEF EntryInv
  <2>2. ASSUME NEW g \in Gnb, NEW r \in Ran, NEW s \in Supi,
               freshRegistration(g, r, s) \/ rejectUnknownTMSI(g, r, s)
        PROVE  EntryInv'
    <3>1. PICK c : /\ UEs' = Write(UEs, g, r, c) /\ link' = Write(link, g, r, c)
                   /\ gnbs' = gnbs
      BY <2>2 DEF freshRegistration, rejectUnknownTMSI, addEntry, Write
    <3> QED BY <3>1, BothWritten
  <2>3. ASSUME NEW g \in Gnb, NEW r \in Ran, NEW s \in Supi, NEW task, returningUE(g, r, s, task)
        PROVE  EntryInv'
    BY <2>3, BothWritten DEF returningUE, addEntry, Write
  <2>4. ASSUME NEW g \in Gnb, handleNGSetup(g) PROVE EntryInv'
    BY <2>0, <2>4 DEF handleNGSetup, EntryInv
  <2>5. ASSUME NEW g \in Gnb, handleGNBConn(g) PROVE EntryInv'
    <3>1. /\ gnbs' = gnbs \ {g}
          /\ UEs' = [UEs EXCEPT ![g] = [r \in Ran |-> 0]]
          /\ link' = [link EXCEPT ![g] = [r \in Ran |-> 0]]
      BY <2>5 DEF handleGNBConn
    <3>2. ASSUME NEW m, Table(m), NEW n, n = [m EXCEPT ![g] = [r \in Ran |-> 0]]
          PROVE  Table(n) /\ \A h \in Gnb, r \in Ran : n[h][r] \in {0, m[h][r]}
      <4>1. n = [h \in Gnb |-> IF h = g THEN [r \in Ran |-> 0] ELSE [r \in Ran |-> m[h][r]]]
        BY <3>2 DEF Table
      <4> QED BY <4>1 DEF Table
    <3>3. Table(link') /\ \A h \in Gnb, r \in Ran : link'[h][r] \in {0, link[h][r]}
      BY <3>1, <3>2 DEF EntryInv
    <3>4. Table(UEs') /\ \A h \in Gnb, r \in Ran : UEs'[h][r] \in {0, UEs[h][r]}
      BY <3>1, <3>2 DEF EntryInv
    <3>5. gnbs' \subseteq Gnb BY <3>1 DEF EntryInv
    <3> QED BY <3>3, <3>4, <3>5, OnlyCleared
  <2>6. ASSUME NEW g \in Gnb, NEW r \in Ran,
               GnbDropsLink(g, r) \/ \E s \in Supi : rejectUnsent(g, r, s)
        PROVE  EntryInv'
    BY <2>0, <2>6 DEF GnbDropsLink, rejectUnsent, EntryInv, Write
  <2>7. ASSUME NEW m \in cmd, staleReleaseComplete(m) \/ handleUEContextReleaseComplete(m)
        PROVE  EntryInv'
    BY <2>0, <2>7 DEF staleReleaseComplete, handleUEContextReleaseComplete, Released, EntryInv, Write
  <2>8. ASSUME NEW w \in work, completeRelease(w) PROVE EntryInv'
    BY <2>0, <2>8 DEF completeRelease, EntryInv, Write
  <2>9. CASE LoadFromStore BY <2>9 DEF LoadFromStore, EntryInv, Table, NoUE
  <2>10. CASE UNCHANGED amfVars BY <2>1, <2>10 DEF amfVars
  <2>11. ASSUME NEW c \in Ctx, \/ SendNetworkDeregistration(c) \/ ANReleaseHandler(c)
                               \/ StartMobileReachableTimer(c) \/ implicitDetachExpires(c)
                               \/ startPendingRemovalTimer(c)
         PROVE EntryInv'
    BY <2>1, <2>11 DEF SendNetworkDeregistration, ANReleaseHandler, StartMobileReachableTimer,
                       implicitDetachExpires, startPendingRemovalTimer
  <2>12. ASSUME NEW w \in work, \/ startImplicitDetachTimer(w)
                                \/ removeUEFromIdleUEs(w) \/ SetImplicitDetachHandler(w)
                                \/ releaseDisplacedContext(w) \/ Remove(w) \/ DeleteUE(w)
         PROVE EntryInv'
    BY <2>1, <2>12 DEF startImplicitDetachTimer, removeUEFromIdleUEs,
                       SetImplicitDetachHandler, releaseDisplacedContext, Remove, DeleteUE
  <2>13. ASSUME NEW c \in Ctx, \/ handleRegistrationRequest(c) \/ rejectSecurityModeComplete(c)
                               \/ handleServiceRequest(c) \/ handleDeregistration(c)
                               \/ handleNWDeregistrationAccept(c)
                               \/ handleAuthenticationResponse(c) \/ handleRegistrationComplete(c)
                               \/ handleSecurityModeComplete(c) \/ handleRegistrationUpdate(c)
         PROVE EntryInv'
    BY <2>1, <2>13 DEF handleRegistrationRequest, rejectSecurityModeComplete,
       handleServiceRequest, handleDeregistration, handleNWDeregistrationAccept, teardown,
       handleAuthenticationResponse, handleRegistrationComplete, handleSecurityModeComplete,
       handleRegistrationUpdate
  <2>14. ASSUME NEW g \in Gnb, NEW r \in Ran,
                \/ handleInitialContextSetupFailure(g, r) \/ handleUEContextReleaseRequest(g, r)
                \/ \E task \in Tasks : handleUplinkNASTransport(g, r, task)
         PROVE EntryInv'
    BY <2>1, <2>14 DEF handleInitialContextSetupFailure, handleUEContextReleaseRequest,
                       handleUplinkNASTransport
  <2>15. ASSUME NEW m \in cmd, GnbDropsCommand(m) PROVE EntryInv'
    BY <2>1, <2>15 DEF GnbDropsCommand
  <2> QED
    BY <2>2, <2>3, <2>4, <2>5, <2>6, <2>7, <2>8, <2>9, <2>10, <2>11, <2>12, <2>13, <2>14, <2>15
       DEF AmfUeNext
<1>3. EntryInv => EntryIsLinked BY DEF EntryInv, EntryIsLinked
<1> QED BY <1>1, <1>2, <1>3, PTL DEF AmfUeSpec
----------------------------------------------------------------------------
(* Manager.uesBySUPI *)

\* A context whose authentication is still to come: its Registration Request or its
\* Authentication Response is queued, or the device has been asked.
Opening(c) == queue[c] \in {<<"reg">>, <<"auth">>} \/ stage[c] = "auth"

\* Neither of the two messages is in q.
Lacks(q) == \A i \in 1..Len(q) : q[i] \notin {"reg", "auth"}

\* Before the authentication there is one message at most, after it neither of the two.
Shape(c) ==
    /\ Opening(c) => \/ queue[c] = <<>> /\ stage[c] = "auth"
                     \/ queue[c] \in {<<"reg">>, <<"auth">>} /\ stage[c] = "wait"
    /\ ~Opening(c) => Lacks(queue[c])

\* Where a context occurs: at a gNB, in the goroutines, in the indexes; and whether anything
\* has begun that ends with its removal.
Linked(c) == \E g \in Gnb, r \in Ran : link[g][r] = c
Doing(c) == \E w \in work : w.c = c
Indexed(c) == (\E s \in Supi : bySupi[s] = c) \/ (\E t \in Tmsi : byTmsi[t] = c)
Leaving(c) == c \in id \/ c \notin byNgap \/ \E w \in work : w.c = c /\ w.at # "complete"

\* A context that has not been allocated.
Blank(c) ==
    /\ queue[c] = <<>> /\ stage[c] = "wait"
    /\ c \notin byNgap /\ c \notin mr /\ c \notin id /\ c \notin pr
    /\ c \notin pending /\ c \notin connected
    /\ ~Linked(c) /\ ~Doing(c) /\ ~Indexed(c) /\ \A m \in cmd : m.c # c

\* A context before its authentication: nothing but a Release Complete, which unlinks it,
\* can have led to its removal, and then no message for it is left or will arrive.
Untouched(c) ==
    /\ who[c] \in Supi
    /\ c \notin pending /\ c \notin connected /\ c \notin pr /\ ~Indexed(c)
    /\ c \in mr \/ Doing(c) \/ Leaving(c) => ~Linked(c)
    /\ Leaving(c) => queue[c] = <<>>
    /\ \A g \in Gnb, r \in Ran : link[g][r] = c => addr[c] = g /\ ran[c] = r
    /\ \A m \in cmd : m.c = c => m.g = addr[c] /\ m.ran = ran[c]

CtxInv(c) ==
    /\ c > next => Blank(c)
    /\ Shape(c)
    /\ Opening(c) => Untouched(c)

ContextTypes ==
    /\ next \in 0..MaxCtx
    /\ bySupi \in [Supi -> 0..MaxCtx] /\ byTmsi \in [Tmsi -> 0..MaxCtx]
    /\ supi \in [Ctx -> Supi \cup {None}] /\ who \in [Ctx -> Supi \cup {None}]
    /\ queue \in [Ctx -> Seq(Tasks)]
    /\ stage \in [Ctx -> {"wait", "auth", "smc", "cpl", "done"}]
    /\ addr \in [Ctx -> Gnb \cup {None}] /\ ran \in [Ctx -> Ran \cup {0}]
    /\ link \in [Gnb -> [Ran -> 0..MaxCtx]]
    /\ \A w \in work : w.c \in Ctx
    /\ \A m \in cmd : m.c \in Ctx

SlotInv == ContextTypes /\ SupiSlotLive /\ \A c \in Ctx : CtxInv(c)

\* The identifiers of the contexts, and 0 for none.
LEMMA ContextIds ==
    /\ 0 \in 0..MaxCtx /\ 0 \notin Ctx
    /\ \A x \in 0..MaxCtx : x # 0 => x \in Ctx
    /\ \A c \in Ctx : c \in 0..MaxCtx /\ c \in Nat
BY SMT, AmfUeAssumption DEF Ctx

\* What is known of one context.
LEMMA ContextFacts ==
    ASSUME SlotInv, NEW c \in Ctx
    PROVE  CtxInv(c) /\ c \in Nat /\ next \in Nat /\ queue[c] \in Seq(Tasks)
<1>1. next \in Nat BY SMT, AmfUeAssumption DEF SlotInv, ContextTypes
<1> QED BY <1>1, ContextIds DEF SlotInv, ContextTypes

\* What a step that is not about d leaves it.
Same(d) ==
    /\ queue'[d] = queue[d] /\ stage'[d] = stage[d] /\ addr'[d] = addr[d] /\ ran'[d] = ran[d]
    /\ who'[d] = who[d]
    /\ d > next' => d > next
    /\ d \in byNgap' <=> d \in byNgap
    /\ d \in mr' => d \in mr
    /\ d \in id' => d \in id
    /\ d \in pr' => d \in pr
    /\ d \in pending' => d \in pending
    /\ d \in connected' => d \in connected
    /\ \A w \in work' : w.c = d => w \in work
    /\ \A m \in cmd' : m.c = d => m \in cmd
    /\ \A g \in Gnb, r \in Ran : link'[g][r] = d => link[g][r] = d
    /\ Indexed(d)' => Indexed(d)

\* Such a step keeps what is known of d.
LEMMA SameKept ==
    ASSUME NEW d, CtxInv(d), Same(d)
    PROVE  CtxInv(d)'
<1>1. Opening(d)' <=> Opening(d) BY DEF Same, Opening
<1>2. Shape(d)' BY <1>1 DEF Same, CtxInv, Shape, Lacks
<1>3. Linked(d)' => Linked(d) BY DEF Same, Linked
<1>4. Doing(d)' => Doing(d) BY DEF Same, Doing
<1>5. Leaving(d)' => Leaving(d) BY DEF Same, Leaving
<1>6. Blank(d) => Blank(d)' BY <1>3, <1>4 DEF Same, Blank
<1>7. Untouched(d) => Untouched(d)' BY <1>3, <1>4, <1>5 DEF Same, Untouched
<1> QED BY <1>1, <1>2, <1>6, <1>7 DEF CtxInv, Same

\* What taking a message from a queue and adding one do to it.
LEMMA QueueFacts ==
    ASSUME NEW q \in Seq(Tasks), NEW x \in Tasks
    PROVE  /\ q # <<>> /\ Lacks(q) => Lacks(Tail(q)) /\ Head(q) \notin {"reg", "auth"}
           /\ Lacks(q) /\ x \notin {"reg", "auth"} => Lacks(Append(q, x))
           /\ Append(<<>>, x) = <<x>> /\ Tail(<<x>>) = <<>> /\ Head(<<x>>) = x
           /\ q # <<>> => Tail(q) \in Seq(Tasks)
           /\ Append(q, x) \in Seq(Tasks)
<1>1. Append(<<>>, x) = <<x>> /\ Tail(<<x>>) = <<>> /\ Head(<<x>>) = x BY SMT
<1>2. q # <<>> /\ Lacks(q) => Lacks(Tail(q)) /\ Head(q) \notin {"reg", "auth"} BY SMT DEF Lacks
<1>3. Lacks(q) /\ x \notin {"reg", "auth"} => Lacks(Append(q, x)) BY SMT DEF Lacks
<1> QED BY SMT, <1>1, <1>2, <1>3

\* The empty queue, and the two queues of a context before its authentication.
LEMMA ShortQueues ==
    Lacks(<<>>) /\ ~Lacks(<<"reg">>) /\ ~Lacks(<<"auth">>) /\ <<>> \in Seq(Tasks)
BY SMT DEF Lacks

\* A step about a context c that is past its authentication.
LEMMA PastStep ==
    ASSUME SlotInv, ContextTypes', NEW c \in Ctx, ~(c > next), ~Opening(c),
           Lacks(queue'[c]), stage'[c] # "auth",
           UNCHANGED <<next, byNgap, bySupi, supi>>,
           \A d \in Ctx : d # c => Same(d)
    PROVE  SlotInv'
<1>1. SupiSlotLive' BY DEF SlotInv, SupiSlotLive
<1>2. ~Opening(c)'
  BY ShortQueues DEF Opening
<1>3. ~(c > next') BY ContextFacts
<1>4. CtxInv(c)' BY <1>2, <1>3 DEF CtxInv, Shape
<1>5. \A d \in Ctx : CtxInv(d)' BY <1>4, SameKept DEF SlotInv
<1> QED BY <1>1, <1>5 DEF SlotInv

\* What has a message queued that is neither of the two is past its authentication.
LEMMA RunsPast ==
    ASSUME SlotInv, NEW c \in Ctx, NEW t \in Tasks, Runs(c, t), t \notin {"reg", "auth"}
    PROVE  /\ ~Opening(c) /\ Lacks(queue'[c]) /\ ~(c > next)
           /\ queue' \in [Ctx -> Seq(Tasks)]
           /\ \A d \in Ctx : d # c => queue'[d] = queue[d]
<1>1. queue \in [Ctx -> Seq(Tasks)] /\ CtxInv(c) BY ContextFacts DEF SlotInv, ContextTypes
<1>2. queue[c] # <<>> /\ Head(queue[c]) = t /\ queue' = [queue EXCEPT ![c] = Tail(queue[c])]
  BY DEF Runs
<1>3. queue[c] \in Seq(Tasks) /\ Tail(queue[c]) \in Seq(Tasks)
  BY <1>1, <1>2, QueueFacts DEF Tasks
<1>4. ~Opening(c)
  <2>1. "reg" \in Tasks /\ "auth" \in Tasks BY DEF Tasks
  <2>2. Head(<<"reg">>) = "reg" /\ Head(<<"auth">>) = "auth" BY <1>3, <2>1, QueueFacts
  <2> QED BY <1>1, <1>2, <2>2 DEF CtxInv, Shape
<1>5. Lacks(queue[c]) BY <1>1, <1>4 DEF CtxInv, Shape
<1>6. Lacks(Tail(queue[c])) BY <1>2, <1>3, <1>5, QueueFacts
<1>7. ~(c > next) BY <1>1, <1>2 DEF CtxInv, Blank
<1> QED BY <1>1, <1>2, <1>3, <1>4, <1>6, <1>7

\* The handlers of a context past its authentication.
LEMMA HandlersKeepSlots ==
    ASSUME SlotInv, NEW c \in Ctx,
           \/ handleSecurityModeComplete(c) \/ rejectSecurityModeComplete(c)
           \/ handleRegistrationComplete(c) \/ handleServiceRequest(c)
           \/ handleRegistrationUpdate(c) \/ handleDeregistration(c)
           \/ handleNWDeregistrationAccept(c)
    PROVE  SlotInv'
<1>1. PICK t \in Tasks \ {"reg", "auth"} : Runs(c, t)
  BY DEF handleSecurityModeComplete, rejectSecurityModeComplete, handleRegistrationComplete,
         handleServiceRequest, handleRegistrationUpdate, handleDeregistration,
         handleNWDeregistrationAccept, Tasks
<1>2. /\ ~Opening(c) /\ Lacks(queue'[c]) /\ ~(c > next) /\ queue' \in [Ctx -> Seq(Tasks)]
      /\ \A d \in Ctx : d # c => queue'[d] = queue[d]
  BY <1>1, RunsPast
<1>3. /\ UNCHANGED <<next, byNgap, bySupi, supi, addr, ran, work, gnbs, link, who>>
      /\ stage' = stage \/ stage' = [stage EXCEPT ![c] = "cpl"]
      /\ byTmsi' = byTmsi \/ \E u \in Tmsi : byTmsi' = [byTmsi EXCEPT ![u] = c]
  <2>1. CASE handleSecurityModeComplete(c)
    BY <2>1 DEF handleSecurityModeComplete, AssignGUTI, Delivered
  <2>2. CASE handleRegistrationUpdate(c)
    BY <2>2 DEF handleRegistrationUpdate, AssignGUTI, Delivered
  <2>3. CASE handleDeregistration(c) \/ handleNWDeregistrationAccept(c)
    BY <2>3 DEF handleDeregistration, handleNWDeregistrationAccept, teardown, releaseForRemoval
  <2>4. CASE rejectSecurityModeComplete(c) \/ handleRegistrationComplete(c) \/ handleServiceRequest(c)
    BY <2>4 DEF rejectSecurityModeComplete, handleRegistrationComplete, handleServiceRequest
  <2> QED BY <2>1, <2>2, <2>3, <2>4
<1>4. /\ \A d \in mr' : d # c => d \in mr
      /\ \A d \in id' : d # c => d \in id
      /\ \A d \in pr' : d # c => d \in pr
      /\ \A d \in pending' : d # c => d \in pending
      /\ \A d \in connected' : d # c => d \in connected
      /\ cmd' = cmd \/ cmd' = cmd \cup {Command(c)}
  <2>1. CASE handleSecurityModeComplete(c)
    BY <2>1 DEF handleSecurityModeComplete
  <2>2. CASE handleRegistrationUpdate(c)
    BY <2>2 DEF handleRegistrationUpdate, StopUETimers
  <2>3. CASE handleDeregistration(c) \/ handleNWDeregistrationAccept(c)
    BY <2>3 DEF handleDeregistration, handleNWDeregistrationAccept, teardown, releaseForRemoval,
       watchRemoval
  <2>4. CASE rejectSecurityModeComplete(c) \/ handleRegistrationComplete(c) \/ handleServiceRequest(c)
    BY <2>4 DEF rejectSecurityModeComplete, handleRegistrationComplete, handleServiceRequest, StopUETimers
  <2> QED BY <2>1, <2>2, <2>3, <2>4
<1>5. Command(c).c = c BY DEF Command
<1>6. ContextTypes'
  <2>0. c \in 0..MaxCtx BY ContextIds
  <2>1. byTmsi' \in [Tmsi -> 0..MaxCtx] BY <1>3, <2>0 DEF SlotInv, ContextTypes
  <2>2. \A m \in cmd' : m.c \in Ctx BY <1>4, <1>5 DEF SlotInv, ContextTypes
  <2> QED BY <1>2, <1>3, <2>1, <2>2 DEF SlotInv, ContextTypes
<1>7. stage'[c] # "auth" BY <1>2, <1>3 DEF Opening, SlotInv, ContextTypes
<1>8. ASSUME NEW d \in Ctx, d # c PROVE Same(d)
  <2>1. stage'[d] = stage[d] BY <1>3, <1>8 DEF SlotInv, ContextTypes
  <2>2. Indexed(d)' => Indexed(d) BY <1>3, <1>8 DEF Indexed, SlotInv, ContextTypes
  <2>3. \A m \in cmd' : m.c = d => m \in cmd BY <1>4, <1>5, <1>8
  <2> QED BY <1>2, <1>3, <1>4, <1>8, <2>1, <2>2, <2>3 DEF Same
<1> QED BY <1>2, <1>3, <1>6, <1>7, <1>8, PastStep

\* The first two messages of a registration.
LEMMA OpeningsKeepSlots ==
    ASSUME SlotInv, NEW c \in Ctx,
           handleRegistrationRequest(c) \/ handleAuthenticationResponse(c)
    PROVE  SlotInv'
<1>0. PICK t \in {"reg", "auth"} :
         /\ Runs(c, t)
         /\ t = "reg" => handleRegistrationRequest(c)
         /\ t = "auth" => handleAuthenticationResponse(c)
  BY DEF handleRegistrationRequest, handleAuthenticationResponse
<1>1. queue \in [Ctx -> Seq(Tasks)] /\ CtxInv(c) /\ c # 0
  BY ContextFacts, ContextIds DEF SlotInv, ContextTypes
<1>2. queue[c] # <<>> /\ Head(queue[c]) = t /\ queue' = [queue EXCEPT ![c] = Tail(queue[c])]
  BY <1>0 DEF Runs
<1>3. queue[c] \in Seq(Tasks) /\ "reg" \in Tasks /\ "auth" \in Tasks BY <1>1 DEF Tasks
<1>4. Opening(c) /\ queue[c] = <<t>> /\ stage[c] = "wait"
  <2>1. ~Lacks(queue[c]) BY <1>0, <1>2, <1>3, QueueFacts
  <2>2. Opening(c) BY <1>1, <2>1 DEF CtxInv, Shape
  <2>3. Head(<<"reg">>) = "reg" /\ Head(<<"auth">>) = "auth" BY <1>3, QueueFacts
  <2> QED BY <1>1, <1>2, <2>2, <2>3 DEF CtxInv, Shape
<1>5. queue'[c] = <<>> /\ \A d \in Ctx : d # c => queue'[d] = queue[d]
  <2>1. Tail(<<t>>) = <<>> BY <1>0, <1>3, QueueFacts
  <2> QED BY <1>1, <1>2, <1>4, <2>1
<1>6. c \in byNgap /\ ~(c > next) /\ Untouched(c) /\ ~Leaving(c)
  BY <1>1, <1>2, <1>4 DEF CtxInv, Untouched, Leaving, Blank
<1>7. queue' \in [Ctx -> Seq(Tasks)]
  <2>1. Tail(queue[c]) \in Seq(Tasks) BY <1>2, <1>3, QueueFacts
  <2> QED BY <1>1, <1>2, <2>1
<1>8. CASE handleRegistrationRequest(c)
  <2>1. /\ UNCHANGED <<next, byNgap, bySupi, byTmsi, supi, connected, addr, ran, pending, mr, id,
                       pr, work, link, cmd, who>>
        /\ stage' = stage \/ (Hears(c) /\ stage' = [stage EXCEPT ![c] = "auth"])
    BY <1>8 DEF handleRegistrationRequest, Asks
  <2>2. ContextTypes' BY <1>7, <2>1 DEF SlotInv, ContextTypes
  <2>3. SupiSlotLive' BY <2>1 DEF SlotInv, SupiSlotLive
  <2>4. \A d \in Ctx : d # c => Same(d)
    BY <1>5, <2>1 DEF Same, SlotInv, ContextTypes, Indexed
  <2>5. CtxInv(c)'
    <3>1. CASE stage' = stage
      <4>1. ~Opening(c)' BY <1>4, <1>5, <3>1, ShortQueues DEF Opening
      <4> QED BY <1>5, <1>6, <2>1, <4>1, ShortQueues DEF CtxInv, Shape
    <3>2. CASE Hears(c) /\ stage' = [stage EXCEPT ![c] = "auth"]
      <4>1. stage'[c] = "auth" BY <3>2 DEF SlotInv, ContextTypes
      <4>2. Shape(c)' BY <1>5, <4>1 DEF Shape, Opening
      <4>3. Untouched(c)'
        BY <1>5, <1>6, <2>1 DEF Untouched, Linked, Doing, Leaving, Indexed
      <4> QED BY <1>1, <1>6, <2>1, <4>2, <4>3 DEF CtxInv
    <3> QED BY <2>1, <3>1, <3>2
  <2> QED BY <2>2, <2>3, <2>4, <2>5, SameKept DEF SlotInv
<1>9. CASE handleAuthenticationResponse(c)
  <2>1. UNCHANGED <<next, byNgap, byTmsi, connected, addr, ran, pending, mr, id, pr, link, cmd,
                    who>>
    BY <1>9 DEF handleAuthenticationResponse
  <2>2. \/ UNCHANGED <<bySupi, supi, work, stage>>
        \/ /\ SetSUPI(c, who[c])
           /\ work' = work \cup {Do("displaced", d) : d \in displaced(c)}
           /\ stage' = stage \/ stage' = [stage EXCEPT ![c] = "smc"]
    BY <1>9 DEF handleAuthenticationResponse, Asks
  <2>3. \A d \in displaced(c) : d \in Ctx /\ d # c /\ Indexed(d) /\ Do("displaced", d).c = d
    <3>1. who[c] \in Supi BY <1>6 DEF Untouched
    <3>2. bySupi[who[c]] \in 0..MaxCtx BY <3>1 DEF SlotInv, ContextTypes
    <3>3. \A d \in displaced(c) : d \in Ctx /\ d # c /\ Indexed(d)
      BY <3>1, <3>2, ContextIds DEF displaced, Indexed
    <3> QED BY <3>3 DEF Do
  <2>4. \A w \in work' : w.c \in Ctx /\ (w \in work \/ (w.c # c /\ Indexed(w.c)))
    BY SMT, <2>2, <2>3 DEF SlotInv, ContextTypes
  <2>5. /\ stage' \in [Ctx -> {"wait", "auth", "smc", "cpl", "done"}] /\ stage'[c] # "auth"
        /\ \A d \in Ctx : d # c => stage'[d] = stage[d]
    BY <1>4, <2>2 DEF SlotInv, ContextTypes
  <2>6. /\ bySupi' \in [Supi -> 0..MaxCtx] /\ supi' \in [Ctx -> Supi \cup {None}]
        /\ \A s \in Supi : bySupi'[s] = bySupi[s] \/ (bySupi'[s] = c /\ s = who[c] /\ supi'[c] = s)
        /\ \A d \in Ctx : d # c => supi'[d] = supi[d]
    <3>1. who[c] \in Supi BY <1>6 DEF Untouched
    <3>2. c \in 0..MaxCtx BY ContextIds
    <3>3. CASE UNCHANGED <<bySupi, supi>> BY <3>3 DEF SlotInv, ContextTypes
    <3>4. CASE SetSUPI(c, who[c]) BY <3>1, <3>2, <3>4 DEF SetSUPI, SlotInv, ContextTypes
    <3> QED BY <2>2, <3>3, <3>4
  <2>7. ContextTypes' BY <1>7, <2>1, <2>4, <2>5, <2>6 DEF SlotInv, ContextTypes
  <2>8. SupiSlotLive'
    <3> SUFFICES ASSUME NEW s \in Supi, bySupi'[s] # 0
                 PROVE  bySupi'[s] \in byNgap' /\ supi'[bySupi'[s]] = s
      BY DEF SupiSlotLive
    <3>1. CASE bySupi'[s] = bySupi[s]
      <4>1. bySupi[s] \in byNgap /\ supi[bySupi[s]] = s /\ bySupi[s] \in Ctx
        BY SMT, <3>1, AmfUeAssumption DEF SlotInv, ContextTypes, SupiSlotLive, Ctx
      <4>2. bySupi[s] # c BY <1>6 DEF Untouched, Indexed
      <4> QED BY <2>1, <2>6, <3>1, <4>1, <4>2
    <3>2. CASE bySupi'[s] = c /\ s = who[c] /\ supi'[c] = s BY <1>6, <2>1, <3>2
    <3> QED BY <2>6, <3>1, <3>2
  <2>9. CtxInv(c)'
    <3>1. ~Opening(c)' BY <1>5, <2>5, ShortQueues DEF Opening
    <3> QED BY <1>5, <1>6, <2>1, <3>1, ShortQueues DEF CtxInv, Shape
  <2>10. ASSUME NEW d \in Ctx, d # c PROVE CtxInv(d)'
    <3>1. CtxInv(d) BY DEF SlotInv
    <3>2. CASE \A w \in work' : w.c = d => w \in work
      <4>1. Indexed(d)' => Indexed(d) BY SMT, <2>1, <2>6, <2>10 DEF Indexed
      <4>2. Same(d) BY <1>5, <2>1, <2>5, <2>10, <3>2, <4>1 DEF Same
      <4> QED BY <3>1, <4>2, SameKept
    <3>3. CASE \E w \in work' : w.c = d /\ w \notin work
      <4>1. Indexed(d) BY <2>4, <3>3
      <4>2. ~Opening(d) /\ ~(d > next) BY <3>1, <4>1 DEF CtxInv, Untouched, Blank
      <4>3. ~Opening(d)' BY <1>5, <2>5, <2>10, <4>2 DEF Opening
      <4> QED BY <1>5, <2>1, <2>10, <3>1, <4>2, <4>3 DEF CtxInv, Shape
    <3> QED BY <3>2, <3>3
  <2> QED BY <2>7, <2>8, <2>9, <2>10 DEF SlotInv
<1> QED BY <1>8, <1>9

\* A step that changes nothing about any context.
LEMMA QuietStep ==
    ASSUME SlotInv, ContextTypes', UNCHANGED <<byNgap, bySupi, supi>>, \A d \in Ctx : Same(d)
    PROVE  SlotInv'
<1>1. SupiSlotLive' BY DEF SlotInv, SupiSlotLive
<1> QED BY <1>1, SameKept DEF SlotInv

\* A step towards the removal of a context nobody can authenticate any more.
LEMMA LeavingStep ==
    ASSUME SlotInv, ContextTypes', NEW c \in Ctx, ~(c > next),
           Opening(c) => ~Linked(c) /\ queue[c] = <<>>,
           UNCHANGED <<next, byNgap, bySupi, byTmsi, supi, queue, stage, addr, ran, who, pending,
                       connected, link, cmd>>,
           \A d \in Ctx : d # c => Same(d),
           c \in pr' => c \in pr
    PROVE  SlotInv'
<1>1. SupiSlotLive' BY DEF SlotInv, SupiSlotLive
<1>2. CtxInv(c) /\ c \in Nat /\ next \in Nat BY ContextFacts
<1>3. Opening(c)' <=> Opening(c) BY DEF Opening
<1>4. Shape(c)' BY <1>2, <1>3 DEF CtxInv, Shape
<1>5. Opening(c) => Untouched(c)'
  BY <1>2 DEF CtxInv, Untouched, Linked, Indexed
<1>6. CtxInv(c)' BY <1>2, <1>3, <1>4, <1>5 DEF CtxInv
<1> QED BY <1>1, <1>6, SameKept DEF SlotInv

\* What runs for a context, and what is armed for it.
LEMMA WorkFacts ==
    ASSUME SlotInv, NEW w \in work
    PROVE  /\ w.c \in Ctx /\ ~(w.c > next) /\ CtxInv(w.c)
           /\ Opening(w.c) => ~Linked(w.c)
           /\ Opening(w.c) /\ w.at # "complete" => queue[w.c] = <<>>
<1>1. w.c \in Ctx /\ CtxInv(w.c) BY DEF SlotInv, ContextTypes
<1>2. Doing(w.c) /\ (w.at # "complete" => Leaving(w.c)) BY DEF Doing, Leaving
<1>3. w.c \in Nat /\ next \in Nat BY <1>1, ContextFacts
<1> QED BY <1>1, <1>2, <1>3 DEF CtxInv, Blank, Untouched

\* The timers and the goroutines of a removal, up to the indexes.
LEMMA RemovalsKeepSlots ==
    ASSUME SlotInv,
           \/ \E c \in Ctx : \/ StartMobileReachableTimer(c) \/ implicitDetachExpires(c)
                             \/ startPendingRemovalTimer(c)
           \/ \E w \in work : \/ startImplicitDetachTimer(w) \/ removeUEFromIdleUEs(w)
                              \/ SetImplicitDetachHandler(w) \/ releaseDisplacedContext(w)
                              \/ DeleteUE(w)
    PROVE  SlotInv'
<1>0. \A at, c : Do(at, c).c = c BY DEF Do
<1>1. \A w, at : Then(w, at).c = w.c BY DEF Then
<1>2. ASSUME NEW c \in Ctx, \/ StartMobileReachableTimer(c) \/ implicitDetachExpires(c)
                            \/ startPendingRemovalTimer(c)
      PROVE  SlotInv'
  <2>1. /\ UNCHANGED <<next, byNgap, bySupi, byTmsi, supi, queue, stage, addr, ran, who, pending,
                       connected, link, cmd>>
        /\ mr' \subseteq mr /\ id' \subseteq id /\ pr' \subseteq pr
        /\ c \in mr \/ c \in id \/ c \in pr
        /\ c \notin pr => queue[c] = <<>>
    BY <1>2 DEF StartMobileReachableTimer, implicitDetachExpires, startPendingRemovalTimer
  <2>2. \A w \in work' : w \in work \/ w.c = c
    BY SMT, <1>0, <1>2 DEF StartMobileReachableTimer, implicitDetachExpires, startPendingRemovalTimer
  <2>3. CtxInv(c) /\ c \in Nat /\ next \in Nat BY ContextFacts
  <2>4. ~(c > next) BY <2>1, <2>3 DEF CtxInv, Blank
  <2>5. Opening(c) => ~Linked(c) /\ queue[c] = <<>>
    BY <2>1, <2>3 DEF CtxInv, Untouched, Leaving
  <2>6. ContextTypes' BY <2>1, <2>2 DEF SlotInv, ContextTypes
  <2>7. \A d \in Ctx : d # c => Same(d) BY SMT, <2>1, <2>2 DEF Same, Indexed
  <2> QED BY <2>1, <2>4, <2>5, <2>6, <2>7, LeavingStep
<1>3. ASSUME NEW w \in work, \/ startImplicitDetachTimer(w) \/ removeUEFromIdleUEs(w)
                             \/ SetImplicitDetachHandler(w) \/ releaseDisplacedContext(w)
                             \/ DeleteUE(w)
      PROVE  SlotInv'
  <2>1. /\ UNCHANGED <<next, byNgap, bySupi, byTmsi, supi, queue, stage, addr, ran, who, pending,
                       connected, link, cmd>>
        /\ mr' \subseteq mr /\ id' \subseteq id \cup {w.c} /\ pr' \subseteq pr
        /\ w.at # "complete"
    BY <1>3 DEF startImplicitDetachTimer, removeUEFromIdleUEs, SetImplicitDetachHandler,
                releaseDisplacedContext, DeleteUE, StopAllTimers
  <2>2. \A x \in work' : x \in work \/ x.c = w.c
    BY SMT, <1>0, <1>1, <1>3 DEF startImplicitDetachTimer, removeUEFromIdleUEs,
       SetImplicitDetachHandler, releaseDisplacedContext, DeleteUE
  <2>3. /\ w.c \in Ctx /\ ~(w.c > next)
        /\ Opening(w.c) => ~Linked(w.c) /\ queue[w.c] = <<>>
    BY <2>1, WorkFacts
  <2>4. ContextTypes' BY <2>1, <2>2, <2>3 DEF SlotInv, ContextTypes
  <2>5. \A d \in Ctx : d # w.c => Same(d) BY <2>1, <2>2 DEF Same, Indexed
  <2> QED BY <2>1, <2>3, <2>4, <2>5, LeavingStep
<1> QED BY <1>2, <1>3

\* Manager.Remove clears the slot of the context it removes and no other, and a restart
\* clears them all.
LEMMA IndexesKeepSlots ==
    ASSUME SlotInv, LoadFromStore \/ \E w \in work : Remove(w)
    PROVE  SlotInv'
<1>1. ASSUME NEW w \in work, Remove(w) PROVE SlotInv'
  <2> DEFINE c == w.c
  <2>1. /\ UNCHANGED <<next, supi, queue, stage, addr, ran, who, pending, connected, link, cmd>>
        /\ mr' \subseteq mr /\ id' \subseteq id /\ pr' \subseteq pr
        /\ byNgap' = byNgap \ {c} /\ w.at = "index"
    BY <1>1 DEF Remove, StopAllTimers
  <2>2. /\ bySupi' = [s \in Supi |-> IF s = supi[c] /\ Owns(c) THEN 0 ELSE bySupi[s]]
        /\ byTmsi' = [t \in Tmsi |-> IF t = guti[c] THEN 0 ELSE byTmsi[t]]
    BY <1>1 DEF Remove, clearSupiSlot
  <2>3. \A x \in work' : x \in work \/ x.c = c BY SMT, <1>1 DEF Remove, Then
  <2>4. /\ c \in Ctx /\ ~(c > next) /\ CtxInv(c)
        /\ Opening(c) => ~Linked(c) /\ queue[c] = <<>>
    BY <2>1, WorkFacts
  <2>5. 0 \in 0..MaxCtx /\ 0 \notin Ctx BY ContextIds
  <2>6. bySupi' \in [Supi -> 0..MaxCtx] /\ byTmsi' \in [Tmsi -> 0..MaxCtx]
    BY <2>2, <2>5 DEF SlotInv, ContextTypes
  <2>7. ContextTypes' BY <2>1, <2>3, <2>4, <2>6 DEF SlotInv, ContextTypes
  <2>8. ASSUME NEW s \in Supi, bySupi'[s] # 0
        PROVE  bySupi'[s] \in byNgap' /\ supi'[bySupi'[s]] = s
    <3>1. bySupi'[s] = bySupi[s] /\ ~(s = supi[c] /\ Owns(c)) BY <2>2, <2>8
    <3>2. bySupi[s] \in byNgap /\ supi[bySupi[s]] = s BY <2>8, <3>1 DEF SlotInv, SupiSlotLive
    <3>3. s # None BY AmfUeAssumption
    <3>4. bySupi[s] # c BY <3>1, <3>2, <3>3 DEF Owns
    <3> QED BY <2>1, <3>1, <3>2, <3>4
  <2>9. \A d \in Ctx : Indexed(d)' => Indexed(d) BY <2>2, <2>5 DEF Indexed
  <2>10. \A d \in Ctx : d # c => Same(d) BY <2>1, <2>3, <2>9 DEF Same
  <2>11. CtxInv(c)'
    <3>1. Opening(c)' <=> Opening(c) BY <2>1 DEF Opening
    <3>2. Shape(c)' BY <2>1, <2>4, <3>1 DEF CtxInv, Shape
    <3>3. Opening(c) => Untouched(c)'
      BY <2>1, <2>4, <2>9 DEF CtxInv, Untouched, Linked
    <3>4. c \in Nat /\ next \in Nat BY <2>4, ContextFacts
    <3> QED BY <2>1, <2>4, <3>1, <3>2, <3>3, <3>4 DEF CtxInv
  <2> QED BY <2>7, <2>8, <2>10, <2>11, SameKept DEF SlotInv, SupiSlotLive
<1>2. CASE LoadFromStore
  <2>1. /\ byNgap' = {} /\ bySupi' = [s \in Supi |-> 0] /\ byTmsi' = [t \in Tmsi |-> 0]
        /\ mr' = {} /\ id' = {} /\ pr' = {} /\ queue' = [c \in Ctx |-> <<>>] /\ work' = {}
        /\ link' = NoUE /\ cmd' = {}
        /\ UNCHANGED <<next, supi, connected, addr, ran, pending, who, stage>>
    BY <1>2 DEF LoadFromStore
  <2>2. 0 \in 0..MaxCtx /\ 0 \notin Ctx /\ <<>> \in Seq(Tasks) BY ContextIds, ShortQueues
  <2>3. ContextTypes' BY <2>1, <2>2 DEF SlotInv, ContextTypes, NoUE
  <2>4. SupiSlotLive' BY <2>1 DEF SupiSlotLive
  <2>5. ASSUME NEW c \in Ctx PROVE CtxInv(c)'
    <3>1. ~Linked(c)' /\ ~Indexed(c)' /\ ~Doing(c)'
      BY <2>1, <2>2 DEF Linked, Indexed, Doing, NoUE
    <3>2. queue'[c] = <<>> BY <2>1
    <3>3. Lacks(queue'[c]) BY <3>2, ShortQueues
    <3>4. Opening(c)' => stage[c] = "auth" BY <2>1, <3>2, ShortQueues DEF Opening
    <3>5. Opening(c)' => Opening(c) BY <3>4 DEF Opening
    <3>6. CtxInv(c) BY DEF SlotInv
    <3>7. Opening(c)' => Untouched(c)'
      BY <2>1, <3>1, <3>2, <3>5, <3>6 DEF CtxInv, Untouched, Linked
    <3>8. Shape(c)' BY <2>1, <3>2, <3>3, <3>4 DEF Shape
    <3>9. c > next => Blank(c)' BY <2>1, <3>1, <3>2, <3>6 DEF CtxInv, Blank
    <3> QED BY <2>1, <3>7, <3>8, <3>9 DEF CtxInv
  <2> QED BY <2>3, <2>4, <2>5 DEF SlotInv
<1> QED BY <1>1, <1>2

\* The initial UE message: a new context is blank, and one found by its TMSI is past its
\* authentication.
LEMMA InitialKeepsSlots ==
    ASSUME SlotInv, held \in [Supi -> 0..MaxTmsi], NEW g \in Gnb, NEW r \in Ran, NEW s \in Supi,
           \/ freshRegistration(g, r, s) \/ rejectUnknownTMSI(g, r, s) \/ rejectUnsent(g, r, s)
           \/ \E task \in {"sr", "ru", "dereg"} : returningUE(g, r, s, task)
    PROVE  SlotInv'
<1>0. \A d \in Ctx : CtxInv(d) /\ d \in Nat BY ContextFacts
<1>1. ASSUME NEW c \in Ctx, AllocateUEContext(c)
      PROVE  /\ c = next + 1 /\ next' = c /\ byNgap' = byNgap \cup {c} /\ Blank(c)
             /\ \A d \in Ctx : d > next' => d > next
             /\ next' \in 0..MaxCtx /\ ~(c > next') /\ c \in 0..MaxCtx
             /\ \A q \in Supi : bySupi[q] # c
  <2>1. c = next + 1 /\ next' = c /\ byNgap' = byNgap \cup {c} /\ c \in Nat /\ next \in Nat
    BY <1>1, ContextFacts DEF AllocateUEContext
  <2>2. Blank(c) BY SMT, <1>0, <2>1 DEF CtxInv
  <2>3. c \in 0..MaxCtx BY ContextIds
  <2> QED BY SMT, <1>0, <2>1, <2>2, <2>3 DEF Blank, Indexed
<1>2. CASE freshRegistration(g, r, s)
  <2>1. PICK c \in Ctx :
          /\ AllocateUEContext(c)
          /\ addr' = [addr EXCEPT ![c] = g] /\ ran' = [ran EXCEPT ![c] = r]
          /\ link' = [link EXCEPT ![g][r] = c] /\ link[g][r] = 0
          /\ queue' = [queue EXCEPT ![c] = <<"reg">>]
          /\ who' = [who EXCEPT ![c] = s]
          /\ UNCHANGED <<bySupi, byTmsi, supi, connected, pending, mr, id, pr, work, cmd, stage>>
    BY <1>2 DEF freshRegistration
  <2>2. /\ c = next + 1 /\ next' = c /\ byNgap' = byNgap \cup {c} /\ Blank(c)
        /\ \A d \in Ctx : d > next' => d > next
        /\ next' \in 0..MaxCtx /\ ~(c > next') /\ c \in 0..MaxCtx
    BY <1>1, <2>1
  <2>3. <<"reg">> \in Seq(Tasks) BY SMT DEF Tasks
  <2>4. /\ addr'[c] = g /\ ran'[c] = r /\ queue'[c] = <<"reg">> /\ who'[c] = s
        /\ \A d \in Ctx : d # c => /\ addr'[d] = addr[d] /\ ran'[d] = ran[d]
                                   /\ queue'[d] = queue[d] /\ who'[d] = who[d]
    BY <2>1 DEF SlotInv, ContextTypes
  <2>5. \A h \in Gnb, x \in Ran : link'[h][x] = IF h = g /\ x = r THEN c ELSE link[h][x]
    BY <2>1 DEF SlotInv, ContextTypes
  <2>6. ContextTypes'
    <3>1. queue' \in [Ctx -> Seq(Tasks)] BY <2>1, <2>3 DEF SlotInv, ContextTypes
    <3>2. link' \in [Gnb -> [Ran -> 0..MaxCtx]] BY <2>1, <2>2 DEF SlotInv, ContextTypes
    <3>3. /\ addr' \in [Ctx -> Gnb \cup {None}] /\ ran' \in [Ctx -> Ran \cup {0}]
          /\ who' \in [Ctx -> Supi \cup {None}]
      BY <2>1 DEF SlotInv, ContextTypes
    <3> QED BY <2>1, <2>2, <3>1, <3>2, <3>3 DEF SlotInv, ContextTypes
  <2>7. SupiSlotLive' BY <2>1, <2>2 DEF SlotInv, SupiSlotLive
  <2>8. ASSUME NEW d \in Ctx, d # c PROVE Same(d)
    BY SMT, <2>1, <2>2, <2>4, <2>5, <2>8 DEF Same, Indexed
  <2>9. CtxInv(c)'
    <3>1. stage'[c] = "wait" BY <2>1, <2>2 DEF Blank
    <3>2. Shape(c)' BY <2>4, <3>1 DEF Shape, Opening
    <3>3. ~Doing(c)' /\ ~Indexed(c)' /\ ~Leaving(c)' /\ \A m \in cmd' : m.c # c
      BY <2>1, <2>2 DEF Blank, Doing, Indexed, Leaving
    <3>4. \A h \in Gnb, x \in Ran : link'[h][x] = c => h = g /\ x = r
      BY <2>2, <2>5 DEF Blank, Linked
    <3>5. /\ who'[c] \in Supi /\ c \notin pending' /\ c \notin connected' /\ c \notin pr'
          /\ c \notin mr'
      BY <2>1, <2>2, <2>4 DEF Blank
    <3>6. Untouched(c)' BY <2>4, <3>3, <3>4, <3>5 DEF Untouched
    <3> QED BY <2>2, <3>2, <3>6 DEF CtxInv
  <2> QED BY <2>6, <2>7, <2>8, <2>9, SameKept DEF SlotInv
<1>3. CASE rejectUnknownTMSI(g, r, s)
  <2>1. PICK c \in Ctx :
          /\ AllocateUEContext(c)
          /\ ran' = [ran EXCEPT ![c] = r] /\ pending' = pending \cup {c}
          /\ link' = [link EXCEPT ![g][r] = c]
          /\ cmd' = cmd \cup {[g |-> g, ran |-> r, c |-> c]}
          /\ pr' = pr \cup {c}
          /\ UNCHANGED <<bySupi, byTmsi, supi, connected, addr, queue, who, mr, id, work, stage>>
    BY <1>3 DEF rejectUnknownTMSI, watchRemoval
  <2>2. /\ c = next + 1 /\ next' = c /\ byNgap' = byNgap \cup {c} /\ Blank(c)
        /\ \A d \in Ctx : d > next' => d > next
        /\ next' \in 0..MaxCtx /\ ~(c > next') /\ c \in 0..MaxCtx
    BY <1>1, <2>1
  <2>3. \A h \in Gnb, x \in Ran : link'[h][x] = IF h = g /\ x = r THEN c ELSE link[h][x]
    BY <2>1 DEF SlotInv, ContextTypes
  <2>4. \A m \in cmd' : m \in cmd \/ m.c = c BY SMT, <2>1
  <2>5. ContextTypes'
    <3>1. link' \in [Gnb -> [Ran -> 0..MaxCtx]] BY <2>1, <2>2 DEF SlotInv, ContextTypes
    <3>2. ran' \in [Ctx -> Ran \cup {0}] BY <2>1 DEF SlotInv, ContextTypes
    <3> QED BY <2>1, <2>2, <2>4, <3>1, <3>2 DEF SlotInv, ContextTypes
  <2>6. SupiSlotLive' BY <2>1, <2>2 DEF SlotInv, SupiSlotLive
  <2>7. ASSUME NEW d \in Ctx, d # c PROVE Same(d)
    <3>1. ran'[d] = ran[d] BY <2>1, <2>7 DEF SlotInv, ContextTypes
    <3> QED BY SMT, <2>1, <2>2, <2>3, <2>4, <2>7, <3>1 DEF Same, Indexed
  <2>8. CtxInv(c)'
    <3>1. stage'[c] = "wait" /\ queue'[c] = <<>> BY <2>1, <2>2 DEF Blank
    <3>2. ~Opening(c)' BY <3>1, ShortQueues DEF Opening
    <3>3. Lacks(queue'[c]) BY <3>1, ShortQueues
    <3> QED BY <2>2, <3>2, <3>3 DEF CtxInv, Shape
  <2> QED BY <2>5, <2>6, <2>7, <2>8, SameKept DEF SlotInv
<1>4. CASE rejectUnsent(g, r, s)
  <2>1. /\ next' = next + 1 /\ next' \in 0..MaxCtx
        /\ UNCHANGED <<byNgap, bySupi, byTmsi, supi, connected, addr, ran, pending, mr, id, pr,
                       queue, work, link, cmd, who, stage>>
    BY SMT, <1>4, AmfUeAssumption DEF rejectUnsent, SlotInv, ContextTypes
  <2>2. \A d \in Ctx : d > next' => d > next
    BY SMT, <1>0, <2>1 DEF SlotInv, ContextTypes
  <2>3. ContextTypes' BY <2>1 DEF SlotInv, ContextTypes
  <2>4. \A d \in Ctx : Same(d) BY <2>1, <2>2 DEF Same, Indexed
  <2> QED BY <2>1, <2>3, <2>4, QuietStep
<1>5. ASSUME NEW task \in {"sr", "ru", "dereg"}, returningUE(g, r, s, task) PROVE SlotInv'
  <2>0. PICK c : c = byTmsi[held[s]] OBVIOUS
  <2>1. /\ held[s] # 0 /\ c # 0
        /\ addr' = [addr EXCEPT ![c] = g] /\ ran' = [ran EXCEPT ![c] = r]
        /\ connected' = connected \cup {c}
        /\ mr' = mr \ {c} /\ id' = id \ {c} /\ pr' = pr \ {c}
        /\ link' = [link EXCEPT ![g][r] = c]
        /\ queue' = [queue EXCEPT ![c] = Append(queue[c], task)]
        /\ stage' = [stage EXCEPT ![c] = "done"]
        /\ UNCHANGED <<next, byNgap, bySupi, byTmsi, supi, pending, work, cmd, who>>
    BY <1>5, <2>0 DEF returningUE, StopAllTimers
  <2>2. held[s] \in Tmsi BY SMT, <2>1, AmfUeAssumption DEF Tmsi
  <2>3. c \in 0..MaxCtx /\ c \in Ctx /\ Indexed(c)
    <3>1. c \in 0..MaxCtx BY <2>0, <2>2 DEF SlotInv, ContextTypes
    <3> QED BY <2>0, <2>1, <2>2, <3>1, ContextIds DEF Indexed
  <2>4. ~Opening(c) /\ ~(c > next) /\ Lacks(queue[c])
    <3>1. CtxInv(c) /\ c \in Nat /\ next \in Nat
      BY <2>3, ContextFacts
    <3> QED BY <2>3, <3>1 DEF CtxInv, Untouched, Blank, Shape
  <2>5. task \in Tasks /\ task \notin {"reg", "auth"} BY DEF Tasks
  <2>6. queue[c] \in Seq(Tasks) BY <2>3 DEF SlotInv, ContextTypes
  <2>7. Append(queue[c], task) \in Seq(Tasks) BY <2>5, <2>6, QueueFacts
  <2>8. queue'[c] = Append(queue[c], task) /\ stage'[c] = "done"
    BY <2>1, <2>3 DEF SlotInv, ContextTypes
  <2>9. Lacks(queue'[c]) BY <2>4, <2>5, <2>6, <2>8, QueueFacts
  <2>10. ContextTypes'
    <3>1. queue' \in [Ctx -> Seq(Tasks)] BY <2>1, <2>7 DEF SlotInv, ContextTypes
    <3>2. link' \in [Gnb -> [Ran -> 0..MaxCtx]] BY <2>1, <2>3 DEF SlotInv, ContextTypes
    <3>3. /\ addr' \in [Ctx -> Gnb \cup {None}] /\ ran' \in [Ctx -> Ran \cup {0}]
          /\ stage' \in [Ctx -> {"wait", "auth", "smc", "cpl", "done"}]
      BY <2>1 DEF SlotInv, ContextTypes
    <3> QED BY <2>1, <3>1, <3>2, <3>3 DEF SlotInv, ContextTypes
  <2>11. ASSUME NEW d \in Ctx, d # c PROVE Same(d)
    <3>1. /\ addr'[d] = addr[d] /\ ran'[d] = ran[d] /\ queue'[d] = queue[d]
          /\ stage'[d] = stage[d]
      BY <2>1, <2>11 DEF SlotInv, ContextTypes
    <3>2. \A h \in Gnb, x \in Ran : link'[h][x] = d => link[h][x] = d
      BY <2>1, <2>11 DEF SlotInv, ContextTypes
    <3> QED BY <2>1, <2>11, <3>1, <3>2 DEF Same, Indexed
  <2> QED BY <2>1, <2>3, <2>4, <2>8, <2>9, <2>10, <2>11, PastStep
<1> QED BY <1>2, <1>3, <1>4, <1>5

\* An uplink message reaches only a context that is still linked, so nothing has begun to
\* remove one whose authentication is to come.
LEMMA UplinkKeepsSlots ==
    ASSUME SlotInv, NEW g \in Gnb, NEW r \in Ran, NEW task \in Tasks,
           handleUplinkNASTransport(g, r, task)
    PROVE  SlotInv'
<1>0. PICK c : c = link[g][r] OBVIOUS
<1>1. /\ c # 0 /\ c \in byNgap /\ c \notin pending /\ task \in Sends(c)
      /\ queue' = [queue EXCEPT ![c] = Append(queue[c], task)]
      /\ stage' = [stage EXCEPT ![c] = IF task \in {"auth", "smc"} THEN "wait" ELSE "done"]
      /\ UNCHANGED <<next, byNgap, bySupi, byTmsi, supi, connected, addr, ran, pending, mr, id,
                     pr, work, link, cmd, who>>
  BY <1>0 DEF handleUplinkNASTransport
<1>2. c \in Ctx /\ Linked(c)
  <2>1. c \in 0..MaxCtx BY <1>0 DEF SlotInv, ContextTypes
  <2> QED BY <1>0, <1>1, <2>1, ContextIds DEF Linked
<1>3. CtxInv(c) /\ c \in Nat /\ next \in Nat /\ queue[c] \in Seq(Tasks)
  BY <1>2, ContextFacts
<1>4. ~(c > next) BY <1>1, <1>3 DEF CtxInv, Blank
<1>5. Append(queue[c], task) \in Seq(Tasks) BY <1>3, QueueFacts
<1>6. /\ queue'[c] = Append(queue[c], task)
      /\ stage'[c] = IF task \in {"auth", "smc"} THEN "wait" ELSE "done"
      /\ \A d \in Ctx : d # c => queue'[d] = queue[d] /\ stage'[d] = stage[d]
  BY <1>1, <1>2 DEF SlotInv, ContextTypes
<1>7. ContextTypes'
  <2>1. queue' \in [Ctx -> Seq(Tasks)] BY <1>1, <1>5 DEF SlotInv, ContextTypes
  <2>2. stage' \in [Ctx -> {"wait", "auth", "smc", "cpl", "done"}]
    BY <1>1 DEF SlotInv, ContextTypes
  <2> QED BY <1>1, <2>1, <2>2 DEF SlotInv, ContextTypes
<1>8. \A d \in Ctx : d # c => Same(d) BY <1>1, <1>6 DEF Same, Indexed
<1>9. CASE Opening(c)
  <2>1. Untouched(c) /\ c \notin mr /\ ~Doing(c) /\ ~Leaving(c)
    BY <1>2, <1>3, <1>9 DEF CtxInv, Untouched
  <2>2. \/ queue[c] = <<>> /\ stage[c] = "auth"
        \/ queue[c] \in {<<"reg">>, <<"auth">>} /\ stage[c] = "wait"
    BY <1>3, <1>9 DEF CtxInv, Shape
  <2>3. task = "auth" /\ stage[c] = "auth" /\ queue[c] = <<>>
    BY <1>1, <2>2 DEF Sends, Tasks
  <2>4. queue'[c] = <<"auth">> /\ stage'[c] = "wait" BY <1>3, <1>6, <2>3, QueueFacts
  <2>5. Shape(c)' BY <2>4 DEF Shape, Opening
  <2>6. Untouched(c)' BY <1>1, <2>1 DEF Untouched, Linked, Doing, Leaving, Indexed
  <2>7. CtxInv(c)' BY <1>1, <1>3, <1>4, <2>5, <2>6 DEF CtxInv
  <2>8. SupiSlotLive' BY <1>1 DEF SlotInv, SupiSlotLive
  <2> QED BY <1>7, <1>8, <2>7, <2>8, SameKept DEF SlotInv
<1>10. CASE ~Opening(c)
  <2>1. stage[c] \in {"wait", "smc", "cpl", "done"} BY <1>2, <1>10 DEF Opening, SlotInv, ContextTypes
  <2>2. task \notin {"reg", "auth"} BY <1>1, <2>1 DEF Sends, Tasks
  <2>3. Lacks(queue[c]) BY <1>3, <1>10 DEF CtxInv, Shape
  <2>4. Lacks(queue'[c]) BY <1>3, <1>6, <2>2, <2>3, QueueFacts
  <2>5. stage'[c] # "auth" BY <1>6
  <2> QED BY <1>1, <1>2, <1>4, <1>7, <1>8, <1>10, <2>4, <2>5, PastStep
<1> QED BY <1>9, <1>10

\* What the gNBs do by themselves, and a deregistration the network only asks for.
LEMMA GnbKeepsSlots ==
    ASSUME SlotInv,
           \/ \E g \in Gnb : handleNGSetup(g)
           \/ \E g \in Gnb, r \in Ran : GnbDropsLink(g, r)
           \/ \E m \in cmd : GnbDropsCommand(m) \/ staleReleaseComplete(m)
           \/ \E c \in Ctx : SendNetworkDeregistration(c)
    PROVE  SlotInv'
<1>0. 0 \in 0..MaxCtx /\ 0 \notin Ctx BY ContextIds
<1>1. /\ UNCHANGED <<next, byNgap, bySupi, byTmsi, supi, connected, addr, ran, pending, mr, id,
                     pr, queue, work, who, stage>>
      /\ cmd' \subseteq cmd
      /\ link' = link \/ \E g, r : link' = [link EXCEPT ![g][r] = 0]
  BY DEF handleNGSetup, GnbDropsLink, GnbDropsCommand, staleReleaseComplete, Released,
         SendNetworkDeregistration
<1>2. link \in [Gnb -> [Ran -> 0..MaxCtx]] BY DEF SlotInv, ContextTypes
<1>3. /\ link' \in [Gnb -> [Ran -> 0..MaxCtx]]
      /\ \A d \in Ctx : \A h \in Gnb, x \in Ran : link'[h][x] = d => link[h][x] = d
  <2>1. ASSUME NEW g, NEW r, link' = [link EXCEPT ![g][r] = 0]
        PROVE  /\ link' \in [Gnb -> [Ran -> 0..MaxCtx]]
               /\ \A d \in Ctx : \A h \in Gnb, x \in Ran : link'[h][x] = d => link[h][x] = d
    <3>1. [link[g] EXCEPT ![r] = 0] \in [Ran -> 0..MaxCtx] \/ g \notin Gnb BY <1>0, <1>2
    <3> QED BY <1>0, <1>2, <2>1, <3>1
  <2> QED BY <1>1, <1>2, <2>1
<1>4. ContextTypes' BY <1>1, <1>3 DEF SlotInv, ContextTypes
<1>5. \A d \in Ctx : Same(d) BY <1>1, <1>3 DEF Same, Indexed
<1> QED BY <1>1, <1>4, <1>5, QuietStep

\* The releases the AMF orders: only a connected context is released for removal, and a
\* command names the place the context has.
LEMMA CommandsKeepSlots ==
    ASSUME SlotInv,
           \/ \E c \in Ctx : ANReleaseHandler(c)
           \/ \E g \in Gnb, r \in Ran : \/ handleInitialContextSetupFailure(g, r)
                                        \/ handleUEContextReleaseRequest(g, r)
    PROVE  SlotInv'
<1>0. \A d \in Ctx : CtxInv(d) BY DEF SlotInv
<1>1. ASSUME NEW c \in Ctx, c \in connected, c \in byNgap,
             UNCHANGED <<next, byNgap, bySupi, byTmsi, supi, connected, addr, ran, mr, id,
                         queue, work, link, who, stage>>,
             pending' \subseteq pending \cup {c}, pr' \subseteq pr \cup {c},
             cmd' \subseteq cmd \cup {Command(c)}
      PROVE  SlotInv'
  <2>0. Command(c).c = c BY SMT DEF Command
  <2>1. \A m \in cmd' : m \in cmd \/ m.c = c BY <1>1, <2>0
  <2>2. CtxInv(c) /\ c \in Nat /\ next \in Nat
    BY <1>0, ContextFacts
  <2>3. ~Opening(c) /\ ~(c > next) BY <1>1, <2>2 DEF CtxInv, Untouched, Blank
  <2>4. ContextTypes' BY <1>1, <2>1 DEF SlotInv, ContextTypes
  <2>5. \A d \in Ctx : d # c => Same(d) BY SMT, <1>1, <2>1 DEF Same, Indexed
  <2>6. Lacks(queue'[c]) /\ stage'[c] # "auth" BY <1>1, <2>2, <2>3 DEF CtxInv, Shape, Opening
  <2> QED BY <1>1, <2>3, <2>4, <2>5, <2>6, PastStep
<1>2. ASSUME NEW c \in Ctx, ANReleaseHandler(c) PROVE SlotInv'
  BY <1>1, <1>2 DEF ANReleaseHandler
<1>3. ASSUME NEW g \in Gnb, NEW r \in Ran, handleInitialContextSetupFailure(g, r)
      PROVE  SlotInv'
  <2>0. PICK c : c = link[g][r] OBVIOUS
  <2>1. c \in 0..MaxCtx BY <2>0 DEF SlotInv, ContextTypes
  <2>2. c # 0 /\ c \in byNgap /\ c \in connected /\ releaseForRemoval(c)
    BY <1>3, <2>0 DEF handleInitialContextSetupFailure
  <2>3. c \in Ctx BY <2>1, <2>2, ContextIds
  <2>4. UNCHANGED <<next, byNgap, bySupi, byTmsi, supi, connected, addr, ran, mr, id, queue,
                    work, link, who, stage>>
    BY <1>3, <2>0, <2>2 DEF handleInitialContextSetupFailure, releaseForRemoval, watchRemoval
  <2>5. /\ pending' \subseteq pending \cup {c} /\ pr' \subseteq pr \cup {c}
        /\ cmd' \subseteq cmd \cup {Command(c)}
    BY <2>2 DEF releaseForRemoval, watchRemoval
  <2> QED BY <1>1, <2>2, <2>3, <2>4, <2>5
<1>4. ASSUME NEW g \in Gnb, NEW r \in Ran, handleUEContextReleaseRequest(g, r)
      PROVE  SlotInv'
  <2>0. PICK c : c = link[g][r] OBVIOUS
  <2>1. c \in 0..MaxCtx BY <2>0 DEF SlotInv, ContextTypes
  <2>2. /\ c # 0 /\ c \in byNgap /\ cmd' = cmd \cup {[g |-> g, ran |-> r, c |-> c]}
        /\ UNCHANGED <<next, byNgap, bySupi, byTmsi, supi, connected, addr, ran, pending, mr, id,
                       pr, queue, work, link, who, stage>>
    BY <1>4, <2>0 DEF handleUEContextReleaseRequest
  <2>3. c \in Ctx BY <2>1, <2>2, ContextIds
  <2>4. \A m \in cmd' : m \in cmd \/ (m.c = c /\ m.g = g /\ m.ran = r) BY SMT, <2>2
  <2>5. CtxInv(c) /\ c \in Nat /\ next \in Nat
    BY <1>0, <2>3, ContextFacts
  <2>6. ContextTypes' BY <2>2, <2>3, <2>4 DEF SlotInv, ContextTypes
  <2>7. \A d \in Ctx : d # c => Same(d) BY SMT, <2>2, <2>4 DEF Same, Indexed
  <2>8. SupiSlotLive' BY <2>2 DEF SlotInv, SupiSlotLive
  <2>9. CtxInv(c)'
    <3>1. Opening(c)' <=> Opening(c) BY <2>2 DEF Opening
    <3>2. Shape(c)' BY <2>2, <2>5, <3>1 DEF CtxInv, Shape
    <3>3. Opening(c) => Untouched(c)'
      <4>1. Opening(c) => addr[c] = g /\ ran[c] = r BY <2>0, <2>5 DEF CtxInv, Untouched
      <4>2. Opening(c) => \A m \in cmd' : m.c = c => m.g = addr[c] /\ m.ran = ran[c]
        BY <2>4, <2>5, <4>1 DEF CtxInv, Untouched
      <4> QED BY <2>2, <2>5, <4>2 DEF CtxInv, Untouched, Linked, Doing, Leaving, Indexed
    <3>4. ~(c > next') BY <2>2, <2>5 DEF CtxInv, Blank
    <3> QED BY <3>1, <3>2, <3>3, <3>4 DEF CtxInv
  <2> QED BY <2>6, <2>7, <2>8, <2>9, SameKept DEF SlotInv
<1> QED BY <1>2, <1>3, <1>4

\* A Release Complete unlinks the context it is for before anything watches or removes it.
LEMMA CompletionsKeepSlots ==
    ASSUME SlotInv,
           \/ \E m \in cmd : handleUEContextReleaseComplete(m)
           \/ \E w \in work : completeRelease(w)
    PROVE  SlotInv'
<1>0. \A d \in Ctx : CtxInv(d) BY DEF SlotInv
<1>1. ASSUME NEW m \in cmd, handleUEContextReleaseComplete(m) PROVE SlotInv'
  <2>0. PICK c : c = m.c OBVIOUS
  <2>1. /\ link' = [link EXCEPT ![m.g][m.ran] = 0]
        /\ work' = work \cup {[at |-> "complete", c |-> c, g |-> m.g, ran |-> m.ran]}
        /\ cmd' \subseteq cmd
        /\ UNCHANGED <<next, byNgap, bySupi, byTmsi, supi, connected, addr, ran, pending, mr, id,
                       pr, queue, who, stage>>
    BY <1>1, <2>0 DEF handleUEContextReleaseComplete, Released
  <2>2. \A w \in work' : w \in work \/ (w.c = c /\ w.at = "complete") BY SMT, <2>1
  <2>3. c \in Ctx BY <2>0 DEF SlotInv, ContextTypes
  <2>4. CtxInv(c) /\ c \in Nat /\ next \in Nat
    BY <1>0, <2>3, ContextFacts
  <2>5. 0 \in 0..MaxCtx /\ 0 \notin Ctx BY ContextIds
  <2>6. link' \in [Gnb -> [Ran -> 0..MaxCtx]] BY <2>1, <2>5 DEF SlotInv, ContextTypes
  <2>7. \A h \in Gnb, x \in Ran :
          link'[h][x] = IF h = m.g /\ x = m.ran THEN 0 ELSE link[h][x]
    BY <2>1 DEF SlotInv, ContextTypes
  <2>8. ContextTypes' BY <2>1, <2>2, <2>3, <2>6 DEF SlotInv, ContextTypes
  <2>9. \A d \in Ctx : \A h \in Gnb, x \in Ran : link'[h][x] = d => link[h][x] = d
    BY <2>5, <2>7
  <2>10. \A d \in Ctx : d # c => Same(d) BY SMT, <2>1, <2>2, <2>9 DEF Same, Indexed
  <2>11. SupiSlotLive' BY <2>1 DEF SlotInv, SupiSlotLive
  <2>12. CtxInv(c)'
    <3>1. Opening(c)' <=> Opening(c) BY <2>1 DEF Opening
    <3>2. Shape(c)' BY <2>1, <2>4, <3>1 DEF CtxInv, Shape
    <3>3. ASSUME Opening(c) PROVE Untouched(c)'
      <4>1. Untouched(c) BY <2>4, <3>3 DEF CtxInv
      <4>2. m.g = addr[c] /\ m.ran = ran[c] BY <2>0, <4>1 DEF Untouched
      <4>3. ~Linked(c)'
        BY SMT, <2>3, <2>5, <2>7, <2>9, <4>1, <4>2 DEF Linked, Untouched
      <4>4. Leaving(c)' => Leaving(c) BY <2>1, <2>2 DEF Leaving
      <4>5. Leaving(c)' => queue'[c] = <<>> BY <2>1, <4>1, <4>4 DEF Untouched
      <4>6. Indexed(c)' <=> Indexed(c) BY <2>1 DEF Indexed
      <4>7. \A x \in cmd' : x.c = c => x.g = addr'[c] /\ x.ran = ran'[c]
        BY <2>1, <4>1 DEF Untouched
      <4> QED BY <2>1, <4>1, <4>3, <4>5, <4>6, <4>7 DEF Untouched, Linked
    <3>4. ~(c > next') BY <2>0, <2>1, <2>4 DEF CtxInv, Blank
    <3> QED BY <3>1, <3>2, <3>3, <3>4 DEF CtxInv
  <2> QED BY <2>8, <2>10, <2>11, <2>12, SameKept DEF SlotInv
<1>2. ASSUME NEW w \in work, completeRelease(w) PROVE SlotInv'
  <2>0. PICK c : c = w.c OBVIOUS
  <2>1. /\ UNCHANGED <<next, byNgap, bySupi, byTmsi, supi, addr, ran, pending, id, queue, link,
                       cmd, who, stage>>
        /\ connected' \subseteq connected /\ mr' \subseteq mr \cup {c} /\ pr' \subseteq pr
    BY <1>2, <2>0 DEF completeRelease
  <2>2. \A x \in work' : x \in work \/ (x.c = c /\ c \in pending)
    <3>1. \A at : Then(w, at).c = c BY SMT, <2>0 DEF Then
    <3> QED BY <1>2, <2>0, <3>1 DEF completeRelease
  <2>3. c \in Ctx /\ ~(c > next) /\ CtxInv(c) /\ (Opening(c) => ~Linked(c))
    BY <2>0, WorkFacts
  <2>4. c \in Nat /\ next \in Nat BY <2>3, ContextFacts
  <2>5. ContextTypes' BY <2>1, <2>2, <2>3 DEF SlotInv, ContextTypes
  <2>6. \A d \in Ctx : d # c => Same(d) BY SMT, <2>1, <2>2 DEF Same, Indexed
  <2>7. SupiSlotLive' BY <2>1 DEF SlotInv, SupiSlotLive
  <2>8. CtxInv(c)'
    <3>1. Opening(c)' <=> Opening(c) BY <2>1 DEF Opening
    <3>2. Shape(c)' BY <2>1, <2>3, <3>1 DEF CtxInv, Shape
    <3>3. ASSUME Opening(c) PROVE Untouched(c)'
      <4>1. Untouched(c) /\ c \notin pending BY <2>3, <3>3 DEF CtxInv, Untouched
      <4>2. Leaving(c)' => Leaving(c) BY <2>1, <2>2, <4>1 DEF Leaving
      <4>3. ~Linked(c)' BY <2>1, <2>3, <3>3 DEF Linked
      <4> QED BY <2>1, <4>1, <4>2, <4>3 DEF Untouched, Indexed, Linked
    <3>4. ~(c > next') BY <2>1, <2>3, <2>4
    <3> QED BY <3>1, <3>2, <3>3, <3>4 DEF CtxInv
  <2> QED BY <2>5, <2>6, <2>7, <2>8, SameKept DEF SlotInv
<1> QED BY <1>1, <1>2

\* The TMSI a device holds is one of the TMSIs, or none.
HeldTyped == held \in [Supi -> 0..MaxTmsi]

\* An Accept gives the device a TMSI, and a reject takes it away.
LEMMA HeldStaysTyped ==
    ASSUME HeldTyped, AmfUeNext PROVE HeldTyped'
<1>0. 0 \in 0..MaxTmsi /\ \A t \in Tmsi : t \in 0..MaxTmsi BY SMT, AmfUeAssumption DEF Tmsi
<1> DEFINE Changed == \E s : \E t \in 0..MaxTmsi : held' = [held EXCEPT ![s] = t]
<1>1. held' = held \/ Changed
  <2>1. ASSUME NEW g \in Gnb, handleNGSetup(g) \/ handleGNBConn(g) PROVE held' = held
    BY <2>1 DEF handleNGSetup, handleGNBConn
  <2>2. ASSUME NEW g \in Gnb, NEW r \in Ran,
               \/ GnbDropsLink(g, r) \/ handleInitialContextSetupFailure(g, r)
               \/ handleUEContextReleaseRequest(g, r)
               \/ \E task \in Tasks : handleUplinkNASTransport(g, r, task)
        PROVE held' = held
    BY <2>2 DEF GnbDropsLink, handleInitialContextSetupFailure, handleUEContextReleaseRequest,
                handleUplinkNASTransport
  <2>3. ASSUME NEW m \in cmd, \/ GnbDropsCommand(m) \/ staleReleaseComplete(m)
                              \/ handleUEContextReleaseComplete(m)
        PROVE held' = held
    BY <2>3 DEF GnbDropsCommand, staleReleaseComplete, handleUEContextReleaseComplete
  <2>4. ASSUME NEW c \in Ctx, \/ SendNetworkDeregistration(c) \/ ANReleaseHandler(c)
                              \/ StartMobileReachableTimer(c) \/ implicitDetachExpires(c)
                              \/ startPendingRemovalTimer(c)
        PROVE held' = held
    BY <2>4 DEF SendNetworkDeregistration, ANReleaseHandler, StartMobileReachableTimer,
                implicitDetachExpires, startPendingRemovalTimer
  <2>5. ASSUME NEW w \in work, \/ completeRelease(w) \/ startImplicitDetachTimer(w)
                               \/ removeUEFromIdleUEs(w) \/ SetImplicitDetachHandler(w)
                               \/ releaseDisplacedContext(w) \/ Remove(w) \/ DeleteUE(w)
        PROVE held' = held
    BY <2>5 DEF completeRelease, startImplicitDetachTimer, removeUEFromIdleUEs,
                SetImplicitDetachHandler, releaseDisplacedContext, Remove, DeleteUE
  <2>6. ASSUME NEW c \in Ctx, \/ handleRegistrationRequest(c) \/ rejectSecurityModeComplete(c)
                              \/ handleServiceRequest(c) \/ handleDeregistration(c)
                              \/ handleNWDeregistrationAccept(c)
                              \/ handleAuthenticationResponse(c) \/ handleRegistrationComplete(c)
        PROVE held' = held
    BY <2>6 DEF handleRegistrationRequest, rejectSecurityModeComplete, handleServiceRequest,
                handleDeregistration, handleNWDeregistrationAccept, teardown,
                handleAuthenticationResponse, handleRegistrationComplete
  <2>7. ASSUME NEW c \in Ctx, handleSecurityModeComplete(c) \/ handleRegistrationUpdate(c)
        PROVE held' = held \/ Changed
    BY <1>0, <2>7 DEF handleSecurityModeComplete, handleRegistrationUpdate, Delivered
  <2>8. ASSUME NEW g \in Gnb, NEW r \in Ran, NEW s \in Supi,
               \/ freshRegistration(g, r, s) \/ rejectUnsent(g, r, s)
               \/ \E task \in {"sr", "ru", "dereg"} : returningUE(g, r, s, task)
        PROVE held' = held
    BY <2>8 DEF freshRegistration, rejectUnsent, returningUE
  <2>9. ASSUME NEW g \in Gnb, NEW r \in Ran, NEW s \in Supi, rejectUnknownTMSI(g, r, s)
        PROVE Changed
    BY <1>0, <2>9 DEF rejectUnknownTMSI
  <2>10. LoadFromStore => held' = held BY DEF LoadFromStore
  <2> HIDE DEF Changed
  <2> QED BY <2>1, <2>2, <2>3, <2>4, <2>5, <2>6, <2>7, <2>8, <2>9, <2>10 DEF AmfUeNext
<1> QED BY <1>0, <1>1 DEF HeldTyped

\* At the start no context is in use (AmfUeInit).
LEMMA SlotsStart == AmfUeInit => SlotInv /\ HeldTyped
<1> SUFFICES ASSUME AmfUeInit PROVE SlotInv /\ HeldTyped OBVIOUS
<1>0. 0 \in 0..MaxCtx /\ 0 \in 0..MaxTmsi /\ 0 \notin Ctx /\ <<>> \in Seq(Tasks)
  BY SMT, AmfUeAssumption DEF Ctx
<1>1. ContextTypes BY <1>0 DEF AmfUeInit, ContextTypes, NoUE
<1>2. SupiSlotLive BY DEF AmfUeInit, SupiSlotLive
<1>3. ASSUME NEW c \in Ctx PROVE CtxInv(c)
  <2>1. queue[c] = <<>> /\ stage[c] = "wait" BY DEF AmfUeInit
  <2>3. ~Opening(c) /\ Lacks(queue[c]) BY <2>1, ShortQueues DEF Opening
  <2>4. ~Linked(c) /\ ~Doing(c) /\ ~Indexed(c)
    BY <1>0 DEF AmfUeInit, NoUE, Linked, Doing, Indexed
  <2>5. Blank(c) BY <2>1, <2>4 DEF AmfUeInit, Blank
  <2> QED BY <2>3, <2>5 DEF CtxInv, Shape
<1>4. HeldTyped BY <1>0 DEF AmfUeInit, HeldTyped
<1> QED BY <1>1, <1>2, <1>3, <1>4 DEF SlotInv

\* While no association is lost, GetBySUPI finds only a context that is in the table and is
\* that subscriber's, for every number of gNBs, devices and contexts (SetSUPI, Remove).
THEOREM SlotSafe ==
    ASSUME ~Has("loss") PROVE AmfUeSpec => []SupiSlotLive
<1>1. SlotInv /\ HeldTyped /\ [AmfUeNext]_amfVars => SlotInv' /\ HeldTyped'
  <2> SUFFICES ASSUME SlotInv, HeldTyped, [AmfUeNext]_amfVars PROVE SlotInv' /\ HeldTyped'
    OBVIOUS
  <2>1. CASE UNCHANGED amfVars
    <3>1. UNCHANGED <<next, byNgap, bySupi, byTmsi, supi, connected, addr, ran, pending, mr, id,
                      pr, queue, work, link, cmd, who, stage, held>>
      BY <2>1 DEF amfVars
    <3>2. ContextTypes' BY <3>1 DEF SlotInv, ContextTypes
    <3>3. \A d \in Ctx : Same(d) BY <3>1 DEF Same, Indexed
    <3> QED BY <3>1, <3>2, <3>3, QuietStep DEF HeldTyped
  <2>2. CASE AmfUeNext
    <3>0. HeldTyped' BY <2>2, HeldStaysTyped
    <3> SUFFICES SlotInv' BY <3>0
    <3>1. \A g \in Gnb : ~handleGNBConn(g) BY DEF handleGNBConn
    <3>2. CASE \/ \E g \in Gnb : handleNGSetup(g)
               \/ \E g \in Gnb, r \in Ran : GnbDropsLink(g, r)
               \/ \E m \in cmd : GnbDropsCommand(m) \/ staleReleaseComplete(m)
               \/ \E c \in Ctx : SendNetworkDeregistration(c)
      BY <3>2, GnbKeepsSlots
    <3>3. ASSUME NEW g \in Gnb, NEW r \in Ran, NEW s \in Supi,
                 \/ freshRegistration(g, r, s) \/ rejectUnknownTMSI(g, r, s)
                 \/ rejectUnsent(g, r, s)
                 \/ \E task \in {"sr", "ru", "dereg"} : returningUE(g, r, s, task)
          PROVE  SlotInv'
      BY <3>3, InitialKeepsSlots DEF HeldTyped
    <3>4. ASSUME NEW g \in Gnb, NEW r \in Ran, NEW task \in Tasks,
                 handleUplinkNASTransport(g, r, task)
          PROVE  SlotInv'
      BY <3>4, UplinkKeepsSlots
    <3>5. ASSUME NEW c \in Ctx, handleRegistrationRequest(c) \/ handleAuthenticationResponse(c)
          PROVE  SlotInv'
      BY <3>5, OpeningsKeepSlots
    <3>6. ASSUME NEW c \in Ctx,
                 \/ handleSecurityModeComplete(c) \/ rejectSecurityModeComplete(c)
                 \/ handleRegistrationComplete(c) \/ handleServiceRequest(c)
                 \/ handleRegistrationUpdate(c) \/ handleDeregistration(c)
                 \/ handleNWDeregistrationAccept(c)
          PROVE  SlotInv'
      BY <3>6, HandlersKeepSlots
    <3>7. CASE \/ \E c \in Ctx : ANReleaseHandler(c)
               \/ \E g \in Gnb, r \in Ran : \/ handleInitialContextSetupFailure(g, r)
                                            \/ handleUEContextReleaseRequest(g, r)
      BY <3>7, CommandsKeepSlots
    <3>8. CASE \/ \E m \in cmd : handleUEContextReleaseComplete(m)
               \/ \E w \in work : completeRelease(w)
      BY <3>8, CompletionsKeepSlots
    <3>9. CASE \/ \E c \in Ctx : \/ StartMobileReachableTimer(c) \/ implicitDetachExpires(c)
                                 \/ startPendingRemovalTimer(c)
               \/ \E w \in work : \/ startImplicitDetachTimer(w) \/ removeUEFromIdleUEs(w)
                                  \/ SetImplicitDetachHandler(w) \/ releaseDisplacedContext(w)
                                  \/ DeleteUE(w)
      BY <3>9, RemovalsKeepSlots
    <3>10. CASE LoadFromStore \/ \E w \in work : Remove(w) BY <3>10, IndexesKeepSlots
    <3> QED
      BY <2>2, <3>1, <3>2, <3>3, <3>4, <3>5, <3>6, <3>7, <3>8, <3>9, <3>10 DEF AmfUeNext
  <2> QED BY <2>1, <2>2
<1>2. SlotInv => SupiSlotLive BY DEF SlotInv
<1> QED BY <1>1, <1>2, SlotsStart, PTL DEF AmfUeSpec
=============================================================================
