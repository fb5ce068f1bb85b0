-------------------------- MODULE AmfHandoverProof --------------------------
(* For every number of gNBs, RAN IDs, sessions and handovers: what the AMF promises of a
   device that is handed over again and again, while calls to the SMF come late, sessions
   fail, targets refuse and an association breaks.                                      *)
EXTENDS AmfHandover, SequenceTheorems, TLAPS

USE ZenonT(30)

-----------------------------------------------------------------------------
(* What is in the UE's queue and in the gNBs' *)

XnTask == [kind : {"xn"}, step : {"queued", "smf"}, to : Places, list : SUBSET Psi,
           failed : SUBSET Psi, known : SUBSET Psi, ok : SUBSET Psi]
RequiredTask == [kind : {"required"}, step : {"queued", "smf"}, src : Places, target : HoGnb,
                 list : SUBSET Psi, cands : SUBSET Psi, ok : SUBSET Psi]
AckTask == [kind : {"ack"}, step : {"queued", "smf"}, to : Places, admitted : SUBSET Psi,
            failed : SUBSET Psi, known : SUBSET Psi, ok : SUBSET Psi, state : Nat]

\* A task that has commanded the source and has only the entry at the target to write.
RegisterTask == [kind : {"ack"}, step : {"register"}, to : Places, admitted : SUBSET Psi,
                 failed : SUBSET Psi, known : SUBSET Psi, ok : SUBSET Psi, state : Nat]

Release(r) == [type |-> "UEContextReleaseCommand", r |-> r]
ReleaseMsg == {Release(r) : r \in HoRan}
SwitchedMsg == [type : {"PathSwitchRequestAcknowledge"}, switched : SUBSET Psi]
SwitchFailure == [type |-> "PathSwitchRequestFailure"]
RequestMsg == [type : {"HandoverRequest"}, list : SUBSET Psi]
CommandMsg == [type : {"HandoverCommand"}, to : Places, cmd : SUBSET Psi, release : SUBSET Psi]
Special == SwitchedMsg \cup RequestMsg \cup CommandMsg \cup {SwitchFailure, PrepFailure}
Msg == ReleaseMsg \cup Special

\* The gNBs have nothing to receive but commands to release; or one of them, after those, m.
CalmIn(d) == \A g \in HoGnb : \A i \in DOMAIN d[g] : d[g][i] \in ReleaseMsg
CarriesIn(d, g, m) ==
    /\ g \in HoGnb /\ d[g] # <<>> /\ d[g][Len(d[g])] = m
    /\ \A h \in HoGnb : \A i \in DOMAIN d[h] : d[h][i] \in ReleaseMsg \/ (h = g /\ i = Len(d[g]))

\* The places whose release has been commanded, each with one command.
AwaitedIn(d) == {p \in Places : \E i \in DOMAIN d[p.g] : d[p.g][i] = Release(p.r)}
OnceIn(d) == \A g \in HoGnb : \A i, j \in DOMAIN d[g] :
                d[g][i] \in ReleaseMsg /\ d[g][i] = d[g][j] => i = j

HoState == [src : Places, prepReleased : SUBSET Psi, admitted : SUBSET Psi, targetFailed : SUBSET Psi]
RanState == [at : {"idle", "refused", "moved", "lost"}, n : 0 .. MaxHo]
            \cup [at : {"xn"}, n : 0 .. MaxHo, from : Places]
            \cup [at : {"required"}, n : 0 .. MaxHo, list : SUBSET Psi, kept : SUBSET Places]
Call == [leg : {"comp", "deact", "release"}, psi : Psi]

\* The types of everything but the UE's queue, which the stages give.
TypeInv ==
    /\ served \in Places /\ radio \in Places
    /\ entry \in [HoGnb -> [HoRan -> {"none", "ue", "other"}]]
    /\ idle = FALSE /\ chain \in BOOLEAN /\ allowed \in BOOLEAN
    /\ pdu \subseteq Psi /\ bearers \subseteq Psi
    /\ ho \in Seq(HoState) /\ pendingN2HO \in 0 .. Len(ho)
    /\ calls \subseteq Call
    /\ path \in [Psi -> HoGnb \cup {Nobody}] /\ tgt \in [Psi -> HoGnb \cup {Nobody}]
    /\ dl \in [HoGnb -> Seq(Msg)]
    /\ down \subseteq HoGnb /\ inUse \in [HoGnb -> SUBSET HoRan]
    /\ ran \in RanState
-----------------------------------------------------------------------------
(* The stages of a handover *)

\* The UE's entries (e is all entries) are exactly at these places.
EntriesAt(e, S) == \A g \in HoGnb, r \in HoRan : e[g][r] = "ue" <=> Place(g, r) \in S

\* No task of a handover is in the queue q, and the UE's entries are in S and at p, or will be
\* at p when the task that is left has written it.
Rests(q, e, S, p) ==
    \/ q = <<>> /\ EntriesAt(e, S \cup {p})
    \/ \E u \in RegisterTask : u.to = p /\ q = <<u>> /\ EntriesAt(e, S)

\* Task t is the only one, or waits for the one that is left of the former handover, to s.
Waits(q, e, s, t) ==
    \/ q = <<t>> /\ EntriesAt(e, {s})
    \/ /\ t.step = "queued"
       /\ \E u \in RegisterTask : u.to = s /\ q = <<u, t>> /\ EntriesAt(e, {})

NothingAdmitted(n, states) == n # 0 => states[n].admitted = {}
Pending == pendingN2HO # 0 /\ ho[pendingN2HO].src = served

\* Where the user plane leads, if the RAN lets the calls of a handover arrive before the next.
Slow == ~HoHas("fast")
Called(c, leg, p) == [leg |-> leg, psi |-> p] \in c
OnlyReleases(c) == \A x \in c : x.leg = "release"
Leads(f, S, g) == \A p \in S : f[p] = g
Carried(c, p) == /\ ~Called(c, "deact", p)
                 /\ IF Called(c, "comp", p) THEN tgt[p] = radio.g ELSE path[p] = radio.g
KeepsPath == Slow => OnlyReleases(calls) /\ Leads(path, bearers \cap pdu, radio.g)

Settled ==
    /\ ran.at = "idle" /\ served = radio /\ CalmIn(dl) /\ Rests(task, entry, {}, served)
    /\ NothingAdmitted(pendingN2HO, ho)
    /\ Slow => \A p \in bearers \cap pdu : Carried(calls, p)

\* Xn: the path is being switched, has been, or cannot be.
Switching(t) ==
    /\ ran.at = "xn" /\ t.to = radio /\ served.g # radio.g /\ CalmIn(dl)
    /\ Waits(task, entry, served, t)
    /\ NothingAdmitted(pendingN2HO, ho) /\ Len(keys) < ran.n
    /\ t.ok \subseteq t.list /\ t.list \cap t.failed = {}
    /\ Slow => OnlyReleases(calls) /\ (t.step = "smf" => Leads(path, t.ok \cap pdu, radio.g))
Switched(m) ==
    /\ ran.at = "xn" /\ served = radio /\ CarriesIn(dl, radio.g, m)
    /\ task = <<>> /\ EntriesAt(entry, {served}) /\ NothingAdmitted(pendingN2HO, ho)
    /\ Slow => \A p \in m.switched \cap pdu :
                  path[p] = radio.g /\ ~Called(calls, "comp", p) /\ ~Called(calls, "deact", p)
Unswitched ==
    /\ ran.at = "xn" /\ Rests(task, entry, {}, served)
    /\ CarriesIn(dl, radio.g, SwitchFailure) \/ (CalmIn(dl) /\ down # {})
Lost == ran.at = "lost" /\ CalmIn(dl) /\ Rests(task, entry, {}, served)

\* N2: the source has asked, the target is asked, it has answered, the source is commanded or
\* told of the failure, or one of these messages was lost with an association; the target has
\* refused; the device has moved.
Required(t) ==
    /\ ran.at = "required" /\ served = radio /\ CalmIn(dl) /\ Waits(task, entry, served, t)
    /\ NothingAdmitted(pendingN2HO, ho) /\ Len(keys) < ran.n
    /\ t.src = served /\ ran.kept = {} /\ t.list = ran.list /\ t.ok \subseteq t.cands
    /\ KeepsPath
Requested(g, m) ==
    /\ ran.at = "required" /\ served = radio /\ CarriesIn(dl, g, m)
    /\ task = <<>> /\ EntriesAt(entry, {served}) /\ Pending /\ NothingAdmitted(pendingN2HO, ho)
    /\ ran.kept = {} /\ ran.list \subseteq m.list \cup ho[pendingN2HO].prepReleased
    /\ KeepsPath
Answered(t) ==
    /\ ran.at = "required" /\ served = radio /\ CalmIn(dl)
    /\ task = <<t>> /\ EntriesAt(entry, {served}) /\ Pending /\ NothingAdmitted(pendingN2HO, ho)
    /\ t.state = pendingN2HO /\ ran.kept = {t.to}
    /\ ran.list \subseteq t.admitted \cup t.failed \cup ho[pendingN2HO].prepReleased
    /\ t.ok \subseteq t.admitted /\ t.admitted \cap t.failed = {}
    /\ KeepsPath
    /\ Slow /\ t.step = "smf" => Leads(tgt, t.ok \cap pdu, t.to.g)
Commanded(m) ==
    /\ ran.at = "required" /\ served = radio /\ CarriesIn(dl, served.g, m)
    /\ Rests(task, entry, {served}, m.to) /\ Pending /\ ran.kept = {m.to}
    /\ m.cmd = ho[pendingN2HO].admitted /\ m.cmd \cap ho[pendingN2HO].targetFailed = {}
    /\ m.cmd \cap m.release = {} /\ ran.list \subseteq m.cmd \cup m.release
    /\ KeepsPath
    /\ Slow => Leads(tgt, m.cmd \cap pdu, m.to.g)
Failed ==
    /\ ran.at = "required" /\ served = radio /\ CarriesIn(dl, served.g, PrepFailure)
    /\ Rests(task, entry, {}, served) /\ NothingAdmitted(pendingN2HO, ho) /\ KeepsPath
Stuck ==
    /\ ran.at = "required" /\ served = radio /\ CalmIn(dl) /\ down # {}
    /\ \/ Rests(task, entry, {}, served)
       \/ \E p \in ran.kept : Rests(task, entry, {served}, p)
Refused ==
    /\ ran.at = "refused" /\ served = radio /\ CalmIn(dl)
    /\ task = <<>> /\ EntriesAt(entry, {served}) /\ NothingAdmitted(pendingN2HO, ho) /\ KeepsPath
Moved ==
    /\ ran.at = "moved" /\ served # radio /\ CalmIn(dl) /\ Rests(task, entry, {served}, radio)
    /\ Pending
    /\ Slow => /\ OnlyReleases(calls) /\ bearers = ho[pendingN2HO].admitted
               /\ bearers \cap ho[pendingN2HO].targetFailed = {}
               /\ Leads(tgt, bearers \cap pdu, radio.g)

Stages ==
    \/ Settled
    \/ \E t \in XnTask : Switching(t)
    \/ \E m \in SwitchedMsg : Switched(m)
    \/ Unswitched \/ Lost
    \/ \E t \in RequiredTask : Required(t)
    \/ \E g \in HoGnb, m \in RequestMsg : Requested(g, m)
    \/ \E t \in AckTask : Answered(t)
    \/ \E m \in CommandMsg : Commanded(m)
    \/ Failed \/ Stuck \/ Refused \/ Moved
-----------------------------------------------------------------------------
\* The places a handover is about, which no other UE has.
Own == {served, radio} \cup (IF ran.at = "required" THEN ran.kept ELSE {})
                       \cup (IF ran.at = "xn" THEN {ran.from} ELSE {})
Reserved(p) == p.r \in inUse[p.g] /\ entry[p.g][p.r] # "other"
PlacesInv ==
    /\ \A p \in Own : Reserved(p)
    /\ \A g \in HoGnb, r \in HoRan : entry[g][r] = "other" => r \in inUse[g]
    /\ ran.at = "required" => served \notin ran.kept
    /\ ran.at = "xn" => ran.from # radio
    /\ \A p \in AwaitedIn(dl) : Reserved(p) /\ p \notin Own
    /\ OnceIn(dl)

\* Each handover uses at most one key, the next of the cycle.
KeyInv ==
    /\ keys \in Seq(0 .. nccModulus - 1) /\ Len(keys) <= ran.n
    /\ \A i \in DOMAIN keys : keys[i] = (i - 1) % nccModulus
    /\ ncc = (Len(keys) + nccModulus - 1) % nccModulus

\* A session whose release is under way is not one of the UE's.
CallsInv == \A c \in calls : c.leg = "release" => c.psi \notin pdu

HoInv == TypeInv /\ Stages /\ PlacesInv /\ KeyInv /\ CallsInv
-----------------------------------------------------------------------------
(* Queues *)

\* Queues of one and two tasks.
LEMMA Tuples ==
  ASSUME NEW t, NEW u
  PROVE  /\ Head(<<t>>) = t /\ Tail(<<t>>) = <<>> /\ <<t>> # <<>>
         /\ Head(<<u, t>>) = u /\ Tail(<<u, t>>) = <<t>> /\ <<u, t>> # <<>>
         /\ Append(<<>>, t) = <<t>> /\ Append(<<u>>, t) = <<u, t>> /\ <<t>> \o <<>> = <<t>>
  <1>1. Head(<<t>>) = t /\ Head(<<u, t>>) = u BY SMTT(30)
  <1>2. <<t>> # <<>> /\ <<u, t>> # <<>> OBVIOUS
  <1>3. Tail(<<t>>) = <<>> BY SMTT(30)
  <1>4. Tail(<<u, t>>) = <<t>> BY SMTT(30)
  <1>5. Append(<<>>, t) = <<t>> BY SMTT(30)
  <1>6. Append(<<u>>, t) = <<u, t>>
    <2>1. <<u>> \in Seq({u, t}) BY SMTT(30)
    <2>2. /\ Append(<<u>>, t) \in Seq({u, t}) /\ Len(Append(<<u>>, t)) = 2
          /\ Append(<<u>>, t)[1] = u /\ Append(<<u>>, t)[2] = t
      BY SMTT(30), <2>1
    <2>3. <<u, t>> \in Seq({u, t}) /\ Len(<<u, t>>) = 2 BY SMTT(30)
    <2>4. \A i \in 1 .. Len(Append(<<u>>, t)) : Append(<<u>>, t)[i] = <<u, t>>[i] BY SMTT(30), <2>2
    <2> QED BY Zenon, <2>2, <2>3, <2>4, SeqEqual
  <1>7. <<t>> \o <<>> = <<t>> BY SMTT(30)
  <1> QED BY <1>1, <1>2, <1>3, <1>4, <1>5, <1>6, <1>7

\* No message of a handover is a command to release.
LEMMA Apart == \A m \in Special : m \notin ReleaseMsg
  BY SMTT(30) DEF Special, ReleaseMsg, Release, SwitchedMsg, RequestMsg, CommandMsg, SwitchFailure, PrepFailure

\* A message at the end of a queue, and the first taken from it.
LEMMA Longer ==
  ASSUME NEW q \in Seq(Msg), NEW m \in Msg
  PROVE  /\ Append(q, m) \in Seq(Msg) /\ Append(q, m) # <<>>
         /\ Len(Append(q, m)) = Len(q) + 1 /\ Append(q, m)[Len(q) + 1] = m
         /\ DOMAIN Append(q, m) = 1 .. (Len(q) + 1) /\ DOMAIN q = 1 .. Len(q) /\ Len(q) \in Nat
         /\ \A i \in 1 .. Len(q) : Append(q, m)[i] = q[i]
  BY SMTT(30)

\* What a queue loses when its first message is received.
LEMMA Shorter ==
  ASSUME NEW q \in Seq(Msg), q # <<>>
  PROVE  /\ Tail(q) \in Seq(Msg) /\ Len(q) \in Nat \ {0} /\ Len(Tail(q)) = Len(q) - 1
         /\ DOMAIN Tail(q) = 1 .. (Len(q) - 1) /\ DOMAIN q = 1 .. Len(q)
         /\ Head(q) = q[1] /\ Head(q) \in Msg
         /\ \A i \in 1 .. (Len(q) - 1) : Tail(q)[i] = q[i + 1]
  BY SMTT(30)

-----------------------------------------------------------------------------
(* The gNBs' queues; d is all of them *)

QueuedIn(d, g, m) == [d EXCEPT ![g] = Append(@, m)]
ReceivedIn(d, g) == [d EXCEPT ![g] = Tail(@)]

\* A message more in one of them.
LEMMA Added ==
  ASSUME NEW d \in [HoGnb -> Seq(Msg)], NEW g \in HoGnb, NEW m \in Msg,
         NEW e, e = [d EXCEPT ![g] = Append(@, m)]
  PROVE  /\ e \in [HoGnb -> Seq(Msg)] /\ e[g] # <<>> /\ Len(e[g]) = Len(d[g]) + 1
         /\ Len(e[g]) \in DOMAIN e[g] /\ Len(e[g]) \notin DOMAIN d[g] /\ e[g][Len(e[g])] = m
         /\ \A h \in HoGnb : \A i \in DOMAIN e[h] :
               \/ i \in DOMAIN d[h] /\ e[h][i] = d[h][i]
               \/ h = g /\ i = Len(e[g]) /\ e[h][i] = m
         /\ \A h \in HoGnb : \A i \in DOMAIN d[h] : i \in DOMAIN e[h] /\ e[h][i] = d[h][i]
  <1>2. \A h \in HoGnb : e[h] = IF h = g THEN Append(d[g], m) ELSE d[h] OBVIOUS
  <1>3. \A h \in HoGnb : DOMAIN d[h] = 1 .. Len(d[h]) /\ Len(d[h]) \in Nat BY SMTT(30)
  <1>4. /\ Append(d[g], m) \in Seq(Msg) /\ Append(d[g], m) # <<>>
        /\ Len(Append(d[g], m)) = Len(d[g]) + 1 /\ Append(d[g], m)[Len(d[g]) + 1] = m
        /\ DOMAIN Append(d[g], m) = 1 .. (Len(d[g]) + 1)
        /\ \A i \in 1 .. Len(d[g]) : Append(d[g], m)[i] = d[g][i]
    BY Longer
  <1>5. e \in [HoGnb -> Seq(Msg)] BY <1>4
  <1>6. e[g] # <<>> /\ Len(e[g]) = Len(d[g]) + 1 /\ Len(e[g]) \in DOMAIN e[g]
        /\ Len(e[g]) \notin DOMAIN d[g] /\ e[g][Len(e[g])] = m
    BY SMTT(30), <1>2, <1>3, <1>4
  <1>7. \A h \in HoGnb : \A i \in DOMAIN e[h] :
           \/ i \in DOMAIN d[h] /\ e[h][i] = d[h][i]
           \/ h = g /\ i = Len(e[g]) /\ e[h][i] = m
    BY SMTT(30), <1>2, <1>3, <1>4
  <1>8. \A h \in HoGnb : \A i \in DOMAIN d[h] : i \in DOMAIN e[h] /\ e[h][i] = d[h][i]
    BY SMTT(30), <1>2, <1>3, <1>4
  <1> QED BY <1>5, <1>6, <1>7, <1>8

\* A message of a handover is the last of a calm network's.
LEMMA Sending ==
  ASSUME NEW d \in [HoGnb -> Seq(Msg)], NEW g \in HoGnb, NEW m \in Special, CalmIn(d), OnceIn(d),
         NEW e, e = QueuedIn(d, g, m)
  PROVE  /\ e \in [HoGnb -> Seq(Msg)] /\ CarriesIn(e, g, m)
         /\ AwaitedIn(e) = AwaitedIn(d) /\ OnceIn(e)
  <1>1. m \in Msg /\ m \notin ReleaseMsg BY Apart DEF Msg
  <1>2. /\ e \in [HoGnb -> Seq(Msg)] /\ e[g] # <<>> /\ e[g][Len(e[g])] = m
        /\ \A h \in HoGnb : \A i \in DOMAIN e[h] :
               \/ i \in DOMAIN d[h] /\ e[h][i] = d[h][i]
               \/ h = g /\ i = Len(e[g]) /\ e[h][i] = m
        /\ \A h \in HoGnb : \A i \in DOMAIN d[h] : i \in DOMAIN e[h] /\ e[h][i] = d[h][i]
    BY SMTT(30), <1>1, Added DEF QueuedIn
  <1>3. CarriesIn(e, g, m) BY <1>2 DEF CarriesIn, CalmIn
  <1>4. \A p \in Places : p.g \in HoGnb /\ Release(p.r) \in ReleaseMsg BY DEF Places, ReleaseMsg
  <1>5. ASSUME NEW p \in Places
        PROVE  (\E i \in DOMAIN d[p.g] : d[p.g][i] = Release(p.r))
               <=> (\E i \in DOMAIN e[p.g] : e[p.g][i] = Release(p.r))
    BY SMTT(30), <1>1, <1>2, <1>4
  <1>7. AwaitedIn(e) = AwaitedIn(d) BY <1>5 DEF AwaitedIn
  <1>6. OnceIn(e) BY SMTT(30), <1>1, <1>2 DEF OnceIn
  <1> QED BY <1>2, <1>3, <1>6, <1>7

\* A command to release, sent to a calm network.
LEMMA Releasing ==
  ASSUME NEW d \in [HoGnb -> Seq(Msg)], NEW g \in HoGnb, NEW r \in HoRan, CalmIn(d), OnceIn(d),
         Place(g, r) \notin AwaitedIn(d), NEW e, e = QueuedIn(d, g, Release(r))
  PROVE  /\ e \in [HoGnb -> Seq(Msg)] /\ CalmIn(e)
         /\ AwaitedIn(e) = AwaitedIn(d) \cup {Place(g, r)} /\ OnceIn(e)
  <1> PICK m : m = Release(r) OBVIOUS
  <1>1. m \in Msg /\ m \in ReleaseMsg BY DEF Msg, ReleaseMsg
  <1>2. /\ e \in [HoGnb -> Seq(Msg)] /\ Len(e[g]) \in DOMAIN e[g] /\ e[g][Len(e[g])] = m
        /\ \A h \in HoGnb : \A i \in DOMAIN e[h] :
               \/ i \in DOMAIN d[h] /\ e[h][i] = d[h][i]
               \/ h = g /\ i = Len(e[g]) /\ e[h][i] = m
        /\ \A h \in HoGnb : \A i \in DOMAIN d[h] : i \in DOMAIN e[h] /\ e[h][i] = d[h][i]
    BY SMTT(30), <1>1, Added DEF QueuedIn
  <1>3. CalmIn(e) BY <1>1, <1>2 DEF CalmIn
  <1>4. \A p \in Places : p.g \in HoGnb /\ p = Place(p.g, p.r) BY SMTT(30) DEF Places, Place
  <1>5. Place(g, r) \in Places /\ Place(g, r).g = g /\ Place(g, r).r = r BY DEF Places, Place
  <1>6. \A i \in DOMAIN d[g] : d[g][i] # m BY <1>5 DEF AwaitedIn
  <1>7. \A s : Release(s) = m => s = r BY DEF Release
  <1>8. AwaitedIn(e) = AwaitedIn(d) \cup {Place(g, r)}
    <2>1. ASSUME NEW p \in AwaitedIn(e) PROVE p \in AwaitedIn(d) \cup {Place(g, r)}
      BY SMTT(30), <1>2, <1>4, <1>7 DEF AwaitedIn
    <2>2. ASSUME NEW p \in AwaitedIn(d) PROVE p \in AwaitedIn(e)
      BY <1>2, <1>4 DEF AwaitedIn
    <2>3. Place(g, r) \in AwaitedIn(e) BY <1>2, <1>5 DEF AwaitedIn
    <2> QED BY <2>1, <2>2, <2>3
  <1>9. OnceIn(e) BY SMTT(30), <1>2, <1>6 DEF OnceIn
  <1> QED BY <1>2, <1>3, <1>8, <1>9

\* The first message of one of them is received.
LEMMA Dropped ==
  ASSUME NEW d \in [HoGnb -> Seq(Msg)], NEW g \in HoGnb, d[g] # <<>>,
         NEW e, e = [d EXCEPT ![g] = Tail(@)]
  PROVE  /\ e \in [HoGnb -> Seq(Msg)] /\ Head(d[g]) = d[g][1] /\ 1 \in DOMAIN d[g] /\ Head(d[g]) \in Msg
         /\ Len(d[g]) \in Nat /\ Len(e[g]) = Len(d[g]) - 1 /\ DOMAIN d[g] = 1 .. Len(d[g])
         /\ \A h \in HoGnb : h # g => e[h] = d[h]
         /\ \A i \in DOMAIN e[g] : i \in Nat /\ i + 1 \in DOMAIN d[g] /\ e[g][i] = d[g][i + 1]
         /\ \A i \in DOMAIN d[g] : i = 1 \/ (i - 1 \in DOMAIN e[g] /\ e[g][i - 1] = d[g][i])
  <1>1. /\ Tail(d[g]) \in Seq(Msg) /\ Len(d[g]) \in Nat \ {0} /\ Len(Tail(d[g])) = Len(d[g]) - 1
        /\ DOMAIN Tail(d[g]) = 1 .. (Len(d[g]) - 1) /\ DOMAIN d[g] = 1 .. Len(d[g])
        /\ Head(d[g]) = d[g][1] /\ Head(d[g]) \in Msg
        /\ \A i \in 1 .. (Len(d[g]) - 1) : Tail(d[g])[i] = d[g][i + 1]
    BY Shorter
  <1>2. e[g] = Tail(d[g]) OBVIOUS
  <1>3. e \in [HoGnb -> Seq(Msg)] /\ \A h \in HoGnb : h # g => e[h] = d[h] BY <1>1
  <1>4. \A i \in DOMAIN e[g] : i \in Nat /\ i + 1 \in DOMAIN d[g] /\ e[g][i] = d[g][i + 1]
    BY SMTT(30), <1>1, <1>2
  <1>5. \A i \in DOMAIN d[g] : i = 1 \/ (i - 1 \in DOMAIN e[g] /\ e[g][i - 1] = d[g][i])
    BY SMTT(30), <1>1, <1>2
  <1> QED BY SMTT(30), <1>1, <1>2, <1>3, <1>4, <1>5

\* A calm network delivers commands to release.
LEMMA CalmDelivers ==
  ASSUME NEW d \in [HoGnb -> Seq(Msg)], NEW g \in HoGnb, d[g] # <<>>, CalmIn(d)
  PROVE  Head(d[g]) \in ReleaseMsg
  BY SMTT(30), Shorter DEF CalmIn

\* What it delivers otherwise is the message it carries, and it is calm then.
LEMMA Taken ==
  ASSUME NEW d \in [HoGnb -> Seq(Msg)], NEW g \in HoGnb, d[g] # <<>>, OnceIn(d),
         NEW h, NEW m \in Special, CarriesIn(d, h, m), Head(d[g]) \notin ReleaseMsg,
         NEW e, e = ReceivedIn(d, g)
  PROVE  /\ g = h /\ Head(d[g]) = m /\ e \in [HoGnb -> Seq(Msg)] /\ CalmIn(e)
         /\ AwaitedIn(e) = AwaitedIn(d) /\ OnceIn(e)
  <1>1. /\ e \in [HoGnb -> Seq(Msg)] /\ Head(d[g]) = d[g][1] /\ 1 \in DOMAIN d[g]
        /\ Len(d[g]) \in Nat /\ Len(e[g]) = Len(d[g]) - 1 /\ DOMAIN d[g] = 1 .. Len(d[g])
        /\ \A k \in HoGnb : k # g => e[k] = d[k]
        /\ \A i \in DOMAIN e[g] : i \in Nat /\ i + 1 \in DOMAIN d[g] /\ e[g][i] = d[g][i + 1]
    BY SMTT(30), Dropped DEF ReceivedIn
  <1>2. g = h /\ Len(d[g]) = 1 /\ Head(d[g]) = m BY <1>1 DEF CarriesIn
  <1>3. DOMAIN d[g] = {1} BY SMTT(30), <1>1, <1>2
  <1>4. DOMAIN e[g] = {}
    <2>1. e[g] \in Seq(Msg) BY <1>1
    <2>2. Len(e[g]) = 0 BY SMTT(30), <1>1, <1>2
    <2> QED BY SMTT(30), <2>1, <2>2
  <1>5. CalmIn(e) BY <1>1, <1>2, <1>4 DEF CalmIn, CarriesIn
  <1>6. \A p \in Places : p.g \in HoGnb /\ Release(p.r) \in ReleaseMsg BY DEF Places, ReleaseMsg
  <1>7. m \notin ReleaseMsg BY Apart
  <1>8. ASSUME NEW p \in Places
        PROVE  (\E i \in DOMAIN d[p.g] : d[p.g][i] = Release(p.r))
               <=> (\E i \in DOMAIN e[p.g] : e[p.g][i] = Release(p.r))
    <2>1. CASE p.g = g BY SMTT(30), <2>1, <1>1, <1>2, <1>3, <1>4, <1>6, <1>7
    <2>2. CASE p.g # g BY <2>2, <1>1, <1>6
    <2> QED BY <2>1, <2>2
  <1>9. AwaitedIn(e) = AwaitedIn(d) BY <1>8 DEF AwaitedIn
  <1>10. OnceIn(e)
    <2> SUFFICES ASSUME NEW k \in HoGnb, NEW i \in DOMAIN e[k], NEW j \in DOMAIN e[k],
                        e[k][i] \in ReleaseMsg, e[k][i] = e[k][j]
                 PROVE  i = j
      BY DEF OnceIn
    <2>1. k # g BY <1>4
    <2> QED BY <2>1, <1>1 DEF OnceIn
  <1> QED BY <1>1, <1>2, <1>5, <1>9, <1>10

\* A command to release is received: that place is awaited no more.
LEMMA TakenRelease ==
  ASSUME NEW d \in [HoGnb -> Seq(Msg)], NEW g \in HoGnb, d[g] # <<>>, OnceIn(d),
         NEW r \in HoRan, Head(d[g]) = Release(r), NEW e, e = ReceivedIn(d, g)
  PROVE  /\ e \in [HoGnb -> Seq(Msg)] /\ OnceIn(e)
         /\ Place(g, r) \in AwaitedIn(d) /\ AwaitedIn(e) = AwaitedIn(d) \ {Place(g, r)}
         /\ CalmIn(d) => CalmIn(e)
         /\ \A h : \A m \in Special : CarriesIn(d, h, m) => CarriesIn(e, h, m)
  <1>1. /\ e \in [HoGnb -> Seq(Msg)] /\ Head(d[g]) = d[g][1] /\ 1 \in DOMAIN d[g]
        /\ Len(d[g]) \in Nat /\ Len(e[g]) = Len(d[g]) - 1 /\ DOMAIN d[g] = 1 .. Len(d[g])
        /\ \A k \in HoGnb : k # g => e[k] = d[k]
        /\ \A i \in DOMAIN e[g] : i \in Nat /\ i + 1 \in DOMAIN d[g] /\ e[g][i] = d[g][i + 1]
        /\ \A i \in DOMAIN d[g] : i = 1 \/ (i - 1 \in DOMAIN e[g] /\ e[g][i - 1] = d[g][i])
    BY SMTT(30), Dropped DEF ReceivedIn
  <1>2. Release(r) \in ReleaseMsg /\ \A s : Release(s) = Release(r) => s = r BY DEF ReleaseMsg, Release
  <1>3. \A p \in Places : p.g \in HoGnb /\ p = Place(p.g, p.r) BY SMTT(30) DEF Places, Place
  <1>4. Place(g, r) \in Places /\ Place(g, r).g = g /\ Place(g, r).r = r BY DEF Places, Place
  <1>5. Place(g, r) \in AwaitedIn(d) BY <1>1, <1>4 DEF AwaitedIn
  <1>6. \A i \in DOMAIN e[g] : e[g][i] # Release(r)
    <2> SUFFICES ASSUME NEW i \in DOMAIN e[g], e[g][i] = Release(r) PROVE FALSE OBVIOUS
    <2>1. i \in Nat /\ i + 1 \in DOMAIN d[g] /\ d[g][i + 1] = d[g][1] BY <1>1
    <2>2. i + 1 = 1 BY SMTT(30), <2>1, <1>1, <1>2 DEF OnceIn
    <2>3. i \in 1 .. Len(e[g])
      <3>1. e[g] \in Seq(Msg) BY <1>1
      <3> QED BY SMTT(30), <3>1
    <2> QED BY SMTT(30), <2>2, <2>3
  <1>7. AwaitedIn(e) = AwaitedIn(d) \ {Place(g, r)}
    <2>1. ASSUME NEW p \in AwaitedIn(e) PROVE p \in AwaitedIn(d) \ {Place(g, r)}
      <3>1. CASE p.g = g
        <4>1. PICK i \in DOMAIN e[g] : e[g][i] = Release(p.r) BY <3>1 DEF AwaitedIn
        <4>2. i + 1 \in DOMAIN d[g] /\ d[g][i + 1] = Release(p.r) BY <4>1, <1>1
        <4>3. p.r # r BY <4>1, <1>6
        <4> QED BY <3>1, <4>2, <4>3, <1>4 DEF AwaitedIn
      <3>2. CASE p.g # g BY <3>2, <1>1, <1>3, <1>4 DEF AwaitedIn
      <3> QED BY <3>1, <3>2
    <2>2. ASSUME NEW p \in AwaitedIn(d), p # Place(g, r) PROVE p \in AwaitedIn(e)
      <3>1. CASE p.g = g
        <4>1. PICK i \in DOMAIN d[g] : d[g][i] = Release(p.r) BY <3>1 DEF AwaitedIn
        <4>2. p.r # r BY <3>1, <2>2, <1>3 DEF AwaitedIn
        <4>3. i # 1 BY <4>1, <4>2, <1>1, <1>2
        <4>4. i - 1 \in DOMAIN e[g] /\ e[g][i - 1] = d[g][i] BY <4>3, <1>1
        <4> QED BY <4>1, <4>4, <3>1 DEF AwaitedIn
      <3>2. CASE p.g # g BY <3>2, <1>1, <1>3 DEF AwaitedIn
      <3> QED BY <3>1, <3>2
    <2> QED BY <2>1, <2>2
  <1>8. OnceIn(e)
    <2> SUFFICES ASSUME NEW k \in HoGnb, NEW i \in DOMAIN e[k], NEW j \in DOMAIN e[k],
                        e[k][i] \in ReleaseMsg, e[k][i] = e[k][j]
                 PROVE  i = j
      BY DEF OnceIn
    <2>1. CASE k = g
      <3>1. i + 1 \in DOMAIN d[g] /\ j + 1 \in DOMAIN d[g] /\ i \in Nat /\ j \in Nat
            /\ d[g][i + 1] \in ReleaseMsg /\ d[g][i + 1] = d[g][j + 1]
        BY <2>1, <1>1
      <3>2. i + 1 = j + 1 BY <3>1 DEF OnceIn
      <3> QED BY SMTT(30), <3>1, <3>2
    <2>2. CASE k # g BY <2>2, <1>1 DEF OnceIn
    <2> QED BY <2>1, <2>2
  <1>9. CalmIn(d) => CalmIn(e)
    <2> SUFFICES ASSUME CalmIn(d), NEW k \in HoGnb, NEW i \in DOMAIN e[k] PROVE e[k][i] \in ReleaseMsg
      BY DEF CalmIn
    <2>1. CASE k = g BY <2>1, <1>1 DEF CalmIn
    <2>2. CASE k # g BY <2>2, <1>1 DEF CalmIn
    <2> QED BY <2>1, <2>2
  <1>10. ASSUME NEW h, NEW m \in Special, CarriesIn(d, h, m) PROVE CarriesIn(e, h, m)
    <2>1. h \in HoGnb /\ d[h] # <<>> /\ d[h][Len(d[h])] = m BY <1>10 DEF CarriesIn
    <2>2. m \notin ReleaseMsg BY Apart
    <2>3. CASE h = g
      <3>1. Len(d[g]) # 1 BY <2>1, <2>2, <2>3, <1>1, <1>2
      <3>2. Len(e[g]) \in Nat \ {0} /\ Len(d[g]) \in DOMAIN d[g] /\ Len(d[g]) - 1 = Len(e[g])
        BY SMTT(30), <3>1, <1>1
      <3>3. e[g] # <<>> /\ e[g][Len(e[g])] = m BY <3>1, <3>2, <1>1, <2>1, <2>3
      <3>4. ASSUME NEW k \in HoGnb, NEW i \in DOMAIN e[k]
            PROVE  e[k][i] \in ReleaseMsg \/ (k = g /\ i = Len(e[g]))
        <4>1. CASE k = g
          <5>1. i \in Nat /\ i + 1 \in DOMAIN d[g] /\ e[g][i] = d[g][i + 1] BY <4>1, <1>1
          <5>2. d[g][i + 1] \in ReleaseMsg \/ i + 1 = Len(d[g]) BY <5>1, <1>10, <2>3 DEF CarriesIn
          <5>3. i + 1 = Len(d[g]) => i = Len(e[g])
            <6>1. PICK a : a = Len(d[g]) OBVIOUS
            <6>2. PICK b : b = Len(e[g]) OBVIOUS
            <6>3. a \in Nat /\ b = a - 1 /\ i \in Nat BY <6>1, <6>2, <5>1, <1>1
            <6>4. i + 1 = a => i = b BY SMTT(30), <6>3
            <6> QED BY <6>1, <6>2, <6>4
          <5> QED BY <4>1, <5>1, <5>2, <5>3
        <4>2. CASE k # g BY <4>2, <1>1, <1>10, <2>3 DEF CarriesIn
        <4> QED BY <4>1, <4>2
      <3> QED BY <3>3, <3>4, <2>3 DEF CarriesIn
    <2>4. CASE h # g
      <3>1. e[h] = d[h] BY <2>1, <2>4, <1>1
      <3>2. ASSUME NEW k \in HoGnb, NEW i \in DOMAIN e[k]
            PROVE  e[k][i] \in ReleaseMsg \/ (k = h /\ i = Len(e[h]))
        <4>1. CASE k = g
          <5>1. i + 1 \in DOMAIN d[g] /\ e[g][i] = d[g][i + 1] BY <4>1, <1>1
          <5> QED BY <4>1, <5>1, <1>10, <2>4 DEF CarriesIn
        <4>2. CASE k # g BY <4>2, <1>1, <1>10, <3>1 DEF CarriesIn
        <4> QED BY <4>1, <4>2
      <3> QED BY <3>1, <3>2, <2>1 DEF CarriesIn
    <2> QED BY <2>3, <2>4
  <1> QED BY <1>1, <1>5, <1>7, <1>8, <1>9, <1>10

\* An association breaks: what was on its way there is gone.
LEMMA Cleared ==
  ASSUME NEW d \in [HoGnb -> Seq(Msg)], NEW g \in HoGnb, OnceIn(d),
         NEW e, e = [d EXCEPT ![g] = <<>>]
  PROVE  /\ e \in [HoGnb -> Seq(Msg)] /\ OnceIn(e) /\ AwaitedIn(e) \subseteq AwaitedIn(d)
         /\ CalmIn(d) => CalmIn(e)
         /\ \A h, m : CarriesIn(d, h, m) => CalmIn(e) \/ CarriesIn(e, h, m)
  <1>1. e \in [HoGnb -> Seq(Msg)] BY SMTT(30)
  <1>2. DOMAIN e[g] = {} /\ \A h \in HoGnb : h # g => e[h] = d[h] BY SMTT(30)
  <1>3. \A h \in HoGnb : \A i \in DOMAIN e[h] : i \in DOMAIN d[h] /\ e[h][i] = d[h][i] BY <1>2
  <1>4. OnceIn(e) BY SMTT(30), <1>3 DEF OnceIn
  <1>5. \A p \in Places : p.g \in HoGnb BY DEF Places
  <1>6. AwaitedIn(e) \subseteq AwaitedIn(d) BY <1>3, <1>5 DEF AwaitedIn
  <1>7. CalmIn(d) => CalmIn(e) BY <1>3 DEF CalmIn
  <1>8. ASSUME NEW h, NEW m, CarriesIn(d, h, m) PROVE CalmIn(e) \/ CarriesIn(e, h, m)
    <2>1. CASE h = g BY <2>1, <1>8, <1>2, <1>3 DEF CalmIn, CarriesIn
    <2>2. CASE h # g BY <2>2, <1>8, <1>2, <1>3 DEF CarriesIn
    <2> QED BY <2>1, <2>2
  <1> QED BY <1>1, <1>4, <1>6, <1>7, <1>8

-----------------------------------------------------------------------------
(* Which stage a step is taken in *)

\* The tasks by kind and step.
LEMMA Kinds ==
  /\ \A t \in XnTask : /\ t.kind = "xn" /\ t.step \in {"queued", "smf"} /\ t.to \in Places
                       /\ t.list \subseteq Psi /\ t.failed \subseteq Psi /\ t.known \subseteq Psi
                       /\ t.ok \subseteq Psi
  /\ \A t \in RequiredTask : /\ t.kind = "required" /\ t.step \in {"queued", "smf"} /\ t.src \in Places
                             /\ t.target \in HoGnb /\ t.list \subseteq Psi /\ t.cands \subseteq Psi
                             /\ t.ok \subseteq Psi
  /\ \A t \in AckTask : /\ t.kind = "ack" /\ t.step \in {"queued", "smf"} /\ t.to \in Places
                        /\ t.admitted \subseteq Psi /\ t.failed \subseteq Psi /\ t.known \subseteq Psi
                        /\ t.ok \subseteq Psi /\ t.state \in Nat
  /\ \A t \in RegisterTask : t.kind = "ack" /\ t.step = "register" /\ t.to \in Places
  BY DEF XnTask, RequiredTask, AckTask, RegisterTask

\* The UE's queue is empty, or the stage tells what is in it.
LEMMA Tasks ==
  ASSUME Stages
  PROVE  \/ task = <<>>
         \/ \E u \in RegisterTask : task = <<u>>
         \/ \E t \in XnTask : Switching(t)
         \/ \E t \in RequiredTask : Required(t)
         \/ \E t \in AckTask : Answered(t)
  <1>1. ASSUME NEW S, NEW p, Rests(task, entry, S, p)
        PROVE  task = <<>> \/ \E u \in RegisterTask : task = <<u>>
    BY <1>1 DEF Rests
  <1>2. CASE Settled BY <1>2, <1>1 DEF Settled
  <1>3. CASE Unswitched BY <1>3, <1>1 DEF Unswitched
  <1>4. CASE Lost BY <1>4, <1>1 DEF Lost
  <1>5. CASE Failed BY <1>5, <1>1 DEF Failed
  <1>6. CASE Stuck BY <1>6, <1>1 DEF Stuck
  <1>7. CASE Moved BY <1>7, <1>1 DEF Moved
  <1>8. CASE Refused BY <1>8 DEF Refused
  <1>9. ASSUME NEW m \in SwitchedMsg, Switched(m) PROVE task = <<>> BY <1>9 DEF Switched
  <1>10. ASSUME NEW g \in HoGnb, NEW m \in RequestMsg, Requested(g, m) PROVE task = <<>>
    BY <1>10 DEF Requested
  <1>11. ASSUME NEW m \in CommandMsg, Commanded(m)
         PROVE  task = <<>> \/ \E u \in RegisterTask : task = <<u>>
    BY <1>11, <1>1 DEF Commanded
  <1> QED BY <1>2, <1>3, <1>4, <1>5, <1>6, <1>7, <1>8, <1>9, <1>10, <1>11 DEF Stages

\* A task that waits runs when it is the only one.
LEMMA Runs ==
  ASSUME NEW t, Waits(task, entry, served, t), Head(task).step # "register"
  PROVE  task = <<t>> /\ EntriesAt(entry, {served}) /\ Head(task) = t /\ Tail(task) = <<>>
  <1>1. ASSUME NEW u \in RegisterTask, task = <<u, t>> PROVE FALSE
    BY SMTT(30), <1>1, Tuples, Kinds
  <1>2. task = <<t>> /\ EntriesAt(entry, {served}) BY <1>1 DEF Waits
  <1> QED BY <1>2, Tuples

\* The steps of an Xn handover's task are taken while the path is switched.
LEMMA HeadingXn ==
  ASSUME Stages, NEW step \in {"queued", "smf"}, Heading("xn", step)
  PROVE  \E t \in XnTask : /\ Switching(t) /\ t.step = step /\ Head(task) = t /\ Tail(task) = <<>>
                           /\ task = <<t>> /\ EntriesAt(entry, {served})
  <1>1. Head(task).kind = "xn" /\ Head(task).step = step /\ task # <<>> BY DEF Heading
  <1>2. ASSUME NEW u \in RegisterTask, task = <<u>> PROVE FALSE BY <1>1, <1>2, Tuples, Kinds
  <1>3. ASSUME NEW t \in RequiredTask, Required(t) PROVE FALSE
    <2>1. Head(task) = t BY <1>1, <1>3, Runs DEF Required
    <2> QED BY <1>1, <2>1, Kinds
  <1>4. ASSUME NEW t \in AckTask, Answered(t) PROVE FALSE
    <2>1. Head(task) = t BY <1>4, Tuples DEF Answered
    <2> QED BY <1>1, <2>1, Kinds
  <1>5. PICK t \in XnTask : Switching(t) BY <1>1, <1>2, <1>3, <1>4, Tasks
  <1>6. Waits(task, entry, served, t) /\ Head(task).step # "register" BY <1>1, <1>5 DEF Switching
  <1>7. task = <<t>> /\ EntriesAt(entry, {served}) /\ Head(task) = t /\ Tail(task) = <<>> BY <1>6, Runs
  <1> QED BY <1>1, <1>5, <1>7

\* The steps of an N2 handover's first task are taken when the source has asked.
LEMMA HeadingRequired ==
  ASSUME Stages, NEW step \in {"queued", "smf"}, Heading("required", step)
  PROVE  \E t \in RequiredTask :
            /\ Required(t) /\ t.step = step /\ Head(task) = t /\ Tail(task) = <<>>
            /\ task = <<t>> /\ EntriesAt(entry, {served})
  <1>1. Head(task).kind = "required" /\ Head(task).step = step /\ task # <<>> BY DEF Heading
  <1>2. ASSUME NEW u \in RegisterTask, task = <<u>> PROVE FALSE BY <1>1, <1>2, Tuples, Kinds
  <1>3. ASSUME NEW t \in XnTask, Switching(t) PROVE FALSE
    <2>1. Head(task) = t BY <1>1, <1>3, Runs DEF Switching
    <2> QED BY <1>1, <2>1, Kinds
  <1>4. ASSUME NEW t \in AckTask, Answered(t) PROVE FALSE
    <2>1. Head(task) = t BY <1>4, Tuples DEF Answered
    <2> QED BY <1>1, <2>1, Kinds
  <1>5. PICK t \in RequiredTask : Required(t) BY <1>1, <1>2, <1>3, <1>4, Tasks
  <1>6. Waits(task, entry, served, t) /\ Head(task).step # "register" BY <1>1, <1>5 DEF Required
  <1>7. task = <<t>> /\ EntriesAt(entry, {served}) /\ Head(task) = t /\ Tail(task) = <<>> BY <1>6, Runs
  <1> QED BY <1>1, <1>5, <1>7

\* Those of its second task, when the target has answered.
LEMMA HeadingAck ==
  ASSUME Stages, NEW step \in {"queued", "smf"}, Heading("ack", step)
  PROVE  \E t \in AckTask : /\ Answered(t) /\ t.step = step /\ Head(task) = t /\ Tail(task) = <<>>
                            /\ task = <<t>> /\ EntriesAt(entry, {served})
  <1>1. Head(task).kind = "ack" /\ Head(task).step = step /\ task # <<>> BY DEF Heading
  <1>2. ASSUME NEW u \in RegisterTask, task = <<u>> PROVE FALSE BY <1>1, <1>2, Tuples, Kinds
  <1>3. ASSUME NEW t \in XnTask, Switching(t) PROVE FALSE
    <2>1. Head(task) = t BY <1>1, <1>3, Runs DEF Switching
    <2> QED BY <1>1, <2>1, Kinds
  <1>4. ASSUME NEW t \in RequiredTask, Required(t) PROVE FALSE
    <2>1. Head(task) = t BY <1>1, <1>4, Runs DEF Required
    <2> QED BY <1>1, <2>1, Kinds
  <1>5. PICK t \in AckTask : Answered(t) BY <1>1, <1>2, <1>3, <1>4, Tasks
  <1> QED BY <1>1, <1>5, Tuples DEF Answered

\* A message by its type.
LEMMA Types ==
  /\ \A m \in ReleaseMsg : m.type = "UEContextReleaseCommand"
  /\ \A m \in SwitchedMsg : m.type = "PathSwitchRequestAcknowledge" /\ m.switched \subseteq Psi
                            /\ m \in Special
  /\ \A m \in RequestMsg : m.type = "HandoverRequest" /\ m.list \subseteq Psi /\ m \in Special
  /\ \A m \in CommandMsg : m.type = "HandoverCommand" /\ m.to \in Places /\ m.cmd \subseteq Psi
                           /\ m.release \subseteq Psi /\ m \in Special
  /\ SwitchFailure.type = "PathSwitchRequestFailure" /\ SwitchFailure \in Special
  /\ PrepFailure.type = "HandoverPreparationFailure" /\ PrepFailure \in Special
  BY SMTT(30) DEF ReleaseMsg, Release, SwitchedMsg, RequestMsg, CommandMsg, SwitchFailure, PrepFailure, Special

\* What a gNB receives, but for a command to release, is the message of the stage.
LEMMA Delivery ==
  ASSUME Stages, dl \in [HoGnb -> Seq(Msg)], OnceIn(dl), NEW g \in HoGnb, dl[g] # <<>>,
         Head(dl[g]).type # "UEContextReleaseCommand"
  PROVE  /\ \/ \E m \in SwitchedMsg : Switched(m) /\ Head(dl[g]) = m
            \/ Unswitched /\ Head(dl[g]) = SwitchFailure
            \/ \E m \in RequestMsg : Requested(g, m) /\ Head(dl[g]) = m
            \/ \E m \in CommandMsg : Commanded(m) /\ Head(dl[g]) = m
            \/ Failed /\ Head(dl[g]) = PrepFailure
         /\ Received(g) \in [HoGnb -> Seq(Msg)] /\ CalmIn(Received(g))
         /\ AwaitedIn(Received(g)) = AwaitedIn(dl) /\ OnceIn(Received(g))
  <1>1. Head(dl[g]) \notin ReleaseMsg BY Types
  <1>2. PICK e : e = Received(g) OBVIOUS
  <1>3. ~CalmIn(dl) BY <1>1, CalmDelivers
  <1>4. ASSUME NEW h, NEW m \in Special, CarriesIn(dl, h, m)
        PROVE  /\ g = h /\ Head(dl[g]) = m /\ e \in [HoGnb -> Seq(Msg)] /\ CalmIn(e)
               /\ AwaitedIn(e) = AwaitedIn(dl) /\ OnceIn(e)
    <2>1. e = ReceivedIn(dl, g) BY <1>2 DEF Received, ReceivedIn
    <2> QED BY <1>1, <1>4, <2>1, Taken
  <1>5. ASSUME NEW m \in SwitchedMsg, Switched(m)
        PROVE  CarriesIn(dl, radio.g, m) /\ m \in Special
    BY <1>5, Types DEF Switched
  <1>6. ASSUME Unswitched PROVE CarriesIn(dl, radio.g, SwitchFailure) BY <1>3, <1>6 DEF Unswitched
  <1>7. ASSUME NEW h \in HoGnb, NEW m \in RequestMsg, Requested(h, m)
        PROVE  CarriesIn(dl, h, m) /\ m \in Special
    BY <1>7, Types DEF Requested
  <1>8. ASSUME NEW m \in CommandMsg, Commanded(m)
        PROVE  CarriesIn(dl, served.g, m) /\ m \in Special
    BY <1>8, Types DEF Commanded
  <1>9. ASSUME Failed PROVE CarriesIn(dl, served.g, PrepFailure) BY <1>9 DEF Failed
  <1>10. ~Settled /\ ~Lost /\ ~Stuck /\ ~Refused /\ ~Moved
    BY <1>3 DEF Settled, Lost, Stuck, Refused, Moved
  <1>11. (\A t \in XnTask : ~Switching(t)) /\ (\A t \in RequiredTask : ~Required(t))
         /\ (\A t \in AckTask : ~Answered(t))
    BY <1>3 DEF Switching, Required, Answered
  <1>12. \/ \E m \in SwitchedMsg : Switched(m)
         \/ Unswitched
         \/ \E h \in HoGnb, m \in RequestMsg : Requested(h, m)
         \/ \E m \in CommandMsg : Commanded(m)
         \/ Failed
    BY <1>10, <1>11 DEF Stages
  <1>13. CASE \E m \in SwitchedMsg : Switched(m) BY <1>13, <1>2, <1>4, <1>5
  <1>14. CASE Unswitched BY <1>14, <1>2, <1>4, <1>6, Types
  <1>15. CASE \E h \in HoGnb, m \in RequestMsg : Requested(h, m) BY <1>15, <1>2, <1>4, <1>7
  <1>16. CASE \E m \in CommandMsg : Commanded(m) BY <1>16, <1>2, <1>4, <1>8
  <1>17. CASE Failed BY <1>17, <1>2, <1>4, <1>9, Types
  <1> QED BY <1>12, <1>13, <1>14, <1>15, <1>16, <1>17
-----------------------------------------------------------------------------
(* What the steps have in common *)

\* A message written to a gNB arrives, or is lost with the association.
LEMMA Writes ==
  ASSUME TypeInv, OnceIn(dl), CalmIn(dl), NEW g \in HoGnb, NEW m \in Special, dl' = Sent(g, m)
  PROVE  /\ dl' \in [HoGnb -> Seq(Msg)] /\ AwaitedIn(dl') = AwaitedIn(dl) /\ OnceIn(dl')
         /\ g \notin down => CarriesIn(dl', g, m)
         /\ g \in down => CalmIn(dl') /\ down # {}
  <1>1. dl \in [HoGnb -> Seq(Msg)] BY DEF TypeInv
  <1>2. CASE g \in down BY <1>1, <1>2 DEF Sent
  <1>3. CASE g \notin down
    <2>1. PICK e : e = dl' OBVIOUS
    <2>2. e = QueuedIn(dl, g, m) BY <1>3, <2>1 DEF Sent, QueuedIn
    <2>3. /\ e \in [HoGnb -> Seq(Msg)] /\ CarriesIn(e, g, m)
          /\ AwaitedIn(e) = AwaitedIn(dl) /\ OnceIn(e)
      BY <1>1, <2>2, Sending
    <2> QED BY <2>1, <2>3, <1>3
  <1> QED BY <1>2, <1>3

\* The places of a step that changes no entry, takes no RAN ID into use nor frees one, and
\* brings no other place into the handover.
LEMMA PlacesKept ==
  ASSUME PlacesInv, UNCHANGED <<inUse, entry>>, Own' \subseteq Own,
         AwaitedIn(dl') \subseteq AwaitedIn(dl), OnceIn(dl'),
         ran'.at = "required" => served' \notin ran'.kept,
         ran'.at = "xn" => ran'.from # radio'
  PROVE  PlacesInv'
  <1>1. \A p : Reserved(p)' <=> Reserved(p) BY DEF Reserved
  <1>2. \A p \in Own' : Reserved(p)' BY <1>1 DEF PlacesInv
  <1>3. \A p \in AwaitedIn(dl') : Reserved(p)' /\ p \notin Own' BY <1>1 DEF PlacesInv
  <1>4. \A g \in HoGnb, r \in HoRan : entry'[g][r] = "other" => r \in inUse'[g] BY DEF PlacesInv
  <1> QED BY <1>2, <1>3, <1>4 DEF PlacesInv

\* The places stay the handover's when a step only takes messages from the queues.
LEMMA PlacesSame ==
  ASSUME PlacesInv, UNCHANGED <<served, radio, ran, inUse, entry>>,
         AwaitedIn(dl') \subseteq AwaitedIn(dl), OnceIn(dl')
  PROVE  PlacesInv'
  <1>1. Own' = Own BY DEF Own
  <1>2. /\ ran'.at = "required" => served' \notin ran'.kept
        /\ ran'.at = "xn" => ran'.from # radio'
    BY DEF PlacesInv
  <1> QED BY <1>1, <1>2, PlacesKept

\* A handover's key.
LEMMA NextKey ==
  ASSUME KeyInv, NextNHLocked, ran \in RanState, ran' = ran, Len(keys) < ran.n
  PROVE  KeyInv'
  <1>1. PICK n : n = Len(keys) OBVIOUS
  <1>2. PICK c : c = ncc' OBVIOUS
  <1>3. PICK k : k = keys' OBVIOUS
  <1>4. /\ keys \in Seq(0 .. 7) /\ n \in Nat /\ DOMAIN keys = 1 .. n
        /\ \A i \in 1 .. n : keys[i] = (i - 1) % 8
    BY SMTT(30), <1>1 DEF KeyInv, nccModulus
  <1>5. c = n % 8
    <2>1. c = (((n + 8 - 1) % 8) + 1) % 8 BY <1>1, <1>2 DEF KeyInv, NextNHLocked, nccModulus
    <2> QED BY SMTT(30), <1>4, <2>1
  <1>6. c \in 0 .. 7 /\ k = Append(keys, c) BY SMTT(30), <1>2, <1>3, <1>4, <1>5 DEF NextNHLocked
  <1>7. /\ k \in Seq(0 .. 7) /\ Len(k) = n + 1 /\ DOMAIN k = 1 .. (n + 1) /\ k[n + 1] = c
        /\ \A i \in 1 .. n : k[i] = keys[i]
    BY SMTT(30), <1>1, <1>4, <1>6
  <1>8. \A i \in 1 .. (n + 1) : k[i] = (i - 1) % 8
    <2>1. \A i \in 1 .. (n + 1) : i = n + 1 => c = (i - 1) % 8 BY SMTT(30), <1>4, <1>5
    <2>2. \A i \in 1 .. (n + 1) : i \in 1 .. n \/ i = n + 1 BY SMTT(30), <1>4
    <2>3. ASSUME NEW i \in 1 .. (n + 1), i \in 1 .. n PROVE k[i] = (i - 1) % 8
      <3>1. k[i] = keys[i] /\ keys[i] = (i - 1) % 8 BY <1>4, <1>7, <2>3
      <3> QED BY <3>1
    <2>4. ASSUME NEW i \in 1 .. (n + 1), i = n + 1 PROVE k[i] = (i - 1) % 8
      <3>1. k[i] = c BY <1>7, <2>4
      <3> QED BY <2>1, <2>4, <3>1
    <2> QED BY <2>2, <2>3, <2>4
  <1>9. n + 1 <= ran.n
    <2>1. ran.n \in Nat BY SMTT(30), HandoverAssumption DEF RanState
    <2> QED BY SMTT(30), <1>1, <1>4, <2>1
  <1>10. c = (n + 1 + 8 - 1) % 8 BY SMTT(30), <1>4, <1>5
  <1>11. 0 .. nccModulus - 1 = 0 .. 7 BY SMTT(30) DEF nccModulus
  <1> QED BY <1>2, <1>3, <1>7, <1>8, <1>9, <1>10, <1>11 DEF KeyInv, nccModulus

\* No key is used.
LEMMA SameKeys ==
  ASSUME KeyInv, UNCHANGED <<ncc, keys>>, ran \in RanState, ran' \in RanState, ran'.n >= ran.n
  PROVE  KeyInv'
  <1>1. ran.n \in Nat /\ ran'.n \in Nat BY SMTT(30), HandoverAssumption DEF RanState
  <1>2. Len(keys) \in Nat BY SMTT(30) DEF KeyInv
  <1>3. Len(keys) <= ran'.n BY SMTT(30), <1>1, <1>2 DEF KeyInv
  <1> QED BY <1>3 DEF KeyInv

\* With the queues as they are.
LEMMA PlacesStay ==
  ASSUME PlacesInv, UNCHANGED <<served, radio, ran, inUse, entry, dl>>
  PROVE  PlacesInv'
  BY PlacesSame DEF PlacesInv

\* Calls are made for sessions that stay, or are answered.
LEMMA CallsKept ==
  ASSUME CallsInv, pdu' \subseteq pdu, \A c \in calls' : c \in calls \/ c.leg # "release"
  PROVE  CallsInv'
  BY DEF CallsInv

\* What the SMF does for a session is stored for it alone.
LEMMA Stored ==
  ASSUME NEW f \in [Psi -> HoGnb \cup {Nobody}], NEW ps, NEW v \in HoGnb \cup {Nobody}
  PROVE  /\ With(f, ps, v) \in [Psi -> HoGnb \cup {Nobody}]
         /\ \A p \in Psi : With(f, ps, v)[p] = IF p \in ps THEN v ELSE f[p]
  BY DEF With
-----------------------------------------------------------------------------
(* The steps of an Xn handover's task *)

\* xnSwitchPSI: the path of the sessions the SMF accepted leads to the target.
LEMMA XnSwitchPSIKeeps == HoInv /\ xnSwitchPSI => HoInv'
  <1> SUFFICES ASSUME HoInv, xnSwitchPSI PROVE HoInv' OBVIOUS
  <1> USE DEF HoInv
  <1>1. PICK t \in XnTask : /\ Switching(t) /\ t.step = "queued" /\ Head(task) = t
                            /\ Tail(task) = <<>> /\ EntriesAt(entry, {served})
    BY HeadingXn DEF xnSwitchPSI
  <1>2. PICK ok \in SUBSET (t.list \cap t.known) :
        \E switched \in Applied(ok, t.list \cap t.known), dropped \in SUBSET (t.failed \cap t.known) :
          /\ task' = <<[t EXCEPT !.step = "smf", !.ok = ok]>> \o Tail(task)
          /\ path' = With(With(path, switched, t.to.g), dropped, Nobody)
    BY <1>1 DEF xnSwitchPSI, Continue
  <1>3. PICK switched \in Applied(ok, t.list \cap t.known), dropped \in SUBSET (t.failed \cap t.known) :
          /\ task' = <<[t EXCEPT !.step = "smf", !.ok = ok]>> \o Tail(task)
          /\ path' = With(With(path, switched, t.to.g), dropped, Nobody)
    BY <1>2
  <1>4. UNCHANGED <<served, entry, idle, pdu, chain, allowed, ncc, keys, pendingN2HO, ho, calls,
                    tgt, dl, down, inUse, radio, bearers, ran>>
    BY DEF xnSwitchPSI, ranHo
  <1>5. PICK n : n = [t EXCEPT !.step = "smf", !.ok = ok] OBVIOUS
  <1>6. n \in XnTask /\ n.step = "smf" /\ n.ok = ok /\ n.to = t.to /\ n.list = t.list /\ n.failed = t.failed
    BY <1>5, Kinds DEF XnTask
  <1>7. task' = <<n>> BY <1>1, <1>3, <1>5, Tuples
  <1>8. t.to \in Places /\ t.to.g \in HoGnb BY Kinds DEF Places
  <1>9. ok \subseteq switched BY DEF Applied
  <1>10. path' \in [Psi -> HoGnb \cup {Nobody}] /\ \A p \in ok \cap pdu : path'[p] = t.to.g
    <2>1. path \in [Psi -> HoGnb \cup {Nobody}] /\ pdu \subseteq Psi BY DEF TypeInv
    <2>2. PICK f : f = With(path, switched, t.to.g) OBVIOUS
    <2>3. f \in [Psi -> HoGnb \cup {Nobody}] /\ \A p \in switched \cap Psi : f[p] = t.to.g
      BY SMTT(30), <2>1, <2>2, <1>8, Stored
    <2>4. path' \in [Psi -> HoGnb \cup {Nobody}] /\ \A p \in Psi : p \notin dropped => path'[p] = f[p]
      BY SMTT(30), <2>2, <2>3, <1>3, Stored
    <2>5. ok \cap dropped = {} BY <1>1 DEF Switching
    <2> QED BY <2>1, <2>3, <2>4, <2>5, <1>9
  <1>11. Switching(n)'
    <2>1. Waits(task', entry', served', n) BY <1>1, <1>4, <1>7 DEF Waits
    <2>2. Leads(path', n.ok \cap pdu', radio'.g) BY <1>1, <1>4, <1>6, <1>10 DEF Leads, Switching
    <2> QED BY <1>1, <1>4, <1>6, <2>1, <2>2 DEF Switching
  <1>12. Stages' BY <1>6, <1>11 DEF Stages
  <1>13. TypeInv' BY <1>4, <1>10 DEF TypeInv
  <1>14. PlacesInv' BY <1>4, PlacesStay
  <1>15. KeyInv' BY <1>4 DEF KeyInv
  <1>16. CallsInv' BY <1>4 DEF CallsInv
  <1> QED BY <1>12, <1>13, <1>14, <1>15, <1>16

\* One entry is written.
PutIn(e, p, v) == [e EXCEPT ![p.g][p.r] = v]
Entries == [HoGnb -> [HoRan -> {"none", "ue", "other"}]]

\* The UE's entry is written.
LEMMA Entered ==
  ASSUME NEW e \in Entries, NEW p \in Places, NEW f, f = PutIn(e, p, "ue")
  PROVE  /\ f \in Entries
         /\ \A g \in HoGnb, r \in HoRan : f[g][r] = IF Place(g, r) = p THEN "ue" ELSE e[g][r]
         /\ \A S : EntriesAt(e, S) => EntriesAt(f, S \cup {p})
  <1>1. p.g \in HoGnb /\ p.r \in HoRan /\ p = Place(p.g, p.r) BY DEF Places, Place
  <1>2. f \in Entries BY <1>1 DEF Entries, PutIn
  <1>3. \A g \in HoGnb, r \in HoRan : f[g][r] = IF g = p.g /\ r = p.r THEN "ue" ELSE e[g][r]
    BY <1>1 DEF Entries, PutIn
  <1>4. \A g \in HoGnb, r \in HoRan : (g = p.g /\ r = p.r) <=> Place(g, r) = p BY SMTT(30), <1>1 DEF Place
  <1>5. \A g \in HoGnb, r \in HoRan : f[g][r] = IF Place(g, r) = p THEN "ue" ELSE e[g][r]
    BY <1>3, <1>4
  <1>6. ASSUME NEW S, EntriesAt(e, S) PROVE EntriesAt(f, S \cup {p})
    BY <1>5, <1>6 DEF EntriesAt
  <1> QED BY <1>2, <1>5, <1>6

\* An entry is deleted.
LEMMA Erased ==
  ASSUME NEW e \in Entries, NEW p \in Places, NEW f, f = PutIn(e, p, "none")
  PROVE  /\ f \in Entries
         /\ \A g \in HoGnb, r \in HoRan : f[g][r] = IF Place(g, r) = p THEN "none" ELSE e[g][r]
         /\ \A S : EntriesAt(e, S) => EntriesAt(f, S \ {p})
  <1>1. p.g \in HoGnb /\ p.r \in HoRan /\ p = Place(p.g, p.r) BY DEF Places, Place
  <1>2. f \in Entries BY <1>1 DEF Entries, PutIn
  <1>3. \A g \in HoGnb, r \in HoRan : f[g][r] = IF g = p.g /\ r = p.r THEN "none" ELSE e[g][r]
    BY <1>1 DEF Entries, PutIn
  <1>4. \A g \in HoGnb, r \in HoRan : (g = p.g /\ r = p.r) <=> Place(g, r) = p BY SMTT(30), <1>1 DEF Place
  <1>5. \A g \in HoGnb, r \in HoRan : f[g][r] = IF Place(g, r) = p THEN "none" ELSE e[g][r]
    BY <1>3, <1>4
  <1>6. ASSUME NEW S, EntriesAt(e, S) PROVE EntriesAt(f, S \ {p})
    BY <1>5, <1>6 DEF EntriesAt
  <1> QED BY <1>2, <1>5, <1>6

\* The path is switched: the entry follows the binding.
LEMMA ReboundEntries ==
  ASSUME TypeInv, NEW t \in XnTask, EntriesAt(entry, {served}), t.to # served,
         \E src \in IF Holders = {} THEN {Nobody} ELSE Holders : entry' = Rebound(t, src)
  PROVE  /\ entry' \in Entries /\ EntriesAt(entry', {t.to})
         /\ \A g \in HoGnb, r \in HoRan : entry'[g][r] \in {"none", "ue"} \/ entry'[g][r] = entry[g][r]
         /\ \A g \in HoGnb, r \in HoRan : entry'[g][r] # entry[g][r] => Place(g, r) \in {served, t.to}
  <1>1. t.to \in Places /\ served \in Places /\ entry \in Entries BY Kinds DEF TypeInv, Entries
  <1>2. served.g \in HoGnb /\ served.r \in HoRan /\ served = Place(served.g, served.r)
    BY <1>1 DEF Places, Place
  <1>3. \A g \in HoGnb, r \in HoRan : Place(g, r) = served => g = served.g BY SMTT(30) DEF Place
  <1>4. Holders = {served.g} BY SMTT(30), <1>2, <1>3 DEF Holders, EntriesAt
  <1>5. served.g # Nobody BY <1>2, HandoverAssumption
  <1>6. PICK e : e = PutIn(entry, served, "none") OBVIOUS
  <1>7. PICK f : f = entry' OBVIOUS
  <1>8. f = PutIn(e, t.to, "ue") BY <1>4, <1>5, <1>6, <1>7 DEF Rebound, PutIn
  <1>9. /\ e \in Entries /\ EntriesAt(e, {served} \ {served})
        /\ \A g \in HoGnb, r \in HoRan : e[g][r] = IF Place(g, r) = served THEN "none" ELSE entry[g][r]
    BY SMTT(30), <1>1, <1>6, Erased
  <1>10. /\ f \in Entries /\ \A S : EntriesAt(e, S) => EntriesAt(f, S \cup {t.to})
         /\ \A g \in HoGnb, r \in HoRan : f[g][r] = IF Place(g, r) = t.to THEN "ue" ELSE e[g][r]
    BY SMTT(30), <1>1, <1>8, <1>9, Entered
  <1>11. EntriesAt(f, ({served} \ {served}) \cup {t.to}) BY <1>9, <1>10
  <1>12. ({served} \ {served}) \cup {t.to} = {t.to} OBVIOUS
  <1> QED BY <1>7, <1>9, <1>10, <1>11, <1>12

\* completePathSwitch: binding and entry move together, and the acknowledgement is on its way.
LEMMA CompletePathSwitchKeeps == HoInv /\ completePathSwitch => HoInv'
  <1> SUFFICES ASSUME HoInv, completePathSwitch PROVE HoInv' OBVIOUS
  <1> USE DEF HoInv
  <1>1. PICK t \in XnTask : /\ Switching(t) /\ t.step = "smf" /\ Head(task) = t
                            /\ Tail(task) = <<>> /\ EntriesAt(entry, {served})
    BY HeadingXn DEF completePathSwitch
  <1>2. PICK src \in IF Holders = {} THEN {Nobody} ELSE Holders : entry' = Rebound(t, src)
    BY <1>1 DEF completePathSwitch
  <1>3. PICK m : m = [type |-> "PathSwitchRequestAcknowledge", switched |-> t.ok] OBVIOUS
  <1>4. m \in SwitchedMsg /\ m.switched = t.ok BY <1>3, Kinds DEF SwitchedMsg
  <1>5. /\ t.to.g \notin down /\ NextNHLocked /\ served' = t.to /\ calls' = calls \cup unlistedCalls(t)
        /\ dl' = Sent(t.to.g, m) /\ task' = <<>>
        /\ UNCHANGED <<idle, pdu, chain, allowed, pendingN2HO, ho, path, tgt, down, inUse, radio,
                       bearers, ran>>
    BY <1>1, <1>3 DEF completePathSwitch, Send, Done, smfHo
  <1>6. t.to \in Places /\ t.to.g \in HoGnb /\ t.to = radio /\ t.to # served
    BY <1>1, Kinds DEF Places, Switching
  <1>7. /\ entry' \in Entries /\ EntriesAt(entry', {t.to})
        /\ \A g \in HoGnb, r \in HoRan : entry'[g][r] \in {"none", "ue"} \/ entry'[g][r] = entry[g][r]
    BY <1>1, <1>2, <1>6, ReboundEntries
  <1>8. /\ dl' \in [HoGnb -> Seq(Msg)] /\ AwaitedIn(dl') = AwaitedIn(dl) /\ OnceIn(dl')
        /\ CarriesIn(dl', t.to.g, m)
    <2>1. CalmIn(dl) /\ OnceIn(dl) /\ m \in Special BY <1>1, <1>4, Types DEF Switching, PlacesInv
    <2> QED BY <1>5, <1>6, <2>1, Writes
  <1>9. \A c \in calls' : c \in calls \/ (c.leg = "deact" /\ c.psi \notin t.ok /\ c \in Call)
    <2>1. \A c \in unlistedCalls(t) : c.leg = "deact" /\ c.psi \notin t.ok /\ c \in Call
      BY SMTT(30), <1>1 DEF unlistedCalls, Switching, Call, TypeInv
    <2> QED BY <1>5, <2>1
  <1>10. Switched(m)'
    <2>1. Slow => \A p \in m.switched \cap pdu' :
                    path'[p] = radio'.g /\ ~Called(calls', "comp", p) /\ ~Called(calls', "deact", p)
      BY <1>1, <1>4, <1>5, <1>9 DEF Switching, OnlyReleases, Leads, Called
    <2>2. NothingAdmitted(pendingN2HO', ho') /\ ran'.at = "xn" BY <1>1, <1>5 DEF Switching
    <2> QED BY <1>5, <1>6, <1>7, <1>8, <2>1, <2>2 DEF Switched
  <1>11. Stages' BY <1>4, <1>10 DEF Stages
  <1>12. TypeInv'
    <2>1. calls' \subseteq Call BY <1>9 DEF TypeInv
    <2> QED BY <1>5, <1>6, <1>7, <1>8, <2>1 DEF TypeInv, Entries
  <1>13. PlacesInv'
    <2>1. \A p \in Places : Reserved(p) => Reserved(p)' BY <1>5, <1>7 DEF Reserved, Places
    <2>2. ran.at = "xn" /\ Own' \subseteq Own BY <1>1, <1>5, <1>6 DEF Own, Switching
    <2>3. Own' \subseteq Places /\ AwaitedIn(dl) \subseteq Places
      BY <1>5, <1>6, <2>2 DEF Own, TypeInv, RanState, AwaitedIn
    <2>4. \A p \in Own' : Reserved(p)' BY <2>1, <2>2, <2>3 DEF PlacesInv
    <2>5. \A p \in AwaitedIn(dl') : Reserved(p)' /\ p \notin Own'
      BY <1>8, <2>1, <2>2, <2>3 DEF PlacesInv
    <2>6. \A g \in HoGnb, r \in HoRan : entry'[g][r] = "other" => r \in inUse'[g]
      BY <1>5, <1>7 DEF PlacesInv
    <2>7. ran'.at = "xn" /\ ran'.from # radio' BY <1>5, <2>2 DEF PlacesInv
    <2> QED BY <1>8, <2>4, <2>5, <2>6, <2>7 DEF PlacesInv
  <1>14. KeyInv' BY <1>1, <1>5, NextKey DEF TypeInv, Switching
  <1>15. CallsInv' BY <1>5, <1>9, CallsKept
  <1> QED BY <1>11, <1>12, <1>13, <1>14, <1>15

\* The three ways in which a path is not switched.
LEMMA Unswitches ==
  ASSUME HoInv, KeyInv', NEW t \in XnTask, Switching(t), EntriesAt(entry, {served}), task' = <<>>,
         (dl' = dl /\ down # {}) \/ dl' = Sent(radio.g, SwitchFailure),
         UNCHANGED <<served, entry, idle, pdu, chain, allowed, pendingN2HO, ho, calls, path, tgt,
                     down, inUse, radio, bearers, ran>>
  PROVE  HoInv'
  <1> USE DEF HoInv
  <1>1. CalmIn(dl) /\ OnceIn(dl) /\ dl \in [HoGnb -> Seq(Msg)] BY DEF Switching, PlacesInv, TypeInv
  <1>2. radio.g \in HoGnb BY DEF TypeInv, Places
  <1>3. SwitchFailure \in Special BY Types
  <1>4. /\ dl' \in [HoGnb -> Seq(Msg)] /\ AwaitedIn(dl') = AwaitedIn(dl) /\ OnceIn(dl')
        /\ CarriesIn(dl', radio.g, SwitchFailure) \/ (CalmIn(dl') /\ down # {})
    <2>1. CASE dl' = dl /\ down # {} BY <1>1, <2>1
    <2>2. CASE dl' = Sent(radio.g, SwitchFailure) BY <1>1, <1>2, <1>3, <2>2, Writes
    <2> QED BY <2>1, <2>2
  <1>5. Rests(task', entry', {}, served')
    <2>1. {} \cup {served} = {served} OBVIOUS
    <2> QED BY <2>1 DEF Rests
  <1>6. Unswitched' BY <1>4, <1>5 DEF Unswitched, Switching
  <1>7. Stages' BY <1>6 DEF Stages
  <1>8. TypeInv' BY <1>4 DEF TypeInv
  <1>9. PlacesInv' BY <1>4, PlacesSame
  <1>10. CallsInv' BY DEF CallsInv
  <1> QED BY <1>7, <1>8, <1>9, <1>10

\* The acknowledgement is lost with the association: a key is used and nothing else moves.
LEMMA PathSwitchAckLostKeeps == HoInv /\ pathSwitchAckLost => HoInv'
  <1> SUFFICES ASSUME HoInv, pathSwitchAckLost PROVE HoInv' OBVIOUS
  <1>1. PICK t \in XnTask : /\ Switching(t) /\ t.step = "smf" /\ Head(task) = t
                            /\ Tail(task) = <<>> /\ EntriesAt(entry, {served})
    BY HeadingXn DEF pathSwitchAckLost, HoInv
  <1>2. /\ NextNHLocked /\ task' = <<>> /\ down # {} /\ dl' = dl
        /\ UNCHANGED <<served, entry, idle, pdu, chain, allowed, pendingN2HO, ho, calls, path, tgt,
                       down, inUse, radio, bearers, ran>>
    BY <1>1 DEF pathSwitchAckLost, Done, smfHo, ranHo
  <1>3. KeyInv' BY <1>1, <1>2, NextKey DEF HoInv, TypeInv, Switching
  <1> QED BY <1>1, <1>2, <1>3, Unswitches

\* The last session went meanwhile: a key is used and the target is refused.
LEMMA PathSwitchTooLateKeeps == HoInv /\ pathSwitchTooLate => HoInv'
  <1> SUFFICES ASSUME HoInv, pathSwitchTooLate PROVE HoInv' OBVIOUS
  <1>1. PICK t \in XnTask : /\ Switching(t) /\ t.step = "smf" /\ Head(task) = t
                            /\ Tail(task) = <<>> /\ EntriesAt(entry, {served})
    BY HeadingXn DEF pathSwitchTooLate, HoInv
  <1>2. /\ NextNHLocked /\ task' = <<>> /\ dl' = Sent(radio.g, SwitchFailure)
        /\ UNCHANGED <<served, entry, idle, pdu, chain, allowed, pendingN2HO, ho, calls, path, tgt,
                       down, inUse, radio, bearers, ran>>
    BY <1>1 DEF pathSwitchTooLate, Done, smfHo, rejectPathSwitch, Send, SwitchFailure, Switching
  <1>3. KeyInv' BY <1>1, <1>2, NextKey DEF HoInv, TypeInv, Switching
  <1> QED BY <1>1, <1>2, <1>3, Unswitches

\* No session was switched: the target is refused and no key is used.
LEMMA PathSwitchFailsKeeps == HoInv /\ pathSwitchFails => HoInv'
  <1> SUFFICES ASSUME HoInv, pathSwitchFails PROVE HoInv' OBVIOUS
  <1>1. PICK t \in XnTask : /\ Switching(t) /\ t.step = "smf" /\ Head(task) = t
                            /\ Tail(task) = <<>> /\ EntriesAt(entry, {served})
    BY HeadingXn DEF pathSwitchFails, HoInv
  <1>2. /\ UNCHANGED <<ncc, keys>> /\ task' = <<>> /\ dl' = Sent(radio.g, SwitchFailure)
        /\ UNCHANGED <<served, entry, idle, pdu, chain, allowed, pendingN2HO, ho, calls, path, tgt,
                       down, inUse, radio, bearers, ran>>
    BY <1>1 DEF pathSwitchFails, Done, smfHo, rejectPathSwitch, Send, SwitchFailure, Switching
  <1>3. KeyInv' BY <1>2 DEF HoInv, KeyInv
  <1> QED BY <1>1, <1>2, <1>3, Unswitches
-----------------------------------------------------------------------------
(* The steps of an N2 handover's tasks *)

\* The source is told that there will be no handover, if it can be told.
LEMMA Fails ==
  ASSUME HoInv, KeyInv', ran.at = "required", served = radio, CalmIn(dl), EntriesAt(entry, {served}),
         KeepsPath, task' = <<>>, dl' = Sent(served.g, PrepFailure),
         ho' \in Seq(HoState), pendingN2HO' \in 0 .. Len(ho'), NothingAdmitted(pendingN2HO', ho'),
         UNCHANGED <<served, entry, idle, pdu, chain, allowed, calls, path, tgt,
                     down, inUse, radio, bearers, ran>>
  PROVE  HoInv'
  <1> USE DEF HoInv
  <1>1. OnceIn(dl) /\ dl \in [HoGnb -> Seq(Msg)] BY DEF PlacesInv, TypeInv
  <1>2. served.g \in HoGnb BY DEF TypeInv, Places
  <1>3. PrepFailure \in Special BY Types
  <1>4. /\ dl' \in [HoGnb -> Seq(Msg)] /\ AwaitedIn(dl') = AwaitedIn(dl) /\ OnceIn(dl')
        /\ CarriesIn(dl', served.g, PrepFailure) \/ (CalmIn(dl') /\ down # {})
    BY <1>1, <1>2, <1>3, Writes
  <1>5. Rests(task', entry', {}, served')
    <2>1. {} \cup {served} = {served} OBVIOUS
    <2> QED BY <2>1 DEF Rests
  <1>6. KeepsPath' BY DEF KeepsPath
  <1>7. Failed' \/ Stuck' BY <1>4, <1>5, <1>6 DEF Failed, Stuck
  <1>8. Stages' BY <1>7 DEF Stages
  <1>9. TypeInv' BY <1>4 DEF TypeInv
  <1>10. PlacesInv' BY <1>4, PlacesSame
  <1>11. CallsInv' BY DEF CallsInv
  <1> QED BY <1>8, <1>9, <1>10, <1>11

\* There is nothing to hand over: the source is told.
LEMMA PreparationAbortedKeeps == HoInv /\ preparationAborted => HoInv'
  <1> SUFFICES ASSUME HoInv, preparationAborted PROVE HoInv' OBVIOUS
  <1>1. PICK t \in RequiredTask : /\ Required(t) /\ t.step = "queued" /\ Head(task) = t
                                  /\ Tail(task) = <<>> /\ EntriesAt(entry, {served})
    BY HeadingRequired DEF preparationAborted, HoInv
  <1>2. /\ UNCHANGED <<ncc, keys, pendingN2HO, ho>> /\ task' = <<>> /\ dl' = Sent(served.g, PrepFailure)
        /\ UNCHANGED <<served, entry, idle, pdu, chain, allowed, calls, path, tgt,
                       down, inUse, radio, bearers, ran>>
    BY <1>1 DEF preparationAborted, Done, smfHo, rejectHandoverPreparation, Send, Required
  <1>3. KeyInv' BY <1>2 DEF HoInv, KeyInv
  <1>4. ho' \in Seq(HoState) /\ pendingN2HO' \in 0 .. Len(ho') /\ NothingAdmitted(pendingN2HO', ho')
    BY <1>1, <1>2 DEF HoInv, TypeInv, Required
  <1>5. ran.at = "required" /\ served = radio /\ CalmIn(dl) /\ KeepsPath BY <1>1 DEF Required
  <1> QED BY <1>1, <1>2, <1>3, <1>4, <1>5, Fails

\* The SMF prepared no session: the source is told.
LEMMA PreparationRejectedKeeps == HoInv /\ preparationRejected => HoInv'
  <1> SUFFICES ASSUME HoInv, preparationRejected PROVE HoInv' OBVIOUS
  <1>1. PICK t \in RequiredTask : /\ Required(t) /\ t.step = "smf" /\ Head(task) = t
                                  /\ Tail(task) = <<>> /\ EntriesAt(entry, {served})
    BY HeadingRequired DEF preparationRejected, HoInv
  <1>2. /\ UNCHANGED <<ncc, keys, pendingN2HO, ho>> /\ task' = <<>> /\ dl' = Sent(served.g, PrepFailure)
        /\ UNCHANGED <<served, entry, idle, pdu, chain, allowed, calls, path, tgt,
                       down, inUse, radio, bearers, ran>>
    BY <1>1 DEF preparationRejected, Done, smfHo, rejectHandoverPreparation, Send, Required
  <1>3. KeyInv' BY <1>2 DEF HoInv, KeyInv
  <1>4. ho' \in Seq(HoState) /\ pendingN2HO' \in 0 .. Len(ho') /\ NothingAdmitted(pendingN2HO', ho')
    BY <1>1, <1>2 DEF HoInv, TypeInv, Required
  <1>5. ran.at = "required" /\ served = radio /\ CalmIn(dl) /\ KeepsPath BY <1>1 DEF Required
  <1> QED BY <1>1, <1>2, <1>3, <1>4, <1>5, Fails

\* The SMF is asked to prepare: the task goes on.
LEMMA N2PreparingSMFKeeps == HoInv /\ n2PreparingSMF => HoInv'
  <1> SUFFICES ASSUME HoInv, n2PreparingSMF PROVE HoInv' OBVIOUS
  <1> USE DEF HoInv
  <1>1. PICK t \in RequiredTask : /\ Required(t) /\ t.step = "queued" /\ Head(task) = t
                                  /\ Tail(task) = <<>> /\ EntriesAt(entry, {served})
    BY HeadingRequired DEF n2PreparingSMF
  <1>2. PICK c : c = Candidates(t.list) OBVIOUS
  <1>3. c \subseteq Psi BY <1>2 DEF Candidates, TypeInv
  <1>4. PICK ok \in SUBSET c :
          task' = <<[t EXCEPT !.step = "smf", !.cands = c, !.ok = ok]>> \o Tail(task)
    BY <1>1, <1>2 DEF n2PreparingSMF, Continue
  <1>5. UNCHANGED <<served, entry, idle, pdu, chain, allowed, ncc, keys, pendingN2HO, ho, calls,
                    path, tgt, dl, down, inUse, radio, bearers, ran>>
    BY DEF n2PreparingSMF, smfHo, ranHo
  <1>6. PICK n : n = [t EXCEPT !.step = "smf", !.cands = c, !.ok = ok] OBVIOUS
  <1>7. n \in RequiredTask /\ n.step = "smf" /\ n.ok = ok /\ n.cands = c /\ n.src = t.src /\ n.list = t.list
    BY <1>3, <1>6, Kinds DEF RequiredTask
  <1>8. task' = <<n>> BY <1>1, <1>4, <1>6, Tuples
  <1>9. Required(n)'
    <2>1. Waits(task', entry', served', n) BY <1>1, <1>5, <1>8 DEF Waits
    <2>2. KeepsPath' BY <1>1, <1>5 DEF KeepsPath, Required
    <2> QED BY <1>1, <1>5, <1>7, <2>1, <2>2 DEF Required
  <1>10. Stages' BY <1>7, <1>9 DEF Stages
  <1>11. TypeInv' BY <1>5 DEF TypeInv
  <1>12. PlacesInv' BY <1>5, PlacesStay
  <1>13. KeyInv' BY <1>5 DEF KeyInv
  <1>14. CallsInv' BY <1>5 DEF CallsInv
  <1> QED BY <1>10, <1>11, <1>12, <1>13, <1>14

\* continueHandoverPreparation: the request is on its way with the state stored, or the source is told.
LEMMA ContinueHandoverPreparationKeeps == HoInv /\ continueHandoverPreparation => HoInv'
  <1> SUFFICES ASSUME HoInv, continueHandoverPreparation PROVE HoInv' OBVIOUS
  <1> USE DEF HoInv
  <1>1. PICK t \in RequiredTask : /\ Required(t) /\ t.step = "smf" /\ Head(task) = t
                                  /\ Tail(task) = <<>> /\ EntriesAt(entry, {served})
    BY HeadingRequired DEF continueHandoverPreparation
  <1>2. PICK state : state = [src |-> t.src, prepReleased |-> prepReleased(t), admitted |-> {},
                              targetFailed |-> {}]
    OBVIOUS
  <1>3. state \in HoState /\ state.src = served /\ state.prepReleased = prepReleased(t)
        /\ state.admitted = {}
    BY <1>1, <1>2, Kinds DEF HoState, prepReleased, Required
  <1>4. PICK m : m = [type |-> "HandoverRequest", list |-> t.ok] OBVIOUS
  <1>5. m \in RequestMsg /\ m.list = t.ok BY <1>4, Kinds DEF RequestMsg
  <1>6. /\ NextNHLocked /\ ho' = Append(ho, state) /\ task' = <<>>
        /\ IF t.target \in down THEN pendingN2HO' = 0 /\ dl' = Sent(served.g, PrepFailure)
                                ELSE pendingN2HO' = Len(ho') /\ dl' = Sent(t.target, m)
        /\ UNCHANGED <<served, entry, idle, pdu, chain, allowed, calls, path, tgt, down, inUse, radio,
                       bearers, ran>>
    BY <1>1, <1>2, <1>4
    DEF continueHandoverPreparation, Done, Send, smfHo, rejectHandoverPreparation, Required
  <1>7. /\ ho' \in Seq(HoState) /\ Len(ho') \in Nat \ {0} /\ ho'[Len(ho')] = state
        /\ pendingN2HO' \in 0 .. Len(ho') /\ NothingAdmitted(pendingN2HO', ho')
    <2>1. ho \in Seq(HoState) BY DEF TypeInv
    <2>2. PICK h : h = ho' OBVIOUS
    <2>3. h \in Seq(HoState) /\ Len(h) \in Nat \ {0} /\ h[Len(h)] = state BY SMTT(30), <1>3, <1>6, <2>1, <2>2
    <2>4. pendingN2HO' = 0 \/ pendingN2HO' = Len(h) BY <1>6, <2>2
    <2> QED BY SMTT(30), <2>2, <2>3, <2>4, <1>3 DEF NothingAdmitted
  <1>8. KeyInv' BY <1>1, <1>6, NextKey DEF TypeInv, Required
  <1>9. ran.at = "required" /\ served = radio /\ CalmIn(dl) /\ KeepsPath /\ ran.kept = {} /\ ran.list = t.list
    BY <1>1 DEF Required
  <1>10. CASE t.target \in down
    BY <1>1, <1>6, <1>7, <1>8, <1>9, <1>10, Fails
  <1>11. CASE t.target \notin down
    <2>1. pendingN2HO' = Len(ho') /\ dl' = Sent(t.target, m) BY <1>6, <1>11
    <2>2. t.target \in HoGnb /\ m \in Special BY <1>5, Kinds, Types
    <2>3. /\ dl' \in [HoGnb -> Seq(Msg)] /\ AwaitedIn(dl') = AwaitedIn(dl) /\ OnceIn(dl')
          /\ CarriesIn(dl', t.target, m)
      BY <1>9, <1>11, <2>1, <2>2, Writes DEF PlacesInv
    <2>4. Requested(t.target, m)'
      <3>1. Pending' BY <1>3, <1>6, <1>7, <2>1 DEF Pending
      <3>2. KeepsPath' BY <1>6, <1>9 DEF KeepsPath
      <3>3. ran'.list \subseteq m.list \cup ho'[pendingN2HO'].prepReleased
        BY <1>3, <1>5, <1>6, <1>7, <1>9, <2>1 DEF prepReleased
      <3> QED BY <1>1, <1>6, <1>7, <1>9, <2>3, <3>1, <3>2, <3>3 DEF Requested
    <2>5. Stages' BY <1>5, <2>2, <2>4 DEF Stages
    <2>6. TypeInv' BY <1>6, <1>7, <2>3 DEF TypeInv
    <2>7. PlacesInv' BY <1>6, <2>3, PlacesSame
    <2>8. CallsInv' BY <1>6 DEF CallsInv
    <2> QED BY <1>8, <2>5, <2>6, <2>7, <2>8
  <1> QED BY <1>10, <1>11

\* The SMF stores the tunnels of the target for the sessions it accepted.
LEMMA N2PrepareSMFKeeps == HoInv /\ n2PrepareSMF => HoInv'
  <1> SUFFICES ASSUME HoInv, n2PrepareSMF PROVE HoInv' OBVIOUS
  <1> USE DEF HoInv
  <1>1. PICK t \in AckTask : /\ Answered(t) /\ t.step = "queued" /\ Head(task) = t
                             /\ Tail(task) = <<>> /\ EntriesAt(entry, {served})
    BY HeadingAck DEF n2PrepareSMF
  <1>2. PICK ok \in SUBSET (t.admitted \cap pdu) :
        \E stored \in Applied(ok, t.admitted \cap pdu), cleared \in SUBSET (t.failed \cap pdu) :
          /\ task' = <<[t EXCEPT !.step = "smf", !.known = pdu, !.ok = ok]>> \o Tail(task)
          /\ tgt' = With(With(tgt, stored, t.to.g), cleared, Nobody)
    BY <1>1 DEF n2PrepareSMF, Continue
  <1>3. PICK stored \in Applied(ok, t.admitted \cap pdu), cleared \in SUBSET (t.failed \cap pdu) :
          /\ task' = <<[t EXCEPT !.step = "smf", !.known = pdu, !.ok = ok]>> \o Tail(task)
          /\ tgt' = With(With(tgt, stored, t.to.g), cleared, Nobody)
    BY <1>2
  <1>4. UNCHANGED <<served, entry, idle, pdu, chain, allowed, ncc, keys, pendingN2HO, ho, calls,
                    path, dl, down, inUse, radio, bearers, ran>>
    BY DEF n2PrepareSMF, ranHo
  <1>5. PICK n : n = [t EXCEPT !.step = "smf", !.known = pdu, !.ok = ok] OBVIOUS
  <1>6. pdu \subseteq Psi BY DEF TypeInv
  <1>7. n \in AckTask /\ n.step = "smf" /\ n.ok = ok /\ n.to = t.to /\ n.admitted = t.admitted
        /\ n.failed = t.failed /\ n.state = t.state
    BY <1>5, <1>6, Kinds DEF AckTask
  <1>8. task' = <<n>> BY <1>1, <1>3, <1>5, Tuples
  <1>9. t.to \in Places /\ t.to.g \in HoGnb BY Kinds DEF Places
  <1>10. ok \subseteq stored BY DEF Applied
  <1>11. tgt' \in [Psi -> HoGnb \cup {Nobody}] /\ \A p \in ok \cap pdu : tgt'[p] = t.to.g
    <2>1. tgt \in [Psi -> HoGnb \cup {Nobody}] BY DEF TypeInv
    <2>2. PICK f : f = With(tgt, stored, t.to.g) OBVIOUS
    <2>3. f \in [Psi -> HoGnb \cup {Nobody}] /\ \A p \in stored \cap Psi : f[p] = t.to.g
      BY SMTT(30), <2>1, <2>2, <1>9, Stored
    <2>4. tgt' \in [Psi -> HoGnb \cup {Nobody}] /\ \A p \in Psi : p \notin cleared => tgt'[p] = f[p]
      BY SMTT(30), <2>2, <2>3, <1>3, Stored
    <2>5. ok \cap cleared = {} BY <1>1 DEF Answered
    <2> QED BY <2>3, <2>4, <2>5, <1>6, <1>10
  <1>12. Answered(n)'
    <2>1. Leads(tgt', n.ok \cap pdu', n.to.g) BY <1>4, <1>7, <1>11 DEF Leads
    <2>2. KeepsPath' /\ Pending' BY <1>1, <1>4 DEF KeepsPath, Pending, Answered
    <2> QED BY <1>1, <1>4, <1>7, <1>8, <2>1, <2>2 DEF Answered
  <1>13. Stages' BY <1>7, <1>12 DEF Stages
  <1>14. TypeInv' BY <1>4, <1>11 DEF TypeInv
  <1>15. PlacesInv' BY <1>4, PlacesStay
  <1>16. KeyInv' BY <1>4 DEF KeyInv
  <1>17. CallsInv' BY <1>4 DEF CallsInv
  <1> QED BY <1>13, <1>14, <1>15, <1>16, <1>17

\* No session is left: the state is dropped and the source is told.
LEMMA PreparationDroppedKeeps == HoInv /\ preparationDropped => HoInv'
  <1> SUFFICES ASSUME HoInv, preparationDropped PROVE HoInv' OBVIOUS
  <1>1. PICK t \in AckTask : /\ Answered(t) /\ t.step = "smf" /\ Head(task) = t
                             /\ Tail(task) = <<>> /\ EntriesAt(entry, {served})
    BY HeadingAck DEF preparationDropped, HoInv
  <1>2. t.state = pendingN2HO /\ ho[t.state].src = served BY <1>1 DEF Answered, Pending
  <1>3. /\ UNCHANGED <<ncc, keys, ho>> /\ pendingN2HO' = 0 /\ task' = <<>>
        /\ dl' = Sent(served.g, PrepFailure)
        /\ UNCHANGED <<served, entry, idle, pdu, chain, allowed, calls, path, tgt,
                       down, inUse, radio, bearers, ran>>
    BY <1>1, <1>2 DEF preparationDropped, Done, smfHo, rejectHandoverPreparation, Send
  <1>4. KeyInv' BY <1>3 DEF HoInv, KeyInv
  <1>5. ho' \in Seq(HoState) /\ pendingN2HO' \in 0 .. Len(ho') /\ NothingAdmitted(pendingN2HO', ho')
    BY SMTT(30), <1>3 DEF HoInv, TypeInv, NothingAdmitted
  <1>6. ran.at = "required" /\ served = radio /\ CalmIn(dl) /\ KeepsPath BY <1>1 DEF Answered
  <1> QED BY <1>1, <1>3, <1>4, <1>5, <1>6, Fails

\* What the source is commanded.
LEMMA CompleteHandoverPreparationKeeps == HoInv /\ completeHandoverPreparation => HoInv'
  <1> SUFFICES ASSUME HoInv, completeHandoverPreparation PROVE HoInv' OBVIOUS
  <1> USE DEF HoInv
  <1>1. PICK t \in AckTask : /\ Answered(t) /\ t.step = "smf" /\ Head(task) = t
                             /\ Tail(task) = <<>> /\ EntriesAt(entry, {served})
    BY HeadingAck DEF completeHandoverPreparation
  <1>2. /\ t.state = pendingN2HO /\ pendingN2HO # 0 /\ ho[t.state].src = served
        /\ ho \in Seq(HoState) /\ pendingN2HO \in DOMAIN ho
    BY SMTT(30), <1>1 DEF Answered, Pending, TypeInv
  <1>3. PICK old : old = ho[pendingN2HO] OBVIOUS
  <1>4. old \in HoState /\ old.src = served /\ old.prepReleased \subseteq Psi
    <2>1. old \in HoState BY SMTT(30), <1>2, <1>3
    <2> QED BY <2>1, <1>2, <1>3 DEF HoState
  <1>5. PICK release : release = ((t.admitted \ t.ok) \cup t.failed \cup old.prepReleased) \ t.ok OBVIOUS
  <1>6. PICK m : m = [type |-> "HandoverCommand", to |-> t.to, cmd |-> t.ok, release |-> release] OBVIOUS
  <1>7. m \in CommandMsg /\ m.to = t.to /\ m.cmd = t.ok /\ m.release = release
    BY <1>4, <1>5, <1>6, Kinds DEF CommandMsg
  <1>8. PICK state : state = [old EXCEPT !.admitted = t.ok, !.targetFailed = t.failed \cap t.known] OBVIOUS
  <1>9. state \in HoState /\ state.src = served /\ state.admitted = t.ok
        /\ state.targetFailed = t.failed \cap t.known
    BY <1>4, <1>8, Kinds DEF HoState
  <1>10. PICK n : n = [t EXCEPT !.step = "register"] OBVIOUS
  <1>11. n \in RegisterTask /\ n.to = t.to BY <1>10, Kinds DEF AckTask, RegisterTask
  <1>12. UNCHANGED <<served, entry, idle, pdu, chain, allowed, ncc, keys, pendingN2HO, calls,
                     path, tgt, down, inUse, radio, bearers, ran>>
    BY DEF completeHandoverPreparation, smfHo
  <1>23. task' = IF served.g \in down THEN <<>> ELSE <<n>> \o Tail(task)
    <2>1. IF ho[t.state].src.g \in down THEN task' = Tail(task)
          ELSE task' = <<[t EXCEPT !.step = "register"]>> \o Tail(task)
      BY <1>1 DEF completeHandoverPreparation, Done, Continue
    <2> QED BY <2>1, <1>1, <1>2, <1>10
  <1>22. dl' = Sent(served.g, m)
    <2>1. dl' = Sent(ho[t.state].src.g,
                     [type |-> "HandoverCommand", to |-> t.to, cmd |-> t.ok,
                      release |-> ((t.admitted \ t.ok) \cup t.failed \cup ho[t.state].prepReleased) \ t.ok])
      BY <1>1 DEF completeHandoverPreparation, Send
    <2> QED BY <2>1, <1>2, <1>3, <1>5, <1>6
  <1>13. ho' \in Seq(HoState) /\ Len(ho') = Len(ho) /\ ho'[pendingN2HO] = state
    <2>2. ho' = [ho EXCEPT ![pendingN2HO].admitted = t.ok,
                           ![pendingN2HO].targetFailed = t.failed \cap t.known]
      BY <1>1, <1>2 DEF completeHandoverPreparation
    <2>1. ho' = [ho EXCEPT ![pendingN2HO] = state] BY <1>2, <1>3, <1>8, <2>2
    <2> QED BY SMTT(30), <2>1, <1>2, <1>9
  <1>14. /\ dl' \in [HoGnb -> Seq(Msg)] /\ AwaitedIn(dl') = AwaitedIn(dl) /\ OnceIn(dl')
         /\ served.g \notin down => CarriesIn(dl', served.g, m)
         /\ served.g \in down => CalmIn(dl') /\ down # {}
    <2>1. CalmIn(dl) /\ OnceIn(dl) /\ m \in Special /\ served.g \in HoGnb
      BY <1>1, <1>7, Types DEF Answered, PlacesInv, TypeInv, Places
    <2> QED BY <2>1, <1>22, Writes
  <1>15. ASSUME served.g \in down PROVE Stages'
    <2>1. Rests(task', entry', {}, served')
      <3>1. {} \cup {served} = {served} OBVIOUS
      <3> QED BY <3>1, <1>1, <1>12, <1>15, <1>23 DEF Rests
    <2>2. ran.at = "required" /\ served = radio BY <1>1 DEF Answered
    <2>3. Stuck' BY <2>1, <2>2, <1>12, <1>14, <1>15 DEF Stuck
    <2> QED BY <2>3 DEF Stages
  <1>16. ASSUME served.g \notin down PROVE Stages'
    <2>1. task' = <<n>> BY <1>1, <1>16, <1>23, Tuples
    <2>2. Rests(task', entry', {served}, m.to) BY <2>1, <1>1, <1>7, <1>11, <1>12 DEF Rests
    <2>3. Pending' BY <1>2, <1>9, <1>12, <1>13 DEF Pending
    <2>4. KeepsPath' BY <1>1, <1>12 DEF KeepsPath, Answered
    <2>5. m.cmd = ho'[pendingN2HO'].admitted /\ m.cmd \cap ho'[pendingN2HO'].targetFailed = {}
      BY <1>1, <1>7, <1>9, <1>12, <1>13 DEF Answered
    <2>6. m.cmd \cap m.release = {} /\ ran.list \subseteq m.cmd \cup m.release
      BY <1>1, <1>2, <1>3, <1>5, <1>7 DEF Answered
    <2>7. ran.at = "required" /\ served = radio /\ ran.kept = {m.to} BY <1>1, <1>7 DEF Answered
    <2>8. Slow => Leads(tgt', m.cmd \cap pdu', m.to.g) BY <1>1, <1>7, <1>12 DEF Answered
    <2>9. Commanded(m)'
      BY <2>2, <2>3, <2>4, <2>5, <2>6, <2>7, <2>8, <1>12, <1>14, <1>16 DEF Commanded
    <2> QED BY <2>9, <1>7 DEF Stages
  <1>17. Stages' BY <1>15, <1>16
  <1>18. TypeInv' BY <1>12, <1>13, <1>14 DEF TypeInv
  <1>19. PlacesInv' BY <1>12, <1>14, PlacesSame
  <1>20. KeyInv' BY <1>12 DEF KeyInv
  <1>21. CallsInv' BY <1>12 DEF CallsInv
  <1> QED BY <1>17, <1>18, <1>19, <1>20, <1>21

\* The entry at the target is written: what rested on the task rests on the entry.
LEMMA RestRegisters ==
  ASSUME entry \in Entries, NEW S, NEW p \in Places, Rests(task, entry, S, p), registerAtTarget
  PROVE  Head(task).to = p /\ Rests(task', entry', S, p)
  <1>1. task # <<>> BY DEF registerAtTarget, Heading
  <1>2. PICK u \in RegisterTask : u.to = p /\ task = <<u>> /\ EntriesAt(entry, S) BY <1>1 DEF Rests
  <1>3. Head(task) = u /\ Tail(task) = <<>> BY <1>2, Tuples
  <1>4. PICK f : f = entry' OBVIOUS
  <1>5. task' = <<>> /\ f = PutIn(entry, p, "ue") BY <1>2, <1>3, <1>4 DEF registerAtTarget, Done, PutIn
  <1>6. EntriesAt(f, S \cup {p}) BY <1>2, <1>5, Entered
  <1> QED BY <1>2, <1>3, <1>4, <1>5, <1>6 DEF Rests

\* The former handover's entry is written while a task waits behind it.
LEMMA WaitRegisters ==
  ASSUME entry \in Entries, NEW s \in Places, NEW t \in XnTask \cup RequiredTask,
         Waits(task, entry, s, t), registerAtTarget
  PROVE  Head(task).to = s /\ Waits(task', entry', s, t)
  <1>1. Head(task).step = "register" BY DEF registerAtTarget, Heading
  <1>2. task # <<t>> BY <1>1, Tuples, Kinds
  <1>3. PICK u \in RegisterTask : u.to = s /\ task = <<u, t>> /\ EntriesAt(entry, {}) BY <1>2 DEF Waits
  <1>4. Head(task) = u /\ Tail(task) = <<t>> BY <1>3, Tuples
  <1>5. PICK f : f = entry' OBVIOUS
  <1>6. task' = <<t>> /\ f = PutIn(entry, s, "ue") BY <1>3, <1>4, <1>5 DEF registerAtTarget, Done, PutIn
  <1>7. EntriesAt(f, {} \cup {s}) BY <1>3, <1>6, Entered
  <1>8. {} \cup {s} = {s} OBVIOUS
  <1> QED BY <1>3, <1>4, <1>5, <1>6, <1>7, <1>8 DEF Waits

\* The entry is that of a place of the handover, and the stage goes on.
LEMMA StageRegisters ==
  ASSUME HoInv, registerAtTarget
  PROVE  Head(task).to \in Own \cap Places /\ Stages'
  <1> USE DEF HoInv
  <1>1. UNCHANGED <<served, idle, pdu, chain, allowed, ncc, keys, pendingN2HO, ho, calls, path, tgt,
                    dl, down, inUse, radio, bearers, ran>>
    BY DEF registerAtTarget, smfHo, ranHo
  <1>2. task # <<>> /\ Head(task).step = "register" BY DEF registerAtTarget, Heading
  <1>3. /\ entry \in Entries /\ served \in Places /\ radio \in Places
        /\ ran.at = "required" => ran.kept \subseteq Places
    BY DEF TypeInv, Entries, RanState
  <1>4. served \in Own /\ radio \in Own /\ (ran.at = "required" => ran.kept \subseteq Own) BY DEF Own
  <1>5. KeepsPath' <=> KeepsPath BY <1>1 DEF KeepsPath
  <1>6. Pending' <=> Pending BY <1>1 DEF Pending
  <1>7. CASE Settled
    <2>1. Head(task).to = served /\ Rests(task', entry', {}, served) BY <1>3, <1>7, RestRegisters DEF Settled
    <2>2. Settled' BY <1>1, <1>7, <2>1 DEF Settled, Carried
    <2> QED BY <2>1, <2>2, <1>3, <1>4 DEF Stages
  <1>8. ASSUME NEW t \in XnTask, Switching(t) PROVE Head(task).to \in Own \cap Places /\ Stages'
    <2>1. Head(task).to = served /\ Waits(task', entry', served, t) BY <1>3, <1>8, WaitRegisters DEF Switching
    <2>2. Switching(t)' BY <1>1, <1>8, <2>1 DEF Switching
    <2> QED BY <2>1, <2>2, <1>3, <1>4 DEF Stages
  <1>9. ASSUME NEW m \in SwitchedMsg, Switched(m) PROVE FALSE BY <1>2, <1>9 DEF Switched
  <1>10. CASE Unswitched
    <2>1. Head(task).to = served /\ Rests(task', entry', {}, served) BY <1>3, <1>10, RestRegisters DEF Unswitched
    <2>2. Unswitched' BY <1>1, <1>10, <2>1 DEF Unswitched
    <2> QED BY <2>1, <2>2, <1>3, <1>4 DEF Stages
  <1>11. CASE Lost
    <2>1. Head(task).to = served /\ Rests(task', entry', {}, served) BY <1>3, <1>11, RestRegisters DEF Lost
    <2>2. Lost' BY <1>1, <1>11, <2>1 DEF Lost
    <2> QED BY <2>1, <2>2, <1>3, <1>4 DEF Stages
  <1>12. ASSUME NEW t \in RequiredTask, Required(t) PROVE Head(task).to \in Own \cap Places /\ Stages'
    <2>1. Head(task).to = served /\ Waits(task', entry', served, t) BY <1>3, <1>12, WaitRegisters DEF Required
    <2>2. Required(t)' BY <1>1, <1>5, <1>12, <2>1 DEF Required
    <2> QED BY <2>1, <2>2, <1>3, <1>4 DEF Stages
  <1>13. ASSUME NEW g \in HoGnb, NEW m \in RequestMsg, Requested(g, m) PROVE FALSE
    BY <1>2, <1>13 DEF Requested
  <1>14. ASSUME NEW t \in AckTask, Answered(t) PROVE FALSE BY <1>2, <1>14, Tuples, Kinds DEF Answered
  <1>15. ASSUME NEW m \in CommandMsg, Commanded(m) PROVE Head(task).to \in Own \cap Places /\ Stages'
    <2>1. m.to \in Places /\ m.to \in Own BY <1>4, <1>15, Types DEF Commanded
    <2>2. Head(task).to = m.to /\ Rests(task', entry', {served}, m.to)
      BY <1>3, <1>15, <2>1, RestRegisters DEF Commanded
    <2>3. Commanded(m)' BY <1>1, <1>5, <1>6, <1>15, <2>2 DEF Commanded
    <2> QED BY <2>1, <2>2, <2>3 DEF Stages
  <1>16. CASE Failed
    <2>1. Head(task).to = served /\ Rests(task', entry', {}, served) BY <1>3, <1>16, RestRegisters DEF Failed
    <2>2. Failed' BY <1>1, <1>5, <1>16, <2>1 DEF Failed
    <2> QED BY <2>1, <2>2, <1>3, <1>4 DEF Stages
  <1>17. CASE Stuck
    <2>1. CASE Rests(task, entry, {}, served)
      <3>1. Head(task).to = served /\ Rests(task', entry', {}, served) BY <1>3, <2>1, RestRegisters
      <3>2. Stuck' BY <1>1, <1>17, <3>1 DEF Stuck
      <3> QED BY <3>1, <3>2, <1>3, <1>4 DEF Stages
    <2>2. ASSUME NEW p \in ran.kept, Rests(task, entry, {served}, p)
          PROVE  Head(task).to \in Own \cap Places /\ Stages'
      <3>1. p \in Places /\ p \in Own BY <1>3, <1>4, <1>17 DEF Stuck
      <3>2. Head(task).to = p /\ Rests(task', entry', {served}, p) BY <1>3, <2>2, <3>1, RestRegisters
      <3>3. Stuck' BY <1>1, <1>17, <3>2 DEF Stuck
      <3> QED BY <3>1, <3>2, <3>3 DEF Stages
    <2> QED BY <1>17, <2>1, <2>2 DEF Stuck
  <1>18. CASE Refused BY <1>2, <1>18 DEF Refused
  <1>19. CASE Moved
    <2>1. Head(task).to = radio /\ Rests(task', entry', {served}, radio) BY <1>3, <1>19, RestRegisters DEF Moved
    <2>2. Moved' BY <1>1, <1>6, <1>19, <2>1 DEF Moved
    <2> QED BY <2>1, <2>2, <1>3, <1>4 DEF Stages
  <1> QED BY <1>7, <1>8, <1>9, <1>10, <1>11, <1>12, <1>13, <1>14, <1>15, <1>16, <1>17, <1>18, <1>19
          DEF Stages

\* The entry at the target is written.
LEMMA RegisterAtTargetKeeps == HoInv /\ registerAtTarget => HoInv'
  <1> SUFFICES ASSUME HoInv, registerAtTarget PROVE HoInv' OBVIOUS
  <1>1. Head(task).to \in Own \cap Places /\ Stages' BY StageRegisters
  <1> USE DEF HoInv
  <1>2. UNCHANGED <<served, idle, pdu, chain, allowed, ncc, keys, pendingN2HO, ho, calls, path, tgt,
                    dl, down, inUse, radio, bearers, ran>>
    BY DEF registerAtTarget, smfHo, ranHo
  <1>3. PICK p \in Places : p = Head(task).to BY <1>1
  <1>4. entry \in Entries BY DEF TypeInv, Entries
  <1>5. PICK f : f = entry' OBVIOUS
  <1>6. f = PutIn(entry, p, "ue") BY <1>3, <1>5 DEF registerAtTarget, PutIn
  <1>7. /\ f \in Entries
        /\ \A g \in HoGnb, r \in HoRan : f[g][r] = IF Place(g, r) = p THEN "ue" ELSE entry[g][r]
    BY SMTT(30), <1>4, <1>6, Entered
  <1>8. TypeInv' BY <1>2, <1>5, <1>7 DEF TypeInv, Entries
  <1>9. PlacesInv'
    <2>1. \A q \in Places : Reserved(q) => Reserved(q)' BY <1>2, <1>5, <1>7 DEF Reserved, Places
    <2>2. Own' = Own BY <1>2 DEF Own
    <2>3. Own \subseteq Places /\ AwaitedIn(dl) \subseteq Places BY DEF Own, TypeInv, RanState, AwaitedIn
    <2>4. \A q \in Own' : Reserved(q)' BY <2>1, <2>2, <2>3 DEF PlacesInv
    <2>5. \A q \in AwaitedIn(dl') : Reserved(q)' /\ q \notin Own' BY <1>2, <2>1, <2>2, <2>3 DEF PlacesInv
    <2>6. \A g \in HoGnb, r \in HoRan : entry'[g][r] = "other" => r \in inUse'[g]
      BY <1>2, <1>5, <1>7 DEF PlacesInv
    <2> QED BY <1>2, <2>4, <2>5, <2>6 DEF PlacesInv
  <1>10. KeyInv' BY <1>2 DEF KeyInv
  <1>11. CallsInv' BY <1>2 DEF CallsInv
  <1> QED BY <1>1, <1>8, <1>9, <1>10, <1>11

-----------------------------------------------------------------------------
(* The SMF's side, and a session that could not be set up *)

\* A step of the user plane that disturbs no session the stage speaks of.
LEMMA UserPlaneStep ==
  ASSUME Stages,
         UNCHANGED <<served, entry, keys, task, pendingN2HO, ho, dl, down, inUse, radio, bearers, ran>>,
         OnlyReleases(calls) => OnlyReleases(calls'),
         OnlyReleases(calls) => \A S, g : /\ Leads(path, S \cap pdu, g) => Leads(path', S \cap pdu', g)
                                          /\ Leads(tgt, S \cap pdu, g) => Leads(tgt', S \cap pdu', g),
         pdu' \subseteq pdu,
         \A p \in pdu' : Carried(calls, p) => Carried(calls, p)',
         \A p \in pdu' :
            path[p] = radio.g /\ ~Called(calls, "comp", p) /\ ~Called(calls, "deact", p)
            => path'[p] = radio.g /\ ~Called(calls', "comp", p) /\ ~Called(calls', "deact", p)
  PROVE  Stages'
  <1>1. KeepsPath => KeepsPath' BY DEF KeepsPath
  <1>2. Pending => Pending' BY DEF Pending
  <1>3. CASE Settled BY <1>3 DEF Stages, Settled
  <1>4. ASSUME NEW t \in XnTask, Switching(t) PROVE Switching(t)' BY <1>4 DEF Switching
  <1>5. ASSUME NEW m \in SwitchedMsg, Switched(m) PROVE Switched(m)' BY <1>5 DEF Switched
  <1>6. CASE Unswitched BY <1>6 DEF Stages, Unswitched
  <1>7. CASE Lost BY <1>7 DEF Stages, Lost
  <1>8. ASSUME NEW t \in RequiredTask, Required(t) PROVE Required(t)' BY <1>1, <1>8 DEF Required
  <1>9. ASSUME NEW g \in HoGnb, NEW m \in RequestMsg, Requested(g, m) PROVE Requested(g, m)'
    BY <1>1, <1>2, <1>9 DEF Requested
  <1>10. ASSUME NEW t \in AckTask, Answered(t) PROVE Answered(t)'
    <2>1. KeepsPath /\ (Slow /\ t.step = "smf" => Leads(tgt, t.ok \cap pdu, t.to.g)) BY <1>10 DEF Answered
    <2>2. Slow /\ t.step = "smf" => Leads(tgt', t.ok \cap pdu', t.to.g) BY <2>1 DEF KeepsPath
    <2> QED BY <1>1, <1>2, <1>10, <2>1, <2>2 DEF Answered
  <1>11. ASSUME NEW m \in CommandMsg, Commanded(m) PROVE Commanded(m)'
    <2>1. KeepsPath /\ (Slow => Leads(tgt, m.cmd \cap pdu, m.to.g)) BY <1>11 DEF Commanded
    <2>2. Slow => Leads(tgt', m.cmd \cap pdu', m.to.g) BY <2>1 DEF KeepsPath
    <2> QED BY <1>1, <1>2, <1>11, <2>1, <2>2 DEF Commanded
  <1>12. CASE Failed BY <1>1, <1>12 DEF Stages, Failed
  <1>13. CASE Stuck BY <1>13 DEF Stages, Stuck
  <1>14. CASE Refused BY <1>1, <1>14 DEF Stages, Refused
  <1>15. CASE Moved
    <2>1. Moved' BY <1>2, <1>15 DEF Moved
    <2> QED BY <2>1 DEF Stages
  <1>16. CASE \E t \in XnTask : Switching(t) BY <1>4, <1>16 DEF Stages
  <1>17. CASE \E m \in SwitchedMsg : Switched(m) BY <1>5, <1>17 DEF Stages
  <1>18. CASE \E t \in RequiredTask : Required(t) BY <1>8, <1>18 DEF Stages
  <1>19. CASE \E g \in HoGnb, m \in RequestMsg : Requested(g, m) BY <1>9, <1>19 DEF Stages
  <1>20. CASE \E t \in AckTask : Answered(t) BY <1>10, <1>20 DEF Stages
  <1>21. CASE \E m \in CommandMsg : Commanded(m) BY <1>11, <1>21 DEF Stages
  <1> QED BY <1>3, <1>6, <1>7, <1>12, <1>13, <1>14, <1>15, <1>16, <1>17, <1>18, <1>19, <1>20, <1>21
          DEF Stages

\* The SMF executes a detached call, however late.
LEMMA SmfExecutesKeeps == ASSUME NEW c \in calls, HoInv, smfExecutes(c) PROVE HoInv'
  <1> USE DEF HoInv
  <1>1. /\ calls' = calls \ {c}
        /\ UNCHANGED <<served, entry, idle, pdu, chain, allowed, ncc, keys, task, pendingN2HO, ho, dl, down,
                       inUse, radio, bearers, ran>>
    BY DEF smfExecutes, ranHo
  <1>2. /\ c \in Call /\ c.psi \in Psi /\ c.leg \in {"comp", "deact", "release"}
        /\ c = [leg |-> c.leg, psi |-> c.psi]
    BY DEF TypeInv, Call
  <1>3. /\ path \in [Psi -> HoGnb \cup {Nobody}] /\ tgt \in [Psi -> HoGnb \cup {Nobody}]
        /\ pdu \subseteq Psi /\ radio.g \in HoGnb /\ radio.g # Nobody
    BY HandoverAssumption DEF TypeInv, Places
  <1>4. /\ path' \in [Psi -> HoGnb \cup {Nobody}] /\ tgt' \in [Psi -> HoGnb \cup {Nobody}]
        /\ \A q \in Psi : q # c.psi => path'[q] = path[q] /\ tgt'[q] = tgt[q]
        /\ c.leg = "comp" /\ tgt[c.psi] # Nobody => path'[c.psi] = tgt[c.psi]
    BY <1>2, <1>3 DEF smfExecutes
  <1>5. c.leg = "release" => c.psi \notin pdu BY DEF CallsInv
  <1>6. OnlyReleases(calls) => OnlyReleases(calls') BY <1>1 DEF OnlyReleases
  <1>7. OnlyReleases(calls) => \A S, g : /\ Leads(path, S \cap pdu, g) => Leads(path', S \cap pdu', g)
                                         /\ Leads(tgt, S \cap pdu, g) => Leads(tgt', S \cap pdu', g)
    BY <1>1, <1>3, <1>4, <1>5 DEF OnlyReleases, Leads
  <1>8. \A leg, p : Called(calls', leg, p) <=> Called(calls, leg, p) /\ ~(leg = c.leg /\ p = c.psi)
    BY SMTT(30), <1>1, <1>2 DEF Called
  <1>9. Called(calls, c.leg, c.psi) BY <1>2 DEF Called
  <1>10. ASSUME NEW p \in pdu', Carried(calls, p) PROVE Carried(calls, p)'
    <2>1. CASE p = c.psi
      <3>1. c.leg = "comp" BY <1>1, <1>2, <1>5, <1>9, <1>10, <2>1 DEF Carried
      <3>2. tgt[p] = radio.g /\ path'[p] = radio.g BY <1>3, <1>4, <1>9, <1>10, <2>1, <3>1 DEF Carried
      <3>3. ~Called(calls', "deact", p) /\ ~Called(calls', "comp", p)
        BY <1>8, <1>10, <2>1, <3>1 DEF Carried
      <3> QED BY <1>1, <3>2, <3>3 DEF Carried
    <2>2. CASE p # c.psi
      <3>1. path'[p] = path[p] /\ tgt'[p] = tgt[p] BY <1>1, <1>3, <1>4, <2>2
      <3>2. \A leg : Called(calls', leg, p) <=> Called(calls, leg, p) BY <1>8, <2>2
      <3> QED BY <1>1, <1>10, <3>1, <3>2 DEF Carried
    <2> QED BY <2>1, <2>2
  <1>11. \A p \in pdu' :
            path[p] = radio.g /\ ~Called(calls, "comp", p) /\ ~Called(calls, "deact", p)
            => path'[p] = radio.g /\ ~Called(calls', "comp", p) /\ ~Called(calls', "deact", p)
    BY <1>1, <1>2, <1>3, <1>4, <1>5, <1>8, <1>9
  <1>12. Stages' BY <1>1, <1>6, <1>7, <1>10, <1>11, UserPlaneStep
  <1>13. TypeInv' BY <1>1, <1>4 DEF TypeInv
  <1>14. PlacesInv' BY <1>1, PlacesStay
  <1>15. KeyInv' BY <1>1 DEF KeyInv
  <1>16. CallsInv' BY <1>1, CallsKept
  <1> QED BY <1>12, <1>13, <1>14, <1>15, <1>16

\* A session is forgotten while a handover is under way.
LEMMA SetupResponseKeeps ==
  ASSUME NEW s \in Psi, HoInv, handlePDUSessionResourceSetupResponse(s) PROVE HoInv'
  <1> USE DEF HoInv
  <1>1. /\ pdu' = pdu \ {s} /\ calls' = calls \cup {[leg |-> "release", psi |-> s]}
        /\ UNCHANGED <<served, entry, idle, chain, allowed, ncc, keys, task, pendingN2HO, ho, path, tgt, dl,
                       down, inUse, radio, bearers, ran>>
    BY DEF handlePDUSessionResourceSetupResponse, smfHo, ranHo
  <1>2. OnlyReleases(calls) => OnlyReleases(calls') BY SMTT(30), <1>1 DEF OnlyReleases
  <1>3. \A S, g : /\ Leads(path, S \cap pdu, g) => Leads(path', S \cap pdu', g)
                  /\ Leads(tgt, S \cap pdu, g) => Leads(tgt', S \cap pdu', g)
    BY <1>1 DEF Leads
  <1>4. \A p : /\ Called(calls', "comp", p) <=> Called(calls, "comp", p)
               /\ Called(calls', "deact", p) <=> Called(calls, "deact", p)
    BY <1>1 DEF Called
  <1>5. \A p \in pdu' : Carried(calls, p) => Carried(calls, p)' BY <1>1, <1>4 DEF Carried
  <1>6. \A p \in pdu' :
            path[p] = radio.g /\ ~Called(calls, "comp", p) /\ ~Called(calls, "deact", p)
            => path'[p] = radio.g /\ ~Called(calls', "comp", p) /\ ~Called(calls', "deact", p)
    BY <1>1, <1>4
  <1>7. pdu' \subseteq pdu BY <1>1
  <1>8. Stages' BY <1>1, <1>2, <1>3, <1>5, <1>6, <1>7, UserPlaneStep
  <1>9. TypeInv' BY SMTT(30), <1>1 DEF TypeInv, Call
  <1>10. PlacesInv' BY <1>1, PlacesStay
  <1>11. KeyInv' BY <1>1 DEF KeyInv
  <1>12. CallsInv' BY SMTT(30), <1>1 DEF CallsInv
  <1> QED BY <1>8, <1>9, <1>10, <1>11, <1>12

-----------------------------------------------------------------------------
(* The RAN *)

\* A place that is not of the handover is released.
LEMMA StageReleases ==
  ASSUME HoInv,
         UNCHANGED <<served, pdu, keys, task, pendingN2HO, ho, calls, path, tgt, down, radio, bearers, ran>>,
         CalmIn(dl) => CalmIn(dl'),
         \A h : \A m \in Special : CarriesIn(dl, h, m) => CarriesIn(dl', h, m),
         \A S : S \subseteq Own /\ EntriesAt(entry, S) => EntriesAt(entry', S)
  PROVE  Stages'
  <1>1. KeepsPath => KeepsPath' BY DEF KeepsPath
  <1>2. Pending => Pending' BY DEF Pending
  <1>3. served \in Own /\ radio \in Own /\ (ran.at = "required" => ran.kept \subseteq Own) BY DEF Own
  <1>4. ASSUME NEW S, S \subseteq Own, NEW p \in Own, Rests(task, entry, S, p)
        PROVE  Rests(task', entry', S, p)
    <2>1. S \cup {p} \subseteq Own BY <1>4
    <2> QED BY <1>4, <2>1 DEF Rests
  <1>5. {} \subseteq Own /\ {served} \subseteq Own BY <1>3
  <1>6. ASSUME NEW t, Waits(task, entry, served, t) PROVE Waits(task', entry', served', t)
    BY <1>5, <1>6 DEF Waits
  <1>7. CASE Settled
    <2>1. Rests(task', entry', {}, served) BY <1>3, <1>4, <1>5, <1>7 DEF Settled
    <2> QED BY <2>1, <1>7 DEF Stages, Settled, Carried
  <1>8. ASSUME NEW t \in XnTask, Switching(t) PROVE Switching(t)' BY <1>6, <1>8 DEF Switching
  <1>9. ASSUME NEW m \in SwitchedMsg, Switched(m) PROVE Switched(m)' BY <1>5, <1>9, Types DEF Switched
  <1>10. CASE Unswitched
    <2>1. Rests(task', entry', {}, served) BY <1>3, <1>4, <1>5, <1>10 DEF Unswitched
    <2> QED BY <2>1, <1>10, Types DEF Stages, Unswitched
  <1>11. CASE Lost
    <2>1. Rests(task', entry', {}, served) BY <1>3, <1>4, <1>5, <1>11 DEF Lost
    <2> QED BY <2>1, <1>11 DEF Stages, Lost
  <1>12. ASSUME NEW t \in RequiredTask, Required(t) PROVE Required(t)' BY <1>1, <1>6, <1>12 DEF Required
  <1>13. ASSUME NEW g \in HoGnb, NEW m \in RequestMsg, Requested(g, m) PROVE Requested(g, m)'
    BY <1>1, <1>2, <1>5, <1>13, Types DEF Requested
  <1>14. ASSUME NEW t \in AckTask, Answered(t) PROVE Answered(t)'
    BY <1>1, <1>2, <1>5, <1>14 DEF Answered
  <1>15. ASSUME NEW m \in CommandMsg, Commanded(m) PROVE Commanded(m)'
    <2>1. m.to \in Own BY <1>3, <1>15 DEF Commanded
    <2>2. Rests(task', entry', {served}, m.to) BY <1>4, <1>5, <1>15, <2>1 DEF Commanded
    <2> QED BY <1>1, <1>2, <1>15, <2>2, Types DEF Commanded
  <1>16. CASE Failed
    <2>1. Rests(task', entry', {}, served) BY <1>3, <1>4, <1>5, <1>16 DEF Failed
    <2> QED BY <2>1, <1>1, <1>16, Types DEF Stages, Failed
  <1>17. CASE Stuck
    <2>1. Rests(task', entry', {}, served) \/ \E p \in ran.kept : Rests(task', entry', {served}, p)
      BY <1>3, <1>4, <1>5, <1>17 DEF Stuck
    <2>2. Stuck' BY <2>1, <1>17 DEF Stuck
    <2> QED BY <2>2 DEF Stages
  <1>18. CASE Refused BY <1>1, <1>5, <1>18 DEF Stages, Refused
  <1>19. CASE Moved
    <2>1. Rests(task', entry', {served}, radio) BY <1>3, <1>4, <1>5, <1>19 DEF Moved
    <2>2. Moved' BY <2>1, <1>2, <1>19 DEF Moved
    <2> QED BY <2>2 DEF Stages
  <1>20. CASE \E t \in XnTask : Switching(t) BY <1>8, <1>20 DEF Stages
  <1>21. CASE \E m \in SwitchedMsg : Switched(m) BY <1>9, <1>21 DEF Stages
  <1>22. CASE \E t \in RequiredTask : Required(t) BY <1>12, <1>22 DEF Stages
  <1>23. CASE \E g \in HoGnb, m \in RequestMsg : Requested(g, m) BY <1>13, <1>23 DEF Stages
  <1>24. CASE \E t \in AckTask : Answered(t) BY <1>14, <1>24 DEF Stages
  <1>25. CASE \E m \in CommandMsg : Commanded(m) BY <1>15, <1>25 DEF Stages
  <1> QED BY <1>7, <1>10, <1>11, <1>16, <1>17, <1>18, <1>19, <1>20, <1>21, <1>22, <1>23, <1>24, <1>25
          DEF Stages, HoInv

\* Which place a source releases.
LEMMA ReleasedPlace ==
  ASSUME HoInv, NEW g \in HoGnb, SourceReleases(g)
  PROVE  \E r \in HoRan :
            /\ r = Head(dl[g]).r /\ Place(g, r) \in AwaitedIn(dl) /\ Reserved(Place(g, r))
            /\ Place(g, r) \notin Own /\ Place(g, r) \in Places
            /\ AwaitedIn(dl') = AwaitedIn(dl) \ {Place(g, r)}
            /\ dl' \in [HoGnb -> Seq(Msg)] /\ OnceIn(dl') /\ (CalmIn(dl) => CalmIn(dl'))
            /\ \A h : \A m \in Special : CarriesIn(dl, h, m) => CarriesIn(dl', h, m)
  <1>1. dl \in [HoGnb -> Seq(Msg)] /\ OnceIn(dl) BY DEF HoInv, TypeInv, PlacesInv
  <1>2. dl[g] # <<>> /\ Head(dl[g]).type = "UEContextReleaseCommand" BY DEF SourceReleases, Receives
  <1>3. Head(dl[g]) \in Msg BY <1>1, <1>2, Shorter
  <1>4. Head(dl[g]) \in ReleaseMsg BY <1>2, <1>3, Types DEF Msg, Special
  <1>5. PICK r \in HoRan : Head(dl[g]) = Release(r) BY <1>4 DEF ReleaseMsg
  <1>6. Head(dl[g]).r = r BY SMTT(30), <1>5 DEF Release
  <1>7. PICK e : e = dl' OBVIOUS
  <1>8. e = ReceivedIn(dl, g) BY <1>7 DEF SourceReleases, Received, ReceivedIn
  <1>9. /\ e \in [HoGnb -> Seq(Msg)] /\ OnceIn(e)
        /\ Place(g, r) \in AwaitedIn(dl) /\ AwaitedIn(e) = AwaitedIn(dl) \ {Place(g, r)}
        /\ CalmIn(dl) => CalmIn(e)
        /\ \A h : \A m \in Special : CarriesIn(dl, h, m) => CarriesIn(e, h, m)
    BY SMTT(30), <1>1, <1>2, <1>5, <1>8, TakenRelease
  <1>10. Reserved(Place(g, r)) /\ Place(g, r) \notin Own /\ Place(g, r) \in Places
    BY <1>9 DEF HoInv, PlacesInv, AwaitedIn
  <1> QED BY <1>6, <1>7, <1>9, <1>10

\* The source releases: a place that the handover has left is freed.
LEMMA SourceReleasesKeeps == ASSUME NEW g \in HoGnb, HoInv, SourceReleases(g) PROVE HoInv'
  <1>1. PICK r \in HoRan :
            /\ r = Head(dl[g]).r /\ Place(g, r) \in AwaitedIn(dl) /\ Reserved(Place(g, r))
            /\ Place(g, r) \notin Own /\ Place(g, r) \in Places
            /\ AwaitedIn(dl') = AwaitedIn(dl) \ {Place(g, r)}
            /\ dl' \in [HoGnb -> Seq(Msg)] /\ OnceIn(dl') /\ (CalmIn(dl) => CalmIn(dl'))
            /\ \A h : \A m \in Special : CarriesIn(dl, h, m) => CarriesIn(dl', h, m)
    BY ReleasedPlace
  <1>2. /\ inUse' = [inUse EXCEPT ![g] = @ \ {r}]
        /\ entry' = [entry EXCEPT ![g][r] = "none"] /\ idle' = (idle \/ ~(served # Place(g, r)))
        /\ UNCHANGED <<served, pdu, chain, allowed, ncc, keys, task, pendingN2HO, ho, calls, path, tgt,
                       down, radio, bearers, ran>>
    BY <1>1 DEF SourceReleases, handleUEContextReleaseComplete, isStaleSourceRelease, smfHo
  <1> USE DEF HoInv
  <1>3. PICK q \in Places : q = Place(g, r) BY <1>1
  <1>4. q.g = g /\ q.r = r BY <1>3 DEF Place
  <1>5. PICK f : f = entry' OBVIOUS
  <1>6. f = PutIn(entry, q, "none") BY <1>2, <1>4, <1>5 DEF PutIn
  <1>7. /\ f \in Entries /\ \A S : EntriesAt(entry, S) => EntriesAt(f, S \ {q})
        /\ \A h \in HoGnb, s \in HoRan : f[h][s] = IF Place(h, s) = q THEN "none" ELSE entry[h][s]
    <2>1. entry \in Entries BY DEF TypeInv, Entries
    <2> QED BY SMTT(30), <2>1, <1>6, Erased
  <1>8. ASSUME NEW S, S \subseteq Own, EntriesAt(entry, S) PROVE EntriesAt(entry', S)
    <2>1. S \ {q} = S BY <1>1, <1>3, <1>8
    <2> QED BY <2>1, <1>5, <1>7, <1>8
  <1>9. Stages' BY <1>1, <1>2, <1>8, StageReleases
  <1>10. /\ inUse' \in [HoGnb -> SUBSET HoRan]
         /\ \A h \in HoGnb : inUse'[h] = IF h = g THEN inUse[h] \ {r} ELSE inUse[h]
    BY <1>2 DEF TypeInv
  <1>11. TypeInv'
    <2>1. idle' = FALSE BY <1>1, <1>2 DEF TypeInv, Own
    <2> QED BY <2>1, <1>1, <1>2, <1>5, <1>7, <1>10 DEF TypeInv, Entries
  <1>12. PlacesInv'
    <2>1. Own' = Own BY <1>2 DEF Own
    <2>2. Own \subseteq Places /\ AwaitedIn(dl) \subseteq Places BY DEF Own, TypeInv, RanState, AwaitedIn
    <2>3. \A p \in Places : p = Place(p.g, p.r) /\ p.g \in HoGnb /\ p.r \in HoRan BY SMTT(30) DEF Places, Place
    <2>4. \A p \in Places : p # q /\ Reserved(p) => Reserved(p)'
      BY SMTT(30), <1>3, <1>4, <1>5, <1>7, <1>10, <2>3 DEF Reserved
    <2>5. \A p \in Own' : Reserved(p)' BY <1>1, <1>3, <2>1, <2>2, <2>4 DEF PlacesInv
    <2>6. \A p \in AwaitedIn(dl') : Reserved(p)' /\ p \notin Own'
      BY <1>1, <1>3, <2>1, <2>2, <2>4 DEF PlacesInv
    <2>7. ASSUME NEW h \in HoGnb, NEW s \in HoRan, entry'[h][s] = "other" PROVE s \in inUse'[h]
      <3>1. Place(h, s) # q /\ entry[h][s] = "other" BY <1>5, <1>7, <2>7
      <3>2. ~(h = g /\ s = r) BY <1>3, <3>1
      <3> QED BY <3>1, <3>2, <1>10 DEF PlacesInv
    <2> QED BY <1>1, <1>2, <2>5, <2>6, <2>7 DEF PlacesInv
  <1>13. KeyInv' BY <1>2 DEF KeyInv
  <1>14. CallsInv' BY <1>2 DEF CallsInv
  <1> QED BY <1>9, <1>11, <1>12, <1>13, <1>14

\* What a broken association does to each stage.
LEMMA StageBreaks ==
  ASSUME Stages, ran.at # "idle", down' # {},
         UNCHANGED <<served, entry, pdu, keys, task, pendingN2HO, ho, calls, path, tgt, radio, bearers, ran>>,
         CalmIn(dl) => CalmIn(dl'),
         \A h, m : CarriesIn(dl, h, m) => CalmIn(dl') \/ CarriesIn(dl', h, m)
  PROVE  Stages'
  <1>1. KeepsPath => KeepsPath' BY DEF KeepsPath
  <1>2. Pending => Pending' BY DEF Pending
  <1>3. {} \cup {served} = {served} OBVIOUS
  <1>4. ASSUME task = <<>>, EntriesAt(entry, {served}) PROVE Rests(task', entry', {}, served')
    BY <1>3, <1>4 DEF Rests
  <1>5. CASE Settled BY <1>5 DEF Settled
  <1>6. ASSUME NEW t \in XnTask, Switching(t) PROVE Switching(t)' BY <1>6 DEF Switching
  <1>7. ASSUME NEW m \in SwitchedMsg, Switched(m) PROVE Switched(m)' \/ Unswitched'
    <2>1. Rests(task', entry', {}, served') BY <1>4, <1>7 DEF Switched
    <2>2. CASE CalmIn(dl') BY <1>7, <2>1, <2>2 DEF Unswitched, Switched
    <2>3. CASE CarriesIn(dl', radio.g, m) BY <1>7, <2>3 DEF Switched
    <2> QED BY <1>7, <2>2, <2>3 DEF Switched
  <1>8. CASE Unswitched
    <2>1. Unswitched' BY <1>8 DEF Unswitched
    <2> QED BY <2>1 DEF Stages
  <1>9. CASE Lost BY <1>9 DEF Stages, Lost
  <1>10. ASSUME NEW t \in RequiredTask, Required(t) PROVE Required(t)' BY <1>1, <1>10 DEF Required
  <1>11. ASSUME NEW g \in HoGnb, NEW m \in RequestMsg, Requested(g, m) PROVE Requested(g, m)' \/ Stuck'
    <2>1. Rests(task', entry', {}, served') BY <1>4, <1>11 DEF Requested
    <2>2. CASE CalmIn(dl') BY <1>11, <2>1, <2>2 DEF Stuck, Requested
    <2>3. CASE CarriesIn(dl', g, m) BY <1>1, <1>2, <1>11, <2>3 DEF Requested
    <2> QED BY <1>11, <2>2, <2>3 DEF Requested
  <1>12. ASSUME NEW t \in AckTask, Answered(t) PROVE Answered(t)' BY <1>1, <1>2, <1>12 DEF Answered
  <1>13. ASSUME NEW m \in CommandMsg, Commanded(m) PROVE Commanded(m)' \/ Stuck'
    <2>1. Rests(task', entry', {served'}, m.to) /\ m.to \in ran'.kept BY <1>13 DEF Commanded
    <2>2. CASE CalmIn(dl') BY <1>13, <2>1, <2>2 DEF Stuck, Commanded
    <2>3. CASE CarriesIn(dl', served.g, m) BY <1>1, <1>2, <1>13, <2>1, <2>3 DEF Commanded
    <2> QED BY <1>13, <2>2, <2>3 DEF Commanded
  <1>14. CASE Failed
    <2>1. CASE CalmIn(dl')
      <3>1. Stuck' BY <1>14, <2>1 DEF Stuck, Failed
      <3> QED BY <3>1 DEF Stages
    <2>2. CASE CarriesIn(dl', served.g, PrepFailure)
      <3>1. Failed' BY <1>1, <1>14, <2>2 DEF Failed
      <3> QED BY <3>1 DEF Stages
    <2> QED BY <1>14, <2>1, <2>2 DEF Failed
  <1>15. CASE Stuck
    <2>1. Stuck' BY <1>15 DEF Stuck
    <2> QED BY <2>1 DEF Stages
  <1>16. CASE Refused BY <1>1, <1>16 DEF Stages, Refused
  <1>17. CASE Moved
    <2>1. Moved' BY <1>2, <1>17 DEF Moved
    <2> QED BY <2>1 DEF Stages
  <1>18. CASE \E t \in XnTask : Switching(t) BY <1>6, <1>18 DEF Stages
  <1>19. CASE \E m \in SwitchedMsg : Switched(m) BY <1>7, <1>19 DEF Stages
  <1>20. CASE \E t \in RequiredTask : Required(t) BY <1>10, <1>20 DEF Stages
  <1>21. CASE \E g \in HoGnb, m \in RequestMsg : Requested(g, m) BY <1>11, <1>21 DEF Stages
  <1>22. CASE \E t \in AckTask : Answered(t) BY <1>12, <1>22 DEF Stages
  <1>23. CASE \E m \in CommandMsg : Commanded(m) BY <1>13, <1>23 DEF Stages
  <1> QED BY <1>5, <1>8, <1>9, <1>14, <1>15, <1>16, <1>17, <1>18, <1>19, <1>20, <1>21, <1>22, <1>23
          DEF Stages

\* An association breaks in whatever stage the handover is.
LEMMA AssociationBreaksKeeps == ASSUME NEW g \in HoGnb, HoInv, AssociationBreaks(g) PROVE HoInv'
  <1> USE DEF HoInv
  <1>1. /\ ran.at # "idle" /\ down' = {g} /\ dl' = [dl EXCEPT ![g] = <<>>]
        /\ UNCHANGED <<served, entry, idle, pdu, chain, allowed, ncc, keys, task, pendingN2HO, ho, calls,
                       path, tgt, inUse, radio, bearers, ran>>
    BY DEF AssociationBreaks, amfHo, smfHo
  <1>2. /\ dl' \in [HoGnb -> Seq(Msg)] /\ OnceIn(dl') /\ AwaitedIn(dl') \subseteq AwaitedIn(dl)
        /\ CalmIn(dl) => CalmIn(dl')
        /\ \A h, m : CarriesIn(dl, h, m) => CalmIn(dl') \/ CarriesIn(dl', h, m)
    <2>1. PICK e : e = dl' OBVIOUS
    <2>2. PICK d \in [HoGnb -> Seq(Msg)] : d = dl BY DEF TypeInv
    <2>3. e = [d EXCEPT ![g] = <<>>] /\ OnceIn(d) BY <1>1, <2>1, <2>2 DEF PlacesInv
    <2>4. /\ e \in [HoGnb -> Seq(Msg)] /\ OnceIn(e) /\ AwaitedIn(e) \subseteq AwaitedIn(d)
          /\ CalmIn(d) => CalmIn(e)
          /\ \A h, m : CarriesIn(d, h, m) => CalmIn(e) \/ CarriesIn(e, h, m)
      BY <2>3, Cleared
    <2> QED BY <2>1, <2>2, <2>4
  <1>3. down' # {} /\ down' \subseteq HoGnb BY <1>1
  <1>4. Stages' BY <1>1, <1>2, <1>3, StageBreaks
  <1>5. TypeInv' BY <1>1, <1>2, <1>3 DEF TypeInv
  <1>6. PlacesInv' BY <1>1, <1>2, PlacesSame
  <1>7. KeyInv' BY <1>1 DEF KeyInv
  <1>8. CallsInv' BY <1>1 DEF CallsInv
  <1> QED BY <1>4, <1>5, <1>6, <1>7, <1>8

\* Where the RAN is tells the stage.
LEMMA Where ==
  ASSUME Stages
  PROVE  /\ ran.at = "idle" => Settled
         /\ ran.at = "refused" => Refused
         /\ ran.at = "moved" => Moved
  <1>1. CASE Settled BY <1>1 DEF Settled
  <1>2. CASE \E t \in XnTask : Switching(t) BY <1>2 DEF Switching
  <1>3. CASE \E m \in SwitchedMsg : Switched(m) BY <1>3 DEF Switched
  <1>4. CASE Unswitched \/ Lost BY <1>4 DEF Unswitched, Lost
  <1>5. CASE \E t \in RequiredTask : Required(t) BY <1>5 DEF Required
  <1>6. CASE \E g \in HoGnb, m \in RequestMsg : Requested(g, m) BY <1>6 DEF Requested
  <1>7. CASE \E t \in AckTask : Answered(t) BY <1>7 DEF Answered
  <1>8. CASE \E m \in CommandMsg : Commanded(m) BY <1>8 DEF Commanded
  <1>9. CASE Failed \/ Stuck BY <1>9 DEF Failed, Stuck
  <1>10. CASE Refused BY <1>10 DEF Refused
  <1>11. CASE Moved BY <1>11 DEF Moved
  <1> QED BY <1>1, <1>2, <1>3, <1>4, <1>5, <1>6, <1>7, <1>8, <1>9, <1>10, <1>11 DEF Stages

\* The first task of a handover waits for what is left of the former.
LEMMA Enqueued ==
  ASSUME NEW t, t.step = "queued", Rests(task, entry, {}, served), task' = Append(task, t)
  PROVE  Waits(task', entry, served, t)
  <1>1. CASE task = <<>> /\ EntriesAt(entry, {} \cup {served})
    <2>1. {} \cup {served} = {served} OBVIOUS
    <2>2. task' = <<t>> BY <1>1, Tuples
    <2> QED BY <1>1, <2>1, <2>2 DEF Waits
  <1>2. ASSUME NEW u \in RegisterTask, u.to = served, task = <<u>>, EntriesAt(entry, {})
        PROVE  Waits(task', entry, served, t)
    <2>1. task' = <<u, t>> BY <1>2, Tuples
    <2> QED BY <1>2, <2>1 DEF Waits
  <1> QED BY <1>1, <1>2 DEF Rests

\* A RAN ID is taken into use for a place that the handover gets.
LEMMA PlaceTaken ==
  ASSUME PlacesInv, TypeInv, NEW g \in HoGnb, NEW r \in HoRan, r \notin inUse[g],
         inUse' = [inUse EXCEPT ![g] = @ \cup {r}], entry' = entry,
         Own' \subseteq Own \cup {Place(g, r)}, AwaitedIn(dl') = AwaitedIn(dl), OnceIn(dl'),
         ran'.at = "required" => served' \notin ran'.kept, ran'.at = "xn" => ran'.from # radio'
  PROVE  PlacesInv'
  <1>1. inUse \in [HoGnb -> SUBSET HoRan] BY DEF TypeInv
  <1>2. \A h \in HoGnb : inUse[h] \subseteq inUse'[h] BY <1>1
  <1>3. r \in inUse'[g] BY <1>1
  <1>4. Own \subseteq Places /\ AwaitedIn(dl) \subseteq Places BY DEF Own, TypeInv, RanState, AwaitedIn
  <1>5. \A p \in Places : Reserved(p) => Reserved(p)' BY <1>2 DEF Reserved, Places
  <1>6. Place(g, r).g = g /\ Place(g, r).r = r BY DEF Place
  <1>7. Reserved(Place(g, r))' /\ ~Reserved(Place(g, r)) BY <1>3, <1>6 DEF Reserved, PlacesInv
  <1>8. \A p \in Own' : Reserved(p)' BY <1>4, <1>5, <1>7 DEF PlacesInv
  <1>9. \A p \in AwaitedIn(dl') : Reserved(p)' /\ p \notin Own' BY <1>4, <1>5, <1>7 DEF PlacesInv
  <1>10. \A h \in HoGnb, s \in HoRan : entry'[h][s] = "other" => s \in inUse'[h] BY <1>2 DEF PlacesInv
  <1> QED BY <1>8, <1>9, <1>10 DEF PlacesInv

\* The device moves to a target that asks for the path.
LEMMA XnHandoverKeeps ==
  ASSUME NEW g \in HoGnb, NEW r \in HoRan, NEW list \in SUBSET Psi, NEW failed \in SUBSET Psi,
         HoInv, XnHandover(g, r, list, failed)
  PROVE  HoInv'
  <1> USE DEF HoInv
  <1>1. /\ ran.at = "idle" /\ ran.n < MaxHo /\ (Slow => calls = {}) /\ g \notin down /\ g # radio.g
        /\ r \notin inUse[g] /\ radio' = Place(g, r) /\ inUse' = [inUse EXCEPT ![g] = @ \cup {r}]
        /\ ran' = [at |-> "xn", n |-> ran.n + 1, from |-> radio]
        /\ UNCHANGED <<served, entry, idle, pdu, chain, allowed, ncc, keys, pendingN2HO, ho, calls,
                       path, tgt, down, bearers>>
    BY DEF XnHandover, Starts, Slow, smfHo
  <1>2. Settled BY <1>1, Where
  <1>3. served = radio /\ CalmIn(dl) /\ Rests(task, entry, {}, served) /\ NothingAdmitted(pendingN2HO, ho)
    BY <1>2 DEF Settled
  <1>4. /\ radio' \in Places /\ radio'.g = g /\ radio'.r = r /\ radio \in Places /\ served.g # radio'.g
    BY <1>1, <1>3 DEF Place, Places, TypeInv
  <1>5. /\ ran' \in RanState /\ ran'.at = "xn" /\ ran'.n = ran.n + 1 /\ ran'.from = radio /\ ran.n \in Nat
        /\ ran \in RanState
    <2>1. ran \in RanState /\ ran.n \in 0 .. MaxHo /\ MaxHo \in Nat
      BY SMTT(30), HandoverAssumption DEF TypeInv, RanState
    <2>2. ran.n + 1 \in 0 .. MaxHo /\ ran.n \in Nat BY SMTT(30), <1>1, <2>1
    <2> QED BY <1>1, <1>4, <2>1, <2>2 DEF RanState
  <1>6. Len(keys) < ran'.n
    <2>1. Len(keys) \in Nat /\ Len(keys) <= ran.n BY SMTT(30) DEF KeyInv
    <2> QED BY SMTT(30), <1>5, <2>1
  <1>7. ASSUME dl' = Sent(g, SwitchFailure), task' = task
        PROVE  /\ dl' \in [HoGnb -> Seq(Msg)] /\ AwaitedIn(dl') = AwaitedIn(dl) /\ OnceIn(dl') /\ Stages'
    <2>1. /\ dl' \in [HoGnb -> Seq(Msg)] /\ AwaitedIn(dl') = AwaitedIn(dl) /\ OnceIn(dl')
          /\ CarriesIn(dl', g, SwitchFailure)
      BY <1>1, <1>3, <1>7, Writes, Types DEF PlacesInv
    <2>2. Unswitched' BY <1>1, <1>3, <1>4, <1>5, <1>7, <2>1 DEF Unswitched
    <2> QED BY <2>1, <2>2 DEF Stages
  <1>8. ASSUME NEW t, t = [kind |-> "xn", step |-> "queued", to |-> Place(g, r), list |-> list,
                           failed |-> failed, known |-> pdu, ok |-> {}],
               task' = Append(task, t), dl' = dl, list \cap failed = {}
        PROVE  /\ dl' \in [HoGnb -> Seq(Msg)] /\ AwaitedIn(dl') = AwaitedIn(dl) /\ OnceIn(dl') /\ Stages'
    <2>1. pdu \subseteq Psi /\ Place(g, r) \in Places BY <1>1, <1>4 DEF TypeInv
    <2>2. t \in XnTask /\ t.step = "queued" /\ t.to = radio' /\ t.list = list /\ t.failed = failed /\ t.ok = {}
      BY <1>1, <1>8, <2>1 DEF XnTask
    <2>3. Waits(task', entry, served, t) BY <1>3, <1>8, <2>2, Enqueued
    <2>4. Slow => OnlyReleases(calls') BY <1>1 DEF OnlyReleases
    <2>5. Switching(t)' BY <1>1, <1>3, <1>4, <1>5, <1>6, <1>8, <2>2, <2>3, <2>4 DEF Switching
    <2>6. Stages' BY <2>2, <2>5 DEF Stages
    <2> QED BY <1>8, <2>6 DEF TypeInv, PlacesInv
  <1>9. /\ dl' \in [HoGnb -> Seq(Msg)] /\ AwaitedIn(dl') = AwaitedIn(dl) /\ OnceIn(dl') /\ Stages'
    <2>1. handlePathSwitchRequest(g, r, list, failed) BY DEF XnHandover
    <2>2. \/ dl' = Sent(g, SwitchFailure) /\ task' = task
          \/ /\ task' = Append(task, [kind |-> "xn", step |-> "queued", to |-> Place(g, r), list |-> list,
                                      failed |-> failed, known |-> pdu, ok |-> {}])
             /\ dl' = dl /\ list \cap failed = {}
      BY <2>1 DEF handlePathSwitchRequest, rejectPathSwitch, Send, SwitchFailure, Enqueue
    <2>3. PICK t : t = [kind |-> "xn", step |-> "queued", to |-> Place(g, r), list |-> list,
                        failed |-> failed, known |-> pdu, ok |-> {}]
      OBVIOUS
    <2> QED BY <1>7, <1>8, <2>2, <2>3
  <1>10. TypeInv'
    <2>1. inUse' \in [HoGnb -> SUBSET HoRan] BY <1>1 DEF TypeInv
    <2> QED BY <1>1, <1>4, <1>5, <1>9, <2>1 DEF TypeInv
  <1>11. PlacesInv'
    <2>1. Own' \subseteq Own \cup {Place(g, r)} BY <1>1, <1>5 DEF Own
    <2>2. ran'.from # radio' BY <1>1, <1>4, <1>5
    <2> QED BY <1>1, <1>5, <1>9, <2>1, <2>2, PlaceTaken
  <1>12. KeyInv' BY SMTT(30), <1>1, <1>5, SameKeys
  <1>13. CallsInv' BY <1>1 DEF CallsInv
  <1> QED BY <1>9, <1>10, <1>11, <1>12, <1>13

\* The source asks for an N2 handover.
LEMMA SourceRequiresKeeps ==
  ASSUME NEW target \in HoGnb \cup {Nobody}, NEW list \in SUBSET Psi, HoInv, SourceRequires(target, list)
  PROVE  HoInv'
  <1> USE DEF HoInv
  <1>1. /\ ran.at = "idle" /\ ran.n < MaxHo /\ (Slow => calls = {}) /\ radio.g \notin down
        /\ ran' = [at |-> "required", n |-> ran.n + 1, list |-> list, kept |-> {}]
        /\ UNCHANGED <<served, entry, idle, pdu, chain, allowed, ncc, keys, pendingN2HO, ho, calls,
                       path, tgt, down, inUse, radio, bearers>>
    BY DEF SourceRequires, Starts, Slow, smfHo
  <1>2. Settled BY <1>1, Where
  <1>3. /\ served = radio /\ CalmIn(dl) /\ Rests(task, entry, {}, served) /\ NothingAdmitted(pendingN2HO, ho)
        /\ radio \in Places /\ radio.g \in HoGnb
    BY <1>2 DEF Settled, TypeInv, Places
  <1>4. /\ ran' \in RanState /\ ran'.at = "required" /\ ran'.n = ran.n + 1 /\ ran'.list = list
        /\ ran'.kept = {} /\ ran.n \in Nat /\ ran \in RanState
    <2>1. ran \in RanState /\ ran.n \in 0 .. MaxHo /\ MaxHo \in Nat
      BY SMTT(30), HandoverAssumption DEF TypeInv, RanState
    <2>2. ran.n + 1 \in 0 .. MaxHo /\ ran.n \in Nat BY SMTT(30), <1>1, <2>1
    <2> QED BY <1>1, <2>1, <2>2 DEF RanState
  <1>5. Len(keys) < ran'.n
    <2>1. Len(keys) \in Nat /\ Len(keys) <= ran.n BY SMTT(30) DEF KeyInv
    <2> QED BY SMTT(30), <1>4, <2>1
  <1>6. KeepsPath'
    <2>1. Slow => \A p \in bearers \cap pdu : path[p] = radio.g
      BY <1>1, <1>2 DEF Settled, Carried, Called
    <2> QED BY <1>1, <2>1 DEF KeepsPath, OnlyReleases, Leads
  <1>7. ASSUME dl' = Sent(radio.g, PrepFailure), task' = task
        PROVE  /\ dl' \in [HoGnb -> Seq(Msg)] /\ AwaitedIn(dl') = AwaitedIn(dl) /\ OnceIn(dl') /\ Stages'
    <2>1. /\ dl' \in [HoGnb -> Seq(Msg)] /\ AwaitedIn(dl') = AwaitedIn(dl) /\ OnceIn(dl')
          /\ CarriesIn(dl', radio.g, PrepFailure)
      BY <1>1, <1>3, <1>7, Writes, Types DEF PlacesInv
    <2>2. Failed' BY <1>1, <1>3, <1>4, <1>6, <1>7, <2>1 DEF Failed
    <2> QED BY <2>1, <2>2 DEF Stages
  <1>8. ASSUME NEW t, t = [kind |-> "required", step |-> "queued", src |-> radio, target |-> target,
                           list |-> list, cands |-> {}, ok |-> {}],
               task' = Append(task, t), dl' = dl, target \in HoGnb
        PROVE  /\ dl' \in [HoGnb -> Seq(Msg)] /\ AwaitedIn(dl') = AwaitedIn(dl) /\ OnceIn(dl') /\ Stages'
    <2>1. t \in RequiredTask /\ t.step = "queued" /\ t.src = radio /\ t.list = list /\ t.ok = {}
      BY <1>3, <1>8 DEF RequiredTask
    <2>2. Waits(task', entry, served, t) BY <1>3, <1>8, <2>1, Enqueued
    <2>3. Required(t)' BY <1>1, <1>3, <1>4, <1>5, <1>6, <1>8, <2>1, <2>2 DEF Required
    <2>4. Stages' BY <2>1, <2>3 DEF Stages
    <2> QED BY <1>8, <2>4 DEF TypeInv, PlacesInv
  <1>9. /\ dl' \in [HoGnb -> Seq(Msg)] /\ AwaitedIn(dl') = AwaitedIn(dl) /\ OnceIn(dl') /\ Stages'
    <2>1. handleHandoverRequired(radio, target, list) BY DEF SourceRequires
    <2>2. \/ dl' = Sent(radio.g, PrepFailure) /\ task' = task
          \/ /\ task' = Append(task, [kind |-> "required", step |-> "queued", src |-> radio,
                                      target |-> target, list |-> list, cands |-> {}, ok |-> {}])
             /\ dl' = dl /\ target \in HoGnb
      BY <2>1 DEF handleHandoverRequired, rejectHandoverPreparation, Send, Enqueue
    <2>3. PICK t : t = [kind |-> "required", step |-> "queued", src |-> radio, target |-> target,
                        list |-> list, cands |-> {}, ok |-> {}]
      OBVIOUS
    <2> QED BY <1>7, <1>8, <2>2, <2>3
  <1>10. TypeInv' BY <1>1, <1>4, <1>9 DEF TypeInv
  <1>11. PlacesInv'
    <2>1. Own' \subseteq Own BY <1>1, <1>4 DEF Own
    <2>2. ran'.at # "xn" /\ served' \notin ran'.kept BY <1>4
    <2> QED BY <1>1, <1>9, <2>1, <2>2, PlacesKept
  <1>12. KeyInv' BY SMTT(30), <1>1, <1>4, SameKeys
  <1>13. CallsInv' BY <1>1 DEF CallsInv
  <1> QED BY <1>9, <1>10, <1>11, <1>12, <1>13

\* The stage a message is received in.
LEMMA ReceivedStage ==
  ASSUME HoInv, NEW g \in HoGnb, NEW type, Receives(g, type), type # "UEContextReleaseCommand",
         dl' = Received(g)
  PROVE  /\ type = "PathSwitchRequestAcknowledge" => \E m \in SwitchedMsg : Switched(m) /\ Head(dl[g]) = m
         /\ type = "PathSwitchRequestFailure" => Unswitched
         /\ type = "HandoverRequest" => \E m \in RequestMsg : Requested(g, m) /\ Head(dl[g]) = m
         /\ type = "HandoverCommand" => \E m \in CommandMsg : Commanded(m) /\ Head(dl[g]) = m
         /\ type = "HandoverPreparationFailure" => Failed
         /\ dl' \in [HoGnb -> Seq(Msg)] /\ CalmIn(dl')
         /\ AwaitedIn(dl') = AwaitedIn(dl) /\ OnceIn(dl')
  <1>1. dl[g] # <<>> /\ Head(dl[g]).type = type BY DEF Receives
  <1>2. Stages /\ dl \in [HoGnb -> Seq(Msg)] /\ OnceIn(dl) BY DEF HoInv, TypeInv, PlacesInv
  <1>3. /\ \/ \E m \in SwitchedMsg : Switched(m) /\ Head(dl[g]) = m
           \/ Unswitched /\ Head(dl[g]) = SwitchFailure
           \/ \E m \in RequestMsg : Requested(g, m) /\ Head(dl[g]) = m
           \/ \E m \in CommandMsg : Commanded(m) /\ Head(dl[g]) = m
           \/ Failed /\ Head(dl[g]) = PrepFailure
        /\ Received(g) \in [HoGnb -> Seq(Msg)] /\ CalmIn(Received(g))
        /\ AwaitedIn(Received(g)) = AwaitedIn(dl) /\ OnceIn(Received(g))
    BY <1>1, <1>2, Delivery
  <1> QED BY <1>1, <1>3, Types

\* Steps that change the stage but no place, key or call.
LEMMA Reaches ==
  ASSUME HoInv, Stages', dl' \in [HoGnb -> Seq(Msg)], AwaitedIn(dl') = AwaitedIn(dl), OnceIn(dl'),
         UNCHANGED <<served, entry, idle, pdu, chain, allowed, ncc, keys, pendingN2HO, ho, calls, path, tgt,
                     down, inUse>>,
         radio' \in Own, radio' \in Places, bearers' \subseteq Psi,
         ran' \in RanState, ran'.n = ran.n, ran'.at \notin {"xn", "required"}
  PROVE  HoInv'
  <1> USE DEF HoInv
  <1>1. TypeInv' BY DEF TypeInv
  <1>2. Own' \subseteq Own BY DEF Own
  <1>3. PlacesInv' BY <1>2, PlacesKept
  <1>4. ran \in RanState /\ ran.n \in Nat BY SMTT(30), HandoverAssumption DEF TypeInv, RanState
  <1>5. KeyInv' BY SMTT(30), <1>4, SameKeys
  <1>6. CallsInv' BY DEF CallsInv
  <1> QED BY <1>1, <1>3, <1>5, <1>6

\* The RAN's own state by itself.
LEMMA RanStep ==
  ASSUME TypeInv, NEW at \in {"idle", "refused", "moved", "lost"}, ran' = [at |-> at, n |-> ran.n]
  PROVE  ran' \in RanState /\ ran'.at = at /\ ran'.n = ran.n /\ ran.n \in Nat /\ ran \in RanState
  <1>1. ran \in RanState /\ ran.n \in 0 .. MaxHo BY DEF TypeInv, RanState
  <1> QED BY SMTT(30), <1>1, HandoverAssumption DEF RanState

\* The target refuses, and the AMF does not hear of it.
LEMMA TargetRefusesKeeps == ASSUME NEW g \in HoGnb, HoInv, TargetRefuses(g) PROVE HoInv'
  <1>1. /\ Receives(g, "HandoverRequest") /\ dl' = Received(g) /\ ran' = [at |-> "refused", n |-> ran.n]
        /\ UNCHANGED <<served, entry, idle, pdu, chain, allowed, ncc, keys, task, pendingN2HO, ho, calls,
                       path, tgt, down, inUse, radio, bearers>>
    BY DEF TargetRefuses, amfHo, smfHo
  <1>2. /\ \E m \in RequestMsg : Requested(g, m)
        /\ dl' \in [HoGnb -> Seq(Msg)] /\ CalmIn(dl') /\ AwaitedIn(dl') = AwaitedIn(dl) /\ OnceIn(dl')
    BY <1>1, ReceivedStage
  <1>3. PICK m \in RequestMsg : Requested(g, m) BY <1>2
  <1>4. ran' \in RanState /\ ran'.at = "refused" /\ ran'.n = ran.n BY <1>1, RanStep DEF HoInv
  <1>5. KeepsPath' BY <1>1, <1>3 DEF KeepsPath, Requested
  <1>6. Refused' BY <1>1, <1>2, <1>3, <1>4, <1>5 DEF Refused, Requested
  <1>7. Stages' BY <1>6 DEF Stages
  <1>8. radio' \in Own /\ radio' \in Places /\ bearers' \subseteq Psi BY <1>1 DEF Own, HoInv, TypeInv
  <1> QED BY <1>1, <1>2, <1>4, <1>7, <1>8, Reaches

\* The source stops waiting.
LEMMA SourceGivesUpKeeps == HoInv /\ SourceGivesUp => HoInv'
  <1> SUFFICES ASSUME HoInv, SourceGivesUp PROVE HoInv' OBVIOUS
  <1>1. /\ ran.at = "refused" /\ ran' = [at |-> "idle", n |-> ran.n]
        /\ UNCHANGED <<served, entry, idle, pdu, chain, allowed, ncc, keys, task, pendingN2HO, ho, calls,
                       path, tgt, dl, down, inUse, radio, bearers>>
    BY DEF SourceGivesUp, amfHo, smfHo
  <1>2. Refused BY <1>1, Where DEF HoInv
  <1>3. ran' \in RanState /\ ran'.at = "idle" /\ ran'.n = ran.n BY <1>1, RanStep DEF HoInv
  <1>4. Slow => \A p \in bearers' \cap pdu' : Carried(calls, p)'
    BY <1>1, <1>2 DEF Refused, KeepsPath, OnlyReleases, Leads, Carried, Called
  <1>5. Rests(task', entry', {}, served')
    <2>1. {} \cup {served} = {served} OBVIOUS
    <2> QED BY <2>1, <1>1, <1>2 DEF Rests, Refused
  <1>6. Settled' BY <1>1, <1>2, <1>3, <1>4, <1>5 DEF Settled, Refused
  <1>7. Stages' BY <1>6 DEF Stages
  <1>8. radio' \in Own /\ radio' \in Places /\ bearers' \subseteq Psi BY <1>1 DEF Own, HoInv, TypeInv
  <1>9. dl' \in [HoGnb -> Seq(Msg)] /\ AwaitedIn(dl') = AwaitedIn(dl) /\ OnceIn(dl')
    BY <1>1 DEF HoInv, TypeInv, PlacesInv
  <1> QED BY <1>1, <1>3, <1>7, <1>8, <1>9, Reaches

\* The target gives the device up after a failed path switch.
LEMMA TargetGivesUpKeeps == ASSUME NEW g \in HoGnb, HoInv, TargetGivesUp(g) PROVE HoInv'
  <1>1. /\ Receives(g, "PathSwitchRequestFailure") /\ dl' = Received(g) /\ ran' = [at |-> "lost", n |-> ran.n]
        /\ UNCHANGED <<served, entry, idle, pdu, chain, allowed, ncc, keys, task, pendingN2HO, ho, calls,
                       path, tgt, down, inUse, radio, bearers>>
    BY DEF TargetGivesUp, amfHo, smfHo
  <1>2. /\ Unswitched
        /\ dl' \in [HoGnb -> Seq(Msg)] /\ CalmIn(dl') /\ AwaitedIn(dl') = AwaitedIn(dl) /\ OnceIn(dl')
    BY <1>1, ReceivedStage
  <1>3. ran' \in RanState /\ ran'.at = "lost" /\ ran'.n = ran.n BY <1>1, RanStep DEF HoInv
  <1>4. Lost' BY <1>1, <1>2, <1>3 DEF Lost, Unswitched
  <1>5. Stages' BY <1>4 DEF Stages
  <1>6. radio' \in Own /\ radio' \in Places /\ bearers' \subseteq Psi BY <1>1 DEF Own, HoInv, TypeInv
  <1> QED BY <1>1, <1>2, <1>3, <1>5, <1>6, Reaches

\* The device moves as commanded.
LEMMA DeviceMovesKeeps == ASSUME NEW g \in HoGnb, HoInv, DeviceMoves(g) PROVE HoInv'
  <1>1. /\ Receives(g, "HandoverCommand") /\ dl' = Received(g) /\ ran' = [at |-> "moved", n |-> ran.n]
        /\ radio' = Head(dl[g]).to /\ bearers' = Head(dl[g]).cmd
        /\ UNCHANGED <<served, entry, idle, pdu, chain, allowed, ncc, keys, task, pendingN2HO, ho, calls,
                       path, tgt, down, inUse>>
    BY DEF DeviceMoves, amfHo, smfHo
  <1>2. /\ \E m \in CommandMsg : Commanded(m) /\ Head(dl[g]) = m
        /\ dl' \in [HoGnb -> Seq(Msg)] /\ CalmIn(dl') /\ AwaitedIn(dl') = AwaitedIn(dl) /\ OnceIn(dl')
    BY <1>1, ReceivedStage
  <1>3. PICK m \in CommandMsg : Commanded(m) /\ Head(dl[g]) = m BY <1>2
  <1>4. ran' \in RanState /\ ran'.at = "moved" /\ ran'.n = ran.n BY <1>1, RanStep DEF HoInv
  <1>5. m.to \in Places /\ m.to \in Own /\ m.to # served /\ m.cmd \subseteq Psi
    BY <1>3, Types DEF Own, Commanded, HoInv, PlacesInv
  <1>6. Pending' BY <1>1, <1>3 DEF Pending, Commanded
  <1>7. Moved' BY <1>1, <1>2, <1>3, <1>4, <1>5, <1>6 DEF Moved, Commanded, KeepsPath
  <1>8. Stages' BY <1>7 DEF Stages
  <1>9. radio' \in Own /\ radio' \in Places /\ bearers' \subseteq Psi BY <1>1, <1>3, <1>5
  <1> QED BY <1>1, <1>2, <1>4, <1>8, <1>9, Reaches

\* RAN IDs are freed that only the handover had, at places it leaves.
LEMMA PlacesFreed ==
  ASSUME PlacesInv, TypeInv, TypeInv', entry' = entry, AwaitedIn(dl') = AwaitedIn(dl), OnceIn(dl'),
         Own' \subseteq Own, NEW freed \in SUBSET Own, freed \cap Own' = {},
         \A h \in HoGnb, s \in HoRan : s \in inUse[h] /\ Place(h, s) \notin freed => s \in inUse'[h],
         ran'.at \notin {"xn", "required"}
  PROVE  PlacesInv'
  <1>1. Own \subseteq Places /\ AwaitedIn(dl) \subseteq Places BY SMTT(30) DEF Own, TypeInv, RanState, AwaitedIn
  <1>2. \A p \in Places : p = Place(p.g, p.r) /\ p.g \in HoGnb /\ p.r \in HoRan BY SMTT(30) DEF Places, Place
  <1>3. \A p \in Places : Reserved(p) /\ p \notin freed => Reserved(p)' BY <1>2 DEF Reserved
  <1>4. \A p \in Own' : Reserved(p)' BY <1>1, <1>3 DEF PlacesInv
  <1>5. \A p \in AwaitedIn(dl') : Reserved(p)' /\ p \notin Own' BY <1>1, <1>3 DEF PlacesInv
  <1>6. ASSUME NEW h \in HoGnb, NEW s \in HoRan, entry'[h][s] = "other" PROVE s \in inUse'[h]
    <2>1. entry[h][s] = "other" /\ s \in inUse[h] BY <1>6 DEF PlacesInv
    <2>2. Place(h, s).g = h /\ Place(h, s).r = s BY DEF Place
    <2>3. ~Reserved(Place(h, s)) BY <2>1, <2>2 DEF Reserved
    <2>4. Place(h, s) \notin freed BY <2>3 DEF PlacesInv
    <2> QED BY <2>1, <2>4
  <1> QED BY <1>4, <1>5, <1>6 DEF PlacesInv

\* The source is told of a failure and keeps the device.
LEMMA SourceStaysKeeps == ASSUME NEW g \in HoGnb, HoInv, SourceStays(g) PROVE HoInv'
  <1>1. /\ Receives(g, "HandoverPreparationFailure") /\ dl' = Received(g) /\ ran' = [at |-> "idle", n |-> ran.n]
        /\ inUse' = [h \in HoGnb |-> {r \in inUse[h] : Place(h, r) \notin ran.kept}]
        /\ UNCHANGED <<served, entry, idle, pdu, chain, allowed, ncc, keys, task, pendingN2HO, ho, calls,
                       path, tgt, down, radio, bearers>>
    BY DEF SourceStays, amfHo, smfHo
  <1>2. /\ Failed
        /\ dl' \in [HoGnb -> Seq(Msg)] /\ CalmIn(dl') /\ AwaitedIn(dl') = AwaitedIn(dl) /\ OnceIn(dl')
    BY <1>1, ReceivedStage
  <1> USE DEF HoInv
  <1>3. ran' \in RanState /\ ran'.at = "idle" /\ ran'.n = ran.n /\ ran.n \in Nat /\ ran \in RanState
    BY <1>1, RanStep
  <1>4. Slow => \A p \in bearers' \cap pdu' : Carried(calls, p)'
    BY <1>1, <1>2 DEF Failed, KeepsPath, OnlyReleases, Leads, Carried, Called
  <1>5. Settled' BY <1>1, <1>2, <1>3, <1>4 DEF Settled, Failed
  <1>6. Stages' BY <1>5 DEF Stages
  <1>7. inUse' \in [HoGnb -> SUBSET HoRan]
        /\ \A h \in HoGnb, s \in HoRan : s \in inUse[h] /\ Place(h, s) \notin ran.kept => s \in inUse'[h]
    BY <1>1 DEF TypeInv
  <1>8. TypeInv' BY <1>1, <1>2, <1>3, <1>7 DEF TypeInv
  <1>9. PlacesInv'
    <2>1. ran.at = "required" /\ served = radio BY <1>2 DEF Failed
    <2>2. Own' = {served} /\ ran.kept \in SUBSET Own /\ served \in Own BY <1>1, <1>3, <2>1 DEF Own
    <2>3. served \notin ran.kept BY <2>1 DEF PlacesInv
    <2>4. Own' \subseteq Own /\ ran.kept \cap Own' = {} BY <2>2, <2>3
    <2> QED BY <1>1, <1>2, <1>3, <1>7, <1>8, <2>2, <2>4, PlacesFreed
  <1>10. KeyInv' BY SMTT(30), <1>1, <1>3, SameKeys
  <1>11. CallsInv' BY <1>1 DEF CallsInv
  <1> QED BY <1>6, <1>8, <1>9, <1>10, <1>11

\* The target is told of the switched path, and the source's place is freed.
LEMMA TargetSwitchedKeeps == ASSUME NEW g \in HoGnb, HoInv, TargetSwitched(g) PROVE HoInv'
  <1>1. /\ Receives(g, "PathSwitchRequestAcknowledge") /\ dl' = Received(g)
        /\ ran' = [at |-> "idle", n |-> ran.n] /\ bearers' = Head(dl[g]).switched
        /\ inUse' = [inUse EXCEPT ![ran.from.g] = @ \ {ran.from.r}]
        /\ UNCHANGED <<served, entry, idle, pdu, chain, allowed, ncc, keys, task, pendingN2HO, ho, calls,
                       path, tgt, down, radio>>
    BY DEF TargetSwitched, amfHo, smfHo
  <1>2. /\ \E m \in SwitchedMsg : Switched(m) /\ Head(dl[g]) = m
        /\ dl' \in [HoGnb -> Seq(Msg)] /\ CalmIn(dl') /\ AwaitedIn(dl') = AwaitedIn(dl) /\ OnceIn(dl')
    BY <1>1, ReceivedStage
  <1>3. PICK m \in SwitchedMsg : Switched(m) /\ Head(dl[g]) = m BY <1>2
  <1> USE DEF HoInv
  <1>4. ran' \in RanState /\ ran'.at = "idle" /\ ran'.n = ran.n /\ ran.n \in Nat /\ ran \in RanState
    BY <1>1, RanStep
  <1>5. bearers' = m.switched /\ bearers' \subseteq Psi BY <1>1, <1>3, Types
  <1>6. Slow => \A p \in bearers' \cap pdu' : Carried(calls, p)'
    BY <1>1, <1>3, <1>5 DEF Switched, Carried
  <1>7. Rests(task', entry', {}, served')
    <2>1. {} \cup {served} = {served} OBVIOUS
    <2> QED BY <2>1, <1>1, <1>3 DEF Rests, Switched
  <1>8. Settled' BY <1>1, <1>2, <1>3, <1>4, <1>6, <1>7 DEF Settled, Switched
  <1>9. Stages' BY <1>8 DEF Stages
  <1>10. ran.at = "xn" /\ served = radio /\ ran.from \in Places /\ ran.from # radio
    BY <1>3, <1>4 DEF Switched, RanState, PlacesInv
  <1>11. inUse' \in [HoGnb -> SUBSET HoRan]
         /\ \A h \in HoGnb, s \in HoRan : s \in inUse[h] /\ Place(h, s) \notin {ran.from} => s \in inUse'[h]
    <2>1. ran.from.g \in HoGnb /\ ran.from = Place(ran.from.g, ran.from.r) BY <1>10 DEF Places, Place
    <2>2. inUse \in [HoGnb -> SUBSET HoRan] BY DEF TypeInv
    <2>3. \A h \in HoGnb : inUse'[h] = IF h = ran.from.g THEN inUse[h] \ {ran.from.r} ELSE inUse[h]
      BY <1>1, <2>1, <2>2
    <2>4. inUse' \in [HoGnb -> SUBSET HoRan] BY <1>1, <2>1, <2>2
    <2> QED BY <2>1, <2>3, <2>4
  <1>12. TypeInv' BY <1>1, <1>2, <1>4, <1>5, <1>11 DEF TypeInv
  <1>13. PlacesInv'
    <2>1. Own' = {radio} /\ {ran.from} \in SUBSET Own /\ radio \in Own BY <1>1, <1>4, <1>10 DEF Own
    <2>2. Own' \subseteq Own /\ {ran.from} \cap Own' = {} BY <2>1, <1>10
    <2> QED BY <1>1, <1>2, <1>4, <1>11, <1>12, <2>1, <2>2, PlacesFreed
  <1>14. KeyInv' BY SMTT(30), <1>1, <1>4, SameKeys
  <1>15. CallsInv' BY <1>1 DEF CallsInv
  <1> QED BY <1>9, <1>12, <1>13, <1>14, <1>15

\* The target admits sessions under a RAN ID that is not in use.
LEMMA TargetAdmitsKeeps ==
  ASSUME NEW g \in HoGnb, NEW r \in HoRan, NEW admitted \in SUBSET Psi, HoInv, TargetAdmits(g, r, admitted)
  PROVE  HoInv'
  <1>1. /\ Receives(g, "HandoverRequest") /\ dl' = Received(g) /\ r \notin inUse[g]
        /\ inUse' = [inUse EXCEPT ![g] = @ \cup {r}] /\ ran' = [ran EXCEPT !.kept = {Place(g, r)}]
        /\ admitted \subseteq Head(dl[g]).list
        /\ handleHandoverRequestAcknowledge(g, r, admitted, Head(dl[g]).list \ admitted)
        /\ UNCHANGED <<served, entry, idle, pdu, chain, allowed, ncc, keys, pendingN2HO, ho, calls,
                       path, tgt, down, radio, bearers>>
    BY DEF TargetAdmits, smfHo
  <1>2. /\ \E m \in RequestMsg : Requested(g, m) /\ Head(dl[g]) = m
        /\ dl' \in [HoGnb -> Seq(Msg)] /\ CalmIn(dl') /\ AwaitedIn(dl') = AwaitedIn(dl) /\ OnceIn(dl')
    BY <1>1, ReceivedStage
  <1>3. PICK m \in RequestMsg : Requested(g, m) /\ Head(dl[g]) = m BY <1>2
  <1> USE DEF HoInv
  <1>4. Place(g, r) \in Places /\ Place(g, r).g = g /\ Place(g, r).r = r BY DEF Place, Places
  <1>5. /\ ran' \in RanState /\ ran'.at = "required" /\ ran'.n = ran.n /\ ran'.list = ran.list
        /\ ran'.kept = {Place(g, r)} /\ ran.n \in Nat /\ ran \in RanState /\ ran.at = "required"
    <2>1. ran \in RanState /\ ran.at = "required" BY <1>3 DEF TypeInv, Requested
    <2>2. ran \in [at : {"required"}, n : 0 .. MaxHo, list : SUBSET Psi, kept : SUBSET Places]
      BY <2>1 DEF RanState
    <2>3. ran.n \in Nat BY SMTT(30), <2>2, HandoverAssumption
    <2> QED BY <1>1, <1>4, <2>1, <2>2, <2>3 DEF RanState
  <1>6. PICK t : t = [kind |-> "ack", step |-> "queued", to |-> Place(g, r), admitted |-> admitted,
                      failed |-> m.list \ admitted, known |-> {}, ok |-> {}, state |-> pendingN2HO]
    OBVIOUS
  <1>7. task = <<>> /\ pendingN2HO # 0 /\ pendingN2HO \in Nat BY SMTT(30), <1>3 DEF Requested, Pending, TypeInv
  <1>8. /\ t \in AckTask /\ t.step = "queued" /\ t.to = Place(g, r) /\ t.admitted = admitted
        /\ t.failed = m.list \ admitted /\ t.ok = {} /\ t.state = pendingN2HO
    BY <1>4, <1>6, <1>7, Types DEF AckTask
  <1>9. task' = <<t>>
    <2>1. task' = Append(task, t) BY <1>1, <1>3, <1>6, <1>7 DEF handleHandoverRequestAcknowledge, Enqueue
    <2> QED BY <2>1, <1>7, Tuples
  <1>10. Answered(t)'
    <2>1. KeepsPath' /\ Pending' BY <1>1, <1>3 DEF KeepsPath, Pending, Requested
    <2>2. ran'.list \subseteq t.admitted \cup t.failed \cup ho'[pendingN2HO'].prepReleased
      BY <1>1, <1>3, <1>5, <1>8 DEF Requested
    <2> QED BY <1>1, <1>2, <1>3, <1>5, <1>8, <1>9, <2>1, <2>2 DEF Answered, Requested
  <1>11. Stages' BY <1>8, <1>10 DEF Stages
  <1>12. TypeInv'
    <2>1. inUse' \in [HoGnb -> SUBSET HoRan] BY <1>1 DEF TypeInv
    <2> QED BY <1>1, <1>2, <1>5, <2>1 DEF TypeInv
  <1>13. PlacesInv'
    <2>1. Own' \subseteq Own \cup {Place(g, r)} BY <1>1, <1>5 DEF Own
    <2>2. served.r \in inUse[served.g] BY DEF PlacesInv, Own, Reserved
    <2>3. served # Place(g, r) BY <1>1, <1>4, <2>2
    <2> QED BY <1>1, <1>2, <1>5, <2>1, <2>3, PlaceTaken
  <1>14. KeyInv' BY SMTT(30), <1>1, <1>5, SameKeys
  <1>15. CallsInv' BY <1>1 DEF CallsInv
  <1> QED BY <1>11, <1>12, <1>13, <1>14, <1>15

\* The command to release the source, sent or lost.
LEMMA WritesRelease ==
  ASSUME TypeInv, OnceIn(dl), CalmIn(dl), NEW p \in Places, p \notin AwaitedIn(dl),
         dl' = Sent(p.g, Release(p.r))
  PROVE  /\ dl' \in [HoGnb -> Seq(Msg)] /\ CalmIn(dl') /\ OnceIn(dl')
         /\ AwaitedIn(dl') \subseteq AwaitedIn(dl) \cup {p}
  <1>1. dl \in [HoGnb -> Seq(Msg)] BY DEF TypeInv
  <1>2. p.g \in HoGnb /\ p.r \in HoRan /\ p = Place(p.g, p.r) BY DEF Places, Place
  <1>3. CASE p.g \in down BY <1>1, <1>3 DEF Sent
  <1>4. CASE p.g \notin down
    <2>1. PICK e : e = dl' OBVIOUS
    <2>2. PICK g \in HoGnb, r \in HoRan : g = p.g /\ r = p.r BY <1>2
    <2>3. e = QueuedIn(dl, g, Release(r)) BY <1>4, <2>1, <2>2 DEF Sent, QueuedIn
    <2>4. Place(g, r) \notin AwaitedIn(dl) BY <1>2, <2>2
    <2>5. /\ e \in [HoGnb -> Seq(Msg)] /\ CalmIn(e)
          /\ AwaitedIn(e) = AwaitedIn(dl) \cup {Place(g, r)} /\ OnceIn(e)
      BY <1>1, <2>3, <2>4, Releasing
    <2> QED BY <2>1, <2>2, <2>5, <1>2
  <1> QED BY <1>3, <1>4

\* The target notifies: the binding follows the device and the source's place is awaited.
LEMMA TargetNotifiesKeeps == HoInv /\ TargetNotifies => HoInv'
  <1> SUFFICES ASSUME HoInv, TargetNotifies PROVE HoInv' OBVIOUS
  <1> USE DEF HoInv
  <1>1. Moved BY Where DEF TargetNotifies
  <1>2. pendingN2HO # 0 /\ ho[pendingN2HO].src = served BY <1>1 DEF Moved, Pending
  <1>3. PICK state : state = ho[pendingN2HO] OBVIOUS
  <1>4. /\ pendingN2HO' = 0 /\ served' = radio /\ calls' = calls \cup completionCalls(state)
        /\ entry' = PutIn(entry, served, "none") /\ dl' = Sent(served.g, Release(served.r))
        /\ ran' = [at |-> "idle", n |-> ran.n]
        /\ UNCHANGED <<idle, pdu, chain, allowed, ncc, keys, task, ho, path, tgt, down, inUse, radio, bearers>>
    BY <1>2, <1>3 DEF TargetNotifies, handleHandoverNotify, Send, Release, PutIn, smfHo
  <1>5. served \in Places /\ radio \in Places /\ entry \in Entries /\ served # radio /\ CalmIn(dl)
    BY <1>1 DEF Moved, TypeInv, Entries
  <1>6. ran' \in RanState /\ ran'.at = "idle" /\ ran'.n = ran.n /\ ran.n \in Nat /\ ran \in RanState
    BY <1>4, RanStep
  <1>7. PICK f : f = entry' OBVIOUS
  <1>8. /\ f \in Entries /\ \A S : EntriesAt(entry, S) => EntriesAt(f, S \ {served})
        /\ \A h \in HoGnb, s \in HoRan : f[h][s] = IF Place(h, s) = served THEN "none" ELSE entry[h][s]
    BY SMTT(30), <1>4, <1>5, <1>7, Erased
  <1>9. served \in Own /\ radio \in Own /\ served \notin AwaitedIn(dl) /\ OnceIn(dl) BY DEF Own, PlacesInv
  <1>10. /\ dl' \in [HoGnb -> Seq(Msg)] /\ CalmIn(dl') /\ OnceIn(dl')
         /\ AwaitedIn(dl') \subseteq AwaitedIn(dl) \cup {served}
    BY <1>4, <1>5, <1>9, WritesRelease
  <1>11. Rests(task', entry', {}, served')
    <2>1. ({served} \cup {radio}) \ {served} = {} \cup {radio} /\ {served} \ {served} = {} BY <1>5
    <2>2. CASE task = <<>> /\ EntriesAt(entry, {served} \cup {radio})
      <3>1. EntriesAt(f, {} \cup {radio}) BY <1>8, <2>1, <2>2
      <3> QED BY <1>4, <1>7, <2>2, <3>1 DEF Rests
    <2>3. ASSUME NEW u \in RegisterTask, u.to = radio, task = <<u>>, EntriesAt(entry, {served})
          PROVE  Rests(task', entry', {}, served')
      <3>1. EntriesAt(f, {}) BY <1>8, <2>1, <2>3
      <3> QED BY <1>4, <1>7, <2>3, <3>1 DEF Rests
    <2> QED BY <1>1, <2>2, <2>3 DEF Moved, Rests
  <1>12. state \in HoState BY SMTT(30), <1>2, <1>3 DEF TypeInv
  <1>13. \A c \in completionCalls(state) :
            /\ c \in Call /\ c.leg # "release"
            /\ c.leg = "deact" => c.psi \in state.targetFailed
    BY SMTT(30), <1>12 DEF completionCalls, Call, HoState
  <1>14. Slow => \A p \in bearers' \cap pdu' : Carried(calls, p)'
    <2> SUFFICES ASSUME Slow, NEW p \in bearers \cap pdu PROVE Carried(calls, p)' BY <1>4
    <2>1. /\ OnlyReleases(calls) /\ p \in state.admitted /\ p \notin state.targetFailed /\ tgt[p] = radio.g
      BY <1>1, <1>3 DEF Moved, Leads
    <2>2. Called(calls', "comp", p) BY <1>4, <2>1 DEF Called, completionCalls
    <2>3. ~Called(calls', "deact", p) BY <1>4, <1>13, <2>1 DEF Called, OnlyReleases
    <2> QED BY <1>4, <2>1, <2>2, <2>3 DEF Carried
  <1>15. Settled' BY <1>4, <1>6, <1>10, <1>11, <1>14 DEF Settled, NothingAdmitted
  <1>16. Stages' BY <1>15 DEF Stages
  <1>17. TypeInv'
    <2>1. calls' \subseteq Call BY <1>4, <1>13 DEF TypeInv
    <2>2. pendingN2HO' \in 0 .. Len(ho') /\ ho' \in Seq(HoState) BY SMTT(30), <1>4 DEF TypeInv
    <2> QED BY <1>4, <1>5, <1>6, <1>7, <1>8, <1>10, <2>1, <2>2 DEF TypeInv, Entries
  <1>18. PlacesInv'
    <2>1. Own' = {radio} BY <1>4, <1>6 DEF Own
    <2>2. Own \subseteq Places /\ AwaitedIn(dl) \subseteq Places BY DEF Own, TypeInv, RanState, AwaitedIn
    <2>3. \A p \in Places : Reserved(p) => Reserved(p)' BY <1>4, <1>7, <1>8 DEF Reserved, Places
    <2>4. \A p \in Own' : Reserved(p)' BY <1>9, <2>1, <2>2, <2>3 DEF PlacesInv
    <2>5. \A p \in AwaitedIn(dl') : Reserved(p)' /\ p \notin Own'
      BY <1>5, <1>9, <1>10, <2>1, <2>2, <2>3 DEF PlacesInv
    <2>6. \A h \in HoGnb, s \in HoRan : entry'[h][s] = "other" => s \in inUse'[h]
      BY <1>4, <1>7, <1>8 DEF PlacesInv
    <2> QED BY <1>6, <1>10, <2>4, <2>5, <2>6 DEF PlacesInv
  <1>19. KeyInv' BY SMTT(30), <1>4, <1>6, SameKeys
  <1>20. CallsInv' BY <1>4, <1>13, CallsKept
  <1> QED BY <1>16, <1>17, <1>18, <1>19, <1>20

-----------------------------------------------------------------------------
(* The invariant holds *)

\* A registered UE is settled where it is.
LEMMA HandoverStarts == HandoverInit => HoInv
  <1> SUFFICES ASSUME HandoverInit PROVE HoInv OBVIOUS
  <1>1. PICK r \in HoRan : <<Home, r>> \notin Others /\ served = Place(Home, r) BY DEF HandoverInit
  <1>2. Home \in HoGnb /\ Nobody \notin HoGnb /\ MaxHo \in Nat BY SMTT(30), HandoverAssumption
  <1>3. served \in Places /\ served.g = Home /\ served.r = r /\ radio = served
    BY <1>1, <1>2 DEF HandoverInit, Place, Places
  <1>4. entry \in Entries /\ \A g \in HoGnb, s \in HoRan :
           entry[g][s] = IF Place(g, s) = served THEN "ue" ELSE IF <<g, s>> \in Others THEN "other" ELSE "none"
    BY DEF HandoverInit, Entries
  <1>5. /\ inUse \in [HoGnb -> SUBSET HoRan]
        /\ \A g \in HoGnb, s \in HoRan : s \in inUse[g] <=> entry[g][s] # "none"
    BY DEF HandoverInit
  <1>6. /\ dl \in [HoGnb -> Seq(Msg)] /\ \A g \in HoGnb : DOMAIN dl[g] = {}
    BY SMTT(30) DEF HandoverInit
  <1>7. ran \in RanState /\ ran.at = "idle" /\ ran.n = 0 BY SMTT(30), <1>2 DEF HandoverInit, RanState
  <1>8. CalmIn(dl) /\ OnceIn(dl) BY <1>6 DEF CalmIn, OnceIn
  <1>9. AwaitedIn(dl) = {} BY <1>6 DEF AwaitedIn, Places
  <1>10. TypeInv
    <2>1. ho = <<>> /\ pendingN2HO = 0 /\ ho \in Seq(HoState) /\ Len(ho) = 0 BY SMTT(30) DEF HandoverInit
    <2>2. path \in [Psi -> HoGnb \cup {Nobody}] /\ tgt \in [Psi -> HoGnb \cup {Nobody}]
      BY <1>2 DEF HandoverInit
    <2>3. /\ idle = FALSE /\ chain \in BOOLEAN /\ allowed \in BOOLEAN /\ pdu \subseteq Psi
          /\ bearers \subseteq Psi /\ calls \subseteq Call /\ down \subseteq HoGnb
      BY DEF HandoverInit
    <2> QED BY SMTT(30), <1>3, <1>4, <1>5, <1>6, <1>7, <2>1, <2>2, <2>3 DEF TypeInv, Entries
  <1>11. EntriesAt(entry, {} \cup {served}) BY <1>4 DEF EntriesAt
  <1>12. \A p \in bearers \cap pdu : Carried(calls, p)
    BY <1>3 DEF HandoverInit, Carried, Called
  <1>13. Settled BY <1>3, <1>7, <1>8, <1>11, <1>12 DEF Settled, Rests, NothingAdmitted, HandoverInit
  <1>14. Stages BY <1>13 DEF Stages
  <1>15. PlacesInv
    <2>1. Own = {served} BY <1>3, <1>7 DEF Own
    <2>2. Reserved(served)
      <3>1. entry[Home][r] = "ue" BY <1>1, <1>2, <1>4
      <3> QED BY <3>1, <1>2, <1>3, <1>5 DEF Reserved
    <2>3. \A g \in HoGnb, s \in HoRan : entry[g][s] = "other" => s \in inUse[g] BY <1>5
    <2> QED BY <1>7, <1>8, <1>9, <2>1, <2>2, <2>3 DEF PlacesInv
  <1>16. KeyInv
    <2>1. keys = <<>> /\ ncc = nccModulus - 1 BY DEF HandoverInit
    <2>2. keys \in Seq(0 .. nccModulus - 1) /\ Len(keys) = 0 /\ DOMAIN keys = {} BY SMTT(30), <2>1
    <2>3. (0 + nccModulus - 1) % nccModulus = nccModulus - 1 BY SMTT(30) DEF nccModulus
    <2> QED BY SMTT(30), <1>7, <2>1, <2>2, <2>3 DEF KeyInv
  <1>17. CallsInv BY DEF CallsInv, HandoverInit
  <1> QED BY <1>10, <1>14, <1>15, <1>16, <1>17 DEF HoInv

\* Nothing changes when nothing happens.
LEMMA HandoverStutters == HoInv /\ UNCHANGED hoVars => HoInv'
  <1> SUFFICES ASSUME HoInv, UNCHANGED hoVars PROVE HoInv' OBVIOUS
  <1> USE DEF HoInv
  <1>1. UNCHANGED <<served, entry, idle, pdu, chain, allowed, ncc, keys, task, pendingN2HO, ho, calls,
                    path, tgt, dl, down, inUse, radio, bearers, ran>>
    BY DEF hoVars, amfHo, smfHo, ranHo
  <1>2. Stages'
    <2>1. \A S, g : /\ Leads(path, S \cap pdu, g) => Leads(path', S \cap pdu', g)
                    /\ Leads(tgt, S \cap pdu, g) => Leads(tgt', S \cap pdu', g)
      BY <1>1
    <2>2. \A p \in pdu' : Carried(calls, p) => Carried(calls, p)' BY <1>1 DEF Carried
    <2> QED BY <1>1, <2>1, <2>2, UserPlaneStep
  <1>3. TypeInv' BY <1>1 DEF TypeInv
  <1>4. PlacesInv' BY <1>1, PlacesStay
  <1>5. KeyInv' BY <1>1 DEF KeyInv
  <1>6. CallsInv' BY <1>1 DEF CallsInv
  <1> QED BY <1>2, <1>3, <1>4, <1>5, <1>6

\* Every step of the AMF, the SMF and the RAN keeps the invariant.
LEMMA HandoverKeeps == HoInv /\ [HandoverNext]_hoVars => HoInv'
  <1> SUFFICES ASSUME HoInv, [HandoverNext]_hoVars PROVE HoInv' OBVIOUS
  <1>1. CASE Serial
    BY <1>1, XnSwitchPSIKeeps, CompletePathSwitchKeeps, PathSwitchAckLostKeeps, PathSwitchTooLateKeeps,
       PathSwitchFailsKeeps, PreparationAbortedKeeps, N2PreparingSMFKeeps, ContinueHandoverPreparationKeeps,
       PreparationRejectedKeeps, N2PrepareSMFKeeps, PreparationDroppedKeeps,
       CompleteHandoverPreparationKeeps, RegisterAtTargetKeeps
       DEF Serial
  <1>2. CASE RanReacts
    BY <1>2, TargetAdmitsKeeps, DeviceMovesKeeps, SourceReleasesKeeps, SourceStaysKeeps, TargetSwitchedKeeps,
       TargetGivesUpKeeps, TargetNotifiesKeeps, SourceGivesUpKeeps
       DEF RanReacts
  <1>3. CASE \E c \in calls : smfExecutes(c) BY <1>3, SmfExecutesKeeps
  <1>4. CASE \E g \in HoGnb, r \in HoRan, list \in SUBSET Psi, failed \in SUBSET Psi :
                XnHandover(g, r, list, failed)
    BY <1>4, XnHandoverKeeps
  <1>5. CASE \E target \in HoGnb \cup {Nobody}, list \in SUBSET Psi : SourceRequires(target, list)
    BY <1>5, SourceRequiresKeeps
  <1>6. CASE \E p \in Psi : handlePDUSessionResourceSetupResponse(p) BY <1>6, SetupResponseKeeps
  <1>7. CASE \E g \in HoGnb : TargetRefuses(g) \/ AssociationBreaks(g)
    BY <1>7, TargetRefusesKeeps, AssociationBreaksKeeps
  <1>8. CASE UNCHANGED hoVars BY <1>8, HandoverStutters
  <1> QED BY <1>1, <1>2, <1>3, <1>4, <1>5, <1>6, <1>7, <1>8 DEF HandoverNext

\* The inductive invariant: a handover is in one of the stages, its places are its own, and
\* it has a key of its own.
THEOREM HandoverInvariant == HandoverSpec => []HoInv
  <1>1. HandoverInit => HoInv BY HandoverStarts
  <1>2. HoInv /\ [HandoverNext]_hoVars => HoInv' BY HandoverKeeps
  <1> QED BY <1>1, <1>2, PTL DEF HandoverSpec
-----------------------------------------------------------------------------
(* What follows *)

\* Between handovers, whatever happened during them, the AMF reaches the device where it is,
\* and only there (served and the entries that handover.go rewrites).
THEOREM BindingFollows == HandoverSpec => []BoundWhereDeviceIs
  <1>1. HoInv => BoundWhereDeviceIs
    <2> SUFFICES ASSUME HoInv, Quiet PROVE /\ served = radio /\ (pendingN2HO # 0 => ho[pendingN2HO].admitted = {})
                 /\ \A g \in HoGnb, r \in HoRan : entry[g][r] = "ue" <=> Place(g, r) = radio
      BY DEF BoundWhereDeviceIs
    <2>1. Settled /\ task = <<>> BY Where DEF HoInv, Quiet, NothingUnderWay
    <2>2. EntriesAt(entry, {} \cup {served}) BY <2>1, Tuples DEF Settled, Rests
    <2> QED BY <2>1, <2>2 DEF Settled, NothingAdmitted, EntriesAt
  <1> QED BY <1>1, HandoverInvariant, PTL

\* The keys sent so far, no more than handovers were started.
LEMMA KeysSent ==
  ASSUME HoInv
  PROVE  \E n \in Nat : /\ n <= MaxHo /\ DOMAIN keys = 1 .. n
                        /\ \A i \in 1 .. n : keys[i] = (i - 1) % 8
  <1>1. PICK n : n = Len(keys) OBVIOUS
  <1>2. n \in Nat /\ DOMAIN keys = 1 .. n BY SMTT(30), <1>1 DEF HoInv, KeyInv
  <1>3. PICK m : m = ran.n OBVIOUS
  <1>4. m \in 0 .. MaxHo /\ n <= m BY <1>1, <1>3 DEF HoInv, TypeInv, RanState, KeyInv
  <1>5. n <= MaxHo BY SMTT(30), <1>2, <1>4, HandoverAssumption
  <1>6. \A i \in 1 .. n : keys[i] = (i - 1) % 8 BY <1>2 DEF HoInv, KeyInv, nccModulus
  <1> QED BY <1>2, <1>5, <1>6

\* An NCC that was sent to a target (NextNHLocked) is sent again only eight keys later, also
\* when handovers that used one fail half way.
THEOREM KeyCycle ==
  HandoverSpec => [](\A i, j \in DOMAIN keys : i < j /\ keys[i] = keys[j] => j - i >= nccModulus)
  <1>1. HoInv => \A i, j \in DOMAIN keys : i < j /\ keys[i] = keys[j] => j - i >= nccModulus
    <2> SUFFICES ASSUME HoInv, NEW i \in DOMAIN keys, NEW j \in DOMAIN keys, i < j, keys[i] = keys[j]
                 PROVE  j - i >= nccModulus
      OBVIOUS
    <2>1. PICK n \in Nat : DOMAIN keys = 1 .. n /\ \A k \in 1 .. n : keys[k] = (k - 1) % 8 BY KeysSent
    <2>2. (i - 1) % 8 = (j - 1) % 8 BY <2>1
    <2>3. i \in 1 .. n /\ j \in 1 .. n BY <2>1
    <2> QED BY SMTT(30), <2>2, <2>3 DEF nccModulus
  <1> QED BY <1>1, HandoverInvariant, PTL

\* No two targets are given the same NCC, as long as there are no more handovers than NCCs.
THEOREM KeySafety ==
  ASSUME MaxHo <= nccModulus
  PROVE  HandoverSpec => []KeysFresh
  <1>1. HoInv => KeysFresh
    <2> SUFFICES ASSUME HoInv, NEW i \in DOMAIN keys, NEW j \in DOMAIN keys, keys[i] = keys[j] PROVE i = j
      BY DEF KeysFresh
    <2>1. PICK n \in Nat : /\ n <= MaxHo /\ DOMAIN keys = 1 .. n
                           /\ \A k \in 1 .. n : keys[k] = (k - 1) % 8
      BY KeysSent
    <2>2. (i - 1) % 8 = (j - 1) % 8 BY <2>1
    <2>3. i \in 1 .. n /\ j \in 1 .. n BY <2>1
    <2>4. n <= 8 BY SMTT(30), <2>1, HandoverAssumption DEF nccModulus
    <2>5. i \in 1 .. 8 /\ j \in 1 .. 8 BY SMTT(30), <2>3, <2>4
    <2> QED BY SMTT(30), <2>2, <2>5
  <1> QED BY <1>1, HandoverInvariant, PTL

\* No step writes an entry that is another UE's.
LEMMA EntryWritten ==
  ASSUME HoInv, [HandoverNext]_hoVars, NEW g \in HoGnb, NEW r \in HoRan, entry[g][r] = "other"
  PROVE  entry'[g][r] = "other"
  <1> USE DEF HoInv
  <1>1. /\ entry \in Entries /\ served \in Places /\ radio \in Places /\ Place(g, r) \in Places
        /\ Place(g, r).g = g /\ Place(g, r).r = r
    BY DEF TypeInv, Entries, Place, Places
  <1>2. Place(g, r) \notin Own
    <2>1. \A p \in Own : Reserved(p) BY DEF PlacesInv
    <2> QED BY <1>1, <2>1 DEF Reserved
  <1>3. served # Place(g, r) /\ radio # Place(g, r) BY <1>2 DEF Own
  <1>4. CASE completePathSwitch
    <2>1. /\ Heading("xn", "smf")
          /\ \E src \in IF Holders = {} THEN {Nobody} ELSE Holders : entry' = Rebound(Head(task), src)
      BY <1>4 DEF completePathSwitch
    <2>2. PICK t \in XnTask : Switching(t) /\ Head(task) = t /\ EntriesAt(entry, {served}) BY <2>1, HeadingXn
    <2>3. t.to = radio /\ t.to # served BY <2>2 DEF Switching
    <2> QED BY <1>3, <2>1, <2>2, <2>3, ReboundEntries
  <1>5. CASE registerAtTarget
    <2>1. PICK p : p = Head(task).to OBVIOUS
    <2>2. p \in Own \cap Places BY <1>5, <2>1, StageRegisters
    <2>3. PICK e : e = entry' OBVIOUS
    <2>4. e = PutIn(entry, p, "ue") BY <1>5, <2>1, <2>3 DEF registerAtTarget, PutIn
    <2>6. entry \in Entries /\ p \in Places BY <1>1, <2>2
    <2>5. \A a \in HoGnb, b \in HoRan : e[a][b] = IF Place(a, b) = p THEN "ue" ELSE entry[a][b]
      BY SMTT(30), <2>4, <2>6, Entered
    <2> QED BY <1>2, <2>2, <2>3, <2>5
  <1>6. CASE TargetNotifies
    <2>1. PICK e : e = entry' OBVIOUS
    <2>4. Moved BY <1>6, Where DEF TargetNotifies
    <2>2. e = PutIn(entry, served, "none")
      BY <1>6, <2>1, <2>4 DEF TargetNotifies, handleHandoverNotify, PutIn, Moved, Pending
    <2>3. e[g][r] = IF Place(g, r) = served THEN "none" ELSE entry[g][r] BY SMTT(30), <1>1, <2>2, Erased
    <2> QED BY <1>3, <2>1, <2>3
  <1>7. ASSUME NEW h \in HoGnb, SourceReleases(h) PROVE entry'[g][r] = "other"
    <2>1. PICK q \in HoRan : q = Head(dl[h]).r /\ Reserved(Place(h, q)) /\ Place(h, q) \in Places
      BY <1>7, ReleasedPlace
    <2>2. Place(h, q) # Place(g, r) BY <1>1, <2>1 DEF Reserved
    <2>3. PICK p : p = Place(h, q) OBVIOUS
    <2>4. PICK e : e = entry' OBVIOUS
    <2>5. e = entry \/ e = PutIn(entry, p, "none")
      BY <1>7, <2>1, <2>3, <2>4 DEF SourceReleases, handleUEContextReleaseComplete, PutIn, Place
    <2>6. CASE e = PutIn(entry, p, "none")
      <3>2. entry \in Entries /\ p \in Places BY <1>1, <2>1, <2>3
      <3>1. \A a \in HoGnb, b \in HoRan : e[a][b] = IF Place(a, b) = p THEN "none" ELSE entry[a][b]
        BY SMTT(30), <2>6, <3>2, Erased
      <3> QED BY <2>2, <2>3, <2>4, <3>1
    <2> QED BY <2>4, <2>5, <2>6
  <1>8. CASE UNCHANGED entry BY <1>8
  <1>9. CASE Serial
    <2>1. xnSwitchPSI \/ pathSwitchAckLost => UNCHANGED entry BY DEF xnSwitchPSI, pathSwitchAckLost
    <2>2. pathSwitchTooLate \/ pathSwitchFails => UNCHANGED entry BY DEF pathSwitchTooLate, pathSwitchFails
    <2>3. preparationAborted \/ n2PreparingSMF => UNCHANGED entry BY DEF preparationAborted, n2PreparingSMF
    <2>4. continueHandoverPreparation \/ preparationRejected => UNCHANGED entry
      BY DEF continueHandoverPreparation, preparationRejected
    <2>5. n2PrepareSMF \/ preparationDropped \/ completeHandoverPreparation => UNCHANGED entry
      BY DEF n2PrepareSMF, preparationDropped, completeHandoverPreparation
    <2> QED BY <1>4, <1>5, <1>8, <1>9, <2>1, <2>2, <2>3, <2>4, <2>5 DEF Serial
  <1>10. CASE RanReacts
    <2>1. ASSUME NEW h \in HoGnb, NEW q \in HoRan, NEW admitted \in SUBSET Psi, TargetAdmits(h, q, admitted)
          PROVE  UNCHANGED entry
      BY <2>1 DEF TargetAdmits
    <2>2. ASSUME NEW h \in HoGnb, DeviceMoves(h) \/ SourceStays(h) \/ TargetSwitched(h) \/ TargetGivesUp(h)
          PROVE  UNCHANGED entry
      BY <2>2 DEF DeviceMoves, SourceStays, TargetSwitched, TargetGivesUp, amfHo
    <2>3. SourceGivesUp => UNCHANGED entry BY DEF SourceGivesUp, amfHo
    <2> QED BY <1>6, <1>7, <1>8, <1>10, <2>1, <2>2, <2>3 DEF RanReacts
  <1>11. CASE \E c \in calls : smfExecutes(c) BY <1>8, <1>11 DEF smfExecutes
  <1>12. CASE \E h \in HoGnb, q \in HoRan, list \in SUBSET Psi, failed \in SUBSET Psi :
                 XnHandover(h, q, list, failed)
    BY <1>8, <1>12 DEF XnHandover
  <1>13. CASE \E target \in HoGnb \cup {Nobody}, list \in SUBSET Psi : SourceRequires(target, list)
    BY <1>8, <1>13 DEF SourceRequires
  <1>14. CASE \E p \in Psi : handlePDUSessionResourceSetupResponse(p)
    BY <1>8, <1>14 DEF handlePDUSessionResourceSetupResponse
  <1>15. CASE \E h \in HoGnb : TargetRefuses(h) \/ AssociationBreaks(h)
    BY <1>8, <1>15 DEF TargetRefuses, AssociationBreaks, amfHo
  <1>16. CASE UNCHANGED hoVars BY <1>8, <1>16 DEF hoVars, amfHo
  <1> QED BY <1>9, <1>10, <1>11, <1>12, <1>13, <1>14, <1>15, <1>16 DEF HandoverNext

\* A handover leaves the entries of other UEs alone: what completePathSwitch, registerAtTarget,
\* handleHandoverNotify and the source's release write is at a place that no other UE has.
THEOREM OthersSafety == HandoverSpec => OthersKept
  <1>1. HoInv /\ [HandoverNext]_hoVars
          => [\A g \in HoGnb, r \in HoRan : entry[g][r] = "other" => entry'[g][r] = "other"]_hoVars
    BY EntryWritten
  <1> QED BY <1>1, HandoverInvariant, PTL DEF HandoverSpec, OthersKept

\* The queue of the UE holds tasks.
LEMMA TaskKinds ==
  ASSUME Stages
  PROVE  \A i \in DOMAIN task : /\ task[i].kind \in {"xn", "required", "ack"}
                                /\ task[i].step \in {"queued", "smf", "register"}
  <1> DEFINE Ok(t) == t.kind \in {"xn", "required", "ack"} /\ t.step \in {"queued", "smf", "register"}
  <1>1. ASSUME NEW t, Ok(t), task = <<t>> PROVE \A i \in DOMAIN task : Ok(task[i]) BY SMTT(30), <1>1
  <1>2. ASSUME NEW t, Ok(t), NEW u \in RegisterTask, task = <<u, t>> PROVE \A i \in DOMAIN task : Ok(task[i])
    <2>1. Ok(u) BY Kinds
    <2> HIDE DEF Ok
    <2> QED BY SMTT(30), <1>2, <2>1
  <1>3. \A t : t \in XnTask \/ t \in RequiredTask \/ t \in AckTask \/ t \in RegisterTask => Ok(t) BY Kinds
  <1> SUFFICES \A i \in DOMAIN task : Ok(task[i]) OBVIOUS
  <1> HIDE DEF Ok
  <1>4. ASSUME NEW t, Ok(t), Waits(task, entry, served, t) PROVE \A i \in DOMAIN task : Ok(task[i])
    BY <1>1, <1>2, <1>4 DEF Waits
  <1>5. CASE task = <<>> BY SMTT(30), <1>5
  <1>6. CASE \E u \in RegisterTask : task = <<u>> BY <1>1, <1>3, <1>6
  <1>7. CASE \E t \in XnTask : Switching(t) BY <1>3, <1>4, <1>7 DEF Switching
  <1>8. CASE \E t \in RequiredTask : Required(t) BY <1>3, <1>4, <1>8 DEF Required
  <1>9. CASE \E t \in AckTask : Answered(t) BY <1>1, <1>3, <1>9 DEF Answered
  <1> QED BY <1>5, <1>6, <1>7, <1>8, <1>9, Tasks

\* Between handovers the path of a session leads where the bearer is.
LEMMA PathLeads == HoInv /\ Slow => PathFollowsDevice
  <1> SUFFICES ASSUME HoInv, Slow, Quiet, NEW p \in bearers \cap pdu PROVE path[p] = radio.g
    BY DEF PathFollowsDevice
  <1>1. Settled /\ calls = {} BY Where DEF HoInv, Quiet, NothingUnderWay
  <1> QED BY <1>1 DEF Settled, Carried, Called

\* A command is under way only while the source is commanded, and it is the stage's.
LEMMA CommandCovers == HoInv => CommandCoversList
  <1> SUFFICES ASSUME HoInv, NEW g \in HoGnb, NEW i \in DOMAIN dl[g], dl[g][i].type = "HandoverCommand"
               PROVE  /\ dl[g][i].cmd \cap dl[g][i].release = {}
                      /\ ran.list \subseteq dl[g][i].cmd \cup dl[g][i].release
    BY DEF CommandCoversList
  <1>1. dl[g][i] \notin ReleaseMsg BY Types
  <1>2. CalmIn(dl) => FALSE BY <1>1 DEF CalmIn
  <1>3. ASSUME NEW h, NEW m, CarriesIn(dl, h, m) PROVE dl[g][i] = m BY <1>1, <1>3 DEF CarriesIn
  <1>4. ASSUME NEW h, NEW m, CarriesIn(dl, h, m),
               m \in SwitchedMsg \/ m \in RequestMsg \/ m = SwitchFailure \/ m = PrepFailure
        PROVE  FALSE
    BY SMTT(30), <1>3, <1>4 DEF SwitchedMsg, RequestMsg, SwitchFailure, PrepFailure
  <1>5. CASE Settled \/ Lost \/ Stuck \/ Refused \/ Moved
    BY <1>2, <1>5 DEF Settled, Lost, Stuck, Refused, Moved
  <1>6. CASE \E t \in XnTask : Switching(t) BY <1>2, <1>6 DEF Switching
  <1>7. CASE \E t \in RequiredTask : Required(t) BY <1>2, <1>7 DEF Required
  <1>8. CASE \E t \in AckTask : Answered(t) BY <1>2, <1>8 DEF Answered
  <1>9. CASE \E m \in SwitchedMsg : Switched(m) BY <1>4, <1>9 DEF Switched
  <1>10. CASE \E h \in HoGnb, m \in RequestMsg : Requested(h, m) BY <1>4, <1>10 DEF Requested
  <1>11. CASE Unswitched \/ Failed BY <1>2, <1>4, <1>11 DEF Unswitched, Failed
  <1>12. CASE \E m \in CommandMsg : Commanded(m)
    <2>1. PICK m \in CommandMsg : Commanded(m) BY <1>12
    <2>2. dl[g][i] = m BY <1>3, <2>1 DEF Commanded
    <2> QED BY <2>1, <2>2 DEF Commanded
  <1> QED BY <1>5, <1>6, <1>7, <1>8, <1>9, <1>10, <1>11, <1>12 DEF HoInv, Stages

\* A request that is not answered is in the UE's queue or a gNB's, or an association broke.
LEMMA Answers == HoInv => HandoverAnswered
  <1> SUFFICES ASSUME HoInv, NothingUnderWay, down = {} PROVE ran.at \notin {"xn", "required"}
    BY DEF HandoverAnswered
  <1>1. task = <<>> /\ \A g \in HoGnb : dl[g] = <<>> BY DEF NothingUnderWay
  <1>2. ASSUME NEW g, NEW m, CarriesIn(dl, g, m) PROVE FALSE BY <1>1, <1>2 DEF CarriesIn
  <1>3. ASSUME NEW t, Waits(task, entry, served, t) PROVE FALSE BY <1>1, <1>3, Tuples DEF Waits
  <1>4. CASE Settled \/ Lost \/ Refused \/ Moved BY <1>4 DEF Settled, Lost, Refused, Moved
  <1>5. CASE \E t \in XnTask : Switching(t) BY <1>3, <1>5 DEF Switching
  <1>6. CASE \E t \in RequiredTask : Required(t) BY <1>3, <1>6 DEF Required
  <1>7. CASE \E t \in AckTask : Answered(t) BY <1>1, <1>7, Tuples DEF Answered
  <1>8. CASE \E m \in SwitchedMsg : Switched(m) BY <1>2, <1>8 DEF Switched
  <1>9. CASE \E g \in HoGnb, m \in RequestMsg : Requested(g, m) BY <1>2, <1>9 DEF Requested
  <1>10. CASE \E m \in CommandMsg : Commanded(m) BY <1>2, <1>10 DEF Commanded
  <1>11. CASE Unswitched \/ Failed \/ Stuck BY <1>2, <1>11 DEF Unswitched, Failed, Stuck
  <1> QED BY <1>4, <1>5, <1>6, <1>7, <1>8, <1>9, <1>10, <1>11 DEF HoInv, Stages

\* The types, with those of the keys and of the UE's queue.
LEMMA HandoverTypes == HoInv => HandoverTypeOK
  <1> SUFFICES ASSUME HoInv PROVE HandoverTypeOK OBVIOUS
  <1>1. \A i \in DOMAIN task : /\ task[i].kind \in {"xn", "required", "ack"}
                               /\ task[i].step \in {"queued", "smf", "register"}
    BY TaskKinds DEF HoInv
  <1>2. ncc \in 0 .. nccModulus - 1 /\ keys \in Seq(0 .. nccModulus - 1)
    <2>1. keys \in Seq(0 .. nccModulus - 1) BY DEF HoInv, KeyInv
    <2>2. PICK n : n = Len(keys) OBVIOUS
    <2>3. n \in Nat BY SMTT(30), <2>1, <2>2
    <2>4. ncc = (n + 8 - 1) % 8 BY <2>2 DEF HoInv, KeyInv, nccModulus
    <2> QED BY SMTT(30), <2>1, <2>3, <2>4 DEF nccModulus
  <1>3. \A i \in DOMAIN ho : ho[i] \in HoState BY SMTT(30) DEF HoInv, TypeInv
  <1>4. \A i \in DOMAIN ho : /\ ho[i].src \in Places /\ ho[i].prepReleased \subseteq Psi
                             /\ ho[i].admitted \subseteq Psi /\ ho[i].targetFailed \subseteq Psi
    BY <1>3 DEF HoState
  <1>5. ran.at \in {"idle", "xn", "required", "refused", "moved", "lost"} BY DEF HoInv, TypeInv, RanState
  <1>6. /\ served \in Places /\ radio \in Places
        /\ entry \in [HoGnb -> [HoRan -> {"none", "ue", "other"}]]
        /\ idle \in BOOLEAN /\ chain \in BOOLEAN /\ allowed \in BOOLEAN
        /\ pdu \subseteq Psi /\ bearers \subseteq Psi /\ pendingN2HO \in 0 .. Len(ho)
        /\ path \in [Psi -> HoGnb \cup {Nobody}] /\ tgt \in [Psi -> HoGnb \cup {Nobody}]
        /\ DOMAIN dl = HoGnb /\ down \subseteq HoGnb /\ inUse \in [HoGnb -> SUBSET HoRan]
    BY DEF HoInv, TypeInv
  <1>7. calls \subseteq [leg : {"comp", "deact", "release"}, psi : Psi] BY DEF HoInv, TypeInv, Call
  <1> QED BY <1>1, <1>2, <1>4, <1>5, <1>6, <1>7 DEF HandoverTypeOK

\* However fast handovers follow each other: the command tells of each session of the list
\* once, the source's late release does not make the UE idle, and no request is forgotten.
THEOREM AnswerSafety == HandoverSpec => [](CommandCoversList /\ StaysConnected /\ HandoverAnswered)
  <1>1. HoInv => CommandCoversList /\ StaysConnected /\ HandoverAnswered
    BY CommandCovers, Answers DEF StaysConnected, HoInv, TypeInv
  <1> QED BY <1>1, HandoverInvariant, PTL

\* When the SMF has heard of a handover before the next begins, the path at the UPF follows
\* the device as well (XnHandover, HandoverNotify and the detached calls of smfExecutes).
THEOREM SettleSafety ==
  ASSUME ~HoHas("fast")
  PROVE  HandoverSpec => []HandoverSettles
  <1>1. HoInv => HandoverSettles
    BY CommandCovers, Answers, PathLeads, HandoverTypes DEF StaysConnected, HoInv, TypeInv, Slow, HandoverSettles
  <1> QED BY <1>1, HandoverInvariant, PTL
=============================================================================
