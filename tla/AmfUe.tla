------------------------------- MODULE AmfUe -------------------------------
(* The AMF's UE contexts: the indexes of context.Manager, the UE maps of every gNB
   association, the CM and 5GMM state, the reachability timers and the removal of a
   context.  Each gNB association has a read loop, each context a serial queue for its
   NAS messages, and timer callbacks, displacement and disconnect cleanup run beside
   them.  PDU sessions are left to AmfSession.  A context is its AMF UE NGAP ID; 0 is
   "no context", "no TMSI" and "no row".                                          *)
EXTENDS Naturals, Sequences, FiniteSets

CONSTANTS Gnb, None,
          Ran,          \* RAN UE NGAP IDs, local to a gNB
          Supi,
          Cache,        \* "redis" or "none": where TMSIs are counted
          Events,       \* what the environment may do
          MaxCtx, MaxTmsi, MaxQueue  \* bounds

ASSUME AmfUeAssumption ==
    /\ MaxCtx \in Nat /\ MaxTmsi \in Nat /\ MaxQueue \in Nat
    /\ None \notin Gnb \cup Supi /\ 0 \notin Ran
    /\ Cache \in {"redis", "none"}

VARIABLES next,        \* Manager.ngapIDCounter
          redis, local,\* the TMSI counters of Redis and of the process
          byNgap, bySupi, byTmsi, \* Manager.uesByNGAPId, uesBySUPI, uesByTMSI
          \* UEContext, field by field; connected: CMState, addr: GNBAddr, ran: RANUENGAPId,
          \* pending: PendingRemoval
          supi, guti, gmm, connected, addr, ran, pending,
          mr, id, pr,  \* contexts with Mobile Reachable, Implicit Detach, PendingRemoval armed
          queue,       \* UEContext.taskQueue
          work,        \* what other goroutines have begun and not finished
          gnbs,        \* the associated gNBs
          UEs, IdleUEs,\* GNBContext.UEs, GNBContext.IdleUEs
          link,        \* the gNB's own view: the context each RAN ID stands for
          cmd,         \* UE CONTEXT RELEASE COMMANDs on their way
          row,         \* the TMSI in the subscriber's PostgreSQL row
          uecm,        \* subscribers registered at the UDM
          who, stage,  \* per context, the subscriber behind it and its next message
          held,        \* the TMSI each subscriber's device holds
          on           \* the link each device uses, the newest it opened

amfVars == <<next, redis, local, byNgap, bySupi, byTmsi, supi, guti, gmm, connected, addr, ran,
             pending, mr, id, pr, queue, work, gnbs, UEs, IdleUEs, link, cmd, row, uecm, who,
             stage, held, on>>
index == <<byNgap, bySupi, byTmsi>>
counters == <<next, redis, local>>
ue == <<supi, guti, gmm, connected, addr, ran, pending>>
timer == <<mr, id, pr>>
n2 == <<gnbs, UEs, IdleUEs, link, cmd>>
outside == <<row, uecm, who, stage, held, on>>

Ctx == 1..MaxCtx
Tmsi == 1..MaxTmsi
Tasks == {"reg", "auth", "smc", "cpl", "sr", "ru", "dereg", "accept"}
Steps == {"arm", "detach", "force", "uecm", "displaced", "complete", "index", "db"}
NoUE == [g \in Gnb |-> [r \in Ran |-> 0]]

AmfUeTypeOK ==
    /\ next \in 0..MaxCtx /\ redis \in 0..MaxTmsi /\ local \in 0..MaxTmsi
    /\ byNgap \subseteq Ctx
    /\ bySupi \in [Supi -> 0..MaxCtx] /\ byTmsi \in [Tmsi -> 0..MaxCtx]
    /\ supi \in [Ctx -> Supi \cup {None}] /\ guti \in [Ctx -> 0..MaxTmsi]
    /\ gmm \in [Ctx -> {"Deregistered", "Registered", "DeregisteredInitiated"}]
    /\ addr \in [Ctx -> Gnb \cup {None}] /\ ran \in [Ctx -> Ran \cup {0}]
    /\ connected \subseteq Ctx /\ pending \subseteq Ctx
    /\ mr \subseteq Ctx /\ id \subseteq Ctx /\ pr \subseteq Ctx
    /\ queue \in [Ctx -> Seq(Tasks)]
    /\ work \subseteq [at : Steps, c : Ctx, g : Gnb \cup {None}, ran : Ran \cup {0}]
    /\ gnbs \subseteq Gnb
    /\ UEs \in [Gnb -> [Ran -> 0..MaxCtx]] /\ IdleUEs \in [Gnb -> [Ran -> 0..MaxCtx]]
    /\ link \in [Gnb -> [Ran -> 0..MaxCtx]]
    /\ cmd \subseteq [g : Gnb, ran : Ran, c : Ctx]
    /\ row \in [Supi -> 0..MaxTmsi] /\ uecm \subseteq Supi
    /\ who \in [Ctx -> Supi \cup {None}]
    /\ stage \in [Ctx -> {"wait", "auth", "smc", "cpl", "done"}]
    /\ held \in [Supi -> 0..MaxTmsi]
    /\ on \in [Supi -> (Gnb \X Ran) \cup {None}]

AmfUeInit ==
    /\ next = 0 /\ redis = 0 /\ local = 0
    /\ byNgap = {} /\ bySupi = [s \in Supi |-> 0] /\ byTmsi = [t \in Tmsi |-> 0]
    /\ supi = [c \in Ctx |-> None] /\ guti = [c \in Ctx |-> 0]
    /\ gmm = [c \in Ctx |-> "Deregistered"]
    /\ addr = [c \in Ctx |-> None] /\ ran = [c \in Ctx |-> 0]
    /\ connected = {} /\ pending = {} /\ mr = {} /\ id = {} /\ pr = {}
    /\ queue = [c \in Ctx |-> <<>>] /\ work = {}
    /\ gnbs = {} /\ UEs = NoUE /\ IdleUEs = NoUE /\ link = NoUE /\ cmd = {}
    /\ row = [s \in Supi |-> 0] /\ uecm = {}
    /\ who = [c \in Ctx |-> None] /\ stage = [c \in Ctx |-> "wait"]
    /\ held = [s \in Supi |-> 0] /\ on = [s \in Supi |-> None]

Has(event) == event \in Events
Do(at, c) == [at |-> at, c |-> c, g |-> None, ran |-> 0]
Then(w, at) == [at |-> at, c |-> w.c, g |-> w.g, ran |-> w.ran]
\* The read loop of g is between two messages, and the association is up.
Reads(g) == g \in gnbs /\ \A w \in work : w.g # g
\* The device behind c still listens where the AMF believes it is.
Hears(c) ==
    /\ addr[c] \in gnbs /\ link[addr[c]][ran[c]] = c
    /\ on[who[c]] = <<addr[c], ran[c]>>
Room(c) == Len(queue[c]) < MaxQueue
\* The contexts of m without c, as removeUEFromIdleUEs and the promotion leave a map.
Without(m, c) == [r \in Ran |-> IF m[r] = c THEN 0 ELSE m[r]]
----------------------------------------------------------------------------
(* N2 associations *)

\* A gNB sets up its association; its maps start empty.
handleNGSetup(g) ==
    /\ g \notin gnbs
    /\ gnbs' = gnbs \cup {g}
    /\ UNCHANGED <<counters, index, ue, timer, queue, work, UEs, IdleUEs, link, cmd, outside>>

\* The association is lost: every UE of the two maps is cleaned up.
handleGNBConn(g) ==
    LET ues == {UEs[g][r] : r \in Ran} \cup {IdleUEs[g][r] : r \in Ran}
    IN /\ Has("loss") /\ Reads(g)
       /\ gnbs' = gnbs \ {g}
       /\ UEs' = [UEs EXCEPT ![g] = [r \in Ran |-> 0]]
       /\ IdleUEs' = [IdleUEs EXCEPT ![g] = [r \in Ran |-> 0]]
       /\ link' = [link EXCEPT ![g] = [r \in Ran |-> 0]]
       /\ cmd' = {m \in cmd : m.g # g}
       /\ work' = work \cup {Do("uecm", c) : c \in ues \ {0}}
       /\ UNCHANGED <<counters, index, ue, timer, queue, outside>>

\* What the gNB does by itself: drop a link without a word, or never answer a command.
GnbDropsLink(g, r) ==
    /\ Has("drop") /\ link[g][r] # 0
    /\ link' = [link EXCEPT ![g][r] = 0]
    /\ UNCHANGED <<counters, index, ue, timer, queue, work, gnbs, UEs, IdleUEs, cmd, outside>>

GnbDropsCommand(m) ==
    /\ Has("drop")
    /\ cmd' = cmd \ {m}
    /\ UNCHANGED <<counters, index, ue, timer, queue, work, gnbs, UEs, IdleUEs, link, outside>>
----------------------------------------------------------------------------
(* Initial UE message *)

AllocateUEContext(c) ==
    /\ c = next + 1 /\ c <= MaxCtx
    /\ next' = c
    /\ byNgap' = byNgap \cup {c}

\* Mutant: an entry that is there already is kept.
addEntryOnce(g, r, c) == UEs' = IF UEs[g][r] = 0 THEN [UEs EXCEPT ![g][r] = c] ELSE UEs

\* The RAN ID now stands for c, whatever it stood for.
addEntry(g, r, c) == UEs' = [UEs EXCEPT ![g][r] = c]

\* A plain Registration Request starts a new context.
freshRegistration(g, r, s) ==
    \E c \in Ctx :
      /\ Reads(g) /\ link[g][r] = 0
      /\ AllocateUEContext(c)
      /\ addr' = [addr EXCEPT ![c] = g] /\ ran' = [ran EXCEPT ![c] = r]
      /\ addEntry(g, r, c)
      /\ link' = [link EXCEPT ![g][r] = c]
      /\ queue' = [queue EXCEPT ![c] = <<"reg">>]
      /\ who' = [who EXCEPT ![c] = s]
      /\ on' = [on EXCEPT ![s] = <<g, r>>]
      /\ UNCHANGED <<redis, local, bySupi, byTmsi, supi, guti, gmm, connected, pending, timer,
                     work, gnbs, IdleUEs, cmd, row, uecm, stage, held>>

StopAllTimers(c) == mr' = mr \ {c} /\ id' = id \ {c} /\ pr' = pr \ {c}

\* A device that holds a TMSI the AMF knows comes back, from idle or from another cell.
returningUE(g, r, s, task) ==
    LET c == byTmsi[held[s]]
    IN /\ Reads(g) /\ link[g][r] = 0
       /\ held[s] # 0 /\ c # 0 /\ Room(c)
       /\ addr' = [addr EXCEPT ![c] = g] /\ ran' = [ran EXCEPT ![c] = r]
       /\ connected' = connected \cup {c}
       /\ StopAllTimers(c)
       /\ IdleUEs' = [IdleUEs EXCEPT ![g] = Without(@, c)]
       /\ addEntry(g, r, c)
       /\ link' = [link EXCEPT ![g][r] = c]
       /\ queue' = [queue EXCEPT ![c] = Append(@, task)]
       /\ stage' = [stage EXCEPT ![c] = "done"]
       /\ on' = [on EXCEPT ![s] = <<g, r>>]
       /\ UNCHANGED <<counters, index, supi, guti, gmm, pending, work, gnbs, cmd, row, uecm,
                      who, held>>

\* The PendingRemoval watchdog is armed.
watchRemoval(c) == pr' = pr \cup {c} /\ UNCHANGED <<mr, id>>

\* The TMSI is unknown: a temporary context carries the reject and is released.
rejectUnknownTMSI(g, r, s) ==
    \E c \in Ctx :
      /\ Reads(g) /\ link[g][r] = 0
      /\ held[s] # 0 /\ byTmsi[held[s]] = 0
      /\ AllocateUEContext(c)
      /\ ran' = [ran EXCEPT ![c] = r]
      /\ pending' = pending \cup {c}
      /\ addEntry(g, r, c)
      /\ link' = [link EXCEPT ![g][r] = c]
      /\ cmd' = cmd \cup {[g |-> g, ran |-> r, c |-> c]}
      /\ watchRemoval(c)
      /\ held' = [held EXCEPT ![s] = 0]
      /\ on' = [on EXCEPT ![s] = None]
      /\ UNCHANGED <<redis, local, bySupi, byTmsi, supi, guti, gmm, connected, addr, queue, work,
                     gnbs, IdleUEs, row, uecm, who, stage>>

\* The reject cannot be written: the temporary context is removed at once.
rejectUnsent(g, r, s) ==
    /\ Has("drop") /\ Reads(g) /\ link[g][r] = 0
    /\ held[s] # 0 /\ byTmsi[held[s]] = 0
    /\ next < MaxCtx /\ next' = next + 1
    /\ UEs' = [UEs EXCEPT ![g][r] = 0]
    /\ UNCHANGED <<redis, local, index, ue, timer, queue, work, gnbs, IdleUEs, link, cmd, outside>>
----------------------------------------------------------------------------
(* NAS messages, handed to the context's serial queue *)

\* What the device may send: the answer to what it last received, or once registered a
\* message of its own.
Sends(c) ==
    IF stage[c] # "done" THEN {stage[c]}
    ELSE {task \in {"ru", "dereg"} : Has(task)}
         \cup (IF gmm[c] = "DeregisteredInitiated" THEN {"accept"} ELSE {})

\* An uplink NAS message is dropped for an unknown context or one being released.
handleUplinkNASTransport(g, r, task) ==
    LET c == link[g][r]
    IN /\ Reads(g) /\ c # 0 /\ c \in byNgap /\ c \notin pending
       /\ on[who[c]] = <<g, r>> /\ task \in Sends(c) /\ Room(c)
       /\ queue' = [queue EXCEPT ![c] = Append(@, task)]
       /\ stage' = [stage EXCEPT ![c] = IF task \in {"auth", "smc"} THEN "wait" ELSE "done"]
       /\ UNCHANGED <<counters, index, ue, timer, work, n2, row, uecm, who, held, on>>

Runs(c, task) ==
    /\ queue[c] # <<>> /\ Head(queue[c]) = task
    /\ queue' = [queue EXCEPT ![c] = Tail(@)]

\* A downlink NAS message that makes the device answer with stage.
Asks(c, answer) == stage' = IF Hears(c) THEN [stage EXCEPT ![c] = answer] ELSE stage

\* Registration Request: the AUSF's challenge goes out, unless the AUSF is in error.
handleRegistrationRequest(c) ==
    /\ Runs(c, "reg")
    /\ \/ Asks(c, "auth")
       \/ Has("sbifail") /\ UNCHANGED stage
    /\ UNCHANGED <<counters, index, ue, timer, work, n2, row, uecm, who, held, on>>

SetSUPI(c, s) ==
    /\ supi' = [supi EXCEPT ![c] = s]
    /\ bySupi' = [bySupi EXCEPT ![s] = c]

\* The context that had the SUPI before.
displaced(c) == {bySupi[who[c]]} \ {0, c}

\* Authentication Response: the AUSF refuses, or the context takes over the SUPI and the
\* one that had it is released by a goroutine of its own.
handleAuthenticationResponse(c) ==
    /\ Runs(c, "auth")
    /\ \/ Has("sbifail") /\ UNCHANGED <<bySupi, supi, work, stage>>
       \/ /\ SetSUPI(c, who[c])
          /\ work' = work \cup {Do("displaced", d) : d \in displaced(c)}
          /\ Asks(c, "smc")
    /\ UNCHANGED <<counters, byNgap, byTmsi, guti, gmm, connected, addr, ran, pending, timer, n2,
                   row, uecm, who, held, on>>

\* The next TMSI: Redis counts, unless it fails or is not configured.
NextTMSI(t) ==
    \/ /\ Cache = "redis"
       /\ t = redis + 1 /\ redis' = t
       /\ UNCHANGED local
    \/ /\ Cache = "none" \/ Has("redisfail")
       /\ t = local + 1 /\ local' = t
       /\ UNCHANGED redis

\* Mutant: the TMSI is taken from the counter without advancing it.
AssignSameTMSI(c, t) ==
    /\ t = redis + 1 /\ t <= MaxTmsi
    /\ guti' = [guti EXCEPT ![c] = t]
    /\ byTmsi' = [byTmsi EXCEPT ![t] = c]
    /\ UNCHANGED <<redis, local>>

\* A new GUTI, entered in the index of TMSIs; the Accept that carries it may be lost.
AssignGUTI(c, t) ==
    /\ NextTMSI(t) /\ t <= MaxTmsi
    /\ guti' = [guti EXCEPT ![c] = t]
    /\ byTmsi' = [byTmsi EXCEPT ![t] = c]

Delivered(c, t) ==
    \/ /\ Hears(c)
       /\ held' = [held EXCEPT ![who[c]] = t]
       /\ stage' = [stage EXCEPT ![c] = "cpl"]
    \/ /\ ~Hears(c) \/ Has("drop")
       /\ UNCHANGED <<held, stage>>

\* SendInitialContextSetupRequest reaches a gNB.
Serves(c) == addr[c] \in gnbs

\* The UDM's registration of the AMF for a subscriber; an error is only logged.
RegisterAMF(s) == uecm' = uecm \cup {s} \/ (Has("sbifail") /\ UNCHANGED uecm)
DeregisterUECM(s) == uecm' = uecm \ {s} \/ (Has("sbifail") /\ UNCHANGED uecm)

\* Security Mode Complete: the context is registered before the service area is checked,
\* and CM-CONNECTED once the Initial Context Setup Request is sent.  A UE outside its
\* service area is told nothing and stays registered.
handleSecurityModeComplete(c) ==
    /\ Runs(c, "smc")
    /\ RegisterAMF(supi[c])
    /\ gmm' = [gmm EXCEPT ![c] = "Registered"]
    /\ \E t \in Tmsi :
         /\ AssignGUTI(c, t)
         /\ \/ Serves(c) /\ connected' = connected \cup {c} /\ Delivered(c, t)
            \/ (~Serves(c) \/ Has("area")) /\ UNCHANGED <<connected, held, stage>>
    /\ UNCHANGED <<next, byNgap, bySupi, supi, addr, ran, pending, timer, work, n2, row, who, on>>

\* Security Mode Complete when the UDM gives no subscription data.
rejectSecurityModeComplete(c) ==
    /\ Runs(c, "smc") /\ Has("sbifail")
    /\ RegisterAMF(supi[c])
    /\ UNCHANGED <<counters, index, ue, timer, work, n2, row, who, stage, held, on>>

StopUETimers(c) == mr' = mr \ {c} /\ id' = id \ {c} /\ UNCHANGED pr

\* Registration Complete: the context is persisted and its watchdogs are stopped.
handleRegistrationComplete(c) ==
    /\ Runs(c, "cpl")
    /\ row' = [row EXCEPT ![supi[c]] = guti[c]]
    /\ StopUETimers(c)
    /\ UNCHANGED <<counters, index, ue, work, n2, uecm, who, stage, held, on>>

\* Service Request: the N2 context is set up again.
handleServiceRequest(c) ==
    /\ Runs(c, "sr")
    /\ IF Serves(c)
       THEN connected' = connected \cup {c} /\ StopUETimers(c)
       ELSE UNCHANGED <<connected, timer>>
    /\ UNCHANGED <<counters, index, supi, guti, gmm, addr, ran, pending, work, n2, outside>>

\* Registration Update: always a new GUTI, then as for a Service Request.
handleRegistrationUpdate(c) ==
    /\ Runs(c, "ru")
    /\ gmm' = [gmm EXCEPT ![c] = "Registered"]
    /\ \E t \in Tmsi :
         /\ AssignGUTI(c, t)
         /\ IF Serves(c)
            THEN connected' = connected \cup {c} /\ StopUETimers(c) /\ Delivered(c, t)
            ELSE UNCHANGED <<connected, timer, held, stage>>
    /\ UNCHANGED <<next, byNgap, bySupi, supi, addr, ran, pending, work, n2, row, uecm, who, on>>
----------------------------------------------------------------------------
(* Releasing the UE-associated connection *)

Command(c) == [g |-> addr[c], ran |-> ran[c], c |-> c]

\* PendingRemoval is set first, so that a command that is sent arms the watchdog; with no
\* gNB at the context's address nothing is sent and nothing is armed.
releaseForRemoval(c) ==
    /\ gmm' = [gmm EXCEPT ![c] = "Deregistered"]
    /\ pending' = pending \cup {c}
    /\ IF Serves(c)
       THEN cmd' = cmd \cup {Command(c)} /\ watchRemoval(c)
       ELSE UNCHANGED <<cmd, timer>>
    /\ UNCHANGED <<supi, guti, connected, addr, ran>>

\* Deregistration by the UE, and the UE's Accept of one by the network.
teardown(c) ==
    /\ DeregisterUECM(supi[c])
    /\ releaseForRemoval(c)
    /\ UNCHANGED <<counters, index, work, gnbs, UEs, IdleUEs, link, row, who, stage, held, on>>

handleDeregistration(c) == Runs(c, "dereg") /\ teardown(c)
handleNWDeregistrationAccept(c) == Runs(c, "accept") /\ teardown(c)

\* The operator deregisters a UE; the teardown waits for its Accept.
SendNetworkDeregistration(c) ==
    /\ Has("nwdereg") /\ c \in byNgap /\ Serves(c) /\ gmm[c] = "Registered"
    /\ gmm' = [gmm EXCEPT ![c] = "DeregisteredInitiated"]
    /\ UNCHANGED <<counters, index, supi, guti, connected, addr, ran, pending, timer, queue, work,
                   n2, outside>>

\* The gNB refuses the Initial Context Setup Request.
handleInitialContextSetupFailure(g, r) ==
    LET c == link[g][r]
    IN /\ Has("icsfail") /\ Reads(g) /\ c # 0 /\ c \in byNgap /\ c \in connected
       /\ releaseForRemoval(c)
       /\ UNCHANGED <<counters, index, queue, work, gnbs, UEs, IdleUEs, link, outside>>

\* The gNB asks for the release of a link, and is told to.
handleUEContextReleaseRequest(g, r) ==
    LET c == link[g][r]
    IN /\ Reads(g) /\ c # 0 /\ c \in byNgap
       /\ cmd' = cmd \cup {[g |-> g, ran |-> r, c |-> c]}
       /\ UNCHANGED <<counters, index, ue, timer, queue, work, gnbs, UEs, IdleUEs, link, outside>>

\* The operator releases a connected UE's N2 connection.
ANReleaseHandler(c) ==
    /\ Has("anrelease") /\ c \in byNgap /\ Serves(c)
    /\ c \in connected /\ c \notin pending
    /\ cmd' = cmd \cup {Command(c)}
    /\ UNCHANGED <<counters, index, ue, timer, queue, work, gnbs, UEs, IdleUEs, link, outside>>

\* The Release Complete belongs to a connection the context has left.
isStaleSourceRelease(c, g, r) ==
    \/ addr[c] # None /\ addr[c] # g
    \/ ran[c] # 0 /\ ran[c] # r

Released(g, r) == link' = [link EXCEPT ![g][r] = 0]

\* The gNB answers a command: only the entries of the connection go.
staleReleaseComplete(m) ==
    /\ Reads(m.g) /\ m.c \in byNgap /\ isStaleSourceRelease(m.c, m.g, m.ran)
    /\ cmd' = cmd \ {m}
    /\ Released(m.g, m.ran)
    /\ UEs' = [UEs EXCEPT ![m.g][m.ran] = 0]
    /\ IdleUEs' = [IdleUEs EXCEPT ![m.g][m.ran] = 0]
    /\ UNCHANGED <<counters, index, ue, timer, queue, work, gnbs, outside>>

\* The same answer when the check finds the connection current, or the context gone.
handleUEContextReleaseComplete(m) ==
    /\ Reads(m.g)
    /\ m.c \notin byNgap \/ ~isStaleSourceRelease(m.c, m.g, m.ran)
    /\ cmd' = cmd \ {m}
    /\ Released(m.g, m.ran)
    /\ work' = work \cup {[at |-> "complete", c |-> m.c, g |-> m.g, ran |-> m.ran]}
    /\ UNCHANGED <<counters, index, ue, timer, queue, gnbs, UEs, IdleUEs, outside>>

\* The rest of the handler; other goroutines may have run since the check.  A context
\* pending removal is removed by the same goroutine, any other becomes idle and watched.
completeRelease(w) ==
    LET g == w.g
        c == w.c
        remove == c \in byNgap /\ c \in pending
        idle == c \in byNgap /\ c \notin pending
    IN /\ w.at = "complete"
       /\ UEs' = [UEs EXCEPT ![g][w.ran] = 0]
       /\ IdleUEs' = [IdleUEs EXCEPT ![g][w.ran] =
                        IF ~idle THEN 0 ELSE IF UEs[g][w.ran] # 0 THEN UEs[g][w.ran] ELSE @]
       /\ connected' = IF remove \/ idle THEN connected \ {c} ELSE connected
       /\ mr' = IF idle THEN mr \cup {c} ELSE mr
       /\ pr' = IF remove THEN pr \ {c} ELSE pr
       /\ work' = (work \ {w}) \cup (IF remove THEN {Then(w, "index")} ELSE {})
       /\ UNCHANGED <<counters, index, supi, guti, gmm, addr, ran, pending, id, queue, gnbs, link,
                      cmd, outside>>
----------------------------------------------------------------------------
(* Timers.  A callback checks the CM state, lets go of the context and then acts.  The
   two reachability timers run for minutes, so they outlast a queued handler.     *)

\* Mobile Reachable expires.
StartMobileReachableTimer(c) ==
    /\ c \in mr /\ queue[c] = <<>>
    /\ mr' = mr \ {c}
    /\ work' = work \cup (IF c \in connected THEN {} ELSE {Do("arm", c)})
    /\ UNCHANGED <<counters, index, ue, id, pr, queue, n2, outside>>

\* ... and arms Implicit Detach.
startImplicitDetachTimer(w) ==
    /\ w.at = "arm"
    /\ id' = id \cup {w.c}
    /\ work' = work \ {w}
    /\ UNCHANGED <<counters, index, ue, mr, pr, queue, n2, outside>>

\* Implicit Detach expires.
implicitDetachExpires(c) ==
    /\ c \in id /\ queue[c] = <<>>
    /\ id' = id \ {c}
    /\ work' = work \cup (IF c \in connected THEN {} ELSE {Do("detach", c)})
    /\ UNCHANGED <<counters, index, ue, mr, pr, queue, n2, outside>>

\* The PendingRemoval watchdog expires.
startPendingRemovalTimer(c) ==
    /\ c \in pr
    /\ pr' = pr \ {c}
    /\ work' = work \cup {Do("force", c)}
    /\ UNCHANGED <<counters, index, ue, mr, id, queue, n2, outside>>

\* Both take the context out of the idle maps; the detach also tells the UDM.
removeUEFromIdleUEs(w) ==
    /\ w.at \in {"detach", "force"}
    /\ IdleUEs' = [g \in Gnb |-> IF g \in gnbs THEN Without(IdleUEs[g], w.c) ELSE IdleUEs[g]]
    /\ work' = (work \ {w}) \cup {Do(IF w.at = "detach" THEN "uecm" ELSE "index", w.c)}
    /\ UNCHANGED <<counters, index, ue, timer, queue, gnbs, UEs, link, cmd, outside>>

\* onImplicitDetach and onGNBDisconnect, up to Manager.Remove.
SetImplicitDetachHandler(w) ==
    /\ w.at = "uecm"
    /\ DeregisterUECM(supi[w.c])
    /\ work' = (work \ {w}) \cup {Then(w, "index")}
    /\ UNCHANGED <<counters, index, ue, timer, queue, n2, row, who, stage, held, on>>

\* Mutant: only the sessions of the displaced context are released.
keepDisplacedContext(w) ==
    /\ w.at = "displaced"
    /\ StopAllTimers(w.c)
    /\ work' = work \ {w}
    /\ UNCHANGED <<counters, index, ue, queue, n2, outside>>

\* The goroutine that releases a displaced context, up to Manager.Remove.
releaseDisplacedContext(w) ==
    /\ w.at = "displaced"
    /\ StopAllTimers(w.c)
    /\ work' = (work \ {w}) \cup {Then(w, "index")}
    /\ UNCHANGED <<counters, index, ue, queue, n2, outside>>
----------------------------------------------------------------------------
(* Manager.Remove: the indexes under the lock, then the row *)

Owns(c) == supi[c] # None /\ bySupi[supi[c]] = c

\* Mutant: the SUPI slot is left as it is.
keepSupiSlot(c) == UNCHANGED bySupi

\* Mutant: the SUPI slot is cleared whoever has it.
dropSupiSlot(c) ==
    bySupi' = [s \in Supi |-> IF s = supi[c] THEN 0 ELSE bySupi[s]]

\* The SUPI slot goes only if this context still has it.
clearSupiSlot(c) ==
    bySupi' = [s \in Supi |-> IF s = supi[c] /\ Owns(c) THEN 0 ELSE bySupi[s]]

Remove(w) ==
    LET c == w.c
    IN /\ w.at = "index"
       /\ StopAllTimers(c)
       /\ byNgap' = byNgap \ {c}
       /\ clearSupiSlot(c)
       /\ byTmsi' = [t \in Tmsi |-> IF t = guti[c] THEN 0 ELSE byTmsi[t]]
       /\ work' = (work \ {w}) \cup (IF Owns(c) THEN {Then(w, "db")} ELSE {})
       /\ UNCHANGED <<counters, ue, queue, n2, outside>>

DeleteUE(w) ==
    /\ w.at = "db"
    /\ row' = [row EXCEPT ![supi[w.c]] = 0]
    /\ work' = work \ {w}
    /\ UNCHANGED <<counters, index, ue, timer, queue, n2, uecm, who, stage, held, on>>

\* The AMF restarts: memory is lost, the rows are purged and the TMSI counter is seeded
\* from them; NGAP IDs count on only so that every context keeps a name of its own.
LoadFromStore ==
    LET rows == {row[s] : s \in Supi}
    IN /\ Has("restart")
       /\ \E max \in rows :
            /\ \A t \in rows : t <= max
            /\ redis' = IF Cache = "redis" /\ max > redis THEN max ELSE redis
            /\ local' = IF Cache = "none" THEN max ELSE 0
       /\ byNgap' = {} /\ bySupi' = [s \in Supi |-> 0] /\ byTmsi' = [t \in Tmsi |-> 0]
       /\ mr' = {} /\ id' = {} /\ pr' = {} /\ queue' = [c \in Ctx |-> <<>>] /\ work' = {}
       /\ gnbs' = {} /\ UEs' = NoUE /\ IdleUEs' = NoUE /\ link' = NoUE /\ cmd' = {}
       /\ row' = [s \in Supi |-> 0]
       /\ UNCHANGED <<next, ue, uecm, who, stage, held, on>>
----------------------------------------------------------------------------
AmfUeNext ==
    \/ \E g \in Gnb : handleNGSetup(g) \/ handleGNBConn(g)
    \/ \E g \in Gnb, r \in Ran : GnbDropsLink(g, r)
    \/ \E m \in cmd : GnbDropsCommand(m)
    \/ \E g \in Gnb, r \in Ran, s \in Supi : freshRegistration(g, r, s)
    \/ \E g \in Gnb, r \in Ran, s \in Supi : \E task \in {"sr", "ru", "dereg"} :
         (task = "sr" \/ Has(task)) /\ returningUE(g, r, s, task)
    \/ \E g \in Gnb, r \in Ran, s \in Supi : rejectUnknownTMSI(g, r, s) \/ rejectUnsent(g, r, s)
    \/ \E g \in Gnb, r \in Ran, task \in Tasks : handleUplinkNASTransport(g, r, task)
    \/ \E c \in Ctx : handleRegistrationRequest(c) \/ handleAuthenticationResponse(c)
    \/ \E c \in Ctx : handleSecurityModeComplete(c) \/ rejectSecurityModeComplete(c)
    \/ \E c \in Ctx : handleRegistrationComplete(c)
    \/ \E c \in Ctx : handleServiceRequest(c)
    \/ \E c \in Ctx : handleRegistrationUpdate(c)
    \/ \E c \in Ctx : handleDeregistration(c) \/ handleNWDeregistrationAccept(c)
    \/ \E c \in Ctx : SendNetworkDeregistration(c) \/ ANReleaseHandler(c)
    \/ \E g \in Gnb, r \in Ran : handleInitialContextSetupFailure(g, r)
    \/ \E g \in Gnb, r \in Ran : handleUEContextReleaseRequest(g, r)
    \/ \E m \in cmd : staleReleaseComplete(m) \/ handleUEContextReleaseComplete(m)
    \/ \E w \in work : completeRelease(w)
    \/ \E c \in Ctx : Has("timers") /\ StartMobileReachableTimer(c)
    \/ \E c \in Ctx : Has("timers") /\ implicitDetachExpires(c)
    \/ \E c \in Ctx : startPendingRemovalTimer(c)
    \/ \E w \in work : startImplicitDetachTimer(w) \/ removeUEFromIdleUEs(w)
    \/ \E w \in work : SetImplicitDetachHandler(w) \/ releaseDisplacedContext(w)
    \/ \E w \in work : Remove(w) \/ DeleteUE(w)
    \/ LoadFromStore

AmfUeSpec == AmfUeInit /\ [][AmfUeNext]_amfVars

\* Every goroutine that has begun runs on, and armed watchdogs expire.
Background(w) ==
    \/ completeRelease(w) \/ startImplicitDetachTimer(w) \/ removeUEFromIdleUEs(w)
    \/ SetImplicitDetachHandler(w) \/ releaseDisplacedContext(w) \/ Remove(w) \/ DeleteUE(w)

AmfUeFairSpec ==
    /\ AmfUeSpec
    /\ \A c \in Ctx : /\ WF_amfVars(startPendingRemovalTimer(c))
                      /\ \A at \in Steps :
                           WF_amfVars(\E w \in work : w.c = c /\ w.at = at /\ Background(w))
----------------------------------------------------------------------------
(* What holds *)

\* GetBySUPI never returns a context that was removed or is another subscriber's, however
\* registrations, displacements and removals overlap (SetSUPI, Remove).  It holds while
\* no association is lost: that removes contexts whose handlers are still queued.
SupiSlotLive ==
    \A s \in Supi : bySupi[s] # 0 => bySupi[s] \in byNgap /\ supi[bySupi[s]] = s

\* GetByTMSI with the TMSI a device holds finds that device's context or none, also after
\* lost Accepts, updates, removals and restarts (AssignGUTI, handleInitialUEMessage).
HeldTmsiOwn ==
    \A s \in Supi : held[s] # 0 /\ byTmsi[held[s]] # 0 => who[byTmsi[held[s]]] = s

\* A RAN UE NGAP ID in use at the gNB never leads the AMF to another context than the
\* gNB means by it, although gNBs reuse the IDs (GNBContext.UEs).
EntryIsLinked ==
    \A g \in gnbs, r \in Ran : link[g][r] # 0 /\ UEs[g][r] # 0 => UEs[g][r] = link[g][r]

\* Removing a context that was displaced leaves the newer registration its SUPI slot: a
\* slot changes hands only when its owner is removed or displaced (Remove, SetSUPI).
OwnerKept ==
    [][\A s \in Supi : bySupi[s] # 0 /\ bySupi'[s] = 0 => bySupi[s] \notin byNgap']_amfVars

\* A displaced context is removed in the end (releaseDisplacedContext).
DisplacedRemoved ==
    \A c \in Ctx : (\E w \in work : w.at = "displaced" /\ w.c = c) ~> c \notin byNgap

\* The temporary context of a reject is removed in the end, also when the gNB never
\* confirms its release (handleInitialUEMessage, startPendingRemovalTimer).
TemporaryRemoved ==
    \A c \in Ctx : (c \in byNgap /\ c \in pending /\ guti[c] = 0)
                      ~> c \notin byNgap

\* Whatever is on its way out of the table leaves it.
RemovalsComplete == DisplacedRemoved /\ TemporaryRemoved
----------------------------------------------------------------------------
(* What the comments say and the interleavings contradict *)

\* Losing an association cleans up only UEs served by that gNB (SetGNBDisconnectHandler).
LossSparesOthers ==
    [][\A g \in gnbs \ gnbs' : \A w \in work' \ work : addr[w.c] = g]_amfVars

\* Deleting the row of a removed context never deletes the record of the live
\* registration (comment of Manager.Remove).
DeleteSparesLive ==
    [][\A w \in work : DeleteUE(w) =>
         LET s == supi[w.c]
         IN bySupi[s] # 0 /\ row[s] # 0 => row[s] # guti[bySupi[s]]]_amfVars
=============================================================================
