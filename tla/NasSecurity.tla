---------------------------- MODULE NasSecurity ----------------------------
(* Authentication and NAS security of one subscriber: the AMF's registration phases and its
   NAS COUNTs, the AUSF's authentication contexts, and the UDM, which reads the sequence
   number of the UDR, makes a vector from it and writes the next one back in separate calls.
   A context is one N2 connection of the device and handles its messages one at a time; the
   device may open another one while the first is still at work.  A vector is its number in
   vectors: its RAND, its authentication context and the keys derived from it.            *)
EXTENDS Naturals, Sequences, TLC

CONSTANTS NasCtx,      \* AMF UE contexts
          NasEvents,   \* what the environment may do
          MaxVec, MaxUl, MaxSqn \* bounds

VARIABLES sqnHe,       \* the sequence number the UDR stores
          vectors,     \* the vectors made so far: sequence number
          authStore,   \* the AUSF's contexts that have not expired
          udmJob,      \* per context, the GenerateAuthData call under way
          SUCI,        \* UEContext.SUCI: "", "suci" or "guti"
          AuthCtxID,   \* UEContext.AuthCtxID and PendingRAND
          SecurityCtx, \* KAMF (0: not active), UplinkCount, DownlinkCount
          registered,  \* contexts in 5GMM-REGISTERED, found by their GUTI
          nasRow,      \* the SecurityCtx of the row PersistUE wrote, per context
          restored,    \* history: contexts whose security is that of their row
          uplink, downlink,
          dev          \* the device and its USIM

nasVars == <<sqnHe, vectors, authStore, udmJob, SUCI, AuthCtxID, SecurityCtx, registered, nasRow,
             restored, uplink, downlink, dev>>
home == <<sqnHe, vectors, authStore>>
amfAuth == <<SUCI, AuthCtxID>>
amfSec == <<SecurityCtx, registered, nasRow, restored>>

NoSec == [key |-> 0, ul |-> 0, dl |-> 0]
NoJob == [kind |-> "none", sqn |-> 0]
UplinkTypes == {"reg", "idResp", "authResp", "authFail", "smcComplete", "smcReject", "complete",
            "sr", "update"}
DownlinkTypes == {"idReq", "authReq", "smc", "accept", "svcAccept", "config"}

NasTypeOK ==
    /\ sqnHe \in 1 .. MaxSqn /\ Len(vectors) <= MaxVec
    /\ \A v \in DOMAIN vectors : vectors[v] \in 1 .. MaxSqn
    /\ authStore \subseteq DOMAIN vectors
    /\ udmJob \in [NasCtx -> [kind : {"none", "init", "resync"}, sqn : 0 .. MaxSqn]]
    /\ SUCI \in [NasCtx -> {"", "suci", "guti"}] /\ AuthCtxID \in [NasCtx -> 0 .. MaxVec]
    /\ SecurityCtx \in [NasCtx -> [key : 0 .. MaxVec, ul : Nat, dl : Nat]]
    /\ registered \subseteq NasCtx /\ restored \subseteq NasCtx
    /\ nasRow \in [NasCtx -> [key : 0 .. MaxVec, ul : Nat, dl : Nat]]
    /\ \A c \in NasCtx : \A i \in DOMAIN uplink[c] : uplink[c][i].t \in UplinkTypes
    /\ \A c \in NasCtx : \A i \in DOMAIN downlink[c] : downlink[c][i].t \in DownlinkTypes

NasInit ==
    /\ sqnHe \in {1, 2} /\ vectors = <<>> /\ authStore = {}
    /\ udmJob = [c \in NasCtx |-> NoJob]
    /\ SUCI = [c \in NasCtx |-> ""] /\ AuthCtxID = [c \in NasCtx |-> 0]
    /\ SecurityCtx = [c \in NasCtx |-> NoSec] /\ registered = {} /\ restored = {}
    /\ nasRow = [c \in NasCtx |-> NoSec]
    /\ uplink = [c \in NasCtx |-> <<>>] /\ downlink = [c \in NasCtx |-> <<>>]
    \* on: the connection it uses; opened: those it has used; usim: SQN_MS; partial: the keys
    \* of the last vector it took; sec: the context it uses, ul and dl the next COUNTs;
    \* guti: the context that assigned its 5G-GUTI; fails: refusals in this registration;
    \* alone: nothing of an earlier attempt has been under way since it began
    /\ dev = [on |-> 0, opened |-> {}, usim |-> 1, partial |-> 0, sec |-> NoSec, guti |-> 0,
              fails |-> 0, alone |-> TRUE]

MayNas(event) == event \in NasEvents
Busy(c) == udmJob[c] # NoJob
HeardOn(c, t) == uplink[c] # <<>> /\ Head(uplink[c]).t = t /\ ~Busy(c)
QuietOn(c) == ~Busy(c) /\ uplink[c] = <<>> /\ downlink[c] = <<>>
Pop(c) == uplink' = [uplink EXCEPT ![c] = Tail(@)]
SendDown(c, m) == downlink' = [downlink EXCEPT ![c] = Append(@, m)]
Plain(t) == [t |-> t, v |-> 0, key |-> 0, count |-> 0]
Alone(c) == dev' = [dev EXCEPT !.alone = @ /\ c = dev.on]
----------------------------------------------------------------------------
(* AUSF and UDM *)

\* The number with which a vector follows a synchronisation failure.
IncrementSQN(sqnMs) == sqnMs + 1

\* handleGenerateAuthData up to the vector: the UDR is read, and answers 404 for "guti".
GetAuthSubscription(c, kind, sqn) ==
    /\ Len(vectors) < MaxVec
    /\ udmJob' = [udmJob EXCEPT ![c] = [kind |-> kind, sqn |-> sqn]]
    /\ Alone(c)

\* The rest of it: a vector is made, and the next number written back, which may fail and does
\* not matter.
handleGenerateAuthData(sqn) ==
    /\ Len(vectors) < MaxVec /\ IncrementSQN(sqn) <= MaxSqn
    /\ vectors' = Append(vectors, sqn)
    /\ \/ sqnHe' = IncrementSQN(sqn)
       \/ MayNas("udr") /\ sqnHe' = sqnHe

\* The AUSF stores the expected response under the context it answers with.
handleInitAuth(v) == authStore' = authStore \cup {v}

\* The AMF keeps the context and its RAND and sends the challenge, unless it has given up
\* waiting.
InitiateAuth(c) ==
    LET v == Len(vectors) + 1
    IN /\ Busy(c)
       /\ handleGenerateAuthData(udmJob[c].sqn) /\ handleInitAuth(v)
       /\ udmJob' = [udmJob EXCEPT ![c] = NoJob]
       /\ \/ /\ AuthCtxID' = [AuthCtxID EXCEPT ![c] = v]
             /\ SendDown(c, [Plain("authReq") EXCEPT !.v = v])
          \/ MayNas("sbi") /\ UNCHANGED <<AuthCtxID, downlink>>
       /\ UNCHANGED <<SUCI, amfSec, uplink, dev>>

\* The UDM or the UDR cannot be reached: the AMF gives up.
InitAuthFails(c) ==
    /\ MayNas("sbi") /\ Busy(c)
    /\ udmJob' = [udmJob EXCEPT ![c] = NoJob]
    /\ UNCHANGED <<home, amfAuth, amfSec, uplink, downlink, dev>>

\* Five minutes pass over a context, or a memory-backed AUSF restarts.
AuthContextExpires(v) ==
    /\ MayNas("expire")
    /\ authStore' = authStore \ {v}
    /\ UNCHANGED <<sqnHe, vectors, udmJob, amfAuth, amfSec, uplink, downlink, dev>>

\* RES* is the one the challenge expects.
VerifyRES(ctxId, v) == v = ctxId

\* The AUSF confirms a response while it has the context, once.
handleConfirm(ctxId, v) == ctxId \in authStore /\ VerifyRES(ctxId, v)

\* AUTS gives SQN_MS when its RAND is the one of the last challenge.
ResyncFromAUTS(ctxId, m) == m.v = ctxId
----------------------------------------------------------------------------
(* AMF: the registration phases *)

\* The identity of a request: a SUCI, or the 5G-GUTI that context guti assigned.
extractIdentity(guti) == IF guti = 0 THEN "suci" ELSE "guti"

\* A 5G-GUTI the AMF does not know needs an Identity Request; one it knows stands for the
\* SUPI of the context it belongs to.
Phase1_InitiateAuthentication(c, guti) ==
    /\ SUCI' = [SUCI EXCEPT ![c] = extractIdentity(guti)]
    /\ IF guti # 0 /\ guti \notin registered
       THEN SendDown(c, Plain("idReq")) /\ UNCHANGED <<udmJob, dev>>
       ELSE GetAuthSubscription(c, "init", sqnHe) /\ UNCHANGED downlink

handleRegistrationRequest(c) ==
    /\ HeardOn(c, "reg")
    /\ Pop(c)
    /\ Phase1_InitiateAuthentication(c, Head(uplink[c]).v)
    /\ UNCHANGED <<home, AuthCtxID, registered, nasRow, restored>>

Phase1_AuthenticateWithSUCI(c) ==
    /\ SUCI' = [SUCI EXCEPT ![c] = "suci"]
    /\ GetAuthSubscription(c, "init", sqnHe)

handleIdentityResponse(c) ==
    /\ HeardOn(c, "idResp")
    /\ Pop(c)
    /\ Phase1_AuthenticateWithSUCI(c)
    /\ UNCHANGED <<home, AuthCtxID, registered, nasRow, restored, downlink>>

\* The identity that goes with AUTS is the one of the request.
Phase1_ResyncAuth(c, m) ==
    IF ResyncFromAUTS(AuthCtxID[c], m) /\ SUCI[c] = "suci"
    THEN GetAuthSubscription(c, "resync", IncrementSQN(m.sqn))
    ELSE UNCHANGED <<udmJob, dev>>

handleAuthenticationFailure(c) ==
    /\ HeardOn(c, "authFail")
    /\ Pop(c)
    /\ Phase1_ResyncAuth(c, Head(uplink[c]))
    /\ UNCHANGED <<home, amfAuth, registered, nasRow, restored, downlink>>

\* KAMF and the NAS keys of a confirmed vector, with both COUNTs at zero.
NewSecurityContext(sec, v) == [key |-> v, ul |-> 0, dl |-> 0]

\* The Security Mode Command, protected with the context it announces.
sendNASIntegrityOnly(c, sec) ==
    /\ SecurityCtx' = [SecurityCtx EXCEPT ![c] = [sec EXCEPT !.dl = @ + 1]]
    /\ SendDown(c, [Plain("smc") EXCEPT !.key = sec.key, !.count = sec.dl])

\* Phase2_ProcessAuthResponse has the AUSF confirm RES* before it makes the keys.
Phase2_ProcessAuthResponse(c, sec, v) ==
    IF handleConfirm(AuthCtxID[c], v)
    THEN /\ authStore' = authStore \ {AuthCtxID[c]} /\ restored' = restored \ {c}
         /\ sendNASIntegrityOnly(c, NewSecurityContext(sec, AuthCtxID[c]))
    ELSE /\ SecurityCtx' = [SecurityCtx EXCEPT ![c] = sec]
         /\ UNCHANGED <<authStore, restored, downlink>>

handleAuthenticationResponse(c, sec) ==
    /\ HeardOn(c, "authResp")
    /\ Pop(c)
    /\ Phase2_ProcessAuthResponse(c, sec, Head(uplink[c]).v)
    /\ UNCHANGED <<sqnHe, vectors, udmJob, amfAuth, registered, nasRow, dev>>

handleSecurityModeReject(c) ==
    /\ HeardOn(c, "smcReject")
    /\ Pop(c)
    /\ SecurityCtx' = [SecurityCtx EXCEPT ![c] = NoSec]
    /\ UNCHANGED <<home, udmJob, amfAuth, registered, nasRow, restored, downlink, dev>>

\* Mutant: the count after the message.
kgnbOfNext(sec) == <<sec.key, sec.ul>>

\* KgNB, derived from the count of the message being handled: unwrapping it moved UplinkCount on.
KgNB(sec) == <<sec.key, sec.ul - 1>>

\* sendNASSecured of a message that also brings KgNB to the gNB; trigger is what the device
\* derives it from.
sendNASSecured(c, t, sec, m) ==
    /\ SecurityCtx' = [SecurityCtx EXCEPT ![c] = [sec EXCEPT !.dl = @ + 1]]
    /\ SendDown(c, [t |-> t, v |-> c, key |-> sec.key, count |-> sec.dl, kgnb |-> KgNB(sec),
                    trigger |-> <<m.key, m.count>>])

\* The UDM may not answer; a tracking area that is not allowed is found out after the
\* registration, and the reject is encoded and never sent.
Phase3_ProcessSMCComplete(c, sec, m) ==
    \/ registered' = registered \cup {c} /\ sendNASSecured(c, "accept", sec, m)
    \/ /\ MayNas("area") /\ registered' = registered \cup {c}
       /\ SecurityCtx' = [SecurityCtx EXCEPT ![c] = [sec EXCEPT !.dl = @ + 1]]
       /\ UNCHANGED downlink
    \/ /\ MayNas("sbi") /\ SecurityCtx' = [SecurityCtx EXCEPT ![c] = sec]
       /\ UNCHANGED <<registered, downlink>>

handleSecurityModeComplete(c, sec) ==
    /\ HeardOn(c, "smcComplete")
    /\ Pop(c)
    /\ Phase3_ProcessSMCComplete(c, sec, Head(uplink[c]))
    /\ UNCHANGED <<home, udmJob, amfAuth, nasRow, restored, dev>>

\* The row keeps the keys and the COUNTs of the moment.
PersistUE(c, sec) == nasRow' = [nasRow EXCEPT ![c] = sec]

\* The row is written, then the network name goes out.
sendNetworkName(c, sec) ==
    /\ SecurityCtx' = [SecurityCtx EXCEPT ![c] = [sec EXCEPT !.dl = @ + 1]]
    /\ SendDown(c, [Plain("config") EXCEPT !.key = sec.key, !.count = sec.dl])

handleRegistrationComplete(c, sec) ==
    /\ HeardOn(c, "complete")
    /\ Pop(c)
    /\ PersistUE(c, sec)
    /\ sendNetworkName(c, sec)
    /\ UNCHANGED <<home, udmJob, amfAuth, registered, restored, dev>>

handleServiceRequest(c, sec) ==
    /\ HeardOn(c, "sr")
    /\ Pop(c)
    /\ sendNASSecured(c, "svcAccept", sec, Head(uplink[c]))
    /\ UNCHANGED <<home, udmJob, amfAuth, registered, nasRow, restored, dev>>

\* The accept of an update assigns a new 5G-GUTI.
BuildRegistrationUpdateAccept(c) == registered' = registered \cup {c}

handleRegistrationUpdate(c, sec) ==
    /\ HeardOn(c, "update")
    /\ Pop(c)
    /\ BuildRegistrationUpdateAccept(c)
    /\ sendNASSecured(c, "accept", sec, Head(uplink[c]))
    /\ UNCHANGED <<home, udmJob, amfAuth, nasRow, restored, dev>>

\* Every protected message moves UplinkCount on, whatever its MAC and its number say.
unwrapNASSecurity(sec, m) == IF m.key # 0 /\ sec.key # 0 THEN [sec EXCEPT !.ul = @ + 1] ELSE sec

\* What was ciphered with other keys or another count does not decode.
Garbled(sec, m) == m.key # 0 /\ m.t \notin {"sr", "update"} /\ <<m.key, m.count>> # <<sec.key, sec.ul>>

HandleNASMessage(c) ==
    LET m == Head(uplink[c])
        sec == unwrapNASSecurity(SecurityCtx[c], m)
        keep == SecurityCtx' = [SecurityCtx EXCEPT ![c] = sec]
    IN /\ uplink[c] # <<>> /\ ~Busy(c)
       /\ IF Garbled(SecurityCtx[c], m)
          THEN Pop(c) /\ keep /\ UNCHANGED <<home, udmJob, amfAuth, registered, nasRow, restored, downlink, dev>>
          ELSE \/ handleRegistrationRequest(c) /\ keep
               \/ handleIdentityResponse(c) /\ keep
               \/ handleAuthenticationFailure(c) /\ keep
               \/ handleAuthenticationResponse(c, sec)
               \/ handleSecurityModeReject(c)
               \/ handleSecurityModeComplete(c, sec)
               \/ handleRegistrationComplete(c, sec)
               \/ handleServiceRequest(c, sec)
               \/ handleRegistrationUpdate(c, sec)

\* The AMF restarts and restores the rows it finds; calls and connections are gone.
RestoreFromStore ==
    /\ MayNas("restart")
    /\ SecurityCtx' = nasRow
    /\ registered' = {c \in NasCtx : nasRow[c] # NoSec} /\ restored' = registered'
    /\ SUCI' = [c \in NasCtx |-> ""] /\ AuthCtxID' = [c \in NasCtx |-> 0]
    /\ udmJob' = [c \in NasCtx |-> NoJob]
    /\ uplink' = [c \in NasCtx |-> <<>>] /\ downlink' = [c \in NasCtx |-> <<>>]
    /\ UNCHANGED <<home, nasRow, dev>>

\* A context is removed: deregistration, implicit detach, displacement.
ContextRemoved(c) ==
    /\ MayNas("remove") /\ c \in registered /\ c # dev.on
    /\ registered' = registered \ {c} /\ restored' = restored \ {c}
    /\ nasRow' = [nasRow EXCEPT ![c] = NoSec]
    /\ SecurityCtx' = [SecurityCtx EXCEPT ![c] = NoSec]
    /\ UNCHANGED <<home, udmJob, amfAuth, uplink, downlink, dev>>
----------------------------------------------------------------------------
(* The device (external), and the radio *)

\* A message on connection c: protected once the keys are in use on it.
Says(c, m, d) ==
    /\ uplink' = [uplink EXCEPT ![c] =
                   Append(@, IF d.sec.key = 0 THEN m
                             ELSE [m EXCEPT !.key = d.sec.key, !.count = d.sec.ul])]
    /\ dev' = IF d.sec.key = 0 THEN d ELSE [d EXCEPT !.sec.ul = @ + 1]
    /\ d.sec.ul < MaxUl

\* It registers on a new connection, without keys, or again on the one it has, when T3510 runs
\* out; the timer outlasts the handling of a message.  The AMF numbers contexts as they come.
DeviceRegisters(c) ==
    LET d == [dev EXCEPT !.on = c, !.opened = @ \cup {c}, !.fails = 0,
                         !.sec = IF c = dev.on THEN @ ELSE NoSec,
                         !.alone = downlink[c] = <<>> /\ \A o \in NasCtx : ~Busy(o) /\ uplink[o] = <<>>]
    IN /\ \/ c = dev.on /\ QuietOn(c)
          \/ c \notin dev.opened /\ \A o \in NasCtx \ dev.opened : c <= o
       /\ Says(c, [Plain("reg") EXCEPT !.v = dev.guti], d)
       /\ UNCHANGED <<home, udmJob, amfAuth, amfSec, downlink>>

DeviceTakesSecured(c) ==
    LET m == Head(downlink[c])
        fresh == m.key = dev.sec.key /\ m.count >= dev.sec.dl
        took == [dev EXCEPT !.sec.dl = m.count + 1]
    IN /\ c = dev.on /\ downlink[c] # <<>>
       /\ downlink' = [downlink EXCEPT ![c] = Tail(@)]
       /\ CASE m.t = "idReq" -> Says(c, Plain("idResp"), dev)
            [] m.t = "authReq" ->
                 IF vectors[m.v] > dev.usim
                 THEN Says(c, [Plain("authResp") EXCEPT !.v = m.v],
                           [dev EXCEPT !.usim = vectors[m.v], !.partial = m.v])
                 ELSE Says(c, [sqn |-> dev.usim] @@ [Plain("authFail") EXCEPT !.v = m.v],
                           [dev EXCEPT !.fails = @ + 1])
            [] m.t = "smc" ->
                 IF m.key = dev.partial
                 THEN Says(c, Plain("smcComplete"),
                           [dev EXCEPT !.sec = [key |-> m.key, ul |-> 0, dl |-> m.count + 1]])
                 ELSE Says(c, Plain("smcReject"), [dev EXCEPT !.sec = NoSec])
            [] m.t = "accept" /\ fresh -> Says(c, Plain("complete"), [took EXCEPT !.guti = m.v])
            [] m.t \in {"svcAccept", "config"} /\ fresh -> dev' = took /\ UNCHANGED uplink
            [] OTHER -> UNCHANGED <<dev, uplink>>
       /\ UNCHANGED <<home, udmJob, amfAuth, amfSec>>

\* From idle, on the context that its 5G-GUTI names.
DeviceReturns(c) ==
    /\ c = dev.on /\ c = dev.guti /\ dev.sec.key # 0 /\ QuietOn(c)
    /\ \E t \in {"sr", "update"} : Says(c, Plain(t), dev)
    /\ UNCHANGED <<home, udmJob, amfAuth, amfSec, downlink>>

RadioLoses(c) ==
    /\ MayNas("radio") /\ downlink[c] # <<>>
    /\ downlink' = [downlink EXCEPT ![c] = Tail(@)]
    /\ UNCHANGED <<home, udmJob, amfAuth, amfSec, uplink, dev>>

NasNext ==
    \/ \E c \in NasCtx : \/ HandleNASMessage(c) \/ InitiateAuth(c) \/ InitAuthFails(c)
                         \/ ContextRemoved(c) \/ DeviceRegisters(c) \/ DeviceTakesSecured(c)
                         \/ DeviceReturns(c) \/ RadioLoses(c)
    \/ \E v \in authStore : AuthContextExpires(v)
    \/ RestoreFromStore

NasSpec == NasInit /\ [][NasNext]_nasVars
----------------------------------------------------------------------------
(* Properties *)

\* Device and AMF count alike whenever they use the same keys and nothing is under way: the
\* AMF expects the uplink count the device will use next and will not reuse a downlink count
\* the device has seen, however often a registration was begun, abandoned or repeated, unless
\* the AMF has restarted since the keys were made.
CountsAgree ==
    \A c \in NasCtx \ restored :
       c = dev.on /\ QuietOn(c) /\ dev.sec.key # 0 /\ SecurityCtx[c].key = dev.sec.key
       => SecurityCtx[c].ul = dev.sec.ul /\ SecurityCtx[c].dl >= dev.sec.dl

\* The keys that reach the gNB with message m are those the device derives from the count of
\* the message it sent, where device and AMF use the same NAS keys.
SameKgnb(m) == m.t \in {"accept", "svcAccept"} /\ m.kgnb[1] = m.trigger[1] => m.kgnb = m.trigger

\* In the three procedures that set up a context the gNB gets the device's KgNB, unless the
\* AMF has restarted since the keys were made.
KgnbAgrees ==
    \A c \in NasCtx \ restored : c = dev.on => \A i \in DOMAIN downlink[c] : SameKgnb(downlink[c][i])

\* The same, restarts included: the row of handleRegistrationComplete was written so that the
\* context survives them.
KgnbSurvivesRestart ==
    \A c \in NasCtx : c = dev.on => \A i \in DOMAIN downlink[c] : SameKgnb(downlink[c][i])

\* A device that registers while no other of its connections is being authenticated refuses at
\* most one vector: the one made after the resynchronisation is good.
OneResyncSuffices == dev.alone => dev.fails <= 1
=============================================================================
