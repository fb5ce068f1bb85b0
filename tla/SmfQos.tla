------------------------------- MODULE SmfQos -------------------------------
(***************************************************************************)
(* The QoS of one PDU session from the policy decision to the UPF and the  *)
(* device (nf/smf/internal/server: server.go, qos.go, bitrate.go; the AMF's *)
(* management API; the PCF's update of an SM policy).  The network (AMF or *)
(* SMF management API) and the device ask for changes at the same time:    *)
(* each request is a handler of its own that asks the PCF, writes the      *)
(* session, sends the session's rate to the UPF and returns a command for  *)
(* the device, without a lock across these steps.                          *)
(*                                                                         *)
(* One rate stands for uplink and downlink.  The session holds it twice:   *)
(* in Mbps, for device and gNB, and exactly, here in halves of a Mbps, for *)
(* the UPF.  The label that names the source of a session's QoS is left    *)
(* out.  Release is in N4System, the encoding of commands in NasSession.   *)
(***************************************************************************)
EXTENDS PcfOverride, Sequences

CONSTANTS
    SmData,           \* the entries of the UDM's sm-data: [here, qi, rate]; here: it has the DNN
    NetworkAsks,      \* [qi, mbps]: what the network may ask; mbps 0 for "as it is"
    Authorized5QI,    \* the PCF's authorised set
    QosInputs,        \* subset of {"udm", "pcf", "n4", "radio", "mgmt", "device"}
    Handlers          \* identities of concurrent handlers

VARIABLES
    session,          \* SMF: the session's QoS, or NoSession
    known,            \* PCF: the SM policy of the session is in memory
    handler,          \* handler -> its state
    n4,               \* modification requests on their way to the UPF
    upf,              \* UPF: the rate of QER 1, exact
    commands,         \* commands on their way to the device
    device,           \* device: [qi, mbps]
    exact,            \* the exact rate that was decided for the session
    blurred,          \* overlapping or lost steps since the last clean change
    guessed,          \* the PCF could not be asked
    forgotten         \* the PCF did not know the policy it was asked about

qosHistory == <<exact, blurred, guessed, forgotten>>
smfQosVars == <<session, known, handler, n4, upf, commands, device, qosHistory, ovVars>>

NoSession == [qi |-> 0, mbps |-> 0, kbps |-> 0, policy |-> FALSE]
Free == [at |-> "free", by |-> "", asked |-> [qi |-> 0, mbps |-> 0, kbps |-> 0],
         granted |-> [qi |-> 0, mbps |-> 0, kbps |-> 0], exact |-> 0, alone |-> FALSE]

\* Requests and faults share the bound of the operator's actions.
Tick == Step /\ UNCHANGED <<smPolicyOverrides, doc, writers, rough, ovHistory>>

(***************************************************************************)
(* Rates.                                                                  *)
(***************************************************************************)

\* Whole Mbps, rounded up.
kbpsToMbps(kbps) == (kbps + 1) \div 2

\* The exact rate while it agrees with the Mbps, else the Mbps.
kbpsOrMbps(kbps, mbps) ==
    IF mbps <= 0 THEN 0
    ELSE IF kbps > 0 /\ kbpsToMbps(kbps) = mbps THEN kbps
    ELSE 2 * mbps

\* A rate the PCF answers with; an absent one leaves what was asked.
parseAMBR(rate, asked) ==
    IF rate = 0 THEN asked ELSE [kbps |-> rate, mbps |-> kbpsToMbps(rate)]

\* An empty set authorises everything.
is5QIAuthorized(qi) == Authorized5QI = {} \/ qi \in Authorized5QI

(***************************************************************************)
(* Establishment: subscription, policy, and the first QoS everywhere.      *)
(***************************************************************************)

\* 5QI 9 and 100 Mbps, at the SMF and at the PCF alike.
OperatorDefault == [qi |-> 9, rate |-> 200]

\* The first entry with the DNN and a 5QI; a rate that cannot be read (0) is
\* 100 Mbps.
fetchSubscribedQoS ==
    LET usable == {k \in DOMAIN SmData : SmData[k].here /\ SmData[k].qi # 0}
        first == SmData[CHOOSE k \in usable : \A j \in usable : k <= j]
    IN IF usable = {} THEN OperatorDefault
       ELSE [qi |-> first.qi, rate |-> IF first.rate = 0 THEN 200 ELSE first.rate]

\* The defaults stand in for a UDM that does not answer.
Subscriptions == {fetchSubscribedQoS} \cup (IF "udm" \in QosInputs THEN {OperatorDefault} ELSE {})

\* The policy request carries the subscribed rate in whole Mbps, and so does
\* the answer unless an override or the document names another (rate # 0).
createSMPolicy(sub) ==
    /\ session = NoSession
    /\ \E d \in handleCreateSmPolicy([qi |-> sub.qi, rate |-> 0]) :
         LET rate == IF d.rate # 0 THEN d.rate ELSE 2 * kbpsToMbps(sub.rate)
         IN /\ session' = [qi |-> d.qi, mbps |-> kbpsToMbps(rate), kbps |-> rate,
                              policy |-> TRUE]
            /\ upf' = rate
            /\ device' = [qi |-> d.qi, mbps |-> kbpsToMbps(rate)]
            /\ exact' = IF d.rate # 0 THEN d.rate ELSE sub.rate
    /\ known' = TRUE
    /\ UNCHANGED <<handler, n4, commands, blurred, guessed, forgotten, ovVars>>

\* Without an answer the subscription applies, exactly, and there is no policy.
createFallsBack(sub) ==
    /\ Tick
    /\ "pcf" \in QosInputs
    /\ session = NoSession
    /\ session' = [qi |-> sub.qi, mbps |-> kbpsToMbps(sub.rate), kbps |-> sub.rate, policy |-> FALSE]
    /\ upf' = sub.rate
    /\ device' = [qi |-> sub.qi, mbps |-> kbpsToMbps(sub.rate)]
    /\ exact' = sub.rate
    /\ guessed' = TRUE
    /\ UNCHANGED <<known, handler, n4, commands, blurred, forgotten>>

(***************************************************************************)
(* A request begins.                                                       *)
(***************************************************************************)

Quiet == n4 = {} /\ commands = <<>> /\ \A h \in Handlers : handler[h] = Free

\* The handler has the request; what it will fall back on is read from the
\* session without the lock.  A request that leaves the Mbps as they are leaves
\* the decided rate.  Overlapping requests are no longer alone.
Starts(h, by, qi, mbps) ==
    /\ Tick
    /\ session # NoSession
    /\ handler[h] = Free
    /\ handler' = [g \in Handlers |->
           IF g = h THEN [Free EXCEPT !.at = "ask", !.by = by, !.alone = Quiet,
                              !.asked = [qi |-> qi, mbps |-> mbps,
                                         kbps |-> kbpsOrMbps(session.kbps, mbps)],
                              !.exact = IF kbpsToMbps(exact) = mbps THEN exact ELSE 2 * mbps]
           ELSE [handler[g] EXCEPT !.alone = FALSE]]
    /\ blurred' = (blurred \/ ~Quiet)
    /\ UNCHANGED <<session, known, n4, upf, commands, device, exact, guessed, forgotten>>

\* PATCH .../pdu-sessions/{psi}/qos at the AMF: 5QI 1 to 86, and 100 Mbps when
\* no rate is named.
amfQosPatch(h) ==
    \E a \in NetworkAsks :
        /\ a.qi \in 1 .. 86
        /\ Starts(h, "amf", a.qi, IF a.mbps > 0 THEN a.mbps ELSE 100)

\* The SMF's management API goes through the AMF's with the session's rate
\* when it is given none.
handleMgmtSetQoS(h) ==
    \E a \in NetworkAsks :
        /\ "mgmt" \in QosInputs
        /\ a.qi \in 1 .. 86
        /\ Starts(h, "mgmt", a.qi, IF a.mbps > 0 THEN a.mbps ELSE session.mbps)

\* A Modification Request of the device asks for what it has.
ueModificationRequest(h) ==
    /\ "device" \in QosInputs
    /\ Starts(h, "device", session.qi, session.mbps)

(***************************************************************************)
(* The PCF decides.                                                        *)
(***************************************************************************)

\* Nothing more to say to a caller that is refused.
Ends(h) == handler' = [handler EXCEPT ![h] = Free]

Keeps == UNCHANGED <<session, known, n4, upf, commands, device, blurred, ovVars>>

\* The handler goes on with what it may apply; an override's rate is decided
\* in place of the one asked for.
Granted(h, g, rate) ==
    handler' = [handler EXCEPT ![h].at = "apply", ![h].granted = g,
                               ![h].exact = IF rate # 0 THEN rate ELSE @]

\* handleUpdateSmPolicy at the PCF: an override decides, else the authorised
\* set.  The answer has the rate asked for in whole Mbps.
handleUpdateSmPolicy(h) ==
    LET asked == handler[h].asked
        rate == IF Override.rate # 0 THEN Override.rate ELSE 2 * asked.mbps
        granted == parseAMBR(rate, asked)
    IN /\ handler[h].at = "ask"
       /\ session.policy /\ known
       /\ Override # NoQos \/ is5QIAuthorized(asked.qi)
       /\ Granted(h, [qi |-> IF Override # NoQos THEN Override.qi ELSE asked.qi,
                      mbps |-> granted.mbps, kbps |-> granted.kbps], Override.rate)
       /\ Keeps
       /\ UNCHANGED <<exact, guessed, forgotten>>

\* 403: the network's request is refused; the device gets an empty command.
refuses(h) ==
    /\ handler[h].at = "ask"
    /\ session.policy /\ known
    /\ Override = NoQos
    /\ ~is5QIAuthorized(handler[h].asked.qi)
    /\ IF handler[h].by = "device"
       THEN handler' = [handler EXCEPT ![h].at = "empty"]
       ELSE Ends(h)
    /\ Keeps
    /\ UNCHANGED <<exact, guessed, forgotten>>

\* updateSMPolicy fails open: no policy to ask about, no PCF to ask, or any
\* answer but 200 and 403.
updateSMPolicy(h) ==
    LET reachable == session.policy /\ ~known
    IN /\ handler[h].at = "ask"
       /\ \/ ~session.policy
          \/ session.policy /\ ~known
          \/ session.policy /\ "pcf" \in QosInputs
       /\ Granted(h, handler[h].asked, 0)
       /\ guessed' = (guessed \/ ~reachable)
       /\ forgotten' = (forgotten \/ reachable)
       /\ Keeps
       /\ UNCHANGED exact

(***************************************************************************)
(* The SMF applies the decision.                                           *)
(***************************************************************************)

\* The device's request changes something only if the Mbps or the 5QI differ
\* from what the handler read.
Changed(t) == t.by # "device" \/ t.granted.qi # t.asked.qi \/ t.granted.mbps # t.asked.mbps

Apply(h) ==
    LET t == handler[h]
    IN /\ t.at = "apply"
       /\ Changed(t)
       /\ session' = [session EXCEPT !.qi = t.granted.qi, !.mbps = t.granted.mbps, !.kbps = t.granted.kbps]
       /\ exact' = t.exact
       /\ blurred' = (blurred /\ ~t.alone)
       /\ handler' = [handler EXCEPT ![h].at = "n4"]
       /\ UNCHANGED <<known, n4, upf, commands, device, guessed, forgotten, ovVars>>

NothingChanged(h) ==
    /\ handler[h].at = "apply"
    /\ ~Changed(handler[h])
    /\ handler' = [handler EXCEPT ![h].at = "empty"]
    /\ Keeps
    /\ UNCHANGED <<exact, guessed, forgotten>>

sendsOwnRate(h) ==
    /\ handler[h].at = "n4"
    /\ n4' = n4 \cup {[of |-> h, kbps |-> 2 * handler[h].granted.mbps]}
    /\ handler' = [handler EXCEPT ![h].at = "wait"]
    /\ UNCHANGED <<session, known, upf, commands, device, qosHistory, ovVars>>

\* sendPFCPQoSModification: the session's rate of this moment, read under the
\* lock.  The handler waits for the answer, at most two seconds.
sendPFCPQoSModification(h) ==
    /\ handler[h].at = "n4"
    /\ n4' = n4 \cup {[of |-> h, kbps |-> kbpsOrMbps(session.kbps, session.mbps)]}
    /\ handler' = [handler EXCEPT ![h].at = "wait"]
    /\ UNCHANGED <<session, known, upf, commands, device, qosHistory, ovVars>>

\* The UPF updates QER 1 and answers.
upfUpdatesQER(m) ==
    /\ upf' = m.kbps
    /\ n4' = n4 \ {m}
    /\ handler' = IF handler[m.of].at = "wait" THEN [handler EXCEPT ![m.of].at = "reply"] ELSE handler
    /\ UNCHANGED <<session, known, commands, device, qosHistory, ovVars>>

\* No answer: the request was lost, or is late.
upfSilent(h) ==
    /\ Tick
    /\ "n4" \in QosInputs
    /\ handler[h].at = "wait"
    /\ \E m \in n4 : m.of = h /\ n4' \in {n4, n4 \ {m}}
    /\ handler' = [handler EXCEPT ![h].at = "reply"]
    /\ blurred' = TRUE
    /\ UNCHANGED <<session, known, upf, commands, device, exact, guessed, forgotten>>

\* The SMF's answer has the handler's own decision; the AMF wraps it and sends
\* it to the gNB.
InitiateQoSModification(h) ==
    /\ handler[h].at = "reply"
    /\ commands' = Append(commands, [qi |-> handler[h].granted.qi, mbps |-> handler[h].granted.mbps])
    /\ Ends(h)
    /\ UNCHANGED <<session, known, n4, upf, device, qosHistory, ovVars>>

\* A command without QoS tells the device nothing.
emptyCommand(h) ==
    /\ handler[h].at = "empty"
    /\ Ends(h)
    /\ Keeps
    /\ UNCHANGED <<exact, guessed, forgotten>>

\* The AMF cannot reach the gNB: session and UPF have changed, the device not.
modifyRequestFails(h) ==
    /\ Tick
    /\ "radio" \in QosInputs
    /\ handler[h].at = "reply"
    /\ Ends(h)
    /\ blurred' = TRUE
    /\ UNCHANGED <<session, known, n4, upf, commands, device, exact, guessed, forgotten>>

deviceTakesCommand ==
    /\ commands # <<>>
    /\ device' = Head(commands)
    /\ commands' = Tail(commands)
    /\ UNCHANGED <<session, known, handler, n4, upf, qosHistory, ovVars>>

(***************************************************************************)
(* The system.                                                             *)
(***************************************************************************)

SmfUnchanged == UNCHANGED <<session, handler, n4, upf, commands, device, qosHistory>>

SmfQosInit ==
    /\ OvInit
    /\ session = NoSession
    /\ known = FALSE
    /\ handler = [h \in Handlers |-> Free]
    /\ n4 = {}
    /\ upf = 0
    /\ commands = <<>>
    /\ device = [qi |-> 0, mbps |-> 0]
    /\ exact = 0
    /\ blurred = FALSE
    /\ guessed = FALSE
    /\ forgotten = FALSE

SmfQosNext ==
    \/ (Operator \/ WriteThrough) /\ SmfUnchanged /\ UNCHANGED known
    \/ PcfRestarts /\ SmfUnchanged /\ known' = FALSE
    \/ \E sub \in Subscriptions : createSMPolicy(sub) \/ createFallsBack(sub)
    \/ \E h \in Handlers :
         \/ amfQosPatch(h)
         \/ handleMgmtSetQoS(h)
         \/ ueModificationRequest(h)
         \/ handleUpdateSmPolicy(h)
         \/ refuses(h)
         \/ updateSMPolicy(h)
         \/ Apply(h)
         \/ NothingChanged(h)
         \/ sendPFCPQoSModification(h)
         \/ upfSilent(h)
         \/ InitiateQoSModification(h)
         \/ emptyCommand(h)
         \/ modifyRequestFails(h)
    \/ \E m \in n4 : upfUpdatesQER(m)
    \/ deviceTakesCommand

SmfQosSpec == SmfQosInit /\ [][SmfQosNext]_smfQosVars

(***************************************************************************)
(* Properties.                                                             *)
(***************************************************************************)

\* Handlers are where their code can be, and the UPF's rate is one the SMF
\* sent.
SmfQosTypeOK ==
    /\ OvTypeOK
    /\ \A h \in Handlers : handler[h].at \in {"free", "ask", "apply", "n4", "wait", "reply", "empty"}
    /\ session = NoSession => Quiet
    /\ session # NoSession => upf > 0

\* With nothing under way, session, UPF and device agree on 5QI and rate, the
\* UPF enforces the session's exact rate, and what overlapping changes, a lost
\* N4 request or an unreachable gNB left apart is brought together by the next
\* change that runs alone.
QosAgrees ==
    Quiet /\ ~blurred =>
        /\ device = [qi |-> session.qi, mbps |-> session.mbps]
        /\ upf = kbpsOrMbps(session.kbps, session.mbps)
        /\ kbpsToMbps(upf) = session.mbps

\* "rounding up never under-grants" (bitrate.go): whatever path a decided rate
\* takes through whole Mbps, the session's rate is never below it and never a
\* full Mbps above it.
NeverUnderGranted ==
    session # NoSession =>
        /\ session.kbps >= exact
        /\ session.kbps < exact + 2

\* A 5QI outside the PCF's authorised set is only ever in force by an override,
\* the document, or the subscription, as long as the PCF could be asked and
\* knew the policy.
Sanctioned == session.qi \in ({0} \cup {sub.qi : sub \in Subscriptions}) \cup {q.qi : q \in OvQos} \cup Authorized5QI

OnlyAuthorised == ~guessed /\ ~forgotten => Sanctioned

\* updateSMPolicy's comment fails open "when the PCF peer is not configured, the
\* session has no SmPolicyId, or the PCF is unreachable": a PCF that is reached
\* is obeyed.
ReachedIsObeyed == ~guessed => Sanctioned

\* "exact Session AMBR uplink in kbps (PFCP MBR)" (server.go, Session): the rate
\* enforced is the rate decided.
ExactRateKept == session # NoSession => session.kbps = exact
=============================================================================
