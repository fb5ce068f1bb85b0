------------------------------ MODULE UePolicy ------------------------------
(***************************************************************************)
(* Policies a device is given through its AMF: the AM policy association   *)
(* (the RFSP index the gNB schedules by), the UE policy association and    *)
(* the URSP rules delivered over N1.                                       *)
(*                                                                         *)
(* At registration the AMF creates both associations at the PCF, one call  *)
(* after the other, and stages the container of URSP rules until the       *)
(* device has completed the registration.  O&M can push the rules again at *)
(* any time, which fetches a new container and a new association.  The PCF *)
(* resolves the rules from the UDR or from its configuration, encodes them *)
(* and forgets; the device decodes them.  The AMF does not look inside.    *)
(*                                                                         *)
(* Every call can fail before the PCF saw it or after.  Left out: service  *)
(* area restrictions, which this PCF never sends, and the acknowledgement  *)
(* of a delivery, which the AMF only logs.                                 *)
(***************************************************************************)
EXTENDS NasWire, Integers

CONSTANTS PcfPlmn,       \* [mcc, mnc]: sequences of digits
          RuleLists,     \* what the UDR can hold for the subscriber (<<>>: nothing)
          DefaultRules,  \* the rules of the PCF's configuration
          DefaultRFSP,   \* the AMF's operator default
          RfspValues,    \* overrides O&M sets
          Pushers,       \* push requests in progress at a time
          PolEvents,     \* subset of {"failure", "restart", "idle", "detach", "rfsp"}
          MaxAssoc,      \* bound: associations created
          MaxPol         \* bound: operator and radio events

VARIABLES
    \* PCF and UDR
    uePolicies,     \* UE policy associations
    amPolicies,     \* AM policy associations: id -> RFSP
    rfspOverride,   \* rfspOverrides of the subscriber, 0 when none
    subscription,   \* the subscriber's rules at the UDR
    \* AMF
    amfCtx,         \* there is a UE context for the device
    amfCM,          \* its CM state: "idle" or "connected"
    phase,          \* registration: "none", "am", "ue", "accepted"
    amAssoc, ueAssoc, \* AMPolicyAssocID and PolicyAssociationID, 0 when empty
    rfsp,           \* UEContext.RFSP
    amAnswered,     \* the last AM policy request was answered
    pendingContainer, \* [bytes, rules], Nothing when nil
    pushes,         \* pushes in progress: [live: for the current context, id, container], or Nobody
    \* the radio side
    ranRfsp,        \* the index of the last Initial Context Setup
    downlink,       \* containers on their way, in order
    deviceRules,    \* what the device decoded last
    deviceSource,   \* the rules that container was made of
    \* history
    latest,         \* the rules of the last container the PCF answered with
    overlapped,     \* that answer was not alone
    undelivered,    \* a container was dropped since: idle device or released connection
    untidy,         \* something other than registrations and deregistrations happened
    deferred,       \* a push was answered "deferred" and nothing has reached the device since
    polIds, polDone

pcfVars == <<uePolicies, amPolicies, rfspOverride, subscription>>
amfVars == <<amfCtx, amfCM, phase, amAssoc, ueAssoc, rfsp, amAnswered, pendingContainer, pushes>>
radioVars == <<ranRfsp, downlink, deviceRules, deviceSource>>
histVars == <<latest, overlapped, undelivered, untidy, deferred>>
polVars == <<pcfVars, amfVars, radioVars, histVars, polIds, polDone>>

PolHas(e) == e \in PolEvents

\* ------------------------------------------------------- URSP encoding
\* A name is a sequence of labels.
encodeAPNLabels(name) ==
    IF name = <<>> THEN <<0>> ELSE FlattenSeq([i \in DOMAIN name |-> LV(name[i])])

\* The octet with the leading n of its bits set.
PrefixOctet(n) == IF n >= 8 THEN 255 ELSE IF n <= 0 THEN 0 ELSE 256 - 2 ^ (8 - n)

\* An address with its mask; bits is negative for a plain address.
encodeIPv4Prefix(p) ==
    p.addr \o [i \in 1..4 |-> IF p.bits < 0 THEN 255 ELSE PrefixOctet(p.bits - 8 * (i - 1))]

\* One or more components, none with a length of its own; an empty descriptor,
\* or one with DNNs only, matches all traffic.
encodeTrafficDescriptor(td) ==
    LET all(s, f(_)) == FlattenSeq([i \in DOMAIN s |-> f(s[i])])
        out == all(td.fqdns, LAMBDA n : TLV(145, encodeAPNLabels(n)))
               \o all(td.ipv4, LAMBDA p : <<16>> \o encodeIPv4Prefix(p))
               \o all(td.protocols, LAMBDA x : <<48, x>>)
               \o all(td.ports, LAMBDA r : <<81>> \o Be16(r[1]) \o Be16(r[2]))
               \o (IF td.capabilities = <<>> THEN <<>> ELSE TLV(144, td.capabilities))
    IN  IF td.matchAll \/ out = <<>> THEN <<1>> ELSE out

\* The value of an S-NSSAI: the SST, with the SD when there is one.
encodeSnssai(s) == <<s.sst>> \o s.sd

\* An absent member of a descriptor is an empty sequence.
encodeRSDContents(r) ==
    (IF r.ssc = <<>> THEN <<>> ELSE <<1, r.ssc[1] % 8>>)
    \o (IF r.snssai = <<>> THEN <<>> ELSE TLV(2, encodeSnssai(r.snssai[1])))
    \o (IF r.dnn = <<>> THEN <<>> ELSE TLV(4, encodeAPNLabels(r.dnn[1])))
    \o (IF r.type = <<>> THEN <<>> ELSE <<8, r.type[1] % 8>>)

encodeRouteSelectionDescriptorList(rsds) ==
    FlattenSeq([i \in DOMAIN rsds |-> LVE(<<rsds[i].precedence>> \o LVE(encodeRSDContents(rsds[i])))])

encodeURSPRuleList(rules) ==
    FlattenSeq([i \in DOMAIN rules |->
        LVE(<<rules[i].precedence>> \o LVE(encodeTrafficDescriptor(rules[i].td))
            \o LVE(encodeRouteSelectionDescriptorList(rules[i].rsds)))])

encodePLMNID ==
    LET d == PcfPlmn.mcc
        n == PcfPlmn.mnc
    IN  <<16 * d[2] + d[1], 16 * (IF Len(n) >= 3 THEN n[3] ELSE 15) + d[3], 16 * n[2] + n[1]>>

\* MANAGE UE POLICY COMMAND: transaction 0x80, one section (UPSC 1) with one URSP part.
EncodeURSPRules(rules) ==
    IF rules = <<>> THEN <<>>
    ELSE <<128, 1>> \o LVE(LVE(encodePLMNID \o LVE(<<0, 1>> \o LVE(<<1>> \o encodeURSPRuleList(rules)))))

\* ------------------------------------------------------- the device's decoder
\* Values behind two-octet lengths, one after the other.
Chunks(b) ==
    LET walk[p \in 1..(Len(b) + 1)] ==
          IF p > Len(b) THEN <<>>
          ELSE LET r == ReadLVE(b, p) IN IF r.ok THEN <<r.v>> \o walk[r.at] ELSE <<>>
    IN  walk[1]

\* Octets a component of a type occupies behind its type octet.
ComponentSize(t, next) ==
    CASE t = 1 -> 0 [] t = 16 -> 8 [] t = 48 -> 1 [] t = 81 -> 4 [] t \in {144, 145} -> 1 + next

TrafficComponents(b) ==
    LET walk[p \in 1..(Len(b) + 1)] ==
          IF p > Len(b) THEN {}
          ELSE LET size == ComponentSize(b[p], IF p < Len(b) THEN b[p + 1] ELSE 0)
               IN  {[t |-> b[p], v |-> SubSeq(b, p + 1, p + size)]} \cup walk[p + size + 1]
    IN  walk[1]

RouteComponents(b) ==
    LET walk[p \in 1..(Len(b) + 1)] ==
          IF p > Len(b) THEN {}
          ELSE LET size == IF b[p] \in {2, 4} THEN 1 + b[p + 1] ELSE 1
               IN  {[t |-> b[p], v |-> SubSeq(b, p + 1, p + size)]} \cup walk[p + size + 1]
    IN  walk[1]

ReadRoute(b) ==
    [precedence |-> b[1], components |-> RouteComponents(ReadLVE(b, 2).v)]

ReadRule(b) ==
    LET td == ReadLVE(b, 2)
        rsds == Chunks(ReadLVE(b, td.at).v)
    IN  [precedence |-> b[1], traffic |-> TrafficComponents(td.v),
         routes |-> [i \in DOMAIN rsds |-> ReadRoute(rsds[i])]]

\* The URSP rules of a command for this network, as the device sees them.
ReadCommand(b) ==
    LET sublist == Chunks(ReadLVE(b, 3).v)[1]
        instruction == Chunks(Remaining(sublist, 4))[1]
        part == Chunks(Remaining(instruction, 3))[1]
        rules == Chunks(Tail(part))
    IN  [i \in DOMAIN rules |-> ReadRule(rules[i])]

\* ------------------------------------------------------- the PCF
Nothing == [bytes |-> <<>>, rules |-> <<>>]
Nobody == [live |-> FALSE, id |-> 0, container |-> Nothing]
Container(rules) == [bytes |-> EncodeURSPRules(rules), rules |-> rules]

\* The UDR's rules, or the configuration's when it has none or does not answer.
resolveURSPRules ==
    {IF subscription # <<>> THEN subscription ELSE DefaultRules}
    \cup (IF PolHas("failure") THEN {DefaultRules} ELSE {})

PolTick == polDone < MaxPol /\ polDone' = polDone + 1

NewAssoc == polIds < MaxAssoc /\ polIds' = polIds + 1

handleSetRFSPOverride ==
    /\ PolHas("rfsp") /\ PolTick
    /\ \E v \in RfspValues \ {rfspOverride} : rfspOverride' = v
    /\ UNCHANGED <<uePolicies, amPolicies, subscription, amfVars, radioVars, histVars, polIds>>

handleDeleteRFSPOverride ==
    /\ PolHas("rfsp") /\ PolTick
    /\ rfspOverride # 0
    /\ rfspOverride' = 0
    /\ UNCHANGED <<uePolicies, amPolicies, subscription, amfVars, radioVars, histVars, polIds>>

\* The operator edits the subscriber's rules at the UDR.
PutPolicySubscription ==
    /\ PolTick
    /\ \E r \in RuleLists \ {subscription} : subscription' = r
    /\ UNCHANGED <<uePolicies, amPolicies, rfspOverride, amfVars, radioVars, histVars, polIds>>

\* Associations and overrides live in memory only.
PcfStarts ==
    /\ PolHas("restart") /\ PolTick
    /\ uePolicies' = {} /\ amPolicies' = <<>> /\ rfspOverride' = 0
    /\ UNCHANGED <<subscription, amfVars, radioVars, histVars, polIds>>

\* The index of a new AM policy association.
handleCreateAMPolicy == IF rfspOverride > 0 THEN rfspOverride ELSE 1

AddAm(id) == amPolicies' = [i \in DOMAIN amPolicies \cup {id} |->
                               IF i = id THEN handleCreateAMPolicy ELSE amPolicies[i]]

\* ------------------------------------------------------- registration
\* Pushes that hold a context the AMF has dropped.
Stranded == [p \in Pushers |-> [pushes[p] EXCEPT !.live = FALSE]]

\* An initial registration reaches Phase 3: over the device's connection with the
\* context it has, else with a new one that displaces the old.
RegistrationBegins ==
    /\ phase \in {"none", "accepted"}
    /\ phase' = "am"
    /\ IF amfCtx /\ amfCM = "connected"
       THEN UNCHANGED <<amfCtx, amfCM, amAssoc, ueAssoc, rfsp, pendingContainer, pushes, undelivered>>
       ELSE /\ amfCtx' = TRUE
            /\ amfCM' = "idle"
            /\ pushes' = Stranded
            /\ amAssoc' = 0 /\ ueAssoc' = 0 /\ rfsp' = 0
            /\ pendingContainer' = Nothing
            /\ undelivered' = (undelivered \/ pendingContainer # Nothing)
    /\ untidy' = (untidy \/ amfCtx)
    /\ UNCHANGED <<amAnswered, pcfVars, radioVars, latest, overlapped, deferred, polIds, polDone>>

\* How a call to create an association ends: whether the AMF has the answer, and
\* whether the PCF made the association.
createCall ==
    {[answered |-> TRUE, made |-> TRUE]}
    \cup (IF PolHas("failure") THEN [answered : {FALSE}, made : BOOLEAN] ELSE {})

AmCreated(o) ==
    IF o.made THEN NewAssoc /\ AddAm(polIds + 1) ELSE UNCHANGED <<amPolicies, polIds>>

\* The operator default, overridden by the PCF's index when the PCF answers.
RfspOf(o) == IF o.answered THEN handleCreateAMPolicy ELSE DefaultRFSP

\* Step 14c.
CreateAMPolicyAssociation ==
    /\ phase = "am"
    /\ phase' = "ue"
    /\ \E o \in createCall :
          /\ AmCreated(o)
          /\ amAssoc' = IF o.answered THEN polIds + 1 ELSE amAssoc
          /\ rfsp' = RfspOf(o)
          /\ amAnswered' = o.answered
          /\ untidy' = (untidy \/ ~o.answered)
    /\ UNCHANGED <<amfCtx, amfCM, ueAssoc, pendingContainer, pushes, uePolicies, rfspOverride,
                   subscription, radioVars, latest, overlapped, undelivered, deferred, polDone>>

\* The PCF answered with rules: from now on these are the latest.
Alone == pendingContainer = Nothing /\ pushes = [p \in Pushers |-> Nobody] /\ downlink = <<>>
PolicyAnswered(rules, alone) ==
    IF rules = <<>> THEN UNCHANGED <<latest, overlapped, undelivered, deferred>>
    ELSE /\ latest' = rules
         /\ overlapped' = ~alone
         /\ undelivered' = FALSE
         /\ UNCHANGED deferred

UeCreated(o) ==
    IF o.made THEN NewAssoc /\ uePolicies' = uePolicies \cup {polIds + 1}
              ELSE UNCHANGED <<uePolicies, polIds>>

\* Step 17b, and the Accept with its Initial Context Setup: the container waits
\* for the Registration Complete; an association without rules is not recorded.
CreateUEPolicyAssociation ==
    /\ phase = "ue"
    /\ phase' = "accepted"
    /\ amfCM' = "connected"
    /\ ranRfsp' = rfsp
    /\ \E o \in createCall, rules \in resolveURSPRules :
          LET fetched == IF o.answered THEN rules ELSE <<>>
          IN  /\ UeCreated(o)
              /\ PolicyAnswered(fetched, Alone)
              /\ IF fetched = <<>>
                 THEN untidy' = TRUE /\ UNCHANGED <<ueAssoc, pendingContainer>>
                 ELSE /\ ueAssoc' = polIds + 1
                      /\ pendingContainer' = Container(rules)
                      /\ UNCHANGED untidy
    /\ UNCHANGED <<amfCtx, amAssoc, rfsp, amAnswered, pushes, amPolicies, rfspOverride, subscription,
                   downlink, deviceRules, deviceSource, polDone>>

\* A container goes out over N1, unless the device is idle: then it is dropped.
SendUEPolicyContainer(c) ==
    IF amfCM = "connected"
    THEN downlink' = Append(downlink, c) /\ UNCHANGED undelivered
    ELSE undelivered' = TRUE /\ UNCHANGED downlink

\* Mutant: the staged container is cleared before it is read.
clearsBeforeReading ==
    /\ phase = "accepted"
    /\ phase' = "none"
    /\ pendingContainer' = Nothing
    /\ UNCHANGED <<amfCtx, amfCM, amAssoc, ueAssoc, rfsp, amAnswered, pushes, pcfVars, radioVars, histVars,
                   polIds, polDone>>

\* The Registration Complete: the staged container is taken and sent.
handleRegistrationComplete ==
    /\ phase = "accepted"
    /\ phase' = "none"
    /\ pendingContainer' = Nothing
    /\ IF pendingContainer # Nothing
       THEN SendUEPolicyContainer(pendingContainer)
       ELSE UNCHANGED <<downlink, undelivered>>
    /\ UNCHANGED <<amfCtx, amfCM, amAssoc, ueAssoc, rfsp, amAnswered, pushes, pcfVars, ranRfsp,
                   deviceRules, deviceSource, latest, overlapped, untidy, deferred, polIds, polDone>>

\* ------------------------------------------------------- push-policies
\* FetchUEPolicyContainer for a connected device ...
FetchUEPolicyContainer(p) ==
    /\ pushes[p] = Nobody
    /\ amfCtx /\ amfCM = "connected"
    /\ \E o \in createCall, rules \in resolveURSPRules :
          /\ UeCreated(o)
          /\ pushes' = IF o.answered
                       THEN [pushes EXCEPT ![p] = [live |-> TRUE, id |-> polIds + 1,
                                                   container |-> Container(rules)]]
                       ELSE pushes
          /\ PolicyAnswered(IF o.answered THEN rules ELSE <<>>, Alone /\ phase = "none")
    /\ untidy' = TRUE
    /\ UNCHANGED <<amfCtx, amfCM, phase, amAssoc, ueAssoc, rfsp, amAnswered, pendingContainer,
                   amPolicies, rfspOverride, subscription, radioVars, polDone>>

\* ... an idle one is answered "deferred".
pushRefused ==
    /\ amfCtx /\ amfCM = "idle" /\ phase = "none"
    /\ ~deferred
    /\ deferred' = TRUE
    /\ UNCHANGED <<pcfVars, amfVars, radioVars, latest, overlapped, undelivered, untidy, polIds, polDone>>

\* The new association is recorded and the container, if any, sent.
pushDelivers(p) ==
    /\ pushes[p] # Nobody
    /\ pushes' = [pushes EXCEPT ![p] = Nobody]
    /\ IF ~pushes[p].live
       THEN undelivered' = TRUE /\ UNCHANGED <<ueAssoc, downlink>>
       ELSE /\ ueAssoc' = pushes[p].id
            /\ IF pushes[p].container = Nothing
               THEN UNCHANGED <<downlink, undelivered>>
               ELSE SendUEPolicyContainer(pushes[p].container)
    /\ UNCHANGED <<amfCtx, amfCM, phase, amAssoc, rfsp, amAnswered, pendingContainer, pcfVars,
                   ranRfsp, deviceRules, deviceSource, latest, overlapped, untidy, deferred, polIds, polDone>>

\* ------------------------------------------------------- the device
DeviceApplies ==
    /\ downlink # <<>>
    /\ downlink' = Tail(downlink)
    /\ deviceRules' = ReadCommand(Head(downlink).bytes)
    /\ deviceSource' = Head(downlink).rules
    /\ deferred' = FALSE
    /\ UNCHANGED <<pcfVars, amfVars, ranRfsp, latest, overlapped, undelivered, untidy, polIds, polDone>>

\* The connection is released; what was on its way is lost.
Released ==
    /\ PolHas("idle") /\ PolTick
    /\ amfCtx /\ amfCM = "connected"
    /\ amfCM' = "idle"
    /\ downlink' = <<>>
    /\ undelivered' = (undelivered \/ downlink # <<>>)
    /\ UNCHANGED <<amfCtx, phase, amAssoc, ueAssoc, rfsp, amAnswered, pendingContainer, pushes, pcfVars,
                   ranRfsp, deviceRules, deviceSource, latest, overlapped, untidy, deferred, polIds>>

\* A Service Request: nothing about policies happens.
Reconnects ==
    /\ amfCtx /\ amfCM = "idle" /\ phase \in {"none", "accepted"}
    /\ amfCM' = "connected"
    /\ UNCHANGED <<amfCtx, phase, amAssoc, ueAssoc, rfsp, amAnswered, pendingContainer, pushes, pcfVars,
                   radioVars, histVars, polIds, polDone>>

ContextGone ==
    /\ amfCtx' = FALSE /\ pushes' = Stranded
    /\ amfCM' = "idle" /\ phase' = "none"
    /\ amAssoc' = 0 /\ ueAssoc' = 0 /\ rfsp' = 0
    /\ pendingContainer' = Nothing
    /\ downlink' = <<>>
    /\ undelivered' = (undelivered \/ downlink # <<>> \/ pendingContainer # Nothing)

\* What is left without an association; one the PCF does not know changes nothing.
handleDeleteAMPolicy(id) == [i \in DOMAIN amPolicies \ {id} |-> amPolicies[i]]
handleDeleteUEPolicy(id) == uePolicies \ {id}

\* What the two DELETEs leave at the PCF when they reach it.
releasePolicies(am, ue) ==
    /\ amPolicies' = IF am THEN handleDeleteAMPolicy(amAssoc) ELSE amPolicies
    /\ uePolicies' = IF ue THEN handleDeleteUEPolicy(ueAssoc) ELSE uePolicies

\* Deregistration: both associations are released, a failure is only logged.
handleDeregistration ==
    /\ amfCtx /\ amfCM = "connected" /\ phase \in {"none", "accepted"}
    /\ ContextGone
    /\ \E am, ue \in (IF PolHas("failure") THEN BOOLEAN ELSE {TRUE}) :
          /\ releasePolicies(am, ue)
          /\ untidy' = (untidy \/ ~am \/ ~ue)
    /\ UNCHANGED <<amAnswered, rfspOverride, subscription, ranRfsp, deviceRules,
                   deviceSource, latest, overlapped, deferred, polIds, polDone>>

\* Implicit detach or loss of the gNB: the PCF is not told.
ContextRemoved ==
    /\ PolHas("detach") /\ PolTick
    /\ amfCtx /\ amfCM = "idle" /\ phase = "none"
    /\ ContextGone
    /\ untidy' = TRUE
    /\ UNCHANGED <<amAnswered, pcfVars, ranRfsp, deviceRules, deviceSource, latest,
                   overlapped, deferred, polIds>>

PolInit ==
    /\ uePolicies = {} /\ amPolicies = <<>> /\ rfspOverride = 0
    /\ subscription \in RuleLists
    /\ amfCtx = FALSE /\ amfCM = "idle" /\ phase = "none"
    /\ amAssoc = 0 /\ ueAssoc = 0 /\ rfsp = 0 /\ amAnswered = FALSE
    /\ pendingContainer = Nothing
    /\ pushes = [p \in Pushers |-> Nobody]
    /\ ranRfsp = 0 /\ downlink = <<>> /\ deviceRules = <<>> /\ deviceSource = <<>>
    /\ latest = <<>> /\ overlapped = FALSE /\ undelivered = FALSE
    /\ untidy = FALSE /\ deferred = FALSE
    /\ polIds = 0 /\ polDone = 0

PolNext ==
    \/ handleSetRFSPOverride \/ handleDeleteRFSPOverride \/ PutPolicySubscription \/ PcfStarts
    \/ RegistrationBegins \/ CreateAMPolicyAssociation \/ CreateUEPolicyAssociation
    \/ handleRegistrationComplete
    \/ \E p \in Pushers : FetchUEPolicyContainer(p) \/ pushDelivers(p)
    \/ pushRefused
    \/ DeviceApplies \/ Released \/ Reconnects \/ handleDeregistration \/ ContextRemoved

PolSpec == PolInit /\ [][PolNext]_polVars

\* ------------------------------------------------------- properties
\* What the variables hold.
PolTypeOK ==
    /\ uePolicies \subseteq 1..MaxAssoc /\ DOMAIN amPolicies \subseteq 1..MaxAssoc
    /\ uePolicies \cap DOMAIN amPolicies = {}
    /\ {amfCtx} \subseteq BOOLEAN
    /\ amfCM \in {"idle", "connected"} /\ phase \in {"none", "am", "ue", "accepted"}
    /\ {overlapped, undelivered, untidy, deferred, amAnswered} \subseteq BOOLEAN
    /\ pendingContainer # Nothing => amfCtx
    /\ ~amfCtx => amAssoc = 0 /\ ueAssoc = 0

\* What a rule asks of the device, written from the rule and not from its octets.
Meaning(rules) ==
    LET mask(p, i) == IF p.bits < 0 THEN 255 ELSE PrefixOctet(p.bits - 8 * (i - 1))
        items(s, f(_)) == {f(s[i]) : i \in DOMAIN s}
        named(td) == items(td.fqdns, LAMBDA n : [t |-> 145, v |-> LV(encodeAPNLabels(n))])
                     \cup items(td.ipv4, LAMBDA p : [t |-> 16, v |-> p.addr \o [i \in 1..4 |-> mask(p, i)]])
                     \cup items(td.protocols, LAMBDA x : [t |-> 48, v |-> <<x>>])
                     \cup items(td.ports, LAMBDA r : [t |-> 81, v |-> Be16(r[1]) \o Be16(r[2])])
                     \cup (IF td.capabilities = <<>> THEN {} ELSE {[t |-> 144, v |-> LV(td.capabilities)]})
        traffic(td) == IF td.matchAll \/ named(td) = {} THEN {[t |-> 1, v |-> <<>>]} ELSE named(td)
        route(r) == items(r.ssc, LAMBDA x : [t |-> 1, v |-> <<x>>])
                    \cup items(r.snssai, LAMBDA s : [t |-> 2, v |-> <<1 + Len(s.sd), s.sst>> \o s.sd])
                    \cup items(r.dnn, LAMBDA n : [t |-> 4, v |-> LV(encodeAPNLabels(n))])
                    \cup items(r.type, LAMBDA x : [t |-> 8, v |-> <<x>>])
    IN  [i \in DOMAIN rules |->
           [precedence |-> rules[i].precedence, traffic |-> traffic(rules[i].td),
            routes |-> [j \in DOMAIN rules[i].rsds |->
                          [precedence |-> rules[i].rsds[j].precedence,
                           components |-> route(rules[i].rsds[j])]]]]

\* The device reads out of a container exactly the rules the PCF put in, through
\* five nested lengths and components without one (policy/ursp.go).
RulesUnderstood == deviceRules = Meaning(deviceSource)

\* Once everything sent has arrived, the device follows the rules of the PCF's
\* last answer, unless that answer overlapped with another delivery or a
\* container was dropped because the device was idle.
DeviceFollowsPcf ==
    Alone /\ phase = "none" /\ latest # <<>> /\ ~overlapped /\ ~undelivered => deviceSource = latest

\* Registrations and deregistrations alone leave no association behind at the
\* PCF; an orphan needs a failed call, a push, an association without rules, a
\* displaced context or a detach the PCF is not told of.
OrderlyLeavesNothing ==
    ~amfCtx /\ ~untidy => uePolicies = {} /\ amPolicies = <<>>

\* The gNB schedules by the index of the association the AMF holds, and by the
\* operator default when the PCF did not answer, also when the context had an
\* index from an earlier registration.
RfspAgrees ==
    amfCtx /\ phase \in {"none", "accepted"} =>
        ranRfsp = IF ~amAnswered THEN DefaultRFSP
                  ELSE IF amAssoc \in DOMAIN amPolicies THEN amPolicies[amAssoc] ELSE ranRfsp

\* A push that was answered "deferred" takes effect once the device is back.
\* (uce.go: "defer the delivery until the next Service Request or Periodic
\* Registration Update".)
DeferredIsDelivered ==
    deferred /\ amfCM = "connected" /\ phase = "none" => pendingContainer # Nothing \/ downlink # <<>>
=============================================================================
