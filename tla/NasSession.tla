----------------------------- MODULE NasSession -----------------------------
(***************************************************************************)
(* The session management messages of N1 (shared/nas/pdu_session.go and    *)
(* transport.go) end to end: a device asks for, modifies and releases a    *)
(* PDU session, the AMF unpacks the transport message and picks slice and  *)
(* DNN (nf/amf/internal/nas/nas.go), the SMF picks type, address and QoS   *)
(* and encodes its answer twice, for the device (N1) and for the gNB (N2)  *)
(* (nf/smf/internal/server/server.go).                                     *)
(*                                                                         *)
(* Messages are octet strings.  The device, which is not part of this      *)
(* repository, reads them with the table of TS 24.501: IEIs 0x7- have two  *)
(* length octets, 0x8- and above none, 0x59 one value octet.  Rates are in *)
(* Mbps, names are short octet strings.  One message is in flight at a     *)
(* time; SmfQos has the races between two modifications.                   *)
(***************************************************************************)
EXTENDS NasWire

CONSTANTS
    SmPsis,        \* PDU session identities
    SmAsks,        \* [type, slice, dnn: options, labels, epco] a device asks for
    SmAllowed,     \* sequences [sst, sd: option, dnn]: a UE's Allowed NSSAI
    Internet,      \* the DNN "internet", whose pool is the fallback
    Resolvers,     \* configured DNN -> its IPv4 DNS servers
    V6Dnns,        \* the configured DNNs with an IPv6 pool
    SmQos,         \* [qi, ul, dl]: QoS the PCF may decide
    MaxSm          \* bound on procedures

VARIABLES
    smAllowed,     \* AMF: ue.AllowedNSSAI
    smAmf,         \* AMF: PSI -> ue.PDUSessions entry or Nothing
    smSmf,         \* SMF: PSI -> Session or Nothing
    smRan,         \* gNB: PSI -> what the last setup transfer said, or Nothing
    smUe,          \* device: PSI -> the session as it understands it, or Nothing
    smAsk,         \* device: the request it waits an answer for, or Nothing
    smUp,          \* octets on the way to the AMF, <<>> for none
    smDown,        \* octets on the way to the device, <<>> for none
    smDone         \* procedures begun

smVars == <<smAllowed, smAmf, smSmf, smRan, smUe, smAsk, smUp, smDown, smDone>>

Nothing == [none |-> TRUE]
IPv4 == 1
IPv6 == 2
IPv4v6 == 3
Request == 193                 \* message types 0xC1 ..
Accept == 194
ModificationRequest == 201
ModificationCommand == 203
ModificationComplete == 204
ModificationCommandReject == 205
ReleaseRequest == 209
ReleaseCommand == 211
ReleaseComplete == 212
IPCP == 32801                  \* ePCO containers: 0x8021
DNSv6 == 3
DNSv4 == 13
LinkMTU == 16
LocalAddrTFT == 17
MTU == 1400

Header(psi, pti, type) == <<46, psi, pti, type>>

(***************************************************************************)
(* Protocol configuration options.                                         *)
(***************************************************************************)

Container(id, v) == Be16(id) \o LV(v)

\* The containers of an options value, in the order they appear.
parseEPCOContainerList(epco) ==
    LET walk[p \in 2 .. (Len(epco) + 1)] ==
          IF p + 2 > Len(epco) \/ p + 2 + epco[p + 2] > Len(epco) THEN <<>>
          ELSE <<[id |-> 256 * epco[p] + epco[p + 1],
                  v |-> SubSeq(epco, p + 3, p + 2 + epco[p + 2])]>>
               \o walk[p + 3 + epco[p + 2]]
    IN IF epco = <<>> THEN <<>> ELSE walk[2]

\* An IPCP Configure-Request: the identifier and the DNS options it holds.
parseIPCPConfigureRequest(v) ==
    IF Len(v) < 4 \/ v[1] # 1 THEN <<>>
    ELSE LET n == IF 256 * v[3] + v[4] > Len(v) THEN Len(v) ELSE 256 * v[3] + v[4]
             walk[p \in 5 .. (Len(v) + 1)] ==
                 IF p + 1 > n \/ v[p + 1] < 2 \/ p + v[p + 1] - 1 > n THEN {}
                 ELSE {v[p]} \cup walk[p + v[p + 1]]
         IN <<[id |-> v[2], wants |-> walk[5] \cap {129, 131}]>>

\* The last IPCP container wins: the containers are looked up in a map.
ParseIPCPFromEPCO(epco) ==
    LET ipcp == SelectSeq(parseEPCOContainerList(epco), LAMBDA c : c.id = IPCP)
    IN IF ipcp = <<>> THEN <<>> ELSE parseIPCPConfigureRequest(Last(ipcp).v)

\* The Configure-Ack that fills in the DNS options asked for, <<>> when none
\* can be.
EncodeIPCPConfigAckContainer(req, dns) ==
    LET filled(opt, i) == IF opt \in req[1].wants /\ Len(dns) >= i THEN <<opt, 6>> \o dns[i] ELSE <<>>
        opts == filled(129, 1) \o filled(131, 2)
    IN IF req = <<>> THEN <<>>
       ELSE IF opts = <<>> THEN <<>>
       ELSE Container(IPCP, <<2, req[1].id>> \o Be16(4 + Len(opts)) \o opts)

EncodePCODNSAndMTU(dns) ==
    <<128>> \o Container(LinkMTU, Be16(MTU))
            \o FlattenSeq([i \in DOMAIN dns |-> Container(DNSv4, dns[i])])

BuildEPCOReplyInFixedOrder(request, dns) ==
    EncodePCODNSAndMTU(dns) \o EncodeIPCPConfigAckContainer(request.ipcp, dns)

\* One answer for each container asked for, in the device's order.
BuildEPCOReply(request, dns) ==
    LET answer(id) ==
            CASE id = IPCP -> EncodeIPCPConfigAckContainer(request.ipcp, dns)
              [] id = DNSv4 -> FlattenSeq([i \in DOMAIN dns |-> Container(DNSv4, dns[i])])
              [] id = LinkMTU -> Container(LinkMTU, Be16(MTU))
              [] id = LocalAddrTFT -> Container(LocalAddrTFT, <<>>)
              [] OTHER -> <<>>
        containers == FlattenSeq([i \in DOMAIN request.ids |-> answer(request.ids[i])])
    IN IF request.ids = <<>>
       THEN EncodePCODNSAndMTU(dns) \o EncodeIPCPConfigAckContainer(request.ipcp, dns)
       ELSE IF containers = <<>> THEN <<>>
       ELSE <<IF request.octet = 0 THEN 128 ELSE request.octet>> \o containers

(***************************************************************************)
(* The establishment request.                                              *)
(***************************************************************************)

EstablishmentRequestFraming ==
    [half |-> {9, 10, 11}, tlve |-> {123}, tv |-> [t \in {85} |-> 2], rest |-> FALSE, stop |-> FALSE]

\* b is the message without its header: two octets of data rate, then IEs.
DecodePDUSessionEstablishmentRequest(b) ==
    LET ies == IEs(Remaining(b, 3), EstablishmentRequestFraming)
        epco == ValueOf(ies, 123)
        containers == parseEPCOContainerList(epco)
        none == [ok |-> TRUE, type |-> <<>>, octet |-> 0, ids |-> <<>>, ipcp |-> <<>>]
    IN IF b = <<>> THEN none
       ELSE IF Len(b) < 2 THEN [none EXCEPT !.ok = FALSE]
       ELSE [ok |-> TRUE,
             type |-> ValueOf(ies, 144),
             octet |-> IF epco = <<>> THEN 0 ELSE epco[1],
             ids |-> [i \in DOMAIN containers |-> containers[i].id],
             ipcp |-> ParseIPCPFromEPCO(epco)]

(***************************************************************************)
(* The transport messages that carry session management.                   *)
(***************************************************************************)

\* A name in APN label format, and its inverse, which also takes a name that
\* is not in that format: its first octet is then a printable character.
encodeAPN(dnn) ==
    LET walk[p \in 1 .. (Len(dnn) + 1)] ==
            LET rest == Remaining(dnn, p)
                dot == SelectInSeq(rest, LAMBDA c : c = 46)
            IN IF dot = 0 THEN LV(rest) ELSE LV(SubSeq(rest, 1, dot - 1)) \o walk[p + dot]
    IN walk[1]

decodeAPN(b) ==
    LET walk[p \in 1 .. (Len(b) + 1)] ==
            IF p > Len(b) \/ b[p] = 0 \/ p + b[p] > Len(b) THEN <<>>
            ELSE <<46>> \o SubSeq(b, p + 1, p + b[p]) \o walk[p + b[p] + 1]
    IN IF b = <<>> \/ b[1] >= 32 \/ walk[1] = <<>> THEN b ELSE Tail(walk[1])

ULNASTransportFraming ==
    [half |-> {8}, tlve |-> {}, tv |-> [t \in {18} |-> 1], rest |-> FALSE, stop |-> FALSE]

\* SD goes with the slice only when its three octets are there.
TransportSNSSAI(v) ==
    [sst |-> v[1], sd |-> IF Len(v) >= 4 THEN <<NumberOf(SubSeq(v, 2, 4))>> ELSE <<>>]

DecodeULNASTransport(b) ==
    LET container == ReadLVE(b, 2)
        ies == IEs(Remaining(b, container.at), ULNASTransportFraming)
    IN [ok |-> /\ Len(b) >= 3
               /\ container.ok
               /\ \A i \in DOMAIN ies : ies[i].t = 34 => (ies[i].ok /\ Len(ies[i].v) \in 1 .. 8),
        type |-> b[1],
        payload |-> container.v,
        psi |-> ValueOf(ies, 18),
        slice |-> IF Present(ies, 34) THEN <<TransportSNSSAI(ValueOf(ies, 34))>> ELSE <<>>,
        dnn |-> IF Present(ies, 37) THEN <<decodeAPN(ValueOf(ies, 37))>> ELSE <<>>]

EncodeDLNASTransport(type, payload, psi, cause) ==
    <<type>> \o LVE(payload) \o <<18, psi>> \o (IF cause = <<>> THEN <<>> ELSE <<88>> \o cause)

EncodeULNASTransport(psi, payload, slice, dnn) ==
    <<1>> \o LVE(payload) \o <<18, psi, 129>>
    \o (IF slice = <<>> THEN <<>>
        ELSE TLV(34, <<slice[1].sst>> \o (IF slice[1].sd = <<>> THEN <<>> ELSE Be24(slice[1].sd[1]))))
    \o (IF dnn = <<>> THEN <<>> ELSE TLV(37, dnn[1]))

(***************************************************************************)
(* Quality of service.                                                     *)
(***************************************************************************)

Is5QIGBR(qi) == qi \in (1 .. 4) \cup (65 .. 67) \cup (71 .. 76) \cup (82 .. 85)

\* A default rule: one match-all filter both ways, lowest precedence.
buildQoSRule(op, qfi) == <<1>> \o LVE(<<32 * op + 16 + 1, 49, 1, 1, 255, qfi % 64>>)

BuildDefaultQoSRules(qfi) == buildQoSRule(1, qfi)

BuildModifyQoSRules(qfi) == buildQoSRule(3, qfi)

\* Unit octet 6 (1 Mbps) and sixteen bits.
rate(mbps) == <<6>> \o Be16(mbps)

buildSessionAMBR(q) == rate(q.dl) \o rate(q.ul)

buildQoSFlowDescription(op, qfi, q) ==
    LET params == <<<<1, 1, q.qi>>>>
                  \o (IF Is5QIGBR(q.qi)
                      THEN << <<2, 3>> \o rate(q.ul), <<3, 3>> \o rate(q.dl),
                              <<4, 3>> \o rate(q.ul), <<5, 3>> \o rate(q.dl) >>
                      ELSE <<>>)
    IN <<qfi % 64, 32 * op, 64 + Len(params)>> \o FlattenSeq(params)

BuildQoSFlowDescriptions(qfi, q) == buildQoSFlowDescription(1, qfi, q)

BuildModifyQoSFlowDescriptions(qfi, q) == buildQoSFlowDescription(3, qfi, q)

(***************************************************************************)
(* The SMF's answers.                                                      *)
(***************************************************************************)

buildPDUAddressIE(addr) ==
    CASE addr.type = IPv6 -> <<2>> \o addr.iid
      [] addr.type = IPv4v6 -> <<3>> \o addr.iid \o addr.ip
      [] OTHER -> <<1>> \o addr.ip

\* #50 or #51 when IPv4v6 was asked for and one family granted, 0 for none.
downgradeCause5GSM(asked, granted) ==
    IF asked # <<IPv4v6>> THEN 0 ELSE CASE granted = IPv4 -> 50 [] granted = IPv6 -> 51 [] OTHER -> 0

SliceIE(slice) ==
    TLV(34, <<slice.sst>> \o (IF slice.sd \in {<<>>, <<SDNotPresent>>} THEN <<>> ELSE Be24(slice.sd[1])))

\* The body of an Establishment Accept, in the order of Table 8.3.2.1.1.
EncodeEstablishmentAcceptBody(p) ==
    LET cause == downgradeCause5GSM(p.request.type, p.addr.type)
        epco == BuildEPCOReply(p.request, p.dns)
    IN <<16 + p.addr.type>>
       \o LVE(BuildDefaultQoSRules(1))
       \o LV(buildSessionAMBR(p.qos))
       \o (IF cause = 0 THEN <<>> ELSE <<89, cause>>)
       \o TLV(41, buildPDUAddressIE(p.addr))
       \o SliceIE(p.slice)
       \o (IF p.qos.qi = 0 THEN <<>> ELSE TLVE(121, BuildQoSFlowDescriptions(1, p.qos)))
       \o (IF epco = <<>> THEN <<>> ELSE TLVE(123, epco))
       \o (IF p.dnn = <<>> THEN <<>> ELSE TLV(37, encodeAPN(p.dnn)))

WrapPDUSessionEstablishmentAcceptBody(psi, pti, body) == Header(psi, pti, Accept) \o body

WrapPDUSessionModificationCommandBody(psi, pti, body) == Header(psi, pti, ModificationCommand) \o body

\* The release cause follows the header without an IEI.
WrapPDUSessionReleaseCommandBody(psi, pti, cause) == Header(psi, pti, ReleaseCommand) \o <<cause>>

EncodePDUSessionModificationCommandBodyWithQoS(q) ==
    TLV(42, buildSessionAMBR(q))
    \o TLVE(122, BuildModifyQoSRules(1))
    \o (IF q.qi = 0 THEN <<>> ELSE TLVE(121, BuildModifyQoSFlowDescriptions(1, q)))

\* What the gNB is told to set up: the type, the Session-AMBR, the flow's 5QI
\* and, for a GBR flow, its rates (the N2 encoding itself is in NgapCodec).
buildQosFlowSetupRequestList(q) ==
    [qfi |-> 1, qi |-> q.qi, gbr |-> IF Is5QIGBR(q.qi) THEN <<[ul |-> q.ul, dl |-> q.dl]>> ELSE <<>>]

buildPDUSessionResourceSetupRequestTransferOpts(type, q) ==
    [type |-> type, ul |-> q.ul, dl |-> q.dl, flow |-> buildQosFlowSetupRequestList(q)]

\* A modify transfer carries no IE at all: the gNB keeps what it has.
buildPDUSessionResourceModifyRequestTransfer(ran) == ran

(***************************************************************************)
(* The device, as TS 24.501 has it.                                        *)
(***************************************************************************)

AsTable ==
    [half |-> {8, 9, 10, 11, 12, 13, 14, 15}, tlve |-> 112 .. 127, tv |-> [t \in {18, 88, 89} |-> 1],
     rest |-> FALSE, stop |-> TRUE]

OptionsIE(containers) ==
    IF containers = <<>> THEN <<>>
    ELSE TLVE(123, <<128>> \o FlattenSeq([i \in DOMAIN containers |-> Container(containers[i].id, containers[i].v)]))

\* A request, with every optional IE of the table a device may send before
\* the options: capability, packet filters, always-on.
EstablishmentRequest(psi, pti, ask) ==
    Header(psi, pti, Request) \o <<255, 255>>
    \o (IF ask.type = <<>> THEN <<>> ELSE <<144 + ask.type[1], 161>>)
    \o <<40, 1, 0>> \o <<85, 0, 32>> \o <<177>>
    \o OptionsIE(ask.epco)

Rate(v) == NumberOf(SubSeq(v, 2, 3))
Ambr(v) == [dl |-> Rate(SubSeq(v, 1, 3)), ul |-> Rate(SubSeq(v, 4, 6))]

\* A QoS flow description: operation, 5QI, and the rates present.
Flow(v) ==
    LET walk[p \in 4 .. (Len(v) + 1)] ==
            IF p > Len(v) THEN <<>>
            ELSE <<[t |-> v[p], v |-> SubSeq(v, p + 2, p + 1 + v[p + 1])]>> \o walk[p + 2 + v[p + 1]]
        params == walk[4]
    IN [op |-> v[2] \div 32, qfi |-> v[1], complete |-> Len(params) = v[3] % 64,
        qi |-> ValueOf(params, 1)[1],
        gbr |-> IF Present(params, 2)
                THEN <<[ul |-> Rate(ValueOf(params, 2)), dl |-> Rate(ValueOf(params, 3)),
                        maxUl |-> Rate(ValueOf(params, 4)), maxDl |-> Rate(ValueOf(params, 5))]>>
                ELSE <<>>]

AddressOf(v) == [type |-> v[1], octets |-> Tail(v)]

\* The session a device makes of the body of an Accept.
ReadAccept(b) ==
    LET rules == ReadLVE(b, 2)
        ambrAt == rules.at + 1
        ies == IEs(Remaining(b, ambrAt + b[rules.at]), AsTable)
        epco == ValueOf(ies, 123)
    IN [type |-> b[1] % 16,
        ruleOp |-> rules.v[4] \div 32,
        ambr |-> Ambr(SubSeq(b, ambrAt, ambrAt + b[rules.at] - 1)),
        cause |-> ValueOf(ies, 89),
        addr |-> AddressOf(ValueOf(ies, 41)),
        slice |-> TransportSNSSAI(ValueOf(ies, 34)),
        flow |-> Flow(ValueOf(ies, 121)),
        epco |-> parseEPCOContainerList(epco),
        dnn |-> decodeAPN(ValueOf(ies, 37))]

(***************************************************************************)
(* Steps of the device.                                                    *)
(***************************************************************************)

SmIdle == smUp = <<>> /\ smDown = <<>> /\ smAsk = Nothing

Begin ==
    /\ SmIdle
    /\ smDone < MaxSm
    /\ smDone' = smDone + 1

DeviceAsks ==
    \E psi \in SmPsis, ask \in SmAsks :
        /\ Begin
        /\ smUe[psi] = Nothing
        /\ smAsk' = [psi |-> psi, pti |-> psi + 10, what |-> Request, ask |-> ask]
        /\ smUp' = EncodeULNASTransport(psi, EstablishmentRequest(psi, psi + 10, ask), ask.slice,
                       IF ask.dnn # <<>> /\ ask.labels THEN <<encodeAPN(ask.dnn[1])>> ELSE ask.dnn)
        /\ UNCHANGED <<smAllowed, smAmf, smSmf, smRan, smUe, smDown>>

\* The device asks to modify or to release the session it has.
DeviceChanges ==
    \E psi \in SmPsis, what \in {ModificationRequest, ReleaseRequest} :
        /\ Begin
        /\ smUe[psi] # Nothing
        /\ smAsk' = [psi |-> psi, pti |-> psi + 10, what |-> what, ask |-> Nothing]
        /\ smUp' = EncodeULNASTransport(psi, Header(psi, psi + 10, what), <<>>, <<>>)
        /\ UNCHANGED <<smAllowed, smAmf, smSmf, smRan, smUe, smDown>>

(***************************************************************************)
(* Steps of the network.                                                   *)
(***************************************************************************)

\* The slice of a session: one of the Allowed NSSAI, the one asked for if any.
\* <<>> for a request that is not authorised.
resolveSessionSNSSAI(asked, allowed) ==
    IF asked = <<>>
    THEN IF allowed = <<>> THEN <<[sst |-> 1, sd |-> <<1>>, dnn |-> <<>>]>> ELSE <<allowed[1]>>
    ELSE LET match == SelectSeq(allowed, LAMBDA a : a.sst = asked[1].sst /\ a.sd = asked[1].sd)
         IN IF match # <<>> THEN <<match[1]>>
            ELSE IF allowed # <<>> THEN <<>>
            ELSE <<[sst |-> asked[1].sst, sd |-> asked[1].sd, dnn |-> <<>>]>>

selectPDUSessionType(asked, v6) ==
    IF v6 /\ asked \in {<<IPv6>>, <<IPv4v6>>} THEN asked[1] ELSE IPv4

pduTypeNeedsIPv4(type) == type \in {IPv4, IPv4v6}
pduTypeNeedsIPv6(type) == type \in {IPv6, IPv4v6}

\* The lowest free address of a pool, the network address and the gateway
\* excepted; every delegated prefix has the same interface identifier.
Allocate(pool, held) ==
    LET used == {held[psi].addr.ip[4] : psi \in {s \in SmPsis : /\ held[s] # Nothing
                                                               /\ held[s].pool = pool
                                                               /\ held[s].addr.ip # <<>>}}
    IN <<10, Len(pool), 0, CHOOSE k \in 2 .. 9 : k \notin used /\ \A j \in 2 .. (k - 1) : j \in used>>

defaultIID == <<0, 0, 0, 0, 0, 0, 0, 1>>

dnsServersFor(dnn) == IF dnn \in DOMAIN Resolvers THEN Resolvers[dnn] ELSE <<>>

\* Nsmf_PDUSession_CreateSMContext: the session and the two answers.  The SMF
\* decodes the N1 container again, as the AMF did; request is what it reads.
handleCreateSMContext(held, dnn, request, slice, qos) ==
    LET pool == IF dnn \in DOMAIN Resolvers THEN dnn ELSE Internet
        type == selectPDUSessionType(request.type, dnn \in V6Dnns)
        addr == [type |-> type,
                 ip |-> IF pduTypeNeedsIPv4(type) THEN Allocate(pool, held) ELSE <<>>,
                 iid |-> IF pduTypeNeedsIPv6(type) THEN defaultIID ELSE <<>>]
        session == [dnn |-> dnn, pool |-> pool, addr |-> addr, slice |-> slice, qos |-> qos]
    IN [session |-> session,
        n1 |-> EncodeEstablishmentAcceptBody([addr |-> addr, dnn |-> dnn, qos |-> qos, slice |-> slice,
                                              dns |-> dnsServersFor(dnn), request |-> request]),
        n2 |-> buildPDUSessionResourceSetupRequestTransferOpts(type, qos)]

\* The transport message on its way to the AMF, if there is one.
Received == IF smUp = <<>> THEN {} ELSE {DecodeULNASTransport(smUp)}

\* The identity of the transport message has precedence over the header's.
SessionOf(transport) == IF transport.psi # <<>> THEN transport.psi[1] ELSE transport.payload[2]

\* A session management message reaches its handler only if it has a header.
Dispatched(transport, type) ==
    /\ transport.ok
    /\ Len(transport.payload) >= 4
    /\ transport.payload[4] = type
    /\ smUp' = <<>>

\* Nothing is forwarded: the payload goes back to the device with #90.
rejectULNASTransport(psi, transport) ==
    smDown' = EncodeDLNASTransport(transport.type, transport.payload, psi, <<90>>)

\* An Establishment Request.  A session the AMF still has under this identity
\* is deleted first.
handleULNASTransport ==
  \E t \in Received :
  \E request \in {DecodePDUSessionEstablishmentRequest(Remaining(t.payload, 5))} :
    LET psi == SessionOf(t)
        pti == t.payload[3]
        slice == resolveSessionSNSSAI(t.slice, smAllowed)
        kept == [smSmf EXCEPT ![psi] = Nothing]
        dnn == IF t.dnn # <<>> THEN t.dnn[1]
               ELSE IF slice[1].dnn # <<>> THEN slice[1].dnn ELSE Internet
    IN /\ Dispatched(t, Request)
       /\ request.ok
       /\ psi # 0
       /\ \/ /\ slice = <<>>
             /\ smSmf' = kept
             /\ smAmf' = [smAmf EXCEPT ![psi] = Nothing]
             /\ rejectULNASTransport(psi, t)
             /\ UNCHANGED smRan
          \/ /\ slice # <<>>
             /\ \E qos \in SmQos :
                  \E made \in {handleCreateSMContext(kept, dnn, request,
                                   [sst |-> slice[1].sst, sd |-> slice[1].sd], qos)} :
                     /\ smSmf' = [kept EXCEPT ![psi] = made.session]
                     /\ smAmf' = [smAmf EXCEPT ![psi] = [dnn |-> dnn, slice |-> slice[1]]]
                     /\ smRan' = [smRan EXCEPT ![psi] = made.n2]
                     /\ smDown' = EncodeDLNASTransport(1,
                            WrapPDUSessionEstablishmentAcceptBody(psi, pti, made.n1), psi, <<>>)
       /\ UNCHANGED <<smAllowed, smUe, smAsk, smDone>>

\* A Modification Command for the new QoS on its way to the device and an
\* empty modify transfer to the gNB.
Modified(psi, pti, body) ==
    /\ smRan' = [smRan EXCEPT ![psi] = buildPDUSessionResourceModifyRequestTransfer(smRan[psi])]
    /\ smDown' = EncodeDLNASTransport(1, WrapPDUSessionModificationCommandBody(psi, pti, body), psi, <<>>)

\* A Modification Request: the PCF decides; the command is empty when it
\* changes nothing.
handlePDUSessionModification == \E t \in Received :
    LET psi == SessionOf(t)
        pti == t.payload[3]
    IN /\ Dispatched(t, ModificationRequest)
       /\ smAmf[psi] # Nothing
       /\ \E qos \in SmQos :
            /\ smSmf' = [smSmf EXCEPT ![psi].qos = qos]
            /\ Modified(psi, pti, IF qos = smSmf[psi].qos THEN <<>>
                                  ELSE EncodePDUSessionModificationCommandBodyWithQoS(qos))
       /\ UNCHANGED <<smAllowed, smAmf, smUe, smAsk, smDone>>

\* The operator changes the QoS of a session: transaction 0.
InitiateNetworkQoSModification ==
    \E psi \in SmPsis, qos \in SmQos :
        /\ Begin
        /\ smAmf[psi] # Nothing
        /\ smSmf' = [smSmf EXCEPT ![psi].qos = qos]
        /\ Modified(psi, 0, EncodePDUSessionModificationCommandBodyWithQoS(qos))
        /\ UNCHANGED <<smAllowed, smAmf, smUe, smAsk, smUp>>

\* A Service Request re-activates the user plane: the setup transfer is built
\* again from the session.
handleUpActivation ==
    \E psi \in SmPsis :
        /\ Begin
        /\ smAmf[psi] # Nothing
        /\ smRan' = [smRan EXCEPT ![psi] =
               buildPDUSessionResourceSetupRequestTransferOpts(smSmf[psi].addr.type, smSmf[psi].qos)]
        /\ UNCHANGED <<smAllowed, smAmf, smSmf, smUe, smAsk, smUp, smDown>>

handlePDUSessionRelease == \E t \in Received :
    LET psi == SessionOf(t)
    IN /\ Dispatched(t, ReleaseRequest)
       /\ smAmf[psi] # Nothing
       /\ smDown' = EncodeDLNASTransport(1,
              WrapPDUSessionReleaseCommandBody(psi, t.payload[3], 36), psi, <<>>)
       /\ smSmf' = [smSmf EXCEPT ![psi] = Nothing]
       /\ smAmf' = [smAmf EXCEPT ![psi] = Nothing]
       /\ smRan' = [smRan EXCEPT ![psi] = Nothing]
       /\ UNCHANGED <<smAllowed, smUe, smAsk, smDone>>

\* Completions and the device's rejection of a command are logged and dropped.
Absorbed ==
    /\ \E t \in Received, type \in {ReleaseComplete, ModificationComplete, ModificationCommandReject} :
          Dispatched(t, type)
    /\ UNCHANGED <<smAllowed, smAmf, smSmf, smRan, smUe, smAsk, smDown, smDone>>

(***************************************************************************)
(* The device takes a message of the network.                              *)
(***************************************************************************)

Container5GSM == ReadLVE(smDown, 2).v
Answers(pti) == smAsk # Nothing /\ pti = smAsk.pti
Reply(psi, pti, type) == smUp' = EncodeULNASTransport(psi, Header(psi, pti, type), <<>>, <<>>)

TakesAccept(psi, m) ==
    /\ m[4] = Accept
    /\ Answers(m[3])
    /\ smUe' = [smUe EXCEPT ![psi] = ReadAccept(Remaining(m, 5))]
    /\ smAsk' = Nothing
    /\ UNCHANGED smUp

\* Its own request comes back: the session was refused.
TakesRejection(m) ==
    /\ m[4] = Request
    /\ Answers(m[3])
    /\ Present(IEs(Remaining(smDown, ReadLVE(smDown, 2).at), AsTable), 88)
    /\ smAsk' = Nothing
    /\ UNCHANGED <<smUe, smUp>>

\* A command may only modify a rule and a flow that exist (TS 24.501 6.4.2.2).
TakesCommand(psi, m) ==
    LET ies == IEs(Remaining(m, 5), AsTable)
        sound == /\ ValueOf(ies, 122)[4] \div 32 = 3
                 /\ Flow(ValueOf(ies, 121)).op = 3
        applies == ies # <<>> /\ sound
    IN /\ m[4] = ModificationCommand
       /\ m[3] = 0 \/ Answers(m[3])
       /\ smAsk' = Nothing
       /\ smUe' = IF applies
                  THEN [smUe EXCEPT ![psi].ambr = Ambr(ValueOf(ies, 42)),
                                    ![psi].flow = [Flow(ValueOf(ies, 121)) EXCEPT !.op = 1]]
                  ELSE smUe
       /\ Reply(psi, m[3], IF ies = <<>> \/ applies THEN ModificationComplete
                           ELSE ModificationCommandReject)

TakesRelease(psi, m) ==
    /\ m[4] = ReleaseCommand
    /\ Answers(m[3])
    /\ smUe' = [smUe EXCEPT ![psi] = Nothing]
    /\ smAsk' = Nothing
    /\ Reply(psi, m[3], ReleaseComplete)

DeviceTakes ==
    LET m == Container5GSM
        psi == m[2]
    IN /\ smDown # <<>>
       /\ smDown' = <<>>
       /\ TakesAccept(psi, m) \/ TakesRejection(m) \/ TakesCommand(psi, m) \/ TakesRelease(psi, m)
       /\ UNCHANGED <<smAllowed, smAmf, smSmf, smRan, smDone>>

SmInit ==
    /\ smAllowed \in SmAllowed
    /\ smAmf = [psi \in SmPsis |-> Nothing]
    /\ smSmf = [psi \in SmPsis |-> Nothing]
    /\ smRan = [psi \in SmPsis |-> Nothing]
    /\ smUe = [psi \in SmPsis |-> Nothing]
    /\ smAsk = Nothing
    /\ smUp = <<>>
    /\ smDown = <<>>
    /\ smDone = 0

SmNext ==
    \/ DeviceAsks
    \/ DeviceChanges
    \/ handleULNASTransport
    \/ handlePDUSessionModification
    \/ InitiateNetworkQoSModification
    \/ handleUpActivation
    \/ handlePDUSessionRelease
    \/ Absorbed
    \/ DeviceTakes

SmSpec == SmInit /\ [][SmNext]_smVars

(***************************************************************************)
(* Properties.                                                             *)
(***************************************************************************)

Octets(s) == \A i \in DOMAIN s : s[i] \in 0 .. 255

\* Everything on the air is octets, and a session management header leads
\* every downlink container.
SmTypeOK ==
    /\ Octets(smUp)
    /\ Octets(smDown)
    /\ smDone \in 0 .. MaxSm
    /\ \A psi \in SmPsis : smSmf[psi] # Nothing => smSmf[psi].qos \in SmQos
    /\ smDown # <<>> => (Len(Container5GSM) >= 4 /\ Container5GSM[1] = 46)

\* With nothing in flight, the session as the device decoded it is the session
\* the SMF holds: type, address, slice, DNN, Session-AMBR, 5QI and, for a GBR
\* flow, the flow rates, through establishment and every modification.
SessionAgrees ==
    smUp = <<>> /\ smDown = <<>> =>
        \A psi \in SmPsis :
            /\ (smUe[psi] = Nothing) = (smSmf[psi] = Nothing)
            /\ smUe[psi] # Nothing =>
                 LET u == smUe[psi]
                     s == smSmf[psi]
                 IN /\ u.type = s.addr.type
                    /\ u.addr = [type |-> s.addr.type, octets |-> s.addr.iid \o s.addr.ip]
                    /\ u.slice = s.slice
                    /\ u.dnn = s.dnn
                    /\ u.ambr = [ul |-> s.qos.ul, dl |-> s.qos.dl]
                    /\ u.flow.complete
                    /\ u.flow.qi = s.qos.qi
                    /\ (u.flow.gbr # <<>>) = Is5QIGBR(s.qos.qi)
                    /\ u.flow.gbr # <<>> =>
                         u.flow.gbr[1] = [ul |-> s.qos.ul, dl |-> s.qos.dl,
                                          maxUl |-> s.qos.ul, maxDl |-> s.qos.dl]

\* A device never has to reject what the network sends it: a modification
\* changes the rule and the flow the Accept created.
NoSemanticError ==
    \A t \in Received : t.payload[4] # ModificationCommandReject

\* A session is up on the slice and under the DNN the device asked for; where
\* it left them open, on an allowed slice and that slice's DNN.
AsAsked(psi, ask) ==
    LET s == smSmf[psi]
    IN /\ ask.slice # <<>> => (s.slice = ask.slice[1])
       /\ ask.dnn # <<>> => (s.dnn = ask.dnn[1])
       /\ smAllowed # <<>> =>
            \E i \in DOMAIN smAllowed :
                /\ s.slice = [sst |-> smAllowed[i].sst, sd |-> smAllowed[i].sd]
                /\ ask.dnn = <<>> /\ smAllowed[i].dnn # <<>> => s.dnn = smAllowed[i].dnn

\* No session comes up on a slice or a DNN other than the device asked for,
\* nor on one that is not allowed; a refused request is returned word for word.
SlicesHonoured ==
    smDown # <<>> /\ smAsk # Nothing /\ smAsk.what = Request =>
        IF Container5GSM[4] = Accept THEN AsAsked(smAsk.psi, smAsk.ask)
        ELSE Container5GSM = EstablishmentRequest(smAsk.psi, smAsk.pti, smAsk.ask)

\* The resolvers a device reads from the options of its Accept.
ContainersOf(u, id) == SelectSeq(u.epco, LAMBDA c : c.id = id)

\* The positions a reply answers, by container identity.
Answerable(ask, dns) ==
    LET answers(c) ==
            \/ c.id \in {LinkMTU, LocalAddrTFT}
            \/ c.id = DNSv4 /\ dns # <<>>
            \/ /\ c.id = IPCP
               /\ LET r == parseIPCPConfigureRequest(c.v)
                  IN r # <<>> /\ ((129 \in r[1].wants /\ Len(dns) >= 1)
                                  \/ (131 \in r[1].wants /\ Len(dns) >= 2))
        asked == SelectSeq(ask.epco, answers)
    IN [i \in DOMAIN asked |-> asked[i].id]

\* A sequence without immediate repetitions: one request for resolvers has
\* one answer per resolver.
Grouped(s) ==
    LET at == SelectSeq([i \in DOMAIN s |-> i], LAMBDA i : i = 1 \/ s[i] # s[i - 1])
    IN [i \in DOMAIN at |-> s[at[i]]]

\* The Accept answers the options of the request one by one in the device's
\* own order, all that can be answered, with the resolvers of its DNN.
OptionsMirrored ==
    smDown # <<>> /\ smAsk # Nothing /\ smAsk.what = Request /\ Container5GSM[4] = Accept =>
        LET u == ReadAccept(Remaining(Container5GSM, 5))
            dns == dnsServersFor(u.dnn)
            resolvers == ContainersOf(u, DNSv4)
        IN /\ smAsk.ask.epco # <<>> =>
                Grouped([i \in DOMAIN u.epco |-> u.epco[i].id]) = Answerable(smAsk.ask, dns)
           /\ [i \in DOMAIN resolvers |-> resolvers[i].v] \in {<<>>, dns}
           /\ \A c \in ToSet(ContainersOf(u, IPCP)) : c.v[1] = 2 /\ Len(c.v) = 256 * c.v[3] + c.v[4]

\* A device that asked for both families and was given one is told so, and no
\* other device is told anything.
DowngradeExplained ==
    smDown # <<>> /\ smAsk # Nothing /\ smAsk.what = Request /\ Container5GSM[4] = Accept =>
        LET u == ReadAccept(Remaining(Container5GSM, 5))
        IN u.cause = (IF smAsk.ask.type # <<IPv4v6>> \/ u.type = IPv4v6 THEN <<>>
                      ELSE IF u.type = IPv4 THEN <<50>> ELSE <<51>>)

\* What the gNB has is what the SMF decided.
RanFollowsQos ==
    smUp = <<>> /\ smDown = <<>> =>
        \A psi \in SmPsis : smSmf[psi] # Nothing =>
            smRan[psi] = buildPDUSessionResourceSetupRequestTransferOpts(smSmf[psi].addr.type, smSmf[psi].qos)
=============================================================================
