----------------------------- MODULE NgapCodec -----------------------------
(***************************************************************************)
(* The NGAP codec of the AMF (internal/ngap/codec.go) on the N2 interface  *)
(* of one UE.  A PDU is its message and the sequence of its information    *)
(* elements; a Build operator gives the elements in the order in which the *)
(* code appends them, an extract operator folds the elements it is given   *)
(* into the AMF's message, the last of a kind winning and lists growing.   *)
(* Around the codec: what the AMF remembers of the serving gNB between two *)
(* PDUs (UEAMBRSentToRAN, the TAI, the prepared handover).                 *)
(***************************************************************************)
EXTENDS Naturals, FiniteSets, Sequences, SequencesExt

CONSTANTS N2Gnbs,         \* the gNBs; each has its identity and cells
          GnbIdOf,        \* gNB -> [plmn, bytes, bits]: its Global gNB ID
          CellsOf,        \* gNB -> sequence of TAIs in octets [plmn, tac]
          AmfPlmn,        \* [mcc, mnc] of the AMF's configuration
          SubscribedNSSAI,\* the UE's Allowed NSSAI: [sst, sd, dnn], a sequence
          SubscribedKbps, \* the subscribed UE-AMBR, 0 when UDM gave none
          maxAllowedNSSAI,\* maxnoofAllowedS-NSSAIs
          WirePsis,       \* PDU session identities
          N2Events,       \* subset of {"handover", "idle", "other"}
          MaxRanId        \* bound: UE-associated connections in a run

VARIABLES n2Gnbs,    \* gNB -> what its NG Setup Request said, or NotSetUp
          n2Ran,     \* the serving gNB's context: [gnb, id, ambr, psis, live]
          n2Amf,     \* the AMF's: [gnb, id, ambrSent, tai, idle, guti]
          n2Heard,   \* history: the last PDU the gNB sent
          n2Msg,     \* what the AMF decoded from it
          n2Wire,    \* the PDU the AMF answered with, or Nil
          n2Sending, \* a send whose UEAMBRSentToRAN is still to be set
          n2Prep,    \* the prepared handover (n2HandoverState)
          n2SeenAt,  \* history: the TAI octets last reported for the UE
          n2Crossed  \* history: the connection changed under a send

n2Vars == <<n2Gnbs, n2Ran, n2Amf, n2Heard, n2Msg, n2Wire, n2Sending, n2Prep, n2SeenAt, n2Crossed>>

AmfId == 1
Nil == [proc |-> "nil", ies |-> <<>>]
NoMsg == [type |-> "none"]
NotSetUp == [tas |-> <<>>, bytes |-> <<>>]
NoSending == [kind |-> "none", at |-> "idle", ambr |-> FALSE, psis |-> {}]
NoPrep == [stage |-> "none", gnb |-> "none", id |-> 0, psis |-> {}, released |-> {}, ambr |-> 0]
NoTai == [mcc |-> <<>>, mnc |-> <<>>, tac |-> 0]
NoUli == [plmn |-> <<>>, tac |-> <<>>]

(***************************************************************************)
(* PLMN and TAC helpers.  A PLMN is six nibbles, in the order of the wire. *)
(***************************************************************************)
zeroPad(s, n) == IF Len(s) >= n THEN s ELSE [i \in 1..(n - Len(s)) |-> 0] \o s

plmnFromMCCMNC(mcc, mnc) ==
    LET c == zeroPad(mcc, 3)
        n == IF Len(zeroPad(mnc, 2)) = 2 THEN zeroPad(mnc, 2) \o <<15>> ELSE mnc
    IN  <<c[2], c[1], n[3], c[3], n[2], n[1]>>

plmnToMCC(p) == IF Len(p) < 6 THEN <<>> ELSE <<p[2], p[1], p[4]>>
plmnToMNC(p) == IF Len(p) < 6 THEN <<>>
                ELSE IF p[3] = 15 THEN <<p[6], p[5]>> ELSE <<p[6], p[5], p[3]>>
tacToUint32(t) == FoldLeft(LAMBDA v, b : v * 256 + b, 0, t)
tacOctets(v) == <<(v \div 65536) % 256, (v \div 256) % 256, v % 256>>

(***************************************************************************)
(* Information elements.                                                   *)
(***************************************************************************)
IE(id, v) == <<[id |-> id, val |-> v]>>
Opt(b, ies) == IF b THEN ies ELSE <<>>
IEsOf(ies, id) == SelectSeq(ies, LAMBDA e : e.id = id)
Carries(pdu, id) == IEsOf(pdu.ies, id) # <<>>

\* A scalar element: the last one given, the zero value when there is none.
Scalar(ies, id, zero) ==
    LET s == IEsOf(ies, id) IN IF s = <<>> THEN zero ELSE s[Len(s)].val

\* A list element: its items in order, over all elements of the kind.
Items(ies, id) ==
    FoldLeft(LAMBDA acc, e : acc \o e.val, <<>>, IEsOf(ies, id))

(***************************************************************************)
(* What the encoder library checks: a SEQUENCE OF has at least one item    *)
(* and at most as many as the type allows; else no PDU comes out.          *)
(***************************************************************************)
ListIEs == {"SessionList", "ReleaseList", "AllowedNSSAI", "TAIList", "PLMNSupportList", "ServedGUAMIList"}
LimitOf(id) == IF id = "AllowedNSSAI" THEN maxAllowedNSSAI ELSE 256
Encoder(proc, ies) ==
    IF \A i \in 1..Len(ies) : ies[i].id \in ListIEs =>
          /\ Len(ies[i].val) > 0
          /\ Len(ies[i].val) <= LimitOf(ies[i].id)
    THEN [proc |-> proc, ies |-> ies]
    ELSE Nil

(***************************************************************************)
(* Values.                                                                 *)
(***************************************************************************)
\* A slice differentiator that is not six hex digits is left out.
snssaiSDBytes(sd) == IF sd \in {"000001", "000002"} THEN sd ELSE "absent"
buildNGAPSNSSAI(s) == [sst |-> s.sst, sd |-> snssaiSDBytes(s.sd)]

\* De-duplicated on (SST, SD as subscribed) and capped.
allowedNSSAIItems(in) ==
    LET taken == FoldLeft(LAMBDA acc, s :
                    IF Len(acc) >= maxAllowedNSSAI
                       \/ \E i \in 1..Len(acc) : acc[i].sst = s.sst /\ acc[i].sd = s.sd
                    THEN acc ELSE Append(acc, s), <<>>, in)
    IN  [i \in 1..Len(taken) |-> buildNGAPSNSSAI(taken[i])]

DefaultUEAMBRBps == 1000000000
NewUEAMBRFromKbps(kbps) == kbps * 1000
buildUEAMBR(bps) == IF bps <= 0 THEN DefaultUEAMBRBps ELSE bps
buildGUAMI == plmnFromMCCMNC(AmfPlmn.mcc, AmfPlmn.mnc)
buildPLMNSupportList(snssais) ==
    LET served == IF snssais = <<>> THEN <<[sst |-> 1, sd |-> "000001"]>> ELSE snssais
    IN  <<[plmn |-> buildGUAMI, slices |-> [i \in 1..Len(served) |-> buildNGAPSNSSAI(served[i])]]>>
\* The capability bitmaps, both octets of each.
buildUESecurityCapabilities(enc, int) == [enc |-> <<enc, 0>>, int |-> <<int, 0>>]
bitmap16(octets) == (IF Len(octets) > 0 THEN octets[1] * 256 ELSE 0) + (IF Len(octets) > 1 THEN octets[2] ELSE 0)

\* Causes are <<group, value>>; a group the builder does not know becomes a
\* NAS normal release.
CauseGroups == {"radio", "transport", "nas", "protocol", "misc"}
NormalRelease == <<"nas", 0>>

buildCause(c) == IF c[1] \in CauseGroups THEN c ELSE NormalRelease

\* A decoded cause keeps its group; the value only of the groups named.
CauseOf(ies, groups) ==
    LET c == Scalar(ies, "Cause", <<"absent", 0>>)
    IN  IF c[1] \in groups THEN c ELSE <<c[1], 0>>

\* The padding bits of a left-aligned bit string are dropped.
BitString(v, octets, bits) == v \div 2^(8 * octets - bits)
nrCellIdentityToHex(v, octets, bits) == BitString(v, octets, bits)

(***************************************************************************)
(* Extractors: gNB -> AMF.                                                 *)
(***************************************************************************)
AMFUENGAPId(ies) == Scalar(ies, "AMFUENGAPID", 0)
RANUENGAPId(ies) == Scalar(ies, "RANUENGAPID", 0)

extractGlobalRANNodeIDBytes(g) == IF g.type = "gNB" THEN g.plmn \o <<g.bytes>> ELSE <<>>
extractGlobalRANNode(g) ==
    IF g.type = "gNB"
    THEN [type |-> "gNB", mcc |-> plmnToMCC(g.plmn), mnc |-> plmnToMNC(g.plmn),
          id |-> BitString(g.bytes, 1, g.bits), bits |-> g.bits]
    ELSE [type |-> g.type, mcc |-> <<>>, mnc |-> <<>>, id |-> 0, bits |-> 0]

extractTAISliceSupport(list) ==
    [i \in 1..Len(list) |-> [sst |-> list[i].sst, sd |-> IF list[i].sd = "absent" THEN "" ELSE list[i].sd]]
extractSupportedTAList(list) ==
    [i \in 1..Len(list) |-> [tac |-> tacToUint32(list[i].tac), mcc |-> plmnToMCC(list[i].plmn),
                             mnc |-> plmnToMNC(list[i].plmn),
                             slices |-> extractTAISliceSupport(list[i].slices)]]

\* The name is kept only if its element follows the node's identity.
extractNGSetupRequest(ies) ==
    LET at(id) == {i \in 1..Len(ies) : ies[i].id = id}
        node == Scalar(ies, "GlobalRANNodeID", [type |-> "absent"])
    IN  [type |-> "NGSetupRequest", bytes |-> extractGlobalRANNodeIDBytes(node),
         node |-> extractGlobalRANNode(node),
         name |-> \E i \in at("RANNodeName") : \A j \in at("GlobalRANNodeID") : j < i,
         tas |-> extractSupportedTAList(Scalar(ies, "SupportedTAList", <<>>))]

extractTAIFromULI(uli) ==
    IF uli.type = "nr" THEN [mcc |-> plmnToMCC(uli.tai.plmn), mnc |-> plmnToMNC(uli.tai.plmn),
                             tac |-> tacToUint32(uli.tai.tac)]
    ELSE NoTai
TaiIn(ies) == extractTAIFromULI(Scalar(ies, "ULI", [type |-> "absent"]))

extractInitialUEMessage(ies) ==
    [type |-> "InitialUEMessage", ran |-> RANUENGAPId(ies), nas |-> Scalar(ies, "NASPDU", "none"),
     tai |-> TaiIn(ies), tmsi |-> Scalar(ies, "FiveGSTMSI", "none")]

extractUplinkNASTransport(ies) ==
    [type |-> "UplinkNASTransport", amf |-> AMFUENGAPId(ies), ran |-> RANUENGAPId(ies),
     nas |-> Scalar(ies, "NASPDU", "none")]

extractErrorIndication(ies) ==
    [type |-> "ErrorIndication", amf |-> AMFUENGAPId(ies), ran |-> RANUENGAPId(ies), cause |-> CauseOf(ies, CauseGroups)]
extractInitialContextSetupFailure(ies) ==
    [type |-> "InitialContextSetupFailure", amf |-> AMFUENGAPId(ies), ran |-> RANUENGAPId(ies), cause |-> CauseOf(ies, CauseGroups)]

\* Setup and context setup responses: who was set up, who failed.
SetupResult(type, ies) ==
    [type |-> type, amf |-> AMFUENGAPId(ies), ran |-> RANUENGAPId(ies),
     setups |-> Items(ies, "SetupList"), failed |-> Items(ies, "FailedList")]
extractPDUSessionResourceSetupResponse(ies) == SetupResult("PDUSessionResourceSetupResponse", ies)
extractInitialContextSetupResponse(ies) == SetupResult("InitialContextSetupResponse", ies)
extractPDUSessionResourceModifyResponse(ies) ==
    [type |-> "PDUSessionResourceModifyResponse", amf |-> AMFUENGAPId(ies), ran |-> RANUENGAPId(ies),
     results |-> Items(ies, "ModifyList")]

Identified(type, ies) == [type |-> type, amf |-> AMFUENGAPId(ies), ran |-> RANUENGAPId(ies)]
extractPDUSessionResourceReleaseResponse(ies) == Identified("PDUSessionResourceReleaseResponse", ies)
extractUEContextReleaseComplete(ies) == Identified("UEContextReleaseComplete", ies)
extractUEContextReleaseRequest(ies) ==
    [type |-> "UEContextReleaseRequest", amf |-> AMFUENGAPId(ies), ran |-> RANUENGAPId(ies),
     cause |-> CauseOf(ies, {"radio", "nas", "misc"})]
extractUERadioCapabilityInfoIndication(ies) ==
    [type |-> "UERadioCapabilityInfoIndication", amf |-> AMFUENGAPId(ies), ran |-> RANUENGAPId(ies),
     capability |-> Scalar(ies, "UERadioCapability", "none")]
extractLocationReport(ies) ==
    [type |-> "LocationReport", amf |-> AMFUENGAPId(ies), ran |-> RANUENGAPId(ies), tai |-> TaiIn(ies),
     cell |-> IF TaiIn(ies) = NoTai THEN 0 ELSE nrCellIdentityToHex(Scalar(ies, "ULI", NoUli).cell, 1, 4)]

extractUplinkUEAssociatedNRPPaTransport(ies) ==
    [type |-> "UplinkUEAssociatedNRPPaTransport", amf |-> AMFUENGAPId(ies), ran |-> RANUENGAPId(ies),
     routing |-> Scalar(ies, "RoutingID", "none"), pdu |-> Scalar(ies, "NRPPaPDU", "none")]
extractUplinkNonUEAssociatedNRPPaTransport(ies) ==
    [type |-> "UplinkNonUEAssociatedNRPPaTransport",
     routing |-> Scalar(ies, "RoutingID", "none"), pdu |-> Scalar(ies, "NRPPaPDU", "none")]

\* The Target ID as the PREPARING UpdateSMContext would name it.
extractHOTargetID(g) == extractGlobalRANNode(g)

\* Only the octets of the target's identity are taken over; Target keeps its
\* zero value.
extractHandoverRequired(ies) ==
    [type |-> "HandoverRequired", amf |-> AMFUENGAPId(ies), ran |-> RANUENGAPId(ies),
     cause |-> CauseOf(ies, {"radio", "nas"}),
     bytes |-> extractGlobalRANNodeIDBytes(Scalar(ies, "TargetID", [type |-> "absent"])),
     target |-> extractHOTargetID([type |-> "absent"]),
     sessions |-> Items(ies, "SessionList"),
     container |-> Scalar(ies, "SourceToTarget", "none")]
extractHandoverRequestAcknowledge(ies) ==
    [type |-> "HandoverRequestAcknowledge", amf |-> AMFUENGAPId(ies), ran |-> RANUENGAPId(ies),
     admitted |-> Items(ies, "AdmittedList"), failed |-> Items(ies, "FailedList"),
     container |-> Scalar(ies, "TargetToSource", "none")]
extractHandoverNotify(ies) ==
    [type |-> "HandoverNotify", amf |-> AMFUENGAPId(ies), ran |-> RANUENGAPId(ies),
     uli |-> Scalar(ies, "ULI", [type |-> "absent"])]
extractPathSwitchRequest(ies) ==
    [type |-> "PathSwitchRequest", amf |-> Scalar(ies, "SourceAMFUENGAPID", 0), ran |-> RANUENGAPId(ies),
     tai |-> TaiIn(ies), sessions |-> Items(ies, "SwitchedDLList"), failed |-> Items(ies, "FailedList"),
     secCap |-> LET c == Scalar(ies, "UESecurityCapabilities", [enc |-> <<>>, int |-> <<>>])
                IN  <<bitmap16(c.enc), bitmap16(c.int)>>]

\* The dispatch on procedure and outcome; a message the AMF does not decode
\* leaves no value.
buildMessage(pdu) ==
    CASE pdu.proc = "NGSetupRequest" -> extractNGSetupRequest(pdu.ies)
      [] pdu.proc = "InitialUEMessage" -> extractInitialUEMessage(pdu.ies)
      [] pdu.proc = "UplinkNASTransport" -> extractUplinkNASTransport(pdu.ies)
      [] pdu.proc = "UEContextReleaseRequest" -> extractUEContextReleaseRequest(pdu.ies)
      [] pdu.proc = "PathSwitchRequest" -> extractPathSwitchRequest(pdu.ies)
      [] pdu.proc = "HandoverRequired" -> extractHandoverRequired(pdu.ies)
      [] pdu.proc = "HandoverNotify" -> extractHandoverNotify(pdu.ies)
      [] pdu.proc = "ErrorIndication" -> extractErrorIndication(pdu.ies)
      [] pdu.proc = "LocationReport" -> extractLocationReport(pdu.ies)
      [] pdu.proc = "UplinkUEAssociatedNRPPaTransport" -> extractUplinkUEAssociatedNRPPaTransport(pdu.ies)
      [] pdu.proc = "UplinkNonUEAssociatedNRPPaTransport" -> extractUplinkNonUEAssociatedNRPPaTransport(pdu.ies)
      [] pdu.proc = "UERadioCapabilityInfoIndication" -> extractUERadioCapabilityInfoIndication(pdu.ies)
      [] pdu.proc = "PDUSessionResourceSetupResponse" -> extractPDUSessionResourceSetupResponse(pdu.ies)
      [] pdu.proc = "PDUSessionResourceReleaseResponse" -> extractPDUSessionResourceReleaseResponse(pdu.ies)
      [] pdu.proc = "PDUSessionResourceModifyResponse" -> extractPDUSessionResourceModifyResponse(pdu.ies)
      [] pdu.proc = "InitialContextSetupResponse" -> extractInitialContextSetupResponse(pdu.ies)
      [] pdu.proc = "UEContextReleaseComplete" -> extractUEContextReleaseComplete(pdu.ies)
      [] pdu.proc = "HandoverRequestAcknowledge" -> extractHandoverRequestAcknowledge(pdu.ies)
      [] pdu.proc = "InitialContextSetupFailure" -> extractInitialContextSetupFailure(pdu.ies)
      [] OTHER -> NoMsg

\* A PDU that does not decode is dropped by the read loop.
DecodeNGAPPDU(pdu) == IF pdu = Nil THEN NoMsg ELSE buildMessage(pdu)

(***************************************************************************)
(* Builders: AMF -> gNB.                                                   *)
(***************************************************************************)
Ids(amf, ran) == IE("AMFUENGAPID", amf) \o IE("RANUENGAPID", ran)
SessionItems(psis) == SetToSeq(psis)

BuildNGSetupResponse(snssais) ==
    Encoder("NGSetupResponse", IE("AMFName", "amf") \o IE("ServedGUAMIList", <<buildGUAMI>>)
            \o IE("RelativeAMFCapacity", 100) \o IE("PLMNSupportList", buildPLMNSupportList(snssais)))

BuildDownlinkNASTransport(amf, ran, nas) ==
    Encoder("DownlinkNASTransport", Ids(amf, ran) \o IE("NASPDU", nas))

ContextNSSAI == Opt(SubscribedNSSAI # <<>>,
    IE("AllowedNSSAI", [i \in 1..Len(SubscribedNSSAI) |-> buildNGAPSNSSAI(SubscribedNSSAI[i])]))

ContextSecurity == IE("UESecurityCapabilities", buildUESecurityCapabilities(224, 224)) \o IE("SecurityKey", "kgnb")

ContextTail(nas, rfsp) == Opt(rfsp > 0, IE("IndexToRFSP", rfsp)) \o Opt(nas, IE("NASPDU", "nas"))

BuildInitialContextSetupRequest(amf, ran, nas, rfsp, psis) ==
    Encoder("InitialContextSetupRequest", Ids(amf, ran)
       \o Opt(psis # {}, IE("UEAMBR", buildUEAMBR(NewUEAMBRFromKbps(SubscribedKbps))))
       \o IE("GUAMI", buildGUAMI) \o Opt(psis # {}, IE("SessionList", SessionItems(psis)))
       \o ContextNSSAI \o ContextSecurity \o ContextTail(nas, rfsp))

BuildPDUSessionResourceSetupRequest(amf, ran, psi, ambr) ==
    Encoder("PDUSessionResourceSetupRequest", Ids(amf, ran) \o IE("SessionList", <<psi>>)
            \o Opt(ambr, IE("UEAMBR", buildUEAMBR(NewUEAMBRFromKbps(SubscribedKbps)))))
BuildPDUSessionResourceModifyRequest(amf, ran, psi) ==
    Encoder("PDUSessionResourceModifyRequest", Ids(amf, ran) \o IE("SessionList", <<psi>>))
BuildPDUSessionResourceReleaseCommand(amf, ran, psi) ==
    Encoder("PDUSessionResourceReleaseCommand", Ids(amf, ran) \o IE("NASPDU", "nas") \o IE("ReleaseList", <<psi>>))
BuildUEContextReleaseCommand(amf, ran, cause) ==
    Encoder("UEContextReleaseCommand", IE("UENGAPIDs", <<amf, ran>>) \o IE("Cause", buildCause(cause)))
BuildPaging(tais) == Encoder("Paging", IE("UEPagingIdentity", "tmsi") \o IE("TAIList", tais))
BuildLocationReportingControl(amf, ran) ==
    Encoder("LocationReportingControl", Ids(amf, ran) \o IE("LocationReportingRequestType", "direct cell"))

HandoverRequestMissingIE(nSessions, nAllowed, container) ==
    nSessions = 0 \/ nAllowed = 0 \/ container = "none"

\* The positions of the elements of a HANDOVER REQUEST in its table.
HandoverRequestOrder == <<"AMFUENGAPID", "HandoverType", "Cause", "UEAMBR", "UESecurityCapabilities", "SecurityContext",
                          "SessionList", "AllowedNSSAI", "SourceToTarget", "GUAMI">>
Position(id) == CHOOSE i \in 1..Len(HandoverRequestOrder) : HandoverRequestOrder[i] = id

\* Appended in any order, then sorted stably into the table's.
BuildHandoverRequest(amf, cause, psis, allowed, container) ==
    IF psis = {} \/ allowed = <<>> \/ container = "none" THEN Nil
    ELSE Encoder("HandoverRequest", SortSeq(
            IE("AMFUENGAPID", amf) \o IE("HandoverType", 0) \o IE("Cause", buildCause(cause))
            \o IE("UEAMBR", buildUEAMBR(NewUEAMBRFromKbps(SubscribedKbps)))
            \o IE("UESecurityCapabilities", buildUESecurityCapabilities(224, 224)) \o IE("SecurityContext", "ncc nh")
            \o IE("GUAMI", buildGUAMI) \o IE("SourceToTarget", container)
            \o IE("SessionList", SessionItems(psis)) \o IE("AllowedNSSAI", allowedNSSAIItems(allowed)),
            LAMBDA a, b : Position(a.id) < Position(b.id)))

BuildHandoverPreparationFailure(amf, ran, cause) ==
    Encoder("HandoverPreparationFailure", Ids(amf, ran) \o IE("Cause", buildCause(cause)))
BuildHandoverCommand(amf, ran, handled, toRelease, container) ==
    Encoder("HandoverCommand", Ids(amf, ran) \o IE("HandoverType", 0)
       \o Opt(handled # {}, IE("SessionList", SessionItems(handled)))
       \o Opt(toRelease # {}, IE("ReleaseList", SessionItems(toRelease)))
       \o IE("TargetToSource", container))

\* SMF bytes when it gave any, else the AMF's own {Cause}.
releasedTransfer(r) == IF r.smf THEN "smf" ELSE buildCause(r.cause)
BuildPathSwitchRequestAcknowledge(amf, ran, capDiffers, switched, released, allowed) ==
    IF switched = {} \/ allowedNSSAIItems(allowed) = <<>> THEN Nil
    ELSE Encoder("PathSwitchRequestAcknowledge", Ids(amf, ran)
       \o Opt(capDiffers, IE("UESecurityCapabilities", buildUESecurityCapabilities(224, 224)))
       \o IE("SecurityContext", "ncc nh") \o IE("SessionList", SessionItems(switched))
       \o Opt(released # {}, IE("ReleaseList", [i \in 1..Cardinality(released) |->
              releasedTransfer([smf |-> TRUE, cause |-> NormalRelease])]))
       \o IE("AllowedNSSAI", allowedNSSAIItems(allowed)))
BuildPathSwitchRequestFailure(amf, ran, released) ==
    IF released = {} THEN Nil
    ELSE Encoder("PathSwitchRequestFailure", Ids(amf, ran)
       \o IE("ReleaseList", [i \in 1..Cardinality(released) |->
              releasedTransfer([smf |-> FALSE, cause |-> <<"misc", 1>>])]))
BuildDownlinkUEAssociatedNRPPaTransport(amf, ran, routing) ==
    Encoder("DownlinkUEAssociatedNRPPaTransport", Ids(amf, ran) \o Opt(routing, IE("RoutingID", "lmf")) \o IE("NRPPaPDU", "pdu"))
BuildDownlinkNonUEAssociatedNRPPaTransport(routing) ==
    Encoder("DownlinkNonUEAssociatedNRPPaTransport", Opt(routing, IE("RoutingID", "lmf")) \o IE("NRPPaPDU", "pdu"))

(***************************************************************************)
(* The interface.                                                          *)
(***************************************************************************)
N2Init ==
    /\ n2Gnbs = [g \in N2Gnbs |-> NotSetUp]
    /\ n2Ran = [gnb |-> "none", id |-> 0, ambr |-> 0, psis |-> {}, live |-> FALSE]
    /\ n2Amf = [gnb |-> "none", id |-> 0, ambrSent |-> FALSE, tai |-> NoTai, idle |-> TRUE, guti |-> FALSE]
    /\ n2Heard = Nil /\ n2Msg = NoMsg /\ n2Wire = Nil
    /\ n2Sending = NoSending /\ n2Prep = NoPrep /\ n2SeenAt = NoUli /\ n2Crossed = FALSE

\* The gNB sends a PDU and the AMF's read loop decodes it.
Hears(proc, ies) ==
    /\ n2Heard' = [proc |-> proc, ies |-> ies]
    /\ n2Msg' = DecodeNGAPPDU([proc |-> proc, ies |-> ies])

\* The AMF speaks of its own accord.
Speaks(pdu) == n2Wire' = pdu /\ n2Heard' = Nil /\ n2Msg' = NoMsg

Reported(uli) == n2SeenAt' = IF uli.type = "nr" THEN uli.tai ELSE n2SeenAt
StoredTai(tai) == IF tai = NoTai THEN n2Amf.tai ELSE tai
Cells(g) == {CellsOf[g][i] : i \in 1..Len(CellsOf[g])}
Ulis(g) == {[type |-> "eutra", tai |-> NoUli, cell |-> 0]}
           \union {[type |-> "nr", tai |-> [plmn |-> c.plmn, tac |-> c.tac], cell |-> 48] : c \in Cells(g)}
Global(g) == [type |-> "gNB", plmn |-> GnbIdOf[g].plmn, bytes |-> GnbIdOf[g].bytes, bits |-> GnbIdOf[g].bits]
Up(g) == n2Gnbs[g] # NotSetUp
Connected == n2Ran.live /\ n2Amf.id = n2Ran.id
Replaced == n2Crossed' = (n2Sending # NoSending)

\* handleNGSetup.
handleNGSetup(g, named) ==
    /\ ~Up(g)
    /\ Hears("NGSetupRequest", IE("GlobalRANNodeID", Global(g)) \o Opt(named, IE("RANNodeName", "name"))
                               \o IE("SupportedTAList", CellsOf[g]))
    /\ n2Gnbs' = [n2Gnbs EXCEPT ![g] = [tas |-> n2Msg'.tas, bytes |-> n2Msg'.bytes]]
    /\ n2Wire' = BuildNGSetupResponse(IF named THEN <<>> ELSE SubscribedNSSAI)
    /\ UNCHANGED <<n2Ran, n2Amf, n2Sending, n2Prep, n2SeenAt, n2Crossed>>

\* handleInitialUEMessage: a UE that returns with its S-TMSI keeps its context;
\* a fresh registration gets a new one.
handleInitialUEMessage(g, uli, returning) ==
    /\ Up(g) /\ ~n2Ran.live /\ n2Ran.id < MaxRanId
    /\ returning => n2Amf.guti
    /\ ~returning => n2Sending = NoSending /\ n2Prep = NoPrep
    /\ Hears("InitialUEMessage", IE("RANUENGAPID", n2Ran.id + 1) \o IE("NASPDU", "nas") \o IE("ULI", uli)
                                 \o Opt(returning, IE("FiveGSTMSI", "tmsi")))
    /\ n2Ran' = [gnb |-> g, id |-> n2Ran.id + 1, ambr |-> 0, psis |-> {}, live |-> TRUE]
    /\ n2Amf' = [gnb |-> g, id |-> n2Msg'.ran, ambrSent |-> FALSE, idle |-> FALSE, guti |-> returning,
                 tai |-> IF returning THEN StoredTai(n2Msg'.tai) ELSE n2Msg'.tai]
    /\ n2SeenAt' = IF uli.type = "nr" THEN uli.tai ELSE IF returning THEN n2SeenAt ELSE NoUli
    /\ n2Wire' = Nil
    /\ Replaced
    /\ UNCHANGED <<n2Gnbs, n2Sending, n2Prep>>

\* The gNB applies a PDU that names the connection it has.
Takes(pdu, ran, psis, fresh) ==
    IF pdu # Nil /\ n2Ran.live /\ n2Ran.id = ran
    THEN n2Ran' = [n2Ran EXCEPT !.ambr = IF Carries(pdu, "UEAMBR") THEN Scalar(pdu.ies, "UEAMBR", 0)
                                         ELSE IF fresh THEN 0 ELSE @,
                                !.psis = IF fresh THEN psis ELSE @ \union psis]
    ELSE UNCHANGED n2Ran

\* SendInitialContextSetupRequest: the write, and the mark after it.  A
\* request that could not be encoded fails to be written.
SendInitialContextSetupRequest(nas, rfsp, psis) ==
    /\ n2Sending = NoSending /\ n2Amf.id # 0 /\ ~n2Amf.idle
    /\ LET pdu == BuildInitialContextSetupRequest(AmfId, n2Amf.id, nas, rfsp, psis)
       IN  /\ Speaks(pdu)
           /\ Takes(pdu, n2Amf.id, psis, TRUE)
           /\ n2Amf' = [n2Amf EXCEPT !.guti = TRUE]
           /\ n2Sending' = IF pdu = Nil THEN NoSending
                           ELSE [kind |-> "ics", at |-> "mark", ambr |-> psis # {}, psis |-> psis]
    /\ UNCHANGED <<n2Gnbs, n2Prep, n2SeenAt, n2Crossed>>

\* SendPDUSessionResourceSetupRequest: UEAMBRSentToRAN is read, the request
\* written, and the flag set afterwards.
sendSetupReads(psi) ==
    /\ n2Sending = NoSending /\ n2Amf.guti /\ ~n2Amf.idle
    /\ n2Sending' = [kind |-> "setup", at |-> "write", ambr |-> ~n2Amf.ambrSent, psis |-> {psi}]
    /\ Speaks(Nil)
    /\ UNCHANGED <<n2Gnbs, n2Ran, n2Amf, n2Prep, n2SeenAt, n2Crossed>>

SendPDUSessionResourceSetupRequest ==
    /\ n2Sending.at = "write"
    /\ \E psi \in n2Sending.psis :
          LET pdu == BuildPDUSessionResourceSetupRequest(AmfId, n2Amf.id, psi, n2Sending.ambr)
          IN  Speaks(pdu) /\ Takes(pdu, n2Amf.id, {psi}, FALSE)
    /\ n2Sending' = [n2Sending EXCEPT !.at = "mark"]
    /\ UNCHANGED <<n2Gnbs, n2Amf, n2Prep, n2SeenAt, n2Crossed>>

\* A bug: a connection's first Initial Context Setup counts as having carried
\* the rate whether or not it named sessions.
marksAlways ==
    /\ n2Sending.at = "mark"
    /\ n2Amf' = [n2Amf EXCEPT !.ambrSent = n2Sending.kind = "ics" \/ n2Sending.ambr \/ @]
    /\ n2Sending' = NoSending
    /\ Speaks(Nil)
    /\ UNCHANGED <<n2Gnbs, n2Ran, n2Prep, n2SeenAt, n2Crossed>>

markUEAMBRSent ==
    /\ n2Sending.at = "mark"
    /\ n2Amf' = [n2Amf EXCEPT !.ambrSent = IF n2Sending.kind = "ics" THEN n2Sending.ambr ELSE n2Sending.ambr \/ @]
    /\ n2Sending' = NoSending
    /\ Speaks(Nil)
    /\ UNCHANGED <<n2Gnbs, n2Ran, n2Prep, n2SeenAt, n2Crossed>>

\* handleUEContextReleaseRequest: answered at once with the decoded cause.
handleUEContextReleaseRequest(cause) ==
    /\ Connected
    /\ Hears("UEContextReleaseRequest", Ids(AmfId, n2Ran.id) \o Opt(cause[1] # "absent", IE("Cause", cause)))
    /\ n2Wire' = BuildUEContextReleaseCommand(n2Msg'.amf, n2Msg'.ran, n2Msg'.cause)
    /\ n2Ran' = [n2Ran EXCEPT !.live = FALSE]
    /\ UNCHANGED <<n2Gnbs, n2Amf, n2Sending, n2Prep, n2SeenAt, n2Crossed>>

\* handleUEContextReleaseComplete: the UE is idle, its gNB holds nothing.
handleUEContextReleaseComplete ==
    /\ ~n2Ran.live /\ ~n2Amf.idle /\ n2Amf.id = n2Ran.id /\ n2Ran.id # 0
    /\ Hears("UEContextReleaseComplete", Ids(AmfId, n2Ran.id))
    /\ n2Amf' = [n2Amf EXCEPT !.ambrSent = FALSE, !.idle = TRUE]
    /\ n2Wire' = Nil
    /\ Replaced
    /\ UNCHANGED <<n2Gnbs, n2Ran, n2Sending, n2Prep, n2SeenAt>>

\* SendPaging: the area is the stored TAI, the AMF's own PLMN when it has none.
SendPaging ==
    /\ "idle" \in N2Events
    /\ n2Amf.idle /\ n2Amf.guti
    /\ LET t == n2Amf.tai
           plmn == IF t.mcc = <<>> THEN buildGUAMI ELSE plmnFromMCCMNC(t.mcc, t.mnc)
       IN  Speaks(BuildPaging(<<[plmn |-> plmn, tac |-> tacOctets(t.tac)]>>))
    /\ UNCHANGED <<n2Gnbs, n2Ran, n2Amf, n2Sending, n2Prep, n2SeenAt, n2Crossed>>
\* The gNBs it goes to: those that advertise the TAC, else all.
pagingTargets ==
    LET covering == {g \in N2Gnbs : \E i \in 1..Len(n2Gnbs[g].tas) : n2Gnbs[g].tas[i].tac = n2Amf.tai.tac}
    IN  IF covering = {} THEN {g \in N2Gnbs : Up(g)} ELSE covering

\* Procedures of a connected UE whose PDU changes nothing on either side.
Downlinks ==
    {BuildDownlinkNASTransport(AmfId, n2Amf.id, "nas"), BuildLocationReportingControl(AmfId, n2Amf.id)}
    \union {BuildPDUSessionResourceModifyRequest(AmfId, n2Amf.id, p) : p \in n2Ran.psis}
    \union {BuildDownlinkUEAssociatedNRPPaTransport(AmfId, n2Amf.id, r) : r \in BOOLEAN}
    \union {BuildDownlinkNonUEAssociatedNRPPaTransport(r) : r \in BOOLEAN}
sendOther(pdu) ==
    /\ "other" \in N2Events /\ Connected
    /\ Speaks(pdu)
    /\ UNCHANGED <<n2Gnbs, n2Ran, n2Amf, n2Sending, n2Prep, n2SeenAt, n2Crossed>>
sendRelease(psi) ==
    /\ "other" \in N2Events /\ Connected /\ psi \in n2Ran.psis
    /\ Speaks(BuildPDUSessionResourceReleaseCommand(AmfId, n2Amf.id, psi))
    /\ n2Ran' = [n2Ran EXCEPT !.psis = @ \ {psi}]
    /\ UNCHANGED <<n2Gnbs, n2Amf, n2Sending, n2Prep, n2SeenAt, n2Crossed>>

\* The gNB's messages that the codec only decodes.
Uplinks ==
    LET ids == Ids(AmfId, n2Ran.id)
        results == Opt(n2Ran.psis # {}, IE("SetupList", SessionItems(n2Ran.psis)))
                   \o Opt(n2Ran.psis # WirePsis, IE("FailedList", SessionItems(WirePsis \ n2Ran.psis)))
    IN  {<<"UplinkNASTransport", ids \o IE("NASPDU", "nas")>>,
         <<"PDUSessionResourceSetupResponse", ids \o results>>,
         <<"InitialContextSetupResponse", ids \o results>>,
         <<"PDUSessionResourceModifyResponse", ids \o IE("ModifyList", SessionItems(n2Ran.psis))>>,
         <<"PDUSessionResourceReleaseResponse", ids>>,
         <<"UERadioCapabilityInfoIndication", ids \o IE("UERadioCapability", "caps")>>,
         <<"UplinkUEAssociatedNRPPaTransport", ids \o IE("RoutingID", "lmf") \o IE("NRPPaPDU", "pdu")>>,
         <<"UplinkNonUEAssociatedNRPPaTransport", IE("RoutingID", "lmf") \o IE("NRPPaPDU", "pdu")>>,
         <<"HandoverCancel", ids>>}
        \union {<<p, ids \o IE("Cause", <<c, 1>>)>> : p \in {"ErrorIndication", "InitialContextSetupFailure"}, c \in CauseGroups}
        \union {<<"LocationReport", ids \o IE("ULI", u)>> : u \in Ulis(n2Ran.gnb)}
hearOther(up) ==
    /\ "other" \in N2Events /\ Connected
    /\ Hears(up[1], up[2])
    /\ n2Wire' = Nil
    /\ UNCHANGED <<n2Gnbs, n2Ran, n2Amf, n2Sending, n2Prep, n2SeenAt, n2Crossed>>

\* findGNBByGlobalID: by the octets of the identity.
findGNBByGlobalID(bytes) == {g \in N2Gnbs : bytes # <<>> /\ n2Gnbs[g].bytes = bytes}

\* handleHandoverRequired and continueHandoverPreparation, as far as the PDUs
\* go: of the listed sessions the SMFs accept some.
handleHandoverRequired(target, cause, listed, accepted, container) ==
    /\ "handover" \in N2Events
    /\ Connected /\ n2Prep = NoPrep /\ n2Sending = NoSending /\ n2Amf.guti
    /\ Hears("HandoverRequired", Ids(AmfId, n2Ran.id) \o IE("HandoverType", 0) \o IE("Cause", cause)
             \o IE("TargetID", Global(target)) \o Opt(listed # {}, IE("SessionList", SessionItems(listed)))
             \o Opt(container, IE("SourceToTarget", "container")))
    /\ LET found == findGNBByGlobalID(n2Msg'.bytes) \ {n2Amf.gnb}
           cands == IF listed = {} THEN n2Ran.psis ELSE listed \intersect n2Ran.psis
           fail(c) == BuildHandoverPreparationFailure(n2Msg'.amf, n2Msg'.ran, c)
           pdu == BuildHandoverRequest(n2Msg'.amf, n2Msg'.cause, accepted, SubscribedNSSAI, n2Msg'.container)
       IN  /\ accepted \subseteq cands
           /\ IF found = {} THEN accepted = {} /\ n2Wire' = fail(<<"radio", 25>>) /\ UNCHANGED n2Prep
              ELSE IF HandoverRequestMissingIE(Cardinality(cands), Len(SubscribedNSSAI), n2Msg'.container)
              THEN accepted = {} /\ n2Wire' = fail(<<"misc", 1>>) /\ UNCHANGED n2Prep
              ELSE IF accepted = {} THEN n2Wire' = fail(<<"radio", 7>>) /\ UNCHANGED n2Prep
              ELSE IF pdu = Nil THEN n2Wire' = fail(<<"misc", 1>>) /\ n2Prep' = [NoPrep EXCEPT !.stage = "orphaned", !.psis = accepted]
              ELSE /\ n2Wire' = pdu
                   /\ n2Prep' = [stage |-> "required", gnb |-> target, id |-> 0, psis |-> accepted,
                                 released |-> listed \ accepted, ambr |-> Scalar(pdu.ies, "UEAMBR", 0)]
    /\ UNCHANGED <<n2Gnbs, n2Ran, n2Amf, n2Sending, n2SeenAt, n2Crossed>>

\* handleHandoverRequestAcknowledge: the command to the source.
handleHandoverRequestAcknowledge(admitted) ==
    /\ n2Prep.stage = "required" /\ n2Ran.id < MaxRanId
    /\ Hears("HandoverRequestAcknowledge", Ids(AmfId, n2Ran.id + 1) \o IE("AdmittedList", SessionItems(admitted))
             \o Opt(n2Prep.psis # admitted, IE("FailedList", SessionItems(n2Prep.psis \ admitted)))
             \o IE("TargetToSource", "container"))
    /\ LET released == n2Prep.released \union ToSet(n2Msg'.failed)
       IN  /\ n2Wire' = BuildHandoverCommand(n2Msg'.amf, n2Amf.id, ToSet(n2Msg'.admitted), released, n2Msg'.container)
           /\ n2Prep' = [n2Prep EXCEPT !.stage = "commanded", !.id = n2Msg'.ran, !.psis = admitted, !.released = released]
    /\ UNCHANGED <<n2Gnbs, n2Ran, n2Amf, n2Sending, n2SeenAt, n2Crossed>>

\* handleHandoverNotify: the UE is at the target, which has the rate from the
\* Handover Request.
handleHandoverNotify(uli) ==
    /\ n2Prep.stage = "commanded" /\ Connected
    /\ Hears("HandoverNotify", Ids(AmfId, n2Prep.id) \o IE("ULI", uli))
    /\ n2Ran' = [gnb |-> n2Prep.gnb, id |-> n2Prep.id, ambr |-> n2Prep.ambr, psis |-> n2Prep.psis, live |-> TRUE]
    /\ n2Amf' = [n2Amf EXCEPT !.gnb = n2Prep.gnb, !.id = n2Msg'.ran, !.ambrSent = TRUE,
                              !.tai = StoredTai(extractTAIFromULI(n2Msg'.uli))]
    /\ Reported(uli) /\ Replaced
    /\ n2Prep' = NoPrep /\ n2Wire' = Nil
    /\ UNCHANGED <<n2Gnbs, n2Sending>>

\* A preparation is given up; a later one starts afresh.
handoverAbandoned ==
    /\ n2Prep # NoPrep
    /\ n2Prep' = NoPrep /\ Speaks(Nil)
    /\ UNCHANGED <<n2Gnbs, n2Ran, n2Amf, n2Sending, n2SeenAt, n2Crossed>>

\* handlePathSwitchRequest: an Xn handover; the target has the UE's context,
\* the rate included, from the source.
handlePathSwitchRequest(target, uli, listed, switched, capDiffers) ==
    /\ "handover" \in N2Events
    /\ Connected /\ Up(target) /\ target # n2Ran.gnb /\ n2Ran.id < MaxRanId /\ n2Prep = NoPrep
    /\ Hears("PathSwitchRequest", IE("SourceAMFUENGAPID", AmfId) \o IE("RANUENGAPID", n2Ran.id + 1) \o IE("ULI", uli)
             \o IE("UESecurityCapabilities", buildUESecurityCapabilities(IF capDiffers THEN 128 ELSE 224, 224))
             \o IE("SwitchedDLList", SessionItems(listed)))
    /\ LET differ == n2Msg'.secCap # <<224 * 256, 224 * 256>>
           ack == BuildPathSwitchRequestAcknowledge(n2Msg'.amf, n2Msg'.ran, differ, switched, listed \ switched, SubscribedNSSAI)
       IN  IF switched = {} \/ SubscribedNSSAI = <<>>
           THEN n2Wire' = BuildPathSwitchRequestFailure(n2Msg'.amf, n2Msg'.ran, listed) /\ UNCHANGED <<n2Ran, n2Amf, n2SeenAt, n2Crossed>>
           ELSE IF ack = Nil THEN n2Wire' = Nil /\ UNCHANGED <<n2Ran, n2Amf, n2SeenAt, n2Crossed>>
           ELSE /\ n2Wire' = ack
                /\ n2Ran' = [n2Ran EXCEPT !.gnb = target, !.id = n2Msg'.ran, !.psis = switched]
                /\ n2Amf' = [n2Amf EXCEPT !.gnb = target, !.id = n2Msg'.ran, !.tai = StoredTai(n2Msg'.tai)]
                /\ n2Crossed' = (n2Crossed \/ n2Sending # NoSending)
                /\ Reported(uli)
    /\ UNCHANGED <<n2Gnbs, n2Sending, n2Prep>>

ReleaseCauses == {<<g, 2>> : g \in CauseGroups} \union {<<"absent", 0>>}

N2Next ==
    \/ \E g \in N2Gnbs, named \in BOOLEAN : handleNGSetup(g, named)
    \/ \E g \in N2Gnbs : \E uli \in Ulis(g), r \in BOOLEAN : handleInitialUEMessage(g, uli, r)
    \/ \E nas \in BOOLEAN, rfsp \in {0, 1}, psis \in SUBSET WirePsis : SendInitialContextSetupRequest(nas, rfsp, psis)
    \/ \E psi \in WirePsis : sendSetupReads(psi)
    \/ SendPDUSessionResourceSetupRequest
    \/ markUEAMBRSent
    \/ \E c \in ReleaseCauses : handleUEContextReleaseRequest(c)
    \/ handleUEContextReleaseComplete
    \/ SendPaging
    \/ \E pdu \in Downlinks : sendOther(pdu)
    \/ \E psi \in WirePsis : sendRelease(psi)
    \/ n2Ran.live /\ \E up \in Uplinks : hearOther(up)
    \/ \E t \in N2Gnbs, c \in {"radio", "transport"}, l \in SUBSET WirePsis, a \in SUBSET WirePsis, k \in BOOLEAN :
          handleHandoverRequired(t, <<c, 2>>, l, a, k)
    \/ \E a \in SUBSET n2Prep.psis : handleHandoverRequestAcknowledge(a)
    \/ n2Prep.gnb \in N2Gnbs /\ \E uli \in Ulis(n2Prep.gnb) : handleHandoverNotify(uli)
    \/ handoverAbandoned
    \/ \E t \in N2Gnbs : \E uli \in Ulis(t), l \in SUBSET n2Ran.psis \ {{}}, s \in SUBSET n2Ran.psis, d \in BOOLEAN :
          s \subseteq l /\ handlePathSwitchRequest(t, uli, l, s, d)

N2Spec == N2Init /\ [][N2Next]_n2Vars

-----------------------------------------------------------------------------
(***************************************************************************)
(* Properties.                                                             *)
(***************************************************************************)

\* The type invariant.
N2TypeOK ==
    /\ n2Ran.id \in 0..MaxRanId /\ n2Ran.psis \subseteq WirePsis /\ n2Ran.ambr \in Nat
    /\ n2Amf.id \in 0..MaxRanId /\ n2Amf.ambrSent \in BOOLEAN /\ n2Amf.tai.tac \in Nat
    /\ n2Sending.at \in {"idle", "write", "mark"} /\ n2Sending.psis \subseteq WirePsis
    /\ n2Prep.psis \subseteq WirePsis /\ n2Crossed \in BOOLEAN

\* The tables the builders' comments cite: the elements of a message in their
\* order, "M" for the mandatory ones.
TableOf ==
    [InitialContextSetupRequest |->
        <<<<"AMFUENGAPID", "M">>, <<"RANUENGAPID", "M">>, <<"UEAMBR", "C">>, <<"GUAMI", "M">>, <<"SessionList", "O">>,
          <<"AllowedNSSAI", "O">>, <<"UESecurityCapabilities", "M">>, <<"SecurityKey", "M">>, <<"IndexToRFSP", "O">>, <<"NASPDU", "O">>>>,
     HandoverRequest |->
        <<<<"AMFUENGAPID", "M">>, <<"HandoverType", "M">>, <<"Cause", "M">>, <<"UEAMBR", "M">>, <<"UESecurityCapabilities", "M">>,
          <<"SecurityContext", "M">>, <<"SessionList", "M">>, <<"AllowedNSSAI", "M">>, <<"SourceToTarget", "M">>, <<"GUAMI", "M">>>>,
     HandoverCommand |->
        <<<<"AMFUENGAPID", "M">>, <<"RANUENGAPID", "M">>, <<"HandoverType", "M">>, <<"SessionList", "O">>, <<"ReleaseList", "O">>,
          <<"TargetToSource", "M">>>>,
     PathSwitchRequestAcknowledge |->
        <<<<"AMFUENGAPID", "M">>, <<"RANUENGAPID", "M">>, <<"UESecurityCapabilities", "O">>, <<"SecurityContext", "M">>,
          <<"SessionList", "M">>, <<"ReleaseList", "O">>, <<"AllowedNSSAI", "M">>>>,
     PathSwitchRequestFailure |-> <<<<"AMFUENGAPID", "M">>, <<"RANUENGAPID", "M">>, <<"ReleaseList", "M">>>>,
     PDUSessionResourceSetupRequest |->
        <<<<"AMFUENGAPID", "M">>, <<"RANUENGAPID", "M">>, <<"SessionList", "M">>, <<"UEAMBR", "O">>>>,
     LocationReportingControl |->
        <<<<"AMFUENGAPID", "M">>, <<"RANUENGAPID", "M">>, <<"LocationReportingRequestType", "M">>>>]

\* A strict gNB takes every message whose table the code cites: whatever
\* optional content it has, its elements come in the table's order, none is
\* repeated, the mandatory ones are there, and an Initial Context Setup Request
\* has the UE-AMBR exactly when it has sessions (builders of codec.go).
StrictDecoderAccepts ==
    n2Wire.proc \in DOMAIN TableOf =>
        LET table == TableOf[n2Wire.proc]
            place(id) == {k \in 1..Len(table) : table[k][1] = id}
        IN  /\ \A i \in 1..Len(n2Wire.ies) : place(n2Wire.ies[i].id) # {}
            /\ \A i, j \in 1..Len(n2Wire.ies) : i < j =>
                  \A a \in place(n2Wire.ies[i].id), b \in place(n2Wire.ies[j].id) : a < b
            /\ \A k \in 1..Len(table) : table[k][2] = "M" => Carries(n2Wire, table[k][1])
            /\ n2Wire.proc = "InitialContextSetupRequest" =>
                  (Carries(n2Wire, "UEAMBR") <=> Carries(n2Wire, "SessionList"))

\* UEAMBRSentToRAN is true only of a gNB that was given the UE's rate, and a
\* gNB with sessions has it, unless the connection changed between the reading
\* or writing of a request and its mark (SendPDUSessionResourceSetupRequest).
AmbrReachesRan ==
    Connected /\ ~n2Crossed =>
        /\ n2Sending.at # "mark" /\ n2Amf.ambrSent => n2Ran.ambr = buildUEAMBR(NewUEAMBRFromKbps(SubscribedKbps))
        /\ n2Ran.psis # {} => n2Ran.ambr # 0

\* A page names the tracking area the UE was last reported in, octet for
\* octet, after decoding, storing and encoding it again, and goes to every gNB
\* that has a cell there (SendPaging, BuildPaging, extractTAIFromULI).
PagesWhereLastSeen ==
    n2Wire.proc = "Paging" /\ n2SeenAt # NoUli =>
        /\ Scalar(n2Wire.ies, "TAIList", <<>>) = <<n2SeenAt>>
        /\ \A g \in N2Gnbs : Up(g) /\ (\E c \in Cells(g) : c.tac = n2SeenAt.tac) => g \in pagingTargets

\* The cause a gNB gives comes back to it, or goes on to the target, with its
\* group; its value too unless the extractor leaves it out, when it is 0
\* (extractUEContextReleaseRequest, extractHandoverRequired, buildCause).
CausesSurvive ==
    n2Heard.proc \in {"UEContextReleaseRequest", "HandoverRequired"}
    /\ n2Wire.proc \in {"UEContextReleaseCommand", "HandoverRequest"} =>
        LET given == Scalar(n2Heard.ies, "Cause", NormalRelease)
            passed == Scalar(n2Wire.ies, "Cause", <<"absent", 0>>)
        IN  passed[1] = given[1] /\ passed[2] \in {given[2], 0}
            /\ (given[1] \in {"radio", "nas"} => passed = given)

\* A handover for which an SMF accepted a session is never given up for a
\* Handover Request that cannot be encoded: the check made before the SMFs are
\* asked is complete, so none is left in hoState PREPARING
\* (HandoverRequestMissingIE, handover.go:865).
NoOrphanedPreparation == n2Prep.stage # "orphaned"

\* What the HOTargetID comment says: the decoded Target ID names the target to
\* the SMF in the PREPARING UpdateSMContext (codec.go:1721).
PreparingNamesTarget ==
    n2Msg.type = "HandoverRequired" /\ n2Prep.stage = "required" => n2Msg.target.type = "gNB"
=============================================================================
