---------------------------- MODULE NasMessages ----------------------------
(***************************************************************************)
(* The 5GMM messages on the air: what the AMF's encoders write (shared/nas)*)
(* and its decoders read back, followed through registration, security     *)
(* mode, configuration update, service request and de-registration of one  *)
(* device.  The device is external: it writes and reads as TS 24.501 says, *)
(* and its readings of downlink messages are those of the package's own    *)
(* downlink decoders.                                                      *)
(*                                                                         *)
(* Each side keeps what it took from the octets it received; the           *)
(* properties compare the two sides, so a framing slip anywhere in an      *)
(* encoder, a decoder or the handler code between them shows as a          *)
(* disagreement one or more messages later.                                *)
(***************************************************************************)
EXTENDS NasWire

CONSTANTS
    Mcc, Mnc,        \* digits of the serving PLMN
    Configs,         \* operator configurations: full and short network name
                     \* (code points) and served TACs, each a sequence
    CurrentTac,      \* tracking area the device camps on
    Caps,            \* UE security capabilities, as octets
    SubscribedSlices,\* sequence of subscribed S-NSSAIs
    Wants,           \* Requested NSSAIs the device may send
    Extras,          \* IEs outside the decoder's interest: set of IEIs
    N1Psis,          \* PDU session identities
    MaxGuti          \* GUTIs allocated

VARIABLES
    n1Cfg,   \* what the operator configured: name and served TACs
    n1Ue,    \* what the device holds
    n1Amf,   \* what the AMF holds
    n1Wire,  \* the message on the air, as [to, pdu]; pdu = <<>> for none
    n1Said   \* what the device meant by its last initial message, and the
             \* sessions the AMF could not reactivate for it

n1Vars == <<n1Cfg, n1Ue, n1Amf, n1Wire, n1Said>>

EpdMM == 126                    \* 0x7E
MaxTacs == 16                   \* TACs of one partial list
CauseUEIdentityNotDerived == 9
CauseImplicitlyDeregistered == 10
CauseSynchFailure == 21

MsgType == [RegistrationRequest |-> 65, RegistrationAccept |-> 66, RegistrationComplete |-> 67,
            RegistrationReject |-> 68, DeregistrationRequestUE |-> 69, DeregistrationAcceptUE |-> 70,
            DeregistrationRequestNW |-> 71, DeregistrationAcceptNW |-> 72,
            ServiceRequest |-> 76, ServiceReject |-> 77, ServiceAccept |-> 78,
            ConfigurationUpdateCommand |-> 84, ConfigurationUpdateComplete |-> 85,
            AuthenticationRequest |-> 86, AuthenticationResponse |-> 87, AuthenticationFailure |-> 89,
            IdentityRequest |-> 91, IdentityResponse |-> 92, SecurityModeCommand |-> 93,
            SecurityModeComplete |-> 94, SecurityModeReject |-> 95]

NoGuti == <<>>
Silence == [to |-> "none", pdu |-> <<>>]

------------------------------------------------------------------------------
(* Information elements (ie.go).                                           *)

\* Two digits of an octet, low nibble first.
Nibbles(b) == FoldLeft(LAMBDA acc, o : acc \o <<o % 16, o \div 16>>, <<>>, b)

\* MCC and MNC in three octets; a two-digit MNC leaves the filler 0xF.
encodeMCCMNC(mcc, mnc) ==
    IF Len(mcc) # 3 THEN <<0, 0, 0>>
    ELSE <<16 * mcc[2] + mcc[1],
           16 * (IF Len(mnc) = 3 THEN mnc[3] ELSE 15) + mcc[3],
           16 * mnc[2] + mnc[1]>>

decodeMCCMNC(b) ==
    LET d == Nibbles(b)
    IN [mcc |-> <<d[1], d[2], d[3]>>,
        mnc |-> IF d[4] = 15 THEN <<d[5], d[6]>> ELSE <<d[5], d[6], d[4]>>]

\* A 5G-GUTI: spare bits and type, PLMN, region, set (10 bits) and pointer (6
\* bits), and the four octets of the 5G-TMSI.
Encode5GGUTI(g) ==
    <<242>> \o encodeMCCMNC(g.mcc, g.mnc) \o <<g.region>> \o Be16(64 * g.set + g.ptr) \o g.tmsi

decodeGUTI(b) ==
    LET p == decodeMCCMNC(SubSeq(b, 2, 4))
        ref == NumberOf(SubSeq(b, 6, 7))
    IN [kind |-> "guti", mcc |-> p.mcc, mnc |-> p.mnc, region |-> b[5], set |-> ref \div 64,
        ptr |-> ref % 64, tmsi |-> SubSeq(b, 8, 11)]

\* Digits up to the filler; none at all stand for routing indicator 0.
decodeRoutingIndicator(b) ==
    LET d == Nibbles(b)
        n == SelectInSeq(d, LAMBDA x : x = 15)
    IN IF n = 1 THEN <<0>> ELSE IF n = 0 THEN d ELSE SubSeq(d, 1, n - 1)

decodeSUCI(b) ==
    LET p == decodeMCCMNC(SubSeq(b, 2, 4))
    IN [kind |-> "suci", mcc |-> p.mcc, mnc |-> p.mnc, routing |-> decodeRoutingIndicator(SubSeq(b, 5, 6)),
        scheme |-> b[7] % 16, key |-> b[8], output |-> Remaining(b, 9)]

\* The first digit shares an octet with the type; a nibble above 9 ends them.
decodeIMEIDigits(b) ==
    LET d == <<b[1] \div 16>> \o Nibbles(Tail(b))
        n == SelectInSeq(d, LAMBDA x : x > 9)
    IN IF n = 0 THEN d ELSE SubSeq(d, 1, n - 1)

BadIdentity == [kind |-> "error"]

DecodeMobileIdentity(b) ==
    IF b = <<>> THEN BadIdentity
    ELSE LET t == b[1] % 8
         IN CASE t = 1 -> IF Len(b) < 8 THEN BadIdentity ELSE decodeSUCI(b)
              [] t = 2 -> IF Len(b) < 11 THEN BadIdentity ELSE decodeGUTI(b)
              [] t \in {3, 5} -> [kind |-> "imei", digits |-> decodeIMEIDigits(b)]
              [] OTHER -> [kind |-> "other"]

\* One length octet per S-NSSAI; the differentiator travels only when set.
EncodeNSSAI(n) ==
    FoldLeft(LAMBDA acc, s : acc \o (IF s.sd = SDNotPresent THEN <<1, s.sst>>
                                     ELSE <<4, s.sst>> \o Be24(s.sd)), <<>>, n)

\* The S-NSSAIs of a list, up to an entry that does not fit.
DecodeNSSAI(b) ==
    LET walk[i \in 1 .. (Len(b) + 1)] ==
          IF i > Len(b) \/ i + b[i] > Len(b) THEN <<>>
          ELSE <<[sst |-> b[i + 1],
                  sd |-> IF b[i] = 4 THEN NumberOf(SubSeq(b, i + 2, i + 4)) ELSE SDNotPresent]>>
               \o walk[i + b[i] + 1]
    IN walk[1]

\* The algorithm flags of the first two octets, and the octets as received.
DecodeUESecurityCapability(b) ==
    IF Len(b) < 2 THEN [ea |-> {}, ia |-> {}, raw |-> <<>>]
    ELSE LET flags(o) == {i \in 0 .. 3 : (o \div (2 ^ (7 - i))) % 2 = 1}
         IN [ea |-> flags(b[1]), ia |-> flags(b[2]), raw |-> b]

\* The octets as received when they are known, otherwise two from the flags.
EncodeUESecurityCapability(c) ==
    LET octet(S) == FoldLeft(LAMBDA acc, i : acc + (IF i \in S THEN 2 ^ (7 - i) ELSE 0), 0, <<0, 1, 2, 3>>)
    IN IF c.raw # <<>> THEN c.raw ELSE <<octet(c.ea), octet(c.ia)>>

NASSecurityAlgorithms(cipher, integ) == 16 * cipher + integ
DecodeNASSecurityAlgorithms(b) == [cipher |-> b \div 16, integ |-> b % 16]

\* Key set identifier and type, in the low nibble.
NGKSI(o) == [key |-> o % 8, type |-> (o \div 8) % 2]

------------------------------------------------------------------------------
(* The header (nas.go).                                                    *)

\* A message that is not protected, and one behind a security header (type,
\* four octets of MAC and a sequence number).  MACs are left out: zeros.
Encode(t, body) == <<EpdMM, 0, t>> \o body
Protected(sht, pdu) == <<EpdMM, sht, 0, 0, 0, 0, 7>> \o pdu

Unreadable == [type |-> 0, body |-> <<>>, ok |-> FALSE]

\* The message type and the body behind it.
Decode(data) ==
    IF Len(data) < 3 THEN Unreadable
    ELSE IF data[2] % 16 = 0 THEN [type |-> data[3], body |-> Remaining(data, 4), ok |-> TRUE]
    ELSE IF Len(data) < 10 THEN Unreadable
    ELSE [type |-> data[10], body |-> Remaining(data, 11), ok |-> TRUE]

\* The type of an initial message nothing else is known of.
PeekMessageType(data) ==
    IF Len(data) < 3 \/ data[1] # EpdMM THEN [type |-> 0, ok |-> FALSE]
    ELSE IF data[2] % 16 = 0 THEN [type |-> data[3], ok |-> TRUE]
    ELSE IF Len(data) < 10 \/ data[8] # EpdMM \/ data[9] % 16 # 0 THEN [type |-> 0, ok |-> FALSE]
    ELSE [type |-> data[10], ok |-> TRUE]

------------------------------------------------------------------------------
(* Network names (network_name.go).  A name is a sequence of code points.  *)

\* The septet of a code point of the GSM default alphabet, for the code points
\* that share their value with it and two that do not; 128 for the others.
gsm7BasicSet(r) ==
    CASE r = 64 -> 0                                         \* @
      [] r = 95 -> 17                                        \* _
      [] r \in {32, 45} \cup (48 .. 57) \cup (65 .. 90) \cup (97 .. 122) -> r
      [] OTHER -> 128

gsm7Reverse(v) == CASE v = 0 -> 64 [] v = 17 -> 95 [] OTHER -> v

\* Septets only fit when every code point has one.
gsm7Septets(text) ==
    LET s == [i \in DOMAIN text |-> gsm7BasicSet(text[i])]
    IN [septets |-> s, ok |-> \A i \in DOMAIN s : s[i] < 128]

\* Septets packed from the least significant bit; the part of one that crosses
\* an octet goes to the next.  Bits of different septets never overlap, so the
\* octet is their sum.
packGSM7(septets) ==
    LET bits == 7 * Len(septets)
        n == (bits + 7) \div 8
        share(i, k) == LET o == (7 * (i - 1)) \div 8
                           sh == (7 * (i - 1)) % 8
                       IN IF k = o + 1 THEN (septets[i] * 2 ^ sh) % 256
                          ELSE IF k = o + 2 /\ sh > 1 THEN septets[i] \div (2 ^ (8 - sh)) ELSE 0
        octet(k) == FoldLeft(LAMBDA acc, i : acc + share(i, k), 0, [i \in DOMAIN septets |-> i])
    IN [packed |-> [k \in 1 .. n |-> octet(k)], spare |-> 8 * n - bits]

\* As many septets as the bits that are not spare hold.
unpackGSM7(packed, spare) ==
    LET septet(i) == LET o == (7 * (i - 1)) \div 8
                         sh == (7 * (i - 1)) % 8
                     IN (packed[o + 1] \div (2 ^ sh)
                         + (IF sh > 1 /\ o + 1 < Len(packed) THEN (packed[o + 2] * 2 ^ (8 - sh)) % 256 ELSE 0)) % 128
    IN [i \in 1 .. ((8 * Len(packed) - spare) \div 7) |-> septet(i)]

\* GSM septets when the whole name has them, otherwise UCS-2.
EncodeNetworkName(iei, text) ==
    LET g == gsm7Septets(text)
        p == packGSM7(g.septets)
        ucs == FoldLeft(LAMBDA acc, r : acc \o Be16(r), <<>>, text)
    IN TLV(iei, IF g.ok THEN <<128 + p.spare>> \o p.packed ELSE <<128 + 16>> \o ucs)

DecodeNetworkName(b) ==
    IF b = <<>> THEN <<>>
    ELSE LET body == Tail(b)
             coding == (b[1] \div 16) % 8
         IN CASE coding = 0 -> LET s == unpackGSM7(body, b[1] % 8)
                               IN [i \in DOMAIN s |-> gsm7Reverse(s[i])]
              [] coding = 1 /\ Len(body) % 2 = 0 ->
                     [i \in 1 .. (Len(body) \div 2) |-> NumberOf(SubSeq(body, 2 * i - 1, 2 * i))]
              [] OTHER -> <<>>

------------------------------------------------------------------------------
(* Registration (registration.go).                                         *)

\* Mutant: the additional GUTI skipped behind a one-octet length.
skipsGutiShort == [half |-> {}, tlve |-> {112, 113, 116, 123, 126}, tv |-> <<>>, rest |-> TRUE, stop |-> FALSE]

\* Two-octet lengths: containers (0x70, 0x71, 0x7B), additional GUTI (0x77) and
\* LADN indication (0x74, 0x7E).
RegistrationRequestFraming ==
    [half |-> {}, tlve |-> {112, 113, 116, 119, 123, 126}, tv |-> <<>>, rest |-> TRUE, stop |-> FALSE]

\* Key set and type share an octet, the identity follows behind two length
\* octets, and of the optional IEs capability, security capability and
\* Requested NSSAI are kept.
DecodeRegistrationRequest(b) ==
    LET id == ReadLVE(b, 2)
        ies == IEs(Remaining(b, id.at), RegistrationRequestFraming)
        kept == SelectSeq(ies, LAMBDA ie : ie.t \in {16, 46, 47})
        cap == DecodeUESecurityCapability(ValueOf(ies, 46))
        mi == IF id.ok THEN DecodeMobileIdentity(id.v) ELSE BadIdentity
    IN [ok |-> /\ Len(b) >= 3
               /\ mi # BadIdentity
               /\ \A i \in DOMAIN kept : kept[i].ok
               /\ Present(ies, 46) => cap.raw # <<>>,
        ksi |-> NGKSI(b[1] \div 16),
        followOn |-> (b[1] \div 8) % 2 = 1,
        type |-> b[1] % 8,
        id |-> mi,
        mm |-> ValueOf(ies, 16),
        cap |-> cap,
        nssai |-> DecodeNSSAI(ValueOf(ies, 47))]

NewNetworkFeatureSupport == <<1, 0>>

\* At most 16 TACs after the PLMN; the count is stored less one.
EncodeTAIList(mcc, mnc, tacs) ==
    LET kept == SubSeq(tacs, 1, IF Len(tacs) > MaxTacs THEN MaxTacs ELSE Len(tacs))
    IN IF tacs = <<>> THEN <<>>
       ELSE <<(Len(kept) - 1) % 32>> \o encodeMCCMNC(mcc, mnc)
            \o FoldLeft(LAMBDA acc, t : acc \o Be24(t), <<>>, kept)

\* What the device reads in the list (external: the reader of TS 24.501 9.11.3.9).
TacsOf(b) ==
    IF b = <<>> THEN {} ELSE {NumberOf(SubSeq(b, 3 * i + 2, 3 * i + 4)) : i \in 1 .. ((b[1] % 32) + 1)}

Given(v, octets) == IF v = <<>> THEN <<>> ELSE octets

\* Result, then GUTI, TAI list, Allowed and Configured NSSAI, feature support
\* and T3512, each when it is set.
EncodeRegistrationAccept(a) ==
    <<1, a.result>>
    \o Given(a.guti, TLVE(119, a.guti))
    \o Given(a.tais, TLV(84, a.tais))
    \o Given(a.allowed, TLV(21, EncodeNSSAI(a.allowed[1])))
    \o Given(a.configured, TLV(49, EncodeNSSAI(a.configured[1])))
    \o Given(a.features, TLV(33, a.features))
    \o Given(a.t3512, TLV(94, a.t3512))

DecodeRegistrationAccept(b) ==
    LET ies == IEs(Remaining(b, 2 + b[1]), [half |-> {}, tlve |-> {119}, tv |-> <<>>, rest |-> TRUE, stop |-> FALSE])
    IN [result |-> IF b[1] = 0 THEN 0 ELSE b[2],
        guti |-> DecodeMobileIdentity(ValueOf(ies, 119)),
        tais |-> ValueOf(ies, 84),
        allowed |-> DecodeNSSAI(ValueOf(ies, 21)),
        configured |-> DecodeNSSAI(ValueOf(ies, 49)),
        features |-> ValueOf(ies, 33),
        t3512 |-> ValueOf(ies, 94)]

EncodeRegistrationReject(cause) == <<cause>>

------------------------------------------------------------------------------
(* Authentication, identity and security mode (auth_security.go).          *)

\* Key set; ABBA behind a length; RAND without one; AUTN with one.
EncodeAuthenticationRequest(r) == <<r.ksi>> \o LV(<<0, 0>>) \o <<33>> \o r.rand \o TLV(32, r.autn)

DecodeAuthenticationRequest(b) ==
    LET abba == ReadBytes(b, 3, b[2])
        ies == IEs(Remaining(b, abba.at), [half |-> {}, tlve |-> {120}, tv |-> [t \in {33} |-> 16], rest |-> FALSE, stop |-> FALSE])
    IN [ksi |-> NGKSI(b[1]), rand |-> ValueOf(ies, 33), autn |-> ValueOf(ies, 32)]

DecodeAuthenticationResponse(b) ==
    LET ies == IEs(b, [half |-> {}, tlve |-> {120}, tv |-> <<>>, rest |-> FALSE, stop |-> FALSE])
    IN [res |-> ValueOf(ies, 45), eap |-> ValueOf(ies, 120)]

DecodeAuthenticationFailure(b) ==
    LET ies == IEs(Tail(b), [half |-> {}, tlve |-> {}, tv |-> <<>>, rest |-> FALSE, stop |-> FALSE])
    IN [cause |-> b[1], auts |-> ValueOf(ies, 48)]

EncodeIdentityRequest(t) == <<t % 8>>
DecodeIdentityRequest(b) == b[1] % 8

DecodeIdentityResponse(b) ==
    LET id == ReadLVE(b, 1)
    IN IF Len(b) >= 3 /\ id.ok THEN DecodeMobileIdentity(id.v) ELSE BadIdentity

\* Algorithms, key set, the replayed capability behind a length, then IMEISV
\* request and additional security information.
EncodeSecurityModeCommand(c) ==
    LET caps == EncodeUESecurityCapability(c.cap)
    IN <<NASSecurityAlgorithms(c.cipher, c.integ), c.ksi>> \o LV(caps) \o <<224 + 1>> \o TLV(54, <<2>>)

DecodeSecurityModeCommand(b) ==
    LET caps == ReadBytes(b, 4, b[3])
        ies == IEs(Remaining(b, caps.at), [half |-> {14}, tlve |-> {113}, tv |-> <<>>, rest |-> TRUE, stop |-> FALSE])
    IN [algs |-> DecodeNASSecurityAlgorithms(b[1]), ksi |-> NGKSI(b[2]),
        cap |-> DecodeUESecurityCapability(caps.v), imeisv |-> ValueOf(ies, 224), info |-> ValueOf(ies, 54)]

DecodeSecurityModeComplete(b) ==
    LET ies == IEs(b, [half |-> {}, tlve |-> {113, 119}, tv |-> <<>>, rest |-> TRUE, stop |-> FALSE])
    IN [imeisv |-> DecodeMobileIdentity(ValueOf(ies, 119)), container |-> ValueOf(ies, 113)]

------------------------------------------------------------------------------
(* Service request, configuration update and de-registration.              *)

\* One bit per PDU session: identities 1-7 in the first octet, 8-15 in the
\* second; bit 0 of the first is spare.
PSIMask(S) ==
    FoldLeft(LAMBDA acc, p : acc + (IF p \notin S THEN 0 ELSE IF p <= 7 THEN 2 ^ (8 + p) ELSE 2 ^ (p - 8)),
             0, [p \in 1 .. 15 |-> p])

PSIInStatus(mask, psi) ==
    IF psi <= 7 THEN (mask \div (2 ^ (8 + psi))) % 2 = 1 ELSE (mask \div (2 ^ (psi - 8))) % 2 = 1

\* The mask an IE carried: its first two octets, none when it has fewer.
MaskIn(ies, t) == IF Len(ValueOf(ies, t)) >= 2 THEN <<NumberOf(SubSeq(ValueOf(ies, t), 1, 2))>> ELSE <<>>

\* The IEs behind the 5G-S-TMSI of a Service Request.
ServiceRequestIEs(b) ==
    IEs(Remaining(b, ReadLVE(b, 2).at), [half |-> {}, tlve |-> {113}, tv |-> <<>>, rest |-> FALSE, stop |-> TRUE])

\* The statuses of the message, or of the complete Service Request in its NAS
\* message container, which prevail.
DecodeServiceRequest(b) ==
    LET id == ReadLVE(b, 2)
        ies == ServiceRequestIEs(b)
        val == ValueOf(ies, 113)
        inner == IF Len(val) >= 4 /\ val[1] = EpdMM /\ val[3] = MsgType.ServiceRequest
                 THEN ServiceRequestIEs(Remaining(val, 4)) ELSE <<>>
        pick(t) == IF MaskIn(inner, t) # <<>> THEN MaskIn(inner, t) ELSE MaskIn(ies, t)
    IN [service |-> b[1] \div 16, ksi |-> NGKSI(b[1] % 16),
        tmsi |-> IF id.ok /\ Len(id.v) >= 7 THEN SubSeq(id.v, 4, 7) ELSE <<0, 0, 0, 0>>,
        uplink |-> pick(64), status |-> pick(80)]

EncodeServiceAccept(a) ==
    Given(a.status, TLV(80, Be16(a.status[1]))) \o Given(a.result, TLV(38, Be16(a.result[1])))

DecodeServiceAccept(b) ==
    LET ies == IEs(b, [half |-> {}, tlve |-> {114, 120}, tv |-> <<>>, rest |-> FALSE, stop |-> TRUE])
    IN [status |-> MaskIn(ies, 80), result |-> MaskIn(ies, 38)]

EncodeServiceReject(cause) == <<cause>>

\* Indication, GUTI, TAI list, Allowed NSSAI, the two names and Configured NSSAI,
\* each when it is set.
EncodeConfigurationUpdateCommand(c) ==
    Given(c.indication, <<208 + (c.indication[1] % 16)>>)
    \o Given(c.guti, TLVE(119, c.guti))
    \o Given(c.tais, TLV(84, c.tais))
    \o Given(c.allowed, TLV(21, EncodeNSSAI(c.allowed[1])))
    \o Given(c.full, EncodeNetworkName(67, c.full))
    \o Given(c.short, EncodeNetworkName(69, c.short))
    \o Given(c.configured, TLV(49, EncodeNSSAI(c.configured[1])))

DecodeConfigurationUpdateCommand(b) ==
    LET ies == IEs(b, [half |-> {9, 13}, tlve |-> {119}, tv |-> <<>>, rest |-> TRUE, stop |-> FALSE])
    IN [indication |-> ValueOf(ies, 208),
        allowed |-> IF Present(ies, 21) THEN <<DecodeNSSAI(ValueOf(ies, 21))>> ELSE <<>>,
        full |-> DecodeNetworkName(ValueOf(ies, 67)),
        short |-> DecodeNetworkName(ValueOf(ies, 69)),
        configured |-> DecodeNSSAI(ValueOf(ies, 49))]

DecodeDeregistrationRequest(b) ==
    LET id == ReadLVE(b, 2)
    IN [ksi |-> NGKSI(b[1] \div 16), switchOff |-> (b[1] \div 8) % 2 = 1, access |-> b[1] % 4,
        id |-> IF id.ok THEN DecodeMobileIdentity(id.v) ELSE BadIdentity]

\* "No key" and the type with the re-registration bit, then a cause that is set.
EncodeDeregistrationRequestNW(r) ==
    <<112 + (IF r.again THEN 4 ELSE 0) + 1>> \o (IF r.cause = 0 THEN <<>> ELSE <<88, r.cause>>)

\* The reject for an initial message of a device without a context.
rejectForUnknownTMSI(peek) ==
    IF peek.ok /\ peek.type = MsgType.RegistrationRequest
    THEN Encode(MsgType.RegistrationReject, EncodeRegistrationReject(CauseImplicitlyDeregistered))
    ELSE Encode(MsgType.ServiceReject, EncodeServiceReject(CauseUEIdentityNotDerived))

------------------------------------------------------------------------------
(* The AMF's choices (procedures/registration.go).                         *)

\* The served TACs and, behind them, the device's own.
buildTAIList(served) ==
    EncodeTAIList(Mcc, Mnc, IF Contains(served, CurrentTac) THEN served ELSE Append(served, CurrentTac))

\* 2 before 1 before 0, for ciphering and for integrity.
selectSecurityAlgorithms(cap) ==
    LET best(S) == IF 2 \in S THEN 2 ELSE IF 1 \in S THEN 1 ELSE 0
    IN [cipher |-> best(cap.ea), integ |-> best(cap.ia)]

\* The subscribed slices among the requested ones; a request without a
\* differentiator matches any, and no request matches all.
filterAllowedNSSAI(requested, subscribed) ==
    SelectSeq(subscribed,
              LAMBDA s : requested = <<>>
                         \/ \E i \in DOMAIN requested :
                               requested[i].sst = s.sst /\ requested[i].sd \in {SDNotPresent, s.sd})

------------------------------------------------------------------------------
(* The device (external).                                                  *)

Suci == [kind |-> "suci", mcc |-> Mcc, mnc |-> Mnc, routing |-> <<1, 2>>, scheme |-> 0, key |-> 0, output |-> <<33, 67>>]
SuciOctets == <<1>> \o encodeMCCMNC(Mcc, Mnc) \o <<33, 255, 0, 0, 33, 67>>
Imei == [kind |-> "imei", digits |-> <<3, 5, 1, 2>>]
ImeiOctets == <<53, 21, 242>>
UeIdentity == IF n1Ue.guti = NoGuti THEN SuciOctets ELSE Encode5GGUTI(n1Ue.guti)

\* IEs the AMF has no use for, in the order of the message table.
ExtraOctets(t) ==
    CASE t = 23 -> TLV(23, <<240, 112>>)                      \* S1 UE network capability
      [] t = 80 -> TLV(80, <<32, 0>>)                         \* PDU session status
      [] t = 176 -> <<177>>                                   \* MICO indication
      [] t = 119 -> TLVE(119, <<242>> \o encodeMCCMNC(Mcc, Mnc) \o <<1, 0, 65, 9, 9, 9, 9>>)
      [] t = 112 -> TLVE(112, <<7, 65>>)                      \* EPS NAS message container
      [] t = 116 -> TLVE(116, <<3, 16, 46, 47>>)              \* LADN indication

ExtraOrder == <<23, 80, 176, 119, 112, 116>>

\* A Registration Request: with the cleartext IEs only, or complete.
UeRequest(said, complete) ==
    <<112 + 8 + said.type>> \o LVE(UeIdentity)
    \o (IF complete THEN TLV(16, said.mm) ELSE <<>>)
    \o TLV(46, n1Ue.cap)
    \o (IF complete THEN Given(said.want, TLV(47, EncodeNSSAI(said.want))) ELSE <<>>)
    \o FoldLeft(LAMBDA acc, t : acc \o (IF t \in said.extra THEN ExtraOctets(t) ELSE <<>>), <<>>, ExtraOrder)

\* A status IE as TS 24.501 9.11.3.44 lays it out: bit i of octet 1 is session
\* i, bit i of octet 2 session 8 + i.
UeMask(S) ==
    LET bits(lo, hi) == FoldLeft(LAMBDA acc, p : acc + (IF p \in S THEN 2 ^ (p - lo) ELSE 0), 0, [i \in 1 .. 8 |-> lo + i - 1])
    IN <<bits(0, 7), bits(8, 15)>>

\* The sessions of a status IE the device has received.
UeReads(v) == {p \in 1 .. 15 : (v[IF p <= 7 THEN 1 ELSE 2] \div (2 ^ (p % 8))) % 2 = 1}

UeServiceRequest(uplink, status) ==
    <<16 + 0>> \o LVE(<<244>> \o Be16(64 * n1Ue.guti.set + n1Ue.guti.ptr) \o n1Ue.guti.tmsi)
    \o Given(uplink, TLV(64, UeMask(uplink[1]))) \o Given(status, TLV(80, UeMask(status[1])))

------------------------------------------------------------------------------

To(side, pdu) == n1Wire' = [to |-> side, pdu |-> pdu]
Quietened == n1Wire' = Silence
Heard(side, t) == n1Wire.to = side /\ Decode(n1Wire.pdu).ok /\ Decode(n1Wire.pdu).type = t
Body == Decode(n1Wire.pdu).body

N1Init ==
    /\ n1Cfg \in Configs
    /\ \E c \in Caps :
         n1Ue = [phase |-> "out", cap |-> c, guti |-> NoGuti, area |-> {}, allowed |-> <<>>, full |-> <<>>,
                 short |-> <<>>, psis |-> {}, algs |-> [cipher |-> 0, integ |-> 0], resynced |-> FALSE]
    /\ n1Amf = [guti |-> NoGuti, id |-> BadIdentity, cap |-> DecodeUESecurityCapability(<<>>), mm |-> <<>>,
                nssai |-> <<>>, allowed |-> <<>>, psis |-> {}, pei |-> BadIdentity, next |-> 0]
    /\ n1Wire = Silence
    /\ n1Said = [what |-> "nothing", type |-> 0, want |-> <<>>, extra |-> {}, mm |-> <<>>, id |-> BadIdentity, failed |-> {}]

-----------------------------------------------------------------------------
(* The device opens a procedure.                                           *)

UeRegisters(want, extra) ==
    /\ n1Wire = Silence
    /\ n1Amf.next < MaxGuti
    /\ LET said == [what |-> "registration", type |-> IF n1Ue.guti = NoGuti THEN 1 ELSE 2, want |-> want,
                    extra |-> extra, mm |-> <<3>>, id |-> IF n1Ue.guti = NoGuti THEN Suci ELSE n1Ue.guti, failed |-> {}]
           pdu == Encode(MsgType.RegistrationRequest, UeRequest(said, FALSE))
       IN /\ n1Said' = said
          /\ To("amf", IF n1Ue.guti = NoGuti THEN pdu ELSE Protected(1, pdu))
    /\ n1Ue' = [n1Ue EXCEPT !.phase = "reg", !.resynced = FALSE]
    /\ UNCHANGED <<n1Cfg, n1Amf>>

\* With a security context the statuses travel in a NAS message container.
UeRequestsService(uplink, status, nested) ==
    /\ n1Wire = Silence /\ n1Ue.phase = "in"
    /\ \A S \in {uplink, status} : S # <<>> => S[1] \subseteq n1Ue.psis
    /\ n1Said' = [n1Said EXCEPT !.what = "service"]
    /\ LET whole == UeServiceRequest(uplink, status)
           pdu == IF nested THEN UeServiceRequest(<<>>, <<>>) \o TLVE(113, Encode(MsgType.ServiceRequest, whole))
                            ELSE whole
       IN To("amf", Protected(1, Encode(MsgType.ServiceRequest, pdu)))
    /\ n1Ue' = [n1Ue EXCEPT !.phase = "svc"]
    /\ UNCHANGED <<n1Cfg, n1Amf>>

UeDeregisters(off) ==
    /\ n1Wire = Silence /\ n1Ue.phase = "in"
    /\ n1Said' = [n1Said EXCEPT !.what = "leave"]
    /\ To("amf", Protected(2, Encode(MsgType.DeregistrationRequestUE,
                                     <<112 + (IF off THEN 8 ELSE 0) + 1>> \o LVE(UeIdentity))))
    /\ n1Ue' = [n1Ue EXCEPT !.phase = IF off THEN "out" ELSE "leaving", !.psis = {}]
    /\ UNCHANGED <<n1Cfg, n1Amf>>

\* Each side adds and drops PDU sessions on its own while nothing is on the air.
SessionSetUp(p) ==
    /\ n1Wire = Silence /\ n1Ue.phase = "in" /\ n1Amf.guti # NoGuti
    /\ p \notin n1Ue.psis
    /\ n1Ue' = [n1Ue EXCEPT !.psis = @ \cup {p}]
    /\ n1Amf' = [n1Amf EXCEPT !.psis = @ \cup {p}]
    /\ UNCHANGED <<n1Cfg, n1Wire, n1Said>>

UeDropsSession(p) ==
    /\ n1Wire = Silence /\ p \in n1Ue.psis
    /\ n1Ue' = [n1Ue EXCEPT !.psis = @ \ {p}]
    /\ UNCHANGED <<n1Cfg, n1Amf, n1Wire, n1Said>>

-----------------------------------------------------------------------------
(* The AMF answers.                                                        *)

AuthenticationRequestPdu ==
    Encode(MsgType.AuthenticationRequest,
           EncodeAuthenticationRequest([ksi |-> 0, rand |-> [i \in 1 .. 16 |-> 32], autn |-> [i \in 1 .. 16 |-> 33]]))

\* A Registration Accept with a fresh GUTI.
AcceptPdu(guti, allowed) ==
    Protected(2, Encode(MsgType.RegistrationAccept,
        EncodeRegistrationAccept([result |-> 1, guti |-> Encode5GGUTI(guti), tais |-> buildTAIList(n1Cfg.served),
                                  allowed |-> <<allowed>>, configured |-> <<>>, features |-> NewNetworkFeatureSupport,
                                  t3512 |-> <<161>>])))

NextGuti == [kind |-> "guti", mcc |-> Mcc, mnc |-> Mnc, region |-> 16, set |-> 513, ptr |-> 37,
             tmsi |-> <<46, 47, 119, n1Amf.next + 1>>]

\* An update of a device it knows is accepted at once, under a new GUTI and with
\* the slices unchanged; else a SUCI is authenticated and a GUTI answered by
\* asking for the SUCI. The requested slices are those of the new context.
AmfTakesRegistration ==
    /\ Heard("amf", MsgType.RegistrationRequest)
    /\ \E r \in {DecodeRegistrationRequest(Body)} :
          /\ r.ok
          /\ IF r.type \in {2, 3} /\ r.id = n1Amf.guti
             THEN /\ n1Amf' = [n1Amf EXCEPT !.id = r.id, !.guti = NextGuti, !.next = @ + 1]
                  /\ To("ue", AcceptPdu(NextGuti, n1Amf.allowed))
             ELSE /\ n1Amf' = [n1Amf EXCEPT !.id = r.id, !.cap = r.cap, !.psis = {}, !.nssai = r.nssai]
                  /\ To("ue", IF r.id.kind = "guti"
                              THEN Encode(MsgType.IdentityRequest, EncodeIdentityRequest(1))
                              ELSE AuthenticationRequestPdu)
    /\ UNCHANGED <<n1Cfg, n1Ue, n1Said>>

\* The gNB passed on a 5G-S-TMSI no context belongs to: only the message type is
\* looked at.
AmfRejectsUnknown ==
    /\ n1Wire.to = "amf" /\ n1Said.what \in {"registration", "service"}
    /\ n1Ue.phase \in {"reg", "svc"}
    /\ Decode(n1Wire.pdu).type \in {MsgType.RegistrationRequest, MsgType.ServiceRequest}
    /\ n1Ue.guti # NoGuti /\ n1Ue.guti # n1Amf.guti
    /\ To("ue", rejectForUnknownTMSI(PeekMessageType(n1Wire.pdu)))
    /\ UNCHANGED <<n1Cfg, n1Ue, n1Amf, n1Said>>

AmfTakesIdentity ==
    /\ Heard("amf", MsgType.IdentityResponse)
    /\ n1Amf' = [n1Amf EXCEPT !.id = DecodeIdentityResponse(Body)]
    /\ To("ue", AuthenticationRequestPdu)
    /\ UNCHANGED <<n1Cfg, n1Ue, n1Said>>

\* A response is followed by the security mode command.
AmfTakesResponse ==
    /\ Heard("amf", MsgType.AuthenticationResponse)
    /\ DecodeAuthenticationResponse(Body).res # <<>>
    /\ LET a == selectSecurityAlgorithms(n1Amf.cap)
       IN To("ue", Protected(3, Encode(MsgType.SecurityModeCommand,
                EncodeSecurityModeCommand([cipher |-> a.cipher, integ |-> a.integ, ksi |-> 0, cap |-> n1Amf.cap]))))
    /\ UNCHANGED <<n1Cfg, n1Ue, n1Amf, n1Said>>

\* A failure to synchronise by a new challenge.
AmfTakesFailure ==
    /\ Heard("amf", MsgType.AuthenticationFailure)
    /\ DecodeAuthenticationFailure(Body).cause = CauseSynchFailure
    /\ Len(DecodeAuthenticationFailure(Body).auts) = 14
    /\ To("ue", AuthenticationRequestPdu)
    /\ UNCHANGED <<n1Cfg, n1Ue, n1Amf, n1Said>>

\* Of the request in the container the AMF keeps the requested slices, when it can
\* read it and there are any. (It has no use for the 5GMM capability: mm is there
\* to state what the decoder found.)
applyRetransmittedRegistrationRequest(inner, r) ==
    IF ~(inner.ok /\ inner.type = MsgType.RegistrationRequest /\ r.ok) THEN n1Amf
    ELSE [n1Amf EXCEPT !.mm = r.mm, !.nssai = IF r.nssai = <<>> THEN @ ELSE r.nssai]

AmfTakesComplete ==
    /\ Heard("amf", MsgType.SecurityModeComplete)
    /\ \E c \in {DecodeSecurityModeComplete(Body)} :
       \E inner \in {Decode(c.container)} :
       \E applied \in {applyRetransmittedRegistrationRequest(inner, DecodeRegistrationRequest(inner.body))} :
       LET allowed == filterAllowedNSSAI(applied.nssai, SubscribedSlices)
       IN /\ n1Amf' = [applied EXCEPT !.pei = c.imeisv, !.allowed = allowed, !.guti = NextGuti, !.next = @ + 1]
          /\ To("ue", AcceptPdu(NextGuti, allowed))
    /\ UNCHANGED <<n1Cfg, n1Ue, n1Said>>

Update == [indication |-> <<>>, guti |-> <<>>, tais |-> <<>>, allowed |-> <<>>, full |-> <<>>, short |-> <<>>,
           configured |-> <<>>]

UpdatePdu(c) == Protected(2, Encode(MsgType.ConfigurationUpdateCommand, EncodeConfigurationUpdateCommand(c)))

\* The names follow, unacknowledged, if there are any.
sendNetworkNameConfigUpdate ==
    IF n1Cfg.full = <<>> /\ n1Cfg.short = <<>> THEN Quietened
    ELSE To("ue", UpdatePdu([Update EXCEPT !.full = n1Cfg.full, !.short = n1Cfg.short]))

AmfTakesRegistrationComplete ==
    /\ Heard("amf", MsgType.RegistrationComplete)
    /\ sendNetworkNameConfigUpdate
    /\ UNCHANGED <<n1Cfg, n1Ue, n1Amf, n1Said>>

\* The slices as a slice authentication left them, to be acknowledged.
sendNSSAAConfigUpdate ==
    /\ n1Wire = Silence /\ n1Ue.phase = "in" /\ n1Amf.guti # NoGuti
    /\ To("ue", UpdatePdu([Update EXCEPT !.indication = <<209>>, !.allowed = <<n1Amf.allowed>>]))
    /\ UNCHANGED <<n1Cfg, n1Ue, n1Amf, n1Said>>

\* Sessions the device no longer lists are dropped; of those it wants to use,
\* the ones not activated have failed.
AmfTakesService(activated) ==
    /\ Heard("amf", MsgType.ServiceRequest)
    /\ \E r \in {DecodeServiceRequest(Body)} :
       LET kept == IF r.status = <<>> THEN n1Amf.psis ELSE {p \in n1Amf.psis : PSIInStatus(r.status[1], p)}
           asked == IF r.uplink = <<>> THEN {} ELSE {p \in 1 .. 15 : PSIInStatus(r.uplink[1], p)}
           fails == asked \ activated
       IN /\ n1Amf.guti # NoGuti /\ r.tmsi = n1Amf.guti.tmsi
          /\ activated \subseteq asked \cap kept
          /\ n1Amf' = [n1Amf EXCEPT !.psis = kept]
          /\ n1Said' = [n1Said EXCEPT !.failed = fails]
          /\ To("ue", Protected(2, Encode(MsgType.ServiceAccept,
                EncodeServiceAccept([status |-> IF r.status = <<>> THEN <<>> ELSE <<PSIMask(kept)>>,
                                     result |-> IF r.uplink = <<>> THEN <<>> ELSE <<PSIMask(fails)>>]))))
    /\ UNCHANGED <<n1Cfg, n1Ue>>

AmfTakesLeave ==
    /\ Heard("amf", MsgType.DeregistrationRequestUE)
    /\ LET r == DecodeDeregistrationRequest(Body)
       IN /\ n1Amf' = [n1Amf EXCEPT !.id = r.id, !.psis = {}, !.guti = NoGuti]
          /\ IF r.switchOff THEN Quietened
             ELSE To("ue", Protected(2, Encode(MsgType.DeregistrationAcceptUE, <<>>)))
    /\ UNCHANGED <<n1Cfg, n1Ue, n1Said>>

\* The network ends the registration.
AmfDeregisters(again) ==
    /\ n1Wire = Silence /\ n1Amf.guti # NoGuti /\ n1Ue.phase = "in"
    /\ n1Amf' = [n1Amf EXCEPT !.psis = {}, !.guti = NoGuti]
    /\ To("ue", Protected(2, Encode(MsgType.DeregistrationRequestNW,
            EncodeDeregistrationRequestNW([again |-> again, cause |-> IF again THEN 0 ELSE 11]))))
    /\ UNCHANGED <<n1Cfg, n1Ue, n1Said>>

\* Messages that need no answer.
AmfTakesClosing ==
    /\ \/ Heard("amf", MsgType.ConfigurationUpdateComplete)
       \/ Heard("amf", MsgType.DeregistrationAcceptNW)
    /\ Quietened
    /\ UNCHANGED <<n1Cfg, n1Ue, n1Amf, n1Said>>

\* The context is lost (restart without a store, removal).
AmfForgets ==
    /\ n1Wire = Silence /\ n1Amf.guti # NoGuti
    /\ n1Amf' = [n1Amf EXCEPT !.guti = NoGuti, !.psis = {}]
    /\ UNCHANGED <<n1Cfg, n1Ue, n1Wire, n1Said>>

-----------------------------------------------------------------------------
(* The device answers.                                                     *)

UeTakesIdentityRequest ==
    /\ Heard("ue", MsgType.IdentityRequest) /\ DecodeIdentityRequest(Body) = 1
    /\ To("amf", Encode(MsgType.IdentityResponse, LVE(SuciOctets)))
    /\ n1Said' = [n1Said EXCEPT !.id = Suci]
    /\ UNCHANGED <<n1Cfg, n1Ue, n1Amf>>

\* The challenge as sent, or it would not verify.
UeTakesChallenge(inStep) ==
    /\ Heard("ue", MsgType.AuthenticationRequest)
    /\ LET r == DecodeAuthenticationRequest(Body)
       IN r.rand = [i \in 1 .. 16 |-> 32] /\ r.autn = [i \in 1 .. 16 |-> 33]
    /\ inStep \/ ~n1Ue.resynced
    /\ To("amf", IF inStep THEN Encode(MsgType.AuthenticationResponse, TLV(45, [i \in 1 .. 16 |-> 48]))
                 ELSE Encode(MsgType.AuthenticationFailure, <<CauseSynchFailure>> \o TLV(48, [i \in 1 .. 14 |-> 45])))
    /\ n1Ue' = [n1Ue EXCEPT !.resynced = ~inStep \/ @]
    /\ UNCHANGED <<n1Cfg, n1Amf, n1Said>>

\* It refuses a command that does not replay its own capability.
UeTakesCommand ==
    /\ Heard("ue", MsgType.SecurityModeCommand)
    /\ LET c == DecodeSecurityModeCommand(Body)
       IN /\ n1Ue' = [n1Ue EXCEPT !.algs = c.algs]
          /\ To("amf", IF c.cap.raw # n1Ue.cap THEN Encode(MsgType.SecurityModeReject, <<24>>)
                       ELSE Protected(4, Encode(MsgType.SecurityModeComplete,
                              TLVE(119, ImeiOctets)
                              \o TLVE(113, Encode(MsgType.RegistrationRequest, UeRequest(n1Said, TRUE))))))
    /\ UNCHANGED <<n1Cfg, n1Amf, n1Said>>

UeTakesAccept ==
    /\ Heard("ue", MsgType.RegistrationAccept)
    /\ LET a == DecodeRegistrationAccept(Body)
       IN n1Ue' = [n1Ue EXCEPT !.phase = "in", !.guti = a.guti, !.area = TacsOf(a.tais), !.allowed = a.allowed,
                               !.psis = IF n1Said.type = 1 \/ n1Said.id = Suci THEN {} ELSE @]
    /\ To("amf", Protected(2, Encode(MsgType.RegistrationComplete, <<>>)))
    /\ n1Said' = [n1Said EXCEPT !.extra = {}]
    /\ UNCHANGED <<n1Cfg, n1Amf>>

UeTakesUpdate ==
    /\ Heard("ue", MsgType.ConfigurationUpdateCommand)
    /\ LET c == DecodeConfigurationUpdateCommand(Body)
           acknowledged == c.indication # <<>> /\ c.indication[1] % 2 = 1
           or(new, old) == IF new = <<>> THEN old ELSE new
       IN /\ n1Ue' = [n1Ue EXCEPT !.full = or(c.full, @), !.short = or(c.short, @), !.allowed = or(c.allowed, <<@>>)[1]]
          /\ IF acknowledged THEN To("amf", Protected(2, Encode(MsgType.ConfigurationUpdateComplete, <<>>)))
             ELSE Quietened
    /\ UNCHANGED <<n1Cfg, n1Amf, n1Said>>

UeTakesServiceAccept ==
    /\ Heard("ue", MsgType.ServiceAccept)
    /\ LET a == DecodeServiceAccept(Body)
       IN n1Ue' = [n1Ue EXCEPT !.phase = "in",
                               !.psis = IF a.status = <<>> THEN @ ELSE @ \cap UeReads(Be16(a.status[1]))]
    /\ n1Said' = [n1Said EXCEPT !.failed = {}]
    /\ Quietened
    /\ UNCHANGED <<n1Cfg, n1Amf>>

\* A reject of the procedure it started makes it drop its GUTI.
UeTakesReject ==
    /\ \/ Heard("ue", MsgType.RegistrationReject) /\ n1Ue.phase = "reg"
       \/ Heard("ue", MsgType.ServiceReject) /\ n1Ue.phase = "svc"
    /\ n1Ue' = [n1Ue EXCEPT !.phase = "out", !.guti = NoGuti, !.psis = {}]
    /\ Quietened
    /\ UNCHANGED <<n1Cfg, n1Amf, n1Said>>

UeTakesLeave ==
    /\ \/ Heard("ue", MsgType.DeregistrationAcceptUE) /\ Quietened
       \/ /\ Heard("ue", MsgType.DeregistrationRequestNW)
          /\ To("amf", Protected(2, Encode(MsgType.DeregistrationAcceptNW, <<>>)))
    /\ n1Ue' = [n1Ue EXCEPT !.phase = "out", !.psis = {}]
    /\ UNCHANGED <<n1Cfg, n1Amf, n1Said>>

Masks == {<<>>} \cup {<<S>> : S \in SUBSET N1Psis}

N1Next ==
    \/ \E want \in Wants, extra \in SUBSET Extras : UeRegisters(want, extra)
    \/ \E u, s \in Masks, nested \in BOOLEAN : UeRequestsService(u, s, nested)
    \/ \E off \in BOOLEAN : UeDeregisters(off)
    \/ \E p \in N1Psis : SessionSetUp(p) \/ UeDropsSession(p)
    \/ AmfTakesRegistration \/ AmfRejectsUnknown \/ AmfTakesIdentity \/ AmfTakesResponse \/ AmfTakesFailure
    \/ AmfTakesComplete \/ AmfTakesRegistrationComplete \/ sendNSSAAConfigUpdate \/ AmfTakesLeave \/ AmfTakesClosing \/ AmfForgets
    \/ \E activated \in SUBSET N1Psis : AmfTakesService(activated)
    \/ \E again \in BOOLEAN : AmfDeregisters(again)
    \/ UeTakesIdentityRequest \/ UeTakesCommand \/ UeTakesAccept \/ UeTakesUpdate \/ UeTakesServiceAccept
    \/ UeTakesReject \/ UeTakesLeave
    \/ \E inStep \in BOOLEAN : UeTakesChallenge(inStep)

N1Spec == N1Init /\ [][N1Next]_n1Vars

------------------------------------------------------------------------------
(* Properties.                                                             *)

\* Types: octets are octets, and the two ends hold what a decoder yields.
N1TypeOK ==
    /\ n1Cfg \in Configs
    /\ n1Wire.to \in {"none", "amf", "ue"}
    /\ \A i \in DOMAIN n1Wire.pdu : n1Wire.pdu[i] \in 0 .. 255
    /\ n1Ue.phase \in {"out", "reg", "in", "svc", "leaving"}
    /\ n1Ue.psis \subseteq N1Psis /\ n1Amf.psis \subseteq N1Psis
    /\ n1Amf.next \in 0 .. MaxGuti

\* What the AMF took from a registration, whether from the cleartext request, an
\* identity response or the request inside the security mode complete, is what
\* the device put into it, whatever other IEs came along (a wrongly framed IE
\* would shift the reader into a value).
RequestUnderstood ==
    /\ Heard("ue", MsgType.SecurityModeCommand) => n1Amf.id = n1Said.id /\ n1Amf.cap.raw = n1Ue.cap
    /\ Heard("ue", MsgType.RegistrationAccept) =>
          /\ n1Amf.id = n1Said.id
          /\ n1Said.id = Suci => n1Amf.mm = n1Said.mm /\ n1Amf.nssai = n1Said.want /\ n1Amf.pei = Imei

\* The security mode command replays the capability octet for octet, so no
\* device refuses it, and names algorithms the device announced (or null).
CapabilityReplayed ==
    /\ ~Heard("amf", MsgType.SecurityModeReject)
    /\ LET c == DecodeUESecurityCapability(n1Ue.cap)
       IN n1Ue.algs.cipher \in c.ea \cup {0} /\ n1Ue.algs.integ \in c.ia \cup {0}

\* After a registration by SUCI the device holds, in subscription order, just
\* the subscribed slices it asked for (all, when it asked for none): through the
\* request, the filter, the accept and the configuration update.
SlicesAsAsked ==
    n1Ue.phase = "in" /\ n1Said.id = Suci =>
        LET asked(s) == n1Said.want = <<>>
                        \/ s \in Range(n1Said.want)
                        \/ [s EXCEPT !.sd = SDNotPresent] \in Range(n1Said.want)
        IN n1Ue.allowed = SelectSeq(SubscribedSlices, asked)

\* A service accept tells the device, in the bits of TS 24.501, just the sessions
\* the AMF has left and just the ones that could not be reactivated, and the AMF
\* keeps no session the device did not list.
StatusAgrees ==
    Heard("ue", MsgType.ServiceAccept) =>
        LET a == DecodeServiceAccept(Body)
        IN /\ a.status # <<>> => UeReads(Be16(a.status[1])) = n1Amf.psis /\ n1Amf.psis \subseteq n1Ue.psis
           /\ a.result # <<>> => UeReads(Be16(a.result[1])) = n1Said.failed /\ n1Said.failed \subseteq n1Ue.psis

\* The network names the device shows are the configured ones: septet packing
\* (with its spare bits) or UCS-2, and back.
NamesSurvive ==
    /\ n1Ue.full # <<>> => n1Ue.full = n1Cfg.full
    /\ n1Ue.short # <<>> => n1Ue.short = n1Cfg.short

\* A device whose context is unknown is rejected in the procedure it started,
\* plain or protected ("Registration Reject vs. Service Reject are not
\* interchangeable").
RejectFitsProcedure ==
    /\ Heard("ue", MsgType.RegistrationReject) => n1Ue.phase = "reg"
    /\ Heard("ue", MsgType.ServiceReject) => n1Ue.phase = "svc"

\* The registration area a device is given covers the tracking area it is in,
\* as long as the served TACs leave room for it.
AreaCoversDevice ==
    n1Ue.phase = "in" => CurrentTac \in n1Ue.area \/ Len(n1Cfg.served) >= MaxTacs

\* The area covers the device, whatever is configured.
AreaAlwaysCovers == n1Ue.phase = "in" => CurrentTac \in n1Ue.area
==============================================================================
