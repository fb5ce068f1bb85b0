----------------------------- MODULE SmsService -----------------------------
(***************************************************************************)
(* SMS over NAS: the SMSF's contexts, the uplink relay of the AMF and the  *)
(* way back through the AMF's N1N2MessageTransfer                          *)
(* (nf/smsf/internal/server/server.go, nf/smsf/internal/context/           *)
(* context.go, nf/amf/internal/nas/nas.go, nf/amf/internal/sbi/server.go). *)
(*                                                                         *)
(* One subscriber is known to the SMSF under two keys, the SUPI and the    *)
(* GPSI.  An activation stores its context under the key of the request's  *)
(* path and then, in a second step under the same lock taken again, under  *)
(* the SUPI of its body.  A message from the device is accepted, answered, *)
(* and sent back by a goroutine of its own; a message for the device is    *)
(* handed to the AMF whose callback the context holds.                     *)
(*                                                                         *)
(* Octet strings are sequences of 0..255; the text of a JSON string is the *)
(* sequence of its ASCII codes, and base64 is computed.  A request the     *)
(* SMSF refuses (no SUPI, no access type, a malformed body) changes        *)
(* nothing and has no action.  The registration of the SMSF at the UDM     *)
(* changes no state of the SMSF whatever its outcome.                      *)
(***************************************************************************)
EXTENDS Integers, Sequences, FiniteSets

CONSTANTS
    SmsAmfs,          \* the AMFs whose callbacks an activation may name
    NoCallback,       \* the activation that names none
    MoPayloads,       \* SM-CP containers the device sends, as octet strings
    MtPayloads,       \* SM-CP containers an operator sends, base64-encoded
    MtTexts,          \* JSON strings an operator sends as they are
    SmsEvents,        \* subset of {"failure", "idle", "move"}
    MaxActivations,   \* bound on Activate requests
    MaxSms            \* bound on messages, device's and operator's together

Supi == "supi"
Gpsi == "gpsi"
SmsKeys == {Supi, Gpsi}

VARIABLES
    contexts,      \* the SMSF's Store: key -> the activation it points to
    activating,    \* activations between their two Set calls
    activations,   \* number of Activate requests accepted so far
    uplinks,       \* UplinkSMS requests on their way to the SMSF
    echoes,        \* goroutines of echoMTSMS that have not sent yet
    transfers,     \* messages an AMF has taken over, by number
    smsDevice,     \* at each AMF: "none", "idle" or "connected"
    paged,         \* AMFs with PendingN1N2 set
    downlinkSms,   \* SMS containers an AMF has sent to the device
    smsCount,      \* messages so far
    sentSms,       \* history: number -> the octets handed in, and for which AMF
    mixed          \* history: an activation met another, or left one key behind

smsVars ==
    <<contexts, activating, activations, uplinks, echoes, transfers, smsDevice, paged, downlinkSms,
      smsCount, sentSms, mixed>>

smsfVars == <<contexts, activating, activations, mixed>>
amfSmsVars == <<smsDevice, paged, downlinkSms>>

NoContext == [n |-> 0, callback |-> NoCallback]

-----------------------------------------------------------------------------
(* Base64 and its lenient decoder *)

Base64Char(i) ==
    CASE i < 26 -> 65 + i
      [] i \in 26..51 -> 71 + i
      [] i \in 52..61 -> i - 4
      [] i = 62 -> 43
      [] OTHER -> 47

Pad == 61

Base64Value(c) == CHOOSE i \in 0..63 : Base64Char(i) = c

OctetAt(b, i) == IF i <= Len(b) THEN b[i] ELSE 0

\* base64.StdEncoding.EncodeToString: every three octets are four characters,
\* a last group of one or two octets is padded.
EncodeToString(b) ==
    LET groups == (Len(b) + 2) \div 3
        bits(g) == 65536 * OctetAt(b, 3 * g + 1) + 256 * OctetAt(b, 3 * g + 2) + OctetAt(b, 3 * g + 3)
        char(g, k) ==
            IF 3 * g + k > Len(b) + 1
            THEN Pad
            ELSE Base64Char((bits(g) \div (64 ^ (4 - k))) % 64)
    IN  [i \in 1..(4 * groups) |-> char((i - 1) \div 4, ((i - 1) % 4) + 1)]

\* A string the standard decoder takes: whole groups of the alphabet, with at
\* most two padding characters, both at the end.
IsBase64(s) ==
    LET body == {i \in DOMAIN s : s[i] # Pad}
    IN  /\ Len(s) % 4 = 0
        /\ \A i \in body : \E v \in 0..63 : Base64Char(v) = s[i]
        /\ \A i \in DOMAIN s \ body : i > Len(s) - 2
        /\ \A i \in DOMAIN s \ body : \A j \in body : j < i

DecodeString(s) ==
    LET pads == Cardinality({i \in DOMAIN s : s[i] = Pad})
        value(i) == IF s[i] = Pad THEN 0 ELSE Base64Value(s[i])
        bits(g) == 262144 * value(4 * g + 1) + 4096 * value(4 * g + 2) + 64 * value(4 * g + 3) + value(4 * g + 4)
        octet(i) == (bits((i - 1) \div 3) \div (256 ^ (2 - ((i - 1) % 3)))) % 256
    IN  [i \in 1..(3 * (Len(s) \div 4) - pads) |-> octet(i)]

\* Mutant: a payload is passed on as it is written.
keepsText(s) == s

\* What cannot be decoded is taken as the text itself.
decodeBase64Payload(s) == IF IsBase64(s) THEN DecodeString(s) ELSE s

-----------------------------------------------------------------------------
(* The SMSF's contexts *)

SmsInit ==
    /\ contexts = [k \in SmsKeys |-> NoContext]
    /\ activating = {}
    /\ activations = 0
    /\ uplinks = {}
    /\ echoes = {}
    /\ transfers = {}
    /\ smsDevice \in {[a \in SmsAmfs |-> IF a = s THEN "connected" ELSE "none"] : s \in SmsAmfs}
    /\ paged = {}
    /\ downlinkSms = {}
    /\ smsCount = 0
    /\ sentSms = <<>>
    /\ mixed = FALSE

Active(k) == contexts[k] # NoContext

\* Store.Set under the path's key; a path that is not the SUPI leaves the
\* second Set to come.
storeContext(path, ctx) ==
    /\ contexts' = [contexts EXCEPT ![path] = ctx]
    /\ activating' = IF path = Supi THEN activating ELSE activating \cup {ctx}

\* An activation is external to the core: no function of it sends one.
handleActivate(path, callback) ==
    /\ activations < MaxActivations
    /\ activations' = activations + 1
    /\ storeContext(path, [n |-> activations + 1, callback |-> callback])
    /\ mixed' = (mixed \/ activating # {} \/ (path = Supi /\ Active(Gpsi)))
    /\ UNCHANGED <<uplinks, echoes, transfers, smsCount, sentSms>>
    /\ UNCHANGED amfSmsVars

\* The second Set of an activation that came under the GPSI.
ActivateSupi(ctx) ==
    /\ contexts' = [contexts EXCEPT ![Supi] = ctx]
    /\ activating' = activating \ {ctx}
    /\ UNCHANGED <<activations, mixed, uplinks, echoes, transfers, smsCount, sentSms>>
    /\ UNCHANGED amfSmsVars

\* Only the key of the path is deleted; the other keeps its context.
handleDeactivate(key) ==
    /\ Active(key)
    /\ contexts' = [contexts EXCEPT ![key] = NoContext]
    /\ UNCHANGED <<activating, activations, mixed, uplinks, echoes, transfers, smsCount, sentSms>>
    /\ UNCHANGED amfSmsVars

-----------------------------------------------------------------------------
(* From the device *)

\* A message the device or the operator hands in, with the AMF it is for.
NewSms(octets, amf) ==
    /\ smsCount < MaxSms
    /\ smsCount' = smsCount + 1
    /\ sentSms' = Append(sentSms, [octets |-> octets, amf |-> amf])

\* The AMF relays the container, base64-encoded, under the SUPI it knows.
handleULSMS(amf, container) ==
    /\ smsDevice[amf] = "connected"
    /\ NewSms(container, NoCallback)
    /\ uplinks' = uplinks \cup {[n |-> smsCount + 1, smsPayload |-> EncodeToString(container)]}
    /\ UNCHANGED <<echoes, transfers>>
    /\ UNCHANGED smsfVars
    /\ UNCHANGED amfSmsVars

\* A call that does not reach the SMSF is logged; nothing is sent again.
UplinkSMS(u) ==
    /\ "failure" \in SmsEvents
    /\ uplinks' = uplinks \ {u}
    /\ UNCHANGED <<echoes, transfers, smsCount, sentSms>>
    /\ UNCHANGED smsfVars
    /\ UNCHANGED amfSmsVars

\* What the goroutine captures: the context found, not its key.
echoOf(u) == [n |-> u.n, smsPayload |-> u.smsPayload, callback |-> contexts[Supi].callback]

\* Accepted while a context is active, and then echoed; otherwise 404, which
\* the AMF absorbs.
handleUplinkSMS(u) ==
    /\ uplinks' = uplinks \ {u}
    /\ echoes' = IF Active(Supi) THEN echoes \cup {echoOf(u)} ELSE echoes
    /\ sentSms' = IF Active(Supi) THEN [sentSms EXCEPT ![u.n].amf = contexts[Supi].callback] ELSE sentSms
    /\ UNCHANGED <<transfers, smsCount>>
    /\ UNCHANGED smsfVars
    /\ UNCHANGED amfSmsVars

-----------------------------------------------------------------------------
(* To the device *)

\* The AMF's part: an unknown device is refused; a connected one is reported
\* as served; an idle one is paged and remembered as having a message.  The
\* container itself is not kept and not sent.
transferSms(n, amf, octets) ==
    /\ transfers' = IF smsDevice[amf] = "none" THEN transfers
                    ELSE transfers \cup {[n |-> n, amf |-> amf, octets |-> octets, connected |-> smsDevice[amf] = "connected"]}
    /\ paged' = IF smsDevice[amf] = "idle" THEN paged \cup {amf} ELSE paged
    /\ UNCHANGED <<smsDevice, downlinkSms>>

\* The payload crosses the callback as base64 once more.
SendN1N2Message(n, callback, octets) ==
    transferSms(n, callback, DecodeString(EncodeToString(octets)))

TransferFails ==
    /\ "failure" \in SmsEvents
    /\ UNCHANGED transfers
    /\ UNCHANGED amfSmsVars

echoMTSMS(e) ==
    /\ echoes' = echoes \ {e}
    /\ IF e.callback = NoCallback
       THEN UNCHANGED transfers /\ UNCHANGED amfSmsVars
       ELSE SendN1N2Message(e.n, e.callback, decodeBase64Payload(e.smsPayload)) \/ TransferFails
    /\ UNCHANGED <<uplinks, smsCount, sentSms>>
    /\ UNCHANGED smsfVars

\* The operator's message, under either key; no callback answers 503.
handleMTSMSTrigger(key, smsPayload, octets) ==
    /\ Active(key)
    /\ contexts[key].callback # NoCallback
    /\ NewSms(octets, contexts[key].callback)
    /\ SendN1N2Message(smsCount + 1, contexts[key].callback, decodeBase64Payload(smsPayload)) \/ TransferFails
    /\ UNCHANGED <<uplinks, echoes>>
    /\ UNCHANGED smsfVars

-----------------------------------------------------------------------------
(* The device and its AMFs *)

\* The device leaves its connection, or returns and is no longer awaited.
Idles(a) ==
    /\ "idle" \in SmsEvents
    /\ smsDevice[a] = "connected"
    /\ smsDevice' = [smsDevice EXCEPT ![a] = "idle"]
    /\ UNCHANGED <<paged, downlinkSms, uplinks, echoes, transfers, smsCount, sentSms>>
    /\ UNCHANGED smsfVars

Returns(a) ==
    /\ smsDevice[a] = "idle"
    /\ smsDevice' = [smsDevice EXCEPT ![a] = "connected"]
    /\ paged' = paged \ {a}
    /\ UNCHANGED <<downlinkSms, uplinks, echoes, transfers, smsCount, sentSms>>
    /\ UNCHANGED smsfVars

\* The device registers at another AMF; the one it left has no context of it.
Moves(a, b) ==
    /\ "move" \in SmsEvents
    /\ smsDevice[a] # "none" /\ smsDevice[b] = "none"
    /\ smsDevice' = [smsDevice EXCEPT ![a] = "none", ![b] = "connected"]
    /\ paged' = paged \ {a}
    /\ UNCHANGED <<downlinkSms, uplinks, echoes, transfers, smsCount, sentSms>>
    /\ UNCHANGED smsfVars

SmsNext ==
    \/ \E k \in SmsKeys, c \in SmsAmfs \cup {NoCallback} : handleActivate(k, c)
    \/ \E c \in activating : ActivateSupi(c)
    \/ \E k \in SmsKeys : handleDeactivate(k)
    \/ \E a \in SmsAmfs, p \in MoPayloads : handleULSMS(a, p)
    \/ \E u \in uplinks : UplinkSMS(u)
    \/ \E u \in uplinks : handleUplinkSMS(u)
    \/ \E e \in echoes : echoMTSMS(e)
    \/ \E k \in SmsKeys, p \in MtPayloads : handleMTSMSTrigger(k, EncodeToString(p), p)
    \/ \E k \in SmsKeys, t \in MtTexts : handleMTSMSTrigger(k, t, t)
    \/ \E a \in SmsAmfs : Idles(a)
    \/ \E a \in SmsAmfs : Returns(a)
    \/ \E a, b \in SmsAmfs : Moves(a, b)

SmsSpec == SmsInit /\ [][SmsNext]_smsVars

-----------------------------------------------------------------------------
(* Properties *)

\* Types, and a message is in one place at a time: no number is at once on
\* its way, waiting to be echoed and taken over by an AMF.
SmsTypeOK ==
    /\ contexts \in [SmsKeys -> [n : 0..MaxActivations, callback : SmsAmfs \cup {NoCallback}]]
    /\ smsDevice \in [SmsAmfs -> {"none", "idle", "connected"}]
    /\ paged \subseteq SmsAmfs
    /\ \A u \in uplinks, e \in echoes : u.n # e.n
    /\ \A t \in transfers : \A w \in uplinks \cup echoes : w.n # t.n

\* handleActivate writes the store twice without holding its lock in between.
\* Unless activations overlapped, or one came under the SUPI while the GPSI
\* still held an older context, the two keys of a subscriber lead to the same
\* activation, and once every activation is finished the SUPI leads to the
\* newest.
KeysAgree ==
    (activating = {} /\ ~mixed) =>
        /\ (Active(Supi) /\ Active(Gpsi)) => contexts[Supi] = contexts[Gpsi]
        /\ Active(Gpsi) => contexts[Gpsi].n = activations
        /\ Active(Supi) => contexts[Supi].n = activations

\* Whatever happened to the contexts in between, a message an AMF takes over
\* is one that was handed in, with the octets it was handed in with, for the
\* AMF the context named when the SMSF accepted it, and it is taken over once.
\* A text that happens to be base64 is the exception: it arrives decoded.
ArrivesAsSent ==
    /\ \A t \in transfers :
        /\ t.amf = sentSms[t.n].amf
        /\ (sentSms[t.n].octets \in MtTexts /\ IsBase64(sentSms[t.n].octets)) \/ t.octets = sentSms[t.n].octets
    /\ \A s, t \in transfers : s.n = t.n => s = t

\* "the N1/N2 payload is delivered over the existing N2 connection"
\* (nf/amf/internal/sbi/server.go): a message an AMF took over for a connected
\* device has been sent to it.
ConnectedIsServed == \A t \in transfers : t.connected => t.octets \in downlinkSms

=============================================================================
