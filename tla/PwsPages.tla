------------------------------ MODULE PwsPages ------------------------------
(***************************************************************************)
(* What a warning says and where, from the broadcast order to the device:  *)
(* the defaults the AMF fills in, the cell broadcast pages its text is cut *)
(* into (GSM 7-bit, 8-bit or UCS2), the Write-Replace Warning and PWS      *)
(* Cancel exchanges, and the areas the gNB reports back                    *)
(* (nf/amf/internal/ngap/pws.go, shared/gsm7, nf/amf/cmd/amf/main.go).     *)
(*                                                                         *)
(* A text is a sequence of code points.  Of the GSM 7-bit table the module *)
(* keeps the entries below; the others behave as 'A' does.  The registry   *)
(* of broadcasts and its races are the subject of AmfPws.                  *)
(***************************************************************************)
EXTENDS Integers, Sequences, SequencesExt

CONSTANTS
    WarningOrders,   \* the orders a cell broadcast centre submits first
    LaterOrders,     \* bound: those of them that may follow another
    ServedTACs       \* cfg.ServedTACs: the tracking areas of the AMF

VARIABLES
    order,     \* the last order submitted, or NoOrder
    params,    \* the registry's WriteReplaceWarningParams for it
    cellRequest, \* the request the gNB broadcasts, or OffAir
    screen,    \* what a device in the cell has read of it, or Dark
    report     \* the gNB's answer to the order as the AMF decodes it, or NoReport

pageVars == <<order, params, cellRequest, screen, report>>

-----------------------------------------------------------------------------
cbsPageContentLength == 82
cbsMaxPages == 15
gsm7MaxSeptetsPerPage == 93
ucs2MaxCharsPerPage == cbsPageContentLength \div 2
cbsDCSUcs2WithLanguage == 17
ESC == 27

Unset == -1
NoOrder == [none |-> TRUE]
OffAir == [none |-> TRUE]
NoReport == [none |-> TRUE]
Dark == [none |-> TRUE]

\* The sequences of ss one after the other, joined by halves
Flat(ss) ==
    LET join[a \in 0..Len(ss), b \in 0..Len(ss)] ==
          IF b = a THEN <<>>
          ELSE IF b = a + 1 THEN ss[b]
          ELSE join[a, (a + b) \div 2] \o join[(a + b) \div 2, b]
    IN join[0, Len(ss)]

\* The table: '@' is septet 0, the others are their ASCII code
basicSeptet(r) == IF r = 64 THEN 0 ELSE r
BasicRunes == {10, 32, 60, 63, 64, 65, 101, 110, 115}
extSeptets == {60, 101}
extRune(s) == IF s = 60 THEN 91 ELSE 8364
extSeptet(r) == IF r = 91 THEN 60 ELSE 101
ExtRunes == {91, 8364}

\* The alphabet a data coding scheme selects
GeneralAlphabet(dcs) ==
    CASE (dcs \div 4) % 4 = 1 -> "8bit"
      [] (dcs \div 4) % 4 = 2 -> "ucs2"
      [] OTHER -> "gsm7"

AlphabetFromCBSDCS(dcs) ==
    LET group == dcs \div 16 IN
    CASE group = 1 -> IF dcs % 16 = 0 THEN "gsm7" ELSE "ucs2"
      [] group \in {4, 5, 6, 7, 9} -> GeneralAlphabet(dcs)
      [] group = 15 -> IF (dcs \div 4) % 2 = 1 THEN "8bit" ELSE "gsm7"
      [] OTHER -> "gsm7"

\* Text to septets: a character of neither table becomes '?'
SeptetsOf(r) ==
    IF r \in BasicRunes THEN <<basicSeptet(r)>>
    ELSE IF r \in ExtRunes THEN <<ESC, extSeptet(r)>>
    ELSE <<63>>

EncodeText(text) ==
    Flat([i \in DOMAIN text |-> SeptetsOf(text[i])])

\* Whether septet i is the second of an escape pair: the run of escapes
\* before it is odd
escaped(s) ==
    LET e[i \in 0..Len(s)] == i > 1 /\ s[i - 1] = ESC /\ ~e[i - 1] IN e

DecodeSeptets(s) ==
    LET e == escaped(s)
        read(i) == IF e[i] THEN IF s[i] \in extSeptets THEN <<extRune(s[i])>>
                                ELSE <<32>>
                   ELSE IF s[i] = ESC
                        THEN IF i = Len(s) THEN <<32>> ELSE <<>>
                   ELSE <<IF s[i] = 0 THEN 64 ELSE s[i]>>
    IN Flat([i \in DOMAIN s |-> read(i)])

\* Septet i occupies the seven bits from 7(i - 1) on, low bit first
PackSeptets(s) ==
    LET shifted(i, b) == (s[i] * 2 ^ ((7 * (i - 1)) % 8)) \div 2 ^ (8 * b)
        at(j, i, b) == IF i \in DOMAIN s /\ (7 * (i - 1)) \div 8 + b = j - 1
                       THEN shifted(i, b) % 256 ELSE 0
        first(j) == (8 * (j - 1)) \div 7 + 1
    IN [j \in 1..((Len(s) * 7 + 7) \div 8) |->
          at(j, first(j) - 1, 1) + at(j, first(j), 0) + at(j, first(j), 1)
            + at(j, first(j) + 1, 0)]

UnpackSeptets(p, count) ==
    LET octet(j) == IF j \in DOMAIN p THEN p[j] ELSE 0
        pair(i) == octet((7 * (i - 1)) \div 8 + 1)
                     + 256 * octet((7 * (i - 1)) \div 8 + 2)
    IN [i \in 1..count |-> (pair(i) \div 2 ^ ((7 * (i - 1)) % 8)) % 128]

SeptetCountForOctets(octets) == (octets * 8) \div 7

\* Two ISO 639 letters, packed into two octets
EncodeUCS2LanguagePrefix(iso) ==
    PackSeptets(EncodeText(SubSeq(iso \o <<32, 32>>, 1, 2)))

DecodeUCS2LanguagePrefix(octets) ==
    IF Len(octets) < 2 THEN <<>>
    ELSE DecodeSeptets(UnpackSeptets(SubSeq(octets, 1, 2), 2))

-----------------------------------------------------------------------------
(* Pages: a count, then per page 82 octets padded with zeros and the       *)
(* number of octets used.                                                  *)
Upto(a, b) == IF a < b THEN a ELSE b
AtLeastOne(n) == IF n = 0 THEN 1 ELSE n

Page(octets) ==
    octets \o SubSeq([i \in 1..cbsPageContentLength |-> 0],
                     Len(octets) + 1, cbsPageContentLength)
      \o <<Len(octets)>>

Book(pages) == <<Len(pages)>> \o Flat([i \in DOMAIN pages |-> Page(pages[i])])

\* The chunks of at most n items of s, at most 15 of them
Chunked(s, n) ==
    LET kept == SubSeq(s, 1, Upto(Len(s), n * cbsMaxPages))
    IN [i \in 1..AtLeastOne((Len(kept) + n - 1) \div n) |->
          SubSeq(kept, n * (i - 1) + 1, Upto(n * i, Len(kept)))]

encode8BitPages(octets) == Book(Chunked(octets, cbsPageContentLength))

encodeGSM7Pages(text) ==
    LET chunks == Chunked(EncodeText(text), gsm7MaxSeptetsPerPage)
    IN Book([i \in DOMAIN chunks |-> PackSeptets(chunks[i])])

FirstCapacity(prefix) == (cbsPageContentLength - Len(prefix)) \div 2

encodeUCS2Pages(text, prefix) ==
    LET two(r) == <<(r \div 256) % 256, r % 256>>
        octets(s) == Flat([i \in DOMAIN s |-> two(s[i])])
        first == SubSeq(text, 1, Upto(Len(text), FirstCapacity(prefix)))
        rest == SubSeq(text, Len(first) + 1, Len(text))
        more == IF rest = <<>> THEN <<>> ELSE Chunked(rest, ucs2MaxCharsPerPage)
        kept == SubSeq(more, 1, Upto(Len(more), cbsMaxPages - 1))
    IN Book(<<prefix \o octets(first)>>
              \o [i \in DOMAIN kept |-> octets(kept[i])])

\* The octets of a text in UTF-8, the form WarningMessageContents holds
Utf8(r) ==
    CASE r < 128 -> <<r>>
      [] r \in 128..2047 -> <<192 + (r \div 64), 128 + (r % 64)>>
      [] r \in 2048..65535 ->
           <<224 + (r \div 4096), 128 + ((r \div 64) % 64), 128 + (r % 64)>>
      [] OTHER -> <<240 + (r \div 262144), 128 + ((r \div 4096) % 64),
                    128 + ((r \div 64) % 64), 128 + (r % 64)>>

Octets8(text) == Flat([i \in DOMAIN text |-> Utf8(text[i])])

encodeWarningMessageContentPages(dcs, lang, text) ==
    CASE AlphabetFromCBSDCS(dcs) = "ucs2" ->
           encodeUCS2Pages(text,
             IF dcs = cbsDCSUcs2WithLanguage /\ lang # <<>>
             THEN EncodeUCS2LanguagePrefix(lang) ELSE <<>>)
      [] AlphabetFromCBSDCS(dcs) = "8bit" -> encode8BitPages(Octets8(text))
      [] OTHER -> encodeGSM7Pages(text)

\* The octets in use on page i of a book
UsedOf(wire, i) ==
    LET off == 1 + (cbsPageContentLength + 1) * (i - 1)
        n == Upto(wire[off + cbsPageContentLength + 1], cbsPageContentLength)
    IN SubSeq(wire, off + 1, off + n)

WholePages(wire) == Upto(wire[1], (Len(wire) - 1) \div (cbsPageContentLength + 1))

decode8BitPages(wire) ==
    Flat([i \in 1..WholePages(wire) |-> UsedOf(wire, i)])

decodeGSM7Pages(wire) ==
    LET count(u) == Upto(SeptetCountForOctets(Len(u)), gsm7MaxSeptetsPerPage)
        read(u) == DecodeSeptets(UnpackSeptets(u, count(u)))
    IN Flat([i \in 1..WholePages(wire) |-> read(UsedOf(wire, i))])

decodeUCS2Pages(wire, prefixLen) ==
    LET body(i) == LET u == UsedOf(wire, i)
                   IN IF i = 1 THEN SubSeq(u, prefixLen + 1, Len(u)) ELSE u
        read(u) == [k \in 1..(Len(u) \div 2) |-> 256 * u[2 * k - 1] + u[2 * k]]
    IN Flat([i \in 1..WholePages(wire) |-> read(body(i))])

DecodeWarningMessageContentPages(dcs, wire) ==
    CASE AlphabetFromCBSDCS(dcs) = "ucs2" ->
           decodeUCS2Pages(wire, IF dcs = cbsDCSUcs2WithLanguage THEN 2 ELSE 0)
      [] AlphabetFromCBSDCS(dcs) = "8bit" -> decode8BitPages(wire)
      [] OTHER -> decodeGSM7Pages(wire)

-----------------------------------------------------------------------------
(* The requests and the answers.                                           *)
uint16ToBitString16(v) == <<v \div 256, v % 256>>

bitString16ToUint16(b) == IF Len(b) < 2 THEN 0 ELSE b[1] * 256 + b[2]

buildTAIListForWarning(tacs) ==
    [i \in DOMAIN tacs |-> <<(tacs[i] \div 65536) % 256,
                             (tacs[i] \div 256) % 256, tacs[i] % 256>>]

\* The APER encoder refuses a value outside its range
Encodable(p) == p.period \in 0..131071 /\ p.count \in 0..65535

BuildWriteReplaceWarningRequest(p) ==
    [id |-> uint16ToBitString16(p.id), serial |-> uint16ToBitString16(p.serial),
     area |-> buildTAIListForWarning(p.tacs), period |-> p.period,
     count |-> p.count, dcs |-> p.dcs,
     contents |-> encodeWarningMessageContentPages(p.dcs, p.lang, p.text)]

BuildPWSCancelRequest(p, tacs, all) ==
    [id |-> uint16ToBitString16(p.id), serial |-> uint16ToBitString16(p.serial),
     area |-> buildTAIListForWarning(tacs), all |-> all]

tacToUint32(t) == t[1] * 65536 + t[2] * 256 + t[3]

extractBroadcastCompletedAreaList(list) ==
    IF list.choice \in {"nr", "eutra"}
    THEN [i \in DOMAIN list.tais |-> tacToUint32(list.tais[i])] ELSE <<>>

extractBroadcastCancelledAreaList(list) ==
    IF list.choice \in {"nr", "eutra"}
    THEN [i \in DOMAIN list.tais |-> tacToUint32(list.tais[i])] ELSE <<>>

extractWriteReplaceWarningResponse(r) ==
    [id |-> bitString16ToUint16(r.id), serial |-> bitString16ToUint16(r.serial),
     areas |-> extractBroadcastCompletedAreaList(r.list), kind |-> "completed"]

extractPWSCancelResponse(r) ==
    [id |-> bitString16ToUint16(r.id), serial |-> bitString16ToUint16(r.serial),
     areas |-> extractBroadcastCancelledAreaList(r.list), kind |-> "cancelled"]

\* "Emergency alert", with the letters outside the table's entries as 'A'
EmergencyAlert == [i \in 1..15 |-> IF i = 10 THEN 32 ELSE IF i = 13 THEN 101 ELSE 65]

Given(v, default) == IF v = Unset THEN default ELSE v

\* The order with every omitted element filled in; a scheme keeps its low octet
Filled(o) ==
    [id |-> Given(o.id, 4370), serial |-> Given(o.serial, 1),
     period |-> Given(o.period, 4096), count |-> Given(o.count, 1),
     dcs |-> Given(o.dcs, 15) % 256, lang |-> o.lang,
     text |-> IF o.text = <<>> THEN EmergencyAlert ELSE o.text,
     tacs |-> IF o.tacs = <<>> THEN ServedTACs ELSE o.tacs]

-----------------------------------------------------------------------------
PagesInit ==
    /\ order = NoOrder /\ params = NoOrder
    /\ cellRequest = OffAir /\ screen = Dark /\ report = NoReport

\* POST /amf/v1/pws/broadcast with one gNB connected: the registry takes the
\* parameters before the request is encoded, and keeps them when that fails
postBroadcast(o) ==
    /\ order # NoOrder => o \in LaterOrders
    /\ order' = o
    /\ params' = Filled(o)
    /\ cellRequest' = IF Encodable(Filled(o))
                THEN BuildWriteReplaceWarningRequest(Filled(o)) ELSE cellRequest
    /\ screen' = IF Encodable(Filled(o)) THEN Dark ELSE screen
    /\ report' = NoReport

\* A device in the cell shows the page it hears
DeviceReads ==
    /\ cellRequest # OffAir
    /\ screen' = [text |-> DecodeWarningMessageContentPages(cellRequest.dcs, cellRequest.contents),
                  lang |-> IF cellRequest.dcs = cbsDCSUcs2WithLanguage
                           THEN DecodeUCS2LanguagePrefix(UsedOf(cellRequest.contents, 1))
                           ELSE <<>>]
    /\ UNCHANGED <<order, params, cellRequest, report>>

\* The gNB answers the request with the areas it covers, per area or per cell
GnbCompletes ==
    /\ cellRequest # OffAir
    /\ \E c \in {"nr", "cells"} :
         report' = extractWriteReplaceWarningResponse(
                     [id |-> cellRequest.id, serial |-> cellRequest.serial,
                      list |-> [choice |-> c, tais |-> cellRequest.area]])
    /\ UNCHANGED <<order, params, cellRequest, screen>>

\* POST /amf/v1/pws/cancel of the recorded broadcast, everywhere: the gNB
\* stops what it broadcasts under that key and reports where
postCancel ==
    LET req == BuildPWSCancelRequest(params, <<>>, FALSE) IN
    /\ params # NoOrder
    /\ cellRequest # OffAir /\ cellRequest.id = req.id /\ cellRequest.serial = req.serial
    /\ \E c \in {"nr", "cells"} :
         report' = extractPWSCancelResponse(
                     [id |-> cellRequest.id, serial |-> cellRequest.serial,
                      list |-> [choice |-> c, tais |-> cellRequest.area]])
    /\ cellRequest' = OffAir
    /\ UNCHANGED <<order, params, screen>>

PagesNext ==
    \/ \E o \in WarningOrders : postBroadcast(o)
    \/ DeviceReads
    \/ GnbCompletes
    \/ postCancel

PagesSpec == PagesInit /\ [][PagesNext]_pageVars

-----------------------------------------------------------------------------
\* The state has its shape
PagesTypeOK ==
    /\ order \in WarningOrders \cup {NoOrder}
    /\ order # NoOrder => params = Filled(order)
    /\ cellRequest # OffAir => \A i \in DOMAIN cellRequest.contents : cellRequest.contents[i] \in 0..255
    /\ report # NoReport => report.kind \in {"completed", "cancelled"}

\* The device's text as the alphabet allows it, page by page limits aside
Shows(p) ==
    CASE AlphabetFromCBSDCS(p.dcs) = "gsm7" ->
           [i \in DOMAIN p.text |->
              IF p.text[i] \in BasicRunes \cup ExtRunes THEN p.text[i] ELSE 63]
      [] AlphabetFromCBSDCS(p.dcs) = "8bit" -> Octets8(p.text)
      [] OTHER -> [i \in DOMAIN p.text |-> p.text[i] % 65536]

\* The septets of the last page leave room for one more in its last octet
Ambiguous(p) ==
    LET n == Len(EncodeText(p.text))
    IN /\ AlphabetFromCBSDCS(p.dcs) = "gsm7" /\ n < gsm7MaxSeptetsPerPage * cbsMaxPages
       /\ (n % gsm7MaxSeptetsPerPage) % 8 = 7

\* An escape pair of the text lies across two pages
Straddles(p) ==
    LET s == EncodeText(p.text) IN
    /\ AlphabetFromCBSDCS(p.dcs) = "gsm7"
    /\ \E k \in 1..(Len(s) \div gsm7MaxSeptetsPerPage) :
         k * gsm7MaxSeptetsPerPage < Len(s) /\ escaped(s)[k * gsm7MaxSeptetsPerPage + 1]

Unlabelled(p) == p.dcs = cbsDCSUcs2WithLanguage /\ p.lang = <<>>

\* Of the order on air a device shows the text in the language named: a prefix
\* of it that is the whole of it unless fifteen pages are full, with a '@'
\* after it when the last page's octets have room for one more septet, and
\* without its first character when a scheme that promises a language came
\* without one
\* (encodeWarningMessageContentPages, DecodeWarningMessageContentPages)
TextReaches ==
    (screen # Dark /\ params # NoOrder /\ Encodable(params) /\ ~Straddles(params)
       /\ cellRequest # OffAir)
    => LET whole == Shows(params)
           due == IF Unlabelled(params) THEN Tail(whole)
                  ELSE IF Ambiguous(params) THEN Append(whole, 64) ELSE whole
       IN /\ IsPrefix(screen.text, due)
          /\ (screen.text = due) \/ (cellRequest.contents[1] = cbsMaxPages)
          /\ (params.dcs = cbsDCSUcs2WithLanguage /\ params.lang # <<>>)
               => (screen.lang = params.lang)

\* A page count is followed by exactly that many pages of 82 octets and a
\* length, the octets a length does not count are zero, and there are one to
\* fifteen pages: what a dissector walks (pws.go, the comment on
\* cbsPageContentLength)
PagesWellFormed ==
    cellRequest # OffAir =>
      LET c == cellRequest.contents IN
      /\ c[1] \in 1..cbsMaxPages
      /\ Len(c) = 1 + c[1] * (cbsPageContentLength + 1)
      /\ \A i \in 1..c[1] :
           LET end == 1 + i * (cbsPageContentLength + 1) IN
           /\ c[end] \in 0..cbsPageContentLength
           /\ \A k \in (end - cbsPageContentLength + c[end])..(end - 1) : c[k] = 0
=============================================================================
