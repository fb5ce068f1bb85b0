------------------------------ MODULE NasWire ------------------------------
(***************************************************************************)
(* Octet strings of the N1 interface (shared/nas): the length-prefixed     *)
(* encodings and the one loop every decoder of the package is written      *)
(* around.  An octet string is a sequence of naturals below 256.           *)
(*                                                                         *)
(* The decoders differ in the table that tells them how an information     *)
(* element (IE) is framed, and a wrong row of that table moves the reader  *)
(* to a position inside a value, from where it invents and loses IEs.  A   *)
(* framing table is a record                                               *)
(*    half : IEI nibbles of one-octet IEs (value in the low nibble)        *)
(*    tlve : IEIs with a two-octet length                                  *)
(*    tv   : IEI -> value length of the IEs without a length               *)
(*    rest : every other IEI from 0x80 on is one octet (else it has a      *)
(*           one-octet length like the IEIs below 0x80)                    *)
(*    stop : a value that does not fit ends the loop (else the reader      *)
(*           stays where the value should have begun and goes on)          *)
(***************************************************************************)
EXTENDS Naturals, Sequences, FiniteSets, SequencesExt

\* The slice differentiator that stands for none
SDNotPresent == 16777215

\* One length octet, two length octets, and the same behind an IEI.
LV(v) == <<Len(v) % 256>> \o v
LVE(v) == <<Len(v) \div 256, Len(v) % 256>> \o v
TLV(t, v) == <<t>> \o LV(v)
TLVE(t, v) == <<t>> \o LVE(v)

\* Unsigned big-endian octets.
Be16(n) == <<(n \div 256) % 256, n % 256>>
Be24(n) == <<(n \div 65536) % 256>> \o Be16(n % 65536)
NumberOf(v) == FoldLeft(LAMBDA acc, o : 256 * acc + o, 0, v)

\* The octets of b from position p on.
Remaining(b, p) == SubSeq(b, p, Len(b))

\* The n octets from position p: nothing, with the position kept, when there
\* are fewer.
ReadBytes(b, p, n) ==
    IF p + n - 1 <= Len(b) THEN [v |-> SubSeq(b, p, p + n - 1), at |-> p + n, ok |-> TRUE]
                           ELSE [v |-> <<>>, at |-> p, ok |-> FALSE]

\* A value behind a two-octet length.
ReadLVE(b, p) ==
    IF p + 1 > Len(b) THEN [v |-> <<>>, at |-> Len(b) + 1, ok |-> FALSE]
                      ELSE ReadBytes(b, p + 2, 256 * b[p] + b[p + 1])

OneOctet(t, fmt) == t \div 16 \in fmt.half \/ (fmt.rest /\ t >= 128)

LengthOctets(t, fmt) == IF t \in DOMAIN fmt.tv THEN 0 ELSE IF t \in fmt.tlve THEN 2 ELSE 1

\* The IEs a decoder finds in b, in order, as [t: IEI, v: value, ok: it fitted].
IEs(b, fmt) ==
    LET walk[p \in 1 .. (Len(b) + 1)] ==
          IF p > Len(b) THEN <<>>
          ELSE LET t == b[p]
                   k == LengthOctets(t, fmt)
               IN IF OneOctet(t, fmt)
                  THEN <<[t |-> 16 * (t \div 16), v |-> <<t % 16>>, ok |-> TRUE]>> \o walk[p + 1]
                  ELSE IF p + k > Len(b)
                  THEN <<[t |-> t, v |-> <<>>, ok |-> FALSE]>>
                  ELSE LET n == IF k = 0 THEN fmt.tv[t] ELSE NumberOf(SubSeq(b, p + 1, p + k))
                           r == ReadBytes(b, p + k + 1, n)
                       IN <<[t |-> t, v |-> r.v, ok |-> r.ok]>>
                          \o (IF fmt.stop /\ ~r.ok THEN <<>> ELSE walk[r.at])
    IN walk[1]

Present(ies, t) == \E i \in DOMAIN ies : ies[i].t = t

\* The value a decoder is left with: that of the last IE with this IEI.
ValueOf(ies, t) ==
    IF Present(ies, t) THEN ies[SelectLastInSeq(ies, LAMBDA ie : ie.t = t)].v ELSE <<>>
=============================================================================
