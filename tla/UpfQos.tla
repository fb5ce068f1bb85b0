------------------------------- MODULE UpfQos -------------------------------
(***************************************************************************)
(* QoS enforcement in the UPF: the QoS rules of one PFCP session, the      *)
(* snapshot published to the datapath, and the token buckets the packets   *)
(* debit.                                                                  *)
(*                                                                         *)
(* The N4 side validates a request as a whole, applies it under the table  *)
(* lock and publishes a new immutable snapshot.  The N3/N6 goroutines load *)
(* the snapshot once per packet and debit its buckets one by one, each     *)
(* under its own lock, refunding the earlier ones when a later one refuses.*)
(* A rule change may therefore come between any two debits of a packet.    *)
(* Buckets are objects: an Update QER changes the rate of the bucket that  *)
(* packets in flight are debiting.                                         *)
(*                                                                         *)
(* Units: a token is the cost of one unit of packet length, a rate adds    *)
(* that many tokens per tick of the clock.                                 *)
(***************************************************************************)
EXTENDS Naturals, FiniteSets, Sequences, SequencesExt

CONSTANTS QerIds, PdrIds,  \* rule identifiers; PDR 2, if any, is a Core-side PDR
          QerTemplates,    \* contents a request may give a QER
          UpfDirs,         \* directions that carry packets: subset of {"ul", "dl"}
          Sizes,           \* packet lengths
          BurstTicks, FloorTokens, UnlimitedRate,
          QosEvents,       \* subset of {"modify", "delete"}
          MaxClock, MaxRequests  \* bounds: ticks, accepted requests

VARIABLES
    qers,      \* QERs of the session, by id
    pdrs,      \* QER id list of each PDR, by id
    qosView,   \* the published snapshot, NoView after the deletion began
    table,     \* "none", "established", "deleting", "deleted"
    buckets,   \* bucket objects, in order of creation
    clock,
    flight,    \* the packet each direction is policing
    requests,
    (* history *)
    ideal,     \* per bucket: a bucket that only forwarded packets debit
    granted,   \* per bucket: initial depth plus what its rate added since
    spent,     \* per bucket: length of the packets forwarded through it
    qosCrossed, \* buckets whose rate changed under a packet in flight
    escaped    \* how packets were forwarded against a closed gate

qosVars == <<qers, pdrs, qosView, table, buckets, clock, flight, requests, ideal, granted, spent, qosCrossed, escaped>>

Directions == {"ul", "dl"}
\* Without a snapshot every packet is admitted, as with one that has no rules.
NoView == [d \in Directions |-> [closed |-> FALSE, buckets |-> <<>>]]
NoBucket == 0
NoPacket == [pc |-> "idle", todo |-> <<>>, held |-> <<>>, n |-> 0, now |-> 0, shut |-> FALSE, owed |-> <<>>]

QosInit ==
    /\ qers = <<>> /\ pdrs = <<>>
    /\ qosView = NoView
    /\ table = "none"
    /\ buckets = <<>>
    /\ clock = 0
    /\ flight = [d \in UpfDirs |-> NoPacket]
    /\ requests = 0
    /\ ideal = <<>> /\ granted = <<>> /\ spent = <<>>
    /\ qosCrossed = {} /\ escaped = {}

Least(a, b) == IF a < b THEN a ELSE b

-----------------------------------------------------------------------------
(* The token bucket.                                                       *)

\* The depth of a bucket: a burst at the rate, never below the floor.
setRate(rate) == IF rate * BurstTicks < FloorTokens THEN FloorTokens ELSE rate * BurstTicks

NewBucket(rate) == [rate |-> rate, tokens |-> setRate(rate), last |-> clock]

\* The time elapsed since the last refill is credited, up to the depth.
refill(b, now) ==
    IF now <= b.last THEN b
    ELSE [b EXCEPT !.last = now, !.tokens = Least(setRate(b.rate), b.tokens + (now - b.last) * b.rate)]

\* A mutant of SetRate: the bucket is full at the new rate.
topsUp(b, rate, now) == [b EXCEPT !.rate = rate, !.last = now, !.tokens = setRate(rate)]

\* The credit at the old rate is settled, then clamped to the new depth.
SetRate(b, rate, now) ==
    LET s == refill(b, now) IN [s EXCEPT !.rate = rate, !.tokens = Least(s.tokens, setRate(rate))]

Refund(b, n) == [b EXCEPT !.tokens = Least(setRate(b.rate), b.tokens + n)]

-----------------------------------------------------------------------------
(* The published snapshot.                                                 *)

\* The rate to police, 0 for "not limited".
effectiveKbps(q, d) == IF q.mbr[d] = 0 \/ q.mbr[d] >= UnlimitedRate THEN 0 ELSE q.mbr[d]

\* QoS-flow QERs first, session-level ones after, each in received order; an
\* unknown id is skipped.
orderedQERs(Q, list) ==
    LET known == SelectSeq(list, LAMBDA id : id \in DOMAIN Q)
    IN SelectSeq(known, LAMBDA id : Q[id].qfi) \o SelectSeq(known, LAMBDA id : ~Q[id].qfi)

\* Some QER of the list has this direction's gate closed.
gateClosed(Q, list, d) == \E i \in DOMAIN list : Q[list[i]].gate[d] = "CLOSED"

buildPDRView(Q, list, d) ==
    LET order == orderedQERs(Q, list) IN
    [closed  |-> gateClosed(Q, order, d),
     buckets |-> SelectSeq([i \in DOMAIN order |-> Q[order[i]].bucket[d]], LAMBDA b : b # NoBucket)]

\* The Core-side PDR governs downlink when there is one, the Access-side PDR
\* everything else.
Governing(P, d) == IF d = "dl" /\ 2 \in DOMAIN P THEN 2 ELSE 1

buildQoSView(Q, P) ==
    IF 1 \notin DOMAIN P THEN NoView ELSE [d \in Directions |-> buildPDRView(Q, P[Governing(P, d)], d)]

\* The rule changes of a request give every QER direction its bucket: none
\* when it is not limited, a new full one when it had none, otherwise the same
\* object at the new rate.  RebuildQoS then publishes the new snapshot.
RebuildQoS(Q, P) ==
    LET wants == {<<id, d>> \in (DOMAIN Q) \X Directions :
                     effectiveKbps(Q[id], d) # 0 /\ Q[id].bucket[d] = NoBucket}
        fresh == SetToSeq(wants)
        number(id, d) == Len(buckets) + CHOOSE i \in DOMAIN fresh : fresh[i] = <<id, d>>
        bucketOf(id, d) == IF effectiveKbps(Q[id], d) = 0 THEN NoBucket
                           ELSE IF <<id, d>> \in wants THEN number(id, d) ELSE Q[id].bucket[d]
        R == [id \in DOMAIN Q |-> [Q[id] EXCEPT !.bucket = [d \in Directions |-> bucketOf(id, d)]]]
        holder(b) == {x \in (DOMAIN R) \X Directions : R[x[1]].bucket[x[2]] = b}
        rated(b) == LET x == CHOOSE y \in holder(b) : TRUE IN effectiveKbps(R[x[1]], x[2])
        changed == {b \in DOMAIN buckets : holder(b) # {} /\ rated(b) # buckets[b].rate}
        made == [i \in DOMAIN fresh |-> NewBucket(effectiveKbps(Q[fresh[i][1]], fresh[i][2]))]
        busy == UNION {Range(flight[d].held) \union Range(flight[d].todo) : d \in UpfDirs}
    IN /\ qers' = R
       /\ pdrs' = P
       /\ qosView' = buildQoSView(R, P)
       /\ buckets' = [b \in DOMAIN buckets |->
                         IF b \in changed THEN SetRate(buckets[b], rated(b), clock) ELSE buckets[b]] \o made
       /\ ideal' = [b \in DOMAIN ideal |->
                         IF b \in changed
                         THEN [rate |-> rated(b), last |-> clock,
                               tokens |-> Least(refill(ideal[b], clock).tokens, setRate(rated(b)))]
                         ELSE ideal[b]] \o made
       /\ granted' = granted \o [i \in DOMAIN made |-> made[i].tokens]
       /\ spent' = spent \o [i \in DOMAIN made |-> 0]
       /\ qosCrossed' = qosCrossed \union (changed \cap busy)

-----------------------------------------------------------------------------
(* The N4 requests.                                                        *)

newState(t) == [qfi |-> t.qfi, gate |-> t.gate, mbr |-> t.mbr, bucket |-> [d \in Directions |-> NoBucket]]

Lists(S) == {s \in UNION {[1..k -> S] : k \in 0..2} : \A i, j \in DOMAIN s : s[i] = s[j] => i = j}

\* A QER a PDR of the request lists must be created by the request.
establishmentQoS(Q, P) == \A p \in DOMAIN P : Range(P[p]) \subseteq DOMAIN Q

handleSessionEstablishmentQoS ==
    /\ table = "none"
    /\ requests < MaxRequests
    /\ \E ids \in SUBSET QerIds, ps \in SUBSET PdrIds :
       \E Q \in [ids -> {newState(t) : t \in QerTemplates}], P \in [ps -> Lists(QerIds)] :
          /\ 1 \in ps
          /\ IF establishmentQoS(Q, P)
             THEN RebuildQoS(Q, P) /\ table' = "established" /\ requests' = requests + 1
             ELSE UNCHANGED <<qers, pdrs, qosView, table, requests, buckets, ideal, granted, spent, qosCrossed>>
    /\ UNCHANGED <<clock, flight, escaped>>

\* A change of the session: QERs to create, update and remove, PDR lists to
\* replace.  It is valid if the session it leads to has no dangling QER id.
planModificationQoS(creates, updates, removes, lists) ==
    LET after == (DOMAIN qers \ removes) \union creates IN
    /\ removes \subseteq DOMAIN qers
    /\ creates \cap DOMAIN qers = {}
    /\ updates \subseteq DOMAIN qers \ removes
    /\ DOMAIN lists \subseteq DOMAIN pdrs
    /\ \A p \in DOMAIN lists : Range(lists[p]) \subseteq after
    /\ \A p \in DOMAIN pdrs \ DOMAIN lists : Range(pdrs[p]) \subseteq after

\* An Update QER replaces what it carries and keeps the buckets.
applyUpdate(q, t) == [q EXCEPT !.qfi = q.qfi \/ t.qfi, !.gate = t.gate, !.mbr = t.mbr]

\* Removals, creations, updates, then the PDR lists; then the snapshot.
applyQoS(creates, updates, removes, lists, t) ==
    RebuildQoS([id \in (DOMAIN qers \ removes) \union creates |->
                   IF id \in creates THEN newState(t)
                   ELSE IF id \in updates THEN applyUpdate(qers[id], t) ELSE qers[id]],
               [p \in DOMAIN pdrs |-> IF p \in DOMAIN lists THEN lists[p] ELSE pdrs[p]])

AtMostOne(S) == {T \in SUBSET S : Cardinality(T) <= 1}

\* A rejected plan leaves the session as it was.
handleSessionModificationQoS ==
    /\ "modify" \in QosEvents
    /\ table = "established"
    /\ requests < MaxRequests
    /\ \E creates, updates, removes \in AtMostOne(QerIds), ps \in AtMostOne(PdrIds), t \in QerTemplates :
       \E lists \in [ps -> Lists(QerIds) \ {<<>>}] :
          /\ creates \union updates \union removes \union ps # {}
          /\ IF planModificationQoS(creates, updates, removes, lists)
             THEN applyQoS(creates, updates, removes, lists, t) /\ requests' = requests + 1
             ELSE UNCHANGED <<qers, pdrs, qosView, requests, buckets, ideal, granted, spent, qosCrossed>>
    /\ UNCHANGED <<table, clock, flight, escaped>>

\* Deletion withdraws the snapshot, then takes the session from the table.
handleSessionDeletionQoS ==
    /\ "delete" \in QosEvents
    /\ table = "established"
    /\ qosView' = NoView
    /\ table' = "deleting"
    /\ UNCHANGED <<qers, pdrs, buckets, clock, flight, requests, ideal, granted, spent, qosCrossed, escaped>>

deletedFromTable ==
    /\ table = "deleting"
    /\ table' = "deleted"
    /\ UNCHANGED <<qers, pdrs, qosView, buckets, clock, flight, requests, ideal, granted, spent, qosCrossed, escaped>>

-----------------------------------------------------------------------------
(* The datapath.                                                           *)

\* Whether the rules in force close the gate of a direction.
RuledClosed(d) == \E id \in Range(pdrs[Governing(pdrs, d)]) \cap DOMAIN qers : qers[id].gate[d] = "CLOSED"

\* The packet goes on: it is charged to the buckets it was policed by.
Forwarded(p) ==
    LET through == Range(p.owed) IN
    /\ spent' = [b \in DOMAIN spent |-> IF b \in through THEN spent[b] + p.n ELSE spent[b]]
    /\ ideal' = [b \in DOMAIN ideal |->
                    IF b \notin through THEN ideal[b]
                    ELSE LET r == refill(ideal[b], p.now) IN
                         [r EXCEPT !.tokens = IF r.tokens < p.n THEN 0 ELSE r.tokens - p.n]]
    /\ escaped' = IF p.shut THEN escaped \union {table} ELSE escaped

\* A packet of the session arrives on N3 or N6: the snapshot is loaded.  No
\* snapshot, or one without buckets, admits it; a closed gate drops it.
AdmitPacket(d, n) ==
    /\ table \in {"established", "deleting"}
    /\ flight[d].pc = "idle"
    /\ LET view == qosView[d]
           p == [NoPacket EXCEPT !.pc = "admit", !.todo = view.buckets, !.owed = view.buckets, !.n = n,
                                 !.now = clock, !.shut = RuledClosed(d)]
       IN IF view.closed THEN UNCHANGED <<flight, spent, ideal, escaped>>
          ELSE IF view.buckets = <<>> THEN Forwarded(p) /\ UNCHANGED flight
          ELSE flight' = [flight EXCEPT ![d] = p] /\ UNCHANGED <<spent, ideal, escaped>>
    /\ UNCHANGED <<qers, pdrs, qosView, table, buckets, clock, requests, granted, qosCrossed>>

\* The next bucket admits and is debited, or refuses and nothing is.
Admit(d) ==
    LET p == flight[d]
        b == Head(p.todo)
        r == refill(buckets[b], p.now)
        q == [p EXCEPT !.todo = Tail(p.todo), !.held = Append(p.held, b)]
    IN /\ p.pc = "admit"
       /\ IF r.tokens >= p.n
          THEN /\ buckets' = [buckets EXCEPT ![b] = [r EXCEPT !.tokens = r.tokens - p.n]]
               /\ IF q.todo = <<>> THEN Forwarded(p) /\ flight' = [flight EXCEPT ![d] = NoPacket]
                  ELSE flight' = [flight EXCEPT ![d] = q] /\ UNCHANGED <<spent, ideal, escaped>>
          ELSE /\ buckets' = [buckets EXCEPT ![b] = r]
               /\ flight' = [flight EXCEPT ![d] = IF p.held = <<>> THEN NoPacket
                                                  ELSE [p EXCEPT !.pc = "refund", !.todo = <<>>]]
               /\ UNCHANGED <<spent, ideal, escaped>>
       /\ UNCHANGED <<qers, pdrs, qosView, table, clock, requests, granted, qosCrossed>>

\* The refused packet is refunded on the buckets that had admitted it.
refundPrevious(d) ==
    LET p == flight[d]
        b == Head(p.held)
    IN /\ p.pc = "refund"
       /\ buckets' = [buckets EXCEPT ![b] = Refund(buckets[b], p.n)]
       /\ flight' = [flight EXCEPT ![d] = IF Tail(p.held) = <<>> THEN NoPacket ELSE [p EXCEPT !.held = Tail(p.held)]]
       /\ UNCHANGED <<qers, pdrs, qosView, table, clock, requests, ideal, granted, spent, qosCrossed, escaped>>

\* Time passes: every bucket's rate grants it tokens.
MonotonicClock ==
    /\ table # "none"
    /\ clock < MaxClock
    /\ clock' = clock + 1
    /\ granted' = [b \in DOMAIN granted |-> granted[b] + buckets[b].rate]
    /\ UNCHANGED <<qers, pdrs, qosView, table, buckets, flight, requests, ideal, spent, qosCrossed, escaped>>

-----------------------------------------------------------------------------
QosNext ==
    \/ handleSessionEstablishmentQoS \/ handleSessionModificationQoS
    \/ handleSessionDeletionQoS \/ deletedFromTable
    \/ \E d \in UpfDirs, n \in Sizes : AdmitPacket(d, n)
    \/ \E d \in UpfDirs : Admit(d) \/ refundPrevious(d)
    \/ MonotonicClock

QosSpec == QosInit /\ [][QosNext]_qosVars

-----------------------------------------------------------------------------
\* Types.
QosTypeOK ==
    /\ DOMAIN qers \subseteq QerIds /\ DOMAIN pdrs \subseteq PdrIds
    /\ \A b \in DOMAIN buckets : buckets[b].tokens \in 0..setRate(buckets[b].rate)
    /\ Len(ideal) = Len(buckets) /\ Len(granted) = Len(buckets) /\ Len(spent) = Len(buckets)
    /\ escaped \subseteq {"established", "deleting", "deleted"}

\* Every QER a PDR lists exists, whatever combination of creations, updates,
\* removals and list replacements the accepted requests carried: the snapshot
\* never silently leaves out a rule.
RefsResolve == \A p \in DOMAIN pdrs : Range(pdrs[p]) \subseteq DOMAIN qers

\* What was forwarded through a bucket never exceeds its initial depth and what
\* its rate granted since, at whatever rates the rule changes set and wherever
\* they fell between the debits of a packet.
WithinRate == \A b \in DOMAIN buckets : spent[b] <= granted[b]

\* Between packets, a bucket holds what a bucket that only forwarded packets
\* debit would hold: a packet refused by a later bucket costs the earlier ones
\* nothing.  Only a rate change under a packet in flight may leave it apart.
RefusalIsFree ==
    \A b \in DOMAIN buckets \ qosCrossed :
        (\A d \in UpfDirs : b \notin Range(flight[d].held)) => refill(buckets[b], clock) = refill(ideal[b], clock)

\* While the session stands, no packet that arrived under a closed gate is
\* forwarded; only a deletion under way lets one pass.
GateHolds == escaped \subseteq {"deleting", "deleted"}

\* What the deletion promises of the snapshot it withdraws first: "a datapath
\* goroutine still holding the session pointer enforces and forwards nothing
\* stale" - nothing the gate refused passes during the deletion either.
DeletionForwardsNothing == escaped = {}
=============================================================================
