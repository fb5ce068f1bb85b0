----------------------------- MODULE UpfDatapath -----------------------------
(***************************************************************************)
(* The UPF's goroutines around a PFCP session: the N3 reader, the N6 (TUN) *)
(* reader, the session's Router Advertisement advertiser, the usage        *)
(* reporter's sweep, and the N4 loop that changes the session under them.  *)
(*                                                                         *)
(* The downlink tunnel is two fields, the TEID and the gNB address.  The   *)
(* N4 loop writes them under the table lock, one after the other; senders  *)
(* read them one by one without the lock, first to see whether the tunnel  *)
(* is ready, then the TEID into the header, then the address to send to.   *)
(*                                                                         *)
(* The successive Session objects of one SEID are numbered: a deletion, or *)
(* an SMF that restarted and counts its SEIDs from one again, puts the next*)
(* object in the place of the last.  A packet counts one unit of volume.   *)
(***************************************************************************)
EXTENDS Naturals, FiniteSets, Sequences

CONSTANTS Objects,          \* 1..n: the Session objects established for the SEID
          GtpTunnels,       \* downlink tunnels: TEID t belongs to gNB t
          VolumeThreshold,
          DpEvents,         \* subset of {"far", "reuse", "loss", "v6", "period"}
          MaxPackets,       \* bound: packets carried in all
          MaxPeriods        \* bound: reports of a session after which no period ends

VARIABLES
    session,   \* the Session objects
    stored,    \* the object in the session table, 0 for none
    far,       \* the Update FAR the N4 loop is writing: what is left to write
    sender,    \* the goroutines that send downlink frames
    sweep,     \* the usage reporter
    reports,   \* Session Report Requests on their way to the SMF
    consumed,  \* usage reports the SMF has consumed
    packets,
    (* history *)
    overlap,   \* senders under which a tunnel field changed
    torn       \* a frame left with the TEID of one tunnel for the gNB of another

dpVars == <<session, stored, far, sender, sweep, reports, consumed, packets, overlap, torn>>

TUN == <<"tun", 0>>
N3 == <<"n3", 0>>
Senders == {TUN, N3} \union {<<"adv", o>> : o \in Objects}
NoSession == [st |-> "none", teid |-> 0, gnb |-> 0, ul |-> 0, dl |-> 0, base |-> 0, volth |-> 0, seqn |-> 0, adv |-> "none"]
NoSweep == [due |-> <<>>, o |-> 0, loaded |-> FALSE, ul |-> 0]
Resting == [pc |-> "idle", o |-> 0, teid |-> 0]

DpInit ==
    /\ session = [o \in Objects |-> NoSession]
    /\ stored = 0
    /\ far = <<>>
    /\ sender = [s \in Senders |-> Resting]
    /\ sweep = NoSweep
    /\ reports = {} /\ consumed = {}
    /\ packets = 0
    /\ overlap = {} /\ torn = FALSE

Spare == packets < MaxPackets /\ packets' = packets + 1

-----------------------------------------------------------------------------
(* The N4 loop: one request at a time.                                     *)

\* A Create URR installs the usage rule; a delegated prefix starts the
\* advertiser.  A session already stored under the SEID is displaced as it is.
establishSession(o) ==
    /\ far = <<>>
    /\ session[o].st = "none" /\ \A p \in 1..(o - 1) : session[p].st # "none"
    /\ stored # 0 => "reuse" \in DpEvents
    /\ session' = [session EXCEPT ![o] = [NoSession EXCEPT !.st = "stored",
                                              !.adv = IF "v6" \in DpEvents THEN "running" ELSE "none"]]
    /\ stored' = o
    /\ UNCHANGED <<far, sender, sweep, reports, consumed, packets, overlap, torn>>

\* A mutant of handleUpdateFAR: an update writes the TEID alone.
updatesTeidOnly ==
    /\ "far" \in DpEvents
    /\ far = <<>> /\ stored # 0
    /\ \E t \in GtpTunnels \union {0} :
          /\ t # session[stored].teid
          /\ far' = IF session[stored].gnb = 0 THEN <<<<"teid", t>>, <<"gnb", t>>>> ELSE <<<<"teid", t>>>>
    /\ UNCHANGED <<session, stored, sender, sweep, reports, consumed, packets, overlap, torn>>

\* Update FAR: with FORW the outer header's TEID and address, without it
\* neither; an update to the tunnel already set changes nothing and is left out.
\* The writes are the steps of farWrite.
handleUpdateFAR ==
    /\ "far" \in DpEvents
    /\ far = <<>> /\ stored # 0
    /\ \E t \in GtpTunnels \union {0} :
          /\ t # session[stored].teid
          /\ far' = <<<<"teid", t>>, <<"gnb", t>>>>
    /\ UNCHANGED <<session, stored, sender, sweep, reports, consumed, packets, overlap, torn>>

farWrite ==
    /\ far # <<>>
    /\ session' = IF Head(far)[1] = "teid" THEN [session EXCEPT ![stored].teid = Head(far)[2]]
                  ELSE [session EXCEPT ![stored].gnb = Head(far)[2]]
    /\ far' = Tail(far)
    /\ overlap' = overlap \union {s \in Senders : sender[s].pc # "idle"}
    /\ UNCHANGED <<stored, sender, sweep, reports, consumed, packets, torn>>

\* The advertiser's context is cancelled, then the session leaves the table.
deleteSession ==
    /\ far = <<>> /\ stored # 0
    /\ session' = [session EXCEPT ![stored].st = "deleted",
                      ![stored].adv = IF session[stored].adv = "running" THEN "cancelled" ELSE @]
    /\ stored' = 0
    /\ UNCHANGED <<far, sender, sweep, reports, consumed, packets, overlap, torn>>

-----------------------------------------------------------------------------
(* Downlink frames.                                                        *)

Ready(o) == session[o].teid # 0 /\ session[o].gnb # 0

\* The tunnel is seen ready: the goroutine goes on to encapsulate.
StartFrame(s, o) ==
    /\ sender' = [sender EXCEPT ![s] = [pc |-> "header", o |-> o, teid |-> 0]]
    /\ overlap' = IF Len(far) = 1 THEN overlap \union {s} ELSE overlap \ {s}

\* A packet for the UE is read from the TUN: no session, a tunnel not ready and
\* a QER's refusal drop it.
handleTUNPacket ==
    /\ sender[TUN].pc = "idle"
    /\ stored # 0 /\ Ready(stored)
    /\ Spare
    /\ StartFrame(TUN, stored)
    /\ UNCHANGED <<session, stored, far, sweep, reports, consumed, torn>>

\* The header takes the TEID the session has now.
putDLHeader(s) ==
    /\ sender[s].pc = "header"
    /\ sender' = [sender EXCEPT ![s].pc = "send", ![s].teid = session[sender[s].o].teid]
    /\ UNCHANGED <<session, stored, far, sweep, reports, consumed, packets, overlap, torn>>

\* The frame goes to the address the session has now; without one it is
\* dropped.  Only a sent frame is measured.
sendFrame(s) ==
    LET o == sender[s].o IN
    /\ sender[s].pc = "send"
    /\ sender' = [sender EXCEPT ![s] = Resting]
    /\ overlap' = overlap \ {s}
    /\ \/ /\ session[o].gnb # 0
          /\ session' = [session EXCEPT ![o].dl = @ + 1]
          /\ torn' = (torn \/ (sender[s].teid # session[o].gnb /\ s \notin overlap))
       \/ /\ session[o].gnb = 0 \/ "loss" \in DpEvents
          /\ UNCHANGED <<session, torn>>
    /\ UNCHANGED <<stored, far, sweep, reports, consumed, packets>>

\* A Router Advertisement is built when the tunnel is ready.
emitRA(s, o) ==
    /\ Ready(o)
    /\ StartFrame(s, o)
    /\ UNCHANGED <<session, stored, far, sweep, reports, consumed, torn>>

\* The advertiser's ticker fires; its select may take the tick although the
\* context is done as well.
runRAAdvertiser(o) ==
    /\ session[o].adv \in {"running", "cancelled"}
    /\ sender[<<"adv", o>>].pc = "idle"
    /\ Spare
    /\ emitRA(<<"adv", o>>, o)

advertiserExits(o) ==
    /\ session[o].adv = "cancelled"
    /\ sender[<<"adv", o>>].pc = "idle"
    /\ session' = [session EXCEPT ![o].adv = "exited"]
    /\ UNCHANGED <<stored, far, sender, sweep, reports, consumed, packets, overlap, torn>>

-----------------------------------------------------------------------------
(* Uplink packets.                                                         *)

Count(o) == session' = [session EXCEPT ![o].ul = @ + 1]

\* A T-PDU of the session that the QERs admit is measured whatever becomes of
\* it: written to the TUN of its source's DNN, or dropped for want of a route.
processInnerIP ==
    /\ sender[N3].pc = "idle"
    /\ stored # 0
    /\ Spare
    /\ Count(stored)
    /\ UNCHANGED <<stored, far, sender, sweep, reports, consumed, overlap, torn>>

\* An echo request to the UPF's own address is measured and, when the tunnel is
\* ready, answered in line.
handleICMPToSelf ==
    /\ sender[N3].pc = "idle"
    /\ stored # 0
    /\ Spare
    /\ Count(stored)
    /\ IF Ready(stored) THEN StartFrame(N3, stored) ELSE UNCHANGED <<sender, overlap>>
    /\ UNCHANGED <<stored, far, sweep, reports, consumed, torn>>

\* A Router Solicitation is measured and answered with a unicast advertisement.
TriggerSolicitedRA ==
    /\ "v6" \in DpEvents
    /\ sender[N3].pc = "idle"
    /\ stored # 0 /\ Ready(stored)
    /\ Spare
    /\ Count(stored)
    /\ StartFrame(N3, stored)
    /\ UNCHANGED <<stored, far, sweep, reports, consumed, torn>>

-----------------------------------------------------------------------------
(* Usage reports.                                                          *)

\* The baseline moves to the volume seen.
Rearm(o) == [session EXCEPT ![o].base = session[o].ul + session[o].dl, ![o].volth = @ + 1]

\* The volume since the last threshold report has reached the threshold.
volthDue(o) == session[o].ul + session[o].dl - session[o].base >= VolumeThreshold

\* The sweep takes a session from its snapshot of the table and finds which
\* triggers fire; a measurement period may have ended at any time.
sweepUsageReports ==
    /\ sweep.due = <<>> /\ stored # 0
    /\ \E perio \in {FALSE} \union {"period" \in DpEvents /\ session[stored].seqn < MaxPeriods} :
          /\ volthDue(stored) \/ perio
          /\ session' = IF volthDue(stored) THEN Rearm(stored) ELSE session
          /\ sweep' = [NoSweep EXCEPT !.o = stored,
                           !.due = (IF volthDue(stored) THEN <<"VOLTH">> ELSE <<>>) \o (IF perio THEN <<"PERIO">> ELSE <<>>)]
    /\ UNCHANGED <<stored, far, sender, reports, consumed, packets, overlap, torn>>

\* A report takes the next UR-SEQN; its counters are loaded one after the other
\* while packets are counted.
emitUsageReport ==
    /\ sweep.due # <<>> /\ ~sweep.loaded
    /\ sweep' = [sweep EXCEPT !.loaded = TRUE, !.ul = session[sweep.o].ul]
    /\ session' = [session EXCEPT ![sweep.o].seqn = @ + 1]
    /\ UNCHANGED <<stored, far, sender, reports, consumed, packets, overlap, torn>>

\* The report leaves, or is lost; nobody sends it again.
reportSent ==
    LET q == session[sweep.o]
        r == [o |-> sweep.o, trigger |-> Head(sweep.due), nth |-> q.volth, seqn |-> q.seqn, total |-> sweep.ul + q.dl]
    IN /\ sweep.loaded
       /\ reports' \in {reports \union {r}} \union (IF "loss" \in DpEvents THEN {reports} ELSE {})
       /\ sweep' = IF Len(sweep.due) = 1 THEN NoSweep ELSE [sweep EXCEPT !.due = Tail(@), !.loaded = FALSE, !.ul = 0]
       /\ UNCHANGED <<session, stored, far, sender, consumed, packets, overlap, torn>>

\* The SMF finds the session by its SEID, which a later object may carry now,
\* and logs the report; for an unknown SEID it answers "not found".
consumeSessionReport ==
    \E r \in reports :
        /\ reports' = reports \ {r}
        /\ consumed' = IF stored # 0 THEN consumed \union {r} ELSE consumed
        /\ UNCHANGED <<session, stored, far, sender, sweep, packets, overlap, torn>>

-----------------------------------------------------------------------------
DpNext ==
    \/ \E o \in Objects : establishSession(o) \/ runRAAdvertiser(o) \/ advertiserExits(o)
    \/ handleUpdateFAR \/ farWrite \/ deleteSession
    \/ handleTUNPacket \/ processInnerIP \/ handleICMPToSelf \/ TriggerSolicitedRA
    \/ \E s \in Senders : putDLHeader(s) \/ sendFrame(s)
    \/ sweepUsageReports \/ emitUsageReport \/ reportSent \/ consumeSessionReport

DpSpec == DpInit /\ [][DpNext]_dpVars

-----------------------------------------------------------------------------
\* Types.
DpTypeOK ==
    /\ stored \in Objects \union {0}
    /\ \A o \in Objects : /\ session[o].teid \in GtpTunnels \union {0}
                          /\ session[o].gnb \in GtpTunnels \union {0}
                          /\ session[o].adv \in {"none", "running", "cancelled", "exited"}
    /\ \A s \in Senders : sender[s].pc \in {"idle", "header", "send"}
    /\ Len(far) <= 2

\* A frame carries the TEID of one tunnel to the gNB of another only if an
\* Update FAR wrote the tunnel while that very frame was being built, from its first look
\* at the tunnel on.
FramesFitTunnel == ~torn

\* The n-th threshold report of a session carries at least n thresholds of
\* volume, and a report with a later UR-SEQN never less volume than an earlier
\* one, whatever was counted while the counters were loaded and however many
\* reports were lost: one report per crossing, none repeated.
ReportsAreEarned ==
    LET all == reports \union consumed IN
    /\ \A r \in all : r.trigger = "VOLTH" => r.total >= r.nth * VolumeThreshold
    /\ \A r, q \in all : r.o = q.o /\ r.seqn < q.seqn => r.total <= q.total
=============================================================================
