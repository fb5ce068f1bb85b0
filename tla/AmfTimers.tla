------------------------------ MODULE AmfTimers ------------------------------
(***************************************************************************)
(* The reachability timers of the AMF and the O&M interface that changes   *)
(* them at runtime.                                                        *)
(*                                                                         *)
(* A device holds the T3512 of the last Registration Accept it received,   *)
(* as GPRS timer 3 could express it, and makes contact when it runs out.   *)
(* The AMF arms Mobile Reachable when the device goes idle, Implicit       *)
(* Detach when that expires, and forgets the device when that expires too. *)
(* Meanwhile O&M clients rewrite T3512, the guard and the detach time,     *)
(* partially and concurrently, and a duration is read when a timer is      *)
(* armed, not when the device was told its own.                            *)
(*                                                                         *)
(* Time is in seconds and jumps from one expiry to the next.  Expiries due *)
(* at the same instant run in any order.  The interleavings inside one     *)
(* expiry are the subject of AmfUe.                                        *)
(***************************************************************************)
EXTENDS Integers, FiniteSets, Sequences, FiniteSetsExt

CONSTANTS BaseTimers,  \* the startup values: [t3512, guard, implicit]
          PutBodies,   \* the bodies clients PUT: functions from fields to values
          Clients,     \* O&M requests in progress at a time
          RetrySecs,   \* after a lost Accept the device tries again this soon
          TimerEvents, \* subset of {"loss", "coverage"}
          MaxPuts,     \* bound: accepted changes
          MaxContacts  \* bound: contacts the device makes

\* Not a JSON integer (or, for reset, not a boolean).
NotAnInteger == -99999

minT3512Secs == 60
maxT3512Secs == 86400
maxMobileReachableGuardSecs == 3600
minImplicitDetachSecs == 60
maxImplicitDetachSecs == 86400

\* The members of a body the handler takes.
TimerFields == {"t3512_secs", "mobile_reachable_guard_secs", "implicit_detach_secs", "reset"}

VARIABLES
    effective,  \* timercfg.Store.cur
    oamMu,      \* the client holding the handler's mutex, or 0
    oam,        \* the PUTs in progress: [at, body, old]
    written,    \* per field, the value of the last accepted change
    refusal,    \* the alternatives of the last refusal: [asked, lower, higher]
    ctx,        \* the AMF's context: "none", "connected", "idle"
    t3512Sent,  \* UEContext.T3512SentSecs
    mrLeft,     \* seconds to the expiry of Mobile Reachable, Off when stopped
    idLeft,     \* ... of Implicit Detach
    held,       \* the T3512 the device holds
    due,        \* seconds to the contact the device makes by itself
    covered,    \* the device is in coverage
    silent,     \* it was out of coverage since its last contact
    missed,     \* the last Accept built did not reach it
    puts, contacts

oamVars == <<effective, oamMu, oam, written, refusal, puts>>
devVars == <<ctx, t3512Sent, mrLeft, idLeft, held, due, covered, silent, missed, contacts>>
timerVars == <<oamVars, devVars>>

Off == -1

\* ------------------------------------------------------- GPRS timer 3
\* The units the encoder tries, coarsest first, as [unit, seconds].
GprsUnits == << [unit |-> 1, secs |-> 3600], [unit |-> 0, secs |-> 600],
                [unit |-> 5, secs |-> 60], [unit |-> 4, secs |-> 30], [unit |-> 3, secs |-> 2] >>

EncodeGPRSTimer3(s) ==
    LET fits == {i \in DOMAIN GprsUnits :
                    s % GprsUnits[i].secs = 0 /\ s \div GprsUnits[i].secs \in 1..31}
        minutes == s \div 60
    IN  CASE s = 0 -> [unit |-> 0, value |-> 0]
          [] s # 0 /\ fits # {} ->
                [unit |-> GprsUnits[Min(fits)].unit, value |-> s \div GprsUnits[Min(fits)].secs]
          [] OTHER -> [unit |-> 5, value |-> IF minutes > 31 THEN 31 ELSE Max({minutes, 1})]

\* What an octet means; unit 7 is "deactivated".
gprsTimer3Secs(o) ==
    o.value * (CASE o.unit = 0 -> 600 [] o.unit = 1 -> 3600 [] o.unit = 2 -> 36000
                 [] o.unit = 3 -> 2 [] o.unit = 4 -> 30 [] o.unit = 5 -> 60
                 [] o.unit = 6 -> 1152000)

t3512Representable(s) == gprsTimer3Secs(EncodeGPRSTimer3(s)) = s

Representables ==
    {x \in {v * u : v \in 1..31, u \in {600, 3600, 2, 30, 60}} :
        x \in minT3512Secs..maxT3512Secs /\ t3512Representable(x)}

nearestRepresentable(s) ==
    LET below == {x \in Representables : x < s}
        above == {x \in Representables : x > s}
    IN  [lower |-> IF below = {} THEN 0 ELSE Max(below),
         higher |-> IF above = {} THEN 0 ELSE Min(above)]

\* ------------------------------------------------------- the PUT handler
Gives(b, f) == f \in DOMAIN b
IsReset(b) == Gives(b, "reset") /\ b["reset"] = 1

\* What the decoding loop says of one member of the body.
memberCause(b, f) ==
    CASE f = "mobile_reachable_secs" -> "READ_ONLY_FIELD"
      [] f \notin TimerFields \cup {"mobile_reachable_secs"} -> "UNKNOWN_FIELD"
      [] b[f] = NotAnInteger -> "MALFORMED_REQUEST"
      [] OTHER -> "OK"

\* The checks on a decoded request, in the order of the code.
valueCause(b) ==
    LET values == DOMAIN b \ {"reset"}
        out(f, lo, hi) == Gives(b, f) /\ b[f] \notin lo..hi
    IN  CASE IsReset(b) /\ values # {} -> "RESET_EXCLUSIVE"
          [] ~IsReset(b) /\ values = {} -> "NO_CHANGE"
          [] out("t3512_secs", minT3512Secs, maxT3512Secs) -> "T3512_OUT_OF_RANGE"
          [] Gives(b, "t3512_secs") /\ ~t3512Representable(b["t3512_secs"]) ->
                "T3512_NOT_REPRESENTABLE"
          [] out("mobile_reachable_guard_secs", 0, maxMobileReachableGuardSecs) ->
                "GUARD_OUT_OF_RANGE"
          [] out("implicit_detach_secs", minImplicitDetachSecs, maxImplicitDetachSecs) ->
                "IMPLICIT_DETACH_OUT_OF_RANGE"
          [] OTHER -> "OK"

\* All or nothing: the cause of the refusal, or "OK".  Of several bad members
\* the code names the first in alphabetical order, here any.
parseTimerRequest(b) ==
    LET bad == {f \in DOMAIN b : memberCause(b, f) # "OK"}
    IN  IF bad # {} THEN memberCause(b, CHOOSE f \in bad : TRUE) ELSE valueCause(b)

Refusal(b, cause) ==
    LET asked == IF cause = "T3512_NOT_REPRESENTABLE" THEN b["t3512_secs"] ELSE 0
        near == IF asked = 0 THEN [lower |-> 0, higher |-> 0] ELSE nearestRepresentable(asked)
    IN  [asked |-> asked, lower |-> near.lower, higher |-> near.higher]

NoRefusal == [asked |-> 0, lower |-> 0, higher |-> 0]
NoPut == [at |-> "free", body |-> <<>>, old |-> BaseTimers]

\* A PUT whose body is refused: 400 with a detail for the client, nothing else.
putRefused(c, b) ==
    LET cause == parseTimerRequest(b)
    IN  /\ oam[c].at = "free"
        /\ cause # "OK"
        /\ refusal' = Refusal(b, cause)
        /\ UNCHANGED <<effective, oamMu, oam, written, puts, devVars>>

\* A PUT that parsed waits for the mutex.
putParsed(c, b) ==
    /\ oam[c].at = "free"
    /\ puts < MaxPuts
    /\ parseTimerRequest(b) = "OK"
    /\ puts' = puts + 1
    /\ oam' = [oam EXCEPT ![c] = [at |-> "wait", body |-> b, old |-> BaseTimers]]
    /\ UNCHANGED <<effective, oamMu, written, refusal, devVars>>

\* Mutant: the read-modify-write is not serialised.
loadsUnlocked(c) ==
    /\ oam[c].at = "wait"
    /\ oam' = [oam EXCEPT ![c].at = "change", ![c].old = effective]
    /\ UNCHANGED <<effective, oamMu, written, refusal, puts, devVars>>

\* It takes the mutex and loads the effective values ...
putLocks(c) ==
    /\ oam[c].at = "wait"
    /\ oamMu = 0
    /\ oamMu' = c
    /\ oam' = [oam EXCEPT ![c].at = "change", ![c].old = effective]
    /\ UNCHANGED <<effective, written, refusal, puts, devVars>>

Changed(b, v) ==
    IF IsReset(b)
    THEN BaseTimers
    ELSE [t3512 |-> IF Gives(b, "t3512_secs") THEN b["t3512_secs"] ELSE v.t3512,
          guard |-> IF Gives(b, "mobile_reachable_guard_secs")
                    THEN b["mobile_reachable_guard_secs"] ELSE v.guard,
          implicit |-> IF Gives(b, "implicit_detach_secs")
                       THEN b["implicit_detach_secs"] ELSE v.implicit]

\* ... swaps in the changed copy and unlocks.
putStores(c) ==
    /\ oam[c].at = "change"
    /\ effective' = Changed(oam[c].body, oam[c].old)
    /\ written' = Changed(oam[c].body, written)
    /\ oamMu' = 0
    /\ oam' = [oam EXCEPT ![c] = NoPut]
    /\ UNCHANGED <<refusal, puts, devVars>>

\* ------------------------------------------------------- the device and its timers
\* setT3512Value: the effective value, as the Accept carries it, recorded as sent.
setT3512Value ==
    /\ t3512Sent' = effective.t3512
    /\ \/ /\ held' = gprsTimer3Secs(EncodeGPRSTimer3(effective.t3512))
          /\ missed' = FALSE
       \/ /\ "loss" \in TimerEvents
          /\ missed' = TRUE
          /\ UNCHANGED held

StopUETimers == mrLeft' = Off /\ idLeft' = Off

\* The device registers, or updates its registration because T3512 ran out or by
\* itself; the AMF answers with an Accept, which may be lost.
Registers ==
    /\ covered
    /\ contacts < MaxContacts
    /\ ctx # "connected"
    /\ contacts' = contacts + 1
    /\ ctx' = "connected"
    /\ setT3512Value
    /\ StopUETimers
    /\ silent' = FALSE
    /\ due' = Off
    /\ UNCHANGED <<covered, oamVars>>

\* A Service Request: no Accept, so what the device holds stays.
ServiceRequest ==
    /\ covered
    /\ contacts < MaxContacts
    /\ ctx = "idle" /\ ~missed
    /\ due > 0
    /\ contacts' = contacts + 1
    /\ ctx' = "connected"
    /\ StopUETimers
    /\ silent' = FALSE
    /\ due' = Off
    /\ UNCHANGED <<t3512Sent, held, covered, missed, oamVars>>

\* Mutant: the value the device was told is not consulted.
ignoresSent == effective.t3512 + effective.guard

mobileReachableDuration == Max({t3512Sent, effective.t3512}) + effective.guard

\* The connection is released: the device starts its T3512 (or, when the Accept
\* never came, its retry), the AMF arms Mobile Reachable.
handleUEContextReleaseComplete ==
    /\ ctx = "connected"
    /\ ctx' = "idle"
    /\ mrLeft' = mobileReachableDuration
    /\ due' = IF missed THEN RetrySecs ELSE held
    /\ silent' = ~covered
    /\ UNCHANGED <<t3512Sent, idLeft, held, covered, missed, contacts, oamVars>>

implicitDetachDuration == effective.implicit

\* Mobile Reachable expires on an idle device and arms Implicit Detach.
MobileReachableExpires ==
    /\ mrLeft = 0
    /\ mrLeft' = Off
    /\ idLeft' = implicitDetachDuration
    /\ UNCHANGED <<ctx, t3512Sent, held, due, covered, silent, missed, contacts, oamVars>>

\* Implicit Detach expires: sessions, UDM registration and context are removed.
ImplicitDetachExpires ==
    /\ idLeft = 0
    /\ idLeft' = Off
    /\ ctx' = "none"
    /\ t3512Sent' = 0
    /\ UNCHANGED <<mrLeft, held, due, covered, silent, missed, contacts, oamVars>>

Coverage ==
    /\ "coverage" \in TimerEvents
    /\ covered' = ~covered
    /\ (covered => silent' = TRUE) /\ (~covered => UNCHANGED silent)
    /\ covered => contacts < MaxContacts
    /\ UNCHANGED <<ctx, t3512Sent, mrLeft, idLeft, held, due, missed, contacts, oamVars>>

\* Time passes to the next expiry.  A device in coverage is never late.
Elapse ==
    LET running == {t \in {mrLeft, idLeft} \cup (IF covered THEN {due} ELSE {}) : t # Off}
        step == Min(running)
        passed(t) == IF t = Off THEN Off ELSE Max({t - step, 0})
    IN  /\ running # {}
        /\ step > 0
        /\ mrLeft' = passed(mrLeft)
        /\ idLeft' = passed(idLeft)
        /\ due' = passed(due)
        /\ UNCHANGED <<ctx, t3512Sent, held, covered, silent, missed, contacts, oamVars>>

TimersInit ==
    /\ effective = BaseTimers /\ written = BaseTimers
    /\ oamMu = 0
    /\ oam = [c \in Clients |-> NoPut]
    /\ refusal = NoRefusal
    /\ ctx = "none" /\ t3512Sent = 0
    /\ mrLeft = Off /\ idLeft = Off
    /\ held = 0 /\ due = Off /\ covered = TRUE /\ silent = FALSE /\ missed = FALSE
    /\ puts = 0 /\ contacts = 0

TimersNext ==
    \/ \E c \in Clients, b \in PutBodies : putRefused(c, b) \/ putParsed(c, b)
    \/ \E c \in Clients : putLocks(c) \/ putStores(c)
    \/ Registers \/ ServiceRequest \/ handleUEContextReleaseComplete
    \/ MobileReachableExpires \/ ImplicitDetachExpires
    \/ Coverage \/ Elapse

TimersSpec == TimersInit /\ [][TimersNext]_timerVars

\* ------------------------------------------------------- properties
\* What the variables hold; a running Implicit Detach has no Mobile Reachable.
TimersTypeOK ==
    /\ ctx \in {"none", "connected", "idle"}
    /\ oamMu \in Clients \cup {0}
    /\ {covered, silent, missed} \subseteq BOOLEAN
    /\ effective.t3512 > 0 /\ effective.guard >= 0 /\ effective.implicit > 0
    /\ {mrLeft, idLeft, due} \subseteq Int
    /\ ctx = "idle" <=> (mrLeft # Off \/ idLeft # Off)
    /\ mrLeft = Off \/ idLeft = Off

\* The AMF detaches a device only when the device was out of coverage since its
\* last contact: however T3512, the guard and the detach time were changed while
\* the device was connected or idle, and even when its last Accept was lost, one
\* that makes its periodic updates on time keeps its context
\* (mobileReachableDuration takes the larger of the value sent and the effective).
DetachedOnlyIfSilent ==
    [][ctx = "idle" /\ ctx' = "none" => silent]_timerVars

\* A value accepted by the O&M interface is the value the device ends up with:
\* what it holds differs from what the AMF recorded as sent only for a startup
\* value, which is not validated, or when the Accept was lost
\* (parseTimerRequest refuses what EncodeGPRSTimer3 cannot express).
HeldAsAdvertised ==
    ctx # "none" /\ ~missed /\ held # t3512Sent => t3512Sent = BaseTimers.t3512

\* Concurrent partial changes compose: each effective value is the last one
\* written for its field (the mutex of TimerConfigHandler).
WritesCompose == effective = written

\* The two alternatives a refusal names are accepted when sent back, and nothing
\* acceptable lies between them (nearestRepresentable).
AlternativesHelp ==
    refusal.asked # 0 =>
        /\ refusal.lower < refusal.asked /\ refusal.asked < refusal.higher
        /\ \A s \in {refusal.lower, refusal.higher} : parseTimerRequest([t3512_secs |-> s]) = "OK"
        /\ \A s \in (refusal.lower + 1)..(refusal.higher - 1) :
              parseTimerRequest([t3512_secs |-> s]) # "OK"
==============================================================================
