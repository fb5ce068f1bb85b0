---------------------------- MODULE NrfRegistry ----------------------------
(* The NRF with its two stores, and the client with which every function registers and
   keeps itself registered.  Time passes in ticks; what is due at a tick happens before the
   next one, in any order.  A call is one step: the NRF may be down, or the connection may
   break, in which case the caller cannot tell whether the NRF has handled its request.  *)
EXTENDS Integers

CONSTANTS NfId,            \* instance identifiers
          Timeout,         \* HeartbeatTimeoutSec
          Interval,        \* heartbeatInterval
          MaxBackoff,      \* RegisterRetryMaxBackoff
          BlindReplace,    \* a profile may be replaced that is not registered
          ProfileOf        \* the profile an instance registers: type, services, slices, dnns

Period == Timeout \div 2   \* of the eviction ticker

ASSUME NrfAssumption ==
    /\ Timeout \in Nat /\ Timeout > 1
    /\ Interval \in Nat \ {0} /\ MaxBackoff \in Nat \ {0} /\ BlindReplace \in BOOLEAN

\* Register refuses a profile without a type.
ASSUME ProfileAssumption == \A i \in NfId : ProfileOf[i].type # ""

VARIABLES link,      \* "up", "cut" (calls get no answer), "down" (the NRF is not running)
          backend,   \* the Registry main chose: "memory" or "redis"
          mem,       \* InMemory: ticks since lastSeen
          db,        \* Redis: ticks since the time to live was set
          swept,     \* ticks since evictStale
          nf,        \* the client of a function: "off", "retry" or "beat"
          hbWait,      \* ticks until its ticker or timer fires
          backoff,
          lostRounds,      \* rounds in a row that failed
          chance,     \* ticks for which function and NRF have had every chance
          answered      \* the NRF has answered it and has not been told or made to forget it

storeVars == <<mem, db>>
clientVars == <<nf, hbWait, backoff>>
nrfGhosts == <<lostRounds, chance, answered>>
nrfVars == <<link, backend, swept, storeVars, clientVars, nrfGhosts>>

Absent == -1
Forever == -2      \* a key without a time to live
Slack == Period
Enough == IF Interval > MaxBackoff THEN Interval ELSE MaxBackoff

RegistryTypeOK ==
    /\ link \in {"up", "cut", "down"} /\ backend \in {"memory", "redis"}
    /\ mem \in [NfId -> Absent .. (Timeout + Period)]
    /\ db \in [NfId -> Forever .. (Timeout - 1)]
    /\ swept \in 0 .. Period
    /\ nf \in [NfId -> {"off", "retry", "beat"}]
    /\ hbWait \in [NfId -> Nat] /\ backoff \in [NfId -> 0 .. MaxBackoff]
    /\ lostRounds \in [NfId -> 0 .. 2] /\ chance \in [NfId -> 0 .. Enough]
    /\ answered \in [NfId -> BOOLEAN]

RegistryInit ==
    /\ link = "down" /\ backend = "memory" /\ swept = 0
    /\ mem = [i \in NfId |-> Absent] /\ db = [i \in NfId |-> Absent]
    /\ nf = [i \in NfId |-> "off"] /\ hbWait = [i \in NfId |-> 0]
    /\ backoff = [i \in NfId |-> 0]
    /\ lostRounds = [i \in NfId |-> 0] /\ chance = [i \in NfId |-> 0]
    /\ answered = [i \in NfId |-> FALSE]
----------------------------------------------------------------------------
(* The two stores.  The age of a Redis key is the time to live it has used up. *)

memRegister(i) == mem' = [mem EXCEPT ![i] = 0] /\ UNCHANGED db

redisRegister(i) == db' = [db EXCEPT ![i] = 0] /\ UNCHANGED mem

memUpdate(i) == mem[i] # Absent /\ memRegister(i)

\* SET with KEEPTTL: the time to live stays as it is; a key that is created has none.
redisUpdate(i) == db' = [db EXCEPT ![i] = IF @ = Absent THEN Forever ELSE @] /\ UNCHANGED mem

memDeregister(i) == mem[i] # Absent /\ mem' = [mem EXCEPT ![i] = Absent] /\ UNCHANGED db

redisDeregister(i) == db[i] # Absent /\ db' = [db EXCEPT ![i] = Absent] /\ UNCHANGED mem

memHeartbeat(i) == mem[i] # Absent /\ memRegister(i)

\* Mutant: EXPIRE is not sent.
redisBeatIgnored(i) == db[i] # Absent /\ UNCHANGED <<mem, db>>

redisHeartbeat(i) == db[i] # Absent /\ redisRegister(i)

\* Mutant: an instance is dropped when it is silent for one period.
evictEarly ==
    /\ link # "down" /\ backend = "memory" /\ swept = Period
    /\ swept' = 0
    /\ mem' = [i \in NfId |-> IF mem[i] > Period THEN Absent ELSE mem[i]]
    /\ UNCHANGED <<link, backend, db, clientVars, nrfGhosts>>

evictStale ==
    /\ link # "down" /\ backend = "memory" /\ swept = Period
    /\ swept' = 0
    /\ mem' = [i \in NfId |-> IF mem[i] > Timeout THEN Absent ELSE mem[i]]
    /\ UNCHANGED <<link, backend, db, clientVars, nrfGhosts>>

\* An empty field of a filter asks for nothing.
matchServices(have, want) == want \subseteq have

matchSNSSAIs(have, want) == \A w \in want : \E h \in have : h.sst = w.sst /\ h.sd = w.sd

Matches(p, f) ==
    /\ f.type # "" => p.type = f.type
    /\ matchServices(p.services, f.services)
    /\ matchSNSSAIs(p.slices, f.slices)
    /\ f.dnn # "" => f.dnn \in p.dnns

memDiscover(f) == {i \in NfId : mem[i] # Absent /\ Matches(ProfileOf[i], f)}

redisDiscover(f) == {i \in NfId : db[i] # Absent /\ Matches(ProfileOf[i], f)}
----------------------------------------------------------------------------
(* The server, with the store it was given *)

Memory == backend = "memory"

handleRegister(i) == IF Memory THEN memRegister(i) ELSE redisRegister(i)

handleUpdate(i) == IF Memory THEN memUpdate(i) ELSE redisUpdate(i)

\* A body that is an array is a heartbeat.
handleHeartbeat(i) == IF Memory THEN memHeartbeat(i) ELSE redisHeartbeat(i)

handleDeregister(i) == IF Memory THEN memDeregister(i) ELSE redisDeregister(i)

\* The type asked for and the one asking are mandatory.
handleDiscover(f) ==
    IF f.type = "" \/ f.requester = "" THEN {}
    ELSE IF Memory THEN memDiscover(f) ELSE redisDiscover(f)

\* 404: the store has no such instance.
Known(i) == IF Memory THEN mem[i] # Absent ELSE db[i] # Absent
----------------------------------------------------------------------------
(* The client of function i.  It registers the same profile every time. *)

Heeded(i) ==
    /\ lostRounds' = [lostRounds EXCEPT ![i] = 0] /\ answered' = [answered EXCEPT ![i] = TRUE]
    /\ UNCHANGED chance

Unheeded(i) ==
    /\ lostRounds' = [lostRounds EXCEPT ![i] = IF @ = 2 THEN 2 ELSE @ + 1]
    /\ UNCHANGED <<chance, answered>>

\* A request that gets no answer has been handled, or not.
NrfPerhaps(A) == (link = "cut" /\ A) \/ UNCHANGED storeVars

ToBeat(i) ==
    /\ nf' = [nf EXCEPT ![i] = "beat"] /\ hbWait' = [hbWait EXCEPT ![i] = Interval]
    /\ backoff' = [backoff EXCEPT ![i] = 0]

RegisterAndStartHeartbeat(i) ==
    /\ nf[i] = "off"
    /\ \/ link = "up" /\ handleRegister(i) /\ ToBeat(i) /\ Heeded(i)
       \/ /\ link # "up" /\ NrfPerhaps(handleRegister(i))
          /\ nf' = [nf EXCEPT ![i] = "retry"] /\ hbWait' = [hbWait EXCEPT ![i] = 1]
          /\ backoff' = [backoff EXCEPT ![i] = 1] /\ Unheeded(i)
    /\ UNCHANGED <<link, backend, swept>>

registerWithRetry(i) ==
    /\ nf[i] = "retry" /\ hbWait[i] = 0
    /\ \/ link = "up" /\ handleRegister(i) /\ ToBeat(i) /\ Heeded(i)
       \/ /\ link # "up" /\ NrfPerhaps(handleRegister(i))
          /\ backoff' = [backoff EXCEPT ![i] = IF 2 * @ > MaxBackoff THEN MaxBackoff ELSE 2 * @]
          /\ hbWait' = [hbWait EXCEPT ![i] = backoff'[i]]
          /\ UNCHANGED nf /\ Unheeded(i)
    /\ UNCHANGED <<link, backend, swept>>

\* A heartbeat that fails, for whatever reason, is followed by a registration.
heartbeatLoop(i) ==
    /\ nf[i] = "beat" /\ hbWait[i] = 0
    /\ hbWait' = [hbWait EXCEPT ![i] = Interval]
    /\ \/ link = "up" /\ handleHeartbeat(i) /\ Heeded(i)
       \/ link = "up" /\ ~Known(i) /\ handleRegister(i) /\ Heeded(i)
       \/ link # "up" /\ NrfPerhaps(handleHeartbeat(i) \/ handleRegister(i)) /\ Unheeded(i)
    /\ UNCHANGED <<link, backend, swept, nf, backoff>>

\* A function replaces its profile.
ReplaceNf(i) ==
    /\ link = "up" /\ (BlindReplace \/ Known(i)) /\ handleUpdate(i)
    /\ UNCHANGED <<link, backend, swept, clientVars, nrfGhosts>>

\* The function stops: no call tells the NRF.
NfStops(i) ==
    /\ nf[i] # "off"
    /\ nf' = [nf EXCEPT ![i] = "off"] /\ hbWait' = [hbWait EXCEPT ![i] = 0]
    /\ backoff' = [backoff EXCEPT ![i] = 0]
    /\ lostRounds' = [lostRounds EXCEPT ![i] = 0] /\ chance' = [chance EXCEPT ![i] = 0]
    /\ answered' = [answered EXCEPT ![i] = FALSE]
    /\ UNCHANGED <<link, backend, swept, storeVars>>

\* Somebody else deregisters an instance.
RemoveNf(i) ==
    /\ link = "up" /\ handleDeregister(i)
    /\ chance' = [chance EXCEPT ![i] = 0] /\ answered' = [answered EXCEPT ![i] = FALSE]
    /\ UNCHANGED <<link, backend, swept, clientVars, lostRounds>>
----------------------------------------------------------------------------
(* The NRF process, the network and time *)

\* main: Redis when it answers, else memory.  The new process forgets what is in memory.
NrfStarts ==
    /\ link = "down" /\ link' = "up" /\ swept' = 0
    /\ backend' \in {"memory", "redis"}
    /\ answered' = [i \in NfId |-> answered[i] /\ backend' = "redis"]
    /\ UNCHANGED <<storeVars, clientVars, lostRounds, chance>>

NrfStops ==
    /\ link # "down" /\ link' = "down"
    /\ mem' = [i \in NfId |-> Absent]
    /\ chance' = [i \in NfId |-> 0] /\ swept' = 0
    /\ answered' = [i \in NfId |-> answered[i] /\ backend = "redis"]
    /\ UNCHANGED <<backend, db, clientVars, lostRounds>>

LinkBreaks ==
    /\ link = "up" /\ link' = "cut" /\ chance' = [i \in NfId |-> 0]
    /\ UNCHANGED <<backend, swept, storeVars, clientVars, lostRounds, answered>>

LinkHeals ==
    /\ link = "cut" /\ link' = "up"
    /\ UNCHANGED <<backend, swept, storeVars, clientVars, nrfGhosts>>

\* A key goes with the tick that uses up its time to live.
NrfAged(a) == IF a < 0 THEN a ELSE a + 1
Expires(i) == db[i] = Timeout - 1

NrfDue(i) == nf[i] # "off" /\ hbWait[i] = 0
Sweeping == link # "down" /\ backend = "memory"

NrfTick ==
    /\ \A i \in NfId : ~NrfDue(i)
    /\ Sweeping => swept < Period
    /\ swept' = IF Sweeping THEN swept + 1 ELSE 0
    /\ mem' = [i \in NfId |-> NrfAged(mem[i])]
    /\ db' = [i \in NfId |-> IF Expires(i) THEN Absent ELSE NrfAged(db[i])]
    /\ hbWait' = [i \in NfId |-> IF nf[i] = "off" THEN 0 ELSE hbWait[i] - 1]
    /\ chance' = [i \in NfId |-> IF nf[i] # "off" /\ link = "up" /\ chance[i] < Enough
                                THEN chance[i] + 1 ELSE chance[i]]
    /\ UNCHANGED <<link, backend, nf, backoff, lostRounds, answered>>

RegistryNext ==
    \/ \E i \in NfId :
          \/ RegisterAndStartHeartbeat(i) \/ registerWithRetry(i) \/ heartbeatLoop(i)
          \/ ReplaceNf(i) \/ NfStops(i) \/ RemoveNf(i)
    \/ evictStale \/ NrfStarts \/ NrfStops \/ LinkBreaks \/ LinkHeals \/ NrfTick

RegistrySpec == RegistryInit /\ [][RegistryNext]_nrfVars
----------------------------------------------------------------------------
(* What holds *)

\* Every request for something an instance offers leads to it.
Offers(i) ==
    [type : {ProfileOf[i].type}, requester : {"AMF"}, services : SUBSET ProfileOf[i].services,
     slices : SUBSET ProfileOf[i].slices, dnn : {""} \cup ProfileOf[i].dnns]

NfFound(i) == \A f \in Offers(i) : i \in handleDiscover(f)

\* Either store is the directory the abstract module describes.
Dir == INSTANCE NfDirectory WITH
          serving <- link # "down", age <- IF backend = "memory" THEN mem ELSE db,
          owed <- answered

\* RegistrySpec implements the directory: a function the NRF has answered is dropped only
\* after Timeout ticks of silence or by a deregistration, a silent function is gone half a
\* Timeout later, and a restart keeps what was promised or promises nothing (evictStale,
\* StartEviction, the time to live of the keys, the choice of the store in main).
IsDirectory == Dir!DirSpec

\* "an NF recovers within this bound once the NRF becomes reachable again": a function that
\* runs is listed at the latest Interval or MaxBackoff ticks after the NRF can be reached,
\* whatever was lost or forgotten before (heartbeatLoop, registerWithRetry).
RecoversInBound ==
    \A i \in NfId : chance[i] = Enough /\ ~NrfDue(i) => NfFound(i)

\* One lost round does not cost a function its listing: between two beats it is found
\* although the beat before the last one never arrived (heartbeatInterval, evictStale).
OutlivesLostRound ==
    \A i \in NfId : nf[i] = "beat" /\ answered[i] /\ lostRounds[i] <= 1 /\ ~NrfDue(i) => NfFound(i)

\* The two together, where every function beats twice in a Timeout: a function that runs is
\* found as soon as it could have been heard, and it is not lost by one failure.
StaysListed == RegistryTypeOK /\ RecoversInBound /\ OutlivesLostRound

\* "NF profiles are stored as JSON strings with TTL" (redis.go): no key stays for ever.
EveryKeyExpires == \A i \in NfId : db[i] # Forever
=============================================================================
