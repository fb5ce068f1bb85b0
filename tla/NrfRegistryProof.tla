------------------------- MODULE NrfRegistryProof --------------------------
(* For every set of functions and every choice of the timers: the NRF with either store
   implements the abstract directory, a function is listed again within the bound once the
   NRF can be reached, and one lost round of heartbeats does not cost it its listing.     *)
EXTENDS NrfRegistry, TLAPS

\* The ticks since the store in use last heard of a function.
Age(i) == IF Memory THEN mem[i] ELSE db[i]

\* Nothing is older than the eviction lets it become, a store that is not in use is empty,
\* and a process that has nothing in memory owes nobody anything.
StoreInv ==
    /\ RegistryTypeOK
    /\ EveryKeyExpires
    /\ \A i \in NfId : mem[i] <= Timeout + swept
    /\ backend = "redis" \/ link = "down" => \A i \in NfId : mem[i] = Absent
    /\ backend = "memory" /\ link = "down" => \A i \in NfId : answered[i] = FALSE

\* The function beats, and its listing will be at most d ticks old when the next beat is due.
Fresh(i, d) == nf[i] = "beat" /\ Age(i) >= 0 /\ Age(i) + hbWait[i] <= d

\* A function that is not fresh makes its next call before its chances are used up.
Prompt(i) ==
    /\ hbWait[i] <= Enough
    /\ nf[i] = "beat" => hbWait[i] <= Interval
    /\ nf[i] = "off" \/ link # "up" => chance[i] = 0
    /\ nf[i] # "off" => Fresh(i, Interval) \/ hbWait[i] + chance[i] <= Enough

\* The age of a function the NRF has answered is bounded by the rounds it has lost since.
Remembered(i) ==
    /\ nf[i] = "beat" /\ answered[i] /\ lostRounds[i] = 0 => Fresh(i, Interval)
    /\ nf[i] = "beat" /\ answered[i] /\ lostRounds[i] = 1
         => hbWait[i] = 0 \/ Fresh(i, 2 * Interval)
-----------------------------------------------------------------------------
\* The eviction runs at least once in a Timeout, and a client waits at least a tick.
LEMMA Bounds ==
  /\ Period \in Nat /\ Period > 0 /\ Period < Timeout
  /\ Enough \in Nat /\ Enough > 0 /\ Interval <= Enough /\ MaxBackoff <= Enough
  BY NrfAssumption DEF Period, Enough

\* The NRF is down, and nobody is registered (RegistryInit).
LEMMA RegistryStarts ==
  RegistryInit => StoreInv /\ \A i \in NfId : Prompt(i) /\ Remembered(i)
  BY NrfAssumption, Bounds DEF RegistryInit, StoreInv, RegistryTypeOK, EveryKeyExpires,
     Prompt, Remembered, Absent, Forever

\* What a call that reaches the server does to the two stores: the one in use holds the
\* caller with age 0 afterwards, or is left as it was (handleRegister, handleHeartbeat).
LEMMA CallHandled ==
  ASSUME StoreInv, NEW i \in NfId, link # "down",
         handleRegister(i) \/ handleHeartbeat(i)
  PROVE  /\ mem' = IF Memory THEN [mem EXCEPT ![i] = 0] ELSE mem
         /\ db' = IF Memory THEN db ELSE [db EXCEPT ![i] = 0]
  BY DEF handleRegister, handleHeartbeat, memRegister, redisRegister, memHeartbeat,
     redisHeartbeat

\* The client's three calls keep the stores in order.
LEMMA ClientKeepsStores ==
  ASSUME StoreInv, NEW i \in NfId,
         RegisterAndStartHeartbeat(i) \/ registerWithRetry(i) \/ heartbeatLoop(i)
  PROVE  StoreInv'
  <1> USE NrfAssumption, Bounds
  <1>1. \/ UNCHANGED <<mem, db>>
        \/ /\ link # "down"
           /\ mem' = IF Memory THEN [mem EXCEPT ![i] = 0] ELSE mem
           /\ db' = IF Memory THEN db ELSE [db EXCEPT ![i] = 0]
    BY CallHandled DEF RegisterAndStartHeartbeat, registerWithRetry, heartbeatLoop, NrfPerhaps,
       storeVars
  <1>2. UNCHANGED <<link, backend, swept, chance>>
    BY DEF RegisterAndStartHeartbeat, registerWithRetry, heartbeatLoop, Heeded, Unheeded
  <1>3. /\ mem' \in [NfId -> Absent .. (Timeout + Period)]
        /\ db' \in [NfId -> Forever .. (Timeout - 1)]
        /\ \A j \in NfId : db'[j] # Forever /\ mem'[j] <= Timeout + swept
        /\ backend = "redis" \/ link = "down" => \A j \in NfId : mem'[j] = Absent
    BY <1>1 DEF StoreInv, RegistryTypeOK, EveryKeyExpires, Absent, Forever, Memory
  <1>4. /\ lostRounds' \in [NfId -> 0 .. 2] /\ answered' \in [NfId -> BOOLEAN]
        /\ link = "down" => answered' = answered
    <2>1. (link = "up" /\ Heeded(i)) \/ Unheeded(i)
      BY DEF RegisterAndStartHeartbeat, registerWithRetry, heartbeatLoop
    <2>2. CASE link = "up" /\ Heeded(i) BY <2>2 DEF Heeded, StoreInv, RegistryTypeOK
    <2>3. CASE Unheeded(i) BY <2>3 DEF Unheeded, StoreInv, RegistryTypeOK
    <2> QED BY <2>1, <2>2, <2>3
  <1>5. /\ nf' \in [NfId -> {"off", "retry", "beat"}] /\ hbWait' \in [NfId -> Nat]
        /\ backoff' \in [NfId -> 0 .. MaxBackoff]
    BY DEF RegisterAndStartHeartbeat, registerWithRetry, heartbeatLoop, ToBeat,
       StoreInv, RegistryTypeOK
  <1> QED BY <1>2, <1>3, <1>4, <1>5 DEF StoreInv, RegistryTypeOK, EveryKeyExpires

\* So does everything else.
LEMMA OthersKeepStores ==
  ASSUME StoreInv, ~BlindReplace,
         \/ \E i \in NfId : ReplaceNf(i) \/ NfStops(i) \/ RemoveNf(i)
         \/ evictStale \/ NrfStarts \/ NrfStops \/ LinkBreaks \/ LinkHeals \/ NrfTick
  PROVE  StoreInv'
  <1> USE NrfAssumption, Bounds DEF StoreInv, RegistryTypeOK, EveryKeyExpires, Absent, Forever
  <1>1. ASSUME NEW i \in NfId, ReplaceNf(i) PROVE StoreInv'
    BY <1>1 DEF ReplaceNf, Known, handleUpdate, memUpdate, memRegister, redisUpdate, Memory,
       clientVars, nrfGhosts
  <1>2. ASSUME NEW i \in NfId, NfStops(i) PROVE StoreInv'
    BY <1>2 DEF NfStops, storeVars
  <1>3. ASSUME NEW i \in NfId, RemoveNf(i) PROVE StoreInv'
    BY <1>3 DEF RemoveNf, handleDeregister, memDeregister, redisDeregister, Memory, clientVars
  <1>4. CASE evictStale BY <1>4 DEF evictStale, clientVars, nrfGhosts
  <1>5. CASE NrfStarts BY <1>5 DEF NrfStarts, storeVars, clientVars
  <1>6. CASE NrfStops BY <1>6 DEF NrfStops, clientVars
  <1>7. CASE LinkBreaks BY <1>7 DEF LinkBreaks, storeVars, clientVars
  <1>8. CASE LinkHeals BY <1>8 DEF LinkHeals, storeVars, clientVars, nrfGhosts
  <1>9. CASE NrfTick
    <2>1. hbWait' \in [NfId -> Nat] BY <1>9 DEF NrfTick, NrfDue
    <2>2. \A j \in NfId : mem[j] >= 0 => Sweeping BY DEF Sweeping
    <2>3. /\ mem' \in [NfId -> Absent .. (Timeout + Period)]
          /\ \A j \in NfId : mem'[j] <= Timeout + swept'
          /\ \A j \in NfId : mem[j] = Absent => mem'[j] = Absent
      BY <1>9, <2>2 DEF NrfTick, NrfAged
    <2>4. db' \in [NfId -> Forever .. (Timeout - 1)] /\ \A j \in NfId : db'[j] # Forever
      <3> SUFFICES ASSUME NEW j \in NfId
                   PROVE  db'[j] \in Forever .. (Timeout - 1) /\ db'[j] # Forever
        BY <1>9 DEF NrfTick
      <3>1. db[j] \in Absent .. (Timeout - 1) OBVIOUS
      <3>2. db'[j] = IF Expires(j) THEN Absent ELSE NrfAged(db[j]) BY <1>9 DEF NrfTick
      <3> QED BY <3>1, <3>2 DEF NrfAged, Expires
    <2>5. chance' \in [NfId -> 0 .. Enough] BY <1>9 DEF NrfTick
    <2> QED BY <1>9, <2>1, <2>3, <2>4, <2>5 DEF NrfTick
  <1> QED BY <1>1, <1>2, <1>3, <1>4, <1>5, <1>6, <1>7, <1>8, <1>9

LEMMA StoresKept ==
  ASSUME ~BlindReplace, StoreInv, [RegistryNext]_nrfVars PROVE StoreInv'
  <1>1. CASE UNCHANGED nrfVars
    BY <1>1 DEF nrfVars, storeVars, clientVars, nrfGhosts, StoreInv, RegistryTypeOK,
       EveryKeyExpires
  <1> QED BY <1>1, ClientKeepsStores, OthersKeepStores DEF RegistryNext
-----------------------------------------------------------------------------
\* What a round of a client is: the NRF answers and the function beats from then on, or it
\* does not answer, and the function tries again after a while (RegisterAndStartHeartbeat,
\* registerWithRetry, heartbeatLoop).
Answered(i) ==
    /\ link = "up" /\ nf'[i] = "beat" /\ hbWait'[i] = Interval /\ Age(i)' = 0
    /\ lostRounds'[i] = 0

Missed(i) ==
    /\ link # "up" /\ answered'[i] = answered[i]
    /\ lostRounds'[i] = IF lostRounds[i] = 2 THEN 2 ELSE lostRounds[i] + 1
    /\ \/ nf'[i] = "retry" /\ hbWait'[i] <= Enough
       \/ /\ nf[i] = "beat" /\ nf'[i] = "beat" /\ hbWait[i] = 0 /\ hbWait'[i] = Interval
          /\ Age(i)' = 0 \/ Age(i)' = Age(i)

LEMMA Round ==
  ASSUME StoreInv, NEW i \in NfId,
         RegisterAndStartHeartbeat(i) \/ registerWithRetry(i) \/ heartbeatLoop(i)
  PROVE  /\ UNCHANGED <<link, backend, chance>>
         /\ Answered(i) \/ Missed(i)
         /\ \A j \in NfId \ {i} :
              /\ nf'[j] = nf[j] /\ hbWait'[j] = hbWait[j] /\ Age(j)' = Age(j)
              /\ answered'[j] = answered[j] /\ lostRounds'[j] = lostRounds[j]
  <1> USE NrfAssumption, Bounds
  <1>1. UNCHANGED <<link, backend, chance>>
    BY DEF RegisterAndStartHeartbeat, registerWithRetry, heartbeatLoop, Heeded, Unheeded
  <1>2. \/ /\ link = "up" /\ Heeded(i)
           /\ handleRegister(i) \/ handleHeartbeat(i)
        \/ /\ link # "up" /\ Unheeded(i)
           /\ UNCHANGED <<mem, db>> \/ (link # "down" /\ (handleRegister(i) \/ handleHeartbeat(i)))
    BY DEF RegisterAndStartHeartbeat, registerWithRetry, heartbeatLoop, NrfPerhaps, storeVars
  <1>3. /\ link = "up" => Age(i)' = 0
        /\ Age(i)' = 0 \/ Age(i)' = Age(i)
        /\ \A j \in NfId \ {i} : Age(j)' = Age(j)
    BY <1>1, <1>2, CallHandled DEF Age, Memory, StoreInv, RegistryTypeOK
  <1>4. \A j \in NfId \ {i} : answered'[j] = answered[j] /\ lostRounds'[j] = lostRounds[j]
    BY <1>2 DEF Heeded, Unheeded, StoreInv, RegistryTypeOK
  <1>5. \A j \in NfId \ {i} : nf'[j] = nf[j] /\ hbWait'[j] = hbWait[j]
    BY DEF RegisterAndStartHeartbeat, registerWithRetry, heartbeatLoop, ToBeat, StoreInv,
       RegistryTypeOK
  <1>6. CASE link = "up"
    <2>1. nf'[i] = "beat" /\ hbWait'[i] = Interval
      BY <1>6 DEF RegisterAndStartHeartbeat, registerWithRetry, heartbeatLoop, ToBeat, StoreInv,
         RegistryTypeOK
    <2>2. lostRounds'[i] = 0 BY <1>2, <1>6 DEF Heeded, StoreInv, RegistryTypeOK
    <2> QED BY <1>1, <1>3, <1>4, <1>5, <1>6, <2>1, <2>2 DEF Answered
  <1>7. CASE link # "up"
    <2>1. /\ answered'[i] = answered[i]
          /\ lostRounds'[i] = IF lostRounds[i] = 2 THEN 2 ELSE lostRounds[i] + 1
      BY <1>2, <1>7 DEF Unheeded, StoreInv, RegistryTypeOK
    <2>2. \/ nf'[i] = "retry" /\ hbWait'[i] <= Enough
          \/ nf[i] = "beat" /\ nf'[i] = "beat" /\ hbWait[i] = 0 /\ hbWait'[i] = Interval
      BY <1>7 DEF RegisterAndStartHeartbeat, registerWithRetry, heartbeatLoop, StoreInv,
         RegistryTypeOK
    <2> QED BY <1>1, <1>3, <1>4, <1>5, <1>7, <2>1, <2>2 DEF Missed
  <1> QED BY <1>6, <1>7

\* A tick brings the next call of a function nearer by as much as it makes its listing older,
\* and a listing that is younger than Timeout afterwards is still there (NrfTick).
LEMMA TickAges ==
  ASSUME StoreInv, NrfTick, NEW j \in NfId
  PROVE  /\ UNCHANGED <<link, nf, answered, lostRounds>>
         /\ nf[j] # "off" => hbWait[j] > 0 /\ hbWait'[j] = hbWait[j] - 1
         /\ nf[j] = "off" => hbWait'[j] = 0 /\ chance'[j] = chance[j]
         /\ link # "up" => chance'[j] = chance[j]
         /\ chance'[j] <= chance[j] + 1
         /\ Age(j) >= 0 /\ Age(j) + 1 < Timeout => Age(j)' = Age(j) + 1
  <1> USE NrfAssumption, Bounds DEF NrfTick, StoreInv, RegistryTypeOK
  <1>1. UNCHANGED <<link, backend, nf, answered, lostRounds>> OBVIOUS
  <1>2. /\ nf[j] # "off" => hbWait[j] > 0 /\ hbWait'[j] = hbWait[j] - 1
        /\ nf[j] = "off" => hbWait'[j] = 0
    BY DEF NrfDue
  <1>3. /\ nf[j] = "off" \/ link # "up" => chance'[j] = chance[j]
        /\ chance'[j] <= chance[j] + 1
    OBVIOUS
  <1>4. /\ mem'[j] = NrfAged(mem[j])
        /\ db'[j] = IF Expires(j) THEN Absent ELSE NrfAged(db[j])
    OBVIOUS
  <1>5. Age(j) >= 0 /\ Age(j) + 1 < Timeout => Age(j)' = Age(j) + 1
    BY <1>1, <1>4 DEF Age, Memory, NrfAged, Expires
  <1> QED BY <1>1, <1>2, <1>3, <1>5

\* What the lemmas below need of the types, before and after a step.
LEMMA Kept ==
  ASSUME ~BlindReplace, StoreInv, [RegistryNext]_nrfVars, NEW j \in NfId
  PROVE  /\ hbWait[j] \in Nat /\ chance[j] \in Nat /\ Age(j) \in Int
         /\ hbWait'[j] \in Nat /\ chance'[j] \in Nat /\ lostRounds[j] \in 0 .. 2
  <1>1. StoreInv' BY StoresKept
  <1>2. chance'[j] \in Nat /\ hbWait'[j] \in Nat
    BY <1>1, Bounds DEF StoreInv, RegistryTypeOK
  <1>3. hbWait[j] \in Nat /\ chance[j] \in Nat /\ Age(j) \in Int /\ lostRounds[j] \in 0 .. 2
    BY NrfAssumption, Bounds DEF StoreInv, RegistryTypeOK, Age, Absent, Forever
  <1> QED BY <1>2, <1>3

\* No function is kept waiting longer than its chances: every step preserves Prompt, if
\* functions beat more often than the NRF forgets (heartbeatInterval).
LEMMA PromptKept ==
  ASSUME ~BlindReplace, Interval < Timeout, StoreInv, \A i \in NfId : Prompt(i),
         [RegistryNext]_nrfVars, NEW j \in NfId
  PROVE  Prompt(j)'
  <1> USE NrfAssumption, Bounds
  <1>0. /\ hbWait[j] \in Nat /\ chance[j] \in Nat /\ Age(j) \in Int
        /\ Prompt(j) /\ hbWait'[j] \in Nat /\ chance'[j] \in Nat
    BY Kept
  <1>1. ASSUME NEW i \in NfId,
               RegisterAndStartHeartbeat(i) \/ registerWithRetry(i) \/ heartbeatLoop(i)
        PROVE  Prompt(j)'
    <2>0. UNCHANGED <<link, chance>> /\ (Answered(i) \/ Missed(i)) BY <1>1, Round
    <2>1. CASE i = j /\ Answered(i) BY <1>0, <2>0, <2>1 DEF Prompt, Fresh, Answered
    <2>2. CASE i = j /\ Missed(i) BY <1>0, <2>0, <2>2 DEF Prompt, Missed
    <2>3. CASE i # j BY <1>1, <2>3, Round DEF Prompt, Fresh
    <2> QED BY <2>0, <2>1, <2>2, <2>3
  <1>2. ASSUME NEW i \in NfId, ReplaceNf(i) PROVE Prompt(j)'
    <2>1. Age(j)' = Age(j) \/ (Age(j)' = 0 /\ Age(j) >= 0)
      BY <1>2 DEF ReplaceNf, Known, handleUpdate, memUpdate, memRegister, redisUpdate, Age,
         Memory, StoreInv, RegistryTypeOK, EveryKeyExpires, Absent, Forever
    <2> QED BY <1>0, <1>2, <2>1 DEF ReplaceNf, clientVars, nrfGhosts, Prompt, Fresh
  <1>3. ASSUME NEW i \in NfId, NfStops(i) PROVE Prompt(j)'
    <2>1. Age(j)' = Age(j) BY <1>3 DEF NfStops, storeVars, Age, Memory
    <2> QED BY <1>0, <1>3, <2>1 DEF NfStops, Prompt, Fresh, StoreInv, RegistryTypeOK
  <1>4. ASSUME NEW i \in NfId, RemoveNf(i) PROVE Prompt(j)'
    <2>1. CASE i = j
      BY <1>0, <1>4, <2>1 DEF RemoveNf, clientVars, Prompt, StoreInv, RegistryTypeOK
    <2>2. CASE i # j
      <3>1. Age(j)' = Age(j) /\ chance'[j] = chance[j]
        BY <1>4, <2>2 DEF RemoveNf, handleDeregister, memDeregister, redisDeregister, Age,
           Memory, StoreInv, RegistryTypeOK
      <3> QED BY <1>4, <3>1 DEF RemoveNf, clientVars, Prompt, Fresh
    <2> QED BY <2>1, <2>2
  <1>5. CASE evictStale
    <2>1. Age(j) <= Interval => Age(j)' = Age(j)
      BY <1>5 DEF evictStale, Age, Memory, StoreInv, RegistryTypeOK, Absent
    <2> QED BY <1>0, <1>5, <2>1 DEF evictStale, clientVars, nrfGhosts, Prompt, Fresh
  <1>6. CASE NrfStarts \/ NrfStops \/ LinkBreaks
    <2>1. chance'[j] = 0 BY <1>6 DEF NrfStarts, NrfStops, LinkBreaks, Prompt
    <2> QED BY <1>0, <1>6, <2>1 DEF NrfStarts, NrfStops, LinkBreaks, clientVars, Prompt
  <1>7. CASE LinkHeals
    BY <1>7 DEF LinkHeals, storeVars, clientVars, nrfGhosts, Prompt, Fresh, Age, Memory
  <1>8. CASE NrfTick
    <2>1. /\ UNCHANGED <<link, nf>>
          /\ nf[j] # "off" => hbWait[j] > 0 /\ hbWait'[j] = hbWait[j] - 1
          /\ nf[j] = "off" => hbWait'[j] = 0 /\ chance'[j] = chance[j]
          /\ link # "up" => chance'[j] = chance[j]
          /\ chance'[j] <= chance[j] + 1
      BY <1>8, TickAges
    <2>2. Age(j) >= 0 /\ Age(j) + 1 < Timeout => Age(j)' = Age(j) + 1
      BY <1>8, TickAges
    <2> QED BY <1>0, <2>1, <2>2 DEF Prompt, Fresh
  <1>9. CASE UNCHANGED nrfVars
    BY <1>9 DEF nrfVars, storeVars, clientVars, nrfGhosts, Prompt, Fresh, Age, Memory
  <1> QED BY <1>1, <1>2, <1>3, <1>4, <1>5, <1>6, <1>7, <1>8, <1>9 DEF RegistryNext

\* Every step preserves Remembered, if two beats fit into the time the NRF waits.
LEMMA RememberedKept ==
  ASSUME ~BlindReplace, 2 * Interval <= Timeout, StoreInv,
         \A i \in NfId : Prompt(i) /\ Remembered(i), [RegistryNext]_nrfVars, NEW j \in NfId
  PROVE  Remembered(j)'
  <1> USE NrfAssumption, Bounds
  <1>0. /\ hbWait[j] \in Nat /\ Age(j) \in Int /\ hbWait'[j] \in Nat
        /\ lostRounds[j] \in 0 .. 2 /\ Remembered(j)
    BY Kept
  <1>1. ASSUME NEW i \in NfId,
               RegisterAndStartHeartbeat(i) \/ registerWithRetry(i) \/ heartbeatLoop(i)
        PROVE  Remembered(j)'
    <2>0. UNCHANGED link /\ (Answered(i) \/ Missed(i)) BY <1>1, Round
    <2>1. CASE i = j /\ Answered(i) BY <1>0, <2>0, <2>1 DEF Remembered, Fresh, Answered
    <2>2. CASE i = j /\ Missed(i) BY <1>0, <2>0, <2>2 DEF Remembered, Fresh, Missed
    <2>3. CASE i # j BY <1>0, <1>1, <2>3, Round DEF Remembered, Fresh
    <2> QED BY <2>0, <2>1, <2>2, <2>3
  <1>2. ASSUME NEW i \in NfId, ReplaceNf(i) PROVE Remembered(j)'
    <2>1. Age(j)' = Age(j) \/ (Age(j)' = 0 /\ Age(j) >= 0)
      BY <1>2 DEF ReplaceNf, Known, handleUpdate, memUpdate, memRegister, redisUpdate, Age,
         Memory, StoreInv, RegistryTypeOK, EveryKeyExpires, Absent, Forever
    <2> QED BY <1>0, <1>2, <2>1 DEF ReplaceNf, clientVars, nrfGhosts, Remembered, Fresh
  <1>3. ASSUME NEW i \in NfId, NfStops(i) PROVE Remembered(j)'
    <2>1. Age(j)' = Age(j) BY <1>3 DEF NfStops, storeVars, Age, Memory
    <2> QED BY <1>0, <1>3, <2>1 DEF NfStops, Remembered, Fresh, StoreInv, RegistryTypeOK
  <1>4. ASSUME NEW i \in NfId, RemoveNf(i) PROVE Remembered(j)'
    <2>1. CASE i = j
      BY <1>4, <2>1 DEF RemoveNf, Remembered, StoreInv, RegistryTypeOK
    <2>2. CASE i # j
      <3>1. Age(j)' = Age(j) /\ answered'[j] = answered[j]
        BY <1>4, <2>2 DEF RemoveNf, handleDeregister, memDeregister, redisDeregister, Age,
           Memory, StoreInv, RegistryTypeOK
      <3> QED BY <1>0, <1>4, <3>1 DEF RemoveNf, clientVars, Remembered, Fresh
    <2> QED BY <2>1, <2>2
  <1>5. CASE evictStale
    <2>1. Age(j) <= Timeout => Age(j)' = Age(j)
      BY <1>5 DEF evictStale, Age, Memory, StoreInv, RegistryTypeOK, Absent
    <2> QED BY <1>0, <1>5, <2>1 DEF evictStale, clientVars, nrfGhosts, Remembered, Fresh
  <1>6. CASE NrfStarts \/ NrfStops
    <2>1. /\ UNCHANGED clientVars /\ UNCHANGED lostRounds
          /\ answered'[j] => answered[j] /\ Age(j)' = Age(j)
      BY <1>6 DEF NrfStarts, NrfStops, storeVars, Age, Memory, StoreInv, RegistryTypeOK
    <2> QED BY <1>0, <2>1 DEF clientVars, Remembered, Fresh
  <1>7. CASE LinkBreaks \/ LinkHeals
    BY <1>7 DEF LinkBreaks, LinkHeals, storeVars, clientVars, nrfGhosts, Remembered, Fresh, Age,
       Memory
  <1>8. CASE NrfTick
    <2>1. /\ UNCHANGED <<nf, answered, lostRounds>>
          /\ nf[j] # "off" => hbWait[j] > 0 /\ hbWait'[j] = hbWait[j] - 1
      BY <1>8, TickAges
    <2>2. Age(j) >= 0 /\ Age(j) + 1 < Timeout => Age(j)' = Age(j) + 1
      BY <1>8, TickAges
    <2> QED BY <1>0, <2>1, <2>2 DEF Remembered, Fresh
  <1>9. CASE UNCHANGED nrfVars
    BY <1>9 DEF nrfVars, storeVars, clientVars, nrfGhosts, Remembered, Fresh, Age, Memory
  <1> QED BY <1>1, <1>2, <1>3, <1>4, <1>5, <1>6, <1>7, <1>8, <1>9 DEF RegistryNext

\* Whoever is in the store is found by every request for something it offers
\* (handleDiscover, Matches).
LEMMA ListedIsFound ==
  ASSUME NEW i \in NfId, Age(i) # Absent
  PROVE  NfFound(i)
  <1> SUFFICES ASSUME NEW f \in Offers(i) PROVE i \in handleDiscover(f)
    BY DEF NfFound
  <1>1. /\ f.type = ProfileOf[i].type /\ f.requester = "AMF"
        /\ f.services \subseteq ProfileOf[i].services /\ f.slices \subseteq ProfileOf[i].slices
        /\ f.dnn = "" \/ f.dnn \in ProfileOf[i].dnns
    BY DEF Offers
  <1>2. f.type # "" /\ f.requester # "" BY <1>1, ProfileAssumption
  <1>3. Matches(ProfileOf[i], f) BY <1>1 DEF Matches, matchServices, matchSNSSAIs
  <1> QED BY <1>2, <1>3 DEF handleDiscover, memDiscover, redisDiscover, Age
-----------------------------------------------------------------------------
\* A function that runs is listed at the latest Interval or MaxBackoff ticks after the NRF
\* can be reached, whatever was lost or forgotten before, for every choice of the timers in
\* which a function beats before the NRF forgets it (heartbeatLoop, registerWithRetry).
THEOREM Recovers ==
  ASSUME ~BlindReplace, Interval < Timeout
  PROVE  RegistrySpec => []RecoversInBound
  <1> DEFINE Inv == StoreInv /\ \A i \in NfId : Prompt(i)
  <1>1. RegistryInit => Inv BY RegistryStarts
  <1>2. Inv /\ [RegistryNext]_nrfVars => Inv' BY StoresKept, PromptKept
  <1>3. Inv => RecoversInBound
    <2> SUFFICES ASSUME Inv, NEW i \in NfId, chance[i] = Enough, ~NrfDue(i) PROVE NfFound(i)
      BY DEF RecoversInBound
    <2>1. hbWait[i] \in Nat /\ nf[i] # "off" /\ hbWait[i] > 0
      BY Bounds DEF StoreInv, RegistryTypeOK, Prompt, NrfDue
    <2>2. Age(i) >= 0 BY <2>1, Bounds DEF Prompt, Fresh
    <2> QED BY <2>2, ListedIsFound DEF Absent
  <1> QED BY <1>1, <1>2, <1>3, PTL DEF RegistrySpec

\* A function that has lost one round of heartbeats is still listed when it beats again, for
\* every choice of the timers in which two intervals fit into the NRF's patience; together
\* with the above, a running function stays in the directory (heartbeatInterval, evictStale,
\* the time to live of the keys).
THEOREM Stays ==
  ASSUME ~BlindReplace, 2 * Interval <= Timeout
  PROVE  RegistrySpec => []StaysListed
  <1> DEFINE Inv == StoreInv /\ \A i \in NfId : Prompt(i) /\ Remembered(i)
  <1>0. Interval < Timeout BY NrfAssumption
  <1>1. RegistryInit => Inv BY RegistryStarts
  <1>2. Inv /\ [RegistryNext]_nrfVars => Inv' BY <1>0, StoresKept, PromptKept, RememberedKept
  <1>3. Inv => OutlivesLostRound
    <2> SUFFICES ASSUME Inv, NEW i \in NfId, nf[i] = "beat", answered[i], lostRounds[i] <= 1,
                        ~NrfDue(i)
                 PROVE  NfFound(i)
      BY DEF OutlivesLostRound
    <2>1. lostRounds[i] \in 0 .. 1 /\ hbWait[i] # 0
      BY DEF StoreInv, RegistryTypeOK, NrfDue
    <2>2. Age(i) >= 0 BY <2>1 DEF Remembered, Fresh
    <2> QED BY <2>2, ListedIsFound DEF Absent
  <1>4. Inv => RegistryTypeOK BY DEF StoreInv
  <1>5. RegistrySpec => []RecoversInBound BY <1>0, Recovers
  <1> QED BY <1>1, <1>2, <1>3, <1>4, <1>5, PTL DEF RegistrySpec, StaysListed

\* A call of a client is an entry in the directory, or nothing.
LEMMA ClientEnters ==
  ASSUME StoreInv, NEW i \in NfId,
         RegisterAndStartHeartbeat(i) \/ registerWithRetry(i) \/ heartbeatLoop(i)
  PROVE  Dir!Enter(i) \/ UNCHANGED Dir!dirVars
  <1>1. UNCHANGED <<link, backend>>
    BY DEF RegisterAndStartHeartbeat, registerWithRetry, heartbeatLoop
  <1>2. \/ /\ link # "down"
           /\ mem' = IF Memory THEN [mem EXCEPT ![i] = 0] ELSE mem
           /\ db' = IF Memory THEN db ELSE [db EXCEPT ![i] = 0]
           /\ answered' \in {answered, [answered EXCEPT ![i] = TRUE]}
        \/ UNCHANGED <<mem, db, answered>>
    <2>1. CASE link = "up"
      BY <2>1, CallHandled DEF RegisterAndStartHeartbeat, registerWithRetry, heartbeatLoop, Heeded
    <2>2. CASE link # "up"
      BY <2>2, CallHandled DEF RegisterAndStartHeartbeat, registerWithRetry, heartbeatLoop,
         NrfPerhaps, Unheeded, storeVars
    <2> QED BY <2>1, <2>2
  <1> QED BY <1>1, <1>2 DEF Dir!Enter, Dir!dirVars, Memory

\* Every step of the NRF, of the network, of the functions and of time is one of the
\* directory's, with either store.
LEMMA DirectoryStep ==
  ASSUME ~BlindReplace, StoreInv, StoreInv', [RegistryNext]_nrfVars
  PROVE  [Dir!DirNext]_(Dir!dirVars)
  <1> USE NrfAssumption, Bounds
  <1>1. ASSUME NEW i \in NfId,
               RegisterAndStartHeartbeat(i) \/ registerWithRetry(i) \/ heartbeatLoop(i)
        PROVE  [Dir!DirNext]_(Dir!dirVars)
    BY <1>1, ClientEnters DEF Dir!DirNext
  <1>2. ASSUME NEW i \in NfId, ReplaceNf(i) PROVE [Dir!DirNext]_(Dir!dirVars)
    <2>1. CASE Memory
      <3>1. Dir!Enter(i)
        BY <1>2, <2>1 DEF ReplaceNf, handleUpdate, memUpdate, memRegister, Memory, nrfGhosts,
           Dir!Enter
      <3> QED BY <3>1 DEF Dir!DirNext
    <2>2. CASE ~Memory
      <3>1. UNCHANGED <<link, backend, db, answered>>
        BY <1>2, <2>2 DEF ReplaceNf, Known, handleUpdate, redisUpdate, nrfGhosts, StoreInv,
           RegistryTypeOK
      <3> QED BY <2>2, <3>1 DEF Dir!dirVars, Memory
    <2> QED BY <2>1, <2>2
  <1>3. ASSUME NEW i \in NfId, NfStops(i) PROVE [Dir!DirNext]_(Dir!dirVars)
    <2>1. Dir!Release(i) BY <1>3 DEF NfStops, storeVars, Dir!Release
    <2> QED BY <2>1 DEF Dir!DirNext
  <1>4. ASSUME NEW i \in NfId, RemoveNf(i) PROVE [Dir!DirNext]_(Dir!dirVars)
    <2>1. Dir!Leave(i)
      BY <1>4 DEF RemoveNf, handleDeregister, memDeregister, redisDeregister, Memory, Absent,
         Dir!Leave, Dir!Unlisted
    <2> QED BY <2>1 DEF Dir!DirNext
  <1>5. CASE evictStale
    <2> DEFINE S == {i \in NfId : mem[i] > Timeout}
    <2>1. \A i \in S : mem[i] >= Timeout BY DEF StoreInv, RegistryTypeOK, Absent
    <2>2. mem' = [i \in NfId |-> IF i \in S THEN Absent ELSE mem[i]]
      BY <1>5 DEF evictStale
    <2>3. Dir!Drop(S)
      BY <1>5, <2>1, <2>2 DEF evictStale, nrfGhosts, Absent, Dir!Drop, Dir!Unlisted
    <2> QED BY <2>3 DEF Dir!DirNext
  <1>6. CASE NrfStarts
    <2>1. CASE backend = "redis" /\ backend' = "redis"
      <3>1. UNCHANGED <<db, answered>>
        BY <1>6, <2>1 DEF NrfStarts, storeVars, StoreInv, RegistryTypeOK
      <3>2. Dir!Start BY <1>6, <2>1, <3>1 DEF NrfStarts, Dir!Start
      <3> QED BY <3>2 DEF Dir!DirNext
    <2>2. CASE backend # "redis" \/ backend' # "redis"
      <3>1. answered' = Dir!Nothing
        BY <1>6, <2>2 DEF NrfStarts, StoreInv, RegistryTypeOK, Dir!Nothing
      <3>2. /\ mem' \in [NfId -> Absent .. (Timeout - 1)]
            /\ db' \in [NfId -> Absent .. (Timeout - 1)]
        BY <1>6 DEF NrfStarts, storeVars, StoreInv, RegistryTypeOK, EveryKeyExpires, Absent,
           Forever
      <3>3. Dir!Start
        BY <1>6, <3>1, <3>2 DEF NrfStarts, Absent, Dir!Start, Dir!Unlisted
      <3> QED BY <3>3 DEF Dir!DirNext
    <2> QED BY <2>1, <2>2
  <1>7. CASE NrfStops
    <2>1. CASE backend = "redis"
      <3>1. UNCHANGED <<backend, db, answered>>
        BY <1>7, <2>1 DEF NrfStops, StoreInv, RegistryTypeOK
      <3>2. Dir!Stop BY <1>7, <2>1, <3>1 DEF NrfStops, Dir!Stop
      <3> QED BY <3>2 DEF Dir!DirNext
    <2>2. CASE backend = "memory"
      <3>1. Dir!Stop
        BY <1>7, <2>2 DEF NrfStops, Absent, Dir!Stop, Dir!Nobody, Dir!Nothing, Dir!Unlisted
      <3> QED BY <3>1 DEF Dir!DirNext
    <2> QED BY <2>1, <2>2 DEF StoreInv, RegistryTypeOK
  <1>8. CASE LinkBreaks \/ LinkHeals \/ UNCHANGED nrfVars
    BY <1>8 DEF LinkBreaks, LinkHeals, nrfVars, storeVars, nrfGhosts, Dir!dirVars
  <1>9. CASE NrfTick
    <2>0. UNCHANGED <<link, backend, answered>> BY <1>9 DEF NrfTick
    <2>1. CASE Memory
      <3>1. /\ mem' = [i \in NfId |-> NrfAged(mem[i])]
            /\ \A i \in NfId : mem[i] \in Int /\ mem[i] >= Absent
            /\ \A i \in NfId : mem'[i] <= Timeout + Period
        BY <1>9 DEF NrfTick, StoreInv, RegistryTypeOK, Absent
      <3>2. \A i \in NfId : Dir!Older(i) = NrfAged(mem[i])
        BY <2>1, <3>1 DEF Memory, Dir!Older, Dir!Unlisted, NrfAged, Absent
      <3>3. Dir!DirTick({})
        BY <2>0, <2>1, <3>1, <3>2 DEF Memory, Dir!DirTick, Slack
      <3> QED BY <3>3 DEF Dir!DirNext
    <2>2. CASE ~Memory
      <3> DEFINE S == {i \in NfId : Expires(i)}
      <3>1. /\ db' = [i \in NfId |-> IF i \in S THEN Absent ELSE NrfAged(db[i])]
            /\ \A i \in NfId : db[i] \in Absent .. (Timeout - 1)
        BY <1>9 DEF NrfTick, StoreInv, RegistryTypeOK, EveryKeyExpires, Absent, Forever
      <3>2. \A i \in NfId : Dir!Older(i) = NrfAged(db[i]) /\ Dir!Older(i) <= Timeout + Slack
        BY <2>2, <3>1 DEF Memory, Dir!Older, Dir!Unlisted, NrfAged, Absent, Slack
      <3>3. \A i \in S : Dir!Older(i) >= Timeout
        BY <3>2 DEF Expires, NrfAged
      <3>4. Dir!DirTick(S)
        <4>1. db' = [i \in NfId |-> IF i \in S THEN Dir!Unlisted ELSE Dir!Older(i)]
          BY <3>1, <3>2 DEF Absent, Dir!Unlisted
        <4> HIDE DEF S
        <4> QED BY <2>0, <2>2, <3>2, <3>3, <4>1 DEF Memory, Dir!DirTick
      <3> QED BY <3>4 DEF Dir!DirNext
    <2> QED BY <2>1, <2>2
  <1> QED BY <1>1, <1>2, <1>3, <1>4, <1>5, <1>6, <1>7, <1>8, <1>9 DEF RegistryNext

\* The NRF, with whichever store each of its lives gets, implements the directory: an
\* answered function is dropped only for silence or by a deregistration, a silent one does
\* not stay, and a restart breaks no promise it does not take back.
THEOREM ImplementsDirectory ==
  ASSUME ~BlindReplace
  PROVE  RegistrySpec => IsDirectory
  <1>1. RegistryInit => StoreInv BY RegistryStarts
  <1>2. RegistryInit => Dir!DirInit
    BY DEF RegistryInit, Absent, Dir!DirInit, Dir!Nobody, Dir!Nothing, Dir!Unlisted
  <1>3. StoreInv /\ [RegistryNext]_nrfVars => StoreInv' BY StoresKept
  <1>4. StoreInv /\ StoreInv' /\ [RegistryNext]_nrfVars => [Dir!DirNext]_(Dir!dirVars)
    BY DirectoryStep
  <1> QED BY <1>1, <1>2, <1>3, <1>4, PTL DEF RegistrySpec, IsDirectory, Dir!DirSpec
=============================================================================
