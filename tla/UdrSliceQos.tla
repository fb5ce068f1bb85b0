---------------------------- MODULE UdrSliceQos ----------------------------
(***************************************************************************)
(* The subscribed Session-AMBR of the UDR: the slice_dnn_qos table, which  *)
(* an operator edits and a start of the UDR seeds from operator.yaml, the  *)
(* am-data the management portal writes straight into the database, and    *)
(* the sm-data derived from both, which the SMF reads.  Deriving is a read *)
(* of am-data, a snapshot of the table and a write of sm-data, three store *)
(* calls without a transaction around them, so handlers interleave.        *)
(***************************************************************************)
EXTENDS Naturals, FiniteSets, FiniteSetsExt

CONSTANTS SliceKeys,        \* (S-NSSAI, DNN) keys
          OperatorSlices,   \* the keys of operator.yaml's slices with the default DNN
          Rates,            \* Session-AMBR values besides DefaultAMBRForSlice
          Supis, DevSupis,  \* subscribers; those a start seeds, with the first slice
          UdrEvents,        \* the faults and the operations that happen
          MaxUdr            \* bound on requests, provisionings and restarts

VARIABLES sliceDnnQos,      \* the table: a row or NoRow per key
          operatorSeed,     \* operator.yaml's entries as the last start read them
          authSubs, amSubs, smSubs,  \* subscription_auth, subscription_am, subscription_sm
          handlers,         \* the requests being served; the start-up work is handler 1
          serving,          \* the SBI server runs
          unsynced,         \* portal writes whose sync-sm-data call is still to come
          edits,            \* history: the edit in force for a key
          disturbed,        \* history: subscribers a fault or an overtaking left behind
          udrOps

tableVars == <<sliceDnnQos, operatorSeed>>
subVars == <<authSubs, amSubs, smSubs>>
udrVars == <<tableVars, subVars, handlers, serving, unsynced, edits, disturbed, udrOps>>

DefaultAMBRForSlice == "default"
NoRow == [source |-> "absent"]
NoSub == {}                     \* subscription_am holds no row for the SUPI
Missing == [k \in {} |-> DefaultAMBRForSlice]
Handlers == {1, 2}
NoEntry == "none"
NoEdit == "none"

Ambrs == Rates \union {DefaultAMBRForSlice}
Row == [source: {"default", "operator", "edited"}, ambr: Ambrs,
        seedAmbr: Ambrs, seedSource: {"default", "operator"}]

Idle == [at |-> "idle"]
\* One ResyncSliceDNN after another for `keys`, one subscriber of `supis` after
\* another, and within one SyncSMDataFromAMContext the store call to come.
Work(at, keys, supis) == [at |-> at, keys |-> keys, supis |-> supis,
                          am |-> {}, ambrFor |-> Missing, overtaken |-> FALSE]
Current(h) == Min(handlers[h].supis)

---------------------------------------------------------------------------
(* The table. *)

\* DefaultSliceDNNQoS and seedRowFor: operator entry, else the default.
seedRowFor(entries, k) ==
    IF entries[k] # NoEntry
    THEN [ambr |-> entries[k], source |-> "operator"]
    ELSE [ambr |-> DefaultAMBRForSlice, source |-> "default"]

applyEdit(cur, ambr, seed) ==
    IF cur = NoRow
    THEN [source |-> "edited", ambr |-> ambr, seedAmbr |-> seed.ambr, seedSource |-> seed.source]
    ELSE [cur EXCEPT !.ambr = ambr, !.source = "edited"]

applyRevert(cur) ==
    IF cur.source # "edited" THEN cur
    ELSE [cur EXCEPT !.ambr = cur.seedAmbr, !.source = cur.seedSource]

applySeed(cur, seed) ==
    IF cur # NoRow /\ cur.source = "edited"
    THEN [cur EXCEPT !.seedAmbr = seed.ambr, !.seedSource = seed.source]
    ELSE [source |-> seed.source, ambr |-> seed.ambr, seedAmbr |-> seed.ambr, seedSource |-> seed.source]

\* SessionAMBRResolver: the table as it is now, the default where it has no row.
SessionAMBRResolver ==
    [k \in SliceKeys |-> IF sliceDnnQos[k] = NoRow THEN DefaultAMBRForSlice
                         ELSE sliceDnnQos[k].ambr]

BuildSMSubscriptions(slices, ambrFor) == [k \in slices |-> ambrFor[k]]

ListSUPIsForSliceDNN(k) == {s \in Supis : k \in amSubs[s]}
ListSliceKeysInUse == UNION {amSubs[s] : s \in Supis}

\* The keys SeedSliceDNNQoSFromEntries seeds.
SeedKeys(entries) == OperatorSlices \union ListSliceKeysInUse
                       \union {k \in SliceKeys : entries[k] # NoEntry}

\* SeedCounts.ChangedKeys: an inserted row against the fallback its subscribers
\* were built with, an existing one against its effective value.
ChangedKeys(entries) ==
    {k \in SeedKeys(entries) :
        applySeed(sliceDnnQos[k], seedRowFor(entries, k)).ambr # SessionAMBRResolver[k]}

\* The transactions on the table, each under the lock of its rows.
PutSliceDNNQoSEdited(k, ambr) ==
    sliceDnnQos' = [sliceDnnQos EXCEPT ![k] = applyEdit(@, ambr, seedRowFor(operatorSeed, k))]

RevertSliceDNNQoS(k) ==
    /\ sliceDnnQos[k] # NoRow
    /\ sliceDnnQos' = [sliceDnnQos EXCEPT ![k] = applyRevert(@)]

SeedSliceDNNQoS(entries) ==
    sliceDnnQos' = [k \in SliceKeys |->
                      IF k \in SeedKeys(entries)
                      THEN applySeed(sliceDnnQos[k], seedRowFor(entries, k))
                      ELSE sliceDnnQos[k]]

---------------------------------------------------------------------------
(* The handlers of the UDR. *)

Spend == /\ udrOps < MaxUdr
         /\ udrOps' = udrOps + 1

handlePutSliceQoS(h, k, ambr) ==
    /\ serving /\ handlers[h] = Idle /\ Spend
    /\ PutSliceDNNQoSEdited(k, ambr)
    /\ edits' = [edits EXCEPT ![k] = ambr]
    /\ handlers' = [handlers EXCEPT ![h] = Work("list", {k}, {})]
    /\ UNCHANGED <<operatorSeed, subVars, serving, unsynced, disturbed>>

\* 404 for a key without a row; sm-data is re-derived only after a change.
handleDeleteSliceQoS(h, k) ==
    /\ serving /\ handlers[h] = Idle /\ Spend
    /\ RevertSliceDNNQoS(k)
    /\ edits' = [edits EXCEPT ![k] = NoEdit]
    /\ handlers' = [handlers EXCEPT ![h] =
                      IF sliceDnnQos[k].source = "edited" THEN Work("list", {k}, {}) ELSE @]
    /\ UNCHANGED <<operatorSeed, subVars, serving, unsynced, disturbed>>

\* History: the handlers past their read of a subscriber that another one has now
\* written, or failed to.
Overtake(hs, s) ==
    [h \in Handlers |->
        IF hs[h].at \in {"table", "put"} /\ Min(hs[h].supis) = s
        THEN [hs[h] EXCEPT !.overtaken = TRUE] ELSE hs[h]]

\* The portal's sync-sm-data call, which may also be lost or time out.
handleSyncSMData(h, s) ==
    /\ serving /\ handlers[h] = Idle /\ s \in unsynced
    /\ unsynced' = unsynced \ {s}
    /\ handlers' = [handlers EXCEPT ![h] = Work("read", {}, {s})]
    /\ UNCHANGED <<tableVars, subVars, serving, edits, disturbed, udrOps>>

syncLost(s) ==
    /\ "failure" \in UdrEvents \/ ~serving
    /\ s \in unsynced
    /\ unsynced' = unsynced \ {s}
    /\ disturbed' = disturbed \union {s}
    /\ handlers' = Overtake(handlers, s)
    /\ UNCHANGED <<tableVars, subVars, serving, edits, udrOps>>

\* ResyncSliceDNN for the next key: list its subscribers.
ResyncSliceDNN(h) ==
    /\ handlers[h].at = "list"
    /\ \E k \in handlers[h].keys :
         LET rest == handlers[h].keys \ {k}
             affected == ListSUPIsForSliceDNN(k)
         IN handlers' = [handlers EXCEPT ![h] =
              IF affected # {} THEN Work("read", rest, affected)
              ELSE IF rest # {} THEN Work("list", rest, {})
              ELSE IF ~serving THEN Work("subscribers", {}, {}) ELSE Idle]
    /\ UNCHANGED <<tableVars, subVars, serving, unsynced, edits, disturbed, udrOps>>

\* Where a handler goes when it is done with one subscriber.
AfterSubscriber(h) ==
    LET rest == handlers[h].supis \ {Current(h)}
        keys == handlers[h].keys
    IN IF rest # {} THEN Work("read", keys, rest)
       ELSE IF keys # {} THEN Work("list", keys, {})
       ELSE IF ~serving THEN Work("subscribers", {}, {})
       ELSE Idle

\* SyncSMDataFromAMContext: am-data, then the table, then the write.
readAM(h) ==
    /\ handlers[h].at = "read"
    /\ handlers' = [handlers EXCEPT ![h] =
         IF amSubs[Current(h)] = NoSub THEN AfterSubscriber(h)
         ELSE [@ EXCEPT !.at = "table", !.am = amSubs[Current(h)]]]
    /\ UNCHANGED <<tableVars, subVars, serving, unsynced, edits, disturbed, udrOps>>

readTable(h) ==
    /\ handlers[h].at = "table"
    /\ handlers' = [handlers EXCEPT ![h].at = "put", ![h].ambrFor = SessionAMBRResolver]
    /\ UNCHANGED <<tableVars, subVars, serving, unsynced, edits, disturbed, udrOps>>

PutSMSubscriptions(h) ==
    LET s == Current(h)
    IN /\ handlers[h].at = "put"
       /\ smSubs' = [smSubs EXCEPT ![s] = BuildSMSubscriptions(handlers[h].am, handlers[h].ambrFor)]
       /\ disturbed' = IF handlers[h].overtaken THEN disturbed \union {s} ELSE disturbed \ {s}
       /\ handlers' = Overtake([handlers EXCEPT ![h] = AfterSubscriber(h)], s)
       /\ UNCHANGED <<tableVars, authSubs, amSubs, serving, unsynced, edits, udrOps>>

\* A store call of one subscriber fails: it is collected in Failed, nothing more.
resyncFailed(h) ==
    /\ "failure" \in UdrEvents
    /\ handlers[h].at \in {"read", "table", "put"}
    /\ disturbed' = disturbed \union {Current(h)}
    /\ handlers' = Overtake([handlers EXCEPT ![h] = AfterSubscriber(h)], Current(h))
    /\ UNCHANGED <<tableVars, subVars, serving, unsynced, edits, udrOps>>

---------------------------------------------------------------------------
(* Start and crash of the UDR. *)

FirstSlice == {Min(OperatorSlices)}

\* SeedSliceDNNQoSFromEntries with the entries of the operator.yaml of this
\* start, one transaction; the keys it changed are then re-derived.
SeedAndResyncSliceDNNQoS(entries) ==
    /\ ~serving /\ handlers[1].at = "idle"
    /\ operatorSeed' = entries
    /\ SeedSliceDNNQoS(entries)
    /\ handlers' = [handlers EXCEPT ![1] =
                      IF ChangedKeys(entries) = {} THEN Work("subscribers", {}, {})
                      ELSE Work("list", ChangedKeys(entries), {})]
    /\ UNCHANGED <<subVars, serving, unsynced, edits, disturbed, udrOps>>

\* SeedTestSubscriberWithNSSAI for a development subscriber without auth data:
\* auth, am and, through the table, sm, one store call each.
seedAuth ==
    /\ handlers[1].at = "subscribers"
    /\ \E s \in DevSupis \ authSubs :
         /\ authSubs' = authSubs \union {s}
         /\ handlers' = [handlers EXCEPT ![1] = Work("am", {}, {s})]
    /\ UNCHANGED <<tableVars, amSubs, smSubs, serving, unsynced, edits, disturbed, udrOps>>

seedAM ==
    /\ handlers[1].at = "am"
    /\ amSubs' = [amSubs EXCEPT ![Current(1)] = FirstSlice]
    /\ handlers' = [handlers EXCEPT ![1].at = "table", ![1].am = FirstSlice]
    /\ UNCHANGED <<tableVars, authSubs, smSubs, serving, unsynced, edits, disturbed, udrOps>>

Serve ==
    /\ handlers[1].at = "subscribers" /\ DevSupis \subseteq authSubs
    /\ handlers' = [handlers EXCEPT ![1] = Idle]
    /\ serving' = TRUE
    /\ UNCHANGED <<tableVars, subVars, unsynced, edits, disturbed, udrOps>>

\* The subscribers whose work a crash cuts short.
LeftBehind ==
    UNION {IF handlers[h] = Idle THEN {}
           ELSE handlers[h].supis \union UNION {ListSUPIsForSliceDNN(k) : k \in handlers[h].keys}
             : h \in Handlers}

Crash ==
    /\ "crash" \in UdrEvents /\ Spend
    /\ serving' = FALSE
    /\ handlers' = [h \in Handlers |-> Idle]
    /\ disturbed' = disturbed \union LeftBehind
    /\ UNCHANGED <<tableVars, subVars, unsynced, edits>>

---------------------------------------------------------------------------
(* The management portal, on the same database. *)

\* UpsertSubscriber commits auth and am together; syncSMData follows.
UpsertSubscriber(s, slices) ==
    /\ "provision" \in UdrEvents /\ Spend
    /\ authSubs' = authSubs \union {s}
    /\ amSubs' = [amSubs EXCEPT ![s] = slices]
    /\ unsynced' = unsynced \union {s}
    /\ UNCHANGED <<tableVars, smSubs, handlers, serving, edits, disturbed>>

DeleteSubscriber(s) ==
    /\ "provision" \in UdrEvents /\ s \in authSubs /\ Spend
    /\ authSubs' = authSubs \ {s}
    /\ amSubs' = [amSubs EXCEPT ![s] = NoSub]
    /\ smSubs' = [smSubs EXCEPT ![s] = Missing]
    /\ disturbed' = disturbed \ {s}
    /\ handlers' = Overtake(handlers, s)
    /\ UNCHANGED <<tableVars, serving, unsynced, edits>>

---------------------------------------------------------------------------
UdrInit ==
    /\ sliceDnnQos = [k \in SliceKeys |-> NoRow]
    /\ operatorSeed = [k \in SliceKeys |-> NoEntry]
    /\ authSubs = {}
    /\ amSubs = [s \in Supis |-> NoSub]
    /\ smSubs = [s \in Supis |-> Missing]
    /\ handlers = [h \in Handlers |-> Idle]
    /\ serving = FALSE
    /\ unsynced = {}
    /\ edits = [k \in SliceKeys |-> NoEdit]
    /\ disturbed = {}
    /\ udrOps = 0

Entries == [SliceKeys -> Rates \union {NoEntry}]

UdrNext ==
    \/ \E entries \in Entries : SeedAndResyncSliceDNNQoS(entries)
    \/ seedAuth \/ seedAM \/ Serve \/ Crash
    \/ \E h \in Handlers :
         \/ \E k \in SliceKeys : \/ \E a \in Ambrs : handlePutSliceQoS(h, k, a)
                                 \/ handleDeleteSliceQoS(h, k)
         \/ \E s \in Supis : handleSyncSMData(h, s)
         \/ ResyncSliceDNN(h) \/ readAM(h) \/ readTable(h) \/ PutSMSubscriptions(h)
         \/ resyncFailed(h)
    \/ \E s \in Supis :
         \/ syncLost(s)
         \/ \E slices \in SUBSET SliceKeys \ {{}} : UpsertSubscriber(s, slices)
         \/ DeleteSubscriber(s)

UdrSpec == UdrInit /\ [][UdrNext]_udrVars

---------------------------------------------------------------------------
\* The variables of the UDR and the portal have their types.
UdrTypeOK ==
    /\ sliceDnnQos \in [SliceKeys -> Row \union {NoRow}]
    /\ operatorSeed \in Entries
    /\ authSubs \subseteq Supis
    /\ amSubs \in [Supis -> SUBSET SliceKeys]
    /\ \A s \in Supis : DOMAIN smSubs[s] \subseteq SliceKeys
                        /\ \A k \in DOMAIN smSubs[s] : smSubs[s][k] \in Ambrs
    /\ \A h \in Handlers : handlers[h].at \in
         {"idle", "list", "read", "table", "put", "subscribers", "am"}
    /\ unsynced \union disturbed \subseteq Supis
    /\ serving \in BOOLEAN
    /\ udrOps \in 0..MaxUdr

\* An edit stays in force, whatever operator.yaml says at later starts, until it
\* is reverted, and a revert gives the value of the operator.yaml the running UDR
\* was started with, not of the one the row was edited under.
EditsOutliveSeeds ==
    \A k \in SliceKeys : LET row == sliceDnnQos[k] IN row # NoRow =>
        /\ row.source = "edited" <=> edits[k] # NoEdit
        /\ row.ambr = IF edits[k] # NoEdit THEN edits[k] ELSE row.seedAmbr
        /\ serving /\ k \in OperatorSlices => row.seedAmbr = seedRowFor(operatorSeed, k).ambr

UdrQuiet == serving /\ unsynced = {} /\ \A h \in Handlers : handlers[h] = Idle

Derived(s) == BuildSMSubscriptions(amSubs[s], SessionAMBRResolver)

\* Once every request is served, what the SMF reads of a subscriber is what the
\* table and its am-data say, unless a store call failed, a call of the portal
\* was lost, the UDR crashed or one derivation overtook another since the last
\* derivation of that subscriber that began after it; and no subscriber is half provisioned.
StaleOnlyIfDisturbed ==
    UdrQuiet => \A s \in Supis \ disturbed :
                   /\ smSubs[s] = Derived(s)
                   /\ s \in authSubs <=> amSubs[s] # NoSub

\* ResyncSliceDNN "reads the table, never a request body, so concurrent edits
\* converge": once the requests are served, sm-data follows the table.
ConcurrentEditsConverge ==
    UdrQuiet => \A s \in Supis : smSubs[s] = Derived(s)
============================================================================
