---------------------------- MODULE NfDirectory ----------------------------
(* What the NRF promises: a directory of soft state.  While it serves, a function is listed
   from its registration on, and it leaves the directory only when it is deregistered or has
   not been heard of for Timeout ticks; nobody who has been silent for more than
   Timeout + Slack ticks is still listed.  A directory that stops and starts again comes back
   with what it had, or owes nobody anything.                                            *)
EXTENDS Integers

CONSTANTS NfId,          \* instance identifiers
          Timeout,       \* silence after which a function may be dropped
          Slack          \* by how much a drop may be late

VARIABLES serving,       \* the directory runs
          age,           \* ticks since a listed function was last heard of
          owed           \* whom the directory has told that they are listed

dirVars == <<serving, age, owed>>

Unlisted == -1
Nobody == [i \in NfId |-> Unlisted]
Nothing == [i \in NfId |-> FALSE]

DirInit == serving = FALSE /\ age = Nobody /\ owed = Nothing

\* A registration or a heartbeat; whoever sent it may miss the answer.
Enter(i) ==
    /\ serving /\ age' = [age EXCEPT ![i] = 0]
    /\ owed' \in {owed, [owed EXCEPT ![i] = TRUE]}
    /\ UNCHANGED serving

Leave(i) ==
    /\ serving /\ age[i] # Unlisted
    /\ age' = [age EXCEPT ![i] = Unlisted] /\ owed' = [owed EXCEPT ![i] = FALSE]
    /\ UNCHANGED serving

\* The function ends without a word: nothing is owed to it any more.
Release(i) == owed' = [owed EXCEPT ![i] = FALSE] /\ UNCHANGED <<serving, age>>

Drop(S) ==
    /\ serving /\ \A i \in S : age[i] >= Timeout
    /\ age' = [i \in NfId |-> IF i \in S THEN Unlisted ELSE age[i]]
    /\ UNCHANGED <<serving, owed>>

\* A tick may also drop who has just been silent for Timeout ticks.
Older(i) == IF age[i] = Unlisted THEN Unlisted ELSE age[i] + 1

DirTick(S) ==
    /\ \A i \in NfId \ S : Older(i) <= Timeout + Slack
    /\ \A i \in S : Older(i) >= Timeout
    /\ age' = [i \in NfId |-> IF i \in S THEN Unlisted ELSE Older(i)]
    /\ UNCHANGED <<serving, owed>>

Stop ==
    /\ serving /\ serving' = FALSE
    /\ UNCHANGED <<age, owed>> \/ (age' = Nobody /\ owed' = Nothing)

Start ==
    /\ ~serving /\ serving' = TRUE
    /\ \/ UNCHANGED <<age, owed>>
       \/ age' \in [NfId -> Unlisted .. (Timeout - 1)] /\ owed' = Nothing

DirNext ==
    \/ \E i \in NfId : Enter(i) \/ Leave(i) \/ Release(i)
    \/ \E S \in SUBSET NfId : Drop(S) \/ DirTick(S)
    \/ Stop \/ Start

DirSpec == DirInit /\ [][DirNext]_dirVars
=============================================================================
