----------------------------- MODULE BsfStore -----------------------------
(* The BSF: the bindings that tell which PCF serves the session with a UE address, with
   their two indexes, kept in memory under one lock.  A binding is its bindingId; the
   PCF registers one per SM policy, so the policy that asked for it names it.        *)
EXTENDS Naturals, FiniteSets

CONSTANTS Policy, Addr, Supi,
          SupiOf,      \* the subscriber of each session
          None

ASSUME BsfAssumption == /\ None \notin Policy /\ None \notin Addr /\ None \notin Supi
                        /\ SupiOf \in [Policy -> Supi]

VARIABLES bindings,    \* Store.bindings: the address of each binding, None for no binding
          ipv4Index,   \* Store.ipv4Index
          supiIndex    \* Store.supiIndex

bsfVars == <<bindings, ipv4Index, supiIndex>>

BsfTypeOK ==
    /\ bindings \in [Policy -> Addr \cup {None}]
    /\ ipv4Index \in [Addr -> Policy \cup {None}]
    /\ supiIndex \in [Supi -> SUBSET Policy]

BsfInit ==
    /\ bindings = [b \in Policy |-> None]
    /\ ipv4Index = [a \in Addr |-> None]
    /\ supiIndex = [s \in Supi |-> {}]

Bound(b) == bindings[b] # None

\* The address has a binding: the registration is refused with 403.
Existing(a) == ipv4Index[a] # None

\* Mutant: a newer registration replaces the one there is.
ReplacesExisting(b, a) ==
    /\ bindings' = [bindings EXCEPT ![b] = a]
    /\ ipv4Index' = [ipv4Index EXCEPT ![a] = b]
    /\ supiIndex' = [supiIndex EXCEPT ![SupiOf[b]] = @ \cup {b}]

Create(b, a) ==
    IF Existing(a)
    THEN UNCHANGED bsfVars
    ELSE /\ bindings' = [bindings EXCEPT ![b] = a]
         /\ ipv4Index' = [ipv4Index EXCEPT ![a] = b]
         /\ supiIndex' = [supiIndex EXCEPT ![SupiOf[b]] = @ \cup {b}]

\* Mutant: the address index is left as it is.
DeleteKeepsIndex(b) ==
    /\ bindings' = [bindings EXCEPT ![b] = None]
    /\ supiIndex' = [supiIndex EXCEPT ![SupiOf[b]] = @ \ {b}]
    /\ UNCHANGED ipv4Index

\* An unknown bindingId is answered with 404 and changes nothing.
Delete(b) ==
    /\ ipv4Index' = [a \in Addr |-> IF a = bindings[b] THEN None ELSE ipv4Index[a]]
    /\ supiIndex' = IF Bound(b) THEN [supiIndex EXCEPT ![SupiOf[b]] = @ \ {b}] ELSE supiIndex
    /\ bindings' = [bindings EXCEPT ![b] = None]

\* What a discovery by UE address answers; None is 404.
FindByQuery(a) ==
    IF ipv4Index[a] # None /\ bindings[ipv4Index[a]] = a THEN ipv4Index[a] ELSE None

\* The process restarts with an empty store.
BsfRestart ==
    /\ bindings' = [b \in Policy |-> None]
    /\ ipv4Index' = [a \in Addr |-> None]
    /\ supiIndex' = [s \in Supi |-> {}]
=============================================================================
