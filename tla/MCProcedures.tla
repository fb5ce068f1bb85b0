---------------------------- MODULE MCProcedures ----------------------------
(* Instances of PcfPolicy, AmfHandover and Positioning for TLC.  The three share no state and
   are checked side by side: a behaviour is one of one, and the others keep an initial state. *)
EXTENDS PcfPolicy, AmfHandover, Positioning, TLC

VARIABLE part

procVars == <<part, policyVars, hoVars, locVars>>

MCSupiOf == [p \in Policy |-> CHOOSE s \in Supi : TRUE]
MCOthers == {<<g, 1>> : g \in HoGnb \ {Home}}

\* Requests are alike: none is chosen by its name.
LocSymmetry == Permutations(LocReqs)

ProceduresInit ==
    /\ PolicyInit /\ HandoverInit /\ LocInit /\ part \in {"policy", "handover", "loc"}
    /\ part # "loc" => \A u \in LocUes : locCmState[u] = "connected"
    /\ part # "handover" => chain /\ allowed /\ \A r \in HoRan : served.r <= r

ProceduresNext ==
    \/ part = "policy" /\ PolicyNext /\ UNCHANGED <<part, hoVars, locVars>>
    \/ part = "handover" /\ HandoverNext /\ UNCHANGED <<part, policyVars, locVars>>
    \/ part = "loc" /\ LocNext /\ UNCHANGED <<part, policyVars, hoVars>>

ProceduresSpec == ProceduresInit /\ [][ProceduresNext]_procVars
-----------------------------------------------------------------------------
\* Positioning: a position rests on a measurement of its own request, a running request can be
\* cancelled, and whoever waits for a paged device is woken when it connects.
FixesSettle == part = "loc" => LocTypeOK /\ FixesAreMeasured /\ CancelReaches /\ PagedAreWoken
=============================================================================
