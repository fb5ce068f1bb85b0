---------------------------- MODULE PcfOverride ----------------------------
(***************************************************************************)
(* The PCF's per-subscriber QoS overrides (nf/pcf/internal/server): an     *)
(* operator sets and deletes them in memory, each change is written        *)
(* through to the subscriber's document at the UDR, and a new SM policy is *)
(* decided from memory, the document, the subscription and the operator's  *)
(* defaults, in this order.                                                *)
(*                                                                         *)
(* One subscriber.  An override covers every DNN ("wide") or the DNN of    *)
(* the session ("dnn").  The document has the PCF's bucket and the one of  *)
(* a slice that is provisioned at the UDR directly.  Rates are counted in  *)
(* halves of a Mbps, 0 is the absent rate.                                 *)
(***************************************************************************)
EXTENDS Integers, FiniteSets

CONSTANTS
    OvQos,          \* [qi, rate]: overrides an operator may set
    OvEvents,       \* subset of {"restart", "failure", "provision"}
    MaxOv           \* bound on operator actions and faults

VARIABLES
    smPolicyOverrides,  \* PCF memory: scope -> override or NoQos
    doc,                \* UDR: [held, pcf, slice]
    writers,            \* requests between their change and the UDR's answer
    provisioned,        \* what was last provisioned for the slice
    rough,              \* the bucket was written by overlapping or failed requests
    crossed,            \* a provisioning met a write-through
    wanted,             \* scope -> the override the operator was told is set
    memory,             \* "full", "lost" by a restart, or "partial": changed after it
    ovDone

ovHistory == <<provisioned, crossed, wanted, memory>>
ovVars == <<smPolicyOverrides, doc, writers, rough, ovHistory, ovDone>>

Scopes == {"wide", "dnn"}
NoQos == [qi |-> 0, rate |-> 0]
Empty == [s \in Scopes |-> NoQos]

Step == ovDone < MaxOv /\ ovDone' = ovDone + 1

(***************************************************************************)
(* Deciding a new policy.                                                  *)
(***************************************************************************)

\* Fields an entry leaves out keep the value decided so far.
Over(entry, base) ==
    [qi |-> IF entry.qi # 0 THEN entry.qi ELSE base.qi,
     rate |-> IF entry.rate # 0 THEN entry.rate ELSE base.rate]

\* The entries of the document that may be chosen: one for the DNN in any
\* bucket, else a subscriber-wide one.  Buckets are visited in no fixed order.
resolveSmPolicyDnnData(d) ==
    LET of(scope) == {e \in {d.pcf[scope], d.slice[scope]} : e # NoQos}
    IN IF of("dnn") # {} THEN of("dnn") ELSE of("wide")

\* The in-memory override for the DNN, else the subscriber-wide one.
Override == IF smPolicyOverrides["dnn"] # NoQos THEN smPolicyOverrides["dnn"]
            ELSE smPolicyOverrides["wide"]

\* The decisions a new policy may get on top of subscription or default.  A
\* failed read of the document counts as an empty one.
handleCreateSmPolicy(base) ==
    LET found == resolveSmPolicyDnnData(doc)
    IN IF Override # NoQos THEN {Over(Override, base)}
       ELSE (IF found = {} THEN {base} ELSE {Over(e, base) : e \in found})
            \cup (IF "failure" \in OvEvents THEN {base} ELSE {})

(***************************************************************************)
(* The write-through: rebuild, read, write, with no lock around them.      *)
(***************************************************************************)

\* Another request is under way: neither knows of the other's write.
Begins(w) ==
    /\ writers' = writers \cup {w}
    /\ rough' = (writers # {})

Changes(scope, q) ==
    /\ smPolicyOverrides' = [smPolicyOverrides EXCEPT ![scope] = q]
    /\ wanted' = [wanted EXCEPT ![scope] = q]
    /\ memory' = IF memory = "lost" THEN "partial" ELSE memory
    /\ UNCHANGED <<doc, provisioned, crossed>>

handleSetQoSOverride(scope, q) ==
    /\ Step
    /\ Changes(scope, q)
    /\ Begins([id |-> ovDone, at |-> "rebuild", bucket |-> Empty, read |-> doc])

\* An override that is not in memory is answered 404 and left in the document.
handleDeleteQoSOverride(scope) ==
    /\ Step
    /\ smPolicyOverrides[scope] # NoQos
    /\ Changes(scope, NoQos)
    /\ Begins([id |-> ovDone, at |-> "rebuild", bucket |-> Empty, read |-> doc])

\* persistSmPolicyToUDR: the overrides in memory, under the lock.
buildOverrideDnnData(w) ==
    /\ w.at = "rebuild"
    /\ writers' = (writers \ {w}) \cup {[w EXCEPT !.at = "get", !.bucket = smPolicyOverrides]}
    /\ UNCHANGED <<smPolicyOverrides, doc, rough, ovHistory, ovDone>>

\* The document as it is now; none counts as an empty one.
GetSmPolicyData(w) ==
    /\ w.at = "get"
    /\ writers' = (writers \ {w}) \cup {[w EXCEPT !.at = "put", !.read = doc]}
    /\ UNCHANGED <<smPolicyOverrides, doc, rough, ovHistory, ovDone>>

\* Only the PCF's own bucket is replaced.
persistSmPolicyToUDR(w) ==
    /\ w.at = "put"
    /\ doc' = [held |-> TRUE, pcf |-> w.bucket, slice |-> w.read.slice]
    /\ writers' = writers \ {w}
    /\ UNCHANGED <<smPolicyOverrides, rough, ovHistory, ovDone>>

\* Either call fails: the override stays in memory only.
udrCallFails(w) ==
    /\ Step
    /\ "failure" \in OvEvents
    /\ w.at \in {"get", "put"}
    /\ writers' = writers \ {w}
    /\ rough' = TRUE
    /\ UNCHANGED <<smPolicyOverrides, doc, ovHistory>>

(***************************************************************************)
(* The document provisioned beside the PCF, and the PCF's restart.         *)
(***************************************************************************)

\* A document is replaced as a whole, or its slice merged if there is one.
handlePutSmPolicyData(q) ==
    /\ Step
    /\ "provision" \in OvEvents
    /\ ~doc.held
    /\ doc' = [held |-> TRUE, pcf |-> Empty, slice |-> [Empty EXCEPT !["dnn"] = q]]
    /\ provisioned' = doc'.slice
    /\ crossed' = (crossed \/ writers # {})
    /\ rough' = (rough \/ writers # {})
    /\ UNCHANGED <<smPolicyOverrides, writers, wanted, memory>>

handlePatchSmPolicyData(q) ==
    /\ Step
    /\ "provision" \in OvEvents
    /\ doc.held
    /\ doc' = [doc EXCEPT !.slice["dnn"] = q]
    /\ provisioned' = [provisioned EXCEPT !["dnn"] = q]
    /\ crossed' = (crossed \/ writers # {})
    /\ UNCHANGED <<smPolicyOverrides, writers, rough, wanted, memory>>

PcfRestarts ==
    /\ Step
    /\ "restart" \in OvEvents
    /\ smPolicyOverrides' = Empty
    /\ writers' = {}
    /\ rough' = (rough \/ writers # {})
    /\ memory' = "lost"
    /\ UNCHANGED <<doc, provisioned, crossed, wanted>>

OvInit ==
    /\ smPolicyOverrides = Empty
    /\ doc = [held |-> FALSE, pcf |-> Empty, slice |-> Empty]
    /\ writers = {}
    /\ provisioned = Empty
    /\ rough = FALSE
    /\ crossed = FALSE
    /\ wanted = Empty
    /\ memory = "full"
    /\ ovDone = 0

WriteThrough ==
    \E w \in writers :
        \/ buildOverrideDnnData(w)
        \/ GetSmPolicyData(w)
        \/ persistSmPolicyToUDR(w)
        \/ udrCallFails(w)

Operator ==
    \/ \E scope \in Scopes, q \in OvQos : handleSetQoSOverride(scope, q)
    \/ \E scope \in Scopes : handleDeleteQoSOverride(scope)
    \/ \E q \in OvQos : handlePutSmPolicyData(q)
    \/ \E q \in OvQos : handlePatchSmPolicyData(q)

(***************************************************************************)
(* Properties.                                                             *)
(***************************************************************************)

OvTypeOK ==
    /\ smPolicyOverrides \in [Scopes -> OvQos \cup {NoQos}]
    /\ doc.pcf \in [Scopes -> OvQos \cup {NoQos}]
    /\ doc.slice \in [Scopes -> OvQos \cup {NoQos}]
    /\ \A w \in writers : w.at \in {"rebuild", "get", "put"}

\* Write-through (persistSmPolicyToUDR): once no request is under way, the
\* PCF's bucket holds exactly the overrides in memory; what overlapping
\* requests, a failed call or a restart left behind is repaired by the next
\* request that runs alone.
BucketFollowsMemory ==
    writers = {} /\ ~rough /\ memory # "lost" => doc.pcf = smPolicyOverrides

\* "This keeps directly-provisioned per-S-NSSAI slices intact" (server.go,
\* persistSmPolicyToUDR): no override change touches a provisioned slice,
\* unless the provisioning fell between the PCF's read and its write.
SlicesIntact ==
    ~crossed => doc.slice = provisioned

Remembered == \A s \in Scopes : wanted[s] # NoQos => wanted[s] \in {smPolicyOverrides[s], doc.pcf[s]}

\* An override written without disturbance survives a restart of the PCF in
\* the document, as long as no other override is changed after it.
RestartKeepsOverrides ==
    writers = {} /\ ~rough /\ memory # "partial" => Remembered

\* "Write-through to the UDR (N36) so the policy is repository-backed"
\* (server.go, handleSetQoSOverride): an undisturbed override is never lost.
OverridesOutliveRestart ==
    writers = {} /\ ~rough => Remembered
=============================================================================
