------------------------------ MODULE UpfPfcp -------------------------------
(***************************************************************************)
(* The UPF's PFCP server: the session table with its four lookup indexes   *)
(* and the handlers of the session messages.  One goroutine reads the      *)
(* socket and runs a handler to its end, so a handler is one action.       *)
(*                                                                         *)
(* An index holds the reference of a Session object, as the Go maps hold   *)
(* its pointer; an object no index leads to is NoObj.                      *)
(***************************************************************************)
EXTENDS N4

VARIABLES
    upfObj,       \* Session objects: address, prefix, SEID and DL tunnel
    bySEID, byULTEID, byUEIP, byUEIPv6Net    \* SessionTable's indexes

upfVars == <<upfObj, bySEID, byULTEID, byUEIP, byUEIPv6Net>>

NoObj == [seid |-> None, ip |-> None, pfx |-> None, dl |-> None]

UpfTypeOK ==
    /\ upfObj \in [Refs -> [seid : SEIDs \cup {None}, ip : Hosts \cup {None},
                            pfx : Prefixes \cup {None}, dl : Tunnels \cup {None}]]
    /\ bySEID \in [SEIDs -> Refs \cup {None}]
    /\ byULTEID \in [SEIDs -> Refs \cup {None}]
    /\ byUEIP \in [Hosts -> Refs \cup {None}]
    /\ byUEIPv6Net \in [Prefixes -> Refs \cup {None}]

NewSessionTable ==
    /\ bySEID = [s \in SEIDs |-> None]
    /\ byULTEID = [s \in SEIDs |-> None]
    /\ byUEIP = [a \in Hosts |-> None]
    /\ byUEIPv6Net = [p \in Prefixes |-> None]

UpfInit ==
    /\ upfObj = [r \in Refs |-> NoObj]
    /\ NewSessionTable

\* f with key mapped to r; an absent address has no entry to set.
Index(f, key, r) == [k \in DOMAIN f |-> IF k = key THEN r ELSE f[k]]

Answer(m, cause) == [type |-> "rsp", req |-> m, cause |-> cause]

Respond(m, cause) ==
    net' = (net \ {m}) \cup (IF Awaited(m) THEN {Answer(m, cause)} ELSE {})

\* SessionTable.store: the new object takes over every index entry of its keys.
store(m) ==
    /\ bySEID' = Index(bySEID, m.seid, m.ref)
    /\ byULTEID' = Index(byULTEID, m.seid, m.ref)
    /\ byUEIP' = Index(byUEIP, m.ip, m.ref)
    /\ byUEIPv6Net' = Index(byUEIPv6Net, m.pfx, m.ref)

\* Mutant: the /64 index is forgotten.
deleteKeepsPrefix(seid) ==
    LET o == upfObj[bySEID[seid]] IN
    /\ bySEID' = Index(bySEID, seid, None)
    /\ byULTEID' = Index(byULTEID, o.seid, None)
    /\ byUEIP' = Index(byUEIP, o.ip, None)
    /\ byUEIPv6Net' = byUEIPv6Net

\* SessionTable.delete: the entries of the object's keys go, whatever they hold.
delete(seid) ==
    LET o == upfObj[bySEID[seid]] IN
    /\ bySEID' = Index(bySEID, seid, None)
    /\ byULTEID' = Index(byULTEID, o.seid, None)
    /\ byUEIP' = Index(byUEIP, o.ip, None)
    /\ byUEIPv6Net' = Index(byUEIPv6Net, o.pfx, None)

handleSessionEstablishment(m) ==
    /\ m \in net /\ m.type = "est"
    /\ upfObj' = [upfObj EXCEPT ![m.ref] =
                    [seid |-> m.seid, ip |-> m.ip, pfx |-> m.pfx, dl |-> None]]
    /\ store(m)
    /\ Respond(m, "accepted")

handleSessionModification(m) ==
    /\ m \in net /\ m.type = "mod"
    /\ \/ /\ bySEID[m.seid] = None
          /\ upfObj' = upfObj
          /\ Respond(m, "notFound")
       \/ /\ bySEID[m.seid] # None
          /\ upfObj' = [upfObj EXCEPT ![bySEID[m.seid]].dl = m.far]
          /\ Respond(m, "accepted")
    /\ UNCHANGED <<bySEID, byULTEID, byUEIP, byUEIPv6Net>>

handleSessionDeletion(m) ==
    /\ m \in net /\ m.type = "del"
    /\ \/ /\ bySEID[m.seid] = None
          /\ UNCHANGED upfVars
          /\ Respond(m, "notFound")
       \/ /\ bySEID[m.seid] # None
          /\ delete(m.seid)
          /\ upfObj' = [upfObj EXCEPT ![bySEID[m.seid]] = NoObj]
          /\ Respond(m, "accepted")

\* An Association Setup Request is answered; the session table is left as it is.
handleAssociationSetup(m) ==
    /\ m \in net /\ m = AssocMsg
    /\ net' = net \ {m}
    /\ UNCHANGED upfVars

\* The UPF process restarts: its session table is in memory only.
UpfRestart ==
    /\ upfObj' = [r \in Refs |-> NoObj]
    /\ bySEID' = [s \in SEIDs |-> None]
    /\ byULTEID' = [s \in SEIDs |-> None]
    /\ byUEIP' = [a \in Hosts |-> None]
    /\ byUEIPv6Net' = [p \in Prefixes |-> None]
    /\ net' = net

UpfNext ==
    \/ \E m \in net : \/ handleSessionEstablishment(m)
                      \/ handleSessionModification(m)
                      \/ handleSessionDeletion(m)
                      \/ handleAssociationSetup(m)

-----------------------------------------------------------------------------
\* The sessions the table knows by SEID.
Stored == {bySEID[s] : s \in SEIDs} \ {None}

\* Every entry of the address and TEID indexes leads to a session that the table
\* still knows by its SEID: the datapath never forwards for a deleted session.
IndexesLeadToStored ==
    /\ \A s \in SEIDs : byULTEID[s] # None => byULTEID[s] \in Stored
    /\ \A a \in Hosts : byUEIP[a] # None => byUEIP[a] \in Stored /\ upfObj[byUEIP[a]].ip = a
    /\ \A p \in Prefixes : byUEIPv6Net[p] # None =>
            byUEIPv6Net[p] \in Stored /\ upfObj[byUEIPv6Net[p]].pfx = p
=============================================================================
