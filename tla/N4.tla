--------------------------------- MODULE N4 ---------------------------------
(***************************************************************************)
(* The N4 reference point between the SMF and the UPF: the PFCP session    *)
(* messages the two exchange over UDP, and the UE address space both sides *)
(* index their sessions by.  A datagram may be lost and datagrams may      *)
(* overtake one another: each SMF exchange opens a socket of its own.      *)
(***************************************************************************)
EXTENDS Integers

CONSTANTS
    Refs,        \* SM context references (uuids); one SM context each
    Tunnels,     \* gNB DL tunnels (IP address and TEID)
    None,        \* an absent address, tunnel, SEID or index entry
    PoolLast,    \* last host offset of the DNN's IPv4 subnet
    MaxSEID,     \* bound on the SEID and TEID counters (uint64 and uint32 in the code)
    PrefixMax    \* number of /64s the DNN's IPv6 pool can delegate (0: IPv4 only)

ASSUME N4Assumption ==
    /\ PoolLast \in Nat
    /\ MaxSEID \in Nat
    /\ PrefixMax \in Nat
    /\ None \notin Refs \cup Tunnels \cup Int

\* Offset 0 is the network address and 1 the gateway: Allocate hands out neither.
Hosts == {o \in 0..PoolLast : o # 0 /\ o # 1}
Prefixes == 0..(PrefixMax - 1)

\* SEIDs and UL TEIDs: both counters advance once per SM context.
SEIDs == 1..MaxSEID

\* The requests of the SMF.  "ref" is the SM context the message is about; the
\* UPF handlers use it only as the identity of the Session object they create.
EstMsg == [type : {"est"}, ref : Refs, seid : SEIDs,
           ip : Hosts \cup {None}, pfx : Prefixes \cup {None}]
ModMsg == [type : {"mod"}, ref : Refs, seid : SEIDs, far : Tunnels \cup {None},
           leg : {"mod", "drop", "comp", "psreq", "tfail"}]
DelMsg == [type : {"del"}, ref : Refs, seid : SEIDs]
AssocMsg == [type |-> "assoc"]
Request == EstMsg \cup ModMsg \cup DelMsg
Response == [type : {"rsp"}, req : Request, cause : {"accepted", "notFound"}]

\* The requests whose answer the SMF acts on.  The answers of the others are only logged
\* (that of an establishment also dates the session) and are left out.
Awaited(m) == m.type = "mod" /\ m.leg \in {"comp", "psreq", "tfail"}

VARIABLE net     \* the datagrams in flight, in both directions

N4TypeOK == net \subseteq Request \cup Response \cup {AssocMsg}

\* A datagram is lost.
Lose(m) ==
    /\ m \in net
    /\ net' = net \ {m}
=============================================================================
