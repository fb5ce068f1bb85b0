------------------------------ MODULE N4System ------------------------------
(***************************************************************************)
(* The SMF and the UPF joined by N4.                                       *)
(***************************************************************************)
EXTENDS SmfSession, UpfPfcp

CONSTANTS
    Lossy,       \* whether requests may be lost (answers always may)
    UpfFails     \* whether the UPF may restart

ASSUME N4SystemAssumption == Lossy \in BOOLEAN /\ UpfFails \in BOOLEAN

n4Vars == <<smfVars, upfVars, net>>

N4TypeInv == N4TypeOK /\ SmfTypeOK /\ UpfTypeOK

N4Init == net = {} /\ SmfInit /\ UpfInit

N4Next ==
    \/ SmfNext /\ UNCHANGED upfVars
    \/ UpfNext /\ UNCHANGED smfVars
    \/ UpfFails /\ UpfRestart /\ UNCHANGED smfVars
    \/ \E m \in net : /\ Lossy \/ m.type = "rsp"
                      /\ Lose(m)
                      /\ UNCHANGED <<smfVars, upfVars>>

N4Spec == N4Init /\ [][N4Next]_n4Vars

\* The release worker and the guard timer always get to run, and an SMF that was told
\* to stop exits.
ReleaseFairness ==
    /\ WF_n4Vars(stopping # None /\ SmfRestart /\ UNCHANGED upfVars)
    /\ \A r \in Refs, leg \in {"rel", "guard"} :
            LET o == Go(leg, r, "start") IN
            WF_n4Vars(/\ o \in ops
                      /\ releaseOne(o) \/ startReleaseGuard(o)
                      /\ UNCHANGED upfVars)

N4FairSpec == N4Spec /\ ReleaseFairness
-----------------------------------------------------------------------------
\* A handover the SMF calls COMPLETED was switched by the UPF: its session forwards
\* down a tunnel (handleHandoverComplete answers "only after the Session Modification
\* Response with Cause 1").  For instances without deactivation, in which a restarted
\* SMF does not give a SEID the UPF still knows to another session.
CompletedIsSwitched ==
    \A r \in table : sess[r].ho = "COMPLETED" /\ r \in Stored => upfObj[r].dl # None

\* No two sessions of the UPF share a /64: byUEIPv6Net is "unambiguous".
DistinctPrefixes ==
    \A r, q \in Stored : r # q /\ upfObj[r].pfx # None => upfObj[r].pfx # upfObj[q].pfx
=============================================================================
