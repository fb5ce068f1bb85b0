---------------------------- MODULE MCSignalling ----------------------------
(***************************************************************************)
(* Instances for TLC of the modules about what the network lets a device   *)
(* have: authentication and NAS security, the NAS messages of mobility     *)
(* management, slice authentication, and the quality of service of a       *)
(* session at the SMF and at the UPF.  They share no state and are checked *)
(* side by side: a behaviour is one of one part, and the other parts keep  *)
(* an initial state.                                                       *)
(***************************************************************************)
EXTENDS NasSecurity, NasMessages, AmfNssaa, SmfQos, UpfQos

VARIABLE part

signallingVars == <<part, nasVars, n1Vars, nssaaVars, smfQosVars, qosVars>>

\* NasMessages: two configurations, of fifteen and of sixteen served areas
MCMcc == <<0, 0, 1>>
MCMnc == <<0, 1>>
MCConfigs ==
    {[full |-> <<67, 108, 97, 117, 100, 73, 65>>, short |-> <<65, 98, 95, 64, 65, 66, 67, 64>>,
      served |-> [i \in 1..15 |-> i]],
     [full |-> <<64>>, short |-> <<65, 123>>, served |-> [i \in 1..16 |-> i]]}
MCCaps == {<<224, 96, 240, 112>>}
MCSubs == <<[sst |-> 1, sd |-> 1], [sst |-> 1, sd |-> 2], [sst |-> 2, sd |-> SDNotPresent]>>
MCWants == {<<>>, <<[sst |-> 1, sd |-> 2]>>,
            <<[sst |-> 1, sd |-> SDNotPresent], [sst |-> 2, sd |-> SDNotPresent]>>}

\* SmfQos: an override with and without a rate, and a first and a second subscription
MCOv == {[qi |-> 2, rate |-> 5], [qi |-> 3, rate |-> 0]}
MCSmData == <<[here |-> FALSE, qi |-> 7, rate |-> 5], [here |-> TRUE, qi |-> 0, rate |-> 8]>>
MCAsk == {[qi |-> 5, mbps |-> 0], [qi |-> 7, mbps |-> 4]}

\* UpfQos: a flow's QER, a session's QER and one that closes the gate
MCTemplates ==
    {[qfi |-> TRUE, gate |-> [ul |-> "OPEN", dl |-> "OPEN"], mbr |-> [ul |-> 0, dl |-> 2]],
     [qfi |-> FALSE, gate |-> [ul |-> "OPEN", dl |-> "OPEN"], mbr |-> [ul |-> 0, dl |-> 1]],
     [qfi |-> FALSE, gate |-> [ul |-> "OPEN", dl |-> "CLOSED"], mbr |-> [ul |-> 9, dl |-> 9]]}

SignallingInit ==
    /\ NasInit /\ N1Init /\ NssaaInit /\ SmfQosInit /\ QosInit
    /\ part \in {"nas", "n1", "nssaa", "smfqos", "upfqos"}
    /\ part # "nas" => sqnHe = 1
    /\ part # "n1" => n1Cfg = (CHOOSE c \in Configs : TRUE)

SignallingNext ==
    \/ part = "nas" /\ NasNext /\ UNCHANGED <<part, n1Vars, nssaaVars, smfQosVars, qosVars>>
    \/ part = "n1" /\ N1Next /\ UNCHANGED <<part, nasVars, nssaaVars, smfQosVars, qosVars>>
    \/ part = "nssaa" /\ NssaaNext /\ UNCHANGED <<part, nasVars, n1Vars, smfQosVars, qosVars>>
    \/ part = "smfqos" /\ SmfQosNext /\ UNCHANGED <<part, nasVars, n1Vars, nssaaVars, qosVars>>
    \/ part = "upfqos" /\ QosNext /\ UNCHANGED <<part, nasVars, n1Vars, nssaaVars, smfQosVars>>

SignallingSpec == SignallingInit /\ [][SignallingNext]_signallingVars

-----------------------------------------------------------------------------
(* What holds of each part; the conjuncts are stated in the part's module *)

\* NasSecurity: device and AMF keep the same counts and keys, and one resynchronisation ends
\* an authentication that was out of step (NewSecurityContext, KgNB, IncrementSQN).
SecurityAgrees == part = "nas" => NasTypeOK /\ CountsAgree /\ KgnbAgrees /\ OneResyncSuffices

\* NasMessages: what one end of N1 encodes the other decodes to the same capabilities, slices,
\* session states, names and areas, and a reject fits the procedure it ends.
MessagesAgree ==
    part = "n1" => /\ N1TypeOK /\ RequestUnderstood /\ CapabilityReplayed /\ SlicesAsAsked
                   /\ StatusAgrees /\ NamesSurvive /\ RejectFitsProcedure /\ AreaCoversDevice

\* AmfNssaa: the queue of slices to authenticate drains, and the device is never ahead of the
\* AMF on what it may use (advance, RevokeNSSAA).
SlicesSettle == part = "nssaa" => NssaaTypeOK /\ QueueDrains /\ DeviceNotAhead

\* SmfQos with PcfOverride: SMF, UPF and device end with the same QoS, never less than was
\* granted nor what is not authorised, and the PCF's overrides survive where they are stored.
QosSettles ==
    part = "smfqos" => /\ SmfQosTypeOK /\ QosAgrees /\ NeverUnderGranted /\ OnlyAuthorised
                       /\ BucketFollowsMemory /\ SlicesIntact /\ RestartKeepsOverrides

\* UpfQos: references resolve, no window exceeds the rate, a refused packet costs nothing and
\* a closed gate lets nothing through.
RatesHold ==
    part = "upfqos" => QosTypeOK /\ RefsResolve /\ WithinRate /\ RefusalIsFree /\ GateHolds
=============================================================================
