----------------------------- MODULE MCMessages -----------------------------
(***************************************************************************)
(* Instances for TLC of the modules about the messages between the network *)
(* and a device or a gNB and what each end makes of them: session          *)
(* management, the secondary authentication of a session, and NGAP.  They  *)
(* share no state and are checked side by side: a behaviour is one of one  *)
(* part, and the other parts keep an initial state.                        *)
(***************************************************************************)
EXTENDS SmfSecondaryAuth, NasSession, NgapCodec

VARIABLE part

messagesVars == <<part, authVars, smVars, n2Vars>>

\* NasSession: two data networks, and protocol options in several orders
MCInternet == <<105, 110>>
MCIms == <<105, 109, 46, 115>>
MCResolvers == (MCInternet :> <<<<8, 8, 8, 8>>, <<8, 8, 4, 4>>>>) @@ (MCIms :> <<<<1, 1, 1, 1>>>>)
MCIpcp == [id |-> 32801, v |-> <<1, 7, 0, 16, 129, 6, 0, 0, 0, 0, 131, 6, 0, 0, 0, 0>>]
MCPco(id) == [id |-> id, v |-> <<>>]
MCEpcos == {<<>>, <<MCIpcp, MCPco(13), MCPco(10), MCPco(16)>>,
            <<MCPco(17), MCPco(16), MCPco(5), MCPco(13), MCIpcp>>, <<MCPco(3)>>}
MCSmSlice(sst, sd) == [sst |-> sst, sd |-> sd]
MCSmAsks == [type : {<<>>, <<1>>, <<2>>, <<3>>},
             slice : {<<>>, <<MCSmSlice(1, <<66051>>)>>, <<MCSmSlice(2, <<>>)>>},
             dnn : {<<>>, <<MCIms>>, <<<<120>>>>}, labels : BOOLEAN, epco : MCEpcos]
MCAllowedNssais ==
    {<<>>, <<[sst |-> 1, sd |-> <<66051>>, dnn |-> MCIms]>>,
     <<[sst |-> 1, sd |-> <<>>, dnn |-> <<>>], [sst |-> 2, sd |-> <<>>, dnn |-> MCIms]>>}
MCV6 == {MCInternet}
MCSmQos == {[qi |-> 9, ul |-> 100, dl |-> 300], [qi |-> 1, ul |-> 5, dl |-> 1000]}

\* NgapCodec: gNB identifiers of different length, and networks of two and three MNC digits
MCGnbId == [g1 |-> [plmn |-> <<0, 0, 15, 1, 1, 0>>, bytes |-> 16, bits |-> 6],
            g2 |-> [plmn |-> <<0, 0, 15, 1, 1, 0>>, bytes |-> 32, bits |-> 6]]
MCSlices == <<[sst |-> 1, sd |-> "000001"]>>
MCCells == [g1 |-> <<[plmn |-> <<0, 0, 15, 1, 1, 0>>, tac |-> <<0, 0, 1>>, slices |-> MCSlices]>>,
            g2 |-> <<[plmn |-> <<1, 3, 0, 0, 1, 4>>, tac |-> <<0, 1, 2>>, slices |-> MCSlices]>>]
MCAmf == [mcc |-> <<1>>, mnc |-> <<1>>]
MCNssai == <<[sst |-> 1, sd |-> "000001", dnn |-> "a"], [sst |-> 1, sd |-> "000001", dnn |-> "b"]>>

MessagesInit ==
    /\ AuthInit /\ SmInit /\ N2Init
    /\ part \in {"auth", "sm", "n2"}
    /\ part # "sm" => smAllowed = <<>>

MessagesNext ==
    \/ part = "auth" /\ AuthNext /\ UNCHANGED <<part, smVars, n2Vars>>
    \/ part = "sm" /\ SmNext /\ UNCHANGED <<part, authVars, n2Vars>>
    \/ part = "n2" /\ N2Next /\ UNCHANGED <<part, authVars, smVars>>

MessagesSpec ==
    /\ MessagesInit /\ [][MessagesNext]_messagesVars
    /\ \A h \in Handlers : WF_authVars(part = "auth" /\ Handle(h))

-----------------------------------------------------------------------------
(* What holds of each part; the conjuncts are stated in the part's module *)

\* NasSession: device and SMF agree on every session's type, address, rates, rules, slice and
\* options, and a type that was not granted is explained.
SessionsAgree ==
    part = "sm" => /\ SmTypeOK /\ SessionAgrees /\ NoSemanticError /\ SlicesHonoured
                   /\ OptionsMirrored /\ DowngradeExplained

\* NgapCodec: a strict decoder accepts what the AMF sends, the gNB learns the rate in force,
\* paging goes where the device was last seen, causes survive the wire, and no preparation is
\* left behind at a target.
NgapAgrees ==
    part = "n2" => /\ N2TypeOK /\ StrictDecoderAccepts /\ AmbrReachesRan /\ PagesWhereLastSeen
                   /\ CausesSurvive /\ NoOrphanedPreparation
=============================================================================
