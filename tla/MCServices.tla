----------------------------- MODULE MCServices -----------------------------
(***************************************************************************)
(* Instances for TLC of the modules about the services of the core: the    *)
(* NRF's registry and its notifications, the UDR, public warnings,         *)
(* location subscriptions, short messages, UE policies,                    *)
(* the AMF's timers and session list, and the UPF's datapath.  They share  *)
(* no state and are checked side by side: a behaviour is one of one part,  *)
(* and the other parts keep an initial state.                              *)
(***************************************************************************)
EXTENDS NrfRegistry, NrfNotify, UdrSliceQos, AmfPws, PwsPages, LmfSubscription,
        SmsService, UePolicy, AmfTimers, AmfSessions, UpfDatapath

VARIABLE part

\* The parts' variables; a step of one leaves the others alone
inboxVars == <<notifyVars, udrVars, pwsVars, pageVars>>
accessVars == <<lmfVars, smsVars, polVars, timerVars, sessVars, dpVars>>
servicesVars == <<part, nrfVars, inboxVars, accessVars>>

\* NrfRegistry
MCProfileOf == [i \in NfId |-> [type |-> "SMF", services |-> {"s1"},
                                slices |-> {[sst |-> 1, sd |-> "a"]}, dnns |-> {"d"}]]

\* NrfNotify: two instances of different types, and a subscription to one type
MCType == [i \in {"n1", "n2"} |-> IF i = "n1" THEN "SMF" ELSE "UPF"]
MCFilters == {[type |-> "SMF", instance |-> ""]}

\* PwsPages: lengths on both sides of a page's and of a septet group's boundary
As(n) == [i \in 1..n |-> 65]
MCWarningTexts == {<<>>, As(7), As(8), As(93), As(92) \o <<8364>>, As(91) \o <<91, 65>>,
                   <<64, 128512, 20013>>, As(41), As(1400)}
MCLater ==
    {[id |-> 4371, serial |-> 1, period |-> p, count |-> 1, dcs |-> 15, lang |-> <<>>,
      text |-> As(7), tacs |-> <<66051, 16777217>>] : p \in {30, 131072}}
MCOrders ==
    {[id |-> -1, serial |-> 258, period |-> -1, count |-> -1, dcs |-> d, lang |-> l,
      text |-> t, tacs |-> <<>>] :
       d \in {-1, 17, 68, 72, 244}, l \in {<<>>, <<101, 115>>}, t \in MCWarningTexts}
    \cup MCLater
MCServed == <<1, 2>>

\* SmsService: a text that is not base64 and one that is
MCMo == {<<9, 1>>}
MCMt == {<<9, 1, 200>>}
MCTexts == {<<104, 105, 33>>, <<116, 101, 115, 116>>}

\* UePolicy: rules that use every component between them
MCPlmn == [mcc |-> <<0, 0, 1>>, mnc |-> <<0, 1>>]
MCTd == [matchAll |-> FALSE, fqdns |-> <<>>, ipv4 |-> <<>>, protocols |-> <<>>, ports |-> <<>>,
         capabilities |-> <<>>]
MCRsd == [precedence |-> 1, ssc |-> <<>>, snssai |-> <<>>, dnn |-> <<>>, type |-> <<>>]
MCRuleA ==
    <<[precedence |-> 1,
       td |-> [MCTd EXCEPT !.fqdns = <<<<<<97, 98>>, <<99>>>>>>,
                           !.ipv4 = <<[addr |-> <<10, 0, 0, 0>>, bits |-> 12],
                                      [addr |-> <<10, 0, 0, 9>>, bits |-> -1]>>,
                           !.protocols = <<17>>],
       rsds |-> <<[MCRsd EXCEPT !.ssc = <<1>>, !.snssai = <<[sst |-> 1, sd |-> <<0, 0, 1>>]>>,
                                !.dnn = <<<<<<105>>>>>>, !.type = <<1>>],
                  [MCRsd EXCEPT !.precedence = 2, !.dnn = <<<<<<105>>, <<106>>>>>>]>>],
      [precedence |-> 255, td |-> MCTd,
       rsds |-> <<[MCRsd EXCEPT !.snssai = <<[sst |-> 1, sd |-> <<>>]>>]>>]>>
MCRuleB ==
    <<[precedence |-> 3,
       td |-> [MCTd EXCEPT !.ports = <<<<80, 443>>>>, !.capabilities = <<1, 2>>,
                           !.protocols = <<6, 17>>],
       rsds |-> <<[MCRsd EXCEPT !.type = <<3>>]>>]>>
MCNoRules == <<>>
MCRuleLists == {MCRuleA, MCRuleB}

\* AmfTimers: values that fit the timer's coding and values that do not, resets, unknown names
MCBase == [t3512 |-> 100, guard |-> 0, implicit |-> 60]
MCBodies ==
    {"t3512_secs" :> 3600, "t3512_secs" :> 60, "t3512_secs" :> 1000, "t3512_secs" :> 90000,
     "mobile_reachable_guard_secs" :> 240, "mobile_reachable_guard_secs" :> 4000,
     ("implicit_detach_secs" :> 120) @@ ("t3512_secs" :> 600), "implicit_detach_secs" :> 30,
     "reset" :> 1, "reset" :> 0, "reset" :> NotAnInteger,
     ("reset" :> 1) @@ ("t3512_secs" :> 60), "mobile_reachable_secs" :> 60, "t3502_secs" :> 60}

ServicesInit ==
    /\ RegistryInit /\ NotifyInit /\ UdrInit /\ PwsInit /\ PagesInit /\ LmfInit
    /\ SmsInit /\ PolInit /\ TimersInit /\ SessInit /\ DpInit
    /\ part \in {"nrf", "notify", "udr", "pws", "pages", "lmf", "sms", "policy", "timers",
                 "sessions", "datapath"}
    /\ part # "lmf" => inside /\ policy = "ALLOW_ALL"
    /\ part # "sms" => smsDevice = [a \in SmsAmfs |-> IF a = (CHOOSE b \in SmsAmfs : TRUE)
                                                      THEN "connected" ELSE "none"]
    /\ part # "policy" => subscription = (CHOOSE l \in RuleLists : TRUE)

ServicesNext ==
    \/ part = "nrf" /\ RegistryNext /\ UNCHANGED <<part, inboxVars, accessVars>>
    \/ /\ part \in {"notify", "udr", "pws", "pages"}
       /\ UNCHANGED <<part, nrfVars, accessVars>>
       /\ \/ part = "notify" /\ NotifyNext /\ UNCHANGED <<udrVars, pwsVars, pageVars>>
          \/ part = "udr" /\ UdrNext /\ UNCHANGED <<notifyVars, pwsVars, pageVars>>
          \/ part = "pws" /\ PwsNext /\ UNCHANGED <<notifyVars, udrVars, pageVars>>
          \/ part = "pages" /\ PagesNext /\ UNCHANGED <<notifyVars, udrVars, pwsVars>>
    \/ /\ part \in {"lmf", "sms", "policy", "timers", "sessions", "datapath"}
       /\ UNCHANGED <<part, nrfVars, inboxVars>>
       /\ \/ part = "lmf" /\ LmfNext /\ UNCHANGED <<smsVars, polVars, timerVars, sessVars, dpVars>>
          \/ part = "sms" /\ SmsNext /\ UNCHANGED <<lmfVars, polVars, timerVars, sessVars, dpVars>>
          \/ part = "policy" /\ PolNext /\ UNCHANGED <<lmfVars, smsVars, timerVars, sessVars, dpVars>>
          \/ part = "timers" /\ TimersNext /\ UNCHANGED <<lmfVars, smsVars, polVars, sessVars, dpVars>>
          \/ part = "sessions" /\ SessNext /\ UNCHANGED <<lmfVars, smsVars, polVars, timerVars, dpVars>>
          \/ part = "datapath" /\ DpNext /\ UNCHANGED <<lmfVars, smsVars, polVars, timerVars, sessVars>>

ServicesSpec == ServicesInit /\ [][ServicesNext]_servicesVars

-----------------------------------------------------------------------------
(* What holds of each part; the conjuncts are stated in the part's module *)

\* NrfNotify, UdrSliceQos and LmfSubscription: a subscriber follows the registry; seeding never
\* undoes an operator's edit, and a subscriber's profile is stale only where a failure or a
\* crash disturbed it; every listed location subscription is served and every served one can
\* be stopped, the consumer's last event is the state of the area, and an outage of the UDM is
\* not remembered.
ConsumersFollow ==
    /\ part = "notify" => NotifyTypeOK /\ SubscriberFollows
    /\ part = "udr" => UdrTypeOK /\ EditsOutliveSeeds /\ StaleOnlyIfDisturbed
    /\ part = "lmf" => LmfTypeOK /\ SubscriptionsOwned /\ ConsumerFollows /\ OutageNotRemembered

\* AmfPws and PwsPages: what the AMF reports of a warning is true of the gNBs, its store
\* follows its registry, and the pages carry the text the operator wrote.
WarningsReach ==
    /\ part = "pws" => PwsTypeOK /\ ReportsAreTrue /\ StoreFollowsRegistry /\ DroppedAreMarked
    /\ part = "pages" => PagesTypeOK /\ TextReaches /\ PagesWellFormed

\* SmsService and UePolicy: a short message arrives as it was sent, and the device ends with
\* the rules and the AMF with the associations the PCF has.
DeviceFollows ==
    /\ part = "sms" => SmsTypeOK /\ KeysAgree /\ ArrivesAsSent
    /\ part = "policy" => /\ PolTypeOK /\ RulesUnderstood /\ DeviceFollowsPcf
                          /\ OrderlyLeavesNothing /\ RfspAgrees

\* AmfTimers: the device holds the timer value the AMF counts with, concurrent writes of the
\* operator compose, and a refusal names values that would be accepted.
TimersAgree == part = "timers" => TimersTypeOK /\ HeldAsAdvertised /\ WritesCompose /\ AlternativesHelp

\* AmfSessions: no SM context is left without an owner, a released session is not carried
\* over, and a status report makes device and AMF agree again.
SessionListsAgree ==
    part = "sessions" => SessTypeOK /\ ContextsOwned /\ ReleasedNotCarried /\ ReportRestoresAgreement

\* UpfDatapath: a frame leaves through the tunnel that was in force, and a usage report is
\* sent for traffic that was counted.
TrafficFollows == part = "datapath" => DpTypeOK /\ FramesFitTunnel /\ ReportsAreEarned
=============================================================================
