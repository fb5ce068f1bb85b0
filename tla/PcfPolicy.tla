----------------------------- MODULE PcfPolicy -----------------------------
(* SM policies and their bindings.  The SMF asks the PCF for a policy when it establishes a
   session, the PCF registers a binding at the BSF in a goroutine of its own, the NEF finds
   the PCF through the binding and opens an application session for an AF.  Every call
   between two functions is a step of its own.  Sessions, policies and bindings are named
   alike: session p asks for policy p.                                               *)
EXTENDS BsfStore

CONSTANTS Sub,         \* AF subscriptions
          Events       \* what else may happen: "lost" calls and restarts of "bsf", "pcf", "nef"

VARIABLES sess, addr,  \* SMF: the state of a session and its address
          known,       \* SMF: the sessions with an SmPolicyID
          posted,      \* SM policy requests on their way to the PCF
          policies,    \* PCF: Server.policies, SM policies only
          bsfBindingIDs, \* PCF: Server.bsfBindingIDs
          reg, dereg,  \* PCF: what the registering goroutines and the delete handlers do
          appSessions, \* PCF: Server.appSessions
          nef          \* NEF: how far each subscription is

pcfVars == <<policies, bsfBindingIDs, reg, dereg>>
smfVars == <<sess, addr, known, posted>>
afVars == <<appSessions, nef>>
policyVars == <<bsfVars, pcfVars, smfVars, afVars>>

PolicyTypeOK ==
    /\ BsfTypeOK
    /\ sess \in [Policy -> {"none", "creating", "up", "releasing", "gone"}]
    /\ addr \in [Policy -> Addr \cup {None}]
    /\ known \subseteq Policy /\ posted \subseteq Policy /\ policies \subseteq Policy
    /\ bsfBindingIDs \in [Policy -> Policy \cup {None}]
    /\ reg \in [Policy -> {"none", "call", "registered"}]
    /\ dereg \in [Policy -> Policy \cup {None}]
    /\ appSessions \subseteq Sub
    /\ nef \in [Sub -> {"none", "found", "authorized", "stored", "deleting", "gone"}]

PolicyInit ==
    /\ BsfInit
    /\ sess = [p \in Policy |-> "none"] /\ addr = [p \in Policy |-> None]
    /\ known = {} /\ posted = {} /\ policies = {}
    /\ bsfBindingIDs = [p \in Policy |-> None]
    /\ reg = [p \in Policy |-> "none"] /\ dereg = [p \in Policy |-> None]
    /\ appSessions = {} /\ nef = [n \in Sub |-> "none"]

Has(event) == event \in Events
----------------------------------------------------------------------------
(* SMF *)

Free(a) == \A p \in Policy : sess[p] \in {"creating", "up"} => addr[p] # a

\* A session is established with a free address, or with an IPv6 prefix only.
createSMPolicy(p) ==
    /\ sess[p] = "none"
    /\ \E a \in {x \in Addr : Free(x)} \cup {None} : addr' = [addr EXCEPT ![p] = a]
    /\ sess' = [sess EXCEPT ![p] = "creating"]
    /\ posted' = posted \cup {p}
    /\ UNCHANGED <<bsfVars, pcfVars, known, afVars>>

\* The call fails at the SMF, which goes on without a policy; the request may still arrive.
createFallsBack(p) ==
    /\ Has("lost") /\ sess[p] = "creating"
    /\ sess' = [sess EXCEPT ![p] = "up"]
    /\ \/ UNCHANGED posted
       \/ posted' = posted \ {p}
    /\ UNCHANGED <<bsfVars, pcfVars, addr, known, afVars>>

\* The address is given back first, then the policy is deleted, if there is one.
releaseSessionLocal(p) ==
    /\ sess[p] = "up"
    /\ sess' = [sess EXCEPT ![p] = IF p \in known THEN "releasing" ELSE "gone"]
    /\ UNCHANGED <<bsfVars, pcfVars, addr, known, posted, afVars>>

\* The delete call never reaches the PCF.
deleteLost(p) ==
    /\ Has("lost") /\ sess[p] = "releasing"
    /\ sess' = [sess EXCEPT ![p] = "gone"]
    /\ UNCHANGED <<bsfVars, pcfVars, addr, known, posted, afVars>>
----------------------------------------------------------------------------
(* PCF *)

\* The policy is stored and answered; then a goroutine registers the binding of an IPv4
\* session.
handleCreateSmPolicy(p) ==
    /\ p \in posted
    /\ posted' = posted \ {p}
    /\ policies' = policies \cup {p}
    /\ reg' = [reg EXCEPT ![p] = IF addr[p] # None THEN "call" ELSE "none"]
    /\ IF sess[p] = "creating"
       THEN sess' = [sess EXCEPT ![p] = "up"] /\ known' = known \cup {p}
       ELSE UNCHANGED <<sess, known>>
    /\ UNCHANGED <<bsfVars, bsfBindingIDs, dereg, addr, afVars>>

\* The BSF handles the registration; a 403 carries no bindingId, so nothing is kept of it.
RegisterBinding(p) ==
    /\ reg[p] = "call"
    /\ Create(p, addr[p])
    /\ reg' = [reg EXCEPT ![p] = IF Existing(addr[p]) THEN "none" ELSE "registered"]
    /\ UNCHANGED <<policies, bsfBindingIDs, dereg, smfVars, afVars>>

\* The goroutine notes the bindingId, whatever has become of the policy.
bindingRegistered(p) ==
    /\ reg[p] = "registered"
    /\ bsfBindingIDs' = [bsfBindingIDs EXCEPT ![p] = p]
    /\ reg' = [reg EXCEPT ![p] = "none"]
    /\ UNCHANGED <<bsfVars, policies, dereg, smfVars, afVars>>

\* The call fails before or after the BSF has handled it.
registerLost(p) ==
    /\ Has("lost") /\ reg[p] # "none"
    /\ reg' = [reg EXCEPT ![p] = "none"]
    /\ UNCHANGED <<bsfVars, policies, bsfBindingIDs, dereg, smfVars, afVars>>

\* The policy and its bindingId go under the lock; without a bindingId that is all.
handleDeleteSmPolicy(p) ==
    /\ sess[p] = "releasing" /\ dereg[p] = None
    /\ policies' = policies \ {p}
    /\ bsfBindingIDs' = [bsfBindingIDs EXCEPT ![p] = None]
    /\ dereg' = [dereg EXCEPT ![p] = bsfBindingIDs[p]]
    /\ sess' = [sess EXCEPT ![p] = IF bsfBindingIDs[p] = None THEN "gone" ELSE @]
    /\ UNCHANGED <<bsfVars, reg, addr, known, posted, afVars>>

\* With one the handler waits for the BSF, and answers whether or not that succeeds.
DeregisterBinding(p) ==
    /\ dereg[p] # None
    /\ Delete(dereg[p]) \/ (Has("lost") /\ UNCHANGED bsfVars)
    /\ dereg' = [dereg EXCEPT ![p] = None]
    /\ sess' = [sess EXCEPT ![p] = "gone"]
    /\ UNCHANGED <<policies, bsfBindingIDs, reg, addr, known, posted, afVars>>

\* The PCF restarts: everything it holds is in memory.
PcfRestart ==
    /\ Has("pcf")
    /\ policies' = {} /\ bsfBindingIDs' = [p \in Policy |-> None]
    /\ reg' = [p \in Policy |-> "none"] /\ dereg' = [p \in Policy |-> None]
    /\ sess' = [p \in Policy |-> IF dereg[p] # None THEN "gone" ELSE sess[p]]
    /\ appSessions' = {}
    /\ UNCHANGED <<bsfVars, addr, known, posted, nef>>

RestartBsf ==
    /\ Has("bsf") /\ BsfRestart
    /\ UNCHANGED <<pcfVars, smfVars, afVars>>
----------------------------------------------------------------------------
(* NEF *)

\* An AF asks for a QoS for a UE address; without a binding it gets 404.
handleCreateSubscription(n, a) ==
    /\ nef[n] = "none"
    /\ nef' = [nef EXCEPT ![n] = IF FindByQuery(a) = None THEN "gone" ELSE "found"]
    /\ UNCHANGED <<bsfVars, pcfVars, smfVars, appSessions>>

\* The PCF the binding names opens the application session.
handleCreateAppSession(n) ==
    /\ nef[n] = "found"
    /\ appSessions' = appSessions \cup {n}
    /\ nef' = [nef EXCEPT ![n] = "authorized"]
    /\ UNCHANGED <<bsfVars, pcfVars, smfVars>>

\* The call fails, perhaps after the PCF has handled it: the AF is told so.
appSessionLost(n) ==
    /\ Has("lost") /\ nef[n] \in {"found", "authorized"}
    /\ nef' = [nef EXCEPT ![n] = "gone"]
    /\ UNCHANGED <<bsfVars, pcfVars, smfVars, appSessions>>

storeSubscription(n) ==
    /\ nef[n] = "authorized"
    /\ nef' = [nef EXCEPT ![n] = "stored"]
    /\ UNCHANGED <<bsfVars, pcfVars, smfVars, appSessions>>

\* Mutant: the PCF is told first, then the subscription goes.
deleteAppSessionFirst(n) ==
    /\ nef[n] = "stored"
    /\ \/ n \in appSessions /\ appSessions' = appSessions \ {n} /\ UNCHANGED nef
       \/ n \notin appSessions /\ nef' = [nef EXCEPT ![n] = "gone"] /\ UNCHANGED appSessions
    /\ UNCHANGED <<bsfVars, pcfVars, smfVars>>

\* The subscription goes first, under the lock; then the PCF is told.
handleDeleteSubscription(n) ==
    /\ nef[n] = "stored"
    /\ nef' = [nef EXCEPT ![n] = "deleting"]
    /\ UNCHANGED <<bsfVars, pcfVars, smfVars, appSessions>>

handleDeleteAppSession(n) ==
    /\ nef[n] = "deleting"
    /\ nef' = [nef EXCEPT ![n] = "gone"]
    /\ \/ appSessions' = appSessions \ {n}
       \/ Has("lost") /\ UNCHANGED appSessions
    /\ UNCHANGED <<bsfVars, pcfVars, smfVars>>

\* The NEF restarts: its subscriptions are in memory, and so are its handlers.
NefRestart ==
    /\ Has("nef")
    /\ nef' = [n \in Sub |-> IF nef[n] = "none" THEN "none" ELSE "gone"]
    /\ UNCHANGED <<bsfVars, pcfVars, smfVars, appSessions>>
----------------------------------------------------------------------------
PolicyStep(p) ==
    \/ createSMPolicy(p) \/ createFallsBack(p) \/ releaseSessionLocal(p) \/ deleteLost(p)
    \/ handleCreateSmPolicy(p) \/ RegisterBinding(p) \/ bindingRegistered(p)
    \/ registerLost(p) \/ handleDeleteSmPolicy(p) \/ DeregisterBinding(p)

SubStep(n) ==
    \/ \E a \in Addr : handleCreateSubscription(n, a)
    \/ handleCreateAppSession(n) \/ appSessionLost(n) \/ storeSubscription(n)
    \/ handleDeleteSubscription(n) \/ handleDeleteAppSession(n)

PolicyNext ==
    \/ \E p \in Policy : PolicyStep(p)
    \/ \E n \in Sub : SubStep(n)
    \/ PcfRestart \/ RestartBsf \/ NefRestart

PolicySpec == PolicyInit /\ [][PolicyNext]_policyVars

----------------------------------------------------------------------------
(* What holds *)

\* The two indexes of the BSF lead to exactly the bindings it holds, and no two bindings
\* have the same address (Create, Delete).
StoreIndexed ==
    /\ \A b \in Policy, a \in Addr : ipv4Index[a] = b <=> bindings[b] = a
    /\ \A s \in Supi : supiIndex[s] = {b \in Policy : Bound(b) /\ SupiOf[b] = s}

Found(p) == addr[p] # None /\ FindByQuery(addr[p]) = p

\* A session an AF can be led to stays findable as long as it lives, although the address
\* of a released session is reused before its binding is deregistered (releaseSessionLocal,
\* Create, Delete).  Only a restart of the BSF forgets it.
FoundStays ==
    [][RestartBsf \/ \A p \in Policy :
         Found(p) /\ sess[p] = "up" /\ sess'[p] = "up" => Found(p)']_policyVars

\* No lost call, and no deletion beside it, takes the application session from a
\* subscription the NEF has or is about to store (handleCreateSubscription,
\* handleDeleteSubscription); only a restart of the PCF does.
BackingKept ==
    [][PcfRestart \/ \A n \in Sub :
         (nef[n] \in {"authorized", "stored"} => n \in appSessions)
           /\ nef'[n] \in {"authorized", "stored"} => n \in appSessions']_policyVars
----------------------------------------------------------------------------
(* What the comments say and the interleavings contradict *)

\* With no call under way the BSF has a binding only for an SM policy the PCF has
\* (handleDeleteSmPolicy: "so the BSF's registry stays accurate").
RegistryAccurate ==
    \A p \in Policy : Bound(p) /\ reg[p] = "none" /\ sess[p] = "gone" => p \in policies
=============================================================================
