--------------------------- MODULE PcfPolicyProof ---------------------------
(* The BSF's indexes are exact and a session that can be found stays findable, for any
   number of sessions, addresses and subscribers.                                    *)
EXTENDS PcfPolicy, TLAPS

\* What else the induction needs: a policy registers once and before that has no binding;
\* the PCF keeps and deregisters under a policy only that policy's own binding, and
\* deregisters it only once the session is being released.
RegistersOnce ==
    \A p \in Policy :
      /\ sess[p] = "none" => p \notin posted /\ reg[p] = "none"
      /\ p \in posted => reg[p] = "none"
      /\ sess[p] = "none" \/ p \in posted \/ reg[p] = "call" => bindings[p] = None
      /\ reg[p] = "call" => addr[p] \in Addr
      /\ bsfBindingIDs[p] \in {None, p}
      /\ dereg[p] \in {None, p}
      /\ dereg[p] # None => sess[p] \in {"releasing", "gone"}

PolicyInv == PolicyTypeOK /\ StoreIndexed /\ RegistersOnce

\* A registration keeps the indexes exact when the binding is a new one (Create).
LEMMA CreateKeeps ==
  ASSUME BsfTypeOK, StoreIndexed, NEW b \in Policy, NEW a \in Addr, bindings[b] = None,
         Create(b, a)
  PROVE BsfTypeOK' /\ StoreIndexed'
  <1> USE BsfAssumption DEF BsfTypeOK, StoreIndexed, Create, Existing, Bound, bsfVars
  <1>1. CASE Existing(a) BY <1>1
  <1>2. CASE ~Existing(a)
    <2>1. BsfTypeOK' BY <1>2
    <2>2. \A c \in Policy, x \in Addr : ipv4Index'[x] = c <=> bindings'[c] = x
      BY <1>2
    <2>3. \A s \in Supi : supiIndex'[s] = {c \in Policy : bindings'[c] # None /\ SupiOf[c] = s}
      BY <1>2
    <2> QED BY <2>1, <2>2, <2>3
  <1> QED BY <1>1, <1>2

\* So does a deregistration, also of a binding that is not there (Delete).
LEMMA DeleteKeeps ==
  ASSUME BsfTypeOK, StoreIndexed, NEW b \in Policy, Delete(b)
  PROVE BsfTypeOK' /\ StoreIndexed'
  <1> USE BsfAssumption DEF BsfTypeOK, StoreIndexed, Delete, Bound
  <1>1. BsfTypeOK' BY ZenonT(60)
  <1>2. \A c \in Policy, x \in Addr : ipv4Index'[x] = c <=> bindings'[c] = x OBVIOUS
  <1>3. \A s \in Supi : supiIndex'[s] = {c \in Policy : bindings'[c] # None /\ SupiOf[c] = s}
    OBVIOUS
  <1> QED BY <1>1, <1>2, <1>3

\* Nothing is registered at the start (PolicyInit).
LEMMA PolicyStarts == PolicyInit => PolicyInv
  BY BsfAssumption DEF PolicyInit, BsfInit, PolicyInv, PolicyTypeOK, BsfTypeOK, StoreIndexed,
     RegistersOnce, Bound

\* The steps of one session preserve the invariant.
LEMMA SessionKeeps ==
  ASSUME PolicyInv, NEW p \in Policy, PolicyStep(p)
  PROVE PolicyInv'
  <1> USE BsfAssumption DEF PolicyInv, PolicyTypeOK, RegistersOnce, bsfVars, pcfVars, smfVars,
                             afVars
  <1> DEFINE Untouched == BsfTypeOK' /\ StoreIndexed'
  <1>0. UNCHANGED bsfVars => Untouched BY DEF BsfTypeOK, StoreIndexed, Bound
  <1>1. CASE createSMPolicy(p) BY <1>0, <1>1 DEF createSMPolicy
  <1>2. CASE createFallsBack(p) BY <1>0, <1>2 DEF createFallsBack
  <1>3. CASE releaseSessionLocal(p) BY <1>0, <1>3 DEF releaseSessionLocal
  <1>4. CASE deleteLost(p) BY <1>0, <1>4 DEF deleteLost
  <1>5. CASE handleCreateSmPolicy(p) BY <1>0, <1>5 DEF handleCreateSmPolicy
  <1>6. CASE RegisterBinding(p)
    <2>1. Untouched BY <1>6, CreateKeeps DEF RegisterBinding
    <2>2. \A q \in Policy : q # p => bindings'[q] = bindings[q]
      BY <1>6 DEF RegisterBinding, Create, BsfTypeOK
    <2> QED BY <1>6, <2>1, <2>2 DEF RegisterBinding
  <1>7. CASE bindingRegistered(p) BY <1>0, <1>7 DEF bindingRegistered
  <1>8. CASE registerLost(p) BY <1>0, <1>8 DEF registerLost
  <1>9. CASE handleDeleteSmPolicy(p) BY <1>0, <1>9 DEF handleDeleteSmPolicy
  <1>10. CASE DeregisterBinding(p)
    <2>1. dereg[p] = p BY <1>10 DEF DeregisterBinding
    <2>2. Untouched BY <1>0, <1>10, <2>1, DeleteKeeps DEF DeregisterBinding
    <2>3. \A q \in Policy : bindings'[q] \in {None, bindings[q]}
      BY <1>10, <2>1 DEF DeregisterBinding, Delete, BsfTypeOK
    <2> QED BY <1>10, <2>1, <2>2, <2>3 DEF DeregisterBinding
  <1> QED BY SMTT(60), <1>1, <1>2, <1>3, <1>4, <1>5, <1>6, <1>7, <1>8, <1>9, <1>10 DEF PolicyStep

\* So do the steps of a subscription, which leave sessions, policies and bindings alone.
LEMMA SubscriptionKeeps ==
  ASSUME PolicyInv, NEW n \in Sub, SubStep(n)
  PROVE PolicyInv'
  <1> USE DEF PolicyInv, PolicyTypeOK, RegistersOnce, bsfVars, pcfVars, smfVars
  <1>1. UNCHANGED <<bsfVars, pcfVars, smfVars>>
    BY DEF SubStep, handleCreateSubscription, handleCreateAppSession, appSessionLost,
           storeSubscription, handleDeleteSubscription, handleDeleteAppSession
  <1>2. BsfTypeOK' /\ StoreIndexed' BY <1>1 DEF BsfTypeOK, StoreIndexed, Bound
  <1>3. appSessions' \subseteq Sub
    BY DEF SubStep, handleCreateSubscription, handleCreateAppSession, appSessionLost,
           storeSubscription, handleDeleteSubscription, handleDeleteAppSession
  <1>4. nef' \in [Sub -> {"none", "found", "authorized", "stored", "deleting", "gone"}]
    BY DEF SubStep, handleCreateSubscription, handleCreateAppSession, appSessionLost,
           storeSubscription, handleDeleteSubscription, handleDeleteAppSession
  <1> QED BY <1>1, <1>2, <1>3, <1>4

\* Restarts forget and invent nothing.
LEMMA RestartKeeps == PolicyInv /\ (PcfRestart \/ RestartBsf \/ NefRestart) => PolicyInv'
  <1> SUFFICES ASSUME PolicyInv, PcfRestart \/ RestartBsf \/ NefRestart PROVE PolicyInv' OBVIOUS
  <1> USE BsfAssumption DEF PolicyInv, PolicyTypeOK, RegistersOnce, bsfVars, pcfVars, smfVars,
                             afVars
  <1>1. CASE PcfRestart
    <2>1. BsfTypeOK' /\ StoreIndexed' BY <1>1 DEF PcfRestart, BsfTypeOK, StoreIndexed, Bound
    <2> QED BY <1>1, <2>1 DEF PcfRestart
  <1>2. CASE RestartBsf
    <2>1. BsfTypeOK' /\ StoreIndexed'
      BY <1>2 DEF RestartBsf, BsfRestart, BsfTypeOK, StoreIndexed, Bound
    <2> QED BY <1>2, <2>1 DEF RestartBsf, BsfRestart
  <1>3. CASE NefRestart
    <2>1. BsfTypeOK' /\ StoreIndexed' BY <1>3 DEF NefRestart, BsfTypeOK, StoreIndexed, Bound
    <2> QED BY <1>3, <2>1 DEF NefRestart
  <1> QED BY <1>1, <1>2, <1>3

\* Every step preserves the invariant.
LEMMA PolicyKeeps == PolicyInv /\ [PolicyNext]_policyVars => PolicyInv'
  <1> SUFFICES ASSUME PolicyInv, [PolicyNext]_policyVars PROVE PolicyInv' OBVIOUS
  <1>1. CASE UNCHANGED policyVars
    BY <1>1 DEF policyVars, bsfVars, pcfVars, smfVars, afVars, PolicyInv, PolicyTypeOK,
                BsfTypeOK, StoreIndexed, RegistersOnce, Bound
  <1> QED BY <1>1, SessionKeeps, SubscriptionKeeps, RestartKeeps DEF PolicyNext

\* The two indexes of the BSF lead to exactly the bindings it holds (Store.Create,
\* Store.Delete), for any number of sessions and whatever calls and processes fail.
THEOREM StoreExact == PolicySpec => []StoreIndexed
  <1>1. PolicyInv => StoreIndexed BY DEF PolicyInv
  <1> QED BY <1>1, PolicyStarts, PolicyKeeps, PTL DEF PolicySpec

\* A step other than a restart of the BSF leaves a live session findable.
LEMMA FoundKept ==
  ASSUME PolicyInv, [PolicyNext]_policyVars, ~RestartBsf, NEW p \in Policy,
         Found(p), sess[p] = "up", sess'[p] = "up"
  PROVE Found(p)'
  <1> USE BsfAssumption DEF PolicyInv, PolicyTypeOK, BsfTypeOK
  <1>1. addr[p] \in Addr /\ ipv4Index[addr[p]] = p /\ bindings[p] = addr[p]
    BY DEF Found, FindByQuery
  <1>2. addr'[p] = addr[p] /\ bindings'[p] = bindings[p] =>
          Found(p)'
    <2>1. StoreIndexed' BY PolicyKeeps DEF PolicyInv
    <2> QED BY <1>1, <2>1 DEF StoreIndexed, Found, FindByQuery
  <1>3. CASE UNCHANGED policyVars
    BY <1>2, <1>3 DEF policyVars, bsfVars, smfVars
  <1>4. ASSUME NEW q \in Policy, PolicyStep(q) PROVE Found(p)'
    <2>1. addr'[p] = addr[p]
      BY SMTT(60), <1>4 DEF PolicyStep, createSMPolicy, createFallsBack, releaseSessionLocal, deleteLost,
         handleCreateSmPolicy, RegisterBinding, bindingRegistered, registerLost,
         handleDeleteSmPolicy, DeregisterBinding, smfVars
    <2>2. CASE RegisterBinding(q)
      <3>1. bindings[q] = None BY <2>2 DEF RegisterBinding, RegistersOnce
      <3> QED BY SMTT(60), <1>1, <1>2, <2>1, <2>2, <3>1 DEF RegisterBinding, Create, bsfVars
    <2>3. CASE DeregisterBinding(q)
      <3>1. dereg[q] = q /\ sess[q] # "up" BY SMTT(60), <2>3 DEF DeregisterBinding, RegistersOnce
      <3> QED BY <1>2, <2>1, <2>3, <3>1 DEF DeregisterBinding, Delete, bsfVars
    <2>4. CASE UNCHANGED bsfVars BY <1>2, <2>1, <2>4 DEF bsfVars
    <2> QED BY <1>4, <2>2, <2>3, <2>4 DEF PolicyStep, createSMPolicy, createFallsBack,
         releaseSessionLocal, deleteLost, handleCreateSmPolicy, bindingRegistered, registerLost,
         handleDeleteSmPolicy
  <1>5. ASSUME NEW n \in Sub, SubStep(n) PROVE Found(p)'
    BY <1>2, <1>5 DEF SubStep, handleCreateSubscription, handleCreateAppSession, appSessionLost,
       storeSubscription, handleDeleteSubscription, handleDeleteAppSession, bsfVars, smfVars
  <1>6. CASE PcfRestart BY <1>2, <1>6 DEF PcfRestart, bsfVars
  <1>7. CASE NefRestart BY <1>2, <1>7 DEF NefRestart, bsfVars, smfVars
  <1> QED BY <1>3, <1>4, <1>5, <1>6, <1>7 DEF PolicyNext

\* A session an AF can be led to stays findable while it lives, although its address was
\* taken over from a session whose binding is still being deregistered.
THEOREM FoundSafe == PolicySpec => FoundStays
  <1>1. PolicyInv /\ [PolicyNext]_policyVars =>
          [RestartBsf \/ \A p \in Policy :
             Found(p) /\ sess[p] = "up" /\ sess'[p] = "up" => Found(p)']_policyVars
    BY FoundKept
  <1> QED BY <1>1, PolicyStarts, PolicyKeeps, PTL DEF PolicySpec, FoundStays

\* No step but a restart of the PCF takes an application session from its subscription.
LEMMA BackingStep ==
  ASSUME PolicyInv, [PolicyNext]_policyVars, ~PcfRestart, NEW n \in Sub,
         nef[n] \in {"authorized", "stored"} => n \in appSessions,
         nef'[n] \in {"authorized", "stored"}
  PROVE n \in appSessions'
  <1> USE DEF PolicyInv, PolicyTypeOK
  <1>1. CASE UNCHANGED afVars BY <1>1 DEF afVars
  <1>2. ASSUME NEW m \in Sub, SubStep(m) PROVE n \in appSessions'
    <2>1. CASE handleDeleteAppSession(m)
      <3>1. m # n BY <2>1 DEF handleDeleteAppSession
      <3> QED BY <2>1, <3>1 DEF handleDeleteAppSession
    <2>2. CASE \E a \in Addr : handleCreateSubscription(m, a)
      BY <2>2 DEF handleCreateSubscription
    <2>3. CASE handleCreateAppSession(m) BY <2>3 DEF handleCreateAppSession
    <2>4. CASE appSessionLost(m) BY <2>4 DEF appSessionLost
    <2>5. CASE storeSubscription(m) BY <2>5 DEF storeSubscription
    <2>6. CASE handleDeleteSubscription(m) BY <2>6 DEF handleDeleteSubscription
    <2> QED BY <1>2, <2>1, <2>2, <2>3, <2>4, <2>5, <2>6 DEF SubStep
  <1>3. CASE NefRestart BY <1>3 DEF NefRestart
  <1>4. ASSUME NEW p \in Policy, PolicyStep(p) PROVE UNCHANGED afVars
    BY <1>4 DEF PolicyStep, createSMPolicy, createFallsBack, releaseSessionLocal, deleteLost,
       handleCreateSmPolicy, RegisterBinding, bindingRegistered, registerLost,
       handleDeleteSmPolicy, DeregisterBinding
  <1>5. CASE RestartBsf BY <1>1, <1>5 DEF RestartBsf
  <1>6. CASE UNCHANGED policyVars BY <1>1, <1>6 DEF policyVars
  <1> QED BY <1>1, <1>2, <1>3, <1>4, <1>5, <1>6 DEF PolicyNext

\* A subscription the NEF has or is about to store keeps the application session behind it
\* whatever calls are lost and whatever else is deleted (handleDeleteSubscription).
THEOREM BackingSafe == PolicySpec => BackingKept
  <1>1. PolicyInv /\ [PolicyNext]_policyVars =>
          [PcfRestart \/ \A n \in Sub :
             (nef[n] \in {"authorized", "stored"} => n \in appSessions)
               /\ nef'[n] \in {"authorized", "stored"} => n \in appSessions']_policyVars
    BY BackingStep
  <1> QED BY <1>1, PolicyStarts, PolicyKeeps, PTL DEF PolicySpec, BackingKept
=============================================================================
