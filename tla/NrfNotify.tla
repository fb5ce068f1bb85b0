----------------------------- MODULE NrfNotify -----------------------------
(* The NRF's status subscriptions (nf/nrf/internal/registry/subscriptions.go and
   notifySubscribers of nf/nrf/internal/server/server.go).  A change of a profile starts a
   goroutine that looks the subscriptions up when it gets to run, and a further goroutine
   for every match, which posts once.  Nothing orders these goroutines and nothing posts
   again, so what a subscriber believes may fall behind the registry; the property says
   exactly when.  The events of an instance are numbered in the order of the registry's
   changes.  Profiles keep their type.                                                   *)
EXTENDS Integers

CONSTANTS NfInstances,     \* instance identifiers
          TypeOf,          \* their NF types
          Filters,         \* ReqNFType and ReqNFInstanceID of the subscriptions made
          NotifyEvents,    \* subset of {"loss", "evict", "restart"}
          MaxChanges       \* bound on changes of a profile

VARIABLES listed,          \* instance -> the number of the change that listed it, 0 when gone
          changes,         \* instance -> number of changes so far
          statusSubs,      \* the SubscriptionStore
          dispatching,     \* goroutines of notifySubscribers that have not matched yet
          posting,         \* goroutines that have not posted yet
          view,            \* subscription -> instance -> the change it heard of last
          newest,          \* history: the newest change it has heard of
          untold,          \* history: the newest change that was lost or made without notice
          forgotten        \* history: the NRF restarted while the subscription was held

notifyVars == <<listed, changes, statusSubs, dispatching, posting, view, newest, untold, forgotten>>

Unfiltered == ""

NotifyInit ==
    /\ listed = [i \in NfInstances |-> 0]
    /\ changes = [i \in NfInstances |-> 0]
    /\ statusSubs = {} /\ dispatching = {} /\ posting = {}
    /\ view = [s \in Filters |-> [i \in NfInstances |-> 0]]
    /\ newest = view
    /\ untold = view
    /\ forgotten = {}

\* The next change of an instance, and the goroutine that is to tell of it.
Change(i, event) ==
    /\ changes[i] < MaxChanges
    /\ changes' = [changes EXCEPT ![i] = @ + 1]
    /\ listed' = [listed EXCEPT ![i] = IF event = "NF_DEREGISTERED" THEN 0 ELSE changes[i] + 1]
    /\ dispatching' = dispatching \cup {[instance |-> i, event |-> event, change |-> changes[i] + 1]}
    /\ UNCHANGED <<statusSubs, posting, view, newest, untold, forgotten>>

\* A registration of a listed instance is told as a registration as well.
RegistrationTold(i) == Change(i, "NF_REGISTERED")

UpdateTold(i) == listed[i] # 0 /\ Change(i, "NF_PROFILE_CHANGED")

DeregistrationTold(i) == listed[i] # 0 /\ Change(i, "NF_DEREGISTERED")

\* evictStale, or the end of a key's time to live: the instance is gone and nobody is told.
EvictedUntold(i) ==
    /\ "evict" \in NotifyEvents /\ listed[i] # 0 /\ changes[i] < MaxChanges
    /\ listed' = [listed EXCEPT ![i] = 0]
    /\ changes' = [changes EXCEPT ![i] = @ + 1]
    /\ untold' = [s \in Filters |-> [untold[s] EXCEPT ![i] = changes[i] + 1]]
    /\ UNCHANGED <<statusSubs, dispatching, posting, view, newest, forgotten>>

\* A subscriber reads the registry once it has subscribed.  What is still to be posted for
\* an earlier subscription with the same filter goes by the identifier it no longer uses.
handleSubscribe(s) ==
    /\ s \notin statusSubs
    /\ statusSubs' = statusSubs \cup {s}
    /\ view' = [view EXCEPT ![s] = changes]
    /\ newest' = [newest EXCEPT ![s] = changes]
    /\ untold' = [untold EXCEPT ![s] = [i \in NfInstances |-> 0]]
    /\ forgotten' = forgotten \ {s}
    /\ posting' = {p \in posting : p.sub # s}
    /\ UNCHANGED <<listed, changes, dispatching>>

handleUnsubscribe(s) ==
    /\ s \in statusSubs
    /\ statusSubs' = statusSubs \ {s}
    /\ UNCHANGED <<listed, changes, dispatching, posting, view, newest, untold, forgotten>>

\* An empty filter field asks for nothing.
Matching(s, i) ==
    /\ s.type # Unfiltered => s.type = TypeOf[i]
    /\ s.instance # Unfiltered => s.instance = i

notifySubscribers(d) ==
    /\ dispatching' = dispatching \ {d}
    /\ posting' = posting \cup {[sub |-> s, instance |-> d.instance, event |-> d.event, change |-> d.change] :
                                s \in {s \in statusSubs : Matching(s, d.instance)}}
    /\ UNCHANGED <<listed, changes, statusSubs, view, newest, untold, forgotten>>

\* The post arrives; one for a subscription given up meanwhile arrives too.
NFStatusNotify(p) ==
    /\ posting' = posting \ {p}
    /\ view' = [view EXCEPT ![p.sub][p.instance] = p.change]
    /\ newest' = [newest EXCEPT ![p.sub][p.instance] = IF p.change > @ THEN p.change ELSE @]
    /\ UNCHANGED <<listed, changes, statusSubs, dispatching, untold, forgotten>>

\* The post fails and is logged.
NotifyFails(p) ==
    /\ "loss" \in NotifyEvents
    /\ posting' = posting \ {p}
    /\ untold' = [untold EXCEPT ![p.sub][p.instance] = IF p.change > @ THEN p.change ELSE @]
    /\ UNCHANGED <<listed, changes, statusSubs, dispatching, view, newest, forgotten>>

\* The store is in memory: a new process has no subscription and no goroutine.
NrfForgets ==
    /\ "restart" \in NotifyEvents /\ statusSubs # {}
    /\ statusSubs' = {} /\ dispatching' = {} /\ posting' = {}
    /\ forgotten' = forgotten \cup statusSubs
    /\ UNCHANGED <<listed, changes, view, newest, untold>>

NotifyNext ==
    \/ \E i \in NfInstances : RegistrationTold(i) \/ UpdateTold(i) \/ DeregistrationTold(i) \/ EvictedUntold(i)
    \/ \E s \in Filters : handleSubscribe(s) \/ handleUnsubscribe(s)
    \/ \E d \in dispatching : notifySubscribers(d)
    \/ \E p \in posting : NFStatusNotify(p) \/ NotifyFails(p)
    \/ NrfForgets

NotifySpec == NotifyInit /\ [][NotifyNext]_notifyVars
-----------------------------------------------------------------------------
\* Types; a subscription lost with the store is no longer in it.
NotifyTypeOK ==
    /\ changes \in [NfInstances -> 0..MaxChanges]
    /\ \A i \in NfInstances : listed[i] \in {0} \cup 1..changes[i]
    /\ statusSubs \subseteq Filters /\ forgotten \cap statusSubs = {}
    /\ \A p \in posting : p.change <= changes[p.instance]

\* Nothing about instance i is still to be told to s.
Told(s, i) ==
    /\ \A d \in dispatching : d.instance # i
    /\ \A p \in posting : p.sub # s \/ p.instance # i

\* Two posts crossed, and the older one came last.
Overtaken(s, i) == view[s][i] < newest[s][i]

\* "NRF will POST NotificationData to the given notificationUri when matching NF profiles
\* change" (handleSubscribe): a subscriber that has been told everything knows of the last
\* change of every instance its filter names, unless the post of that change failed, the
\* change was an eviction, or two goroutines posted in the wrong order.  An empty filter
\* names every instance.
SubscriberFollows ==
    \A s \in statusSubs, i \in NfInstances :
        ((s.type \in {Unfiltered, TypeOf[i]} /\ s.instance \in {Unfiltered, i}) /\ Told(s, i)) =>
            (view[s][i] = changes[i] \/ untold[s][i] = changes[i] \/ Overtaken(s, i))
=============================================================================
