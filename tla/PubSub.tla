--------------------------------- MODULE PubSub ---------------------------------
(***************************************************************************)
(* The bus of a node (skcomms/pubsub.py PubSubBroker) and its bridge to    *)
(* other nodes (pubsub_transport.py TransportBridge).  Threads publish: a  *)
(* thread takes the matching subscriptions under the broker's lock, then   *)
(* calls them one after the other without it.  The callback of the bridge  *)
(* sends the message to the remote agents one after the other, and reads   *)
(* their list as it goes, without the bridge's lock.                       *)
(*                                                                         *)
(* Every subscription is to one pattern that every message matches, so it  *)
(* is its callback.  Callbacks are compared by identity, and the bridge's, *)
(* self._on_local_message, is a new object wherever it is written: they    *)
(* are numbered.  What another node's bridge sends is published like any   *)
(* message.  The definitions no action uses are plausible faults of the    *)
(* one after them.                                                         *)
(***************************************************************************)
EXTENDS Naturals, SequencesExt

CONSTANTS Listeners, Publishers, RemoteAgents,
          MessageCount,   \* bound on the messages published
          MaxChanges         \* bound on the changes of subscriptions, bridge and agents

Messages == 1..MessageCount
Methods  == 1..MaxChanges

ASSUME PubSubAssumption ==
  MessageCount \in Nat /\ MaxChanges \in Nat /\ Listeners \cap Methods = {}

VARIABLES
  subscriptions,
  methods,      \* how many bound methods were subscribed
  bridged, remotes,
  publishing,   \* what each thread has to call, and the index in the list of agents
  snapshot,     \* the subscriptions each published message found
  changes,
  heard,        \* history: how often each listener was called with each message
  forwarded,    \* history: how often each message was sent to each agent
  steady,       \* history: the agents listed since a message was published
  shifted       \* history: the messages during whose forwarding an agent was removed

bridgeVars  == <<methods, bridged>>
historyVars == <<heard, forwarded, steady, shifted>>
pubsubVars  == <<subscriptions, bridgeVars, remotes, publishing, snapshot, changes, historyVars>>

AtEase == [of |-> 0, todo |-> <<>>, index |-> 1]

PubSubInit ==
  /\ subscriptions = <<>> /\ methods = 0 /\ bridged = FALSE /\ remotes = <<>>
  /\ publishing = [t \in Publishers |-> AtEase] /\ snapshot = <<>> /\ changes = 0
  /\ heard = [m \in Messages |-> [l \in Listeners |-> 0]]
  /\ forwarded = [m \in Messages |-> [a \in RemoteAgents |-> 0]]
  /\ steady = [m \in Messages |-> {}] /\ shifted = {}

Change         == changes < MaxChanges /\ changes' = changes + 1
\* A list without e: neither list holds anything twice.
Without(list, e) ==
  IF e \in ToSet(list) THEN RemoveAt(list, CHOOSE i \in DOMAIN list : list[i] = e) ELSE list

-------------------------------------------------------------------------------
(* subscribe, unsubscribe, clear; start and stop.                          *)

Subscribe(l) ==
  /\ Change /\ l \notin ToSet(subscriptions)
  /\ subscriptions' = Append(subscriptions, l)
  /\ UNCHANGED <<bridgeVars, remotes, publishing, snapshot, historyVars>>

Unsubscribe(l) ==
  /\ Change /\ subscriptions' = Without(subscriptions, l)
  /\ UNCHANGED <<bridgeVars, remotes, publishing, snapshot, historyVars>>

Clear ==
  /\ Change /\ subscriptions' = <<>>
  /\ UNCHANGED <<bridgeVars, remotes, publishing, snapshot, historyVars>>

BridgeStart ==
  /\ Change /\ ~bridged /\ bridged' = TRUE /\ methods' = methods + 1
  /\ subscriptions' = Append(subscriptions, methods')
  /\ UNCHANGED <<remotes, publishing, snapshot, historyVars>>

\* The method it unsubscribes is none of those subscribed.
BridgeStop ==
  /\ Change /\ bridged /\ bridged' = FALSE
  /\ subscriptions' = Without(subscriptions, methods + 1)
  /\ UNCHANGED <<methods, remotes, publishing, snapshot, historyVars>>

AddRemote(a) ==
  /\ Change /\ a \notin ToSet(remotes) /\ remotes' = Append(remotes, a)
  /\ UNCHANGED <<subscriptions, bridgeVars, publishing, snapshot, historyVars>>

\* The agents after it move up, under the index of whoever is forwarding.
Forwarding(m) == \E t \in Publishers : publishing[t].of = m /\ publishing[t].index > 1

RemoveRemote(a) ==
  /\ Change /\ a \in ToSet(remotes) /\ remotes' = Without(remotes, a)
  /\ steady' = [m \in Messages |-> steady[m] \ {a}]
  /\ shifted' = shifted \cup {m \in Messages : Forwarding(m)}
  /\ UNCHANGED <<subscriptions, bridgeVars, publishing, snapshot, heard, forwarded>>

-------------------------------------------------------------------------------
(* publish, and inject_envelope, which publishes what an envelope holds.   *)

Publish(t) ==
  /\ publishing[t] = AtEase /\ Len(snapshot) < MessageCount
  /\ LET m == Len(snapshot) + 1 IN
       /\ snapshot' = Append(snapshot, subscriptions)
       /\ publishing' = [publishing EXCEPT ![t] = [of |-> m, todo |-> subscriptions, index |-> 1]]
       /\ steady' = [steady EXCEPT ![m] = ToSet(remotes)]
  /\ UNCHANGED <<subscriptions, bridgeVars, remotes, changes, heard, forwarded, shifted>>

\* What is left to call after a callback, which may have raised.
RaisedEnds(left, raised)  == IF raised THEN <<>> ELSE Tail(left)
AfterCallback(left, raised) == Tail(left)

Advance(t, left) == publishing' =
  [publishing EXCEPT ![t] = IF left = <<>> THEN AtEase ELSE [@ EXCEPT !.todo = left, !.index = 1]]

CallListener(t, raised) ==
  /\ publishing[t].todo # <<>>
  /\ LET l == Head(publishing[t].todo) IN
       /\ l \in Listeners
       /\ heard' = [heard EXCEPT ![publishing[t].of][l] = @ + 1]
  /\ Advance(t, AfterCallback(publishing[t].todo, raised))
  /\ UNCHANGED <<subscriptions, bridgeVars, remotes, snapshot, changes,
                 forwarded, steady, shifted>>

\* _on_local_message: one agent, whether the send to it fails or not.
ForwardNext(t) ==
  /\ publishing[t].todo # <<>> /\ Head(publishing[t].todo) \in Methods
  /\ publishing[t].index <= Len(remotes)
  /\ forwarded' = [forwarded EXCEPT ![publishing[t].of][remotes[publishing[t].index]] = @ + 1]
  /\ publishing' = [publishing EXCEPT ![t].index = @ + 1]
  /\ UNCHANGED <<subscriptions, bridgeVars, remotes, snapshot, changes,
                 heard, steady, shifted>>

EndForward(t) ==
  /\ publishing[t].todo # <<>> /\ Head(publishing[t].todo) \in Methods
  /\ publishing[t].index > Len(remotes)
  /\ Advance(t, Tail(publishing[t].todo))
  /\ UNCHANGED <<subscriptions, bridgeVars, remotes, snapshot, changes, historyVars>>

\* Nobody is subscribed.
NothingToCall(t) ==
  /\ publishing[t] # AtEase /\ publishing[t].todo = <<>> /\ Advance(t, <<>>)
  /\ UNCHANGED <<subscriptions, bridgeVars, remotes, snapshot, changes, historyVars>>

PubSubNext ==
  \/ \E l \in Listeners : Subscribe(l) \/ Unsubscribe(l)
  \/ Clear \/ BridgeStart \/ BridgeStop
  \/ \E a \in RemoteAgents : AddRemote(a) \/ RemoveRemote(a)
  \/ \E t \in Publishers : \/ Publish(t) \/ ForwardNext(t) \/ EndForward(t) \/ NothingToCall(t)
                           \/ \E raised \in BOOLEAN : CallListener(t, raised)

PubSubSpec == PubSubInit /\ [][PubSubNext]_pubsubVars

-------------------------------------------------------------------------------
(* Every variable keeps its shape.                                         *)
PubSubTypeOK ==
  /\ ToSet(subscriptions) \subseteq Listeners \cup Methods /\ methods \in 0..MaxChanges
  /\ bridged \in BOOLEAN /\ ToSet(remotes) \subseteq RemoteAgents /\ changes \in 0..MaxChanges
  /\ \A t \in Publishers : publishing[t].of \in {0} \cup Messages
  /\ Len(snapshot) <= MessageCount
  /\ heard \in [Messages -> [Listeners -> Nat]]
  /\ forwarded \in [Messages -> [RemoteAgents -> Nat]]
  /\ steady \in [Messages -> SUBSET RemoteAgents]
  /\ shifted \subseteq Messages

Over(m) == m <= Len(snapshot) /\ \A t \in Publishers : publishing[t].of # m
Times(S, m) == Cardinality({i \in DOMAIN snapshot[m] : snapshot[m][i] \in S})

\* "Exceptions raised by individual callbacks are caught and logged; other
\* subscribers still receive the message": once, if they were subscribed when it
\* was published, and whoever subscribes or unsubscribes meanwhile.
ListenersServed == \A m \in Messages, l \in Listeners :
  Over(m) => heard[m][l] = Times({l}, m)

\* "Each published message matching an export pattern is sent to all agents in
\* this list": unless an agent is removed while it is being sent.
AgentsServed == \A m \in Messages \ shifted, a \in RemoteAgents :
  Over(m) /\ a \in steady[m] => forwarded[m][a] = Times(Methods, m)

\* No agent is sent a message twice by one callback, though the list grows under it.
NotTwice == \A m \in Messages \ shifted, a \in RemoteAgents :
  m <= Len(snapshot) => forwarded[m][a] <= Times(Methods, m)

(* pubsub.py, pubsub_transport.py: a message goes once to everybody it was *)
(* to go to.                                                               *)
BusKeeps == ListenersServed /\ AgentsServed /\ NotTwice
===============================================================================
