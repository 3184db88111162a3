------------------------------- MODULE Broker -------------------------------
(***************************************************************************)
(* MessageBroker, for one channel: subscriptions that come and go while    *)
(* publish waits for one handler after the other.                          *)
(*                                                                         *)
(* Subscriptions are numbered as they are made, which is the order in      *)
(* which a JavaScript Set visits them; an iteration that is under way      *)
(* skips what is deleted and visits what is added.  The Set of a channel   *)
(* is dropped when it is empty, and a later subscription makes a new one,  *)
(* while publish calls hold on to theirs.  The delivery statistics are     *)
(* left out.                                                               *)
(*                                                                         *)
(* "inbox", "audience", "cancelled" and "destroyed" are history variables: *)
(* what each handler was called with, who was subscribed when a message    *)
(* was published, the subscriptions that were ended, and whether destroy   *)
(* was called.                                                             *)
(***************************************************************************)
EXTENDS Integers, RingBuffer, FiniteSets

CONSTANTS
  MaxSubscriptions,   \* bound on the subscriptions made
  MaxMessages,        \* bound on the messages published
  Filtering,          \* the subscriptions that have a filter
  Filtered            \* the messages it rejects

ASSUME BrokerAssumption ==
  /\ MaxSubscriptions \in Nat /\ MaxMessages \in Nat
  /\ Values = 1 .. MaxMessages /\ Filtered \subseteq Values

VARIABLES
  sets,       \* the Sets made for the channel so far
  current,    \* the one in the channels Map, 0 if the channel has none
  made,       \* the number of subscriptions made
  counter,    \* sequenceCounters
  calls,      \* the calls of publish: [sequence, set, at], at = 0 when ended
  inbox, audience, cancelled, destroyed

brokerGhosts == <<inbox, audience, cancelled, destroyed>>
brokerVars   == <<sets, current, made, counter, calls, brokerGhosts, ringVars>>

Subscriptions == 1 .. MaxSubscriptions
Messages      == DOMAIN calls

BrokerInit ==
  /\ RingInit
  /\ sets = <<>> /\ current = 0 /\ made = 0
  /\ counter = 0 /\ calls = <<>>
  /\ inbox = [s \in Subscriptions |-> <<>>]
  /\ audience = <<>> /\ cancelled = {} /\ destroyed = FALSE

Subscribe ==
  /\ made < MaxSubscriptions
  /\ made' = made + 1
  /\ IF current = 0
     THEN sets' = Append(sets, {made + 1}) /\ current' = Len(sets) + 1
     ELSE sets' = [sets EXCEPT ![current] = @ \cup {made + 1}] /\ UNCHANGED current
  /\ UNCHANGED <<counter, calls, brokerGhosts, ringVars>>

(* unsubscribe looks the channel up again: it may have a new Set. *)
Unsubscribe(s) ==
  /\ s \in 1 .. made /\ s \notin cancelled
  /\ cancelled' = cancelled \cup {s}
  /\ IF current = 0 THEN UNCHANGED <<sets, current>>
     ELSE LET left == sets[current] \ {s}
          IN  /\ sets' = [sets EXCEPT ![current] = left]
              /\ current' = IF left = {} THEN 0 ELSE current
  /\ UNCHANGED <<made, counter, calls, inbox, audience, destroyed, ringVars>>

Accepts(s, m) == ~(s \in Filtering /\ m \in Filtered)

First(S) == IF S = {} THEN 0 ELSE CHOOSE s \in S : \A t \in S : s <= t

(* Faulty: the loop runs over a copy of the Set. *)
NextCallOfCopy(m, set, s) ==
  First({t \in (IF m \in DOMAIN audience THEN audience[m] ELSE sets[set]) : t > s /\ Accepts(t, m)})

(* The handler publish calls after that of s, 0 at the end of the loop. *)
NextCall(m, set, s) == First({t \in sets[set] : t > s /\ Accepts(t, m)})

Called(s, m) == [t \in Subscriptions |-> IF t = s THEN Append(inbox[t], m) ELSE inbox[t]]

(* Faulty: something is awaited before the loop. *)
FirstCallLater(m) == IF current = 0 THEN 0 ELSE -1

FirstCall(m) == IF current = 0 THEN 0 ELSE NextCall(m, current, 0)

NewMessage(m) ==
  /\ m = Len(calls) + 1
  /\ m <= MaxMessages
  /\ counter' = counter + 1
  /\ Push(m)
  /\ audience' = Append(audience, IF current = 0 THEN {} ELSE sets[current])

(* publish, up to the first await: the first handler is called at once. *)
Publish(m) ==
  /\ NewMessage(m)
  /\ calls' = Append(calls, [sequence |-> counter', set |-> current, at |-> FirstCall(m)])
  /\ inbox' = Called(FirstCall(m), m)
  /\ UNCHANGED <<sets, current, made, cancelled, destroyed>>

(* Faulty: an exception ends the loop. *)
AfterThrowingOut(m, threw) == IF threw THEN 0 ELSE NextCall(m, calls[m].set, calls[m].at)

Awaiting(m) == calls[m].at # 0

(* Where the loop goes on when the awaited handler has returned or thrown. *)
After(m, threw) == NextCall(m, calls[m].set, calls[m].at)
HandlerSettles(m, threw) ==
  /\ Awaiting(m)
  /\ calls' = [calls EXCEPT ![m].at = After(m, threw)]
  /\ inbox' = Called(After(m, threw), m)
  /\ UNCHANGED <<sets, current, made, counter, audience, cancelled, destroyed, ringVars>>

(* publishSync, and broadcast, which calls it: nothing is awaited. *)
PublishSync(m) ==
  /\ NewMessage(m)
  /\ calls' = Append(calls, [sequence |-> counter', set |-> current, at |-> 0])
  /\ inbox' = [s \in Subscriptions |->
                 IF s \in audience'[m] /\ Accepts(s, m) THEN Append(inbox[s], m) ELSE inbox[s]]
  /\ UNCHANGED <<sets, current, made, cancelled, destroyed>>

(* destroy forgets the Sets, it does not empty them; once is enough. *)
Destroy ==
  /\ ~destroyed
  /\ destroyed' = TRUE
  /\ current' = 0 /\ counter' = 0
  /\ ClearBuffer
  /\ UNCHANGED <<sets, made, calls, inbox, audience, cancelled>>

BrokerNext ==
  \/ Subscribe
  \/ \E s \in Subscriptions : Unsubscribe(s)
  \/ \E m \in Values : Publish(m) \/ PublishSync(m)
  \/ \E m \in Messages, threw \in BOOLEAN : HandlerSettles(m, threw)
  \/ Destroy

BrokerSpec == BrokerInit /\ [][BrokerNext]_brokerVars
-----------------------------------------------------------------------------
Received(s) == {inbox[s][i] : i \in DOMAIN inbox[s]}

(* publish: whoever is subscribed from before a message is published until *)
(* the call ends gets it once, whichever handlers fail and whoever comes   *)
(* and goes meanwhile; nobody gets it twice.                               *)
DeliveredToAll ==
  /\ \A s \in Subscriptions : Cardinality(Received(s)) = Len(inbox[s])
  /\ \A m \in Messages : \A s \in audience[m] \ cancelled :
       calls[m].at = 0 /\ Accepts(s, m) => m \in Received(s)

(* publish and unsubscribe: a handler is not called any more once its      *)
(* subscription was ended, by publish calls under way either.  Only        *)
(* destroy leaves Sets that unsubscribe cannot reach.                      *)
SilentAfterUnsubscribe ==
  [][\A s \in cancelled : inbox'[s] # inbox[s] => destroyed]_brokerVars

(* publish: of the messages published while a subscription was the first   *)
(* in the channel, its handler is called in the order of their sequence    *)
(* numbers; handlers further back may see them out of order.               *)
FirstInOrder ==
  ~destroyed =>
    \A s \in Subscriptions : \A i, j \in DOMAIN inbox[s] :
      (i < j /\ First(audience[inbox[s][i]]) = s /\ First(audience[inbox[s][j]]) = s)
        => calls[inbox[s][i]].sequence < calls[inbox[s][j]].sequence
=============================================================================
