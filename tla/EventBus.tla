------------------------------ MODULE EventBus ------------------------------
(***************************************************************************)
(* The event bus of grind/orchestration/events.py.  A publish goes through *)
(* the live list of handlers and awaits each of them, so that handlers     *)
(* come and go, and other events are published, before it is at its end.   *)
(* A publisher publishes one event at a time.                              *)
(***************************************************************************)
EXTENDS Naturals, SequencesExt, FiniteSets

CONSTANTS
    Handlers,       \* the functions that may be subscribed
    Publishers,     \* the tasks that publish
    Types,          \* the event types that are published
    NoEvent,        \* a publisher publishes nothing
    FirstSubscribers    \* the subscriptions there may be at first

ASSUME EventBusAssumption ==
    /\ NoEvent \notin Types /\ IsFiniteSet(Handlers)
    /\ FirstSubscribers \subseteq [Types -> Seq(Handlers)]
    /\ \A f \in FirstSubscribers : \A t \in Types : IsInjective(f[t])

VARIABLES
    subscribers,    \* EventBus._subscribers, a list for every type
    event,          \* the type of the event that is being published
    cursor,         \* how many handlers the iterator of the publish has given out
    heard,          \* the handlers called by the publish (history)
    steady,         \* those subscribed without a break since it began (history)
    shifts          \* how often it lost a handler to the left of the cursor (history)

deliveryVars == <<event, cursor, heard, steady, shifts>>
busVars == <<subscribers, deliveryVars>>

BusInit ==
    /\ subscribers \in FirstSubscribers
    /\ event = [p \in Publishers |-> NoEvent]
    /\ cursor = [p \in Publishers |-> 0]
    /\ heard = [p \in Publishers |-> <<>>]
    /\ steady = [p \in Publishers |-> {}]
    /\ shifts = [p \in Publishers |-> 0]

Subscribed(t) == ToSet(subscribers[t])

\* A handler that subscribes twice is two handlers for the bus, so that each
\* is taken to subscribe once at a time.
Subscribe(t, h) ==
    /\ h \notin Subscribed(t)
    /\ subscribers' = [subscribers EXCEPT ![t] = Append(@, h)]
    /\ UNCHANGED deliveryVars

\* list.remove: the handlers behind it move up, under the cursors of the
\* publishes that are going on.
Unsubscribe(t, h) ==
    /\ h \in Subscribed(t)
    /\ LET i == CHOOSE i \in DOMAIN subscribers[t] : subscribers[t][i] = h IN
       /\ subscribers' = [subscribers EXCEPT ![t] = RemoveAt(@, i)]
       /\ shifts' = [p \in Publishers |->
                       IF event[p] = t /\ i <= cursor[p] THEN shifts[p] + 1 ELSE shifts[p]]
       /\ steady' = [p \in Publishers |->
                       IF event[p] = t THEN steady[p] \ {h} ELSE steady[p]]
    /\ UNCHANGED <<event, cursor, heard>>

\* publish calls the first handler.
BeginPublish(p, t) ==
    /\ event' = [event EXCEPT ![p] = t]
    /\ cursor' = [cursor EXCEPT ![p] = 1]
    /\ heard' = [heard EXCEPT ![p] = <<Head(subscribers[t])>>]
    /\ steady' = [steady EXCEPT ![p] = Subscribed(t)]
    /\ shifts' = [shifts EXCEPT ![p] = 0]
    /\ UNCHANGED subscribers

\* Slip: the iterator stops one short.
MoreButLast(p) == cursor[p] + 1 < Len(subscribers[event[p]])

\* The list iterator has another handler to give out.
More(p) == cursor[p] < Len(subscribers[event[p]])

\* Slip: the position is the one of the handler that has just ended.
CallAgain(p) ==
    /\ cursor' = [cursor EXCEPT ![p] = @ + 1]
    /\ heard' = [heard EXCEPT ![p] = Append(@, subscribers[event[p]][cursor[p]])]
    /\ UNCHANGED <<subscribers, event, steady, shifts>>

\* The handler ended and the next one is called.
CallNext(p) ==
    /\ cursor' = [cursor EXCEPT ![p] = @ + 1]
    /\ heard' = [heard EXCEPT ![p] = Append(@, subscribers[event[p]][cursor[p] + 1])]
    /\ UNCHANGED <<subscribers, event, steady, shifts>>

\* The publish is over: the last handler ended, or one raised.
EndPublish(p) ==
    /\ event' = [event EXCEPT ![p] = NoEvent]
    /\ cursor' = [cursor EXCEPT ![p] = 0]
    /\ heard' = [heard EXCEPT ![p] = <<>>]
    /\ steady' = [steady EXCEPT ![p] = {}]
    /\ shifts' = [shifts EXCEPT ![p] = 0]
    /\ UNCHANGED subscribers

---------------------------------------------------------------------------
BusTypeOK ==
    /\ subscribers \in [Types -> Seq(Handlers)]
    /\ event \in [Publishers -> Types \cup {NoEvent}]
    /\ cursor \in [Publishers -> Nat]
    /\ heard \in [Publishers -> Seq(Handlers)]
    /\ steady \in [Publishers -> SUBSET Handlers]
    /\ shifts \in [Publishers -> Nat]

\* No handler is called twice for one event that was subscribed all the time,
\* however the list changes.
HeardOnce ==
    \A p \in Publishers : \A i, j \in DOMAIN heard[p] :
        heard[p][i] = heard[p][j] /\ heard[p][i] \in steady[p] => i = j
=============================================================================
