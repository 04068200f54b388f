------------------------------ MODULE Observer ------------------------------
(***************************************************************************)
(* The observer, grind/observer/server.py and store.py, with the hooks     *)
(* that post to it (grind/hooks_config.py).  A request is handled in one   *)
(* turn of the event loop: the event is stored and queued.  One coroutine  *)
(* takes events from the queue and sends each to the clients of the set    *)
(* ws_clients, one after the other, while clients come and go.  The name   *)
(* of a client stands for one WebSocket connection at a time.              *)
(***************************************************************************)
EXTENDS Naturals, Sequences, FiniteSets

CONSTANTS
    Events,         \* the events that hooks post
    Clients,        \* the clients of the stream
    Nobody,         \* no client
    MaxJoins,       \* bound: how often a client comes
    MaxCrashes      \* bound: how often the server is stopped or killed

ASSUME ObserverAssumption ==
    /\ IsFiniteSet(Clients) /\ Nobody \notin Clients
    /\ MaxJoins \in Nat /\ MaxCrashes \in Nat

VARIABLES
    hook,       \* what the hook of an event knows
    requests,   \* requests on their way to the server
    rows,       \* the table events as committed, in the order of the row ids
    transaction,\* what was inserted and is not committed
    refused,    \* events whose request was answered with an error (history)
    up,         \* the server is running
    queue,      \* event_queue: row ids
    loop,       \* where _broadcast_loop is
    message,    \* the row id it sends
    target,     \* the client it sends it to
    ahead,      \* the clients its iterator has not come to
    size,       \* the size of the set when the iterator was made
    dead,       \* its set dead
    clients,    \* ws_clients
    open,       \* clients with a coroutine in websocket_stream
    heard,      \* row ids that an open client received (history)
    disturbed,  \* row ids during whose sending a client came (history)
    joins,      \* how often a client came
    crashes     \* how often the server went down

storeVars == <<hook, requests, rows, transaction, refused>>
loopVars == <<loop, message, target, ahead, size, dead>>
clientVars == <<clients, open, heard, disturbed, joins>>
vars == <<storeVars, up, queue, loopVars, clientVars, crashes>>

Init ==
    /\ hook = [e \in Events |-> "idle"]
    /\ requests = {}
    /\ rows = <<>> /\ transaction = <<>> /\ refused = {}
    /\ up = TRUE
    /\ queue = <<>>
    /\ loop = "waiting" /\ message = 0 /\ target = Nobody
    /\ ahead = {} /\ size = 0 /\ dead = {}
    /\ clients = {} /\ open = {}
    /\ heard = [c \in Clients |-> <<>>]
    /\ disturbed = {}
    /\ joins = 0 /\ crashes = 0

---------------------------------------------------------------------------
(* Hooks, and receive_event.                                               *)

\* The command of a hook; with no server its error is thrown away.
Post(e) ==
    /\ hook[e] = "idle"
    /\ IF up THEN /\ hook' = [hook EXCEPT ![e] = "waiting"]
                  /\ requests' = requests \cup {e}
             ELSE /\ hook' = [hook EXCEPT ![e] = "failed"]
                  /\ UNCHANGED requests
    /\ UNCHANGED <<rows, transaction, refused, up, queue, loopVars, clientVars, crashes>>

\* The hook waits for two seconds; the server may handle the request later.
GiveUp(e) ==
    /\ hook[e] = "waiting"
    /\ hook' = [hook EXCEPT ![e] = "failed"]
    /\ UNCHANGED <<requests, rows, transaction, refused, up, queue, loopVars, clientVars, crashes>>

Reply(e, answer) ==
    /\ requests' = requests \ {e}
    /\ hook' = [hook EXCEPT ![e] = IF @ = "waiting" THEN answer ELSE @]

\* The id that the next row gets.
NextRow == Len(rows) + Len(transaction) + 1

\* Slip: the event is queued and answered, and never committed.
StreamOnly(e) ==
    /\ transaction' = Append(transaction, e)
    /\ queue' = Append(queue, NextRow)
    /\ UNCHANGED rows

\* insert and put; nothing is awaited in between.  The commit is also that of
\* the inserts before whose own commit failed, and those are not queued.
StoreAndQueue(e) ==
    /\ rows' = Append(rows \o transaction, e)
    /\ transaction' = <<>>
    /\ queue' = Append(queue, NextRow)

Receive(e) ==
    /\ up /\ e \in requests
    /\ StoreAndQueue(e)
    /\ Reply(e, "ok")
    /\ UNCHANGED <<refused, up, loopVars, clientVars, crashes>>

\* insert raises.  The INSERT fails, say for a session_id that is null, or the
\* commit does, say of a locked database, and leaves the row in the open
\* transaction.  Some errors have SQLite roll the transaction back.
Refuse(e) ==
    /\ up /\ e \in requests
    /\ transaction' \in {transaction, Append(transaction, e), <<>>}
    /\ refused' = refused \cup {e}
    /\ Reply(e, "failed")
    /\ UNCHANGED <<rows, up, queue, loopVars, clientVars, crashes>>

---------------------------------------------------------------------------
(* websocket_stream.                                                       *)

\* The client is put into the set.  That may rebuild the set's table, so that
\* which clients a running iterator has still to come to is up to the hashes.
Connect(c) ==
    /\ up /\ joins < MaxJoins /\ c \notin open \cup dead \cup {target}
    /\ joins' = joins + 1
    /\ open' = open \cup {c}
    /\ clients' = clients \cup {c}
    /\ IF loop = "sending"
       THEN ahead' \in SUBSET clients' /\ disturbed' = disturbed \cup {message}
       ELSE UNCHANGED <<ahead, disturbed>>
    /\ UNCHANGED <<storeVars, up, queue, loop, message, target, size, dead, heard, crashes>>

Disconnect(c) ==
    /\ c \in open
    /\ open' = open \ {c}
    /\ clients' = clients \ {c}
    /\ ahead' = ahead \ {c}
    /\ heard' = [heard EXCEPT ![c] = <<>>]
    /\ UNCHANGED <<storeVars, up, queue, loop, message, target, size, dead, disturbed, joins,
                   crashes>>

---------------------------------------------------------------------------
(* _broadcast_loop.                                                        *)

SendTo(c, rest) == target' = c /\ ahead' = rest \ {c}

\* Slip: the queue is a stack.
TakeLast ==
    /\ up /\ loop = "waiting" /\ queue # <<>>
    /\ queue' = SubSeq(queue, 1, Len(queue) - 1)
    /\ IF clients = {} THEN UNCHANGED loopVars
       ELSE /\ loop' = "sending"
            /\ message' = queue[Len(queue)]
            /\ size' = Cardinality(clients)
            /\ dead' = {}
            /\ \E c \in clients : SendTo(c, clients)
    /\ UNCHANGED <<storeVars, up, clientVars, crashes>>

\* The next event; with no clients it is dropped.
Take ==
    /\ up /\ loop = "waiting" /\ queue # <<>>
    /\ queue' = Tail(queue)
    /\ IF clients = {} THEN UNCHANGED loopVars
       ELSE /\ loop' = "sending"
            /\ message' = Head(queue)
            /\ size' = Cardinality(clients)
            /\ dead' = {}
            /\ \E c \in clients : SendTo(c, clients)
    /\ UNCHANGED <<storeVars, up, clientVars, crashes>>

RemoveDead(gone) == clients' = clients \ gone

\* The coroutine sends nothing: it waits for an event, or has ended.
Rest(where) ==
    /\ loop' = where
    /\ message' = 0 /\ size' = 0 /\ target' = Nobody /\ ahead' = {} /\ dead' = {}

\* The send is over, and `gone` are the clients found dead so far.  The
\* iterator raises when the size of the set has changed, which ends the
\* coroutine; behind the last client the dead ones are removed.
Advance(gone) ==
    \/ /\ Cardinality(clients) # size
       /\ Rest("ended")
       /\ UNCHANGED clients
    \/ /\ Cardinality(clients) = size /\ ahead # {}
       /\ \E c \in ahead : SendTo(c, ahead)
       /\ dead' = gone
       /\ UNCHANGED <<loop, message, size, clients>>
    \/ /\ Cardinality(clients) = size /\ ahead = {}
       /\ Rest("waiting")
       /\ RemoveDead(gone)

Sent ==
    /\ up /\ loop = "sending"
    /\ heard' = IF target \in open THEN [heard EXCEPT ![target] = Append(@, message)] ELSE heard
    /\ Advance(dead)
    /\ UNCHANGED <<storeVars, up, queue, open, disturbed, joins, crashes>>

\* Slip: one connection that fails ends the sending of the event.
SendBreaks ==
    /\ up /\ loop = "sending"
    /\ Rest("waiting")
    /\ clients' = clients \ (dead \cup {target})
    /\ UNCHANGED <<storeVars, up, queue, open, heard, disturbed, joins,
                   crashes>>

SendFails ==
    /\ up /\ loop = "sending"
    /\ Advance(dead \cup {target})
    /\ UNCHANGED <<storeVars, up, queue, open, heard, disturbed, joins,
                   crashes>>

---------------------------------------------------------------------------
(* The server is stopped, or killed, and started again on its database.    *)

Stop ==
    /\ up /\ crashes < MaxCrashes
    /\ up' = FALSE /\ crashes' = crashes + 1
    /\ requests' = {}
    /\ hook' = [e \in Events |-> IF hook[e] = "waiting" THEN "failed" ELSE hook[e]]
    /\ queue' = <<>> /\ transaction' = <<>>
    /\ Rest("ended")
    /\ clients' = {} /\ open' = {}
    /\ heard' = [c \in Clients |-> <<>>]
    /\ UNCHANGED <<rows, refused, disturbed, joins>>

Start ==
    /\ ~up
    /\ up' = TRUE
    /\ loop' = "waiting"
    /\ UNCHANGED <<storeVars, queue, message, target, ahead, size, dead, clientVars, crashes>>

---------------------------------------------------------------------------
Handle(e) == Receive(e) \/ Refuse(e)
Broadcast == Take \/ Sent \/ SendFails

Next ==
    \/ \E e \in Events : Post(e) \/ GiveUp(e) \/ Handle(e)
    \/ \E c \in Clients : Connect(c) \/ Disconnect(c)
    \/ Broadcast
    \/ Stop \/ Start

\* The event loop runs what is ready, and a send ends: a connection that
\* does not answer is closed by the WebSocket server.
Fairness == WF_vars(Broadcast) /\ \A e \in Events : WF_vars(Handle(e))

Spec == Init /\ [][Next]_vars /\ Fairness

---------------------------------------------------------------------------
(* Properties.                                                             *)

Stored == {rows[i] : i \in DOMAIN rows}

TypeOK ==
    /\ hook \in [Events -> {"idle", "waiting", "ok", "failed"}]
    /\ requests \subseteq Events
    /\ rows \in Seq(Events) /\ transaction \in Seq(Events) /\ refused \subseteq Events
    /\ up \in BOOLEAN
    /\ queue \in Seq(Nat)
    /\ loop \in {"waiting", "sending", "ended"}
    /\ message \in Nat /\ size \in Nat /\ joins \in Nat /\ crashes \in Nat
    /\ target \in Clients \cup {Nobody}
    /\ ahead \subseteq Clients /\ dead \subseteq Clients
    /\ clients \subseteq open /\ open \subseteq Clients
    /\ heard \in [Clients -> Seq(Nat)] /\ disturbed \subseteq Nat

\* What a client is sent over one connection are stored events, in the order
\* they were stored.  None is missing from the first to the last unless its
\* request was answered with an error, and none comes twice; but for events
\* during whose sending another client came.
StreamInOrder ==
    \A c \in Clients :
        LET h == heard[c] IN
        /\ \A i \in DOMAIN h : h[i] \in DOMAIN rows
        /\ \A i, j \in DOMAIN h : i < j =>
             h[i] < h[j] \/ (h[i] = h[j] /\ h[i] \in disturbed)
        /\ \A i \in DOMAIN h, k \in DOMAIN rows : h[1] < k /\ k < h[i] =>
             k \in disturbed \/ rows[k] \in refused \/ \E j \in DOMAIN h : h[j] = k

\* The hook is told "ok" only about an event that is stored, also after the
\* server was killed; and no event is stored twice.
AnsweredIsStored ==
    /\ \A e \in Events : hook[e] = "ok" => e \in Stored
    /\ \A i, j \in DOMAIN rows : rows[i] = rows[j] => i = j

\* An event in the queue gets to every client that stays, as long as the
\* broadcast loop lives and no other client comes while it is sent.
QueuedIsHeard ==
    \A c \in Clients, k \in 1..Cardinality(Events) :
        (c \in clients \ dead /\ \E i \in DOMAIN queue : queue[i] = k) ~>
            \/ \E i \in DOMAIN heard[c] : heard[c][i] = k
            \/ k \in disturbed \/ c \notin clients \/ loop = "ended"
=============================================================================
