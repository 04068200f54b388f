---------------------------- MODULE ObserverProofs ----------------------------
(***************************************************************************)
(* Theorems about the observer for any number of events and clients, and   *)
(* for any number of crashes.                                              *)
(***************************************************************************)
EXTENDS Observer, FiniteSetTheorems, TLAPS

USE ObserverAssumption

---------------------------------------------------------------------------
(* What a hook is told.                                                    *)

\* A request is on its way between its hook's post and the server's answer,
\* and its event is written only by the answer.
Written == rows \o transaction

StoreInv ==
    /\ hook \in [Events -> {"idle", "waiting", "ok", "failed"}]
    /\ requests \subseteq Events
    /\ rows \in Seq(Events) /\ transaction \in Seq(Events)
    /\ \A e \in Events : hook[e] = "ok" => e \in Stored
    /\ \A e \in requests : hook[e] # "idle"
    /\ \A i \in DOMAIN Written : Written[i] \notin requests /\ hook[Written[i]] # "idle"
    /\ \A i, j \in DOMAIN Written : Written[i] = Written[j] => i = j

LEMMA Joined ==
    ASSUME NEW S, NEW s \in Seq(S), NEW t \in Seq(S), NEW e \in S
    PROVE  /\ s \o t \in Seq(S) /\ s \o <<>> = s /\ s \o Append(t, e) = Append(s \o t, e)
           /\ Len(s \o t) = Len(s) + Len(t)
           /\ DOMAIN s = 1..Len(s) /\ DOMAIN t = 1..Len(t) /\ DOMAIN (s \o t) = 1..(Len(s) + Len(t))
           /\ \A i \in 1..Len(s) : (s \o t)[i] = s[i]
           /\ \A i \in (Len(s) + 1)..(Len(s) + Len(t)) : (s \o t)[i] = t[i - Len(s)]
  OBVIOUS

LEMMA Appended ==
    ASSUME NEW S, NEW s \in Seq(S), NEW e \in S
    PROVE  /\ Append(s, e) \in Seq(S) /\ DOMAIN s = 1..Len(s)
           /\ DOMAIN Append(s, e) = 1..(Len(s) + 1) /\ Len(s) \in Nat
           /\ Append(s, e)[Len(s) + 1] = e /\ \A i \in 1..Len(s) : Append(s, e)[i] = s[i]
  OBVIOUS

\* An event is answered, and written at most behind all others.
LEMMA AnswerStores ==
    ASSUME StoreInv, NEW e \in requests, NEW answer \in {"ok", "failed"}, Reply(e, answer),
           rows' \in Seq(Events), transaction' \in Seq(Events),
           \A f \in Stored : f \in Stored', answer = "ok" => e \in Stored',
           Written' \in {rows, Written, Append(Written, e)}
    PROVE  StoreInv'
<1>1. /\ requests' = requests \ {e} /\ hook' \in [Events -> {"idle", "waiting", "ok", "failed"}]
      /\ hook'[e] # "idle" /\ (hook'[e] = "ok" => e \in Stored')
      /\ \A f \in Events \ {e} : hook'[f] = hook[f]
      /\ e \in Events /\ Written \in Seq(Events)
  BY Joined DEF StoreInv, Reply, Written
<1>2. /\ \A f \in Events : hook'[f] = "ok" => f \in Stored'
      /\ \A f \in requests' : hook'[f] # "idle"
  BY <1>1 DEF StoreInv
<1>3. \A i \in DOMAIN Written : Written[i] \in Events /\ Written[i] # e
  BY <1>1 DEF StoreInv
<1>4. CASE Written' = Append(Written, e)
  <2>1. /\ DOMAIN Written = 1..Len(Written) /\ DOMAIN Written' = 1..(Len(Written) + 1)
        /\ Len(Written) \in Nat /\ Written'[Len(Written) + 1] = e
        /\ \A i \in 1..Len(Written) : Written'[i] = Written[i]
    BY <1>1, <1>4, Appended
  <2> HIDE DEF Written
  <2>2. \A i \in DOMAIN Written' : Written'[i] \notin requests' /\ hook'[Written'[i]] # "idle"
    BY <1>1, <1>3, <2>1 DEF StoreInv
  <2>3. \A i \in 1..Len(Written) : Written'[i] = Written[i] /\ Written'[i] # e
    BY <1>3, <2>1
  <2>4. ASSUME NEW i \in DOMAIN Written', NEW j \in DOMAIN Written', Written'[i] = Written'[j]
        PROVE  i = j
    <3>1. CASE i \in 1..Len(Written) /\ j \in 1..Len(Written)
      BY <2>1, <2>3, <2>4, <3>1 DEF StoreInv
    <3>2. CASE i = Len(Written) + 1 \/ j = Len(Written) + 1
      BY <2>1, <2>3, <2>4, <3>2
    <3> QED
      BY <2>1, <3>1, <3>2
  <2> QED
    BY <1>1, <1>2, <2>2, <2>4 DEF StoreInv
<1>5. CASE Written' \in {rows, Written}
  <2>1. \A i \in DOMAIN Written' : i \in DOMAIN Written /\ Written'[i] = Written[i]
    <3>1. \A i \in DOMAIN rows : i \in DOMAIN Written /\ Written[i] = rows[i]
      BY Joined DEF StoreInv, Written
    <3> HIDE DEF Written
    <3> QED
      BY <1>5, <3>1
  <2> HIDE DEF Written
  <2>2. \A i \in DOMAIN Written' : Written'[i] \notin requests' /\ hook'[Written'[i]] # "idle"
    BY <1>1, <1>3, <2>1 DEF StoreInv
  <2>3. \A i, j \in DOMAIN Written' : Written'[i] = Written'[j] => i = j
    BY <2>1 DEF StoreInv
  <2> QED
    BY <1>1, <1>2, <2>2, <2>3 DEF StoreInv
<1> QED
  BY <1>4, <1>5

LEMMA ReceiveStores ==
    ASSUME StoreInv, NEW e \in Events, Receive(e)
    PROVE  StoreInv'
<1>1. /\ e \in requests /\ Reply(e, "ok")
      /\ rows' = Append(Written, e) /\ transaction' = <<>>
  BY DEF Receive, StoreAndQueue, Written
<1>2. Written \in Seq(Events) /\ \A i \in DOMAIN rows : i \in DOMAIN Written /\ Written[i] = rows[i]
  BY Joined DEF StoreInv, Written
<1>3. rows' \in Seq(Events) /\ transaction' \in Seq(Events) /\ Written' = Append(Written, e)
  <2>1. rows' \in Seq(Events) /\ transaction' = <<>>
    BY <1>1, <1>2, Appended
  <2>2. rows' \o <<>> = rows'
    BY <2>1, Joined
  <2> QED
    BY <1>1, <2>1, <2>2 DEF Written
<1>4. (\A f \in Stored : f \in Stored') /\ e \in Stored'
  <2>1. \A i \in DOMAIN rows : i \in DOMAIN rows' /\ rows'[i] = rows[i]
    BY <1>1, <1>2, Appended
  <2>2. Len(Written) + 1 \in DOMAIN rows' /\ rows'[Len(Written) + 1] = e
    BY <1>1, <1>2, Appended
  <2> QED
    BY <2>1, <2>2 DEF Stored
<1> QED
  BY <1>1, <1>3, <1>4, AnswerStores

LEMMA RefuseStores ==
    ASSUME StoreInv, NEW e \in Events, Refuse(e)
    PROVE  StoreInv'
<1>1. /\ e \in requests /\ Reply(e, "failed") /\ rows' = rows /\ Stored' = Stored
      /\ transaction' \in {transaction, Append(transaction, e), <<>>}
  BY DEF Refuse, Stored
<1>2. /\ rows \in Seq(Events) /\ transaction \in Seq(Events)
      /\ Append(transaction, e) \in Seq(Events) /\ <<>> \in Seq(Events)
  BY Appended DEF StoreInv
<1>3. transaction' \in Seq(Events)
  BY <1>1, <1>2
<1>4. Written' \in {rows, Written, Append(Written, e)}
  <2>1. /\ rows \o Append(transaction, e) = Append(Written, e)
        /\ rows \o <<>> = rows
    BY <1>2, Joined DEF Written
  <2>2. Written' = rows \o transaction'
    BY <1>1 DEF Written
  <2>3. CASE transaction' = transaction
    BY <2>2, <2>3 DEF Written
  <2>4. CASE transaction' = Append(transaction, e)
    BY <2>1, <2>2, <2>4
  <2>5. CASE transaction' = <<>>
    BY <2>1, <2>2, <2>5
  <2> QED
    BY <1>1, <2>3, <2>4, <2>5
<1> QED
  BY <1>1, <1>2, <1>3, <1>4, AnswerStores

LEMMA StoreStep == StoreInv /\ [Next]_vars => StoreInv'
<1> SUFFICES ASSUME StoreInv, [Next]_vars PROVE StoreInv'
  OBVIOUS
<1>1. ASSUME NEW e \in Events, Post(e) \/ GiveUp(e) \/ Handle(e) PROVE StoreInv'
  <2>1. CASE Receive(e)
    BY <2>1, ReceiveStores
  <2>2. CASE Refuse(e)
    BY <2>2, RefuseStores
  <2>3. CASE Post(e)
    <3>1. /\ UNCHANGED <<rows, transaction>> /\ hook[e] = "idle"
          /\ hook' \in [Events -> {"idle", "waiting", "ok", "failed"}]
          /\ hook'[e] \in {"waiting", "failed"} /\ \A f \in Events \ {e} : hook'[f] = hook[f]
          /\ requests' \in {requests, requests \cup {e}}
      BY <2>3 DEF Post, StoreInv
    <3>2. Stored' = Stored /\ Written' = Written
      BY <3>1 DEF Stored, Written
    <3>3. Written \in Seq(Events)
      BY Joined DEF StoreInv, Written
    <3> HIDE DEF Written
    <3>4. \A i \in DOMAIN Written' : Written'[i] \notin requests' /\ hook'[Written'[i]] # "idle"
      BY <3>1, <3>2, <3>3 DEF StoreInv
    <3> QED
      BY <3>1, <3>2, <3>4 DEF StoreInv
  <2>4. CASE GiveUp(e)
    <3>1. /\ UNCHANGED <<rows, transaction, requests>>
          /\ hook' \in [Events -> {"idle", "waiting", "ok", "failed"}]
          /\ hook'[e] = "failed" /\ \A f \in Events \ {e} : hook'[f] = hook[f]
      BY <2>4 DEF GiveUp, StoreInv
    <3>2. Stored' = Stored /\ Written' = Written
      BY <3>1 DEF Stored, Written
    <3>3. Written \in Seq(Events)
      BY Joined DEF StoreInv, Written
    <3> HIDE DEF Written
    <3> QED
      BY <3>1, <3>2, <3>3 DEF StoreInv
  <2> QED
    BY <1>1, <2>1, <2>2, <2>3, <2>4 DEF Handle
<1>2. CASE Stop
  <2>1. /\ rows' = rows /\ transaction' = <<>> /\ requests' = {} /\ Stored' = Stored
        /\ hook' = [e \in Events |-> IF hook[e] = "waiting" THEN "failed" ELSE hook[e]]
    BY <1>2 DEF Stop, Stored
  <2>2. Written' = rows /\ \A i \in DOMAIN rows : i \in DOMAIN Written /\ Written[i] = rows[i]
    BY <2>1, Joined DEF StoreInv, Written
  <2> HIDE DEF Written
  <2> QED
    BY <2>1, <2>2 DEF StoreInv
<1>3. ASSUME UNCHANGED storeVars PROVE StoreInv'
  BY <1>3 DEF StoreInv, Stored, Written, storeVars
<1>4. ASSUME NEW c \in Clients, Connect(c) \/ Disconnect(c) PROVE UNCHANGED storeVars
  BY <1>4 DEF Connect, Disconnect
<1>5. Broadcast \/ Start \/ UNCHANGED vars => UNCHANGED storeVars
  BY DEF Broadcast, Take, Sent, SendFails, Start, vars
<1> QED
  BY <1>1, <1>2, <1>3, <1>4, <1>5 DEF Next

\* What hooks are told of the store (receive_event, observer/server.py): an
\* event is answered "ok" only when it is in the table, and is there once,
\* whoever gives up and however often the server is killed.
THEOREM Answers == Spec => []AnsweredIsStored
<1>1. Init => StoreInv
  BY DEF Init, StoreInv, Stored, Written
<1>2. StoreInv => AnsweredIsStored
  <2> SUFFICES ASSUME StoreInv PROVE AnsweredIsStored
    OBVIOUS
  <2>1. \A i \in DOMAIN rows : i \in DOMAIN Written /\ Written[i] = rows[i]
    BY Joined DEF StoreInv, Written
  <2> QED
    BY <2>1 DEF StoreInv, AnsweredIsStored
<1> QED
  BY <1>1, <1>2, StoreStep, PTL DEF Spec

---------------------------------------------------------------------------
(* What a client hears.                                                    *)

\* The rows before the next one that the loop can take: those it took, those
\* that a crash lost from the queue, and those that were never queued.
Taken == IF queue = <<>> THEN Len(rows) ELSE Head(queue) - 1

\* The queue is in the order of the rows, and behind Taken only rows of
\* refused events are not in it.
QueueInv ==
    /\ rows \in Seq(Events) /\ transaction \in Seq(Events) /\ queue \in Seq(Nat)
    /\ \A i \in DOMAIN transaction : transaction[i] \in refused
    /\ \A i \in DOMAIN queue : queue[i] \in 1..Len(rows)
    /\ \A i, j \in DOMAIN queue : i < j => queue[i] < queue[j]
    /\ \A k \in 1..Len(rows) : Taken < k =>
         rows[k] \in refused \/ \E i \in DOMAIN queue : queue[i] = k

\* The clients that the event being sent has not got to.
Behind == ahead \cup {target} \cup dead

LoopInv ==
    /\ loop \in {"waiting", "sending", "ended"}
    /\ clients \subseteq open /\ open \subseteq Clients
    /\ ahead \subseteq clients /\ dead \subseteq Clients
    /\ ~up => clients = {} /\ loop = "ended"
    /\ loop = "sending" =>
         /\ message \in 1..Taken /\ \A k \in (message + 1)..Taken : rows[k] \in refused
         /\ target \in Clients /\ (target \in open => target \in clients)

\* What a client of one connection heard: taken events, in their order, and
\* an event that is being sent only when it was done with, or was disturbed.
HeardInv ==
    /\ heard \in [Clients -> Seq(Nat)]
    /\ \A c \in Clients \ open : heard[c] = <<>>
    /\ \A c \in Clients : \A i \in DOMAIN heard[c] :
         heard[c][i] \in 1..Taken /\ (loop = "sending" => heard[c][i] <= message)
    /\ \A c \in Clients : \A i, j \in DOMAIN heard[c] : i < j =>
         heard[c][i] < heard[c][j] \/ (heard[c][i] = heard[c][j] /\ heard[c][i] \in disturbed)
    /\ loop = "sending" /\ message \notin disturbed =>
         /\ target \notin ahead
         /\ \A c \in ahead \cup {target} : \A i \in DOMAIN heard[c] : heard[c][i] # message

Got(c, k) ==
    k \in disturbed \/ rows[k] \in refused \/ \E j \in DOMAIN heard[c] : heard[c][j] = k

\* No event is missing that was not refused: neither between two that were
\* heard, nor up to now for a client the loop still sends to.
GapInv ==
    /\ \A c \in Clients : \A i \in DOMAIN heard[c] : \A k \in Nat :
         heard[c][1] < k /\ k < heard[c][i] => Got(c, k)
    /\ loop # "ended" =>
         \A c \in clients : heard[c] # <<>> => \A k \in Nat :
           /\ heard[c][1] < k /\ k <= Taken
           /\ ~(loop = "sending" /\ k = message /\ c \in Behind)
           => Got(c, k)

StreamInv == QueueInv /\ LoopInv /\ HeardInv /\ GapInv

LEMMA InitStream == Init => StreamInv
BY DEF Init, StreamInv, QueueInv, Taken, LoopInv, HeardInv, GapInv

LEMMA TakenRows == QueueInv => Taken \in Nat /\ Taken <= Len(rows)
BY DEF QueueInv, Taken

\* An event is written behind the rows of the open transaction, which were
\* refused.
LEMMA CommitRows ==
    ASSUME QueueInv, NEW e \in Events, Receive(e)
    PROVE  /\ rows' \in Seq(Events) /\ Len(rows') = NextRow /\ NextRow \in Nat /\ Len(rows) < NextRow
           /\ \A k \in 1..Len(rows) : rows'[k] = rows[k]
           /\ \A k \in (Len(rows) + 1)..(NextRow - 1) : rows'[k] \in refused
<1>1. rows' = Append(rows \o transaction, e)
  BY DEF Receive, StoreAndQueue
<1>2. /\ rows \o transaction \in Seq(Events) /\ Len(rows \o transaction) = Len(rows) + Len(transaction)
      /\ \A k \in 1..Len(rows) : (rows \o transaction)[k] = rows[k]
      /\ \A k \in (Len(rows) + 1)..(Len(rows) + Len(transaction)) :
           (rows \o transaction)[k] = transaction[k - Len(rows)]
      /\ Len(rows) \in Nat /\ Len(transaction) \in Nat /\ DOMAIN transaction = 1..Len(transaction)
  BY Joined DEF QueueInv
<1>3. /\ rows' \in Seq(Events) /\ Len(rows') = NextRow
      /\ \A k \in 1..(Len(rows) + Len(transaction)) : rows'[k] = (rows \o transaction)[k]
  <2> DEFINE w == rows \o transaction
  <2> HIDE DEF w
  <2>1. w \in Seq(Events) /\ Len(w) = Len(rows) + Len(transaction) /\ rows' = Append(w, e)
    BY <1>1, <1>2 DEF w
  <2>2. /\ rows' \in Seq(Events) /\ Len(rows') = Len(w) + 1 /\ \A k \in 1..Len(w) : rows'[k] = w[k]
    BY <2>1
  <2> QED
    BY <2>1, <2>2 DEF w, NextRow
<1>4. \A k \in (Len(rows) + 1)..(Len(rows) + Len(transaction)) : k - Len(rows) \in DOMAIN transaction
  BY <1>2
<1>5. \A k \in 1..Len(rows) : rows'[k] = rows[k]
  BY <1>2, <1>3
<1>6. ASSUME NEW k \in (Len(rows) + 1)..(Len(rows) + Len(transaction)) PROVE rows'[k] \in refused
  <2>1. rows'[k] = transaction[k - Len(rows)]
    BY <1>2, <1>3
  <2>2. transaction[k - Len(rows)] \in refused
    BY <1>4 DEF QueueInv
  <2> QED
    BY <2>1, <2>2
<1>7. NextRow \in Nat /\ Len(rows) < NextRow /\ NextRow - 1 = Len(rows) + Len(transaction)
  BY <1>2 DEF NextRow
<1> QED
  BY <1>3, <1>5, <1>6, <1>7

LEMMA ReceiveInv ==
    ASSUME StreamInv, NEW e \in Events, Receive(e)
    PROVE  StreamInv'
<1> QueueInv
  BY DEF StreamInv
<1>1. /\ transaction' = <<>> /\ queue' = Append(queue, NextRow)
      /\ UNCHANGED <<refused, up, loopVars, clientVars>>
  BY DEF Receive, StoreAndQueue
<1>2. /\ rows' \in Seq(Events) /\ Len(rows') = NextRow /\ NextRow \in Nat /\ Len(rows) < NextRow
      /\ \A k \in 1..Len(rows) : rows'[k] = rows[k]
      /\ \A k \in (Len(rows) + 1)..(NextRow - 1) : rows'[k] \in refused
      /\ Len(rows) \in Nat
  BY CommitRows DEF QueueInv
<1>3. /\ queue' \in Seq(Nat) /\ DOMAIN queue' = 1..(Len(queue) + 1) /\ DOMAIN queue = 1..Len(queue)
      /\ queue'[Len(queue) + 1] = NextRow /\ Len(queue) \in Nat
      /\ \A i \in 1..Len(queue) : queue'[i] = queue[i]
  BY <1>1, <1>2 DEF QueueInv
<1>4. /\ queue # <<>> => Taken' = Taken
      /\ queue = <<>> => Taken' = NextRow - 1 /\ Taken = Len(rows)
  <2>1. queue # <<>> => Head(queue') = Head(queue)
    BY <1>3 DEF QueueInv
  <2>2. queue = <<>> => Head(queue') = NextRow
    BY <1>3
  <2> QED
    BY <1>3, <2>1, <2>2 DEF Taken
<1>5. /\ Taken \in Nat /\ Taken <= Len(rows) /\ Taken' \in Nat /\ Taken <= Taken'
      /\ \A k \in (Taken + 1)..Taken' : rows'[k] \in refused
  BY <1>2, <1>4, TakenRows
<1>6. QueueInv'
  <2>0. \A i \in 1..Len(queue) : queue'[i] = queue[i] /\ queue[i] \in 1..Len(rows)
    BY <1>3 DEF QueueInv
  <2>1. \A i \in DOMAIN queue' : queue'[i] \in 1..Len(rows')
    BY <1>2, <1>3, <2>0
  <2>2. ASSUME NEW i \in DOMAIN queue', NEW j \in DOMAIN queue', i < j PROVE queue'[i] < queue'[j]
    <3>1. CASE j \in 1..Len(queue)
      <4>1. i \in DOMAIN queue /\ j \in DOMAIN queue
        BY <1>3, <2>2, <3>1
      <4>2. queue[i] < queue[j]
        BY <2>2, <4>1 DEF QueueInv
      <4> QED
        BY <1>3, <4>1, <4>2
    <3>2. CASE j = Len(queue) + 1
      BY <1>2, <1>3, <2>0, <2>2, <3>2
    <3> QED
      BY <1>3, <3>1, <3>2
  <2>3. ASSUME NEW k \in 1..Len(rows'), Taken' < k
        PROVE  rows'[k] \in refused \/ \E i \in DOMAIN queue' : queue'[i] = k
    <3>1. CASE k \in 1..Len(rows)
      <4>1. rows[k] \in refused \/ \E i \in DOMAIN queue : queue[i] = k
        BY <1>5, <2>3, <3>1 DEF QueueInv
      <4> QED
        BY <1>2, <1>3, <3>1, <4>1
    <3>2. CASE k \in (Len(rows) + 1)..(NextRow - 1)
      BY <1>2, <3>2
    <3>3. CASE k = NextRow
      <4>1. Len(queue) + 1 \in DOMAIN queue'
        BY <1>3
      <4> QED
        BY <1>3, <3>3, <4>1
    <3> QED
      BY <1>2, <3>1, <3>2, <3>3
  <2> QED
    BY <1>1, <1>2, <1>3, <2>1, <2>2, <2>3 DEF QueueInv
<1>7. LoopInv'
  <2>1. loop = "sending" => \A k \in (message + 1)..Taken' : rows'[k] \in refused
    BY <1>2, <1>5 DEF StreamInv, LoopInv
  <2> QED
    BY <1>1, <1>5, <2>1 DEF StreamInv, LoopInv, loopVars, clientVars
<1>8. HeardInv'
  BY <1>1, <1>5 DEF StreamInv, HeardInv, loopVars, clientVars
<1>9. \A c \in Clients, k \in 1..Len(rows) : Got(c, k) => Got(c, k)'
  BY <1>1, <1>2 DEF Got, clientVars
<1>10. \A c \in Clients : \A i \in DOMAIN heard[c] : heard[c][i] \in 1..Taken /\ heard[c] \in Seq(Nat)
  BY DEF StreamInv, HeardInv
<1>11. \A c \in Clients : heard[c] # <<>> => heard[c][1] \in 1..Taken
  BY <1>10
<1>12. GapInv'
  <2>1. UNCHANGED <<heard, clients, loop, message, Behind>>
    BY <1>1 DEF loopVars, clientVars, Behind
  <2>2. \A c \in Clients : \A i \in DOMAIN heard[c] : \A k \in Nat :
           heard[c][1] < k /\ k < heard[c][i] => Got(c, k)'
    <3> SUFFICES ASSUME NEW c \in Clients, NEW i \in DOMAIN heard[c], NEW k \in Nat,
                        heard[c][1] < k, k < heard[c][i]
                 PROVE  Got(c, k)'
      OBVIOUS
    <3>1. heard[c][1] \in 1..Taken /\ heard[c][i] \in 1..Taken
      BY <1>10, <1>11
    <3>2. k \in 1..Len(rows)
      BY <1>2, <1>5, <3>1
    <3> QED
      BY <1>9, <3>2 DEF StreamInv, GapInv
  <2>3. ASSUME loop # "ended", NEW c \in clients, heard[c] # <<>>, NEW k \in Nat,
               heard[c][1] < k, k <= Taken', ~(loop = "sending" /\ k = message /\ c \in Behind)
        PROVE  Got(c, k)'
    <3>1. c \in Clients /\ heard[c][1] \in 1..Taken
      BY <1>11, <2>3 DEF StreamInv, LoopInv
    <3>2. CASE k <= Taken
      <4>1. Got(c, k) /\ k \in 1..Len(rows)
        BY <1>2, <1>5, <2>3, <3>1, <3>2 DEF StreamInv, GapInv
      <4> QED
        BY <1>9, <3>1, <4>1
    <3>3. CASE k > Taken
      BY <1>1, <1>5, <2>3, <3>3 DEF Got
    <3> QED
      BY <1>5, <3>2, <3>3
  <2> QED
    BY <2>1, <2>2, <2>3 DEF GapInv
<1> QED
  BY <1>6, <1>7, <1>8, <1>12 DEF StreamInv

\* An event is refused, and its row may stay in the open transaction.
LEMMA RefuseInv ==
    ASSUME StreamInv, NEW e \in Events, Refuse(e)
    PROVE  StreamInv'
<1>1. /\ transaction' \in {transaction, Append(transaction, e), <<>>}
      /\ refused' = refused \cup {e} /\ UNCHANGED <<rows, up, queue, loopVars, clientVars>>
  BY DEF Refuse
<1>2. transaction' \in Seq(Events) /\ \A i \in DOMAIN transaction' : transaction'[i] \in refused'
  <2>1. CASE transaction' = Append(transaction, e)
    BY <1>1, <2>1, Appended DEF StreamInv, QueueInv
  <2>2. CASE transaction' = transaction
    BY <1>1, <2>2 DEF StreamInv, QueueInv
  <2>3. CASE transaction' = <<>>
    BY <2>3
  <2> QED
    BY <1>1, <2>1, <2>2, <2>3
<1>3. QueueInv' /\ Taken' = Taken
  BY <1>1, <1>2 DEF StreamInv, QueueInv, Taken
<1>4. \A c \in Clients, k \in Nat : Got(c, k) => Got(c, k)'
  BY <1>1 DEF Got, clientVars
<1>5. UNCHANGED <<heard, clients, loop, message, Behind>>
  BY <1>1 DEF loopVars, clientVars, Behind
<1>6. LoopInv' /\ HeardInv'
  BY <1>1, <1>3 DEF StreamInv, LoopInv, HeardInv, loopVars, clientVars
<1>7. GapInv'
  BY <1>3, <1>4, <1>5 DEF StreamInv, LoopInv, GapInv
<1> QED
  BY <1>3, <1>6, <1>7 DEF StreamInv

LEMMA ConnectInv ==
    ASSUME StreamInv, NEW c \in Clients, Connect(c)
    PROVE  StreamInv'
<1>1. /\ up /\ c \notin open \cup dead \cup {target}
      /\ open' = open \cup {c} /\ clients' = clients \cup {c}
      /\ ahead' \subseteq clients' /\ disturbed \subseteq disturbed'
      /\ loop = "sending" => message \in disturbed'
      /\ loop # "sending" => disturbed' = disturbed /\ ahead' = ahead
      /\ UNCHANGED <<rows, transaction, refused, queue, up, loop, message, target, dead, heard>>
  BY DEF Connect, storeVars, StreamInv, LoopInv
<1>2. QueueInv' /\ Taken' = Taken
  BY <1>1 DEF StreamInv, QueueInv, Taken
<1>3. LoopInv'
  BY <1>1, <1>2 DEF StreamInv, LoopInv
<1>4. heard[c] = <<>>
  BY <1>1 DEF StreamInv, HeardInv
<1>5. HeardInv'
  BY <1>1, <1>2 DEF StreamInv, HeardInv
<1>6. \A d \in Clients, k \in Nat : Got(d, k) => Got(d, k)'
  BY <1>1 DEF Got
<1>7. GapInv'
  <2>1. ASSUME NEW d \in clients, loop # "ended", heard[d] # <<>>, NEW k \in Nat,
               heard[d][1] < k, k <= Taken, ~(loop = "sending" /\ k = message)
        PROVE  Got(d, k)
    BY <2>1 DEF StreamInv, GapInv
  <2>2. \A d \in Clients : loop = "sending" => Got(d, message)'
    BY <1>1 DEF Got
  <2> QED
    BY <1>1, <1>2, <1>4, <1>6, <2>1, <2>2 DEF StreamInv, LoopInv, GapInv
<1> QED
  BY <1>2, <1>3, <1>5, <1>7 DEF StreamInv

LEMMA DisconnectInv ==
    ASSUME StreamInv, NEW c \in Clients, Disconnect(c)
    PROVE  StreamInv'
<1>1. /\ open' = open \ {c} /\ clients' = clients \ {c} /\ ahead' = ahead \ {c}
      /\ heard' = [heard EXCEPT ![c] = <<>>]
      /\ UNCHANGED <<rows, transaction, refused, queue, up, loop, message, target, dead, disturbed>>
  BY DEF Disconnect, storeVars
<1>2. QueueInv' /\ Taken' = Taken
  BY <1>1 DEF StreamInv, QueueInv, Taken
<1>3. LoopInv'
  BY <1>1, <1>2 DEF StreamInv, LoopInv
<1>4. /\ heard' \in [Clients -> Seq(Nat)] /\ heard'[c] = <<>>
      /\ \A d \in Clients \ {c} : heard'[d] = heard[d]
  BY <1>1 DEF StreamInv, HeardInv
<1>5. HeardInv'
  BY <1>1, <1>2, <1>4 DEF StreamInv, HeardInv
<1>6. \A d \in Clients \ {c}, k \in Nat : Got(d, k)' <=> Got(d, k)
  BY <1>1, <1>4 DEF Got
<1>7. GapInv'
  BY <1>1, <1>2, <1>4, <1>6 DEF StreamInv, LoopInv, GapInv, Behind
<1> QED
  BY <1>2, <1>3, <1>5, <1>7 DEF StreamInv

\* The next event is taken: it is the first that no client heard, and only
\* refused ones stand between it and the one behind.
LEMMA TakeInv ==
    ASSUME StreamInv, Take
    PROVE  StreamInv'
<1>1. /\ up /\ loop = "waiting" /\ queue # <<>> /\ queue' = Tail(queue)
      /\ UNCHANGED <<rows, transaction, refused, up, clients, open, heard, disturbed>>
  BY DEF Take, storeVars, clientVars
<1> DEFINE m == Head(queue)
<1>2. /\ queue' \in Seq(Nat) /\ Len(queue) \in Nat \ {0} /\ DOMAIN queue = 1..Len(queue)
      /\ DOMAIN queue' = 1..(Len(queue) - 1) /\ m = queue[1]
      /\ \A i \in 1..(Len(queue) - 1) : queue'[i] = queue[i + 1]
      /\ Len(rows) \in Nat /\ m \in 1..Len(rows) /\ Taken = m - 1
  BY <1>1 DEF StreamInv, QueueInv, Taken
<1>3. /\ Taken' \in m..Len(rows)
      /\ \A k \in 1..Len(rows) : m < k => rows[k] \in refused \/ \E i \in DOMAIN queue' : queue'[i] = k
      /\ \A k \in (m + 1)..Taken' : rows[k] \in refused
  <2>1. ASSUME NEW k \in 1..Len(rows), m < k
        PROVE  rows[k] \in refused \/ \E i \in DOMAIN queue' : queue'[i] = k
    <3>1. rows[k] \in refused \/ \E i \in DOMAIN queue : queue[i] = k
      <4>1. Taken < k
        BY <1>2, <2>1
      <4> QED
        BY <2>1, <4>1 DEF StreamInv, QueueInv
    <3>2. ASSUME NEW i \in DOMAIN queue, queue[i] = k PROVE \E j \in DOMAIN queue' : queue'[j] = k
      <4>1. i # 1
        BY <1>2, <2>1, <3>2
      <4>2. i - 1 \in DOMAIN queue' /\ queue'[i - 1] = k
        BY <1>2, <3>2, <4>1
      <4> QED
        BY <4>2
    <3> QED
      BY <3>1, <3>2
  <2>2. CASE queue' = <<>>
    <3>1. Taken' = Len(rows) /\ DOMAIN queue' = {}
      BY <1>1, <2>2 DEF Taken
    <3> QED
      BY <1>2, <2>1, <3>1
  <2>3. CASE queue' # <<>>
    <3>1. Taken' = queue'[1] - 1 /\ 1 \in DOMAIN queue'
      BY <1>2, <2>3 DEF Taken
    <3>2. queue'[1] = queue[2] /\ queue[2] \in 1..Len(rows) /\ m < queue[2]
      <4>1. 1 \in DOMAIN queue /\ 2 \in DOMAIN queue /\ queue'[1] = queue[2]
        BY <1>2, <3>1
      <4>2. queue[1] < queue[2] /\ queue[2] \in 1..Len(rows)
        BY <4>1 DEF StreamInv, QueueInv
      <4> QED
        BY <1>2, <4>1, <4>2
    <3>3. \A i \in DOMAIN queue' : queue[2] <= queue'[i]
      <4> SUFFICES ASSUME NEW i \in DOMAIN queue' PROVE queue[2] <= queue'[i]
        OBVIOUS
      <4>1. i + 1 \in DOMAIN queue /\ 2 \in DOMAIN queue /\ queue'[i] = queue[i + 1]
        BY <1>2, <3>1
      <4>2. queue[i + 1] \in Nat /\ queue[2] \in Nat
        BY <4>1 DEF StreamInv, QueueInv
      <4>3. i = 1 \/ 2 < i + 1
        BY <1>2
      <4> QED
        BY <4>1, <4>2, <4>3 DEF StreamInv, QueueInv
    <3>4. \A i \in DOMAIN queue' : queue'[i] \in Nat
      BY <1>2
    <3>5. ASSUME NEW k \in (m + 1)..Taken' PROVE rows[k] \in refused
      <4>1. k \in 1..Len(rows) /\ m < k /\ k < queue[2]
        BY <1>2, <3>1, <3>2
      <4>2. \A i \in DOMAIN queue' : queue'[i] # k
        BY <1>2, <3>2, <3>3, <3>4, <4>1
      <4> QED
        BY <2>1, <4>1, <4>2
    <3> QED
      BY <1>2, <2>1, <3>1, <3>2, <3>5
  <2> QED
    BY <2>2, <2>3
<1>4. QueueInv'
  <2>0. \A i \in DOMAIN queue' : i + 1 \in DOMAIN queue /\ queue'[i] = queue[i + 1]
    BY <1>2
  <2>1. \A i \in DOMAIN queue' : queue'[i] \in 1..Len(rows)
    BY <2>0 DEF StreamInv, QueueInv
  <2>2. ASSUME NEW i \in DOMAIN queue', NEW j \in DOMAIN queue', i < j PROVE queue'[i] < queue'[j]
    <3>1. i + 1 < j + 1
      BY <1>2, <2>2
    <3>2. queue[i + 1] < queue[j + 1]
      BY <2>0, <3>1 DEF StreamInv, QueueInv
    <3> QED
      BY <2>0, <3>2
  <2>3. \A k \in 1..Len(rows) : Taken' < k =>
           rows[k] \in refused \/ \E i \in DOMAIN queue' : queue'[i] = k
    BY <1>2, <1>3
  <2> QED
    BY <1>1, <1>2, <2>1, <2>2, <2>3 DEF StreamInv, QueueInv
<1>5. \A c \in Clients, k \in Nat : Got(c, k)' <=> Got(c, k)
  BY <1>1 DEF Got
<1> HIDE DEF m
<1>6. \A c \in clients : heard[c] # <<>> => \A k \in Nat :
        heard[c][1] < k /\ k <= Taken' /\ k # m => Got(c, k)
  <2> SUFFICES ASSUME NEW c \in clients, heard[c] # <<>>, NEW k \in Nat, heard[c][1] < k,
                      k <= Taken', k # m
               PROVE  Got(c, k)
    OBVIOUS
  <2>1. CASE k <= Taken
    BY <1>1, <2>1 DEF StreamInv, GapInv
  <2>2. CASE k > Taken
    <3>1. k \in (m + 1)..Taken'
      BY <1>2, <1>3, <2>2
    <3> QED
      BY <1>3, <3>1 DEF Got
  <2> QED
    BY <1>2, <2>1, <2>2
<1>7. \A c \in Clients : \A i \in DOMAIN heard[c] : heard[c][i] \in 1..(m - 1) /\ heard[c][i] \in 1..Taken'
  BY <1>2, <1>3 DEF StreamInv, HeardInv
<1>8. CASE clients = {}
  <2>1. UNCHANGED <<loop, message, target, ahead, dead>>
    BY <1>8 DEF Take, loopVars
  <2> QED
    BY <1>1, <1>4, <1>5, <1>7, <1>8, <2>1 DEF StreamInv, LoopInv, HeardInv, GapInv
<1>9. CASE clients # {}
  <2>1. /\ loop' = "sending" /\ message' = m /\ dead' = {}
        /\ target' \in clients /\ ahead' = clients \ {target'}
    BY <1>9 DEF Take, SendTo, m
  <2>2. LoopInv'
    BY <1>1, <1>2, <1>3, <2>1 DEF StreamInv, LoopInv
  <2>3. HeardInv'
    <3>1. \A c \in Clients : \A i \in DOMAIN heard[c] : heard[c][i] <= m /\ heard[c][i] # m
      BY <1>2, <1>7
    <3> QED
      BY <1>1, <1>7, <2>1, <3>1 DEF StreamInv, LoopInv, HeardInv
  <2>4. GapInv'
    BY <1>1, <1>5, <1>6, <2>1 DEF StreamInv, LoopInv, GapInv, Behind
  <2> QED
    BY <1>4, <2>2, <2>3, <2>4 DEF StreamInv
<1> QED
  BY <1>8, <1>9

\* What a send leaves of the invariant, before the loop goes on: the target
\* heard the event, or was found dead, or had gone.
Settled(gone) ==
    /\ dead \subseteq gone /\ gone \subseteq dead \cup {target}
    /\ heard' \in [Clients -> Seq(Nat)]
    /\ \A c \in Clients \ {target} : heard'[c] = heard[c]
    /\ \/ heard'[target] = heard[target] /\ (target \in gone \/ target \notin open)
       \/ heard'[target] = Append(heard[target], message) /\ target \in open
    /\ UNCHANGED <<rows, transaction, refused, queue, up, open, disturbed>>

LEMMA SettledHeard ==
    ASSUME StreamInv, loop = "sending", NEW gone, Settled(gone)
    PROVE  /\ Taken' = Taken /\ QueueInv'
           /\ \A c \in Clients, k \in Nat : Got(c, k) => Got(c, k)'
           /\ \A c \in Clients \ open : heard'[c] = <<>>
           /\ \A c \in Clients : \A i \in DOMAIN heard'[c] : heard'[c][i] \in 1..Taken /\ heard'[c][i] <= message
           /\ \A c \in Clients : \A i, j \in DOMAIN heard'[c] : i < j =>
                \/ heard'[c][i] < heard'[c][j]
                \/ heard'[c][i] = heard'[c][j] /\ heard'[c][i] \in disturbed
           /\ \A c \in Clients, k \in Nat :
                c = target /\ k = message /\ c \in open \ gone => Got(c, k)'
<1>1. /\ QueueInv' /\ Taken' = Taken /\ disturbed' = disturbed /\ open' = open
      /\ rows' = rows /\ refused' = refused
  BY DEF Settled, StreamInv, QueueInv, Taken
<1>2. target \in Clients /\ message \in 1..Taken /\ Taken \in Nat
  BY TakenRows DEF StreamInv, LoopInv
<1>3. heard[target] \in Seq(Nat)
  BY <1>2 DEF StreamInv, HeardInv
<1>4. CASE heard'[target] = heard[target]
  <2>1. \A c \in Clients : heard'[c] = heard[c]
    BY <1>4 DEF Settled
  <2>2. \A c \in Clients, k \in Nat : Got(c, k) => Got(c, k)'
    BY <1>1, <2>1 DEF Got
  <2>3. target \notin open \ gone
    <3>1. Append(heard[target], message) # heard[target]
      BY <1>2, <1>3
    <3> QED
      BY <1>4, <3>1 DEF Settled
  <2> QED
    BY <1>1, <2>1, <2>2, <2>3 DEF StreamInv, HeardInv
<1>5. CASE heard'[target] = Append(heard[target], message) /\ target \in open
  <2> DEFINE h == heard[target]
  <2>1. /\ DOMAIN heard'[target] = 1..(Len(h) + 1) /\ heard'[target][Len(h) + 1] = message
        /\ DOMAIN h = 1..Len(h) /\ \A i \in 1..Len(h) : heard'[target][i] = h[i]
    BY <1>2, <1>3, <1>5
  <2>2. \A c \in Clients, k \in Nat : Got(c, k) => Got(c, k)'
    <3>1. ASSUME NEW c \in Clients, c = target, NEW k \in Nat, Got(c, k) PROVE Got(c, k)'
      <4>1. /\ DOMAIN heard'[c] = 1..(Len(h) + 1) /\ DOMAIN heard[c] = 1..Len(h)
            /\ \A i \in 1..Len(h) : heard'[c][i] = heard[c][i]
        BY <2>1, <3>1
      <4>2. Len(h) \in Nat
        BY <1>3
      <4> QED
        BY <1>1, <3>1, <4>1, <4>2 DEF Got
    <3>2. \A c \in Clients \ {target}, k \in Nat : Got(c, k) => Got(c, k)'
      BY <1>1 DEF Got, Settled
    <3> QED
      BY <3>1, <3>2
  <2>3. \A c \in Clients, k \in Nat : c = target /\ k = message => Got(c, k)'
    <3>1. Len(h) + 1 \in DOMAIN heard'[target]
      BY <1>3, <2>1
    <3> QED
      BY <2>1, <3>1 DEF Got
  <2>4. \A c \in Clients \ open : heard'[c] = <<>>
    BY <1>5 DEF StreamInv, HeardInv, Settled
  <2>5. \A i \in 1..Len(h) : h[i] \in 1..Taken /\ h[i] <= message
    BY <1>2, <2>1 DEF StreamInv, HeardInv
  <2>6. \A i \in 1..Len(h) : h[i] < message \/ message \in disturbed
    BY <1>2, <2>1, <2>5 DEF StreamInv, HeardInv
  <2>7. \A i \in DOMAIN heard'[target] : heard'[target][i] \in 1..Taken /\ heard'[target][i] <= message
    BY <1>2, <1>3, <2>1, <2>5
  <2>8. \A i, j \in DOMAIN heard'[target] : i < j =>
          \/ heard'[target][i] < heard'[target][j]
          \/ heard'[target][i] = heard'[target][j] /\ heard'[target][i] \in disturbed
    <3>1. \A i, j \in 1..Len(h) : i < j => h[i] < h[j] \/ (h[i] = h[j] /\ h[i] \in disturbed)
      BY <1>2, <2>1 DEF StreamInv, HeardInv
    <3> SUFFICES ASSUME NEW i \in 1..(Len(h) + 1), NEW j \in 1..(Len(h) + 1), i < j
                 PROVE  \/ heard'[target][i] < heard'[target][j]
                        \/ heard'[target][i] = heard'[target][j] /\ heard'[target][i] \in disturbed
      BY <2>1
    <3>2. i \in 1..Len(h) /\ heard'[target][i] = h[i] /\ h[i] \in 1..Taken /\ h[i] <= message
      BY <1>3, <2>1, <2>5
    <3>3. CASE j \in 1..Len(h)
      BY <2>1, <3>1, <3>2, <3>3
    <3>4. CASE j = Len(h) + 1
      <4>1. h[i] = message \/ h[i] < message
        BY <1>2, <3>2
      <4> QED
        BY <1>2, <2>1, <2>6, <3>2, <3>4, <4>1
    <3> QED
      BY <1>3, <3>3, <3>4
  <2>9. \A c \in Clients \ {target} : heard'[c] = heard[c]
    BY DEF Settled
  <2>10. \A c \in Clients : \A i \in DOMAIN heard'[c] : heard'[c][i] \in 1..Taken /\ heard'[c][i] <= message
    BY <2>7, <2>9 DEF StreamInv, HeardInv
  <2>11. \A c \in Clients : \A i, j \in DOMAIN heard'[c] : i < j =>
           \/ heard'[c][i] < heard'[c][j]
           \/ heard'[c][i] = heard'[c][j] /\ heard'[c][i] \in disturbed
    <3>1. \A c \in Clients : \A i, j \in DOMAIN heard[c] : i < j =>
            \/ heard[c][i] < heard[c][j]
            \/ heard[c][i] = heard[c][j] /\ heard[c][i] \in disturbed
      BY DEF StreamInv, HeardInv
    <3> QED
      BY <2>8, <2>9, <3>1
  <2> QED
    BY <1>1, <2>2, <2>3, <2>4, <2>10, <2>11
<1> QED
  BY <1>4, <1>5 DEF Settled

LEMMA SettledGap ==
    ASSUME StreamInv, loop = "sending", NEW gone, Settled(gone), NEW c \in Clients, NEW k \in Nat
    PROVE  /\ \A i \in DOMAIN heard'[c] : heard'[c][1] < k /\ k < heard'[c][i] => Got(c, k)'
           /\ /\ c \in clients /\ heard'[c] # <<>>
              /\ heard'[c][1] < k /\ k <= Taken /\ ~(k = message /\ c \in ahead \cup gone)
              => Got(c, k)'
<1>1. /\ message \in 1..Taken /\ Taken \in Nat /\ target \in Clients
      /\ (target \in open => target \in clients) /\ clients \subseteq open
      /\ \A j \in (message + 1)..Taken : rows[j] \in refused
  BY TakenRows DEF StreamInv, LoopInv
<1>2. Got(c, k) => Got(c, k)'
  BY SettledHeard
<1>3. \A i \in DOMAIN heard[c] : heard[c][1] < k /\ k < heard[c][i] => Got(c, k)
  BY DEF StreamInv, GapInv
<1>4. c \in clients /\ heard[c] # <<>> /\ heard[c][1] < k /\ k <= Taken
      /\ ~(k = message /\ c \in Behind) => Got(c, k)
  BY DEF StreamInv, GapInv
<1>5. c = target /\ k = message /\ c \in open \ gone => Got(c, k)'
  BY SettledHeard
<1>6. CASE c # target
  BY <1>2, <1>3, <1>4, <1>6 DEF Settled, Behind
<1>7. CASE c = target /\ heard'[c] = heard[c]
  BY <1>1, <1>2, <1>3, <1>4, <1>5, <1>7 DEF Settled, Behind
<1>8. CASE c = target /\ c \in open /\ heard'[c] = Append(heard[c], message)
  <2>1. heard[c] \in Seq(Nat)
    BY DEF StreamInv, HeardInv
  <2>2. CASE heard[c] = <<>>
    <3>1. heard'[c] = <<message>>
      BY <1>8, <2>2
    <3>2. message < k /\ k <= Taken => Got(c, k)'
      BY <1>1 DEF Got, Settled
    <3> QED
      BY <1>1, <3>1, <3>2
  <2>3. CASE heard[c] # <<>>
    <3>1. heard'[c][1] = heard[c][1]
      BY <1>1, <1>8, <2>1, <2>3
    <3>2. \A i \in DOMAIN heard'[c] :
            \/ i \in DOMAIN heard[c] /\ heard'[c][i] = heard[c][i]
            \/ heard'[c][i] = message
      BY <1>1, <1>8, <2>1
    <3> QED
      BY <1>1, <1>2, <1>3, <1>4, <1>5, <1>8, <2>3, <3>1, <3>2
  <2> QED
    BY <2>2, <2>3
<1> QED
  BY <1>6, <1>7, <1>8 DEF Settled

LEMMA AdvanceInv ==
    ASSUME StreamInv, loop = "sending", NEW gone, Settled(gone), Advance(gone)
    PROVE  StreamInv'
<1>1. /\ Taken' = Taken /\ QueueInv' /\ up' = up /\ up /\ open' = open
      /\ disturbed' = disturbed /\ heard' \in [Clients -> Seq(Nat)]
      /\ message \in 1..Taken /\ (\A j \in (message + 1)..Taken : rows'[j] \in refused')
      /\ target \in Clients /\ gone \subseteq Clients
  BY SettledHeard DEF Settled, StreamInv, LoopInv
<1>2. /\ \A c \in Clients \ open' : heard'[c] = <<>>
      /\ \A c \in Clients : \A i \in DOMAIN heard'[c] : heard'[c][i] \in 1..Taken' /\ heard'[c][i] <= message
      /\ \A c \in Clients : \A i, j \in DOMAIN heard'[c] : i < j =>
           \/ heard'[c][i] < heard'[c][j]
           \/ heard'[c][i] = heard'[c][j] /\ heard'[c][i] \in disturbed'
  BY <1>1, SettledHeard
<1>3. CASE Rest("ended") /\ UNCHANGED clients
  <2>1. LoopInv' /\ HeardInv'
    BY <1>1, <1>2, <1>3 DEF Rest, StreamInv, LoopInv, HeardInv
  <2>2. GapInv'
    BY <1>3, SettledGap DEF Rest, GapInv
  <2> QED
    BY <1>1, <2>1, <2>2 DEF StreamInv
<1>4. CASE Rest("waiting") /\ RemoveDead(gone) /\ ahead = {}
  <2>1. clients' = clients \ gone
    BY <1>4 DEF RemoveDead
  <2>2. LoopInv' /\ HeardInv'
    BY <1>1, <1>2, <1>4, <2>1 DEF Rest, StreamInv, LoopInv, HeardInv
  <2>3. GapInv'
    BY <1>1, <1>4, <2>1, SettledGap DEF Rest, StreamInv, LoopInv, GapInv
  <2> QED
    BY <1>1, <2>2, <2>3 DEF StreamInv
<1>5. ASSUME NEW d \in ahead, SendTo(d, ahead), dead' = gone, UNCHANGED <<loop, message, clients>>
      PROVE  StreamInv'
  <2>1. target' = d /\ ahead' = ahead \ {d} /\ d \in clients
    BY <1>5 DEF SendTo, StreamInv, LoopInv
  <2>2. LoopInv'
    BY <1>1, <1>5, <2>1 DEF StreamInv, LoopInv
  <2>3. HeardInv'
    <3>1. message \notin disturbed =>
            \A c \in ahead : heard'[c] = heard[c] /\ \A i \in DOMAIN heard[c] : heard[c][i] # message
      BY DEF StreamInv, LoopInv, HeardInv, Settled
    <3> QED
      BY <1>1, <1>2, <1>5, <2>1, <3>1 DEF StreamInv, LoopInv, HeardInv
  <2>4. GapInv'
    <3>1. ahead \cup gone \subseteq Behind'
      BY <1>5, <2>1 DEF Behind
    <3> QED
      BY <1>1, <1>5, <3>1, SettledGap DEF StreamInv, LoopInv, GapInv
  <2> QED
    BY <1>1, <2>2, <2>3, <2>4 DEF StreamInv
<1> QED
  BY <1>3, <1>4, <1>5 DEF Advance

LEMMA SendInv ==
    ASSUME StreamInv, Sent \/ SendFails
    PROVE  StreamInv'
<1>1. /\ loop = "sending" /\ target \in Clients /\ message \in Nat
      /\ heard \in [Clients -> Seq(Nat)]
  BY DEF Sent, SendFails, StreamInv, LoopInv, HeardInv
<1>2. CASE Sent
  <2>1. UNCHANGED <<rows, transaction, refused, queue, up, open, disturbed>> /\ Advance(dead)
    BY <1>2 DEF Sent, storeVars
  <2>2. heard' = IF target \in open THEN [heard EXCEPT ![target] = Append(@, message)] ELSE heard
    BY <1>2 DEF Sent
  <2>3. Settled(dead)
    BY <1>1, <2>1, <2>2 DEF Settled
  <2> QED
    BY <1>1, <2>1, <2>3, AdvanceInv
<1>3. CASE SendFails
  <2>1. UNCHANGED <<rows, transaction, refused, queue, up, open, heard, disturbed>> /\ Advance(dead \cup {target})
    BY <1>3 DEF SendFails, storeVars
  <2>2. Settled(dead \cup {target})
    BY <1>1, <2>1 DEF Settled
  <2> QED
    BY <1>1, <2>1, <2>2, AdvanceInv
<1> QED
  BY <1>2, <1>3

LEMMA RestartInv ==
    ASSUME StreamInv, Stop \/ Start
    PROVE  StreamInv'
<1>1. CASE Stop
  BY <1>1 DEF Stop, Rest, StreamInv, QueueInv, Taken, LoopInv, HeardInv, GapInv
<1>2. CASE Start
  <2>1. /\ clients = {} /\ up' /\ loop' = "waiting"
        /\ UNCHANGED <<rows, transaction, refused, queue, message, target, ahead, dead, clients, open, heard, disturbed>>
    BY <1>2 DEF Start, storeVars, clientVars, StreamInv, LoopInv
  <2> QED
    BY <2>1 DEF StreamInv, QueueInv, Taken, LoopInv, HeardInv, GapInv, Got
<1> QED
  BY <1>1, <1>2

LEMMA StreamStep == StreamInv /\ [Next]_vars => StreamInv'
<1> SUFFICES ASSUME StreamInv, [Next]_vars PROVE StreamInv'
  OBVIOUS
<1>1. ASSUME UNCHANGED <<rows, transaction, refused, queue, up, loopVars, clientVars>> PROVE StreamInv'
  BY <1>1 DEF StreamInv, QueueInv, Taken, LoopInv, HeardInv, GapInv, Got, Behind,
              loopVars, clientVars
<1>2. ASSUME NEW e \in Events, Post(e) \/ GiveUp(e) PROVE StreamInv'
  BY <1>1, <1>2 DEF Post, GiveUp
<1>3. UNCHANGED vars => StreamInv'
  BY <1>1 DEF vars, storeVars
<1> QED
  BY <1>2, <1>3, ReceiveInv, RefuseInv, ConnectInv, DisconnectInv, TakeInv, SendInv, RestartInv
     DEF Next, Handle, Broadcast

LEMMA HeardFromTheStore == StreamInv => StreamInOrder
<1> SUFFICES ASSUME StreamInv, NEW c \in Clients
             PROVE  LET h == heard[c] IN
                    /\ \A i \in DOMAIN h : h[i] \in DOMAIN rows
                    /\ \A i, j \in DOMAIN h : i < j =>
                         h[i] < h[j] \/ (h[i] = h[j] /\ h[i] \in disturbed)
                    /\ \A i \in DOMAIN h, k \in DOMAIN rows : h[1] < k /\ k < h[i] =>
                         k \in disturbed \/ rows[k] \in refused \/ \E j \in DOMAIN h : h[j] = k
  BY DEF StreamInOrder
<1>1. DOMAIN rows = 1..Len(rows) /\ 1..Taken \subseteq DOMAIN rows
  BY TakenRows DEF StreamInv, QueueInv
<1> QED
  BY <1>1 DEF StreamInv, HeardInv, GapInv, Got

\* The stream of websocket_stream and _broadcast_loop (observer/server.py):
\* what a client is sent are stored events in their order, without a repetition
\* and without a gap, except for refused events that a later commit stored and
\* for those during whose sending a client came.
THEOREM Stream == Spec => []StreamInOrder
<1> QED
  BY InitStream, StreamStep, HeardFromTheStore, PTL DEF Spec

---------------------------------------------------------------------------
(* Types.                                                                  *)

Counters ==
    /\ up \in BOOLEAN /\ target \in Clients \cup {Nobody}
    /\ message \in Nat /\ size \in Nat /\ disturbed \subseteq Nat
    /\ joins \in Nat /\ crashes \in Nat
    /\ refused \subseteq Events

LEMMA CountersStep == StreamInv /\ Counters /\ [Next]_vars => Counters'
<1> SUFFICES ASSUME StreamInv, Counters, [Next]_vars PROVE Counters'
  OBVIOUS
<1>1. ASSUME NEW e \in Events, Post(e) \/ GiveUp(e) \/ Handle(e) PROVE Counters'
  BY <1>1 DEF Post, GiveUp, Handle, Receive, Refuse, loopVars, clientVars, Counters
<1>2. ASSUME NEW c \in Clients, Connect(c) \/ Disconnect(c) PROVE Counters'
  <2>1. UNCHANGED <<up, target, message, size, crashes>>
    BY <1>2 DEF Connect, Disconnect
  <2>2. /\ joins' \in {joins, joins + 1} /\ disturbed' \in {disturbed, disturbed \cup {message}}
        /\ refused' = refused
    BY <1>2 DEF Connect, Disconnect, storeVars
  <2> QED
    BY <2>1, <2>2 DEF Counters
<1>3. CASE Take
  <2>1. Head(queue) \in Nat
    BY <1>3 DEF Take, StreamInv, QueueInv
  <2>2. Cardinality(clients) \in Nat /\ clients \subseteq Clients
    BY FS_Subset, FS_CardinalityType DEF StreamInv, LoopInv
  <2> QED
    BY <1>3, <2>1, <2>2 DEF Take, SendTo, storeVars, loopVars, clientVars, Counters
<1>4. CASE Sent \/ SendFails
  <2>1. ahead \subseteq Clients
    BY DEF StreamInv, LoopInv
  <2> QED
    <3>1. UNCHANGED <<up, disturbed, joins, crashes, refused>>
      BY <1>4 DEF Sent, SendFails, storeVars
    <3>2. /\ message' \in {message, 0} /\ size' \in {size, 0}
          /\ target' = Nobody \/ target' \in ahead
      BY <1>4 DEF Sent, SendFails, Advance, Rest, SendTo
    <3> QED
      BY <2>1, <3>1, <3>2 DEF Counters
<1>5. CASE Stop \/ Start \/ UNCHANGED vars
  <2>1. UNCHANGED <<disturbed, joins, refused>> /\ up' \in {up, TRUE, FALSE}
    BY <1>5 DEF Stop, Start, vars, storeVars, clientVars
  <2>2. message' \in {message, 0} /\ size' \in {size, 0} /\ target' \in {target, Nobody}
    BY <1>5 DEF Stop, Start, Rest, vars, loopVars
  <2>3. crashes' \in {crashes, crashes + 1}
    BY <1>5 DEF Stop, Start, vars
  <2>4. up' \in BOOLEAN /\ target' \in Clients \cup {Nobody}
    BY <2>1, <2>2 DEF Counters
  <2>5. message' \in Nat /\ size' \in Nat /\ crashes' \in Nat
    BY <2>2, <2>3 DEF Counters
  <2> QED
    BY <2>1, <2>4, <2>5 DEF Counters
<1> QED
  BY <1>1, <1>2, <1>3, <1>4, <1>5 DEF Next, Broadcast

\* Every variable of the observer keeps its type.
THEOREM TypeCorrect == Spec => []TypeOK
<1>1. Init => Counters
  BY DEF Init, Counters
<1>2. Init => StoreInv
  BY DEF Init, StoreInv, Stored, Written
<1>3. StoreInv /\ StreamInv /\ Counters => TypeOK
  BY DEF StoreInv, StreamInv, QueueInv, LoopInv, HeardInv, Counters, TypeOK
<1> QED
  BY <1>1, <1>2, <1>3, InitStream, StoreStep, StreamStep, CountersStep, PTL DEF Spec
=============================================================================
