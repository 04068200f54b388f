-------------------------- MODULE OrchestratorProofs --------------------------
(***************************************************************************)
(* Theorems about the event bus and the orchestrator for any number of     *)
(* handlers, callers, agents and changes.                                  *)
(***************************************************************************)
EXTENDS Orchestrator, FiniteSetTheorems, WellFoundedInduction, TLAPS

USE EventBusAssumption, OrchestratorAssumption

---------------------------------------------------------------------------
(* Deliveries of the event bus.                                            *)

LEMMA RemovedAt ==
    ASSUME NEW S, NEW s \in Seq(S), NEW i \in DOMAIN s
    PROVE  /\ RemoveAt(s, i) \in Seq(S)
           /\ Len(RemoveAt(s, i)) = Len(s) - 1
           /\ \A j \in 1..(Len(s) - 1) : RemoveAt(s, i)[j] = IF j < i THEN s[j] ELSE s[j + 1]
<1>1. i \in 1..Len(s) /\ Len(s) \in Nat
  OBVIOUS
<1> DEFINE l == SubSeq(s, 1, i - 1)
           r == SubSeq(s, i + 1, Len(s))
<1>2. l \in Seq(S) /\ Len(l) = i - 1 /\ \A j \in 1..(i - 1) : l[j] = s[j]
  BY <1>1
<1>3. r \in Seq(S) /\ Len(r) = Len(s) - i /\ \A j \in 1..(Len(s) - i) : r[j] = s[i + j]
  BY <1>1
<1>4. RemoveAt(s, i) = l \o r
  BY DEF RemoveAt
<1> HIDE DEF l, r
<1>5. /\ l \o r \in Seq(S) /\ Len(l \o r) = Len(s) - 1
      /\ \A j \in 1..(Len(s) - 1) : (l \o r)[j] = IF j <= i - 1 THEN l[j] ELSE r[j - (i - 1)]
  BY <1>1, <1>2, <1>3
<1>6. ASSUME NEW j \in 1..(Len(s) - 1) PROVE (l \o r)[j] = IF j < i THEN s[j] ELSE s[j + 1]
  <2>1. CASE j < i
    BY <1>1, <1>2, <1>5, <2>1
  <2>2. CASE ~(j < i)
    <3>1. j - (i - 1) \in 1..(Len(s) - i) /\ i + (j - (i - 1)) = j + 1
      BY <1>1, <2>2
    <3>2. (l \o r)[j] = r[j - (i - 1)]
      BY <1>1, <1>5, <2>2
    <3> QED
      BY <1>3, <2>2, <3>1, <3>2
  <2> QED
    BY <2>1, <2>2
<1> QED
  BY <1>4, <1>5, <1>6

\* The event of p has got to the handler h: h is in the list, to the left of
\* the cursor.
Passed(p, h) == \E i \in DOMAIN subscribers[event[p]] :
                   i <= cursor[p] /\ subscribers[event[p]][i] = h

\* Handlers that stay and are passed, but were not called.
Skipped(p) == {h \in steady[p] : Passed(p, h) /\ h \notin ToSet(heard[p])}

Delivery(p) ==
    /\ steady[p] \subseteq Subscribed(event[p])
    /\ \A i \in DOMAIN heard[p] : heard[p][i] \in steady[p] => Passed(p, heard[p][i])
    /\ \A i, j \in DOMAIN heard[p] :
         heard[p][i] = heard[p][j] /\ heard[p][i] \in steady[p] => i = j
    /\ Cardinality(Skipped(p)) <= shifts[p]

BusInv ==
    /\ BusTypeOK
    /\ \A t \in Types : IsInjective(subscribers[t])
    /\ \A p \in Publishers : event[p] = NoEvent => heard[p] = <<>>
    /\ \A p \in Publishers : event[p] # NoEvent => Delivery(p)

\* What a step does to the bus.
BusNext ==
    \/ UNCHANGED busVars
    \/ \E t \in Types, h \in Handlers : Subscribe(t, h) \/ Unsubscribe(t, h)
    \/ \E p \in Publishers, t \in Types : subscribers[t] # <<>> /\ BeginPublish(p, t)
    \/ \E p \in Publishers : event[p] # NoEvent /\ More(p) /\ CallNext(p)
    \/ \E p \in Publishers : EndPublish(p)

LEMMA InitBus == BusInit => BusInv
<1> SUFFICES ASSUME BusInit PROVE BusInv
  OBVIOUS
<1> QED
  BY DEF BusInit, BusInv, BusTypeOK

LEMMA SkippedFinite ==
    ASSUME BusTypeOK, NEW p \in Publishers
    PROVE  IsFiniteSet(Skipped(p)) /\ Cardinality(Skipped(p)) \in Nat
<1>1. Skipped(p) \subseteq Handlers
  BY DEF Skipped, BusTypeOK
<1> QED
  BY <1>1, FS_Subset, FS_CardinalityType

\* A publisher that a step does not touch, while its list stays.
LEMMA Untouched ==
    ASSUME NEW p \in Publishers, Delivery(p),
           event'[p] = event[p], cursor'[p] = cursor[p], heard'[p] = heard[p],
           steady'[p] = steady[p], shifts'[p] = shifts[p],
           subscribers'[event[p]] = subscribers[event[p]]
    PROVE  Delivery(p)'
<1>1. \A h : Passed(p, h)' <=> Passed(p, h)
  BY DEF Passed
<1>2. Skipped(p)' = Skipped(p)
  BY <1>1 DEF Skipped
<1> QED
  BY <1>1, <1>2 DEF Delivery, Subscribed

LEMMA SubscribeInv ==
    ASSUME BusInv, NEW t \in Types, NEW h \in Handlers, Subscribe(t, h)
    PROVE  BusInv'
<1>1. /\ subscribers[t] \in Seq(Handlers) /\ UNCHANGED <<event, cursor, heard, steady, shifts>>
      /\ subscribers' = [subscribers EXCEPT ![t] = Append(@, h)]
      /\ h \notin Subscribed(t)
  BY DEF Subscribe, deliveryVars, BusInv, BusTypeOK
<1>2. /\ subscribers' \in [Types -> Seq(Handlers)]
      /\ DOMAIN subscribers'[t] = 1..(Len(subscribers[t]) + 1)
      /\ DOMAIN subscribers[t] = 1..Len(subscribers[t]) /\ Len(subscribers[t]) \in Nat
      /\ subscribers'[t][Len(subscribers[t]) + 1] = h
      /\ \A i \in DOMAIN subscribers[t] : subscribers'[t][i] = subscribers[t][i]
      /\ \A u \in Types \ {t} : subscribers'[u] = subscribers[u]
  BY <1>1 DEF BusInv, BusTypeOK
<1>3. \A i \in DOMAIN subscribers[t] : subscribers[t][i] # h
  BY <1>1 DEF Subscribed, ToSet
<1>4. \A u \in Types : IsInjective(subscribers'[u])
  <2>1. ASSUME NEW i \in DOMAIN subscribers'[t], NEW j \in DOMAIN subscribers'[t],
               subscribers'[t][i] = subscribers'[t][j]
        PROVE  i = j
    <3>1. i \in DOMAIN subscribers[t] /\ j \in DOMAIN subscribers[t] => subscribers[t][i] = subscribers[t][j]
      BY <1>2, <2>1
    <3> QED
      BY <1>2, <1>3, <2>1, <3>1 DEF BusInv, IsInjective
  <2>2. IsInjective(subscribers'[t])
    BY <2>1 DEF IsInjective
  <2> QED
    BY <1>2, <2>2 DEF BusInv
<1>5. ASSUME NEW p \in Publishers, event[p] = t PROVE Delivery(p)'
  <2>1. Delivery(p) /\ event'[p] = t
    BY <1>1, <1>5 DEF BusInv
  <2>2. \A g \in steady[p] : g # h
    BY <1>1, <1>5, <2>1 DEF Delivery
  <2>3. ASSUME NEW g \in steady[p] PROVE Passed(p, g)' <=> Passed(p, g)
    <3>1. Passed(p, g)' <=> \E i \in DOMAIN subscribers'[t] : i <= cursor[p] /\ subscribers'[t][i] = g
      BY <1>1, <1>5 DEF Passed
    <3>2. Passed(p, g) <=> \E i \in DOMAIN subscribers[t] : i <= cursor[p] /\ subscribers[t][i] = g
      BY <1>5 DEF Passed
    <3>3. \A i \in DOMAIN subscribers'[t] : subscribers'[t][i] = g => i \in DOMAIN subscribers[t]
      BY <1>2, <2>2
    <3>4. DOMAIN subscribers[t] \subseteq DOMAIN subscribers'[t]
      BY <1>2
    <3>5. \A i \in DOMAIN subscribers[t] : subscribers'[t][i] = subscribers[t][i]
      BY <1>2
    <3> QED
      BY <3>1, <3>2, <3>3, <3>4, <3>5
  <2>4. Skipped(p)' = Skipped(p)
    BY <1>1, <2>3 DEF Skipped
  <2>5. Subscribed(t) \subseteq Subscribed(t)'
    BY <1>2 DEF Subscribed, ToSet
  <2> QED
    BY <1>1, <1>5, <2>1, <2>3, <2>4, <2>5 DEF Delivery, Subscribed
<1>6. ASSUME NEW p \in Publishers, event[p] # NoEvent, event[p] # t PROVE Delivery(p)'
  BY <1>1, <1>2, <1>6, Untouched DEF BusInv, BusTypeOK
<1> QED
  BY <1>1, <1>2, <1>4, <1>5, <1>6 DEF BusInv, BusTypeOK

LEMMA UnsubscribeInv ==
    ASSUME BusInv, NEW t \in Types, NEW h \in Handlers, Unsubscribe(t, h)
    PROVE  BusInv'
<1>1. subscribers[t] \in Seq(Handlers) /\ UNCHANGED <<event, cursor, heard>>
  BY DEF Unsubscribe, BusInv, BusTypeOK
<1>2. PICK i \in DOMAIN subscribers[t] :
        /\ subscribers[t][i] = h
        /\ subscribers' = [subscribers EXCEPT ![t] = RemoveAt(@, i)]
        /\ shifts' = [p \in Publishers |->
                        IF event[p] = t /\ i <= cursor[p] THEN shifts[p] + 1 ELSE shifts[p]]
        /\ steady' = [p \in Publishers |->
                        IF event[p] = t THEN steady[p] \ {h} ELSE steady[p]]
  <2>1. \E i \in DOMAIN subscribers[t] : subscribers[t][i] = h
    BY DEF Unsubscribe, Subscribed, ToSet
  <2> QED
    BY <2>1 DEF Unsubscribe
<1> DEFINE s == subscribers[t]
<1>3. /\ i \in 1..Len(s) /\ Len(s) \in Nat /\ DOMAIN s = 1..Len(s)
      /\ subscribers' \in [Types -> Seq(Handlers)]
      /\ DOMAIN subscribers'[t] = 1..(Len(s) - 1)
      /\ \A j \in 1..(Len(s) - 1) : subscribers'[t][j] = IF j < i THEN s[j] ELSE s[j + 1]
      /\ \A u \in Types \ {t} : subscribers'[u] = subscribers[u]
  <2>1. /\ RemoveAt(s, i) \in Seq(Handlers) /\ Len(RemoveAt(s, i)) = Len(s) - 1
        /\ \A j \in 1..(Len(s) - 1) : RemoveAt(s, i)[j] = IF j < i THEN s[j] ELSE s[j + 1]
    BY <1>1, RemovedAt
  <2>2. subscribers'[t] = RemoveAt(s, i)
    BY <1>2 DEF BusInv, BusTypeOK
  <2> QED
    BY <1>1, <1>2, <2>1, <2>2 DEF BusInv, BusTypeOK
<1>4. \A j, k \in 1..Len(s) : s[j] = s[k] => j = k
  BY <1>3 DEF BusInv, IsInjective
<1> HIDE DEF s
\* The place that a handler of the new list had in the old one.
<1> DEFINE old(j) == IF j < i THEN j ELSE j + 1
<1>5. \A j \in 1..(Len(s) - 1) : /\ old(j) \in 1..Len(s) \ {i}
                                  /\ subscribers'[t][j] = s[old(j)]
                                  /\ j <= old(j) /\ old(j) <= j + 1 /\ (j < i => old(j) = j)
  BY <1>3
<1>6. \A j, k \in 1..(Len(s) - 1) : old(j) = old(k) => j = k
  BY <1>3
<1>7. \A k \in 1..Len(s) \ {i} : \E j \in 1..(Len(s) - 1) : old(j) = k
  <2> SUFFICES ASSUME NEW k \in 1..Len(s) \ {i}
               PROVE  \E j \in 1..(Len(s) - 1) : old(j) = k
    OBVIOUS
  <2>1. CASE k < i
    BY <1>3, <2>1
  <2>2. CASE ~(k < i)
    <3>1. k - 1 \in 1..(Len(s) - 1) /\ old(k - 1) = k
      BY <1>3, <2>2
    <3> QED
      BY <3>1
  <2> QED
    BY <2>1, <2>2
<1> HIDE DEF old
<1>8. \A u \in Types : IsInjective(subscribers'[u])
  <2>1. IsInjective(subscribers'[t])
    BY <1>3, <1>4, <1>5, <1>6 DEF IsInjective
  <2> QED
    BY <1>3, <2>1 DEF BusInv
<1>9. /\ steady' \in [Publishers -> SUBSET Handlers] /\ shifts' \in [Publishers -> Nat]
  BY <1>2 DEF BusInv, BusTypeOK
<1>10. ASSUME NEW p \in Publishers, event[p] = t PROVE Delivery(p)'
  <2>1. /\ Delivery(p) /\ event'[p] = t /\ cursor[p] \in Nat /\ steady'[p] = steady[p] \ {h}
        /\ shifts'[p] = IF i <= cursor[p] THEN shifts[p] + 1 ELSE shifts[p]
        /\ shifts[p] \in Nat
    BY <1>1, <1>2, <1>10 DEF BusInv, BusTypeOK
  <2>2. \A g : Passed(p, g)' <=>
          \E j \in 1..(Len(s) - 1) : j <= cursor[p] /\ s[old(j)] = g
    <3>1. \A g : Passed(p, g)' <=>
            \E j \in DOMAIN subscribers'[t] : j <= cursor[p] /\ subscribers'[t][j] = g
      BY <1>1, <2>1 DEF Passed
    <3> QED
      BY <1>3, <1>5, <3>1
  <2>3. \A g : Passed(p, g) <=> \E j \in 1..Len(s) : j <= cursor[p] /\ s[j] = g
    BY <1>3, <1>10 DEF Passed, s
  <2>4. steady'[p] \subseteq Subscribed(t)'
    <3>1. ASSUME NEW g \in steady'[p] PROVE g \in ToSet(subscribers'[t])
      <4>1. PICK k \in 1..Len(s) : s[k] = g
        BY <1>3, <1>10, <2>1, <3>1 DEF Delivery, Subscribed, ToSet, s
      <4>2. k # i
        BY <1>2, <2>1, <3>1, <4>1 DEF s
      <4>3. PICK j \in 1..(Len(s) - 1) : old(j) = k
        BY <1>7, <4>2
      <4> QED
        BY <1>3, <1>5, <4>1, <4>3 DEF ToSet
    <3> QED
      BY <3>1 DEF Subscribed
  <2>5. ASSUME NEW g, Passed(p, g), g # h PROVE Passed(p, g)'
    <3>1. PICK k \in 1..Len(s) : k <= cursor[p] /\ s[k] = g
      BY <2>3, <2>5
    <3>2. PICK j \in 1..(Len(s) - 1) : old(j) = k
      BY <1>2, <1>7, <2>5, <3>1 DEF s
    <3>3. j <= cursor[p]
      BY <1>3, <1>5, <2>1, <3>1, <3>2
    <3> QED
      BY <2>2, <3>1, <3>2, <3>3
  <2>6. Cardinality(Skipped(p))' <= shifts'[p]
    <3>1. IsFiniteSet(Skipped(p)) /\ Cardinality(Skipped(p)) \in Nat
      BY SkippedFinite DEF BusInv
    <3>2. Cardinality(Skipped(p)) <= shifts[p]
      BY <2>1 DEF Delivery
    <3>3. CASE i <= cursor[p]
      <4> DEFINE next == IF cursor[p] + 1 \in 1..Len(s) THEN s[cursor[p] + 1] ELSE h
      <4>1. ASSUME NEW g \in Skipped(p)' PROVE g \in Skipped(p) \cup {next}
        <5>1. /\ g \in steady[p] /\ g \notin ToSet(heard[p])
              /\ \E j \in 1..(Len(s) - 1) : j <= cursor[p] /\ s[old(j)] = g
          BY <1>1, <2>1, <2>2, <4>1 DEF Skipped
        <5>2. PICK j \in 1..(Len(s) - 1) : j <= cursor[p] /\ s[old(j)] = g
          BY <5>1
        <5>3. old(j) \in 1..Len(s) /\ (old(j) <= cursor[p] \/ old(j) = cursor[p] + 1)
          BY <1>3, <1>5, <2>1, <5>2
        <5> QED
          BY <2>3, <5>1, <5>2, <5>3 DEF Skipped
      <4> HIDE DEF next
      <4>2. /\ IsFiniteSet(Skipped(p) \cup {next})
            /\ Cardinality(Skipped(p) \cup {next}) <= Cardinality(Skipped(p)) + 1
            /\ Cardinality(Skipped(p) \cup {next}) \in Nat
        <5>1. /\ IsFiniteSet(Skipped(p) \cup {next})
              /\ \/ Cardinality(Skipped(p) \cup {next}) = Cardinality(Skipped(p))
                 \/ Cardinality(Skipped(p) \cup {next}) = Cardinality(Skipped(p)) + 1
          BY <3>1, FS_AddElement
        <5> QED
          BY <3>1, <5>1
      <4>3. Skipped(p)' \subseteq Skipped(p) \cup {next}
        BY <4>1
      <4>4. /\ Cardinality(Skipped(p)') <= Cardinality(Skipped(p) \cup {next})
            /\ Cardinality(Skipped(p)') \in Nat
        BY <4>2, <4>3, FS_Subset, FS_CardinalityType
      <4> QED
        BY <2>1, <3>1, <3>2, <3>3, <4>2, <4>4
    <3>4. CASE ~(i <= cursor[p])
      <4>1. Skipped(p)' \subseteq Skipped(p)
        <5>1. ASSUME NEW g \in Skipped(p)' PROVE g \in Skipped(p)
          <6>1. /\ g \in steady[p] /\ g \notin ToSet(heard[p])
                /\ \E j \in 1..(Len(s) - 1) : j <= cursor[p] /\ s[old(j)] = g
            BY <1>1, <2>1, <2>2, <5>1 DEF Skipped
          <6>2. PICK j \in 1..(Len(s) - 1) : j <= cursor[p] /\ s[old(j)] = g
            BY <6>1
          <6>3. old(j) = j /\ j \in 1..Len(s)
            BY <1>3, <1>5, <2>1, <3>4, <6>2
          <6> QED
            BY <2>3, <6>1, <6>2, <6>3 DEF Skipped
        <5> QED
          BY <5>1
      <4>2. Cardinality(Skipped(p)') <= Cardinality(Skipped(p)) /\ Cardinality(Skipped(p)') \in Nat
        BY <3>1, <4>1, FS_Subset, FS_CardinalityType
      <4> QED
        BY <2>1, <3>1, <3>2, <3>4, <4>2
    <3> QED
      BY <3>3, <3>4
  <2>7. \A k \in DOMAIN heard[p] : heard[p][k] \in steady'[p] => Passed(p, heard[p][k])'
    BY <1>1, <2>1, <2>5 DEF Delivery
  <2> QED
    BY <1>1, <2>1, <2>4, <2>6, <2>7 DEF Delivery
<1>11. ASSUME NEW p \in Publishers, event[p] # NoEvent, event[p] # t PROVE Delivery(p)'
  BY <1>1, <1>2, <1>3, <1>11, Untouched DEF BusInv, BusTypeOK
<1> QED
  BY <1>1, <1>3, <1>8, <1>9, <1>10, <1>11 DEF BusInv, BusTypeOK

LEMMA BeginInv ==
    ASSUME BusInv, NEW q \in Publishers, NEW t \in Types, subscribers[t] # <<>>, BeginPublish(q, t)
    PROVE  BusInv'
<1>1. /\ subscribers[t] \in Seq(Handlers) /\ subscribers' = subscribers
      /\ Head(subscribers[t]) = subscribers[t][1] /\ 1 \in DOMAIN subscribers[t]
      /\ Head(subscribers[t]) \in Handlers
  BY DEF BeginPublish, BusInv, BusTypeOK
<1>2. BusTypeOK'
  BY <1>1 DEF BeginPublish, BusInv, BusTypeOK, Subscribed, ToSet
<1>3. /\ event'[q] = t /\ cursor'[q] = 1 /\ heard'[q] = <<Head(subscribers[t])>>
      /\ steady'[q] = Subscribed(t) /\ shifts'[q] = 0
  BY DEF BeginPublish, BusInv, BusTypeOK
<1>4. \A p \in Publishers \ {q} :
        /\ event'[p] = event[p] /\ cursor'[p] = cursor[p] /\ heard'[p] = heard[p]
        /\ steady'[p] = steady[p] /\ shifts'[p] = shifts[p]
  BY DEF BeginPublish, BusInv, BusTypeOK
<1>5. \A h : Passed(q, h)' <=> h = Head(subscribers[t])
  <2>1. \A h : Passed(q, h)' <=> \E i \in DOMAIN subscribers[t] : i <= 1 /\ subscribers[t][i] = h
    BY <1>1, <1>3 DEF Passed
  <2>2. \A i \in DOMAIN subscribers[t] : i <= 1 <=> i = 1
    BY <1>1
  <2> QED
    BY <1>1, <2>1, <2>2
<1>6. Delivery(q)'
  <2>1. Skipped(q)' = {}
    BY <1>3, <1>5 DEF Skipped, ToSet
  <2>2. Cardinality(Skipped(q)') <= shifts'[q]
    BY <1>3, <2>1, FS_EmptySet
  <2> QED
    BY <1>1, <1>3, <1>5, <2>2 DEF Delivery, Subscribed
<1>7. \A p \in Publishers \ {q} : event[p] # NoEvent => Delivery(p)'
  BY <1>1, <1>4, Untouched DEF BusInv
<1> QED
  BY <1>1, <1>2, <1>3, <1>4, <1>6, <1>7 DEF BusInv

LEMMA CallNextInv ==
    ASSUME BusInv, NEW q \in Publishers, event[q] # NoEvent, More(q), CallNext(q)
    PROVE  BusInv'
<1> DEFINE s == subscribers[event[q]]
           n == cursor[q] + 1
<1>1. /\ event[q] \in Types /\ s \in Seq(Handlers) /\ n \in 1..Len(s)
      /\ cursor[q] \in Nat /\ DOMAIN s = 1..Len(s) /\ s[n] \in Handlers
      /\ heard[q] \in Seq(Handlers) /\ Delivery(q)
  BY DEF More, BusInv, BusTypeOK
<1>2. /\ UNCHANGED <<subscribers, event, steady, shifts>>
      /\ cursor' = [cursor EXCEPT ![q] = n] /\ heard' = [heard EXCEPT ![q] = Append(@, s[n])]
  BY DEF CallNext
<1>3. BusTypeOK' /\ cursor'[q] = n /\ heard'[q] = Append(heard[q], s[n])
  BY <1>1, <1>2 DEF BusInv, BusTypeOK
<1>4. \A i, j \in DOMAIN s : s[i] = s[j] => i = j
  BY <1>1 DEF BusInv, IsInjective
<1>5. \A p \in Publishers \ {q} : cursor'[p] = cursor[p] /\ heard'[p] = heard[p]
  BY <1>2 DEF BusInv, BusTypeOK
<1>6. \A h : Passed(q, h)' <=> \E i \in DOMAIN s : i <= n /\ s[i] = h
  BY <1>2, <1>3 DEF Passed
<1>7. \A h : Passed(q, h) <=> \E i \in DOMAIN s : i <= cursor[q] /\ s[i] = h
  BY DEF Passed
<1>8. ~Passed(q, s[n])
  BY <1>1, <1>4, <1>7
<1> HIDE DEF s, n
<1>9. \A h : Passed(q, h)' <=> Passed(q, h) \/ h = s[n]
  <2>1. \A i \in DOMAIN s : i <= n <=> i <= cursor[q] \/ i = n
    BY <1>1 DEF n
  <2> QED
    BY <1>1, <1>6, <1>7, <2>1
<1>10. /\ DOMAIN heard'[q] = 1..(Len(heard[q]) + 1) /\ heard'[q][Len(heard[q]) + 1] = s[n]
       /\ DOMAIN heard[q] = 1..Len(heard[q]) /\ Len(heard[q]) \in Nat
       /\ \A i \in DOMAIN heard[q] : heard'[q][i] = heard[q][i]
  BY <1>1, <1>3
<1>11. \A i \in DOMAIN heard[q] : heard[q][i] \in steady[q] => heard[q][i] # s[n]
  BY <1>1, <1>8 DEF Delivery
<1>12. \A i, j \in DOMAIN heard'[q] :
         heard'[q][i] = heard'[q][j] /\ heard'[q][i] \in steady[q] => i = j
  <2> SUFFICES ASSUME NEW i \in DOMAIN heard'[q], NEW j \in DOMAIN heard'[q],
                      heard'[q][i] = heard'[q][j], heard'[q][i] \in steady[q]
               PROVE  i = j
    OBVIOUS
  <2>1. CASE i \in DOMAIN heard[q] /\ j \in DOMAIN heard[q]
    BY <1>1, <1>10, <2>1 DEF Delivery
  <2>2. CASE i = Len(heard[q]) + 1 \/ j = Len(heard[q]) + 1
    BY <1>10, <1>11, <2>2
  <2> QED
    BY <1>10, <2>1, <2>2
<1>13. Delivery(q)'
  <2>1. ToSet(heard'[q]) = ToSet(heard[q]) \cup {s[n]}
    BY <1>10 DEF ToSet
  <2>2. Skipped(q)' \subseteq Skipped(q)
    BY <1>2, <1>9, <2>1 DEF Skipped
  <2>3. /\ IsFiniteSet(Skipped(q)) /\ Cardinality(Skipped(q)) \in Nat
        /\ Cardinality(Skipped(q)') <= Cardinality(Skipped(q)) /\ Cardinality(Skipped(q)') \in Nat
    BY <2>2, SkippedFinite, FS_Subset, FS_CardinalityType DEF BusInv
  <2>4. Cardinality(Skipped(q)') <= shifts'[q]
    BY <1>1, <1>2, <2>3 DEF Delivery, BusInv, BusTypeOK
  <2>5. \A h : \A i \in DOMAIN heard'[q] : heard'[q][i] = h /\ h \in steady[q] => Passed(q, h)'
    BY <1>1, <1>9, <1>10 DEF Delivery
  <2>6. steady'[q] \subseteq Subscribed(event[q])'
    BY <1>1, <1>2 DEF Delivery, Subscribed
  <2> QED
    BY <1>2, <1>12, <2>4, <2>5, <2>6 DEF Delivery
<1>14. \A p \in Publishers \ {q} : event[p] # NoEvent => Delivery(p)'
  BY <1>2, <1>5, Untouched DEF BusInv
<1> QED
  BY <1>2, <1>3, <1>5, <1>13, <1>14 DEF BusInv

LEMMA EndInv ==
    ASSUME BusInv, NEW q \in Publishers, EndPublish(q)
    PROVE  BusInv'
<1>1. /\ BusTypeOK' /\ subscribers' = subscribers /\ event'[q] = NoEvent /\ heard'[q] = <<>>
      /\ \A p \in Publishers \ {q} :
           /\ event'[p] = event[p] /\ cursor'[p] = cursor[p] /\ heard'[p] = heard[p]
           /\ steady'[p] = steady[p] /\ shifts'[p] = shifts[p]
  BY DEF EndPublish, BusInv, BusTypeOK
<1>2. \A p \in Publishers \ {q} : event[p] # NoEvent => Delivery(p)'
  BY <1>1, Untouched DEF BusInv
<1> QED
  BY <1>1, <1>2 DEF BusInv

LEMMA BusStep == BusInv /\ BusNext => BusInv'
<1> SUFFICES ASSUME BusInv, BusNext PROVE BusInv'
  OBVIOUS
<1>1. CASE UNCHANGED busVars
  <2>1. \A p \in Publishers : event[p] # NoEvent => Delivery(p)'
    BY <1>1, Untouched DEF BusInv, busVars, deliveryVars
  <2> QED
    BY <1>1, <2>1 DEF BusInv, BusTypeOK, busVars, deliveryVars
<1> QED
  BY <1>1, SubscribeInv, UnsubscribeInv, BeginInv, CallNextInv, EndInv DEF BusNext

---------------------------------------------------------------------------
(* Calls of the orchestrator.                                              *)

Working(c) == at[c] \in {"publishing", "running"}

\* A caller publishes exactly in its publishing state, about an agent; behind
\* agent.run the flag says whether its result is COMPLETE.
CallInv ==
    /\ at \in [Callers -> {"idle", "publishing", "running", "between", "returned", "raised"}]
    /\ agent \in [Callers -> Agents \cup {Gone}]
    /\ result \in [Callers -> {"none", "complete", "stuck"}]
    /\ success \in [Callers -> BOOLEAN]
    /\ \A c \in Callers :
         /\ event[c] # NoEvent <=> at[c] = "publishing"
         /\ Working(c) => agent[c] \in Agents
         /\ event[c] = "agent_completed" => /\ result[c] \in {"complete", "stuck"}
                                            /\ success[c] <=> result[c] = "complete"

Answered(c, a) ==
    \E r \in {"complete", "stuck", "error"}, s \in BOOLEAN :
        (s <=> r = "complete") /\ Answer(c, a, r, s)

\* Call c is at work for agent a, whose run is not answered.
GoesOn(c, a) ==
    /\ UNCHANGED recordVars
    /\ at' \in {[at EXCEPT ![c] = "publishing"], [at EXCEPT ![c] = "running"]}
    /\ agent' = [agent EXCEPT ![c] = a]

\* It answers, and c is not at work any more.
IsDone(c, a) == Answered(c, a) /\ agent' = [agent EXCEPT ![c] = a]

Raises(c) == UNCHANGED <<recordVars, agent>> /\ at' = [at EXCEPT ![c] = "raised"]

LEMMA AnnounceStep ==
    ASSUME CallInv, BusTypeOK, NEW c \in Callers, NEW t \in Types, NEW a \in Agents,
           NEW r \in {"none", "complete", "stuck"}, NEW s \in BOOLEAN,
           t = "agent_completed" => r \in {"complete", "stuck"} /\ (s <=> r = "complete"),
           Announce(c, t, a, r, s)
    PROVE  /\ BusNext /\ CallInv'
           /\ GoesOn(c, a) \/ (t # "agent_started" /\ IsDone(c, a))
<1>1. c \in Publishers /\ NoEvent # t
  BY DEF Callers
<1>2. /\ agent' = [agent EXCEPT ![c] = a] /\ result' = [result EXCEPT ![c] = r]
      /\ success' = [success EXCEPT ![c] = s]
  BY DEF Announce
<1>3. CASE subscribers[t] # <<>>
  <2>1. BeginPublish(c, t) /\ at' = [at EXCEPT ![c] = "publishing"] /\ UNCHANGED recordVars
    BY <1>3 DEF Announce
  <2>2. event' = [event EXCEPT ![c] = t]
    BY <2>1 DEF BeginPublish
  <2>3. CallInv'
    BY <1>1, <1>2, <2>1, <2>2 DEF CallInv, BusTypeOK, Working, Callers
  <2> QED
    BY <1>1, <1>2, <1>3, <2>1, <2>3 DEF BusNext, GoesOn
<1>4. CASE subscribers[t] = <<>>
  <2>1. EndPublish(c) /\ Proceed(c, t, a, r, s)
    BY <1>4 DEF Announce
  <2>2. event' = [event EXCEPT ![c] = NoEvent]
    BY <2>1 DEF EndPublish
  <2>3. CASE t = "agent_started"
    <3>1. at' = [at EXCEPT ![c] = "running"] /\ UNCHANGED recordVars
      BY <2>1, <2>3 DEF Proceed
    <3>2. CallInv'
      BY <1>1, <1>2, <2>2, <3>1 DEF CallInv, BusTypeOK, Working, Callers
    <3> QED
      BY <1>1, <1>2, <2>1, <3>1, <3>2 DEF BusNext, GoesOn
  <2>4. CASE t # "agent_started"
    <3>1. Answered(c, a)
      BY <2>1, <2>4 DEF Proceed, Answered
    <3>2. at' \in {[at EXCEPT ![c] = "between"], [at EXCEPT ![c] = "returned"]}
      BY <3>1 DEF Answered, Answer
    <3>3. CallInv'
      BY <1>1, <1>2, <2>2, <3>2 DEF CallInv, BusTypeOK, Working, Callers
    <3> QED
      BY <1>1, <1>2, <2>1, <2>4, <3>1, <3>3 DEF BusNext, IsDone
  <2> QED
    BY <2>3, <2>4
<1> QED
  BY <1>3, <1>4

LEMMA LeaveStep ==
    ASSUME CallInv, BusTypeOK, NEW c \in Callers, Leave(c)
    PROVE  BusNext /\ CallInv' /\ Raises(c)
<1>1. /\ event' = [event EXCEPT ![c] = NoEvent] /\ at' = [at EXCEPT ![c] = "raised"]
      /\ UNCHANGED <<agent, result, success>>
  BY DEF Leave, EndPublish
<1>2. CallInv'
  BY <1>1 DEF CallInv, BusTypeOK, Working, Callers
<1> QED
  BY <1>2 DEF Leave, BusNext, Raises, Callers

LEMMA HandlerStep ==
    ASSUME CallInv, BusTypeOK, NEW c \in Callers, HandlerEnds(c)
    PROVE  /\ BusNext /\ CallInv' /\ UNCHANGED iteration
           /\ GoesOn(c, agent[c]) \/ IsDone(c, agent[c])
<1>1. /\ c \in Publishers /\ at[c] = "publishing" /\ event[c] \in Types /\ event[c] # NoEvent
      /\ UNCHANGED <<agent, result, success, iteration>>
  BY DEF HandlerEnds, CallInv, BusTypeOK, Callers
<1>2. agent' = [agent EXCEPT ![c] = agent[c]] /\ at = [at EXCEPT ![c] = "publishing"]
  BY <1>1 DEF CallInv
<1>3. CASE More(c)
  <2>1. CallNext(c) /\ UNCHANGED <<at, recordVars>>
    BY <1>3 DEF HandlerEnds
  <2>2. event' = event
    BY <2>1 DEF CallNext
  <2>3. CallInv'
    BY <1>1, <2>1, <2>2 DEF CallInv, Working
  <2> QED
    BY <1>1, <1>2, <1>3, <2>1, <2>3 DEF BusNext, GoesOn
<1>4. CASE ~More(c)
  <2>1. EndPublish(c) /\ Proceed(c, event[c], agent[c], result[c], success[c])
    BY <1>4 DEF HandlerEnds
  <2>2. event' = [event EXCEPT ![c] = NoEvent]
    BY <2>1 DEF EndPublish
  <2>3. CASE event[c] = "agent_started"
    <3>1. at' = [at EXCEPT ![c] = "running"] /\ UNCHANGED recordVars
      BY <2>1, <2>3 DEF Proceed
    <3>2. CallInv'
      BY <1>1, <2>2, <3>1 DEF CallInv, BusTypeOK, Working, Callers
    <3> QED
      BY <1>1, <1>2, <2>1, <3>1, <3>2 DEF BusNext, GoesOn
  <2>4. CASE event[c] # "agent_started"
    <3>1. Answered(c, agent[c])
      BY <1>1, <2>1, <2>4 DEF Proceed, Answered, CallInv
    <3>2. at' \in {[at EXCEPT ![c] = "between"], [at EXCEPT ![c] = "returned"]}
      BY <3>1 DEF Answered, Answer
    <3>3. CallInv'
      BY <1>1, <2>2, <3>2 DEF CallInv, BusTypeOK, Working, Callers
    <3> QED
      BY <1>1, <1>2, <2>1, <3>1, <3>3 DEF BusNext, IsDone
  <2> QED
    BY <2>3, <2>4
<1> QED
  BY <1>3, <1>4

\* A step of a call that is at work.
LEMMA WorkStep ==
    ASSUME CallInv, BusTypeOK, NEW c \in Callers,
           \/ AgentReturns(c) \/ AgentRaises(c)
           \/ HandlerEnds(c) \/ HandlerRaises(c) \/ Cancelled(c)
    PROVE  /\ BusNext /\ CallInv' /\ Working(c) /\ agent[c] \in Agents
           /\ UNCHANGED <<registry, iteration, forgotten, present>>
           /\ GoesOn(c, agent[c]) \/ IsDone(c, agent[c]) \/ Raises(c)
<1>1. Working(c) /\ agent[c] \in Agents /\ UNCHANGED <<registry, forgotten, present>>
  BY DEF AgentReturns, AgentRaises, HandlerEnds, HandlerRaises, Cancelled, CallInv, Working
<1>2. CASE AgentReturns(c)
  <2>1. PICK r \in {"complete", "stuck"} :
          Announce(c, "agent_completed", agent[c], r, r = "complete")
    BY <1>2 DEF AgentReturns
  <2>2. "agent_completed" \in Types /\ iteration' = iteration
    BY <1>2 DEF AgentReturns
  <2> HIDE DEF Callers
  <2>3. (r = "complete") \in BOOLEAN
    OBVIOUS
  <2> QED
    BY <1>1, <2>1, <2>2, <2>3, AnnounceStep
<1>3. CASE AgentRaises(c)
  <2>1. /\ Announce(c, "agent_failed", agent[c], result[c], success[c]) /\ iteration' = iteration
        /\ "agent_failed" \in Types /\ "agent_failed" # "agent_completed"
        /\ result[c] \in {"none", "complete", "stuck"} /\ success[c] \in BOOLEAN
    BY <1>3 DEF AgentRaises, CallInv
  <2> QED
    BY <1>1, <2>1, AnnounceStep
<1>4. CASE HandlerEnds(c)
  BY <1>1, <1>4, HandlerStep
<1>5. CASE HandlerRaises(c)
  <2>1. CASE event[c] = "agent_completed"
    <3>1. /\ Announce(c, "agent_failed", agent[c], result[c], success[c]) /\ iteration' = iteration
          /\ "agent_failed" \in Types /\ "agent_failed" # "agent_completed"
          /\ result[c] \in {"none", "complete", "stuck"} /\ success[c] \in BOOLEAN
      BY <1>5, <2>1 DEF HandlerRaises, CallInv
    <3> QED
      BY <1>1, <3>1, AnnounceStep
  <2>2. CASE event[c] # "agent_completed"
    BY <1>1, <1>5, <2>2, LeaveStep DEF HandlerRaises, Leave
  <2> QED
    BY <2>1, <2>2
<1>6. CASE Cancelled(c)
  BY <1>1, <1>6, LeaveStep DEF Cancelled, Leave
<1> QED
  BY <1>2, <1>3, <1>4, <1>5, <1>6

---------------------------------------------------------------------------
(* run_all.                                                                *)

Runs(c, a) == {i \in DOMAIN results[c] : results[c][i].agent = a}
OneRun(c, a) == \E i : Runs(c, a) = {i}

RegistryInv ==
    /\ registry \in Seq(Agents \cup {Gone})
    /\ \A i, j \in DOMAIN registry : registry[i] = registry[j] /\ registry[i] # Gone => i = j
    /\ iteration \in [Callers -> [all : BOOLEAN, size : Nat, pos : Nat, len : Int]]
    /\ present \in [Callers -> SUBSET Agents]
    /\ results \in [Callers -> Seq([agent : Agents, status : {"complete", "stuck", "error"}])]

\* The entry k of agent a is before the iterator of c and a has had no run, or
\* it is behind it and a has had one, or is at work.
Visited(c, a, k) ==
    IF k > iteration[c].pos \/ (Working(c) /\ agent[c] = a)
    THEN Runs(c, a) = {} /\ (k > iteration[c].pos => ~(Working(c) /\ agent[c] = a))
    ELSE OneRun(c, a)

PassInv(c) ==
    /\ at[c] = "idle" => results[c] = <<>> /\ ~iteration[c].all
    /\ iteration[c].all /\ (Working(c) \/ at[c] = "between") =>
         \A a \in present[c] : \E k \in DOMAIN registry : registry[k] = a /\ Visited(c, a, k)
    /\ iteration[c].all /\ at[c] = "returned" => \A a \in present[c] : OneRun(c, a)

OrchestratorInv == BusInv /\ CallInv /\ RegistryInv /\ \A c \in Callers : PassInv(c)

\* The pass of a call that does not step, while agents come and go.
LEMMA PassStays ==
    ASSUME NEW c \in Callers, PassInv(c),
           at'[c] = at[c], agent'[c] = agent[c], results'[c] = results[c],
           iteration'[c] = iteration[c], present'[c] \subseteq present[c],
           \A a \in present'[c], k \in DOMAIN registry :
             registry[k] = a => k \in DOMAIN registry' /\ registry'[k] = a
    PROVE  PassInv(c)'
<1>1. \A a : (Runs(c, a)' = Runs(c, a)) /\ (OneRun(c, a)' <=> OneRun(c, a))
  BY DEF Runs, OneRun
<1>2. \A a, k : Visited(c, a, k)' <=> Visited(c, a, k)
  BY <1>1 DEF Visited, Working
<1> QED
  BY <1>1, <1>2 DEF PassInv, Working

\* What an answer adds to the results of its call.
LEMMA AnswerRuns ==
    ASSUME RegistryInv, NEW c \in Callers, NEW a \in Agents, Answered(c, a)
    PROVE  /\ results' \in [Callers -> Seq([agent : Agents, status : {"complete", "stuck", "error"}])]
           /\ \A d \in Callers \ {c} : results'[d] = results[d]
           /\ \A b : b # a => Runs(c, b)' = Runs(c, b)
           /\ Runs(c, a) = {} => OneRun(c, a)'
<1>1. PICK r \in {"complete", "stuck", "error"} :
        results' = [results EXCEPT ![c] = Append(@, [agent |-> a, status |-> r])]
  BY DEF Answered, Answer
<1> DEFINE n == Len(results[c])
<1>2. /\ results[c] \in Seq([agent : Agents, status : {"complete", "stuck", "error"}])
      /\ results'[c] = Append(results[c], [agent |-> a, status |-> r])
  BY <1>1 DEF RegistryInv
<1>3. /\ DOMAIN results[c] = 1..n /\ n \in Nat /\ DOMAIN results'[c] = 1..(n + 1)
      /\ results'[c][n + 1].agent = a
      /\ \A i \in 1..n : results'[c][i] = results[c][i]
  BY <1>2
<1>4. \A b : b # a => Runs(c, b)' = Runs(c, b)
  BY <1>3 DEF Runs
<1>5. Runs(c, a)' = Runs(c, a) \cup {n + 1}
  BY <1>3 DEF Runs
<1>6. Runs(c, a) = {} => OneRun(c, a)'
  BY <1>5 DEF OneRun
<1>7. results'[c] \in Seq([agent : Agents, status : {"complete", "stuck", "error"}])
  BY <1>2
<1> QED
  BY <1>1, <1>4, <1>6, <1>7 DEF RegistryInv

LEMMA PassWork ==
    ASSUME RegistryInv, CallInv, NEW c \in Callers, PassInv(c), Working(c), agent[c] \in Agents,
           UNCHANGED <<registry, iteration, present>>,
           GoesOn(c, agent[c]) \/ IsDone(c, agent[c]) \/ Raises(c)
    PROVE  RegistryInv' /\ PassInv(c)'
<1>1. agent'[c] = agent[c]
  BY DEF GoesOn, IsDone, Raises, CallInv
<1>2. CASE GoesOn(c, agent[c])
  <2>1. UNCHANGED <<results>> /\ Working(c)' /\ at'[c] # "idle"
    BY <1>2 DEF GoesOn, recordVars, CallInv, Working
  <2>2. RegistryInv'
    BY <2>1 DEF RegistryInv
  <2>3. \A a : (Runs(c, a)' = Runs(c, a)) /\ (OneRun(c, a)' <=> OneRun(c, a))
    BY <2>1 DEF Runs, OneRun
  <2>4. \A a, k : Visited(c, a, k)' <=> Visited(c, a, k)
    BY <1>1, <2>1, <2>3 DEF Visited
  <2> QED
    BY <2>1, <2>2, <2>4 DEF PassInv, Working
<1>3. CASE IsDone(c, agent[c])
  <2>1. /\ Answered(c, agent[c])
        /\ at'[c] = IF iteration[c].all THEN "between" ELSE "returned"
    BY <1>3 DEF IsDone, Answered, Answer, CallInv
  <2>2. RegistryInv'
    BY <2>1, AnswerRuns DEF RegistryInv
  <2>3. ASSUME NEW a, NEW k, Visited(c, a, k) PROVE Visited(c, a, k)'
    <3>1. ~Working(c)'
      BY <2>1 DEF Working
    <3>2. CASE a # agent[c]
      <4>1. (Runs(c, a)' = Runs(c, a)) /\ (OneRun(c, a)' <=> OneRun(c, a))
        BY <2>1, <3>2, AnswerRuns DEF OneRun
      <4> QED
        BY <2>3, <3>1, <3>2, <4>1 DEF Visited
    <3>3. CASE a = agent[c]
      <4>1. Runs(c, a) = {} /\ ~(k > iteration[c].pos)
        BY <2>3, <3>3 DEF Visited
      <4>2. OneRun(c, a)'
        BY <2>1, <3>3, <4>1, AnswerRuns
      <4> QED
        BY <3>1, <4>1, <4>2 DEF Visited
    <3> QED
      BY <3>2, <3>3
  <2>4. at'[c] \in {"between", "returned"} /\ (iteration[c].all => at'[c] = "between")
    BY <2>1
  <2> QED
    BY <2>2, <2>3, <2>4 DEF PassInv
<1>4. CASE Raises(c)
  <2>1. UNCHANGED results /\ at'[c] = "raised"
    BY <1>4 DEF Raises, recordVars, CallInv
  <2> QED
    BY <2>1 DEF RegistryInv, PassInv, Working
<1> QED
  BY <1>2, <1>3, <1>4

\* Callers other than the one that steps.
LEMMA OthersStay ==
    ASSUME CallInv, RegistryInv, NEW c \in Callers, NEW d \in Callers \ {c}, PassInv(d),
           UNCHANGED <<registry, present>>, iteration'[d] = iteration[d],
           (\E a \in Agents : GoesOn(c, a) \/ IsDone(c, a)) \/ Raises(c)
    PROVE  PassInv(d)'
<1>1. at'[d] = at[d]
  BY DEF GoesOn, IsDone, Raises, Answered, Answer, CallInv
<1>2. agent'[d] = agent[d]
  BY DEF GoesOn, IsDone, Raises, CallInv
<1>3. results'[d] = results[d]
  <2>1. ASSUME NEW a \in Agents, IsDone(c, a) PROVE results'[d] = results[d]
    BY <2>1, AnswerRuns DEF IsDone
  <2> QED
    BY <2>1 DEF GoesOn, Raises, recordVars
<1> QED
  BY <1>1, <1>2, <1>3, PassStays

LEMMA WorkInv ==
    ASSUME OrchestratorInv, NEW c \in Callers,
           \/ AgentReturns(c) \/ AgentRaises(c)
           \/ HandlerEnds(c) \/ HandlerRaises(c) \/ Cancelled(c)
    PROVE  OrchestratorInv'
<1>1. BusInv /\ CallInv /\ BusTypeOK /\ RegistryInv /\ \A d \in Callers : PassInv(d)
  BY DEF OrchestratorInv, BusInv
<1>2. /\ BusNext /\ CallInv' /\ Working(c) /\ agent[c] \in Agents
      /\ UNCHANGED <<registry, iteration, present>>
      /\ GoesOn(c, agent[c]) \/ IsDone(c, agent[c]) \/ Raises(c)
  BY <1>1, WorkStep
<1>3. RegistryInv' /\ PassInv(c)'
  BY <1>1, <1>2, PassWork
<1>4. \A d \in Callers \ {c} : PassInv(d)'
  BY <1>1, <1>2, OthersStay
<1> QED
  BY <1>1, <1>2, <1>3, <1>4, BusStep DEF OrchestratorInv

LEMMA RunAgentInv ==
    ASSUME OrchestratorInv, NEW c \in Callers, NEW a \in Agents, RunAgent(c, a)
    PROVE  OrchestratorInv'
<1>1. BusInv /\ CallInv /\ BusTypeOK /\ RegistryInv /\ \A d \in Callers : PassInv(d)
  BY DEF OrchestratorInv, BusInv
<1>2. /\ at[c] = "idle" /\ Announce(c, "agent_started", a, "none", FALSE)
      /\ UNCHANGED <<registry, iteration, present>>
  BY DEF RunAgent
<1>3. /\ BusNext /\ CallInv' /\ GoesOn(c, a)
  <2>1. "agent_started" \in Types /\ "agent_started" # "agent_completed"
    OBVIOUS
  <2> QED
    BY <1>1, <1>2, <2>1, AnnounceStep
<1>4. UNCHANGED results /\ at'[c] \in {"publishing", "running"} /\ ~iteration[c].all
  BY <1>1, <1>2, <1>3 DEF GoesOn, recordVars, CallInv, PassInv
<1>5. RegistryInv' /\ PassInv(c)'
  BY <1>1, <1>2, <1>4 DEF RegistryInv, PassInv
<1>6. \A d \in Callers \ {c} : PassInv(d)'
  BY <1>1, <1>2, <1>3, OthersStay
<1> QED
  BY <1>1, <1>3, <1>5, <1>6, BusStep DEF OrchestratorInv

LEMMA LeastOf ==
    ASSUME NEW S, S \subseteq Nat, S # {}
    PROVE  \E x \in S : \A y \in S : x <= y
<1>1. PICK x \in S : \A y \in S : ~(<<y, x>> \in OpToRel(<, Nat))
  BY NatLessThanWellFounded, WFMin
<1>2. \A y \in S : ~(y < x)
  BY <1>1 DEF OpToRel
<1> QED
  BY <1>2

LEMMA NextAgentInv ==
    ASSUME OrchestratorInv, NEW c \in Callers, NextAgent(c)
    PROVE  OrchestratorInv'
<1>1. BusInv /\ CallInv /\ BusTypeOK /\ RegistryInv /\ \A d \in Callers : PassInv(d)
  BY DEF OrchestratorInv, BusInv
<1>2. at[c] = "between" /\ UNCHANGED <<registry, present>>
  BY DEF NextAgent
<1>3. CASE Changed(c)
  <2>1. /\ Leave(c) /\ UNCHANGED iteration
    BY <1>3 DEF NextAgent, Leave
  <2>2. BusNext /\ CallInv' /\ Raises(c)
    BY <1>1, <2>1, LeaveStep
  <2>3. UNCHANGED results /\ at'[c] = "raised"
    BY <1>1, <2>2 DEF Raises, recordVars, CallInv
  <2>4. RegistryInv' /\ PassInv(c)'
    BY <1>1, <1>2, <2>1, <2>3 DEF RegistryInv, PassInv, Working
  <2>5. \A d \in Callers \ {c} : PassInv(d)'
    BY <1>1, <1>2, <2>1, <2>2, OthersStay
  <2> QED
    BY <1>1, <2>2, <2>4, <2>5, BusStep DEF OrchestratorInv
<1>4. CASE ~Changed(c) /\ Rest(c) = {}
  <2>1. /\ at' = [at EXCEPT ![c] = "returned"]
        /\ UNCHANGED <<busVars, agent, result, success, iteration, recordVars>>
    BY <1>4 DEF NextAgent
  <2>2. BusInv' /\ CallInv' /\ RegistryInv'
    <3>1. BusInv'
      BY <1>1, <2>1, BusStep DEF BusNext
    <3>2. CallInv'
      BY <1>1, <1>2, <2>1 DEF CallInv, Working, busVars, deliveryVars
    <3> QED
      BY <1>1, <1>2, <2>1, <3>1, <3>2 DEF RegistryInv, recordVars
  <2>3. PassInv(c)'
    <3>1. ASSUME NEW a \in present[c], iteration[c].all PROVE OneRun(c, a)
      <4>1. PICK k \in DOMAIN registry : registry[k] = a /\ Visited(c, a, k)
        BY <1>1, <1>2, <3>1 DEF PassInv
      <4>2. ~(k > iteration[c].pos)
        BY <1>1, <1>4, <3>1, <4>1 DEF Rest, RegistryInv
      <4> QED
        BY <1>2, <4>1, <4>2 DEF Visited, Working
    <3>2. \A a : OneRun(c, a)' <=> OneRun(c, a)
      BY <2>1 DEF OneRun, Runs, recordVars
    <3> QED
      BY <1>1, <1>2, <2>1, <3>1, <3>2 DEF PassInv, Working, CallInv
  <2>4. \A d \in Callers \ {c} : PassInv(d)'
    BY <1>1, <1>2, <2>1, PassStays DEF recordVars, CallInv
  <2> QED
    BY <2>2, <2>3, <2>4 DEF OrchestratorInv
<1>5. CASE ~Changed(c) /\ Rest(c) # {}
  <2> DEFINE e == NextEntry(c)
  <2>1. /\ e \in DOMAIN registry /\ e \in Nat /\ e > iteration[c].pos /\ registry[e] # Gone
        /\ \A j \in Rest(c) : e <= j
    <3>1. Rest(c) \subseteq Nat
      BY <1>1 DEF Rest, RegistryInv
    <3>2. e \in Rest(c) /\ \A j \in Rest(c) : e <= j
      BY <1>5, <3>1, LeastOf DEF NextEntry
    <3> QED
      BY <3>1, <3>2 DEF Rest
  <2>2. /\ iteration' = [iteration EXCEPT ![c] =
                           [all |-> @.all, size |-> @.size, pos |-> e, len |-> @.len - 1]]
        /\ Announce(c, "agent_started", registry[e], "none", FALSE)
    BY <1>5 DEF NextAgent
  <2> HIDE DEF e
  <2>3. registry[e] \in Agents
    BY <1>1, <2>1 DEF RegistryInv
  <2>4. BusNext /\ CallInv' /\ GoesOn(c, registry[e])
    <3>1. "agent_started" \in Types /\ "agent_started" # "agent_completed"
      OBVIOUS
    <3> QED
      BY <1>1, <2>2, <2>3, <3>1, AnnounceStep
  <2>5. /\ UNCHANGED results /\ Working(c)' /\ agent'[c] = registry[e]
        /\ at'[c] # "idle" /\ at'[c] # "returned"
    BY <1>1, <2>4 DEF GoesOn, recordVars, CallInv, Working
  <2>6. /\ iteration'[c].pos = e /\ iteration'[c].all = iteration[c].all
        /\ iteration' \in [Callers -> [all : BOOLEAN, size : Nat, pos : Nat, len : Int]]
        /\ \A d \in Callers \ {c} : iteration'[d] = iteration[d]
    BY <1>1, <2>1, <2>2 DEF RegistryInv
  <2>7. RegistryInv'
    BY <1>1, <1>2, <2>5, <2>6 DEF RegistryInv
  <2>8. PassInv(c)'
    <3>1. \A a : (Runs(c, a)' = Runs(c, a)) /\ (OneRun(c, a)' <=> OneRun(c, a))
      BY <2>5 DEF Runs, OneRun
    <3>2. ASSUME NEW a \in Agents, NEW k \in DOMAIN registry, registry[k] = a, Visited(c, a, k)
          PROVE  Visited(c, a, k)'
      <4>1. ~Working(c)
        BY <1>2 DEF Working
      <4>2. k > iteration[c].pos => e <= k
        BY <2>1, <3>2 DEF Rest
      <4>3. k \in Nat /\ e \in Nat /\ iteration[c].pos \in Nat
        BY <1>1, <2>1, <3>2 DEF RegistryInv
      <4>4. registry[k] = registry[e] => k = e
        BY <1>1, <2>1, <3>2 DEF RegistryInv
      <4>5. CASE k = e
        BY <2>1, <2>5, <2>6, <3>1, <3>2, <4>1, <4>3, <4>5 DEF Visited
      <4>6. CASE k # e
        <5>1. a # agent'[c] /\ (k > iteration'[c].pos <=> k > iteration[c].pos)
          BY <2>1, <2>5, <2>6, <3>2, <4>2, <4>3, <4>4, <4>6
        <5> QED
          BY <3>1, <3>2, <4>1, <5>1 DEF Visited
      <4> QED
        BY <4>5, <4>6
    <3>3. present[c] \subseteq Agents
      BY <1>1 DEF RegistryInv
    <3> QED
      BY <1>1, <1>2, <2>5, <2>6, <3>2, <3>3 DEF PassInv
  <2>9. \A d \in Callers \ {c} : PassInv(d)'
    BY <1>1, <1>2, <2>3, <2>4, <2>6, OthersStay
  <2> QED
    BY <1>1, <2>4, <2>7, <2>8, <2>9, BusStep DEF OrchestratorInv
<1> QED
  BY <1>3, <1>4, <1>5

LEMMA SizeType == RegistryInv => Size(registry) \in Nat
<1> SUFFICES ASSUME RegistryInv PROVE Size(registry) \in Nat
  OBVIOUS
<1>1. IsFiniteSet(1..Len(registry)) /\ DOMAIN registry = 1..Len(registry)
  BY FS_Interval DEF RegistryInv
<1>2. {i \in DOMAIN registry : registry[i] # Gone} \subseteq 1..Len(registry)
  BY <1>1
<1> QED
  BY <1>1, <1>2, FS_Subset, FS_CardinalityType DEF Size

LEMMA RunAllInv ==
    ASSUME OrchestratorInv, NEW c \in Callers, RunAll(c)
    PROVE  OrchestratorInv'
<1>1. BusInv /\ CallInv /\ RegistryInv /\ \A d \in Callers : PassInv(d)
  BY DEF OrchestratorInv
<1>2. /\ at[c] = "idle" /\ at' = [at EXCEPT ![c] = "between"]
      /\ iteration' = [iteration EXCEPT ![c] = [all |-> TRUE, size |-> Size(registry),
                                               pos |-> 0, len |-> Size(registry)]]
      /\ present' = [present EXCEPT ![c] = Registered]
      /\ UNCHANGED <<busVars, registry, agent, result, success, recordVars>>
  BY DEF RunAll
<1>3. BusInv' /\ CallInv'
  <2>1. BusInv'
    BY <1>1, <1>2, BusStep DEF BusNext
  <2>2. CallInv'
    BY <1>1, <1>2 DEF CallInv, Working, busVars, deliveryVars
  <2> QED
    BY <2>1, <2>2
<1>4. Registered \subseteq Agents /\ \A a \in Registered : \E k \in DOMAIN registry : registry[k] = a
  BY <1>1 DEF Registered, ToSet, RegistryInv
<1>5. RegistryInv'
  <2>1. Size(registry) \in Nat
    BY <1>1, SizeType
  <2>2. iteration' \in [Callers -> [all : BOOLEAN, size : Nat, pos : Nat, len : Int]]
    BY <1>1, <1>2, <2>1 DEF RegistryInv
  <2>3. present' \in [Callers -> SUBSET Agents]
    BY <1>1, <1>2, <1>4 DEF RegistryInv
  <2> QED
    BY <1>1, <1>2, <2>2, <2>3 DEF RegistryInv, recordVars
<1>6. PassInv(c)'
  <2>1. /\ at'[c] = "between" /\ present'[c] = Registered /\ results'[c] = <<>>
        /\ iteration'[c].pos = 0 /\ registry' = registry
    BY <1>1, <1>2 DEF CallInv, RegistryInv, PassInv, recordVars
  <2>2. \A a : Runs(c, a)' = {}
    BY <2>1 DEF Runs
  <2>3. ASSUME NEW a \in Registered PROVE \E k \in DOMAIN registry : registry[k] = a /\ Visited(c, a, k)'
    <3>1. PICK k \in DOMAIN registry : registry[k] = a
      BY <1>4
    <3>2. k \in Nat /\ k > 0
      BY <1>1 DEF RegistryInv
    <3> QED
      BY <2>1, <2>2, <3>1, <3>2 DEF Visited, Working
  <2> QED
    BY <2>1, <2>3 DEF PassInv
<1>7. \A d \in Callers \ {c} : PassInv(d)'
  BY <1>1, <1>2, PassStays DEF CallInv, RegistryInv, recordVars
<1> QED
  BY <1>3, <1>5, <1>6, <1>7 DEF OrchestratorInv

\* The registry and the subscriptions change, and the metrics are reset.
LEMMA ChangeInv ==
    ASSUME OrchestratorInv, UNCHANGED <<callVars, results>>, BusNext, event' = event,
           /\ registry' \in Seq(Agents \cup {Gone})
           /\ \A i, j \in DOMAIN registry' : registry'[i] = registry'[j] /\ registry'[i] # Gone => i = j,
           present' \in [Callers -> SUBSET Agents],
           \A c \in Callers : present'[c] \subseteq present[c],
           \A c \in Callers : \A a \in present'[c], k \in DOMAIN registry :
             registry[k] = a => k \in DOMAIN registry' /\ registry'[k] = a
    PROVE  OrchestratorInv'
<1>1. BusInv'
  BY BusStep DEF OrchestratorInv
<1>2. CallInv' /\ RegistryInv'
  BY DEF OrchestratorInv, CallInv, Working, RegistryInv, callVars
<1>3. \A c \in Callers : PassInv(c)'
  BY PassStays DEF OrchestratorInv, callVars
<1> QED
  BY <1>1, <1>2, <1>3 DEF OrchestratorInv

LEMMA AddAgentInv ==
    ASSUME OrchestratorInv, NEW a \in Agents, AddAgent(a)
    PROVE  OrchestratorInv'
<1>1. /\ registry' = Append(registry, a) /\ a \notin Registered /\ present' = present
      /\ UNCHANGED <<busVars, callVars, results>>
  BY DEF AddAgent, recordVars
<1>2. /\ registry \in Seq(Agents \cup {Gone}) /\ present \in [Callers -> SUBSET Agents]
      /\ \A i, j \in DOMAIN registry : registry[i] = registry[j] /\ registry[i] # Gone => i = j
  BY DEF OrchestratorInv, RegistryInv
<1>3. /\ DOMAIN registry = 1..Len(registry) /\ DOMAIN registry' = 1..(Len(registry) + 1)
      /\ registry'[Len(registry) + 1] = a /\ Len(registry) \in Nat
      /\ \A i \in 1..Len(registry) : registry'[i] = registry[i]
      /\ registry' \in Seq(Agents \cup {Gone})
  BY <1>1, <1>2
<1>4. \A i \in 1..Len(registry) : registry[i] # a
  BY <1>1, <1>3 DEF Registered, ToSet
<1>5. \A i, j \in DOMAIN registry' : registry'[i] = registry'[j] /\ registry'[i] # Gone => i = j
  <2> SUFFICES ASSUME NEW i \in 1..(Len(registry) + 1), NEW j \in 1..(Len(registry) + 1),
                      registry'[i] = registry'[j], registry'[i] # Gone
               PROVE  i = j
    BY <1>3
  <2>1. CASE i \in 1..Len(registry) /\ j \in 1..Len(registry)
    BY <1>2, <1>3, <2>1
  <2>2. CASE i = Len(registry) + 1 \/ j = Len(registry) + 1
    BY <1>3, <1>4, <2>2
  <2> QED
    BY <1>3, <2>1, <2>2
<1>6. BusNext /\ event' = event
  BY <1>1 DEF BusNext, busVars, deliveryVars
<1>7. \A k \in DOMAIN registry : k \in DOMAIN registry' /\ registry'[k] = registry[k]
  BY <1>3
<1> QED
  BY <1>1, <1>2, <1>3, <1>5, <1>6, <1>7, ChangeInv

LEMMA RemoveAgentInv ==
    ASSUME OrchestratorInv, NEW a \in Agents, RemoveAgent(a)
    PROVE  OrchestratorInv'
<1>1. /\ registry' = [i \in DOMAIN registry |-> IF registry[i] = a THEN Gone ELSE registry[i]]
      /\ present' = [c \in Callers |-> present[c] \ {a}]
      /\ UNCHANGED <<busVars, callVars, results>>
  BY DEF RemoveAgent, recordVars
<1>2. /\ registry \in Seq(Agents \cup {Gone}) /\ present \in [Callers -> SUBSET Agents]
      /\ \A i, j \in DOMAIN registry : registry[i] = registry[j] /\ registry[i] # Gone => i = j
  BY DEF OrchestratorInv, RegistryInv
<1>3. registry' \in Seq(Agents \cup {Gone})
  BY <1>1, <1>2
<1>4. BusNext /\ event' = event
  BY <1>1 DEF BusNext, busVars, deliveryVars
<1>5. /\ \A i, j \in DOMAIN registry' : registry'[i] = registry'[j] /\ registry'[i] # Gone => i = j
      /\ \A b, k : b # a /\ k \in DOMAIN registry /\ registry[k] = b =>
           k \in DOMAIN registry' /\ registry'[k] = b
  BY <1>1, <1>2
<1>6. /\ present' \in [Callers -> SUBSET Agents]
      /\ \A c \in Callers : present'[c] \subseteq present[c] /\ a \notin present'[c]
  BY <1>1, <1>2
<1> QED
  BY <1>1, <1>3, <1>4, <1>5, <1>6, ChangeInv

LEMMA OtherChangesInv ==
    ASSUME OrchestratorInv,
           \/ ClearAgents \/ UNCHANGED vars
           \/ \E S \in SUBSET Agents : Reset(S)
           \/ \E t \in Types, h \in Handlers : Subscription(t, h)
    PROVE  OrchestratorInv'
<1>1. /\ registry \in Seq(Agents \cup {Gone}) /\ present \in [Callers -> SUBSET Agents]
      /\ \A i, j \in DOMAIN registry : registry[i] = registry[j] /\ registry[i] # Gone => i = j
  BY DEF OrchestratorInv, RegistryInv
<1>2. CASE ClearAgents
  <2>1. /\ registry' = <<>> /\ present' = [c \in Callers |-> {}]
        /\ UNCHANGED <<busVars, callVars, results>>
    BY <1>2 DEF ClearAgents, recordVars
  <2>2. BusNext /\ event' = event
    BY <2>1 DEF BusNext, busVars, deliveryVars
  <2>3. registry' \in Seq(Agents \cup {Gone}) /\ DOMAIN registry' = {}
    BY <2>1
  <2> QED
    BY <1>1, <2>1, <2>2, <2>3, ChangeInv
<1>3. CASE \/ UNCHANGED vars \/ \E S \in SUBSET Agents : Reset(S)
           \/ \E t \in Types, h \in Handlers : Subscription(t, h)
  <2>1. UNCHANGED <<registry, present, callVars, results>>
    BY <1>3 DEF Reset, Subscription, recordVars, vars
  <2>2. BusNext /\ event' = event
    BY <1>3 DEF Reset, Subscription, Subscribe, Unsubscribe, BusNext, vars, busVars, deliveryVars
  <2> QED
    BY <1>1, <2>1, <2>2, ChangeInv
<1> QED
  BY <1>2, <1>3

LEMMA InitInv == Init => OrchestratorInv
<1> SUFFICES ASSUME Init PROVE OrchestratorInv
  OBVIOUS
<1>1. BusInv
  BY InitBus DEF Init
<1>2. event = [c \in Callers |-> NoEvent]
  BY DEF Init, BusInit, Callers
<1>3. CallInv
  BY <1>2 DEF Init, CallInv, Working
<1>4. RegistryInv
  <2>1. registry \in Seq(Agents) /\ IsInjective(registry)
    BY DEF Init
  <2>2. registry \in Seq(Agents \cup {Gone})
    BY <2>1
  <2> QED
    BY <2>1, <2>2 DEF Init, RegistryInv, NoIteration, IsInjective
<1>5. \A c \in Callers : PassInv(c)
  BY DEF Init, PassInv, Working, NoIteration
<1> QED
  BY <1>1, <1>3, <1>4, <1>5 DEF OrchestratorInv

LEMMA OrchestratorStep == OrchestratorInv /\ [Next]_vars => OrchestratorInv'
<1> SUFFICES ASSUME OrchestratorInv, [Next]_vars PROVE OrchestratorInv'
  OBVIOUS
<1>1. ASSUME NEW c \in Callers, CallStep(c) \/ Cancelled(c) \/ RunAll(c) PROVE OrchestratorInv'
  BY <1>1, WorkInv, NextAgentInv, RunAllInv DEF CallStep
<1>2. ASSUME NEW c \in Callers, NEW a \in Agents, RunAgent(c, a) PROVE OrchestratorInv'
  BY <1>2, RunAgentInv
<1>3. ASSUME NEW a \in Agents, AddAgent(a) \/ RemoveAgent(a) \/ Reset({a}) PROVE OrchestratorInv'
  BY <1>3, AddAgentInv, RemoveAgentInv, OtherChangesInv
<1>4. ASSUME Reset(Agents) PROVE OrchestratorInv'
  BY <1>4, OtherChangesInv
<1> QED
  BY <1>1, <1>2, <1>3, <1>4, OtherChangesInv DEF Next

THEOREM Invariance == Spec => []OrchestratorInv
<1> QED
  BY InitInv, OrchestratorStep, PTL DEF Spec

\* publish (orchestration/events.py): a handler that is subscribed all the
\* time is called at most once for an event, however the list changes.
THEOREM OnceHeard == Spec => []HeardOnce
<1>1. OrchestratorInv => HeardOnce
  BY DEF OrchestratorInv, BusInv, Delivery, HeardOnce
<1> QED
  BY <1>1, Invariance, PTL

\* publish: no more of the handlers that stay are passed over than handlers
\* left that the event had got to.
THEOREM StayersHear == Spec => WhoStaysHears
<1>1. ASSUME OrchestratorInv, NEW c \in Callers, HandlerEnds(c), event'[c] = NoEvent
      PROVE  Cardinality(steady[c] \ ToSet(heard[c])) <= shifts[c]
  <2>1. event[c] # NoEvent /\ event[c] \in Types /\ c \in Publishers
    BY <1>1 DEF HandlerEnds, OrchestratorInv, CallInv, BusInv, BusTypeOK, Callers
  <2>2. ~More(c)
    BY <1>1, <2>1 DEF HandlerEnds, CallNext
  <2>3. /\ subscribers[event[c]] \in Seq(Handlers) /\ cursor[c] \in Nat /\ Delivery(c)
        /\ Len(subscribers[event[c]]) <= cursor[c]
    BY <1>1, <2>1, <2>2 DEF More, OrchestratorInv, BusInv, BusTypeOK
  <2>4. \A h \in steady[c] : Passed(c, h)
    BY <2>3 DEF Delivery, Subscribed, ToSet, Passed
  <2>5. Skipped(c) = steady[c] \ ToSet(heard[c])
    BY <2>4 DEF Skipped
  <2> QED
    BY <2>3, <2>5 DEF Delivery
<1>2. OrchestratorInv =>
        [\A c \in Callers :
           HandlerEnds(c) /\ event'[c] = NoEvent =>
             Cardinality(steady[c] \ ToSet(heard[c])) <= shifts[c]]_vars
  BY <1>1
<1> QED
  BY <1>2, Invariance, PTL DEF WhoStaysHears

\* run_all (orchestration/orchestrator.py): when it returns, every agent that
\* was registered all the time was run exactly once.
THEOREM AllRunOnce == Spec => []RunsAllOnce
<1>1. ASSUME OrchestratorInv, NEW c \in Callers, at[c] = "returned", iteration[c].all, NEW a \in present[c]
      PROVE  Cardinality({i \in DOMAIN results[c] : results[c][i].agent = a}) = 1
  <2>1. PICK i : Runs(c, a) = {i}
    BY <1>1 DEF OrchestratorInv, PassInv, OneRun
  <2> QED
    BY <2>1, FS_Singleton DEF Runs
<1>2. OrchestratorInv => RunsAllOnce
  BY <1>1 DEF RunsAllOnce
<1> QED
  BY <1>2, Invariance, PTL

---------------------------------------------------------------------------
(* Metrics.                                                                *)

Answers == UNION {{c} \X DOMAIN results[c] : c \in Callers}

Counted(a) == Returned(a) \ forgotten
CountedComplete(a) == {w \in Counted(a) : results[w[1]][w[2]].status = "complete"}

MetricsInv ==
    /\ forgotten \subseteq Answers
    /\ metrics \in [Agents -> [total_runs : Nat, successful_runs : Nat]]
    /\ \A a \in Agents :
         /\ IsFiniteSet(Counted(a))
         /\ metrics[a] = [total_runs |-> Cardinality(Counted(a)),
                          successful_runs |-> Cardinality(CountedComplete(a))]

LEMMA UncountedStep ==
    ASSUME MetricsInv, UNCHANGED <<results, metrics, forgotten>>
    PROVE  MetricsInv'
<1>1. Answers' = Answers /\ \A a : Counted(a)' = Counted(a) /\ CountedComplete(a)' = CountedComplete(a)
  BY DEF Answers, Counted, CountedComplete, Returned
<1> QED
  BY <1>1 DEF MetricsInv

LEMMA AnswerCounted ==
    ASSUME MetricsInv, RegistryInv, NEW c \in Callers, NEW a \in Agents, Answered(c, a),
           UNCHANGED forgotten
    PROVE  MetricsInv'
<1>1. PICK r \in {"complete", "stuck", "error"}, s \in BOOLEAN :
        (s <=> r = "complete") /\ Answer(c, a, r, s)
  BY DEF Answered
<1> DEFINE n == Len(results[c]) + 1
           w == <<c, n>>
<1>2. /\ results[c] \in Seq([agent : Agents, status : {"complete", "stuck", "error"}])
      /\ results' = [results EXCEPT ![c] = Append(@, [agent |-> a, status |-> r])]
      /\ results'[c] = Append(results[c], [agent |-> a, status |-> r])
      /\ \A d \in Callers \ {c} : results'[d] = results[d]
  BY <1>1 DEF Answer, RegistryInv
<1>3. /\ DOMAIN results[c] = 1..(n - 1) /\ n \in Nat /\ DOMAIN results'[c] = 1..n
      /\ results'[c][n] = [agent |-> a, status |-> r]
      /\ \A i \in 1..(n - 1) : results'[c][i] = results[c][i]
  BY <1>2
<1> HIDE DEF n
<1>4. Answers' = Answers \cup {w} /\ w \notin Answers
  BY <1>2, <1>3 DEF Answers
<1>5. \A v \in Answers : results'[v[1]][v[2]] = results[v[1]][v[2]]
  BY <1>2, <1>3 DEF Answers
<1>6. results'[w[1]][w[2]] = [agent |-> a, status |-> r]
  BY <1>3
<1>7. w \notin forgotten /\ \A b : Returned(b) = {v \in Answers : results[v[1]][v[2]].agent = b}
  BY <1>4 DEF MetricsInv, Returned, Answers
<1>8. \A b : Returned(b)' = {v \in Answers' : results'[v[1]][v[2]].agent = b}
  BY DEF Returned, Answers
<1> HIDE DEF w
<1>9. /\ Counted(a)' = Counted(a) \cup {w} /\ w \notin Counted(a)
      /\ \A b \in Agents \ {a} : Counted(b)' = Counted(b)
  BY <1>4, <1>5, <1>6, <1>7, <1>8 DEF Counted
<1>10. /\ CountedComplete(a)' = IF s THEN CountedComplete(a) \cup {w} ELSE CountedComplete(a)
       /\ w \notin CountedComplete(a)
       /\ \A b \in Agents \ {a} : CountedComplete(b)' = CountedComplete(b)
  <2>1. \A b : Counted(b) \subseteq Answers
    BY <1>7 DEF Counted
  <2>2. results'[w[1]][w[2]].status = "complete" <=> s
    BY <1>1, <1>6
  <2> QED
    BY <1>5, <1>9, <2>1, <2>2 DEF CountedComplete
<1>11. /\ IsFiniteSet(Counted(a)) /\ IsFiniteSet(CountedComplete(a))
       /\ Cardinality(Counted(a)) \in Nat /\ Cardinality(CountedComplete(a)) \in Nat
  <2>1. IsFiniteSet(Counted(a)) /\ CountedComplete(a) \subseteq Counted(a)
    BY DEF MetricsInv, CountedComplete
  <2> QED
    BY <2>1, FS_Subset, FS_CardinalityType
<1>12. /\ IsFiniteSet(Counted(a)') /\ Cardinality(Counted(a)') = Cardinality(Counted(a)) + 1
       /\ Cardinality(CountedComplete(a)') = Cardinality(CountedComplete(a)) + IF s THEN 1 ELSE 0
  <2>1. /\ IsFiniteSet(Counted(a) \cup {w})
        /\ Cardinality(Counted(a) \cup {w}) = Cardinality(Counted(a)) + 1
    BY <1>9, <1>11, FS_AddElement
  <2>2. Cardinality(CountedComplete(a) \cup {w}) = Cardinality(CountedComplete(a)) + 1
    BY <1>10, <1>11, FS_AddElement
  <2> QED
    BY <1>9, <1>10, <1>11, <2>1, <2>2
<1>13. metrics' = [metrics EXCEPT ![a] =
                     [total_runs |-> @.total_runs + 1,
                      successful_runs |-> @.successful_runs + IF s THEN 1 ELSE 0]]
  BY <1>1 DEF Answer
<1>14. forgotten' \subseteq Answers'
  BY <1>4 DEF MetricsInv
<1>15. metrics'[a] = [total_runs |-> Cardinality(Counted(a)'),
                      successful_runs |-> Cardinality(CountedComplete(a)')]
  BY <1>12, <1>13 DEF MetricsInv
<1>16. metrics' \in [Agents -> [total_runs : Nat, successful_runs : Nat]]
  BY <1>13 DEF MetricsInv
<1>17. ASSUME NEW b \in Agents \ {a}
       PROVE  /\ IsFiniteSet(Counted(b)')
              /\ metrics'[b] = [total_runs |-> Cardinality(Counted(b)'),
                                successful_runs |-> Cardinality(CountedComplete(b)')]
  BY <1>9, <1>10, <1>13 DEF MetricsInv
<1> QED
  BY <1>12, <1>14, <1>15, <1>16, <1>17 DEF MetricsInv

LEMMA ResetCounted ==
    ASSUME MetricsInv, NEW S \in SUBSET Agents, Reset(S)
    PROVE  MetricsInv'
<1>1. /\ metrics' = [a \in Agents |-> IF a \in S THEN NoRuns ELSE metrics[a]]
      /\ forgotten' = forgotten \cup UNION {Returned(a) : a \in S} /\ results' = results
  BY DEF Reset
<1>2. \A a : Returned(a)' = Returned(a) /\ Returned(a) = {v \in Answers : results[v[1]][v[2]].agent = a}
  BY <1>1 DEF Returned, Answers
<1>3. forgotten' \subseteq Answers'
  BY <1>1, <1>2 DEF MetricsInv, Answers
<1>4. metrics' \in [Agents -> [total_runs : Nat, successful_runs : Nat]]
  BY <1>1 DEF MetricsInv, NoRuns
<1>5. ASSUME NEW a \in S
      PROVE  /\ IsFiniteSet(Counted(a)')
             /\ metrics'[a] = [total_runs |-> Cardinality(Counted(a)'),
                               successful_runs |-> Cardinality(CountedComplete(a)')]
  <2>1. Counted(a)' = {}
    BY <1>1, <1>2 DEF Counted
  <2>2. CountedComplete(a)' = {}
    BY <2>1 DEF CountedComplete
  <2>3. metrics'[a] = NoRuns
    BY <1>1
  <2> QED
    BY <2>1, <2>2, <2>3, FS_EmptySet DEF NoRuns
<1>6. ASSUME NEW a \in Agents \ S
      PROVE  /\ IsFiniteSet(Counted(a)')
             /\ metrics'[a] = [total_runs |-> Cardinality(Counted(a)'),
                               successful_runs |-> Cardinality(CountedComplete(a)')]
  <2>1. Counted(a)' = Counted(a)
    BY <1>1, <1>2 DEF Counted
  <2>2. CountedComplete(a)' = CountedComplete(a)
    BY <1>1, <2>1 DEF CountedComplete
  <2> QED
    BY <1>1, <2>1, <2>2 DEF MetricsInv
<1> QED
  BY <1>3, <1>4, <1>5, <1>6 DEF MetricsInv

LEMMA MetricsStep == OrchestratorInv /\ MetricsInv /\ [Next]_vars => MetricsInv'
<1> SUFFICES ASSUME OrchestratorInv, MetricsInv, [Next]_vars PROVE MetricsInv'
  OBVIOUS
<1>1. BusInv /\ CallInv /\ BusTypeOK /\ RegistryInv
  BY DEF OrchestratorInv, BusInv
<1>2. ASSUME NEW c \in Callers, NEW a \in Agents, UNCHANGED forgotten,
             GoesOn(c, a) \/ IsDone(c, a) \/ Raises(c)
      PROVE  MetricsInv'
  BY <1>1, <1>2, AnswerCounted, UncountedStep DEF GoesOn, IsDone, Raises, recordVars
<1>3. ASSUME NEW c \in Callers,
             \/ AgentReturns(c) \/ AgentRaises(c)
             \/ HandlerEnds(c) \/ HandlerRaises(c) \/ Cancelled(c)
      PROVE  MetricsInv'
  BY <1>1, <1>2, <1>3, WorkStep
<1>4. ASSUME NEW c \in Callers, NextAgent(c) PROVE MetricsInv'
  <2>1. UNCHANGED <<results, metrics, forgotten>>
    <3>1. ASSUME NEW a, Announce(c, "agent_started", a, "none", FALSE) PROVE UNCHANGED recordVars
      BY <3>1 DEF Announce, Proceed
    <3> QED
      BY <1>4, <3>1 DEF NextAgent, Leave, recordVars
  <2> QED
    BY <2>1, UncountedStep
<1>5. ASSUME NEW c \in Callers, RunAll(c) \/ \E a \in Agents : RunAgent(c, a) PROVE MetricsInv'
  <2>1. UNCHANGED <<results, metrics, forgotten>>
    BY <1>5 DEF RunAll, RunAgent, Announce, Proceed, recordVars
  <2> QED
    BY <2>1, UncountedStep
<1>6. ASSUME NEW a \in Agents, AddAgent(a) \/ RemoveAgent(a) PROVE MetricsInv'
  BY <1>6, UncountedStep DEF AddAgent, RemoveAgent, recordVars
<1>7. ASSUME NEW t \in Types, NEW h \in Handlers, Subscription(t, h) PROVE MetricsInv'
  BY <1>7, UncountedStep DEF Subscription, recordVars
<1>8. ASSUME ClearAgents \/ UNCHANGED vars PROVE MetricsInv'
  BY <1>8, UncountedStep DEF ClearAgents, recordVars, vars
<1>9. ASSUME NEW a \in Agents, Reset({a}) PROVE MetricsInv'
  BY <1>9, ResetCounted
<1>10. ASSUME Reset(Agents) PROVE MetricsInv'
  BY <1>10, ResetCounted
<1> QED
  BY <1>3, <1>4, <1>5, <1>6, <1>7, <1>8, <1>9, <1>10 DEF Next, CallStep

LEMMA MetricsInvariance == Spec => []MetricsInv
<1>1. Init => MetricsInv
  <2> SUFFICES ASSUME Init PROVE MetricsInv
    OBVIOUS
  <2>1. Answers = {} /\ forgotten = {} /\ metrics = [a \in Agents |-> NoRuns]
    BY DEF Init, Answers
  <2>2. \A a : Counted(a) = {} /\ CountedComplete(a) = {}
    BY <2>1 DEF Counted, CountedComplete, Returned, Answers
  <2> QED
    BY <2>1, <2>2, FS_EmptySet DEF MetricsInv, NoRuns
<1> QED
  BY <1>1, MetricsStep, Invariance, PTL DEF Spec

\* record_run (orchestration/metrics.py) behind run_agent: the metrics of an
\* agent count what callers were given, and as successes what says COMPLETE.
THEOREM MetricsMatch == Spec => []MetricsMatchAnswers
<1>1. MetricsInv => MetricsMatchAnswers
  BY DEF MetricsInv, MetricsMatchAnswers, Counted, CountedComplete
<1> QED
  BY <1>1, MetricsInvariance, PTL

\* Every variable of the bus and the orchestrator keeps its type, and a caller
\* is publishing exactly while the bus has an event of it.
THEOREM TypeCorrect == Spec => []TypeOK
<1>1. OrchestratorInv /\ MetricsInv => TypeOK
  BY DEF OrchestratorInv, BusInv, CallInv, RegistryInv, MetricsInv, TypeOK
<1> QED
  BY <1>1, Invariance, MetricsInvariance, PTL
=============================================================================
