---------------------------- MODULE CapacityProofs ----------------------------
(*****************************************************************************)
(* The safety of Capacity, for every number of requests, every limit and     *)
(* every queue.                                                              *)
(*                                                                           *)
(* The invariant that is inductive, IInv, adds to the checked ones what they *)
(* rest on: the semaphore's queue holds each suspended request exactly once, *)
(* and a request is asked to stop only while it is suspended.  The one fact  *)
(* that is about data and not about steps is WokenCount: the n oldest        *)
(* pending waiters are n in number, or all of them.                          *)
(*****************************************************************************)
EXTENDS Capacity, FiniteSetTheorems, SequenceTheorems, WellFoundedInduction, TLAPS

\* The semaphore's queue holds every suspended request, once.
QueueInv ==
  /\ \A i, j \in 1..Len(waiters) : waiters[i] = waiters[j] => i = j
  /\ \A r \in Requests : Waits(r) <=> \E i \in 1..Len(waiters) : waiters[i] = r

\* A request is asked to stop only while suspended; a pending one has not been.
CauseInv ==
  \A r \in Requests :
    /\ future[r] \in {"none", "pending"} => cause[r] = {}
    /\ future[r] = "cancelled" => cause[r] # {}

IInv ==
  /\ TypeOK
  /\ QueueInv
  /\ CauseInv
  /\ PermitsConserved
  /\ NoLostWakeup
  /\ QueueExact
-------------------------------------------------------------------------------
\* A set of natural numbers has a least element.
LEMMA LeastNatural ==
  ASSUME NEW S, S \subseteq Nat, S # {}
  PROVE  \E m \in S : \A n \in S : m <= n
<1>1. IsWellFoundedOn(OpToRel(<, Nat), Nat)
  BY NatLessThanWellFounded
<1>2. PICK m \in S : \A n \in S : ~(<<n, m>> \in OpToRel(<, Nat))
  BY <1>1, WFMin
<1>3. \A n \in S : ~(n < m)
  BY <1>2 DEF OpToRel
<1> QED
  BY <1>3

\* Sets of requests are finite, and so countable.
LEMMA RequestSets ==
  ASSUME NEW S, S \subseteq Requests
  PROVE  /\ IsFiniteSet(S)
         /\ Cardinality(S) \in Nat
  BY RequestsAssumption, FS_Subset, FS_CardinalityType

\* The set of requests ahead of another, and of those a release wakes.
LEMMA WaiterSets ==
  ASSUME NEW n \in Nat
  PROVE  /\ Pending \subseteq Requests
         /\ Granted \subseteq Requests
         /\ Woken(n) \subseteq Pending
         /\ \A r : Ahead(r) \subseteq Pending
  BY DEF Pending, Granted, Woken, Ahead

\* Among any suspended requests there is an oldest one.
LEMMA Oldest ==
  ASSUME TypeOK, QueueInv, NEW S, S # {}, S \subseteq Pending
  PROVE  \E q \in S : \A p \in S : ~Before(p, q)
<1> DEFINE I == {i \in 1..Len(waiters) : waiters[i] \in S}
<1>1. \A p \in S : \E i \in I : waiters[i] = p
  BY DEF QueueInv, Waits, Pending
<1>2. I # {} /\ I \subseteq Nat
  BY <1>1
<1>3. PICK m \in I : \A n \in I : m <= n
  BY <1>2, LeastNatural
<1>4. ASSUME NEW p \in S, Before(p, waiters[m]) PROVE FALSE
  <2>1. PICK i, j \in 1..Len(waiters) :
          i < j /\ waiters[i] = p /\ waiters[j] = waiters[m]
    BY <1>4 DEF Before
  <2>2. j = m /\ i \in I
    BY <2>1 DEF QueueInv
  <2> QED
    BY <1>3, <2>1, <2>2
<1> QED
  BY <1>3, <1>4

\* ... and a newest one.
LEMMA Newest ==
  ASSUME TypeOK, QueueInv, NEW S, S # {}, S \subseteq Pending
  PROVE  \E q \in S : \A p \in S \ {q} : Before(p, q)
<1> DEFINE I == {i \in 1..Len(waiters) : waiters[i] \in S}
           J == {k \in Nat : \E i \in I : k + i = Len(waiters)}
<1>0. Len(waiters) \in Nat
  BY DEF TypeOK
<1>1. \A p \in S : \E i \in I : waiters[i] = p
  BY DEF QueueInv, Waits, Pending
<1>2. PICK i0 \in I : TRUE
  BY <1>1
<1>3. \A i \in I : Len(waiters) - i \in J
  BY <1>0
<1>4. J # {} /\ J \subseteq Nat
  BY <1>2, <1>3
<1>5. PICK k \in J : \A l \in J : k <= l
  BY <1>4, LeastNatural
<1>6. PICK m \in I : k + m = Len(waiters)
  BY <1>5
<1>7. ASSUME NEW i \in I PROVE i <= m
  <2>1. k \in Nat /\ i \in Nat /\ m \in Nat
    BY <1>4
  <2>2. k <= Len(waiters) - i
    BY <1>3, <1>5
  <2> HIDE DEF I, J
  <2> QED
    BY <1>0, <1>6, <2>1, <2>2
<1>8. ASSUME NEW p \in S \ {waiters[m]} PROVE Before(p, waiters[m])
  <2>1. PICK i \in I : waiters[i] = p
    BY <1>1
  <2>2. i < m
    BY <2>1, <1>7
  <2> QED
    BY <2>1, <2>2 DEF Before
<1> QED
  BY <1>6, <1>8

\* n calls of _wake_up_next wake n waiters, or all that are pending.
LEMMA WokenCount ==
  ASSUME TypeOK, QueueInv, NEW n \in Nat
  PROVE  /\ Cardinality(Woken(n)) \in 0..n
         /\ Woken(n) = Pending \/ Cardinality(Woken(n)) = n
<1> DEFINE W == Woken(n)
<1>1. /\ W \subseteq Pending /\ Pending \subseteq Requests
      /\ \A r : Ahead(r) \subseteq Requests
  BY WaiterSets
<1>2. IsFiniteSet(W) /\ Cardinality(W) \in Nat
  BY <1>1, RequestSets
<1>3. \A r : IsFiniteSet(Ahead(r)) /\ Cardinality(Ahead(r)) \in Nat
  BY <1>1, RequestSets
<1>4. Cardinality(W) <= n
  <2>1. CASE W = {}
    BY <2>1, FS_EmptySet
  <2>2. CASE W # {}
    <3>1. PICK q \in W : \A p \in W \ {q} : Before(p, q)
      BY <2>2, <1>1, Newest
    <3>2. W \ {q} \subseteq Ahead(q)
      BY <1>1, <3>1 DEF Ahead
    <3>3. Cardinality(W \ {q}) <= Cardinality(Ahead(q))
      BY <3>2, <1>3, FS_Subset
    <3>4. Cardinality(W \ {q}) = Cardinality(W) - 1
      BY <1>2, <3>1, FS_RemoveElement
    <3>5. Cardinality(Ahead(q)) < n
      BY <3>1 DEF Woken
    <3> QED
      BY <1>2, <1>3, <3>3, <3>4, <3>5
  <2> QED
    BY <2>1, <2>2
<1>5. CASE W # Pending
  <2>1. PICK q \in Pending \ W : \A p \in Pending \ W : ~Before(p, q)
    BY <1>1, <1>5, Oldest
  <2>2. Ahead(q) \subseteq W
    BY <2>1 DEF Ahead
  <2>3. ~(Cardinality(Ahead(q)) < n)
    BY <2>1 DEF Woken
  <2>4. Cardinality(Ahead(q)) <= Cardinality(W)
    BY <2>2, <1>2, FS_Subset
  <2> QED
    BY <1>2, <1>3, <1>4, <2>3, <2>4
<1> QED
  BY <1>2, <1>4, <1>5
-------------------------------------------------------------------------------
\* What taking an element out of a sequence leaves.
LEMMA RemoveFirstOf ==
  ASSUME NEW S, NEW s \in Seq(S), NEW k \in 1..Len(s),
         \A i \in 1..Len(s) : s[i] = s[k] => i = k
  PROVE  /\ RemoveFirst(s, s[k]) \in Seq(S)
         /\ Len(RemoveFirst(s, s[k])) = Len(s) - 1
         /\ \A i \in 1..Len(s) - 1 :
              RemoveFirst(s, s[k])[i] = IF i < k THEN s[i] ELSE s[i + 1]
<1> DEFINE a == SubSeq(s, 1, k - 1)
           b == SubSeq(s, k + 1, Len(s))
           I == {i \in 1..Len(s) : s[i] = s[k]}
<1>1. I = {k}
  OBVIOUS
<1>2. Min(I) = k
  BY <1>1 DEF Min
<1>3. SelectInSeq(s, LAMBDA v : v = s[k]) = k
  BY <1>1, <1>2 DEF SelectInSeq
<1>4. RemoveFirst(s, s[k]) = a \o b
  BY <1>3 DEF RemoveFirst, RemoveAt
<1>5. /\ a \in Seq(S) /\ Len(a) = k - 1
      /\ \A i \in 1..k - 1 : a[i] = s[i]
  BY SubSeqProperties
<1>6. /\ b \in Seq(S) /\ Len(b) = Len(s) - k
      /\ \A i \in 1..Len(s) - k : b[i] = s[i + k]
  BY SubSeqProperties
<1>7. /\ a \o b \in Seq(S)
      /\ Len(a \o b) = Len(s) - 1
      /\ \A i \in 1..Len(s) - 1 : (a \o b)[i] = IF i < k THEN s[i] ELSE s[i + 1]
  <2> HIDE DEF a, b
  <2>1. /\ a \o b \in Seq(S) /\ Len(a \o b) = Len(a) + Len(b)
        /\ \A i \in 1..Len(a) + Len(b) :
             (a \o b)[i] = IF i <= Len(a) THEN a[i] ELSE b[i - Len(a)]
    BY <1>5, <1>6, ConcatProperties
  <2>2. Len(s) \in Nat
    OBVIOUS
  <2>3. ASSUME NEW i \in 1..Len(s) - 1
        PROVE  (a \o b)[i] = IF i < k THEN s[i] ELSE s[i + 1]
    <3>0. i \in Int /\ k \in Int
      BY <2>2
    <3>1. CASE i < k
      BY <1>5, <1>6, <2>1, <2>2, <3>1
    <3>2. CASE ~(i < k)
      <4>1. i - (k - 1) \in 1..Len(s) - k /\ i - (k - 1) + k = i + 1
        BY <2>2, <3>0, <3>2
      <4>2. (a \o b)[i] = b[i - (k - 1)]
        BY <1>5, <1>6, <2>1, <2>2, <3>0, <3>2
      <4>3. b[i - (k - 1)] = s[i + 1]
        BY <1>6, <4>1
      <4> QED
        BY <3>2, <4>2, <4>3
    <3> QED
      BY <3>1, <3>2
  <2> QED
    BY <1>5, <1>6, <2>1, <2>2, <2>3
<1> QED
  BY <1>4, <1>7

\* A task that is no longer pending leaves the queue and hands on `free` permits.
LEMMA LeaveQueueStep ==
  ASSUME IInv, NEW r \in Requests, NEW free \in 0..Limit,
         Waits(r), future[r] # "pending", LeaveQueue(r, free), Uncount(r)
  PROVE  /\ waiters' \in Seq(Requests)
         /\ future' \in [Requests -> FutureState]
         /\ cause' \in [Requests -> SUBSET Cause]
         /\ value' \in 0..free
         /\ value' + Cardinality(Granted') = free + Cardinality(Granted \ {r})
         /\ QueueInv'
         /\ CauseInv'
         /\ NoLostWakeup'
         /\ QueueExact'
         /\ \A q \in Requests : Waits(q)' <=> Waits(q) /\ q # r
<1> DEFINE W == Woken(free)
<1>0. free \in Nat /\ Limit \in Nat
  BY LimitAssumption
<1>1. TypeOK /\ QueueInv /\ CauseInv /\ QueueExact
  BY DEF IInv
<1>2. /\ W \subseteq Pending /\ Pending \subseteq Requests
      /\ Granted \subseteq Requests
  BY <1>0, WaiterSets
<1>3. Cardinality(W) \in 0..free /\ (W = Pending \/ Cardinality(W) = free)
  BY <1>0, <1>1, WokenCount
<1>4. value' = free - Cardinality(W)
  BY DEF LeaveQueue
<1>5. future' = [q \in Requests |-> IF q = r THEN "none"
                                   ELSE IF q \in W THEN "granted" ELSE future[q]]
  BY DEF LeaveQueue
<1>6. cause' = [cause EXCEPT ![r] = {}]
  BY DEF LeaveQueue
<1>7. r \notin W
  BY <1>2 DEF Pending
<1>8. future' \in [Requests -> FutureState] /\ cause' \in [Requests -> SUBSET Cause]
  BY <1>1, <1>5, <1>6 DEF TypeOK, FutureState
<1>9. \A q \in Requests : Waits(q)' <=> Waits(q) /\ q # r
  BY <1>2, <1>5 DEF Waits, Pending
<1>10. Pending' = Pending \ W /\ Granted' = (Granted \ {r}) \union W
  BY <1>2, <1>5 DEF Pending, Granted
<1>11. value' + Cardinality(Granted') = free + Cardinality(Granted \ {r})
  <2>1. (Granted \ {r}) \intersect W = {}
    BY <1>2 DEF Granted, Pending
  <2>2. IsFiniteSet(Granted \ {r}) /\ IsFiniteSet(W)
    BY <1>2, RequestSets
  <2>3. Cardinality((Granted \ {r}) \union W)
          = Cardinality(Granted \ {r}) + Cardinality(W) - Cardinality({})
    BY <2>1, <2>2, FS_Union
  <2>4. Cardinality(Granted \ {r}) \in Nat
    BY <2>2, FS_CardinalityType
  <2> QED
    BY <1>0, <1>3, <1>4, <1>10, <2>3, <2>4, FS_EmptySet
<1>12. NoLostWakeup'
  <2>1. ASSUME value' > 0 PROVE Pending' = {}
    BY <1>0, <1>3, <1>4, <1>10, <2>1
  <2> QED
    BY <2>1 DEF NoLostWakeup
<1>13. CauseInv'
  BY <1>1, <1>2, <1>5, <1>6 DEF CauseInv, TypeOK, Pending
<1>14. PICK k \in 1..Len(waiters) : waiters[k] = r
  BY <1>1 DEF QueueInv
<1>15. /\ waiters' \in Seq(Requests)
       /\ Len(waiters') = Len(waiters) - 1
       /\ \A i \in 1..Len(waiters) - 1 :
            waiters'[i] = IF i < k THEN waiters[i] ELSE waiters[i + 1]
  <2>1. waiters \in Seq(Requests) /\ waiters' = RemoveFirst(waiters, waiters[k])
    BY <1>1, <1>14 DEF TypeOK, LeaveQueue
  <2>2. \A i \in 1..Len(waiters) : waiters[i] = waiters[k] => i = k
    BY <1>1 DEF QueueInv
  <2> QED
    BY <2>1, <2>2, RemoveFirstOf
<1>16. Len(waiters) \in Nat
  BY <1>1 DEF TypeOK
<1>17. QueueInv'
  <2>1. ASSUME NEW i \in 1..Len(waiters'), NEW j \in 1..Len(waiters'),
               waiters'[i] = waiters'[j]
        PROVE  i = j
    <3> DEFINE at(n) == IF n < k THEN n ELSE n + 1
    <3>1. /\ at(i) \in 1..Len(waiters) /\ waiters'[i] = waiters[at(i)]
          /\ at(j) \in 1..Len(waiters) /\ waiters'[j] = waiters[at(j)]
      BY <1>15, <1>16
    <3>2. at(i) = at(j)
      BY <1>1, <2>1, <3>1 DEF QueueInv
    <3> QED
      BY <1>15, <1>16, <3>2
  <2>2. ASSUME NEW q \in Requests
        PROVE  Waits(q)' <=> \E i \in 1..Len(waiters') : waiters'[i] = q
    <3>1. ASSUME NEW i \in 1..Len(waiters'), waiters'[i] = q PROVE Waits(q)'
      <4>1. PICK j \in 1..Len(waiters) : waiters[j] = q /\ j # k
        BY <1>15, <1>16, <3>1
      <4>2. Waits(q) /\ q # r
        BY <1>1, <1>14, <4>1 DEF QueueInv
      <4> QED
        BY <1>9, <4>2
    <3>2. ASSUME Waits(q)' PROVE \E i \in 1..Len(waiters') : waiters'[i] = q
      <4>1. PICK j \in 1..Len(waiters) : waiters[j] = q /\ j # k
        BY <1>1, <1>9, <1>14, <3>2 DEF QueueInv
      <4>2. CASE j < k
        BY <1>15, <1>16, <4>1, <4>2
      <4>3. CASE j > k
        <5>1. j - 1 \in 1..Len(waiters') /\ waiters'[j - 1] = waiters[j - 1 + 1]
          BY <1>15, <1>16, <4>3
        <5> QED
          BY <4>1, <5>1
      <4> QED
        BY <4>1, <4>2, <4>3
    <3> QED
      BY <3>1, <3>2
  <2> QED
    BY <2>1, <2>2 DEF QueueInv
<1>18. QueueExact'
  <2>1. r \in counted
    BY <1>1 DEF QueueExact
  <2>2. waiting' = waiting - 1 /\ counted' = counted \ {r}
    BY <2>1 DEF Uncount
  <2>3. waiting' = Len(waiters') /\ waiting' <= MaxQueue
    BY <1>1, <1>15, <1>16, <2>2, MaxQueueAssumption DEF QueueExact
  <2>4. counted' = {q \in Requests : Waits(q)'}
    BY <1>1, <1>9, <2>2 DEF QueueExact
  <2> QED
    BY <2>3, <2>4 DEF QueueExact
<1> QED
  BY <1>0, <1>3, <1>4, <1>8, <1>9, <1>11, <1>12, <1>13, <1>15, <1>17, <1>18
-------------------------------------------------------------------------------
LEMMA InitInv == Init => IInv
<1> SUFFICES ASSUME Init PROVE IInv
  OBVIOUS
<1>1. Granted = {} /\ Pending = {} /\ \A r \in Requests : ~Waits(r)
  BY DEF Init, Granted, Pending, Waits
<1>2. Cardinality({}) = 0
  BY FS_EmptySet
<1>3. TypeOK
  BY LimitAssumption DEF Init, TypeOK, FutureState
<1>4. QueueInv
  BY <1>1 DEF Init, QueueInv
<1>5. CauseInv
  BY DEF Init, CauseInv
<1>6. PermitsConserved
  BY <1>1, <1>2, LimitAssumption DEF Init, PermitsConserved
<1>7. NoLostWakeup
  BY <1>1 DEF NoLostWakeup
<1>8. QueueExact
  BY <1>1, MaxQueueAssumption DEF Init, QueueExact
<1> QED
  BY <1>3, <1>4, <1>5, <1>6, <1>7, <1>8 DEF IInv

\* acquire without a suspension.
LEMMA EnterInv ==
  ASSUME IInv, NEW r \in Requests, Enter(r)
  PROVE  IInv'
<1> USE DEF IInv
<1>1. /\ value' = value - 1 /\ active' = active + 1 /\ leases' = leases \union {r}
      /\ UNCHANGED <<waiting, waiters, future, counted, cause>>
      /\ r \notin leases /\ ~Waits(r)
  BY DEF Enter, Outside
<1>2. value > 0 /\ Pending = {}
  BY DEF Enter, Locked, TypeOK
<1>3. Pending' = Pending /\ Granted' = Granted /\ \A q \in Requests : Waits(q)' <=> Waits(q)
  BY <1>1 DEF Pending, Granted, Waits
<1>4. /\ IsFiniteSet(leases) /\ Cardinality(leases) \in Nat
      /\ Cardinality(Granted) \in Nat
  BY RequestSets, WaiterSets DEF TypeOK
<1>5. Cardinality(leases') = Cardinality(leases) + 1
  BY <1>1, <1>4, FS_AddElement
<1>6. TypeOK'
  BY <1>1, <1>2, <1>4, LimitAssumption DEF TypeOK, PermitsConserved
<1>7. PermitsConserved'
  BY <1>1, <1>3, <1>4, <1>5, LimitAssumption DEF PermitsConserved, TypeOK
<1>8. QueueInv' /\ CauseInv'
  BY <1>1, <1>3 DEF QueueInv, CauseInv
<1>9. NoLostWakeup' /\ QueueExact'
  BY <1>1, <1>2, <1>3 DEF NoLostWakeup, QueueExact
<1> QED
  BY <1>6, <1>7, <1>8, <1>9

\* A request that finds the semaphore locked is always counted as waiting.
LEMMA LockedIsQueued ==
  ASSUME IInv, Locked
  PROVE  Queued
<1> USE DEF IInv
<1>1. ASSUME NEW r \in Requests, Waits(r) PROVE waiting > 0
  BY <1>1 DEF QueueInv, QueueExact, TypeOK
<1>2. CASE Pending \union Granted # {}
  BY <1>1, <1>2 DEF Pending, Granted, Waits, Queued
<1>3. CASE value = 0 /\ Granted = {}
  <2>1. active = Limit
    BY <1>3, FS_EmptySet, LimitAssumption DEF PermitsConserved, TypeOK
  <2> QED
    BY <2>1, LimitAssumption DEF Queued
<1> QED
  BY <1>2, <1>3 DEF Locked

\* acquire suspends.
LEMMA EnqueueInv ==
  ASSUME IInv, NEW r \in Requests, Enqueue(r)
  PROVE  IInv'
<1> USE DEF IInv
<1>1. Queued
  BY LockedIsQueued DEF Enqueue
<1>2. /\ waiters' = Append(waiters, r)
      /\ future' = [future EXCEPT ![r] = "pending"]
      /\ waiting' = waiting + 1 /\ counted' = counted \union {r}
      /\ UNCHANGED <<active, value, cause, leases>>
      /\ r \notin leases /\ future[r] = "none"
  BY <1>1 DEF Enqueue, Outside, Waits
<1>3. waiting < MaxQueue
  BY <1>1, MaxQueueAssumption DEF Enqueue, Full, TypeOK
<1>4. Pending' = Pending \union {r} /\ Granted' = Granted
  BY <1>2 DEF Pending, Granted, TypeOK
<1>5. \A q \in Requests : Waits(q)' <=> Waits(q) \/ q = r
  BY <1>2 DEF Waits, TypeOK
<1>6. /\ waiters' \in Seq(Requests) /\ Len(waiters') = Len(waiters) + 1
      /\ Len(waiters) \in Nat
      /\ \A i \in 1..Len(waiters) : waiters'[i] = waiters[i]
      /\ waiters'[Len(waiters) + 1] = r
  BY <1>2 DEF TypeOK
<1>7. TypeOK'
  BY <1>2, <1>6 DEF TypeOK, FutureState
<1>8. \A i \in 1..Len(waiters) : waiters[i] # r
  BY <1>2 DEF QueueInv, Waits
<1>9. QueueInv'
  <2>1. ASSUME NEW i \in 1..Len(waiters'), NEW j \in 1..Len(waiters'),
               waiters'[i] = waiters'[j]
        PROVE  i = j
    BY <1>6, <1>8, <2>1 DEF QueueInv
  <2>2. ASSUME NEW q \in Requests
        PROVE  Waits(q)' <=> \E i \in 1..Len(waiters') : waiters'[i] = q
    <3>1. CASE q = r
      BY <1>5, <1>6, <3>1
    <3>2. CASE q # r
      BY <1>5, <1>6, <3>2 DEF QueueInv
    <3> QED
      BY <3>1, <3>2
  <2> QED
    BY <2>1, <2>2 DEF QueueInv
<1>10. CauseInv'
  BY <1>2 DEF CauseInv, TypeOK
<1>11. PermitsConserved'
  BY <1>2, <1>4, <1>5 DEF PermitsConserved, TypeOK
<1>12. NoLostWakeup'
  BY <1>2, <1>4 DEF NoLostWakeup, Enqueue, Locked, TypeOK
<1>13. QueueExact'
  BY <1>2, <1>3, <1>5, <1>6, MaxQueueAssumption DEF QueueExact
<1> QED
  BY <1>7, <1>9, <1>10, <1>11, <1>12, <1>13

\* A timeout or a cancellation reaches a suspended request.
LEMMA InterruptInv ==
  ASSUME IInv, NEW r \in Requests, NEW c \in Cause, Interrupt(r, c)
  PROVE  IInv'
<1> USE DEF IInv
<1>1. /\ cause' = [cause EXCEPT ![r] = @ \union {c}]
      /\ future' = [future EXCEPT ![r] = IF @ = "pending" THEN "cancelled" ELSE @]
      /\ UNCHANGED <<active, waiting, value, waiters, counted, leases>>
      /\ future[r] # "none"
  BY DEF Interrupt, Waits
<1>2. Pending' = Pending \ {r} /\ Granted' = Granted
  BY <1>1 DEF Pending, Granted, TypeOK
<1>3. \A q \in Requests : Waits(q)' <=> Waits(q)
  BY <1>1 DEF Waits, TypeOK
<1>4. TypeOK'
  BY <1>1 DEF TypeOK, FutureState
<1>5. CauseInv'
  BY <1>1 DEF CauseInv, TypeOK
<1>6. QueueInv' /\ PermitsConserved' /\ QueueExact'
  BY <1>1, <1>2, <1>3 DEF QueueInv, PermitsConserved, QueueExact, TypeOK
<1>7. NoLostWakeup'
  BY <1>1, <1>2 DEF NoLostWakeup
<1> QED
  BY <1>4, <1>5, <1>6, <1>7

\* A suspended request comes back with its permit.
LEMMA ResumeInv ==
  ASSUME IInv, NEW r \in Requests, Resume(r)
  PROVE  IInv'
<1>1. /\ TypeOK /\ PermitsConserved /\ Waits(r) /\ future[r] = "granted"
      /\ LeaveQueue(r, value) /\ Uncount(r)
      /\ active' = active + 1 /\ leases' = leases \union {r}
  BY DEF IInv, Resume, Waits
<1>2. value \in 0..Limit /\ active \in 0..Limit /\ Limit \in Nat
  BY <1>1, LimitAssumption DEF TypeOK
<1>3. /\ waiters' \in Seq(Requests) /\ future' \in [Requests -> FutureState]
      /\ cause' \in [Requests -> SUBSET Cause] /\ value' \in 0..value
      /\ value' + Cardinality(Granted') = value + Cardinality(Granted \ {r})
      /\ QueueInv' /\ CauseInv' /\ NoLostWakeup' /\ QueueExact'
      /\ \A q \in Requests : Waits(q)' <=> Waits(q) /\ q # r
  BY <1>1, <1>2, LeaveQueueStep
<1>4. /\ IsFiniteSet(leases) /\ Cardinality(leases) \in Nat
      /\ IsFiniteSet(Granted) /\ Cardinality(Granted) \in Nat
      /\ Granted' \subseteq Requests /\ Cardinality(Granted') \in Nat
  BY <1>1, RequestSets, WaiterSets DEF TypeOK, Granted
<1>5. r \in Granted /\ r \notin leases
  BY <1>1 DEF Granted, PermitsConserved
<1>6. Cardinality(leases') = Cardinality(leases) + 1
  BY <1>1, <1>4, <1>5, FS_AddElement
<1>7. Cardinality(Granted \ {r}) = Cardinality(Granted) - 1
  BY <1>4, <1>5, FS_RemoveElement
<1>8. /\ value' + Cardinality(leases') + Cardinality(Granted') = Limit
      /\ active' = Cardinality(leases')
  <2>1. /\ value + Cardinality(leases) + Cardinality(Granted) = Limit
        /\ active = Cardinality(leases)
    BY <1>1 DEF PermitsConserved
  <2>2. value' + Cardinality(Granted') = value + (Cardinality(Granted) - 1)
    BY <1>3, <1>7
  <2>3. value' \in Int
    BY <1>2, <1>3
  <2> QED
    BY <1>1, <1>2, <1>4, <1>6, <2>1, <2>2, <2>3
<1>9. active' \in 0..Limit
  BY <1>2, <1>3, <1>4, <1>6, <1>8
<1>10. PermitsConserved'
  BY <1>1, <1>3, <1>8 DEF PermitsConserved, TypeOK
<1>11. TypeOK'
  <2>1. waiting' \in Nat
    BY <1>3 DEF QueueExact
  <2>2. counted' \subseteq Requests /\ leases' \subseteq Requests
    BY <1>1 DEF Uncount, TypeOK
  <2>3. value' \in 0..Limit
    BY <1>2, <1>3
  <2> QED
    BY <1>3, <1>9, <2>1, <2>2, <2>3 DEF TypeOK
<1> QED
  BY <1>3, <1>10, <1>11 DEF IInv

\* A suspended request comes back without one.
LEMMA AbandonInv ==
  ASSUME IInv, NEW r \in Requests, Abandon(r)
  PROVE  IInv'
<1> DEFINE free == IF future[r] = "granted" THEN value + 1 ELSE value
<1>1. /\ TypeOK /\ CauseInv /\ PermitsConserved /\ Waits(r) /\ cause[r] # {}
      /\ LeaveQueue(r, free) /\ Uncount(r) /\ UNCHANGED <<active, leases>>
  BY DEF IInv, Abandon
<1>2. value \in 0..Limit /\ Limit \in Nat /\ future[r] # "pending"
  BY <1>1, LimitAssumption DEF TypeOK, CauseInv
<1>3. /\ IsFiniteSet(leases) /\ Cardinality(leases) \in Nat
      /\ IsFiniteSet(Granted) /\ Cardinality(Granted) \in Nat
  BY <1>1, RequestSets, WaiterSets DEF TypeOK
<1>4. free + Cardinality(Granted \ {r}) = value + Cardinality(Granted)
  <2>1. CASE future[r] = "granted"
    <3>1. Cardinality(Granted \ {r}) = Cardinality(Granted) - 1
      BY <1>3, <2>1, FS_RemoveElement DEF Granted
    <3> QED
      BY <1>2, <1>3, <2>1, <3>1
  <2>2. CASE future[r] # "granted"
    <3>1. Granted \ {r} = Granted
      BY <2>2 DEF Granted
    <3> QED
      BY <2>2, <3>1
  <2> QED
    BY <2>1, <2>2
<1>5. IsFiniteSet(Granted \ {r}) /\ Cardinality(Granted \ {r}) \in Nat
  BY <1>3, FS_RemoveElement, FS_CardinalityType
<1>6. free \in 0..Limit
  BY <1>1, <1>2, <1>3, <1>4, <1>5 DEF PermitsConserved
<1> HIDE DEF free
<1>7. /\ waiters' \in Seq(Requests) /\ future' \in [Requests -> FutureState]
      /\ cause' \in [Requests -> SUBSET Cause] /\ value' \in 0..free
      /\ value' + Cardinality(Granted') = free + Cardinality(Granted \ {r})
      /\ QueueInv' /\ CauseInv' /\ NoLostWakeup' /\ QueueExact'
      /\ \A q \in Requests : Waits(q)' <=> Waits(q) /\ q # r
  BY <1>1, <1>2, <1>6, LeaveQueueStep
<1>8. Cardinality(Granted') \in Nat
  BY RequestSets DEF Granted
<1>9. PermitsConserved'
  <2>1. value' + Cardinality(leases') + Cardinality(Granted') = Limit
    <3>1. value + Cardinality(leases) + Cardinality(Granted) = Limit
      BY <1>1 DEF PermitsConserved
    <3>2. value' + Cardinality(Granted') = value + Cardinality(Granted)
      BY <1>4, <1>7
    <3>3. value' \in Int /\ leases' = leases
      BY <1>1, <1>2, <1>6, <1>7
    <3> QED
      BY <1>2, <1>3, <1>8, <3>1, <3>2, <3>3
  <2> QED
    BY <1>1, <1>7, <2>1 DEF PermitsConserved, TypeOK
<1>10. TypeOK'
  <2>1. waiting' \in Nat
    BY <1>7 DEF QueueExact
  <2>2. counted' \subseteq Requests
    BY <1>1 DEF Uncount, TypeOK
  <2>3. value' \in 0..Limit
    BY <1>2, <1>6, <1>7
  <2> QED
    BY <1>1, <1>7, <2>1, <2>2, <2>3 DEF TypeOK
<1> QED
  BY <1>7, <1>9, <1>10 DEF IInv

\* A lease is closed.
LEMMA CloseInv ==
  ASSUME IInv, NEW r \in Requests, Close(r)
  PROVE  IInv'
<1> DEFINE W == Woken(1)
<1>1. /\ TypeOK /\ QueueInv /\ CauseInv /\ PermitsConserved /\ NoLostWakeup
      /\ QueueExact
  BY DEF IInv
<1>2. /\ r \in leases /\ leases' = leases \ {r} /\ active' = active - 1
      /\ future' = [q \in Requests |-> IF q \in W THEN "granted" ELSE future[q]]
      /\ value' = value + 1 - Cardinality(W)
      /\ UNCHANGED <<waiting, waiters, counted, cause>>
  BY DEF Close
<1>3. W \subseteq Pending /\ Pending \subseteq Requests /\ Granted \subseteq Requests
  BY WaiterSets
<1>4. Cardinality(W) \in 0..1 /\ (W = Pending \/ Cardinality(W) = 1)
  BY <1>1, WokenCount
<1>5. /\ IsFiniteSet(leases) /\ Cardinality(leases) \in Nat
      /\ IsFiniteSet(Granted) /\ Cardinality(Granted) \in Nat /\ IsFiniteSet(W)
  BY <1>1, <1>3, RequestSets DEF TypeOK
<1>6. Pending' = Pending \ W /\ Granted' = Granted \union W
  BY <1>2, <1>3 DEF Pending, Granted
<1>7. \A q \in Requests : Waits(q)' <=> Waits(q)
  BY <1>2, <1>3 DEF Waits, Pending
<1>8. Cardinality(leases') = Cardinality(leases) - 1
  BY <1>2, <1>5, FS_RemoveElement
<1>9. Cardinality(Granted') = Cardinality(Granted) + Cardinality(W)
  <2>1. Granted \intersect W = {}
    BY <1>3 DEF Granted, Pending
  <2>2. Cardinality(Granted') = Cardinality(Granted) + Cardinality(W) - Cardinality({})
    BY <1>5, <1>6, <2>1, FS_Union
  <2> QED
    BY <1>4, <1>5, <2>2, FS_EmptySet
<1>10. /\ value \in 0..Limit /\ active \in 0..Limit /\ Limit \in Nat
       /\ value + Cardinality(leases) + Cardinality(Granted) = Limit
       /\ active = Cardinality(leases)
  BY <1>1, LimitAssumption DEF TypeOK, PermitsConserved
<1>11. Cardinality(leases') \in Nat
  BY <1>1, <1>2, RequestSets DEF TypeOK
<1>12. /\ value' + Cardinality(leases') + Cardinality(Granted') = Limit
       /\ active' = Cardinality(leases')
       /\ value' \in 0..Limit /\ active' \in 0..Limit
  BY <1>2, <1>4, <1>5, <1>8, <1>9, <1>10, <1>11
<1>13. PermitsConserved'
  BY <1>1, <1>2, <1>7, <1>12 DEF PermitsConserved, TypeOK
<1>14. TypeOK'
  BY <1>1, <1>2, <1>12 DEF TypeOK, FutureState
<1>15. NoLostWakeup'
  <2>1. ASSUME value' > 0, Pending' # {} PROVE Granted' # {}
    <3>1. Cardinality(W) = 1
      BY <1>4, <1>6, <2>1
    <3>2. W # {}
      BY <3>1, FS_EmptySet
    <3> QED
      BY <1>6, <3>2
  <2> QED
    BY <2>1 DEF NoLostWakeup
<1>16. QueueInv' /\ QueueExact'
  BY <1>1, <1>2, <1>7 DEF QueueInv, QueueExact
<1>17. CauseInv'
  BY <1>1, <1>2, <1>3 DEF CauseInv, TypeOK, Pending
<1> QED
  BY <1>13, <1>14, <1>15, <1>16, <1>17 DEF IInv

LEMMA NextInv == IInv /\ [Next]_vars => IInv'
<1> SUFFICES ASSUME IInv, [Next]_vars PROVE IInv'
  OBVIOUS
<1>1. CASE UNCHANGED vars
  BY <1>1 DEF vars, IInv, TypeOK, QueueInv, CauseInv, PermitsConserved,
              NoLostWakeup, QueueExact, Waits, Pending, Granted
<1>2. ASSUME NEW r \in Requests, Step(r) PROVE IInv'
  <2>1. CASE Refuse(r)
    BY <1>1, <2>1 DEF Refuse
  <2>2. CASE Enter(r)
    BY <2>2, EnterInv
  <2>3. CASE Enqueue(r)
    BY <2>3, EnqueueInv
  <2>4. CASE WaitTimesOut(r)
    BY <2>4, InterruptInv DEF WaitTimesOut, Cause
  <2>5. CASE Cancel(r)
    BY <2>5, InterruptInv DEF Cancel, Cause
  <2>6. CASE Resume(r)
    BY <2>6, ResumeInv
  <2>7. CASE Overflow(r)
    BY <2>7, AbandonInv DEF Overflow
  <2>8. CASE Cancelled(r)
    BY <2>8, AbandonInv DEF Cancelled
  <2>9. CASE Close(r)
    BY <2>9, CloseInv
  <2> QED
    BY <1>2, <2>1, <2>2, <2>3, <2>4, <2>5, <2>6, <2>7, <2>8, <2>9 DEF Step
<1> QED
  BY <1>1, <1>2 DEF Next

\* The inductive invariant holds of every behaviour of Capacity.
THEOREM Invariance == Spec => []IInv
<1> QED
  BY InitInv, NextInv, PTL DEF Spec

\* The variables keep their types; in particular `active` and the semaphore's
\* value stay between 0 and the limit.
THEOREM TypeCorrect == Spec => []TypeOK
<1>1. IInv => TypeOK
  BY DEF IInv
<1> QED
  BY <1>1, Invariance, PTL

\* acquire, its two ways of failing and Lease.close keep every permit.
THEOREM PermitsAreConserved == Spec => []PermitsConserved
<1>1. IInv => PermitsConserved
  BY DEF IInv
<1> QED
  BY <1>1, Invariance, PTL

\* No request is left suspended beside a permit nobody will pass on.
THEOREM WakeupsAreNotLost == Spec => []NoLostWakeup
<1>1. IInv => NoLostWakeup
  BY DEF IInv
<1> QED
  BY <1>1, Invariance, PTL

\* `waiting` is the length of the semaphore's queue, and bounded by max_queue.
THEOREM QueueIsExact == Spec => []QueueExact
<1>1. IInv => QueueExact
  BY DEF IInv
<1> QED
  BY <1>1, Invariance, PTL
===============================================================================
