-------------------------- MODULE CapacityRefinement --------------------------
(*****************************************************************************)
(* Capacity implements PermitPool: every step of acquire, of its timeout and *)
(* cancellation and of Lease.close is a step of the pool or none at all.     *)
(* That the pool's fairness is met too is left to TLC (property PoolSpec).   *)
(*                                                                           *)
(* The pool's Forget(A) is met by whatever wakes the set A, because waking   *)
(* and leaving keep the order of the others (LeaveQueueOrder), and A may     *)
(* leave the line because whoever is ahead of a woken waiter has fewer       *)
(* waiters ahead still, and so is woken too (WokenFront).                    *)
(*****************************************************************************)
EXTENDS CapacityProofs

Holders == leases \union Granted
AheadInLine == [r \in Requests |-> IF r \in Pending THEN Ahead(r) ELSE {}]

\* The queue orders its waiters.
LEMMA BeforeTransitive ==
  ASSUME QueueInv, TypeOK, NEW p, NEW q, NEW r, Before(p, q), Before(q, r)
  PROVE  Before(p, r)
<1>1. PICK i, j \in 1..Len(waiters) : i < j /\ waiters[i] = p /\ waiters[j] = q
  BY DEF Before
<1>2. PICK k, l \in 1..Len(waiters) : k < l /\ waiters[k] = q /\ waiters[l] = r
  BY DEF Before
<1>3. j = k
  BY <1>1, <1>2 DEF QueueInv
<1>4. i < l
  BY <1>1, <1>2, <1>3 DEF TypeOK
<1> QED
  BY <1>1, <1>2, <1>4 DEF Before

\* Nobody is woken past a waiter that stays in line.
LEMMA WokenFront ==
  ASSUME QueueInv, TypeOK, NEW n \in Nat, NEW r \in Woken(n)
  PROVE  Ahead(r) \subseteq Woken(n)
<1> SUFFICES ASSUME NEW q \in Ahead(r) PROVE q \in Woken(n)
  OBVIOUS
<1>1. q \in Pending /\ Before(q, r)
  BY DEF Ahead
<1>2. Ahead(q) \subseteq Ahead(r)
  BY <1>1, BeforeTransitive DEF Ahead
<1>3. /\ IsFiniteSet(Ahead(r)) /\ Cardinality(Ahead(r)) \in Nat
      /\ Cardinality(Ahead(q)) \in Nat
  BY RequestSets DEF Ahead, Pending
<1>4. Cardinality(Ahead(q)) <= Cardinality(Ahead(r))
  BY <1>2, <1>3, FS_Subset
<1>5. Cardinality(Ahead(r)) < n
  BY DEF Woken
<1> QED
  BY <1>1, <1>3, <1>4, <1>5 DEF Woken

\* A task that leaves the queue leaves the order of the others as it was.
LEMMA LeaveQueueOrder ==
  ASSUME IInv, NEW r \in Requests, NEW free \in 0..Limit,
         Waits(r), future[r] # "pending", LeaveQueue(r, free)
  PROVE  /\ Pending' = Pending \ Woken(free)
         /\ Granted' = (Granted \ {r}) \union Woken(free)
         /\ \A q \in Pending' : Ahead(q)' = Ahead(q) \ Woken(free)
<1> DEFINE W == Woken(free)
<1>1. TypeOK /\ QueueInv
  BY DEF IInv
<1>2. free \in Nat
  BY LimitAssumption
<1>3. W \subseteq Pending /\ Pending \subseteq Requests /\ r \notin Pending
  BY <1>2, WaiterSets DEF Pending
<1>4. future' = [q \in Requests |-> IF q = r THEN "none"
                                   ELSE IF q \in W THEN "granted" ELSE future[q]]
  BY DEF LeaveQueue
<1>5. Pending' = Pending \ W /\ Granted' = (Granted \ {r}) \union W
  BY <1>3, <1>4 DEF Pending, Granted
<1>6. PICK k \in 1..Len(waiters) : waiters[k] = r
  BY <1>1 DEF QueueInv
<1>7. /\ Len(waiters) \in Nat /\ Len(waiters') = Len(waiters) - 1
      /\ \A i \in 1..Len(waiters) - 1 :
           waiters'[i] = IF i < k THEN waiters[i] ELSE waiters[i + 1]
  <2>1. waiters \in Seq(Requests) /\ waiters' = RemoveFirst(waiters, waiters[k])
    BY <1>1, <1>6 DEF TypeOK, LeaveQueue
  <2>2. \A i \in 1..Len(waiters) : waiters[i] = waiters[k] => i = k
    BY <1>1 DEF QueueInv
  <2>3. Len(RemoveFirst(waiters, waiters[k])) = Len(waiters) - 1
    BY <2>1, <2>2, RemoveFirstOf
  <2>4. \A i \in 1..Len(waiters) - 1 :
          RemoveFirst(waiters, waiters[k])[i]
            = IF i < k THEN waiters[i] ELSE waiters[i + 1]
    BY <2>1, <2>2, RemoveFirstOf
  <2> QED
    BY <2>1, <2>3, <2>4
<1>8. ASSUME NEW p \in Requests \ {r}, NEW q \in Requests \ {r}
      PROVE  Before(p, q)' <=> Before(p, q)
  <2>1. ASSUME Before(p, q)' PROVE Before(p, q)
    <3>1. PICK i, j \in 1..Len(waiters') :
            i < j /\ waiters'[i] = p /\ waiters'[j] = q
      BY <2>1 DEF Before
    <3> DEFINE at(n) == IF n < k THEN n ELSE n + 1
    <3>2. /\ at(i) \in 1..Len(waiters) /\ waiters'[i] = waiters[at(i)]
          /\ at(j) \in 1..Len(waiters) /\ waiters'[j] = waiters[at(j)]
          /\ at(i) < at(j)
      BY <1>7, <3>1
    <3> QED
      BY <3>1, <3>2 DEF Before
  <2>2. ASSUME Before(p, q) PROVE Before(p, q)'
    <3>1. PICK i, j \in 1..Len(waiters) :
            i < j /\ waiters[i] = p /\ waiters[j] = q
      BY <2>2 DEF Before
    <3>2. i # k /\ j # k
      BY <1>6, <3>1
    <3> DEFINE at(n) == IF n < k THEN n ELSE n - 1
    <3>3. /\ at(i) \in 1..Len(waiters') /\ at(j) \in 1..Len(waiters')
          /\ at(i) < at(j)
      BY <1>7, <3>1, <3>2
    <3>4. \A n \in 1..Len(waiters) : n # k => waiters'[at(n)] = waiters[n]
      BY <1>7
    <3> QED
      BY <3>1, <3>2, <3>3, <3>4 DEF Before
  <2> QED
    BY <2>1, <2>2
<1>9. ASSUME NEW q \in Pending' PROVE Ahead(q)' = Ahead(q) \ W
  BY <1>3, <1>5, <1>8 DEF Ahead
<1> QED
  BY <1>5, <1>9

\* The pool counts as Capacity does.
LEMMA PoolCardinality ==
  \A S : Pool!Cardinality(S) = Cardinality(S)
  BY DEF Pool!Cardinality, Cardinality

\* Every permit is free or belongs to a holder.
LEMMA HoldersCount ==
  ASSUME IInv
  PROVE  /\ Cardinality(Holders) = Limit - value
         /\ IsFiniteSet(Holders)
         /\ value \in 0..Limit /\ Limit \in Nat
<1>1. TypeOK /\ PermitsConserved /\ Limit \in Nat
  BY LimitAssumption DEF IInv
<1>2. /\ IsFiniteSet(leases) /\ Cardinality(leases) \in Nat
      /\ IsFiniteSet(Granted) /\ Cardinality(Granted) \in Nat
      /\ IsFiniteSet(Holders)
  BY <1>1, RequestSets, WaiterSets DEF TypeOK, Holders
<1>3. leases \intersect Granted = {}
  BY <1>1 DEF PermitsConserved, Granted, Waits
<1>4. Cardinality(Holders) = Cardinality(leases) + Cardinality(Granted) - Cardinality({})
  BY <1>2, <1>3, FS_Union DEF Holders
<1>5. /\ value + Cardinality(leases) + Cardinality(Granted) = Limit
      /\ value \in 0..Limit
  BY <1>1 DEF PermitsConserved, TypeOK
<1> QED
  BY <1>1, <1>2, <1>4, <1>5, FS_EmptySet

\* If the waiters in A have gone and the others keep their order, the pool's line
\* has forgotten A.
LEMMA ForgetStep ==
  ASSUME NEW A, Pending' = Pending \ A,
         \A q \in Pending' : Ahead(q)' = Ahead(q) \ A
  PROVE  Pool!Forget(A)
<1>1. AheadInLine' = [q \in Requests |->
                       IF q \in Pending \ A THEN AheadInLine[q] \ A ELSE {}]
  BY DEF AheadInLine, Pending
<1> QED
  BY <1>1 DEF Pool!Forget, AheadInLine

\* The waiters a task wakes as it leaves may leave the front of the line.
LEMMA WokenMayLeave ==
  ASSUME IInv, NEW n \in Nat
  PROVE  /\ Pool!Front(Woken(n))
         /\ Cardinality(Woken(n)) \in 0..n
<1>1. TypeOK /\ QueueInv
  BY DEF IInv
<1>2. Woken(n) \subseteq Pending /\ Pending \subseteq Requests
  BY WaiterSets
<1>3. \A r \in Woken(n) : Ahead(r) \subseteq Woken(n)
  BY <1>1, WokenFront
<1> QED
  BY <1>1, <1>2, <1>3, WokenCount DEF Pool!Front

LEMMA EnterRefines ==
  ASSUME IInv, NEW r \in Requests, Enter(r)
  PROVE  Pool!Take(r)
<1>1. /\ r \notin Holders /\ Pending = {} /\ value # 0
      /\ leases' = leases \union {r} /\ UNCHANGED <<future, waiters>>
  BY DEF Enter, Outside, Waits, Locked, Granted, Holders
<1>2. Pending' = Pending /\ Granted' = Granted /\ \A q : Ahead(q)' = Ahead(q)
  BY <1>1 DEF Pending, Granted, Ahead, Before
<1>3. Cardinality(Holders) < Limit
  BY <1>1, HoldersCount
<1>4. AheadInLine' = AheadInLine
  BY <1>2 DEF AheadInLine
<1> QED
  BY <1>1, <1>2, <1>3, <1>4, PoolCardinality DEF Pool!Take, Holders, AheadInLine

LEMMA EnqueueRefines ==
  ASSUME IInv, NEW r \in Requests, Enqueue(r)
  PROVE  Pool!Join(r)
<1>1. TypeOK /\ QueueInv /\ QueueExact /\ NoLostWakeup
  BY DEF IInv
<1>2. /\ waiters' = Append(waiters, r) /\ future' = [future EXCEPT ![r] = "pending"]
      /\ UNCHANGED leases
      /\ r \notin leases /\ future[r] = "none" /\ Locked /\ ~Full
  BY DEF Enqueue, Outside, Waits
<1>3. Pending' = Pending \union {r} /\ Granted' = Granted
  BY <1>1, <1>2 DEF Pending, Granted, TypeOK
<1>4. r \notin Holders \union Pending
  BY <1>2 DEF Holders, Granted, Pending
<1>5. Holders # {}
  <2>1. CASE value = 0
    <3>1. Cardinality(Holders) = Limit /\ Limit \in Nat \ {0}
      BY <2>1, HoldersCount, LimitAssumption
    <3> QED
      BY <3>1, FS_EmptySet
  <2>2. CASE value # 0
    <3>1. Granted # {}
      BY <1>1, <1>2, <2>2 DEF NoLostWakeup, Locked, TypeOK
    <3> QED
      BY <3>1 DEF Holders
  <2> QED
    BY <2>1, <2>2
<1>6. Cardinality(Pending) < MaxQueue
  <2>1. waiting < MaxQueue /\ Len(waiters) = waiting
    BY <1>1, <1>2, LockedIsQueued, MaxQueueAssumption DEF Full, QueueExact, TypeOK
  <2>2. waiters \in Seq(Requests) /\ Len(waiters) \in Nat
    BY <1>1 DEF TypeOK
  <2>3. \A q \in Pending : \E i \in 1..Len(waiters) : waiters[i] = q
    BY <1>1 DEF QueueInv, Waits, Pending
  <2>4. PICK position \in [Pending -> 1..Len(waiters)] :
          \A q \in Pending : waiters[position[q]] = q
    <3>1. [q \in Pending |-> CHOOSE i \in 1..Len(waiters) : waiters[i] = q]
            \in [Pending -> 1..Len(waiters)]
      BY <2>3
    <3> QED
      BY <2>3, <3>1
  <2>5. position \in Injection(Pending, 1..Len(waiters))
    BY <2>4 DEF Injection, IsInjective
  <2>6. IsFiniteSet(1..Len(waiters)) /\ Cardinality(1..Len(waiters)) = Len(waiters)
    <3>1. /\ IsFiniteSet(1..Len(waiters))
          /\ Cardinality(1..Len(waiters))
               = IF 1 > Len(waiters) THEN 0 ELSE Len(waiters) - 1 + 1
      BY <2>2, FS_Interval
    <3> QED
      BY <2>2, <3>1
  <2>7. Cardinality(Pending) <= Len(waiters) /\ Cardinality(Pending) \in Nat
    BY <2>5, <2>6, FS_Injection, RequestSets DEF Pending
  <2> QED
    BY <2>1, <2>2, <2>7, MaxQueueAssumption
<1>7. /\ Len(waiters) \in Nat /\ Len(waiters') = Len(waiters) + 1
      /\ \A i \in 1..Len(waiters) : waiters'[i] = waiters[i]
      /\ waiters'[Len(waiters) + 1] = r
  BY <1>1, <1>2 DEF TypeOK
<1>8. \A i \in 1..Len(waiters) : waiters[i] # r
  BY <1>1, <1>2 DEF QueueInv, Waits
<1>9. ASSUME NEW q \in Requests, q # r, NEW p
      PROVE  Before(p, q)' <=> Before(p, q)
  BY <1>7, <1>8, <1>9 DEF Before
<1>10. \A p \in Pending : Before(p, r)'
  <2>1. \A q \in Pending : \E i \in 1..Len(waiters) : waiters[i] = q
    BY <1>1 DEF QueueInv, Waits, Pending
  <2> QED
    BY <1>7, <2>1 DEF Before
<1>11. ~Before(r, r)'
  BY <1>7, <1>8 DEF Before
<1>12. Ahead(r)' = Pending
  BY <1>3, <1>10, <1>11 DEF Ahead
<1>13. \A q \in Pending : Ahead(q)' = Ahead(q)
  <2>1. \A q \in Requests : q # r => ~Before(r, q)
    BY <1>8 DEF Before
  <2> QED
    BY <1>3, <1>4, <1>9, <2>1 DEF Ahead, Pending
<1>14. AheadInLine' = [AheadInLine EXCEPT ![r] = Pending]
  BY <1>3, <1>12, <1>13 DEF AheadInLine, Pending
<1>15. Holders' = Holders
  BY <1>2, <1>3 DEF Holders
<1> QED
  BY <1>3, <1>4, <1>5, <1>6, <1>14, <1>15, PoolCardinality
     DEF Pool!Join, Holders, AheadInLine

\* What a step of the pool leaves alone when nobody's place changes.
LEMMA PlacesKept ==
  ASSUME Pending' = Pending, Granted' = Granted, leases' = leases,
         \A q \in Pending : Ahead(q)' = Ahead(q)
  PROVE  UNCHANGED Pool!vars
<1>1. AheadInLine' = AheadInLine
  BY DEF AheadInLine
<1>2. Holders' = Holders
  BY DEF Holders
<1> QED
  BY <1>1, <1>2 DEF Pool!vars, Holders, AheadInLine

LEMMA InterruptRefines ==
  ASSUME IInv, NEW r \in Requests, NEW c \in Cause, Interrupt(r, c)
  PROVE  Pool!Leave(r) \/ UNCHANGED Pool!vars
<1>1. /\ future' = [future EXCEPT ![r] = IF @ = "pending" THEN "cancelled" ELSE @]
      /\ UNCHANGED <<waiters, leases>> /\ future \in [Requests -> FutureState]
  BY DEF Interrupt, IInv, TypeOK
<1>2. Granted' = Granted /\ Pending' = Pending \ {r}
  BY <1>1 DEF Pending, Granted
<1>3. \A p, q : Before(p, q)' <=> Before(p, q)
  BY <1>1 DEF Before
<1>4. \A q : Ahead(q)' = Ahead(q) \ {r}
  BY <1>2, <1>3 DEF Ahead
<1>5. CASE r \in Pending
  <2>1. Pool!Forget({r})
    BY <1>2, <1>4, ForgetStep
  <2>2. Holders' = Holders
    BY <1>1, <1>2 DEF Holders
  <2> QED
    BY <1>5, <2>1, <2>2 DEF Pool!Leave, Holders
<1>6. CASE r \notin Pending
  <2>1. Pending' = Pending /\ \A q : Ahead(q)' = Ahead(q)
    BY <1>2, <1>4, <1>6 DEF Ahead
  <2> QED
    BY <1>1, <1>2, <2>1, PlacesKept
<1> QED
  BY <1>5, <1>6

\* Waiters that are woken with free permits are admitted by the pool.
LEMMA WokenAreAdmitted ==
  ASSUME IInv, Pending' = Pending \ Woken(value),
         \A q \in Pending' : Ahead(q)' = Ahead(q) \ Woken(value),
         Holders' = Holders \union Woken(value)
  PROVE  Pool!Admit \/ UNCHANGED Pool!vars
<1>0. PICK W : W = Woken(value)
  OBVIOUS
<1>1. Pool!Forget(W)
  BY <1>0, ForgetStep
<1>2. /\ value \in 0..Limit /\ Limit \in Nat
      /\ Cardinality(Holders) = Limit - value
  BY HoldersCount
<1>3. Pool!Front(W) /\ Cardinality(W) \in 0..value
  BY <1>0, <1>2, WokenMayLeave
<1>4. CASE W # {}
  <2>1. W \in (SUBSET Pending) \ {{}}
    BY <1>3, <1>4 DEF Pool!Front
  <2>2. Cardinality(Holders) + Cardinality(W) <= Limit
    BY <1>2, <1>3
  <2> QED
    BY <1>0, <1>1, <1>3, <2>1, <2>2, PoolCardinality DEF Pool!Admit, Holders
<1>5. CASE W = {}
  <2>1. Pending' = Pending /\ \A q \in Pending : Ahead(q)' = Ahead(q)
    BY <1>0, <1>5
  <2>2. Holders' = Holders
    BY <1>0, <1>5
  <2>3. AheadInLine' = AheadInLine
    BY <2>1 DEF AheadInLine
  <2> QED
    BY <2>1, <2>2, <2>3 DEF Pool!vars, Holders, AheadInLine
<1> QED
  BY <1>4, <1>5

\* A permit that comes back is returned to the pool, which passes it on.
LEMMA WokenAfterReturn ==
  ASSUME IInv, NEW r \in Holders, NEW n \in Nat, n <= value + 1,
         Pending' = Pending \ Woken(n),
         \A q \in Pending' : Ahead(q)' = Ahead(q) \ Woken(n),
         Holders' = (Holders \ {r}) \union Woken(n)
  PROVE  Pool!Return(r)
<1>0. PICK W : W = Woken(n)
  OBVIOUS
<1>1. Pool!Forget(W)
  BY <1>0, ForgetStep
<1>2. /\ value \in 0..Limit /\ Limit \in Nat
      /\ Cardinality(Holders) = Limit - value
  BY HoldersCount
<1>3. Pool!Front(W) /\ Cardinality(W) \in 0..n
  BY <1>0, WokenMayLeave
<1>4. Cardinality(Holders) - 1 + Cardinality(W) <= Limit
  BY <1>2, <1>3
<1>5. W \in SUBSET Pending
  BY <1>3 DEF Pool!Front
<1> QED
  BY <1>0, <1>1, <1>3, <1>4, <1>5, PoolCardinality DEF Pool!Return, Holders

LEMMA ResumeRefines ==
  ASSUME IInv, NEW r \in Requests, Resume(r)
  PROVE  Pool!Admit \/ UNCHANGED Pool!vars
<1>1. /\ r \in Granted /\ Waits(r) /\ future[r] # "pending"
      /\ LeaveQueue(r, value) /\ leases' = leases \union {r}
  BY DEF Resume, Granted, Waits
<1>2. value \in 0..Limit
  BY HoldersCount
<1>3. /\ Pending' = Pending \ Woken(value)
      /\ Granted' = (Granted \ {r}) \union Woken(value)
      /\ \A q \in Pending' : Ahead(q)' = Ahead(q) \ Woken(value)
  BY <1>1, <1>2, LeaveQueueOrder
<1>4. Holders' = Holders \union Woken(value)
  BY <1>1, <1>3 DEF Holders
<1> QED
  BY <1>3, <1>4, WokenAreAdmitted

LEMMA AbandonRefines ==
  ASSUME IInv, NEW r \in Requests, Abandon(r)
  PROVE  Pool!Return(r) \/ Pool!Admit \/ UNCHANGED Pool!vars
<1>1. /\ Waits(r) /\ future[r] # "pending" /\ UNCHANGED leases
      /\ LeaveQueue(r, IF future[r] = "granted" THEN value + 1 ELSE value)
  BY DEF Abandon, IInv, CauseInv
<1>2. value \in 0..Limit /\ Limit \in Nat /\ r \notin leases
  BY <1>1, HoldersCount DEF IInv, PermitsConserved
<1>3. CASE r \in Granted
  <2>1. value + 1 \in 0..Limit
    <3>1. r \in Holders /\ Cardinality(Holders) = Limit - value /\ IsFiniteSet(Holders)
      BY <1>3, HoldersCount DEF Holders
    <3>2. Cardinality(Holders) # 0
      BY <3>1, FS_EmptySet
    <3> QED
      BY <1>2, <3>1, <3>2
  <2>2. LeaveQueue(r, value + 1)
    BY <1>1, <1>3 DEF Granted
  <2>3. /\ Pending' = Pending \ Woken(value + 1)
        /\ Granted' = (Granted \ {r}) \union Woken(value + 1)
        /\ \A q \in Pending' : Ahead(q)' = Ahead(q) \ Woken(value + 1)
    BY <1>1, <2>1, <2>2, LeaveQueueOrder
  <2>4. Holders' = (Holders \ {r}) \union Woken(value + 1)
    BY <1>1, <1>2, <2>3 DEF Holders
  <2>5. r \in Holders /\ value + 1 \in Nat /\ value + 1 <= value + 1
    BY <1>2, <1>3 DEF Holders
  <2> QED
    BY <2>3, <2>4, <2>5, WokenAfterReturn
<1>4. CASE r \notin Granted
  <2>1. LeaveQueue(r, value)
    BY <1>1, <1>4 DEF Granted
  <2>2. /\ Pending' = Pending \ Woken(value)
        /\ Granted' = (Granted \ {r}) \union Woken(value)
        /\ \A q \in Pending' : Ahead(q)' = Ahead(q) \ Woken(value)
    BY <1>1, <1>2, <2>1, LeaveQueueOrder
  <2>3. Holders' = Holders \union Woken(value)
    BY <1>1, <1>4, <2>2 DEF Holders
  <2> QED
    BY <2>2, <2>3, WokenAreAdmitted
<1> QED
  BY <1>3, <1>4

LEMMA CloseRefines ==
  ASSUME IInv, NEW r \in Requests, Close(r)
  PROVE  Pool!Return(r)
<1> DEFINE W == Woken(1)
<1>1. /\ r \in leases /\ leases' = leases \ {r} /\ UNCHANGED waiters
      /\ future' = [q \in Requests |-> IF q \in W THEN "granted" ELSE future[q]]
  BY DEF Close
<1>2. r \notin Granted
  BY <1>1 DEF IInv, PermitsConserved, Granted, Waits
<1>3. W \subseteq Pending /\ W \subseteq Requests
  BY DEF Woken, Pending
<1>4. Pending' = Pending \ W /\ Granted' = Granted \union W
  BY <1>1, <1>3 DEF Pending, Granted
<1>5. r \notin W
  BY <1>1, <1>3 DEF IInv, PermitsConserved, Pending, Waits
<1>6. Holders' = (Holders \ {r}) \union W
  BY <1>1, <1>2, <1>4, <1>5 DEF Holders
<1>7. \A q : Ahead(q)' = Ahead(q) \ W
  BY <1>1, <1>4 DEF Ahead, Before
<1>8. r \in Holders /\ 1 \in Nat /\ 1 <= value + 1
  BY <1>1, HoldersCount DEF Holders
<1> QED
  BY <1>4, <1>6, <1>7, <1>8, WokenAfterReturn

\* Every step of Capacity is a step of the pool, or leaves it alone.
LEMMA StepRefines ==
  ASSUME IInv, [Next]_vars
  PROVE  [Pool!Next]_(Pool!vars)
<1>1. CASE UNCHANGED vars
  BY <1>1 DEF vars, Pool!vars, Pending, Granted, Ahead, Before
<1>2. ASSUME NEW r \in Requests, Step(r)
      PROVE  [Pool!Next]_(Pool!vars)
  <2>1. CASE Refuse(r)
    BY <1>1, <2>1 DEF Refuse
  <2>2. CASE Enter(r)
    BY <2>2, EnterRefines DEF Pool!Next
  <2>3. CASE Enqueue(r)
    BY <2>3, EnqueueRefines DEF Pool!Next
  <2>4. CASE WaitTimesOut(r) \/ Cancel(r)
    <3>1. PICK c \in Cause : Interrupt(r, c)
      BY <2>4 DEF WaitTimesOut, Cancel, Cause
    <3> QED
      BY <3>1, InterruptRefines DEF Pool!Next
  <2>5. CASE Resume(r)
    BY <2>5, ResumeRefines DEF Pool!Next
  <2>6. CASE Overflow(r) \/ Cancelled(r)
    <3>1. Abandon(r)
      BY <2>6 DEF Overflow, Cancelled
    <3> QED
      BY <3>1, AbandonRefines DEF Pool!Next
  <2>7. CASE Close(r)
    BY <2>7, CloseRefines DEF Pool!Next
  <2> QED
    BY <1>2, <2>1, <2>2, <2>3, <2>4, <2>5, <2>6, <2>7 DEF Step
<1> QED
  BY <1>1, <1>2 DEF Next

\* acquire and close together are a first-come-first-served pool of `limit`
\* permits with a line of at most `max_queue` (controls.py, Capacity and Lease):
\* whatever timeouts and cancellations arrive, no step admits past somebody ahead,
\* exceeds the limit, or loses a place in line.
THEOREM Refinement ==
  Spec => Pool!Init /\ [][Pool!Next]_(Pool!vars)
<1>1. Init => Pool!Init
  BY DEF Init, Pool!Init, Pending, Granted
<1>2. IInv /\ [Next]_vars => [Pool!Next]_(Pool!vars)
  BY StepRefines
<1> QED
  BY <1>1, <1>2, Invariance, PTL DEF Spec
===============================================================================
