----------------------------- MODULE GatewayProofs -----------------------------
(*****************************************************************************)
(* The safety of Gateway, for every number of requests and permits, every    *)
(* queue, threshold and hold-down.                                           *)
(*                                                                           *)
(* The gateway composes Capacity and CircuitBreaker, and so do the proofs:   *)
(* each of its steps is a step of either or leaves it alone, so that their   *)
(* inductive invariants (CP!IInv, BP!IInv) carry over.  What is left is what *)
(* ties them to a request: RequestInv(r), which a step of another request    *)
(* does not touch (OthersKept).                                              *)
(*****************************************************************************)
EXTENDS Gateway, FiniteSetTheorems, TLAPS

CP == INSTANCE CapacityRefinement
\* The circuit's history of outcomes plays no part in what is used here.
BP == INSTANCE CircuitBreakerProofs WITH streak <- failures

\* The types of what is the gateway's own.
TaskTypes ==
  /\ pc \in [Requests -> {"idle", "queued", "opening", "collecting", "closing"}
                         \union Streaming]
  /\ upstream \in [Requests -> {"none", "open", "ended", "abandoned"}]
  /\ reply \in [Requests -> {"none", "headers", "done", "error"}]
  /\ halting \in [Requests -> BOOLEAN]
  /\ stopping \in BOOLEAN

OwnTypes ==
  /\ TaskTypes
  /\ outcome \in [Requests -> Outcomes \union {"none"}]
  /\ measured \in [Requests -> 0..2]

\* NothingLeaks, of one request, and that nothing is left of the one before it.
PlaceInv(r) ==
  /\ pc[r] = "idle" => ticket[r] = "none" /\ upstream[r] \in {"none", "abandoned"}
  /\ pc[r] = "queued" <=> C!Waits(r)
  /\ pc[r] = "queued" => ticket[r] # "none"
  /\ pc[r] \notin {"idle", "queued"} <=> r \in leases
  /\ pc[r] \in {"queued", "opening"} => upstream[r] = "none" /\ outcome[r] = "none"

\* MeasuredOnce, of one request.
MeasureInv(r) ==
  /\ measured[r] = IF outcome[r] = "none" THEN 0 ELSE 1
  /\ r \in leases => (ticket[r] = "none" <=> outcome[r] # "none")

\* VerdictMatchesReply, of one request.
VerdictInv(r) ==
  /\ reply[r] = "done" => /\ outcome[r] \in {"success", "cancelled"}
                          /\ r \in leases => upstream[r] = "ended"
  /\ reply[r] = "error" => outcome[r] # "success"
  /\ outcome[r] = "success" => reply[r] \in {"none", "done"}

\* How far the answer has got where the sending task stands.  Until it ends, only
\* a disconnect can have given a verdict; an error event follows one.
ProgressInv(r) ==
  /\ pc[r] \in {"idle", "queued", "opening", "collecting", "start"} => reply[r] = "none"
  /\ pc[r] \in {"next", "chunk", "last", "error"} => reply[r] = "headers"
  /\ pc[r] = "last" => upstream[r] = "ended"
  /\ pc[r] \in {"start", "next", "chunk", "last"} => outcome[r] \in {"none", "cancelled"}
  /\ pc[r] = "error" => outcome[r] \notin {"none", "success"}

RequestInv(r) == PlaceInv(r) /\ MeasureInv(r) /\ VerdictInv(r) /\ ProgressInv(r)

IInv == CP!IInv /\ BP!IInv /\ OwnTypes /\ \A r \in Requests : RequestInv(r)
-------------------------------------------------------------------------------
\* Capacity in the gateway.

Waiting == {r \in Requests : C!Waits(r)}

\* Gateway and the proofs of Capacity speak of the same operators.
LEMMA SameQueue ==
  /\ C!Pending = CP!Pending /\ C!Granted = CP!Granted
  /\ \A r : C!Waits(r) <=> CP!Waits(r)
  /\ \A n : C!Woken(n) = CP!Woken(n)
  /\ \A s, r : C!RemoveFirst(s, r) = CP!RemoveFirst(s, r)
<1>1. C!Pending = CP!Pending /\ C!Granted = CP!Granted
  BY DEF C!Pending, CP!Pending, C!Granted, CP!Granted
<1>2. \A r : C!Waits(r) <=> CP!Waits(r)
  BY DEF C!Waits, CP!Waits
<1>3. ASSUME NEW n PROVE C!Woken(n) = CP!Woken(n)
  BY DEF C!Woken, CP!Woken, C!Pending, CP!Pending, C!Ahead, CP!Ahead, C!Before,
         CP!Before, C!Cardinality, CP!Cardinality
<1>4. ASSUME NEW s, NEW r PROVE C!RemoveFirst(s, r) = CP!RemoveFirst(s, r)
  BY DEF C!RemoveFirst, CP!RemoveFirst, C!SelectInSeq, CP!SelectInSeq, C!RemoveAt,
         CP!RemoveAt, C!Min, CP!Min
<1> QED
  BY <1>1, <1>2, <1>3, <1>4

LEMMA SameLeaving ==
  ASSUME NEW r, NEW free
  PROVE  /\ C!LeaveQueue(r, free) <=> CP!LeaveQueue(r, free)
         /\ C!Uncount(r) <=> CP!Uncount(r)
<1>1. /\ C!RemoveFirst(waiters, r) = CP!RemoveFirst(waiters, r)
      /\ C!Woken(free) = CP!Woken(free)
      /\ C!Cardinality(CP!Woken(free)) = CP!Cardinality(CP!Woken(free))
  BY SameQueue DEF C!Cardinality, CP!Cardinality
<1> QED
  BY <1>1 DEF C!LeaveQueue, CP!LeaveQueue, C!Uncount, CP!Uncount

LEMMA SameActions ==
  ASSUME NEW r \in Requests
  PROVE  /\ C!Enter(r) <=> CP!Enter(r)
         /\ C!Enqueue(r) <=> CP!Enqueue(r)
         /\ \A c : C!Interrupt(r, c) <=> CP!Interrupt(r, c)
         /\ C!Resume(r) <=> CP!Resume(r)
         /\ C!Abandon(r) <=> CP!Abandon(r)
         /\ C!Close(r) <=> CP!Close(r)
<1>1. /\ C!Full <=> CP!Full
      /\ C!Queued <=> CP!Queued
      /\ C!Locked <=> CP!Locked
      /\ C!Outside(r) <=> CP!Outside(r)
  BY SameQueue
  DEF C!Full, CP!Full, C!Queued, CP!Queued, C!Locked, CP!Locked, C!Outside, CP!Outside
<1>2. C!Enter(r) <=> CP!Enter(r)
  BY <1>1 DEF C!Enter, CP!Enter
<1>3. C!Enqueue(r) <=> CP!Enqueue(r)
  BY <1>1 DEF C!Enqueue, CP!Enqueue
<1>4. ASSUME NEW c PROVE C!Interrupt(r, c) <=> CP!Interrupt(r, c)
  BY SameQueue DEF C!Interrupt, CP!Interrupt
<1>5. C!Resume(r) <=> CP!Resume(r)
  BY SameLeaving DEF C!Resume, CP!Resume
<1>6. C!Abandon(r) <=> CP!Abandon(r)
  BY SameQueue, SameLeaving DEF C!Abandon, CP!Abandon
<1>7. C!Close(r) <=> CP!Close(r)
  <2>1. /\ C!Woken(1) = CP!Woken(1)
        /\ C!Cardinality(CP!Woken(1)) = CP!Cardinality(CP!Woken(1))
    BY SameQueue DEF C!Cardinality, CP!Cardinality
  <2> QED
    BY <2>1 DEF C!Close, CP!Close
<1> QED
  BY <1>2, <1>3, <1>4, <1>5, <1>6, <1>7

\* What Capacity assumes of its constants.
LEMMA CapacityConstants ==
  CP!IsFiniteSet(Requests) /\ Limit \in Nat \ {0} /\ MaxQueue \in Nat
  BY RequestsAssumption, BoundsAssumption DEF CP!IsFiniteSet, IsFiniteSet

\* A request gets a lease without waiting.
LEMMA EnterEffect ==
  ASSUME CP!IInv, NEW r \in Requests, C!Enter(r)
  PROVE  /\ CP!IInv'
         /\ leases' = leases \union {r} /\ Waiting' = Waiting
<1>1. CP!IInv'
  BY CapacityConstants, SameActions, CP!EnterInv
<1> QED
  BY <1>1 DEF C!Enter, Waiting, C!Waits

\* A request is suspended.
LEMMA EnqueueEffect ==
  ASSUME CP!IInv, NEW r \in Requests, C!Enqueue(r)
  PROVE  /\ CP!IInv'
         /\ leases' = leases /\ Waiting' = Waiting \union {r}
<1>1. CP!IInv'
  BY CapacityConstants, SameActions, CP!EnqueueInv
<1>2. future \in [Requests -> CP!FutureState]
  BY DEF CP!IInv, CP!TypeOK
<1> QED
  BY <1>1, <1>2 DEF C!Enqueue, Waiting, C!Waits

\* A timeout or a cancellation reaches a suspended request, which stays so.
LEMMA InterruptEffect ==
  ASSUME CP!IInv, NEW r \in Requests, C!WaitTimesOut(r) \/ C!Cancel(r)
  PROVE  /\ CP!IInv'
         /\ leases' = leases /\ Waiting' = Waiting
<1>1. PICK c \in CP!Cause : C!Interrupt(r, c)
  BY DEF C!WaitTimesOut, C!Cancel, CP!Cause
<1>2. CP!IInv'
  BY <1>1, CapacityConstants, SameActions, CP!InterruptInv
<1>3. future \in [Requests -> CP!FutureState]
  BY DEF CP!IInv, CP!TypeOK
<1> QED
  BY <1>1, <1>2, <1>3 DEF C!Interrupt, Waiting, C!Waits

\* The wait ends with a lease.
LEMMA ResumeEffect ==
  ASSUME CP!IInv, NEW r \in Requests, C!Resume(r)
  PROVE  /\ CP!IInv'
         /\ leases' = leases \union {r} /\ Waiting' = Waiting \ {r}
<1>1. CP!Resume(r) /\ CP!IInv'
  BY CapacityConstants, SameActions, CP!ResumeInv
<1>2. /\ CP!Waits(r) /\ future[r] # "pending" /\ value \in 0..Limit
      /\ CP!LeaveQueue(r, value) /\ CP!Uncount(r)
  BY <1>1 DEF CP!Resume, CP!Waits, CP!IInv, CP!TypeOK
<1>3. \A q \in Requests : CP!Waits(q)' <=> CP!Waits(q) /\ q # r
  BY <1>2, CapacityConstants, CP!LeaveQueueStep
<1>4. Waiting = {q \in Requests : CP!Waits(q)}
  BY SameQueue DEF Waiting
<1>5. Waiting' = {q \in Requests : CP!Waits(q)'}
  BY DEF Waiting, C!Waits, CP!Waits
<1> QED
  BY <1>1, <1>3, <1>4, <1>5 DEF CP!Resume

\* The wait ends without one.
LEMMA AbandonEffect ==
  ASSUME CP!IInv, NEW r \in Requests, C!Overflow(r) \/ C!Cancelled(r)
  PROVE  /\ CP!IInv'
         /\ leases' = leases /\ Waiting' = Waiting \ {r}
<1>1. CP!Abandon(r) /\ CP!IInv'
  BY CapacityConstants, SameActions, CP!AbandonInv DEF C!Overflow, C!Cancelled
<1>2. future' = [q \in Requests |->
                   IF q = r THEN "none"
                   ELSE IF q \in CP!Woken(IF future[r] = "granted" THEN value + 1
                                          ELSE value)
                        THEN "granted" ELSE future[q]]
  BY <1>1 DEF CP!Abandon, CP!LeaveQueue
<1>3. \A n : CP!Woken(n) \subseteq {q \in Requests : future[q] = "pending"}
  BY DEF CP!Woken, CP!Pending
<1> QED
  BY <1>1, <1>2, <1>3 DEF CP!Abandon, Waiting, C!Waits

\* A lease is closed.
LEMMA CloseEffect ==
  ASSUME CP!IInv, NEW r \in Requests, C!Close(r)
  PROVE  /\ CP!IInv'
         /\ leases' = leases \ {r} /\ Waiting' = Waiting
<1>1. CP!Close(r) /\ CP!IInv'
  BY CapacityConstants, SameActions, CP!CloseInv
<1>2. CP!Woken(1) \subseteq {q \in Requests : future[q] = "pending"}
  BY DEF CP!Woken, CP!Pending
<1> QED
  BY <1>1, <1>2 DEF CP!Close, Waiting, C!Waits
-------------------------------------------------------------------------------
\* CircuitBreaker in the gateway.

TicketsOfOthers(r) == \A q \in Requests \ {r} : ticket'[q] = ticket[q]

\* A request gets a ticket.
LEMMA AcquireEffect ==
  ASSUME BP!IInv, NEW r \in Requests, B!Acquire(r)
  PROVE  BP!IInv' /\ ticket'[r] # "none" /\ TicketsOfOthers(r)
<1>1. BP!Acquire(r)
  BY DEF B!Acquire, BP!Acquire, B!Admits, BP!Admits, B!circuit, BP!circuit
<1>2. BP!IInv'
  BY <1>1, BoundsAssumption, BP!AcquireInv
<1>3. ticket \in [Requests -> {"none", "call", "probe"}]
  BY DEF BP!IInv, BP!TypeOK
<1> QED
  BY <1>1, <1>2, <1>3 DEF BP!Acquire, TicketsOfOthers

\* A ticket is finished, with whatever outcome.
LEMMA SettleEffect ==
  ASSUME BP!IInv, NEW r \in Requests, B!Success(r) \/ B!Failure(r) \/ B!Release(r)
  PROVE  BP!IInv' /\ ticket'[r] = "none" /\ TicketsOfOthers(r)
<1>1. BP!Success(r) \/ BP!Failure(r) \/ BP!Release(r)
  BY DEF B!Success, BP!Success, B!Failure, BP!Failure, B!Release, BP!Release,
         B!Settle, BP!Settle, B!circuit, BP!circuit
<1>2. BP!IInv'
  BY <1>1, BoundsAssumption, BP!FinishInv
<1>3. ticket' = [ticket EXCEPT ![r] = "none"]
  BY <1>1 DEF BP!Success, BP!Failure, BP!Release, BP!Settle
<1>4. ticket \in [Requests -> {"none", "call", "probe"}]
  BY DEF BP!IInv, BP!TypeOK
<1> QED
  BY <1>2, <1>3, <1>4 DEF TicketsOfOthers

LEMMA CircuitUnchanged ==
  ASSUME BP!IInv, UNCHANGED circuit
  PROVE  BP!IInv' /\ UNCHANGED ticket
<1>1. BP!IInv /\ [BP!Next]_(BP!vars) => BP!IInv'
  BY BoundsAssumption, BP!NextInv
<1> QED
  BY <1>1 DEF circuit, BP!vars

LEMMA CapacityUnchanged ==
  ASSUME CP!IInv, UNCHANGED capacity
  PROVE  CP!IInv' /\ UNCHANGED leases /\ Waiting' = Waiting
<1>1. CP!IInv /\ [CP!Next]_(CP!vars) => CP!IInv'
  BY CapacityConstants, CP!NextInv
<1> QED
  BY <1>1 DEF capacity, CP!vars, Waiting, C!Waits

\* Invocation.finish: the ticket of a request with a lease is settled by the first
\* verdict, which stays.
LEMMA FinishEffect ==
  ASSUME IInv, NEW r \in Requests, r \in leases, NEW o \in Outcomes, Finish(r, o)
  PROVE  /\ BP!IInv' /\ ticket'[r] = "none" /\ TicketsOfOthers(r)
         /\ outcome' = [outcome EXCEPT ![r] = IF @ = "none" THEN o ELSE @]
         /\ outcome' \in [Requests -> Outcomes \union {"none"}]
         /\ measured' \in [Requests -> 0..2] /\ measured'[r] = 1
         /\ \A q \in Requests \ {r} : measured'[q] = measured[q]
<1>1. MeasureInv(r) /\ OwnTypes
  BY DEF IInv, RequestInv
<1>2. CASE outcome[r] = "none"
  <2>1. ticket[r] # "none" /\ TicketFinish(r, o) /\ Record(r, o)
    BY <1>1, <1>2 DEF MeasureInv, Finish
  <2>2. B!Success(r) \/ B!Failure(r) \/ B!Release(r)
    BY <2>1 DEF TicketFinish
  <2>3. BP!IInv' /\ ticket'[r] = "none" /\ TicketsOfOthers(r)
    BY <2>2, SettleEffect DEF IInv
  <2> QED
    BY <1>1, <1>2, <2>1, <2>3 DEF Record, OwnTypes, MeasureInv
<1>3. CASE outcome[r] # "none"
  <2>1. UNCHANGED <<circuit, outcome, measured>> /\ ticket[r] = "none"
    BY <1>1, <1>3 DEF Finish, MeasureInv
  <2>2. BP!IInv' /\ UNCHANGED ticket
    BY <2>1, CircuitUnchanged DEF IInv
  <2> QED
    BY <1>1, <1>3, <2>1, <2>2 DEF OwnTypes, MeasureInv, TicketsOfOthers
<1> QED
  BY <1>2, <1>3
-------------------------------------------------------------------------------
\* A step of one request leaves the others as they are.
LEMMA OthersKept ==
  ASSUME IInv, NEW r \in Requests, CP!IInv', BP!IInv', OwnTypes', RequestInv(r)',
         leases' \ {r} = leases \ {r}, Waiting' \ {r} = Waiting \ {r},
         TicketsOfOthers(r),
         \A q \in Requests \ {r} :
           /\ pc'[q] = pc[q] /\ upstream'[q] = upstream[q]
           /\ outcome'[q] = outcome[q] /\ measured'[q] = measured[q]
           /\ reply'[q] = reply[q]
  PROVE  IInv'
<1>1. ASSUME NEW q \in Requests \ {r} PROVE RequestInv(q)'
  <2>1. RequestInv(q)
    BY DEF IInv
  <2>2. /\ pc'[q] = pc[q] /\ upstream'[q] = upstream[q] /\ ticket'[q] = ticket[q]
        /\ outcome'[q] = outcome[q] /\ measured'[q] = measured[q]
        /\ reply'[q] = reply[q] /\ (q \in leases' <=> q \in leases)
    BY DEF TicketsOfOthers
  <2>3. C!Waits(q)' <=> C!Waits(q)
    BY DEF Waiting
  <2>4. PlaceInv(q)'
    BY <2>1, <2>2, <2>3 DEF RequestInv, PlaceInv
  <2> QED
    BY <2>1, <2>2, <2>4 DEF RequestInv, MeasureInv, VerdictInv, ProgressInv
<1> QED
  BY <1>1 DEF IInv

\* A request with a lease goes on to another await and keeps the lease.
LEMMA MoveStep ==
  ASSUME IInv, NEW r \in Requests, r \in leases, UNCHANGED capacity,
         UNCHANGED <<circuit, outcome, measured>> \/ \E o \in Outcomes : Finish(r, o),
         TaskTypes', pc'[r] \in {"collecting", "closing"} \union Streaming,
         \A q \in Requests \ {r} :
           pc'[q] = pc[q] /\ upstream'[q] = upstream[q] /\ reply'[q] = reply[q],
         VerdictInv(r)', ProgressInv(r)'
  PROVE  IInv'
<1>1. CP!IInv' /\ leases' = leases /\ Waiting' = Waiting
  BY CapacityUnchanged DEF IInv
<1>2. PlaceInv(r)'
  <2>1. r \notin Waiting
    BY DEF IInv, RequestInv, PlaceInv, Waiting
  <2>2. ~C!Waits(r)'
    BY <1>1, <2>1 DEF Waiting
  <2> QED
    BY <1>1, <2>2 DEF PlaceInv, Streaming, Sends
<1>3. CASE UNCHANGED <<circuit, outcome, measured>>
  <2>1. BP!IInv' /\ UNCHANGED ticket
    BY <1>3, CircuitUnchanged DEF IInv
  <2>2. OwnTypes' /\ TicketsOfOthers(r)
    BY <1>3, <2>1 DEF IInv, OwnTypes, TicketsOfOthers
  <2>3. MeasureInv(r)'
    BY <1>1, <1>3, <2>1 DEF IInv, RequestInv, MeasureInv
  <2> QED
    BY <1>1, <1>2, <1>3, <2>1, <2>2, <2>3, OthersKept DEF RequestInv
<1>4. ASSUME NEW o \in Outcomes, Finish(r, o) PROVE IInv'
  <2>1. /\ BP!IInv' /\ ticket'[r] = "none" /\ TicketsOfOthers(r)
        /\ outcome' = [outcome EXCEPT ![r] = IF @ = "none" THEN o ELSE @]
        /\ outcome' \in [Requests -> Outcomes \union {"none"}]
        /\ measured' \in [Requests -> 0..2] /\ measured'[r] = 1
        /\ \A q \in Requests \ {r} : measured'[q] = measured[q]
    BY <1>4, FinishEffect
  <2>2. OwnTypes'
    BY <2>1 DEF OwnTypes
  <2>3. outcome'[r] # "none"
    BY <2>1 DEF IInv, OwnTypes, Outcomes
  <2>4. MeasureInv(r)'
    BY <2>1, <2>3 DEF MeasureInv
  <2>5. \A q \in Requests \ {r} : outcome'[q] = outcome[q]
    BY <2>1
  <2> QED
    BY <1>1, <1>2, <2>1, <2>2, <2>4, <2>5, OthersKept DEF RequestInv
<1> QED
  BY <1>3, <1>4

\* A request with a lease is over and gives it back.
LEMMA EndStep ==
  ASSUME IInv, NEW r \in Requests, NEW o \in Outcomes,
         Finish(r, o), C!Close(r), EndRequest(r),
         upstream' \in [Requests -> {"none", "open", "ended", "abandoned"}],
         upstream'[r] \in {"none", "abandoned"},
         \A q \in Requests \ {r} : upstream'[q] = upstream[q]
  PROVE  IInv'
<1>1. CP!IInv' /\ r \in leases /\ leases' = leases \ {r} /\ Waiting' = Waiting
  BY CloseEffect DEF IInv, C!Close
<1>2. /\ BP!IInv' /\ ticket'[r] = "none" /\ TicketsOfOthers(r)
      /\ outcome' = [outcome EXCEPT ![r] = IF @ = "none" THEN o ELSE @]
      /\ outcome' \in [Requests -> Outcomes \union {"none"}]
      /\ measured' \in [Requests -> 0..2] /\ measured'[r] = 1
      /\ \A q \in Requests \ {r} : measured'[q] = measured[q]
  BY <1>1, FinishEffect
<1>3. /\ pc' = [pc EXCEPT ![r] = "idle"] /\ reply' = [reply EXCEPT ![r] = "none"]
      /\ halting' = [halting EXCEPT ![r] = FALSE] /\ stopping' = stopping
  BY DEF EndRequest, Goto
<1>4. pc'[r] = "idle" /\ reply'[r] = "none" /\ outcome'[r] # "none"
  BY <1>2, <1>3 DEF IInv, OwnTypes, TaskTypes, Outcomes
<1>5. OwnTypes'
  BY <1>2, <1>3 DEF IInv, OwnTypes, TaskTypes
<1>6. ~C!Waits(r)'
  BY <1>1 DEF IInv, RequestInv, PlaceInv, Waiting
<1>7. RequestInv(r)'
  BY <1>1, <1>2, <1>4, <1>6
  DEF RequestInv, PlaceInv, MeasureInv, VerdictInv, ProgressInv
<1>8. \A q \in Requests \ {r} :
        /\ pc'[q] = pc[q] /\ reply'[q] = reply[q] /\ outcome'[q] = outcome[q]
  BY <1>2, <1>3
<1> QED
  BY <1>1, <1>2, <1>5, <1>7, <1>8, OthersKept
-------------------------------------------------------------------------------
\* A request is admitted or joins the queue.
LEMMA BeginStep ==
  ASSUME IInv, NEW r \in Requests, Enter(r) \/ Enqueue(r)
  PROVE  IInv'
<1>1. /\ pc[r] = "idle" /\ B!Acquire(r)
      /\ upstream' = [upstream EXCEPT ![r] = "none"]
      /\ outcome' = [outcome EXCEPT ![r] = "none"]
      /\ measured' = [measured EXCEPT ![r] = 0]
      /\ UNCHANGED <<reply, halting, stopping>>
  BY DEF Enter, Enqueue, Begin
<1>2. BP!IInv' /\ ticket'[r] # "none" /\ TicketsOfOthers(r)
  BY <1>1, AcquireEffect DEF IInv
<1>3. OwnTypes /\ RequestInv(r) /\ r \notin leases /\ r \notin Waiting
  BY <1>1 DEF IInv, RequestInv, PlaceInv, Waiting
<1>4. /\ upstream'[r] = "none" /\ outcome'[r] = "none" /\ measured'[r] = 0
      /\ reply'[r] = "none"
  BY <1>1, <1>3 DEF OwnTypes, TaskTypes, RequestInv, ProgressInv
<1>5. \A q \in Requests \ {r} :
        /\ upstream'[q] = upstream[q] /\ outcome'[q] = outcome[q]
        /\ measured'[q] = measured[q] /\ reply'[q] = reply[q]
  BY <1>1
<1>6. CASE Enter(r)
  <2>1. CP!IInv' /\ leases' = leases \union {r} /\ Waiting' = Waiting
    BY <1>6, EnterEffect DEF Enter, IInv
  <2>2. pc' = [pc EXCEPT ![r] = "opening"]
    BY <1>6 DEF Enter, Goto
  <2>3. pc'[r] = "opening" /\ OwnTypes' /\ \A q \in Requests \ {r} : pc'[q] = pc[q]
    BY <1>1, <1>3, <2>2 DEF OwnTypes, TaskTypes
  <2>4. ~C!Waits(r)'
    BY <1>3, <2>1 DEF Waiting
  <2>5. RequestInv(r)'
    BY <1>2, <1>4, <2>1, <2>3, <2>4
    DEF RequestInv, PlaceInv, MeasureInv, VerdictInv, ProgressInv
  <2> QED
    BY <1>2, <1>5, <2>1, <2>3, <2>5, OthersKept
<1>7. CASE Enqueue(r)
  <2>1. CP!IInv' /\ leases' = leases /\ Waiting' = Waiting \union {r}
    BY <1>7, EnqueueEffect DEF Enqueue, IInv
  <2>2. pc' = [pc EXCEPT ![r] = "queued"]
    BY <1>7 DEF Enqueue, Goto
  <2>3. pc'[r] = "queued" /\ OwnTypes' /\ \A q \in Requests \ {r} : pc'[q] = pc[q]
    BY <1>1, <1>3, <2>2 DEF OwnTypes, TaskTypes
  <2>4. C!Waits(r)'
    BY <2>1 DEF Waiting
  <2>5. RequestInv(r)'
    BY <1>2, <1>3, <1>4, <2>1, <2>3, <2>4
    DEF RequestInv, PlaceInv, MeasureInv, VerdictInv, ProgressInv
  <2> QED
    BY <1>2, <1>5, <2>1, <2>3, <2>5, OthersKept
<1> QED
  BY <1>6, <1>7

\* The wait in the queue is interrupted, or ends.
LEMMA QueueStep ==
  ASSUME IInv, NEW r \in Requests,
         \/ Resume(r) \/ Abandon(r) \/ WaitTimesOut(r)
         \/ pc[r] = "queued" /\ C!Cancel(r) /\ UNCHANGED <<circuit, pc, invocation, stopping>>
  PROVE  IInv'
<1>1. /\ pc[r] = "queued"
      /\ UNCHANGED <<upstream, outcome, measured, reply, halting, stopping>>
  BY DEF Resume, Abandon, WaitTimesOut, invocation
<1>2. OwnTypes /\ RequestInv(r) /\ r \notin leases /\ r \in Waiting
  BY <1>1 DEF IInv, RequestInv, PlaceInv, Waiting
<1>3. CASE Resume(r)
  <2>1. CP!IInv' /\ leases' = leases \union {r} /\ Waiting' = Waiting \ {r}
    BY <1>3, ResumeEffect DEF Resume, IInv
  <2>2. BP!IInv' /\ UNCHANGED ticket
    BY <1>3, CircuitUnchanged DEF Resume, IInv
  <2>3. pc' = [pc EXCEPT ![r] = "opening"]
    BY <1>3 DEF Resume, Goto
  <2>4. pc'[r] = "opening" /\ OwnTypes' /\ \A q \in Requests \ {r} : pc'[q] = pc[q]
    BY <1>1, <1>2, <2>3 DEF OwnTypes, TaskTypes
  <2>5. ~C!Waits(r)'
    BY <2>1 DEF Waiting
  <2>6. RequestInv(r)'
    BY <1>1, <1>2, <2>1, <2>2, <2>4, <2>5
    DEF RequestInv, PlaceInv, MeasureInv, VerdictInv, ProgressInv
  <2>7. TicketsOfOthers(r)
    BY <2>2 DEF TicketsOfOthers
  <2> QED
    BY <1>1, <2>1, <2>2, <2>4, <2>6, <2>7, OthersKept
<1>4. CASE Abandon(r)
  <2>1. CP!IInv' /\ leases' = leases /\ Waiting' = Waiting \ {r}
    BY <1>4, AbandonEffect DEF Abandon, IInv
  <2>2. BP!IInv' /\ ticket'[r] = "none" /\ TicketsOfOthers(r)
    BY <1>4, SettleEffect DEF Abandon, IInv
  <2>3. pc' = [pc EXCEPT ![r] = "idle"]
    BY <1>4 DEF Abandon, Goto
  <2>4. pc'[r] = "idle" /\ OwnTypes' /\ \A q \in Requests \ {r} : pc'[q] = pc[q]
    BY <1>1, <1>2, <2>3 DEF OwnTypes, TaskTypes
  <2>5. ~C!Waits(r)'
    BY <2>1 DEF Waiting
  <2>6. RequestInv(r)'
    BY <1>1, <1>2, <2>1, <2>2, <2>4, <2>5
    DEF RequestInv, PlaceInv, MeasureInv, VerdictInv, ProgressInv
  <2> QED
    BY <1>1, <2>1, <2>2, <2>4, <2>6, OthersKept
<1>5. CASE /\ C!WaitTimesOut(r) \/ C!Cancel(r)
           /\ UNCHANGED <<circuit, pc>>
  <2>1. CP!IInv' /\ leases' = leases /\ Waiting' = Waiting
    BY <1>5, InterruptEffect DEF IInv
  <2>2. BP!IInv' /\ UNCHANGED ticket /\ UNCHANGED pc
    BY <1>5, CircuitUnchanged DEF IInv
  <2>3. OwnTypes' /\ TicketsOfOthers(r)
    BY <1>1, <1>2, <2>2 DEF OwnTypes, TaskTypes, TicketsOfOthers
  <2>4. C!Waits(r)'
    BY <1>2, <2>1 DEF Waiting
  <2>5. RequestInv(r)'
    BY <1>1, <1>2, <2>1, <2>2, <2>4
    DEF RequestInv, PlaceInv, MeasureInv, VerdictInv, ProgressInv
  <2> QED
    BY <1>1, <2>1, <2>2, <2>3, <2>5, OthersKept
<1> QED
  BY <1>3, <1>4, <1>5 DEF WaitTimesOut
-------------------------------------------------------------------------------
\* What is known of a request that has its lease.
LEMMA Holder ==
  ASSUME IInv, NEW r \in Requests,
         pc[r] \in {"opening", "collecting", "closing"} \union Streaming
  PROVE  /\ r \in leases /\ TaskTypes
         /\ outcome \in [Requests -> Outcomes \union {"none"}]
         /\ PlaceInv(r) /\ VerdictInv(r) /\ ProgressInv(r)
  BY DEF IInv, OwnTypes, RequestInv, PlaceInv, Streaming, Sends

\* A step without a verdict: the answer goes on, or its tasks are told to stop.
LEMMA WithoutVerdict ==
  ASSUME IInv, NEW r \in Requests,
         \/ Opened(r) \/ StartSent(r) \/ NextPiece(r) \/ ChunkSent(r) \/ StreamEnds(r)
         \/ StreamCrashes(r) \/ ErrorSent(r) \/ FinalSent(r) \/ Halted(r)
         \/ pc[r] = "collecting" /\ SenderEnds(r) /\ UNCHANGED <<circuit, outcome, measured>>
         \/ pc[r] \in Streaming /\ Halt(r) /\ UNCHANGED <<circuit, outcome, measured>>
  PROVE  IInv'
<1> USE DEF Goto, Proceed, SenderEnds, Streaming, Sends
<1>1. /\ pc[r] \in {"opening", "collecting", "closing"} \union Streaming
      /\ UNCHANGED <<capacity, circuit, outcome, measured, stopping>>
  BY DEF Opened, StartSent, NextPiece, ChunkSent, StreamEnds, StreamCrashes, ErrorSent,
         FinalSent, Halted, Halt
<1>2. /\ r \in leases /\ TaskTypes /\ PlaceInv(r) /\ VerdictInv(r) /\ ProgressInv(r)
  BY <1>1, Holder
<1>3. leases' = leases /\ outcome' = outcome
  BY <1>1 DEF capacity
<1>4. CASE Opened(r)
  <2>1. PICK l \in {"start", "collecting"} : pc' = [pc EXCEPT ![r] = l]
    BY <1>4 DEF Opened
  <2>2. /\ pc[r] = "opening" /\ upstream' = [upstream EXCEPT ![r] = "open"]
        /\ UNCHANGED <<reply, halting>>
    BY <1>4 DEF Opened
  <2>3. /\ TaskTypes' /\ pc'[r] = l
        /\ \A q \in Requests \ {r} : pc'[q] = pc[q] /\ upstream'[q] = upstream[q]
    BY <1>1, <1>2, <2>1, <2>2 DEF TaskTypes
  <2>4. VerdictInv(r)' /\ ProgressInv(r)'
    BY <1>2, <1>3, <2>2, <2>3 DEF PlaceInv, VerdictInv, ProgressInv
  <2> QED
    BY <1>1, <1>2, <2>2, <2>3, <2>4, MoveStep
<1>5. CASE StartSent(r) \/ ErrorSent(r)
  <2>1. /\ \/ pc[r] = "start" /\ reply' = [reply EXCEPT ![r] = "headers"]
                              /\ pc' = [pc EXCEPT ![r] = "next"]
           \/ pc[r] = "error" /\ reply' = [reply EXCEPT ![r] = "error"]
                              /\ pc' = [pc EXCEPT ![r] = "final"]
        /\ UNCHANGED <<upstream, halting>>
    BY <1>5 DEF StartSent, ErrorSent
  <2>2. /\ \/ pc[r] = "start" /\ pc'[r] = "next" /\ reply'[r] = "headers"
           \/ pc[r] = "error" /\ pc'[r] = "final" /\ reply'[r] = "error"
        /\ TaskTypes'
        /\ \A q \in Requests \ {r} : pc'[q] = pc[q] /\ reply'[q] = reply[q]
    BY <1>1, <1>2, <2>1 DEF TaskTypes
  <2>3. VerdictInv(r)' /\ ProgressInv(r)'
    BY <1>2, <1>3, <2>2 DEF VerdictInv, ProgressInv
  <2> QED
    BY <1>1, <1>2, <2>1, <2>2, <2>3, MoveStep
<1>6. CASE NextPiece(r) \/ ChunkSent(r)
  <2>1. /\ \/ pc[r] = "next" /\ pc' = [pc EXCEPT ![r] = "chunk"]
           \/ pc[r] = "chunk" /\ pc' = [pc EXCEPT ![r] = "next"]
        /\ UNCHANGED <<upstream, reply, halting>>
    BY <1>6 DEF NextPiece, ChunkSent
  <2>2. /\ pc[r] \in {"next", "chunk"} /\ pc'[r] \in {"next", "chunk"}
        /\ TaskTypes' /\ \A q \in Requests \ {r} : pc'[q] = pc[q]
    BY <1>1, <1>2, <2>1 DEF TaskTypes
  <2>3. VerdictInv(r)' /\ ProgressInv(r)'
    BY <1>2, <1>3, <2>1, <2>2 DEF VerdictInv, ProgressInv
  <2> QED
    BY <1>1, <1>2, <2>1, <2>2, <2>3, MoveStep
<1>7. CASE StreamEnds(r)
  <2>1. /\ pc[r] = "next" /\ upstream' = [upstream EXCEPT ![r] = "ended"]
        /\ pc' = [pc EXCEPT ![r] = "last"] /\ UNCHANGED <<reply, halting>>
    BY <1>7 DEF StreamEnds
  <2>2. /\ pc'[r] = "last" /\ upstream'[r] = "ended" /\ TaskTypes'
        /\ \A q \in Requests \ {r} : pc'[q] = pc[q] /\ upstream'[q] = upstream[q]
    BY <1>1, <1>2, <2>1 DEF TaskTypes
  <2>3. VerdictInv(r)' /\ ProgressInv(r)'
    BY <1>2, <1>3, <2>1, <2>2 DEF VerdictInv, ProgressInv
  <2> QED
    BY <1>1, <1>2, <2>1, <2>2, <2>3, MoveStep
<1>8. CASE SenderEnds(r)
  <2>1. pc' = [pc EXCEPT ![r] = "closing"] /\ UNCHANGED <<upstream, reply, halting>>
    BY <1>8
  <2>2. pc'[r] = "closing" /\ TaskTypes' /\ \A q \in Requests \ {r} : pc'[q] = pc[q]
    BY <1>1, <1>2, <2>1 DEF TaskTypes
  <2>3. VerdictInv(r)' /\ ProgressInv(r)'
    BY <1>2, <1>3, <2>1, <2>2 DEF VerdictInv, ProgressInv
  <2> QED
    BY <1>1, <1>2, <2>1, <2>2, <2>3, MoveStep
<1>9. CASE pc[r] \in Streaming /\ Halt(r)
  <2>1. /\ halting' = [halting EXCEPT ![r] = TRUE] /\ UNCHANGED <<pc, upstream, reply>>
    BY <1>9 DEF Halt
  <2>2. TaskTypes'
    BY <1>1, <1>2, <2>1 DEF TaskTypes
  <2>3. VerdictInv(r)' /\ ProgressInv(r)'
    BY <1>2, <1>3, <2>1 DEF VerdictInv, ProgressInv
  <2> QED
    BY <1>1, <1>2, <1>9, <2>1, <2>2, <2>3, MoveStep
<1> QED
  BY <1>4, <1>5, <1>6, <1>7, <1>8, <1>9 DEF StreamCrashes, FinalSent, Halted

\* The verdict of a step, seen at the request: the first one stays.
LEMMA VerdictSeen ==
  ASSUME IInv, NEW r \in Requests, r \in leases, NEW o \in Outcomes, Finish(r, o)
  PROVE  outcome'[r] = IF outcome[r] = "none" THEN o ELSE outcome[r]
  BY FinishEffect DEF IInv, OwnTypes

\* A verdict after which the sending task has only an error event or nothing to
\* send, or the handler cleans up.
LEMMA WithFailure ==
  ASSUME IInv, NEW r \in Requests, NEW o \in Outcomes \ {"success"}, Finish(r, o),
         UNCHANGED <<capacity, upstream, reply, halting, stopping>>,
         \/ pc[r] \in {"next", "chunk", "last"} /\ pc' = [pc EXCEPT ![r] = "error"]
         \/ /\ pc[r] \in {"collecting"} \union Sends
            /\ pc' = [pc EXCEPT ![r] = "closing"]
  PROVE  IInv'
<1>1. pc[r] \in {"opening", "collecting", "closing"} \union Streaming
  BY DEF Streaming, Sends
<1>2. /\ r \in leases /\ TaskTypes /\ VerdictInv(r) /\ ProgressInv(r)
      /\ outcome \in [Requests -> Outcomes \union {"none"}]
  BY <1>1, Holder
<1>3. outcome'[r] = IF outcome[r] = "none" THEN o ELSE outcome[r]
  BY <1>2, VerdictSeen
<1>4. leases' = leases
  BY DEF capacity
<1>5. /\ \/ pc[r] \in {"next", "chunk", "last"} /\ pc'[r] = "error"
         \/ pc'[r] = "closing"
      /\ TaskTypes' /\ \A q \in Requests \ {r} : pc'[q] = pc[q]
  BY <1>2 DEF TaskTypes, Streaming, Sends
<1>6. VerdictInv(r)' /\ ProgressInv(r)'
  BY <1>2, <1>3, <1>4, <1>5 DEF VerdictInv, ProgressInv, Outcomes
<1>7. pc'[r] \in {"collecting", "closing"} \union Streaming
  BY <1>5 DEF Streaming, Sends
<1> QED
  BY <1>2, <1>5, <1>6, <1>7, MoveStep

\* The answer has been collected, or [DONE] is with the client.
LEMMA WithSuccess ==
  ASSUME IInv, NEW r \in Requests, Collected(r) \/ LastSent(r)
  PROVE  IInv'
<1>1. /\ pc[r] \in {"opening", "collecting", "closing"} \union Streaming
      /\ Finish(r, "success") /\ UNCHANGED <<capacity, halting, stopping>>
  BY DEF Collected, LastSent, Streaming, Sends
<1>2. /\ r \in leases /\ TaskTypes /\ VerdictInv(r) /\ ProgressInv(r)
      /\ outcome \in [Requests -> Outcomes \union {"none"}]
  BY <1>1, Holder
<1>3. /\ "success" \in Outcomes
      /\ outcome'[r] = IF outcome[r] = "none" THEN "success" ELSE outcome[r]
  BY <1>1, <1>2, VerdictSeen DEF Outcomes
<1>4. leases' = leases
  BY <1>1 DEF capacity
<1>5. CASE Collected(r)
  <2>1. /\ pc[r] = "collecting" /\ pc' = [pc EXCEPT ![r] = "closing"]
        /\ upstream' = [upstream EXCEPT ![r] = "ended"] /\ UNCHANGED reply
    BY <1>5 DEF Collected, Goto
  <2>2. /\ pc'[r] = "closing" /\ TaskTypes'
        /\ \A q \in Requests \ {r} : pc'[q] = pc[q] /\ upstream'[q] = upstream[q]
    BY <1>1, <1>2, <2>1 DEF TaskTypes
  <2>3. VerdictInv(r)' /\ ProgressInv(r)'
    BY <1>2, <1>3, <2>1, <2>2 DEF VerdictInv, ProgressInv
  <2> QED
    BY <1>1, <1>2, <1>3, <2>1, <2>2, <2>3, MoveStep
<1>6. CASE LastSent(r)
  <2>1. /\ pc[r] = "last" /\ pc' = [pc EXCEPT ![r] = "final"]
        /\ reply' = [reply EXCEPT ![r] = "done"] /\ UNCHANGED upstream
    BY <1>6 DEF LastSent, Goto
  <2>2. /\ pc'[r] = "final" /\ reply'[r] = "done" /\ TaskTypes'
        /\ \A q \in Requests \ {r} : pc'[q] = pc[q] /\ reply'[q] = reply[q]
    BY <1>1, <1>2, <2>1 DEF TaskTypes, Streaming, Sends
  <2>3. VerdictInv(r)' /\ ProgressInv(r)'
    BY <1>2, <1>3, <1>4, <2>1, <2>2 DEF VerdictInv, ProgressInv
  <2>4. pc'[r] \in Streaming
    BY <2>2 DEF Streaming, Sends
  <2> QED
    BY <1>1, <1>2, <1>3, <2>1, <2>2, <2>3, <2>4, MoveStep
<1> QED
  BY <1>5, <1>6

\* The client goes while its answer is sent.
LEMMA DisconnectStep ==
  ASSUME IInv, NEW r \in Requests, Disconnect(r)
  PROVE  IInv'
<1>1. /\ pc[r] \in Streaming /\ Finish(r, "cancelled") /\ "cancelled" \in Outcomes
      /\ halting' = [halting EXCEPT ![r] = TRUE]
      /\ UNCHANGED <<capacity, pc, upstream, reply, stopping>>
  BY DEF Disconnect, Halt, Outcomes
<1>2. /\ r \in leases /\ TaskTypes /\ VerdictInv(r) /\ ProgressInv(r)
  BY <1>1, Holder
<1>3. outcome'[r] = IF outcome[r] = "none" THEN "cancelled" ELSE outcome[r]
  BY <1>1, <1>2, VerdictSeen
<1>4. TaskTypes' /\ leases' = leases
  BY <1>1, <1>2 DEF TaskTypes, capacity
<1>5. VerdictInv(r)' /\ ProgressInv(r)'
  BY <1>1, <1>2, <1>3, <1>4 DEF VerdictInv, ProgressInv
<1> QED
  BY <1>1, <1>2, <1>4, <1>5, MoveStep
-------------------------------------------------------------------------------
LEMMA InitInv == Init => IInv
<1> SUFFICES ASSUME Init PROVE IInv
  OBVIOUS
<1>1. CP!IInv
  <2>1. CP!Init => CP!IInv
    BY CapacityConstants, CP!InitInv
  <2> QED
    BY <2>1 DEF Init, C!Init, CP!Init
<1>2. BP!IInv
  <2>1. BP!Init => BP!IInv
    BY BoundsAssumption, BP!InitInv
  <2> QED
    BY <2>1 DEF Init, B!Init, BP!Init
<1>3. OwnTypes
  <2>1. 0 \in 0..2
    OBVIOUS
  <2> QED
    BY <2>1, Zenon DEF Init, OwnTypes, TaskTypes
<1>4. ASSUME NEW r \in Requests PROVE RequestInv(r)
  <2>1. r \notin leases /\ ~C!Waits(r) /\ ticket[r] = "none"
    BY DEF Init, C!Init, B!Init, C!Waits
  <2> QED
    BY <2>1 DEF Init, RequestInv, PlaceInv, MeasureInv, VerdictInv, ProgressInv
<1> QED
  BY <1>1, <1>2, <1>3, <1>4 DEF IInv

\* The handler ends before there is a stream, or close has run to its end.
LEMMA CleanupStep ==
  ASSUME IInv, NEW r \in Requests,
         \/ \E o \in Outcomes : OpenEnds(r, o)
         \/ AcloseReturns(r) \/ AcloseCutOff(r)
  PROVE  IInv'
<1>1. CASE \E o \in Outcomes : OpenEnds(r, o)
  <2>1. PICK o \in Outcomes : OpenEnds(r, o)
    BY <1>1
  <2>2. /\ pc[r] = "opening" /\ upstream' = upstream
        /\ Finish(r, o) /\ C!Close(r) /\ EndRequest(r)
    BY <2>1 DEF OpenEnds
  <2>3. upstream[r] = "none" /\ TaskTypes
    BY <2>2, Holder DEF PlaceInv
  <2> QED
    BY <2>2, <2>3, EndStep DEF TaskTypes
<1>2. CASE AcloseReturns(r) \/ AcloseCutOff(r)
  <2>1. PICK u \in {"none", "abandoned"} : upstream' = [upstream EXCEPT ![r] = u]
    BY <1>2 DEF AcloseReturns, AcloseCutOff
  <2>2. /\ Finish(r, "cancelled") /\ C!Close(r) /\ EndRequest(r)
        /\ "cancelled" \in Outcomes
    BY <1>2 DEF AcloseReturns, AcloseCutOff, Close, Outcomes
  <2> QED
    BY <2>1, <2>2, EndStep DEF IInv, OwnTypes, TaskTypes
<1> QED
  BY <1>1, <1>2

LEMMA NextInv == IInv /\ [Next]_vars => IInv'
<1> SUFFICES ASSUME IInv, [Next]_vars PROVE IInv'
  OBVIOUS
<1>1. ASSUME UNCHANGED <<capacity, pc, invocation>>, stopping' \in BOOLEAN, BP!IInv',
             UNCHANGED ticket
      PROVE  IInv'
  <2>1. CP!IInv' /\ leases' = leases /\ Waiting' = Waiting
    BY <1>1, CapacityUnchanged DEF IInv
  <2>2. OwnTypes'
    BY <1>1 DEF IInv, OwnTypes, TaskTypes, invocation
  <2>3. ASSUME NEW r \in Requests PROVE RequestInv(r)'
    <3>1. C!Waits(r)' <=> C!Waits(r)
      BY <2>1 DEF Waiting
    <3> QED
      BY <1>1, <2>1, <3>1
      DEF IInv, RequestInv, PlaceInv, MeasureInv, VerdictInv, ProgressInv, invocation
  <2> QED
    BY <1>1, <2>1, <2>2, <2>3 DEF IInv
<1>2. CASE UNCHANGED vars
  BY <1>1, <1>2, CircuitUnchanged DEF vars, IInv, OwnTypes, TaskTypes
<1>3. CASE Shutdown
  BY <1>1, <1>3, CircuitUnchanged DEF Shutdown, IInv
<1>4. CASE HoldDownPasses
  <2>1. BP!IInv /\ [BP!Next]_(BP!vars) => BP!IInv'
    BY BoundsAssumption, BP!NextInv
  <2>2. BP!Tick /\ UNCHANGED ticket
    BY <1>4 DEF HoldDownPasses, B!Tick, BP!Tick
  <2> QED
    BY <1>1, <1>4, <2>1, <2>2
    DEF HoldDownPasses, BP!Next, IInv, OwnTypes, TaskTypes
<1>5. ASSUME NEW r \in Requests,
             \/ Admission(r) \/ ModelCall(r) \/ Sent(r) \/ SendFails(r) \/ Cleanup(r)
             \/ WaitTimesOut(r) \/ DeadlineFires(r) \/ Disconnect(r) \/ Cancel(r)
      PROVE  IInv'
  <2>1. CASE Admission(r)
    BY <1>2, <2>1, BeginStep, QueueStep DEF Admission, TurnAway
  <2>2. CASE ModelCall(r)
    <3>1. CASE Opened(r) \/ NextPiece(r) \/ StreamEnds(r) \/ StreamCrashes(r)
      BY <3>1, WithoutVerdict
    <3>2. CASE OpenFails(r)
      BY <3>2, CleanupStep DEF OpenFails
    <3>3. CASE Collected(r)
      BY <3>3, WithSuccess
    <3>4. CASE CollectFails(r)
      BY <3>4, WithFailure DEF CollectFails, Goto
    <3>5. CASE StreamFails(r)
      BY <3>5, WithFailure DEF StreamFails, Fail, Goto, Outcomes
    <3> QED
      BY <2>2, <3>1, <3>2, <3>3, <3>4, <3>5 DEF ModelCall
  <2>3. CASE Sent(r)
    BY <2>3, WithoutVerdict, WithSuccess DEF Sent
  <2>4. CASE SendFails(r)
    BY <2>4, WithFailure DEF SendFails, SenderEnds, Goto, Outcomes
  <2>5. CASE Cleanup(r)
    BY <2>5, WithoutVerdict, CleanupStep DEF Cleanup
  <2>6. CASE WaitTimesOut(r)
    BY <2>6, QueueStep
  <2>7. CASE DeadlineFires(r)
    <3>1. "timeout" \in Outcomes \ {"success"}
      BY DEF Outcomes
    <3>2. CASE OpenEnds(r, "timeout")
      BY <3>1, <3>2, CleanupStep
    <3>3. CASE pc[r] \in {"next", "chunk", "last"} /\ Fail(r, "timeout")
      BY <3>1, <3>3, WithFailure DEF Fail, Goto
    <3>4. CASE /\ pc[r] = "collecting"
               /\ Finish(r, "timeout")
               /\ Goto(r, "closing")
               /\ UNCHANGED <<capacity, upstream, reply, halting, stopping>>
      BY <3>1, <3>4, WithFailure DEF Goto
    <3> QED
      BY <2>7, <3>2, <3>3, <3>4 DEF DeadlineFires
  <2>8. CASE Disconnect(r)
    BY <2>8, DisconnectStep
  <2>9. CASE Cancel(r)
    <3>1. "cancelled" \in Outcomes
      BY DEF Outcomes
    <3> QED
      BY <2>9, <3>1, QueueStep, CleanupStep, WithoutVerdict DEF Cancel
  <2> QED
    BY <1>5, <2>1, <2>2, <2>3, <2>4, <2>5, <2>6, <2>7, <2>8, <2>9
<1> QED
  BY <1>2, <1>3, <1>4, <1>5 DEF Next
-------------------------------------------------------------------------------
\* The inductive invariant holds of every behaviour of the gateway.
THEOREM Invariance == Spec => []IInv
<1> QED
  BY InitInv, NextInv, PTL DEF Spec

\* The variables of the gateway, and of the alias's admission control and circuit
\* in it, keep their types: an invocation is never measured past 2, nor left at an
\* await the code does not have.
THEOREM TypeCorrect == Spec => []TypeOK
<1>1. IInv => TypeOK
  <2> SUFFICES ASSUME IInv PROVE TypeOK
    OBVIOUS
  <2>1. C!TypeOK
    BY DEF IInv, CP!IInv, C!TypeOK, CP!TypeOK, C!FutureState, CP!FutureState,
           C!Cause, CP!Cause
  <2>2. B!TypeOK
    BY DEF IInv, BP!IInv, B!TypeOK, BP!TypeOK
  <2> QED
    BY <2>1, <2>2 DEF IInv, OwnTypes, TaskTypes, TypeOK
<1> QED
  BY <1>1, Invariance, PTL

\* However a request ends (refused, timed out or cancelled in the queue, failed,
\* sent, disconnected, cut off), it leaves no permit, place in the queue or
\* unfinished ticket behind: the `finally` clauses of acquire and Invocation.close.
THEOREM NothingIsLeaked == Spec => []NothingLeaks
<1>1. IInv => NothingLeaks
  BY DEF IInv, RequestInv, PlaceInv, NothingLeaks
<1> QED
  BY <1>1, Invariance, PTL

\* A request that opens a model call, or has its response open, holds a permit; so
\* apart from responses whose cleanup was cut off the backend's connection pool is
\* never asked for more connections than there are permits.
THEOREM ConnectionsAreWithinLimit == Spec => []ConnectionsWithinLimit
<1> DEFINE Calls == {r \in Requests : pc[r] = "opening" \/ upstream[r] \in {"open", "ended"}}
<1>1. IInv => ConnectionsWithinLimit
  <2> SUFFICES ASSUME IInv PROVE ConnectionsWithinLimit
    OBVIOUS
  <2>1. Calls \subseteq leases
    BY DEF IInv, RequestInv, PlaceInv
  <2>2. leases \subseteq Requests /\ active \in 0..Limit /\ active = Cardinality(leases)
    <3>1. CP!Cardinality(leases) = Cardinality(leases)
      BY DEF CP!Cardinality, Cardinality
    <3> QED
      BY <3>1 DEF IInv, CP!IInv, CP!TypeOK, CP!PermitsConserved
  <2>3. IsFiniteSet(leases)
    BY <2>2, RequestsAssumption, FS_Subset
  <2>4. Cardinality(Calls) <= Cardinality(leases) /\ Cardinality(Calls) \in Nat
    BY <2>1, <2>3, FS_Subset, FS_CardinalityType
  <2> QED
    BY <2>2, <2>4, BoundsAssumption DEF ConnectionsWithinLimit
<1> QED
  BY <1>1, Invariance, PTL

\* Invocation.finish counts the first verdict and no other, and settles the
\* circuit's ticket with it.
THEOREM InvocationsAreMeasuredOnce == Spec => []MeasuredOnce
<1>1. IInv => MeasuredOnce
  BY DEF IInv, RequestInv, MeasureInv, MeasuredOnce
<1> QED
  BY <1>1, Invariance, PTL

\* The verdict and what the client of a streamed answer was sent agree, although a
\* disconnect may come between the two.
THEOREM VerdictsMatchReplies == Spec => []VerdictMatchesReply
<1>1. IInv => VerdictMatchesReply
  BY DEF IInv, RequestInv, VerdictInv, VerdictMatchesReply
<1> QED
  BY <1>1, Invariance, PTL
-------------------------------------------------------------------------------
\* The gateway is a Capacity and a CircuitBreaker.

\* What one request's step does to its admission and to its ticket.
LEMMA FinishSteps ==
  ASSUME NEW r \in Requests, NEW o, Finish(r, o)
  PROVE  [B!Next]_(B!vars)
<1>1. UNCHANGED circuit \/ B!Success(r) \/ B!Failure(r) \/ B!Release(r)
  BY DEF Finish, TicketFinish
<1> QED
  BY <1>1 DEF circuit, B!vars, B!Next

LEMMA OpenEndsSteps ==
  ASSUME NEW r \in Requests, NEW o, OpenEnds(r, o)
  PROVE  [C!Next]_(C!vars) /\ [B!Next]_(B!vars)
  BY FinishSteps DEF OpenEnds, C!Next, C!Step

LEMMA AdmissionSteps ==
  ASSUME NEW r \in Requests,
         Admission(r) \/ WaitTimesOut(r) \/ Disconnect(r) \/ Cancel(r)
  PROVE  [C!Next]_(C!vars) /\ [B!Next]_(B!vars)
<1>1. CASE TurnAway(r)
  BY <1>1 DEF TurnAway, vars, capacity, circuit, C!vars, B!vars
<1>2. CASE Enter(r) \/ Enqueue(r)
  BY <1>2 DEF Enter, Enqueue, Begin, C!Next, C!Step, B!Next
<1>3. CASE Resume(r) \/ WaitTimesOut(r)
  BY <1>3 DEF Resume, WaitTimesOut, C!Next, C!Step, circuit, B!vars
<1>4. CASE Abandon(r)
  BY <1>4 DEF Abandon, C!Next, C!Step, B!Next
<1>5. CASE Disconnect(r)
  BY <1>5, FinishSteps DEF Disconnect, Halt, capacity, C!vars
<1>6. CASE Cancel(r)
  <2>1. CASE C!Cancel(r) /\ UNCHANGED circuit
    BY <2>1 DEF C!Next, C!Step, circuit, B!vars
  <2>2. CASE UNCHANGED <<capacity, circuit>>
    BY <2>2 DEF capacity, circuit, C!vars, B!vars
  <2> QED
    BY <1>6, <2>1, <2>2, OpenEndsSteps DEF Cancel, SenderEnds, Halt
<1> QED
  BY <1>1, <1>2, <1>3, <1>4, <1>5, <1>6 DEF Admission

LEMMA AnswerSteps ==
  ASSUME NEW r \in Requests,
         ModelCall(r) \/ Sent(r) \/ SendFails(r) \/ Cleanup(r) \/ DeadlineFires(r)
  PROVE  [C!Next]_(C!vars) /\ [B!Next]_(B!vars)
<1>1. CASE UNCHANGED <<capacity, circuit>>
  BY <1>1 DEF capacity, circuit, C!vars, B!vars
<1>2. CASE UNCHANGED capacity /\ \E o : Finish(r, o)
  BY <1>2, FinishSteps DEF capacity, C!vars
<1>3. CASE \E o : OpenEnds(r, o)
  BY <1>3, OpenEndsSteps
<1>4. CASE AcloseReturns(r) \/ AcloseCutOff(r)
  BY <1>4, FinishSteps DEF AcloseReturns, AcloseCutOff, Close, C!Next, C!Step
<1>5. CASE ModelCall(r)
  BY <1>1, <1>2, <1>3, <1>5
  DEF ModelCall, Opened, OpenFails, Collected, CollectFails, NextPiece, StreamEnds,
      StreamFails, StreamCrashes, Proceed, Fail, SenderEnds
<1>6. CASE Sent(r) \/ SendFails(r)
  BY <1>1, <1>2, <1>6
  DEF Sent, StartSent, ChunkSent, LastSent, ErrorSent, FinalSent, SendFails, Proceed,
      SenderEnds
<1>7. CASE Cleanup(r) \/ DeadlineFires(r)
  BY <1>1, <1>2, <1>3, <1>4, <1>7
  DEF Cleanup, Halted, DeadlineFires, Fail, SenderEnds
<1> QED
  BY <1>5, <1>6, <1>7

LEMMA ComponentSteps == [Next]_vars => [C!Next]_(C!vars) /\ [B!Next]_(B!vars)
<1> SUFFICES ASSUME [Next]_vars PROVE [C!Next]_(C!vars) /\ [B!Next]_(B!vars)
  OBVIOUS
<1>1. CASE UNCHANGED vars \/ Shutdown
  BY <1>1 DEF vars, Shutdown, capacity, circuit, C!vars, B!vars
<1>2. CASE HoldDownPasses
  BY <1>2 DEF HoldDownPasses, B!Next, capacity, C!vars
<1>3. ASSUME NEW r \in Requests,
             \/ Admission(r) \/ ModelCall(r) \/ Sent(r) \/ SendFails(r) \/ Cleanup(r)
             \/ WaitTimesOut(r) \/ DeadlineFires(r) \/ Disconnect(r) \/ Cancel(r)
      PROVE  [C!Next]_(C!vars) /\ [B!Next]_(B!vars)
  BY <1>3, AdmissionSteps, AnswerSteps
<1> QED
  BY <1>1, <1>2, <1>3 DEF Next

\* The admission control of an alias is used by the requests in no other way than
\* Capacity allows: acquire, its wait and one close, on every path through a request.
THEOREM AdmitsAsCapacity == Spec => C!Init /\ [][C!Next]_(C!vars)
<1>1. Init => C!Init
  BY DEF Init
<1> QED
  BY <1>1, ComponentSteps, PTL DEF Spec

\* Likewise its circuit: a request finishes its ticket once, whatever ends it.
THEOREM CallsAsCircuitBreaker == Spec => B!Init /\ [][B!Next]_(B!vars)
<1>1. Init => B!Init
  BY DEF Init
<1> QED
  BY <1>1, ComponentSteps, PTL DEF Spec

\* So admission keeps, in the gateway, every permit and every wakeup, and bounds
\* the queue.
THEOREM AdmissionIsSafe ==
  Spec => [](C!PermitsConserved /\ C!NoLostWakeup /\ C!QueueExact)
<1>1. IInv => C!PermitsConserved /\ C!NoLostWakeup /\ C!QueueExact
  <2> SUFFICES ASSUME IInv PROVE C!PermitsConserved /\ C!NoLostWakeup /\ C!QueueExact
    OBVIOUS
  <2>1. \A S : C!Cardinality(S) = CP!Cardinality(S)
    BY DEF C!Cardinality, CP!Cardinality
  <2>2. CP!PermitsConserved /\ CP!NoLostWakeup /\ CP!QueueExact
    BY DEF IInv, CP!IInv
  <2> QED
    BY <2>1, <2>2, SameQueue
    DEF C!PermitsConserved, CP!PermitsConserved, C!NoLostWakeup, CP!NoLostWakeup,
        C!QueueExact, CP!QueueExact
<1> QED
  BY <1>1, Invariance, PTL

\* And the circuit, in the gateway, lets one probe through and is open exactly at
\* the threshold.
THEOREM CircuitIsSafe == Spec => [](B!SingleProbe /\ B!OpenIffThreshold)
<1>1. IInv => B!SingleProbe /\ B!OpenIffThreshold
  BY DEF IInv, BP!IInv, B!SingleProbe, BP!SingleProbe, B!Probes, BP!Probes,
         B!OpenIffThreshold, BP!OpenIffThreshold
<1> QED
  BY <1>1, Invariance, PTL

\* In the gateway as by itself, acquire and Lease.close are a first-come-first-served
\* pool of `limit` permits with a line of at most `max_queue`: no request, however it
\* ends, lets another one past somebody ahead or takes a permit along.
THEOREM ServesAsPool == Spec => CP!Pool!Init /\ [][CP!Pool!Next]_(CP!Pool!vars)
<1>1. Init => CP!Pool!Init
  <2>1. CP!Init => CP!Pool!Init
    BY CapacityConstants DEF CP!Init, CP!Pool!Init, CP!Pending, CP!Granted
  <2> QED
    BY <2>1 DEF Init, C!Init, CP!Init
<1>2. IInv /\ [Next]_vars => [CP!Pool!Next]_(CP!Pool!vars)
  <2> SUFFICES ASSUME IInv, [Next]_vars PROVE [CP!Pool!Next]_(CP!Pool!vars)
    OBVIOUS
  <2>1. C!vars = CP!vars /\ C!vars' = CP!vars'
    BY DEF C!vars, CP!vars
  <2>2. ASSUME NEW r \in Requests, C!Step(r) PROVE CP!Step(r) \/ UNCHANGED CP!vars
    BY <2>1, <2>2, SameActions
    DEF C!Step, CP!Step, C!Refuse, C!WaitTimesOut, CP!WaitTimesOut, C!Cancel, CP!Cancel,
        C!Overflow, CP!Overflow, C!Cancelled, CP!Cancelled
  <2>3. [CP!Next]_(CP!vars)
    BY <2>1, <2>2, ComponentSteps DEF C!Next, CP!Next
  <2> QED
    BY <2>3, CapacityConstants, CP!StepRefines DEF IInv
<1> QED
  BY <1>1, <1>2, Invariance, PTL DEF Spec
===============================================================================
