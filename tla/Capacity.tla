------------------------------- MODULE Capacity -------------------------------
(*****************************************************************************)
(* serving_lab/controls.py, classes Capacity and Lease: the admission        *)
(* control of one model alias on one event loop, together with the asyncio   *)
(* primitives it stands on (BoundedSemaphore and timeout of Python 3.12 and  *)
(* later), which are external and modelled from their documented behaviour.  *)
(*                                                                           *)
(* A step is what runs between two suspensions of the event loop.  A request *)
(* in Capacity.acquire suspends in one place only, awaiting the future it    *)
(* put in the semaphore's queue.  Until it runs again, the future may be     *)
(* granted, the wait may time out and the task may be cancelled, in every    *)
(* order: the outcome is decided when the task resumes.                      *)
(*                                                                           *)
(* The reporting-only high-water marks (peak_active, peak_waiting) are left  *)
(* out.                                                                      *)
(*****************************************************************************)
EXTENDS Naturals, Sequences, SequencesExt, FiniteSets

CONSTANTS Requests,   \* requests that may call acquire
          Limit,      \* Capacity.limit, permits of the semaphore
          MaxQueue    \* Capacity.max_queue

ASSUME RequestsAssumption == IsFiniteSet(Requests)
ASSUME LimitAssumption == Limit \in Nat \ {0}
ASSUME MaxQueueAssumption == MaxQueue \in Nat

VARIABLES active,     \* Capacity.active
          waiting,    \* Capacity.waiting
          value,      \* the semaphore's free permits
          waiters,    \* the semaphore's queue, oldest first
          future,     \* future[r]: state of r's entry in that queue
          counted,    \* requests whose local `queued` is true
          cause,      \* why r's task has been asked to stop waiting
          leases      \* requests with an open Lease

counters  == <<active, waiting, counted>>
semaphore == <<value, waiters, future>>
vars == <<active, waiting, value, waiters, future, counted, cause, leases>>

FutureState == {"none", "pending", "granted", "cancelled"}
Cause == {"timeout", "cancel"}

Init ==
  /\ active = 0
  /\ waiting = 0
  /\ value = Limit
  /\ waiters = <<>>
  /\ future = [r \in Requests |-> "none"]
  /\ counted = {}
  /\ cause = [r \in Requests |-> {}]
  /\ leases = {}
-------------------------------------------------------------------------------
\* asyncio's semaphore.

Pending == {r \in Requests : future[r] = "pending"}
Granted == {r \in Requests : future[r] = "granted"}

\* r waits, or did until its future was settled, and has not run since.
Waits(r) == future[r] # "none"

Before(p, q) ==
  \E i, j \in 1..Len(waiters) : i < j /\ waiters[i] = p /\ waiters[j] = q

\* The requests that a release would serve before r.
Ahead(r) == {q \in Pending : Before(q, r)}

\* Semaphore.locked: nobody overtakes a waiter that is not cancelled.
Locked == value = 0 \/ Pending \union Granted # {}

\* The waiters that n calls of Semaphore._wake_up_next grant.
Woken(n) == {r \in Pending : Cardinality(Ahead(r)) < n}

\* A task leaves the queue with `free` permits to hand on: wake as many as
\* there are permits for.
LeaveQueue(r, free) ==
  /\ waiters' = RemoveFirst(waiters, r)
  /\ future' = [q \in Requests |-> IF q = r THEN "none"
                                   ELSE IF q \in Woken(free) THEN "granted"
                                   ELSE future[q]]
  /\ value' = free - Cardinality(Woken(free))
  /\ cause' = [cause EXCEPT ![r] = {}]
-------------------------------------------------------------------------------
\* Capacity.acquire and Lease.close.

Queued == active >= Limit \/ waiting > 0

Full == Queued /\ waiting >= MaxQueue

Outside(r) == r \notin leases /\ ~Waits(r)

\* "Queue is full": refused before anything is counted.
Refuse(r) ==
  /\ Outside(r)
  /\ Full
  /\ UNCHANGED vars

\* The semaphore is free: acquire returns a Lease without suspending.  A
\* request counted as waiting is uncounted again in the same step.
Enter(r) ==
  /\ Outside(r)
  /\ ~Full
  /\ ~Locked
  /\ value' = value - 1
  /\ active' = active + 1
  /\ leases' = leases \union {r}
  /\ UNCHANGED <<waiting, waiters, future, counted, cause>>

\* The semaphore is locked: the request suspends.
Enqueue(r) ==
  /\ Outside(r)
  /\ ~Full
  /\ Locked
  /\ waiters' = Append(waiters, r)
  /\ future' = [future EXCEPT ![r] = "pending"]
  /\ waiting' = IF Queued THEN waiting + 1 ELSE waiting
  /\ counted' = IF Queued THEN counted \union {r} ELSE counted
  /\ UNCHANGED <<active, value, cause, leases>>

\* A reason to stop waiting arrives while r is suspended.  It cancels a future
\* that is still pending; a granted one stays granted, and the task will be
\* interrupted all the same when it resumes.
Interrupt(r, c) ==
  /\ Waits(r)
  /\ c \notin cause[r]
  /\ cause' = [cause EXCEPT ![r] = @ \union {c}]
  /\ future' = [future EXCEPT ![r] = IF @ = "pending" THEN "cancelled" ELSE @]
  /\ UNCHANGED <<active, waiting, value, waiters, counted, leases>>

\* Mutant: acquire waits without asyncio.timeout.
WaitForEver(r) == FALSE

WaitTimesOut(r) == Interrupt(r, "timeout")

Cancel(r) == Interrupt(r, "cancel")

\* Mutant: `waiting` goes down only when the wait succeeds.
UncountGranted(r) ==
  /\ waiting' = IF r \in counted /\ cause[r] = {} THEN waiting - 1 ELSE waiting
  /\ counted' = counted \ {r}

\* The `finally` of acquire.
Uncount(r) ==
  /\ waiting' = IF r \in counted THEN waiting - 1 ELSE waiting
  /\ counted' = counted \ {r}

\* The task resumes with its permit.
Resume(r) ==
  /\ future[r] = "granted"
  /\ cause[r] = {}
  /\ LeaveQueue(r, value)
  /\ Uncount(r)
  /\ active' = active + 1
  /\ leases' = leases \union {r}

\* Mutant: a permit granted to an interrupted task is forgotten.
AbandonForgetful(r) ==
  /\ Waits(r)
  /\ cause[r] # {}
  /\ LeaveQueue(r, value)
  /\ Uncount(r)
  /\ UNCHANGED <<active, leases>>

\* The task resumes with CancelledError: a permit it had been granted goes back.
Abandon(r) ==
  /\ Waits(r)
  /\ cause[r] # {}
  /\ LeaveQueue(r, IF future[r] = "granted" THEN value + 1 ELSE value)
  /\ Uncount(r)
  /\ UNCHANGED <<active, leases>>

\* Only the timeout: acquire raises Overloaded.
Overflow(r) == cause[r] = {"timeout"} /\ Abandon(r)

\* The task was cancelled, whether or not the timeout fired too: acquire lets
\* CancelledError through.
Cancelled(r) == "cancel" \in cause[r] /\ Abandon(r)

\* Mutant: Lease.close may run twice.
CloseAgain(r) ==
  /\ ~Waits(r)
  /\ leases' = leases \ {r}
  /\ active' = active - 1
  /\ future' = [q \in Requests |-> IF q \in Woken(1) THEN "granted" ELSE future[q]]
  /\ value' = value + 1 - Cardinality(Woken(1))
  /\ UNCHANGED <<waiting, waiters, counted, cause>>

\* Mutant: Lease.close puts the permit back without Semaphore.release.
CloseSilently(r) ==
  /\ r \in leases
  /\ leases' = leases \ {r}
  /\ active' = active - 1
  /\ value' = value + 1
  /\ UNCHANGED <<waiting, waiters, future, counted, cause>>

\* Lease.close: one release, which wakes one waiter.
Close(r) ==
  /\ r \in leases
  /\ leases' = leases \ {r}
  /\ active' = active - 1
  /\ future' = [q \in Requests |-> IF q \in Woken(1) THEN "granted" ELSE future[q]]
  /\ value' = value + 1 - Cardinality(Woken(1))
  /\ UNCHANGED <<waiting, waiters, counted, cause>>

Step(r) ==
  \/ Refuse(r) \/ Enter(r) \/ Enqueue(r)
  \/ WaitTimesOut(r) \/ Cancel(r)
  \/ Resume(r) \/ Overflow(r) \/ Cancelled(r)
  \/ Close(r)

Next == \E r \in Requests : Step(r)

\* The event loop runs every task that is ready, and a timer that is due fires.
\* Nothing is assumed of the holders of leases.
Fairness ==
  \A r \in Requests :
    /\ WF_vars(Resume(r) \/ Abandon(r))
    /\ WF_vars(WaitTimesOut(r))

Spec == Init /\ [][Next]_vars /\ Fairness
-------------------------------------------------------------------------------
\* Properties.

TypeOK ==
  /\ active \in 0..Limit
  /\ waiting \in Nat
  /\ value \in 0..Limit
  /\ waiters \in Seq(Requests)
  /\ future \in [Requests -> FutureState]
  /\ counted \subseteq Requests
  /\ cause \in [Requests -> SUBSET Cause]
  /\ leases \subseteq Requests

\* No permit is lost or made up, whatever cancellations, timeouts and releases
\* meet: each one is free, in a lease, or granted to a task that has yet to run.
\* In particular BoundedSemaphore.release never raises ValueError, and `active`
\* is the number of open leases.
PermitsConserved ==
  /\ value + Cardinality(leases) + Cardinality(Granted) = Limit
  /\ active = Cardinality(leases)
  /\ \A r \in leases : ~Waits(r)

\* A request is suspended beside a free permit only while a task that was
\* granted one has yet to run, and will pass the free permits on when it does.
NoLostWakeup == value > 0 /\ Pending # {} => Granted # {}

\* Every suspended request is counted in `waiting`, although acquire decides
\* whether to count it from `active` and `waiting` and not from the semaphore:
\* so the queue never grows beyond max_queue.
QueueExact ==
  /\ waiting = Len(waiters)
  /\ counted = {r \in Requests : Waits(r)}
  /\ waiting <= MaxQueue

\* Every wait ends: with a lease, with Overloaded or with CancelledError.
EveryWaitEnds == \A r \in Requests : Waits(r) ~> ~Waits(r)

\* Capacity is a permit pool: a permit belongs to a request as soon as its
\* future is granted, and a request is in line while its future is pending.
Pool == INSTANCE PermitPool WITH
          holders <- leases \union Granted,
          line <- Pending,
          ahead <- [r \in Requests |-> IF r \in Pending THEN Ahead(r) ELSE {}]

\* First come first served, never more than limit permits out, never more than
\* max_queue requests in line, no overtaking on the fast path, and a free
\* permit does not stay beside a waiting request.
PoolSpec == Pool!Spec
===============================================================================
