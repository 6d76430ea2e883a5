-------------------------------- MODULE Gateway --------------------------------
(*****************************************************************************)
(* serving_lab/app.py: a chat request from the circuit and queue, through    *)
(* the model call, to the end of its answer, for one model alias.  It        *)
(* composes the alias's Capacity and CircuitBreaker, whose actions it takes  *)
(* at the points where the code calls their methods.                         *)
(*                                                                           *)
(* A step is what one task runs between two suspensions; pc[r] names the     *)
(* await at which r's task stands.  A streamed answer has two tasks: the one *)
(* that sends (its await is pc[r]) and the one that listens for the client's *)
(* disconnect, in the actions Disconnect and Cancel.                         *)
(*                                                                           *)
(* What the server and the client do is external: whether a send returns,    *)
(* whether the client disconnects, when a task is cancelled (uvicorn cancels *)
(* the requests that outlive its graceful shutdown).  Rate limiting, which   *)
(* refuses a request before any of this state is touched, is left out.       *)
(*****************************************************************************)
EXTENDS Naturals, Sequences, FiniteSets

CONSTANTS Requests, Limit, MaxQueue, Threshold, Reset,
          Readers     \* requests whose clients take what they are sent, or go

ASSUME RequestsAssumption == IsFiniteSet(Requests)
ASSUME BoundsAssumption ==
  Limit \in Nat \ {0} /\ MaxQueue \in Nat /\ Threshold \in Nat \ {0} /\ Reset \in Nat \ {0}
ASSUME ReadersAssumption == Readers \subseteq Requests

VARIABLES
  active, waiting, value, waiters, future, counted, cause, leases, \* Capacity
  failures, open, age, probing, ticket,                      \* CircuitBreaker
  pc,        \* the await at which the request stands
  upstream,  \* the model's response: Invocation.stream and what was read of it
  outcome,   \* Invocation.finished, and with which outcome
  measured,  \* how often metrics.observe ran for this invocation, up to 2
  reply,     \* how far a streamed answer has got to the client
  halting,   \* the sending task has been told to stop
  stopping   \* Runtime.stopping

C == INSTANCE Capacity
B == INSTANCE CircuitBreaker

capacity == <<active, waiting, value, waiters, future, counted, cause, leases>>
circuit == <<failures, open, age, probing, ticket>>
invocation == <<upstream, outcome, measured, reply, halting>>
vars == <<capacity, circuit, pc, invocation, stopping>>

Outcomes == {"success", "timeout", "upstream_error", "cancelled"}

\* Awaits of the sending task of a streamed answer.
Sends == {"start", "chunk", "last", "error", "final"}
Streaming == Sends \union {"next"}

\* Awaits inside asyncio.timeout_at(invocation.deadline).
UnderDeadline == {"opening", "collecting", "next", "chunk", "last"}

Init ==
  /\ C!Init
  /\ B!Init
  /\ pc = [r \in Requests |-> "idle"]
  /\ upstream = [r \in Requests |-> "none"]
  /\ outcome = [r \in Requests |-> "none"]
  /\ measured = [r \in Requests |-> 0]
  /\ reply = [r \in Requests |-> "none"]
  /\ halting = [r \in Requests |-> FALSE]
  /\ stopping = FALSE

Goto(r, l) == pc' = [pc EXCEPT ![r] = l]
-------------------------------------------------------------------------------
\* Admission: the circuit, then the queue.

\* A request that is turned away at once leaves no trace: a ticket it took is
\* finished as "cancelled" in the same step.  That it is counted among the metrics is
\* left out.
TurnAway(r) ==
  /\ pc[r] = "idle"
  /\ \/ stopping
     \/ B!Refuse(r)
     \/ B!Admits /\ C!Refuse(r)
  /\ UNCHANGED vars

\* Mutant: a request is admitted while the service drains.
BeginAnyway(r) ==
  /\ pc[r] = "idle"
  /\ B!Acquire(r)
  /\ upstream' = [upstream EXCEPT ![r] = "none"]
  /\ outcome' = [outcome EXCEPT ![r] = "none"]
  /\ measured' = [measured EXCEPT ![r] = 0]
  /\ UNCHANGED <<reply, halting, stopping>>

\* The request has a ticket and is to have a new Invocation.
Begin(r) ==
  /\ pc[r] = "idle"
  /\ ~stopping
  /\ B!Acquire(r)
  /\ upstream' = [upstream EXCEPT ![r] = "none"]
  /\ outcome' = [outcome EXCEPT ![r] = "none"]
  /\ measured' = [measured EXCEPT ![r] = 0]
  /\ UNCHANGED <<reply, halting, stopping>>

Enter(r) == Begin(r) /\ C!Enter(r) /\ Goto(r, "opening")

Enqueue(r) == Begin(r) /\ C!Enqueue(r) /\ Goto(r, "queued")

\* Granted a permit in the queue: neither the circuit nor `stopping` is looked
\* at again.
Resume(r) ==
  /\ pc[r] = "queued"
  /\ C!Resume(r)
  /\ Goto(r, "opening")
  /\ UNCHANGED <<circuit, invocation, stopping>>

\* Mutant: only Overloaded finishes the ticket, not a cancellation.
AbandonKeepsTicket(r) ==
  /\ pc[r] = "queued"
  /\ \/ C!Overflow(r) /\ B!Release(r)
     \/ C!Cancelled(r) /\ UNCHANGED circuit
  /\ Goto(r, "idle")
  /\ UNCHANGED <<invocation, stopping>>

\* The wait in the queue fails: Overloaded or CancelledError.
Abandon(r) ==
  /\ pc[r] = "queued"
  /\ C!Overflow(r) \/ C!Cancelled(r)
  /\ B!Release(r)
  /\ Goto(r, "idle")
  /\ UNCHANGED <<invocation, stopping>>
-------------------------------------------------------------------------------
\* Invocation.finish and Invocation.close.

TicketFinish(r, o) ==
  IF ticket[r] = "none" THEN UNCHANGED circuit
  ELSE \/ o = "success" /\ B!Success(r)
       \/ o \in {"timeout", "upstream_error"} /\ B!Failure(r)
       \/ o = "cancelled" /\ B!Release(r)

Record(r, o) ==
  /\ outcome' = [outcome EXCEPT ![r] = o]
  /\ measured' = [measured EXCEPT ![r] = IF @ < 2 THEN @ + 1 ELSE @]

\* Mutant: finish does not look at `finished`.
FinishAgain(r, o) == TicketFinish(r, o) /\ Record(r, o)

\* The first verdict on an invocation is the one that counts.
Finish(r, o) ==
  IF outcome[r] = "none"
  THEN TicketFinish(r, o) /\ Record(r, o)
  ELSE UNCHANGED <<circuit, outcome, measured>>

\* The request is over, and with it what only its tasks knew.
EndRequest(r) ==
  /\ Goto(r, "idle")
  /\ reply' = [reply EXCEPT ![r] = "none"]
  /\ halting' = [halting EXCEPT ![r] = FALSE]
  /\ UNCHANGED stopping

\* Mutant: close leaves the verdict to its callers.
CloseUnfinished(r) ==
  /\ UNCHANGED <<circuit, outcome, measured>>
  /\ C!Close(r)
  /\ EndRequest(r)

\* The `finally` of Invocation.close.
Close(r) ==
  /\ Finish(r, "cancelled")
  /\ C!Close(r)
  /\ EndRequest(r)

\* stream.aclose returns.
AcloseReturns(r) ==
  /\ pc[r] = "closing"
  /\ Close(r)
  /\ upstream' = [upstream EXCEPT ![r] = "none"]

\* Mutant: nothing bounds aclose.
AcloseUnbounded(r) == FALSE

\* stream.aclose fails, is cut off after a second by move_on_after, or by the
\* cancellation of the task, against which no anyio shield helps: the model's
\* response may stay open.
AcloseCutOff(r) ==
  /\ pc[r] = "closing"
  /\ Close(r)
  /\ upstream' = [upstream EXCEPT ![r] = "abandoned"]
-------------------------------------------------------------------------------
\* The model call, for both kinds of answer.

\* The handler gives up before there is a stream: close has nothing to await.
OpenEnds(r, o) ==
  /\ pc[r] = "opening"
  /\ Finish(r, o)
  /\ C!Close(r)
  /\ EndRequest(r)
  /\ UNCHANGED upstream

\* The backend raises: a timeout of its client, a BackendError or HTTPError, or
\* something no clause expects, which close records as cancelled.
OpenFails(r) == \E o \in Outcomes \ {"success"} : OpenEnds(r, o)

\* The response is there; it becomes a streamed answer or is collected first.
Opened(r) ==
  /\ pc[r] = "opening"
  /\ upstream' = [upstream EXCEPT ![r] = "open"]
  /\ Goto(r, "start") \/ Goto(r, "collecting")
  /\ UNCHANGED <<capacity, circuit, outcome, measured, reply, halting, stopping>>

\* The whole text has been read.
Collected(r) ==
  /\ pc[r] = "collecting"
  /\ upstream' = [upstream EXCEPT ![r] = "ended"]
  /\ Finish(r, "success")
  /\ Goto(r, "closing")
  /\ UNCHANGED <<capacity, reply, halting, stopping>>

CollectFails(r) ==
  /\ pc[r] = "collecting"
  /\ \E o \in Outcomes \ {"success"} : Finish(r, o)
  /\ Goto(r, "closing")
  /\ UNCHANGED <<capacity, upstream, reply, halting, stopping>>
-------------------------------------------------------------------------------
\* ManagedStreamResponse: the sending task.

\* The sending task goes on to another await without a verdict.
Proceed(r, l) ==
  /\ Goto(r, l)
  /\ UNCHANGED <<capacity, circuit, outcome, measured, halting, stopping>>

StartSent(r) ==
  /\ pc[r] = "start"
  /\ reply' = [reply EXCEPT ![r] = "headers"]
  /\ Proceed(r, "next")
  /\ UNCHANGED upstream

NextPiece(r) ==
  /\ pc[r] = "next"
  /\ Proceed(r, "chunk")
  /\ UNCHANGED <<upstream, reply>>

ChunkSent(r) ==
  /\ pc[r] = "chunk"
  /\ Proceed(r, "next")
  /\ UNCHANGED <<upstream, reply>>

StreamEnds(r) ==
  /\ pc[r] = "next"
  /\ upstream' = [upstream EXCEPT ![r] = "ended"]
  /\ Proceed(r, "last")
  /\ UNCHANGED reply

\* A verdict with which the sending task goes on to send the error event.
Fail(r, o) ==
  /\ Finish(r, o)
  /\ Goto(r, "error")
  /\ UNCHANGED <<capacity, upstream, reply, halting, stopping>>

\* Mutant: a stream that breaks off is taken for one that ended.
StreamFailsSilently(r) ==
  /\ pc[r] = "next"
  /\ Finish(r, "upstream_error")
  /\ Goto(r, "last")
  /\ UNCHANGED <<capacity, upstream, reply, halting, stopping>>

\* The model's stream raises what the code expects of it.
StreamFails(r) ==
  /\ pc[r] = "next"
  /\ \E o \in {"timeout", "upstream_error"} : Fail(r, o)

\* The sending task is over; the listening one stops and closes.
SenderEnds(r) ==
  /\ Goto(r, "closing")
  /\ UNCHANGED <<capacity, upstream, reply, halting, stopping>>

\* The model's stream raises something else: no verdict, no error event.
StreamCrashes(r) ==
  /\ pc[r] = "next"
  /\ SenderEnds(r)
  /\ UNCHANGED <<circuit, outcome, measured>>

\* [DONE] is with the client.
LastSent(r) ==
  /\ pc[r] = "last"
  /\ reply' = [reply EXCEPT ![r] = "done"]
  /\ Finish(r, "success")
  /\ Goto(r, "final")
  /\ UNCHANGED <<capacity, upstream, halting, stopping>>

ErrorSent(r) ==
  /\ pc[r] = "error"
  /\ reply' = [reply EXCEPT ![r] = "error"]
  /\ Proceed(r, "final")
  /\ UNCHANGED upstream

\* Mutant: the permit goes back when the answer is sent, before the cleanup.
FinalSentReleases(r) ==
  /\ pc[r] = "final"
  /\ C!Close(r)
  /\ Goto(r, "closing")
  /\ UNCHANGED <<circuit, upstream, outcome, measured, reply, halting, stopping>>

FinalSent(r) ==
  /\ pc[r] = "final"
  /\ SenderEnds(r)
  /\ UNCHANGED <<circuit, outcome, measured>>

\* A send raises OSError.
SendFails(r) ==
  /\ pc[r] \in Sends
  /\ Finish(r, "cancelled")
  /\ SenderEnds(r)

\* Mutant: the deadline does not cover a streamed answer.
DeadlineForHeaders(r) ==
  \/ OpenEnds(r, "timeout")
  \/ /\ pc[r] = "collecting"
     /\ Finish(r, "timeout")
     /\ Goto(r, "closing")
     /\ UNCHANGED <<capacity, upstream, reply, halting, stopping>>

\* The absolute deadline, which the sends of chunks and of [DONE] share.
DeadlineFires(r) ==
  \/ OpenEnds(r, "timeout")
  \/ pc[r] \in {"next", "chunk", "last"} /\ Fail(r, "timeout")
  \/ /\ pc[r] = "collecting"
     /\ Finish(r, "timeout")
     /\ Goto(r, "closing")
     /\ UNCHANGED <<capacity, upstream, reply, halting, stopping>>
-------------------------------------------------------------------------------
\* Disconnects, cancellations, shutdown.

Halt(r) ==
  /\ halting' = [halting EXCEPT ![r] = TRUE]
  /\ UNCHANGED <<capacity, pc, upstream, reply, stopping>>

\* The listening task sees the client go.
Disconnect(r) ==
  /\ pc[r] \in Streaming
  /\ ~halting[r]
  /\ Finish(r, "cancelled")
  /\ Halt(r)

\* The sending task is cancelled at its await, whose event may have come first:
\* the task may go on for a while before the cancellation reaches it.
Halted(r) ==
  /\ pc[r] \in Streaming
  /\ halting[r]
  /\ SenderEnds(r)
  /\ UNCHANGED <<circuit, outcome, measured>>

\* The server cancels the request's task.
Cancel(r) ==
  \/ /\ pc[r] = "queued"
     /\ C!Cancel(r)
     /\ UNCHANGED <<circuit, pc, invocation, stopping>>
  \/ OpenEnds(r, "cancelled")
  \/ /\ pc[r] = "collecting"
     /\ SenderEnds(r)
     /\ UNCHANGED <<circuit, outcome, measured>>
  \/ /\ pc[r] \in Streaming
     /\ ~halting[r]
     /\ Halt(r)
     /\ UNCHANGED <<circuit, outcome, measured>>

WaitTimesOut(r) ==
  /\ pc[r] = "queued"
  /\ C!WaitTimesOut(r)
  /\ UNCHANGED <<circuit, pc, invocation, stopping>>

\* The lifespan ends, whatever the requests in flight are doing; the backend is
\* closed, and what it still has to answer fails.
Shutdown ==
  /\ ~stopping
  /\ stopping' = TRUE
  /\ UNCHANGED <<capacity, circuit, pc, invocation>>

HoldDownPasses == B!Tick /\ UNCHANGED <<capacity, pc, invocation, stopping>>

Admission(r) ==
  TurnAway(r) \/ Enter(r) \/ Enqueue(r) \/ Resume(r) \/ Abandon(r)

ModelCall(r) ==
  \/ Opened(r) \/ OpenFails(r) \/ Collected(r) \/ CollectFails(r)
  \/ NextPiece(r) \/ StreamEnds(r) \/ StreamFails(r) \/ StreamCrashes(r)

Sent(r) ==
  StartSent(r) \/ ChunkSent(r) \/ LastSent(r) \/ ErrorSent(r) \/ FinalSent(r)

Cleanup(r) == Halted(r) \/ AcloseReturns(r) \/ AcloseCutOff(r)

Next ==
  \/ \E r \in Requests :
       \/ Admission(r) \/ ModelCall(r) \/ Sent(r) \/ SendFails(r) \/ Cleanup(r)
       \/ WaitTimesOut(r) \/ DeadlineFires(r) \/ Disconnect(r) \/ Cancel(r)
  \/ Shutdown
  \/ HoldDownPasses

\* The event loop runs ready tasks and due timers: among them the queue timeout,
\* the deadline and the second after which a cleanup is cut off.  Nothing is
\* assumed of the model.
ServerFairness ==
  /\ WF_vars(HoldDownPasses)
  /\ \A r \in Requests :
       /\ WF_vars(Resume(r) \/ Abandon(r))
       /\ WF_vars(WaitTimesOut(r))
       /\ WF_vars(DeadlineFires(r))
       /\ WF_vars(Halted(r))
       /\ WF_vars(AcloseCutOff(r))

\* Some clients read, or go away; nothing is assumed of the others.
ClientFairness ==
  \A r \in Readers : WF_vars(Sent(r) \/ SendFails(r) \/ Disconnect(r))

Spec == Init /\ [][Next]_vars /\ ServerFairness /\ ClientFairness
-------------------------------------------------------------------------------
\* Properties.

TypeOK ==
  /\ C!TypeOK
  /\ B!TypeOK
  /\ pc \in [Requests -> {"idle", "queued", "opening", "collecting", "closing"}
                         \union Streaming]
  /\ upstream \in [Requests -> {"none", "open", "ended", "abandoned"}]
  /\ outcome \in [Requests -> Outcomes \union {"none"}]
  /\ measured \in [Requests -> 0..2]
  /\ reply \in [Requests -> {"none", "headers", "done", "error"}]
  /\ halting \in [Requests -> BOOLEAN]
  /\ stopping \in BOOLEAN

\* Between requests nothing is left behind: no permit, no place in the queue, no
\* unfinished ticket, and the model's response is closed unless its cleanup was
\* cut off.  Between admission and the end the request has its permit, and while
\* it is in the queue its ticket.
NothingLeaks ==
  \A r \in Requests :
    /\ pc[r] = "idle" =>
         ticket[r] = "none" /\ upstream[r] \in {"none", "abandoned"}
    /\ pc[r] = "queued" <=> C!Waits(r)
    /\ pc[r] = "queued" => ticket[r] # "none"
    /\ pc[r] \notin {"idle", "queued"} <=> r \in leases

\* No more model calls are being opened or have their response open than there are
\* permits, however requests end, except those whose cleanup was cut off: of the
\* backend's concurrency + 2 connections two are left for those and for probes.
ConnectionsWithinLimit ==
  Cardinality({r \in Requests : pc[r] = "opening" \/ upstream[r] \in {"open", "ended"}})
    <= Limit

\* Success, failure, timeout, disconnect and cleanup race to give the verdict;
\* an invocation is measured once, with the verdict its ticket was settled by.
MeasuredOnce ==
  \A r \in Requests :
    /\ measured[r] = IF outcome[r] = "none" THEN 0 ELSE 1
    /\ r \in leases => (ticket[r] = "none" <=> outcome[r] # "none")

\* A streamed answer ends with [DONE] only if the model finished it, an error
\* event never follows a success, and what is counted as a success has been sent
\* to the end.
VerdictMatchesReply ==
  \A r \in Requests :
    /\ reply[r] = "done" => /\ outcome[r] \in {"success", "cancelled"}
                            /\ r \in leases => upstream[r] = "ended"
    /\ reply[r] = "error" => outcome[r] # "success"
    /\ outcome[r] = "success" => reply[r] \in {"none", "done"}

\* A circuit whose probe waits in the queue, or is passed on to a client that
\* reads, is not half-open for ever.
ProbeEnds == \A r \in Readers : ticket[r] = "probe" ~> ticket[r] # "probe"

\* A permit comes back whatever ends its request, if the client reads or goes.
PermitsComeBack == \A r \in Readers : r \in leases ~> r \notin leases

\* Once the service stops admitting requests, the ones in flight end and no others
\* come, even beside or behind clients that do not read.
Drains == stopping ~> [](\A r \in Readers : pc[r] = "idle")

\* A request that is queued gets a permit or an answer, even behind requests
\* whose clients neither read nor go away.
QueueEnds == \A r \in Requests : pc[r] = "queued" ~> pc[r] # "queued"

\* "Backend open + generation share an absolute deadline": however slowly the
\* model answers and the client reads, a request does not stay under the deadline
\* for ever.
DeadlineBounds ==
  \A r \in Requests : pc[r] \in UnderDeadline ~> pc[r] \notin UnderDeadline

\* "Backend timeout is 504 before headers, or an SSE error after headers. Cleanup
\* releases the admission permit and closes the model response."
TimeoutsReleasePermits ==
  \A r \in Requests :
    r \in leases /\ outcome[r] = "timeout" ~> r \notin leases
===============================================================================
