# Verification of model-serving-lab

TLA+ specifications of the serving gateway, of what it stands on, of the vector
store and of the deployer, with the TLC configurations that check them on small instances and
TLAPS proofs for every value of the constants. Paths are relative to the
repository; `controls.py`, `app.py`, `backends.py` and `retrieval.py` are in
`serving_lab/`, `deploy.py` is in `scripts/`.

## The system

One process, one event loop, one worker. A client's chat request passes a rate
limit, the circuit breaker and the admission queue of its model alias, calls the
model, and is answered as a whole or as a stream. A separate retrieval service
keeps documents in PostgreSQL. A script on the host releases images of both.

| Component | State | Operations | What makes it hard |
|---|---|---|---|
| `Capacity`, `Lease` (controls.py) | `active`, `waiting`, an asyncio semaphore, the open leases | `acquire` with a queue bound and a queue timeout, `close` | a permit is granted to a task that runs later; timeouts and cancellations arrive in between; counting and waiting are decided from different variables |
| `CircuitBreaker`, `CircuitTicket` (controls.py) | `failures`, `opened_at`, `probing`; `done` of each ticket | `acquire`; `finish` with success, failure, cancelled | calls outlive the state in which they began: late results meet an open, half-open or closed circuit |
| `TokenBucket` (controls.py) | tokens and time per client, the one that asked longest ago first | `allow` | buckets are filled when they are asked only; a refused request resets the time too; clients share `max_clients` places |
| `chat`, `Invocation`, `ManagedStreamResponse`, `Runtime` (app.py) | per request: ticket, lease, stream, verdict, how far the answer has got; `stopping` | admission, model call, collect or stream, cleanup, shutdown | two tasks per streamed answer, client disconnects, cancellation at every await, a deadline, an order of cleanup |
| Backends (backends.py) | the open response or offline stream and what was read of it | `open`, next piece, `aclose` | truncated, malformed and failing streams; two kinds that must look the same to the gateway |
| `Metrics` (metrics.py) | counters and histograms | `observe`, `render` | every outcome counted once |
| `PgVectorStore` (retrieval.py) | one embedding space and its documents | `initialize`, `put`, `search`, `ready` | services with different settings on one database |
| `release` (deploy.py) | lock file, release record, last-attempt file, the project's containers | check, activate, canary, roll back, stop, record, report | several effects that fail, are interrupted or killed half-way; stale locks |
| Settings, HTTP edge, BentoML mount, clients and probes | none that changes | checks of one message, or sequential calls | |

How they interact: `chat` calls `CircuitBreaker.acquire`, then awaits
`Capacity.acquire`, then owns a ticket and a lease through an `Invocation`, whose
`finish` settles the ticket and observes the metrics once, and whose `close` closes
the model's response, finishes as cancelled if nothing else did, and closes the
lease. A streamed answer takes the invocation over from the handler. The lifespan
sets `stopping`. The deployer's canary is a client of both services.

What makes each part correct:

* admission: no permit, wakeup or queue place is lost or made up; the queue is
  bounded; first come, first served; every wait ends;
* rate limit: a client gets the burst and the rate, no more however it asks and no less;
  what is known of a client is forgotten only for others that have asked since;
* circuit: opens on consecutive failures of the backend, one probe at a time, only
  the probe closes it, and it can be probed in the end;
* request: whatever ends it, nothing is left behind; one verdict; the client is told
  what was recorded; the permit comes back after the response is closed;
* backend: an answer is complete only if the model said so; a response is closed on
  every path; a call ends as an error of the backend only if the model or the
  connection was at fault;
* vector store: vectors of two models never meet, whoever initialises and when;
* deployer: what an attempt reports is so; the project runs the release on record;
  a rollback restores a release that was verified; others' projects are not touched.

## Modules

| Module | Models | How |
|---|---|---|
| `PermitPool` | the promise of admission control | holders, a line, and for each request in line who is ahead of it |
| `Capacity` | controls.py 14-52 and the asyncio semaphore and timeout below it | one step from one suspension to the next; `future`, `cause` hold what reaches a suspended task before it runs |
| `CircuitBreaker` | controls.py 55-94 | a method call is a step; the clock is `age` |
| `Gateway` | app.py 80-187 and 233-269 | composes the two (`C == INSTANCE Capacity`, `B == INSTANCE CircuitBreaker`), taking their actions where the code calls their methods; `pc` is the await at which a request stands |
| `Release` | deploy.py 40-119 | a step is one effect on what outlives the script |
| `RateLimit` | the promise of the rate limit | a meter for each client, raised by a request and falling with time; who has asked since a client did |
| `TokenBucket` | controls.py 97-112 | `allow` is a step, a tick of the clock another; `place` is the place in the `OrderedDict`, from its end |
| `ModelStream` | what `Gateway` relies on in a model call | pieces said and taken, an end that the model announced, an answer that is complete, failed or over |
| `UpstreamStream` | backends.py 68-105 and 118-137 (the vLLM backend) | one call after another; a step is an await or one line that is read, beside a server that runs ahead |
| `OfflineStream` | backends.py 18-66 (the offline backend) | one call after another; a step ends at the sleep before a piece |
| `Backends` | app.py 177-181 | composes the two: the mode says which of them answers |
| `EmbeddingSpace` | retrieval.py 67-144 | a call is a transaction; a step is a statement whose outcome others can affect, the last one with the commit |
| `CapacityProofs`, `CapacityRefinement`, `CircuitBreakerProofs`, `GatewayProofs`, `ReleaseProofs`, `UpstreamProofs`, `TokenBucketProofs`, `EmbeddingSpaceProofs` | | theorems |
| `MC*` | | instances for TLC, and history variables |

Names follow the code. The correspondence that is not evident from the names:

* `Capacity`: `value`, `waiters`, `future` are the semaphore's `_value`, `_waiters`
  and the state of each future in it. `Enter` is an `acquire` that does not suspend;
  `Enqueue` is one that does. `Interrupt` is what `Task.cancel` does to a suspended
  task, from the queue timeout or from outside. `Resume`, `Overflow` and `Cancelled`
  are the three ways a suspended task goes on: a lease, `Overloaded`,
  `CancelledError`. `LeaveQueue` is the end of the semaphore's `acquire`, which wakes
  further waiters while there are free permits; this is the protocol of
  Python 3.12 and later, the version the project and its images use.
* `CircuitBreaker`: `open` is `opened_at is not None`; `ticket[r]` is the unfinished
  ticket, so `Settle` covers `done`.
* `Gateway`: a handler's `pc` is `queued`, `opening`, `collecting` or `closing`; the
  sending task's is `start`, `next`, `chunk`, `last`, `error` or `final`, after the
  send or the read it awaits; the listening task has no `pc`, because it does one thing
  (`Disconnect`). `Halted` is the cancellation of the sending task, which may come
  after it has taken further steps. `upstream` is `ended` once all of the answer has
  been read and `abandoned` if its `aclose` failed or was cut off.
* `UpstreamStream`: `phase` is the await at which the call stands (`passing`: the gateway
  sends its headers, or a piece, and has not asked for the next; `over`: the answer has
  ended, and the gateway may still send an event and the final body before it calls
  `aclose`), `reads` is that the client takes what it is sent or goes away, `wire` what has
  arrived and is not read.
  `said`, `told`, `got` are the pieces the server has sent, whether it has sent
  `[DONE]`, and the pieces taken; `faulty` remembers that the server or the connection
  has broken the protocol. `Parse` is the parser: what each kind of line makes of
  `__anext__`. `OpenAIStream.finished` is left out: the gateway never asks again after
  the end.
* `OfflineStream`: `response` is "open" while the stream is among `open_streams`; `said` is
  `len(pieces)`, `got` the index; an answer is all there when the call begins, so `told`
  is then true. `faulty` is that the failure asked for strikes before the end.
* `TokenBucket`: `tokens` are counted in units, of which a request costs `Cost` and a tick
  brings `Rate`, so that a rate may be a fraction of a token per tick; `age` is
  `now - last`, cut at the time in which any bucket fills. A client without an entry has
  the values that `pop` would give it, a full bucket.
* `EmbeddingSpace`: `space` is the row of `embedding_space`, `column` the declared dimension
  of `documents.embedding`; a document is the settings its vector was made under. What a
  transaction has written is not in `space` until it commits (`Create`). A call that is
  refused at its first check, and `ready`, change nothing and are no steps.
* `Release`: `apps` holds for each app the release that its container was made from,
  or that it is stopped or absent. `Escapes` is an exception that no clause catches,
  `Crash` a kill; both leave everything as it stands, and only `Escapes` gives back the
  lock.

## Runs

| Run | Instance | Shows |
|---|---|---|
| `capacity` | 4 requests, 3 permits, queue of 3 | `PermitsConserved`, `NoLostWakeup`, `QueueExact`, `EveryWaitEnds`; `PoolSpec`: Capacity implements `PermitPool`, fairness included |
| `breaker` | 3 calls, threshold 2, hold-down 2 ticks | `SingleProbe`, `OpenIffThreshold`, `ConsecutiveFailures`, `ClosedByProbeOnly`, `HoldDownEnds` |
| `rate_limit` | 3 clients, 2 buckets of 2 tokens, a token every 2 ticks | `BurstBound`, `NotStarved`; `LimitSpec`: TokenBucket implements `RateLimit` |
| `gateway` | 3 requests, 2 permits, queue of 1, threshold 2 | `NothingLeaks`, `ConnectionsWithinLimit`, `MeasuredOnce`, `VerdictMatchesReply` |
| `gateway_live` | 2 requests, 1 permit, queue of 1, threshold 1; one client reads or goes away, the other does as it likes | `ProbeEnds`, `PermitsComeBack`, `Drains`, `QueueEnds`, `DeadlineBounds` |
| `upstream` | either backend; 3 pieces, a server up to 3 lines ahead, a failure asked for at any piece or none | `ResponsesClosed`, `HealthyModelNotBlamed` (timeouts left out); `StreamSpec`: UpstreamStream and OfflineStream implement `ModelStream`, fairness included: an answer ends and is released if its client reads or goes away |
| `embedding` | 3 calls, 2 models, 2 dimensions, 2 documents | `OneSpace`, `SettledOnce` |
| `release` | 2 deployers, 4 releases | `ResultsHold`, `RunsTheRecord` (of attempts that were not killed or interrupted), `RecordsWhatRuns` (when it is written), `ProjectsKept`, `LockComesBack` |
| `gateway_stall`, `upstream_malformed`, `release_retry`, `release_report` | as above | counterexamples, see Findings |

Each property also has a mutant: a plausible slip in a definition of the model (they
are kept beside the definition, under "Mutant") with which the property fails.

Why the bounds are enough for the interesting cases:

* With three permits and four requests, two requests can come to wait beside two free
  permits while a third, already granted, has yet to run; one resumption then wakes
  both. With two permits a resumption wakes one, and with one permit none.
* Threshold 2 tells one failure from the last one, and three calls let two old calls
  overlap a probe. The hold-down of two ticks has a state in which it has begun and is
  not over. `failures` is cut at the threshold and `age` at the hold-down because the
  code tells no larger values apart, so nothing is lost.
* Three requests over two permits and one queue place let two model calls run beside
  a queued request, which may be the probe. The liveness run is smaller because it
  needs the whole graph; with one permit each request depends on the other's.
* A third client is the one that makes another lose its bucket; with two buckets, who
  loses it depends on the order in which they asked. A request that is refused half a
  token short of one tells a clock that is kept from one that is lost, and a client is
  watched for five ticks, longer than a bucket takes to fill.
* Three lines ahead of the reader are a piece, a line that is none and the end, or a
  fault behind pieces that are not read yet. Three pieces tell an answer that lost its
  last one, or took one twice, from a whole one.
* Two calls can initialise at once while a third uses the space; the settings may differ
  in the model, the dimension or both. A document may be replaced beside another one.
* The four releases are an upgrade within a profile, a change of profile either way,
  and a change of ports. A third deployer would only find the lock taken, like the
  second one.
* `measured` is cut at 2, which tells "more than once" from "once".
* The runs use symmetry only in `gateway`, which has no liveness property and no
  distinguished request.

## Fairness

Nothing is assumed of the model, of other clients, of cancellations or of crashes.

* `Capacity`, `Gateway`: weak fairness of a task that is ready to run, and of timers
  that are due (queue timeout, deadline, the second after which a cleanup is cut
  off): the event loop runs both. `CircuitBreaker`: the clock goes on.
* `Gateway`, `ClientFairness`: a client in `Readers` takes what it is sent or goes away.
  `QueueEnds` and `DeadlineBounds` hold for every request all the same; the others are
  stated of `Readers`, and `gateway_stall` shows why.
* `UpstreamStream`: the deadline fires where the code puts it (`UnderDeadline`): on the model
  call and on the sends of pieces, not on that of the headers (app.py 122). For a client
  that reads or goes away, which `reads` says of each call, a send ends or the request is
  cancelled, and after the end of an answer the cleanup comes and ends or is cut off. Of
  other clients that is not assumed, because the error event and the final body (app.py
  138, 141, 142) are sent outside the deadline and before the cleanup (158). So
  `StreamSpec`, like `ModelStream`, promises the end and the release of an answer only if
  its client reads or goes; the rest of it, that an answer is complete only with all of
  its pieces, is said of all. A server that sends nothing is not assumed to send anything.
* `OfflineStream`: sleeps end; the rest is as in `UpstreamStream`.
* `TokenBucket`: the clock goes on. `NotStarved` assumes of the client it is about that it
  goes on asking, and of others nothing.
* `EmbeddingSpace`: none; there is no liveness property of it.
* `Release`: the script goes on unless it is killed. Each command that it runs has a
  time limit (`run`, deploy.py 21-26). The canary is called, not run: it has only a
  limit of 70 seconds for each read (stack_smoke.py 13), and is assumed to end: the one
  answer that comes in pieces, the streamed one, is bounded by the gateway's deadline.
  `LockComesBack` rests on that assumption.

No strong fairness is used. `PoolSpec` includes the pool's weak fairness of `Admit`.

## Proofs

The assumptions are those named in the modules: finitely many requests, at least one
permit, a queue bound that may be zero, a positive threshold and hold-down
(`Settings` checks all but the first, config.py 24-41), positive bounds of `UpstreamStream`, a positive
rate, burst and number of buckets (config.py 29-32, controls.py 100), that the
model's marks (no row, no record, a stopped app, the lock that nobody has) are none of the values
they stand beside, that dimensions are 1 to 2000 (retrieval.py 33),
and that a release is made of an image, a profile and ports.
Every safety invariant and action property that a passing run checks is a theorem.

`CapacityProofs` proves `TypeOK`, `PermitsConserved`, `NoLostWakeup` and `QueueExact`
of `Capacity`. Their conjunction is not inductive: that a release finds a permit to
return, or that one resumption removes one queue place, needs that the queue holds
exactly the waiting requests, each once (`QueueInv`), and that a request whose future
was cancelled will be abandoned and not resumed (`CauseInv`). `IInv` is the
conjunction of the six. The argument has three parts: what waking `n` waiters does
(`Oldest`, `Newest`, `WokenCount`: it wakes `n` of them, or all that are pending);
what leaving the queue does (`RemoveFirstOf`, `LeaveQueueStep`); and one lemma per
action. `LockedIsQueued` is the one that the code rests on without saying so: whenever
the semaphore would suspend a request, `active` or `waiting` has already said so, and
the request is counted.

`CapacityRefinement` proves that every step of `Capacity` is a step of `PermitPool`
or leaves it unchanged, under the mapping of `Pool` (Capacity.tla). A permit belongs to
its request as soon as its future is granted. The steps that wake waiters are the
hard ones: whoever is ahead of a woken waiter has fewer waiters ahead and is woken
too (`WokenFront`), and leaving keeps the order of the others (`LeaveQueueOrder`).

`CircuitBreakerProofs` proves `TypeOK`, `SingleProbe`, `OpenIffThreshold` and the action
property `ClosedByProbeOnly`. The three invariants are inductive together. With the
history of `MCCircuitBreaker` it proves `ConsecutiveFailures`, which rests on
`OpenIffThreshold`: a failure that leaves the circuit closed has not reached the threshold,
so neither count is cut.

`GatewayProofs` proves `TypeOK`, `NothingLeaks`, `ConnectionsWithinLimit`, `MeasuredOnce` and
`VerdictMatchesReply`. The proofs compose as the modules do. The theorems of
`CapacityRefinement` (with `CapacityProofs`) and `CircuitBreakerProofs` are instantiated (`CP`, `BP`), and each step of the
gateway is a step of either or leaves it alone, so that their inductive invariants carry
over (`EnterEffect` to `SettleEffect` say what a step does to them). What is left ties
them to a request: `RequestInv(r)` has a part for each of the checked properties
(`PlaceInv`, `MeasureInv`, `VerdictInv`) and one they need, how far the answer has got at each
await (`ProgressInv`). That one carries the argument for `VerdictMatchesReply`: until the sending
task has given a verdict only a disconnect can have, so that `[DONE]` finds no failure
on record, and an error event is sent only after a verdict other than success. A step of one
request does not touch `RequestInv` of another (`OthersKept`), which needs that waking a waiter
changes its future and not whether it waits. Then there is one lemma for each kind of
step: `BeginStep`, `QueueStep`, `MoveStep` for a request that keeps its lease and `EndStep` for one
that gives it back. `AdmitsAsCapacity` and `CallsAsCircuitBreaker` say that the gateway is, in its
safety, a `Capacity` and a `CircuitBreaker`; `AdmissionIsSafe` and `CircuitIsSafe` are what it has from that, and
`ServesAsPool` carries the refinement of `PermitPool` over.

`ReleaseProofs` proves `TypeOK`, `ResultsHold`, `RecordsWhatRuns` and `ProjectsKept` of `Release`, that
deployers exclude each other (`DeployersExclude`), and `RunsTheRecord` of `MCRelease`. An
attempt decides by what it read or found some steps ago; `HolderInv(d)` says why that is still
so: its `previous` is the record (`LocalsInv`), without a record every container is its own
(`OwnInv`), and what `up --wait` or `stop` found still stands (`SettledInv`). `OthersIdle` uses
the lock: nobody else is at work, and `HolderInv` asks nothing of an idle deployer. What a killed attempt left behind is
covered because `ProjectInv` holds whatever is running. For `RunsTheRecord`, `VouchedInv` says
of an attempt that has not got beyond its checks that the project is as it found it.

`UpstreamProofs` proves `TypeOK`, `ResponsesClosed` and `HealthyModelNotBlamed` (which says nothing of
timeouts, although the circuit counts them), and that
every step is a step of `ModelStream` or none, of `UpstreamStream` and of `Backends`, where the mode
may choose the offline backend instead (`OfflineInv`: an answer is there from the start, and
so is whether its failure comes before the end). That an answer
that ends with `[DONE]` is whole needs two facts of the lines that are not read: the
pieces taken and those still on the wire are all that was said (`PiecesInv`), and `[DONE]`
is the last line, so that nothing is behind it when it is read (`DoneInv`). The pieces on
the wire are counted as the set of their positions; `TextsTail` shifts it by one when
a line is read. `FaultInv` says that a line that fails the call as the model's fault is on
the wire only of a faulty server.

`TokenBucketProofs` proves `TypeOK` and `LimitSpec` of `TokenBucket`, and `BurstBound` of
`MCTokenBucket`, which adds the interval that is watched. `TypeOK` is inductive: that
the places are an order without gaps after an entry was taken out from the middle and
put at the end is its hard part (`AllowOrder`). For the refinement the clients that have
asked since another did are those with smaller places; as there are no gaps they are
one less than its own place (`SinceCount`), which is why a length of the dictionary can
stand for the memory of each client. A tick, which only the clock takes, lowers every
meter (`TickRefills`), whether its bucket has an entry or not. `WindowInv` adds to
`BurstBound` what the client could get now.

`EmbeddingSpaceProofs` proves `TypeOK`, `OneSpace` and the action property `SettledOnce`. The
invariant adds the lock (`LockInv`): one call registers at a time, and one that is
past the check commits into the space it has seen, or none. `put` and `search` take no
lock; they are safe because a space that has been settled never changes, which is
the same invariant.

Model-checked only: liveness, which is out of the prover's reach. That is `EveryWaitEnds`,
`HoldDownEnds`, `ProbeEnds`, `PermitsComeBack`, `Drains`, `QueueEnds`, `DeadlineBounds`, `NotStarved`,
`LockComesBack`, and the fairness that `PoolSpec` and `StreamSpec` state beside the steps that the
refinement theorems prove.

## Findings

1. `gateway_stall` (app.py 122, 138, 142). After a backend timeout the error event and
   the final body are sent outside any deadline, and the cleanup comes after them. A
   client that neither reads nor disconnects keeps its permit and the model's response.
   docs/deployment.md 75-76 says that the cleanup releases them.
2. `release_retry` (deploy.py 72-75). A failed first release leaves stopped containers
   and no record, so its retry is refused. docs/gpu-migration.md 63-64 says to retry.
3. `release_report` (deploy.py 113). The rollback does not catch `KeyboardInterrupt`, the
   release does: an interrupted rollback, or a file that cannot be written, ends the
   attempt with the last-attempt file of the one before, which may say "verified".
   docs/delivery.md 92-93 says that rollback failure is reported.
4. `upstream_malformed` (backends.py 95-98). An event whose `choices` is an object raises
   `KeyError`, which the parser does not list. The call is recorded as cancelled and a
   streamed answer breaks off without its error event. docs/deployment.md 79: "A
   network/HTTP/malformed-stream failure increments the backend circuit".

## What is abstracted

* `Capacity`: the high-water marks.
* `TokenBucket`: the rounding of floats, and how identities are made (app.py 195-197).
* `Gateway`: contents of requests and answers, checks before admission, the wording of
  errors. Pieces are not counted: `next` and `chunk` alternate. A request that is
  turned away at once leaves no state. Uvicorn is modelled by whether a send returns,
  fails or neither, when it reports a disconnect, and by cancelling the requests that
  outlive the graceful shutdown. The deadline covers sends to the client too, so
  that a slow reader can make it fire after the model has answered; that the circuit
  counts this as a failure (app.py 90) is in the model (`DeadlineFires` in `last`), and no property
  speaks against it: `HealthyModelNotBlamed` leaves timeouts out. A backend that is
  closed at shutdown fails what is still open, which is one of the ways it may fail at any time.
* `UpstreamStream`: the contents of lines, httpx and its connection pool (`open` may fail at
  once, as it does when the pool is exhausted; `ConnectionsWithinLimit` says when it is
  not). A content that is not a string, if it is true in Python, counts as a piece, as
  it does in the code; the gateway's joining of such pieces (app.py 258-260) is not modelled.
* `EmbeddingSpace`: vectors, ranking, namespaces. Clients supply vectors of the configured
  model: the service cannot tell. Each statement takes effect at one point in time,
  after a check that read what was committed then (READ COMMITTED).
* `Release`: docker compose and the canary. `up` replaces containers one at a time, in
  any order, and may leave each new one stopped. A container that has come up is not
  said to stop by itself. The database counts only as a container that makes the project
  exist (`CreateDatabase`). A foreign project that appears only between the check and `up`
  is not modelled. The model name, the vLLM image and the credentials are left out of a
  release. The operator removes a stale lock only after all of that attempt
  has ended, as docs/delivery.md 91-92 asks; what a dying attempt still does is a kill
  that comes later.

## Not modelled

* `Metrics` (metrics.py), beyond `MeasuredOnce`: `observe` adds to counters and `render` prints
  them, each in one step; what could be wrong there depends on one call and not on an
  order of events. Requests that are refused are observed too (app.py 231, 238, 244),
  and are left out with the counters.
* The HTTP edge (app.py 44-75, 190-224): request ids, the body limit, authentication,
  the model list and the probes look at one message each and keep nothing beyond it.
  `ready` of the backends changes nothing.
* Settings: fixed after the start; what it checks is assumed of the constants.
* The BentoML mount: the same application in another server.
* The canary, preflight, demo and benchmark clients: sequential and stateless. Canary and
  preflight appear in `Release` as steps that pass or fail.
* Compose files and CI: configuration.
