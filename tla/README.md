# Hexeract in TLA+

TLA+ models of the parts of Hexeract in which several tasks, a database or a
broker meet: the transactional outbox, the durable scheduler and the outbox as its
sink, request-reply over the bus from both ends, the bus worker, and the publisher
transport.  TLC checks small instances of all of them; TLAPS proves the safety
properties that these runs find to hold, the refinements included, for every number of
workers, rows, schedules, calls, messages and publications.  Liveness is model-checked.

    tlc -workers 2 -config OutboxRace.cfg MCOutbox
    tlapm OutboxProofs.tla

`PROJECT.json` lists the components, the runs, the line of source behind every
definition, the hazards, the mutations of the code that each property rejects,
and the theorems.

## 1. The system

| part | crates | where state meets concurrency |
|---|---|---|
| outbox | `hexeract-outbox`, `hexeract-outbox-sql` | workers of several processes share a table; a soft lease, an `attempts` fence, an optional dead-letter table |
| scheduler | `hexeract-scheduler`, `hexeract-scheduler-sql` | workers and operators share a schedule table; `leased_until` is lease and fence |
| request-reply | `hexeract-bus`, `hexeract-bus-rabbitmq` | calls, the consumer of the reply inbox, its supervisor and `close()` share a registry |
| bus worker | `hexeract-bus-rabbitmq` | a consumer acknowledges, retries through a wait queue, dead-letters |
| transport | `hexeract-bus-rabbitmq` | a pool of confirming channels, connections that are retried |
| mediator, middleware | `hexeract-mediator`, `hexeract-middleware` | in-process dispatch; concurrent fan-out of notifications |
| envelope security, core, macros, CLI | | pure functions, traits, generated code, one-shot commands |

The scheduler hands an occurrence to a sink: the bus, the mediator, or the
outbox, where it is inserted idempotently under its `OccurrenceId`.  The outbox
hands a row to a handler, typically one that publishes on the bus.  A request is
a message with a return address: an exclusive queue of the client's connection.

## 2. Modules

| module | what it is |
|---|---|
| `Outbox` | the outbox table, its publishers, workers and faults |
| `OutboxContract` | what the outbox promises a publisher, without leases, workers or races |
| `Backoff` | `next_retry_delay` in fixed-width arithmetic; part of `Outbox` |
| `Scheduler` | the schedule table, its workers and operators, both kinds of store |
| `ScheduleContract` | what the scheduler promises a submitter and an operator, without leases, workers or clocks |
| `RequestReply` | calls, registry, reply-inbox supervisor, shutdown |
| `RabbitMqWorker` | the workers of one queue, the queue, its wait queue and the broker's side of their channels |
| `Responder` | `RepliedHandler` and its deadlines, on top of `RabbitMqWorker` |
| `Transport` | publications, the channel pool, the connection and its recovery |
| `ScheduledOutbox` | `Scheduler` with `OutboxSink` and the keys of the outbox table |
| `MC*` | instances for TLC: delays, symmetry |
| `OutboxProofs` | the proofs about `Outbox` and `Backoff` |
| `SchedulerProofs` | the proofs about `Scheduler`: fence, outcomes, budget, contract |
| `ScheduledOutboxProofs` | that `ScheduledOutbox` is a `Scheduler`, the handover, and the lease of the scheduler |
| `RequestReplyProofs` | the proofs about `RequestReply` |
| `RabbitMqWorkerSteps`, `RabbitMqWorkerProofs` | the proofs about `RabbitMqWorker` |
| `ResponderProofs` | that `Responder` is a `RabbitMqWorker`, and the replies |
| `TransportProofs` | the proofs about `Transport` |

The operators that `PROJECT.json` lists under "mutants" (`FenceIgnoresAttempts`,
`ResumeKeepsLease`, `MarkForgotten`, ...) are the definition that follows them
with a plausible mistake; no specification uses them.

### Outbox

A step is one SQL transaction, one handler call or one return.  `poll_cycle` is
`Poll`, the claims, then `StartDispatch`, the outcome and one
settlement per row, then `EndCycle`;
a transaction that fails is `PollRollsBack` or `SettleRollsBack`.  On PostgreSQL and MySQL the claim runs
under the row locks of `FOR UPDATE SKIP LOCKED` (`LocksOf`); on SQLite a deferred
transaction loses its snapshot to any commit in between (`LosesSnapshot`).
Leases and retry times count down to 0; `Tick` moves time.  With `Timely` time
only passes while a handler runs, which is what the claim "the lease covers the
batch" is about; without it a lease may lapse between any two steps.  A
settlement applies only while `attempts` is what the claim made it
(`FenceHolds`).  `served`, `holder` and the like are ghosts: no guard reads them.

### Scheduler

`Sweep`, `ClaimDue`, then per occurrence `SkipElapsed` or `StartDispatch`, the
sink's answer or `DispatchTimesOut`, and one acknowledgement.  `holder[s]` stands
for the value of `leased_until`: the database clock moves on between two leases
of a row, so the value names the claim that wrote it.  The operator's `resume` is
two steps, as in `SchedulerControl`: it inspects, then writes.  `Store` selects
the SQL statements or the in-memory store where they differ (resume, the decoding
of claimed rows, faults).

`ScheduleContract` keeps of a schedule its status, whether it is paused, the number of
the occurrence, the attempts charged and dispatched, and whether the sink accepted it.
`Status` reads the status off the columns of the row; `occ` and `attempts` are `nth` and
`tries`.

### RequestReply

A step is one critical section or what happens between two awaits.  Registration,
the read of the inbox state, admission, and the return of the publication are
separate steps of a call; marking the inbox `Reconnecting` and draining the
registry are separate steps of the supervisor; `close()` is four steps, taken by
any number of tasks.  The broker may take a request long before its confirm
returns, so a reply may come first.  A deadline may pass and a caller may give up
in any step.  The retired identities are kept in the order of their retirement;
`drain` retires slots in the arbitrary order of a hash map.

### RabbitMqWorker

The broker holds copies of a message in the queue, in the wait queue, or unsettled
on a worker's channel; a copy carries the x-death count from which `death_count`
derives the attempt.  A job is a delivery as the worker holds it.  The two are kept
apart because a delivery outlives its channel: `consumer.next()` still yields what
was buffered before the connection was lost, while the broker has given the message
to somebody else.  A channel is open, cut (the broker knows, the client does not, and
an acknowledgement vanishes although `basic_ack` returned `Ok`) or closed.  A retry
is three steps: the copy is stored, its confirm arrives, the original is
acknowledged.  Without `max_buffered` the loop awaits each dispatch; with it, a
delivery is held until a permit is free and dispatched on its own task.  The ack
mode is chosen in `Init`, so one run covers all three.

The broker is modelled as the worker uses it.  One assumption is worth knowing:
`Expire` continues the x-death count that the republished copy carries, which the
retry budget rests on.

### Responder

A message is a request, and the worker underneath is the whole of `RabbitMqWorker`:
a step of the responder that returns from `dispatch` is the `HandlerReturns` of its
delivery, with the outcome that decides whether the worker acknowledges, retries or
buries.  `Admit` is the five guards in their order (return address and request id,
version, deadline, payload), `Complete` the return of the request handler and the
suppression of a late reply, `Reply` the publication and its confirm.  The deadline
is stamped by the clock of the caller when the request is published
(`WithinHorizon`), read once by the wall clock of the responder, which is off by
`skew` (`Anchor`), and counted on its monotonic clock from then on.  An inbox that
is lost never comes back, so its replies fail for good.

### Transport

A publication takes a permit, pops an idle channel or opens one, publishes, gives
its slot back, and only then awaits its confirm; a failed attempt may wait for the
recovery of its channel and be repeated once.  The steps are the awaits of
`publish_with_recovery`, `acquire` and `publish_then_release`, and a caller may give
up at each.  `frame` is what became of the last frame of a publication, `stored` how
many copies of it the broker has; the session is up, down while it recovers, or gone.
The constructor probes, dials the session, each within its bound (`BoundExpires`), and
then declares the exchange, if one is configured, which nothing bounds (`DeclareReturns`).  The
order in which `PooledChannel` is dropped (the channel first, then the permit) is
`ReturnChannel`, then `ReleasePermit`.

### ScheduledOutbox

The scheduler is unchanged: `SchedulerMoves` is its `Next`, with the condition that
a sink returns Ok for a schedule with `Target::Outbox` only after its enqueue has
committed.  Of the outbox only the keys in the table are kept: `EnqueueIdempotent`
adds one, `Bury` removes one when an event is given up.  A dispatch that ends
without a commit may leave its COMMIT behind (`late`), to be executed at any time.

## 3. Runs

| run | instance | shows |
|---|---|---|
| `outbox_race` | 2 workers, 2 rows, 2 attempts, 2 faults, leases lapse at will | the fence lets only the newest claimant settle; a delivered row stays delivered; no attempt is dispatched twice; the contract is implemented |
| `outbox_sqlite` | SQLite, 2 workers, 3 rows of which one is undecodable, batches of 2, 1 fault, time passes only in handlers, fair workers; `Backoff` with a 4-bit factor and durations up to 60 | the snapshot rule does the work of row locks; a lease of n timeouts covers a batch of n; every decodable row is delivered or left with its attempts spent; the saturating delay is the mathematical one |
| `outbox_stranded` | 1 worker, 1 row, 1 attempt, 1 crash | **violated**: a crash on the last attempt strands the row |
| `scheduler_cron` | SQL store, 2 workers whose clock leads the database's by 1, a cron schedule with 2 occurrences, 3 commands, 1 fault, fair workers | fence, budget, outcomes; the contract is implemented; every schedule ends unless it is paused |
| `scheduled_outbox` | in-memory store, 2 workers, 2 schedules of which one targets the outbox, 2 commands, one event given up, late COMMITs | no second dispatch under a lease; no attempt charged without a dispatch; an occurrence is acknowledged only with its row committed, and has a second row only if the outbox gave up the first |
| `scheduler_resume_overlap` | SQL store, pause then resume | **violated**: resume releases the lease of a running dispatch |
| `scheduler_poison_batch` | SQL store, a batch of an undecodable and a healthy row, 2 attempts, no faults | **violated**: the healthy row is charged twice with the other one and buried without a dispatch |
| `request_safety` | 2 calls, 2 closers, 2 inboxes, 2 replies per call, room for 2 | no slot leaks, nobody waits on a dead inbox, shutdown is complete |
| `request_liveness` | room for 1 call, no second inbox | every call and every `close()` ends; a refused call was never sent |
| `worker_safety` | 2 workers, an ordinary and a poison message, each ack mode, 2 attempts, a window of 2, 1 permit, 1 fault, 1 cancellation, with a dead-letter queue | a manual message is never lost; no delivery is left on a prefetch slot; the budget is spent before a burial and not exceeded without faults; early acknowledgement is at most once unless the acknowledgement is lost |
| `responder` | 1 worker without a dead-letter queue, 1 request of every shape, timeouts below and above the horizon, a clock ahead or behind, 1 failed reply, the inbox lost, 1 fault, 1 cancellation | a caller that waits is not silenced; a request is run again only after a fault; retries end, and so does every shutdown |
| `transport_pool` | 2 publications, a pool of 1, with and without confirms, the connection lost and recovered, a channel closed, callers that give up | the pool keeps its cap; what a publication reports agrees with what is stored; no slot waits for a confirm, if the broker opens channels and takes frames |

Bounds.  Two workers suffice for every race of the fences, which relate a claim
to the newest one; three claims of a row happen with two workers, because a
worker claims again.  Two attempts give a retry and a last attempt.  One fault
places a crash or an SQL error anywhere; `outbox_race` has two, so that a
recovery can fail as well.  Two calls with room for two make a drain retire
several slots; room for one makes the registry refuse.  Two inboxes are one lost
connection and one recovery; after the last the broker stays away.  Two workers on
a queue make a redelivered message run beside its first delivery; two attempts of a
message are one trip through the wait queue and the exhausted path; two tags allow
an original beside its retry copy.  For the responder one request is enough: requests
share nothing but the worker, which `worker_safety` has with two messages; time runs
to 2, past every announced deadline.  Two publications on one slot are a holder and a
waiter.  `scheduled_outbox` has no crashes, because an in-memory store does not survive
them: a dispatch that times out after its COMMIT takes the same path through the sink
as one whose worker died.  What the
proofs cover holds for all values of these constants.

Deadlock is not checked where the system may come to rest: every row settled, no
publisher left (outbox), the client closed and its calls returned (request-reply), the queue drained and no
message left to publish (worker, responder), every publication returned (transport).

Fairness.  A tokio task that can take a step is eventually polled, timeouts
expire, database time passes, a dead worker is restarted by its supervisor.
Nothing is assumed of handlers, sinks or responders: `outbox_sqlite` and
`scheduler_cron` rely on the dispatch timeout and `request_liveness` on the
deadline of the call, not on an answer.  `CloseTerminates` takes one thing for granted:
`run_reply_inbox` starts with a `basic_consume` that is not raced against the token, so
the broker must answer it or lose the connection; the run has one closer.  In
`transport_pool` only the steps within the process are fair (`InProcess`): no confirm
need come and no session recover.  A channel is opened, and a frame handed to the socket,
with a permit held and without a bound, so `NoSlotWaitsForAConfirm` has the premise that
these end (`BrokerTakesRequests`); without it TLC finds a caller parked behind one
whose `channel.open` is never answered.  The bus worker has no dispatch timeout, so
its two liveness properties have the premise that handlers return
(`HandlersReturn`), except for the shutdown of a bounded worker, which the grace
period ends.  There the broker is assumed to deliver, to expire the wait queue and
to answer on an open channel, and a stopped worker to be run again: the code leaves
that to the application.  In `responder` the guards and the reply make progress, a
request handler need not.  Faults are bounded, so recoveries
are not undone for ever.

## 4. Where the code and its documentation disagree

* `outbox_stranded`: the changelog says that crashes count as attempts "so poison
  envelopes reach the dead-letter threshold"; the row whose last attempt crashed
  is no longer polled and nobody dead-letters it.  (The scheduler has a sweep for
  this case.)
* `scheduler_resume_overlap`: `resume(None)` "only unpauses, leaving the occurrence
  intact" in the store's contract; the SQL stores also clear `leased_until`, and a
  competing worker dispatches the occurrence while the first still does.
* `scheduler_poison_batch`: rows are decoded after the claim has committed and the
  first failure discards the batch, attempt after attempt, until the sweep
  dead-letters the healthy rows of the batch too.

Read in the code, without a run: the comment of `CallObservation::admit` says that
the `in_flight` gauge never exceeds `max_in_flight`, but a slot is free as soon as
its reply is delivered while the gauge falls when the call is dropped.  The
documentation of `max_buffered` says that `Some(0)` is treated as no bound, but
`build` rejects it.  `run` is documented to stop consuming on cancellation and then
to wait; its consumer stays subscribed during the wait, so the broker still sends,
and a `no_ack` message sent then is gone.  A batch full of undecodable outbox rows is
polled again and again; the comment in the store speaks of a single such row.
`OutboxSink` promises that an occurrence "reaches the outbox exactly once"; that is so
as long as its row is in the table, and `OneRowUnlessBuried` states the exception.
`within_horizon` speaks of a timeout a responder "would accept", but `anchor` applies
the skew tolerance to the past only: with a timeout at the horizon, a responder whose
clock is behind answers `Malformed`.  `new_with_config` of the transport ends with "No
path blocks forever", but its two bounds cover the connects only: `declare_exchange`
awaits the broker twice without one, and in `Transport` the constructor can stay in
`"declaring"` for good.  `ack-modes.md` gives `AckOnReceive` as at most once without
exception; `AtMostOnce` has one, an acknowledgement lost with its connection, after
which the broker delivers a message whose handler runs or has run.  The acknowledgements
of `ScheduleStore` are documented to apply "only when the schedule is still `Pending`";
the in-memory store refuses them for a paused schedule, the SQL statements do not read
`paused`.  `Fenced` has both, and the contract allows both.

## 5. Proofs

| theorem | states |
|---|---|
| `OutboxProofs!Fencing` | `FencingInv` is an invariant |
| `TypeCorrect`, `FenceIsSafe`, `DeliveryIsEarned` | types; the fence identifies the newest claimant; delivered rows were served |
| `OutboxProofs!Table` | `TableInv`, the part of it that survives ids enqueued again |
| `OutboxProofs!DeliveryIsFinal`, `AttemptsAreCountedOnce`, `BurialIsSpent`, `BurialIsEarned` | what no step of the outbox does |
| `OutboxProofs!RetriesBackOffExactly` | the retry delay is the bounded exponential, for every width |
| `OutboxProofs!Refinement` | `Outbox` implements `OutboxContract` |
| `OutboxProofs!LeaseCoversBatch`, `NoTwoHandlersBeforeTheirDeadlines` | the lease of a batch outlasts its dispatches; no two handlers of an event before their deadlines |
| `SchedulerProofs!Ledger` | `LedgerInv` is an invariant |
| `FenceIsExact`, `BudgetBeforeBurial`, `OutcomesAreFinal` | fence and outcomes of `scheduler_cron` |
| `SchedulerProofs!Budget`, `BudgetIsKept` | no occurrence is dispatched more often than `max_attempts` |
| `SchedulerProofs!ContractIsKept`, `ScheduledOutboxProofs!ContractIsKeptWithOutbox` | `Scheduler` implements `ScheduleContract`, and so does `ScheduledOutbox` |
| `ScheduledOutboxProofs!OutboxIsASink` | `ScheduledOutbox` implements `Scheduler` |
| `Handover`, `AcknowledgedIsHandedOver`, `HandoverIsIdempotent` | an acknowledged occurrence has its row, and a second one only after a burial |
| `ScheduledOutboxProofs!LeaseCovers`, `LeaseExcludes`, `EveryAttemptCounts` | in `Scheduler`, the lease keeps others off and no attempt is charged without a dispatch |
| `LeaseHoldsWithOutbox` | the same in `ScheduledOutbox` |
| `RequestReplyProofs!RequestInvariant` | `RequestInv` is an invariant |
| `NoSlotLeaks`, `ReconnectRaceIsClosed`, `RefusalsAreSafe`, `ShutdownWaits`, `ShutdownIsComplete` | the safety properties of the request runs |
| `RequestReplyProofs!RetiredInvariant`, `MemoryIsTruthful`, `DrainsAreRemembered` | the memory of retired slots is true, and a drain fits into it |
| `RabbitMqWorkerProofs!WorkerInvariant` | `WorkerInv` is an invariant |
| `ManualIsAtLeastOnce`, `WindowHoldsOnlyWork`, `BurialTakesTheBudget`, `EarlyAckIsAtMostOnce` | the properties of `worker_safety` that hold with faults |
| `RabbitMqWorkerProofs!CalmWhileNothingFails`, `RunsStayWithinBudget` | without faults, a handler runs at most `max_attempts` times |
| `ResponderProofs!ResponderIsAWorker` | `Responder` implements `RabbitMqWorker` |
| `DispatchesAreTruthful`, `NoCallerIsSilenced`, `OneDispatchWhileNothingFails`, `RerunsAreFaults` | the safety properties of `responder` |
| `TransportProofs!TransportInvHolds` | `TransportInv` is an invariant |
| `PoolCap`, `OkMeansStored` | the safety properties of `transport_pool` |

Hypotheses.  Every theorem assumes what its module's `ASSUME` says of the constants
(finite sets, naturals, positive bounds).  Some need more, and say so:
`SingleIncarnation` for the fence of the outbox and what rests on it, `Timely` for the two leases, and `LeasesAreKept`
and `NothingFails` for the lease and the attempts of the scheduler.  The runs that
check the same properties satisfy them; `scheduler_resume_overlap` and
`scheduler_poison_batch` show what happens when the last two do not hold.

**Outbox.**  That a claim passing the fence is the newest is not inductive: one
has to know that two claims in flight never carry the same row with the same
number (`AttemptsAreExclusive`), that the counter is never behind a claim
(`CounterLeads`), and, for the row locks and the snapshot rule to give that, that
a polled row is undelivered while its poller may still claim it
(`PolledIsUndelivered`).  These proofs assume `SingleIncarnation`: with a dead-letter
table, no id is enqueued a second time after it was buried.  Without that, `attempts`
starts from 0 again and an old claim can match a new one.  Three results do not need the
assumption, because row locks or the snapshot rule alone give them: types, that a
delivered row stays as it is, and that a row leaves the table only when its attempts are
spent.  They follow from `TableInv`, which says of claims only that one is at hand when a
row is dispatched or settled, and of polls that what is polled is undelivered.  The refinement maps the
table and its dead letters to one status per event (`Status`) and `attempts` to
`tries`; a claim maps to one step of the contract, polls, handler calls and fenced-out
settlements to none.

That two handlers of an event do not overlap before their deadlines is `DeadlineInv`:
the claims of a worker that are still to be dispatched, or within their timeout, hold
the fence and have a lease of at least the time left to the running dispatch plus one
timeout per row to come (`Leased`).  `lease_for` establishes it for a batch and each
dispatch uses up its own share.  It needs `Timely`: the code has no guard against time
spent between two dispatches, and neither has the theorem.

The retry delay saturates three times: in the shift, in the product and at the cap.  That
the result is base * 2^attempts cut off at the cap needs that powers of two exist as a
table (`DoublingExists`), and that they grow (`TwoToGrows`), both by the least counterexample
(`Least`).  Powers are tables of doublings, `TwoTo`, because the prover knows nothing of `^`.

**Scheduler.**  `LedgerInv` adds to the fence what a worker holds in each phase
(`WorkerShape`), that a schedule has one outcome (`OneOutcome`), that a
dead-lettered one is spent, and that a sink's Ok belongs to the current claim
(`OkWasServed`).  It is proved for both stores, with arbitrary clock skew.

The refinement of `ScheduleContract` needs `ContractInv`: the budget below, that a dispatch
was counted for every claim that is past it, and that only a cron is resumed at a next
occurrence.  A sweep gives up, and a claim charges, a batch in one step; skipped and failed
occurrences, refused acknowledgements, crashes and ticks are stutters.  `Deliver` and
`Recur` ask that the sink accepted the current occurrence, which the fence gives: a worker
whose lease is still the one of the row settles the occurrence it dispatched.

The budget is a count: the attempts charged to an occurrence are at least its
dispatches plus the claims that may still become one (`Lost` is not negative).  The
pending claims are counted by their attempt numbers, so that two of them are different
(`ClaimsAreCharged`).  `LeaseOutlastsBatch` is the scheduler's `Leased`, with the
`leased_until` of the claim (`hold`) in the place of a countdown per row; it holds
where no command releases a lease (`LeasesAreKept`: the in-memory store, or no
commands).  `NothingIsLost` then says that `Lost` is 0: without faults, undecodable
rows and clocks that differ by a dispatch timeout, the elapsed-lease guard skips nobody.

**ScheduledOutbox.**  Each step is a step of the scheduler or leaves it alone, so the
theorems of `SchedulerProofs` hold with this sink.  `HandoverInv` counts rows: a key is
in the table exactly when one more row was made for it than given up (`RowsAreCounted`),
and a sink's Ok means that a row was made (`OkHasItsRow`).

**Request-reply.**  `RequestInv` adds the phases of calls, inbox and closers.  The
reconnect race needs `InboxPhases`: from the mark on, the state offers no inbox,
so a call that registers after the drain cannot read the lost one.  Shutdown needs
that a closer which was handed no receiver saw no publication in flight, and that
none was admitted since.

The memory is true (`RetiredInv`) because a call loses its slot once and its channel
is settled in the same step.  A drain retires the slots one by one in an arbitrary
order; that the i-th memory holds the first i of them as its newest entries (`Turn`)
is proved by induction over the order, as the least place where it would fail
(`Least`, from the library's well-founded induction over a set).

**Bus worker.**  That no manual message is lost rests on `AcknowledgedIsCovered`: a
delivery about to be acknowledged is one the broker can do without, because its
message is settled or another copy is stored.  "Another copy" must not be circular,
or two copies could each be acknowledged for the sake of the other; hence a copy is
covered by one with a larger x-death count, or by its retry copy in the wait queue,
which comes back with a larger count (`Covered`).  The budget needs that every death
of a copy was a run of its handler (`DeathsWereRuns`).  At most once needs `OneOffer`:
in the modes that acknowledge first a message is in the queue or with one worker,
never both, and with none once its handler has run, unless an acknowledgement of it
was lost.  That nothing is retried in these modes needs in turn that a message that
does not decode is never run (`PoisonNeverRuns`).  The proof has one lemma per step;
steps that leave the broker alone share `JobMoves`, those that run no handler
`QuietStep`.  It holds for any prefetch window, number of permits and of faults, with
and without a dead-letter queue.

`CalmInv` is about behaviours before their first fault: a manual message is in one
place (`OnePlace`: one stored copy, or one delivery neither settled nor given up), and
no channel is cut.  Then the x-death count is the number of runs, and the budget test of
the worker bounds both.

**Responder.**  Each step is a step of the bus worker or leaves it alone, so nothing of
the worker is proved again.  `ReplyInv` says that a confirm is awaited only for a reply
that was sent, and that the local deadline is never before the one announced, which is
where the tolerance for clock skew enters.  `RerunInv` is `CalmInv` for requests: while
nothing fails one delivery is dispatched and calls its request handler once.

**Transport.**  The pool's cap needs that the permits are those of the publishers
between `acquire` and the end of their slot, and that a publisher past the opening of
its channel has one (`PoolInv`).  What a publication reports needs how many copies may
be stored at each point on its way, before and after its one recovery (`CopiesSoFar`).

Only model-checked: the liveness properties (`EventuallySettled`, `EventuallyResolved`,
`CallsReturn`, `CloseTerminates`, `ShutdownEnds`, `NoSlotWaitsForAConfirm`), which need
reasoning about fairness and `ENABLED` that the prover does not offer.

## 6. Not modelled

* Payloads, headers, serialisation, logging, metrics and spans, throughout.  A
  message decodes or does not, a reply is acceptable or not.
* Envelope signing and verification: pure functions over bytes and a key library.
  Their outcome is `Decodes` and the acceptance of a reply.
* The calendar of cron expressions belongs to a library: a trigger has a next
  occurrence or none.  Timestamps are numbers, and identifiers are valid.
* The mediator and the middleware run handlers in the task of their caller and keep
  no state between calls; the bus and mediator sinks of the scheduler likewise.  A
  notification's handlers share nothing with each other in this code.
* The declaration of topology is done once, before the first delivery; that a queue is
  deleted later is `Unroutable`.
* The CLI issues single commands to the stores, and those are actions of `Scheduler`;
  macros generate code before anything runs.
* An outbox id enqueued again after its first row was buried is left out of the runs of
  `Outbox` and, by `SingleIncarnation`, of the theorems about its fence: the table then
  forgets the `attempts` that old claims were fenced by.  `Table`, `TypeCorrect`,
  `DeliveryIsFinal` and `BurialIsSpent` include it, and so does `ScheduledOutbox`, with the
  table reduced to its keys.
* `RequestReply` and `Responder` are not composed.  They meet through what each allows
  the other: replies that come at any time, twice or never on one side, callers that
  wait until their deadline or leave on the other.
