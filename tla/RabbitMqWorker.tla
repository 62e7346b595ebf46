--------------------------- MODULE RabbitMqWorker ---------------------------
(***************************************************************************)
(* The workers that consume one queue (hexeract-bus-rabbitmq, worker.rs):  *)
(* the three ack modes, the retry through the wait queue, poison and       *)
(* exhausted deliveries, failed publications, the bounded no_ack path and  *)
(* its drain; with crashes, lost connections and lost acknowledgements.    *)
(*                                                                         *)
(* A copy is a message as the broker stores it: the message, its x-death   *)
(* count for the wait queue, and a tag that tells equal copies apart.  A   *)
(* job is a delivery as a worker holds it; it outlives the channel it came *)
(* from.  An acknowledgement is a frame without an answer: it may be lost  *)
(* after basic_ack has returned Ok.                                        *)
(***************************************************************************)
EXTENDS Integers, FiniteSets

CONSTANTS
    Messages,       \* what producers publish to the queue
    Poison,         \* the messages that fail decoding or verification
    Workers,
    Modes,          \* the ack modes to consider
    HasDeadLetter,  \* dead_letter_routing_key is configured
    MaxAttempts,    \* RabbitMqWorkerConfig::max_attempts
    Prefetch,       \* RabbitMqWorkerConfig::prefetch
    MaxBuffered,    \* RabbitMqWorkerConfig::max_buffered, 0 for None
    MaxTwins,       \* bound: equal copies of a message at one time
    MaxFaults,      \* bound: crashes, lost connections and failed publications
    MaxCancels      \* bound: cancellations

ASSUME WorkerConstants ==
    /\ Poison \subseteq Messages
    /\ Modes \subseteq {"Manual", "AckOnReceive", "Unacknowledged"}
    /\ HasDeadLetter \in BOOLEAN
    /\ MaxAttempts \in Nat \ {0} /\ Prefetch \in Nat \ {0}
    /\ MaxBuffered \in Nat
    /\ MaxTwins \in Nat \ {0} /\ MaxFaults \in Nat /\ MaxCancels \in Nat

VARIABLES
    mode,       \* the AckMode of the deployment, never changed
    queue,      \* copies ready in the consumed queue
    wait,       \* copies in the wait queue <queue>.retry
    unacked,    \* unacked[w]: copies the broker expects w to settle
    acks,       \* acks[w]: copies whose acknowledgement is under way
    chan,       \* chan[w]: "open", "cut" (only the broker knows) or "closed"
    loop,       \* loop[w]: the consume loop of run()
    cancelled,  \* workers whose token has fired
    job,        \* job[w][c]: how far w is with its delivery of c
    faults, cancels,                          \* budgets left
    sent, runs, handled, buried, excused,     \* ghosts: what became of a message
    hopeless, ackLost

brokerVars == <<queue, wait, unacked, acks>>
workerVars == <<chan, loop, cancelled, job>>
ghostVars == <<sent, runs, handled, buried, excused, hopeless, ackLost>>
vars == <<mode, brokerVars, workerVars, faults, cancels, ghostVars>>

Phases == {"none", "buffered", "held", "handling", "retrying", "burying",
           "confirming", "requeueing", "settling"}
Waiting == {"none", "buffered", "held"}

Copies == [msg : Messages, deaths : 0..MaxAttempts, tag : 1..MaxTwins]

Bounded == mode = "Unacknowledged" /\ MaxBuffered > 0
Jobs(w) == {c \in Copies : job[w][c] # "none"}
Running(w) == {c \in Copies : job[w][c] \notin Waiting}
Free(c) ==
    /\ c \notin queue \cup wait
    /\ \A w \in Workers : c \notin unacked[w] \cup acks[w] /\ job[w][c] = "none"

\* A copy the broker does not hold yet.
Fresh(m, n) ==
    {c \in Copies : /\ c.msg = m /\ c.deaths = n /\ Free(c)
                    /\ \A t \in 1..(c.tag - 1) : ~Free([c EXCEPT !.tag = t])}

Init ==
    /\ mode \in Modes
    /\ queue = {} /\ wait = {}
    /\ unacked = [w \in Workers |-> {}] /\ acks = [w \in Workers |-> {}]
    /\ chan = [w \in Workers |-> "closed"] /\ loop = [w \in Workers |-> "stopped"]
    /\ cancelled = {}
    /\ job = [w \in Workers |-> [c \in Copies |-> "none"]]
    /\ faults = MaxFaults /\ cancels = MaxCancels
    /\ sent = {} /\ runs = [m \in Messages |-> 0]
    /\ handled = {} /\ buried = {} /\ excused = {} /\ hopeless = {} /\ ackLost = {}

SetJob(w, c, phase) == job' = [job EXCEPT ![w][c] = phase]
Fault == faults > 0 /\ faults' = faults - 1

-----------------------------------------------------------------------------
(* The broker and the producers.                                           *)

Publish(m) ==
    /\ m \notin sent
    /\ sent' = sent \cup {m}
    /\ \E c \in Fresh(m, 0) : queue' = queue \cup {c}
    /\ UNCHANGED <<mode, wait, unacked, acks, workerVars, faults, cancels, runs,
                   handled, buried, excused, hopeless, ackLost>>

\* basic.qos bounds what is unsettled; a no_ack consumer has no bound and its
\* deliveries are gone from the broker.  The subscription lasts as long as
\* the Consumer that run() holds, hence through the drain.
Deliver(w, c) ==
    /\ c \in queue /\ chan[w] = "open"
    /\ mode # "Unacknowledged" => Cardinality(unacked[w] \cup acks[w]) < Prefetch
    /\ queue' = queue \ {c}
    /\ unacked' = IF mode = "Unacknowledged" THEN unacked
                  ELSE [unacked EXCEPT ![w] = @ \cup {c}]
    /\ SetJob(w, c, "buffered")
    /\ UNCHANGED <<mode, wait, acks, chan, loop, cancelled, faults, cancels,
                   ghostVars>>

AckArrives(w, c) ==
    /\ c \in acks[w]
    /\ acks' = [acks EXCEPT ![w] = @ \ {c}]
    /\ UNCHANGED <<mode, queue, wait, unacked, workerVars, faults, cancels,
                   ghostVars>>

\* The TTL of the wait queue dead-letters the copy back to the queue and
\* counts it in x-death.
Expire(c) ==
    /\ c \in wait
    /\ wait' = wait \ {c}
    /\ \E d \in Fresh(c.msg, c.deaths + 1) : queue' = queue \cup {d}
    /\ UNCHANGED <<mode, unacked, acks, workerVars, faults, cancels, ghostVars>>

\* The broker drops the channel of w: what w has not settled is ready again,
\* acknowledgements under way included.  Deliveries still on their way may
\* never reach the client.
Redeliver(w) ==
    /\ queue' = queue \cup unacked[w] \cup acks[w]
    /\ unacked' = [unacked EXCEPT ![w] = {}] /\ acks' = [acks EXCEPT ![w] = {}]
    /\ ackLost' = ackLost \cup {c.msg : c \in acks[w]}

ConnectionLost(w) ==
    /\ chan[w] = "open" /\ Fault
    /\ chan' = [chan EXCEPT ![w] = "cut"]
    /\ Redeliver(w)
    /\ \E lost \in SUBSET {c \in Copies : job[w][c] = "buffered"} :
          job' = [job EXCEPT ![w] = [c \in Copies |-> IF c \in lost THEN "none" ELSE @[c]]]
    /\ UNCHANGED <<mode, wait, loop, cancelled, cancels, sent, runs,
                   handled, buried, excused, hopeless>>

\* The client learns of it (heartbeat or socket error).
ConnectionNoticed(w) ==
    /\ chan[w] = "cut"
    /\ chan' = [chan EXCEPT ![w] = "closed"]
    /\ UNCHANGED <<mode, brokerVars, loop, cancelled, job, faults, cancels, ghostVars>>

-----------------------------------------------------------------------------
(* dispatch                                                                *)

\* delivery_to_envelope accepts the properties, metadata and size of the
\* delivery, and its producer is verified.
Decodes(c) == c.msg \notin Poison

\* basic_ack, or basic_nack without requeue: it succeeds unless the channel
\* is known to be closed, and reaches the broker only if it is open.
Settle(w, c) ==
    IF chan[w] = "open"
    THEN /\ unacked' = [unacked EXCEPT ![w] = @ \ {c}]
         /\ acks' = [acks EXCEPT ![w] = @ \cup {c}]
         /\ UNCHANGED ackLost
    ELSE /\ ackLost' = ackLost \cup {c.msg}
         /\ UNCHANGED <<unacked, acks>>

\* handle_poison: to the dead-letter queue if there is one, else settled and
\* dropped; nothing is left to settle for a no_ack consumer.
HandlePoison(w, c) ==
    /\ SetJob(w, c, IF HasDeadLetter THEN "burying"
                    ELSE IF mode = "Unacknowledged" THEN "none" ELSE "settling")
    /\ excused' = IF HasDeadLetter THEN excused ELSE excused \cup {c.msg}
    /\ UNCHANGED <<unacked, acks, runs, ackLost>>

RunHandler(w, c) ==
    /\ SetJob(w, c, "handling")
    /\ runs' = [runs EXCEPT ![c.msg] = @ + 1]
    /\ UNCHANGED excused

\* verify_before_settlement under AckOnReceive when the acknowledgement fails.
LeaveForRedelivery(w, c) ==
    /\ SetJob(w, c, "none")
    /\ UNCHANGED <<unacked, acks, runs, excused, ackLost>>

\* Mutant: the handler runs although the acknowledgement failed.
AckOnReceiveIgnored(w, c) ==
    /\ RunHandler(w, c)
    /\ IF chan[w] = "closed" THEN UNCHANGED <<unacked, acks, ackLost>> ELSE Settle(w, c)

AckOnReceive(w, c) ==
    IF chan[w] = "closed" THEN LeaveForRedelivery(w, c)
    ELSE Settle(w, c) /\ RunHandler(w, c)

Dispatch(w, c) ==
    /\ \/ ~Decodes(c) /\ HandlePoison(w, c)
       \/ Decodes(c) /\ mode = "AckOnReceive" /\ AckOnReceive(w, c)
       \/ /\ Decodes(c) /\ mode # "AckOnReceive" /\ RunHandler(w, c)
          /\ UNCHANGED <<unacked, acks, ackLost>>
    /\ UNCHANGED <<mode, queue, wait, chan, loop, cancelled, faults, cancels,
                   sent, handled, buried, hopeless>>

-----------------------------------------------------------------------------
(* The consume loop.                                                       *)

\* The loop is back in its select: inline it awaits each dispatch, bounded it
\* only awaits a permit.
AtSelect(w) ==
    /\ loop[w] = "running"
    /\ \A c \in Copies : job[w][c] # "held"
    /\ ~Bounded => Running(w) = {}

\* consumer.next() yields a delivery, also one buffered before the channel
\* was lost; select! is not biased, so the token may have fired.
Take(w, c) ==
    /\ AtSelect(w) /\ job[w][c] = "buffered"
    /\ IF Bounded
       THEN /\ SetJob(w, c, "held")
            /\ UNCHANGED <<mode, brokerVars, chan, loop, cancelled, faults, cancels, ghostVars>>
       ELSE Dispatch(w, c)

PermitFree(w) == Cardinality(Running(w)) < MaxBuffered

\* BoundedInFlight::acquire; the cancellation wins a tie.
AcquirePermit(w, c) ==
    /\ loop[w] = "running" /\ job[w][c] = "held"
    /\ w \notin cancelled /\ PermitFree(w)
    /\ Dispatch(w, c)

-----------------------------------------------------------------------------
(* The outcome of a handler, and the settlement of its delivery.           *)

\* Mutant: one attempt too many.
BudgetSpentLate(c) == c.deaths >= MaxAttempts

\* Mutant: one attempt too few.
BudgetSpentEarly(c) == c.deaths + 2 >= MaxAttempts

\* route_failure
BudgetSpent(c) == c.deaths + 1 >= MaxAttempts

\* handle_manual_outcome: acknowledge, retry through the wait queue, or the
\* exhausted path, which drops the delivery without a dead-letter queue.
ManualOutcome(w, c, outcome) ==
    LET exhausted == outcome = "permanent" \/ (outcome = "error" /\ BudgetSpent(c))
    IN  /\ SetJob(w, c, IF outcome = "ok" THEN "settling"
                        ELSE IF ~exhausted THEN "retrying"
                        ELSE IF HasDeadLetter THEN "burying" ELSE "settling")
        /\ excused' = IF exhausted /\ ~HasDeadLetter THEN excused \cup {c.msg} ELSE excused

HandlerReturns(w, c, outcome) ==
    /\ job[w][c] = "handling"
    /\ handled' = IF outcome = "ok" THEN handled \cup {c.msg} ELSE handled
    /\ hopeless' = IF outcome = "permanent" THEN hopeless \cup {c.msg} ELSE hopeless
    /\ IF mode = "Manual" THEN ManualOutcome(w, c, outcome)
       ELSE SetJob(w, c, "none") /\ UNCHANGED excused
    /\ UNCHANGED <<mode, brokerVars, chan, loop, cancelled, faults, cancels, sent, runs,
                   buried, ackLost>>

\* publish_to_wait_queue reaches the broker; the confirm is still to come.
RetryCopyStored(w, c) ==
    /\ job[w][c] = "retrying" /\ chan[w] = "open"
    /\ \E d \in Fresh(c.msg, c.deaths) : wait' = wait \cup {d}
    /\ SetJob(w, c, "confirming")
    /\ UNCHANGED <<mode, queue, unacked, acks, chan, loop, cancelled, faults, cancels,
                   ghostVars>>

\* publish_dead_letter reaches the broker.
DeadLetterStored(w, c) ==
    /\ job[w][c] = "burying" /\ chan[w] = "open"
    /\ buried' = buried \cup {c.msg}
    /\ SetJob(w, c, "confirming")
    /\ UNCHANGED <<mode, brokerVars, chan, loop, cancelled, faults, cancels, sent, runs,
                   handled, excused, hopeless, ackLost>>

\* The confirm arrives: the original is acknowledged next.
Confirmed(w, c) ==
    /\ job[w][c] = "confirming" /\ chan[w] = "open"
    /\ SetJob(w, c, IF mode = "Unacknowledged" THEN "none" ELSE "settling")
    /\ UNCHANGED <<mode, brokerVars, chan, loop, cancelled, faults, cancels, ghostVars>>

\* Mutant: the delivery is left unsettled for the broker to redeliver.
LeftUnsettled == "none"

\* Mutant: the original is acknowledged without a stored copy.
AckedAnyway == "settling"

\* What retry_core, exhausted_core and handle_poison do with a delivery whose
\* publication failed.
AfterFailedPublish == IF mode = "Unacknowledged" THEN "none" ELSE "requeueing"

\* The broker refuses the publication.
PublishRefused(w, c) ==
    /\ job[w][c] \in {"retrying", "burying"} /\ chan[w] = "open" /\ Fault
    /\ SetJob(w, c, AfterFailedPublish)
    /\ UNCHANGED <<mode, brokerVars, chan, loop, cancelled, cancels, ghostVars>>

\* The channel is closed under the publication or its confirm.
PublishLost(w, c) ==
    /\ job[w][c] \in {"retrying", "burying", "confirming"} /\ chan[w] = "closed"
    /\ SetJob(w, c, AfterFailedPublish)
    /\ UNCHANGED <<mode, brokerVars, chan, loop, cancelled, faults, cancels, ghostVars>>

\* The wait or dead-letter queue is gone: nack without requeue.
Unroutable(w, c) ==
    /\ job[w][c] \in {"retrying", "burying"} /\ chan[w] = "open" /\ Fault
    /\ SetJob(w, c, IF mode = "Unacknowledged" THEN "none" ELSE "settling")
    /\ excused' = excused \cup {c.msg} /\ hopeless' = hopeless \cup {c.msg}
    /\ UNCHANGED <<mode, brokerVars, chan, loop, cancelled, cancels, sent, runs, handled,
                   buried, ackLost>>

\* nack_after_failed_publish with requeue, after its pause.
Requeue(w, c) ==
    /\ job[w][c] = "requeueing"
    /\ SetJob(w, c, "none")
    /\ IF chan[w] = "open"
       THEN /\ unacked' = [unacked EXCEPT ![w] = @ \ {c}]
            /\ queue' = queue \cup {c}
       ELSE UNCHANGED <<unacked, queue>>
    /\ UNCHANGED <<mode, wait, acks, chan, loop, cancelled, faults, cancels, ghostVars>>

\* The last ack or nack of a delivery, whether it succeeds or not.
SettleDelivery(w, c) ==
    /\ job[w][c] = "settling"
    /\ SetJob(w, c, "none") /\ Settle(w, c)
    /\ UNCHANGED <<mode, queue, wait, chan, loop, cancelled, faults, cancels, sent, runs,
                   handled, buried, excused, hopeless>>

-----------------------------------------------------------------------------
(* The end of run(), crashes and restarts.                                 *)

NoJobs(w) == job' = [job EXCEPT ![w] = [c \in Copies |-> "none"]]

\* run() returns and drops its channel: the broker, which has read the
\* acknowledgements sent before, takes back what was only buffered.
Return(w) ==
    /\ loop' = [loop EXCEPT ![w] = "stopped"] /\ chan' = [chan EXCEPT ![w] = "closed"]
    /\ NoJobs(w)
    /\ queue' = queue \cup unacked[w]
    /\ unacked' = [unacked EXCEPT ![w] = {}] /\ acks' = [acks EXCEPT ![w] = {}]
    /\ UNCHANGED <<mode, wait, cancelled, faults, cancels, ghostVars>>

Cancel(w) ==
    /\ loop[w] = "running" /\ w \notin cancelled
    /\ cancels > 0 /\ cancels' = cancels - 1
    /\ cancelled' = cancelled \cup {w}
    /\ UNCHANGED <<mode, brokerVars, chan, loop, job, faults, ghostVars>>

\* Mutant: a lost connection goes unnoticed.
LeaveLoopOnCancel(w) ==
    /\ w \in cancelled /\ loop[w] = "running"
    /\ AtSelect(w) \/ \E c \in Copies : job[w][c] = "held"
    /\ loop' = [loop EXCEPT ![w] = "draining"]
    /\ job' = [job EXCEPT ![w] =
                 [c \in Copies |-> IF @[c] = "held" THEN "none" ELSE @[c]]]
    /\ UNCHANGED <<mode, brokerVars, chan, cancelled, faults, cancels, ghostVars>>

\* The loop sees the token, in its select or while it awaits a permit; the
\* delivery it holds then is dropped.  Or the stream has ended.
LeaveLoop(w) ==
    /\ \/ /\ w \in cancelled /\ loop[w] = "running"
          /\ AtSelect(w) \/ \E c \in Copies : job[w][c] = "held"
       \/ AtSelect(w) /\ chan[w] = "closed"
    /\ loop' = [loop EXCEPT ![w] = "draining"]
    /\ job' = [job EXCEPT ![w] =
                 [c \in Copies |-> IF @[c] = "held" THEN "none" ELSE @[c]]]
    /\ UNCHANGED <<mode, brokerVars, chan, cancelled, faults, cancels, ghostVars>>

\* drain_in_flight: every spawned dispatch has been joined.
Drained(w) ==
    /\ loop[w] = "draining" /\ Running(w) = {}
    /\ Return(w)

\* Mutant: the drain has no timeout.
GraceNever(w) == loop[w] = "draining" /\ Running(w) # {} /\ FALSE /\ Return(w)

\* drain_in_flight: abort_all, then join what was aborted.
GraceExpires(w) ==
    /\ loop[w] = "draining" /\ Running(w) # {}
    /\ Return(w)

Crash(w) ==
    /\ loop[w] # "stopped" /\ Fault
    /\ loop' = [loop EXCEPT ![w] = "stopped"] /\ chan' = [chan EXCEPT ![w] = "closed"]
    /\ NoJobs(w) /\ Redeliver(w)
    /\ UNCHANGED <<mode, wait, cancelled, cancels, sent, runs, handled, buried, excused,
                   hopeless>>

\* A supervisor, or the next deployment, builds a new worker and runs it.
Start(w) ==
    /\ loop[w] = "stopped"
    /\ loop' = [loop EXCEPT ![w] = "running"] /\ chan' = [chan EXCEPT ![w] = "open"]
    /\ cancelled' = cancelled \ {w}
    /\ UNCHANGED <<mode, brokerVars, job, faults, cancels, ghostVars>>

-----------------------------------------------------------------------------
Outcomes == {"ok", "error", "permanent"}

SettlementStep(w, c) ==
    \/ RetryCopyStored(w, c) \/ DeadLetterStored(w, c) \/ Confirmed(w, c)
    \/ PublishLost(w, c) \/ Requeue(w, c) \/ SettleDelivery(w, c)

JobStep(w, c) ==
    \/ Take(w, c) \/ AcquirePermit(w, c) \/ SettlementStep(w, c)
    \/ PublishRefused(w, c) \/ Unroutable(w, c)

BrokerStep ==
    \/ \E c \in wait : Expire(c)
    \/ \E w \in Workers : \E c \in queue : Deliver(w, c)
    \/ \E w \in Workers : \E c \in acks[w] : AckArrives(w, c)
    \/ \E w \in Workers : ConnectionLost(w) \/ ConnectionNoticed(w)

WorkerStep(w) ==
    \/ Cancel(w) \/ LeaveLoop(w) \/ Drained(w) \/ GraceExpires(w)
    \/ Crash(w) \/ Start(w)

\* Every step but those of the producers and of the handlers.
Delivery ==
    \/ BrokerStep
    \/ \E w \in Workers : \E c \in Jobs(w) : JobStep(w, c)
    \/ \E w \in Workers : WorkerStep(w)

Next ==
    \/ Delivery
    \/ \E m \in Messages : Publish(m)
    \/ \E w \in Workers : \E c \in Jobs(w), outcome \in Outcomes : HandlerReturns(w, c, outcome)

Spec == Init /\ [][Next]_vars

-----------------------------------------------------------------------------
(* Properties.                                                             *)

\* Every variable keeps its type; in particular no copy is retried beyond
\* max_attempts, so the x-death count the workers read stays below it.
TypeOK ==
    /\ \A c \in queue : c.deaths < MaxAttempts
    /\ mode \in Modes
    /\ queue \subseteq Copies /\ wait \subseteq Copies
    /\ unacked \in [Workers -> SUBSET Copies] /\ acks \in [Workers -> SUBSET Copies]
    /\ chan \in [Workers -> {"open", "cut", "closed"}]
    /\ loop \in [Workers -> {"running", "draining", "stopped"}]
    /\ cancelled \subseteq Workers
    /\ job \in [Workers -> [Copies -> Phases]]
    /\ faults \in Nat /\ cancels \in Nat
    /\ sent \subseteq Messages /\ handled \subseteq Messages /\ buried \subseteq Messages
    /\ excused \subseteq Messages /\ hopeless \subseteq Messages /\ ackLost \subseteq Messages
    /\ runs \in [Messages -> Nat]

Held == queue \cup wait \cup UNION {unacked[w] : w \in Workers}

\* AckMode::Manual is at-least-once: a published message is handled, in the
\* dead-letter queue, dropped by policy, or still in a copy that the broker
\* holds and nobody has acknowledged, whatever crashes, connections and
\* publications fail between the retry copy and the acknowledgement.
ManualNeverLoses ==
    mode = "Manual" =>
        \A m \in sent : \/ m \in handled \cup buried \cup excused
                        \/ \E c \in Held : c.msg = m

\* A delivery is never left unsettled on a live channel: what the broker
\* counts against the prefetch window of w is a delivery w is working on.
PrefetchIsWorkedOn ==
    \A w \in Workers : chan[w] = "open" => unacked[w] \subseteq Jobs(w)

\* A message is dead-lettered or dropped for its budget only after
\* max_attempts runs of its handler, although attempts are counted by the
\* broker, across workers and restarts: it is poison, it failed permanently,
\* a queue was gone, or it has had its runs.
BudgetIsSpent ==
    mode = "Manual" =>
        \A m \in buried \cup excused :
            m \in Poison \cup hopeless \/ runs[m] >= MaxAttempts

\* The modes that acknowledge first are at-most-once: a handler runs twice
\* for a message only if its acknowledgement was lost with the connection.
AtMostOnce ==
    mode # "Manual" => \A m \in Messages : runs[m] > 1 => m \in ackLost

\* Without faults a message is handled at most max_attempts times.
RunsWithinBudget ==
    faults = MaxFaults => \A m \in Messages : runs[m] <= MaxAttempts

-----------------------------------------------------------------------------
(* The inductive invariant.                                                *)

\* What a worker holds in each state of its channel and of its loop.
WorkerShape ==
    /\ \A w \in Workers : chan[w] # "open" => unacked[w] = {} /\ acks[w] = {}
    /\ \A w \in Workers : loop[w] = "stopped" => chan[w] = "closed" /\ Jobs(w) = {}
    /\ \A w \in Workers, c \in Copies : job[w][c] = "held" => mode = "Unacknowledged"
    /\ mode = "Unacknowledged" => \A w \in Workers : unacked[w] = {} /\ acks[w] = {}
    /\ \A w \in Workers, c \in Copies : job[w][c] = "settling" => mode # "Unacknowledged"
    /\ mode = "AckOnReceive" =>
          \A w \in Workers : \A c \in unacked[w] : job[w][c] # "handling"

\* The x-death count of a copy is within the budget wherever it may be.
DeathsWithinBudget ==
    /\ \A c \in wait : c.deaths + 1 < MaxAttempts
    /\ \A w \in Workers : \A c \in unacked[w] \cup acks[w] \cup Jobs(w) : c.deaths < MaxAttempts
    /\ \A w \in Workers, c \in Copies : job[w][c] = "retrying" => c.deaths + 1 < MaxAttempts

\* Every death of a copy was a run of its handler.
DeathsWereRuns ==
    /\ \A c \in queue : c.deaths <= runs[c.msg]
    /\ \A c \in wait : c.deaths + 1 <= runs[c.msg]
    /\ \A w \in Workers : \A c \in unacked[w] \cup acks[w] \cup Jobs(w) : c.deaths <= runs[c.msg]
    /\ \A w \in Workers, c \in Copies :
          job[w][c] \in {"handling", "retrying"} => c.deaths + 1 <= runs[c.msg]
    /\ \A w \in Workers, c \in Copies :
          job[w][c] = "burying" => c.msg \in Poison \cup hopeless \/ runs[c.msg] >= MaxAttempts

\* The broker can do without copy c: its message is settled, or a copy that is
\* further on in its retries is stored.
Covered(c) ==
    \/ c.msg \in handled \cup buried \cup excused
    \/ \E d \in wait : d.msg = c.msg /\ d.deaths >= c.deaths
    \/ \E d \in queue \cup UNION {unacked[w] : w \in Workers} :
          d.msg = c.msg /\ d.deaths > c.deaths

\* A manual delivery is acknowledged only when the broker can do without it.
AcknowledgedIsCovered ==
    mode = "Manual" =>
        \A w \in Workers, c \in Copies :
            job[w][c] \in {"confirming", "settling"} => Covered(c)

\* The copies whose handler w may still run.
Offered(w) ==
    IF mode = "Unacknowledged" THEN {c \in Copies : job[w][c] \in {"buffered", "held"}}
    ELSE unacked[w]

\* Message m is on offer nowhere.
Withdrawn(m) ==
    /\ \A c \in queue : c.msg # m
    /\ \A w \in Workers : \A c \in Offered(w) : c.msg # m

\* Message m is on offer at most once, and no longer when its handler has run.
OnOfferOnce(m) ==
    /\ \A c, d \in queue : c.msg = m /\ d.msg = m => c = d
    /\ \A c \in queue, w \in Workers : c.msg = m => \A d \in Offered(w) : d.msg # m
    /\ \A u, w \in Workers : \A c \in Offered(u), d \in Offered(w) :
          c.msg = m /\ d.msg = m => u = w /\ c = d
    /\ m \notin sent => Withdrawn(m) /\ runs[m] = 0
    /\ runs[m] > 0 => Withdrawn(m) /\ runs[m] = 1

\* The modes that acknowledge first retry nothing, and offer a message again
\* only if its acknowledgement was lost.
OneOffer ==
    mode # "Manual" =>
        /\ wait = {}
        /\ \A w \in Workers, c \in Copies :
              c.msg \notin Poison => job[w][c] \in Waiting \cup {"handling"}
        /\ \A w \in Workers, c \in Copies :
              mode = "AckOnReceive" /\ job[w][c] = "buffered" /\ chan[w] = "open"
              => c \in unacked[w]
        /\ \A m \in Messages \ (Poison \cup ackLost) : OnOfferOnce(m)

\* The placement of copies and deliveries, the counts the broker keeps and
\* the runs they stand for, and the order of publication and acknowledgement
\* in retry_core and exhausted_core, which together give the properties.
WorkerInv ==
    /\ TypeOK /\ WorkerShape /\ DeathsWithinBudget /\ DeathsWereRuns
    /\ AcknowledgedIsCovered /\ OneOffer
    /\ ManualNeverLoses /\ PrefetchIsWorkedOn /\ BudgetIsSpent

\* Nothing is stored, held, run or handled that was not published.
OnlySent ==
    /\ \A c \in queue \cup wait : c.msg \in sent
    /\ \A w \in Workers : \A c \in unacked[w] \cup acks[w] \cup Jobs(w) : c.msg \in sent
    /\ handled \subseteq sent
    /\ \A m \in Messages : runs[m] > 0 => m \in sent

\* What may still lead to a run of the handler of m: a stored copy, or a
\* delivery that is neither settled nor given up.
Tokens(m) ==
    {<<"queue", {}, c>> : c \in {d \in queue : d.msg = m}}
    \cup {<<"wait", {}, c>> : c \in {d \in wait : d.msg = m}}
    \cup UNION {{<<job[w][c], {w}, c>> :
                   c \in {d \in Copies : d.msg = m /\ job[w][d] \in {"buffered", "handling", "retrying"}}}
                : w \in Workers}

\* The runs that lie behind such a token.
RunsBehind(t) == IF t[1] \in {"queue", "buffered"} THEN t[3].deaths ELSE t[3].deaths + 1

\* Message m is in one place only, with an x-death count that is the number of
\* its runs.
OnePlace(m) ==
    \A t \in Tokens(m) : runs[m] = RunsBehind(t) /\ \A s \in Tokens(m) : s = t

\* As long as nothing fails, a worker that is not stopped has its channel, no
\* acknowledgement is lost, and every message that is acknowledged after its
\* handler is in one place.
Calm ==
    /\ ackLost = {}
    /\ \A w \in Workers : chan[w] = "open" \/ loop[w] = "stopped"
    /\ \A w \in Workers, c \in Copies : job[w][c] # "requeueing"
    /\ mode = "Manual" =>
          /\ \A w \in Workers : loop[w] = "draining" => Running(w) = {}
          /\ \A m \in Messages : OnePlace(m)

CalmInv == faults <= MaxFaults /\ (faults = MaxFaults => Calm /\ RunsWithinBudget)

-----------------------------------------------------------------------------
(* Liveness, under the fairness that Responder states.                     *)

HandlersReturn == \A w \in Workers : []<>(\A c \in Copies : job[w][c] # "handling")

\* At-least-once also means that the retries end: if its handlers return, a
\* message is handled, dead-lettered or dropped by policy, although workers
\* crash, stop and lose their connections.
EventuallySettled ==
    (mode = "Manual" /\ HandlersReturn) =>
        \A m \in Messages : m \in sent ~> m \in handled \cup buried \cup excused

\* A cancelled worker stops: within its grace period if its handlers were
\* spawned, else once the handler that run() awaits returns.
ShutdownEnds ==
    (Bounded \/ HandlersReturn) =>
        \A w \in Workers : w \in cancelled ~> loop[w] = "stopped"
=============================================================================
