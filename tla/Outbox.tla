------------------------------- MODULE Outbox -------------------------------
(***************************************************************************)
(* The transactional outbox: the SQL table and its dead-letter table, the  *)
(* publishers that insert into it and the workers that poll, claim,        *)
(* dispatch and settle its rows (hexeract-outbox, hexeract-outbox-sql).    *)
(*                                                                         *)
(* Every SQL transaction is one step, except the claiming one, which is    *)
(* two (the SELECT of `poll`, then the UPDATE of `claim` with its COMMIT)  *)
(* because other transactions run in between.  Timestamps are counted down *)
(* rather than up: retryIn[e] is next_retry_at minus the database clock,   *)
(* 0 standing for NULL and for every instant already passed.               *)
(***************************************************************************)
EXTENDS Backoff, FiniteSets

CONSTANTS
    Workers,          \* the OutboxWorker tasks that share the table
    Events,           \* event ids
    Idempotent,       \* the ids that come through enqueue_idempotent
    Undecodable,      \* rows that decode_*_row rejects
    Dialect,          \* "Postgres", "MySql" or "Sqlite"
    HasDeadLetter,    \* whether dead_letter_table(..) was configured
    BatchSize,        \* OutboxWorkerConfig::batch_size
    MaxAttempts,      \* OutboxWorkerConfig::max_attempts
    DispatchTimeout,  \* OutboxWorkerConfig::dispatch_timeout
    RetryDelays,      \* the delays next_retry_delay may return, by attempts
    Timely,           \* whether SQL and scheduling take no time (see Tick)
    MaxFaults,        \* bound: crashes and database errors per behaviour
    None              \* no worker, no claim

ASSUME OutboxConstants ==
    /\ IsFiniteSet(Workers) /\ IsFiniteSet(Events)
    /\ Idempotent \subseteq Events /\ Undecodable \subseteq Events
    /\ Dialect \in {"Postgres", "MySql", "Sqlite"}
    /\ HasDeadLetter \in BOOLEAN /\ Timely \in BOOLEAN
    /\ BatchSize \in Nat /\ MaxAttempts \in Nat /\ DispatchTimeout \in Nat
    /\ MaxFaults \in Nat
    /\ RetryDelays \in [0..(MaxAttempts - 1) -> (SUBSET Nat) \ {{}}]

\* What a worker keeps of a polled envelope: its id, the attempts column as it
\* was read, and its place in the batch (ORDER BY id).
Claim == [event : Events, attempts : 0..(MaxAttempts - 1), pos : Nat]

ASSUME NoneIsNothing == None \notin Workers /\ None \notin Claim

VARIABLES
    rows,       \* ids of the rows of the outbox table
    rank,       \* place of a row in the order of its BIGSERIAL id, 0 if none
    attempts,   \* column attempts
    retryIn,    \* column next_retry_at, as the time left until it
    delivered,  \* rows whose delivered_at is set
    dlq,        \* ids in the dead-letter table
    pc,         \* where each worker is in OutboxWorker::run
    todo,       \* claims polled, then claims obtained and not yet dispatched
    cur,        \* the claim being dispatched or settled
    left,       \* time left before the dispatch timeout fires
    outcome,    \* result of the last dispatch
    locks,      \* rows locked by the worker's open claiming transaction
    faults,     \* crashes and database errors so far
    holder,     \* history: the worker whose claim of the row is the newest
    started,    \* history: attempt numbers a handler was started for
    served      \* history: rows whose handler has returned Ok

tableVars  == <<rows, rank, attempts, retryIn, delivered, dlq>>
workerVars == <<pc, todo, cur, left, outcome, locks>>
ghostVars  == <<holder, started, served>>
vars == <<tableVars, workerVars, faults, ghostVars>>

TypeOK ==
    /\ rows \subseteq Events /\ delivered \subseteq rows /\ dlq \subseteq Events
    /\ rank \in [Events -> Nat]
    /\ attempts \in [Events -> 0..MaxAttempts]
    /\ retryIn \in [Events -> Nat]
    /\ pc \in [Workers -> {"idle", "polled", "ready", "dispatching", "settling", "down"}]
    /\ todo \in [Workers -> SUBSET Claim]
    /\ cur \in [Workers -> Claim \cup {None}]
    /\ left \in [Workers -> Nat]
    /\ outcome \in [Workers -> {"ok", "err"}]
    /\ locks \in [Workers -> SUBSET Events]
    /\ faults \in 0..MaxFaults
    /\ holder \in [Events -> Workers \cup {None}]
    /\ started \in [Events -> SUBSET Nat]
    /\ served \subseteq Events

Init ==
    /\ rows = {} /\ delivered = {} /\ dlq = {}
    /\ rank = [e \in Events |-> 0]
    /\ attempts = [e \in Events |-> 0]
    /\ retryIn = [e \in Events |-> 0]
    /\ pc = [w \in Workers |-> "idle"]
    /\ todo = [w \in Workers |-> {}]
    /\ cur = [w \in Workers |-> None]
    /\ left = [w \in Workers |-> 0]
    /\ outcome = [w \in Workers |-> "err"]
    /\ locks = [w \in Workers |-> {}]
    /\ faults = 0
    /\ holder = [e \in Events |-> None]
    /\ started = [e \in Events |-> {}]
    /\ served = {}

-----------------------------------------------------------------------------
(* The storage engine under the statements.                                *)

SupportsSkipLocked == Dialect \in {"Postgres", "MySql"}

\* A row that another open claiming transaction has locked cannot be written.
Writable(w, e) == \A v \in Workers \ {w} : e \notin locks[v]

KeepsSnapshot(v) == FALSE

\* SQLite has no row locks.  A transaction that has read the database cannot
\* write to it any more once somebody else has committed a change: its claim
\* fails with SQLITE_BUSY and the cycle with it.
LosesSnapshot(v) == ~SupportsSkipLocked /\ pc[v] = "polled"

\* Worker w, or a publisher (None), commits a change of the table.
CommitsWrite(w, next, rest) ==
    /\ pc' = [v \in Workers |-> IF v = w THEN next
                                ELSE IF LosesSnapshot(v) THEN "idle" ELSE pc[v]]
    /\ todo' = [v \in Workers |-> IF v = w THEN rest
                                  ELSE IF LosesSnapshot(v) THEN {} ELSE todo[v]]

-----------------------------------------------------------------------------
(* Publishers.                                                             *)

InsertRow(e) ==
    /\ rows' = rows \cup {e}
    /\ rank' = [rank EXCEPT ![e] = Cardinality(rows) + 1]
    /\ attempts' = [attempts EXCEPT ![e] = 0]
    /\ retryIn' = [retryIn EXCEPT ![e] = 0]
    /\ started' = [started EXCEPT ![e] = {}]
    /\ holder' = [holder EXCEPT ![e] = None]
    /\ served' = served \ {e}
    /\ CommitsWrite(None, "idle", {})
    /\ UNCHANGED <<delivered, dlq, cur, left, outcome, locks, faults>>

\* publish, publish_in_tx, publish_in_tx_with_subject: a freshly minted id.
Publish(e) == e \notin Idempotent /\ e \notin rows \cup dlq /\ InsertRow(e)

\* enqueue_idempotent: an id chosen by the caller, who may come back with it;
\* a no-op while the outbox table holds the row.
EnqueueIdempotent(e) == e \in Idempotent /\ e \notin rows /\ InsertRow(e)

-----------------------------------------------------------------------------
(* Phase 1 of poll_cycle: poll, claim, commit.                             *)

Due(e) ==
    /\ e \in rows \ delivered
    /\ attempts[e] < MaxAttempts
    /\ retryIn[e] = 0

PolledBatch(w) ==
    LET seen == {e \in rows : Due(e) /\ (SupportsSkipLocked => Writable(w, e))}
    IN  {e \in seen : Cardinality({f \in seen : rank[f] < rank[e]}) < BatchSize}

LocksNothing(batch) == {}

LocksOf(batch) == IF SupportsSkipLocked THEN batch ELSE {}

\* A poll that decodes nothing commits and sleeps: a stuttering step.
Poll(w) ==
    LET batch == PolledBatch(w)
        envelopes == batch \ Undecodable
    IN  /\ pc[w] = "idle"
        /\ envelopes # {}
        /\ pc' = [pc EXCEPT ![w] = "polled"]
        /\ todo' = [todo EXCEPT ![w] =
              {[event |-> e, attempts |-> attempts[e], pos |-> rank[e]] : e \in envelopes}]
        /\ locks' = [locks EXCEPT ![w] = LocksOf(batch)]
        /\ UNCHANGED <<tableVars, cur, left, outcome, faults, ghostVars>>

LeaseForOne(n) == DispatchTimeout

LeaseFor(n) == DispatchTimeout * (IF n = 0 THEN 1 ELSE n)

ClaimUncounted(n) == n

ClaimedAttempt(n) == n + 1

Obtained(w) ==
    {c \in todo[w] : c.event \in rows /\ attempts[c.event] = c.attempts}

ClaimRows(w) ==
    LET claimed == {c.event : c \in Obtained(w)}
        lease == LeaseFor(Cardinality({c.event : c \in todo[w]}))
    IN  /\ attempts' = [e \in Events |->
              IF e \in claimed THEN ClaimedAttempt(attempts[e]) ELSE attempts[e]]
        /\ retryIn' = [e \in Events |-> IF e \in claimed THEN lease ELSE retryIn[e]]
        /\ holder' = [e \in Events |-> IF e \in claimed THEN w ELSE holder[e]]
        /\ locks' = [locks EXCEPT ![w] = {}]
        /\ UNCHANGED <<rows, rank, delivered, dlq, cur, left, outcome, started, served>>

ClaimBatch(w) ==
    /\ pc[w] = "polled"
    /\ ClaimRows(w)
    /\ CommitsWrite(w, "ready", Obtained(w))
    /\ UNCHANGED faults

\* The COMMIT took effect but the worker was told it failed: `?` ends the
\* cycle, and nobody dispatches what was claimed.
ClaimUnacknowledged(w) ==
    /\ pc[w] = "polled" /\ faults < MaxFaults
    /\ ClaimRows(w)
    /\ CommitsWrite(w, "idle", {})
    /\ faults' = faults + 1

\* Any other database error of the claiming transaction rolls it back.
PollRollsBack(w) ==
    /\ pc[w] = "polled" /\ faults < MaxFaults
    /\ pc' = [pc EXCEPT ![w] = "idle"]
    /\ todo' = [todo EXCEPT ![w] = {}]
    /\ locks' = [locks EXCEPT ![w] = {}]
    /\ faults' = faults + 1
    /\ UNCHANGED <<tableVars, cur, left, outcome, ghostVars>>

-----------------------------------------------------------------------------
(* Phase 2 of poll_cycle: dispatch_and_settle, one envelope after the other. *)

StartDispatch(w) ==
    /\ pc[w] = "ready"
    /\ \E c \in todo[w] :
          /\ \A d \in todo[w] : c.pos <= d.pos
          /\ cur' = [cur EXCEPT ![w] = c]
          /\ todo' = [todo EXCEPT ![w] = @ \ {c}]
          /\ started' = [started EXCEPT ![c.event] = @ \cup {c.attempts + 1}]
    /\ pc' = [pc EXCEPT ![w] = "dispatching"]
    /\ left' = [left EXCEPT ![w] = DispatchTimeout]
    /\ UNCHANGED <<tableVars, outcome, locks, faults, holder, served>>

\* The handler returns, or there is none for the event type ("err").
HandlerReturns(w, result) ==
    /\ pc[w] = "dispatching"
    /\ pc' = [pc EXCEPT ![w] = "settling"]
    /\ outcome' = [outcome EXCEPT ![w] = result]
    /\ served' = IF result = "ok" THEN served \cup {cur[w].event} ELSE served
    /\ left' = [left EXCEPT ![w] = 0]
    /\ UNCHANGED <<tableVars, todo, cur, locks, faults, holder, started>>

TimeoutReportsOk(w) ==
    /\ pc[w] = "dispatching" /\ left[w] = 0
    /\ pc' = [pc EXCEPT ![w] = "settling"]
    /\ outcome' = [outcome EXCEPT ![w] = "ok"]
    /\ UNCHANGED <<tableVars, todo, cur, left, locks, faults, ghostVars>>

DispatchTimesOut(w) ==
    /\ pc[w] = "dispatching"
    /\ left[w] = 0
    /\ pc' = [pc EXCEPT ![w] = "settling"]
    /\ outcome' = [outcome EXCEPT ![w] = "err"]
    /\ UNCHANGED <<tableVars, todo, cur, left, locks, faults, ghostVars>>

FenceIgnoresAttempts(c) == c.event \in rows \ delivered

\* The WHERE clause of the three settlements.
FenceHolds(c) ==
    /\ c.event \in rows \ delivered
    /\ attempts[c.event] = c.attempts + 1

BudgetSpentEarly(c) == c.attempts + 2 >= MaxAttempts

BudgetSpent(c) == c.attempts + 1 >= MaxAttempts

Settles(w, result) ==
    /\ pc[w] = "settling" /\ outcome[w] = result
    /\ cur' = [cur EXCEPT ![w] = None]
    /\ UNCHANGED <<left, outcome, locks>>

\* The statement finds its row, after waiting for whoever has it locked.
Applies(w, result) ==
    Settles(w, result) /\ Writable(w, cur[w].event) /\ FenceHolds(cur[w])

\* mark_delivered
SettleDelivered(w) ==
    /\ Applies(w, "ok")
    /\ delivered' = delivered \cup {cur[w].event}
    /\ CommitsWrite(w, "ready", todo[w])
    /\ UNCHANGED <<rows, rank, attempts, retryIn, dlq, faults, ghostVars>>

\* mark_failed, the budget not being spent or no dead-letter table configured
SettleRetry(w) ==
    /\ Applies(w, "err")
    /\ ~(BudgetSpent(cur[w]) /\ HasDeadLetter)
    /\ \E d \in RetryDelays[cur[w].attempts] : retryIn' = [retryIn EXCEPT ![cur[w].event] = d]
    /\ CommitsWrite(w, "ready", todo[w])
    /\ UNCHANGED <<rows, rank, attempts, delivered, dlq, faults, ghostVars>>

\* mark_failed and mark_dead_lettered: the row moves to the dead-letter table,
\* whose event_id is unique.
SettleDeadLettered(w) ==
    LET e == cur[w].event
    IN  /\ Applies(w, "err")
        /\ BudgetSpent(cur[w]) /\ HasDeadLetter /\ e \notin dlq
        /\ dlq' = dlq \cup {e}
        /\ rows' = rows \ {e}
        /\ rank' = [f \in Events |-> IF f = e THEN 0
                                     ELSE IF rank[f] > rank[e] THEN rank[f] - 1 ELSE rank[f]]
        /\ attempts' = [attempts EXCEPT ![e] = 0]
        /\ retryIn' = [retryIn EXCEPT ![e] = 0]
        /\ holder' = [holder EXCEPT ![e] = None]
        /\ CommitsWrite(w, "ready", todo[w])
        /\ UNCHANGED <<delivered, faults, started, served>>

\* No row matched: warn_lease_lost, and the newer owner's outcome stands.
SettleRefused(w) ==
    /\ Settles(w, outcome[w])
    /\ ~FenceHolds(cur[w])
    /\ pc' = [pc EXCEPT ![w] = "ready"]
    /\ UNCHANGED <<tableVars, todo, faults, ghostVars>>

DeadLetterConflict(w) ==
    /\ outcome[w] = "err" /\ FenceHolds(cur[w])
    /\ BudgetSpent(cur[w]) /\ HasDeadLetter /\ cur[w].event \in dlq

\* The settling transaction fails and rolls back, on a database error or on
\* the unique index of the dead-letter table; the batch goes on.
SettleRollsBack(w) ==
    /\ Settles(w, outcome[w])
    /\ DeadLetterConflict(w) \/ faults < MaxFaults
    /\ faults' = IF DeadLetterConflict(w) THEN faults ELSE faults + 1
    /\ pc' = [pc EXCEPT ![w] = "ready"]
    /\ UNCHANGED <<tableVars, todo, ghostVars>>

EndCycle(w) ==
    /\ pc[w] = "ready" /\ todo[w] = {}
    /\ pc' = [pc EXCEPT ![w] = "idle"]
    /\ UNCHANGED <<tableVars, todo, cur, left, outcome, locks, faults, ghostVars>>

-----------------------------------------------------------------------------
(* The environment.                                                        *)

\* The process dies (a handler panic included), or is shut down between two
\* cycles.  The database rolls back its open transaction.
Crash(w) ==
    /\ pc[w] # "down" /\ faults < MaxFaults
    /\ pc' = [pc EXCEPT ![w] = "down"]
    /\ todo' = [todo EXCEPT ![w] = {}]
    /\ cur' = [cur EXCEPT ![w] = None]
    /\ left' = [left EXCEPT ![w] = 0]
    /\ locks' = [locks EXCEPT ![w] = {}]
    /\ faults' = faults + 1
    /\ UNCHANGED <<tableVars, outcome, ghostVars>>

Restart(w) ==
    /\ pc[w] = "down"
    /\ pc' = [pc EXCEPT ![w] = "idle"]
    /\ UNCHANGED <<tableVars, todo, cur, left, outcome, locks, faults, ghostVars>>

\* Under the Timely assumption only a running handler lets time pass.
Busy(w) ==
    \/ pc[w] \in {"polled", "settling"}
    \/ pc[w] = "ready" /\ todo[w] # {}
    \/ pc[w] = "dispatching" /\ left[w] = 0

Tick ==
    /\ \/ \E e \in Events : retryIn[e] > 0
       \/ \E w \in Workers : left[w] > 0
    /\ Timely => \A w \in Workers : ~Busy(w)
    /\ retryIn' = [e \in Events |-> IF retryIn[e] > 0 THEN retryIn[e] - 1 ELSE 0]
    /\ left' = [w \in Workers |-> IF left[w] > 0 THEN left[w] - 1 ELSE 0]
    /\ UNCHANGED <<rows, rank, attempts, delivered, dlq, pc, todo, cur, outcome,
                   locks, faults, ghostVars>>

WorkerStep(w) ==
    \/ Poll(w) \/ ClaimBatch(w) \/ ClaimUnacknowledged(w) \/ PollRollsBack(w)
    \/ StartDispatch(w)
    \/ \E result \in {"ok", "err"} : HandlerReturns(w, result)
    \/ DispatchTimesOut(w)
    \/ SettleDelivered(w) \/ SettleRetry(w) \/ SettleDeadLettered(w)
    \/ SettleRefused(w) \/ SettleRollsBack(w)
    \/ EndCycle(w)
    \/ Crash(w) \/ Restart(w)

Next ==
    \/ \E e \in Events : Publish(e) \/ EnqueueIdempotent(e)
    \/ \E w \in Workers : WorkerStep(w)
    \/ Tick

Spec == Init /\ [][Next]_vars

\* The worker loop never stops taking the steps it can take (tokio keeps
\* polling it), time passes, and a supervisor restarts a dead worker.  A
\* handler need not return: DispatchTimesOut ends it.
Fairness ==
    /\ WF_vars(Tick)
    /\ \A w \in Workers :
          /\ WF_vars(Poll(w)) /\ WF_vars(ClaimBatch(w)) /\ WF_vars(StartDispatch(w))
          /\ WF_vars(DispatchTimesOut(w))
          /\ WF_vars(SettleDelivered(w) \/ SettleRetry(w) \/ SettleDeadLettered(w)
                       \/ SettleRefused(w) \/ SettleRollsBack(w))
          /\ WF_vars(EndCycle(w)) /\ WF_vars(Restart(w))

FairSpec == Spec /\ Fairness

-----------------------------------------------------------------------------
(* Properties.                                                             *)

InFlight(w) == todo[w] \cup ({cur[w]} \ {None})

HoldsClaims(w) == pc[w] \in {"ready", "dispatching", "settling"}

\* The constants under which an id never comes back to the table after it has
\* left it: with a dead-letter table, nobody uses enqueue_idempotent.
SingleIncarnation == HasDeadLetter => Idempotent = {}

\* The attempts fence of mark_delivered, mark_failed and mark_dead_lettered
\* lets nobody through but the newest claimant: a claim in flight whose number
\* is the row's is the claim of the row's holder, so no two workers can both
\* settle a row whatever their leases did.
FenceIdentifiesHolder ==
    \A w \in Workers : HoldsClaims(w) =>
        \A c \in InFlight(w) : FenceHolds(c) => holder[c.event] = w

\* mark_delivered is only ever applied to a row whose handler has returned Ok.
DeliveredWasServed == delivered \subseteq served

\* A delivered row is final: no claim counts another attempt on it, no late
\* mark_failed reopens it and no dead-lettering removes it.  The claim does
\* not test delivered_at, so this rests on the lock of the poll (or on the
\* snapshot, on SQLite) and on the fence.
DeliveredIsFinal ==
    [][\A e \in delivered : e \in delivered' /\ attempts'[e] = attempts[e]]_vars

\* A handler is started at most once for each attempt number of a row, so the
\* attempts column counts every execution and max_attempts bounds them, however
\* many workers race for the row and crash.
NoAttemptDispatchedTwice ==
    [][\A w \in Workers : pc[w] = "ready" /\ pc'[w] = "dispatching"
          => cur'[w].attempts + 1 \notin started[cur'[w].event]]_vars

\* A row leaves the table for the dead-letter table only when all of its
\* attempts are spent, and then only on behalf of its newest claimant.
BuriedByHolderWhenSpent ==
    [][\A e \in rows \ rows' :
          /\ attempts[e] = MaxAttempts
          /\ \E w \in Workers : w = holder[e] /\ pc[w] = "settling" /\ cur[w].event = e]_vars

\* While SQL takes no time, the lease of n dispatch timeouts covers a batch of
\* n: a second worker runs the handler of an event only when the first one's
\* deadline for it has come.
NoOverlapWithinDeadline ==
    \A w, v \in Workers :
        /\ w # v
        /\ pc[w] = "dispatching" /\ pc[v] = "dispatching"
        /\ cur[w].event = cur[v].event
        => left[w] = 0 \/ left[v] = 0

\* When a worker reschedules a failed row, next_retry_delay is the bounded
\* exponential it is meant to be, for this attempt and all later ones, over
\* configurations that reach the width of its factor and of Duration.
BackoffIsExact ==
    [][\A e \in Events : attempts' = attempts /\ retryIn'[e] > retryIn[e]
                             => IsExactFrom(attempts[e])]_vars

\* Every row that can be decoded is eventually delivered, dead-lettered, or
\* left with its attempts spent, in spite of crashes, lost leases, database
\* errors and handlers that never return.
EventuallySettled ==
    \A e \in Events \ Undecodable :
        e \in rows ~> e \in delivered \/ e \notin rows \/ attempts[e] = MaxAttempts

Status ==
    [e \in Events |-> IF e \in delivered THEN "delivered"
                      ELSE IF e \in rows THEN "pending"
                      ELSE IF e \in dlq THEN "dead" ELSE "absent"]

Contract == INSTANCE OutboxContract WITH
    status <- Status, tries <- attempts, Requeueable <- Idempotent

\* The table, its workers and their races implement the contract: a worker
\* that lost its lease changes nothing, and every counted attempt, delivery
\* and dead-lettering of the code is one the contract allows.
ImplementsContract == Contract!Spec

-----------------------------------------------------------------------------
(* Why the fence works: the inductive invariant behind the properties.     *)

\* A claim outlives neither its row nor, if there is one, its dead letter.
ClaimsHaveRows == \A w \in Workers : \A c \in InFlight(w) : c.event \in rows \cup dlq

\* A worker's batch holds an event once.
BatchIsASet == \A w \in Workers : \A c, d \in InFlight(w) : c.event = d.event => c = d

\* The row's counter is at or past the number of every claim in flight, and
\* past or at every number that was dispatched.
CounterLeads ==
    /\ \A w \in Workers : HoldsClaims(w) =>
          \A c \in InFlight(w) : c.event \in rows => c.attempts + 1 <= attempts[c.event]
    /\ \A e \in rows : \A n \in started[e] : n <= attempts[e]

\* Two workers never hold the same attempt of a row, and an attempt that is
\* still waiting in a batch has not been dispatched by anybody.
AttemptsAreExclusive ==
    \A w \in Workers : HoldsClaims(w) =>
        /\ \A v \in Workers \ {w} : HoldsClaims(v) =>
              \A c \in InFlight(w), d \in InFlight(v) :
                  c.event = d.event => c.attempts # d.attempts
        /\ \A c \in todo[w] : c.attempts + 1 \notin started[c.event]

\* What a claiming transaction has read is still undelivered when it writes.
PolledIsUndelivered ==
    \A w \in Workers : pc[w] = "polled" =>
        \A c \in todo[w] :
            c.event \notin delivered /\ (SupportsSkipLocked => c.event \in locks[w])

\* A worker has a claim at hand exactly while it dispatches or settles one.
ClaimAtHand ==
    \A w \in Workers : pc[w] \in {"dispatching", "settling"} <=> cur[w] # None

\* What is left of the invariant when an id may come back from the dead-letter
\* table, its old claims still in flight: what a worker has at hand, and that
\* the claiming transactions exclude each other.
TableInv == TypeOK /\ ClaimAtHand /\ PolledIsUndelivered

\* Where the worker is determines what it holds.
WorkerShape ==
    /\ \A w \in Workers :
          /\ pc[w] \in {"idle", "down"} => todo[w] = {}
          /\ (pc[w] \in {"dispatching", "settling"}) <=> (cur[w] # None)
          /\ pc[w] = "settling" /\ outcome[w] = "ok" => cur[w].event \in served
    /\ ~HasDeadLetter => dlq = {}

\* The strengthening of FenceIdentifiesHolder and DeliveredWasServed that every
\* step of every worker and publisher preserves.
FencingInv ==
    /\ TypeOK /\ WorkerShape /\ ClaimsHaveRows /\ BatchIsASet /\ CounterLeads
    /\ AttemptsAreExclusive /\ PolledIsUndelivered
    /\ FenceIdentifiesHolder /\ DeliveredWasServed

-----------------------------------------------------------------------------
(* Why the lease works: the inductive invariant behind                     *)
(* NoOverlapWithinDeadline.                                                *)

\* Only an open claiming transaction has row locks, and never two the same row.
LocksAreExclusive ==
    \A w \in Workers :
        /\ locks[w] # {} => pc[w] = "polled" /\ SupportsSkipLocked
        /\ \A v \in Workers \ {w} : locks[w] \cap locks[v] = {}

\* What a claiming transaction has read is still due when it writes.
PolledIsDue ==
    \A w \in Workers : pc[w] = "polled" => \A c \in todo[w] : retryIn[c.event] = 0

\* The claims of w whose row nobody else may take yet: those that wait for
\* their turn, and the one whose handler is before its deadline.
Timed(w) == todo[w] \cup (IF left[w] > 0 THEN {cur[w]} ELSE {})

\* The lease of every such claim outlasts the rest of the running dispatch and
\* a full dispatch timeout for each claim that still waits.
Leased(w) ==
    HoldsClaims(w) =>
        \A c \in Timed(w) :
            /\ FenceHolds(c)
            /\ retryIn[c.event] >= left[w] + DispatchTimeout * Cardinality(todo[w])

DispatchIsBounded ==
    \A w \in Workers :
        /\ left[w] <= DispatchTimeout
        /\ left[w] > 0 => pc[w] = "dispatching"
        /\ cur[w] \notin todo[w]

DeadlineInv ==
    /\ FencingInv /\ LocksAreExclusive /\ PolledIsDue /\ DispatchIsBounded
    /\ DispatchTimeout > 0 => \A w \in Workers : Leased(w)

-----------------------------------------------------------------------------
(* What the documentation says and the code does not do.                   *)

\* Documented (outbox-flow.md, the comments of claim): with a dead-letter table
\* a row whose attempts are spent ends up there, also when a worker crashed.
ExhaustedLeavesTheTable ==
    \A e \in Events :
        e \in rows /\ attempts[e] = MaxAttempts ~> e \in delivered \/ e \notin rows

=============================================================================
