------------------------------ MODULE Scheduler ------------------------------
(***************************************************************************)
(* The durable scheduler: the schedule store, the workers that sweep,      *)
(* claim, dispatch and acknowledge its occurrences, and the operator's     *)
(* SchedulerControl and ScheduleAdmin (hexeract-scheduler and              *)
(* hexeract-scheduler-sql).                                                *)
(*                                                                         *)
(* Every store call is one SQL statement, or one critical section of the   *)
(* in-memory store, and is one step.  Instants are counted down: due[s],   *)
(* lease[s] and hold[w] are the time left until them, 0 once they passed.  *)
(* An acknowledgement compares `leased_until` with the value its claim     *)
(* returned.  The database clock moves on between two leases of a row, so  *)
(* a value names the claim that wrote it: holder[s] is the worker that     *)
(* wrote the current one, None when a retry or nobody did.                 *)
(***************************************************************************)
EXTENDS Integers, FiniteSets

CONSTANTS
    Workers,          \* the SchedulerWorker tasks that share the store
    Schedules,        \* schedule ids
    Recurring,        \* those with a cron trigger
    Undecodable,      \* rows that decode_leased rejects
    Store,            \* "Sql" or "Memory"
    BatchSize,        \* SchedulerWorkerConfig::batch_size
    MaxAttempts,      \* the max_attempts column
    Lease,            \* SchedulerWorkerConfig::lease
    DispatchTimeout,  \* SchedulerWorkerConfig::dispatch_timeout
    RetryDelays,      \* the delays next_retry_delay may return, by attempts
    Period,           \* the longest wait between two cron occurrences
    LastOccurrence,   \* the calendar of a cron expression ends here
    ClockAhead,       \* how far the workers' clock leads the database's
    Timely,           \* whether SQL and scheduling take no time (see Tick)
    MaxFaults,        \* bound: crashes and database errors per behaviour
    MaxOps,           \* bound: operator commands per behaviour
    None              \* no worker, no claim, no command

\* SchedulerBuilder::build rejects a lease too short for a whole batch.
LeaseCoversBatch == Lease >= BatchSize * DispatchTimeout

ASSUME SchedulerConstants ==
    /\ IsFiniteSet(Workers) /\ IsFiniteSet(Schedules)
    /\ Recurring \subseteq Schedules /\ Undecodable \subseteq Schedules
    /\ Store \in {"Sql", "Memory"} /\ Timely \in BOOLEAN
    /\ BatchSize \in Nat \ {0} /\ MaxAttempts \in Nat
    /\ DispatchTimeout \in Nat \ {0} /\ Lease \in Nat /\ LeaseCoversBatch
    /\ RetryDelays \in [1..(MaxAttempts - 1) -> (SUBSET Nat) \ {{}}]
    /\ Period \in Nat \ {0} /\ LastOccurrence \in Nat
    /\ ClockAhead \in Nat /\ MaxFaults \in Nat /\ MaxOps \in Nat
    /\ Store = "Memory" => Undecodable = {} /\ MaxFaults = 0

\* A LeasedOccurrence: the schedule, which occurrence of it (the successive
\* values of scheduled_for are numbered), and the attempts the claim made it.
Claim == [sched : Schedules, occ : Nat, attempts : 1..MaxAttempts]

\* A resume the operator is half-way through: `next` tells resume(Some(next))
\* from resume(None), `wait` is the time left until that next occurrence.
Resumption == [sched : Schedules, next : BOOLEAN, wait : Nat]

ASSUME NoneIsNothing == None \notin Workers /\ None \notin Claim /\ None \notin Resumption

VARIABLES
    rows,       \* schedules inserted
    due,        \* column scheduled_for, as the time left until it
    attempts,   \* column attempts
    lease,      \* column leased_until, as the time left until it
    holder,     \* the worker whose claim wrote leased_until
    delivered,  \* schedules whose delivered_at is set
    cancelled,  \* schedules whose cancelled_at is set
    dead,       \* schedules whose dead_lettered_at is set
    paused,     \* schedules whose paused flag is set
    pc,         \* where each worker is in poll_cycle
    todo,       \* claims not yet dispatched
    cur,        \* the claim being dispatched or acknowledged
    hold,       \* time left on the lease of the worker's batch
    left,       \* time left before the dispatch timeout fires
    outcome,    \* result of the last dispatch
    op,         \* the resume in progress
    ops,        \* operator commands so far
    faults,     \* crashes and database errors so far
    occ,        \* number of the current occurrence
    runs,       \* history: dispatches started for the current occurrence
    served      \* history: the sink has returned Ok for the current occurrence

flagVars   == <<delivered, cancelled, dead, paused>>
rowVars    == <<rows, due, attempts, lease, holder, flagVars, occ>>
workerVars == <<pc, todo, cur, hold, left, outcome>>
opVars     == <<op, ops>>
ghostVars  == <<runs, served>>
vars == <<rowVars, workerVars, opVars, faults, ghostVars>>

TypeOK ==
    /\ rows \subseteq Schedules
    /\ delivered \subseteq rows /\ cancelled \subseteq rows
    /\ dead \subseteq rows /\ paused \subseteq rows
    /\ due \in [Schedules -> Nat] /\ lease \in [Schedules -> Nat]
    /\ attempts \in [Schedules -> 0..MaxAttempts]
    /\ holder \in [Schedules -> Workers \cup {None}]
    /\ pc \in [Workers -> {"idle", "swept", "ready", "dispatching", "settling", "down"}]
    /\ todo \in [Workers -> SUBSET Claim]
    /\ cur \in [Workers -> Claim \cup {None}]
    /\ hold \in [Workers -> Nat] /\ left \in [Workers -> Nat]
    /\ outcome \in [Workers -> {"ok", "err"}]
    /\ op \in Resumption \cup {None}
    /\ ops \in 0..MaxOps /\ faults \in 0..MaxFaults
    /\ occ \in [Schedules -> Nat] /\ runs \in [Schedules -> Nat]
    /\ served \in [Schedules -> BOOLEAN]

Init ==
    /\ rows = {} /\ delivered = {} /\ cancelled = {} /\ dead = {} /\ paused = {}
    /\ due = [s \in Schedules |-> 0] /\ lease = [s \in Schedules |-> 0]
    /\ attempts = [s \in Schedules |-> 0] /\ holder = [s \in Schedules |-> None]
    /\ pc = [w \in Workers |-> "idle"] /\ todo = [w \in Workers |-> {}]
    /\ cur = [w \in Workers |-> None] /\ hold = [w \in Workers |-> 0]
    /\ left = [w \in Workers |-> 0] /\ outcome = [w \in Workers |-> "err"]
    /\ op = None /\ ops = 0 /\ faults = 0
    /\ occ = [s \in Schedules |-> 0] /\ runs = [s \in Schedules |-> 0]
    /\ served = [s \in Schedules |-> FALSE]

-----------------------------------------------------------------------------
(* The store.                                                              *)

LiveUnlessDelivered(s) == s \in rows \ (delivered \cup dead)

\* No terminal timestamp is set.
Live(s) == s \in rows \ (delivered \cup cancelled \cup dead)

EligibleWhileLeased(s) ==
    Live(s) /\ s \notin paused /\ due[s] = 0 /\ attempts[s] < MaxAttempts

EligibleOverBudget(s) ==
    Live(s) /\ s \notin paused /\ due[s] = 0 /\ attempts[s] <= MaxAttempts /\ lease[s] = 0

Eligible(s) ==
    Live(s) /\ s \notin paused /\ due[s] = 0 /\ attempts[s] < MaxAttempts /\ lease[s] = 0

SweepableNever(s) == FALSE

SweepableEarly(s) ==
    Live(s) /\ s \notin paused /\ attempts[s] >= MaxAttempts - 1 /\ lease[s] = 0

SweepableWhileLeased(s) == Live(s) /\ s \notin paused /\ attempts[s] >= MaxAttempts

\* What dead_letter_exhausted takes.
Sweepable(s) ==
    Live(s) /\ s \notin paused /\ attempts[s] >= MaxAttempts /\ lease[s] = 0

UnfencedAck(w) == Live(cur[w].sched) /\ (Store = "Memory" => cur[w].sched \notin paused)

\* The WHERE clause of the acknowledgements; only the in-memory one wants the
\* schedule unpaused too.
Fenced(w) ==
    /\ Live(cur[w].sched) /\ holder[cur[w].sched] = w
    /\ Store = "Memory" => cur[w].sched \notin paused

Insert(s) ==
    /\ s \notin rows
    /\ rows' = rows \cup {s}
    /\ \E d \in 0..Period : due' = [due EXCEPT ![s] = d]
    /\ UNCHANGED <<attempts, lease, holder, flagVars, occ, workerVars, opVars, faults, ghostVars>>

Release(S) ==
    /\ lease' = [s \in Schedules |-> IF s \in S THEN 0 ELSE lease[s]]
    /\ holder' = [s \in Schedules |-> IF s \in S THEN None ELSE holder[s]]

\* A new value of scheduled_for, d from now, with a fresh budget.
Realign(s, d) ==
    /\ due' = [due EXCEPT ![s] = d]
    /\ attempts' = [attempts EXCEPT ![s] = 0]
    /\ occ' = [occ EXCEPT ![s] = @ + 1]
    /\ runs' = [runs EXCEPT ![s] = 0] /\ served' = [served EXCEPT ![s] = FALSE]

Advance(s, d) == Realign(s, d) /\ Release({s})

-----------------------------------------------------------------------------
(* SchedulerWorker::poll_cycle.                                            *)

\* dead_letter_exhausted, at the start of every cycle.
Sweep(w) ==
    /\ pc[w] = "idle"
    /\ dead' = dead \cup {s \in rows : Sweepable(s)}
    /\ Release({s \in rows : Sweepable(s)})
    /\ pc' = [pc EXCEPT ![w] = "swept"]
    /\ UNCHANGED <<rows, due, attempts, delivered, cancelled, paused, occ, todo, cur,
                   hold, left, outcome, opVars, faults, ghostVars>>

ClaimedAttempts(n) == n + 1

\* The UPDATE .. RETURNING of claim_due: batch_size eligible rows, or all of
\* them, in an order the statement leaves open.
ClaimRows(w, batch) ==
    /\ batch \subseteq {s \in rows : Eligible(s)}
    /\ \/ Cardinality(batch) = BatchSize
       \/ Cardinality(batch) < BatchSize /\ batch = {s \in rows : Eligible(s)}
    /\ attempts' = [s \in Schedules |->
                      IF s \in batch THEN ClaimedAttempts(attempts[s]) ELSE attempts[s]]
    /\ lease' = [s \in Schedules |-> IF s \in batch THEN Lease ELSE lease[s]]
    /\ holder' = [s \in Schedules |-> IF s \in batch THEN w ELSE holder[s]]
    /\ UNCHANGED <<rows, due, flagVars, occ, cur, left, outcome, opVars, ghostVars>>

\* claim_due returns its rows, ready to be dispatched one after the other.
ClaimDue(w) ==
    /\ pc[w] = "swept"
    /\ \E batch \in SUBSET rows :
          /\ batch \cap Undecodable = {}
          /\ ClaimRows(w, batch)
          /\ todo' = [todo EXCEPT ![w] =
                        {[sched |-> s, occ |-> occ[s], attempts |-> attempts'[s]] : s \in batch}]
          /\ hold' = [hold EXCEPT ![w] = IF batch = {} THEN 0 ELSE Lease]
    /\ pc' = [pc EXCEPT ![w] = "ready"]
    /\ UNCHANGED faults

\* The statement ran, but a row does not decode or the reply is lost: the whole
\* batch is leased and charged, and the worker never sees it.
ClaimLost(w) ==
    /\ pc[w] = "swept"
    /\ \E batch \in SUBSET rows :
          /\ ClaimRows(w, batch)
          /\ \/ batch \cap Undecodable # {} /\ UNCHANGED faults
             \/ faults < MaxFaults /\ faults' = faults + 1
    /\ pc' = [pc EXCEPT ![w] = "idle"]
    /\ UNCHANGED <<todo, hold>>

\* The statement itself fails.
ClaimFails(w) ==
    /\ pc[w] = "swept" /\ faults < MaxFaults
    /\ faults' = faults + 1
    /\ pc' = [pc EXCEPT ![w] = "idle"]
    /\ UNCHANGED <<rowVars, todo, cur, hold, left, outcome, opVars, ghostVars>>

\* settle's guard, on the worker's clock.
LeaseLooksElapsed(w) == hold[w] <= ClockAhead

SkipElapsed(w) ==
    /\ pc[w] = "ready" /\ LeaseLooksElapsed(w)
    /\ \E c \in todo[w] : todo' = [todo EXCEPT ![w] = @ \ {c}]
    /\ UNCHANGED <<rowVars, pc, cur, hold, left, outcome, opVars, faults, ghostVars>>

StartDispatch(w) ==
    /\ pc[w] = "ready" /\ ~LeaseLooksElapsed(w)
    /\ \E c \in todo[w] :
          /\ todo' = [todo EXCEPT ![w] = @ \ {c}]
          /\ cur' = [cur EXCEPT ![w] = c]
          /\ runs' = IF c.occ = occ[c.sched]
                       THEN [runs EXCEPT ![c.sched] = @ + 1] ELSE runs
    /\ left' = [left EXCEPT ![w] = DispatchTimeout]
    /\ pc' = [pc EXCEPT ![w] = "dispatching"]
    /\ UNCHANGED <<rowVars, hold, outcome, opVars, faults, served>>

\* The sink answers within dispatch_timeout.
SinkReturns(w, result) ==
    /\ pc[w] = "dispatching"
    /\ outcome' = [outcome EXCEPT ![w] = result]
    /\ served' = IF result = "ok" /\ cur[w].occ = occ[cur[w].sched]
                   THEN [served EXCEPT ![cur[w].sched] = TRUE] ELSE served
    /\ left' = [left EXCEPT ![w] = 0]
    /\ pc' = [pc EXCEPT ![w] = "settling"]
    /\ UNCHANGED <<rowVars, todo, cur, hold, opVars, faults, runs>>

TimeoutReportsOk(w) ==
    /\ pc[w] = "dispatching" /\ left[w] = 0
    /\ outcome' = [outcome EXCEPT ![w] = "ok"]
    /\ pc' = [pc EXCEPT ![w] = "settling"]
    /\ UNCHANGED <<rowVars, todo, cur, hold, left, opVars, faults, ghostVars>>

DispatchTimesOut(w) ==
    /\ pc[w] = "dispatching" /\ left[w] = 0
    /\ outcome' = [outcome EXCEPT ![w] = "err"]
    /\ pc' = [pc EXCEPT ![w] = "settling"]
    /\ UNCHANGED <<rowVars, todo, cur, hold, left, opVars, faults, ghostVars>>

\* LeasedOccurrence::is_exhausted
Exhausted(c) == c.attempts >= MaxAttempts

\* Trigger::next_due gives another occurrence.
Recurs(c) == c.sched \in Recurring /\ c.occ < LastOccurrence

\* settle returns and the loop of poll_cycle goes on.
Settle(w) ==
    /\ pc[w] = "settling"
    /\ pc' = [pc EXCEPT ![w] = "ready"] /\ cur' = [cur EXCEPT ![w] = None]
    /\ outcome' = [outcome EXCEPT ![w] = "err"]
    /\ UNCHANGED <<rows, todo, hold, left, cancelled, paused, opVars>>

MarkDelivered(w) ==
    /\ Settle(w) /\ Fenced(w) /\ outcome[w] = "ok" /\ ~Recurs(cur[w])
    /\ delivered' = delivered \cup {cur[w].sched}
    /\ Release({cur[w].sched})
    /\ UNCHANGED <<due, attempts, dead, occ, faults, ghostVars>>

Reschedule(w) ==
    /\ Settle(w) /\ Fenced(w) /\ outcome[w] = "ok" /\ Recurs(cur[w])
    /\ \E d \in 1..Period : Advance(cur[w].sched, d)
    /\ UNCHANGED <<delivered, dead, faults>>

MarkFailed(w) ==
    /\ Settle(w) /\ Fenced(w) /\ outcome[w] = "err" /\ ~Exhausted(cur[w])
    /\ \E d \in RetryDelays[cur[w].attempts] : lease' = [lease EXCEPT ![cur[w].sched] = d]
    /\ holder' = [holder EXCEPT ![cur[w].sched] = None]
    /\ UNCHANGED <<due, attempts, delivered, dead, occ, faults, ghostVars>>

MarkDeadLettered(w) ==
    /\ Settle(w) /\ Fenced(w) /\ outcome[w] = "err" /\ Exhausted(cur[w])
    /\ dead' = dead \cup {cur[w].sched}
    /\ Release({cur[w].sched})
    /\ UNCHANGED <<due, attempts, delivered, occ, faults, ghostVars>>

\* The statement matches no row: "lease lost".
AckRefused(w) ==
    /\ Settle(w) /\ ~Fenced(w)
    /\ UNCHANGED <<due, attempts, lease, holder, delivered, dead, occ, faults, ghostVars>>

\* The statement fails; poll_cycle logs it and goes on.
AckFails(w) ==
    /\ Settle(w) /\ faults < MaxFaults
    /\ faults' = faults + 1
    /\ UNCHANGED <<due, attempts, lease, holder, delivered, dead, occ, ghostVars>>

EndCycle(w) ==
    /\ pc[w] = "ready" /\ todo[w] = {}
    /\ pc' = [pc EXCEPT ![w] = "idle"] /\ hold' = [hold EXCEPT ![w] = 0]
    /\ UNCHANGED <<rowVars, todo, cur, left, outcome, opVars, faults, ghostVars>>

\* The process dies; its statements are committed or were never sent.
Crash(w) ==
    /\ pc[w] # "down" /\ faults < MaxFaults
    /\ faults' = faults + 1
    /\ pc' = [pc EXCEPT ![w] = "down"] /\ todo' = [todo EXCEPT ![w] = {}]
    /\ cur' = [cur EXCEPT ![w] = None] /\ hold' = [hold EXCEPT ![w] = 0]
    /\ left' = [left EXCEPT ![w] = 0] /\ outcome' = [outcome EXCEPT ![w] = "err"]
    /\ UNCHANGED <<rowVars, opVars, ghostVars>>

Restart(w) ==
    /\ pc[w] = "down"
    /\ pc' = [pc EXCEPT ![w] = "idle"]
    /\ UNCHANGED <<rowVars, todo, cur, hold, left, outcome, opVars, faults, ghostVars>>

-----------------------------------------------------------------------------
(* SchedulerControl and ScheduleAdmin.                                     *)

Command == ops < MaxOps /\ ops' = ops + 1 /\ UNCHANGED <<workerVars, faults>>

\* The inspect of `cancel` and the guard of the statement ask the same thing.
Cancel(s) ==
    /\ Command /\ Live(s)
    /\ cancelled' = cancelled \cup {s}
    /\ Release({s})
    /\ UNCHANGED <<rows, due, attempts, delivered, dead, paused, occ, op, ghostVars>>

\* Pausing a terminal schedule only sets a flag that nothing reads.
Pause(s) ==
    /\ Command /\ Live(s) /\ s \notin paused
    /\ paused' = paused \cup {s}
    /\ UNCHANGED <<rows, due, attempts, lease, holder, delivered, cancelled, dead, occ, op,
                   ghostVars>>

\* `resume` reads a snapshot and decides; a past-due cron whose calendar has
\* ended stays paused.
ResumeInspects(s) ==
    /\ Command /\ op = None /\ Live(s) /\ s \in paused
    /\ IF s \in Recurring /\ due[s] = 0
         THEN /\ occ[s] < LastOccurrence
              /\ \E d \in 1..Period : op' = [sched |-> s, next |-> TRUE, wait |-> d]
         ELSE op' = [sched |-> s, next |-> FALSE, wait |-> 0]
    /\ UNCHANGED <<rowVars, ghostVars>>

ResumeKeepsLease(next) == FALSE

\* resume_with_next and, in SQL, resume_only clear leased_until.
ResumeReleases(next) == next \/ Store = "Sql"

\* ... and writes, if the schedule is still paused.
ResumeApplies ==
    /\ op # None
    /\ op' = None
    /\ UNCHANGED <<rows, delivered, cancelled, dead, workerVars, ops, faults>>
    /\ IF Live(op.sched) /\ op.sched \in paused
         THEN /\ paused' = paused \ {op.sched}
              /\ IF ResumeReleases(op.next) THEN Release({op.sched})
                                            ELSE UNCHANGED <<lease, holder>>
              /\ IF op.next THEN Realign(op.sched, op.wait)
                            ELSE UNCHANGED <<due, attempts, occ, ghostVars>>
         ELSE UNCHANGED <<due, attempts, lease, holder, paused, occ, ghostVars>>

Replay(s) ==
    /\ Command /\ s \in dead
    /\ dead' = dead \ {s} /\ paused' = paused \ {s}
    /\ Advance(s, 0)
    /\ UNCHANGED <<rows, delivered, cancelled, op>>

-----------------------------------------------------------------------------
(* Time and the whole system.                                              *)

\* Under the Timely assumption only a running sink lets time pass.
Busy(w) ==
    \/ pc[w] = "settling"
    \/ pc[w] = "ready" /\ todo[w] # {}
    \/ pc[w] = "dispatching" /\ left[w] = 0

CountDown(n) == IF n > 0 THEN n - 1 ELSE 0

Tick ==
    /\ \/ \E s \in Schedules : due[s] > 0 \/ lease[s] > 0
       \/ \E w \in Workers : hold[w] > 0 \/ left[w] > 0
       \/ op # None /\ op.wait > 0
    /\ Timely => \A w \in Workers : ~Busy(w)
    /\ due' = [s \in Schedules |-> CountDown(due[s])]
    /\ lease' = [s \in Schedules |-> CountDown(lease[s])]
    /\ hold' = [w \in Workers |-> CountDown(hold[w])]
    /\ left' = [w \in Workers |-> CountDown(left[w])]
    /\ op' = IF op = None THEN None ELSE [op EXCEPT !.wait = CountDown(@)]
    /\ UNCHANGED <<rows, attempts, holder, flagVars, occ, pc, todo, cur, outcome, ops,
                   faults, ghostVars>>

Acknowledge(w) ==
    \/ MarkDelivered(w) \/ Reschedule(w) \/ MarkFailed(w) \/ MarkDeadLettered(w)
    \/ AckRefused(w) \/ AckFails(w)

WorkerStep(w) ==
    \/ Sweep(w) \/ ClaimDue(w) \/ ClaimLost(w) \/ ClaimFails(w)
    \/ SkipElapsed(w) \/ StartDispatch(w)
    \/ \E result \in {"ok", "err"} : SinkReturns(w, result)
    \/ DispatchTimesOut(w) \/ Acknowledge(w) \/ EndCycle(w)
    \/ Crash(w) \/ Restart(w)

OperatorStep ==
    \/ \E s \in Schedules : Cancel(s) \/ Pause(s) \/ ResumeInspects(s) \/ Replay(s)
    \/ ResumeApplies

Next ==
    \/ \E s \in Schedules : Insert(s)
    \/ \E w \in Workers : WorkerStep(w)
    \/ OperatorStep
    \/ Tick

Spec == Init /\ [][Next]_vars

\* tokio keeps polling the worker loop, time passes, a supervisor restarts a
\* dead worker.  Nothing makes a sink return or an operator act.
Fairness ==
    /\ WF_vars(Tick) /\ WF_vars(ResumeApplies)
    /\ \A w \in Workers :
          /\ WF_vars(Sweep(w)) /\ WF_vars(ClaimDue(w) \/ ClaimLost(w))
          /\ WF_vars(SkipElapsed(w) \/ StartDispatch(w)) /\ WF_vars(DispatchTimesOut(w))
          /\ WF_vars(Acknowledge(w)) /\ WF_vars(EndCycle(w)) /\ WF_vars(Restart(w))

FairSpec == Spec /\ Fairness

-----------------------------------------------------------------------------
(* Properties.                                                             *)

InFlight(w) == todo[w] \cup ({cur[w]} \ {None})

\* The leased_until fence of the acknowledgements names one claim: when the
\* lease of a live schedule is still the one a worker's claim was given, the
\* schedule is at the occurrence and the attempt that claim is for, whatever
\* was rescheduled, resumed, replayed or reclaimed in between.  So an
\* acknowledgement never settles an occurrence other than the one dispatched.
FenceNamesClaim ==
    \A w \in Workers : \A c \in InFlight(w) :
        holder[c.sched] = w =>
            /\ Live(c.sched)
            /\ c.occ = occ[c.sched] /\ c.attempts = attempts[c.sched]

\* A schedule has at most one outcome and keeps it: a late acknowledgement, a
\* cancel, a sweep or a resume never overwrites a delivered or cancelled
\* schedule, and only `replay` revives a dead-lettered one.
OutcomeIsFinal ==
    [][/\ delivered \subseteq delivered' /\ cancelled \subseteq cancelled'
       /\ \A s \in dead \ dead' : Replay(s)
       /\ (delivered' \cap cancelled') \cup (delivered' \cap dead')
             \cup (cancelled' \cap dead') = {}]_vars

\* What a row says of its schedule.
Status == [s \in Schedules |->
              IF s \in delivered THEN "delivered"
              ELSE IF s \in cancelled THEN "cancelled"
              ELSE IF s \in dead THEN "dead"
              ELSE IF s \in rows THEN "live" ELSE "absent"]

Contract == INSTANCE ScheduleContract WITH
    status <- Status, nth <- occ, tries <- attempts

\* The table, its workers, their leases and the operator's commands implement
\* the contract: mark_delivered and reschedule only follow an answer of the sink
\* for the very occurrence they settle, a dispatch was charged by claim_due
\* first, nothing is charged while it is paused, and a worker that lost its
\* lease, a late answer or a crash changes nothing the contract does not allow.
ImplementsContract == Contract!Spec

\* Counting attempts at claim time bounds the dispatches of one occurrence by
\* max_attempts, crashes, timeouts, pauses and resumes included.
DispatchesWithinBudget == \A s \in Schedules : runs[s] <= MaxAttempts

\* A schedule is dead-lettered, by a worker or by the sweep, only once its
\* budget is spent.
DeadIsSpent == \A s \in dead : attempts[s] = MaxAttempts

\* No two workers have one occurrence at the sink, both within their dispatch
\* timeout: "While the lease is held, a competing worker skips the occurrence
\* entirely", and the lease of a batch outlasts its dispatches.
NoOverlapWhileLeased ==
    \A u, v \in Workers :
        /\ u # v /\ left[u] > 0 /\ left[v] > 0
        /\ cur[u].sched = cur[v].sched
        => cur[u].occ # cur[v].occ

\* When nothing crashes, a dead-lettered occurrence that can be decoded was
\* given to the sink as often as it was charged: the guard that skips an elapsed
\* lease, the sweep and the other rows of its batch never cost it a dispatch.
EveryAttemptDispatched == \A s \in dead \ Undecodable : runs[s] = attempts[s]

\* Every schedule comes to an end (the calendar of a cron does) unless it is
\* paused: no crash, lost reply or exhausted budget leaves a row that is
\* neither claimable nor terminal.
EventuallyResolved ==
    \A s \in Schedules : s \in rows ~> (~Live(s) \/ s \in paused)

-----------------------------------------------------------------------------
(* The inductive invariant.                                                *)

\* What a worker holds in each state of its loop.
WorkerShape ==
    \A w \in Workers :
        /\ pc[w] \in {"dispatching", "settling"} <=> cur[w] # None
        /\ pc[w] \in {"idle", "swept", "down"} => todo[w] = {}

OneOutcome ==
    (delivered \cap cancelled) \cup (delivered \cap dead) \cup (cancelled \cap dead) = {}

\* A success still fenced in is a success of the current occurrence.
OkWasServed ==
    \A w \in Workers :
        pc[w] = "settling" /\ outcome[w] = "ok" /\ holder[cur[w].sched] = w
        => served[cur[w].sched]

\* Nothing but a claim in flight is told apart by the fence, so the invariant
\* adds to it what a worker holds, and what the ledger of outcomes looks like.
\* It is what TLAPS proves inductive.
LedgerInv ==
    TypeOK /\ WorkerShape /\ FenceNamesClaim /\ OneOutcome /\ DeadIsSpent /\ OkWasServed

\* What a batch holds: charged claims of known schedules, none of them dispatched
\* and none of them in two batches.
ClaimsAreCharged ==
    /\ \A w \in Workers : \A c \in InFlight(w) :
          /\ c.sched \in rows /\ c.occ <= occ[c.sched]
          /\ c.occ = occ[c.sched] => c.attempts <= attempts[c.sched]
    /\ \A w \in Workers : cur[w] \notin todo[w]
    /\ \A v, w \in Workers : v # w => todo[v] \cap todo[w] = {}

\* The attempts at the current occurrence of s that still wait in a batch.
Pending(s) ==
    {n \in 1..MaxAttempts :
        \E w \in Workers : \E c \in todo[w] : c.sched = s /\ c.occ = occ[s] /\ c.attempts = n}

\* The attempts charged to s that neither reached the sink nor still may.
Lost(s) == attempts[s] - runs[s] - Cardinality(Pending(s))

\* Every dispatch was charged first, and by no other claim.
BudgetInv == LedgerInv /\ ClaimsAreCharged /\ \A s \in Schedules : Lost(s) >= 0

\* A claim at the sink is one of the dispatches of its occurrence, and only a
\* cron is resumed at a next one.  With the budget this is what a step of the
\* contract asks for.
ContractInv ==
    /\ BudgetInv
    /\ \A w \in Workers :
          cur[w] # None /\ cur[w].occ = occ[cur[w].sched] => runs[cur[w].sched] > 0
    /\ op # None /\ op.next => op.sched \in Recurring

\* Nobody takes a lease away before its time: the resume of the SQL stores does.
LeasesAreKept == Store = "Memory" \/ MaxOps = 0

\* The claims that w has yet to dispatch, or is dispatching within its timeout.
Timed(w) == todo[w] \cup (IF left[w] > 0 THEN {cur[w]} ELSE {})

\* The lease of a batch outlasts what is left of it, dispatch by dispatch; until
\* then its rows are the worker's, and nobody else has their occurrence in time.
LeaseOutlastsBatch ==
    /\ MaxOps = 0 => op = None
    /\ \A w \in Workers :
          /\ IsFiniteSet(todo[w]) /\ (left[w] > 0 => pc[w] = "dispatching")
          /\ pc[w] \in {"ready", "dispatching", "settling"} =>
                hold[w] >= left[w] + Cardinality(todo[w]) * DispatchTimeout
          /\ \A c \in Timed(w) :
                Live(c.sched) /\ c.occ = occ[c.sched]
                => holder[c.sched] = w /\ lease[c.sched] = hold[w]
    /\ \A v, w \in Workers : v # w =>
          \A c \in Timed(v), d \in Timed(w) : c.sched = d.sched => c.occ # d.occ

LeaseInv == BudgetInv /\ LeaseOutlastsBatch

\* When nothing fails and the clocks agree to within a dispatch, no attempt is lost.
NothingIsLost ==
    /\ \A s \in Schedules : Lost(s) = 0
    /\ \A s \in dead : Pending(s) = {}

=============================================================================
