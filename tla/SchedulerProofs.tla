-------------------------- MODULE SchedulerProofs ---------------------------
(***************************************************************************)
(* The ledger invariant of Scheduler is inductive, and on top of it the    *)
(* budget: who may settle an occurrence, and how often it is dispatched.   *)
(* For any number of workers and schedules, any batch size, lease, budget, *)
(* delays, clock and calendar, both stores, and any number of crashes and  *)
(* operator commands.                                                      *)
(***************************************************************************)
EXTENDS Scheduler, FiniteSetTheorems, TLAPS

-----------------------------------------------------------------------------
(* Type correctness.                                                       *)

LEMMA TypeInit == Init => TypeOK
BY SchedulerConstants DEF Init, TypeOK

\* A release, and a new value of scheduled_for, keep the types.
LEMMA TypeRelease ==
    ASSUME TypeOK, NEW S \in SUBSET Schedules, Release(S)
    PROVE  lease' \in [Schedules -> Nat] /\ holder' \in [Schedules -> Workers \cup {None}]
BY Zenon DEF TypeOK, Release

LEMMA TypeRealign ==
    ASSUME TypeOK, NEW s \in Schedules, NEW d \in Nat, Realign(s, d)
    PROVE  /\ due' \in [Schedules -> Nat] /\ attempts' \in [Schedules -> 0..MaxAttempts]
           /\ occ' \in [Schedules -> Nat] /\ runs' \in [Schedules -> Nat]
           /\ served' \in [Schedules -> BOOLEAN]
<1> USE SchedulerConstants
<1>1. due' \in [Schedules -> Nat] /\ attempts' \in [Schedules -> 0..MaxAttempts]
  BY DEF TypeOK, Realign
<1>2. occ' \in [Schedules -> Nat] /\ runs' \in [Schedules -> Nat]
  BY DEF TypeOK, Realign
<1>3. served' \in [Schedules -> BOOLEAN]
  BY Zenon DEF TypeOK, Realign
<1> QED
  BY <1>1, <1>2, <1>3, Zenon

\* Attempts are counted in natural numbers.
LEMMA CountsAreNatural == \A n \in 0..MaxAttempts : n \in Nat
BY SMT

\* A claim charges rows that have an attempt left.
LEMMA TypeClaimRows ==
    ASSUME TypeOK, NEW w \in Workers, NEW batch \in SUBSET rows, ClaimRows(w, batch)
    PROVE  /\ attempts' \in [Schedules -> 0..MaxAttempts]
           /\ \A s \in batch : attempts'[s] \in 1..MaxAttempts
           /\ lease' \in [Schedules -> Nat] /\ holder' \in [Schedules -> Workers \cup {None}]
<1> USE SchedulerConstants
<1>1. \A s \in batch : s \in Schedules /\ attempts[s] \in 0..MaxAttempts /\ attempts[s] < MaxAttempts
  BY Zenon DEF TypeOK, ClaimRows, Eligible
<1>2. \A s \in batch : attempts[s] + 1 \in 0..MaxAttempts /\ attempts[s] + 1 \in 1..MaxAttempts
  BY <1>1
<1>3. /\ attempts' \in [Schedules -> 0..MaxAttempts]
      /\ \A s \in batch : attempts'[s] \in 1..MaxAttempts
  BY <1>1, <1>2, ZenonT(60) DEF TypeOK, ClaimRows, ClaimedAttempts
<1> QED
  BY <1>3, Zenon DEF TypeOK, ClaimRows

\* The first half of poll_cycle keeps the types.
LEMMA TypeClaim ==
    ASSUME TypeOK, NEW w \in Workers,
           Sweep(w) \/ ClaimDue(w) \/ ClaimLost(w) \/ ClaimFails(w)
    PROVE  TypeOK'
<1> USE SchedulerConstants
<1>1. CASE Sweep(w)
  <2>1. {s \in rows : Sweepable(s)} \in SUBSET Schedules
    BY Zenon DEF TypeOK
  <2> QED
    BY <1>1, <2>1, TypeRelease, Zenon DEF TypeOK, Sweep, opVars, ghostVars
<1>2. CASE ClaimDue(w)
  <2>1. PICK batch \in SUBSET rows :
            /\ ClaimRows(w, batch)
            /\ todo' = [todo EXCEPT ![w] =
                 {[sched |-> s, occ |-> occ[s], attempts |-> attempts'[s]] : s \in batch}]
            /\ hold' = [hold EXCEPT ![w] = IF batch = {} THEN 0 ELSE Lease]
    BY <1>2, Zenon DEF ClaimDue
  <2> DEFINE claims == {[sched |-> s, occ |-> occ[s], attempts |-> attempts'[s]] : s \in batch}
  <2>2. claims \in SUBSET Claim
    <3>1. \A s \in batch : s \in Schedules /\ occ[s] \in Nat /\ attempts'[s] \in 1..MaxAttempts
      BY <2>1, TypeClaimRows, Zenon DEF TypeOK
    <3> QED
      BY <3>1 DEF Claim
  <2>3. todo' \in [Workers -> SUBSET Claim]
    <3> HIDE DEF claims
    <3>1. todo' = [todo EXCEPT ![w] = claims]
      BY <2>1, Zenon DEF claims
    <3> QED
      BY <2>2, <3>1, Zenon DEF TypeOK
  <2>4. hold' \in [Workers -> Nat]
    BY <2>1, Zenon DEF TypeOK
  <2> QED
    BY <1>2, <2>1, <2>3, <2>4, TypeClaimRows, ZenonT(60)
       DEF TypeOK, ClaimDue, ClaimRows, flagVars, opVars, ghostVars
<1>3. CASE ClaimLost(w)
  <2>1. PICK batch \in SUBSET rows :
            /\ ClaimRows(w, batch)
            /\ faults' = faults \/ (faults < MaxFaults /\ faults' = faults + 1)
    BY <1>3, Zenon DEF ClaimLost
  <2>2. faults' \in 0..MaxFaults
    BY <2>1 DEF TypeOK
  <2>3. /\ pc' = [pc EXCEPT ![w] = "idle"] /\ UNCHANGED <<rows, due, occ>>
        /\ UNCHANGED <<todo, cur, hold, left, outcome, flagVars, opVars, ghostVars>>
    BY <1>3, <2>1, Zenon DEF ClaimLost, ClaimRows
  <2>4. pc' \in [Workers -> {"idle", "swept", "ready", "dispatching", "settling", "down"}]
    BY <2>3, Zenon DEF TypeOK
  <2> QED
    BY <2>1, <2>2, <2>3, <2>4, TypeClaimRows, Zenon DEF TypeOK, flagVars, opVars, ghostVars
<1>4. CASE ClaimFails(w)
  <2>1. faults \in 0..MaxFaults /\ faults < MaxFaults /\ faults' = faults + 1
    BY <1>4, Zenon DEF TypeOK, ClaimFails
  <2>2. faults' \in 0..MaxFaults
    BY <2>1
  <2>3. pc' \in [Workers -> {"idle", "swept", "ready", "dispatching", "settling", "down"}]
    BY <1>4, Zenon DEF TypeOK, ClaimFails
  <2> QED
    BY <1>4, <2>2, <2>3, ZenonT(60) DEF TypeOK, ClaimFails, rowVars, flagVars, opVars, ghostVars
<1> QED
  BY <1>1, <1>2, <1>3, <1>4, Zenon

\* Dispatching keeps the types.
LEMMA TypeDispatch ==
    ASSUME TypeOK, WorkerShape, NEW w \in Workers,
           \/ SkipElapsed(w) \/ StartDispatch(w)
           \/ \E result \in {"ok", "err"} : SinkReturns(w, result)
           \/ DispatchTimesOut(w) \/ EndCycle(w)
    PROVE  TypeOK'
<1> USE SchedulerConstants, NoneIsNothing
<1>1. CASE SkipElapsed(w)
  BY <1>1 DEF TypeOK, SkipElapsed, rowVars, flagVars, opVars, ghostVars
<1>2. CASE StartDispatch(w)
  <2>1. PICK c \in todo[w] :
            /\ todo' = [todo EXCEPT ![w] = @ \ {c}]
            /\ cur' = [cur EXCEPT ![w] = c]
            /\ runs' = IF c.occ = occ[c.sched]
                         THEN [runs EXCEPT ![c.sched] = @ + 1] ELSE runs
    BY <1>2, Zenon DEF StartDispatch
  <2>2. c \in Claim /\ c.sched \in Schedules
    BY DEF TypeOK, Claim
  <2>3. runs' \in [Schedules -> Nat]
    <3>1. runs \in [Schedules -> Nat]
      BY Zenon DEF TypeOK
    <3>2. runs[c.sched] + 1 \in Nat
      BY <2>2, <3>1
    <3> QED
      BY <2>1, <3>1, <3>2, Zenon
  <2> QED
    BY <1>2, <2>1, <2>2, <2>3, Zenon DEF TypeOK, StartDispatch, rowVars, flagVars, opVars
<1>3. ASSUME NEW result \in {"ok", "err"}, SinkReturns(w, result)
      PROVE  TypeOK'
  <2>1. served' \in [Schedules -> BOOLEAN]
    BY <1>3, Zenon DEF TypeOK, SinkReturns
  <2>2. /\ left' \in [Workers -> Nat] /\ outcome' \in [Workers -> {"ok", "err"}]
        /\ pc' \in [Workers -> {"idle", "swept", "ready", "dispatching", "settling", "down"}]
    BY <1>3, Zenon DEF TypeOK, SinkReturns
  <2> QED
    BY <1>3, <2>1, <2>2, Zenon DEF TypeOK, SinkReturns, rowVars, flagVars, opVars
<1>4. CASE DispatchTimesOut(w)
  BY <1>4, Zenon DEF TypeOK, DispatchTimesOut, rowVars, flagVars, opVars, ghostVars
<1>5. CASE EndCycle(w)
  BY <1>5, Zenon DEF TypeOK, EndCycle, rowVars, flagVars, opVars, ghostVars
<1> QED
  BY <1>1, <1>2, <1>3, <1>4, <1>5, Zenon

\* Acknowledging keeps the types.
LEMMA TypeAck ==
    ASSUME TypeOK, WorkerShape, NEW w \in Workers, Acknowledge(w)
    PROVE  TypeOK'
<1> USE SchedulerConstants, NoneIsNothing
<1>1. Settle(w)
  BY Zenon DEF Acknowledge, MarkDelivered, Reschedule, MarkFailed, MarkDeadLettered, AckRefused, AckFails
<1>2. cur[w] \in Claim /\ cur[w].sched \in Schedules /\ {cur[w].sched} \in SUBSET Schedules
      /\ cur[w].attempts \in 1..MaxAttempts
  BY <1>1, ZenonT(60) DEF TypeOK, WorkerShape, Settle, Claim
<1>3. /\ pc' \in [Workers -> {"idle", "swept", "ready", "dispatching", "settling", "down"}]
      /\ cur' \in [Workers -> Claim \cup {None}]
      /\ outcome' \in [Workers -> {"ok", "err"}]
      /\ UNCHANGED <<rows, todo, hold, left, cancelled, paused, op, ops>>
  BY <1>1, Zenon DEF TypeOK, Settle, opVars
<1>4. Fenced(w) => cur[w].sched \in rows
  BY Zenon DEF Fenced, Live
<1>5. CASE MarkDelivered(w)
  BY <1>2, <1>3, <1>4, <1>5, TypeRelease, Zenon DEF TypeOK, MarkDelivered, ghostVars
<1>6. CASE Reschedule(w)
  <2>1. PICK d \in 1..Period : Advance(cur[w].sched, d)
    BY <1>6, Zenon DEF Reschedule
  <2>2. d \in Nat /\ Realign(cur[w].sched, d) /\ Release({cur[w].sched})
    BY <2>1 DEF Advance
  <2> QED
    BY <1>2, <1>3, <1>6, <2>2, TypeRelease, TypeRealign, Zenon DEF TypeOK, Reschedule
<1>7. CASE MarkFailed(w)
  <2>1. lease' \in [Schedules -> Nat]
    <3>1. PICK d \in RetryDelays[cur[w].attempts] : lease' = [lease EXCEPT ![cur[w].sched] = d]
      BY <1>7, Zenon DEF MarkFailed
    <3>2. cur[w].attempts \in 1..(MaxAttempts - 1)
      BY <1>2, <1>7 DEF MarkFailed, Exhausted
    <3>3. d \in Nat
      BY <3>1, <3>2, Zenon
    <3> QED
      BY <3>1, <3>3, Zenon DEF TypeOK
  <2> QED
    BY <1>2, <1>3, <1>7, <2>1, ZenonT(60) DEF TypeOK, MarkFailed, ghostVars
<1>8. CASE MarkDeadLettered(w)
  BY <1>2, <1>3, <1>4, <1>8, TypeRelease, Zenon DEF TypeOK, MarkDeadLettered, ghostVars
<1>9. CASE AckRefused(w) \/ AckFails(w)
  <2>1. faults' \in 0..MaxFaults
    BY <1>9 DEF TypeOK, AckRefused, AckFails
  <2> QED
    BY <1>3, <1>9, <2>1 DEF TypeOK, AckRefused, AckFails, ghostVars
<1> QED
  BY <1>5, <1>6, <1>7, <1>8, <1>9, Zenon DEF Acknowledge

\* An operator's commands keep the types.
LEMMA TypeOperator ==
    ASSUME TypeOK, OperatorStep
    PROVE  TypeOK'
<1> USE SchedulerConstants, NoneIsNothing
<1>1. ASSUME Command PROVE ops' \in 0..MaxOps /\ UNCHANGED <<workerVars, faults>>
  BY <1>1 DEF TypeOK, Command
<1>2. ASSUME NEW s \in Schedules, Cancel(s) PROVE TypeOK'
  BY <1>1, <1>2, TypeRelease, Zenon DEF TypeOK, Cancel, Live, workerVars, ghostVars
<1>3. ASSUME NEW s \in Schedules, Pause(s) PROVE TypeOK'
  BY <1>1, <1>3, Zenon DEF TypeOK, Pause, Live, workerVars, ghostVars
<1>4. ASSUME NEW s \in Schedules, ResumeInspects(s) PROVE TypeOK'
  <2>1. op' \in Resumption
    <3>1. CASE s \in Recurring /\ due[s] = 0
      <4>1. PICK d \in 1..Period : op' = [sched |-> s, next |-> TRUE, wait |-> d]
        BY <1>4, <3>1, Zenon DEF ResumeInspects
      <4> QED
        BY <4>1 DEF Resumption
    <3>2. CASE ~(s \in Recurring /\ due[s] = 0)
      <4>1. op' = [sched |-> s, next |-> FALSE, wait |-> 0]
        BY <1>4, <3>2, Zenon DEF ResumeInspects
      <4> QED
        BY <4>1, Zenon DEF Resumption
    <3> QED
      BY <3>1, <3>2, Zenon
  <2> QED
    BY <1>1, <1>4, <2>1, Zenon DEF TypeOK, ResumeInspects, workerVars, rowVars, flagVars, ghostVars
<1>5. ASSUME NEW s \in Schedules, Replay(s) PROVE TypeOK'
  <2>1. Realign(s, 0) /\ Release({s}) /\ {s} \in SUBSET Schedules /\ 0 \in Nat
    BY <1>5, Zenon DEF Replay, Advance
  <2> QED
    BY <1>1, <1>5, <2>1, TypeRelease, TypeRealign, Zenon DEF TypeOK, Replay, workerVars
<1>6. CASE ResumeApplies
  <2>1. op \in Resumption /\ op.sched \in Schedules /\ {op.sched} \in SUBSET Schedules
        /\ op.wait \in Nat
    BY <1>6, ZenonT(60) DEF TypeOK, ResumeApplies, Resumption
  <2>2. lease' \in [Schedules -> Nat] /\ holder' \in [Schedules -> Workers \cup {None}]
    BY <1>6, <2>1, TypeRelease, Zenon DEF TypeOK, ResumeApplies
  <2>3. /\ due' \in [Schedules -> Nat] /\ attempts' \in [Schedules -> 0..MaxAttempts]
        /\ occ' \in [Schedules -> Nat] /\ runs' \in [Schedules -> Nat]
        /\ served' \in [Schedules -> BOOLEAN]
    <3>1. CASE Realign(op.sched, op.wait)
      BY <2>1, <3>1, TypeRealign, Zenon
    <3>2. CASE UNCHANGED <<due, attempts, occ, ghostVars>>
      BY <3>2, Zenon DEF TypeOK, ghostVars
    <3> QED
      BY <1>6, <3>1, <3>2, Zenon DEF ResumeApplies, ghostVars
  <2> QED
    BY <1>6, <2>2, <2>3, Zenon DEF TypeOK, ResumeApplies, workerVars
<1> QED
  BY <1>2, <1>3, <1>4, <1>5, <1>6, Zenon DEF OperatorStep

\* Inserts, crashes, restarts and the clocks keep the types.
LEMMA TypeEnvironment ==
    ASSUME TypeOK,
           \/ \E s \in Schedules : Insert(s)
           \/ \E w \in Workers : Crash(w) \/ Restart(w)
           \/ Tick
    PROVE  TypeOK'
<1> USE SchedulerConstants, NoneIsNothing
<1>1. ASSUME NEW s \in Schedules, Insert(s) PROVE TypeOK'
  <2>1. due' \in [Schedules -> Nat]
    BY <1>1 DEF TypeOK, Insert
  <2> QED
    BY <1>1, <2>1, Zenon DEF TypeOK, Insert, flagVars, workerVars, opVars, ghostVars
<1>2. ASSUME NEW w \in Workers, Crash(w) PROVE TypeOK'
  <2>1. faults \in 0..MaxFaults
    BY Zenon DEF TypeOK
  <2>2. faults' \in 0..MaxFaults /\ 0 \in Nat
    BY <1>2, <2>1 DEF Crash
  <2> QED
    BY <1>2, <2>2, Zenon DEF TypeOK, Crash, rowVars, flagVars, opVars, ghostVars
<1>3. ASSUME NEW w \in Workers, Restart(w) PROVE TypeOK'
  BY <1>3, Zenon DEF TypeOK, Restart, rowVars, flagVars, opVars, ghostVars
<1>4. CASE Tick
  <2>1. \A n \in Nat : CountDown(n) \in Nat
    BY DEF CountDown
  <2>2. op' \in Resumption \cup {None}
    BY <1>4, <2>1, Zenon DEF TypeOK, Tick, Resumption
  <2>3. /\ due' \in [Schedules -> Nat] /\ lease' \in [Schedules -> Nat]
        /\ hold' \in [Workers -> Nat] /\ left' \in [Workers -> Nat]
    BY <1>4, <2>1, Zenon DEF TypeOK, Tick
  <2> QED
    BY <1>4, <2>2, <2>3, Zenon DEF TypeOK, Tick, flagVars, ghostVars
<1> QED
  BY <1>1, <1>2, <1>3, <1>4, Zenon

-----------------------------------------------------------------------------
(* The fence and the ledger of outcomes.                                   *)

LEMMA LedgerInit == Init => LedgerInv
<1> SUFFICES ASSUME Init PROVE LedgerInv
  BY Zenon
<1>1. TypeOK
  BY TypeInit, Zenon
<1>2. \A w \in Workers : InFlight(w) = {} /\ pc[w] = "idle" /\ cur[w] = None /\ todo[w] = {}
  BY Zenon DEF Init, InFlight
<1> QED
  BY <1>1, <1>2, Zenon
     DEF Init, LedgerInv, WorkerShape, FenceNamesClaim, OneOutcome, DeadIsSpent, OkWasServed

\* The fence survives a step that gives nobody a claim and that, of every row
\* it touches, takes the lease away.
LEMMA FenceFrame ==
    ASSUME LedgerInv, TypeOK', WorkerShape',
           \A w \in Workers :
              /\ InFlight(w)' \subseteq InFlight(w)
              /\ pc'[w] = "settling" /\ outcome'[w] = "ok"
                    => pc[w] = "settling" /\ outcome[w] = "ok" /\ cur'[w] = cur[w],
           \A s \in Schedules :
              \/ holder'[s] = None
              \/ /\ holder'[s] = holder[s] /\ attempts'[s] = attempts[s] /\ occ'[s] = occ[s]
                 /\ (served[s] => served'[s]) /\ (Live(s) => Live(s)')
    PROVE  FenceNamesClaim' /\ OkWasServed'
<1> USE NoneIsNothing DEF LedgerInv
<1>1. \A w \in Workers : \A c \in InFlight(w) : c.sched \in Schedules
  <2>1. \A w \in Workers : todo[w] \subseteq Claim /\ cur[w] \in Claim \cup {None}
    BY Zenon DEF TypeOK
  <2> QED
    BY <2>1, Zenon DEF InFlight, Claim
<1>2. FenceNamesClaim'
  <2> SUFFICES ASSUME NEW w \in Workers, NEW c \in InFlight(w)', holder'[c.sched] = w
               PROVE  Live(c.sched)' /\ c.occ = occ'[c.sched] /\ c.attempts = attempts'[c.sched]
    BY Zenon DEF FenceNamesClaim
  <2>1. c \in InFlight(w) /\ c.sched \in Schedules /\ holder'[c.sched] # None
    BY <1>1, Zenon
  <2> QED
    BY <2>1 DEF FenceNamesClaim
<1>3. OkWasServed'
  <2> SUFFICES ASSUME NEW w \in Workers, pc'[w] = "settling", outcome'[w] = "ok",
                      holder'[cur'[w].sched] = w
               PROVE  served'[cur'[w].sched]
    BY Zenon DEF OkWasServed
  <2>1. pc[w] = "settling" /\ outcome[w] = "ok" /\ cur'[w] = cur[w]
    BY ZenonT(60)
  <2>2. cur[w].sched \in Schedules
    BY <2>1, SMTT(30) DEF WorkerShape, TypeOK, Claim
  <2> QED
    BY <2>1, <2>2 DEF OkWasServed
<1> QED
  BY <1>2, <1>3, Zenon

\* A step that leaves the rows, and what their sinks did, as they are.
LEMMA LedgerQuiet ==
    ASSUME LedgerInv, TypeOK', WorkerShape',
           UNCHANGED <<rows, attempts, holder, delivered, cancelled, dead, occ, served>>,
           \A w \in Workers :
              /\ InFlight(w)' \subseteq InFlight(w)
              /\ pc'[w] = "settling" /\ outcome'[w] = "ok"
                    => pc[w] = "settling" /\ outcome[w] = "ok" /\ cur'[w] = cur[w]
    PROVE  LedgerInv'
<1>1. FenceNamesClaim' /\ OkWasServed'
  <2>1. \A s \in Schedules : Live(s)' <=> Live(s)
    BY Zenon DEF Live
  <2> QED
    BY <2>1, FenceFrame, Zenon
<1>2. OneOutcome' /\ DeadIsSpent'
  BY Zenon DEF LedgerInv, OneOutcome, DeadIsSpent
<1> QED
  BY <1>1, <1>2, Zenon DEF LedgerInv

\* What a step of one worker has to show when it touches no row: the others are
\* where they were, it holds what it held, and it reports no new success.
LEMMA LedgerWorker ==
    ASSUME LedgerInv, TypeOK', NEW w \in Workers,
           UNCHANGED <<rows, attempts, holder, delivered, cancelled, dead, occ, served>>,
           \A v \in Workers \ {w} :
              /\ pc'[v] = pc[v] /\ todo'[v] = todo[v]
              /\ cur'[v] = cur[v] /\ outcome'[v] = outcome[v],
           todo'[w] \subseteq todo[w],
           cur'[w] = None \/ cur'[w] = cur[w] \/ cur'[w] \in todo[w],
           pc'[w] \in {"dispatching", "settling"} <=> cur'[w] # None,
           pc'[w] \in {"idle", "swept", "down"} => todo'[w] = {},
           pc'[w] = "settling" => outcome'[w] = "err"
    PROVE  LedgerInv'
<1>1. WorkerShape /\ WorkerShape'
  BY Zenon DEF LedgerInv, WorkerShape
<1>2. ASSUME NEW v \in Workers
      PROVE  /\ InFlight(v)' \subseteq InFlight(v)
             /\ pc'[v] = "settling" /\ outcome'[v] = "ok"
                  => pc[v] = "settling" /\ outcome[v] = "ok" /\ cur'[v] = cur[v]
  <2>1. CASE v = w
    BY <2>1, Zenon DEF InFlight
  <2>2. CASE v # w
    BY <2>2, Zenon DEF InFlight
  <2> QED
    BY <2>1, <2>2, Zenon
<1> QED
  BY <1>1, <1>2, LedgerQuiet, Zenon

LEMMA LedgerQuietSteps ==
    ASSUME LedgerInv, NEW w \in Workers,
           \/ ClaimFails(w) \/ SkipElapsed(w) \/ StartDispatch(w) \/ DispatchTimesOut(w)
           \/ AckRefused(w) \/ AckFails(w) \/ EndCycle(w) \/ Crash(w) \/ Restart(w)
    PROVE  LedgerInv'
<1>1. TypeOK /\ TypeOK' /\ WorkerShape
  BY TypeClaim, TypeDispatch, TypeAck, TypeEnvironment, Zenon DEF Acknowledge, LedgerInv
<1>2. UNCHANGED <<rows, attempts, holder, delivered, cancelled, dead, occ, served>>
  BY Zenon DEF ClaimFails, SkipElapsed, StartDispatch, DispatchTimesOut, AckRefused, AckFails,
               Settle, EndCycle, Crash, Restart, rowVars, flagVars, ghostVars
<1>3. DOMAIN pc = Workers /\ DOMAIN todo = Workers /\ DOMAIN cur = Workers
      /\ DOMAIN outcome = Workers /\ todo[w] \subseteq Claim
  BY <1>1, Zenon DEF TypeOK
<1>4. /\ pc[w] \in {"dispatching", "settling"} <=> cur[w] # None
      /\ pc[w] \in {"idle", "swept", "down"} => todo[w] = {}
  BY <1>1, Zenon DEF WorkerShape
<1>5. /\ \A v \in Workers \ {w} :
            /\ pc'[v] = pc[v] /\ todo'[v] = todo[v]
            /\ cur'[v] = cur[v] /\ outcome'[v] = outcome[v]
      /\ todo'[w] \subseteq todo[w]
      /\ cur'[w] = None \/ cur'[w] = cur[w] \/ cur'[w] \in todo[w]
      /\ pc'[w] \in {"dispatching", "settling"} <=> cur'[w] # None
      /\ pc'[w] \in {"idle", "swept", "down"} => todo'[w] = {}
      /\ pc'[w] = "settling" => outcome'[w] = "err"
  <2>1. CASE ClaimFails(w) \/ Restart(w)
    <3>1. /\ pc[w] \in {"swept", "down"} /\ pc' = [pc EXCEPT ![w] = "idle"]
          /\ UNCHANGED <<todo, cur, outcome>>
      BY <2>1, Zenon DEF ClaimFails, Restart
    <3> QED
      BY <1>3, <1>4, <3>1, Zenon
  <2>2. CASE SkipElapsed(w)
    <3>1. PICK c \in todo[w] : todo' = [todo EXCEPT ![w] = @ \ {c}]
      BY <2>2, Zenon DEF SkipElapsed
    <3>2. pc[w] = "ready" /\ UNCHANGED <<pc, cur, outcome>>
      BY <2>2, Zenon DEF SkipElapsed
    <3> QED
      BY <1>3, <1>4, <3>1, <3>2, Zenon
  <2>3. CASE StartDispatch(w)
    <3>1. PICK c \in todo[w] :
              todo' = [todo EXCEPT ![w] = @ \ {c}] /\ cur' = [cur EXCEPT ![w] = c]
      BY <2>3, Zenon DEF StartDispatch
    <3>2. pc' = [pc EXCEPT ![w] = "dispatching"] /\ UNCHANGED outcome
      BY <2>3, Zenon DEF StartDispatch
    <3>3. c # None
      BY <1>3, NoneIsNothing, Zenon
    <3> QED
      BY <1>3, <3>1, <3>2, <3>3, Zenon
  <2>4. CASE DispatchTimesOut(w)
    <3>1. /\ pc[w] = "dispatching" /\ pc' = [pc EXCEPT ![w] = "settling"]
          /\ outcome' = [outcome EXCEPT ![w] = "err"] /\ UNCHANGED <<todo, cur>>
      BY <2>4, Zenon DEF DispatchTimesOut
    <3> QED
      BY <1>3, <1>4, <3>1, Zenon
  <2>5. CASE AckRefused(w) \/ AckFails(w)
    <3>1. /\ pc' = [pc EXCEPT ![w] = "ready"] /\ cur' = [cur EXCEPT ![w] = None]
          /\ outcome' = [outcome EXCEPT ![w] = "err"] /\ UNCHANGED todo
      BY <2>5, Zenon DEF AckRefused, AckFails, Settle
    <3> QED
      BY <1>3, <3>1, Zenon
  <2>6. CASE EndCycle(w)
    <3>1. /\ pc[w] = "ready" /\ todo[w] = {} /\ pc' = [pc EXCEPT ![w] = "idle"]
          /\ UNCHANGED <<todo, cur, outcome>>
      BY <2>6, Zenon DEF EndCycle
    <3> QED
      BY <1>3, <1>4, <3>1, Zenon
  <2>7. CASE Crash(w)
    <3>1. /\ pc' = [pc EXCEPT ![w] = "down"] /\ todo' = [todo EXCEPT ![w] = {}]
          /\ cur' = [cur EXCEPT ![w] = None] /\ outcome' = [outcome EXCEPT ![w] = "err"]
      BY <2>7, Zenon DEF Crash
    <3> QED
      BY <1>3, <3>1, Zenon
  <2> QED
    BY <2>1, <2>2, <2>3, <2>4, <2>5, <2>6, <2>7, Zenon
<1> QED
  BY <1>1, <1>2, <1>5, LedgerWorker, Zenon

\* The steps of nobody in particular: an insert, a pause, the first half of a
\* resume, the clocks.
LEMMA LedgerAmbient ==
    ASSUME LedgerInv,
           (\E s \in Schedules : Insert(s) \/ Pause(s) \/ ResumeInspects(s)) \/ Tick
    PROVE  LedgerInv'
<1> USE DEF LedgerInv
<1>1. TypeOK'
  BY TypeEnvironment, TypeOperator, Zenon DEF OperatorStep
<1>2. /\ rows \subseteq rows'
      /\ UNCHANGED <<attempts, holder, delivered, cancelled, dead, occ, served, pc, todo, cur, outcome>>
  BY Zenon DEF Insert, Pause, ResumeInspects, Command, Tick, rowVars, flagVars, workerVars, ghostVars
<1>3. WorkerShape'
  BY <1>2, Zenon DEF WorkerShape
<1>4. FenceNamesClaim' /\ OkWasServed'
  <2>1. \A s \in Schedules : Live(s) => Live(s)'
    BY <1>2, Zenon DEF Live
  <2> QED
    BY <1>1, <1>2, <1>3, <2>1, FenceFrame, Zenon DEF InFlight
<1> QED
  BY <1>1, <1>2, <1>3, <1>4, Zenon DEF OneOutcome, DeadIsSpent

\* The sink's answer: an Ok within the fence is an Ok of this occurrence.
LEMMA LedgerSinkReturns ==
    ASSUME LedgerInv, NEW w \in Workers, NEW result \in {"ok", "err"}, SinkReturns(w, result)
    PROVE  LedgerInv'
<1> USE DEF LedgerInv
<1>1. TypeOK'
  BY TypeDispatch, Zenon
<1>2. /\ pc[w] = "dispatching" /\ pc' = [pc EXCEPT ![w] = "settling"]
      /\ outcome' = [outcome EXCEPT ![w] = result]
      /\ UNCHANGED <<rows, attempts, holder, delivered, cancelled, dead, occ, todo, cur>>
  BY Zenon DEF SinkReturns, rowVars, flagVars
<1>3. WorkerShape'
  BY <1>2, Zenon DEF TypeOK, WorkerShape
<1>4. FenceNamesClaim'
  BY <1>2, Zenon DEF FenceNamesClaim, InFlight, Live
<1>5. cur[w] \in Claim /\ cur[w] # None /\ cur[w].sched \in Schedules /\ cur[w] \in InFlight(w)
  BY <1>2, Zenon DEF TypeOK, WorkerShape, InFlight, Claim
<1>6. /\ \A s \in Schedules : served[s] => served'[s]
      /\ result = "ok" /\ holder[cur[w].sched] = w => served'[cur[w].sched]
  BY <1>5, Zenon DEF TypeOK, SinkReturns, FenceNamesClaim
<1>7. OkWasServed'
  <2> SUFFICES ASSUME NEW v \in Workers, pc'[v] = "settling", outcome'[v] = "ok",
                      holder'[cur'[v].sched] = v
               PROVE  served'[cur'[v].sched]
    BY Zenon DEF OkWasServed
  <2>1. CASE v = w
    BY <1>2, <1>6, <2>1, Zenon DEF TypeOK
  <2>2. CASE v # w
    <3>1. pc[v] = "settling" /\ outcome[v] = "ok" /\ cur'[v] = cur[v] /\ cur[v].sched \in Schedules
      BY <1>2, <2>2, Zenon DEF TypeOK, WorkerShape, Claim
    <3> QED
      BY <1>2, <1>6, <3>1, Zenon DEF OkWasServed
  <2> QED
    BY <2>1, <2>2, Zenon
<1> QED
  BY <1>1, <1>2, <1>3, <1>4, <1>7, Zenon DEF OneOutcome, DeadIsSpent

\* The sweep takes rows whose budget is spent, and their lease with them.
LEMMA LedgerSweep ==
    ASSUME LedgerInv, NEW w \in Workers, Sweep(w)
    PROVE  LedgerInv'
<1> USE DEF LedgerInv
<1> DEFINE swept == {s \in rows : Sweepable(s)}
<1>1. TypeOK'
  BY TypeClaim, Zenon
<1>2. /\ pc[w] = "idle" /\ pc' = [pc EXCEPT ![w] = "swept"]
      /\ dead' = dead \cup swept
      /\ UNCHANGED <<rows, attempts, delivered, cancelled, occ, served, todo, cur, outcome>>
      /\ \A s \in Schedules : holder'[s] = IF s \in swept THEN None ELSE holder[s]
  BY Zenon DEF Sweep, Release, ghostVars
<1>3. \A s \in swept : s \in Schedules /\ Live(s) /\ attempts[s] = MaxAttempts
  BY SchedulerConstants DEF TypeOK, Sweepable, Live
<1> HIDE DEF swept
<1>4. WorkerShape'
  BY <1>2, Zenon DEF TypeOK, WorkerShape
<1>5. FenceNamesClaim' /\ OkWasServed'
  <2>1. \A s \in Schedules : s \notin swept => (Live(s) => Live(s)')
    BY <1>2, Zenon DEF Live
  <2> QED
    BY <1>1, <1>2, <1>4, <2>1, FenceFrame, Zenon DEF TypeOK, InFlight
<1>6. OneOutcome' /\ DeadIsSpent'
  BY <1>2, <1>3, Zenon DEF OneOutcome, DeadIsSpent, Live
<1> QED
  BY <1>1, <1>4, <1>5, <1>6, Zenon

\* A claim, seen by the worker or lost: the lease of a claimed row is now this
\* claim's, and no older claim of the row passes the fence.
LEMMA LedgerClaim ==
    ASSUME LedgerInv, NEW w \in Workers, ClaimDue(w) \/ ClaimLost(w)
    PROVE  LedgerInv'
<1> USE DEF LedgerInv
<1>1. TypeOK'
  BY TypeClaim, Zenon
<1>2. PICK batch \in SUBSET rows :
         /\ ClaimRows(w, batch)
         /\ \/ /\ pc' = [pc EXCEPT ![w] = "ready"]
               /\ todo' = [todo EXCEPT ![w] =
                    {[sched |-> s, occ |-> occ[s], attempts |-> attempts'[s]] : s \in batch}]
            \/ pc' = [pc EXCEPT ![w] = "idle"] /\ todo' = todo
  BY Zenon DEF ClaimDue, ClaimLost
<1>3. /\ pc[w] = "swept"
      /\ UNCHANGED <<rows, delivered, cancelled, dead, occ, served, cur, outcome>>
  BY <1>2, Zenon DEF ClaimDue, ClaimLost, ClaimRows, flagVars, ghostVars
<1>4. /\ \A s \in Schedules : holder'[s] = IF s \in batch THEN w ELSE holder[s]
      /\ \A s \in Schedules : s \notin batch => attempts'[s] = attempts[s]
      /\ \A s \in batch : s \in Schedules /\ Live(s)
  BY <1>2, Zenon DEF TypeOK, ClaimRows, Eligible
<1>5. \A s \in Schedules : Live(s)' <=> Live(s)
  BY <1>3, Zenon DEF Live
<1>6. cur[w] = None /\ todo[w] = {}
  BY <1>3, Zenon DEF WorkerShape
<1>7. /\ \A v \in Workers : v # w => InFlight(v)' = InFlight(v) /\ pc'[v] = pc[v]
      /\ \A c \in InFlight(w)' :
            c.sched \in batch /\ c.occ = occ[c.sched] /\ c.attempts = attempts'[c.sched]
  <2>1. \A v \in Workers : v # w => InFlight(v)' = InFlight(v) /\ pc'[v] = pc[v]
    BY <1>2, <1>3, Zenon DEF TypeOK, InFlight
  <2>2. InFlight(w)' = todo'[w]
    BY <1>3, <1>6, Zenon DEF InFlight
  <2>3. \A c \in todo'[w] :
            c.sched \in batch /\ c.occ = occ[c.sched] /\ c.attempts = attempts'[c.sched]
    BY <1>2, <1>6 DEF TypeOK
  <2> QED
    BY <2>1, <2>2, <2>3, Zenon
<1>8. WorkerShape'
  BY <1>2, <1>3, <1>6, ZenonT(60) DEF TypeOK, WorkerShape
<1>9. FenceNamesClaim'
  <2> SUFFICES ASSUME NEW v \in Workers, NEW c \in InFlight(v)', holder'[c.sched] = v
               PROVE  Live(c.sched)' /\ c.occ = occ'[c.sched] /\ c.attempts = attempts'[c.sched]
    BY Zenon DEF FenceNamesClaim
  <2>1. CASE v = w
    BY <1>3, <1>4, <1>5, <1>7, <2>1, Zenon
  <2>2. CASE v # w
    <3>1. c \in InFlight(v) /\ c.sched \in Schedules
      BY <1>7, <2>2, NoneIsNothing DEF TypeOK, InFlight, Claim
    <3>2. c.sched \notin batch /\ holder[c.sched] = v
      BY <1>4, <2>2, <3>1, Zenon
    <3> QED
      BY <1>3, <1>4, <1>5, <3>1, <3>2, ZenonT(60) DEF FenceNamesClaim
  <2> QED
    BY <2>1, <2>2, Zenon
<1>10. OkWasServed'
  <2> SUFFICES ASSUME NEW v \in Workers, pc'[v] = "settling", outcome'[v] = "ok",
                      holder'[cur'[v].sched] = v
               PROVE  served'[cur'[v].sched]
    BY Zenon DEF OkWasServed
  <2>1. v # w
    BY <1>2, ZenonT(60) DEF TypeOK
  <2>2. pc[v] = "settling" /\ cur[v].sched \in Schedules
    BY <1>7, <2>1 DEF WorkerShape, TypeOK, Claim
  <2> QED
    BY <1>3, <1>4, <2>1, <2>2, Zenon DEF OkWasServed
<1>11. OneOutcome' /\ DeadIsSpent'
  BY <1>3, <1>4, Zenon DEF OneOutcome, DeadIsSpent, Live, TypeOK
<1> QED
  BY <1>1, <1>8, <1>9, <1>10, <1>11, Zenon

\* A step that takes the lease of one row away may do with it what it likes.
LEMMA FenceOfOthers ==
    ASSUME LedgerInv, TypeOK', WorkerShape', NEW s \in Schedules, holder'[s] = None,
           \A w \in Workers :
              /\ InFlight(w)' \subseteq InFlight(w)
              /\ pc'[w] = "settling" /\ outcome'[w] = "ok"
                    => pc[w] = "settling" /\ outcome[w] = "ok" /\ cur'[w] = cur[w],
           \A r \in Schedules \ {s} :
              /\ holder'[r] = holder[r] /\ attempts'[r] = attempts[r] /\ occ'[r] = occ[r]
              /\ served[r] => served'[r]
              /\ Live(r) => Live(r)'
    PROVE  FenceNamesClaim' /\ OkWasServed'
BY FenceFrame, Zenon

LEMMA LedgerAck ==
    ASSUME LedgerInv, NEW w \in Workers,
           MarkDelivered(w) \/ Reschedule(w) \/ MarkFailed(w) \/ MarkDeadLettered(w)
    PROVE  LedgerInv'
<1> USE DEF LedgerInv
<1> DEFINE s == cur[w].sched
<1>1. TypeOK'
  BY TypeAck, Zenon DEF Acknowledge
<1>2. Settle(w) /\ Fenced(w)
  BY Zenon DEF MarkDelivered, Reschedule, MarkFailed, MarkDeadLettered
<1>3. cur[w] \in Claim /\ s \in Schedules /\ cur[w] \in InFlight(w)
  BY <1>2, Zenon DEF TypeOK, WorkerShape, Settle, InFlight, Claim
<1>4. Live(s) /\ attempts[s] = cur[w].attempts
  BY <1>2, <1>3, Zenon DEF Fenced, FenceNamesClaim
<1>5. WorkerShape'
  BY <1>2, Zenon DEF TypeOK, WorkerShape, Settle
<1>6. \A v \in Workers :
         /\ InFlight(v)' \subseteq InFlight(v)
         /\ pc'[v] = "settling" /\ outcome'[v] = "ok"
               => pc[v] = "settling" /\ outcome[v] = "ok" /\ cur'[v] = cur[v]
  BY <1>2, Zenon DEF TypeOK, InFlight, Settle
<1>7. /\ holder'[s] = None
      /\ \A r \in Schedules \ {s} :
            /\ holder'[r] = holder[r] /\ attempts'[r] = attempts[r] /\ occ'[r] = occ[r]
            /\ served[r] => served'[r]
      /\ delivered' \subseteq delivered \cup {s} /\ dead' \subseteq dead \cup {s}
      /\ UNCHANGED <<rows, cancelled>>
      /\ delivered' = delivered \/ dead' = dead
  <2>1. CASE MarkDelivered(w)
    BY <1>3, <2>1, Zenon DEF TypeOK, MarkDelivered, Settle, Release, ghostVars
  <2>2. CASE Reschedule(w)
    <3>1. PICK d \in 1..Period : Advance(s, d)
      BY <2>2, Zenon DEF Reschedule
    <3>2. holder'[s] = None /\ \A r \in Schedules \ {s} :
              holder'[r] = holder[r] /\ attempts'[r] = attempts[r] /\ occ'[r] = occ[r]
      BY <1>3, <3>1, Zenon DEF TypeOK, Advance, Realign, Release
    <3>3. \A r \in Schedules \ {s} : served'[r] = served[r]
      BY <1>3, <3>1, Zenon DEF TypeOK, Advance, Realign
    <3> QED
      BY <2>2, <3>2, <3>3, Zenon DEF Reschedule, Settle
  <2>3. CASE MarkFailed(w)
    BY <1>3, <2>3, ZenonT(60) DEF TypeOK, MarkFailed, Settle, ghostVars
  <2>4. CASE MarkDeadLettered(w)
    BY <1>3, <2>4, Zenon DEF TypeOK, MarkDeadLettered, Settle, Release, ghostVars
  <2> QED
    BY <2>1, <2>2, <2>3, <2>4, Zenon
<1>8. s \in dead' => attempts'[s] = MaxAttempts
  <2>1. CASE MarkDeadLettered(w)
    <3>1. attempts' = attempts /\ cur[w].attempts >= MaxAttempts
      BY <2>1, Zenon DEF MarkDeadLettered, Exhausted
    <3> QED
      <4>1. cur[w].attempts \in 1..MaxAttempts /\ attempts'[s] = cur[w].attempts
        BY <1>3, <1>4, <3>1, Zenon DEF Claim
      <4> QED
        BY <3>1, <4>1, SchedulerConstants
  <2>2. CASE ~MarkDeadLettered(w)
    BY <1>4, <2>2, Zenon DEF MarkDelivered, Reschedule, MarkFailed, Live
  <2> QED
    BY <2>1, <2>2, Zenon
<1> HIDE DEF s
<1>9. FenceNamesClaim' /\ OkWasServed'
  <2>1. \A r \in Schedules \ {s} : Live(r) => Live(r)'
    BY <1>7, Zenon DEF Live
  <2> QED
    BY <1>1, <1>3, <1>5, <1>6, <1>7, <2>1, FenceOfOthers, Zenon
<1>10. OneOutcome' /\ DeadIsSpent'
  BY <1>4, <1>7, <1>8 DEF OneOutcome, DeadIsSpent, Live, TypeOK
<1> QED
  BY <1>1, <1>5, <1>9, <1>10, Zenon

\* A command that changes a row: it releases the row, or a resume(None) of the
\* in-memory store leaves it leased at the same occurrence.
LEMMA LedgerOperator ==
    ASSUME LedgerInv,
           (\E s \in Schedules : Cancel(s) \/ Replay(s)) \/ ResumeApplies
    PROVE  LedgerInv'
<1> USE DEF LedgerInv
<1>1. TypeOK'
  BY TypeOperator, Zenon DEF OperatorStep
<1>2. UNCHANGED <<rows, delivered, pc, todo, cur, outcome>>
  BY Zenon DEF Cancel, Replay, ResumeApplies, Command, workerVars
<1>3. WorkerShape'
  BY <1>2, Zenon DEF WorkerShape
<1>4. \A w \in Workers : InFlight(w)' = InFlight(w)
  BY <1>2, Zenon DEF InFlight
<1>5. ASSUME NEW s \in Schedules, Cancel(s) PROVE LedgerInv'
  <2>1. /\ Live(s) /\ cancelled' = cancelled \cup {s} /\ UNCHANGED <<attempts, occ, served, dead>>
        /\ \A r \in Schedules : holder'[r] = IF r = s THEN None ELSE holder[r]
    BY <1>5, Zenon DEF Cancel, Release, ghostVars
  <2>2. \A r \in Schedules \ {s} : Live(r) => Live(r)'
    BY <1>2, <2>1, Zenon DEF Live
  <2>3. FenceNamesClaim' /\ OkWasServed'
    BY <1>1, <1>2, <1>3, <1>4, <2>1, <2>2, FenceOfOthers, Zenon
  <2> QED
    BY <1>1, <1>2, <1>3, <2>1, <2>3, Zenon DEF OneOutcome, DeadIsSpent, Live
<1>6. ASSUME NEW s \in Schedules, NEW d \in Nat, Advance(s, d)
      PROVE  /\ holder'[s] = None
             /\ \A r \in Schedules \ {s} :
                   /\ holder'[r] = holder[r] /\ attempts'[r] = attempts[r] /\ occ'[r] = occ[r]
                   /\ served[r] => served'[r]
  <2>1. holder'[s] = None /\ \A r \in Schedules \ {s} :
            holder'[r] = holder[r] /\ attempts'[r] = attempts[r] /\ occ'[r] = occ[r]
    BY <1>6, Zenon DEF TypeOK, Advance, Realign, Release
  <2>2. \A r \in Schedules \ {s} : served'[r] = served[r]
    BY <1>6, Zenon DEF TypeOK, Advance, Realign
  <2> QED
    BY <2>1, <2>2, Zenon
<1>7. ASSUME NEW s \in Schedules, Replay(s) PROVE LedgerInv'
  <2>1. dead' = dead \ {s} /\ Advance(s, 0) /\ UNCHANGED cancelled
    BY <1>7, Zenon DEF Replay
  <2>2. \A r \in Schedules \ {s} : Live(r) => Live(r)'
    BY <1>2, <2>1, Zenon DEF Live
  <2>3. FenceNamesClaim' /\ OkWasServed'
    BY <1>1, <1>2, <1>3, <1>4, <1>6, <2>1, <2>2, FenceOfOthers, Zenon
  <2> QED
    BY <1>1, <1>2, <1>3, <1>6, <2>1, <2>3, ZenonT(60) DEF OneOutcome, DeadIsSpent, TypeOK
<1>8. CASE ResumeApplies
  <2> DEFINE s == op.sched
  <2>1. s \in Schedules /\ op.wait \in Nat /\ UNCHANGED <<cancelled, dead>>
    BY <1>8, Zenon DEF TypeOK, ResumeApplies, Resumption
  <2>2. \A r \in Schedules : Live(r)' <=> Live(r)
    BY <1>2, <2>1, ZenonT(60) DEF Live
  <2>3. CASE Live(s) /\ s \in paused /\ op.next
    <3>1. Realign(s, op.wait) /\ Release({s})
      BY <1>8, <2>3, Zenon DEF ResumeApplies, ResumeReleases
    <3>2. Advance(s, op.wait)
      BY <3>1, Zenon DEF Advance
    <3>3. FenceNamesClaim' /\ OkWasServed'
      BY <1>1, <1>2, <1>3, <1>4, <1>6, <2>1, <2>2, <3>2, FenceOfOthers, Zenon
    <3>4. OneOutcome'
      BY <1>2, <2>1, Zenon DEF OneOutcome
    <3>5. \A r \in dead : r \in Schedules /\ r # s
      BY <2>3, Zenon DEF TypeOK, Live
    <3>6. \A r \in Schedules \ {s} : attempts'[r] = attempts[r]
      BY <1>6, <2>1, <3>2, Zenon
    <3>7. DeadIsSpent'
      BY <2>1, <3>5, <3>6, Zenon DEF DeadIsSpent
    <3> QED
      BY <1>1, <1>3, <3>3, <3>4, <3>7, Zenon
  <2>4. CASE ~(Live(s) /\ s \in paused /\ op.next)
    <3>1. /\ UNCHANGED <<attempts, occ, served>>
          /\ \A r \in Schedules : holder'[r] = None \/ holder'[r] = holder[r]
      BY <1>8, <2>4, Zenon DEF ResumeApplies, Release, ghostVars
    <3>2. FenceNamesClaim' /\ OkWasServed'
      BY <1>1, <1>2, <1>3, <1>4, <2>2, <3>1, FenceFrame, Zenon
    <3> QED
      BY <1>1, <1>2, <1>3, <2>1, <3>1, <3>2, Zenon DEF OneOutcome, DeadIsSpent
  <2> QED
    BY <2>3, <2>4, Zenon
<1> QED
  BY <1>5, <1>7, <1>8, Zenon

LEMMA LedgerStep ==
    ASSUME LedgerInv, [Next]_vars
    PROVE  LedgerInv'
<1>1. ASSUME NEW w \in Workers, WorkerStep(w) PROVE LedgerInv'
  BY <1>1, LedgerSweep, LedgerClaim, LedgerSinkReturns, LedgerAck, LedgerQuietSteps, Zenon
     DEF WorkerStep, Acknowledge
<1>2. CASE OperatorStep
  BY <1>2, LedgerOperator, LedgerAmbient, Zenon DEF OperatorStep
<1>3. CASE Tick \/ \E s \in Schedules : Insert(s)
  BY <1>3, LedgerAmbient, ZenonT(60)
<1>4. CASE UNCHANGED vars
  BY <1>4 DEF vars, rowVars, flagVars, workerVars, opVars, ghostVars, LedgerInv, TypeOK,
     WorkerShape, FenceNamesClaim, OneOutcome, DeadIsSpent, OkWasServed, InFlight, Live
<1> QED
  BY <1>1, <1>2, <1>3, <1>4, Zenon DEF Next

\* The inductive invariant holds for every instance of the scheduler.
THEOREM Ledger == Spec => []LedgerInv
BY LedgerInit, LedgerStep, PTL DEF Spec

\* An acknowledgement that finds its lease settles the occurrence and the
\* attempt that were dispatched, whatever operators and other workers did.
THEOREM FenceIsExact == Spec => []FenceNamesClaim
<1>1. LedgerInv => FenceNamesClaim
  BY Zenon DEF LedgerInv
<1> QED
  BY <1>1, Ledger, PTL

\* Neither a worker nor the sweep dead-letters a schedule with budget left.
THEOREM BudgetBeforeBurial == Spec => []DeadIsSpent
<1>1. LedgerInv => DeadIsSpent
  BY Zenon DEF LedgerInv
<1> QED
  BY <1>1, Ledger, PTL

-----------------------------------------------------------------------------
(* What no step may do.                                                    *)

\* A step keeps every outcome, but for the replay of a dead letter.
LEMMA OutcomeStep ==
    ASSUME LedgerInv, [Next]_vars
    PROVE  /\ delivered \subseteq delivered' /\ cancelled \subseteq cancelled'
           /\ \A s \in dead \ dead' : Replay(s)
<1>1. ASSUME NEW w \in Workers, WorkerStep(w)
      PROVE  /\ delivered \subseteq delivered' /\ cancelled \subseteq cancelled'
             /\ dead \subseteq dead'
  <2>1. CASE Sweep(w) \/ ClaimDue(w) \/ ClaimLost(w) \/ ClaimFails(w)
    BY <2>1, Zenon DEF Sweep, ClaimDue, ClaimLost, ClaimFails, ClaimRows, rowVars, flagVars
  <2>2. CASE \/ SkipElapsed(w) \/ StartDispatch(w) \/ DispatchTimesOut(w) \/ EndCycle(w)
             \/ \E result \in {"ok", "err"} : SinkReturns(w, result)
             \/ Crash(w) \/ Restart(w)
    BY <2>2, Zenon DEF SkipElapsed, StartDispatch, DispatchTimesOut, EndCycle, SinkReturns, Crash, Restart,
       rowVars, flagVars
  <2>3. CASE Acknowledge(w)
    BY <2>3, Zenon DEF Acknowledge, MarkDelivered, Reschedule, MarkFailed, MarkDeadLettered, AckRefused,
       AckFails, Settle
  <2> QED
    BY <1>1, <2>1, <2>2, <2>3, Zenon DEF WorkerStep
<1>2. ASSUME NEW s \in Schedules, Cancel(s) \/ Pause(s) \/ ResumeInspects(s)
      PROVE  /\ delivered \subseteq delivered' /\ cancelled \subseteq cancelled'
             /\ dead \subseteq dead'
  BY <1>2, Zenon DEF Cancel, Pause, ResumeInspects, rowVars, flagVars
<1>3. ASSUME NEW s \in Schedules, Replay(s)
      PROVE  /\ delivered \subseteq delivered' /\ cancelled \subseteq cancelled'
             /\ \A r \in dead \ dead' : Replay(r)
  <2>1. dead' = dead \ {s} /\ UNCHANGED <<delivered, cancelled>>
    BY <1>3, Zenon DEF Replay
  <2>2. \A r \in dead \ dead' : r = s
    BY <2>1, Zenon
  <2> QED
    BY <1>3, <2>1, <2>2, Zenon
<1>4. CASE ResumeApplies
  BY <1>4, Zenon DEF ResumeApplies
<1>5. CASE Tick \/ \E s \in Schedules : Insert(s)
  BY <1>5, Zenon DEF Tick, Insert, flagVars
<1>6. CASE UNCHANGED vars
  BY <1>6, Zenon DEF vars, rowVars, flagVars
<1> QED
  BY <1>1, <1>2, <1>3, <1>4, <1>5, <1>6, Zenon DEF Next, OperatorStep

\* Delivered and cancelled are final, dead-lettered is but for a replay, and
\* no schedule is two of them.
THEOREM OutcomesAreFinal == Spec => OutcomeIsFinal
<1> DEFINE Final ==
        /\ delivered \subseteq delivered' /\ cancelled \subseteq cancelled'
        /\ \A s \in dead \ dead' : Replay(s)
        /\ (delivered' \cap cancelled') \cup (delivered' \cap dead')
              \cup (cancelled' \cap dead') = {}
<1>1. LedgerInv /\ LedgerInv' /\ [Next]_vars => [Final]_vars
  BY OutcomeStep, Zenon DEF LedgerInv, OneOutcome
<1> QED
  BY <1>1, Ledger, PTL DEF Spec, OutcomeIsFinal

-----------------------------------------------------------------------------
(* The budget.                                                             *)

\* A step that leaves the batches and what was charged for them alone.
BatchesKept ==
    /\ UNCHANGED <<todo, occ, attempts, runs>> /\ rows \subseteq rows'
    /\ \A w \in Workers : cur'[w] \in {cur[w], None}

\* A step that moves s to its next occurrence.
MovedOn(s) ==
    /\ UNCHANGED <<rows, todo>>
    /\ occ'[s] = occ[s] + 1 /\ attempts'[s] = 0 /\ runs'[s] = 0
    /\ \A r \in Schedules \ {s} :
          occ'[r] = occ[r] /\ attempts'[r] = attempts[r] /\ runs'[r] = runs[r]
    /\ \A w \in Workers : cur'[w] \in {cur[w], None}

\* What a step can be, as far as the batches and the budget go.
LEMMA BatchSteps ==
    ASSUME LedgerInv, [Next]_vars
    PROVE  \/ BatchesKept \/ \E s \in Schedules : MovedOn(s)
           \/ \E w \in Workers :
                 ClaimDue(w) \/ ClaimLost(w) \/ SkipElapsed(w) \/ StartDispatch(w) \/ Crash(w)
<1> USE DEF LedgerInv
<1>0. /\ DOMAIN cur = Workers /\ DOMAIN occ = Schedules /\ DOMAIN attempts = Schedules
      /\ DOMAIN runs = Schedules
  BY Zenon DEF TypeOK
<1>1. ASSUME NEW s \in Schedules, NEW d, Realign(s, d), UNCHANGED <<rows, todo>>,
             \A w \in Workers : cur'[w] \in {cur[w], None}
      PROVE  MovedOn(s)
  BY <1>0, <1>1, Zenon DEF MovedOn, Realign
<1>2. ASSUME NEW w \in Workers, Settle(w)
      PROVE  UNCHANGED <<rows, todo>> /\ \A v \in Workers : cur'[v] \in {cur[v], None}
  BY <1>0, <1>2, Zenon DEF Settle
<1>3. ASSUME NEW w \in Workers, Acknowledge(w)
      PROVE  BatchesKept \/ \E s \in Schedules : MovedOn(s)
  <2>1. CASE Reschedule(w)
    <3>1. cur[w].sched \in Schedules
      <4>1. cur[w] # None /\ cur[w] \in Claim \cup {None}
        BY <2>1, Zenon DEF Reschedule, Settle, WorkerShape, TypeOK
      <4> QED
        BY <4>1, Zenon DEF Claim
    <3>2. PICK d \in 1..Period : Realign(cur[w].sched, d)
      BY <2>1, Zenon DEF Reschedule, Advance
    <3>3. Settle(w)
      BY <2>1, Zenon DEF Reschedule
    <3> QED
      BY <1>1, <1>2, <3>1, <3>2, <3>3, Zenon
  <2>2. CASE ~Reschedule(w)
    <3>1. Settle(w) /\ UNCHANGED <<occ, attempts, runs>>
      BY <1>3, <2>2, Zenon DEF Acknowledge, MarkDelivered, MarkFailed, MarkDeadLettered, AckRefused,
         AckFails, ghostVars
    <3> QED
      BY <1>2, <3>1, Zenon DEF BatchesKept
  <2> QED
    BY <2>1, <2>2, Zenon
<1>4. ASSUME NEW w \in Workers,
             \/ Sweep(w) \/ ClaimFails(w) \/ DispatchTimesOut(w) \/ EndCycle(w) \/ Restart(w)
             \/ \E result \in {"ok", "err"} : SinkReturns(w, result)
      PROVE  BatchesKept
  BY <1>4, Zenon DEF BatchesKept, Sweep, ClaimFails, DispatchTimesOut, EndCycle, Restart, SinkReturns,
     rowVars, ghostVars
<1>5. CASE OperatorStep
  <2>1. UNCHANGED <<rows, todo, cur>>
    BY <1>5, Zenon DEF OperatorStep, Cancel, Pause, ResumeInspects, Replay, ResumeApplies, Command,
       workerVars, rowVars
  <2>2. ASSUME NEW s \in Schedules, Cancel(s) \/ Pause(s) \/ ResumeInspects(s)
        PROVE  BatchesKept
    BY <2>1, <2>2, Zenon DEF BatchesKept, Cancel, Pause, ResumeInspects, rowVars, ghostVars
  <2>3. ASSUME NEW s \in Schedules, Replay(s) PROVE MovedOn(s)
    BY <1>1, <2>1, <2>3, Zenon DEF Replay, Advance
  <2>4. CASE ResumeApplies
    <3>1. op.sched \in Schedules
      BY <2>4, Zenon DEF ResumeApplies, TypeOK, Resumption
    <3>2. CASE Realign(op.sched, op.wait)
      BY <1>1, <2>1, <3>1, <3>2, Zenon
    <3>3. CASE UNCHANGED <<occ, attempts, runs>>
      BY <2>1, <3>3, Zenon DEF BatchesKept
    <3> QED
      BY <2>4, <3>2, <3>3, Zenon DEF ResumeApplies, ghostVars
  <2> QED
    BY <1>5, <2>2, <2>3, <2>4, Zenon DEF OperatorStep
<1>6. CASE Tick \/ (\E s \in Schedules : Insert(s)) \/ UNCHANGED vars
  BY <1>6, Zenon DEF BatchesKept, Tick, Insert, vars, rowVars, workerVars, ghostVars
<1> QED
  BY <1>3, <1>4, <1>5, <1>6, Zenon DEF Next, WorkerStep

\* The claims of a worker are claims, and a claim is what its fields are.
LEMMA ClaimFacts ==
    ASSUME TypeOK
    PROVE  /\ \A w \in Workers : todo[w] \subseteq InFlight(w) /\ InFlight(w) \subseteq Claim
           /\ \A c, d \in Claim :
                 c.sched = d.sched /\ c.occ = d.occ /\ c.attempts = d.attempts => c = d
           /\ \A c \in Claim : c.sched \in Schedules /\ c.occ \in Nat /\ c.attempts \in 1..MaxAttempts
           /\ \A s \in Schedules : occ[s] \in Nat /\ attempts[s] \in 0..MaxAttempts /\ runs[s] \in Nat
<1>1. \A w \in Workers : todo[w] \subseteq Claim /\ cur[w] \in Claim \cup {None}
  BY Zenon DEF TypeOK
<1>2. \A c, d \in Claim :
         c.sched = d.sched /\ c.occ = d.occ /\ c.attempts = d.attempts => c = d
  BY DEF Claim
<1>3. \A c \in Claim : c.sched \in Schedules /\ c.occ \in Nat /\ c.attempts \in 1..MaxAttempts
  BY Zenon DEF Claim
<1>4. \A s \in Schedules : occ[s] \in Nat /\ attempts[s] \in 0..MaxAttempts /\ runs[s] \in Nat
  BY Zenon DEF TypeOK
<1> QED
  BY <1>1, <1>2, <1>3, <1>4, Zenon DEF InFlight

\* The batches stay charged through a step that hands out no claim and moves
\* the occurrence and the attempts of a schedule only forward.
LEMMA ClaimsFrame ==
    ASSUME TypeOK, TypeOK', ClaimsAreCharged, rows \subseteq rows',
           \A w \in Workers :
              /\ todo'[w] \subseteq todo[w] /\ InFlight(w)' \subseteq InFlight(w)
              /\ cur'[w] \notin todo'[w],
           \A s \in Schedules :
              \/ occ'[s] = occ[s] /\ attempts[s] <= attempts'[s]
              \/ occ'[s] > occ[s]
    PROVE  ClaimsAreCharged'
<1>1. ASSUME NEW w \in Workers, NEW c \in InFlight(w)'
      PROVE  /\ c.sched \in rows' /\ c.occ <= occ'[c.sched]
             /\ c.occ = occ'[c.sched] => c.attempts <= attempts'[c.sched]
  <2>1. c \in Claim /\ c.sched \in Schedules /\ c.occ \in Nat /\ c.attempts \in Nat
    BY <1>1, ClaimFacts DEF InFlight
  <2>2. /\ c.sched \in rows /\ c.occ <= occ[c.sched]
        /\ c.occ = occ[c.sched] => c.attempts <= attempts[c.sched]
    BY <1>1, ZenonT(60) DEF ClaimsAreCharged
  <2>3. /\ occ[c.sched] \in Nat /\ attempts[c.sched] \in Nat
        /\ occ'[c.sched] \in Nat /\ attempts'[c.sched] \in Nat
    BY <2>1 DEF TypeOK
  <2> QED
    BY <2>1, <2>2, <2>3
<1> QED
  BY <1>1, ZenonT(60) DEF ClaimsAreCharged

\* What a claim adds is new: no batch holds an attempt beyond those charged.
LEMMA ClaimsOfClaimDue ==
    ASSUME LedgerInv, LedgerInv', ClaimsAreCharged, NEW w \in Workers, ClaimDue(w)
    PROVE  ClaimsAreCharged'
<1> USE DEF LedgerInv
<1>1. PICK batch \in SUBSET rows :
         /\ ClaimRows(w, batch)
         /\ todo' = [todo EXCEPT ![w] =
                       {[sched |-> s, occ |-> occ[s], attempts |-> attempts'[s]] : s \in batch}]
  BY Zenon DEF ClaimDue
<1>2. /\ UNCHANGED <<rows, occ, cur>> /\ cur[w] = None
      /\ \A s \in Schedules : attempts'[s] = IF s \in batch THEN attempts[s] + 1 ELSE attempts[s]
  BY <1>1, Zenon DEF ClaimDue, ClaimRows, ClaimedAttempts, WorkerShape
<1>3. /\ \A c \in todo'[w] : /\ c.sched \in rows /\ c.sched \in batch /\ c.occ = occ[c.sched]
                             /\ c.attempts = attempts'[c.sched]
      /\ \A v \in Workers \ {w} : todo'[v] = todo[v] /\ InFlight(v)' = InFlight(v)
      /\ InFlight(w)' = todo'[w]
  <2>1. DOMAIN todo = Workers
    BY Zenon DEF TypeOK
  <2>2. todo'[w] = {[sched |-> s, occ |-> occ[s], attempts |-> attempts'[s]] : s \in batch}
    BY <1>1, <2>1, Zenon
  <2>3. \A c \in todo'[w] : /\ c.sched \in rows /\ c.sched \in batch /\ c.occ = occ[c.sched]
                            /\ c.attempts = attempts'[c.sched]
    BY <2>2
  <2>4. \A v \in Workers \ {w} : todo'[v] = todo[v]
    BY <1>1, <2>1, Zenon
  <2> QED
    BY <1>2, <2>3, <2>4, Zenon DEF InFlight
<1>4. ASSUME NEW v \in Workers, NEW c \in InFlight(v)'
      PROVE  /\ c.sched \in rows' /\ c.occ <= occ'[c.sched]
             /\ c.occ = occ'[c.sched] => c.attempts <= attempts'[c.sched]
  <2>1. c \in Claim /\ c.sched \in Schedules /\ c.occ \in Nat /\ c.attempts \in Nat
    <3>1. c \in Claim
      BY <1>4, Zenon DEF TypeOK, InFlight
    <3>2. c.sched \in Schedules /\ c.occ \in Nat /\ c.attempts \in 1..MaxAttempts
      BY <3>1, ClaimFacts, Zenon
    <3> QED
      BY <3>1, <3>2
  <2>2. attempts[c.sched] \in Nat /\ attempts'[c.sched] \in Nat /\ occ[c.sched] \in Nat
    BY <2>1, CountsAreNatural, ZenonT(60) DEF TypeOK
  <2>3. CASE v = w
    BY <1>2, <1>3, <1>4, <2>1, <2>2, <2>3
  <2>4. CASE v # w
    <3>1. /\ c.sched \in rows /\ c.occ <= occ[c.sched]
          /\ c.occ = occ[c.sched] => c.attempts <= attempts[c.sched]
      BY <1>3, <1>4, <2>4, ZenonT(60) DEF ClaimsAreCharged
    <3> QED
      BY <1>2, <2>1, <2>2, <3>1
  <2> QED
    BY <2>3, <2>4, ZenonT(60)
<1>5. ASSUME NEW v \in Workers \ {w}, NEW c \in todo'[w] PROVE c \notin todo'[v]
  <2> SUFFICES ASSUME c \in todo[v] PROVE FALSE
    BY <1>3, <1>5, Zenon
  <2>1. c \in Claim /\ c \in InFlight(v) /\ c.sched \in Schedules /\ c.attempts \in Nat
    BY ClaimFacts
  <2>2. c.attempts = attempts[c.sched] + 1 /\ c.occ = occ[c.sched]
    BY <1>2, <1>3, <1>5, <2>1, Zenon
  <2>3. c.attempts <= attempts[c.sched]
    BY <2>1, <2>2, ZenonT(60) DEF ClaimsAreCharged
  <2>4. attempts[c.sched] \in Nat
    BY <2>1 DEF TypeOK
  <2> QED
    BY <2>1, <2>2, <2>3, <2>4
<1>6. \A v \in Workers : cur'[v] \notin todo'[v]
  <2>1. None \notin todo'[w]
    BY NoneIsNothing, Zenon DEF TypeOK
  <2> QED
    BY <1>2, <1>3, <2>1, Zenon DEF ClaimsAreCharged
<1>7. \A u, v \in Workers : u # v => todo'[u] \cap todo'[v] = {}
  <2> SUFFICES ASSUME NEW u \in Workers, NEW v \in Workers, u # v
               PROVE  todo'[u] \cap todo'[v] = {}
    BY Zenon
  <2>1. CASE u = w
    BY <1>5, <2>1, Zenon
  <2>2. CASE v = w
    BY <1>5, <2>2, Zenon
  <2>3. CASE u # w /\ v # w
    BY <1>3, <2>3, Zenon DEF ClaimsAreCharged
  <2> QED
    BY <2>1, <2>2, <2>3, Zenon
<1> QED
  BY <1>4, <1>6, <1>7, Zenon DEF ClaimsAreCharged

\* Every step keeps the batches charged.
LEMMA ClaimsStep ==
    ASSUME LedgerInv, LedgerInv', ClaimsAreCharged, [Next]_vars
    PROVE  ClaimsAreCharged'
<1> USE DEF LedgerInv
<1>1. TypeOK /\ TypeOK' /\ None \notin Claim
  BY NoneIsNothing, Zenon
<1>2. /\ DOMAIN todo = Workers /\ DOMAIN cur = Workers
      /\ \A w \in Workers : None \notin todo[w] /\ None \notin todo'[w]
  BY <1>1, ZenonT(60) DEF TypeOK
<1>3. \A s \in Schedules : attempts[s] \in Nat /\ occ[s] \in Nat
  BY <1>1 DEF TypeOK
<1>4. CASE BatchesKept
  <2>1. \A w \in Workers :
           /\ todo'[w] \subseteq todo[w] /\ InFlight(w)' \subseteq InFlight(w)
           /\ cur'[w] \notin todo'[w]
    BY <1>2, <1>4, Zenon DEF BatchesKept, InFlight, ClaimsAreCharged
  <2>2. \A s \in Schedules : occ'[s] = occ[s] /\ attempts[s] <= attempts'[s]
    BY <1>3, <1>4 DEF BatchesKept
  <2> QED
    BY <1>1, <1>4, <2>1, <2>2, ClaimsFrame, Zenon DEF BatchesKept
<1>5. ASSUME NEW s \in Schedules, MovedOn(s) PROVE ClaimsAreCharged'
  <2>1. \A w \in Workers :
           /\ todo'[w] \subseteq todo[w] /\ InFlight(w)' \subseteq InFlight(w)
           /\ cur'[w] \notin todo'[w]
    BY <1>2, <1>5, Zenon DEF MovedOn, InFlight, ClaimsAreCharged
  <2>2. \A r \in Schedules :
           (occ'[r] = occ[r] /\ attempts[r] <= attempts'[r]) \/ occ'[r] > occ[r]
    BY <1>3, <1>5 DEF MovedOn
  <2> QED
    BY <1>1, <1>5, <2>1, <2>2, ClaimsFrame, Zenon DEF MovedOn
<1>6. ASSUME NEW w \in Workers, SkipElapsed(w) \/ StartDispatch(w) \/ Crash(w)
      PROVE  ClaimsAreCharged'
  <2>1. UNCHANGED <<rows, occ, attempts>>
    BY <1>6, Zenon DEF SkipElapsed, StartDispatch, Crash, rowVars
  <2>2. \A s \in Schedules : occ'[s] = occ[s] /\ attempts[s] <= attempts'[s]
    BY <1>3, <2>1
  <2>3. \A v \in Workers :
           /\ todo'[v] \subseteq todo[v] /\ InFlight(v)' \subseteq InFlight(v)
           /\ cur'[v] \notin todo'[v]
    <3>1. CASE SkipElapsed(w)
      <4>1. PICK c \in todo[w] : todo' = [todo EXCEPT ![w] = @ \ {c}] /\ UNCHANGED cur
        BY <3>1, Zenon DEF SkipElapsed
      <4> QED
        BY <1>2, <4>1, Zenon DEF InFlight, ClaimsAreCharged
    <3>2. CASE StartDispatch(w)
      <4>1. PICK c \in todo[w] :
               todo' = [todo EXCEPT ![w] = @ \ {c}] /\ cur' = [cur EXCEPT ![w] = c]
        BY <3>2, Zenon DEF StartDispatch
      <4>2. /\ todo'[w] = todo[w] \ {c} /\ cur'[w] = c
            /\ \A v \in Workers \ {w} : todo'[v] = todo[v] /\ cur'[v] = cur[v]
        BY <1>2, <4>1, Zenon
      <4> QED
        BY <1>2, <4>1, <4>2, Zenon DEF InFlight, ClaimsAreCharged
    <3>3. CASE Crash(w)
      BY <1>2, <3>3, Zenon DEF InFlight, ClaimsAreCharged, Crash
    <3> QED
      BY <1>6, <3>1, <3>2, <3>3, Zenon
  <2> QED
    BY <1>1, <2>1, <2>2, <2>3, ClaimsFrame, Zenon
<1>7. ASSUME NEW w \in Workers, ClaimLost(w) PROVE ClaimsAreCharged'
  <2>1. PICK batch \in SUBSET rows : ClaimRows(w, batch) /\ UNCHANGED todo
    BY <1>7, Zenon DEF ClaimLost
  <2>2. UNCHANGED <<rows, occ, cur>>
    BY <2>1, Zenon DEF ClaimRows
  <2>3. \A s \in Schedules : attempts'[s] \in {attempts[s], attempts[s] + 1}
    BY <2>1, Zenon DEF ClaimRows, ClaimedAttempts
  <2>4. \A s \in Schedules : occ'[s] = occ[s] /\ attempts[s] <= attempts'[s]
    BY <1>3, <2>2, <2>3
  <2>5. \A v \in Workers :
           /\ todo'[v] \subseteq todo[v] /\ InFlight(v)' \subseteq InFlight(v)
           /\ cur'[v] \notin todo'[v]
    BY <2>1, <2>2, Zenon DEF InFlight, ClaimsAreCharged
  <2> QED
    BY <1>1, <2>2, <2>4, <2>5, ClaimsFrame, Zenon
<1> QED
  BY <1>4, <1>5, <1>6, <1>7, BatchSteps, ClaimsOfClaimDue, Zenon

\* Only so many attempts of an occurrence can be waiting.
LEMMA PendingFacts ==
    ASSUME NEW s \in Schedules
    PROVE  IsFiniteSet(Pending(s)) /\ Cardinality(Pending(s)) \in Nat
<1>1. IsFiniteSet(1..MaxAttempts)
  BY FS_Interval, SchedulerConstants
<1>2. Pending(s) \subseteq 1..MaxAttempts
  BY Zenon DEF Pending
<1> QED
  BY <1>1, <1>2, FS_Subset, FS_CardinalityType, Zenon

\* Whose attempts count as waiting.
LEMMA PendingIs ==
    ASSUME TypeOK, NEW s \in Schedules, NEW n
    PROVE  n \in Pending(s) <=>
             \E w \in Workers : \E c \in todo[w] : c.sched = s /\ c.occ = occ[s] /\ c.attempts = n
BY ClaimFacts, Zenon DEF Pending

\* Where no batch and no occurrence changes, no attempt starts or stops waiting.
LEMMA PendingFrame ==
    ASSUME NEW s \in Schedules, UNCHANGED todo, occ'[s] = occ[s]
    PROVE  Pending(s)' = Pending(s)
BY Zenon DEF Pending

\* A claim taken out of its batch is one attempt less, of its own occurrence.
LEMMA PendingLoses ==
    ASSUME TypeOK, TypeOK', ClaimsAreCharged, NEW w \in Workers, NEW c \in todo[w],
           todo' = [todo EXCEPT ![w] = @ \ {c}], UNCHANGED occ, NEW s \in Schedules
    PROVE  /\ c.sched = s /\ c.occ = occ[s]
                => Cardinality(Pending(s)') = Cardinality(Pending(s)) - 1
           /\ ~(c.sched = s /\ c.occ = occ[s]) => Pending(s)' = Pending(s)
<1>1. /\ todo'[w] = todo[w] \ {c}
      /\ \A v \in Workers \ {w} : todo'[v] = todo[v] /\ c \notin todo[v]
  <2>1. DOMAIN todo = Workers
    BY Zenon DEF TypeOK
  <2> QED
    BY <2>1, Zenon DEF ClaimsAreCharged
<1>2. \A v \in Workers : todo'[v] = todo[v] \ {c}
  BY <1>1, Zenon
<1>3. ASSUME NEW n
      PROVE  n \in Pending(s)' <=>
               \E v \in Workers : \E d \in todo[v] \ {c} :
                  d.sched = s /\ d.occ = occ[s] /\ d.attempts = n
  <2>1. n \in Pending(s)' <=>
          \E v \in Workers : \E d \in todo'[v] :
             d.sched = s /\ d.occ = occ'[s] /\ d.attempts = n
    <3>1. \A v \in Workers : \A d \in todo'[v] : d.attempts \in 1..MaxAttempts
      BY ZenonT(60) DEF TypeOK, Claim
    <3> QED
      BY <3>1, Zenon DEF Pending
  <2> QED
    BY <1>2, <2>1, Zenon
<1>4. CASE c.sched = s /\ c.occ = occ[s]
  <2>1. c.attempts \in Pending(s)
    BY <1>4, PendingIs, Zenon
  <2>2. \A v \in Workers : \A d \in todo[v] :
           d.sched = s /\ d.occ = occ[s] => (d = c <=> d.attempts = c.attempts)
    BY <1>4, ClaimFacts, Zenon
  <2>3. ASSUME NEW n PROVE n \in Pending(s)' <=> n \in Pending(s) /\ n # c.attempts
    <3>1. n \in Pending(s) <=>
            \E v \in Workers : \E d \in todo[v] :
               d.sched = s /\ d.occ = occ[s] /\ d.attempts = n
      BY PendingIs
    <3> QED
      BY <1>3, <2>2, <3>1, Zenon
  <2>4. Pending(s)' = Pending(s) \ {c.attempts}
    BY <2>3, Zenon
  <2>5. Cardinality(Pending(s) \ {c.attempts}) = Cardinality(Pending(s)) - 1
    BY <2>1, PendingFacts, FS_RemoveElement, Zenon
  <2> QED
    BY <1>4, <2>4, <2>5, Zenon
<1>5. CASE ~(c.sched = s /\ c.occ = occ[s])
  <2>1. ASSUME NEW n PROVE n \in Pending(s)' <=> n \in Pending(s)
    <3>1. n \in Pending(s) <=>
            \E v \in Workers : \E d \in todo[v] :
               d.sched = s /\ d.occ = occ[s] /\ d.attempts = n
      BY PendingIs
    <3> QED
      BY <1>3, <1>5, <3>1, Zenon
  <2> QED
    BY <1>5, <2>1, Zenon
<1> QED
  BY <1>4, <1>5, Zenon

\* A claim is one attempt more, for each schedule of its batch.
LEMMA PendingGains ==
    ASSUME LedgerInv, LedgerInv', ClaimsAreCharged, NEW w \in Workers, ClaimDue(w),
           NEW s \in Schedules
    PROVE  \/ attempts'[s] = attempts[s] /\ Pending(s)' = Pending(s)
           \/ /\ attempts'[s] = attempts[s] + 1
              /\ Cardinality(Pending(s)') = Cardinality(Pending(s)) + 1
<1> USE DEF LedgerInv
<1>1. PICK batch \in SUBSET rows :
         /\ ClaimRows(w, batch)
         /\ todo' = [todo EXCEPT ![w] =
                       {[sched |-> r, occ |-> occ[r], attempts |-> attempts'[r]] : r \in batch}]
  BY Zenon DEF ClaimDue
<1>2. /\ UNCHANGED occ /\ todo[w] = {} /\ DOMAIN todo = Workers
      /\ attempts'[s] = IF s \in batch THEN attempts[s] + 1 ELSE attempts[s]
  BY <1>1, ZenonT(60) DEF ClaimDue, ClaimRows, ClaimedAttempts, WorkerShape, TypeOK
<1>3. /\ todo'[w] = {[sched |-> r, occ |-> occ[r], attempts |-> attempts'[r]] : r \in batch}
      /\ \A v \in Workers \ {w} : todo'[v] = todo[v]
  BY <1>1, <1>2, Zenon
<1>4. ASSUME NEW n
      PROVE  n \in Pending(s)' <=> n \in Pending(s) \/ (s \in batch /\ n = attempts'[s])
  <2>1. n \in Pending(s)' <=>
          \E v \in Workers : \E d \in todo'[v] :
             d.sched = s /\ d.occ = occ[s] /\ d.attempts = n
    <3>1. TypeOK'
      BY Zenon
    <3>2. \A v \in Workers : \A d \in todo'[v] : d.attempts \in 1..MaxAttempts
      BY <3>1, ClaimFacts, ZenonT(60) DEF TypeOK, Claim
    <3> QED
      BY <1>2, <3>2, ZenonT(60) DEF Pending
  <2>2. (\E d \in todo'[w] : d.sched = s /\ d.occ = occ[s] /\ d.attempts = n)
        <=> s \in batch /\ n = attempts'[s]
    <3> DEFINE R(r) == [sched |-> r, occ |-> occ[r], attempts |-> attempts'[r]]
    <3>1. \A r : R(r).sched = r /\ R(r).occ = occ[r] /\ R(r).attempts = attempts'[r]
      BY Zenon
    <3>2. todo'[w] = {R(r) : r \in batch}
      BY <1>3, Zenon
    <3> HIDE DEF R
    <3> QED
      BY <3>1, <3>2
  <2>3. n \in Pending(s) <=>
          \E v \in Workers \ {w} : \E d \in todo[v] :
             d.sched = s /\ d.occ = occ[s] /\ d.attempts = n
    <3>1. n \in Pending(s) <=>
            \E v \in Workers : \E d \in todo[v] :
               d.sched = s /\ d.occ = occ[s] /\ d.attempts = n
      BY PendingIs
    <3> QED
      BY <1>2, <3>1, Zenon
  <2> QED
    BY <1>3, <2>1, <2>2, <2>3, Zenon
<1>5. CASE s \in batch
  <2>1. attempts'[s] = attempts[s] + 1 /\ attempts[s] \in Nat
    BY <1>2, <1>5, CountsAreNatural, ZenonT(60) DEF TypeOK
  <2>2. \A n \in Pending(s) : n \in Nat /\ n <= attempts[s]
    <3> SUFFICES ASSUME NEW n \in Pending(s) PROVE n \in Nat /\ n <= attempts[s]
      BY Zenon
    <3>0. n \in Pending(s) <=>
            \E v \in Workers : \E d \in todo[v] : d.sched = s /\ d.occ = occ[s] /\ d.attempts = n
      BY PendingIs
    <3>1. PICK v \in Workers : \E d \in todo[v] : d.sched = s /\ d.occ = occ[s] /\ d.attempts = n
      BY <3>0, Zenon
    <3>2. PICK d \in todo[v] : d.sched = s /\ d.occ = occ[s] /\ d.attempts = n
      BY <3>1, Zenon
    <3>3. d \in InFlight(v) /\ d.attempts \in 1..MaxAttempts
      BY ClaimFacts, Zenon
    <3>4. d.attempts <= attempts[s]
      BY <3>2, <3>3, Zenon DEF ClaimsAreCharged
    <3> QED
      BY <3>2, <3>3, <3>4
  <2>3. attempts'[s] \notin Pending(s)
    BY <2>1, <2>2
  <2>4. Pending(s)' = Pending(s) \cup {attempts'[s]}
    BY <1>4, <1>5, Zenon
  <2> QED
    BY <2>1, <2>3, <2>4, PendingFacts, FS_AddElement, ZenonT(60)
<1>6. CASE s \notin batch
  <2>1. \A n : n \in Pending(s)' <=> n \in Pending(s)
    BY <1>4, <1>6, Zenon
  <2>2. Pending(s)' = Pending(s)
    BY <2>1, Zenon
  <2> QED
    BY <1>2, <1>6, <2>2, Zenon
<1> QED
  BY <1>5, <1>6, Zenon

\* No attempt at the next occurrence can be waiting already.
LEMMA MovedOnIsFresh ==
    ASSUME TypeOK, ClaimsAreCharged, NEW s \in Schedules, MovedOn(s)
    PROVE  Pending(s)' = {}
<1>1. \A w \in Workers : \A c \in todo'[w] : c.sched = s => c.occ # occ'[s]
  <2> SUFFICES ASSUME NEW w \in Workers, NEW c \in todo[w], c.sched = s
               PROVE  c.occ # occ[s] + 1
    BY Zenon DEF MovedOn
  <2>1. c.occ \in Nat /\ occ[s] \in Nat /\ c \in InFlight(w)
    BY ClaimFacts, Zenon
  <2>2. c.occ <= occ[s]
    BY <2>1, Zenon DEF ClaimsAreCharged
  <2> QED
    BY <2>1, <2>2
<1> QED
  BY <1>1, Zenon DEF Pending

\* An attempt is only ever lost, and by nothing but a claim whose reply is, a
\* claim skipped because its lease looks elapsed, and a crash.
LEMMA LossStep ==
    ASSUME LedgerInv, LedgerInv', ClaimsAreCharged, [Next]_vars, NEW s \in Schedules
    PROVE  /\ Lost(s)' >= Lost(s) \/ Lost(s)' = 0
           /\ \/ Lost(s)' = Lost(s) \/ Lost(s)' = 0
              \/ \E w \in Workers : ClaimLost(w) \/ SkipElapsed(w) \/ Crash(w)
<1> DEFINE P == Cardinality(Pending(s))
<1>1. TypeOK /\ TypeOK'
  BY Zenon DEF LedgerInv
<1>2. /\ attempts[s] \in Nat /\ runs[s] \in Nat /\ P \in Nat
      /\ attempts'[s] \in Nat /\ runs'[s] \in Nat
  BY <1>1, PendingFacts DEF TypeOK
<1>3. IsFiniteSet(Pending(s)) /\ IsFiniteSet(Pending(s)') /\ P' \in Nat
  <2>1. Pending(s)' \subseteq 1..MaxAttempts /\ IsFiniteSet(1..MaxAttempts)
    BY FS_Interval, SchedulerConstants DEF Pending
  <2> QED
    BY <2>1, PendingFacts, FS_Subset, FS_CardinalityType, Zenon
<1>4. Lost(s) = attempts[s] - runs[s] - P /\ Lost(s)' = attempts'[s] - runs'[s] - P'
  BY Zenon DEF Lost
<1> HIDE DEF P
<1>5. CASE BatchesKept
  <2>1. P' = P /\ attempts'[s] = attempts[s] /\ runs'[s] = runs[s]
    BY <1>5, PendingFrame, Zenon DEF BatchesKept, P
  <2> QED
    BY <1>2, <1>4, <2>1
<1>6. ASSUME NEW r \in Schedules, MovedOn(r)
      PROVE  Lost(s)' = Lost(s) \/ Lost(s)' = 0
  <2>1. CASE r # s
    <3>1. P' = P /\ attempts'[s] = attempts[s] /\ runs'[s] = runs[s]
      BY <1>6, <2>1, PendingFrame, Zenon DEF MovedOn, P
    <3> QED
      BY <1>4, <3>1, Zenon
  <2>2. CASE r = s
    <3>2. Pending(s)' = {}
      BY <1>1, <1>6, <2>2, MovedOnIsFresh, Zenon
    <3>3. P' = 0
      BY <3>2, FS_EmptySet, Zenon DEF P
    <3> QED
      BY <1>4, <1>6, <2>2, <3>3 DEF MovedOn
  <2> QED
    BY <2>1, <2>2, Zenon
<1>7. ASSUME NEW w \in Workers, ClaimDue(w) PROVE Lost(s)' = Lost(s)
  <2>1. \/ attempts'[s] = attempts[s] /\ P' = P
        \/ attempts'[s] = attempts[s] + 1 /\ P' = P + 1
    BY <1>7, PendingGains, Zenon DEF P
  <2>2. UNCHANGED runs
    BY <1>7, Zenon DEF ClaimDue, ClaimRows, ghostVars
  <2> QED
    BY <1>2, <1>4, <2>1, <2>2
<1>8. ASSUME NEW w \in Workers, ClaimLost(w) PROVE Lost(s)' >= Lost(s)
  <2>1. PICK batch \in SUBSET rows : ClaimRows(w, batch) /\ UNCHANGED todo
    BY <1>8, Zenon DEF ClaimLost
  <2>2. attempts'[s] \in {attempts[s], attempts[s] + 1} /\ UNCHANGED <<occ, runs>>
    BY <2>1, Zenon DEF ClaimRows, ClaimedAttempts, ghostVars
  <2>3. P' = P
    BY <2>1, <2>2, PendingFrame, ZenonT(60) DEF P
  <2> QED
    BY <1>2, <1>4, <2>2, <2>3
<1>9. ASSUME NEW w \in Workers, SkipElapsed(w) PROVE Lost(s)' >= Lost(s)
  <2>1. PICK c \in todo[w] : todo' = [todo EXCEPT ![w] = @ \ {c}]
    BY <1>9, Zenon DEF SkipElapsed
  <2>2. UNCHANGED <<occ, attempts, runs>>
    BY <1>9, Zenon DEF SkipElapsed, rowVars, ghostVars
  <2>3. P' = P - 1 \/ P' = P
    BY <1>1, <2>1, <2>2, PendingLoses, Zenon DEF P
  <2> QED
    BY <1>2, <1>4, <2>2, <2>3
<1>10. ASSUME NEW w \in Workers, StartDispatch(w) PROVE Lost(s)' = Lost(s)
  <2>1. PICK c \in todo[w] :
           /\ todo' = [todo EXCEPT ![w] = @ \ {c}]
           /\ runs' = IF c.occ = occ[c.sched] THEN [runs EXCEPT ![c.sched] = @ + 1] ELSE runs
    BY <1>10, Zenon DEF StartDispatch
  <2>2. UNCHANGED <<occ, attempts>> /\ DOMAIN runs = Schedules
    BY <1>1, <1>10, ZenonT(60) DEF StartDispatch, rowVars, TypeOK
  <2>3. CASE c.sched = s /\ c.occ = occ[s]
    <3>1. P' = P - 1 /\ runs'[s] = runs[s] + 1
      BY <1>1, <2>1, <2>2, <2>3, PendingLoses, Zenon DEF P
    <3> QED
      BY <1>2, <1>4, <2>2, <3>1
  <2>4. CASE ~(c.sched = s /\ c.occ = occ[s])
    <3>1. P' = P
      BY <1>1, <2>1, <2>2, <2>4, PendingLoses, Zenon DEF P
    <3>2. runs'[s] = runs[s]
      BY <2>1, <2>2, <2>4, Zenon
    <3> QED
      BY <1>2, <1>4, <2>2, <3>1, <3>2, Zenon
  <2> QED
    BY <2>3, <2>4, Zenon
<1>11. ASSUME NEW w \in Workers, Crash(w) PROVE Lost(s)' >= Lost(s)
  <2>1. UNCHANGED <<occ, attempts, runs>> /\ \A v \in Workers : todo'[v] \subseteq todo[v]
    BY <1>1, <1>11, ZenonT(60) DEF Crash, rowVars, ghostVars, TypeOK
  <2>2. Pending(s)' \subseteq Pending(s)
    BY <2>1, Zenon DEF Pending
  <2>3. P' <= P
    BY <1>3, <2>2, FS_Subset, Zenon DEF P
  <2> QED
    BY <1>2, <1>3, <1>4, <2>1, <2>3
<1>12. Lost(s) \in Int /\ Lost(s)' \in Int
  BY <1>2, <1>3, <1>4
<1>13. ASSUME Lost(s)' = Lost(s) PROVE Lost(s)' >= Lost(s)
  BY <1>12, <1>13
<1> QED
  BY <1>5, <1>6, <1>7, <1>8, <1>9, <1>10, <1>11, <1>13, BatchSteps, ZenonT(60)

LEMMA LostInit ==
    ASSUME Init, NEW s \in Schedules
    PROVE  Lost(s) = 0
<1>1. Pending(s) = {}
  BY Zenon DEF Pending, Init
<1>2. Cardinality(Pending(s)) = 0 /\ attempts[s] = 0 /\ runs[s] = 0
  BY <1>1, FS_EmptySet, Zenon DEF Init
<1> QED
  BY <1>2 DEF Lost

LEMMA BudgetInit == Init => BudgetInv
<1> SUFFICES ASSUME Init PROVE BudgetInv
  BY Zenon
<1>1. LedgerInv
  BY LedgerInit, Zenon
<1>2. \A w \in Workers : todo[w] = {} /\ cur[w] = None /\ InFlight(w) = {}
  BY Zenon DEF Init, InFlight
<1>3. ClaimsAreCharged
  BY <1>2, Zenon DEF ClaimsAreCharged
<1>4. \A s \in Schedules : Lost(s) >= 0
  BY LostInit
<1> QED
  BY <1>1, <1>3, <1>4, Zenon DEF BudgetInv

LEMMA LostIsInt ==
    ASSUME TypeOK, NEW s \in Schedules
    PROVE  Lost(s) \in Int
<1>1. attempts[s] \in Nat /\ runs[s] \in Nat /\ Cardinality(Pending(s)) \in Nat
  BY PendingFacts DEF TypeOK
<1> QED
  BY <1>1 DEF Lost

LEMMA BudgetStep ==
    ASSUME BudgetInv, [Next]_vars
    PROVE  BudgetInv'
<1>1. LedgerInv /\ LedgerInv' /\ ClaimsAreCharged
  BY LedgerStep, Zenon DEF BudgetInv
<1>2. ClaimsAreCharged'
  BY <1>1, ClaimsStep, Zenon
<1>3. ASSUME NEW s \in Schedules PROVE Lost(s)' >= 0
  <2>1. TypeOK /\ TypeOK' /\ Lost(s) >= 0
    BY <1>1, Zenon DEF LedgerInv, BudgetInv
  <2>2. Lost(s) \in Int /\ Lost(s)' \in Int
    <3>1. Pending(s)' \subseteq 1..MaxAttempts /\ IsFiniteSet(1..MaxAttempts)
      BY FS_Interval, SchedulerConstants DEF Pending
    <3>2. Cardinality(Pending(s)') \in Nat
      BY <3>1, FS_Subset, FS_CardinalityType, Zenon
    <3>3. attempts'[s] \in Nat /\ runs'[s] \in Nat
      BY <2>1 DEF TypeOK
    <3> QED
      BY <2>1, <3>2, <3>3, LostIsInt DEF Lost
  <2>3. Lost(s)' >= Lost(s) \/ Lost(s)' = 0
    BY <1>1, LossStep, Zenon
  <2> QED
    BY <2>1, <2>2, <2>3
<1> QED
  BY <1>1, <1>2, <1>3, Zenon DEF BudgetInv

\* Every dispatch of an occurrence was paid for by a claim of its own, for every
\* number of workers, crash, clock and command.
THEOREM Budget == Spec => []BudgetInv
BY BudgetInit, BudgetStep, PTL DEF Spec

\* So no occurrence is dispatched more often than max_attempts.
THEOREM BudgetIsKept == Spec => []DispatchesWithinBudget
<1>1. ASSUME BudgetInv PROVE DispatchesWithinBudget
  <2> SUFFICES ASSUME NEW s \in Schedules PROVE runs[s] <= MaxAttempts
    BY Zenon DEF DispatchesWithinBudget
  <2>1. TypeOK /\ attempts[s] - runs[s] - Cardinality(Pending(s)) >= 0
    BY <1>1, Zenon DEF BudgetInv, LedgerInv, Lost
  <2>2. attempts[s] \in 0..MaxAttempts /\ runs[s] \in Nat /\ Cardinality(Pending(s)) \in Nat
    BY <2>1, PendingFacts, Zenon DEF TypeOK
  <2> QED
    BY <2>1, <2>2, SchedulerConstants
<1> QED
  BY <1>1, Budget, PTL

-----------------------------------------------------------------------------
(* The scheduler implements its contract.                                  *)

\* A claim at the sink stays counted through a step that dispatches nothing
\* and moves an occurrence only to one no claim is for.
LEMMA CountedFrame ==
    ASSUME TypeOK, ClaimsAreCharged, NEW w \in Workers, cur[w] # None,
           cur[w].occ = occ[cur[w].sched] => runs[cur[w].sched] > 0,
           \A s \in Schedules :
              \/ occ'[s] = occ[s] /\ runs'[s] = runs[s]
              \/ occ'[s] = occ[s] + 1
    PROVE  cur[w].occ = occ'[cur[w].sched] => runs'[cur[w].sched] > 0
<1> DEFINE c == cur[w]
<1>1. c \in InFlight(w)
  BY Zenon DEF InFlight
<1>2. c.sched \in Schedules /\ c.occ \in Nat /\ occ[c.sched] \in Nat
  BY <1>1, ClaimFacts, Zenon
<1>3. c.occ <= occ[c.sched]
  BY <1>1, Zenon DEF ClaimsAreCharged
<1>4. c.occ # occ[c.sched] + 1
  BY <1>2, <1>3
<1> QED
  BY <1>2, <1>4, Zenon

LEMMA CountedStep ==
    ASSUME ContractInv, [Next]_vars, NEW w \in Workers, cur'[w] # None
    PROVE  cur'[w].occ = occ'[cur'[w].sched] => runs'[cur'[w].sched] > 0
<1>1. LedgerInv /\ TypeOK /\ ClaimsAreCharged
  BY Zenon DEF ContractInv, BudgetInv, LedgerInv
<1>2. DOMAIN cur = Workers /\ DOMAIN runs = Schedules
      /\ \A s \in Schedules : runs[s] \in Nat
  BY <1>1, Zenon DEF TypeOK
<1>3. ASSUME cur'[w] = cur[w],
             \A s \in Schedules :
                \/ occ'[s] = occ[s] /\ runs'[s] = runs[s]
                \/ occ'[s] = occ[s] + 1
      PROVE  cur'[w].occ = occ'[cur'[w].sched] => runs'[cur'[w].sched] > 0
  <2>1. cur[w] # None /\ (cur[w].occ = occ[cur[w].sched] => runs[cur[w].sched] > 0)
    BY <1>3, Zenon DEF ContractInv
  <2>2. cur[w].occ = occ'[cur[w].sched] => runs'[cur[w].sched] > 0
    BY <1>1, <1>3, <2>1, CountedFrame, Zenon
  <2> QED
    BY <1>3, <2>2, Zenon
<1>4. CASE BatchesKept
  BY <1>3, <1>4, Zenon DEF BatchesKept
<1>5. ASSUME NEW s \in Schedules, MovedOn(s)
      PROVE  cur'[w].occ = occ'[cur'[w].sched] => runs'[cur'[w].sched] > 0
  <2>1. cur'[w] = cur[w]
    BY <1>5, Zenon DEF MovedOn
  <2>2. \A r \in Schedules :
           \/ occ'[r] = occ[r] /\ runs'[r] = runs[r]
           \/ occ'[r] = occ[r] + 1
    BY <1>5, Zenon DEF MovedOn
  <2> QED
    BY <1>3, <2>1, <2>2, Zenon
<1>6. ASSUME NEW v \in Workers, ClaimDue(v) \/ ClaimLost(v) \/ SkipElapsed(v) \/ Crash(v)
      PROVE  cur'[w].occ = occ'[cur'[w].sched] => runs'[cur'[w].sched] > 0
  <2>1. UNCHANGED <<occ, runs>> /\ cur'[w] \in {cur[w], None}
    BY <1>2, <1>6, Zenon DEF ClaimDue, ClaimLost, ClaimRows, SkipElapsed, Crash, rowVars, ghostVars
  <2> QED
    BY <1>3, <2>1, Zenon
<1>7. ASSUME NEW v \in Workers, StartDispatch(v)
      PROVE  cur'[w].occ = occ'[cur'[w].sched] => runs'[cur'[w].sched] > 0
  <2>1. PICK c \in todo[v] :
           /\ cur' = [cur EXCEPT ![v] = c]
           /\ runs' = IF c.occ = occ[c.sched] THEN [runs EXCEPT ![c.sched] = @ + 1] ELSE runs
    BY <1>7, Zenon DEF StartDispatch
  <2>2. UNCHANGED occ
    BY <1>7, Zenon DEF StartDispatch, rowVars
  <2>3. c.sched \in Schedules
    BY <1>1, ClaimFacts, Zenon
  <2>4. \A s \in Schedules : runs[s] > 0 => runs'[s] > 0
    BY <1>2, <2>1, <2>3
  <2>5. CASE w = v
    <3>1. cur'[w] = c
      BY <1>2, <2>1, <2>5, Zenon
    <3>2. c.occ = occ[c.sched] => runs'[c.sched] = runs[c.sched] + 1
      BY <1>2, <2>1, <2>3, Zenon
    <3>3. runs[c.sched] + 1 > 0
      BY <1>2, <2>3
    <3> QED
      BY <2>2, <3>1, <3>2, <3>3, Zenon
  <2>6. CASE w # v
    <3>1. cur'[w] = cur[w]
      BY <1>2, <2>1, <2>6, Zenon
    <3>2. cur[w].sched \in Schedules
      BY <1>1, <3>1, ClaimFacts, Zenon DEF InFlight
    <3> QED
      BY <2>2, <2>4, <3>1, <3>2, Zenon DEF ContractInv
  <2> QED
    BY <2>5, <2>6, Zenon
<1> QED
  BY <1>1, <1>4, <1>5, <1>6, <1>7, BatchSteps, Zenon

\* A resume at the next occurrence was decided for a cron.
LEMMA NextOfCronStep ==
    ASSUME ContractInv, [Next]_vars, op' # None, op'.next
    PROVE  op'.sched \in Recurring
<1>1. TypeOK
  BY Zenon DEF ContractInv, BudgetInv, LedgerInv
<1>2. ASSUME UNCHANGED op PROVE op'.sched \in Recurring
  BY <1>2, Zenon DEF ContractInv
<1>3. ASSUME NEW s \in Schedules, ResumeInspects(s) PROVE op'.sched \in Recurring
  BY <1>3 DEF ResumeInspects
<1>4. CASE Tick
  <2>1. op # None /\ op' = [op EXCEPT !.wait = CountDown(@)]
    BY <1>4, Zenon DEF Tick
  <2>2. op'.sched = op.sched /\ op'.next = op.next
    BY <1>1, <2>1, Zenon DEF TypeOK, Resumption
  <2> QED
    BY <2>1, <2>2, Zenon DEF ContractInv
<1>5. ASSUME NEW w \in Workers, WorkerStep(w) PROVE UNCHANGED op
  BY <1>5, Zenon DEF WorkerStep, Sweep, ClaimDue, ClaimLost, ClaimFails, ClaimRows, SkipElapsed,
     StartDispatch, SinkReturns, DispatchTimesOut, EndCycle, Crash, Restart, Acknowledge,
     MarkDelivered, Reschedule, MarkFailed, MarkDeadLettered, AckRefused, AckFails, Settle, opVars
<1>6. ASSUME NEW s \in Schedules, Insert(s) \/ Cancel(s) \/ Pause(s) \/ Replay(s)
      PROVE  UNCHANGED op
  BY <1>6, Zenon DEF Insert, Cancel, Pause, Replay, opVars
<1>7. ~ResumeApplies
  BY Zenon DEF ResumeApplies
<1>8. CASE UNCHANGED vars
  BY <1>2, <1>8, Zenon DEF vars, opVars
<1> QED
  BY <1>2, <1>3, <1>4, <1>5, <1>6, <1>7, <1>8, Zenon DEF Next, OperatorStep

LEMMA ContractInvariance == Spec => []ContractInv
<1>1. Init => ContractInv
  BY BudgetInit, ZenonT(60) DEF ContractInv, Init
<1>2. ASSUME ContractInv, [Next]_vars PROVE ContractInv'
  <2>1. BudgetInv'
    BY <1>2, BudgetStep, Zenon DEF ContractInv
  <2>2. \A w \in Workers :
           cur'[w] # None /\ cur'[w].occ = occ'[cur'[w].sched] => runs'[cur'[w].sched] > 0
    BY <1>2, CountedStep, Zenon
  <2>3. op' # None /\ op'.next => op'.sched \in Recurring
    BY <1>2, NextOfCronStep, Zenon
  <2> QED
    BY <2>1, <2>2, <2>3, Zenon DEF ContractInv
<1> QED
  BY <1>1, <1>2, PTL DEF Spec

\* What the row of a schedule says of it, when its outcomes exclude each other.
LEMMA StatusIs ==
    ASSUME LedgerInv, NEW s \in Schedules
    PROVE  /\ Status[s] = "live" <=> Live(s)
           /\ Status[s] = "dead" <=> s \in dead
           /\ Status[s] = "absent" <=> s \notin rows
<1>1. s \in delivered \cup cancelled \cup dead => s \in rows
  BY Zenon DEF LedgerInv, TypeOK
<1>2. s \in dead => s \notin delivered /\ s \notin cancelled
  BY Zenon DEF LedgerInv, OneOutcome
<1> QED
  BY <1>1, <1>2 DEF Status, Live

\* One schedule that gets a status, the others keeping theirs.
LEMMA StatusChange ==
    ASSUME NEW s \in Schedules, NEW end, Status'[s] = end,
           \A r \in Schedules \ {s} : Status'[r] = Status[r]
    PROVE  Status' = [Status EXCEPT ![s] = end]
<1>1. Status = [r \in Schedules |-> Status[r]] /\ Status' = [r \in Schedules |-> Status'[r]]
  BY Zenon DEF Status
<1> QED
  BY <1>1, Zenon

LEMMA StatusFrame ==
    ASSUME UNCHANGED <<rows, delivered, cancelled, dead>>
    PROVE  UNCHANGED Status
BY Zenon DEF Status

LEMMA ContractFrame ==
    ASSUME UNCHANGED <<rows, flagVars, occ, attempts, ghostVars>>
    PROVE  UNCHANGED Contract!vars
<1>1. UNCHANGED <<paused, occ, attempts, runs, served>> /\ UNCHANGED Status
  BY StatusFrame, Zenon DEF flagVars, ghostVars
<1> QED
  BY <1>1, Zenon DEF Contract!vars

\* What an acknowledgement that applies knows of its schedule: the claim is the
\* row's own, and a success is a success at this occurrence.
LEMMA AcknowledgedIs ==
    ASSUME LedgerInv, NEW w \in Workers, pc[w] = "settling", Fenced(w)
    PROVE  /\ cur[w].sched \in Schedules /\ Live(cur[w].sched)
           /\ cur[w].attempts = attempts[cur[w].sched]
           /\ outcome[w] = "ok" => served[cur[w].sched]
<1>1. cur[w] # None /\ cur[w] \in Claim /\ cur[w] \in InFlight(w)
  BY Zenon DEF LedgerInv, WorkerShape, TypeOK, InFlight
<1>2. cur[w].sched \in Schedules
  BY <1>1, Zenon DEF Claim
<1>3. Live(cur[w].sched) /\ holder[cur[w].sched] = w
  BY Zenon DEF Fenced
<1>4. cur[w].attempts = attempts[cur[w].sched]
  BY <1>1, <1>3, Zenon DEF LedgerInv, FenceNamesClaim
<1>5. outcome[w] = "ok" => served[cur[w].sched]
  BY <1>3, Zenon DEF LedgerInv, OkWasServed
<1> QED
  BY <1>2, <1>3, <1>4, <1>5, ZenonT(60)

\* claim_due, with or without its reply, charges its batch.
LEMMA ChargeStep ==
    ASSUME LedgerInv, NEW w \in Workers, NEW batch \in SUBSET rows, ClaimRows(w, batch)
    PROVE  Contract!Charge(batch) /\ batch \in SUBSET Schedules
<1>1. batch \in SUBSET Schedules
  BY Zenon DEF LedgerInv, TypeOK
<1>2. ASSUME NEW s \in batch
      PROVE  Status[s] = "live" /\ s \notin paused /\ attempts[s] < MaxAttempts
  <2>1. Live(s) /\ s \notin paused /\ attempts[s] < MaxAttempts
    BY Zenon DEF ClaimRows, Eligible
  <2> QED
    BY <1>1, <1>2, <2>1, StatusIs, Zenon
<1>3. attempts' = [s \in Schedules |-> IF s \in batch THEN attempts[s] + 1 ELSE attempts[s]]
  BY Zenon DEF ClaimRows, ClaimedAttempts
<1>4. UNCHANGED <<rows, flagVars, occ, ghostVars>>
  BY Zenon DEF ClaimRows
<1>5. UNCHANGED <<paused, occ, runs, served>> /\ UNCHANGED Status
  BY <1>4, StatusFrame, Zenon DEF flagVars, ghostVars
<1> QED
  BY <1>1, <1>2, <1>3, <1>5, ZenonT(60) DEF Contract!Charge

\* A claim that is dispatched waited in its batch, so its occurrence was charged
\* more often than it was dispatched; one of an earlier occurrence counts nowhere.
LEMMA DispatchContract ==
    ASSUME BudgetInv, NEW w \in Workers, StartDispatch(w)
    PROVE  (\E s \in Schedules : Contract!Dispatch(s)) \/ UNCHANGED Contract!vars
<1>1. TypeOK
  BY Zenon DEF BudgetInv, LedgerInv
<1>2. PICK c \in todo[w] :
         runs' = IF c.occ = occ[c.sched] THEN [runs EXCEPT ![c.sched] = @ + 1] ELSE runs
  BY Zenon DEF StartDispatch
<1>3. UNCHANGED <<rows, flagVars, occ, attempts, served>>
  BY Zenon DEF StartDispatch, rowVars
<1>4. UNCHANGED <<paused, occ, attempts, served>> /\ UNCHANGED Status
  BY <1>3, StatusFrame, Zenon DEF flagVars
<1>5. CASE c.occ # occ[c.sched]
  <2>1. UNCHANGED ghostVars
    BY <1>2, <1>3, <1>5, Zenon DEF ghostVars
  <2> QED
    BY <1>3, <2>1, ContractFrame, Zenon
<1>6. CASE c.occ = occ[c.sched]
  <2> DEFINE s == c.sched
             P == Cardinality(Pending(s))
  <2>1. s \in Schedules /\ attempts[s] \in 0..MaxAttempts /\ runs[s] \in Nat
    BY <1>1, ClaimFacts, Zenon
  <2>2. c.attempts \in Pending(s)
    BY <1>1, <1>6, <2>1, PendingIs, Zenon
  <2>3. P \in Nat /\ P # 0
    BY <2>1, <2>2, PendingFacts, FS_EmptySet, Zenon
  <2>4. attempts[s] - runs[s] - P >= 0
    BY <2>1, Zenon DEF BudgetInv, Lost
  <2> HIDE DEF P
  <2>5. runs[s] < attempts[s]
    BY <2>1, <2>3, <2>4
  <2>6. runs' = [runs EXCEPT ![s] = @ + 1]
    BY <1>2, <1>6, Zenon
  <2>7. Contract!Dispatch(s)
    BY <1>4, <2>5, <2>6, Zenon DEF Contract!Dispatch
  <2> QED
    BY <2>1, <2>7, Zenon
<1> QED
  BY <1>5, <1>6, Zenon

LEMMA ServeStep ==
    ASSUME ContractInv, NEW w \in Workers, NEW result, SinkReturns(w, result)
    PROVE  (\E s \in Schedules : Contract!Serve(s)) \/ UNCHANGED Contract!vars
<1>1. UNCHANGED <<rows, flagVars, occ, attempts, runs>>
  BY Zenon DEF SinkReturns, rowVars
<1>2. UNCHANGED <<paused, occ, attempts, runs>> /\ UNCHANGED Status
  BY <1>1, StatusFrame, Zenon DEF flagVars
<1>3. CASE result = "ok" /\ cur[w].occ = occ[cur[w].sched]
  <2>1. cur[w] # None /\ cur[w] \in Claim
    BY Zenon DEF ContractInv, BudgetInv, LedgerInv, WorkerShape, TypeOK, SinkReturns
  <2>2. cur[w].sched \in Schedules /\ runs[cur[w].sched] > 0
    BY <1>3, <2>1, Zenon DEF ContractInv, Claim
  <2>3. served' = [served EXCEPT ![cur[w].sched] = TRUE]
    BY <1>3, Zenon DEF SinkReturns
  <2>4. Contract!Serve(cur[w].sched)
    BY <1>2, <2>2, <2>3, Zenon DEF Contract!Serve
  <2> QED
    BY <2>2, <2>4, ZenonT(60)
<1>4. CASE ~(result = "ok" /\ cur[w].occ = occ[cur[w].sched])
  <2>1. UNCHANGED ghostVars
    BY <1>1, <1>4, Zenon DEF SinkReturns, ghostVars
  <2> QED
    BY <1>1, <2>1, ContractFrame, Zenon
<1> QED
  BY <1>3, <1>4, Zenon

\* Giving up a set of live schedules whose attempts are spent.
LEMMA GiveUpStep ==
    ASSUME LedgerInv, LedgerInv', NEW batch \in SUBSET Schedules,
           \A s \in batch : Live(s) /\ attempts[s] = MaxAttempts,
           dead' = dead \cup batch,
           UNCHANGED <<rows, delivered, cancelled, paused, occ, attempts, ghostVars>>
    PROVE  Contract!GiveUp(batch)
<1>1. \A s \in batch : Status[s] = "live"
  BY StatusIs, Zenon
<1>2. \A s \in batch : Status'[s] = "dead"
  BY Zenon DEF Status, Live
<1>3. \A s \in Schedules \ batch : Status'[s] = Status[s]
  BY Zenon DEF Status
<1>4. Status' = [s \in Schedules |-> Status'[s]]
  BY Zenon DEF Status
<1>5. Status' = [s \in Schedules |-> IF s \in batch THEN "dead" ELSE Status[s]]
  BY <1>2, <1>3, <1>4, Zenon
<1> QED
  BY <1>1, <1>5, Zenon DEF Contract!GiveUp, ghostVars

\* A schedule that is live, and the step that ends it.
LEMMA EndsStep ==
    ASSUME LedgerInv, NEW s \in Schedules, Live(s),
           \/ delivered' = delivered \cup {s} /\ UNCHANGED cancelled
           \/ cancelled' = cancelled \cup {s} /\ UNCHANGED delivered,
           UNCHANGED <<rows, dead, paused, occ, attempts, ghostVars>>
    PROVE  /\ UNCHANGED cancelled => Contract!Ends(s, "delivered")
           /\ UNCHANGED delivered => Contract!Ends(s, "cancelled")
<1>1. Status[s] = "live"
  BY StatusIs, Zenon
<1>2. \A r \in Schedules \ {s} : Status'[r] = Status[r]
  BY Zenon DEF Status
<1>3. /\ UNCHANGED cancelled => Status'[s] = "delivered"
      /\ UNCHANGED delivered => Status'[s] = "cancelled"
  BY Zenon DEF Status, Live
<1>4. /\ UNCHANGED cancelled => Status' = [Status EXCEPT ![s] = "delivered"]
      /\ UNCHANGED delivered => Status' = [Status EXCEPT ![s] = "cancelled"]
  BY <1>2, <1>3, StatusChange, Zenon
<1> QED
  BY <1>1, <1>4, Zenon DEF Contract!Ends, ghostVars

LEMMA AcknowledgeContract ==
    ASSUME LedgerInv, LedgerInv', NEW w \in Workers, Acknowledge(w)
    PROVE  [Contract!Next]_(Contract!vars)
<1> DEFINE s == cur[w].sched
<1>1. CASE MarkDelivered(w)
  <2>1. s \in Schedules /\ Live(s) /\ served[s]
    BY <1>1, AcknowledgedIs, Zenon DEF MarkDelivered, Settle
  <2>2. delivered' = delivered \cup {s}
        /\ UNCHANGED <<rows, cancelled, dead, paused, occ, attempts, ghostVars>>
    BY <1>1, Zenon DEF MarkDelivered, Settle
  <2>3. Contract!Ends(s, "delivered")
    BY <2>1, <2>2, EndsStep, Zenon
  <2>4. Contract!Deliver(s)
    BY <2>1, <2>3, Zenon DEF Contract!Deliver
  <2> QED
    BY <2>1, <2>4, Zenon DEF Contract!Next
<1>2. CASE Reschedule(w)
  <2>1. s \in Schedules /\ Live(s) /\ served[s] /\ s \in Recurring
    BY <1>2, AcknowledgedIs, Zenon DEF Reschedule, Settle, Recurs
  <2>2. Contract!NextOccurrence(s)
    BY <1>2, Zenon DEF Reschedule, Advance, Realign, Contract!NextOccurrence
  <2>3. UNCHANGED <<rows, delivered, cancelled, dead, paused>>
    BY <1>2, Zenon DEF Reschedule, Settle
  <2>4. UNCHANGED Status /\ Status[s] = "live"
    BY <2>1, <2>3, StatusFrame, StatusIs, Zenon
  <2>5. Contract!Recur(s)
    BY <2>1, <2>2, <2>3, <2>4, Zenon DEF Contract!Recur
  <2> QED
    BY <2>1, <2>5, Zenon DEF Contract!Next
<1>3. CASE MarkDeadLettered(w)
  <2>1. s \in Schedules /\ Live(s) /\ cur[w].attempts = attempts[s]
    BY <1>3, AcknowledgedIs, Zenon DEF MarkDeadLettered, Settle
  <2>2. attempts[s] >= MaxAttempts /\ attempts[s] \in 0..MaxAttempts
    BY <1>3, <2>1, ZenonT(60) DEF MarkDeadLettered, Exhausted, LedgerInv, TypeOK
  <2>3. attempts[s] = MaxAttempts
    BY <2>2, SchedulerConstants
  <2>4. dead' = dead \cup {s}
        /\ UNCHANGED <<rows, delivered, cancelled, paused, occ, attempts, ghostVars>>
    BY <1>3, Zenon DEF MarkDeadLettered, Settle
  <2>5. Contract!GiveUp({s}) /\ {s} \in SUBSET Schedules
    BY <2>1, <2>3, <2>4, GiveUpStep, Zenon
  <2> QED
    BY <2>5, Zenon DEF Contract!Next
<1>4. CASE MarkFailed(w) \/ AckRefused(w) \/ AckFails(w)
  <2>1. UNCHANGED <<rows, flagVars, occ, attempts, ghostVars>>
    BY <1>4, Zenon DEF MarkFailed, AckRefused, AckFails, Settle, flagVars
  <2> QED
    BY <2>1, ContractFrame, Zenon
<1> QED
  BY <1>1, <1>2, <1>3, <1>4, Zenon DEF Acknowledge

LEMMA WorkerContract ==
    ASSUME ContractInv, LedgerInv', NEW w \in Workers, WorkerStep(w)
    PROVE  [Contract!Next]_(Contract!vars)
<1>1. BudgetInv /\ LedgerInv
  BY Zenon DEF ContractInv, BudgetInv
<1>2. CASE Sweep(w)
  <2> DEFINE batch == {s \in rows : Sweepable(s)}
  <2>1. batch \in SUBSET Schedules /\ \A s \in batch : Live(s) /\ attempts[s] >= MaxAttempts
    BY <1>1, ZenonT(60) DEF Sweepable, LedgerInv, TypeOK
  <2>2. \A s \in batch : attempts[s] \in 0..MaxAttempts
    BY <1>1, <2>1, ZenonT(60) DEF LedgerInv, TypeOK
  <2>3. dead' = dead \cup batch
        /\ UNCHANGED <<rows, delivered, cancelled, paused, occ, attempts, ghostVars>>
    BY <1>2, Zenon DEF Sweep
  <2> HIDE DEF batch
  <2>4. \A s \in batch : attempts[s] = MaxAttempts
    BY <2>1, <2>2, SchedulerConstants
  <2>5. Contract!GiveUp(batch)
    BY <1>1, <2>1, <2>3, <2>4, GiveUpStep, Zenon
  <2> QED
    BY <2>1, <2>5, Zenon DEF Contract!Next
<1>3. CASE ClaimDue(w) \/ ClaimLost(w)
  <2>1. PICK batch \in SUBSET rows : ClaimRows(w, batch)
    BY <1>3, Zenon DEF ClaimDue, ClaimLost
  <2>2. Contract!Charge(batch) /\ batch \in SUBSET Schedules
    BY <1>1, <2>1, ChargeStep, Zenon
  <2> QED
    BY <2>2, Zenon DEF Contract!Next
<1>4. CASE StartDispatch(w)
  BY <1>1, <1>4, DispatchContract, Zenon DEF Contract!Next
<1>5. CASE \E result \in {"ok", "err"} : SinkReturns(w, result)
  BY <1>5, ServeStep, Zenon DEF Contract!Next
<1>6. CASE Acknowledge(w)
  BY <1>1, <1>6, AcknowledgeContract, Zenon
<1>7. CASE \/ ClaimFails(w) \/ SkipElapsed(w) \/ DispatchTimesOut(w) \/ EndCycle(w)
           \/ Crash(w) \/ Restart(w)
  <2>1. UNCHANGED <<rows, flagVars, occ, attempts, ghostVars>>
    BY <1>7, Zenon DEF ClaimFails, SkipElapsed, DispatchTimesOut, EndCycle, Crash, Restart, rowVars
  <2> QED
    BY <2>1, ContractFrame, Zenon
<1> QED
  BY <1>2, <1>3, <1>4, <1>5, <1>6, <1>7, Zenon DEF WorkerStep

LEMMA OperatorContract ==
    ASSUME ContractInv, OperatorStep
    PROVE  [Contract!Next]_(Contract!vars)
<1>1. LedgerInv
  BY Zenon DEF ContractInv, BudgetInv
<1>2. ASSUME NEW s \in Schedules, Cancel(s) PROVE Contract!Cancel(s)
  <2>1. Live(s) /\ cancelled' = cancelled \cup {s}
        /\ UNCHANGED <<rows, delivered, dead, paused, occ, attempts, ghostVars>>
    BY <1>2, Zenon DEF Cancel
  <2>2. Contract!Ends(s, "cancelled")
    BY <1>1, <2>1, EndsStep, Zenon
  <2> QED
    BY <2>2, Zenon DEF Contract!Cancel
<1>3. ASSUME NEW s \in Schedules, Pause(s) PROVE Contract!Pause(s)
  <2>1. Status[s] = "live"
    BY <1>1, <1>3, StatusIs, Zenon DEF Pause
  <2>2. UNCHANGED Status
    BY <1>3, StatusFrame, Zenon DEF Pause
  <2> QED
    BY <1>3, <2>1, <2>2, Zenon DEF Pause, Contract!Pause, ghostVars
<1>4. ASSUME NEW s \in Schedules, ResumeInspects(s) PROVE UNCHANGED Contract!vars
  BY <1>4, ContractFrame, Zenon DEF ResumeInspects, rowVars
<1>5. ASSUME NEW s \in Schedules, Replay(s) PROVE Contract!Replay(s)
  <2>1. s \in dead /\ s \notin delivered /\ s \notin cancelled /\ s \in rows
    BY <1>1, <1>5, ZenonT(60) DEF Replay, LedgerInv, OneOutcome, TypeOK
  <2>2. dead' = dead \ {s} /\ paused' = paused \ {s} /\ UNCHANGED <<rows, delivered, cancelled>>
    BY <1>5, Zenon DEF Replay
  <2>3. Status'[s] = "live" /\ \A r \in Schedules \ {s} : Status'[r] = Status[r]
    BY <2>1, <2>2, Zenon DEF Status
  <2>4. Status[s] = "dead" /\ Status' = [Status EXCEPT ![s] = "live"]
    BY <1>1, <2>1, <2>3, StatusIs, StatusChange, ZenonT(60)
  <2>5. Contract!NextOccurrence(s)
    BY <1>5, Zenon DEF Replay, Advance, Realign, Contract!NextOccurrence
  <2> QED
    BY <2>2, <2>4, <2>5, ZenonT(60) DEF Contract!Replay
<1>6. CASE ResumeApplies
  <2> DEFINE s == op.sched
  <2>1. s \in Schedules
    BY <1>1, <1>6, ZenonT(60) DEF ResumeApplies, LedgerInv, TypeOK, Resumption
  <2>2. UNCHANGED <<rows, delivered, cancelled, dead>>
    BY <1>6, Zenon DEF ResumeApplies
  <2>3. CASE ~(Live(s) /\ s \in paused)
    <3>1. UNCHANGED <<rows, flagVars, occ, attempts, ghostVars>>
      BY <1>6, <2>2, <2>3, Zenon DEF ResumeApplies, flagVars
    <3> QED
      BY <3>1, ContractFrame, Zenon
  <2>4. CASE Live(s) /\ s \in paused
    <3>1. Status[s] = "live" /\ UNCHANGED Status /\ paused' = paused \ {s}
      BY <1>1, <1>6, <2>1, <2>2, <2>4, StatusIs, StatusFrame, ZenonT(60) DEF ResumeApplies
    <3>2. CASE op.next
      <4>1. Contract!NextOccurrence(s)
        BY <1>6, <2>4, <3>2, Zenon DEF ResumeApplies, Realign, Contract!NextOccurrence
      <4>2. s \in Recurring
        BY <1>6, <3>2, Zenon DEF ContractInv, ResumeApplies
      <4>3. Contract!ResumeWithNext(s)
        BY <2>4, <3>1, <4>1, <4>2, ZenonT(60) DEF Contract!ResumeWithNext
      <4> QED
        BY <2>1, <4>3, Zenon DEF Contract!Next
    <3>3. CASE ~op.next
      <4>1. UNCHANGED <<attempts, occ, runs, served>>
        BY <1>6, <2>4, <3>3, Zenon DEF ResumeApplies, ghostVars
      <4>2. Contract!Resume(s)
        BY <2>4, <3>1, <4>1, Zenon DEF Contract!Resume
      <4> QED
        BY <2>1, <4>2, Zenon DEF Contract!Next
    <3> QED
      BY <3>2, <3>3, Zenon
  <2> QED
    BY <2>3, <2>4, ZenonT(60)
<1> QED
  BY <1>2, <1>3, <1>4, <1>5, <1>6, ZenonT(60) DEF OperatorStep, Contract!Next

LEMMA ContractStep ==
    ASSUME ContractInv, ContractInv', [Next]_vars
    PROVE  [Contract!Next]_(Contract!vars)
<1>1. LedgerInv /\ LedgerInv'
  BY Zenon DEF ContractInv, BudgetInv
<1>2. ASSUME NEW s \in Schedules, Insert(s) PROVE Contract!Submit(s)
  <2>1. s \notin rows /\ rows' = rows \cup {s} /\ UNCHANGED <<flagVars, occ, attempts, ghostVars>>
    BY <1>2, ZenonT(60) DEF Insert
  <2>2. s \notin delivered /\ s \notin cancelled /\ s \notin dead /\ Status[s] = "absent"
    BY <1>1, <2>1, StatusIs, ZenonT(60) DEF LedgerInv, TypeOK
  <2>3. Status'[s] = "live" /\ \A r \in Schedules \ {s} : Status'[r] = Status[r]
    BY <2>1, <2>2, Zenon DEF Status, flagVars
  <2>4. Status' = [Status EXCEPT ![s] = "live"]
    BY <2>3, StatusChange, Zenon
  <2> QED
    BY <2>1, <2>2, <2>4, Zenon DEF Contract!Submit, flagVars, ghostVars
<1>3. CASE Tick \/ UNCHANGED vars
  <2>1. UNCHANGED <<rows, flagVars, occ, attempts, ghostVars>>
    BY <1>3, Zenon DEF Tick, vars, rowVars
  <2> QED
    BY <2>1, ContractFrame, Zenon
<1>4. CASE \E s \in Schedules : Insert(s)
  BY <1>2, <1>4, Zenon DEF Contract!Next
<1>5. CASE \E w \in Workers : WorkerStep(w)
  BY <1>1, <1>5, WorkerContract, Zenon
<1>6. CASE OperatorStep
  BY <1>6, OperatorContract, Zenon
<1> QED
  BY <1>3, <1>4, <1>5, <1>6, Zenon DEF Next

\* The scheduler, its workers and its operators implement ScheduleContract.
THEOREM ContractIsKept == Spec => ImplementsContract
<1>1. Init => Contract!Init
  BY Zenon DEF Init, Contract!Init, Status
<1> QED
  BY <1>1, ContractStep, ContractInvariance, PTL DEF Spec, ImplementsContract, Contract!Spec

=============================================================================
