----------------------- MODULE ScheduledOutboxProofs ------------------------
(***************************************************************************)
(* The handover from the scheduler to the outbox is safe for any number of *)
(* workers, schedules, commands, crashes and burials, both stores and any  *)
(* clock: what the scheduler promises it still promises with the outbox as *)
(* its sink, and the two tables agree although no transaction spans them.  *)
(* Then the lease and the attempt ledger of the scheduler, for any sink    *)
(* and for this one: two workers do not dispatch an occurrence at once     *)
(* while the lease covers the batch, and a charged attempt is one that     *)
(* ran.  What these need beyond the above they say in their hypotheses.    *)
(***************************************************************************)
EXTENDS ScheduledOutbox, SchedulerProofs

\* A step of the composition is a step of the scheduler or leaves it alone.
LEMMA SchedulerStep == [SONext]_allVars => [Next]_vars
<1>1. SchedulerMoves => Next
  BY Zenon DEF SchedulerMoves
<1>2. (\E w \in Workers : Enqueue(w)) => UNCHANGED vars
  BY Zenon DEF Enqueue
<1>3. (\E o \in Occurrences : LateCommit(o) \/ Bury(o)) => UNCHANGED vars
  BY Zenon DEF LateCommit, Bury
<1>4. UNCHANGED allVars => UNCHANGED vars
  BY Zenon DEF allVars
<1> QED
  BY <1>1, <1>2, <1>3, <1>4, Zenon DEF SONext

\* The outbox as a sink takes nothing away from what the scheduler promises.
THEOREM OutboxIsASink == SOSpec => Spec
<1>1. SOInit => Init
  BY Zenon DEF SOInit
<1> QED
  BY <1>1, SchedulerStep, PTL DEF SOSpec, Spec

\* So the contract of the schedules holds with the outbox as the sink, whatever
\* commits late or is given up there.
THEOREM ContractIsKeptWithOutbox == SOSpec => ImplementsContract
BY ContractIsKept, OutboxIsASink, PTL

\* The calendar and the commands bound the number of an occurrence.
LEMMA OccurrencesStep ==
    ASSUME LedgerInv, LedgerInv', OccurrencesSuffice, [Next]_vars
    PROVE  OccurrencesSuffice'
<1> DEFINE b == LastOccurrence + ops - (IF op = None THEN 0 ELSE 1)
<1>1. TypeOK /\ TypeOK'
  BY Zenon DEF LedgerInv
<1>2. ops \in Nat /\ ops' \in Nat /\ LastOccurrence \in Nat
  BY <1>1, SchedulerConstants DEF TypeOK
<1>3. /\ \A s \in Schedules : occ[s] \in Nat /\ occ[s] <= b
      /\ op # None => ops > 0
  BY <1>1, Zenon DEF OccurrencesSuffice, TypeOK
<1>4. b \in Int /\ b >= LastOccurrence
  BY <1>2, <1>3
<1> SUFFICES /\ op' # None => ops' > 0
             /\ \A s \in Schedules : occ'[s] <= b'
  BY Zenon DEF OccurrencesSuffice
<1>5. CASE UNCHANGED <<occ, op, ops>>
  BY <1>3, <1>5
<1>6. ASSUME NEW w \in Workers, WorkerStep(w), ~Reschedule(w) PROVE UNCHANGED <<occ, op, ops>>
  BY <1>6, ZenonT(60) DEF WorkerStep, Sweep, ClaimDue, ClaimLost, ClaimFails, ClaimRows, SkipElapsed,
     StartDispatch, SinkReturns, DispatchTimesOut, EndCycle, Crash, Restart, Acknowledge,
     MarkDelivered, MarkFailed, MarkDeadLettered, AckRefused, AckFails, Settle, rowVars, opVars
<1>7. ASSUME NEW w \in Workers, Reschedule(w)
      PROVE  (op' # None => ops' > 0) /\ \A s \in Schedules : occ'[s] <= b'
  <2>1. UNCHANGED <<op, ops>> /\ cur[w] \in InFlight(w) /\ cur[w].occ < LastOccurrence
        /\ holder[cur[w].sched] = w
    <3>1. pc[w] = "settling" /\ UNCHANGED <<op, ops>>
      BY <1>7, Zenon DEF Reschedule, Settle, opVars
    <3>2. cur[w] # None
      BY <3>1, Zenon DEF LedgerInv, WorkerShape
    <3> QED
      BY <1>7, <3>1, <3>2, Zenon DEF Reschedule, Recurs, Fenced, InFlight
  <2>2. cur[w].occ = occ[cur[w].sched]
    BY <2>1, Zenon DEF LedgerInv, FenceNamesClaim
  <2>3. occ' = [occ EXCEPT ![cur[w].sched] = @ + 1] /\ DOMAIN occ = Schedules
    BY <1>1, <1>7, Zenon DEF Reschedule, Advance, Realign, TypeOK
  <2>4. \A s \in Schedules : occ'[s] = IF s = cur[w].sched THEN occ[s] + 1 ELSE occ[s]
    BY <2>3, Zenon
  <2>5. b' = b
    BY <2>1, Zenon
  <2> HIDE DEF b
  <2>6. \A s \in Schedules : occ'[s] <= b
    BY <1>2, <1>3, <1>4, <2>1, <2>2, <2>4
  <2> QED
    BY <1>3, <2>1, <2>5, <2>6, Zenon
<1>8. ASSUME NEW s \in Schedules, Cancel(s) \/ Pause(s) \/ ResumeInspects(s)
      PROVE  (op' # None => ops' > 0) /\ \A r \in Schedules : occ'[r] <= b'
  <2>1. ops' = ops + 1 /\ UNCHANGED occ
    BY <1>8, Zenon DEF Cancel, Pause, ResumeInspects, Command, rowVars
  <2>2. op = None \/ UNCHANGED op
    BY <1>8, Zenon DEF Cancel, Pause, ResumeInspects
  <2> QED
    BY <1>2, <1>3, <2>1, <2>2
<1>9. ASSUME NEW s \in Schedules, NEW d, Realign(s, d), b' = b + 1, NEW r \in Schedules
      PROVE  occ'[r] <= b'
  <2>1. occ' = [occ EXCEPT ![s] = @ + 1] /\ DOMAIN occ = Schedules
    BY <1>1, <1>9, Zenon DEF Realign, TypeOK
  <2>2. occ'[r] = occ[r] \/ occ'[r] = occ[r] + 1
    BY <2>1, Zenon
  <2> HIDE DEF b
  <2>3. b' = b + 1
    BY <1>9
  <2> QED
    BY <1>3, <1>4, <2>2, <2>3
<1>10. ASSUME NEW s \in Schedules, Replay(s)
       PROVE  (op' # None => ops' > 0) /\ \A r \in Schedules : occ'[r] <= b'
  <2>1. ops' = ops + 1 /\ UNCHANGED op /\ Realign(s, 0)
    BY <1>10, Zenon DEF Replay, Command, Advance
  <2>2. b' = b + 1 /\ ops' > 0
    BY <1>2, <2>1
  <2> HIDE DEF b
  <2> QED
    BY <1>9, <2>1, <2>2, Zenon
<1>11. CASE ResumeApplies
  <2>1. op # None /\ op' = None /\ UNCHANGED ops /\ op.sched \in Schedules
    BY <1>1, <1>11, Zenon DEF ResumeApplies, TypeOK, Resumption
  <2>2. b' = b + 1
    BY <1>2, <2>1
  <2> HIDE DEF b
  <2>3. CASE Realign(op.sched, op.wait)
    BY <1>9, <2>1, <2>2, <2>3, Zenon
  <2>4. CASE UNCHANGED occ
    <3>1. \A r \in Schedules : occ[r] <= b + 1
      BY <1>3, <1>4
    <3> QED
      BY <2>1, <2>2, <2>4, <3>1, Zenon
  <2> QED
    BY <1>11, <2>3, <2>4, Zenon DEF ResumeApplies
<1>12. CASE UNCHANGED vars \/ \E s \in Schedules : Insert(s)
  <2>1. UNCHANGED <<occ, op, ops>>
    BY <1>12, Zenon DEF vars, rowVars, opVars, Insert
  <2> QED
    BY <1>5, <2>1, Zenon
<1>13. CASE Tick
  <2>1. UNCHANGED <<occ, ops>> /\ (op = None <=> op' = None)
    <3>1. op # None => op \in Resumption
      BY <1>1, Zenon DEF TypeOK
    <3>2. op # None => op' \in Resumption
      <4>1. \A n \in Nat : CountDown(n) \in Nat
        BY DEF CountDown
      <4> QED
        BY <1>13, <3>1, <4>1 DEF Tick, Resumption
    <3> QED
      BY <1>13, <3>2, NoneIsNothing, Zenon DEF Tick
  <2> QED
    BY <1>2, <1>3, <2>1
<1>14. ASSUME NEW w \in Workers, WorkerStep(w)
       PROVE  (op' # None => ops' > 0) /\ \A s \in Schedules : occ'[s] <= b'
  <2> HIDE DEF b
  <2> QED
    BY <1>5, <1>6, <1>7, <1>14, Zenon
<1> HIDE DEF b
<1> QED
  BY <1>8, <1>10, <1>11, <1>12, <1>13, <1>14, Zenon DEF Next, OperatorStep

\* Who delivers a schedule, and that a delivered one stays where it is.
LEMMA DeliveredBy ==
    ASSUME Next, NEW s \in delivered' \ delivered
    PROVE  \E w \in Workers : MarkDelivered(w) /\ s = cur[w].sched
<1>1. ASSUME NEW w \in Workers, WorkerStep(w) PROVE MarkDelivered(w) /\ s = cur[w].sched
  BY <1>1, ZenonT(60) DEF WorkerStep, Sweep, ClaimDue, ClaimLost, ClaimFails, ClaimRows, SkipElapsed,
     StartDispatch, SinkReturns, DispatchTimesOut, EndCycle, Crash, Restart, Acknowledge,
     MarkDelivered, Reschedule, MarkFailed, MarkDeadLettered, AckRefused, AckFails, Settle, rowVars,
     flagVars
<1>2. ~OperatorStep
  BY Zenon DEF OperatorStep, Cancel, Pause, ResumeInspects, Replay, ResumeApplies, rowVars, flagVars
<1>3. ~(Tick \/ \E r \in Schedules : Insert(r))
  BY Zenon DEF Tick, Insert, flagVars
<1> QED
  BY <1>1, <1>2, <1>3, ZenonT(60) DEF Next

LEMMA DeliveredStays ==
    ASSUME LedgerInv, Next, NEW s \in delivered
    PROVE  occ'[s] = occ[s]
<1>1. TypeOK /\ s \in Schedules /\ DOMAIN occ = Schedules /\ ~Live(s) /\ s \notin dead
  BY Zenon DEF LedgerInv, TypeOK, Live, OneOutcome
<1>2. ASSUME NEW r \in Schedules, NEW d, Realign(r, d), r # s PROVE occ'[s] = occ[s]
  BY <1>1, <1>2, Zenon DEF Realign
<1>3. ASSUME NEW w \in Workers, WorkerStep(w) PROVE occ'[s] = occ[s]
  <2>1. CASE Reschedule(w)
    <3>1. Live(cur[w].sched) /\ \E d : Realign(cur[w].sched, d)
      BY <2>1, Zenon DEF Reschedule, Fenced, Advance
    <3>2. cur[w].sched \in Schedules /\ cur[w].sched # s
      BY <1>1, <3>1, Zenon DEF Live, TypeOK
    <3> QED
      BY <1>2, <3>1, <3>2, Zenon
  <2>2. CASE ~Reschedule(w)
    <3>1. UNCHANGED occ
      BY <1>3, <2>2, ZenonT(60) DEF WorkerStep, Sweep, ClaimDue, ClaimLost, ClaimFails, ClaimRows,
         SkipElapsed, StartDispatch, SinkReturns, DispatchTimesOut, EndCycle, Crash, Restart,
         Acknowledge, MarkDelivered, MarkFailed, MarkDeadLettered, AckRefused, AckFails, rowVars
    <3> QED
      BY <3>1, Zenon
  <2> QED
    BY <2>1, <2>2, Zenon
<1>4. ASSUME NEW r \in Schedules, Cancel(r) \/ Pause(r) \/ ResumeInspects(r) \/ Replay(r)
      PROVE  occ'[s] = occ[s]
  <2>1. CASE Replay(r)
    BY <1>1, <1>2, <2>1, Zenon DEF Replay, Advance
  <2>2. CASE ~Replay(r)
    BY <1>4, <2>2, Zenon DEF Cancel, Pause, ResumeInspects, rowVars
  <2> QED
    BY <2>1, <2>2, Zenon
<1>5. CASE ResumeApplies
  <2>1. CASE UNCHANGED occ
    BY <2>1, Zenon
  <2>2. CASE Live(op.sched) /\ Realign(op.sched, op.wait)
    <3>1. op.sched \in Schedules /\ op.sched # s
      BY <1>1, <2>2, Zenon DEF Live, TypeOK
    <3> QED
      BY <1>2, <2>2, <3>1, Zenon
  <2> QED
    BY <1>5, <2>1, <2>2, Zenon DEF ResumeApplies
<1>6. CASE Tick \/ \E r \in Schedules : Insert(r)
  BY <1>6, Zenon DEF Tick, Insert
<1> QED
  BY <1>3, <1>4, <1>5, <1>6, ZenonT(60) DEF Next, OperatorStep

\* A dispatch keeps its claim, and a success comes from a dispatch.
LEMMA DispatchStep ==
    ASSUME TypeOK, [Next]_vars, NEW w \in Workers
    PROVE  /\ pc[w] = "dispatching" /\ pc'[w] = "dispatching" => cur'[w] = cur[w]
           /\ outcome'[w] = "ok" =>
                \/ outcome[w] = "ok" /\ (pc[w] = "settling" => pc'[w] = "settling" /\ cur'[w] = cur[w])
                \/ pc[w] = "dispatching" /\ pc'[w] = "settling" /\ cur'[w] = cur[w]
<1>1. DOMAIN pc = Workers /\ DOMAIN cur = Workers /\ DOMAIN outcome = Workers
  BY Zenon DEF TypeOK
<1>2. CASE pc'[w] = pc[w] /\ cur'[w] = cur[w] /\ outcome'[w] = outcome[w]
  BY <1>2, Zenon
<1>3. ASSUME NEW v \in Workers, WorkerStep(v)
      PROVE  /\ v # w => pc'[w] = pc[w] /\ cur'[w] = cur[w] /\ outcome'[w] = outcome[w]
             /\ v = w => \/ pc[w] # "dispatching" /\ pc[w] # "settling" /\ outcome'[w] = outcome[w]
                         \/ pc'[w] # "dispatching" /\ outcome'[w] = "err"
                         \/ pc[w] = "dispatching" /\ pc'[w] = "settling" /\ cur'[w] = cur[w]
  <2>1. CASE Sweep(v) \/ ClaimFails(v) \/ SkipElapsed(v) \/ StartDispatch(v) \/ EndCycle(v) \/ Restart(v)
    <3>1. /\ pc[v] \notin {"dispatching", "settling"} /\ UNCHANGED outcome
          /\ v # w => pc'[w] = pc[w] /\ cur'[w] = cur[w]
      BY <1>1, <2>1, Zenon DEF Sweep, ClaimFails, SkipElapsed, StartDispatch, EndCycle, Restart
    <3> QED
      BY <3>1, Zenon
  <2>2. CASE ClaimDue(v) \/ ClaimLost(v)
    <3>1. pc[v] = "swept" /\ UNCHANGED <<cur, outcome>> /\ (v # w => pc'[w] = pc[w])
      BY <1>1, <2>2, Zenon DEF ClaimDue, ClaimLost, ClaimRows
    <3> QED
      BY <3>1
  <2>3. CASE DispatchTimesOut(v) \/ \E result \in {"ok", "err"} : SinkReturns(v, result)
    <3>1. /\ pc[v] = "dispatching" /\ pc' = [pc EXCEPT ![v] = "settling"] /\ UNCHANGED cur
          /\ v # w => outcome'[w] = outcome[w]
      BY <1>1, <2>3, Zenon DEF DispatchTimesOut, SinkReturns
    <3> QED
      BY <1>1, <3>1, Zenon
  <2>4. CASE Acknowledge(v)
    <3>1. Settle(v)
      BY <2>4, Zenon DEF Acknowledge, MarkDelivered, Reschedule, MarkFailed, MarkDeadLettered,
         AckRefused, AckFails
    <3> QED
      BY <1>1, <3>1 DEF Settle
  <2>5. CASE Crash(v)
    BY <1>1, <2>5 DEF Crash
  <2> QED
    BY <1>3, <2>1, <2>2, <2>3, <2>4, <2>5, Zenon DEF WorkerStep
<1>4. ASSUME OperatorStep \/ Tick \/ (\E s \in Schedules : Insert(s)) \/ UNCHANGED vars
      PROVE  UNCHANGED <<pc, cur, outcome>>
  BY <1>4, Zenon DEF OperatorStep, Cancel, Pause, ResumeInspects, Replay, ResumeApplies, Command, Tick,
     Insert, vars, workerVars
<1>5. ASSUME NEW v \in Workers, WorkerStep(v), v = w
      PROVE  /\ pc[w] = "dispatching" /\ pc'[w] = "dispatching" => cur'[w] = cur[w]
             /\ outcome'[w] = "ok" =>
                  \/ outcome[w] = "ok" /\ (pc[w] = "settling" => pc'[w] = "settling" /\ cur'[w] = cur[w])
                  \/ pc[w] = "dispatching" /\ pc'[w] = "settling" /\ cur'[w] = cur[w]
  BY <1>3, <1>5
<1> QED
  BY <1>2, <1>3, <1>4, <1>5, Zenon DEF Next

\* The occurrence of a claim, and of a schedule, has its place in the books.
LEMMA OccurrenceIsKnown ==
    ASSUME BudgetInv, OccurrencesSuffice, NEW s \in ToOutbox
    PROVE  /\ <<s, occ[s]>> \in Occurrences
           /\ \A w \in Workers : cur[w] # None /\ cur[w].sched = s => Occurrence(cur[w]) \in Occurrences
<1>1. TypeOK /\ s \in Schedules
  BY ScheduledOutboxConstants, Zenon DEF BudgetInv, LedgerInv
<1>2. ops \in 0..MaxOps /\ occ[s] \in Nat /\ LastOccurrence \in Nat /\ MaxOps \in Nat
  BY <1>1, SchedulerConstants, Zenon DEF TypeOK
<1>3. occ[s] <= LastOccurrence + ops - (IF op = None THEN 0 ELSE 1)
  BY <1>1, Zenon DEF OccurrencesSuffice
<1>4. occ[s] \in 0..(LastOccurrence + MaxOps)
  BY <1>2, <1>3
<1>5. ASSUME NEW w \in Workers, cur[w] # None, cur[w].sched = s
      PROVE  cur[w].occ \in 0..(LastOccurrence + MaxOps)
  <2>1. cur[w] \in InFlight(w)
    BY <1>5, Zenon DEF InFlight
  <2>2. cur[w].occ \in Nat /\ cur[w].occ <= occ[s]
    BY <1>1, <1>5, <2>1, ClaimFacts, Zenon DEF BudgetInv, ClaimsAreCharged
  <2> QED
    BY <1>2, <1>4, <2>2
<1> QED
  BY <1>4, <1>5, Zenon DEF Occurrences, Occurrence

\* An enqueue makes a row unless its key is there, so its occurrence has one.
LEMMA EnqueueCounts ==
    ASSUME table \subseteq Occurrences,
           inserts \in [Occurrences -> Nat], burials \in [Occurrences -> Nat], RowsAreCounted,
           NEW o \in Occurrences, NEW n, EnqueueIdempotent(o, n), UNCHANGED burials
    PROVE  /\ table' \subseteq Occurrences /\ inserts' \in [Occurrences -> Nat]
           /\ burials' \in [Occurrences -> Nat] /\ RowsAreCounted'
           /\ inserts'[o] > 0 /\ \A p \in Occurrences : inserts[p] > 0 => inserts'[p] > 0
<1>1. table' = table \cup {o} /\ inserts' = IF o \in table THEN inserts ELSE [inserts EXCEPT ![o] = @ + 1]
  BY Zenon DEF EnqueueIdempotent, Derive
<1>2. \A p \in Occurrences : /\ inserts[p] \in Nat /\ burials[p] \in Nat
                             /\ inserts[p] = burials[p] + (IF p \in table THEN 1 ELSE 0)
  BY Zenon DEF RowsAreCounted
<1>3. CASE o \in table
  <2>1. table' = table /\ inserts' = inserts
    BY <1>1, <1>3, Zenon
  <2>2. inserts[o] > 0
    BY <1>2, <1>3
  <2> QED
    BY <2>1, <2>2, Zenon DEF RowsAreCounted
<1>4. CASE o \notin table
  <2>1. inserts' = [inserts EXCEPT ![o] = @ + 1]
    BY <1>1, <1>4, Zenon
  <2>2. inserts'[o] = inserts[o] + 1 /\ \A p \in Occurrences \ {o} : inserts'[p] = inserts[p]
    BY <2>1, Zenon
  <2>3. inserts' \in [Occurrences -> Nat]
    BY <2>1
  <2>4. RowsAreCounted'
    <3> SUFFICES ASSUME NEW p \in Occurrences
                 PROVE  inserts'[p] = burials'[p] + (IF p \in table' THEN 1 ELSE 0)
      BY Zenon DEF RowsAreCounted
    <3>1. CASE p = o
      BY <1>1, <1>2, <1>4, <2>2, <3>1
    <3>2. CASE p # o
      BY <1>1, <1>2, <2>2, <3>2, ZenonT(60)
    <3> QED
      BY <3>1, <3>2, Zenon
  <2>5. inserts'[o] > 0
    BY <1>2, <2>2
  <2> QED
    BY <1>1, <2>2, <2>3, <2>4, <2>5, Zenon
<1> QED
  BY <1>3, <1>4, Zenon

\* A commit that adds the row of o leaves nobody without theirs.
LEMMA HandoverCommit ==
    ASSUME HandoverInv, NEW o \in Occurrences, NEW n, EnqueueIdempotent(o, n),
           UNCHANGED <<vars, burials>>,
           enqueued' \subseteq Workers /\ late' \subseteq Occurrences,
           \A w \in enqueued' : w \in enqueued \/ (Targeted(w) /\ Occurrence(cur[w]) = o)
    PROVE  HandoverInv'
<1> USE DEF HandoverInv
<1>1. /\ table' \subseteq Occurrences /\ inserts' \in [Occurrences -> Nat]
      /\ burials' \in [Occurrences -> Nat] /\ RowsAreCounted'
      /\ inserts'[o] > 0 /\ \A p \in Occurrences : inserts[p] > 0 => inserts'[p] > 0
  BY EnqueueCounts, Zenon
<1>2. UNCHANGED <<pc, cur, outcome, occ, delivered, op, ops>>
  BY Zenon DEF vars, rowVars, flagVars, workerVars, opVars
<1>3. BudgetInv' /\ OccurrencesSuffice'
  BY <1>2, BudgetStep, Zenon DEF OccurrencesSuffice
<1>4. HandedOver'
  <2> SUFFICES ASSUME NEW s \in delivered \cap ToOutbox PROVE inserts'[<<s, occ[s]>>] > 0
    BY <1>2, Zenon DEF HandedOver
  <2>1. <<s, occ[s]>> \in Occurrences
    BY OccurrenceIsKnown, Zenon
  <2>2. inserts[<<s, occ[s]>>] > 0
    BY Zenon DEF HandedOver
  <2> QED
    BY <1>1, <2>1, <2>2, Zenon
<1>5. ASSUME NEW w \in Workers
      PROVE  /\ w \in enqueued' => Targeted(w)
             /\ outcome[w] = "ok" => pc[w] = "settling"
             /\ w \in enqueued' \/ (outcome[w] = "ok" /\ cur[w].sched \in ToOutbox)
                => inserts'[Occurrence(cur[w])] > 0
  <2>1. /\ w \in enqueued => Targeted(w)
        /\ outcome[w] = "ok" => pc[w] = "settling"
        /\ w \in enqueued \/ (outcome[w] = "ok" /\ cur[w].sched \in ToOutbox)
           => inserts[Occurrence(cur[w])] > 0
    BY Zenon DEF OkHasItsRow
  <2>2. Targeted(w) \/ (pc[w] = "settling" /\ cur[w].sched \in ToOutbox)
        => Occurrence(cur[w]) \in Occurrences
    <3>1. pc[w] \in {"dispatching", "settling"} => cur[w] # None
      BY Zenon DEF BudgetInv, LedgerInv, WorkerShape
    <3> QED
      BY <3>1, OccurrenceIsKnown, Zenon DEF Targeted
  <2> QED
    BY <1>1, <2>1, <2>2, Zenon
<1>6. OkHasItsRow'
  BY <1>2, <1>5, Zenon DEF OkHasItsRow, Targeted, Occurrence
<1> QED
  BY <1>1, <1>3, <1>4, <1>6, Zenon

LEMMA HandoverMoves ==
    ASSUME HandoverInv, SchedulerMoves
    PROVE  HandoverInv'
<1> USE DEF HandoverInv
<1>1. LedgerInv /\ LedgerInv' /\ BudgetInv' /\ Next /\ TypeOK /\ TypeOK'
  BY BudgetStep, Zenon DEF SchedulerMoves, BudgetInv, LedgerInv
<1>2. OccurrencesSuffice'
  BY <1>1, OccurrencesStep, Zenon
<1>3. /\ UNCHANGED <<table, inserts, burials>> /\ RowsAreCounted'
      /\ enqueued' = {w \in enqueued : pc'[w] = "dispatching"}
  BY Zenon DEF SchedulerMoves, RowsAreCounted
<1>4. late' \subseteq Occurrences
  <2> DEFINE ended == {w \in Workers \ enqueued : Targeted(w) /\ pc'[w] # "dispatching"}
  <2>1. \A w \in Workers : Targeted(w) => Occurrence(cur[w]) \in Occurrences
    <3>1. \A w \in Workers : pc[w] = "dispatching" => cur[w] # None
      BY <1>1, Zenon DEF LedgerInv, WorkerShape
    <3> QED
      BY <3>1, OccurrenceIsKnown, Zenon DEF Targeted
  <2>2. late' \in {late, late \cup {Occurrence(cur[w]) : w \in ended}}
    BY Zenon DEF SchedulerMoves
  <2>3. {Occurrence(cur[w]) : w \in ended} \subseteq Occurrences
    BY <2>1, Zenon
  <2> HIDE DEF ended
  <2> QED
    BY <2>2, <2>3, Zenon
<1>5. ASSUME NEW w \in Workers
      PROVE  /\ w \in enqueued' => Targeted(w)'
             /\ outcome'[w] = "ok" => pc'[w] = "settling"
             /\ w \in enqueued' \/ (outcome'[w] = "ok" /\ cur'[w].sched \in ToOutbox)
                => inserts'[Occurrence(cur'[w])] > 0
  <2>1. /\ w \in enqueued => Targeted(w)
        /\ outcome[w] = "ok" => pc[w] = "settling"
        /\ w \in enqueued \/ (outcome[w] = "ok" /\ cur[w].sched \in ToOutbox)
           => inserts[Occurrence(cur[w])] > 0
    BY Zenon DEF OkHasItsRow
  <2>2. CASE w \in enqueued'
    <3>1. w \in enqueued /\ pc'[w] = "dispatching" /\ pc[w] = "dispatching" /\ cur[w].sched \in ToOutbox
      BY <1>3, <2>1, <2>2, Zenon DEF Targeted
    <3>2. cur'[w] = cur[w]
      BY <1>1, <3>1, DispatchStep, Zenon
    <3>3. Targeted(w)'
      BY <3>1, <3>2, Zenon DEF Targeted
    <3>4. outcome'[w] # "ok"
      BY <1>1, <2>1, <3>1, DispatchStep
    <3> QED
      BY <1>3, <2>1, <3>1, <3>2, <3>3, <3>4, ZenonT(60)
  <2>3. CASE w \notin enqueued' /\ outcome'[w] = "ok"
    <3>1. \/ outcome[w] = "ok" /\ (pc[w] = "settling" => pc'[w] = "settling" /\ cur'[w] = cur[w])
          \/ pc[w] = "dispatching" /\ pc'[w] = "settling" /\ cur'[w] = cur[w]
      BY <1>1, <2>3, DispatchStep, Zenon
    <3>2. CASE outcome[w] = "ok"
      <4>1. pc'[w] = "settling" /\ cur'[w] = cur[w]
        BY <2>1, <3>1, <3>2
      <4> QED
        BY <1>3, <2>1, <2>3, <3>2, <4>1, ZenonT(60)
    <3>3. CASE outcome[w] # "ok"
      <4>1. pc[w] = "dispatching" /\ pc'[w] = "settling" /\ cur'[w] = cur[w]
        BY <3>1, <3>3, Zenon
      <4>2. MayReturnOk(w)
        BY <2>3, <3>3, Zenon DEF SchedulerMoves
      <4> QED
        BY <1>3, <2>1, <2>3, <4>1, <4>2, ZenonT(60) DEF MayReturnOk, Targeted
    <3> QED
      BY <3>2, <3>3, Zenon
  <2>4. CASE w \notin enqueued' /\ outcome'[w] # "ok"
    BY <2>4, Zenon
  <2> QED
    BY <2>2, <2>3, <2>4, Zenon
<1>6. OkHasItsRow'
  BY <1>5, Zenon DEF OkHasItsRow
<1>7. HandedOver'
  <2> SUFFICES ASSUME NEW s \in delivered', s \in ToOutbox PROVE inserts[<<s, occ'[s]>>] > 0
    BY <1>3, Zenon DEF HandedOver
  <2>1. CASE s \in delivered
    <3>1. occ'[s] = occ[s]
      BY <1>1, <2>1, DeliveredStays, Zenon
    <3> QED
      BY <2>1, <3>1, Zenon DEF HandedOver
  <2>2. CASE s \notin delivered
    <3>1. PICK w \in Workers : MarkDelivered(w) /\ s = cur[w].sched
      BY <1>1, <2>2, DeliveredBy, Zenon
    <3>2. /\ pc[w] = "settling" /\ outcome[w] = "ok" /\ holder[s] = w /\ UNCHANGED occ
      BY <3>1, Zenon DEF MarkDelivered, Settle, Fenced
    <3>3. cur[w] \in InFlight(w)
      BY <1>1, <3>2, Zenon DEF LedgerInv, WorkerShape, InFlight
    <3>4. cur[w].occ = occ[s]
      BY <1>1, <3>1, <3>2, <3>3, ZenonT(60) DEF LedgerInv, FenceNamesClaim
    <3>5. inserts[Occurrence(cur[w])] > 0
      BY <3>1, <3>2, Zenon DEF OkHasItsRow
    <3> QED
      BY <3>1, <3>2, <3>4, <3>5, Zenon DEF Occurrence
  <2> QED
    BY <2>1, <2>2, Zenon
<1>8. enqueued' \subseteq Workers
  BY <1>3, Zenon
<1> QED
  BY <1>1, <1>2, <1>3, <1>4, <1>6, <1>7, <1>8, Zenon

LEMMA HandoverStep ==
    ASSUME HandoverInv, [SONext]_allVars
    PROVE  HandoverInv'
<1> USE DEF HandoverInv
<1>1. ASSUME NEW w \in Workers, Enqueue(w) PROVE HandoverInv'
  <2>1. /\ Targeted(w) /\ EnqueueIdempotent(Occurrence(cur[w]), cur[w].attempts)
        /\ enqueued' = enqueued \cup {w} /\ UNCHANGED <<vars, late, burials>>
    BY <1>1, Zenon DEF Enqueue
  <2>2. Occurrence(cur[w]) \in Occurrences
    <3>1. cur[w] # None
      BY <2>1, Zenon DEF BudgetInv, LedgerInv, WorkerShape, Targeted
    <3> QED
      BY <2>1, <3>1, OccurrenceIsKnown, Zenon DEF Targeted
  <2>3. PICK o \in Occurrences : o = Occurrence(cur[w])
    BY <2>2, Zenon
  <2>4. PICK n : n = cur[w].attempts
    BY Zenon
  <2>5. EnqueueIdempotent(o, n)
    BY <2>1, <2>3, <2>4, Zenon
  <2>6. \A v \in enqueued' : v \in enqueued \/ (Targeted(v) /\ Occurrence(cur[v]) = o)
    BY <2>1, <2>3, Zenon
  <2>7. enqueued' \subseteq Workers /\ late' \subseteq Occurrences /\ UNCHANGED <<vars, burials>>
    BY <2>1, Zenon
  <2> QED
    BY <2>5, <2>6, <2>7, HandoverCommit, Zenon
<1>2. ASSUME NEW o \in Occurrences, LateCommit(o) PROVE HandoverInv'
  <2>1. /\ EnqueueIdempotent(o, MaxAttempts) /\ UNCHANGED <<vars, enqueued, burials>>
        /\ late' \subseteq late
    BY <1>2, Zenon DEF LateCommit
  <2>2. enqueued' \subseteq Workers /\ late' \subseteq Occurrences
        /\ \A w \in enqueued' : w \in enqueued
    BY <2>1, Zenon
  <2> QED
    BY <2>1, <2>2, HandoverCommit, Zenon
<1>3. ASSUME UNCHANGED <<vars, enqueued, inserts>>
      PROVE  BudgetInv' /\ OccurrencesSuffice' /\ OkHasItsRow' /\ HandedOver'
  <2>1. UNCHANGED <<pc, cur, outcome, occ, delivered, op, ops>>
    BY <1>3, Zenon DEF vars, rowVars, flagVars, workerVars, opVars
  <2>2. BudgetInv' /\ OccurrencesSuffice'
    BY <1>3, <2>1, BudgetStep, Zenon DEF OccurrencesSuffice
  <2>3. OkHasItsRow' /\ HandedOver'
    BY <1>3, <2>1, Zenon DEF OkHasItsRow, HandedOver, Targeted, Occurrence
  <2> QED
    BY <2>2, <2>3, Zenon
<1>4. ASSUME NEW o \in Occurrences, Bury(o) PROVE HandoverInv'
  <2>1. /\ o \in table /\ table' = table \ {o} /\ burials' = [burials EXCEPT ![o] = @ + 1]
        /\ UNCHANGED <<vars, enqueued, late, inserts>>
    BY <1>4, Zenon DEF Bury
  <2>2. burials'[o] = burials[o] + 1 /\ \A p \in Occurrences \ {o} : burials'[p] = burials[p]
    BY <2>1, Zenon
  <2>3. burials' \in [Occurrences -> Nat]
    BY <2>1
  <2>4. RowsAreCounted'
    <3> SUFFICES ASSUME NEW p \in Occurrences
                 PROVE  inserts[p] = burials'[p] + (IF p \in table' THEN 1 ELSE 0)
      BY <2>1, Zenon DEF RowsAreCounted
    <3>1. burials[p] \in Nat /\ inserts[p] = burials[p] + (IF p \in table THEN 1 ELSE 0)
      BY Zenon DEF RowsAreCounted
    <3>2. CASE p = o
      BY <2>1, <2>2, <3>1, <3>2
    <3>3. CASE p # o
      BY <2>1, <2>2, <3>1, <3>3
    <3> QED
      BY <3>2, <3>3, Zenon
  <2> QED
    BY <1>3, <2>1, <2>3, <2>4, Zenon
<1>5. CASE UNCHANGED allVars
  <2>1. UNCHANGED <<vars, table, enqueued, late, inserts, burials>>
    BY <1>5, Zenon DEF allVars, outboxVars
  <2> QED
    BY <1>3, <2>1, Zenon DEF RowsAreCounted
<1> QED
  BY <1>1, <1>2, <1>4, <1>5, HandoverMoves, Zenon DEF SONext

LEMMA HandoverInit == SOInit => HandoverInv
<1> SUFFICES ASSUME SOInit PROVE HandoverInv
  BY Zenon
<1>1. BudgetInv
  BY BudgetInit, Zenon DEF SOInit
<1>2. OccurrencesSuffice
  BY SchedulerConstants DEF SOInit, Init, OccurrencesSuffice
<1>3. RowsAreCounted
  <2>1. \A o \in Occurrences : inserts[o] = 0 /\ burials[o] = 0 /\ o \notin table
    BY Zenon DEF SOInit
  <2> QED
    BY <2>1 DEF RowsAreCounted
<1>4. OkHasItsRow /\ HandedOver
  <2>1. enqueued = {} /\ delivered = {} /\ \A w \in Workers : outcome[w] = "err"
    BY Zenon DEF SOInit, Init
  <2> QED
    BY <2>1 DEF OkHasItsRow, HandedOver
<1> QED
  BY <1>1, <1>2, <1>3, <1>4 DEF HandoverInv, SOInit

\* The books of the handover are kept in every behaviour.
THEOREM Handover == SOSpec => []HandoverInv
BY HandoverInit, HandoverStep, PTL DEF SOSpec

\* An occurrence is acknowledged only once its outbox row is committed.
THEOREM AcknowledgedIsHandedOver == SOSpec => []HandedOver
<1>1. HandoverInv => HandedOver
  BY Zenon DEF HandoverInv
<1> QED
  BY <1>1, Handover, PTL

\* Retries, timeouts and late commits make one row, until the outbox gives it up.
THEOREM HandoverIsIdempotent == SOSpec => []OneRowUnlessBuried
<1>1. ASSUME HandoverInv PROVE OneRowUnlessBuried
  <2> SUFFICES ASSUME NEW o \in Occurrences PROVE inserts[o] <= burials[o] + 1
    BY Zenon DEF OneRowUnlessBuried
  <2>1. burials[o] \in Nat /\ inserts[o] = burials[o] + (IF o \in table THEN 1 ELSE 0)
    BY <1>1, Zenon DEF HandoverInv, RowsAreCounted
  <2> QED
    BY <2>1
<1> QED
  BY <1>1, Handover, PTL

-----------------------------------------------------------------------------
(* The lease.                                                              *)

\* What a claim names.
LEMMA ClaimFields ==
    ASSUME NEW s, NEW o, NEW a
    PROVE  /\ [sched |-> s, occ |-> o, attempts |-> a].sched = s
           /\ [sched |-> s, occ |-> o, attempts |-> a].occ = o
BY SMT

\* A lease h that covers a dispatch with l to go and n more of d each covers the n
\* alone, and, when no dispatch runs, the first of them and the rest.
LEMMA LeaseShares ==
    ASSUME NEW h \in Nat, NEW l \in Nat, NEW n \in Nat, NEW d \in Nat, h >= l + n * d
    PROVE  h >= 0 + n * d /\ h >= l + (n - 1) * d /\ (~(l > 0) => h >= d + (n - 1) * d)
<1>1. n * d \in Nat /\ (n - 1) * d = n * d - d
  BY SMT
<1> QED
  BY <1>1, SMT

\* A worker that has yet to dispatch a claim, or is dispatching it in time, has
\* time left on its lease.
LEMMA TimedIsLeased ==
    ASSUME LeaseInv, NEW w \in Workers, NEW c \in Timed(w)
    PROVE  /\ c \in InFlight(w) /\ c \in Claim /\ c.sched \in Schedules
           /\ hold[w] \in Nat /\ hold[w] > 0
           /\ c \in todo[w] => hold[w] >= DispatchTimeout
<1> USE DEF LeaseInv, BudgetInv, LedgerInv
<1>1. TypeOK /\ WorkerShape /\ LeaseOutlastsBatch
  BY Zenon, ZenonT(60)
<1>2. hold[w] \in Nat /\ left[w] \in Nat /\ DispatchTimeout \in Nat /\ DispatchTimeout > 0
  BY <1>1, SchedulerConstants DEF TypeOK
<1>3. c \in todo[w] \/ (left[w] > 0 /\ c = cur[w])
  BY Zenon DEF Timed
<1>4. /\ pc[w] \in {"ready", "dispatching", "settling"}
      /\ c \in InFlight(w)
  <2>1. CASE c \in todo[w]
    <3>1. pc[w] \notin {"idle", "swept", "down"}
      BY <1>1, <2>1, ZenonT(60) DEF WorkerShape
    <3>2. pc[w] \in {"idle", "swept", "ready", "dispatching", "settling", "down"}
      BY <1>1, ZenonT(60) DEF TypeOK
    <3> QED
      BY <2>1, <3>1, <3>2, ZenonT(60) DEF InFlight
  <2>2. CASE left[w] > 0 /\ c = cur[w]
    <3>1. pc[w] = "dispatching" /\ cur[w] # None
      BY <1>1, <2>2, Zenon DEF WorkerShape, LeaseOutlastsBatch
    <3> QED
      BY <2>2, <3>1, Zenon DEF InFlight
  <2> QED
    BY <1>3, <2>1, <2>2, Zenon
<1>5. hold[w] >= left[w] + Cardinality(todo[w]) * DispatchTimeout /\ IsFiniteSet(todo[w])
  BY <1>1, <1>4, ZenonT(60) DEF LeaseOutlastsBatch
<1> DEFINE n == Cardinality(todo[w])
<1>6. n \in Nat /\ (c \in todo[w] => n > 0)
  <2>1. n \in Nat /\ (n = 0 => todo[w] = {})
    BY <1>5, FS_CardinalityType, FS_EmptySet, ZenonT(60)
  <2> QED
    BY <2>1
<1>7. \A m, d \in Nat : m * d \in Nat /\ (m > 0 => m * d >= d)
  OBVIOUS
<1>8. n * DispatchTimeout \in Nat /\ (c \in todo[w] => n * DispatchTimeout >= DispatchTimeout)
  BY <1>2, <1>6, <1>7, Zenon
<1>9. c \in Claim /\ c.sched \in Schedules
  BY <1>1, <1>4, ClaimFacts, Zenon
<1> HIDE DEF n
<1>10. hold[w] >= left[w] + n * DispatchTimeout
  BY <1>5, Zenon DEF n
<1>11. hold[w] > 0 /\ (c \in todo[w] => hold[w] >= DispatchTimeout)
  <2> DEFINE p == n * DispatchTimeout
  <2>1. p \in Nat /\ (c \in todo[w] => p >= DispatchTimeout) /\ hold[w] >= left[w] + p
    BY <1>8, <1>10, Zenon
  <2> HIDE DEF p
  <2> QED
    BY <1>2, <1>3, <2>1
<1> QED
  BY <1>2, <1>4, <1>9, <1>11, Zenon

\* A row without a lease is in nobody's batch at its current occurrence.
LEMMA UnleasedIsFree ==
    ASSUME LeaseInv, NEW w \in Workers, NEW c \in Timed(w), Live(c.sched), c.occ = occ[c.sched]
    PROVE  lease[c.sched] # 0
<1>1. lease[c.sched] = hold[w]
  BY Zenon DEF LeaseInv, LeaseOutlastsBatch
<1>2. hold[w] > 0
  BY TimedIsLeased, Zenon
<1> QED
  BY <1>1, <1>2

\* The claim a worker acknowledges is in no batch.
LEMMA FencedIsAlone ==
    ASSUME LeaseInv, NEW v \in Workers, pc[v] = "settling", Fenced(v),
           NEW w \in Workers, NEW c \in Timed(w), c.sched = cur[v].sched, c.occ = occ[c.sched]
    PROVE  FALSE
<1> USE DEF LeaseInv, BudgetInv, LedgerInv
<1>1. c \in InFlight(w) /\ c \in Claim
  BY TimedIsLeased, Zenon
<1>2. holder[c.sched] = v /\ Live(c.sched)
  BY Zenon DEF Fenced
<1>3. w = v
  BY <1>2, ZenonT(60) DEF LeaseOutlastsBatch
<1>4. cur[v] # None /\ cur[v] \in Claim
  <2>1. cur[v] # None
    BY Zenon DEF WorkerShape
  <2>2. cur[v] \in Claim \cup {None}
    BY Zenon DEF TypeOK
  <2> QED
    BY <2>1, <2>2, Zenon
<1>5. cur[v] \in InFlight(v)
  BY <1>4, Zenon DEF InFlight
<1>6. /\ c.occ = occ[c.sched] /\ c.attempts = attempts[c.sched]
      /\ cur[v].occ = occ[c.sched] /\ cur[v].attempts = attempts[c.sched]
  BY <1>1, <1>2, <1>3, <1>5, ZenonT(60) DEF FenceNamesClaim
<1>7. c = cur[v]
  BY <1>1, <1>4, <1>6, ClaimFacts, Zenon
<1>8. ~(left[v] > 0)
  BY Zenon DEF LeaseOutlastsBatch
<1> QED
  BY <1>3, <1>7, <1>8, ZenonT(60) DEF Timed, ClaimsAreCharged

\* The lease outlasts the batch through a step in which no worker gains a claim
\* or loses time, and the rows of those still in time keep their lease.
LEMMA LeaseFrame ==
    ASSUME LeaseInv, TypeOK', MaxOps = 0 => op' = None,
           \A w \in Workers :
              /\ IsFiniteSet(todo'[w]) /\ (left'[w] > 0 => pc'[w] = "dispatching")
              /\ pc'[w] \in {"ready", "dispatching", "settling"} =>
                    hold'[w] >= left'[w] + Cardinality(todo'[w]) * DispatchTimeout
              /\ Timed(w)' \subseteq Timed(w) /\ (Timed(w)' # {} => hold'[w] = hold[w])
              /\ \A c \in Timed(w)' :
                    Live(c.sched)' /\ c.occ = occ'[c.sched]
                    => /\ Live(c.sched) /\ c.occ = occ[c.sched]
                       /\ holder'[c.sched] = holder[c.sched] /\ lease'[c.sched] = lease[c.sched]
    PROVE  LeaseOutlastsBatch'
<1>1. ASSUME NEW w \in Workers, NEW c \in Timed(w)', Live(c.sched)', c.occ = occ'[c.sched]
      PROVE  holder'[c.sched] = w /\ lease'[c.sched] = hold'[w]
  <2>1. /\ Live(c.sched) /\ c.occ = occ[c.sched] /\ c \in Timed(w) /\ hold'[w] = hold[w]
        /\ holder'[c.sched] = holder[c.sched] /\ lease'[c.sched] = lease[c.sched]
    BY <1>1, Zenon
  <2> QED
    BY <2>1, ZenonT(60) DEF LeaseInv, LeaseOutlastsBatch
<1>2. \A v, w \in Workers : v # w =>
         \A c \in Timed(v)', d \in Timed(w)' : c.sched = d.sched => c.occ # d.occ
  <2>1. \A v, w \in Workers : v # w =>
           \A c \in Timed(v), d \in Timed(w) : c.sched = d.sched => c.occ # d.occ
    BY Zenon DEF LeaseInv, LeaseOutlastsBatch
  <2> SUFFICES ASSUME NEW v \in Workers, NEW w \in Workers, v # w, NEW c \in Timed(v)',
                      NEW d \in Timed(w)', c.sched = d.sched
               PROVE  c.occ # d.occ
    BY Zenon
  <2>2. c \in Timed(v) /\ d \in Timed(w) /\ v # w /\ c.sched = d.sched
    BY Zenon
  <2> QED
    BY <2>1, <2>2
<1> QED
  BY <1>1, <1>2, Zenon DEF LeaseOutlastsBatch

\* The same for a step that touches rows only.
LEMMA LeaseOfRows ==
    ASSUME LeaseInv, TypeOK', MaxOps = 0 => op' = None,
           UNCHANGED <<todo, cur, hold, left>>,
           \A w \in Workers : pc'[w] = pc[w] \/ (pc'[w] = "swept" /\ left[w] = 0),
           \A s \in Schedules :
              \/ ~Live(s)' \/ occ'[s] > occ[s] \/ s \notin rows
              \/ /\ occ'[s] = occ[s] /\ (Live(s)' => Live(s))
                 /\ \/ holder'[s] = holder[s] /\ lease'[s] = lease[s]
                    \/ lease[s] = 0
    PROVE  LeaseOutlastsBatch'
<1>1. \A w \in Workers : Timed(w)' = Timed(w)
  BY Zenon DEF Timed
<1>2. ASSUME NEW w \in Workers
      PROVE  /\ IsFiniteSet(todo'[w]) /\ (left'[w] > 0 => pc'[w] = "dispatching")
             /\ pc'[w] \in {"ready", "dispatching", "settling"} =>
                   hold'[w] >= left'[w] + Cardinality(todo'[w]) * DispatchTimeout
  <2>1. /\ IsFiniteSet(todo[w]) /\ (left[w] > 0 => pc[w] = "dispatching")
        /\ pc[w] \in {"ready", "dispatching", "settling"} =>
              hold[w] >= left[w] + Cardinality(todo[w]) * DispatchTimeout
    BY Zenon DEF LeaseInv, LeaseOutlastsBatch
  <2>2. CASE pc'[w] = pc[w]
    BY <2>1, <2>2, Zenon
  <2>3. CASE pc'[w] = "swept" /\ left[w] = 0
    BY <2>1, <2>3
  <2> QED
    BY <2>2, <2>3, Zenon
<1>3. ASSUME NEW w \in Workers, NEW c \in Timed(w)', Live(c.sched)', c.occ = occ'[c.sched]
      PROVE  /\ Live(c.sched) /\ c.occ = occ[c.sched]
             /\ holder'[c.sched] = holder[c.sched] /\ lease'[c.sched] = lease[c.sched]
  <2>1. c \in Timed(w) /\ c \in InFlight(w) /\ c \in Claim /\ c.sched \in Schedules
    BY <1>1, <1>3, TimedIsLeased, Zenon
  <2>2. c.sched \in rows /\ c.occ <= occ[c.sched]
    BY <2>1, ZenonT(60) DEF LeaseInv, BudgetInv, ClaimsAreCharged
  <2>3. occ'[c.sched] \in Nat /\ occ[c.sched] \in Nat
    BY <2>1, ZenonT(60) DEF LeaseInv, BudgetInv, LedgerInv, TypeOK
  <2>4. ~(occ'[c.sched] > occ[c.sched])
    BY <1>3, <2>2, <2>3
  <2>5. /\ Live(c.sched) /\ c.occ = occ[c.sched]
        /\ \/ holder'[c.sched] = holder[c.sched] /\ lease'[c.sched] = lease[c.sched]
           \/ lease[c.sched] = 0
    BY <1>3, <2>1, <2>2, <2>4, ZenonT(60)
  <2> QED
    BY <2>1, <2>5, UnleasedIsFree, Zenon
<1> QED
  BY <1>1, <1>2, <1>3, LeaseFrame, Zenon

LEMMA OneLess ==
    ASSUME NEW S, NEW x \in S, IsFiniteSet(S)
    PROVE  Cardinality(S \ {x}) = Cardinality(S) - 1
BY FS_RemoveElement, Zenon

\* The same for a step of one worker that touches no row.
LEMMA LeaseOfWorker ==
    ASSUME LeaseInv, TypeOK', NEW w \in Workers,
           UNCHANGED <<rows, occ, delivered, cancelled, dead, holder, lease, op>>,
           \A v \in Workers \ {w} :
              /\ pc'[v] = pc[v] /\ todo'[v] = todo[v] /\ cur'[v] = cur[v]
              /\ hold'[v] = hold[v] /\ left'[v] = left[v],
           todo'[w] \subseteq todo[w],
           left'[w] > 0 => pc'[w] = "dispatching" /\ cur'[w] \in Timed(w),
           hold'[w] = hold[w] \/ (todo'[w] = {} /\ left'[w] = 0),
           pc'[w] \in {"ready", "dispatching", "settling"} =>
              hold'[w] >= left'[w] + Cardinality(todo'[w]) * DispatchTimeout
    PROVE  LeaseOutlastsBatch'
<1>1. LeaseOutlastsBatch
  BY Zenon DEF LeaseInv
<1>2. \A s : Live(s)' <=> Live(s)
  BY Zenon DEF Live
<1>3. ASSUME NEW v \in Workers
      PROVE  /\ IsFiniteSet(todo'[v]) /\ (left'[v] > 0 => pc'[v] = "dispatching")
             /\ pc'[v] \in {"ready", "dispatching", "settling"} =>
                   hold'[v] >= left'[v] + Cardinality(todo'[v]) * DispatchTimeout
             /\ Timed(v)' \subseteq Timed(v) /\ (Timed(v)' # {} => hold'[v] = hold[v])
  <2>1. CASE v = w
    <3>1. IsFiniteSet(todo'[w])
      BY <1>1, FS_Subset, Zenon DEF LeaseOutlastsBatch
    <3>2. Timed(w)' \subseteq Timed(w)
      BY Zenon DEF Timed
    <3>3. Timed(w)' # {} => hold'[w] = hold[w]
      BY DEF Timed
    <3> QED
      BY <2>1, <3>1, <3>2, <3>3, ZenonT(60)
  <2>2. CASE v # w
    BY <1>1, <2>2, ZenonT(60) DEF LeaseOutlastsBatch, Timed
  <2> QED
    BY <2>1, <2>2, Zenon
<1>4. MaxOps = 0 => op' = None
  BY <1>1, Zenon DEF LeaseOutlastsBatch
<1>5. \A v \in Workers : \A c \in Timed(v)' :
         Live(c.sched)' /\ c.occ = occ'[c.sched]
         => /\ Live(c.sched) /\ c.occ = occ[c.sched]
            /\ holder'[c.sched] = holder[c.sched] /\ lease'[c.sched] = lease[c.sched]
  BY <1>2, Zenon
<1> QED
  BY <1>3, <1>4, <1>5, LeaseFrame, ZenonT(60)

LEMMA LeaseQuietSteps ==
    ASSUME LeaseInv, TypeOK', NEW w \in Workers,
           \/ ClaimFails(w) \/ SkipElapsed(w) \/ StartDispatch(w) \/ DispatchTimesOut(w)
           \/ \E result \in {"ok", "err"} : SinkReturns(w, result)
           \/ AckRefused(w) \/ AckFails(w) \/ EndCycle(w) \/ Crash(w) \/ Restart(w)
    PROVE  LeaseOutlastsBatch'
<1> DEFINE n == Cardinality(todo[w])
<1>1. TypeOK /\ TypeOK' /\ WorkerShape /\ LeaseOutlastsBatch
  BY Zenon DEF LeaseInv, BudgetInv, LedgerInv
<1>2. UNCHANGED <<rows, occ, delivered, cancelled, dead, holder, lease, op>>
  BY Zenon DEF ClaimFails, SkipElapsed, StartDispatch, DispatchTimesOut, SinkReturns, AckRefused,
     AckFails, Settle, EndCycle, Crash, Restart, rowVars, flagVars, opVars
<1>3. /\ DOMAIN pc = Workers /\ DOMAIN todo = Workers /\ DOMAIN cur = Workers
      /\ DOMAIN hold = Workers /\ DOMAIN left = Workers
  BY <1>1, Zenon DEF TypeOK
<1>4. /\ hold[w] \in Nat /\ left[w] \in Nat /\ DispatchTimeout \in Nat /\ DispatchTimeout > 0
      /\ IsFiniteSet(todo[w]) /\ n \in Nat
  <2>1. IsFiniteSet(todo[w])
    BY <1>1, Zenon DEF LeaseOutlastsBatch
  <2>2. DispatchTimeout \in Nat /\ DispatchTimeout > 0
    BY SchedulerConstants
  <2>3. n \in Nat
    BY <2>1, FS_CardinalityType, Zenon
  <2>4. hold[w] \in Nat /\ left[w] \in Nat
    BY <1>1, Zenon DEF TypeOK
  <2> QED
    BY <2>1, <2>2, <2>3, <2>4, ZenonT(60)
<1>5. /\ pc[w] \in {"ready", "dispatching", "settling"} => hold[w] >= left[w] + n * DispatchTimeout
      /\ left[w] > 0 => pc[w] = "dispatching"
  BY <1>1, Zenon DEF LeaseOutlastsBatch
<1>6. ASSUME pc[w] \in {"ready", "dispatching", "settling"}
      PROVE  /\ hold[w] >= 0 + n * DispatchTimeout
             /\ hold[w] >= left[w] + (n - 1) * DispatchTimeout
             /\ ~(left[w] > 0) => hold[w] >= DispatchTimeout + (n - 1) * DispatchTimeout
  <2>1. hold[w] >= left[w] + n * DispatchTimeout
    BY <1>5, <1>6, Zenon
  <2> HIDE DEF n
  <2> QED
    BY <1>4, <2>1, LeaseShares, Zenon
<1>7. /\ \A v \in Workers \ {w} :
            /\ pc'[v] = pc[v] /\ todo'[v] = todo[v] /\ cur'[v] = cur[v]
            /\ hold'[v] = hold[v] /\ left'[v] = left[v]
      /\ todo'[w] \subseteq todo[w]
      /\ left'[w] > 0 => pc'[w] = "dispatching" /\ cur'[w] \in Timed(w)
      /\ hold'[w] = hold[w] \/ (todo'[w] = {} /\ left'[w] = 0)
      /\ pc'[w] \in {"ready", "dispatching", "settling"} =>
            hold'[w] >= left'[w] + Cardinality(todo'[w]) * DispatchTimeout
  <2>1. CASE \/ ClaimFails(w) \/ Restart(w)
    <3>1. /\ pc[w] \in {"swept", "down"} /\ pc' = [pc EXCEPT ![w] = "idle"]
          /\ UNCHANGED <<todo, cur, hold, left>>
      BY <2>1, Zenon DEF ClaimFails, Restart
    <3>2. ~(left[w] > 0) /\ pc'[w] = "idle"
      BY <1>3, <1>5, <3>1, Zenon
    <3> QED
      BY <1>3, <3>1, <3>2, Zenon
  <2>2. CASE SkipElapsed(w)
    <3>1. PICK c \in todo[w] :
             todo' = [todo EXCEPT ![w] = @ \ {c}] /\ UNCHANGED <<pc, cur, hold, left>>
      BY <2>2, Zenon DEF SkipElapsed
    <3>2. pc[w] = "ready" /\ ~(left[w] > 0) /\ todo'[w] = todo[w] \ {c}
      BY <1>3, <1>5, <2>2, <3>1, ZenonT(60) DEF SkipElapsed
    <3>3. Cardinality(todo'[w]) = n - 1
      BY <1>4, <3>2, OneLess, ZenonT(60)
    <3>4. hold[w] >= left[w] + (n - 1) * DispatchTimeout
      BY <1>6, <3>2, Zenon
    <3> QED
      BY <1>3, <3>1, <3>2, <3>3, <3>4, ZenonT(60)
  <2>3. CASE StartDispatch(w)
    <3>1. PICK c \in todo[w] :
             todo' = [todo EXCEPT ![w] = @ \ {c}] /\ cur' = [cur EXCEPT ![w] = c]
      BY <2>3, Zenon DEF StartDispatch
    <3>2. /\ pc[w] = "ready" /\ ~(left[w] > 0) /\ todo'[w] = todo[w] \ {c} /\ cur'[w] = c
          /\ pc'[w] = "dispatching" /\ left'[w] = DispatchTimeout /\ UNCHANGED hold
          /\ \A v \in Workers \ {w} : pc'[v] = pc[v] /\ left'[v] = left[v]
      BY <1>3, <1>5, <2>3, <3>1, ZenonT(60) DEF StartDispatch
    <3>3. Cardinality(todo'[w]) = n - 1
      BY <1>4, <3>2, OneLess, Zenon
    <3>4. hold[w] >= DispatchTimeout + (n - 1) * DispatchTimeout
      BY <1>6, <3>2, Zenon
    <3>5. c \in Timed(w)
      BY Zenon DEF Timed
    <3> QED
      BY <1>3, <3>1, <3>2, <3>3, <3>4, <3>5, ZenonT(60)
  <2>4. CASE DispatchTimesOut(w) \/ \E result \in {"ok", "err"} : SinkReturns(w, result)
    <3>1. /\ pc[w] = "dispatching" /\ pc' = [pc EXCEPT ![w] = "settling"]
          /\ UNCHANGED <<todo, cur, hold>> /\ left'[w] = 0
          /\ \A v \in Workers \ {w} : left'[v] = left[v]
      BY <1>3, <2>4, Zenon DEF DispatchTimesOut, SinkReturns
    <3>2. hold[w] >= 0 + n * DispatchTimeout
      BY <1>6, <3>1, Zenon
    <3>3. ~(0 > 0)
      OBVIOUS
    <3> QED
      BY <1>3, <3>1, <3>2, <3>3, ZenonT(60)
  <2>5. CASE AckRefused(w) \/ AckFails(w)
    <3>1. /\ pc[w] = "settling" /\ pc' = [pc EXCEPT ![w] = "ready"]
          /\ UNCHANGED <<todo, hold, left>> /\ \A v \in Workers \ {w} : cur'[v] = cur[v]
      BY <1>3, <2>5, ZenonT(60) DEF AckRefused, AckFails, Settle
    <3>2. ~(left[w] > 0) /\ hold[w] >= left[w] + n * DispatchTimeout
      BY <1>5, <3>1, ZenonT(60)
    <3> QED
      BY <1>3, <3>1, <3>2, ZenonT(60)
  <2>6. CASE EndCycle(w)
    <3>1. pc[w] = "ready" /\ todo[w] = {} /\ UNCHANGED <<todo, cur, left>> /\ pc'[w] = "idle"
      BY <1>3, <2>6, ZenonT(60) DEF EndCycle
    <3>2. ~(left[w] > 0) /\ left[w] = 0
      BY <1>4, <1>5, <3>1
    <3> QED
      BY <1>3, <2>6, <3>1, <3>2, ZenonT(60) DEF EndCycle
  <2>7. CASE Crash(w)
    <3>1. ~(0 > 0)
      OBVIOUS
    <3> QED
      BY <1>3, <2>7, <3>1, ZenonT(60) DEF Crash
  <2> QED
    BY <2>1, <2>2, <2>3, <2>4, <2>5, <2>6, <2>7, ZenonT(60)
<1> QED
  BY <1>1, <1>2, <1>7, LeaseOfWorker, Zenon

LEMMA LeaseAck ==
    ASSUME LeaseInv, TypeOK', NEW w \in Workers,
           MarkDelivered(w) \/ Reschedule(w) \/ MarkFailed(w) \/ MarkDeadLettered(w)
    PROVE  LeaseOutlastsBatch'
<1>1. TypeOK /\ WorkerShape /\ LeaseOutlastsBatch
  BY Zenon DEF LeaseInv, BudgetInv, LedgerInv
<1>2. /\ pc[w] = "settling" /\ Fenced(w) /\ UNCHANGED <<todo, hold, left, rows, op>>
      /\ DOMAIN pc = Workers /\ DOMAIN cur = Workers
      /\ pc' = [pc EXCEPT ![w] = "ready"] /\ cur' = [cur EXCEPT ![w] = None]
  BY <1>1, Zenon DEF MarkDelivered, Reschedule, MarkFailed, MarkDeadLettered, Settle, TypeOK, opVars
<1>3. cur[w].sched \in Schedules /\ ~(left[w] > 0)
  <2>1. cur[w] # None /\ cur[w] \in Claim \cup {None} /\ ~(left[w] > 0)
    <3>1. cur[w] # None
      BY <1>1, <1>2, Zenon DEF WorkerShape
    <3>2. ~(left[w] > 0)
      BY <1>1, <1>2, ZenonT(60) DEF LeaseOutlastsBatch
    <3>3. cur[w] \in Claim \cup {None}
      BY <1>1, Zenon DEF TypeOK
    <3> QED
      BY <3>1, <3>2, <3>3, Zenon
  <2> QED
    BY <2>1, Zenon DEF Claim
<1>4. \A v \in Workers : Timed(v)' = Timed(v)
  BY <1>2, <1>3, Zenon DEF Timed
<1>s. PICK s \in Schedules : s = cur[w].sched
  BY <1>3, Zenon
<1>5. \A r \in Schedules \ {s} :
         /\ occ'[r] = occ[r] /\ (Live(r)' => Live(r))
         /\ holder'[r] = holder[r] /\ lease'[r] = lease[r]
  <2>1. CASE MarkDelivered(w) \/ MarkDeadLettered(w)
    <3>1. Release({s}) /\ UNCHANGED <<rows, cancelled, occ>> /\ delivered \subseteq delivered' /\ dead \subseteq dead'
      BY <1>s, <2>1, ZenonT(60) DEF MarkDelivered, MarkDeadLettered, Settle
    <3> QED
      BY <3>1, Zenon DEF Release, Live
  <2>2. CASE Reschedule(w)
    <3>1. occ' = [occ EXCEPT ![s] = @ + 1] /\ Release({s})
      BY <1>s, <2>2, ZenonT(60) DEF Reschedule, Advance, Realign
    <3>2. UNCHANGED <<rows, delivered, cancelled, dead>> /\ DOMAIN occ = Schedules
      BY <1>1, <2>2, ZenonT(60) DEF Reschedule, Settle, TypeOK
    <3>3. \A r \in Schedules \ {s} : occ'[r] = occ[r]
      BY <3>1, <3>2, Zenon
    <3> QED
      BY <3>1, <3>2, <3>3, ZenonT(60) DEF Release, Live
  <2>3. CASE MarkFailed(w)
    <3>1. PICK d : lease' = [lease EXCEPT ![s] = d]
      BY <1>s, <2>3, Zenon DEF MarkFailed
    <3>2. UNCHANGED <<rows, delivered, cancelled, dead, occ>> /\ holder' = [holder EXCEPT ![s] = None]
      BY <1>s, <2>3, Zenon DEF MarkFailed, Settle
    <3>3. DOMAIN lease = Schedules /\ DOMAIN holder = Schedules
      BY <1>1, ZenonT(60) DEF TypeOK
    <3> QED
      BY <3>1, <3>2, <3>3, Zenon DEF Live
  <2> QED
    BY <2>1, <2>2, <2>3, Zenon
<1>6. ASSUME NEW v \in Workers, NEW c \in Timed(v), c.sched = s, Live(s)', c.occ = occ'[s]
      PROVE  FALSE
  <2>1. c.occ # occ[s]
    BY <1>2, <1>s, <1>6, FencedIsAlone, Zenon
  <2>2. CASE MarkDelivered(w) \/ MarkDeadLettered(w) \/ MarkFailed(w)
    <3>1. UNCHANGED occ
      BY <2>2, Zenon DEF MarkDelivered, MarkDeadLettered, MarkFailed
    <3> QED
      BY <1>6, <2>1, <3>1, ZenonT(60)
  <2>3. CASE Reschedule(w)
    <3>0. occ' = [occ EXCEPT ![s] = @ + 1] /\ occ \in [Schedules -> Nat]
      BY <1>1, <1>s, <2>3, ZenonT(60) DEF Reschedule, Advance, Realign, TypeOK
    <3>1. occ'[s] = occ[s] + 1 /\ occ[s] \in Nat
      BY <3>0, Zenon
    <3>2. c \in InFlight(v) /\ c \in Claim
      BY <1>6, TimedIsLeased, Zenon
    <3>3. c.occ <= occ[s] /\ c.occ \in Nat
      BY <1>1, <1>6, <3>2, ClaimFacts, ZenonT(60) DEF LeaseInv, BudgetInv, ClaimsAreCharged
    <3> QED
      BY <1>6, <3>1, <3>3
  <2> QED
    BY <2>2, <2>3, Zenon
<1>7. \A v \in Workers : \A c \in Timed(v)' :
         Live(c.sched)' /\ c.occ = occ'[c.sched]
         => /\ Live(c.sched) /\ c.occ = occ[c.sched]
            /\ holder'[c.sched] = holder[c.sched] /\ lease'[c.sched] = lease[c.sched]
  <2> SUFFICES ASSUME NEW v \in Workers, NEW c \in Timed(v), Live(c.sched)', c.occ = occ'[c.sched]
               PROVE  /\ Live(c.sched) /\ c.occ = occ[c.sched]
                      /\ holder'[c.sched] = holder[c.sched] /\ lease'[c.sched] = lease[c.sched]
    BY <1>4, Zenon
  <2>1. c.sched \in Schedules
    BY TimedIsLeased, Zenon
  <2>2. ASSUME c.sched = s PROVE FALSE
    <3>1. Live(s)' /\ c.occ = occ'[s]
      BY <2>2, Zenon
    <3> QED
      BY <1>6, <2>2, <3>1, ZenonT(60)
  <2> QED
    BY <1>5, <2>1, <2>2, ZenonT(60)
<1>8. ASSUME NEW v \in Workers
      PROVE  /\ IsFiniteSet(todo'[v]) /\ (left'[v] > 0 => pc'[v] = "dispatching")
             /\ pc'[v] \in {"ready", "dispatching", "settling"} =>
                   hold'[v] >= left'[v] + Cardinality(todo'[v]) * DispatchTimeout
  <2>1. /\ IsFiniteSet(todo[v]) /\ (left[v] > 0 => pc[v] = "dispatching")
        /\ pc[v] \in {"ready", "dispatching", "settling"} =>
              hold[v] >= left[v] + Cardinality(todo[v]) * DispatchTimeout
    BY <1>1, Zenon DEF LeaseOutlastsBatch
  <2>2. CASE v = w
    BY <1>2, <1>3, <2>1, <2>2, ZenonT(60)
  <2>3. CASE v # w
    BY <1>2, <2>1, <2>3, Zenon
  <2> QED
    BY <2>2, <2>3, Zenon
<1>9. MaxOps = 0 => op' = None
  BY <1>1, <1>2, Zenon DEF LeaseOutlastsBatch
<1> QED
  BY <1>2, <1>4, <1>7, <1>8, <1>9, LeaseFrame, ZenonT(60)

\* Operators, inserts and the sweep leave a held lease alone, or the row is done
\* with or at another occurrence: the in-memory store's resume does, and so does
\* a store that nobody commands.
LEMMA LeaseRowSteps ==
    ASSUME LeaseInv, TypeOK', LeasesAreKept,
           OperatorStep \/ (\E s \in Schedules : Insert(s)) \/ \E w \in Workers : Sweep(w)
    PROVE  LeaseOutlastsBatch'
<1>1. TypeOK /\ LeaseOutlastsBatch
  BY Zenon DEF LeaseInv, BudgetInv, LedgerInv
<1>2. \A r \in Schedules : occ[r] \in Nat
  BY <1>1, Zenon DEF TypeOK
<1>3. UNCHANGED <<todo, cur, hold, left>>
  BY Zenon DEF OperatorStep, Cancel, Pause, ResumeInspects, Replay, ResumeApplies, Command, Insert,
     Sweep, workerVars
<1>4. MaxOps = 0 => op' = None /\ ~ResumeApplies
  <2>1. CASE MaxOps = 0
    <3>1. op = None /\ ~(ops < MaxOps)
      BY <1>1, <2>1 DEF LeaseOutlastsBatch, TypeOK
    <3> QED
      BY <3>1, ZenonT(60) DEF OperatorStep, Cancel, Pause, ResumeInspects, Replay, ResumeApplies, Command,
         Insert, Sweep, opVars
  <2> QED
    BY <2>1, Zenon
<1>5. \A w \in Workers : pc'[w] = pc[w] \/ (pc'[w] = "swept" /\ left[w] = 0)
  <2>1. ASSUME NEW w \in Workers, Sweep(w)
        PROVE  \A v \in Workers : pc'[v] = pc[v] \/ (pc'[v] = "swept" /\ left[v] = 0)
    <3>1. pc[w] = "idle" /\ pc' = [pc EXCEPT ![w] = "swept"] /\ DOMAIN pc = Workers
      BY <1>1, <2>1, ZenonT(60) DEF Sweep, TypeOK
    <3>2. ~(left[w] > 0)
      BY <1>1, <3>1, ZenonT(60) DEF LeaseOutlastsBatch
    <3>3. left[w] = 0
      BY <1>1, <3>2 DEF TypeOK
    <3> QED
      BY <3>1, <3>3, ZenonT(60)
  <2>2. ASSUME OperatorStep \/ \E s \in Schedules : Insert(s)
        PROVE  UNCHANGED pc
    BY <2>2, Zenon DEF OperatorStep, Cancel, Pause, ResumeInspects, Replay, ResumeApplies, Command,
       Insert, workerVars
  <2>3. CASE \E w \in Workers : Sweep(w)
    BY <2>1, <2>3, Zenon
  <2>4. CASE OperatorStep \/ \E s \in Schedules : Insert(s)
    BY <2>2, <2>4, Zenon
  <2> QED
    BY <2>3, <2>4, Zenon
<1>6. ASSUME NEW s \in Schedules, NEW d, Realign(s, d), NEW r \in Schedules
      PROVE  (r = s => occ'[r] > occ[r]) /\ (r # s => occ'[r] = occ[r])
  <2>1. occ' = [occ EXCEPT ![s] = @ + 1] /\ DOMAIN occ = Schedules
    BY <1>1, <1>6, ZenonT(60) DEF Realign, TypeOK
  <2> QED
    BY <1>2, <2>1
<1> DEFINE RowKept(r) ==
        \/ ~Live(r)' \/ occ'[r] > occ[r] \/ r \notin rows
        \/ /\ occ'[r] = occ[r] /\ (Live(r)' => Live(r))
           /\ \/ holder'[r] = holder[r] /\ lease'[r] = lease[r]
              \/ lease[r] = 0
<1>7. ASSUME NEW r \in Schedules PROVE RowKept(r)
  <2>1. ASSUME NEW s \in Schedules, Insert(s) \/ Pause(s) \/ ResumeInspects(s)
        PROVE  RowKept(r)
    <3>1. UNCHANGED <<occ, holder, lease, delivered, cancelled, dead>>
      BY <2>1, Zenon DEF Insert, Pause, ResumeInspects, rowVars, flagVars
    <3>2. r \in rows /\ Live(r)' => Live(r)
      BY <3>1, Zenon DEF Live
    <3> QED
      BY <3>1, <3>2, Zenon
  <2>2. ASSUME NEW w \in Workers, Sweep(w) PROVE RowKept(r)
    <3>1. CASE r \in rows /\ Sweepable(r)
      BY <2>2, <3>1, Zenon DEF Sweep, Live
    <3>2. CASE ~(r \in rows /\ Sweepable(r))
      BY <2>2, <3>2, Zenon DEF Sweep, Release, Live
    <3> QED
      BY <3>1, <3>2, Zenon
  <2>3. ASSUME NEW s \in Schedules, Cancel(s) PROVE RowKept(r)
    BY <2>3, Zenon DEF Cancel, Release, Live
  <2>4. ASSUME NEW s \in Schedules, Replay(s) PROVE RowKept(r)
    <3>1. Realign(s, 0) /\ Release({s}) /\ dead' = dead \ {s} /\ UNCHANGED <<rows, delivered, cancelled>>
      BY <2>4, Zenon DEF Replay, Advance
    <3>2. CASE r = s
      BY <1>6, <3>1, <3>2, Zenon
    <3>3. CASE r # s
      BY <1>6, <3>1, <3>3, ZenonT(60) DEF Release, Live
    <3> QED
      BY <3>2, <3>3, Zenon
  <2>5. CASE ResumeApplies
    <3>1. Store = "Memory" /\ op.sched \in Schedules
      BY <1>1, <1>4, <2>5, ZenonT(60) DEF LeasesAreKept, ResumeApplies, TypeOK, Resumption
    <3>2. UNCHANGED <<rows, delivered, cancelled, dead>>
      BY <2>5, Zenon DEF ResumeApplies
    <3>3. CASE Live(op.sched) /\ op.sched \in paused /\ op.next
      <4>1. Realign(op.sched, op.wait) /\ Release({op.sched})
        BY <2>5, <3>3, Zenon DEF ResumeApplies, ResumeReleases
      <4>2. CASE r = op.sched
        BY <1>6, <3>1, <4>1, <4>2, ZenonT(60)
      <4>3. CASE r # op.sched
        BY <1>6, <3>1, <3>2, <4>1, <4>3, ZenonT(60) DEF Release, Live
      <4> QED
        BY <4>2, <4>3, Zenon
    <3>4. CASE ~(Live(op.sched) /\ op.sched \in paused /\ op.next)
      <4>1. ~(Live(op.sched) /\ op.sched \in paused) \/ ~ResumeReleases(op.next)
        BY <3>1, <3>4, ZenonT(60) DEF ResumeReleases
      <4>2. UNCHANGED <<occ, holder, lease>>
        BY <2>5, <3>4, <4>1, ZenonT(60) DEF ResumeApplies
      <4> QED
        BY <3>2, <4>2, Zenon DEF Live
    <3> QED
      BY <3>3, <3>4, ZenonT(60)
  <2> QED
    BY <2>1, <2>2, <2>3, <2>4, <2>5, ZenonT(60) DEF OperatorStep
<1> QED
  BY <1>3, <1>4, <1>5, <1>7, LeaseOfRows, ZenonT(60)

\* Nobody claims a row that somebody has in time.
LEMMA ClaimTakesFreeRows ==
    ASSUME LeaseInv, NEW w \in Workers, NEW batch \in SUBSET rows, ClaimRows(w, batch),
           NEW v \in Workers, NEW c \in Timed(v), c.sched \in batch
    PROVE  c.occ # occ[c.sched]
<1>1. Eligible(c.sched)
  BY Zenon DEF ClaimRows
<1>2. Live(c.sched) /\ lease[c.sched] = 0
  BY <1>1, Zenon DEF Eligible
<1> QED
  BY <1>2, UnleasedIsFree, Zenon

LEMMA LeaseClaim ==
    ASSUME LeaseInv, TypeOK', NEW w \in Workers, ClaimDue(w) \/ ClaimLost(w)
    PROVE  LeaseOutlastsBatch'
<1>1. TypeOK /\ WorkerShape /\ LeaseOutlastsBatch
  BY Zenon DEF LeaseInv, BudgetInv, LedgerInv
<1>2. PICK batch \in SUBSET rows :
         /\ ClaimRows(w, batch)
         /\ \/ /\ todo' = [todo EXCEPT ![w] =
                         {[sched |-> s, occ |-> occ[s], attempts |-> attempts'[s]] : s \in batch}]
               /\ hold' = [hold EXCEPT ![w] = IF batch = {} THEN 0 ELSE Lease]
               /\ pc' = [pc EXCEPT ![w] = "ready"]
            \/ UNCHANGED <<todo, hold>> /\ pc' = [pc EXCEPT ![w] = "idle"]
  BY Zenon DEF ClaimDue, ClaimLost
<1>3. /\ UNCHANGED <<rows, delivered, cancelled, dead, occ, cur, left, op>>
      /\ \A s \in Schedules : lease'[s] = IF s \in batch THEN Lease ELSE lease[s]
      /\ \A s \in Schedules : holder'[s] = IF s \in batch THEN w ELSE holder[s]
  <2>1. UNCHANGED <<rows, delivered, cancelled, dead, occ, cur, left, op>>
    BY <1>2, Zenon DEF ClaimRows, flagVars, opVars
  <2>2. /\ lease' = [s \in Schedules |-> IF s \in batch THEN Lease ELSE lease[s]]
        /\ holder' = [s \in Schedules |-> IF s \in batch THEN w ELSE holder[s]]
    BY <1>2, ZenonT(60) DEF ClaimRows
  <2> QED
    BY <2>1, <2>2, Zenon
<1>4. /\ pc[w] = "swept" /\ todo[w] = {} /\ ~(left[w] > 0) /\ left[w] = 0
      /\ DOMAIN pc = Workers /\ DOMAIN todo = Workers /\ DOMAIN hold = Workers
  <2>1. pc[w] = "swept"
    BY Zenon DEF ClaimDue, ClaimLost
  <2>2. todo[w] = {} /\ ~(left[w] > 0)
    BY <1>1, <2>1, ZenonT(60) DEF WorkerShape, LeaseOutlastsBatch
  <2>3. left[w] \in Nat /\ DOMAIN pc = Workers /\ DOMAIN todo = Workers /\ DOMAIN hold = Workers
    BY <1>1, Zenon DEF TypeOK
  <2> QED
    BY <2>1, <2>2, <2>3
<1>5. \A s : Live(s)' <=> Live(s)
  BY <1>3, Zenon DEF Live
<1>6. \A v \in Workers \ {w} :
         /\ pc'[v] = pc[v] /\ todo'[v] = todo[v] /\ hold'[v] = hold[v]
         /\ Timed(v)' = Timed(v)
  <2>1. \A v \in Workers \ {w} : pc'[v] = pc[v] /\ todo'[v] = todo[v] /\ hold'[v] = hold[v]
    BY <1>2, <1>4, Zenon
  <2> QED
    BY <1>3, <2>1, Zenon DEF Timed
<1>7. Timed(w)' = todo'[w]
  BY <1>3, <1>4, Zenon DEF Timed
<1>8. \A c \in todo'[w] : c.sched \in batch /\ c.occ = occ[c.sched] /\ hold'[w] = Lease
  <2>1. CASE UNCHANGED todo
    BY <1>4, <2>1, Zenon
  <2>2. CASE /\ todo' = [todo EXCEPT ![w] =
                    {[sched |-> s, occ |-> occ[s], attempts |-> attempts'[s]] : s \in batch}]
             /\ hold' = [hold EXCEPT ![w] = IF batch = {} THEN 0 ELSE Lease]
    <3>1. /\ todo'[w] = {[sched |-> s, occ |-> occ[s], attempts |-> attempts'[s]] : s \in batch}
          /\ hold'[w] = IF batch = {} THEN 0 ELSE Lease
      BY <1>4, <2>2, Zenon
    <3>2. ASSUME NEW c \in todo'[w]
          PROVE  c.sched \in batch /\ c.occ = occ[c.sched] /\ hold'[w] = Lease
      <4>1. PICK s \in batch : c = [sched |-> s, occ |-> occ[s], attempts |-> attempts'[s]]
        BY <3>1, <3>2, Zenon
      <4>2. c.sched = s /\ c.occ = occ[s]
        BY <4>1, ClaimFields, Zenon
      <4> QED
        BY <3>1, <4>2, Zenon
    <3> QED
      BY <3>2, Zenon
  <2> QED
    BY <1>2, <2>1, <2>2, ZenonT(60)
<1>9. ASSUME NEW v \in Workers, NEW c \in Timed(v)', Live(c.sched)', c.occ = occ'[c.sched]
      PROVE  holder'[c.sched] = v /\ lease'[c.sched] = hold'[v]
  <2>1. CASE v = w
    <3>1. c.sched \in batch /\ hold'[w] = Lease
      BY <1>7, <1>8, <1>9, <2>1, ZenonT(60)
    <3>2. c.sched \in Schedules
      BY <1>1, <3>1, ZenonT(60) DEF TypeOK
    <3>3. lease'[c.sched] = Lease /\ holder'[c.sched] = w
      BY <1>3, <3>1, <3>2, ZenonT(60)
    <3> QED
      BY <2>1, <3>1, <3>3, Zenon
  <2>2. CASE v # w
    <3>1. c \in Timed(v) /\ c.sched \in Schedules /\ Live(c.sched) /\ c.occ = occ[c.sched]
      BY <1>3, <1>5, <1>6, <1>9, <2>2, TimedIsLeased, ZenonT(60)
    <3>2. c.sched \notin batch
      BY <1>2, <3>1, ClaimTakesFreeRows, ZenonT(60)
    <3>3. holder[c.sched] = v /\ lease[c.sched] = hold[v]
      BY <1>1, <3>1, ZenonT(60) DEF LeaseOutlastsBatch
    <3>4. lease'[c.sched] = lease[c.sched] /\ holder'[c.sched] = holder[c.sched]
      BY <1>3, <3>1, <3>2, ZenonT(60)
    <3> QED
      BY <1>6, <2>2, <3>3, <3>4, ZenonT(60)
  <2> QED
    BY <2>1, <2>2, Zenon
<1>10. ASSUME NEW v \in Workers \ {w}, NEW c \in todo'[w], NEW d \in Timed(v)', c.sched = d.sched
       PROVE  c.occ # d.occ
  <2>1. d \in Timed(v) /\ d.sched \in batch
    BY <1>6, <1>8, <1>10, Zenon
  <2> QED
    BY <1>2, <1>8, <1>10, <2>1, ClaimTakesFreeRows, ZenonT(60)
<1>11. \A u, v \in Workers : u # v =>
          \A c \in Timed(u)', d \in Timed(v)' : c.sched = d.sched => c.occ # d.occ
  <2> SUFFICES ASSUME NEW u \in Workers, NEW v \in Workers, u # v, NEW c \in Timed(u)',
                      NEW d \in Timed(v)', c.sched = d.sched
               PROVE  c.occ # d.occ
    BY Zenon
  <2>1. CASE u = w
    BY <1>7, <1>10, <2>1, ZenonT(60)
  <2>2. CASE v = w
    BY <1>7, <1>10, <2>2, ZenonT(60)
  <2>3. CASE u # w /\ v # w
    <3>1. c \in Timed(u) /\ d \in Timed(v)
      BY <1>6, <2>3, Zenon
    <3> QED
      BY <1>1, <3>1, ZenonT(60) DEF LeaseOutlastsBatch
  <2> QED
    BY <2>1, <2>2, <2>3, Zenon
<1>12. /\ IsFiniteSet(todo'[w])
       /\ pc'[w] = "ready" => hold'[w] >= 0 + Cardinality(todo'[w]) * DispatchTimeout
  <2> DEFINE n == Cardinality(todo'[w])
  <2>1. CASE UNCHANGED todo /\ pc' = [pc EXCEPT ![w] = "idle"]
    BY <1>4, <2>1, FS_EmptySet, Zenon
  <2>2. CASE /\ todo' = [todo EXCEPT ![w] =
                    {[sched |-> s, occ |-> occ[s], attempts |-> attempts'[s]] : s \in batch}]
             /\ hold' = [hold EXCEPT ![w] = IF batch = {} THEN 0 ELSE Lease]
    <3> DEFINE f == [s \in batch |-> [sched |-> s, occ |-> occ[s], attempts |-> attempts'[s]]]
    <3>1. /\ todo'[w] = {[sched |-> s, occ |-> occ[s], attempts |-> attempts'[s]] : s \in batch}
          /\ hold'[w] = IF batch = {} THEN 0 ELSE Lease
      BY <1>4, <2>2, Zenon
    <3>2. IsFiniteSet(batch) /\ Cardinality(batch) \in Nat /\ Cardinality(batch) <= BatchSize
      <4>1. IsFiniteSet(batch)
        BY <1>1, FS_Subset, SchedulerConstants, ZenonT(60) DEF TypeOK
      <4>2. Cardinality(batch) \in Nat
        BY <4>1, FS_CardinalityType, ZenonT(60)
      <4>3. Cardinality(batch) = BatchSize \/ Cardinality(batch) < BatchSize
        BY <1>2, Zenon DEF ClaimRows
      <4> QED
        BY <4>1, <4>2, <4>3, SchedulerConstants
    <3>3. f \in Surjection(batch, todo'[w])
      BY <3>1, Zenon DEF Surjection
    <3> HIDE DEF f
    <3>4. IsFiniteSet(todo'[w]) /\ n <= Cardinality(batch)
      BY <3>2, <3>3, FS_Surjection, ZenonT(60)
    <3>5. n \in Nat
      BY <3>4, FS_CardinalityType, ZenonT(60)
    <3>6. CASE batch = {}
      <4>1. todo'[w] = {} /\ hold'[w] = 0
        BY <3>1, <3>6, Zenon
      <4>2. n = 0
        BY <4>1, FS_EmptySet, Zenon
      <4> QED
        BY <3>4, <4>1, <4>2, SchedulerConstants
    <3>7. CASE batch # {}
      <4>1. hold'[w] = Lease
        BY <3>1, <3>7, ZenonT(60)
      <4>2. n <= BatchSize /\ BatchSize \in Nat /\ DispatchTimeout \in Nat /\ Lease \in Nat
        BY <3>2, <3>4, <3>5, SchedulerConstants
      <4> HIDE DEF n
      <4>3. n * DispatchTimeout <= BatchSize * DispatchTimeout
        BY <3>5, <4>2
      <4>4. Lease >= BatchSize * DispatchTimeout
        BY SchedulerConstants, Zenon DEF LeaseCoversBatch
      <4>5. n * DispatchTimeout \in Nat /\ BatchSize * DispatchTimeout \in Nat
        BY <3>5, <4>2
      <4>6. Lease >= 0 + n * DispatchTimeout
        BY <4>2, <4>3, <4>4, <4>5
      <4> QED
        BY <3>4, <4>1, <4>6, Zenon DEF n
    <3> QED
      BY <3>6, <3>7, ZenonT(60)
  <2> QED
    BY <1>2, <2>1, <2>2, Zenon
<1>13. ASSUME NEW v \in Workers
       PROVE  /\ IsFiniteSet(todo'[v]) /\ (left'[v] > 0 => pc'[v] = "dispatching")
              /\ pc'[v] \in {"ready", "dispatching", "settling"} =>
                    hold'[v] >= left'[v] + Cardinality(todo'[v]) * DispatchTimeout
  <2>1. CASE v = w
    <3>1. pc'[w] = "ready" \/ pc'[w] = "idle"
      BY <1>2, <1>4, Zenon
    <3>2. left'[w] = 0
      BY <1>3, <1>4, Zenon
    <3> QED
      BY <1>12, <2>1, <3>1, <3>2
  <2>2. CASE v # w
    BY <1>1, <1>3, <1>6, <2>2, ZenonT(60) DEF LeaseOutlastsBatch
  <2> QED
    BY <2>1, <2>2, ZenonT(60)
<1>14. MaxOps = 0 => op' = None
  BY <1>1, <1>3, ZenonT(60) DEF LeaseOutlastsBatch
<1> QED
  BY <1>9, <1>11, <1>13, <1>14, ZenonT(60) DEF LeaseOutlastsBatch

\* The clock: in a timely run only a dispatch in time lets it move, and then
\* what is left of the dispatch and of the lease go down together.
LEMMA LeaseTick ==
    ASSUME LeaseInv, TypeOK', Timely, Tick
    PROVE  LeaseOutlastsBatch'
<1>1. TypeOK /\ LeaseOutlastsBatch
  BY Zenon DEF LeaseInv, BudgetInv, LedgerInv
<1>2. /\ UNCHANGED <<rows, delivered, cancelled, dead, occ, holder, pc, todo, cur>>
      /\ \A w \in Workers : ~Busy(w)
      /\ op = None => op' = None
  BY Zenon DEF Tick, flagVars
<1>3. /\ \A w \in Workers : hold'[w] = CountDown(hold[w]) /\ left'[w] = CountDown(left[w])
      /\ \A s \in Schedules : lease'[s] = CountDown(lease[s])
  BY Zenon DEF Tick
<1>4. \A w \in Workers : left'[w] > 0 => left[w] > 0
  <2>1. \A n \in Nat : CountDown(n) > 0 => n > 0
    BY DEF CountDown
  <2> QED
    BY <1>1, <1>3, <2>1, ZenonT(60) DEF TypeOK
<1>5. \A w \in Workers : Timed(w)' \subseteq Timed(w)
  BY <1>2, <1>4, Zenon DEF Timed
<1>6. ASSUME NEW w \in Workers, NEW c \in Timed(w)', Live(c.sched)', c.occ = occ'[c.sched]
      PROVE  holder'[c.sched] = w /\ lease'[c.sched] = hold'[w]
  <2>1. c \in Timed(w) /\ c.sched \in Schedules /\ Live(c.sched) /\ c.occ = occ[c.sched]
    BY <1>2, <1>5, <1>6, TimedIsLeased, ZenonT(60) DEF Live
  <2>2. holder[c.sched] = w /\ lease[c.sched] = hold[w]
    BY <1>1, <2>1, Zenon DEF LeaseOutlastsBatch
  <2> QED
    BY <1>2, <1>3, <2>1, <2>2, Zenon
<1>7. ASSUME NEW w \in Workers, pc[w] \in {"ready", "dispatching", "settling"}
      PROVE  hold'[w] >= left'[w] + Cardinality(todo[w]) * DispatchTimeout
  <2> DEFINE p == Cardinality(todo[w]) * DispatchTimeout
  <2>1. hold[w] \in Nat /\ left[w] \in Nat /\ hold[w] >= left[w] + p
    <3>1. hold[w] \in Nat /\ left[w] \in Nat
      BY <1>1, ZenonT(60) DEF TypeOK
    <3>2. hold[w] >= left[w] + p
      BY <1>1, <1>7, Zenon DEF LeaseOutlastsBatch
    <3> QED
      BY <3>1, <3>2, ZenonT(60)
  <2>2. p \in Nat
    <3>1. Cardinality(todo[w]) \in Nat /\ DispatchTimeout \in Nat
      BY <1>1, FS_CardinalityType, SchedulerConstants, Zenon DEF LeaseOutlastsBatch
    <3> QED
      BY <3>1
  <2>3. CASE left[w] > 0
    <3> HIDE DEF p
    <3>1. hold'[w] = hold[w] - 1 /\ left'[w] = left[w] - 1
      BY <1>3, <2>1, <2>2, <2>3 DEF CountDown
    <3>2. hold'[w] >= left'[w] + p
      BY <2>1, <2>2, <3>1
    <3> QED
      BY <3>2, ZenonT(60) DEF p
  <2>4. CASE ~(left[w] > 0)
    <3>0. left[w] = 0
      BY <2>1, <2>4
    <3>1. todo[w] = {}
      BY <1>2, <1>7, <3>0, ZenonT(60) DEF Busy
    <3>2. Cardinality(todo[w]) = 0
      BY <3>1, FS_EmptySet, Zenon
    <3>3. hold'[w] >= 0 /\ left'[w] = 0
      BY <1>3, <2>1, <3>0 DEF CountDown
    <3> QED
      BY <3>2, <3>3, SchedulerConstants
  <2> QED
    BY <2>3, <2>4, Zenon
<1>8. \A v, w \in Workers : v # w =>
         \A c \in Timed(v)', d \in Timed(w)' : c.sched = d.sched => c.occ # d.occ
  <2> SUFFICES ASSUME NEW v \in Workers, NEW w \in Workers, v # w, NEW c \in Timed(v)',
                      NEW d \in Timed(w)', c.sched = d.sched
               PROVE  c.occ # d.occ
    BY Zenon
  <2>1. c \in Timed(v) /\ d \in Timed(w)
    BY <1>5, Zenon
  <2> QED
    BY <1>1, <2>1, ZenonT(60) DEF LeaseOutlastsBatch
<1>9. /\ \A w \in Workers : IsFiniteSet(todo'[w]) /\ (left'[w] > 0 => pc'[w] = "dispatching")
      /\ MaxOps = 0 => op' = None
  BY <1>1, <1>2, <1>4, Zenon DEF LeaseOutlastsBatch
<1> QED
  BY <1>2, <1>6, <1>7, <1>8, <1>9, ZenonT(60) DEF LeaseOutlastsBatch

LEMMA LeaseInit == Init => LeaseInv
<1> SUFFICES ASSUME Init PROVE LeaseInv
  BY Zenon
<1>1. BudgetInv
  BY BudgetInit, Zenon
<1>2. /\ op = None
      /\ \A w \in Workers : pc[w] = "idle" /\ todo[w] = {} /\ left[w] = 0
  BY Zenon DEF Init
<1>3. \A w \in Workers : Timed(w) = {} /\ ~(left[w] > 0) /\ IsFiniteSet(todo[w])
  BY <1>2, FS_EmptySet DEF Timed
<1>4. LeaseOutlastsBatch
  BY <1>2, <1>3, Zenon DEF LeaseOutlastsBatch
<1> QED
  BY <1>1, <1>4, Zenon DEF LeaseInv

LEMMA LeaseStep ==
    ASSUME LeaseInv, Timely, LeasesAreKept, [Next]_vars
    PROVE  LeaseInv'
<1>1. BudgetInv' /\ TypeOK'
  BY BudgetStep, Zenon DEF LeaseInv, BudgetInv, LedgerInv
<1> SUFFICES LeaseOutlastsBatch'
  BY <1>1, Zenon DEF LeaseInv
<1>2. ASSUME NEW w \in Workers, WorkerStep(w) PROVE LeaseOutlastsBatch'
  BY <1>1, <1>2, LeaseRowSteps, LeaseClaim, LeaseAck, LeaseQuietSteps, ZenonT(60)
     DEF WorkerStep, Acknowledge
<1>3. CASE OperatorStep \/ \E s \in Schedules : Insert(s)
  BY <1>1, <1>3, LeaseRowSteps, Zenon
<1>4. CASE Tick
  BY <1>1, <1>4, LeaseTick, ZenonT(60)
<1>5. CASE UNCHANGED vars
  <2>1. UNCHANGED <<todo, cur, hold, left, pc, op, rows, delivered, cancelled, dead, occ, holder, lease>>
    BY <1>5, Zenon DEF vars, rowVars, flagVars, workerVars, opVars
  <2>2. \A s : Live(s)' <=> Live(s)
    BY <2>1, Zenon DEF Live
  <2>3. MaxOps = 0 => op' = None
    BY <2>1, Zenon DEF LeaseInv, LeaseOutlastsBatch
  <2> QED
    BY <1>1, <2>1, <2>2, <2>3, LeaseOfRows, ZenonT(60)
<1> QED
  BY <1>2, <1>3, <1>4, <1>5, ZenonT(60) DEF Next

\* While workers are timely and no resume takes leases away, a lease outlasts
\* the dispatches it was taken for.
THEOREM LeaseCovers ==
    ASSUME Timely, LeasesAreKept
    PROVE  Spec => []LeaseInv
<1>1. LeaseInv /\ [Next]_vars => LeaseInv'
  BY LeaseStep, Zenon
<1> QED
  BY <1>1, LeaseInit, PTL DEF Spec

\* So no two workers have one occurrence at the sink within their timeouts.
THEOREM LeaseExcludes ==
    ASSUME Timely, LeasesAreKept
    PROVE  Spec => []NoOverlapWhileLeased
<1>1. ASSUME LeaseInv PROVE NoOverlapWhileLeased
  <2> SUFFICES ASSUME NEW u \in Workers, NEW v \in Workers, u # v, left[u] > 0, left[v] > 0,
                      cur[u].sched = cur[v].sched
               PROVE  cur[u].occ # cur[v].occ
    BY Zenon DEF NoOverlapWhileLeased
  <2>1. cur[u] \in Timed(u) /\ cur[v] \in Timed(v)
    BY Zenon DEF Timed
  <2>2. \A c \in Timed(u), d \in Timed(v) : c.sched = d.sched => c.occ # d.occ
    BY <1>1, Zenon DEF LeaseInv, LeaseOutlastsBatch
  <2> QED
    BY <2>1, <2>2, Zenon
<1> QED
  BY <1>1, LeaseCovers, PTL

\* What the two stores have in common when nothing fails: every statement's
\* reply arrives and decodes, no process dies, and the clocks agree to within
\* a dispatch timeout.
NothingFails == MaxFaults = 0 /\ Undecodable = {} /\ ClockAhead < DispatchTimeout

LEMMA NothingIsLostStep ==
    ASSUME LeaseInv, LeaseInv', NothingIsLost, NothingFails, [Next]_vars
    PROVE  NothingIsLost'
<1>1. LedgerInv /\ LedgerInv' /\ ClaimsAreCharged /\ TypeOK /\ TypeOK' /\ DeadIsSpent
  BY Zenon DEF LeaseInv, BudgetInv, LedgerInv
<1>2. ~(faults < MaxFaults)
  BY <1>1 DEF TypeOK, NothingFails
<1>3. ASSUME NEW w \in Workers, ClaimLost(w) \/ Crash(w) PROVE FALSE
  BY <1>2, <1>3, ZenonT(60) DEF ClaimLost, Crash, NothingFails
<1>4. ASSUME NEW w \in Workers, SkipElapsed(w) PROVE FALSE
  <2>1. PICK c \in todo[w] : TRUE
    BY <1>4, Zenon DEF SkipElapsed
  <2>2. hold[w] >= DispatchTimeout /\ hold[w] \in Nat
    BY TimedIsLeased, Zenon DEF Timed
  <2>3. hold[w] <= ClockAhead
    BY <1>4, Zenon DEF SkipElapsed, LeaseLooksElapsed
  <2> QED
    BY <2>2, <2>3, SchedulerConstants DEF NothingFails
<1>5. \A s \in Schedules : Lost(s)' = 0
  BY <1>1, <1>3, <1>4, LossStep, Zenon DEF NothingIsLost
<1>6. ASSUME NEW s \in dead' PROVE Pending(s)' = {}
  <2>1. s \in Schedules
    BY <1>1, Zenon DEF TypeOK
  <2>2. CASE s \in dead
    <3>1. Pending(s) = {} /\ attempts[s] = MaxAttempts
      BY <1>1, <2>2, Zenon DEF NothingIsLost, DeadIsSpent
    <3>2. CASE BatchesKept
      BY <2>1, <3>1, <3>2, PendingFrame, ZenonT(60) DEF BatchesKept
    <3>3. ASSUME NEW r \in Schedules, MovedOn(r) PROVE Pending(s)' = {}
      <4>1. CASE r # s
        BY <2>1, <3>1, <3>3, <4>1, PendingFrame, ZenonT(60) DEF MovedOn
      <4>2. CASE r = s
        BY <2>1, <3>3, <4>2, MovedOnIsFresh, <1>1, ZenonT(60)
      <4> QED
        BY <4>1, <4>2, Zenon
    <3>4. ASSUME NEW w \in Workers, ClaimDue(w) PROVE Pending(s)' = {}
      <4>1. attempts'[s] \in 0..MaxAttempts
        BY <1>1, <2>1, ZenonT(60) DEF TypeOK
      <4>2. attempts'[s] # attempts[s] + 1
        BY <3>1, <4>1, SchedulerConstants
      <4> QED
        BY <1>1, <2>1, <3>1, <3>4, <4>2, PendingGains, ZenonT(60)
    <3>5. ASSUME NEW w \in Workers, StartDispatch(w) PROVE Pending(s)' = {}
      <4>1. UNCHANGED occ /\ \A v \in Workers : todo'[v] \subseteq todo[v]
        <5>1. PICK c \in todo[w] : todo' = [todo EXCEPT ![w] = @ \ {c}]
          BY <3>5, Zenon DEF StartDispatch
        <5>2. UNCHANGED occ /\ DOMAIN todo = Workers
          BY <1>1, <3>5, ZenonT(60) DEF StartDispatch, rowVars, TypeOK
        <5> QED
          BY <5>1, <5>2, Zenon
      <4> QED
        BY <3>1, <4>1, Zenon DEF Pending
    <3> QED
      BY <1>1, <1>3, <1>4, <3>2, <3>3, <3>4, <3>5, BatchSteps, ZenonT(60)
  <2>3. CASE s \notin dead
    <3> DEFINE BuriedHere == \/ \E w \in Workers : MarkDeadLettered(w) /\ s = cur[w].sched
                             \/ \E w \in Workers : Sweep(w) /\ Sweepable(s)
    <3>1. BuriedHere
      <4>1. ASSUME NEW w \in Workers, WorkerStep(w) PROVE BuriedHere
        BY <1>6, <2>3, <4>1, ZenonT(60) DEF WorkerStep, Sweep, ClaimDue, ClaimLost, ClaimFails, ClaimRows,
           SkipElapsed, StartDispatch, SinkReturns, DispatchTimesOut, EndCycle, Crash, Restart,
           Acknowledge, MarkDelivered, Reschedule, MarkFailed, MarkDeadLettered, AckRefused, AckFails,
           Settle, rowVars, flagVars
      <4>2. ~OperatorStep
        BY <1>6, <2>3, Zenon DEF OperatorStep, Cancel, Pause, ResumeInspects, Replay, ResumeApplies,
           rowVars, flagVars
      <4>3. ~(Tick \/ (\E r \in Schedules : Insert(r)) \/ UNCHANGED vars)
        BY <1>6, <2>3, Zenon DEF Tick, Insert, vars, rowVars, flagVars
      <4> QED
        BY <4>1, <4>2, <4>3, ZenonT(60) DEF Next
    <3>2. UNCHANGED <<todo, occ>>
      BY <3>1, Zenon DEF Sweep, MarkDeadLettered, Settle
    <3>3. ASSUME NEW v \in Workers, NEW c \in todo[v], c.sched = s, c.occ = occ[s] PROVE FALSE
      <4>1. c \in Timed(v)
        BY <3>3, Zenon DEF Timed
      <4>2. ASSUME NEW w \in Workers, MarkDeadLettered(w), s = cur[w].sched PROVE FALSE
        BY <3>3, <4>1, <4>2, FencedIsAlone, ZenonT(60) DEF MarkDeadLettered, Settle
      <4>3. ASSUME Sweepable(s) PROVE FALSE
        BY <3>3, <4>1, <4>3, UnleasedIsFree, ZenonT(60) DEF Sweepable
      <4> QED
        BY <3>1, <4>2, <4>3, Zenon
    <3> QED
      BY <3>2, <3>3, Zenon DEF Pending
  <2> QED
    BY <2>2, <2>3, Zenon
<1> QED
  BY <1>5, <1>6, Zenon DEF NothingIsLost

\* When nothing fails, a dead-lettered occurrence was dispatched as often as it
\* was charged: neither the elapsed-lease guard nor the sweep costs it one.
THEOREM EveryAttemptCounts ==
    ASSUME Timely, LeasesAreKept, NothingFails
    PROVE  Spec => []EveryAttemptDispatched
<1>1. LeaseInv /\ LeaseInv' /\ NothingIsLost /\ [Next]_vars => NothingIsLost'
  BY NothingIsLostStep, Zenon
<1>2. Init => NothingIsLost
  <2> SUFFICES ASSUME Init PROVE NothingIsLost
    BY Zenon
  <2>1. dead = {} /\ \A s \in Schedules : Lost(s) = 0
    BY LostInit, ZenonT(60) DEF Init
  <2> QED
    BY <2>1, Zenon DEF NothingIsLost
<1>3. ASSUME LeaseInv, NothingIsLost PROVE EveryAttemptDispatched
  <2> SUFFICES ASSUME NEW s \in dead PROVE runs[s] = attempts[s]
    BY DEF EveryAttemptDispatched
  <2>1. TypeOK /\ s \in Schedules
    BY <1>3, ZenonT(60) DEF LeaseInv, BudgetInv, LedgerInv, TypeOK
  <2>2. Lost(s) = 0 /\ Cardinality(Pending(s)) = 0
    BY <1>3, <2>1, FS_EmptySet, ZenonT(60) DEF NothingIsLost
  <2>3. attempts[s] \in Nat /\ runs[s] \in Nat
    BY <2>1 DEF TypeOK
  <2> QED
    BY <2>2, <2>3 DEF Lost
<1> QED
  BY <1>1, <1>2, <1>3, LeaseCovers, PTL DEF Spec

\* Late COMMITs and burials in the outbox change neither: the lease excludes and
\* every attempt counts with the outbox as the sink too.
THEOREM LeaseHoldsWithOutbox ==
    ASSUME Timely, LeasesAreKept
    PROVE  /\ SOSpec => []NoOverlapWhileLeased
           /\ NothingFails => (SOSpec => []EveryAttemptDispatched)
<1>1. SOSpec => []NoOverlapWhileLeased
  BY LeaseExcludes, OutboxIsASink, PTL
<1>2. ASSUME NothingFails PROVE SOSpec => []EveryAttemptDispatched
  BY <1>2, EveryAttemptCounts, OutboxIsASink, PTL
<1> QED
  BY <1>1, <1>2

=============================================================================
