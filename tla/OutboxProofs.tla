---------------------------- MODULE OutboxProofs ----------------------------
(***************************************************************************)
(* Proofs about Outbox, for any number of workers and events, any batch    *)
(* size, retry budget, delays and dialect: its steps keep the types and    *)
(* the fencing invariant, what follows from it in every reachable state,   *)
(* what no step may do, that Outbox implements its contract, and that the  *)
(* lease of a claim covers its batch as long as SQL takes no time.         *)
(***************************************************************************)
EXTENDS Outbox, FiniteSetTheorems, WellFoundedInduction, TLAPS

-----------------------------------------------------------------------------
(* Type correctness.                                                       *)

\* The arithmetic of counters.
LEMMA Counting ==
    /\ \A n \in Nat : n + 1 \in Nat /\ n + 1 > 0 /\ n <= n /\ n >= n
                      /\ n <= n + 1 /\ ~(n + 1 <= n) /\ (n > 0 => n # 0)
    /\ \A i, j, k \in Nat : i <= j /\ j <= k => i <= k
OBVIOUS

\* The rank that an insert gives, and the lease that a claim takes, are
\* natural numbers.
LEMMA CountsAreNatural ==
    ASSUME TypeOK
    PROVE  /\ Cardinality(rows) \in Nat
           /\ \A w \in Workers : LeaseFor(Cardinality({c.event : c \in todo[w]})) \in Nat
<1>1. \A S \in SUBSET Events : Cardinality(S) \in Nat
  BY OutboxConstants, FS_Subset, FS_CardinalityType, Zenon
<1>2. \A w \in Workers : {c.event : c \in todo[w]} \in SUBSET Events
  BY DEF TypeOK, Claim
<1>3. \A n \in Nat : LeaseFor(n) \in Nat
  BY OutboxConstants DEF LeaseFor
<1> QED
  BY <1>1, <1>2, <1>3, Zenon DEF TypeOK

LEMMA TypeInit == Init => TypeOK
BY OutboxConstants DEF Init, TypeOK

\* A commit leaves every worker in a state, and with claims.
LEMMA TypeCommit ==
    ASSUME TypeOK, NEW w \in Workers \cup {None}, NEW rest \in SUBSET Claim,
           NEW next \in {"idle", "polled", "ready", "dispatching", "settling", "down"},
           CommitsWrite(w, next, rest)
    PROVE  /\ pc' \in [Workers -> {"idle", "polled", "ready", "dispatching", "settling", "down"}]
           /\ todo' \in [Workers -> SUBSET Claim]
BY Zenon DEF TypeOK, CommitsWrite

\* A claim of a spent budget that the fence still admits is the last one.
LEMMA SpentBudget ==
    ASSUME NEW c \in Claim, FenceHolds(c), BudgetSpent(c)
    PROVE  attempts[c.event] = MaxAttempts
<1>1. c.attempts \in 0..(MaxAttempts - 1) /\ attempts[c.event] = c.attempts + 1
  BY Zenon DEF Claim, FenceHolds
<1> QED
  BY <1>1, OutboxConstants DEF BudgetSpent

\* A row that a step leaves alone is not due any sooner.
LEMMA NoSooner == \A n \in Nat : n >= n
BY SMT

\* A step of the claiming phase keeps the types.
LEMMA TypeClaim ==
    ASSUME TypeOK, NEW w \in Workers,
           Poll(w) \/ ClaimBatch(w) \/ ClaimUnacknowledged(w) \/ PollRollsBack(w)
    PROVE  TypeOK'
<1> USE OutboxConstants, NoneIsNothing
<1>1. CASE Poll(w)
  <2> DEFINE read == {[event |-> e, attempts |-> attempts[e], pos |-> rank[e]] :
                          e \in PolledBatch(w) \ Undecodable}
  <2>1. PolledBatch(w) \subseteq Events /\ LocksOf(PolledBatch(w)) \subseteq Events
    BY Zenon DEF TypeOK, PolledBatch, LocksOf
  <2>2. \A e \in PolledBatch(w) : attempts[e] \in 0..(MaxAttempts - 1) /\ rank[e] \in Nat
    BY DEF TypeOK, PolledBatch, Due
  <2>3. read \subseteq Claim
    BY <2>1, <2>2 DEF Claim
  <2>4. todo' = [todo EXCEPT ![w] = read] /\ locks' = [locks EXCEPT ![w] = LocksOf(PolledBatch(w))]
    BY <1>1, Zenon DEF Poll
  <2> HIDE DEF read
  <2> QED
    <3>1. todo' \in [Workers -> SUBSET Claim] /\ locks' \in [Workers -> SUBSET Events]
      BY <2>1, <2>3, <2>4, Zenon DEF TypeOK
    <3>2. pc' \in [Workers -> {"idle", "polled", "ready", "dispatching", "settling", "down"}]
      BY <1>1, Zenon DEF TypeOK, Poll
    <3> QED
      BY <1>1, <3>1, <3>2, Zenon DEF TypeOK, Poll, tableVars, ghostVars
<1>2. ASSUME ClaimRows(w)
      PROVE  /\ attempts' \in [Events -> 0..MaxAttempts]
             /\ retryIn' \in [Events -> Nat]
             /\ holder' \in [Events -> Workers \cup {None}]
             /\ locks' \in [Workers -> SUBSET Events]
  <2>1. \A c \in Obtained(w) : attempts[c.event] + 1 \in 0..MaxAttempts
    <3>1. \A c \in Obtained(w) : attempts[c.event] = c.attempts /\ c \in Claim
      BY Zenon DEF TypeOK, Obtained
    <3>2. \A c \in Claim : c.attempts + 1 \in 0..MaxAttempts
      BY DEF Claim
    <3> QED
      BY <3>1, <3>2, Zenon
  <2>2. attempts' \in [Events -> 0..MaxAttempts]
    BY <1>2, <2>1 DEF TypeOK, ClaimRows, ClaimedAttempt
  <2>3. retryIn' \in [Events -> Nat]
    BY <1>2, CountsAreNatural, Zenon DEF TypeOK, ClaimRows
  <2> QED
    BY <1>2, <2>2, <2>3, Zenon DEF TypeOK, ClaimRows
<1>3. Obtained(w) \subseteq Claim
  BY Zenon DEF TypeOK, Obtained
<1>4. CASE ClaimBatch(w)
  BY <1>2, <1>3, <1>4, TypeCommit, Zenon DEF TypeOK, ClaimBatch, ClaimRows
<1>5. CASE ClaimUnacknowledged(w)
  <2>1. {} \in SUBSET Claim /\ faults' \in 0..MaxFaults
    BY <1>5 DEF TypeOK, ClaimUnacknowledged
  <2> QED
    BY <1>2, <1>5, <2>1, TypeCommit, Zenon DEF TypeOK, ClaimUnacknowledged, ClaimRows
<1>6. CASE PollRollsBack(w)
  BY <1>6 DEF TypeOK, PollRollsBack, tableVars, ghostVars
<1> QED
  BY <1>1, <1>4, <1>5, <1>6, Zenon

\* A publisher's insert keeps the types.
LEMMA TypeInsert ==
    ASSUME TypeOK, NEW e \in Events, InsertRow(e)
    PROVE  TypeOK'
<1>1. {} \in SUBSET Claim /\ None \in Workers \cup {None}
  BY Zenon
<1>2. /\ pc' \in [Workers -> {"idle", "polled", "ready", "dispatching", "settling", "down"}]
      /\ todo' \in [Workers -> SUBSET Claim]
  BY <1>1, TypeCommit, Zenon DEF InsertRow
<1>3. rank' \in [Events -> Nat]
  BY CountsAreNatural DEF TypeOK, InsertRow
<1> QED
  BY <1>2, <1>3, OutboxConstants DEF TypeOK, InsertRow

\* Dispatching keeps the types: a handler that runs has a claim.
LEMMA TypeDispatch ==
    ASSUME TypeOK, ClaimAtHand, NEW w \in Workers,
           \/ StartDispatch(w)
           \/ \E result \in {"ok", "err"} : HandlerReturns(w, result)
           \/ DispatchTimesOut(w)
           \/ EndCycle(w)
    PROVE  TypeOK'
<1> USE OutboxConstants, NoneIsNothing
<1>1. CASE StartDispatch(w)
  <2>1. PICK c \in todo[w] :
            /\ cur' = [cur EXCEPT ![w] = c]
            /\ todo' = [todo EXCEPT ![w] = @ \ {c}]
            /\ started' = [started EXCEPT ![c.event] = @ \cup {c.attempts + 1}]
    BY <1>1, Zenon DEF StartDispatch
  <2>2. c \in Claim /\ cur \in [Workers -> Claim \cup {None}]
        /\ todo \in [Workers -> SUBSET Claim] /\ started \in [Events -> SUBSET Nat]
    BY Zenon DEF TypeOK
  <2>3. c.event \in Events /\ c.attempts + 1 \in Nat
    BY <2>2 DEF Claim
  <2>4. cur' \in [Workers -> Claim \cup {None}] /\ todo' \in [Workers -> SUBSET Claim]
        /\ started' \in [Events -> SUBSET Nat]
    BY <2>1, <2>2, <2>3, Zenon
  <2> QED
    BY <1>1, <2>4, Zenon DEF TypeOK, StartDispatch, tableVars
<1>2. ASSUME NEW result \in {"ok", "err"}, HandlerReturns(w, result)
      PROVE  TypeOK'
  <2>1. cur[w].event \in Events
    BY <1>2, Zenon DEF TypeOK, ClaimAtHand, HandlerReturns, Claim
  <2> QED
    BY <1>2, <2>1, Zenon DEF TypeOK, HandlerReturns, tableVars
<1>3. CASE DispatchTimesOut(w)
  BY <1>3, Zenon DEF TypeOK, DispatchTimesOut, tableVars, ghostVars
<1>4. CASE EndCycle(w)
  BY <1>4, Zenon DEF TypeOK, EndCycle, tableVars, ghostVars
<1> QED
  BY <1>1, <1>2, <1>3, <1>4, Zenon

\* Settling keeps the types.
LEMMA TypeSettle ==
    ASSUME TypeOK, ClaimAtHand, NEW w \in Workers,
           SettleDelivered(w) \/ SettleRetry(w) \/ SettleDeadLettered(w)
             \/ SettleRefused(w) \/ SettleRollsBack(w)
    PROVE  TypeOK'
<1> USE OutboxConstants, NoneIsNothing
<1>1. cur[w] \in Claim /\ todo[w] \in SUBSET Claim
  BY Zenon DEF TypeOK, ClaimAtHand, SettleDelivered, SettleRetry, SettleDeadLettered, Applies,
         SettleRefused, SettleRollsBack, Settles
<1>2. CASE SettleDelivered(w)
  BY <1>1, <1>2, TypeCommit, Zenon
     DEF TypeOK, SettleDelivered, Applies, Settles, FenceHolds, ghostVars
<1>3. CASE SettleRetry(w)
  <2>1. retryIn' \in [Events -> Nat]
    BY <1>1, <1>3 DEF TypeOK, SettleRetry, Claim
  <2> QED
    BY <1>1, <1>3, <2>1, TypeCommit, Zenon DEF TypeOK, SettleRetry, Applies, Settles, ghostVars
<1>4. CASE SettleDeadLettered(w)
  <2>1. cur[w].event \in Events /\ cur[w].event \notin delivered
    BY <1>1, <1>4, Zenon DEF Claim, SettleDeadLettered, Applies, FenceHolds
  <2>2. rank \in [Events -> Nat] /\ attempts \in [Events -> 0..MaxAttempts]
        /\ retryIn \in [Events -> Nat] /\ holder \in [Events -> Workers \cup {None}]
    BY Zenon DEF TypeOK
  <2>3. \A f \in Events : rank[f] > rank[cur[w].event] => rank[f] - 1 \in Nat
    <3>1. rank[cur[w].event] \in Nat /\ \A f \in Events : rank[f] \in Nat
      BY <2>1, <2>2, Zenon
    <3> QED
      BY <3>1
  <2>4. rank' \in [Events -> Nat]
    BY <1>4, <2>2, <2>3, Zenon DEF SettleDeadLettered
  <2>5. attempts' \in [Events -> 0..MaxAttempts] /\ retryIn' \in [Events -> Nat]
        /\ holder' \in [Events -> Workers \cup {None}]
    BY <1>4, <2>1, <2>2 DEF SettleDeadLettered
  <2>6. rows' \subseteq Events /\ delivered' \subseteq rows' /\ dlq' \subseteq Events
    BY <1>4, <2>1, Zenon DEF TypeOK, SettleDeadLettered
  <2> QED
    BY <1>1, <1>4, <2>4, <2>5, <2>6, TypeCommit, Zenon
       DEF TypeOK, SettleDeadLettered, Applies, Settles
<1>5. CASE SettleRefused(w)
  BY <1>5, Zenon DEF TypeOK, SettleRefused, Settles, tableVars, ghostVars
<1>6. CASE SettleRollsBack(w)
  BY <1>6 DEF TypeOK, SettleRollsBack, Settles, tableVars, ghostVars
<1> QED
  BY <1>2, <1>3, <1>4, <1>5, <1>6, Zenon

\* The environment keeps the types.
LEMMA TypeEnvironment ==
    ASSUME TypeOK, Tick \/ \E w \in Workers : Crash(w) \/ Restart(w)
    PROVE  TypeOK'
<1> USE OutboxConstants
<1>1. CASE Tick
  BY <1>1 DEF TypeOK, Tick, ghostVars
<1>2. ASSUME NEW w \in Workers, Crash(w) PROVE TypeOK'
  BY <1>2 DEF TypeOK, Crash, tableVars, ghostVars
<1>3. ASSUME NEW w \in Workers, Restart(w) PROVE TypeOK'
  BY <1>3, Zenon DEF TypeOK, Restart, tableVars, ghostVars
<1> QED
  BY <1>1, <1>2, <1>3, Zenon

\* What a commit does to the workers: the committer goes where it says, and
\* another one either keeps its state or loses its claiming transaction.
LEMMA CommitFrame ==
    ASSUME TypeOK, NEW w, NEW next, NEW rest, CommitsWrite(w, next, rest)
    PROVE  /\ w \in Workers => pc'[w] = next /\ todo'[w] = rest
           /\ \A v \in Workers : v # w =>
                 \/ pc'[v] = pc[v] /\ todo'[v] = todo[v]
                 \/ pc[v] = "polled" /\ pc'[v] = "idle" /\ todo'[v] = {}
           /\ ~SupportsSkipLocked =>
                 \A v \in Workers : v # w => pc'[v] # "polled"
BY Zenon DEF TypeOK, CommitsWrite, LosesSnapshot

-----------------------------------------------------------------------------
(* What holds of an id that comes back, too.                               *)

\* A claiming transaction reads on undisturbed while nobody adds to its batch,
\* takes its locks away or delivers a row it has read.
LEMMA PolledFrame ==
    ASSUME PolledIsUndelivered,
           \A w \in Workers : pc'[w] = "polled" =>
              /\ pc[w] = "polled" /\ todo'[w] \subseteq todo[w] /\ locks'[w] = locks[w]
              /\ \A c \in todo[w] : c.event \in delivered' => c.event \in delivered
    PROVE  PolledIsUndelivered'
<1> SUFFICES ASSUME NEW w \in Workers, pc'[w] = "polled", NEW c \in todo'[w]
             PROVE  c.event \notin delivered' /\ (SupportsSkipLocked => c.event \in locks'[w])
  BY Zenon DEF PolledIsUndelivered, SupportsSkipLocked
<1>1. pc[w] = "polled" /\ c \in todo[w] /\ locks'[w] = locks[w]
  BY Zenon
<1>2. c.event \notin delivered /\ (SupportsSkipLocked => c.event \in locks[w])
  BY <1>1, Zenon DEF PolledIsUndelivered
<1> QED
  BY <1>1, <1>2, Zenon

\* What a commit leaves of the transactions still open, and of the claims at hand.
LEMMA TableCommit ==
    ASSUME TableInv, TypeOK', NEW w \in Workers \cup {None}, NEW next \in {"idle", "ready"},
           NEW rest, CommitsWrite(w, next, rest),
           \A v \in Workers \ {w} : locks'[v] = locks[v] /\ cur'[v] = cur[v],
           w \in Workers => cur'[w] = None,
           \A v \in Workers \ {w} : \A c \in todo[v] :
              SupportsSkipLocked /\ pc[v] = "polled" /\ c.event \in delivered'
              => c.event \in delivered
    PROVE  TableInv'
<1>1. TypeOK /\ ClaimAtHand /\ PolledIsUndelivered
  BY Zenon DEF TableInv
<1>2. \A v \in Workers :
         \/ v = w /\ pc'[v] = next
         \/ v # w /\ pc'[v] = pc[v] /\ todo'[v] = todo[v] /\ (pc'[v] = "polled" => SupportsSkipLocked)
         \/ v # w /\ pc[v] = "polled" /\ pc'[v] = "idle"
  <2>1. /\ w \in Workers => pc'[w] = next
        /\ \A v \in Workers : v # w =>
              \/ pc'[v] = pc[v] /\ todo'[v] = todo[v]
              \/ pc[v] = "polled" /\ pc'[v] = "idle"
        /\ ~SupportsSkipLocked => \A v \in Workers : v # w => pc'[v] # "polled"
    BY <1>1, CommitFrame
  <2> QED
    BY <2>1, ZenonT(60)
<1>3. next # "polled" /\ next # "dispatching" /\ next # "settling"
  BY Zenon
<1>4. PolledIsUndelivered'
  <2>1. ASSUME NEW v \in Workers, pc'[v] = "polled"
        PROVE  /\ pc[v] = "polled" /\ todo'[v] \subseteq todo[v] /\ locks'[v] = locks[v]
               /\ \A c \in todo[v] : c.event \in delivered' => c.event \in delivered
    BY <1>2, <1>3, <2>1, Zenon
  <2> QED
    BY <1>1, <2>1, PolledFrame, Zenon
<1>5. ClaimAtHand'
  <2> SUFFICES ASSUME NEW v \in Workers
               PROVE  pc'[v] \in {"dispatching", "settling"} <=> cur'[v] # None
    BY Zenon DEF ClaimAtHand
  <2>1. pc[v] \in {"dispatching", "settling"} <=> cur[v] # None
    BY <1>1, Zenon DEF ClaimAtHand
  <2> QED
    BY <1>2, <1>3, <2>1, Zenon
<1> QED
  BY <1>4, <1>5, Zenon DEF TableInv

\* Every step keeps the types, the claims at hand and the claiming transactions,
\* whatever ids come back to the table.
LEMMA TableStep ==
    ASSUME TableInv, [Next]_vars
    PROVE  TableInv'
<1>0. TypeOK /\ ClaimAtHand /\ PolledIsUndelivered
  BY Zenon DEF TableInv
<1>1. DOMAIN pc = Workers /\ DOMAIN cur = Workers /\ DOMAIN todo = Workers /\ DOMAIN locks = Workers
  BY <1>0, Zenon DEF TypeOK
<1>2. ASSUME NEW e \in Events, Publish(e) \/ EnqueueIdempotent(e) PROVE TableInv'
  <2>1. InsertRow(e)
    BY <1>2, Zenon DEF Publish, EnqueueIdempotent
  <2>2. TypeOK'
    BY <1>0, <2>1, TypeInsert, Zenon
  <2>3. CommitsWrite(None, "idle", {}) /\ UNCHANGED <<delivered, cur, locks>>
    BY <2>1, Zenon DEF InsertRow
  <2>4. None \in Workers \cup {None} /\ None \notin Workers
    BY NoneIsNothing, Zenon
  <2> QED
    BY <2>2, <2>3, <2>4, TableCommit, Zenon
<1>3. ASSUME NEW w \in Workers, Poll(w) PROVE TableInv'
  <2>1. TypeOK'
    BY <1>0, <1>3, TypeClaim, Zenon
  <2> DEFINE read == {[event |-> e, attempts |-> attempts[e], pos |-> rank[e]] :
                          e \in PolledBatch(w) \ Undecodable}
  <2>2. /\ pc[w] = "idle" /\ pc' = [pc EXCEPT ![w] = "polled"]
        /\ todo' = [todo EXCEPT ![w] = read]
        /\ locks' = [locks EXCEPT ![w] = LocksOf(PolledBatch(w))]
        /\ UNCHANGED <<delivered, cur>>
    BY <1>3, Zenon DEF Poll, tableVars
  <2>3. \A c \in read : c.event \in PolledBatch(w)
    OBVIOUS
  <2>4. \A e \in PolledBatch(w) :
           e \notin delivered /\ (SupportsSkipLocked => e \in LocksOf(PolledBatch(w)))
    BY Zenon DEF PolledBatch, Due, LocksOf
  <2> HIDE DEF read
  <2>5. PolledIsUndelivered'
    <3> SUFFICES ASSUME NEW v \in Workers, pc'[v] = "polled", NEW c \in todo'[v]
                 PROVE  c.event \notin delivered' /\ (SupportsSkipLocked => c.event \in locks'[v])
      BY Zenon DEF PolledIsUndelivered, SupportsSkipLocked
    <3>1. CASE v = w
      BY <1>1, <2>2, <2>3, <2>4, <3>1, Zenon
    <3>2. CASE v # w
      <4>1. pc[v] = "polled" /\ c \in todo[v] /\ locks'[v] = locks[v]
        BY <1>1, <2>2, <3>2, Zenon
      <4> QED
        BY <1>0, <2>2, <4>1, Zenon DEF PolledIsUndelivered
    <3> QED
      BY <3>1, <3>2, Zenon
  <2>6. ClaimAtHand'
    BY <1>0, <1>1, <2>2, Zenon DEF ClaimAtHand
  <2> QED
    BY <2>1, <2>5, <2>6, Zenon DEF TableInv
<1>4. ASSUME NEW w \in Workers, ClaimBatch(w) \/ ClaimUnacknowledged(w) PROVE TableInv'
  <2>1. TypeOK'
    BY <1>0, <1>4, TypeClaim, Zenon
  <2>2. PICK next, rest :
           next \in {"ready", "idle"} /\ pc[w] = "polled" /\ ClaimRows(w) /\ CommitsWrite(w, next, rest)
    BY <1>4, Zenon DEF ClaimBatch, ClaimUnacknowledged
  <2>3. locks' = [locks EXCEPT ![w] = {}] /\ UNCHANGED <<delivered, cur>>
    BY <2>2, Zenon DEF ClaimRows
  <2>4. cur'[w] = None
    BY <1>0, <2>2, <2>3, Zenon DEF ClaimAtHand
  <2>5. w \in Workers \cup {None} /\ \A v \in Workers \ {w} : locks'[v] = locks[v]
    BY <1>1, <2>3, Zenon
  <2> QED
    BY <2>1, <2>2, <2>3, <2>4, <2>5, TableCommit, Zenon
<1>5. ASSUME NEW w \in Workers, SettleDelivered(w) \/ SettleRetry(w) \/ SettleDeadLettered(w)
      PROVE  TableInv'
  <2>1. TypeOK'
    BY <1>0, <1>5, TypeSettle, Zenon
  <2>2. /\ CommitsWrite(w, "ready", todo[w]) /\ cur' = [cur EXCEPT ![w] = None] /\ UNCHANGED locks
        /\ Writable(w, cur[w].event)
        /\ delivered' \in {delivered, delivered \cup {cur[w].event}}
    BY <1>5, Zenon DEF SettleDelivered, SettleRetry, SettleDeadLettered, Applies, Settles
  <2>3. cur'[w] = None /\ \A v \in Workers \ {w} : cur'[v] = cur[v] /\ locks'[v] = locks[v]
    BY <1>1, <2>2, Zenon
  <2>4. ASSUME NEW v \in Workers \ {w}, NEW c \in todo[v], SupportsSkipLocked, pc[v] = "polled",
               c.event \in delivered'
        PROVE  c.event \in delivered
    <3>1. c.event \in locks[v]
      BY <1>0, <2>4, Zenon DEF PolledIsUndelivered
    <3>2. cur[w].event \notin locks[v]
      BY <2>2, <2>4, Zenon DEF Writable
    <3> QED
      BY <2>2, <2>4, <3>1, <3>2, Zenon
  <2> QED
    BY <2>1, <2>2, <2>3, <2>4, TableCommit, Zenon
<1>6. ASSUME NEW w \in Workers,
             \/ PollRollsBack(w) \/ StartDispatch(w) \/ DispatchTimesOut(w) \/ EndCycle(w)
             \/ \E result \in {"ok", "err"} : HandlerReturns(w, result)
             \/ SettleRefused(w) \/ SettleRollsBack(w) \/ Crash(w) \/ Restart(w)
      PROVE  TableInv'
  <2>1. TypeOK'
    BY <1>0, <1>6, TypeClaim, TypeDispatch, TypeSettle, TypeEnvironment, Zenon
  <2>2. /\ pc'[w] \notin {"polled"} /\ UNCHANGED delivered
        /\ pc'[w] \in {"dispatching", "settling"} <=> cur'[w] # None
        /\ \A v \in Workers \ {w} :
              pc'[v] = pc[v] /\ cur'[v] = cur[v] /\ todo'[v] = todo[v] /\ locks'[v] = locks[v]
    <3>1. CASE PollRollsBack(w) \/ Crash(w) \/ Restart(w) \/ EndCycle(w)
      BY <1>0, <1>1, <3>1, Zenon
         DEF ClaimAtHand, PollRollsBack, Crash, Restart, EndCycle, tableVars
    <3>2. CASE SettleRefused(w) \/ SettleRollsBack(w)
      BY <1>1, <3>2, Zenon DEF SettleRefused, SettleRollsBack, Settles, tableVars
    <3>3. CASE DispatchTimesOut(w) \/ \E result \in {"ok", "err"} : HandlerReturns(w, result)
      BY <1>0, <1>1, <3>3, Zenon DEF ClaimAtHand, DispatchTimesOut, HandlerReturns, tableVars
    <3>4. CASE StartDispatch(w)
      <4>1. PICK c \in todo[w] : cur' = [cur EXCEPT ![w] = c] /\ todo' = [todo EXCEPT ![w] = @ \ {c}]
        BY <3>4, Zenon DEF StartDispatch
      <4>2. c # None
        BY <1>0, NoneIsNothing, Zenon DEF TypeOK
      <4> QED
        BY <1>1, <3>4, <4>1, <4>2, Zenon DEF StartDispatch, tableVars
    <3> QED
      BY <1>6, <3>1, <3>2, <3>3, <3>4, Zenon
  <2>3. PolledIsUndelivered'
    <3>1. ASSUME NEW v \in Workers, pc'[v] = "polled"
          PROVE  /\ pc[v] = "polled" /\ todo'[v] \subseteq todo[v] /\ locks'[v] = locks[v]
                 /\ \A c \in todo[v] : c.event \in delivered' => c.event \in delivered
      BY <2>2, <3>1, Zenon
    <3> QED
      BY <1>0, <3>1, PolledFrame, Zenon
  <2>4. ClaimAtHand'
    BY <1>0, <2>2, Zenon DEF ClaimAtHand
  <2> QED
    BY <2>1, <2>3, <2>4, Zenon DEF TableInv
<1>7. CASE Tick \/ UNCHANGED vars
  <2>1. UNCHANGED <<delivered, pc, todo, cur, locks>>
    BY <1>7, Zenon DEF Tick, vars, tableVars, workerVars
  <2>2. TypeOK'
    <3>1. CASE Tick
      BY <1>0, <3>1, TypeEnvironment, Zenon
    <3>2. CASE UNCHANGED vars
      BY <1>0, <3>2, ZenonT(60) DEF TypeOK, vars, tableVars, workerVars, ghostVars
    <3> QED
      BY <1>7, <3>1, <3>2, Zenon
  <2> QED
    BY <1>0, <2>1, <2>2, Zenon DEF TableInv, ClaimAtHand, PolledIsUndelivered, SupportsSkipLocked
<1> QED
  BY <1>2, <1>3, <1>4, <1>5, <1>6, <1>7, Zenon DEF Next, WorkerStep

\* The base invariant holds whether or not ids come back.
THEOREM Table == Spec => []TableInv
<1>1. Init => TableInv
  <2> SUFFICES ASSUME Init PROVE TableInv
    BY Zenon
  <2>1. TypeOK
    BY TypeInit, Zenon
  <2>2. \A w \in Workers : pc[w] = "idle" /\ cur[w] = None
    BY Zenon DEF Init
  <2> QED
    BY <2>1, <2>2, Zenon DEF TableInv, ClaimAtHand, PolledIsUndelivered
<1> QED
  BY <1>1, TableStep, PTL DEF Spec

\* The attempts column stays within the retry budget and every other variable
\* within its type.
THEOREM TypeCorrect == Spec => []TypeOK
<1>1. TableInv => TypeOK
  BY Zenon DEF TableInv
<1> QED
  BY <1>1, Table, PTL

-----------------------------------------------------------------------------
(* The retry delay.                                                        *)

\* Every set of naturals that is not empty has a least element.
LEMMA Least ==
    ASSUME NEW T \in SUBSET Nat, T # {}
    PROVE  \E n \in T : \A m \in T : n <= m
<1> DEFINE R == {ss \in Nat \X Nat : ss[1] < ss[2]}
<1>0. OpToRel(<, Nat) = R
  BY Zenon DEF OpToRel
<1>1. IsWellFoundedOn(R, Nat)
  BY <1>0, NatLessThanWellFounded, Zenon
<1>2. PICK n \in T : \A m \in T : ~(<<m, n>> \in R)
  <2> HIDE DEF R
  <2> QED
    BY <1>1, WFMin, Zenon
<1>3. \A m \in T : ~(m < n)
  BY <1>2, Zenon
<1> QED
  BY <1>3

\* A table of the first k powers of two.
IsDoubling(g, k) == g = [i \in 0..k |-> IF i = 0 THEN 1 ELSE 2 * g[i - 1]]

\* There is a table of doublings of every length.
LEMMA DoublingExists ==
    ASSUME NEW k \in Nat
    PROVE  \E g : IsDoubling(g, k)
<1> DEFINE T == {n \in Nat : ~\E g : IsDoubling(g, n)}
<1> SUFFICES ASSUME T # {} PROVE FALSE
  BY Zenon
<1>1. PICK n \in T : \A m \in T : n <= m
  <2> HIDE DEF T
  <2>1. T \in SUBSET Nat
    BY Zenon DEF T
  <2> QED
    BY <2>1, Least, Zenon
<1>2. n \in Nat /\ ~\E g : IsDoubling(g, n)
  BY <1>1, Zenon
<1>3. CASE n = 0
  <2> DEFINE h == [i \in 0..0 |-> 1]
  <2>1. h = [i \in 0..0 |-> IF i = 0 THEN 1 ELSE 2 * h[i - 1]]
    OBVIOUS
  <2> HIDE DEF h
  <2> QED
    BY <1>2, <1>3, <2>1, Zenon DEF IsDoubling
<1>4. CASE n # 0
  <2>1. n - 1 \in Nat /\ ~(n <= n - 1)
    BY <1>2, <1>4
  <2>2. PICK g : IsDoubling(g, n - 1)
    BY <1>1, <2>1, Zenon
  <2>3. \A i \in 0..(n - 1) : g[i] = IF i = 0 THEN 1 ELSE 2 * g[i - 1]
    BY <2>2, Zenon DEF IsDoubling
  <2> DEFINE h == [i \in 0..n |-> IF i = n THEN 2 * g[n - 1] ELSE g[i]]
  <2>4. ASSUME NEW i \in 0..n
        PROVE  (IF i = n THEN 2 * g[n - 1] ELSE g[i]) = IF i = 0 THEN 1 ELSE 2 * h[i - 1]
    <3>1. i # 0 => h[i - 1] = g[i - 1]
      BY <1>2
    <3> HIDE DEF h
    <3>2. i # n => i \in 0..(n - 1)
      BY <1>2
    <3> QED
      BY <1>4, <2>3, <3>1, <3>2, Zenon
  <2>5. h = [i \in 0..n |-> IF i = 0 THEN 1 ELSE 2 * h[i - 1]]
    BY <2>4, Zenon
  <2> HIDE DEF h
  <2> QED
    BY <1>2, <2>5, Zenon DEF IsDoubling
<1> QED
  BY <1>3, <1>4, Zenon

\* So TwoTo is what its definition says.
LEMMA TwoToIs ==
    \A n \in 0..(WordBits + LastAttempt) : TwoTo[n] = IF n = 0 THEN 1 ELSE 2 * TwoTo[n - 1]
<1>1. WordBits + LastAttempt \in Nat
  BY BackoffConstants
<1>2. \E g : IsDoubling(g, WordBits + LastAttempt)
  BY <1>1, DoublingExists, Zenon
<1>3. TwoTo = [n \in 0..(WordBits + LastAttempt) |-> IF n = 0 THEN 1 ELSE 2 * TwoTo[n - 1]]
  BY <1>2, Zenon DEF TwoTo, IsDoubling
<1> QED
  BY <1>3, Zenon

\* The powers of two are naturals that grow.
LEMMA TwoToGrows ==
    ASSUME NEW m \in 0..(WordBits + LastAttempt), NEW n \in m..(WordBits + LastAttempt)
    PROVE  TwoTo[m] \in Nat \ {0} /\ TwoTo[n] \in Nat /\ TwoTo[m] <= TwoTo[n]
<1> DEFINE N == WordBits + LastAttempt
<1>0. N \in Nat
  BY BackoffConstants
<1>1. \A i \in 0..N : TwoTo[i] = IF i = 0 THEN 1 ELSE 2 * TwoTo[i - 1]
  BY TwoToIs, Zenon
<1> HIDE DEF N
<1>2. ASSUME NEW i \in 0..N PROVE TwoTo[i] \in Nat \ {0}
  <2> DEFINE T == {j \in 0..N : TwoTo[j] \notin Nat \ {0}}
  <2> SUFFICES ASSUME T # {} PROVE FALSE
    BY Zenon
  <2>1. PICK j \in T : \A k \in T : j <= k
    <3>1. T \in SUBSET Nat
      BY <1>0
    <3> HIDE DEF T
    <3> QED
      BY <3>1, Least, Zenon
  <2>2. j \in 0..N /\ TwoTo[j] \notin Nat \ {0}
    BY <2>1, Zenon
  <2>3. CASE j = 0
    BY <1>1, <2>2, <2>3
  <2>4. CASE j # 0
    <3>1. j - 1 \in 0..N /\ ~(j <= j - 1)
      BY <1>0, <2>2, <2>4
    <3>2. TwoTo[j - 1] \in Nat \ {0} /\ TwoTo[j] = 2 * TwoTo[j - 1]
      BY <1>1, <2>1, <2>2, <2>4, <3>1, Zenon
    <3> QED
      BY <2>2, <3>2
  <2> QED
    BY <2>3, <2>4, Zenon
<1>3. ASSUME NEW i \in m..N PROVE TwoTo[m] <= TwoTo[i]
  <2> DEFINE T == {j \in m..N : ~(TwoTo[m] <= TwoTo[j])}
  <2> SUFFICES ASSUME T # {} PROVE FALSE
    BY Zenon
  <2>1. PICK j \in T : \A k \in T : j <= k
    <3>1. T \in SUBSET Nat
      BY <1>0
    <3> HIDE DEF T
    <3> QED
      BY <3>1, Least, Zenon
  <2>2. j \in m..N /\ ~(TwoTo[m] <= TwoTo[j])
    BY <2>1, Zenon
  <2>3. TwoTo[m] \in Nat /\ TwoTo[j] \in Nat
    BY <1>0, <1>2, <2>2 DEF N
  <2>4. CASE j = m
    BY <2>2, <2>3, <2>4
  <2>5. CASE j # m
    <3>1. j - 1 \in m..N /\ j - 1 \in 0..N /\ j \in 0..N /\ j # 0 /\ ~(j <= j - 1)
      BY <1>0, <2>2, <2>5
    <3>2. TwoTo[m] <= TwoTo[j - 1] /\ TwoTo[j] = 2 * TwoTo[j - 1]
      BY <1>1, <2>1, <3>1, Zenon
    <3>3. TwoTo[j - 1] \in Nat
      BY <1>2, <3>1, Zenon
    <3> QED
      BY <2>2, <2>3, <3>2, <3>3
  <2> QED
    BY <2>4, <2>5, Zenon
<1>4. m \in 0..N /\ n \in 0..N /\ n \in m..N
  BY <1>0 DEF N
<1> QED
  BY <1>2, <1>3, <1>4, Zenon

\* Multiplication by a natural number is monotone.
LEMMA ProductsGrow ==
    \A b, m, n \in Nat : m <= n => b * m \in Nat /\ b * n \in Nat /\ b * m <= b * n
<1> SUFFICES ASSUME NEW b \in Nat, NEW m \in Nat, NEW n \in Nat, m <= n
             PROVE  b * m \in Nat /\ b * n \in Nat /\ b * m <= b * n
  BY Zenon
<1>1. b * m \in Nat /\ b * n \in Nat /\ b * (n - m) \in Nat /\ n - m \in Nat
  OBVIOUS
<1>2. b * n = b * m + b * (n - m)
  OBVIOUS
<1> QED
  BY <1>1, <1>2

\* next_retry_delay neither wraps nor falls short: whatever the width of its
\* factor and of Duration, the delay of every attempt is base * 2^attempts cut off
\* at the cap, as long as the factor saturates above the cap.
LEMMA DelayIsExact ==
    ASSUME NEW n \in Nat
    PROVE  IsExactFrom(n)
<1> SUFFICES ASSUME NEW base \in Durations, NEW cap \in Durations, NEW a \in n..LastAttempt,
                    base * WordMax >= cap
             PROVE  Capped(base, cap, a) = Minimum(base * TwoTo[a], cap)
  BY Zenon DEF IsExactFrom
<1>1. /\ base \in Nat /\ cap \in Nat /\ cap <= DurationMax /\ DurationMax \in Nat
      /\ WordBits \in Nat /\ LastAttempt \in Nat
  BY BackoffConstants
<1>2. a \in Nat /\ a \in 0..(WordBits + LastAttempt) /\ a \in a..(WordBits + LastAttempt)
  BY <1>1
<1>3. TwoTo[a] \in Nat /\ base * TwoTo[a] \in Nat
  <2>1. TwoTo[a] \in Nat
    BY <1>2, TwoToGrows, Zenon
  <2> QED
    BY <1>1, <2>1
<1>4. CASE a < WordBits
  <2>1. Capped(base, cap, a) = Minimum(Minimum(base * TwoTo[a], DurationMax), cap)
    BY <1>4, Zenon DEF Capped, SaturatingMul, Factor
  <2> QED
    BY <1>1, <1>3, <2>1 DEF Minimum
<1>5. CASE ~(a < WordBits)
  <2>1. WordBits \in 0..(WordBits + LastAttempt) /\ a \in WordBits..(WordBits + LastAttempt)
    BY <1>1, <1>2, <1>5
  <2>2. TwoTo[WordBits] \in Nat \ {0} /\ TwoTo[WordBits] <= TwoTo[a]
    BY <2>1, TwoToGrows, Zenon
  <2>3. WordMax \in Nat /\ WordMax <= TwoTo[a]
    BY <1>3, <2>2 DEF WordMax
  <2>4. base * WordMax \in Nat /\ base * WordMax <= base * TwoTo[a]
    BY <1>1, <1>3, <2>3, ProductsGrow, Zenon
  <2>5. Capped(base, cap, a) = Minimum(Minimum(base * WordMax, DurationMax), cap)
    BY <1>5, Zenon DEF Capped, SaturatingMul, Factor
  <2> HIDE DEF WordMax
  <2> QED
    BY <1>1, <1>3, <2>4, <2>5 DEF Minimum
<1> QED
  BY <1>4, <1>5, Zenon

\* So a worker that reschedules a failed row never computes another delay than the
\* bounded exponential one, for every width of the factor and of Duration.
THEOREM RetriesBackOffExactly == Spec => BackoffIsExact
<1>1. ASSUME TypeOK, [Next]_vars
      PROVE  [\A e \in Events : attempts' = attempts /\ retryIn'[e] > retryIn[e]
                                   => IsExactFrom(attempts[e])]_vars
  <2>1. \A e \in Events : attempts[e] \in Nat
    BY <1>1, OutboxConstants DEF TypeOK
  <2> QED
    BY <2>1, DelayIsExact, Zenon
<1> QED
  BY <1>1, TypeCorrect, PTL DEF Spec, BackoffIsExact

-----------------------------------------------------------------------------
(* The fence.                                                              *)

LEMMA FencingInit == Init => FencingInv
<1> SUFFICES ASSUME Init PROVE FencingInv
  BY Zenon
<1>1. TypeOK
  BY TypeInit, Zenon
<1>2. \A w \in Workers : InFlight(w) = {} /\ ~HoldsClaims(w) /\ pc[w] = "idle"
  BY Zenon DEF Init, InFlight, HoldsClaims
<1> QED
  BY <1>1, <1>2, Zenon
     DEF Init, FencingInv, WorkerShape, ClaimsHaveRows, BatchIsASet, CounterLeads,
         AttemptsAreExclusive, PolledIsUndelivered, FenceIdentifiesHolder, DeliveredWasServed

\* A step that changes no row, and after which nobody holds a claim that was
\* not held before, preserves everything.
LEMMA QuietStep ==
    ASSUME FencingInv, TypeOK', WorkerShape',
           UNCHANGED <<rows, dlq, delivered, attempts, holder, started>>,
           served \subseteq served',
           \A v \in Workers :
              /\ todo'[v] \subseteq todo[v]
              /\ InFlight(v)' \subseteq InFlight(v)
              /\ HoldsClaims(v)' => HoldsClaims(v)
              /\ pc'[v] = "polled" => pc[v] = "polled" /\ locks'[v] = locks[v]
    PROVE  FencingInv'
<1> USE DEF FencingInv
<1>1. ClaimsHaveRows'
  BY Zenon DEF ClaimsHaveRows
<1>2. BatchIsASet'
  BY Zenon DEF BatchIsASet
<1>3. CounterLeads'
  BY Zenon DEF CounterLeads
<1>4. AttemptsAreExclusive'
  BY DEF AttemptsAreExclusive
<1>5. PolledIsUndelivered'
  BY Zenon DEF PolledIsUndelivered, SupportsSkipLocked
<1>6. FenceIdentifiesHolder'
  BY DEF FenceIdentifiesHolder, FenceHolds
<1>7. DeliveredWasServed'
  BY Zenon DEF DeliveredWasServed
<1> QED
  BY <1>1, <1>2, <1>3, <1>4, <1>5, <1>6, <1>7, Zenon

\* The steps that only end something: a rollback, a refusal, a timeout, the end
\* of a cycle, a retry scheduled, a crash, a restart, the passing of time.
LEMMA FencingQuiet ==
    ASSUME FencingInv, NEW w \in Workers,
           \/ PollRollsBack(w) \/ SettleRetry(w) \/ SettleRefused(w) \/ SettleRollsBack(w)
           \/ DispatchTimesOut(w) \/ EndCycle(w) \/ Crash(w) \/ Restart(w) \/ Tick
    PROVE  FencingInv'
<1> USE NoneIsNothing DEF FencingInv
<1>1. TypeOK'
  BY TypeClaim, TypeDispatch, TypeSettle, TypeEnvironment, Zenon DEF WorkerShape, ClaimAtHand
<1>2. CASE PollRollsBack(w)
  <2>1. WorkerShape'
    BY <1>2, Zenon DEF TypeOK, WorkerShape, PollRollsBack, tableVars, ghostVars
  <2> QED
    BY <1>1, <1>2, <2>1, QuietStep, ZenonT(60)
       DEF TypeOK, PollRollsBack, tableVars, ghostVars, InFlight, HoldsClaims
<1>3. CASE SettleRetry(w)
  <2>1. CommitsWrite(w, "ready", todo[w]) /\ pc[w] = "settling"
    BY <1>3, ZenonT(60) DEF SettleRetry, Applies, Settles
  <2>3. /\ UNCHANGED <<rows, dlq, delivered, attempts, holder, started, served, locks, outcome>>
        /\ cur' = [cur EXCEPT ![w] = None]
    BY <1>3, Zenon DEF SettleRetry, Applies, Settles, ghostVars
  <2>2. WorkerShape'
    <3>1. \A v \in Workers :
            \/ v = w /\ pc'[v] = "ready"
            \/ v # w /\ pc'[v] = pc[v] /\ todo'[v] = todo[v]
            \/ v # w /\ pc[v] = "polled" /\ pc'[v] = "idle" /\ todo'[v] = {}
      BY <2>1, CommitFrame, ZenonT(60)
    <3> QED
      BY <2>3, <3>1, ZenonT(60) DEF WorkerShape, TypeOK
  <2>4. ASSUME NEW v \in Workers
        PROVE  /\ todo'[v] \subseteq todo[v]
               /\ HoldsClaims(v)' => HoldsClaims(v)
               /\ pc'[v] = "polled" => pc[v] = "polled"
    BY <2>1, CommitFrame, ZenonT(60) DEF HoldsClaims
  <2>5. cur \in [Workers -> Claim \cup {None}]
    BY Zenon DEF TypeOK
  <2>6. \A v \in Workers : InFlight(v)' \subseteq InFlight(v)
    BY <2>3, <2>4, <2>5, Zenon DEF InFlight
  <2> QED
    BY <1>1, <2>2, <2>3, <2>4, <2>6, QuietStep, Zenon
<1>4. CASE SettleRefused(w) \/ SettleRollsBack(w)
  <2>1. /\ pc[w] = "settling" /\ pc' = [pc EXCEPT ![w] = "ready"]
        /\ cur' = [cur EXCEPT ![w] = None]
        /\ UNCHANGED <<tableVars, todo, outcome, locks, ghostVars>>
    BY <1>4, Zenon DEF SettleRefused, SettleRollsBack, Settles
  <2>2. WorkerShape'
    BY <2>1, Zenon DEF TypeOK, WorkerShape, tableVars, ghostVars
  <2> QED
    BY <1>1, <2>1, <2>2, QuietStep, ZenonT(60) DEF TypeOK, tableVars, ghostVars, InFlight, HoldsClaims
<1>5. CASE DispatchTimesOut(w) \/ EndCycle(w)
  <2>1. /\ \/ pc[w] = "dispatching" /\ pc' = [pc EXCEPT ![w] = "settling"]
              /\ outcome' = [outcome EXCEPT ![w] = "err"]
           \/ pc[w] = "ready" /\ todo[w] = {} /\ pc' = [pc EXCEPT ![w] = "idle"]
              /\ UNCHANGED outcome
        /\ UNCHANGED <<tableVars, todo, cur, locks, ghostVars>>
    BY <1>5, Zenon DEF DispatchTimesOut, EndCycle
  <2>2. WorkerShape'
    BY <2>1, SMTT(30) DEF TypeOK, WorkerShape, tableVars, ghostVars
  <2> QED
    BY <1>1, <2>1, <2>2, QuietStep, ZenonT(60) DEF TypeOK, tableVars, ghostVars, InFlight, HoldsClaims
<1>6. CASE Crash(w)
  <2>1. WorkerShape'
    BY <1>6, Zenon DEF TypeOK, WorkerShape, Crash, tableVars, ghostVars
  <2> QED
    BY <1>1, <1>6, <2>1, QuietStep, ZenonT(60)
       DEF TypeOK, Crash, tableVars, ghostVars, InFlight, HoldsClaims
<1>7. CASE Restart(w)
  <2>1. WorkerShape'
    BY <1>7, Zenon DEF TypeOK, WorkerShape, Restart, tableVars, ghostVars
  <2> QED
    BY <1>1, <1>7, <2>1, QuietStep, Zenon
       DEF TypeOK, Restart, tableVars, ghostVars, InFlight, HoldsClaims
<1>8. CASE Tick
  <2>1. WorkerShape'
    BY <1>8, Zenon DEF TypeOK, WorkerShape, Tick, ghostVars
  <2> QED
    BY <1>1, <1>8, <2>1, QuietStep, Zenon DEF TypeOK, Tick, ghostVars, InFlight, HoldsClaims
<1> QED
  BY <1>2, <1>3, <1>4, <1>5, <1>6, <1>7, <1>8, Zenon

\* A handler that returns Ok adds to the served rows, and nothing else.
LEMMA FencingHandlerReturns ==
    ASSUME FencingInv, NEW w \in Workers, NEW result \in {"ok", "err"},
           HandlerReturns(w, result)
    PROVE  FencingInv'
<1> USE NoneIsNothing DEF FencingInv
<1>1. TypeOK'
  BY TypeDispatch, Zenon DEF WorkerShape, ClaimAtHand
<1>2. WorkerShape'
  BY Zenon DEF TypeOK, WorkerShape, HandlerReturns, tableVars
<1> QED
  BY <1>1, <1>2, QuietStep, Zenon DEF TypeOK, HandlerReturns, tableVars, InFlight, HoldsClaims

\* A publisher's insert: nobody has a claim on a row that was not there.
LEMMA FencingInsert ==
    ASSUME FencingInv, NEW e \in Events, e \notin rows \cup dlq, InsertRow(e)
    PROVE  FencingInv'
<1> USE DEF FencingInv
<1>1. TypeOK'
  BY TypeInsert, Zenon
<1>2. \A v \in Workers :
         /\ InFlight(v)' \subseteq InFlight(v) /\ todo'[v] \subseteq todo[v]
         /\ HoldsClaims(v)' => HoldsClaims(v)
         /\ pc'[v] = "polled" => pc[v] = "polled"
  BY CommitFrame, NoneIsNothing, Zenon DEF InsertRow, InFlight, HoldsClaims
<1>3. \A v \in Workers : \A c \in InFlight(v)' : c.event # e
  BY <1>2, Zenon DEF ClaimsHaveRows
<1>4. \A f \in Events : f # e =>
         attempts'[f] = attempts[f] /\ holder'[f] = holder[f] /\ started'[f] = started[f]
  BY Zenon DEF TypeOK, InsertRow
<1>5. rows' = rows \cup {e} /\ started'[e] = {} /\ UNCHANGED <<dlq, delivered, locks>>
  BY Zenon DEF TypeOK, InsertRow
<1>6. \A v \in Workers : \A c \in InFlight(v) : c.event \in Events
  BY NoneIsNothing, SMTT(30) DEF TypeOK, InFlight, Claim
<1>7. WorkerShape'
  <2>1. \A v \in Workers :
          \/ pc'[v] = pc[v] /\ todo'[v] = todo[v]
          \/ pc[v] = "polled" /\ pc'[v] = "idle" /\ todo'[v] = {}
    BY CommitFrame, NoneIsNothing, Zenon DEF InsertRow
  <2>2. \A v \in Workers : cur'[v] # None => cur'[v].event # e
    BY <1>3, Zenon DEF InFlight
  <2> QED
    BY <2>1, <2>2, Zenon DEF WorkerShape, InsertRow
<1>8. ClaimsHaveRows' /\ BatchIsASet'
  BY <1>2, <1>5, Zenon DEF ClaimsHaveRows, BatchIsASet
<1>9. CounterLeads'
  BY <1>2, <1>3, <1>4, <1>5, <1>6, ZenonT(60) DEF CounterLeads, TypeOK
<1>10. AttemptsAreExclusive'
  BY <1>2, <1>3, <1>4, <1>5, <1>6, SMTT(30) DEF AttemptsAreExclusive, InFlight
<1>11. PolledIsUndelivered'
  BY <1>2, <1>5, Zenon DEF PolledIsUndelivered, SupportsSkipLocked
<1>12. FenceIdentifiesHolder'
  BY <1>2, <1>3, <1>4, <1>5, <1>6, SMTT(30) DEF FenceIdentifiesHolder, FenceHolds
<1>13. DeliveredWasServed'
  BY <1>5, Zenon DEF TypeOK, DeliveredWasServed, InsertRow
<1> QED
  BY <1>1, <1>7, <1>8, <1>9, <1>10, <1>11, <1>12, <1>13, Zenon


\* A poll reads undelivered rows, each of them once, and holds no claim yet.
LEMMA FencingPoll ==
    ASSUME FencingInv, NEW w \in Workers, Poll(w)
    PROVE  FencingInv'
<1> USE DEF FencingInv
<1> DEFINE read == {[event |-> e, attempts |-> attempts[e], pos |-> rank[e]] :
                        e \in PolledBatch(w) \ Undecodable}
<1>1. TypeOK'
  BY TypeClaim, Zenon
<1>2. /\ pc[w] = "idle" /\ pc' = [pc EXCEPT ![w] = "polled"]
      /\ todo' = [todo EXCEPT ![w] = read]
      /\ locks' = [locks EXCEPT ![w] = LocksOf(PolledBatch(w))]
      /\ UNCHANGED <<tableVars, cur, outcome, ghostVars>>
  BY Zenon DEF Poll
<1>3. /\ \A c \in read : /\ c.event \in rows \ delivered
                         /\ SupportsSkipLocked => c.event \in LocksOf(PolledBatch(w))
      /\ \A c, d \in read : c.event = d.event => c = d
  <2>1. \A e \in PolledBatch(w) :
           e \in rows \ delivered /\ (SupportsSkipLocked => e \in LocksOf(PolledBatch(w)))
    BY Zenon DEF PolledBatch, Due, LocksOf
  <2>2. \A c \in read : c.event \in PolledBatch(w) /\
           c = [event |-> c.event, attempts |-> attempts[c.event], pos |-> rank[c.event]]
    OBVIOUS
  <2> QED
    BY <2>1, <2>2, Zenon
<1> HIDE DEF read
<1>4. /\ \A v \in Workers : v # w =>
           /\ InFlight(v)' = InFlight(v) /\ todo'[v] = todo[v] /\ HoldsClaims(v)' = HoldsClaims(v)
           /\ pc'[v] = pc[v] /\ locks'[v] = locks[v]
      /\ InFlight(w)' = read /\ ~HoldsClaims(w)' /\ pc'[w] = "polled" /\ todo'[w] = read
      /\ locks'[w] = LocksOf(PolledBatch(w)) /\ cur[w] = None
  BY <1>2, Zenon DEF TypeOK, WorkerShape, InFlight, HoldsClaims
<1>5. WorkerShape'
  BY <1>2, <1>4, ZenonT(60) DEF WorkerShape, tableVars, ghostVars
<1>6. ClaimsHaveRows' /\ BatchIsASet'
  BY <1>2, <1>3, <1>4 DEF ClaimsHaveRows, BatchIsASet, tableVars
<1>7. CounterLeads' /\ FenceIdentifiesHolder' /\ DeliveredWasServed'
  BY <1>2, <1>4
     DEF CounterLeads, FenceIdentifiesHolder, FenceHolds, DeliveredWasServed, tableVars, ghostVars
<1>8. AttemptsAreExclusive'
  BY <1>2, <1>4 DEF AttemptsAreExclusive, tableVars, ghostVars
<1>9. PolledIsUndelivered'
  BY <1>2, <1>3, <1>4 DEF PolledIsUndelivered, SupportsSkipLocked, tableVars
<1> QED
  BY <1>1, <1>5, <1>6, <1>7, <1>8, <1>9, Zenon

\* A claim, whether the worker learns of its commit or not: the counter of a
\* claimed row passes every older claim of it, which the fence then refuses.
LEMMA FencingClaim ==
    ASSUME FencingInv, NEW w \in Workers, ClaimBatch(w) \/ ClaimUnacknowledged(w)
    PROVE  FencingInv'
<1> USE DEF FencingInv
<1> DEFINE claimed == {c.event : c \in Obtained(w)}
<1>1. TypeOK'
  BY TypeClaim, Zenon
<1>2. PICK next \in {"ready", "idle"}, rest \in SUBSET Obtained(w) :
         /\ pc[w] = "polled" /\ ClaimRows(w) /\ CommitsWrite(w, next, rest)
         /\ next = "idle" => rest = {}
  BY Zenon DEF ClaimBatch, ClaimUnacknowledged
<1>3. /\ \A e \in Events : attempts'[e] = IF e \in claimed THEN attempts[e] + 1 ELSE attempts[e]
      /\ \A e \in Events : holder'[e] = IF e \in claimed THEN w ELSE holder[e]
      /\ \A v \in Workers : v # w => locks'[v] = locks[v]
      /\ UNCHANGED <<rows, delivered, dlq, cur, outcome, started, served>>
  BY <1>2, Zenon DEF TypeOK, ClaimRows, ClaimedAttempt
<1>4. \A c \in Obtained(w) :
         c \in todo[w] /\ c.event \in rows /\ c.event \in claimed /\ attempts[c.event] = c.attempts
  BY Zenon DEF Obtained
<1> HIDE DEF claimed
<1>5. /\ \A v \in Workers : v # w =>
           /\ InFlight(v)' \subseteq InFlight(v) /\ todo'[v] \subseteq todo[v]
           /\ HoldsClaims(v)' => HoldsClaims(v)
           /\ pc'[v] = "polled" => pc[v] = "polled"
      /\ InFlight(w)' = rest /\ todo'[w] = rest /\ pc'[w] = next /\ cur'[w] = None
  BY <1>2, <1>3, CommitFrame DEF WorkerShape, InFlight, HoldsClaims
<1>6. \A v \in Workers : \A c \in InFlight(v) :
         c \in Claim /\ c.event \in Events /\ c.attempts \in Nat
  BY NoneIsNothing DEF TypeOK, InFlight, Claim
<1>7. rest \subseteq InFlight(w)
  BY <1>4, ZenonT(60) DEF InFlight
<1>8. WorkerShape'
  BY <1>2, <1>3, CommitFrame DEF WorkerShape
<1>9. ClaimsHaveRows' /\ BatchIsASet'
  BY <1>3, <1>5, <1>7, Zenon DEF ClaimsHaveRows, BatchIsASet
<1>10. CounterLeads'
  <2>1. \A e \in Events :
           attempts[e] \in Nat /\ attempts'[e] \in Nat /\ attempts[e] <= attempts'[e]
    <3>1. \A e \in Events : attempts[e] \in Nat
      BY OutboxConstants DEF TypeOK
    <3> QED
      BY <1>3, <3>1
  <2>2. ASSUME NEW v \in Workers, HoldsClaims(v)', NEW c \in InFlight(v)', c.event \in rows'
        PROVE  c.attempts + 1 <= attempts'[c.event]
    <3>1. CASE v = w
      <4>1. c \in rest
        BY <1>5, <2>2, <3>1, Zenon
      <4>2. c.event \in Events /\ c.attempts \in Nat
        BY <1>6, <1>7, <4>1, Zenon
      <4>3. attempts'[c.event] = c.attempts + 1
        BY <1>3, <1>4, <4>1, <4>2, Zenon
      <4> QED
        BY <4>2, <4>3, Counting, Zenon
    <3>2. CASE v # w
      <4>1. c \in InFlight(v) /\ HoldsClaims(v) /\ c.event \in rows
        BY <1>3, <1>5, <2>2, <3>2, Zenon
      <4>2. c.attempts + 1 <= attempts[c.event]
        BY <4>1, Zenon DEF CounterLeads
      <4>3. c.event \in Events /\ c.attempts + 1 \in Nat
        BY <1>6, <4>1, Counting, Zenon
      <4> QED
        BY <2>1, <4>2, <4>3, Counting, Zenon
    <3> QED
      BY <3>1, <3>2, Zenon
  <2>3. ASSUME NEW e \in rows', NEW n \in started'[e] PROVE n <= attempts'[e]
    <3>1. e \in rows /\ n \in started[e] /\ n \in Nat /\ e \in Events
      BY <1>3, Zenon DEF TypeOK
    <3>2. n <= attempts[e]
      BY <3>1, Zenon DEF CounterLeads
    <3> QED
      BY <2>1, <3>1, <3>2, Counting, Zenon
  <2> QED
    BY <2>2, <2>3, ZenonT(60) DEF CounterLeads
<1>11. AttemptsAreExclusive'
  <2>1. ASSUME NEW c \in rest, NEW v \in Workers, v # w, HoldsClaims(v), NEW d \in InFlight(v),
               c.event = d.event
        PROVE  c.attempts # d.attempts
    <3>1. c \in Obtained(w) /\ attempts[c.event] = c.attempts /\ c.event \in rows
      BY <1>4, Zenon
    <3>2. d.attempts + 1 <= attempts[c.event] /\ d.attempts \in Nat
      BY <1>6, <2>1, <3>1, Zenon DEF CounterLeads
    <3> QED
      BY <3>1, <3>2, Counting, Zenon
  <2>2. \A c \in rest : c.attempts + 1 \notin started[c.event]
    <3> SUFFICES ASSUME NEW c \in rest, c.attempts + 1 \in started[c.event] PROVE FALSE
      BY Zenon
    <3>1. c.attempts + 1 <= attempts[c.event] /\ attempts[c.event] = c.attempts
      BY <1>4, Zenon DEF CounterLeads
    <3> QED
      BY <1>6, <1>7, <3>1, Counting, Zenon
  <2>3. ASSUME NEW u \in Workers, NEW v \in Workers, u # v, HoldsClaims(u)', HoldsClaims(v)',
               NEW c \in InFlight(u)', NEW d \in InFlight(v)', c.event = d.event
        PROVE  c.attempts # d.attempts
    <3>1. CASE u = w
      BY <1>5, <2>1, <2>3, <3>1, ZenonT(60)
    <3>2. CASE v = w
      BY <1>5, <2>1, <2>3, <3>2, ZenonT(60)
    <3>3. CASE u # w /\ v # w
      <4>1. c \in InFlight(u) /\ d \in InFlight(v) /\ HoldsClaims(u) /\ HoldsClaims(v)
        BY <1>5, <2>3, <3>3, ZenonT(60)
      <4> QED
        BY <2>3, <4>1, ZenonT(60) DEF AttemptsAreExclusive
    <3> QED
      BY <3>1, <3>2, <3>3, Zenon
  <2>4. ASSUME NEW u \in Workers, HoldsClaims(u)', NEW c \in todo'[u]
        PROVE  c.attempts + 1 \notin started'[c.event]
    <3>1. CASE u = w
      BY <1>3, <1>5, <2>2, <2>4, <3>1, ZenonT(60)
    <3>2. CASE u # w
      <4>1. c \in todo[u] /\ HoldsClaims(u)
        BY <1>5, <2>4, <3>2, ZenonT(60)
      <4> QED
        BY <1>3, <4>1, ZenonT(60) DEF AttemptsAreExclusive
    <3> QED
      BY <3>1, <3>2, Zenon
  <2> QED
    BY <2>3, <2>4, ZenonT(60) DEF AttemptsAreExclusive
<1>12. PolledIsUndelivered'
  BY <1>3, <1>5, Zenon DEF PolledIsUndelivered, SupportsSkipLocked
<1>13. FenceIdentifiesHolder'
  <2> SUFFICES ASSUME NEW v \in Workers, HoldsClaims(v)', NEW c \in InFlight(v)', FenceHolds(c)'
               PROVE  holder'[c.event] = v
    BY Zenon DEF FenceIdentifiesHolder
  <2>1. c.event \in rows \ delivered /\ attempts'[c.event] = c.attempts + 1
    BY <1>3, Zenon DEF FenceHolds
  <2>2. CASE v = w
    BY <1>3, <1>4, <1>5, <1>6, <1>7, <2>2, Zenon
  <2>3. CASE v # w
    <3>1. c \in InFlight(v) /\ HoldsClaims(v)
      BY <1>5, <2>3, Zenon
    <3>2. c.attempts + 1 <= attempts[c.event] /\ attempts[c.event] \in Nat
      <4>1. c.event \in rows /\ attempts \in [Events -> 0..MaxAttempts] /\ rows \subseteq Events
        BY <2>1, Zenon DEF TypeOK
      <4>2. c.attempts + 1 <= attempts[c.event]
        BY <3>1, <4>1, Zenon DEF CounterLeads
      <4>3. attempts[c.event] \in 0..MaxAttempts
        BY <4>1, Zenon
      <4> QED
        BY <4>2, <4>3, OutboxConstants
    <3>3. c.event \notin claimed
      BY <1>3, <1>6, <2>1, <3>1, <3>2
    <3> QED
      BY <1>3, <1>6, <2>1, <3>1, <3>3, ZenonT(60) DEF FenceIdentifiesHolder, FenceHolds
  <2> QED
    BY <2>2, <2>3, Zenon
<1>14. DeliveredWasServed'
  BY <1>3, Zenon DEF DeliveredWasServed
<1> QED
  BY <1>1, <1>8, <1>9, <1>10, <1>11, <1>12, <1>13, <1>14, Zenon

\* The start of a dispatch: the attempt was nobody else's, and now is spent.
LEMMA FencingStart ==
    ASSUME FencingInv, NEW w \in Workers, StartDispatch(w)
    PROVE  FencingInv'
<1> USE DEF FencingInv
<1>1. TypeOK'
  BY TypeDispatch, Zenon DEF WorkerShape, ClaimAtHand
<1>2. PICK c \in todo[w] :
         /\ cur' = [cur EXCEPT ![w] = c]
         /\ todo' = [todo EXCEPT ![w] = @ \ {c}]
         /\ started' = [started EXCEPT ![c.event] = @ \cup {c.attempts + 1}]
  BY Zenon DEF StartDispatch
<1>3. /\ pc[w] = "ready" /\ pc' = [pc EXCEPT ![w] = "dispatching"]
      /\ UNCHANGED <<rows, dlq, delivered, attempts, holder, served, outcome, locks>>
  BY Zenon DEF StartDispatch, tableVars
<1>4. c \in Claim /\ c # None /\ cur[w] = None /\ c.event \in Events /\ c.attempts \in Nat
  BY <1>3, NoneIsNothing DEF TypeOK, WorkerShape, Claim
<1>5. /\ \A v \in Workers : /\ InFlight(v)' = InFlight(v) /\ todo'[v] \subseteq todo[v]
                            /\ HoldsClaims(v)' = HoldsClaims(v)
                            /\ pc'[v] = "polled" => pc[v] = "polled" /\ todo'[v] = todo[v]
      /\ c \in InFlight(w) /\ HoldsClaims(w) /\ todo'[w] = todo[w] \ {c}
  BY <1>2, <1>3, <1>4 DEF TypeOK, InFlight, HoldsClaims
<1>6. /\ \A e \in Events : e # c.event => started'[e] = started[e]
      /\ started'[c.event] = started[c.event] \cup {c.attempts + 1}
  BY <1>2, <1>4, Zenon DEF TypeOK
<1>7. WorkerShape'
  BY <1>2, <1>3, <1>4, Zenon DEF TypeOK, WorkerShape
<1>8. ClaimsHaveRows' /\ BatchIsASet'
  BY <1>3, <1>5 DEF ClaimsHaveRows, BatchIsASet
<1>9. CounterLeads'
  <2>1. c.event \in rows => c.attempts + 1 <= attempts[c.event]
    BY <1>5, Zenon DEF CounterLeads
  <2>2. \A e \in rows' : \A n \in started'[e] : n <= attempts'[e]
    BY <1>3, <1>6, <2>1, ZenonT(60) DEF CounterLeads, TypeOK
  <2> QED
    BY <1>3, <1>5, <2>2 DEF CounterLeads
<1>10. AttemptsAreExclusive'
  <2>1. ASSUME NEW v \in Workers, HoldsClaims(v)', NEW d \in todo'[v]
        PROVE  d.attempts + 1 \notin started'[d.event]
    <3>1. d \in todo[v] /\ HoldsClaims(v) /\ d \in InFlight(v)
          /\ d.event \in Events /\ d.attempts \in Nat
      BY <1>5, <2>1, NoneIsNothing DEF TypeOK, InFlight, Claim
    <3>2. d.attempts + 1 \notin started[d.event]
      BY <3>1, Zenon DEF AttemptsAreExclusive
    <3>3. CASE d.event # c.event
      BY <1>6, <3>1, <3>2, <3>3, ZenonT(60)
    <3>4. CASE d.event = c.event
      <4>1. v # w
        BY <1>5, <2>1, <3>1, <3>4, ZenonT(60) DEF BatchIsASet
      <4>2. d.attempts # c.attempts
        <5>1. c \in InFlight(w) /\ HoldsClaims(w) /\ v \in Workers \ {w}
          BY <1>5, <4>1, Zenon
        <5> QED
          BY <3>1, <3>4, <5>1, Zenon DEF AttemptsAreExclusive
      <4> QED
        BY <1>4, <1>6, <3>1, <3>2, <3>4, <4>2
    <3> QED
      BY <3>3, <3>4, ZenonT(60)
  <2> QED
    BY <1>5, <2>1 DEF AttemptsAreExclusive
<1>11. PolledIsUndelivered'
  BY <1>3, <1>5, ZenonT(60) DEF PolledIsUndelivered, SupportsSkipLocked
<1>12. FenceIdentifiesHolder' /\ DeliveredWasServed'
  BY <1>3, <1>5 DEF FenceIdentifiesHolder, FenceHolds, DeliveredWasServed
<1> QED
  BY <1>1, <1>7, <1>8, <1>9, <1>10, <1>11, <1>12, Zenon

\* A settlement that finds its row: nobody has it in an open claiming
\* transaction, by the row lock or by the lost snapshot.
LEMMA FencingSettle ==
    ASSUME FencingInv, NEW w \in Workers, SettleDelivered(w) \/ SettleDeadLettered(w)
    PROVE  FencingInv'
<1> USE DEF FencingInv
<1> DEFINE e == cur[w].event
<1>1. TypeOK'
  BY TypeSettle, Zenon DEF WorkerShape, ClaimAtHand
<1>2. /\ pc[w] = "settling" /\ cur' = [cur EXCEPT ![w] = None]
      /\ Writable(w, e) /\ FenceHolds(cur[w])
      /\ CommitsWrite(w, "ready", todo[w])
      /\ UNCHANGED <<outcome, locks, started, served>>
  BY Zenon DEF SettleDelivered, SettleDeadLettered, Applies, Settles, ghostVars
<1>3. /\ cur[w] \in Claim /\ e \in Events /\ e \in rows \ delivered
  BY <1>2, ZenonT(60) DEF TypeOK, WorkerShape, FenceHolds, Claim
<1>4. /\ \A v \in Workers :
           /\ InFlight(v)' \subseteq InFlight(v) /\ todo'[v] \subseteq todo[v]
           /\ HoldsClaims(v)' => HoldsClaims(v)
           /\ pc'[v] = "polled" => pc[v] = "polled" /\ v # w /\ SupportsSkipLocked
  BY <1>2, CommitFrame, SMTT(30) DEF TypeOK, InFlight, HoldsClaims
<1>5. /\ rows' \cup dlq' = rows \cup dlq /\ rows' \subseteq rows
      /\ \A f \in rows' : attempts'[f] = attempts[f] /\ holder'[f] = holder[f]
      /\ delivered \subseteq delivered' /\ delivered' \subseteq delivered \cup {e}
      /\ e \in delivered' => e \in served
      /\ ~HasDeadLetter => dlq' = {}
  <2>1. CASE SettleDelivered(w)
    BY <1>2, <1>3, <2>1, ZenonT(60)
       DEF TypeOK, SettleDelivered, Applies, Settles, WorkerShape, ghostVars
  <2>2. CASE SettleDeadLettered(w)
    BY <1>3, <2>2, SMTT(30) DEF TypeOK, SettleDeadLettered
  <2> QED
    BY <2>1, <2>2, Zenon
<1>6. WorkerShape'
  <2>1. \A v \in Workers :
          \/ v = w /\ pc'[v] = "ready"
          \/ v # w /\ pc'[v] = pc[v] /\ todo'[v] = todo[v]
          \/ v # w /\ pc[v] = "polled" /\ pc'[v] = "idle" /\ todo'[v] = {}
    BY <1>2, CommitFrame, ZenonT(60)
  <2> QED
    BY <1>2, <1>5, <2>1, Zenon DEF WorkerShape, TypeOK
<1>7. ClaimsHaveRows' /\ BatchIsASet'
  <2>1. ClaimsHaveRows'
    BY <1>4, <1>5, ZenonT(60) DEF ClaimsHaveRows
  <2>2. BatchIsASet'
    BY <1>4, <1>5, ZenonT(60) DEF BatchIsASet
  <2> QED
    BY <2>1, <2>2, Zenon
<1>8. CounterLeads'
  BY <1>2, <1>4, <1>5, Zenon DEF CounterLeads
<1>9. AttemptsAreExclusive'
  <2>1. ASSUME NEW v \in Workers, HoldsClaims(v)', NEW u \in Workers \ {v}, HoldsClaims(u)',
               NEW c \in InFlight(v)', NEW d \in InFlight(u)', c.event = d.event
        PROVE  c.attempts # d.attempts
    <3>1. c \in InFlight(v) /\ d \in InFlight(u) /\ HoldsClaims(v) /\ HoldsClaims(u)
      BY <1>4, <2>1, Zenon
    <3> QED
      BY <2>1, <3>1, Zenon DEF AttemptsAreExclusive
  <2>2. ASSUME NEW v \in Workers, HoldsClaims(v)', NEW c \in todo'[v]
        PROVE  c.attempts + 1 \notin started'[c.event]
    BY <1>2, <1>4, <2>2, Zenon DEF AttemptsAreExclusive
  <2> QED
    BY <2>1, <2>2, Zenon DEF AttemptsAreExclusive
<1>10. PolledIsUndelivered'
  BY <1>2, <1>4, <1>5, ZenonT(60) DEF PolledIsUndelivered, Writable, SupportsSkipLocked
<1>11. FenceIdentifiesHolder'
  <2> SUFFICES ASSUME NEW v \in Workers, HoldsClaims(v)', NEW c \in InFlight(v)', FenceHolds(c)'
               PROVE  holder'[c.event] = v
    BY Zenon DEF FenceIdentifiesHolder
  <2>1. HoldsClaims(v) /\ c \in InFlight(v)
    BY <1>4, Zenon
  <2>2. FenceHolds(c) /\ holder'[c.event] = holder[c.event]
    BY <1>5, ZenonT(60) DEF FenceHolds
  <2> QED
    BY <2>1, <2>2, Zenon DEF FenceIdentifiesHolder
<1>12. DeliveredWasServed'
  BY <1>2, <1>5, Zenon DEF DeliveredWasServed
<1> QED
  BY <1>1, <1>6, <1>7, <1>8, <1>9, <1>10, <1>11, <1>12, Zenon

\* Where an id never comes back, an insert is always of an id without claims.
LEMMA FencingStep ==
    ASSUME SingleIncarnation, FencingInv, [Next]_vars
    PROVE  FencingInv'
<1>1. ASSUME NEW e \in Events, Publish(e) \/ EnqueueIdempotent(e) PROVE FencingInv'
  <2>1. e \notin rows \cup dlq
    BY <1>1, Zenon DEF Publish, EnqueueIdempotent, SingleIncarnation, FencingInv, WorkerShape
  <2> QED
    BY <1>1, <2>1, FencingInsert, Zenon DEF Publish, EnqueueIdempotent
<1>2. ASSUME NEW w \in Workers, WorkerStep(w) PROVE FencingInv'
  BY <1>2, FencingPoll, FencingClaim, FencingStart, FencingHandlerReturns, FencingSettle,
     FencingQuiet, Zenon DEF WorkerStep
<1>3. CASE Tick
  <2>1. CASE Workers # {}
    BY <1>3, <2>1, FencingQuiet, Zenon
  <2>2. CASE Workers = {}
    <3>1. TypeOK'
      BY <1>3, TypeEnvironment, ZenonT(60) DEF FencingInv
    <3> QED
      BY <1>3, <2>2, <3>1, Zenon
         DEF Tick, FencingInv, WorkerShape, ClaimsHaveRows, BatchIsASet, CounterLeads, ghostVars,
             AttemptsAreExclusive, PolledIsUndelivered, FenceIdentifiesHolder, DeliveredWasServed
  <2> QED
    BY <2>1, <2>2, Zenon
<1>4. CASE UNCHANGED vars
  <2>1. /\ UNCHANGED <<rows, rank, attempts, retryIn, delivered, dlq, pc, todo, cur>>
        /\ UNCHANGED <<left, outcome, locks, faults, holder, started, served>>
    BY <1>4, Zenon DEF vars, tableVars, workerVars, ghostVars
  <2>2. TypeOK' /\ WorkerShape' /\ PolledIsUndelivered' /\ DeliveredWasServed'
    BY <2>1, ZenonT(60)
       DEF FencingInv, TypeOK, WorkerShape, PolledIsUndelivered, DeliveredWasServed
  <2>3. \A v \in Workers : InFlight(v)' = InFlight(v) /\ HoldsClaims(v)' = HoldsClaims(v)
    BY <2>1, Zenon DEF InFlight, HoldsClaims
  <2>4. ClaimsHaveRows'
    BY <2>1, <2>3, ZenonT(60) DEF FencingInv, ClaimsHaveRows
  <2>5. BatchIsASet'
    <3>1. BatchIsASet
      BY Zenon DEF FencingInv
    <3> SUFFICES ASSUME NEW v \in Workers, NEW c \in InFlight(v)', NEW d \in InFlight(v)',
                        c.event = d.event
                 PROVE  c = d
      BY Zenon DEF BatchIsASet
    <3>2. c \in InFlight(v) /\ d \in InFlight(v)
      BY <2>3, Zenon
    <3> QED
      BY <3>1, <3>2, Zenon DEF BatchIsASet
  <2>6. CounterLeads'
    BY <2>1, <2>3, ZenonT(60) DEF FencingInv, CounterLeads
  <2>7. AttemptsAreExclusive'
    <3>1. AttemptsAreExclusive
      BY Zenon DEF FencingInv
    <3>2. ASSUME NEW v \in Workers, HoldsClaims(v)', NEW u \in Workers \ {v}, HoldsClaims(u)',
                 NEW c \in InFlight(v)', NEW d \in InFlight(u)', c.event = d.event
          PROVE  c.attempts # d.attempts
      <4>1. c \in InFlight(v) /\ d \in InFlight(u) /\ HoldsClaims(v) /\ HoldsClaims(u)
        BY <2>3, <3>2, Zenon
      <4> QED
        BY <3>1, <3>2, <4>1, Zenon DEF AttemptsAreExclusive
    <3>3. ASSUME NEW v \in Workers, HoldsClaims(v)', NEW c \in todo'[v]
          PROVE  c.attempts + 1 \notin started'[c.event]
      <4>1. HoldsClaims(v) /\ c \in todo[v] /\ started' = started
        BY <2>1, <2>3, <3>3, Zenon
      <4> QED
        BY <3>1, <4>1, Zenon DEF AttemptsAreExclusive
    <3> QED
      BY <3>2, <3>3, Zenon DEF AttemptsAreExclusive
  <2>8. FenceIdentifiesHolder'
    BY <2>1, <2>3, ZenonT(60) DEF FencingInv, FenceIdentifiesHolder, FenceHolds
  <2> QED
    BY <2>2, <2>4, <2>5, <2>6, <2>7, <2>8, Zenon DEF FencingInv
<1> QED
  BY <1>1, <1>2, <1>3, <1>4, Zenon DEF Next

\* The inductive invariant holds for every number of workers and events.
THEOREM Fencing ==
    ASSUME SingleIncarnation
    PROVE  Spec => []FencingInv
BY FencingInit, FencingStep, PTL DEF Spec

\* The fence of the settlements admits the newest claimant of a row only.
THEOREM FenceIsSafe ==
    ASSUME SingleIncarnation
    PROVE  Spec => []FenceIdentifiesHolder
<1>1. FencingInv => FenceIdentifiesHolder
  BY Zenon DEF FencingInv
<1> QED
  BY <1>1, Fencing, PTL

\* No row is marked delivered unless its handler returned Ok.
THEOREM DeliveryIsEarned ==
    ASSUME SingleIncarnation
    PROVE  Spec => []DeliveredWasServed
<1>1. FencingInv => DeliveredWasServed
  BY Zenon DEF FencingInv
<1> QED
  BY <1>1, Fencing, PTL


-----------------------------------------------------------------------------
(* What no step may do.                                                    *)

LEMMA DeliveredStep ==
    ASSUME TableInv, [Next]_vars, NEW e \in delivered
    PROVE  e \in delivered' /\ attempts'[e] = attempts[e]
<1> USE DEF TableInv
<1>1. e \in Events /\ e \in rows
  BY Zenon DEF TypeOK
<1>2. ASSUME NEW f \in Events, Publish(f) \/ EnqueueIdempotent(f)
      PROVE  e \in delivered' /\ attempts'[e] = attempts[e]
  BY <1>1, <1>2, ZenonT(60) DEF TypeOK, Publish, EnqueueIdempotent, InsertRow
<1>3. ASSUME NEW w \in Workers, ClaimBatch(w) \/ ClaimUnacknowledged(w)
      PROVE  e \in delivered' /\ attempts'[e] = attempts[e]
  <2>1. pc[w] = "polled" /\ ClaimRows(w)
    BY <1>3, Zenon DEF ClaimBatch, ClaimUnacknowledged
  <2>2. e \notin {c.event : c \in Obtained(w)}
    BY <2>1, Zenon DEF Obtained, PolledIsUndelivered
  <2> QED
    BY <1>1, <2>1, <2>2, Zenon DEF TypeOK, ClaimRows
<1>4. ASSUME NEW w \in Workers, SettleDeadLettered(w)
      PROVE  e \in delivered' /\ attempts'[e] = attempts[e]
  BY <1>1, <1>4, Zenon DEF TypeOK, SettleDeadLettered, Applies, FenceHolds
<1>5. ASSUME NEW w \in Workers, WorkerStep(w), ~SettleDeadLettered(w),
             ~ClaimBatch(w), ~ClaimUnacknowledged(w)
      PROVE  e \in delivered' /\ attempts'[e] = attempts[e]
  BY <1>5, Zenon DEF WorkerStep, Poll, PollRollsBack, StartDispatch, HandlerReturns, DispatchTimesOut,
     SettleDelivered, SettleRetry, SettleRefused, SettleRollsBack, EndCycle, Crash, Restart,
     tableVars
<1>6. CASE Tick
  BY <1>6, Zenon DEF Tick
<1>7. CASE UNCHANGED vars
  BY <1>7, Zenon DEF vars, tableVars
<1> QED
  BY <1>2, <1>3, <1>4, <1>5, <1>6, <1>7, Zenon DEF Next

\* A delivered row is never claimed, reopened or dead-lettered again, even when
\* other ids come back from the dead-letter table.
THEOREM DeliveryIsFinal == Spec => DeliveredIsFinal
<1>1. TableInv /\ [Next]_vars
         => [\A e \in delivered : e \in delivered' /\ attempts'[e] = attempts[e]]_vars
  BY DeliveredStep, Zenon
<1> QED
  BY <1>1, Table, PTL DEF Spec, DeliveredIsFinal

\* Every start of a handler takes an attempt number of its own.
THEOREM AttemptsAreCountedOnce ==
    ASSUME SingleIncarnation
    PROVE  Spec => NoAttemptDispatchedTwice
<1> DEFINE StartsFresh ==
        \A w \in Workers : pc[w] = "ready" /\ pc'[w] = "dispatching"
            => cur'[w].attempts + 1 \notin started[cur'[w].event]
<1>1. ASSUME FencingInv, [Next]_vars PROVE [StartsFresh]_vars
  <2> SUFFICES ASSUME Next, NEW w \in Workers, pc[w] = "ready", pc'[w] = "dispatching"
               PROVE  cur'[w].attempts + 1 \notin started[cur'[w].event]
    BY <1>1, Zenon DEF StartsFresh
  <2>1. pc \in [Workers -> {"idle", "polled", "ready", "dispatching", "settling", "down"}]
    BY <1>1, Zenon DEF FencingInv, TypeOK
  <2>2. \A v \in Workers \cup {None} : \A next, rest :
           CommitsWrite(v, next, rest) /\ next # "dispatching" => pc'[w] # "dispatching"
    BY Zenon DEF CommitsWrite
  <2>3. StartDispatch(w)
    <3>1. ASSUME NEW e \in Events, Publish(e) \/ EnqueueIdempotent(e) PROVE FALSE
      BY <2>2, <3>1, Zenon DEF Publish, EnqueueIdempotent, InsertRow
    <3>2. ASSUME NEW v \in Workers, WorkerStep(v), ~StartDispatch(w) PROVE FALSE
      <4>1. CASE ClaimBatch(v) \/ ClaimUnacknowledged(v) \/ SettleDelivered(v)
                   \/ SettleRetry(v) \/ SettleDeadLettered(v)
        BY <2>2, <4>1, Zenon
           DEF ClaimBatch, ClaimUnacknowledged, SettleDelivered, SettleRetry, SettleDeadLettered
      <4>2. CASE Poll(v) \/ PollRollsBack(v) \/ DispatchTimesOut(v) \/ SettleRefused(v)
                   \/ SettleRollsBack(v) \/ EndCycle(v) \/ Crash(v) \/ Restart(v)
        BY <2>1, <4>2, Zenon DEF Poll, PollRollsBack, DispatchTimesOut, SettleRefused, SettleRollsBack,
           EndCycle, Crash, Restart
      <4>3. CASE StartDispatch(v)
        BY <2>1, <3>2, <4>3, Zenon DEF StartDispatch
      <4>4. CASE \E result \in {"ok", "err"} : HandlerReturns(v, result)
        BY <2>1, <4>4, Zenon DEF HandlerReturns
      <4> QED
        BY <3>2, <4>1, <4>2, <4>3, <4>4, Zenon DEF WorkerStep
    <3>3. ~Tick
      BY Zenon DEF Tick
    <3> QED
      BY <3>1, <3>2, <3>3, Zenon DEF Next
  <2>4. PICK c \in todo[w] : cur' = [cur EXCEPT ![w] = c]
    BY <2>3, Zenon DEF StartDispatch
  <2>5. cur'[w] = c /\ c \in InFlight(w) /\ HoldsClaims(w)
    BY <1>1, <2>4, Zenon DEF FencingInv, TypeOK, InFlight, HoldsClaims, WorkerShape
  <2>6. c.attempts + 1 \notin started[c.event]
    BY <1>1, <2>5, Zenon DEF FencingInv, AttemptsAreExclusive
  <2> QED
    BY <2>5, <2>6, Zenon
<1> QED
  BY <1>1, Fencing, PTL DEF Spec, NoAttemptDispatchedTwice

\* A row leaves the table by a settlement that passes the fence with no attempt left.
LEMMA BuriedStep ==
    ASSUME Next, NEW e \in rows, e \notin rows'
    PROVE  \E w \in Workers :
              e = cur[w].event /\ pc[w] = "settling" /\ FenceHolds(cur[w]) /\ BudgetSpent(cur[w])
<1>1. PICK w \in Workers : SettleDeadLettered(w)
  BY ZenonT(60) DEF Next, Publish, EnqueueIdempotent, InsertRow, Tick, WorkerStep, Poll, ClaimBatch,
     ClaimUnacknowledged, ClaimRows, PollRollsBack, StartDispatch, HandlerReturns,
     DispatchTimesOut, SettleDelivered, SettleRetry, SettleRefused, SettleRollsBack, EndCycle,
     Crash, Restart, tableVars
<1>2. e = cur[w].event /\ pc[w] = "settling" /\ FenceHolds(cur[w]) /\ BudgetSpent(cur[w])
  BY <1>1, Zenon DEF SettleDeadLettered, Applies, Settles
<1> QED
  BY <1>2, Zenon

\* Even a stale claim of an earlier life of its id gives up no row that has an
\* attempt left.
THEOREM BurialIsSpent == Spec => [][\A e \in rows \ rows' : attempts[e] = MaxAttempts]_vars
<1>1. ASSUME TableInv, [Next]_vars
      PROVE  [\A e \in rows \ rows' : attempts[e] = MaxAttempts]_vars
  <2> SUFFICES ASSUME Next, NEW e \in rows, e \notin rows' PROVE attempts[e] = MaxAttempts
    BY <1>1, Zenon
  <2>1. PICK w \in Workers :
           e = cur[w].event /\ pc[w] = "settling" /\ FenceHolds(cur[w]) /\ BudgetSpent(cur[w])
    BY BuriedStep, Zenon
  <2>2. cur[w] \in Claim
    BY <1>1, <2>1, Zenon DEF TableInv, ClaimAtHand, TypeOK
  <2> QED
    BY <2>1, <2>2, SpentBudget, Zenon
<1> QED
  BY <1>1, Table, PTL DEF Spec

\* Only the newest claimant dead-letters a row, and only with no attempt left.
THEOREM BurialIsEarned ==
    ASSUME SingleIncarnation
    PROVE  Spec => BuriedByHolderWhenSpent
<1> DEFINE Earned ==
        \A e \in rows \ rows' :
            /\ attempts[e] = MaxAttempts
            /\ \E w \in Workers : w = holder[e] /\ pc[w] = "settling" /\ cur[w].event = e
<1>1. ASSUME FencingInv, [Next]_vars PROVE [Earned]_vars
  <2> SUFFICES ASSUME Next, NEW e \in rows, e \notin rows'
               PROVE  /\ attempts[e] = MaxAttempts
                      /\ \E w \in Workers : w = holder[e] /\ pc[w] = "settling" /\ cur[w].event = e
    BY <1>1, Zenon DEF Earned
  <2>2. PICK w \in Workers :
           e = cur[w].event /\ pc[w] = "settling" /\ FenceHolds(cur[w]) /\ BudgetSpent(cur[w])
    BY BuriedStep, Zenon
  <2>3. cur[w] \in InFlight(w) /\ HoldsClaims(w) /\ cur[w] \in Claim
    BY <1>1, <2>2, Zenon DEF FencingInv, WorkerShape, TypeOK, InFlight, HoldsClaims
  <2>4. holder[e] = w
    BY <1>1, <2>2, <2>3, Zenon DEF FencingInv, FenceIdentifiesHolder
  <2>5. attempts[e] = MaxAttempts
    BY <2>2, <2>3, SpentBudget, Zenon
  <2> QED
    BY <2>2, <2>4, <2>5, Zenon
<1> QED
  BY <1>1, Fencing, PTL DEF Spec, BuriedByHolderWhenSpent

-----------------------------------------------------------------------------
(* The outbox implements its contract.                                     *)

LEMMA ContractInit == Init => Contract!Init
BY Zenon DEF Init, Contract!Init, Status

\* Every step of the outbox is a step of the contract or changes nothing that
\* the contract speaks about.
LEMMA ContractStep ==
    ASSUME FencingInv, [Next]_vars
    PROVE  [Contract!Next]_(Contract!vars)
<1> USE DEF FencingInv
<1>1. ASSUME UNCHANGED <<rows, delivered, dlq, attempts, served>>
      PROVE  UNCHANGED Contract!vars
  BY <1>1, Zenon DEF Contract!vars, Status
<1>2. ASSUME NEW e \in Events, Publish(e) \/ EnqueueIdempotent(e) PROVE Contract!Accept(e)
  <2>1. /\ e \notin rows /\ e \notin delivered /\ (e \in dlq => e \in Idempotent)
        /\ rows' = rows \cup {e} /\ UNCHANGED <<delivered, dlq>>
        /\ attempts' = [attempts EXCEPT ![e] = 0] /\ served' = served \ {e}
    BY <1>2, Zenon DEF TypeOK, Publish, EnqueueIdempotent, InsertRow
  <2>2. Status[e] = "absent" \/ (Status[e] = "dead" /\ e \in Idempotent)
    BY <2>1, Zenon DEF Status
  <2>3. Status' = [Status EXCEPT ![e] = "pending"]
    BY <2>1, Zenon DEF Status
  <2> QED
    BY <2>1, <2>2, <2>3, Zenon DEF Contract!Accept
<1>3. ASSUME NEW w \in Workers, ClaimBatch(w) \/ ClaimUnacknowledged(w)
      PROVE  \E batch \in SUBSET Events : Contract!Count(batch)
  <2> DEFINE claimed == {c.event : c \in Obtained(w)}
  <2>1. pc[w] = "polled" /\ ClaimRows(w)
    BY <1>3, Zenon DEF ClaimBatch, ClaimUnacknowledged
  <2>2. \A e \in claimed :
           e \in Events /\ e \in rows \ delivered /\ attempts[e] < MaxAttempts
    BY <2>1, OutboxConstants DEF Obtained, PolledIsUndelivered, TypeOK, Claim
  <2>3. /\ attempts' = [e \in Events |-> IF e \in claimed THEN attempts[e] + 1 ELSE attempts[e]]
        /\ UNCHANGED <<rows, delivered, dlq, served>>
    BY <2>1, Zenon DEF ClaimRows, ClaimedAttempt
  <2> HIDE DEF claimed
  <2>4. claimed \in SUBSET Events /\ claimed \subseteq Contract!Pending
    BY <2>2, Zenon DEF Contract!Pending, Status
  <2>5. UNCHANGED Status
    BY <2>3, Zenon DEF Status
  <2> QED
    BY <2>2, <2>3, <2>4, <2>5, Zenon DEF Contract!Count
<1>4. ASSUME NEW w \in Workers, NEW result \in {"ok", "err"}, HandlerReturns(w, result)
      PROVE  (\E e \in Events : Contract!Serve(e)) \/ UNCHANGED Contract!vars
  <2>1. UNCHANGED <<rows, delivered, dlq, attempts>>
    BY <1>4, Zenon DEF HandlerReturns, tableVars
  <2>2. CASE result = "err"
    BY <1>1, <1>4, <2>1, <2>2, Zenon DEF HandlerReturns
  <2>3. CASE result = "ok"
    <3>1. cur[w] \in Claim /\ cur[w] \in InFlight(w) /\ cur[w].event \in Events
      BY <1>4, Zenon DEF HandlerReturns, WorkerShape, TypeOK, InFlight, Claim
    <3>2. Status[cur[w].event] # "absent"
      BY <3>1, Zenon DEF ClaimsHaveRows, Status
    <3>3. UNCHANGED Status
      BY <2>1, Zenon DEF Status
    <3>4. Contract!Serve(cur[w].event)
      BY <1>4, <2>1, <2>3, <3>2, <3>3, Zenon DEF HandlerReturns, Contract!Serve
    <3> QED
      BY <3>1, <3>4, Zenon
  <2> QED
    BY <2>2, <2>3, Zenon
<1>5. ASSUME NEW w \in Workers, SettleDelivered(w) \/ SettleDeadLettered(w)
      PROVE  \E e \in Events : Contract!Deliver(e) \/ Contract!Bury(e)
  <2> DEFINE e == cur[w].event
  <2>1. /\ pc[w] = "settling" /\ FenceHolds(cur[w])
    BY <1>5, ZenonT(60) DEF SettleDelivered, SettleDeadLettered, Applies, Settles
  <2>2. cur[w] \in Claim /\ e \in Events /\ cur[w].attempts \in Nat /\ e \in rows \ delivered
        /\ attempts[e] = cur[w].attempts + 1
    <3>1. cur[w] \in Claim
      BY <2>1, Zenon DEF WorkerShape, TypeOK
    <3>2. cur[w].attempts \in 0..(MaxAttempts - 1) /\ e \in Events
      BY <3>1, Zenon DEF Claim
    <3>3. cur[w].attempts \in Nat
      BY <3>2
    <3> QED
      BY <2>1, <3>1, <3>2, <3>3, Zenon DEF FenceHolds
  <2>3. Status[e] = "pending"
    BY <2>2, Zenon DEF Status
  <2>4. CASE SettleDelivered(w)
    <3>1. e \in served
      BY <2>1, <2>4, Zenon DEF WorkerShape, SettleDelivered, Applies, Settles
    <3>2. Status' = [Status EXCEPT ![e] = "delivered"]
      BY <2>2, <2>4, ZenonT(60) DEF Status, SettleDelivered
    <3>3. Contract!Deliver(e)
      <4>1. UNCHANGED <<attempts, served>>
        BY <2>4, ZenonT(60) DEF SettleDelivered, ghostVars
      <4>2. attempts[e] > 0
        BY <2>2, Counting, Zenon
      <4> QED
        BY <2>3, <3>1, <3>2, <4>1, <4>2, Zenon DEF Contract!Deliver
    <3> QED
      BY <2>2, <3>3, Zenon
  <2>5. CASE SettleDeadLettered(w)
    <3>1. attempts[e] = MaxAttempts
      BY <2>1, <2>2, <2>5, SpentBudget, Zenon DEF SettleDeadLettered
    <3>2. Status' = [Status EXCEPT ![e] = "dead"]
      BY <2>2, <2>5, Zenon DEF Status, SettleDeadLettered
    <3>3. Contract!Bury(e)
      BY <2>3, <2>5, <3>1, <3>2, Zenon DEF Contract!Bury, SettleDeadLettered
    <3> QED
      BY <2>2, <3>3, ZenonT(60)
  <2> QED
    BY <1>5, <2>4, <2>5, Zenon
<1>6. ASSUME NEW w \in Workers,
             \/ Poll(w) \/ PollRollsBack(w) \/ StartDispatch(w) \/ DispatchTimesOut(w)
             \/ SettleRetry(w) \/ SettleRefused(w) \/ SettleRollsBack(w) \/ EndCycle(w)
             \/ Crash(w) \/ Restart(w)
      PROVE  UNCHANGED Contract!vars
  BY <1>1, <1>6, Zenon DEF Poll, PollRollsBack, StartDispatch, DispatchTimesOut, SettleRetry,
     SettleRefused, SettleRollsBack, EndCycle, Crash, Restart, tableVars, ghostVars
<1>7. CASE Tick
  BY <1>1, <1>7, Zenon DEF Tick, ghostVars
<1>8. CASE UNCHANGED vars
  BY <1>1, <1>8, Zenon DEF vars, tableVars, ghostVars
<1>9. ASSUME NEW w \in Workers, WorkerStep(w) PROVE [Contract!Next]_(Contract!vars)
  BY <1>3, <1>4, <1>5, <1>6, <1>9, Zenon DEF WorkerStep, Contract!Next
<1>10. ASSUME NEW e \in Events, Publish(e) \/ EnqueueIdempotent(e)
       PROVE  [Contract!Next]_(Contract!vars)
  BY <1>2, <1>10, Zenon DEF Contract!Next
<1> QED
  BY <1>7, <1>8, <1>9, <1>10, Zenon DEF Next

\* The outbox, its workers and their races implement OutboxContract.
THEOREM Refinement ==
    ASSUME SingleIncarnation
    PROVE  Spec => ImplementsContract
<1>1. Init => Contract!Init
  BY ContractInit, Zenon
<1>2. FencingInv /\ [Next]_vars => [Contract!Next]_(Contract!vars)
  BY ContractStep, Zenon
<1> QED
  BY <1>1, <1>2, Fencing, PTL DEF Spec, ImplementsContract, Contract!Spec

-----------------------------------------------------------------------------
(* The lease: no two handlers of an event before their deadlines.          *)

\* What the facts about locks, due rows and deadlines have at the start.
LEMMA DeadlineInit == Init => DeadlineInv
<1> SUFFICES ASSUME Init PROVE DeadlineInv
  BY Zenon
<1>1. FencingInv
  BY FencingInit, Zenon
<1>2. LocksAreExclusive /\ PolledIsDue
  BY Zenon DEF Init, LocksAreExclusive, PolledIsDue
<1>3. DispatchIsBounded
  BY OutboxConstants DEF Init, DispatchIsBounded
<1>4. \A w \in Workers : Leased(w)
  BY Zenon DEF Init, Leased, HoldsClaims
<1> QED
  BY <1>1, <1>2, <1>3, <1>4, Zenon DEF DeadlineInv

\* A batch is finite: it holds an event once.
LEMMA BatchIsFinite ==
    ASSUME FencingInv, NEW w \in Workers, NEW S \in SUBSET todo[w]
    PROVE  /\ IsFiniteSet(S)
           /\ Cardinality(S) \in Nat
           /\ IsFiniteSet({c.event : c \in todo[w]})
           /\ Cardinality(S) <= Cardinality({c.event : c \in todo[w]})
           /\ Cardinality({c.event : c \in todo[w]}) \in Nat
<1> DEFINE T == {c.event : c \in todo[w]}
           f == [c \in S |-> c.event]
<1>1. T \in SUBSET Events
  BY DEF FencingInv, TypeOK, Claim
<1>2. IsFiniteSet(T)
  BY <1>1, OutboxConstants, FS_Subset, Zenon
<1>3. \A c, d \in S : c.event = d.event => c = d
  BY Zenon DEF FencingInv, BatchIsASet, InFlight
<1>4. f \in [S -> T]
  BY Zenon
<1>5. DOMAIN f = S /\ \A c \in S : f[c] = c.event
  BY Zenon
<1> HIDE DEF f, T
<1>6. f \in Injection(S, T)
  BY <1>3, <1>4, <1>5, Zenon DEF Injection, IsInjective
<1>7. IsFiniteSet(S) /\ Cardinality(S) <= Cardinality(T)
  BY <1>2, <1>6, FS_Injection, Zenon
<1> USE DEF T
<1> QED
  BY <1>2, <1>7, FS_CardinalityType, Zenon

\* A lease that covers a claim is still running.
LEMMA LeaseIsRunning ==
    ASSUME DeadlineInv, DispatchTimeout > 0, NEW w \in Workers, HoldsClaims(w),
           NEW c \in Timed(w)
    PROVE  /\ FenceHolds(c) /\ c \in InFlight(w) /\ c \in Claim
           /\ retryIn[c.event] > 0
<1>1. /\ FenceHolds(c)
      /\ retryIn[c.event] >= left[w] + DispatchTimeout * Cardinality(todo[w])
  BY Zenon DEF DeadlineInv, Leased
<1>2. left[w] \in Nat /\ DispatchTimeout \in Nat /\ Cardinality(todo[w]) \in Nat
  BY OutboxConstants, BatchIsFinite, Zenon DEF DeadlineInv, FencingInv, TypeOK
<1>3. c \in InFlight(w) /\ c \in Claim
  <2>1. CASE c \in todo[w]
    BY <2>1, Zenon DEF InFlight, DeadlineInv, FencingInv, TypeOK
  <2>2. CASE left[w] > 0 /\ c = cur[w]
    <3>1. cur[w] # None
      BY <2>2, Zenon DEF DeadlineInv, DispatchIsBounded, FencingInv, WorkerShape
    <3> QED
      BY <2>2, <3>1, Zenon DEF InFlight, DeadlineInv, FencingInv, TypeOK
  <2> QED
    BY <2>1, <2>2, Zenon DEF Timed
<1>4. retryIn[c.event] \in Nat
  BY <1>3, ZenonT(60) DEF DeadlineInv, FencingInv, TypeOK, Claim
<1>5. CASE c \in todo[w]
  <2>1. Cardinality(todo[w]) # 0
    BY <1>5, BatchIsFinite, FS_EmptySet, Zenon DEF DeadlineInv
  <2>2. DispatchTimeout * Cardinality(todo[w]) >= DispatchTimeout
    BY <1>2, <2>1
  <2> DEFINE k == DispatchTimeout * Cardinality(todo[w])
  <2>3. k \in Nat
    BY <1>2
  <2> HIDE DEF k
  <2> QED
    BY <1>1, <1>2, <1>3, <1>4, <2>2, <2>3 DEF k
<1>6. CASE c \notin todo[w]
  <2>1. left[w] > 0
    BY <1>6, Zenon DEF Timed
  <2> DEFINE k == DispatchTimeout * Cardinality(todo[w])
  <2>2. k \in Nat
    BY <1>2
  <2> HIDE DEF k
  <2> QED
    BY <1>1, <1>2, <1>3, <1>4, <2>1, <2>2 DEF k
<1> QED
  BY <1>5, <1>6, Zenon

\* A worker keeps its leases in a step that gives it no claim and no time, and
\* after which its rows still accept it and are not due any sooner.
LEMMA LeaseKept ==
    ASSUME DeadlineInv, TypeOK', DispatchTimeout > 0, NEW w \in Workers,
           HoldsClaims(w)' =>
              /\ HoldsClaims(w)
              /\ todo'[w] = todo[w]
              /\ (left'[w] = left[w] /\ cur'[w] = cur[w]) \/ left'[w] = 0,
           HoldsClaims(w) =>
              \A c \in Timed(w) :
                 FenceHolds(c)' /\ retryIn'[c.event] >= retryIn[c.event]
    PROVE  Leased(w)'
<1> SUFFICES ASSUME HoldsClaims(w)', NEW c \in Timed(w)'
             PROVE  /\ FenceHolds(c)'
                    /\ retryIn'[c.event] >= left'[w] + DispatchTimeout * Cardinality(todo'[w])
  BY Zenon DEF Leased
<1>1. c \in Timed(w)
  BY DEF Timed
<1>2. c \in Claim /\ retryIn[c.event] \in Nat /\ retryIn'[c.event] \in Nat
  <2>1. c \in Claim
    BY <1>1, LeaseIsRunning, Zenon
  <2>2. retryIn \in [Events -> Nat] /\ retryIn' \in [Events -> Nat]
    BY Zenon DEF DeadlineInv, FencingInv, TypeOK
  <2> QED
    BY <2>1, <2>2, Zenon DEF Claim
<1>3. retryIn[c.event] >= left[w] + DispatchTimeout * Cardinality(todo[w])
  BY <1>1, Zenon DEF DeadlineInv, Leased
<1>4. left[w] \in Nat /\ left'[w] \in Nat /\ DispatchTimeout * Cardinality(todo[w]) \in Nat
  <2>1. Cardinality(todo[w]) \in Nat /\ DispatchTimeout \in Nat
    BY OutboxConstants, BatchIsFinite, ZenonT(60) DEF DeadlineInv
  <2>2. left[w] \in Nat /\ left'[w] \in Nat
    BY Zenon DEF DeadlineInv, FencingInv, TypeOK
  <2>3. DispatchTimeout * Cardinality(todo[w]) \in Nat
    BY <2>1
  <2> QED
    BY <2>2, <2>3, Zenon
<1>5. left'[w] <= left[w]
  BY <1>4
<1> DEFINE k == DispatchTimeout * Cardinality(todo[w])
<1>6. k = DispatchTimeout * Cardinality(todo'[w])
  BY Zenon
<1>7. FenceHolds(c)' /\ retryIn'[c.event] >= retryIn[c.event]
  BY <1>1, Zenon
<1>8. k \in Nat /\ retryIn[c.event] >= left[w] + k
  BY <1>3, <1>4, Zenon
<1> HIDE DEF k
<1>9. retryIn'[c.event] >= left'[w] + k
  BY <1>2, <1>4, <1>5, <1>7, <1>8
<1> QED
  BY <1>6, <1>7, <1>9, Zenon

\* Nobody but the worker that settles a row has a lease that covers it.
LEMMA SettledIsItsOwn ==
    ASSUME DeadlineInv, DispatchTimeout > 0, NEW w \in Workers, pc[w] = "settling",
           FenceHolds(cur[w]), NEW v \in Workers, HoldsClaims(v), NEW c \in Timed(v)
    PROVE  c.event # cur[w].event
<1> USE DEF DeadlineInv, FencingInv
<1>1. FenceHolds(c) /\ c \in InFlight(v)
  BY LeaseIsRunning, Zenon
<1>2. cur[w] \in InFlight(w) /\ HoldsClaims(w)
  BY Zenon DEF WorkerShape, InFlight, HoldsClaims
<1>3. CASE v # w
  BY <1>1, <1>2, <1>3, ZenonT(60) DEF FenceIdentifiesHolder
<1>4. CASE v = w
  <2>1. c \in todo[w] /\ cur[w] \notin todo[w]
    BY <1>4, Zenon DEF DispatchIsBounded, Timed
  <2> QED
    BY <1>1, <1>2, <1>4, <2>1, Zenon DEF BatchIsASet
<1> QED
  BY <1>3, <1>4, Zenon
\* A step that changes no row, and after which every worker has the claims, the
\* locks and the time that it had, or none.
LEMMA DeadlineQuiet ==
    ASSUME DeadlineInv, FencingInv', UNCHANGED tableVars,
           \A v \in Workers :
              /\ HoldsClaims(v)' => HoldsClaims(v) /\ todo'[v] = todo[v]
              /\ todo'[v] = todo[v] \/ todo'[v] = {}
              /\ cur'[v] = cur[v] \/ cur'[v] = None
              /\ locks'[v] = locks[v] \/ locks'[v] = {}
              /\ locks'[v] # {} => pc'[v] = pc[v]
              /\ pc'[v] = "polled" => pc[v] = "polled"
              /\ \/ left'[v] = left[v] /\ cur'[v] = cur[v] /\ pc'[v] = pc[v]
                 \/ left'[v] = 0
    PROVE  DeadlineInv'
<1>1. LocksAreExclusive'
  BY Zenon DEF DeadlineInv, LocksAreExclusive, SupportsSkipLocked
<1>2. PolledIsDue'
  BY Zenon DEF DeadlineInv, PolledIsDue, tableVars
<1>3. DispatchIsBounded'
  <2> SUFFICES ASSUME NEW v \in Workers
               PROVE  /\ left'[v] <= DispatchTimeout
                      /\ left'[v] > 0 => pc'[v] = "dispatching"
                      /\ cur'[v] \notin todo'[v]
    BY Zenon DEF DispatchIsBounded
  <2>1. left'[v] <= DispatchTimeout /\ (left'[v] > 0 => pc'[v] = "dispatching")
    <3>1. 0 <= DispatchTimeout /\ ~(0 > 0)
      BY OutboxConstants
    <3> QED
      BY <3>1, Zenon DEF DeadlineInv, DispatchIsBounded
  <2>2. cur'[v] \notin todo'[v]
    <3>1. None \notin todo'[v]
      BY NoneIsNothing, Zenon DEF FencingInv, TypeOK
    <3> QED
      BY <3>1, Zenon DEF DeadlineInv, DispatchIsBounded
  <2> QED
    BY <2>1, <2>2, Zenon
<1>4. ASSUME DispatchTimeout > 0, NEW v \in Workers PROVE Leased(v)'
  <2>1. ASSUME HoldsClaims(v), NEW c \in Timed(v)
        PROVE  FenceHolds(c)' /\ retryIn'[c.event] >= retryIn[c.event]
    <3>1. FenceHolds(c) /\ c \in Claim
      BY <1>4, <2>1, LeaseIsRunning, Zenon
    <3>2. retryIn[c.event] \in Nat
      BY <3>1, Zenon DEF DeadlineInv, FencingInv, TypeOK, Claim
    <3> QED
      BY <3>1, <3>2, NoSooner, Zenon DEF FenceHolds, tableVars
  <2> QED
    BY <1>4, <2>1, LeaseKept, ZenonT(60) DEF FencingInv
<1> QED
  BY <1>1, <1>2, <1>3, <1>4, Zenon DEF DeadlineInv

\* A worker that runs no handler has no deadline running.
LEMMA NoDeadline ==
    ASSUME FencingInv, DispatchIsBounded, NEW w \in Workers, pc[w] # "dispatching"
    PROVE  left[w] = 0
<1>1. left[w] \in Nat
  BY Zenon DEF FencingInv, TypeOK
<1>2. ~(left[w] > 0)
  BY Zenon DEF DispatchIsBounded
<1> QED
  BY <1>1, <1>2

\* The steps of one worker that change no row and take no claim.
LEMMA DeadlineEnds ==
    ASSUME DeadlineInv, FencingInv', NEW w \in Workers,
           \/ PollRollsBack(w) \/ SettleRefused(w) \/ SettleRollsBack(w)
           \/ DispatchTimesOut(w) \/ EndCycle(w) \/ Crash(w) \/ Restart(w)
           \/ \E result \in {"ok", "err"} : HandlerReturns(w, result)
    PROVE  DeadlineInv'
<1>0. DOMAIN pc = Workers /\ DOMAIN todo = Workers /\ DOMAIN cur = Workers
      /\ DOMAIN left = Workers /\ DOMAIN locks = Workers
  BY Zenon DEF DeadlineInv, FencingInv, TypeOK
<1>1. pc[w] # "dispatching" => left[w] = 0
  BY NoDeadline, Zenon DEF DeadlineInv
<1>2. pc[w] # "polled" => locks[w] = {}
  BY Zenon DEF DeadlineInv, LocksAreExclusive
<1>3. CASE PollRollsBack(w)
  BY <1>0, <1>1, <1>3, DeadlineQuiet, Zenon DEF PollRollsBack, HoldsClaims
<1>4. CASE SettleRefused(w) \/ SettleRollsBack(w)
  BY <1>0, <1>1, <1>2, <1>4, DeadlineQuiet, Zenon DEF SettleRefused, SettleRollsBack, Settles, HoldsClaims
<1>5. CASE DispatchTimesOut(w)
  BY <1>0, <1>2, <1>5, DeadlineQuiet, Zenon DEF DispatchTimesOut, HoldsClaims
<1>6. CASE EndCycle(w)
  BY <1>0, <1>1, <1>2, <1>6, DeadlineQuiet, Zenon DEF EndCycle, HoldsClaims
<1>7. CASE Crash(w)
  BY <1>0, <1>7, DeadlineQuiet, Zenon DEF Crash, HoldsClaims
<1>8. CASE Restart(w)
  BY <1>0, <1>1, <1>2, <1>8, DeadlineQuiet, Zenon DEF Restart, HoldsClaims
<1>9. CASE \E result \in {"ok", "err"} : HandlerReturns(w, result)
  BY <1>0, <1>2, <1>9, DeadlineQuiet, Zenon DEF HandlerReturns, HoldsClaims
<1> QED
  BY <1>3, <1>4, <1>5, <1>6, <1>7, <1>8, <1>9, Zenon

\* A poll takes row locks that nobody has, and reads rows that are due.
LEMMA DeadlinePoll ==
    ASSUME DeadlineInv, FencingInv', NEW w \in Workers, Poll(w)
    PROVE  DeadlineInv'
<1> USE DEF DeadlineInv
<1> DEFINE read == {[event |-> e, attempts |-> attempts[e], pos |-> rank[e]] :
                        e \in PolledBatch(w) \ Undecodable}
<1>1. /\ pc[w] = "idle" /\ pc' = [pc EXCEPT ![w] = "polled"]
      /\ todo' = [todo EXCEPT ![w] = read]
      /\ locks' = [locks EXCEPT ![w] = LocksOf(PolledBatch(w))]
      /\ UNCHANGED <<tableVars, cur, left>>
  BY Zenon DEF Poll
<1>2. \A e \in PolledBatch(w) :
         retryIn[e] = 0 /\ (SupportsSkipLocked => Writable(w, e))
  BY Zenon DEF PolledBatch, Due
<1>3. \A c \in read : c.event \in PolledBatch(w)
  OBVIOUS
<1> HIDE DEF read
<1>4. /\ \A v \in Workers \ {w} :
           pc'[v] = pc[v] /\ todo'[v] = todo[v] /\ locks'[v] = locks[v]
      /\ pc'[w] = "polled" /\ todo'[w] = read
      /\ locks'[w] = LocksOf(PolledBatch(w))
      /\ ~HoldsClaims(w)' /\ cur[w] = None /\ left[w] = 0
      /\ \A v \in Workers : cur'[v] = cur[v] /\ left'[v] = left[v]
  <2>1. left[w] = 0
    BY <1>1, NoDeadline, Zenon
  <2>2. cur[w] = None
    BY <1>1, Zenon DEF FencingInv, WorkerShape
  <2>3. DOMAIN pc = Workers /\ DOMAIN todo = Workers /\ DOMAIN locks = Workers
    BY Zenon DEF FencingInv, TypeOK
  <2> QED
    BY <1>1, <2>1, <2>2, <2>3, Zenon DEF HoldsClaims
<1>5. LocksAreExclusive'
  <2>1. LocksOf(PolledBatch(w)) # {} => SupportsSkipLocked
    BY Zenon DEF LocksOf
  <2>2. \A v \in Workers \ {w} : LocksOf(PolledBatch(w)) \cap locks[v] = {}
    BY <1>2, ZenonT(60) DEF LocksOf, Writable
  <2>3. \A v, x \in Workers : v # x => locks'[v] \cap locks'[x] = {}
    BY <1>4, <2>2, SMTT(20) DEF LocksAreExclusive
  <2>4. \A v \in Workers : locks'[v] # {} => pc'[v] = "polled" /\ SupportsSkipLocked
    BY <1>4, <2>1, Zenon DEF LocksAreExclusive
  <2> QED
    BY <2>3, <2>4, Zenon DEF LocksAreExclusive, SupportsSkipLocked
<1>6. PolledIsDue'
  BY <1>1, <1>2, <1>3, <1>4, Zenon DEF PolledIsDue, tableVars
<1>7. DispatchIsBounded'
  <2>1. None \notin todo'[w]
    BY NoneIsNothing, Zenon DEF FencingInv, TypeOK
  <2> QED
    BY <1>1, <1>4, <2>1, ZenonT(60) DEF DispatchIsBounded
<1>8. ASSUME DispatchTimeout > 0, NEW v \in Workers PROVE Leased(v)'
  <2>1. CASE v = w
    BY <1>4, <2>1, Zenon DEF Leased
  <2>2. CASE v # w
    <3>1. HoldsClaims(v)' => HoldsClaims(v)
      BY <1>4, <2>2, ZenonT(60) DEF HoldsClaims
    <3>2. ASSUME HoldsClaims(v), NEW c \in Timed(v)
          PROVE  FenceHolds(c)' /\ retryIn'[c.event] >= retryIn[c.event]
      <4>1. FenceHolds(c) /\ c \in Claim
        BY <1>8, <3>2, LeaseIsRunning, Zenon
      <4>2. retryIn[c.event] \in Nat
        BY <4>1, Zenon DEF FencingInv, TypeOK, Claim
      <4> QED
        BY <1>1, <4>1, <4>2 DEF FenceHolds, tableVars
    <3> QED
      BY <1>4, <1>8, <2>2, <3>1, <3>2, LeaseKept, Zenon DEF FencingInv
  <2> QED
    BY <2>1, <2>2, Zenon
<1> QED
  BY <1>5, <1>6, <1>7, <1>8, Zenon

\* A worker other than the one that commits keeps its claims or loses an open
\* claiming transaction, and what it has read stays due: the row is locked, or
\* the commit has cost it its snapshot.
LEMMA DeadlineCommit ==
    ASSUME DeadlineInv, FencingInv', NEW w, NEW next, NEW rest,
           CommitsWrite(w, next, rest), next # "polled",
           UNCHANGED left,
           \A v \in Workers \ {w} : locks'[v] = locks[v] /\ cur'[v] = cur[v],
           w \in Workers => locks'[w] = {} /\ cur'[w] = None /\ left[w] = 0,
           SupportsSkipLocked =>
              \A v \in Workers \ {w} : pc[v] = "polled" =>
                 \A c \in todo[v] : c.event \in locks[v] => retryIn'[c.event] = retryIn[c.event]
    PROVE  /\ LocksAreExclusive' /\ PolledIsDue' /\ DispatchIsBounded'
           /\ \A v \in Workers \ {w} :
                 HoldsClaims(v)' => HoldsClaims(v) /\ todo'[v] = todo[v] /\ pc'[v] = pc[v]
<1> USE DEF DeadlineInv
<1>1. TypeOK
  BY Zenon DEF FencingInv
<1>2. /\ w \in Workers => pc'[w] = next /\ todo'[w] = rest
      /\ \A v \in Workers \ {w} :
            \/ pc'[v] = pc[v] /\ todo'[v] = todo[v]
            \/ pc[v] = "polled" /\ pc'[v] = "idle" /\ todo'[v] = {}
      /\ ~SupportsSkipLocked => \A v \in Workers \ {w} : pc'[v] # "polled"
  <2>1. /\ w \in Workers => pc'[w] = next /\ todo'[w] = rest
        /\ \A v \in Workers : v # w =>
              \/ pc'[v] = pc[v] /\ todo'[v] = todo[v]
              \/ pc[v] = "polled" /\ pc'[v] = "idle" /\ todo'[v] = {}
        /\ ~SupportsSkipLocked => \A v \in Workers : v # w => pc'[v] # "polled"
    BY <1>1, CommitFrame, Zenon
  <2> QED
    BY <2>1, Zenon
<1>3. SupportsSkipLocked => \A v \in Workers \ {w} : pc'[v] = pc[v]
  BY <1>1, Zenon DEF CommitsWrite, LosesSnapshot
<1>4. LocksAreExclusive'
  <2>1. \A v, x \in Workers : v # x => locks'[v] \cap locks'[x] = {}
    BY Zenon DEF LocksAreExclusive
  <2>2. \A v \in Workers : locks'[v] # {} => pc'[v] = "polled" /\ SupportsSkipLocked
    BY <1>3, Zenon DEF LocksAreExclusive
  <2> QED
    BY <2>1, <2>2, Zenon DEF LocksAreExclusive, SupportsSkipLocked
<1>5. PolledIsDue'
  <2> SUFFICES ASSUME NEW v \in Workers, pc'[v] = "polled", NEW c \in todo'[v]
               PROVE  retryIn'[c.event] = 0
    BY Zenon DEF PolledIsDue
  <2>1. v # w /\ SupportsSkipLocked /\ pc[v] = "polled" /\ c \in todo[v]
    BY <1>2, Zenon
  <2>2. c.event \in locks[v] /\ retryIn[c.event] = 0
    BY <2>1, Zenon DEF PolledIsDue, FencingInv, PolledIsUndelivered
  <2> QED
    BY <2>1, <2>2, Zenon
<1>6. DispatchIsBounded'
  <2> SUFFICES ASSUME NEW v \in Workers
               PROVE  /\ left'[v] <= DispatchTimeout
                      /\ left'[v] > 0 => pc'[v] = "dispatching"
                      /\ cur'[v] \notin todo'[v]
    BY Zenon DEF DispatchIsBounded
  <2>1. None \notin todo'[v]
    BY NoneIsNothing, ZenonT(60) DEF FencingInv, TypeOK
  <2>2. ~(0 > 0)
    OBVIOUS
  <2>3. CASE v = w
    BY <2>1, <2>2, <2>3, Zenon DEF DispatchIsBounded
  <2>4. CASE v # w
    BY <1>2, <2>4, Zenon DEF DispatchIsBounded
  <2> QED
    BY <2>3, <2>4, Zenon
<1>7. ASSUME NEW v \in Workers \ {w}
      PROVE  HoldsClaims(v)' => HoldsClaims(v) /\ todo'[v] = todo[v] /\ pc'[v] = pc[v]
  BY <1>2, Zenon DEF HoldsClaims
<1> QED
  BY <1>4, <1>5, <1>6, <1>7, Zenon

\* Inserting a row: nobody holds a lease on it or has read it.
LEMMA DeadlineInsert ==
    ASSUME DeadlineInv, FencingInv', NEW e \in Events, e \notin rows \cup dlq, InsertRow(e)
    PROVE  DeadlineInv'
<1> USE DEF DeadlineInv
<1>1. /\ CommitsWrite(None, "idle", {}) /\ None \notin Workers
      /\ rows' = rows \cup {e} /\ UNCHANGED <<delivered, cur, left, locks>>
  BY NoneIsNothing, Zenon DEF InsertRow
<1>2. \A f \in Events : f # e => attempts'[f] = attempts[f] /\ retryIn'[f] = retryIn[f]
  BY ZenonT(60) DEF InsertRow, FencingInv, TypeOK
<1>3. \A v \in Workers : \A c \in todo[v] : c.event \in Events /\ c.event # e
  <2>1. \A v \in Workers : \A c \in todo[v] : c.event \in Events
    BY DEF FencingInv, TypeOK, Claim
  <2> QED
    BY <2>1, Zenon DEF FencingInv, ClaimsHaveRows, InFlight
<1>4. /\ LocksAreExclusive' /\ PolledIsDue' /\ DispatchIsBounded'
      /\ \A v \in Workers :
            HoldsClaims(v)' => HoldsClaims(v) /\ todo'[v] = todo[v] /\ pc'[v] = pc[v]
  <2>1. "idle" # "polled"
    BY Zenon
  <2>2. \A v \in Workers : v # None
    BY <1>1, Zenon
  <2> QED
    BY <1>1, <1>2, <1>3, <2>1, <2>2, DeadlineCommit, ZenonT(60)
<1>5. ASSUME DispatchTimeout > 0, NEW v \in Workers PROVE Leased(v)'
  <2>1. ASSUME HoldsClaims(v), NEW c \in Timed(v)
        PROVE  FenceHolds(c)' /\ retryIn'[c.event] >= retryIn[c.event]
    <3>1. FenceHolds(c) /\ c \in Claim
      BY <1>5, <2>1, LeaseIsRunning, Zenon
    <3>2. c.event \in Events /\ retryIn[c.event] \in Nat
      BY <3>1, Zenon DEF FencingInv, TypeOK, Claim
    <3>3. c.event # e
      BY <3>1, Zenon DEF FenceHolds
    <3> QED
      BY <1>1, <1>2, <3>1, <3>2, <3>3, NoSooner, Zenon DEF FenceHolds
  <2> QED
    BY <1>1, <1>4, <1>5, <2>1, LeaseKept, ZenonT(60) DEF FencingInv
<1> QED
  BY <1>4, <1>5, Zenon

\* A settlement that applies: it is let through by the fence, so the row is
\* nobody else's, and it waits for whoever has the row locked.
LEMMA DeadlineSettles ==
    ASSUME DeadlineInv, FencingInv', NEW w \in Workers,
           SettleDelivered(w) \/ SettleRetry(w) \/ SettleDeadLettered(w)
    PROVE  DeadlineInv'
<1> USE DEF DeadlineInv
<1> DEFINE e == cur[w].event
<1>1. /\ pc[w] = "settling" /\ FenceHolds(cur[w]) /\ Writable(w, e)
      /\ cur' = [cur EXCEPT ![w] = None] /\ UNCHANGED <<left, locks>>
      /\ CommitsWrite(w, "ready", todo[w])
  BY Zenon DEF SettleDelivered, SettleRetry, SettleDeadLettered, Applies, Settles
<1>2. e \in Events
  BY <1>1, Zenon DEF FenceHolds, FencingInv, TypeOK
<1>3. \A f \in Events : f # e =>
         /\ attempts'[f] = attempts[f] /\ retryIn'[f] = retryIn[f]
         /\ f \in rows \ delivered => f \in rows' \ delivered'
  <2> HIDE DEF e
  <2>0. DOMAIN retryIn = Events /\ DOMAIN attempts = Events
    BY Zenon DEF FencingInv, TypeOK
  <2>1. CASE SettleDelivered(w)
    BY <2>1, Zenon DEF SettleDelivered, e
  <2>2. CASE SettleRetry(w)
    BY <2>0, <2>2, Zenon DEF SettleRetry, e
  <2>3. CASE SettleDeadLettered(w)
    BY <2>0, <2>3, Zenon DEF SettleDeadLettered, e
  <2> QED
    BY <2>1, <2>2, <2>3, Zenon
<1> HIDE DEF e
<1>4. /\ \A v \in Workers \ {w} : cur'[v] = cur[v] /\ locks'[v] = locks[v]
      /\ cur'[w] = None /\ left[w] = 0 /\ locks'[w] = {}
      /\ todo'[w] = todo[w] /\ pc'[w] = "ready"
  <2>1. DOMAIN cur = Workers
    BY Zenon DEF FencingInv, TypeOK
  <2>2. left[w] = 0
    BY <1>1, NoDeadline, Zenon
  <2>3. locks[w] = {}
    BY <1>1, Zenon DEF LocksAreExclusive
  <2>4. todo'[w] = todo[w] /\ pc'[w] = "ready"
    BY <1>1, CommitFrame, Zenon DEF FencingInv
  <2> QED
    BY <1>1, <2>1, <2>2, <2>3, <2>4, ZenonT(60)
<1>5. \A v \in Workers \ {w} : \A c \in todo[v] : c.event \in locks[v] =>
         retryIn'[c.event] = retryIn[c.event]
  <2>1. \A v \in Workers : \A c \in todo[v] : c.event \in Events
    BY DEF FencingInv, TypeOK, Claim
  <2> QED
    BY <1>1, <1>3, <2>1, ZenonT(60) DEF Writable
<1>6. /\ LocksAreExclusive' /\ PolledIsDue' /\ DispatchIsBounded'
      /\ \A v \in Workers \ {w} :
            HoldsClaims(v)' => HoldsClaims(v) /\ todo'[v] = todo[v] /\ pc'[v] = pc[v]
  <2>1. "ready" # "polled"
    BY Zenon
  <2> QED
    BY <1>1, <1>4, <1>5, <2>1, DeadlineCommit, Zenon
<1>7. ASSUME DispatchTimeout > 0, NEW v \in Workers PROVE Leased(v)'
  <2>1. ASSUME HoldsClaims(v), NEW c \in Timed(v)
        PROVE  FenceHolds(c)' /\ retryIn'[c.event] >= retryIn[c.event]
    <3>1. FenceHolds(c) /\ c \in Claim
      BY <1>7, <2>1, LeaseIsRunning, Zenon
    <3>2. c.event \in Events /\ retryIn[c.event] \in Nat
      BY <3>1, Zenon DEF FencingInv, TypeOK, Claim
    <3>3. c.event # e
      BY <1>1, <1>7, <2>1, SettledIsItsOwn, Zenon DEF e
    <3> QED
      BY <1>3, <3>1, <3>2, <3>3 DEF FenceHolds
  <2>2. HoldsClaims(v)' => /\ HoldsClaims(v) /\ todo'[v] = todo[v]
                           /\ (left'[v] = left[v] /\ cur'[v] = cur[v]) \/ left'[v] = 0
    <3>1. CASE v = w
      BY <1>1, <1>4, <3>1, Zenon DEF HoldsClaims
    <3>2. CASE v # w
      BY <1>1, <1>4, <1>6, <3>2, Zenon
    <3> QED
      BY <3>1, <3>2, Zenon
  <2> QED
    BY <1>7, <2>1, <2>2, LeaseKept, ZenonT(60) DEF FencingInv
<1> QED
  BY <1>6, <1>7, Zenon

\* A claim takes rows that were due, which nobody has a lease on, and gives
\* itself a lease of one dispatch timeout for each row that it polled.
LEMMA DeadlineClaim ==
    ASSUME DeadlineInv, FencingInv', NEW w \in Workers,
           ClaimBatch(w) \/ ClaimUnacknowledged(w)
    PROVE  DeadlineInv'
<1> USE DEF DeadlineInv
<1> DEFINE claimed == {c.event : c \in Obtained(w)}
           polled == {c.event : c \in todo[w]}
<1>1. PICK next \in {"ready", "idle"}, rest \in SUBSET Obtained(w) :
         /\ pc[w] = "polled" /\ ClaimRows(w) /\ CommitsWrite(w, next, rest)
         /\ next = "idle" => rest = {}
  BY Zenon DEF ClaimBatch, ClaimUnacknowledged
<1>2. /\ \A e \in Events : e \notin claimed =>
            attempts'[e] = attempts[e] /\ retryIn'[e] = retryIn[e]
      /\ \A e \in Events : e \in claimed =>
            attempts'[e] = attempts[e] + 1 /\ retryIn'[e] = LeaseFor(Cardinality(polled))
      /\ locks' = [locks EXCEPT ![w] = {}]
      /\ UNCHANGED <<rows, delivered, cur, left>>
  BY <1>1, Zenon DEF ClaimRows, ClaimedAttempt
<1>3. \A c \in Obtained(w) :
         c \in todo[w] /\ c.event \in rows /\ c.event \in claimed /\ attempts[c.event] = c.attempts
  BY Zenon DEF Obtained
<1>4. \A e \in claimed : \E c \in Obtained(w) : e = c.event
  BY Zenon
<1> HIDE DEF claimed
<1>5. /\ cur'[w] = None /\ left[w] = 0 /\ locks'[w] = {} /\ todo'[w] = rest
      /\ HoldsClaims(w)' => next = "ready"
      /\ \A v \in Workers \ {w} : locks'[v] = locks[v] /\ cur'[v] = cur[v]
  <2>1. DOMAIN locks = Workers /\ TypeOK
    BY Zenon DEF FencingInv, TypeOK
  <2>2. left[w] = 0
    BY <1>1, NoDeadline, Zenon
  <2>3. cur[w] = None
    BY <1>1, Zenon DEF FencingInv, WorkerShape
  <2>4. pc'[w] = next /\ todo'[w] = rest
    BY <1>1, <2>1, CommitFrame, ZenonT(60)
  <2> QED
    BY <1>1, <1>2, <2>1, <2>2, <2>3, <2>4, Zenon DEF HoldsClaims
<1>6. \A c \in todo[w] : c.event \in Events /\ c.event \notin delivered /\ retryIn[c.event] = 0
                         /\ (SupportsSkipLocked => c.event \in locks[w])
  <2>1. \A c \in todo[w] : c.event \in Events
    BY DEF FencingInv, TypeOK, Claim
  <2> QED
    BY <1>1, <2>1, ZenonT(60) DEF PolledIsDue, FencingInv, PolledIsUndelivered
<1>7. SupportsSkipLocked =>
         \A v \in Workers \ {w} : \A c \in todo[v] :
            c.event \in locks[v] => retryIn'[c.event] = retryIn[c.event]
  <2>1. \A v \in Workers : \A c \in todo[v] : c.event \in Events
    BY DEF FencingInv, TypeOK, Claim
  <2>2. SupportsSkipLocked => \A e \in claimed : e \in locks[w]
    BY <1>3, <1>4, <1>6, Zenon
  <2>3. \A v \in Workers \ {w} : \A e \in locks[v] : e \notin locks[w]
    BY Zenon DEF LocksAreExclusive
  <2> QED
    BY <1>2, <2>1, <2>2, <2>3, ZenonT(60)
<1>8. /\ LocksAreExclusive' /\ PolledIsDue' /\ DispatchIsBounded'
      /\ \A v \in Workers \ {w} :
            HoldsClaims(v)' => HoldsClaims(v) /\ todo'[v] = todo[v] /\ pc'[v] = pc[v]
  <2>1. next # "polled"
    BY <1>1, Zenon
  <2>2. CommitsWrite(w, next, rest) /\ UNCHANGED left
    BY <1>1, <1>2, Zenon
  <2> QED
    BY <1>5, <1>7, <2>1, <2>2, DeadlineCommit, Zenon
<1>9. ASSUME DispatchTimeout > 0, NEW v \in Workers, v # w PROVE Leased(v)'
  <2>1. ASSUME HoldsClaims(v), NEW c \in Timed(v)
        PROVE  FenceHolds(c)' /\ retryIn'[c.event] >= retryIn[c.event]
    <3>1. FenceHolds(c) /\ c \in Claim /\ retryIn[c.event] > 0
      BY <1>9, <2>1, LeaseIsRunning, Zenon
    <3>2. c.event \in Events /\ retryIn[c.event] \in Nat
      BY <3>1, ZenonT(60) DEF FencingInv, TypeOK, Claim
    <3>3. c.event \notin claimed
      BY <1>3, <1>4, <1>6, <3>1, <3>2, Counting, ZenonT(60)
    <3> QED
      BY <1>2, <3>1, <3>2, <3>3, Counting, Zenon DEF FenceHolds
  <2> QED
    BY <1>2, <1>5, <1>8, <1>9, <2>1, LeaseKept, ZenonT(60) DEF FencingInv
<1>10. ASSUME DispatchTimeout > 0 PROVE Leased(w)'
  <2> SUFFICES ASSUME HoldsClaims(w)', NEW c \in Timed(w)'
               PROVE  /\ FenceHolds(c)'
                      /\ retryIn'[c.event] >= left'[w] + DispatchTimeout * Cardinality(todo'[w])
    BY ZenonT(60) DEF Leased
  <2>1. left'[w] = 0 /\ c \in Obtained(w)
    <3>1. left'[w] = 0 /\ todo'[w] = rest
      BY <1>2, <1>5, Zenon
    <3>2. ~(0 > 0)
      OBVIOUS
    <3> QED
      BY <1>1, <3>1, <3>2, Zenon DEF Timed
  <2>2. c.event \in Events /\ attempts[c.event] \in Nat
    <3>1. c.event \in Events /\ attempts \in [Events -> 0..MaxAttempts]
      BY <1>3, <1>6, <2>1, ZenonT(60) DEF FencingInv, TypeOK
    <3>2. \A n \in 0..MaxAttempts : n \in Nat
      OBVIOUS
    <3> QED
      BY <3>1, <3>2, Zenon
  <2>3. FenceHolds(c)'
    BY <1>2, <1>3, <1>6, <2>1, <2>2, Zenon DEF FenceHolds
  <2>4. retryIn'[c.event] = LeaseFor(Cardinality(polled))
    BY <1>2, <1>3, <2>1, <2>2, Zenon
  <2>5. /\ Cardinality(rest) \in Nat /\ Cardinality(polled) \in Nat
        /\ Cardinality(rest) <= Cardinality(polled)
    <3>1. rest \in SUBSET todo[w]
      BY <1>1, <1>3, Zenon
    <3> QED
      BY <3>1, BatchIsFinite, Zenon
  <2> DEFINE m == Cardinality(rest)
             n == Cardinality(polled)
  <2>6. DispatchTimeout * m <= LeaseFor(n) /\ DispatchTimeout * m \in Nat
    <3> HIDE DEF m, n
    <3>1. m \in Nat /\ n \in Nat /\ m <= n /\ DispatchTimeout \in Nat
      BY <2>5, OutboxConstants, Zenon DEF m, n
    <3>2. PICK k \in Nat : k = (IF n = 0 THEN 1 ELSE n) /\ m <= k
      BY <3>1
    <3>3. DispatchTimeout * m <= DispatchTimeout * k
      BY <3>1, <3>2
    <3>4. DispatchTimeout * m \in Nat
      BY <3>1
    <3> QED
      BY <3>2, <3>3, <3>4, Zenon DEF LeaseFor
  <2>7. todo'[w] = rest
    BY <1>5, Zenon
  <2> DEFINE need == DispatchTimeout * m
             lease == LeaseFor(n)
  <2>8. need \in Nat /\ lease >= need
    <3> HIDE DEF m, n
    <3>1. lease \in Int
      BY <2>5, OutboxConstants DEF LeaseFor, n
    <3> QED
      BY <2>6, <3>1, ZenonT(60)
  <2>9. retryIn'[c.event] = lease /\ DispatchTimeout * Cardinality(todo'[w]) = need
    BY <2>4, <2>7, Zenon
  <2> HIDE DEF need, lease, m, n
  <2> QED
    BY <2>1, <2>3, <2>8, <2>9
<1> QED
  BY <1>8, <1>9, <1>10, Zenon

\* Starting a dispatch spends a dispatch timeout of the lease on the claim that
\* leaves the batch.
LEMMA DeadlineStart ==
    ASSUME DeadlineInv, FencingInv', NEW w \in Workers, StartDispatch(w)
    PROVE  DeadlineInv'
<1> USE DEF DeadlineInv
<1>1. PICK c \in todo[w] :
         cur' = [cur EXCEPT ![w] = c] /\ todo' = [todo EXCEPT ![w] = @ \ {c}]
  BY Zenon DEF StartDispatch
<1>2. /\ pc[w] = "ready" /\ pc' = [pc EXCEPT ![w] = "dispatching"]
      /\ left' = [left EXCEPT ![w] = DispatchTimeout]
      /\ UNCHANGED <<tableVars, locks>>
  BY Zenon DEF StartDispatch
<1>3. /\ \A v \in Workers \ {w} :
            pc'[v] = pc[v] /\ todo'[v] = todo[v] /\ cur'[v] = cur[v] /\ left'[v] = left[v]
      /\ pc'[w] = "dispatching" /\ todo'[w] = todo[w] \ {c} /\ cur'[w] = c
      /\ left'[w] = DispatchTimeout
  <2>1. DOMAIN pc = Workers /\ DOMAIN todo = Workers /\ DOMAIN cur = Workers
        /\ DOMAIN left = Workers
    BY Zenon DEF FencingInv, TypeOK
  <2> QED
    BY <1>1, <1>2, <2>1, Zenon
<1>4. LocksAreExclusive'
  <2>1. locks[w] = {}
    BY <1>2, Zenon DEF LocksAreExclusive
  <2> QED
    BY <1>2, <1>3, <2>1, Zenon DEF LocksAreExclusive, SupportsSkipLocked
<1>5. PolledIsDue'
  BY <1>2, <1>3, Zenon DEF PolledIsDue, tableVars
<1>6. DispatchIsBounded'
  <2>1. DispatchTimeout <= DispatchTimeout
    BY OutboxConstants
  <2> QED
    BY <1>3, <2>1, Zenon DEF DispatchIsBounded
<1>7. ASSUME DispatchTimeout > 0, NEW v \in Workers, v # w PROVE Leased(v)'
  <2>1. ASSUME HoldsClaims(v), NEW d \in Timed(v)
        PROVE  FenceHolds(d)' /\ retryIn'[d.event] >= retryIn[d.event]
    <3>1. FenceHolds(d) /\ d \in Claim
      BY <1>7, <2>1, LeaseIsRunning, Zenon
    <3>2. retryIn[d.event] \in Nat
      BY <3>1, Zenon DEF FencingInv, TypeOK, Claim
    <3> QED
      BY <1>2, <3>1, <3>2 DEF FenceHolds, tableVars
  <2>2. HoldsClaims(v)' => HoldsClaims(v)
    BY <1>3, <1>7, Zenon DEF HoldsClaims
  <2> QED
    BY <1>3, <1>7, <2>1, <2>2, LeaseKept, ZenonT(60) DEF FencingInv
<1>8. ASSUME DispatchTimeout > 0 PROVE Leased(w)'
  <2> SUFFICES ASSUME NEW d \in Timed(w)'
               PROVE  /\ FenceHolds(d)'
                      /\ retryIn'[d.event] >= left'[w] + DispatchTimeout * Cardinality(todo'[w])
    BY Zenon DEF Leased
  <2>1. d \in todo[w] /\ d \in Timed(w) /\ HoldsClaims(w)
    BY <1>2, <1>3, Zenon DEF Timed, HoldsClaims
  <2>2. left[w] = 0
    BY <1>2, NoDeadline, Zenon
  <2> DEFINE n == Cardinality(todo[w])
             m == Cardinality(todo[w] \ {c})
  <2>3. FenceHolds(d) /\ retryIn[d.event] >= left[w] + DispatchTimeout * n
    BY <1>8, <2>1, Zenon DEF Leased
  <2>4. m = n - 1 /\ m \in Nat /\ n \in Nat
    <3>1. IsFiniteSet(todo[w]) /\ n \in Nat
      BY BatchIsFinite, Zenon
    <3>2. (todo[w] \ {c}) \in SUBSET todo[w]
      BY Zenon
    <3>3. m \in Nat
      BY <3>2, BatchIsFinite, Zenon
    <3>4. m = n - 1
      BY <3>1, FS_RemoveElement, Zenon
    <3> QED
      BY <3>1, <3>3, <3>4, Zenon
  <2>5. FenceHolds(d)' /\ retryIn'[d.event] = retryIn[d.event]
    BY <1>2, <2>3, Zenon DEF FenceHolds, tableVars
  <2>6. left'[w] = DispatchTimeout /\ Cardinality(todo'[w]) = m
    BY <1>3, Zenon
  <2> HIDE DEF m, n
  <2>7. DispatchTimeout + DispatchTimeout * m = DispatchTimeout * n
    BY <2>4, OutboxConstants
  <2>8. DispatchTimeout * n \in Nat
    BY <2>4, OutboxConstants
  <2>9. retryIn[d.event] >= DispatchTimeout + DispatchTimeout * m
    <3> DEFINE k == DispatchTimeout * n
    <3>1. retryIn[d.event] >= 0 + k /\ k \in Nat
      BY <2>2, <2>3, <2>8, Zenon
    <3>2. DispatchTimeout + DispatchTimeout * m = k
      BY <2>7, Zenon
    <3>3. k = 0 + k
      BY <2>8
    <3> HIDE DEF k
    <3> QED
      BY <3>1, <3>2, <3>3, Zenon
  <2> QED
    BY <2>5, <2>6, <2>9, Zenon
<1> QED
  BY <1>4, <1>5, <1>6, <1>7, <1>8, Zenon

\* Time passes only while nobody waits for anything but a handler, and then it
\* takes as much from every lease as from the dispatch that it covers.
LEMMA DeadlineTick ==
    ASSUME DeadlineInv, FencingInv', Timely, Tick
    PROVE  DeadlineInv'
<1> USE DEF DeadlineInv
<1>1. /\ \A v \in Workers : ~Busy(v)
      /\ retryIn' = [e \in Events |-> IF retryIn[e] > 0 THEN retryIn[e] - 1 ELSE 0]
      /\ left' = [w \in Workers |-> IF left[w] > 0 THEN left[w] - 1 ELSE 0]
      /\ UNCHANGED <<rows, attempts, delivered, pc, todo, cur, locks>>
  BY Zenon DEF Tick
<1>2. LocksAreExclusive'
  BY <1>1, Zenon DEF LocksAreExclusive, SupportsSkipLocked
<1>3. PolledIsDue'
  BY <1>1, Zenon DEF PolledIsDue, Busy
<1>4. ASSUME NEW v \in Workers
      PROVE  /\ left[v] \in Nat /\ left'[v] \in Nat
             /\ left'[v] <= left[v]
             /\ left[v] > 0 => left'[v] = left[v] - 1
  <2>1. left[v] \in Nat
    BY Zenon DEF FencingInv, TypeOK
  <2>2. left'[v] = IF left[v] > 0 THEN left[v] - 1 ELSE 0
    BY <1>1, Zenon
  <2> QED
    BY <2>1, <2>2
<1>5. DispatchIsBounded'
  <2> SUFFICES ASSUME NEW v \in Workers
               PROVE  /\ left'[v] <= DispatchTimeout
                      /\ left'[v] > 0 => pc'[v] = "dispatching"
                      /\ cur'[v] \notin todo'[v]
    BY Zenon DEF DispatchIsBounded
  <2>1. /\ left[v] <= DispatchTimeout /\ (left[v] > 0 => pc[v] = "dispatching")
        /\ cur[v] \notin todo[v]
    BY Zenon DEF DispatchIsBounded
  <2> QED
    BY <1>1, <1>4, <2>1, OutboxConstants
<1>6. ASSUME DispatchTimeout > 0, NEW v \in Workers PROVE Leased(v)'
  <2> SUFFICES ASSUME HoldsClaims(v)', NEW c \in Timed(v)'
               PROVE  /\ FenceHolds(c)'
                      /\ retryIn'[c.event] >= left'[v] + DispatchTimeout * Cardinality(todo'[v])
    BY Zenon DEF Leased
  <2>1. HoldsClaims(v) /\ todo'[v] = todo[v]
    BY <1>1, ZenonT(60) DEF HoldsClaims
  <2>2. c \in Timed(v)
    BY <1>1, <1>4 DEF Timed
  <2>3. FenceHolds(c) /\ c \in Claim /\ retryIn[c.event] > 0
    BY <1>6, <2>1, <2>2, LeaseIsRunning, Zenon
  <2>4. FenceHolds(c)'
    BY <1>1, <2>3, Zenon DEF FenceHolds
  <2>5. c.event \in Events /\ retryIn[c.event] \in Nat
    BY <2>3, Zenon DEF FencingInv, TypeOK, Claim
  <2>6. retryIn'[c.event] = retryIn[c.event] - 1
    BY <1>1, <2>3, <2>5, Zenon
  <2>7. left[v] > 0
    <3>1. CASE c \in todo[v]
      BY <1>1, <1>4, <2>1, <3>1 DEF Busy, HoldsClaims
    <3>2. CASE c \notin todo[v]
      BY <2>2, <3>2, Zenon DEF Timed
    <3> QED
      BY <3>1, <3>2, ZenonT(60)
  <2> DEFINE k == DispatchTimeout * Cardinality(todo[v])
  <2>8. k \in Nat /\ retryIn[c.event] >= left[v] + k
    <3>1. Cardinality(todo[v]) \in Nat
      BY BatchIsFinite, Zenon
    <3>2. k \in Nat
      BY <3>1, OutboxConstants
    <3> QED
      BY <1>6, <2>1, <2>2, <3>2, Zenon DEF Leased
  <2>9. k = DispatchTimeout * Cardinality(todo'[v])
    BY <2>1, Zenon
  <2> HIDE DEF k
  <2>10. retryIn'[c.event] >= left'[v] + k
    BY <1>4, <2>5, <2>6, <2>7, <2>8
  <2> QED
    BY <2>4, <2>9, <2>10, Zenon
<1> QED
  BY <1>2, <1>3, <1>5, <1>6, Zenon

\* Every step keeps the leases longer than the batches that they cover.
LEMMA DeadlineStep ==
    ASSUME SingleIncarnation, Timely, DeadlineInv, [Next]_vars
    PROVE  DeadlineInv'
<1>1. FencingInv'
  BY FencingStep, Zenon DEF DeadlineInv
<1>2. ASSUME NEW e \in Events, Publish(e) \/ EnqueueIdempotent(e) PROVE DeadlineInv'
  <2>1. e \notin rows \cup dlq
    BY <1>2, Zenon
       DEF Publish, EnqueueIdempotent, SingleIncarnation, DeadlineInv, FencingInv, WorkerShape
  <2> QED
    BY <1>1, <1>2, <2>1, DeadlineInsert, Zenon DEF Publish, EnqueueIdempotent
<1>3. ASSUME NEW w \in Workers, WorkerStep(w) PROVE DeadlineInv'
  BY <1>1, <1>3, DeadlinePoll, DeadlineClaim, DeadlineStart, DeadlineSettles, DeadlineEnds, Zenon
     DEF WorkerStep
<1>4. CASE Tick
  BY <1>1, <1>4, DeadlineTick, Zenon
<1>5. CASE UNCHANGED vars
  <2>1. /\ UNCHANGED tableVars
        /\ UNCHANGED <<pc, todo, cur, left, locks>>
    BY <1>5, Zenon DEF vars, workerVars
  <2>2. \A v \in Workers : HoldsClaims(v)' => HoldsClaims(v)
    BY <2>1, Zenon DEF HoldsClaims
  <2> QED
    BY <1>1, <2>1, <2>2, DeadlineQuiet, Zenon
<1> QED
  BY <1>2, <1>3, <1>4, <1>5, Zenon DEF Next

\* If SQL and scheduling take no time, the lease of a claim covers the batch:
\* it runs out only after every handler before it, and its own, had a full
\* dispatch timeout.
THEOREM LeaseCoversBatch ==
    ASSUME SingleIncarnation, Timely
    PROVE  Spec => []DeadlineInv
BY DeadlineInit, DeadlineStep, PTL DEF Spec

\* So two workers never run the handler of an event at the same time, both
\* before their deadlines, whatever the size of the batch, the number of
\* workers and the database.
THEOREM NoTwoHandlersBeforeTheirDeadlines ==
    ASSUME SingleIncarnation, Timely
    PROVE  Spec => []NoOverlapWithinDeadline
<1>1. ASSUME DeadlineInv PROVE NoOverlapWithinDeadline
  <2> SUFFICES ASSUME NEW w \in Workers, NEW v \in Workers, w # v,
                      pc[w] = "dispatching", pc[v] = "dispatching",
                      cur[w].event = cur[v].event, left[w] # 0, left[v] # 0
               PROVE  FALSE
    BY Zenon DEF NoOverlapWithinDeadline
  <2>1. left[w] > 0 /\ left[v] > 0 /\ DispatchTimeout > 0
    BY <1>1, OutboxConstants DEF DeadlineInv, DispatchIsBounded, FencingInv, TypeOK
  <2>2. HoldsClaims(w) /\ HoldsClaims(v) /\ cur[w] \in Timed(w) /\ cur[v] \in Timed(v)
    BY <2>1, Zenon DEF HoldsClaims, Timed
  <2>3. /\ FenceHolds(cur[w]) /\ cur[w] \in InFlight(w)
        /\ FenceHolds(cur[v]) /\ cur[v] \in InFlight(v)
    BY <1>1, <2>1, <2>2, LeaseIsRunning, Zenon
  <2> QED
    <3>1. FenceIdentifiesHolder
      BY <1>1, Zenon DEF DeadlineInv, FencingInv
    <3>2. holder[cur[w].event] = w
      BY <2>2, <2>3, <3>1, Zenon DEF FenceIdentifiesHolder
    <3>3. holder[cur[v].event] = v
      BY <2>2, <2>3, <3>1, Zenon DEF FenceIdentifiesHolder
    <3> QED
      BY <3>2, <3>3, Zenon
<1> QED
  BY <1>1, LeaseCoversBatch, PTL

=============================================================================
