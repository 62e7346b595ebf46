--------------------------- MODULE ScheduledOutbox ---------------------------
(***************************************************************************)
(* The scheduler with the transactional outbox as its sink (outbox_sink.rs *)
(* of hexeract-scheduler), of which only the keys in its table matter: an  *)
(* enqueue adds one, and giving an event up removes it.                    *)
(*                                                                         *)
(* The schedule row and the outbox row are not written in one transaction. *)
(* A dispatch that times out leaves a COMMIT that the database may still   *)
(* execute, and the outbox worker may give an event up, and so free its    *)
(* key, before the scheduler has acknowledged the occurrence.              *)
(***************************************************************************)
EXTENDS Scheduler

CONSTANTS
    ToOutbox,     \* the schedules with Target::Outbox
    MaxBurials    \* bound: how often the outbox gives up the event of an occurrence

ASSUME ScheduledOutboxConstants == ToOutbox \subseteq Schedules /\ MaxBurials \in Nat

VARIABLES
    table,      \* the event ids in the outbox table, delivered or not
    enqueued,   \* workers whose present dispatch has committed
    late,       \* occurrences whose COMMIT outlived their dispatch
    inserts,    \* ghost, inserts[o]: outbox rows made for occurrence o
    burials     \* ghost, burials[o]: events of o the outbox gave up

outboxVars == <<table, enqueued, late, inserts, burials>>
allVars == <<vars, outboxVars>>

\* An occurrence is a schedule and a value of scheduled_for.
Occurrences == ToOutbox \X (0..(LastOccurrence + MaxOps))

SOInit ==
    /\ Init
    /\ table = {} /\ enqueued = {} /\ late = {}
    /\ inserts = [o \in Occurrences |-> 0] /\ burials = [o \in Occurrences |-> 0]

Occurrence(c) == <<c.sched, c.occ>>

\* Mutant: the key tells the attempts apart.
DerivePerAttempt(o, n) == <<o[1], n>>

\* OccurrenceId::derive: what the event id of attempt n at o depends on.
Derive(o, n) == o

\* enqueue_idempotent: a no-op when the key is in the outbox table.
EnqueueIdempotent(o, n) ==
    /\ table' = table \cup {Derive(o, n)}
    /\ inserts' = IF Derive(o, n) \in table THEN inserts ELSE [inserts EXCEPT ![o] = @ + 1]

Targeted(w) == pc[w] = "dispatching" /\ cur[w].sched \in ToOutbox

\* The enqueue of the dispatch commits.
Enqueue(w) ==
    /\ Targeted(w) /\ w \notin enqueued
    /\ EnqueueIdempotent(Occurrence(cur[w]), cur[w].attempts)
    /\ enqueued' = enqueued \cup {w}
    /\ UNCHANGED <<vars, late, burials>>

\* A COMMIT that was sent before its future was dropped.
LateCommit(o) ==
    /\ o \in late
    /\ EnqueueIdempotent(o, MaxAttempts)
    /\ late' = late \ {o}
    /\ UNCHANGED <<vars, enqueued, burials>>

\* Mutant: Ok is returned before the COMMIT.
MayReturnEarly(w) == TRUE

\* OutboxSink::dispatch returns Ok once the enqueue has committed.
MayReturnOk(w) == Targeted(w) => w \in enqueued

\* A step of the scheduler.  A dispatch that ends without having committed may
\* leave its COMMIT behind.
SchedulerMoves ==
    /\ Next
    /\ \A w \in Workers : outcome[w] # "ok" /\ outcome'[w] = "ok" => MayReturnOk(w)
    /\ enqueued' = {w \in enqueued : pc'[w] = "dispatching"}
    /\ LET ended == {w \in Workers \ enqueued : Targeted(w) /\ pc'[w] # "dispatching"}
       IN  late' \in {late, late \cup {Occurrence(cur[w]) : w \in ended}}
    /\ UNCHANGED <<table, inserts, burials>>

\* The outbox workers give an event up: its row moves to the dead letters.
Bury(o) ==
    /\ o \in table /\ burials[o] < MaxBurials
    /\ table' = table \ {o}
    /\ burials' = [burials EXCEPT ![o] = @ + 1]
    /\ UNCHANGED <<vars, enqueued, late, inserts>>

SONext ==
    \/ SchedulerMoves
    \/ \E w \in Workers : Enqueue(w)
    \/ \E o \in Occurrences : LateCommit(o) \/ Bury(o)

SOSpec == SOInit /\ [][SONext]_allVars

-----------------------------------------------------------------------------
(* Properties.                                                             *)

\* An occurrence is acknowledged only once its outbox row has been committed,
\* although the two writes are not atomic and a timeout may come between the
\* COMMIT and the acknowledgement.
HandedOver == \A s \in delivered \cap ToOutbox : inserts[<<s, occ[s]>>] > 0

\* The insert is idempotent across retries, timeouts and late commits: an
\* occurrence gets a second outbox row only if the outbox has given up the
\* first, which removes its key.
OneRowUnlessBuried == \A o \in Occurrences : inserts[o] <= burials[o] + 1

-----------------------------------------------------------------------------
(* The inductive invariant.                                                *)

\* The calendar and the commands bound the number of an occurrence.
OccurrencesSuffice ==
    /\ op # None => ops > 0
    /\ \A s \in Schedules :
          occ[s] <= LastOccurrence + ops - (IF op = None THEN 0 ELSE 1)

\* A key is in the table exactly when one more row was made for it than given up.
RowsAreCounted ==
    \A o \in Occurrences : inserts[o] = burials[o] + (IF o \in table THEN 1 ELSE 0)

\* A dispatch that has committed, or has returned Ok, has its row.
OkHasItsRow ==
    \A w \in Workers :
        /\ w \in enqueued => Targeted(w)
        /\ outcome[w] = "ok" => pc[w] = "settling"
        /\ w \in enqueued \/ (outcome[w] = "ok" /\ cur[w].sched \in ToOutbox)
           => inserts[Occurrence(cur[w])] > 0

\* With the ledger of the scheduler, what makes the handover safe.
HandoverInv ==
    /\ BudgetInv /\ OccurrencesSuffice
    /\ table \subseteq Occurrences /\ enqueued \subseteq Workers /\ late \subseteq Occurrences
    /\ inserts \in [Occurrences -> Nat] /\ burials \in [Occurrences -> Nat]
    /\ RowsAreCounted /\ OkHasItsRow /\ HandedOver
=============================================================================
