-------------------------- MODULE ScheduleContract --------------------------
(***************************************************************************)
(* What the scheduler promises, with no workers, leases, fences or clocks: *)
(* an occurrence of a schedule is given to the sink only after an attempt  *)
(* was charged for it, at most MaxAttempts are charged, and none while the *)
(* schedule is paused; it is delivered, or followed by the next one, only  *)
(* after the sink accepted it, unless an operator resumes a paused cron at *)
(* a later occurrence; it is given up only when its attempts are spent;    *)
(* and delivered, cancelled and given up exclude one another and are       *)
(* final, except that an operator may replay what was given up.            *)
(***************************************************************************)
EXTENDS Integers

CONSTANTS Schedules, Recurring, MaxAttempts

VARIABLES status, paused, nth, tries, runs, served

vars == <<status, paused, nth, tries, runs, served>>

Init ==
    /\ status = [s \in Schedules |-> "absent"] /\ paused = {}
    /\ nth = [s \in Schedules |-> 0] /\ tries = [s \in Schedules |-> 0]
    /\ runs = [s \in Schedules |-> 0] /\ served = [s \in Schedules |-> FALSE]

Ends(s, end) ==
    /\ status[s] = "live"
    /\ status' = [status EXCEPT ![s] = end]
    /\ UNCHANGED <<paused, nth, tries, runs, served>>

NextOccurrence(s) ==
    /\ nth' = [nth EXCEPT ![s] = @ + 1]
    /\ tries' = [tries EXCEPT ![s] = 0] /\ runs' = [runs EXCEPT ![s] = 0]
    /\ served' = [served EXCEPT ![s] = FALSE]

Submit(s) ==
    /\ status[s] = "absent"
    /\ status' = [status EXCEPT ![s] = "live"]
    /\ UNCHANGED <<paused, nth, tries, runs, served>>

\* One claim charges an attempt to each schedule of its batch.
Charge(batch) ==
    /\ \A s \in batch : status[s] = "live" /\ s \notin paused /\ tries[s] < MaxAttempts
    /\ tries' = [s \in Schedules |-> IF s \in batch THEN tries[s] + 1 ELSE tries[s]]
    /\ UNCHANGED <<status, paused, nth, runs, served>>

\* A charged attempt reaches the sink, which may be after the schedule ended.
Dispatch(s) ==
    /\ runs[s] < tries[s]
    /\ runs' = [runs EXCEPT ![s] = @ + 1]
    /\ UNCHANGED <<status, paused, nth, tries, served>>

Serve(s) ==
    /\ runs[s] > 0
    /\ served' = [served EXCEPT ![s] = TRUE]
    /\ UNCHANGED <<status, paused, nth, tries, runs>>

Deliver(s) == served[s] /\ Ends(s, "delivered")

Cancel(s) == Ends(s, "cancelled")

Recur(s) ==
    /\ status[s] = "live" /\ s \in Recurring /\ served[s]
    /\ NextOccurrence(s)
    /\ UNCHANGED <<status, paused>>

\* A sweep gives up all the schedules it finds spent.
GiveUp(batch) ==
    /\ \A s \in batch : status[s] = "live" /\ tries[s] = MaxAttempts
    /\ status' = [s \in Schedules |-> IF s \in batch THEN "dead" ELSE status[s]]
    /\ UNCHANGED <<paused, nth, tries, runs, served>>

Pause(s) ==
    /\ status[s] = "live"
    /\ paused' = paused \cup {s}
    /\ UNCHANGED <<status, nth, tries, runs, served>>

Resume(s) ==
    /\ status[s] = "live" /\ s \in paused
    /\ paused' = paused \ {s}
    /\ UNCHANGED <<status, nth, tries, runs, served>>

\* A cron that fell due while it was paused resumes at its next occurrence.
ResumeWithNext(s) ==
    /\ status[s] = "live" /\ s \in paused /\ s \in Recurring
    /\ paused' = paused \ {s}
    /\ NextOccurrence(s)
    /\ UNCHANGED status

Replay(s) ==
    /\ status[s] = "dead"
    /\ status' = [status EXCEPT ![s] = "live"] /\ paused' = paused \ {s}
    /\ NextOccurrence(s)

Next ==
    \/ \E s \in Schedules :
          \/ Submit(s) \/ Dispatch(s) \/ Serve(s) \/ Deliver(s) \/ Recur(s)
          \/ Cancel(s) \/ Pause(s) \/ Resume(s) \/ ResumeWithNext(s) \/ Replay(s)
    \/ \E batch \in SUBSET Schedules : Charge(batch) \/ GiveUp(batch)

Spec == Init /\ [][Next]_vars

=============================================================================
