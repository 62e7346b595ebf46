--------------------------- MODULE OutboxContract ---------------------------
(***************************************************************************)
(* What the outbox promises, with no workers, leases, fences or clocks:    *)
(* an accepted event is tried at most MaxAttempts times, every attempt     *)
(* being counted before its handler runs; it is delivered only after a     *)
(* handler succeeded; it is given up only when its attempts are spent; and *)
(* delivered and given up are each final, except that a caller who chooses *)
(* its own ids may enqueue again an event that was given up.               *)
(***************************************************************************)
EXTENDS Integers

CONSTANTS Events, Requeueable, MaxAttempts

VARIABLES status, tries, served

vars == <<status, tries, served>>

Init ==
    /\ status = [e \in Events |-> "absent"]
    /\ tries = [e \in Events |-> 0]
    /\ served = {}

Accept(e) ==
    /\ status[e] = "absent" \/ (status[e] = "dead" /\ e \in Requeueable)
    /\ status' = [status EXCEPT ![e] = "pending"]
    /\ tries' = [tries EXCEPT ![e] = 0]
    /\ served' = served \ {e}

Pending == {e \in Events : status[e] = "pending"}

\* One claim counts an attempt for each event of its batch.
Count(batch) ==
    /\ batch \subseteq Pending /\ \A e \in batch : tries[e] < MaxAttempts
    /\ tries' = [e \in Events |-> IF e \in batch THEN tries[e] + 1 ELSE tries[e]]
    /\ UNCHANGED <<status, served>>

\* A handler succeeds; a worker that lost its lease may still get this far.
Serve(e) ==
    /\ status[e] # "absent"
    /\ served' = served \cup {e}
    /\ UNCHANGED <<status, tries>>

Deliver(e) ==
    /\ status[e] = "pending" /\ tries[e] > 0 /\ e \in served
    /\ status' = [status EXCEPT ![e] = "delivered"]
    /\ UNCHANGED <<tries, served>>

Bury(e) ==
    /\ status[e] = "pending" /\ tries[e] = MaxAttempts
    /\ status' = [status EXCEPT ![e] = "dead"]
    /\ tries' = [tries EXCEPT ![e] = 0]
    /\ UNCHANGED served

Next ==
    \/ \E e \in Events : Accept(e) \/ Serve(e) \/ Deliver(e) \/ Bury(e)
    \/ \E batch \in SUBSET Events : Count(batch)

Spec == Init /\ [][Next]_vars

=============================================================================
