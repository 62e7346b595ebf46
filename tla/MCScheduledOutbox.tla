-------------------------- MODULE MCScheduledOutbox --------------------------
(***************************************************************************)
(* Instances of ScheduledOutbox for TLC.                                   *)
(***************************************************************************)
EXTENDS ScheduledOutbox, TLC

Delay == INSTANCE Backoff WITH WordBits <- 4, DurationMax <- 60, Durations <- {}, LastAttempt <- 0

\* A base delay of one unit, without jitter.
MCExact == [a \in 1..(MaxAttempts - 1) |-> Delay!NextRetryDelays(1, 2, FALSE, a)]

WorkerSymmetry == Permutations(Workers)
=============================================================================
