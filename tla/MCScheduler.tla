----------------------------- MODULE MCScheduler -----------------------------
(* Small instances of Scheduler for TLC.                                   *)
EXTENDS Scheduler, TLC

CONSTANTS w1, w2, s1, s2

Delay == INSTANCE Backoff WITH WordBits <- 4, DurationMax <- 60, Durations <- {}, LastAttempt <- 0

\* A base delay of one unit capped at one, with full jitter and without.
MCJittered == [a \in 1..(MaxAttempts - 1) |-> Delay!NextRetryDelays(1, 1, TRUE, a)]

MCExact == [a \in 1..(MaxAttempts - 1) |-> Delay!NextRetryDelays(1, 2, FALSE, a)]

WorkerSymmetry == Permutations(Workers)

=============================================================================
