------------------------------ MODULE MCOutbox ------------------------------
(* Small instances of Outbox for TLC.                                      *)
EXTENDS Outbox, TLC

CONSTANTS w1, w2, e1, e2, e3

\* A base delay of one unit capped at one, with full jitter and without.
MCJittered == [a \in 0..(MaxAttempts - 1) |-> NextRetryDelays(1, 1, TRUE, a)]

MCExact == [a \in 0..(MaxAttempts - 1) |-> NextRetryDelays(1, 2, FALSE, a)]

WorkerSymmetry == Permutations(Workers)

=============================================================================
