------------------------------- MODULE Backoff -------------------------------
(***************************************************************************)
(* next_retry_delay of the outbox and of the scheduler worker: a bounded   *)
(* exponential backoff computed in fixed-width arithmetic.                 *)
(***************************************************************************)
EXTENDS Integers

CONSTANTS
    WordBits,     \* width of the factor: 32 in the code
    DurationMax,  \* Duration::MAX
    Durations,    \* the base and maximal delays to configure
    LastAttempt   \* bound: how far the attempts of a row are counted

\* What the widths and the configurable delays have to be.
ASSUME BackoffConstants ==
    /\ WordBits \in Nat /\ DurationMax \in Nat /\ LastAttempt \in Nat
    /\ Durations \subseteq 0..DurationMax

\* 2^n, by doubling.
TwoTo[n \in 0..(WordBits + LastAttempt)] == IF n = 0 THEN 1 ELSE 2 * TwoTo[n - 1]

WordMax == TwoTo[WordBits] - 1

Minimum(a, b) == IF a < b THEN a ELSE b

\* 1u32.checked_shl(attempts).unwrap_or(u32::MAX)
Factor(a) == IF a < WordBits THEN TwoTo[a] ELSE WordMax

WrappingMul(d, k) == (d * k) % (DurationMax + 1)

SaturatingMul(d, k) == Minimum(d * k, DurationMax)

Capped(base, cap, a) == Minimum(SaturatingMul(base, Factor(a)), cap)

\* With jitter any delay up to the capped one, the capped one without.
NextRetryDelays(base, cap, jitter, a) ==
    IF jitter THEN 0..Capped(base, cap, a) ELSE {Capped(base, cap, a)}

\* As long as the factor saturates above the cap, the fixed-width delay is the
\* mathematical one, base * 2^attempts cut off at the cap.
IsExactFrom(attempts) ==
    \A base, cap \in Durations, a \in attempts..LastAttempt :
        base * WordMax >= cap => Capped(base, cap, a) = Minimum(base * TwoTo[a], cap)

=============================================================================
