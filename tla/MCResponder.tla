----------------------------- MODULE MCResponder -----------------------------
(***************************************************************************)
(* Instances of Responder for TLC.                                         *)
(***************************************************************************)
EXTENDS Responder

\* The responders' clock is ahead or behind by the whole tolerance.
MCSkews == {-1, 1}
=============================================================================
