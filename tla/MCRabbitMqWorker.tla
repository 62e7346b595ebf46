-------------------------- MODULE MCRabbitMqWorker --------------------------
(***************************************************************************)
(* Instances of RabbitMqWorker for TLC.                                    *)
(***************************************************************************)
EXTENDS RabbitMqWorker, TLC

\* Workers are interchangeable.
Symmetry == Permutations(Workers)
=============================================================================
