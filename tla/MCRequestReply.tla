--------------------------- MODULE MCRequestReply ---------------------------
(***************************************************************************)
(* Instances of RequestReply for TLC.                                      *)
(***************************************************************************)
EXTENDS RequestReply


\* Calls are interchangeable, and so are the tasks that close the client.
Symmetry == Permutations(Calls) \cup Permutations(Closers)
=============================================================================
