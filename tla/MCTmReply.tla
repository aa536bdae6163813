----------------------------- MODULE MCTmReply ------------------------------
(* TmReply for model checking. *)
EXTENDS TmReply, TLC

WorkerSymmetry == Permutations(Workers)
============================================================================
