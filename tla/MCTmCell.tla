------------------------------ MODULE MCTmCell ------------------------------
(* TmCell for model checking. *)
EXTENDS TmCell, TLC

WorkerSymmetry == Permutations(Workers)
============================================================================
