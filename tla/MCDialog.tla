------------------------------ MODULE MCDialog ------------------------------
(* Dialog for model checking. *)
EXTENDS Dialog, TLC

\* All flags at once, and none but pings.
AllFlags == {{"BYEONTIMEOUT", "END_ON_RACE_CONDITION", "PING", "rt_on_timeout"},
             {"PING"}}
NoFlags == {{}}
WorkerSymmetry == Permutations(Workers)
============================================================================
