---------------------------- MODULE ProcessLock ----------------------------
(***************************************************************************)
(* What the users of a gen_lock_t rely on (lock_ops.h: "mutex down",       *)
(* "mutex up"): lock_get returns to one process at a time, and not to      *)
(* nobody for ever.  Nothing is promised about which waiting process is    *)
(* next.                                                                   *)
(***************************************************************************)
CONSTANT Procs        \* the processes that share the lock

VARIABLE at           \* where each process is: "outside", "waiting", "inside"

Init == at = [p \in Procs |-> "outside"]

\* lock_get is called, and returns.
Ask(p) == at[p] = "outside" /\ at' = [at EXCEPT ![p] = "waiting"]

Enter(p) ==
    /\ at[p] = "waiting"
    /\ \A q \in Procs : at[q] # "inside"
    /\ at' = [at EXCEPT ![p] = "inside"]

\* lock_release lets the lock go.
Leave(p) == at[p] = "inside" /\ at' = [at EXCEPT ![p] = "outside"]

Next == \E p \in Procs : Ask(p) \/ Enter(p) \/ Leave(p)

SafeSpec == Init /\ [][Next]_at

Spec == SafeSpec /\ WF_at(\E p \in Procs : Enter(p)) /\ \A p \in Procs : WF_at(Leave(p))
============================================================================
