------------------------------- MODULE RwLock -------------------------------
(***************************************************************************)
(* The reader/writer lock of rw_locking.h, with switchable readers.        *)
(*                                                                         *)
(* The lock is a record {lock, w_flag, sw_flag, r_count} in shared memory. *)
(* lock_stop_write and the end of lock_stop_sw_read write a flag, and the  *)
(* wait loops read r_count, without holding the inner lock; everything     *)
(* else happens between lock_get and lock_release.  Such a section is two  *)
(* steps here: Get takes the inner lock and reads the fields, the step     *)
(* named after the macro writes what it computed from them and releases.   *)
(***************************************************************************)
EXTENDS Integers, FiniteSets

CONSTANTS
    Users,       \* the processes that share the lock
    None         \* nobody holds the inner lock

ASSUME UsersType == IsFiniteSet(Users) /\ None \notin Users

VARIABLES
    inner,       \* lock: who holds the inner lock
    w_flag, sw_flag, r_count,
    rwpc,        \* where each process is
    w_seen,      \* w_flag, sw_flag and r_count as the holder of the inner lock
    sw_seen,     \*   read them
    r_seen,
    old          \* __old of lock_switch_write

fields == <<w_flag, sw_flag, r_count>>
seen   == <<w_seen, sw_seen, r_seen>>
rw_vars == <<inner, fields, rwpc, seen, old>>

\* The macros with a section under the inner lock.
Sections == {"start_write", "start_read", "stop_read", "start_sw_read",
             "stop_sw_read", "switch_write", "switch_read"}
States == Sections \cup
    {"idle", "reading", "sw_reading", "sw_writing", "writing",
     "drain",       \* a writer that waits for r_count = 0
     "sw_drain",    \* a switchable reader that waits for r_count <= 1
     "clear_sw"}    \* between r_count-- and sw_flag = 0 in lock_stop_sw_read

RwInit ==
    /\ inner = None
    /\ w_flag = FALSE /\ sw_flag = FALSE /\ r_count = 0
    /\ rwpc = [p \in Users |-> "idle"]
    /\ w_seen = FALSE /\ sw_seen = FALSE /\ r_seen = 0
    /\ old = [p \in Users |-> FALSE]

RwGoto(p, s) == rwpc' = [rwpc EXCEPT ![p] = s]

\* The caller's side: which macro a process may use next.
Calls(p) ==
    /\ \/ rwpc[p] = "idle" /\ \E s \in {"start_write", "start_read", "start_sw_read"} : RwGoto(p, s)
       \/ rwpc[p] = "reading" /\ RwGoto(p, "stop_read")
       \/ rwpc[p] = "sw_reading" /\ \E s \in {"switch_write", "stop_sw_read"} : RwGoto(p, s)
       \/ rwpc[p] = "sw_writing" /\ RwGoto(p, "switch_read")
    /\ UNCHANGED <<inner, fields, seen, old>>

\* lock_get, and the reads of the section.
Get(p) ==
    /\ rwpc[p] \in Sections /\ inner = None
    /\ inner' = p
    /\ w_seen' = w_flag /\ sw_seen' = sw_flag /\ r_seen' = r_count
    /\ UNCHANGED <<fields, rwpc, old>>

\* p leaves the section of macro s; what it read is forgotten.
InSection(p, s) ==
    /\ rwpc[p] = s /\ inner = p
    /\ inner' = None
    /\ w_seen' = FALSE /\ sw_seen' = FALSE /\ r_seen' = 0

\* The flag is up: release, sleep and try again.
Again(p) == UNCHANGED <<rwpc, fields, old>>

StartWrite(p) ==
    /\ InSection(p, "start_write")
    /\ \/ w_seen /\ Again(p)
       \/ /\ ~w_seen
          /\ w_flag' = TRUE
          /\ RwGoto(p, "drain")
          /\ UNCHANGED <<sw_flag, r_count, old>>

Drain(p) ==
    /\ rwpc[p] = "drain" /\ r_count = 0
    /\ RwGoto(p, "writing")
    /\ UNCHANGED <<inner, fields, seen, old>>

StopWrite(p) ==
    /\ rwpc[p] = "writing"
    /\ w_flag' = FALSE
    /\ RwGoto(p, "idle")
    /\ UNCHANGED <<inner, sw_flag, r_count, seen, old>>

\* Faulty variant: readers are let in while a writer waits for the others.
StartReadUnchecked(p) ==
    /\ InSection(p, "start_read")
    /\ r_count' = r_seen + 1
    /\ RwGoto(p, "reading")
    /\ UNCHANGED <<w_flag, sw_flag, old>>

StartRead(p) ==
    /\ InSection(p, "start_read")
    /\ \/ w_seen /\ Again(p)
       \/ /\ ~w_seen
          /\ r_count' = r_seen + 1
          /\ RwGoto(p, "reading")
          /\ UNCHANGED <<w_flag, sw_flag, old>>

StopRead(p) ==
    /\ InSection(p, "stop_read")
    /\ r_count' = r_seen - 1
    /\ RwGoto(p, "idle")
    /\ UNCHANGED <<w_flag, sw_flag, old>>

\* Faulty variant: the reader is not counted.
StartSwReadUncounted(p) ==
    /\ InSection(p, "start_sw_read")
    /\ \/ (w_seen \/ sw_seen) /\ Again(p)
       \/ /\ ~w_seen /\ ~sw_seen
          /\ sw_flag' = TRUE
          /\ RwGoto(p, "sw_reading")
          /\ UNCHANGED <<w_flag, r_count, old>>

\* Faulty variant: sw_flag is not looked at.
StartSwReadShared(p) ==
    /\ InSection(p, "start_sw_read")
    /\ \/ w_seen /\ Again(p)
       \/ /\ ~w_seen
          /\ r_count' = r_seen + 1 /\ sw_flag' = TRUE
          /\ RwGoto(p, "sw_reading")
          /\ UNCHANGED <<w_flag, old>>

StartSwRead(p) ==
    /\ InSection(p, "start_sw_read")
    /\ \/ (w_seen \/ sw_seen) /\ Again(p)
       \/ /\ ~w_seen /\ ~sw_seen
          /\ r_count' = r_seen + 1 /\ sw_flag' = TRUE
          /\ RwGoto(p, "sw_reading")
          /\ UNCHANGED <<w_flag, old>>

StopSwRead(p) ==
    /\ InSection(p, "stop_sw_read")
    /\ r_count' = r_seen - 1
    /\ RwGoto(p, "clear_sw")
    /\ UNCHANGED <<w_flag, sw_flag, old>>

ClearSw(p) ==
    /\ rwpc[p] = "clear_sw"
    /\ sw_flag' = FALSE
    /\ RwGoto(p, "idle")
    /\ UNCHANGED <<inner, w_flag, r_count, seen, old>>

SwitchWrite(p) ==
    /\ InSection(p, "switch_write")
    /\ old' = [old EXCEPT ![p] = w_seen]
    /\ w_flag' = TRUE
    /\ RwGoto(p, "sw_drain")
    /\ UNCHANGED <<sw_flag, r_count>>

\* Faulty variant: waits for r_count = 0, though the caller is itself counted.
SwDrainZero(p) ==
    /\ rwpc[p] = "sw_drain" /\ r_count = 0
    /\ RwGoto(p, "sw_writing")
    /\ UNCHANGED <<inner, fields, seen, old>>

SwDrain(p) ==
    /\ rwpc[p] = "sw_drain" /\ r_count <= 1
    /\ RwGoto(p, "sw_writing")
    /\ UNCHANGED <<inner, fields, seen, old>>

\* Faulty variant: the flag is cleared instead of restored, though a writer may
\* have raised it before.
SwitchReadClears(p) ==
    /\ InSection(p, "switch_read")
    /\ w_flag' = FALSE
    /\ old' = [old EXCEPT ![p] = FALSE]
    /\ RwGoto(p, "sw_reading")
    /\ UNCHANGED <<sw_flag, r_count>>

SwitchRead(p) ==
    /\ InSection(p, "switch_read")
    /\ w_flag' = old[p]
    /\ old' = [old EXCEPT ![p] = FALSE]
    /\ RwGoto(p, "sw_reading")
    /\ UNCHANGED <<sw_flag, r_count>>

\* What a process does inside a macro, or to leave the lock.
RwStep(p) ==
    \/ StartWrite(p) \/ Drain(p) \/ StopWrite(p) \/ StartRead(p) \/ StopRead(p)
    \/ StartSwRead(p) \/ StopSwRead(p) \/ ClearSw(p) \/ SwitchWrite(p)
    \/ SwDrain(p) \/ SwitchRead(p)

RwNext == \E p \in Users : Calls(p) \/ Get(p) \/ RwStep(p)

RwSpec == RwInit /\ [][RwNext]_rw_vars

(***************************************************************************)
(* Fairness: a process keeps running inside a macro, does not keep the lock *)
(* for ever, and gets the inner lock in the end (a process that finds a    *)
(* flag up sleeps LOCK_WAIT before it takes the inner lock again).         *)
(***************************************************************************)
Leaves(p) == rwpc[p] \in {"reading", "sw_reading", "sw_writing"} /\ Calls(p)

RwFairness == \A p \in Users :
    /\ WF_rw_vars(RwStep(p)) /\ WF_rw_vars(Leaves(p)) /\ SF_rw_vars(Get(p))
    /\ SF_rw_vars(rwpc[p] = "sw_reading" /\ RwGoto(p, "stop_sw_read") /\ Calls(p))

RwFairSpec == RwSpec /\ RwFairness

----------------------------------------------------------------------------
\* The fields and the local state have the types of rw_lock_t.
RwTypeOK ==
    /\ inner \in Users \cup {None}
    /\ w_flag \in BOOLEAN /\ sw_flag \in BOOLEAN /\ r_count \in Nat
    /\ rwpc \in [Users -> States]
    /\ w_seen \in BOOLEAN /\ sw_seen \in BOOLEAN /\ r_seen \in Nat
    /\ old \in [Users -> BOOLEAN]

\* A process between lock_start_*read and the matching r_count--.
Counted(p) == rwpc[p] \in {"reading", "stop_read", "sw_reading", "switch_write",
                         "sw_drain", "sw_writing", "switch_read", "stop_sw_read"}

\* r_count is the number of processes that hold the lock for reading: no update
\* is lost, though waiters read it and flags are written without the inner lock.
RCountExact == r_count = Cardinality({p \in Users : Counted(p)})

\* A writer, or a switchable reader that switched to writing, is alone: nobody
\* else reads or writes what the lock protects.
WriterAlone ==
    \A p, q \in Users :
      rwpc[p] \in {"writing", "sw_writing"} /\ q # p
        => rwpc[q] \notin {"reading", "sw_reading", "writing", "sw_writing"}

\* Between lock_start_sw_read and the matching r_count--.
Switchable(p) == rwpc[p] \in {"sw_reading", "switch_write", "sw_drain", "sw_writing",
                            "switch_read", "stop_sw_read"}

\* Processes that use the switchable macros run one after the other.
SwitchableSerial ==
    \A p, q \in Users : Switchable(p) /\ Switchable(q) => p = q

\* A writer that raised w_flag gets in: new readers are held off and no
\* switchable reader that upgrades at the same time blocks it for ever.
WriterGetsIn == \A p \in Users : rwpc[p] = "drain" ~> rwpc[p] = "writing"

\* A switchable reader that asks for write access gets it.
SwitchGetsIn == \A p \in Users : rwpc[p] = "sw_drain" ~> rwpc[p] = "sw_writing"
============================================================================
