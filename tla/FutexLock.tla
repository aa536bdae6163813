----------------------------- MODULE FutexLock -----------------------------
(***************************************************************************)
(* The futex-based process lock of futex_lock.h: get_lock and release_lock *)
(* on one shared word.                                                     *)
(*                                                                         *)
(* The word is 0 (free), 1 (held, nobody asleep on it) or 2 (held, a       *)
(* sleeper may exist).  Every atomic instruction and every futex system    *)
(* call is one step.  The kernel's queue of the futex is the set of        *)
(* processes whose fpc is "asleep"; FUTEX_WAIT re-reads the word under the *)
(* kernel's own lock and sleeps only if it is still 2.                     *)
(***************************************************************************)
EXTENDS Integers, FiniteSets

CONSTANTS Procs,                \* the processes that share the lock
          AdaptiveWaitLoops     \* ADAPTIVE_WAIT_LOOPS, 0 without ADAPTIVE_WAIT

ASSUME AdaptiveWaitLoopsType == AdaptiveWaitLoops \in Nat

VARIABLES lock,   \* the lock word
          fpc,    \* where each process is in get_lock / release_lock
          spins   \* i: the spins each process has left in get_lock

futex_vars == <<lock, fpc, spins>>

FutexLabels == {"idle", "cmpxchg", "spin", "xchg2", "futex_wait", "asleep",
                "critical", "xchg0", "futex_wake"}

FutexInit ==
    /\ lock = 0
    /\ fpc = [p \in Procs |-> "idle"]
    /\ spins = [p \in Procs |-> 0]

(***************************************************************************)
(* get_lock                                                                *)
(***************************************************************************)
GetLock(p) ==
    /\ fpc[p] = "idle"
    /\ fpc' = [fpc EXCEPT ![p] = "cmpxchg"]
    /\ spins' = [spins EXCEPT ![p] = AdaptiveWaitLoops]
    /\ UNCHANGED lock

\* The first compare-and-swap.  A word of 2 skips the spinning and the
\* exchange, and goes straight to futex_wait.
CmpXchg(p) ==
    /\ fpc[p] = "cmpxchg"
    /\ lock' = IF lock = 0 THEN 1 ELSE lock
    /\ fpc' = [fpc EXCEPT ![p] = CASE lock = 0 -> "critical"
                                 [] lock = 1 -> "spin"
                                 [] lock = 2 -> "futex_wait"]
    /\ UNCHANGED spins

\* Faulty variant: the loop forgets to test the spins that are left.
SpinForever(p) ==
    /\ fpc[p] = "spin"
    /\ lock' = IF lock = 0 THEN 1 ELSE lock
    /\ fpc' = [fpc EXCEPT ![p] = IF lock = 0 THEN "critical" ELSE "spin"]
    /\ spins' = [spins EXCEPT ![p] = @ - 1]

\* One turn of the adaptive loop: another compare-and-swap while spins are left.
Spin(p) ==
    /\ fpc[p] = "spin"
    /\ IF spins[p] > 0
       THEN /\ lock' = IF lock = 0 THEN 1 ELSE lock
            /\ fpc' = [fpc EXCEPT ![p] = IF lock = 0 THEN "critical" ELSE "spin"]
            /\ spins' = [spins EXCEPT ![p] = @ - 1]
       ELSE /\ fpc' = [fpc EXCEPT ![p] = "xchg2"]
            /\ UNCHANGED <<lock, spins>>

\* Faulty variant: the old value of the word is dropped.
XchgTwoIgnoresOld(p) ==
    /\ fpc[p] = "xchg2"
    /\ lock' = 2
    /\ fpc' = [fpc EXCEPT ![p] = "critical"]
    /\ UNCHANGED spins

\* Faulty variant: a woken process retries with the compare-and-swap of 0 by 1,
\* and so forgets that others may still be asleep.
XchgTwoAsCmpXchg(p) ==
    /\ fpc[p] = "xchg2"
    /\ lock' = IF lock = 0 THEN 1 ELSE 2
    /\ fpc' = [fpc EXCEPT ![p] = IF lock = 0 THEN "critical" ELSE "futex_wait"]
    /\ UNCHANGED spins

\* c = atomic_xchg(lock, 2): the process owns the lock if the old word was 0.
XchgTwo(p) ==
    /\ fpc[p] = "xchg2"
    /\ lock' = 2
    /\ fpc' = [fpc EXCEPT ![p] = IF lock = 0 THEN "critical" ELSE "futex_wait"]
    /\ UNCHANGED spins

\* FUTEX_WAIT returns at once when the word is no longer 2.
FutexWait(p) ==
    /\ fpc[p] = "futex_wait"
    /\ fpc' = [fpc EXCEPT ![p] = IF lock = 2 THEN "asleep" ELSE "xchg2"]
    /\ UNCHANGED <<lock, spins>>

\* A signal interrupts FUTEX_WAIT; the loop in get_lock does not tell it from
\* a wake-up.
Interrupted(p) ==
    /\ fpc[p] = "asleep"
    /\ fpc' = [fpc EXCEPT ![p] = "xchg2"]
    /\ UNCHANGED <<lock, spins>>

(***************************************************************************)
(* release_lock                                                            *)
(***************************************************************************)
ReleaseLock(p) ==
    /\ fpc[p] = "critical"
    /\ fpc' = [fpc EXCEPT ![p] = "xchg0"]
    /\ UNCHANGED <<lock, spins>>

\* atomic_xchg(lock, 0); a wake-up follows unless the old word was 1.
XchgZero(p) ==
    /\ fpc[p] = "xchg0"
    /\ lock' = 0
    /\ fpc' = [fpc EXCEPT ![p] = IF lock = 1 THEN "idle" ELSE "futex_wake"]
    /\ UNCHANGED spins

\* FUTEX_WAKE with a count of one: the kernel wakes one sleeper, if any.
FutexWake(p) ==
    /\ fpc[p] = "futex_wake"
    /\ \/ \E q \in Procs :
            /\ fpc[q] = "asleep"
            /\ fpc' = [fpc EXCEPT ![p] = "idle", ![q] = "xchg2"]
       \/ /\ \A q \in Procs : fpc[q] # "asleep"
          /\ fpc' = [fpc EXCEPT ![p] = "idle"]
    /\ UNCHANGED <<lock, spins>>

FutexStep(p) ==
    \/ CmpXchg(p) \/ Spin(p) \/ XchgTwo(p) \/ FutexWait(p)
    \/ ReleaseLock(p) \/ XchgZero(p) \/ FutexWake(p)

FutexNext == \E p \in Procs : GetLock(p) \/ FutexStep(p) \/ Interrupted(p)

\* A process that is inside get_lock, inside the critical section or inside
\* release_lock and is not asleep keeps running; nothing forces a process to
\* ask for the lock, and nothing interrupts a sleeper.
FutexSpec ==
    FutexInit /\ [][FutexNext]_futex_vars /\ \A p \in Procs : WF_futex_vars(FutexStep(p))

----------------------------------------------------------------------------
\* The lock word has one of the three values get_lock and release_lock tell apart,
\* and the spins left never go below zero.
FutexTypeOK ==
    /\ lock \in 0..2
    /\ fpc \in [Procs -> FutexLabels]
    /\ spins \in [Procs -> 0..AdaptiveWaitLoops]

Holding(p) == fpc[p] \in {"critical", "xchg0"}

\* get_lock never lets two processes in at the same time.
MutualExclusion ==
    \A p, q \in Procs : Holding(p) /\ Holding(q) => p = q

\* The word is non-zero exactly while somebody holds the lock: it is never
\* free behind its holder's back, and never left locked by nobody.
HeldIffLocked == (\E p \in Procs : Holding(p)) <=> lock # 0

\* No lost wake-up: while a process sleeps in FUTEX_WAIT, either the word is 2,
\* so that the holder's release will call FUTEX_WAKE, or some process is about
\* to call FUTEX_WAKE, or some awake contender is about to write the 2.
NoLostWakeup ==
    (\E p \in Procs : fpc[p] = "asleep")
      => \/ lock = 2
         \/ \E q \in Procs : fpc[q] \in {"futex_wake", "xchg2"}

Waiting(p) == fpc[p] \in {"cmpxchg", "spin", "xchg2", "futex_wait", "asleep"}

\* How the callers of get_lock and release_lock see the lock.
At == [p \in Procs |-> IF Holding(p) THEN "inside"
                       ELSE IF Waiting(p) THEN "waiting" ELSE "outside"]

Lock == INSTANCE ProcessLock WITH at <- At

\* get_lock and release_lock are the lock the rest of the program takes a
\* gen_lock_t for: one process at a time, and whenever some process waits in
\* get_lock and nobody holds the lock, some process (not necessarily that one)
\* gets it.
ImplementsLock == Lock!Spec
============================================================================
