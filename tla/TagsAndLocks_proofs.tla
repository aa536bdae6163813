------------------------- MODULE TagsAndLocks_proofs -------------------------
(***************************************************************************)
(* Proofs about the sharing tags of a cluster, and about the two locks     *)
(* under which processes share memory: the futex lock of get_lock, and the *)
(* read/write lock, of the kind the tags are kept under.                   *)
(*                                                                         *)
(* A sharing tag is active on one node at most once the cluster is quiet:  *)
(* the proof for any number of nodes and processes, any configuration and  *)
(* any number of activations, faults and restarts.  It needs that no       *)
(* packet accepted by msg_send is lost on a link that breaks (Loss) and    *)
(* that nobody sees a link between its event flag and its state (Windows). *)
(*                                                                         *)
(* The futex lock, for any set of processes and any number of adaptive     *)
(* spins: its four invariants are inductive together.  Mutual exclusion    *)
(* needs the word to tell whether the lock is held, and the absence of     *)
(* lost wake-ups needs nothing beyond the types.  With them each           *)
(* instruction is seen to be a step of ProcessLock.                        *)
(*                                                                         *)
(* The read/write lock, for any finite set of processes: WriterAlone is    *)
(* not inductive.  That the waiting writer may trust r_count rests on      *)
(* r_count being exact, on w_flag staying up while a writer waits          *)
(* (lock_switch_read restores it rather than clearing it), and on what the *)
(* holder of the inner lock read still being true when it acts on it.      *)
(***************************************************************************)
EXTENDS SharingTags, FutexLock, RwLock, FiniteSetTheorems, TLAPS

\* The provers every leaf is given, unless it names its own.
USE SMTT(10), ZenonT(30), SMTT(60)

\* A process past the first step of an activation or of a flush that failed
\* holds shtags_lock; no other does.
Locked == {"activate", "activate_events", "flush_events", "stuck"}

LockAt(n, p) == pc[n][p] \in Locked => sw[n] = p

LockOK == \A n \in Node, p \in Proc : LockAt(n, p)

\* Only an active tag is announced, and a tag in backup state has forgotten
\* whom it informed.
ActiveAt(n) ==
    /\ send_active_msg[n] => state[n] = "active"
    /\ \A p \in Proc : pc[n][p] \in {"activate", "activate_events"} => state[n] = "active"
    /\ state[n] = "backup" => active_msgs_sent[n] = {}

ActiveOK == \A n \in Node : ActiveAt(n)

\* The up event of a link that is being set up is still there.
PeerAt(n, p) ==
    /\ pc[n][p] \in {"linkup", "flush"} => peer[n][p] # n
    /\ pc[n][p] = "linkup" => "up" \in events[n][peer[n][p]]

PeerOK == \A n \in Node, p \in Proc : PeerAt(n, p)

IInv == TypeOK /\ LockOK /\ ActiveOK /\ PeerOK /\ SomeoneOwes

----------------------------------------------------------------------------
\* The parts of the state on which Owes(k, m) depends, for one k.
Same(k) ==
    /\ active_msgs_sent'[k] = active_msgs_sent[k] /\ send_active_msg'[k] = send_active_msg[k]
    /\ up'[k] = up[k]
    /\ \A m \in Node : events'[k][m] = events[k][m] /\ wire'[k][m] = wire[k][m]
    /\ \A p \in Proc : pc'[k][p] = pc[k][p] /\ todo'[k][p] = todo[k][p] /\ peer'[k][p] = peer[k][p]

\* What a node owes stays as long as nothing of it changes.
LEMMA SameOwes ==
    ASSUME NEW k \in Node, NEW m \in Node, Same(k), Owes(k, m)
    PROVE  Owes(k, m)'
BY DEF Same, Owes, WillTell, Stuck

\* A step of one node that leaves the states alone and pays none of its debts
\* preserves SomeoneOwes.
LEMMA KeepOwes ==
    ASSUME NEW n \in Node, SomeoneOwes, state' = state,
           \A k \in Node \ {n} : Same(k),
           \A m \in Node \ {n} : Owes(n, m) => Owes(n, m)'
    PROVE  SomeoneOwes'
<1> SUFFICES ASSUME NEW a \in Actives', NEW b \in Actives', a # b
             PROVE  Owes(a, b)' \/ Owes(b, a)'
  BY DEF SomeoneOwes
<1>1. a \in Actives /\ b \in Actives /\ a \in Node /\ b \in Node
  BY DEF Actives
<1>2. ASSUME NEW k \in {a, b}, NEW l \in {a, b}, k # l, Owes(k, l) PROVE Owes(k, l)'
  <2>1. CASE k = n
    BY <1>1, <1>2, <2>1
  <2>2. CASE k # n
    BY <1>1, <1>2, <2>2, SameOwes
  <2> QED BY <2>1, <2>2
<1> QED BY <1>1, <1>2 DEF SomeoneOwes

\* The link to m is not up, its up event is still to be run, or a process is
\* about to call shtag_flush_state for it.
Flushes(n, m) ==
    \/ m \notin up[n]
    \/ "up" \in events[n][m]
    \/ \E p \in Proc : pc[n][p] = "flush" /\ peer[n][p] = m

\* A step of a process that does not activate, sends nothing and leaves the
\* flush of a link to somebody pays no debt.
LEMMA OwesKept ==
    ASSUME NEW n \in Node, NEW p \in Proc, NEW b \in Node, Owes(n, b),
           wire' = wire, active_msgs_sent' = active_msgs_sent,
           send_active_msg' = send_active_msg,
           pc[n][p] \notin {"activate", "activate_events", "stuck"},
           \A q \in Proc : q # p => pc'[n][q] = pc[n][q] /\ todo'[n][q] = todo[n][q],
           Flushes(n, b) => Flushes(n, b)'
    PROVE  Owes(n, b)'
<1>1. CASE wire[n][b] > 0 BY ZenonT(60), <1>1 DEF Owes
<1>2. CASE WillTell(n, b)
  <2>1. b \notin active_msgs_sent'[n] BY ZenonT(60), <1>2 DEF WillTell
  <2>2. CASE \E q \in Proc : pc[n][q] \in {"activate", "activate_events"} /\ b \in todo[n][q]
    BY ZenonT(60), <2>1, <2>2 DEF Owes, WillTell
  <2>3. CASE \E q \in Proc : Stuck(n, q)
    BY ZenonT(60), <2>1, <2>3 DEF Owes, WillTell, Stuck
  <2>4. CASE /\ send_active_msg[n] \/ \E q \in Proc : pc[n][q] = "activate_events"
             /\ Flushes(n, b)
    <3>1. send_active_msg'[n] \/ \E q \in Proc : pc'[n][q] = "activate_events"
      BY ZenonT(60), <2>4
    <3>2. Flushes(n, b)' BY ZenonT(60), <2>4
    <3> QED BY ZenonT(60), <2>1, <3>1, <3>2 DEF Owes, WillTell, Flushes
  <2> QED BY ZenonT(60), <1>2, <2>2, <2>3, <2>4 DEF WillTell, Flushes
<1> QED BY ZenonT(60), <1>1, <1>2 DEF Owes

----------------------------------------------------------------------------
(* What an assignment changes, and what it leaves. *)

At1(f, g, n, x) == g[n] = x /\ \A k \in Node \ {n} : g[k] = f[k]

At2(f, g, D, n, d, x) ==
    g[n][d] = x /\ \A k \in Node, e \in D : k # n \/ e # d => g[k][e] = f[k][e]

\* A fault is taken from the budget of faults.
LEMMA Spend ==
    ASSUME budget \in [activations : Nat, faults : Nat, restarts : Nat], budget.faults > 0,
           budget' = [budget EXCEPT !.faults = @ - 1]
    PROVE  budget' \in [activations : Nat, faults : Nat, restarts : Nat]
OBVIOUS

(* One lemma for each action. *)

\* shtag_activate visits a node: what was left to do is sent, refused or broken.
LEMMA ActivateSendInv ==
    ASSUME NEW n \in Node, NEW p \in Proc, NEW m \in Others(n), IInv,
           ActivateSend(n, p, m)
    PROVE  IInv'
<1>0. /\ LockOK /\ ActiveOK /\ PeerOK /\ SomeoneOwes
      /\ wire \in [Node -> [Node -> Nat]] /\ peer \in [Node -> [Proc -> Node]]
      /\ budget \in [activations : Nat, faults : Nat, restarts : Nat]
  BY DEF IInv, TypeOK
<1>1. CASE AlreadySent(n, m) /\ UNCHANGED <<tag, links, pc, nested, wire, budget>>
  <2>1. /\ pc[n][p] = "activate"
        /\ AlreadySent(n, m)
        /\ todo' = [todo EXCEPT ![n][p] = todo[n][p] \ {m}]
        /\ UNCHANGED <<config, state, send_active_msg, active_msgs_sent, sw, up, events, pc,
                       nested, peer, wire, budget>>
    BY <1>1 DEF ActivateSend, AlreadySent, Goto, tag, links, procs
  <2>2. todo' \in [Node -> [Proc -> SUBSET Node]] /\ At2(todo, todo', Proc, n, p, todo[n][p] \ {m})
    BY <2>1 DEF IInv, TypeOK, At2, Others
  <2>3. TypeOK'
    BY <2>1, <2>2 DEF IInv, TypeOK
  <2>4. LockOK'
    BY <1>0, <2>1 DEF LockOK, Locked, LockAt
  <2>5. ActiveOK'
    BY <1>0, <2>1 DEF ActiveOK, ActiveAt
  <2>6. PeerOK'
    BY <1>0, <2>1 DEF PeerOK, PeerAt
  <2>7. \A k \in Node \ {n} : Same(k)
    BY <2>1, <2>2 DEF Same, At1, At2
  <2>8. ASSUME NEW b \in Node \ {n}, Owes(n, b) PROVE Owes(n, b)'
    BY <1>0, <2>1, <2>2, <2>8, TagConstants DEF LockOK, LockAt, PeerOK, PeerAt, Locked, Owes,
       WillTell, Stuck, AlreadySent, Others, At1, At2
  <2>9. SomeoneOwes'
    BY ZenonT(60), <1>0, <2>1, <2>7, <2>8, KeepOwes
  <2> QED BY <2>3, <2>4, <2>5, <2>6, <2>9 DEF IInv
<1>2. CASE ~AlreadySent(n, m) /\ Refused(n, m) /\ send_active_msg' = [send_active_msg EXCEPT ![n] = TRUE] /\ UNCHANGED <<state, active_msgs_sent, pc, nested>>
  <2>1. /\ pc[n][p] = "activate"
        /\ m \notin up[n]
        /\ todo' = [todo EXCEPT ![n][p] = todo[n][p] \ {m}]
        /\ send_active_msg' = [send_active_msg EXCEPT ![n] = TRUE]
        /\ UNCHANGED <<config, state, active_msgs_sent, sw, up, events, pc, nested, peer, wire,
                       budget>>
    BY <1>2 DEF ActivateSend, AlreadySent, Refused, Goto, tag, links, procs
  <2>2. todo' \in [Node -> [Proc -> SUBSET Node]] /\ At2(todo, todo', Proc, n, p, todo[n][p] \ {m})
    BY <2>1 DEF IInv, TypeOK, At2, Others
  <2>3. send_active_msg' \in [Node -> BOOLEAN] /\ At1(send_active_msg, send_active_msg', n, TRUE)
    BY <2>1 DEF IInv, TypeOK, At1, Others
  <2>4. TypeOK'
    BY <2>1, <2>2, <2>3 DEF IInv, TypeOK
  <2>5. LockOK'
    BY <1>0, <2>1 DEF LockOK, Locked, LockAt
  <2>6. ActiveOK'
    <3> SUFFICES ASSUME NEW k \in Node
                 PROVE  ActiveAt(k)'
      BY DEF ActiveOK
    <3> QED BY <1>0, <2>1, <2>3 DEF ActiveOK, ActiveAt, At1, At2, LockOK, LockAt, Locked
  <2>7. PeerOK'
    BY <1>0, <2>1 DEF PeerOK, PeerAt
  <2>8. \A k \in Node \ {n} : Same(k)
    BY <2>1, <2>2, <2>3 DEF Same, At1, At2
  <2>9. ASSUME NEW b \in Node \ {n}, Owes(n, b) PROVE Owes(n, b)'
    BY ZenonT(60), <1>0, <2>1, <2>2, <2>3, <2>9, TagConstants DEF LockOK, LockAt, PeerOK, PeerAt, Locked,
       Owes, WillTell, Stuck, AlreadySent, Others, At1, At2
  <2>10. SomeoneOwes'
    BY ZenonT(60), <1>0, <2>1, <2>8, <2>9, KeepOwes
  <2> QED BY <2>4, <2>5, <2>6, <2>7, <2>10 DEF IInv
<1>3. CASE ~AlreadySent(n, m) /\ Accepted(n, m) /\ UNCHANGED <<state, send_active_msg, pc, nested>>
  <2>1. /\ pc[n][p] = "activate"
        /\ todo' = [todo EXCEPT ![n][p] = todo[n][p] \ {m}]
        /\ wire' = [wire EXCEPT ![n][m] = wire[n][m] + 1]
        /\ active_msgs_sent' = [active_msgs_sent EXCEPT ![n] = active_msgs_sent[n] \cup {m}]
        /\ UNCHANGED <<config, state, send_active_msg, sw, up, events, pc, nested, peer,
                       budget>>
    BY <1>3 DEF ActivateSend, Accepted, Goto, tag, links, procs
  <2>2. todo' \in [Node -> [Proc -> SUBSET Node]] /\ At2(todo, todo', Proc, n, p, todo[n][p] \ {m})
    BY <2>1 DEF IInv, TypeOK, At2, Others
  <2>3. wire' \in [Node -> [Node -> Nat]] /\ At2(wire, wire', Node, n, m, wire[n][m] + 1)
    BY <2>1 DEF IInv, TypeOK, At2, Others
  <2>4. active_msgs_sent' \in [Node -> SUBSET Node] /\ At1(active_msgs_sent, active_msgs_sent', n, active_msgs_sent[n] \cup {m})
    BY <2>1 DEF IInv, TypeOK, At1, Others
  <2>5. \A k \in Node : k \notin active_msgs_sent'[k] \cup up'[k]
    BY <2>1, <2>4 DEF IInv, TypeOK, PeerOK, PeerAt, At1, Others
  <2>6. TypeOK'
    BY <2>1, <2>2, <2>3, <2>4, <2>5 DEF IInv, TypeOK
  <2>7. LockOK'
    BY <1>0, <2>1 DEF LockOK, Locked, LockAt
  <2>8. ActiveOK'
    <3> SUFFICES ASSUME NEW k \in Node
                 PROVE  ActiveAt(k)'
      BY DEF ActiveOK
    <3> QED BY <1>0, <2>1, <2>4 DEF ActiveOK, ActiveAt, At1, At2, LockOK, LockAt, Locked
  <2>9. PeerOK'
    BY <1>0, <2>1 DEF PeerOK, PeerAt
  <2>10. \A k \in Node \ {n} : Same(k)
    BY <2>1, <2>2, <2>3, <2>4 DEF Same, At1, At2
  <2>11. ASSUME NEW b \in Node \ {n}, Owes(n, b) PROVE Owes(n, b)'
    BY <1>0, <2>1, <2>2, <2>3, <2>4, <2>11, TagConstants DEF LockOK, LockAt, PeerOK, PeerAt,
       Locked, Owes, WillTell, Stuck, AlreadySent, Others, At1, At2
  <2>12. SomeoneOwes'
    BY ZenonT(60), <1>0, <2>1, <2>10, <2>11, KeepOwes
  <2> QED BY <2>6, <2>7, <2>8, <2>9, <2>12 DEF IInv
<1>4. CASE ~AlreadySent(n, m) /\ Broken(n, m) /\ Goto(n, p, "activate_events") /\ nested' = [nested EXCEPT ![n][p] = Others(n)] /\ UNCHANGED tag
  <2>1. /\ pc[n][p] = "activate"
        /\ todo' = [todo EXCEPT ![n][p] = todo[n][p] \ {m}]
        /\ up' = [up EXCEPT ![n] = up[n] \ {m}]
        /\ events' = [events EXCEPT ![n][m] = events[n][m] \cup {"down"}]
        /\ budget.faults > 0 /\ budget' = [budget EXCEPT !.faults = @ - 1]
        /\ pc' = [pc EXCEPT ![n][p] = "activate_events"]
        /\ nested' = [nested EXCEPT ![n][p] = Others(n)]
        /\ UNCHANGED <<config, state, send_active_msg, active_msgs_sent, sw, peer, wire>>
    BY <1>4 DEF ActivateSend, Broken, SetLinkDown, Goto, tag, links, procs
  <2>2. todo' \in [Node -> [Proc -> SUBSET Node]] /\ At2(todo, todo', Proc, n, p, todo[n][p] \ {m})
    BY <2>1 DEF IInv, TypeOK, At2, Others
  <2>3. up' \in [Node -> SUBSET Node] /\ At1(up, up', n, up[n] \ {m})
    BY <2>1 DEF IInv, TypeOK, At1, Others
  <2>4. events' \in [Node -> [Node -> SUBSET {"up", "down"}]] /\ At2(events, events', Node, n, m, events[n][m] \cup {"down"})
    BY <2>1 DEF IInv, TypeOK, At2, Others
  <2>5. budget' \in [activations : Nat, faults : Nat, restarts : Nat]
    BY <1>0, <2>1, Spend
  <2>6. pc' \in [Node -> [Proc -> Labels]] /\ At2(pc, pc', Proc, n, p, "activate_events")
    BY <2>1 DEF IInv, TypeOK, At2, Labels, Others
  <2>7. nested' \in [Node -> [Proc -> SUBSET Node]] /\ At2(nested, nested', Proc, n, p, Others(n))
    BY <2>1 DEF IInv, TypeOK, At2, Others
  <2>8. \A k \in Node : k \notin active_msgs_sent'[k] \cup up'[k]
    BY <2>1, <2>3 DEF IInv, TypeOK, PeerOK, PeerAt, At1, Others
  <2>9. TypeOK'
    BY <2>1, <2>2, <2>3, <2>4, <2>5, <2>6, <2>7, <2>8 DEF IInv, TypeOK
  <2>10. LockOK'
    <3> SUFFICES ASSUME NEW k \in Node, NEW q \in Proc
                 PROVE  LockAt(k, q)'
      BY DEF LockOK
    <3> QED BY <1>0, <2>1, <2>6, TagConstants DEF LockOK, LockAt, Locked, At1, At2
  <2>11. ActiveOK'
    <3> SUFFICES ASSUME NEW k \in Node
                 PROVE  ActiveAt(k)'
      BY DEF ActiveOK
    <3> QED BY <1>0, <2>1, <2>6 DEF ActiveOK, ActiveAt, At1, At2, LockOK, LockAt, Locked
  <2>12. PeerOK'
    <3> SUFFICES ASSUME NEW k \in Node, NEW q \in Proc
                 PROVE  PeerAt(k, q)'
      BY DEF PeerOK
    <3>1. PeerAt(k, q) /\ peer[k][q] \in Node
      BY <1>0 DEF PeerOK
    <3> QED BY <3>1, <2>1, <2>4, <2>6 DEF PeerAt, At1, At2, Others
  <2>13. \A k \in Node \ {n} : Same(k)
    BY <2>1, <2>2, <2>3, <2>4, <2>6 DEF Same, At1, At2
  <2>14. ASSUME NEW b \in Node \ {n}, Owes(n, b) PROVE Owes(n, b)'
    BY <1>0, <2>1, <2>2, <2>3, <2>4, <2>6, <2>14, TagConstants DEF LockOK, LockAt, PeerOK,
       PeerAt, Locked, Owes, WillTell, Stuck, AlreadySent, Others, At1, At2
  <2>15. SomeoneOwes'
    BY ZenonT(60), <1>0, <2>1, <2>13, <2>14, KeepOwes
  <2> QED BY <2>9, <2>10, <2>11, <2>12, <2>15 DEF IInv
<1> QED BY <1>1, <1>2, <1>3, <1>4 DEF ActivateSend

\* shtag_activate gives the lock up with no node left to visit.
LEMMA ActivateDoneInv ==
    ASSUME NEW n \in Node, NEW p \in Proc, IInv,
           ActivateDone(n, p)
    PROVE  IInv'
<1>0. /\ LockOK /\ ActiveOK /\ PeerOK /\ SomeoneOwes
      /\ wire \in [Node -> [Node -> Nat]] /\ peer \in [Node -> [Proc -> Node]]
      /\ budget \in [activations : Nat, faults : Nat, restarts : Nat]
  BY DEF IInv, TypeOK
<1>1. /\ pc[n][p] = "activate"
      /\ todo[n][p] = {}
      /\ sw' = [sw EXCEPT ![n] = NoProc]
      /\ pc' = [pc EXCEPT ![n][p] = "idle"]
      /\ UNCHANGED <<config, state, send_active_msg, active_msgs_sent, up, events, todo, nested,
                     peer, wire, budget>>
  BY DEF ActivateDone, Goto, tag, links, procs
<1>2. sw' \in [Node -> Proc \cup {NoProc}] /\ At1(sw, sw', n, NoProc)
  BY <1>1 DEF IInv, TypeOK, At1
<1>3. pc' \in [Node -> [Proc -> Labels]] /\ At2(pc, pc', Proc, n, p, "idle")
  BY <1>1 DEF IInv, TypeOK, At2, Labels
<1>4. TypeOK'
  BY <1>1, <1>2, <1>3 DEF IInv, TypeOK
<1>5. LockOK'
  <2> SUFFICES ASSUME NEW k \in Node, NEW q \in Proc
               PROVE  LockAt(k, q)'
    BY DEF LockOK
  <2> QED BY <1>0, <1>1, <1>2, <1>3, TagConstants DEF LockOK, LockAt, Locked, At1, At2
<1>6. ActiveOK'
  <2> SUFFICES ASSUME NEW k \in Node
               PROVE  ActiveAt(k)'
    BY DEF ActiveOK
  <2> QED BY <1>0, <1>1, <1>3 DEF ActiveOK, ActiveAt, At1, At2, LockOK, LockAt, Locked
<1>7. PeerOK'
  <2> SUFFICES ASSUME NEW k \in Node, NEW q \in Proc
               PROVE  PeerAt(k, q)'
    BY DEF PeerOK
  <2>1. PeerAt(k, q) /\ peer[k][q] \in Node
    BY <1>0 DEF PeerOK
  <2> QED BY <2>1, <1>1, <1>3 DEF PeerAt, At1, At2, Others
<1>8. \A k \in Node \ {n} : Same(k)
  BY <1>1, <1>3 DEF Same, At1, At2
<1>9. ASSUME NEW b \in Node \ {n}, Owes(n, b) PROVE Owes(n, b)'
  BY <1>0, <1>1, <1>3, <1>9, TagConstants DEF LockOK, LockAt, PeerOK, PeerAt, Locked, Owes,
     WillTell, Stuck, AlreadySent, Others, At1, At2
<1>10. SomeoneOwes'
  BY ZenonT(60), <1>0, <1>1, <1>8, <1>9, KeepOwes
<1> QED BY <1>4, <1>5, <1>6, <1>7, <1>10 DEF IInv

\* set_link_w_neigh sets the up event of a link that comes up.
LEMMA LinkUpInv ==
    ASSUME NEW n \in Node, NEW p \in Proc, NEW m \in Others(n), IInv,
           LinkUp(n, p, m)
    PROVE  IInv'
<1>0. /\ LockOK /\ ActiveOK /\ PeerOK /\ SomeoneOwes
      /\ wire \in [Node -> [Node -> Nat]] /\ peer \in [Node -> [Proc -> Node]]
      /\ budget \in [activations : Nat, faults : Nat, restarts : Nat]
  BY DEF IInv, TypeOK
<1>1. /\ pc[n][p] = "idle"
      /\ m # n
      /\ events' = [events EXCEPT ![n][m] = events[n][m] \cup {"up"}]
      /\ pc' = [pc EXCEPT ![n][p] = "linkup"]
      /\ peer' = [peer EXCEPT ![n][p] = m]
      /\ UNCHANGED <<config, state, send_active_msg, active_msgs_sent, sw, up, todo, nested,
                     wire, budget>>
  BY DEF LinkUp, Others, Goto, tag, links, procs
<1>2. events' \in [Node -> [Node -> SUBSET {"up", "down"}]] /\ At2(events, events', Node, n, m, events[n][m] \cup {"up"})
  BY <1>1 DEF IInv, TypeOK, At2, Others
<1>3. pc' \in [Node -> [Proc -> Labels]] /\ At2(pc, pc', Proc, n, p, "linkup")
  BY <1>1 DEF IInv, TypeOK, At2, Labels, Others
<1>4. peer' \in [Node -> [Proc -> Node]] /\ At2(peer, peer', Proc, n, p, m)
  BY <1>1 DEF IInv, TypeOK, At2, Others
<1>5. TypeOK'
  BY <1>1, <1>2, <1>3, <1>4 DEF IInv, TypeOK
<1>6. LockOK'
  <2> SUFFICES ASSUME NEW k \in Node, NEW q \in Proc
               PROVE  LockAt(k, q)'
    BY DEF LockOK
  <2> QED BY <1>0, <1>1, <1>3, TagConstants DEF LockOK, LockAt, Locked, At1, At2
<1>7. ActiveOK'
  <2> SUFFICES ASSUME NEW k \in Node
               PROVE  ActiveAt(k)'
    BY DEF ActiveOK
  <2> QED BY <1>0, <1>1, <1>3 DEF ActiveOK, ActiveAt, At1, At2, LockOK, LockAt, Locked
<1>8. PeerOK'
  <2> SUFFICES ASSUME NEW k \in Node, NEW q \in Proc
               PROVE  PeerAt(k, q)'
    BY DEF PeerOK
  <2>1. PeerAt(k, q) /\ peer[k][q] \in Node
    BY <1>0 DEF PeerOK
  <2>2. events[k][peer[k][q]] \subseteq events'[k][peer[k][q]]
    <3>1. CASE k = n /\ peer[k][q] = m BY ZenonT(60), <1>2, <3>1 DEF At2
    <3>2. CASE k # n \/ peer[k][q] # m BY ZenonT(60), <1>2, <2>1, <3>2 DEF At2
    <3> QED BY ZenonT(60), <3>1, <3>2
  <2>3. CASE k # n \/ q # p
    <3>1. pc'[k][q] = pc[k][q] /\ peer'[k][q] = peer[k][q]
      BY ZenonT(60), <1>3, <1>4, <2>3 DEF At2
    <3> QED BY ZenonT(60), <2>1, <2>2, <3>1 DEF PeerAt
  <2>4. CASE k = n /\ q = p
    <3>1. peer'[k][q] = m /\ m # n /\ "up" \in events'[n][m]
      BY ZenonT(60), <1>2, <1>4, <2>4 DEF At2, Others
    <3> QED BY ZenonT(60), <2>4, <3>1 DEF PeerAt
  <2> QED BY ZenonT(60), <2>3, <2>4
<1>9. \A k \in Node \ {n} : Same(k)
  BY <1>1, <1>2, <1>3, <1>4 DEF Same, At1, At2
<1>10. ASSUME NEW b \in Node \ {n}, Owes(n, b) PROVE Owes(n, b)'
  BY <1>0, <1>1, <1>2, <1>3, <1>4, <1>10, TagConstants DEF LockOK, LockAt, PeerOK, PeerAt,
     Locked, Owes, WillTell, Stuck, AlreadySent, Others, At1, At2
<1>11. SomeoneOwes'
  BY ZenonT(60), <1>0, <1>1, <1>9, <1>10, KeepOwes
<1> QED BY <1>5, <1>6, <1>7, <1>8, <1>11 DEF IInv

\* set_link_w_neigh sets the link itself up, the event being set.
LEMMA LinkUpSetInv ==
    ASSUME NEW n \in Node, NEW p \in Proc, IInv,
           LinkUpSet(n, p)
    PROVE  IInv'
<1>0. /\ LockOK /\ ActiveOK /\ PeerOK /\ SomeoneOwes
      /\ wire \in [Node -> [Node -> Nat]] /\ peer \in [Node -> [Proc -> Node]]
      /\ budget \in [activations : Nat, faults : Nat, restarts : Nat]
  BY DEF IInv, TypeOK
<1>1. /\ pc[n][p] = "linkup"
      /\ up' = [up EXCEPT ![n] = up[n] \cup {peer[n][p]}]
      /\ pc' = [pc EXCEPT ![n][p] = "events"]
      /\ todo' = [todo EXCEPT ![n][p] = Others(n)]
      /\ peer' = [peer EXCEPT ![n][p] = n]
      /\ UNCHANGED <<config, state, send_active_msg, active_msgs_sent, sw, events, nested, wire,
                     budget>>
  BY DEF LinkUpSet, StartEvents, Goto, tag, links, procs
<1>2. up' \in [Node -> SUBSET Node] /\ At1(up, up', n, up[n] \cup {peer[n][p]})
  BY <1>1 DEF IInv, TypeOK, At1
<1>3. pc' \in [Node -> [Proc -> Labels]] /\ At2(pc, pc', Proc, n, p, "events")
  BY <1>1 DEF IInv, TypeOK, At2, Labels
<1>4. todo' \in [Node -> [Proc -> SUBSET Node]] /\ At2(todo, todo', Proc, n, p, Others(n))
  BY <1>1 DEF IInv, TypeOK, At2, Others
<1>5. peer' \in [Node -> [Proc -> Node]] /\ At2(peer, peer', Proc, n, p, n)
  BY <1>1 DEF IInv, TypeOK, At2
<1>6. ASSUME NEW k \in Node PROVE k \notin active_msgs_sent'[k] \cup up'[k]
  <2>1. k \notin active_msgs_sent[k] \cup up[k] BY ZenonT(60) DEF IInv, TypeOK
  <2>2. peer[n][p] # n BY ZenonT(60), <1>0, <1>1 DEF PeerOK, PeerAt
  <2>3. CASE k = n BY ZenonT(60), <1>1, <1>2, <2>1, <2>2, <2>3 DEF At1
  <2>4. CASE k # n BY ZenonT(60), <1>1, <1>2, <2>1, <2>4 DEF At1
  <2> QED BY ZenonT(60), <2>3, <2>4
<1>7. TypeOK'
  BY ZenonT(60), <1>1, <1>2, <1>3, <1>4, <1>5, <1>6 DEF IInv, TypeOK
<1>8. LockOK'
  <2> SUFFICES ASSUME NEW k \in Node, NEW q \in Proc
               PROVE  LockAt(k, q)'
    BY DEF LockOK
  <2> QED BY <1>0, <1>1, <1>3, TagConstants DEF LockOK, LockAt, Locked, At1, At2
<1>9. ActiveOK'
  <2> SUFFICES ASSUME NEW k \in Node
               PROVE  ActiveAt(k)'
    BY DEF ActiveOK
  <2> QED BY <1>0, <1>1, <1>3 DEF ActiveOK, ActiveAt, At1, At2, LockOK, LockAt, Locked
<1>10. PeerOK'
  <2> SUFFICES ASSUME NEW k \in Node, NEW q \in Proc
               PROVE  PeerAt(k, q)'
    BY DEF PeerOK
  <2>1. PeerAt(k, q) /\ peer[k][q] \in Node
    BY <1>0 DEF PeerOK
  <2> QED BY <2>1, <1>1, <1>3, <1>5 DEF PeerAt, At1, At2, Others
<1>11. ASSUME NEW k \in Node \ {n} PROVE Same(k)
  <2>1. /\ active_msgs_sent' = active_msgs_sent /\ send_active_msg' = send_active_msg
        /\ events' = events /\ wire' = wire
    BY <1>1
  <2>2. /\ up'[k] = up[k]
        /\ \A q \in Proc :
             pc'[k][q] = pc[k][q] /\ todo'[k][q] = todo[k][q] /\ peer'[k][q] = peer[k][q]
    BY ZenonT(60), <1>2, <1>3, <1>4, <1>5 DEF At1, At2
  <2> QED BY ZenonT(60), <2>1, <2>2 DEF Same
<1>12. ASSUME NEW b \in Node \ {n}, Owes(n, b) PROVE Owes(n, b)'
  <2>1. \A q \in Proc : q # p => /\ pc'[n][q] = pc[n][q] /\ todo'[n][q] = todo[n][q]
                                /\ peer'[n][q] = peer[n][q]
    BY ZenonT(60), <1>3, <1>4, <1>5 DEF At2
  <2>2. b = peer[n][p] => "up" \in events[n][b] BY ZenonT(60), <1>0, <1>1 DEF PeerOK, PeerAt
  <2>3. b \notin up[n] => b \notin up'[n] \/ b = peer[n][p] BY ZenonT(60), <1>2 DEF At1
  <2>4. pc[n][p] \notin {"activate", "activate_events", "stuck", "flush"} BY <1>1
  <2>5. events' = events BY <1>1
  <2>6. Flushes(n, b) => Flushes(n, b)'
    BY ZenonT(60), <2>1, <2>2, <2>3, <2>4, <2>5 DEF Flushes
  <2> QED BY ZenonT(60), <1>1, <1>12, <2>1, <2>4, <2>6, OwesKept
<1>13. SomeoneOwes'
  BY ZenonT(60), <1>0, <1>1, <1>11, <1>12, KeepOwes
<1> QED BY <1>7, <1>8, <1>9, <1>10, <1>13 DEF IInv

\* A link goes down: what was to be sent over it still is to be.
LEMMA LinkDownInv ==
    ASSUME NEW n \in Node, NEW p \in Proc, NEW m \in Others(n), IInv,
           LinkDown(n, p, m), ~Loss
    PROVE  IInv'
<1>0. /\ LockOK /\ ActiveOK /\ PeerOK /\ SomeoneOwes
      /\ wire \in [Node -> [Node -> Nat]] /\ peer \in [Node -> [Proc -> Node]]
      /\ budget \in [activations : Nat, faults : Nat, restarts : Nat]
  BY DEF IInv, TypeOK
<1>1. /\ pc[n][p] = "idle"
      /\ up' = [up EXCEPT ![n] = up[n] \ {m}]
      /\ events' = [events EXCEPT ![n][m] = events[n][m] \cup {"down"}]
      /\ budget.faults > 0 /\ budget' = [budget EXCEPT !.faults = @ - 1]
      /\ pc' = [pc EXCEPT ![n][p] = "events"]
      /\ todo' = [todo EXCEPT ![n][p] = Others(n)]
      /\ UNCHANGED <<config, state, send_active_msg, active_msgs_sent, sw, nested, peer, wire>>
  BY DEF LinkDown, SetLinkDown, StartEvents, Goto, tag, links, procs
<1>2. up' \in [Node -> SUBSET Node] /\ At1(up, up', n, up[n] \ {m})
  BY <1>1 DEF IInv, TypeOK, At1, Others
<1>3. events' \in [Node -> [Node -> SUBSET {"up", "down"}]] /\ At2(events, events', Node, n, m, events[n][m] \cup {"down"})
  BY <1>1 DEF IInv, TypeOK, At2, Others
<1>4. budget' \in [activations : Nat, faults : Nat, restarts : Nat]
  BY <1>0, <1>1, Spend
<1>5. pc' \in [Node -> [Proc -> Labels]] /\ At2(pc, pc', Proc, n, p, "events")
  BY <1>1 DEF IInv, TypeOK, At2, Labels, Others
<1>6. todo' \in [Node -> [Proc -> SUBSET Node]] /\ At2(todo, todo', Proc, n, p, Others(n))
  BY <1>1 DEF IInv, TypeOK, At2, Others
<1>7. \A k \in Node : k \notin active_msgs_sent'[k] \cup up'[k]
  BY <1>1, <1>2 DEF IInv, TypeOK, PeerOK, PeerAt, At1, Others
<1>8. TypeOK'
  BY ZenonT(60), <1>1, <1>2, <1>3, <1>4, <1>5, <1>6, <1>7 DEF IInv, TypeOK
<1>9. LockOK'
  <2> SUFFICES ASSUME NEW k \in Node, NEW q \in Proc
               PROVE  LockAt(k, q)'
    BY DEF LockOK
  <2> QED BY <1>0, <1>1, <1>5, TagConstants DEF LockOK, LockAt, Locked, At1, At2
<1>10. ActiveOK'
  <2> SUFFICES ASSUME NEW k \in Node
               PROVE  ActiveAt(k)'
    BY DEF ActiveOK
  <2> QED BY <1>0, <1>1, <1>5 DEF ActiveOK, ActiveAt, At1, At2, LockOK, LockAt, Locked
<1>11. PeerOK'
  <2> SUFFICES ASSUME NEW k \in Node, NEW q \in Proc
               PROVE  PeerAt(k, q)'
    BY DEF PeerOK
  <2>1. PeerAt(k, q) /\ peer[k][q] \in Node
    BY <1>0 DEF PeerOK
  <2> QED BY <2>1, <1>1, <1>3, <1>5 DEF PeerAt, At1, At2, Others
<1>12. \A k \in Node \ {n} : Same(k)
  BY <1>1, <1>2, <1>3, <1>5, <1>6 DEF Same, At1, At2
<1>13. ASSUME NEW b \in Node \ {n}, Owes(n, b) PROVE Owes(n, b)'
  BY <1>0, <1>1, <1>2, <1>3, <1>5, <1>6, <1>13, TagConstants DEF LockOK, LockAt, PeerOK, PeerAt,
     Locked, Owes, WillTell, Stuck, AlreadySent, Others, At1, At2
<1>14. SomeoneOwes'
  BY ZenonT(60), <1>0, <1>1, <1>12, <1>13, KeepOwes
<1> QED BY <1>8, <1>9, <1>10, <1>11, <1>14 DEF IInv

\* A process starts on the events another one has left.
LEMMA RunEventsInv ==
    ASSUME NEW n \in Node, NEW p \in Proc, IInv,
           RunEvents(n, p)
    PROVE  IInv'
<1>0. /\ LockOK /\ ActiveOK /\ PeerOK /\ SomeoneOwes
      /\ wire \in [Node -> [Node -> Nat]] /\ peer \in [Node -> [Proc -> Node]]
      /\ budget \in [activations : Nat, faults : Nat, restarts : Nat]
  BY DEF IInv, TypeOK
<1>1. /\ pc[n][p] = "idle"
      /\ pc' = [pc EXCEPT ![n][p] = "events"]
      /\ todo' = [todo EXCEPT ![n][p] = Others(n)]
      /\ UNCHANGED <<config, state, send_active_msg, active_msgs_sent, sw, up, events, nested,
                     peer, wire, budget>>
  BY DEF RunEvents, StartEvents, Goto, tag, links, procs
<1>2. pc' \in [Node -> [Proc -> Labels]] /\ At2(pc, pc', Proc, n, p, "events")
  BY <1>1 DEF IInv, TypeOK, At2, Labels
<1>3. todo' \in [Node -> [Proc -> SUBSET Node]] /\ At2(todo, todo', Proc, n, p, Others(n))
  BY <1>1 DEF IInv, TypeOK, At2, Others
<1>4. TypeOK'
  BY <1>1, <1>2, <1>3 DEF IInv, TypeOK
<1>5. LockOK'
  <2> SUFFICES ASSUME NEW k \in Node, NEW q \in Proc
               PROVE  LockAt(k, q)'
    BY DEF LockOK
  <2> QED BY <1>0, <1>1, <1>2, TagConstants DEF LockOK, LockAt, Locked, At1, At2
<1>6. ActiveOK'
  <2> SUFFICES ASSUME NEW k \in Node
               PROVE  ActiveAt(k)'
    BY DEF ActiveOK
  <2> QED BY <1>0, <1>1, <1>2 DEF ActiveOK, ActiveAt, At1, At2, LockOK, LockAt, Locked
<1>7. PeerOK'
  <2> SUFFICES ASSUME NEW k \in Node, NEW q \in Proc
               PROVE  PeerAt(k, q)'
    BY DEF PeerOK
  <2>1. PeerAt(k, q) /\ peer[k][q] \in Node
    BY <1>0 DEF PeerOK
  <2> QED BY <2>1, <1>1, <1>2 DEF PeerAt, At1, At2, Others
<1>8. \A k \in Node \ {n} : Same(k)
  BY ZenonT(60), <1>1, <1>2, <1>3 DEF Same, At1, At2
<1>9. ASSUME NEW b \in Node \ {n}, Owes(n, b) PROVE Owes(n, b)'
  BY <1>0, <1>1, <1>2, <1>3, <1>9, TagConstants DEF LockOK, LockAt, PeerOK, PeerAt, Locked,
     Owes, WillTell, Stuck, AlreadySent, Others, At1, At2
<1>10. SomeoneOwes'
  BY ZenonT(60), <1>0, <1>1, <1>8, <1>9, KeepOwes
<1> QED BY <1>4, <1>5, <1>6, <1>7, <1>10 DEF IInv

\* do_actions_node_ev takes an up event: the flush it starts takes its place.
LEMMA DoEventInv ==
    ASSUME NEW n \in Node, NEW p \in Proc, NEW m \in Others(n), IInv,
           DoEvent(n, p, m), ~Windows, ~InWindow(n, p)
    PROVE  IInv'
<1>0. /\ LockOK /\ ActiveOK /\ PeerOK /\ SomeoneOwes
      /\ wire \in [Node -> [Node -> Nat]] /\ peer \in [Node -> [Proc -> Node]]
      /\ budget \in [activations : Nat, faults : Nat, restarts : Nat]
  BY DEF IInv, TypeOK
<1>1. CASE NoEvent(n, m) /\ UNCHANGED <<pc, peer>>
  <2>1. /\ pc[n][p] = "events"
        /\ todo' = [todo EXCEPT ![n][p] = todo[n][p] \ {m}]
        /\ UNCHANGED <<config, state, send_active_msg, active_msgs_sent, sw, up, events, pc,
                       nested, peer, wire, budget>>
    BY <1>1 DEF DoEvent, NoEvent, Goto, tag, links, procs
  <2>2. todo' \in [Node -> [Proc -> SUBSET Node]] /\ At2(todo, todo', Proc, n, p, todo[n][p] \ {m})
    BY <2>1 DEF IInv, TypeOK, At2, Others
  <2>3. TypeOK'
    BY <2>1, <2>2 DEF IInv, TypeOK
  <2>4. LockOK'
    BY <1>0, <2>1 DEF LockOK, Locked, LockAt
  <2>5. ActiveOK'
    BY <1>0, <2>1 DEF ActiveOK, ActiveAt
  <2>6. PeerOK'
    BY <1>0, <2>1 DEF PeerOK, PeerAt
  <2>7. \A k \in Node \ {n} : Same(k)
    BY <2>1, <2>2 DEF Same, At1, At2
  <2>8. ASSUME NEW b \in Node \ {n}, Owes(n, b) PROVE Owes(n, b)'
    BY ZenonT(60), <1>0, <2>1, <2>2, <2>8, TagConstants DEF LockOK, LockAt, PeerOK, PeerAt, Locked, Owes,
       WillTell, Stuck, AlreadySent, Others, At1, At2
  <2>9. SomeoneOwes'
    BY ZenonT(60), <1>0, <2>1, <2>7, <2>8, KeepOwes
  <2> QED BY <2>3, <2>4, <2>5, <2>6, <2>9 DEF IInv
<1>2. CASE DownEvent(n, m) /\ UNCHANGED <<pc, peer>>
  <2>1. /\ pc[n][p] = "events"
        /\ todo' = [todo EXCEPT ![n][p] = todo[n][p] \ {m}]
        /\ events' = [events EXCEPT ![n][m] = events[n][m] \ {"down"}]
        /\ UNCHANGED <<config, state, send_active_msg, active_msgs_sent, sw, up, pc, nested,
                       peer, wire, budget>>
    BY <1>2 DEF DoEvent, DownEvent, Goto, tag, links, procs
  <2>2. todo' \in [Node -> [Proc -> SUBSET Node]] /\ At2(todo, todo', Proc, n, p, todo[n][p] \ {m})
    BY <2>1 DEF IInv, TypeOK, At2, Others
  <2>3. events' \in [Node -> [Node -> SUBSET {"up", "down"}]] /\ At2(events, events', Node, n, m, events[n][m] \ {"down"})
    BY <2>1 DEF IInv, TypeOK, At2, Others
  <2>4. TypeOK'
    BY ZenonT(60), <2>1, <2>2, <2>3 DEF IInv, TypeOK
  <2>5. LockOK'
    BY <1>0, <2>1 DEF LockOK, Locked, LockAt
  <2>6. ActiveOK'
    BY <1>0, <2>1 DEF ActiveOK, ActiveAt
  <2>7. PeerOK'
    <3> SUFFICES ASSUME NEW k \in Node, NEW q \in Proc
                 PROVE  PeerAt(k, q)'
      BY DEF PeerOK
    <3>1. PeerAt(k, q) /\ peer[k][q] \in Node
      BY <1>0 DEF PeerOK
    <3> QED BY <3>1, <2>1, <2>3 DEF PeerAt, At1, At2, Others, InWindow
  <2>8. \A k \in Node \ {n} : Same(k)
    BY <2>1, <2>2, <2>3 DEF Same, At1, At2
  <2>9. \A e \in Node : "up" \in events[n][e] => "up" \in events'[n][e]
    BY <2>1, <2>3 DEF At2, Others
  <2>10. ASSUME NEW b \in Node \ {n}, Owes(n, b) PROVE Owes(n, b)'
    <3>1. \A q \in Proc : q # p => pc'[n][q] = pc[n][q] /\ todo'[n][q] = todo[n][q]
      BY ZenonT(60), <2>1, <2>2 DEF At2
    <3>2. Flushes(n, b) => Flushes(n, b)' BY ZenonT(60), <2>1, <2>9 DEF Flushes
    <3>3. pc[n][p] \notin {"activate", "activate_events", "stuck"} BY <2>1
    <3> QED BY ZenonT(60), <2>1, <2>10, <3>1, <3>2, <3>3, OwesKept
  <2>11. SomeoneOwes'
    BY ZenonT(60), <1>0, <2>1, <2>8, <2>10, KeepOwes
  <2> QED BY <2>4, <2>5, <2>6, <2>7, <2>11 DEF IInv
<1>3. CASE UpEvent(n, m) /\ Goto(n, p, "flush") /\ peer' = [peer EXCEPT ![n][p] = m]
  <2>1. /\ pc[n][p] = "events"
        /\ todo' = [todo EXCEPT ![n][p] = todo[n][p] \ {m}]
        /\ events' = [events EXCEPT ![n][m] = {}]
        /\ pc' = [pc EXCEPT ![n][p] = "flush"]
        /\ peer' = [peer EXCEPT ![n][p] = m]
        /\ UNCHANGED <<config, state, send_active_msg, active_msgs_sent, sw, up, nested, wire,
                       budget>>
    BY <1>3 DEF DoEvent, UpEvent, Goto, tag, links, procs
  <2>2. todo' \in [Node -> [Proc -> SUBSET Node]] /\ At2(todo, todo', Proc, n, p, todo[n][p] \ {m})
    BY <2>1 DEF IInv, TypeOK, At2, Others
  <2>3. events' \in [Node -> [Node -> SUBSET {"up", "down"}]] /\ At2(events, events', Node, n, m, {})
    BY <2>1 DEF IInv, TypeOK, At2, Others
  <2>4. pc' \in [Node -> [Proc -> Labels]] /\ At2(pc, pc', Proc, n, p, "flush")
    BY <2>1 DEF IInv, TypeOK, At2, Labels, Others
  <2>5. peer' \in [Node -> [Proc -> Node]] /\ At2(peer, peer', Proc, n, p, m)
    BY <2>1 DEF IInv, TypeOK, At2, Others
  <2>6. TypeOK'
    BY ZenonT(60), <2>1, <2>2, <2>3, <2>4, <2>5 DEF IInv, TypeOK
  <2>7. LockOK'
    <3> SUFFICES ASSUME NEW k \in Node, NEW q \in Proc
                 PROVE  LockAt(k, q)'
      BY DEF LockOK
    <3> QED BY <1>0, <2>1, <2>4, TagConstants DEF LockOK, LockAt, Locked, At1, At2
  <2>8. ActiveOK'
    <3> SUFFICES ASSUME NEW k \in Node
                 PROVE  ActiveAt(k)'
      BY DEF ActiveOK
    <3> QED BY <1>0, <2>1, <2>4 DEF ActiveOK, ActiveAt, At1, At2, LockOK, LockAt, Locked
  <2>9. PeerOK'
    <3> SUFFICES ASSUME NEW k \in Node, NEW q \in Proc
                 PROVE  PeerAt(k, q)'
      BY DEF PeerOK
    <3>1. PeerAt(k, q) /\ peer[k][q] \in Node
      BY <1>0 DEF PeerOK
    <3> QED BY <3>1, <2>1, <2>3, <2>4, <2>5 DEF PeerAt, At1, At2, Others, InWindow
  <2>10. \A k \in Node \ {n} : Same(k)
    BY <2>1, <2>2, <2>3, <2>4, <2>5 DEF Same, At1, At2
  <2>11. ASSUME NEW b \in Node \ {n}, Owes(n, b) PROVE Owes(n, b)'
    <3>1. \A q \in Proc : q # p => /\ pc'[n][q] = pc[n][q] /\ todo'[n][q] = todo[n][q]
                                  /\ peer'[n][q] = peer[n][q]
      BY ZenonT(60), <2>2, <2>4, <2>5 DEF At2
    <3>2. pc[n][p] \notin {"activate", "activate_events", "stuck", "flush"} BY <2>1
    <3>3. pc'[n][p] = "flush" /\ peer'[n][p] = m BY ZenonT(60), <2>4, <2>5 DEF At2
    <3>4. b = m \/ events'[n][b] = events[n][b] BY ZenonT(60), <2>3 DEF At2
    <3>5. up' = up BY <2>1
    <3>6. Flushes(n, b) => Flushes(n, b)'
      BY ZenonT(60), <3>1, <3>2, <3>3, <3>4, <3>5 DEF Flushes
    <3> QED BY ZenonT(60), <2>1, <2>11, <3>1, <3>2, <3>6, OwesKept
  <2>12. SomeoneOwes'
    BY ZenonT(60), <1>0, <2>1, <2>10, <2>11, KeepOwes
  <2> QED BY <2>6, <2>7, <2>8, <2>9, <2>12 DEF IInv
<1> QED BY <1>1, <1>2, <1>3 DEF DoEvent

\* do_actions_node_ev has visited every node.
LEMMA DoneEventsInv ==
    ASSUME NEW n \in Node, NEW p \in Proc, IInv,
           DoneEvents(n, p)
    PROVE  IInv'
<1>0. /\ LockOK /\ ActiveOK /\ PeerOK /\ SomeoneOwes
      /\ wire \in [Node -> [Node -> Nat]] /\ peer \in [Node -> [Proc -> Node]]
      /\ budget \in [activations : Nat, faults : Nat, restarts : Nat]
  BY DEF IInv, TypeOK
<1>1. /\ pc[n][p] = "events"
      /\ pc' = [pc EXCEPT ![n][p] = "idle"]
      /\ UNCHANGED <<config, state, send_active_msg, active_msgs_sent, sw, up, events, todo,
                     nested, peer, wire, budget>>
  BY DEF DoneEvents, Goto, tag, links, procs
<1>2. pc' \in [Node -> [Proc -> Labels]] /\ At2(pc, pc', Proc, n, p, "idle")
  BY <1>1 DEF IInv, TypeOK, At2, Labels
<1>3. TypeOK'
  BY ZenonT(60), <1>1, <1>2 DEF IInv, TypeOK
<1>4. LockOK'
  <2> SUFFICES ASSUME NEW k \in Node, NEW q \in Proc
               PROVE  LockAt(k, q)'
    BY DEF LockOK
  <2> QED BY <1>0, <1>1, <1>2, TagConstants DEF LockOK, LockAt, Locked, At1, At2
<1>5. ActiveOK'
  <2> SUFFICES ASSUME NEW k \in Node
               PROVE  ActiveAt(k)'
    BY DEF ActiveOK
  <2> QED BY ZenonT(60), <1>0, <1>1, <1>2 DEF ActiveOK, ActiveAt, At1, At2, LockOK, LockAt, Locked
<1>6. PeerOK'
  <2> SUFFICES ASSUME NEW k \in Node, NEW q \in Proc
               PROVE  PeerAt(k, q)'
    BY DEF PeerOK
  <2>1. PeerAt(k, q) /\ peer[k][q] \in Node
    BY <1>0 DEF PeerOK
  <2> QED BY <2>1, <1>1, <1>2 DEF PeerAt, At1, At2, Others
<1>7. \A k \in Node \ {n} : Same(k)
  BY <1>1, <1>2 DEF Same, At1, At2
<1>8. ASSUME NEW b \in Node \ {n}, Owes(n, b) PROVE Owes(n, b)'
  <2>1. \A q \in Proc : q # p => pc'[n][q] = pc[n][q] /\ todo'[n][q] = todo[n][q]
    BY ZenonT(60), <1>1, <1>2 DEF At2
  <2>2. pc[n][p] \notin {"activate", "activate_events", "stuck", "flush"} BY <1>1
  <2>3. up' = up /\ events' = events /\ peer' = peer BY <1>1
  <2>4. Flushes(n, b) => Flushes(n, b)' BY ZenonT(60), <2>1, <2>2, <2>3 DEF Flushes
  <2> QED BY ZenonT(60), <1>1, <1>8, <2>1, <2>2, <2>4, OwesKept
<1>9. SomeoneOwes'
  BY ZenonT(60), <1>0, <1>1, <1>7, <1>8, KeepOwes
<1> QED BY <1>3, <1>4, <1>5, <1>6, <1>9 DEF IInv

\* shtag_flush_state sends what is owed, or the link has gone down again.
LEMMA FlushInv ==
    ASSUME NEW n \in Node, NEW p \in Proc, IInv,
           Flush(n, p)
    PROVE  IInv'
<1>0. /\ LockOK /\ ActiveOK /\ PeerOK /\ SomeoneOwes
      /\ wire \in [Node -> [Node -> Nat]] /\ peer \in [Node -> [Proc -> Node]]
      /\ budget \in [activations : Nat, faults : Nat, restarts : Nat]
  BY DEF IInv, TypeOK
<1> DEFINE m == peer[n][p]
<1>m. m \in Node /\ m # n
  BY DEF IInv, TypeOK, PeerOK, PeerAt, Flush
<1>1. CASE Goto(n, p, "events") /\ (~send_active_msg[n] \/ m \in active_msgs_sent[n]) /\ UNCHANGED <<active_msgs_sent, sw, links, nested, wire, budget>>
  <2>1. /\ pc[n][p] = "flush"
        /\ sw[n] = NoProc
        /\ ~send_active_msg[n] \/ m \in active_msgs_sent[n]
        /\ pc' = [pc EXCEPT ![n][p] = "events"]
        /\ peer' = [peer EXCEPT ![n][p] = n]
        /\ UNCHANGED <<config, state, send_active_msg, active_msgs_sent, sw, up, events, todo,
                       nested, wire, budget>>
    BY <1>1, <1>m DEF Flush, Goto, tag, links, procs
  <2>2. pc' \in [Node -> [Proc -> Labels]] /\ At2(pc, pc', Proc, n, p, "events")
    BY <2>1, <1>m DEF IInv, TypeOK, At2, Labels
  <2>3. peer' \in [Node -> [Proc -> Node]] /\ At2(peer, peer', Proc, n, p, n)
    BY <2>1, <1>m DEF IInv, TypeOK, At2
  <2>4. TypeOK'
    BY ZenonT(60), <2>1, <2>2, <2>3 DEF IInv, TypeOK
  <2>5. LockOK'
    <3> SUFFICES ASSUME NEW k \in Node, NEW q \in Proc
                 PROVE  LockAt(k, q)'
      BY DEF LockOK
    <3> QED BY <1>0, <2>1, <2>2, <1>m, TagConstants DEF LockOK, LockAt, Locked, At1, At2
  <2>6. ActiveOK'
    <3> SUFFICES ASSUME NEW k \in Node
                 PROVE  ActiveAt(k)'
      BY DEF ActiveOK
    <3> QED BY <1>0, <2>1, <2>2, <1>m DEF ActiveOK, ActiveAt, At1, At2, LockOK, LockAt, Locked
  <2>7. PeerOK'
    <3> SUFFICES ASSUME NEW k \in Node, NEW q \in Proc
                 PROVE  PeerAt(k, q)'
      BY DEF PeerOK
    <3>1. PeerAt(k, q) /\ peer[k][q] \in Node
      BY <1>0 DEF PeerOK
    <3> QED BY <3>1, <2>1, <2>2, <2>3, <1>m DEF PeerAt, At1, At2, Others
  <2>8. \A k \in Node \ {n} : Same(k)
    BY <2>1, <2>2, <2>3 DEF Same, At1, At2
  <2>9. ASSUME NEW b \in Node \ {n}, Owes(n, b) PROVE Owes(n, b)'
    <3>1. CASE wire[n][b] > 0 BY ZenonT(60), <2>1, <3>1 DEF Owes
    <3>2. CASE WillTell(n, b)
      <4>1. \A q \in Proc : q # p => pc'[n][q] = pc[n][q] /\ peer'[n][q] = peer[n][q]
        BY ZenonT(60), <2>2, <2>3 DEF At2
      <4>2. ASSUME NEW q \in Proc PROVE pc[n][q] # "activate_events"
        BY ZenonT(60), <1>0, <2>1, TagConstants DEF LockOK, LockAt, Locked
      <4>3. WillTell(n, b)' BY ZenonT(60), <1>m, <2>1, <3>2, <4>1, <4>2 DEF WillTell, Stuck
      <4> QED BY ZenonT(60), <4>3 DEF Owes
    <3> QED BY <2>9, <3>1, <3>2 DEF Owes
  <2>10. SomeoneOwes'
    BY ZenonT(60), <1>0, <2>1, <2>8, <2>9, KeepOwes
  <2> QED BY <2>4, <2>5, <2>6, <2>7, <2>10 DEF IInv
<1>2. CASE Goto(n, p, "events") /\ send_active_msg[n] /\ Accepted(n, m) /\ UNCHANGED <<sw, nested>>
  <2>1. /\ pc[n][p] = "flush"
        /\ sw[n] = NoProc
        /\ send_active_msg[n]
        /\ pc' = [pc EXCEPT ![n][p] = "events"]
        /\ peer' = [peer EXCEPT ![n][p] = n]
        /\ wire' = [wire EXCEPT ![n][m] = wire[n][m] + 1]
        /\ active_msgs_sent' = [active_msgs_sent EXCEPT ![n] = active_msgs_sent[n] \cup {m}]
        /\ UNCHANGED <<config, state, send_active_msg, sw, up, events, todo, nested, budget>>
    BY <1>2, <1>m DEF Flush, Accepted, Goto, tag, links, procs
  <2>2. pc' \in [Node -> [Proc -> Labels]] /\ At2(pc, pc', Proc, n, p, "events")
    BY <2>1, <1>m DEF IInv, TypeOK, At2, Labels
  <2>3. peer' \in [Node -> [Proc -> Node]] /\ At2(peer, peer', Proc, n, p, n)
    BY <2>1, <1>m DEF IInv, TypeOK, At2
  <2>4. wire' \in [Node -> [Node -> Nat]] /\ At2(wire, wire', Node, n, m, wire[n][m] + 1)
    BY <2>1, <1>m DEF IInv, TypeOK, At2
  <2>5. active_msgs_sent' \in [Node -> SUBSET Node] /\ At1(active_msgs_sent, active_msgs_sent', n, active_msgs_sent[n] \cup {m})
    BY <2>1, <1>m DEF IInv, TypeOK, At1
  <2>6. \A k \in Node : k \notin active_msgs_sent'[k] \cup up'[k]
    BY <2>1, <2>5, <1>m DEF IInv, TypeOK, PeerOK, PeerAt, At1, Others
  <2>7. TypeOK'
    BY ZenonT(60), <2>1, <2>2, <2>3, <2>4, <2>5, <2>6 DEF IInv, TypeOK
  <2>8. LockOK'
    <3> SUFFICES ASSUME NEW k \in Node, NEW q \in Proc
                 PROVE  LockAt(k, q)'
      BY DEF LockOK
    <3> QED BY ZenonT(60), <1>0, <2>1, <2>2, <1>m, TagConstants DEF LockOK, LockAt, Locked, At1, At2
  <2>9. ActiveOK'
    <3> SUFFICES ASSUME NEW k \in Node
                 PROVE  ActiveAt(k)'
      BY DEF ActiveOK
    <3> QED BY ZenonT(60), <1>0, <2>1, <2>2, <2>5, <1>m DEF ActiveOK, ActiveAt, At1, At2, LockOK, LockAt,
               Locked
  <2>10. PeerOK'
    <3> SUFFICES ASSUME NEW k \in Node, NEW q \in Proc
                 PROVE  PeerAt(k, q)'
      BY DEF PeerOK
    <3>1. PeerAt(k, q) /\ peer[k][q] \in Node
      BY <1>0 DEF PeerOK
    <3>2. CASE k # n \/ q # p
      <4>1. /\ pc'[k][q] = pc[k][q] /\ peer'[k][q] = peer[k][q] /\ events' = events
        BY ZenonT(60), <2>1, <2>2, <2>3, <3>2 DEF At2
      <4> QED BY ZenonT(60), <3>1, <4>1 DEF PeerAt
    <3>3. CASE k = n /\ q = p
      <4>1. pc'[k][q] = "events" BY ZenonT(60), <2>2, <3>3 DEF At2
      <4> QED BY ONLY SMTT(10), ZenonT(30), SMTT(60), <4>1 DEF PeerAt
    <3> QED BY ZenonT(60), <3>2, <3>3
  <2>11. ASSUME NEW k \in Node \ {n} PROVE Same(k)
    <3>1. /\ send_active_msg' = send_active_msg /\ up' = up /\ events' = events
          /\ todo' = todo
      BY <2>1
    <3>2. /\ active_msgs_sent'[k] = active_msgs_sent[k]
          /\ \A e \in Node : wire'[k][e] = wire[k][e]
          /\ \A q \in Proc : pc'[k][q] = pc[k][q] /\ peer'[k][q] = peer[k][q]
      BY ZenonT(60), <2>2, <2>3, <2>4, <2>5 DEF At1, At2
    <3> QED BY ZenonT(60), <3>1, <3>2 DEF Same
  <2>12. ASSUME NEW b \in Node \ {n}, Owes(n, b) PROVE Owes(n, b)'
    <3>1. CASE b = m
      <4>1. wire'[n][b] = wire[n][b] + 1 /\ wire[n][b] \in Nat
        BY ZenonT(60), <1>0, <1>m, <2>4, <3>1 DEF At2
      <4>2. wire'[n][b] > 0 BY ONLY SMTT(10), ZenonT(30), SMTT(60), <4>1
      <4> QED BY ZenonT(60), <4>2 DEF Owes
    <3>2. CASE b # m /\ wire[n][b] > 0
      <4>1. wire'[n][b] = wire[n][b] BY ZenonT(60), <1>m, <2>4, <3>2 DEF At2
      <4> QED BY ZenonT(60), <3>2, <4>1 DEF Owes
    <3>3. CASE b # m /\ WillTell(n, b)
      <4>1. /\ \A q \in Proc : q # p => pc'[n][q] = pc[n][q] /\ peer'[n][q] = peer[n][q]
            /\ b \notin active_msgs_sent[n] => b \notin active_msgs_sent'[n]
        BY ZenonT(60), <2>2, <2>3, <2>5, <3>3 DEF At1, At2
      <4>2. WillTell(n, b)' BY ZenonT(60), <1>m, <2>1, <3>3, <4>1 DEF WillTell, Stuck
      <4> QED BY ZenonT(60), <4>2 DEF Owes
    <3> QED BY <2>12, <3>1, <3>2, <3>3 DEF Owes
  <2>13. SomeoneOwes'
    BY ZenonT(60), <1>0, <2>1, <2>11, <2>12, KeepOwes
  <2> QED BY <2>7, <2>8, <2>9, <2>10, <2>13 DEF IInv
<1>3. CASE Goto(n, p, "events") /\ Refused(n, m) /\ UNCHANGED <<active_msgs_sent, sw, nested>>
  <2>1. /\ pc[n][p] = "flush"
        /\ sw[n] = NoProc
        /\ m \notin up[n]
        /\ pc' = [pc EXCEPT ![n][p] = "events"]
        /\ peer' = [peer EXCEPT ![n][p] = n]
        /\ UNCHANGED <<config, state, send_active_msg, active_msgs_sent, sw, up, events, todo,
                       nested, wire, budget>>
    BY ZenonT(60), <1>3, <1>m DEF Flush, Refused, Goto, tag, links, procs
  <2>2. pc' \in [Node -> [Proc -> Labels]] /\ At2(pc, pc', Proc, n, p, "events")
    BY <2>1, <1>m DEF IInv, TypeOK, At2, Labels
  <2>3. peer' \in [Node -> [Proc -> Node]] /\ At2(peer, peer', Proc, n, p, n)
    BY <2>1, <1>m DEF IInv, TypeOK, At2
  <2>4. TypeOK'
    BY ZenonT(60), <2>1, <2>2, <2>3 DEF IInv, TypeOK
  <2>5. LockOK'
    <3> SUFFICES ASSUME NEW k \in Node, NEW q \in Proc
                 PROVE  LockAt(k, q)'
      BY DEF LockOK
    <3> QED BY ZenonT(60), <1>0, <2>1, <2>2, <1>m, TagConstants DEF LockOK, LockAt, Locked, At1, At2
  <2>6. ActiveOK'
    <3> SUFFICES ASSUME NEW k \in Node
                 PROVE  ActiveAt(k)'
      BY DEF ActiveOK
    <3> QED BY ZenonT(60), <1>0, <2>1, <2>2, <1>m DEF ActiveOK, ActiveAt, At1, At2, LockOK, LockAt, Locked
  <2>7. PeerOK'
    <3> SUFFICES ASSUME NEW k \in Node, NEW q \in Proc
                 PROVE  PeerAt(k, q)'
      BY DEF PeerOK
    <3>1. PeerAt(k, q) /\ peer[k][q] \in Node
      BY <1>0 DEF PeerOK
    <3> QED BY ZenonT(60), <3>1, <2>1, <2>2, <2>3, <1>m DEF PeerAt, At1, At2, Others
  <2>8. \A k \in Node \ {n} : Same(k)
    BY ZenonT(60), <2>1, <2>2, <2>3 DEF Same, At1, At2
  <2>9. ASSUME NEW b \in Node \ {n}, Owes(n, b) PROVE Owes(n, b)'
    <3>1. CASE wire[n][b] > 0 BY ZenonT(60), <2>1, <3>1 DEF Owes
    <3>2. CASE WillTell(n, b)
      <4>1. \A q \in Proc : q # p => pc'[n][q] = pc[n][q] /\ peer'[n][q] = peer[n][q]
        BY ZenonT(60), <2>2, <2>3 DEF At2
      <4>2. WillTell(n, b)' BY ZenonT(60), <1>m, <2>1, <3>2, <4>1 DEF WillTell, Stuck
      <4> QED BY ZenonT(60), <4>2 DEF Owes
    <3> QED BY <2>9, <3>1, <3>2 DEF Owes
  <2>10. SomeoneOwes'
    BY ZenonT(60), <1>0, <2>1, <2>8, <2>9, KeepOwes
  <2> QED BY <2>4, <2>5, <2>6, <2>7, <2>10 DEF IInv
<1>4. CASE Goto(n, p, "flush_events") /\ Broken(n, m) /\ sw' = [sw EXCEPT ![n] = p] /\ nested' = [nested EXCEPT ![n][p] = Others(n)] /\ UNCHANGED active_msgs_sent
  <2>1. /\ pc[n][p] = "flush"
        /\ sw[n] = NoProc
        /\ pc' = [pc EXCEPT ![n][p] = "flush_events"]
        /\ peer' = [peer EXCEPT ![n][p] = n]
        /\ up' = [up EXCEPT ![n] = up[n] \ {m}]
        /\ events' = [events EXCEPT ![n][m] = events[n][m] \cup {"down"}]
        /\ budget.faults > 0 /\ budget' = [budget EXCEPT !.faults = @ - 1]
        /\ sw' = [sw EXCEPT ![n] = p]
        /\ nested' = [nested EXCEPT ![n][p] = Others(n)]
        /\ UNCHANGED <<config, state, send_active_msg, active_msgs_sent, todo, wire>>
    BY <1>4, <1>m DEF Flush, Broken, SetLinkDown, Goto, tag, links, procs
  <2>2. pc' \in [Node -> [Proc -> Labels]] /\ At2(pc, pc', Proc, n, p, "flush_events")
    BY <2>1, <1>m DEF IInv, TypeOK, At2, Labels
  <2>3. peer' \in [Node -> [Proc -> Node]] /\ At2(peer, peer', Proc, n, p, n)
    BY <2>1, <1>m DEF IInv, TypeOK, At2
  <2>4. up' \in [Node -> SUBSET Node] /\ At1(up, up', n, up[n] \ {m})
    BY <2>1, <1>m DEF IInv, TypeOK, At1
  <2>5. events' \in [Node -> [Node -> SUBSET {"up", "down"}]] /\ At2(events, events', Node, n, m, events[n][m] \cup {"down"})
    BY <2>1, <1>m DEF IInv, TypeOK, At2
  <2>6. budget' \in [activations : Nat, faults : Nat, restarts : Nat]
    BY <1>0, <2>1, Spend
  <2>7. sw' \in [Node -> Proc \cup {NoProc}] /\ At1(sw, sw', n, p)
    BY <2>1, <1>m DEF IInv, TypeOK, At1
  <2>8. nested' \in [Node -> [Proc -> SUBSET Node]] /\ At2(nested, nested', Proc, n, p, Others(n))
    BY <2>1, <1>m DEF IInv, TypeOK, At2, Others
  <2>9. \A k \in Node : k \notin active_msgs_sent'[k] \cup up'[k]
    BY <2>1, <2>4, <1>m DEF IInv, TypeOK, PeerOK, PeerAt, At1, Others
  <2>10. TypeOK'
    BY ZenonT(60), <2>1, <2>2, <2>3, <2>4, <2>5, <2>6, <2>7, <2>8, <2>9 DEF IInv, TypeOK
  <2>11. LockOK'
    <3> SUFFICES ASSUME NEW k \in Node, NEW q \in Proc
                 PROVE  LockAt(k, q)'
      BY DEF LockOK
    <3> QED BY <1>0, <2>1, <2>2, <2>7, <1>m, TagConstants DEF LockOK, LockAt, Locked, At1, At2
  <2>12. ActiveOK'
    <3> SUFFICES ASSUME NEW k \in Node
                 PROVE  ActiveAt(k)'
      BY DEF ActiveOK
    <3> QED BY <1>0, <2>1, <2>2, <1>m DEF ActiveOK, ActiveAt, At1, At2, LockOK, LockAt, Locked
  <2>13. PeerOK'
    <3> SUFFICES ASSUME NEW k \in Node, NEW q \in Proc
                 PROVE  PeerAt(k, q)'
      BY DEF PeerOK
    <3>1. PeerAt(k, q) /\ peer[k][q] \in Node
      BY <1>0 DEF PeerOK
    <3> QED BY <3>1, <2>1, <2>2, <2>3, <2>5, <1>m DEF PeerAt, At1, At2, Others
  <2>14. \A k \in Node \ {n} : Same(k)
    BY <2>1, <2>2, <2>3, <2>4, <2>5 DEF Same, At1, At2
  <2>15. ASSUME NEW b \in Node \ {n}, Owes(n, b) PROVE Owes(n, b)'
    <3>1. CASE wire[n][b] > 0 BY ZenonT(60), <2>1, <3>1 DEF Owes
    <3>2. CASE WillTell(n, b)
      <4>1. \A q \in Proc : pc[n][q] \notin Locked
        BY ZenonT(60), <1>0, <2>1, TagConstants DEF LockOK, LockAt
      <4>2. /\ b \notin active_msgs_sent[n] /\ send_active_msg[n]
            /\ \/ b \notin up[n]
               \/ "up" \in events[n][b]
               \/ \E q \in Proc : pc[n][q] = "flush" /\ peer[n][q] = b
        BY ZenonT(60), <3>2, <4>1 DEF WillTell, Stuck, Locked
      <4>3. b \notin active_msgs_sent'[n] /\ send_active_msg'[n] BY ZenonT(60), <2>1, <4>2
      <4>4. \/ b \notin up'[n]
            \/ "up" \in events'[n][b]
            \/ \E q \in Proc : pc'[n][q] = "flush" /\ peer'[n][q] = b
        <5>1. CASE b = m BY ZenonT(60), <2>4, <5>1 DEF At1
        <5>2. CASE b # m
          <6>1. b \notin up[n] => b \notin up'[n] BY ZenonT(60), <2>4 DEF At1
          <6>2. events'[n][b] = events[n][b] BY ZenonT(60), <2>5, <5>2 DEF At2
          <6>3. \A q \in Proc : q # p => pc'[n][q] = pc[n][q] /\ peer'[n][q] = peer[n][q]
            BY ZenonT(60), <2>2, <2>3 DEF At2
          <6> QED BY ZenonT(60), <1>m, <4>2, <5>2, <6>1, <6>2, <6>3
        <5> QED BY ZenonT(60), <5>1, <5>2
      <4> QED BY ZenonT(60), <4>3, <4>4 DEF Owes, WillTell
    <3> QED BY ZenonT(60), <2>15, <3>1, <3>2 DEF Owes
  <2>16. SomeoneOwes'
    BY ZenonT(60), <1>0, <2>1, <2>14, <2>15, KeepOwes
  <2> QED BY <2>10, <2>11, <2>12, <2>13, <2>16 DEF IInv
<1> QED BY <1>1, <1>2, <1>3, <1>4 DEF Flush

\* do_actions_node_ev inside a failed send: an up event blocks the process.
LEMMA NestedEventInv ==
    ASSUME NEW n \in Node, NEW p \in Proc, NEW m \in Others(n), IInv,
           NestedEvent(n, p, m), ~Windows, ~InWindow(n, p)
    PROVE  IInv'
<1>0. /\ LockOK /\ ActiveOK /\ PeerOK /\ SomeoneOwes
      /\ wire \in [Node -> [Node -> Nat]] /\ peer \in [Node -> [Proc -> Node]]
      /\ budget \in [activations : Nat, faults : Nat, restarts : Nat]
  BY DEF IInv, TypeOK
<1>1. CASE NoEvent(n, m) /\ UNCHANGED pc
  <2>1. /\ pc[n][p] \in {"activate_events", "flush_events"}
        /\ nested' = [nested EXCEPT ![n][p] = nested[n][p] \ {m}]
        /\ UNCHANGED <<config, state, send_active_msg, active_msgs_sent, sw, up, events, pc,
                       todo, peer, wire, budget>>
    BY <1>1 DEF NestedEvent, NoEvent, Goto, tag, links, procs
  <2>2. nested' \in [Node -> [Proc -> SUBSET Node]] /\ At2(nested, nested', Proc, n, p, nested[n][p] \ {m})
    BY <2>1 DEF IInv, TypeOK, At2, Others
  <2>3. TypeOK'
    BY <2>1, <2>2 DEF IInv, TypeOK
  <2>4. LockOK'
    BY <1>0, <2>1 DEF LockOK, Locked, LockAt
  <2>5. ActiveOK'
    BY <1>0, <2>1 DEF ActiveOK, ActiveAt
  <2>6. PeerOK'
    BY <1>0, <2>1 DEF PeerOK, PeerAt
  <2>7. \A k \in Node \ {n} : Same(k)
    BY <2>1 DEF Same, At1, At2
  <2>8. ASSUME NEW b \in Node \ {n}, Owes(n, b) PROVE Owes(n, b)'
    BY <1>0, <2>1, <2>8, TagConstants DEF LockOK, LockAt, PeerOK, PeerAt, Locked, Owes,
       WillTell, Stuck, AlreadySent, Others, At1, At2
  <2>9. SomeoneOwes'
    BY ZenonT(60), <1>0, <2>1, <2>7, <2>8, KeepOwes
  <2> QED BY <2>3, <2>4, <2>5, <2>6, <2>9 DEF IInv
<1>2. CASE DownEvent(n, m) /\ UNCHANGED pc
  <2>1. /\ pc[n][p] \in {"activate_events", "flush_events"}
        /\ nested' = [nested EXCEPT ![n][p] = nested[n][p] \ {m}]
        /\ events' = [events EXCEPT ![n][m] = events[n][m] \ {"down"}]
        /\ UNCHANGED <<config, state, send_active_msg, active_msgs_sent, sw, up, pc, todo, peer,
                       wire, budget>>
    BY <1>2 DEF NestedEvent, DownEvent, Goto, tag, links, procs
  <2>2. nested' \in [Node -> [Proc -> SUBSET Node]] /\ At2(nested, nested', Proc, n, p, nested[n][p] \ {m})
    BY <2>1 DEF IInv, TypeOK, At2, Others
  <2>3. events' \in [Node -> [Node -> SUBSET {"up", "down"}]] /\ At2(events, events', Node, n, m, events[n][m] \ {"down"})
    BY <2>1 DEF IInv, TypeOK, At2, Others
  <2>4. TypeOK'
    BY <2>1, <2>2, <2>3 DEF IInv, TypeOK
  <2>5. LockOK'
    BY <1>0, <2>1 DEF LockOK, Locked, LockAt
  <2>6. ActiveOK'
    BY <1>0, <2>1 DEF ActiveOK, ActiveAt
  <2>7. PeerOK'
    <3> SUFFICES ASSUME NEW k \in Node, NEW q \in Proc
                 PROVE  PeerAt(k, q)'
      BY DEF PeerOK
    <3>1. PeerAt(k, q) /\ peer[k][q] \in Node
      BY <1>0 DEF PeerOK
    <3> QED BY <3>1, <2>1, <2>3 DEF PeerAt, At1, At2, Others, InWindow
  <2>8. \A k \in Node \ {n} : Same(k)
    BY <2>1, <2>3 DEF Same, At1, At2
  <2>9. ASSUME NEW b \in Node \ {n}, Owes(n, b) PROVE Owes(n, b)'
    BY <1>0, <2>1, <2>3, <2>9, TagConstants DEF LockOK, LockAt, PeerOK, PeerAt, Locked, Owes,
       WillTell, Stuck, AlreadySent, Others, At1, At2
  <2>10. SomeoneOwes'
    BY ZenonT(60), <1>0, <2>1, <2>8, <2>9, KeepOwes
  <2> QED BY <2>4, <2>5, <2>6, <2>7, <2>10 DEF IInv
<1>3. CASE UpEvent(n, m) /\ Goto(n, p, "stuck")
  <2>1. /\ pc[n][p] \in {"activate_events", "flush_events"}
        /\ nested' = [nested EXCEPT ![n][p] = nested[n][p] \ {m}]
        /\ events' = [events EXCEPT ![n][m] = {}]
        /\ pc' = [pc EXCEPT ![n][p] = "stuck"]
        /\ UNCHANGED <<config, state, send_active_msg, active_msgs_sent, sw, up, todo, peer,
                       wire, budget>>
    BY <1>3 DEF NestedEvent, UpEvent, Goto, tag, links, procs
  <2>2. nested' \in [Node -> [Proc -> SUBSET Node]] /\ At2(nested, nested', Proc, n, p, nested[n][p] \ {m})
    BY <2>1 DEF IInv, TypeOK, At2, Others
  <2>3. events' \in [Node -> [Node -> SUBSET {"up", "down"}]] /\ At2(events, events', Node, n, m, {})
    BY <2>1 DEF IInv, TypeOK, At2, Others
  <2>4. pc' \in [Node -> [Proc -> Labels]] /\ At2(pc, pc', Proc, n, p, "stuck")
    BY <2>1 DEF IInv, TypeOK, At2, Labels, Others
  <2>5. TypeOK'
    BY ZenonT(60), <2>1, <2>2, <2>3, <2>4 DEF IInv, TypeOK
  <2>6. LockOK'
    <3> SUFFICES ASSUME NEW k \in Node, NEW q \in Proc
                 PROVE  LockAt(k, q)'
      BY DEF LockOK
    <3> QED BY <1>0, <2>1, <2>4, TagConstants DEF LockOK, LockAt, Locked, At1, At2
  <2>7. ActiveOK'
    <3> SUFFICES ASSUME NEW k \in Node
                 PROVE  ActiveAt(k)'
      BY DEF ActiveOK
    <3> QED BY <1>0, <2>1, <2>4 DEF ActiveOK, ActiveAt, At1, At2, LockOK, LockAt, Locked
  <2>8. PeerOK'
    <3> SUFFICES ASSUME NEW k \in Node, NEW q \in Proc
                 PROVE  PeerAt(k, q)'
      BY DEF PeerOK
    <3>1. PeerAt(k, q) /\ peer[k][q] \in Node
      BY <1>0 DEF PeerOK
    <3> QED BY <3>1, <2>1, <2>3, <2>4 DEF PeerAt, At1, At2, Others, InWindow
  <2>9. \A k \in Node \ {n} : Same(k)
    BY <2>1, <2>3, <2>4 DEF Same, At1, At2
  <2>10. ASSUME NEW b \in Node \ {n}, Owes(n, b) PROVE Owes(n, b)'
    BY ZenonT(60), <1>0, <2>1, <2>3, <2>4, <2>10, TagConstants DEF LockOK, LockAt, PeerOK, PeerAt, Locked,
       Owes, WillTell, Stuck, AlreadySent, Others, At1, At2
  <2>11. SomeoneOwes'
    BY ZenonT(60), <1>0, <2>1, <2>9, <2>10, KeepOwes
  <2> QED BY <2>5, <2>6, <2>7, <2>8, <2>11 DEF IInv
<1> QED BY <1>1, <1>2, <1>3 DEF NestedEvent

\* shtag_activate marks the tag after a send that failed.
LEMMA ActivateFailedInv ==
    ASSUME NEW n \in Node, NEW p \in Proc, IInv,
           ActivateFailed(n, p)
    PROVE  IInv'
<1>0. /\ LockOK /\ ActiveOK /\ PeerOK /\ SomeoneOwes
      /\ wire \in [Node -> [Node -> Nat]] /\ peer \in [Node -> [Proc -> Node]]
      /\ budget \in [activations : Nat, faults : Nat, restarts : Nat]
  BY DEF IInv, TypeOK
<1>1. /\ pc[n][p] = "activate_events"
      /\ send_active_msg' = [send_active_msg EXCEPT ![n] = TRUE]
      /\ pc' = [pc EXCEPT ![n][p] = "activate"]
      /\ UNCHANGED <<config, state, active_msgs_sent, sw, up, events, todo, nested, peer, wire,
                     budget>>
  BY DEF ActivateFailed, Goto, tag, links, procs
<1>2. send_active_msg' \in [Node -> BOOLEAN] /\ At1(send_active_msg, send_active_msg', n, TRUE)
  BY <1>1 DEF IInv, TypeOK, At1
<1>3. pc' \in [Node -> [Proc -> Labels]] /\ At2(pc, pc', Proc, n, p, "activate")
  BY <1>1 DEF IInv, TypeOK, At2, Labels
<1>4. TypeOK'
  BY ZenonT(60), <1>1, <1>2, <1>3 DEF IInv, TypeOK
<1>5. LockOK'
  <2> SUFFICES ASSUME NEW k \in Node, NEW q \in Proc
               PROVE  LockAt(k, q)'
    BY DEF LockOK
  <2> QED BY <1>0, <1>1, <1>3, TagConstants DEF LockOK, LockAt, Locked, At1, At2
<1>6. ActiveOK'
  <2> SUFFICES ASSUME NEW k \in Node
               PROVE  ActiveAt(k)'
    BY DEF ActiveOK
  <2>1. send_active_msg'[k] => state'[k] = "active"
    BY <1>0, <1>1, <1>2 DEF ActiveOK, ActiveAt, At1
  <2>2. ASSUME NEW q \in Proc, pc'[k][q] \in {"activate", "activate_events"}
        PROVE  state'[k] = "active"
    BY <1>0, <1>1, <1>3, <2>2 DEF ActiveOK, ActiveAt, At2
  <2>3. state'[k] = "backup" => active_msgs_sent'[k] = {}
    BY <1>0, <1>1 DEF ActiveOK, ActiveAt
  <2> QED BY <2>1, <2>2, <2>3 DEF ActiveAt
<1>7. PeerOK'
  <2> SUFFICES ASSUME NEW k \in Node, NEW q \in Proc
               PROVE  PeerAt(k, q)'
    BY DEF PeerOK
  <2>1. PeerAt(k, q) /\ peer[k][q] \in Node
    BY <1>0 DEF PeerOK
  <2> QED BY <2>1, <1>1, <1>3 DEF PeerAt, At1, At2, Others
<1>8. \A k \in Node \ {n} : Same(k)
  BY <1>1, <1>2, <1>3 DEF Same, At1, At2
<1>9. ASSUME NEW b \in Node \ {n}, Owes(n, b) PROVE Owes(n, b)'
  <2>1. CASE wire[n][b] > 0 BY ZenonT(60), <1>1, <2>1 DEF Owes
  <2>2. CASE WillTell(n, b)
    <3>1. /\ \A q \in Proc : q # p => pc'[n][q] = pc[n][q]
          /\ pc'[n][p] = "activate" /\ send_active_msg'[n]
      BY ZenonT(60), <1>2, <1>3 DEF At1, At2
    <3>2. WillTell(n, b)' BY ZenonT(60), <1>1, <2>2, <3>1 DEF WillTell, Stuck
    <3> QED BY ZenonT(60), <3>2 DEF Owes
  <2> QED BY <1>9, <2>1, <2>2 DEF Owes
<1>10. SomeoneOwes'
  BY ZenonT(60), <1>0, <1>1, <1>8, <1>9, KeepOwes
<1> QED BY <1>4, <1>5, <1>6, <1>7, <1>10 DEF IInv

\* shtag_flush_state leaves a tag marked after a send that failed.
LEMMA FlushFailedInv ==
    ASSUME NEW n \in Node, NEW p \in Proc, IInv,
           FlushFailed(n, p)
    PROVE  IInv'
<1>0. /\ LockOK /\ ActiveOK /\ PeerOK /\ SomeoneOwes
      /\ wire \in [Node -> [Node -> Nat]] /\ peer \in [Node -> [Proc -> Node]]
      /\ budget \in [activations : Nat, faults : Nat, restarts : Nat]
  BY DEF IInv, TypeOK
<1>1. /\ pc[n][p] = "flush_events"
      /\ sw' = [sw EXCEPT ![n] = NoProc]
      /\ pc' = [pc EXCEPT ![n][p] = "events"]
      /\ UNCHANGED <<config, state, send_active_msg, active_msgs_sent, up, events, todo, nested,
                     peer, wire, budget>>
  BY DEF FlushFailed, Goto, tag, links, procs
<1>2. sw' \in [Node -> Proc \cup {NoProc}] /\ At1(sw, sw', n, NoProc)
  BY <1>1 DEF IInv, TypeOK, At1
<1>3. pc' \in [Node -> [Proc -> Labels]] /\ At2(pc, pc', Proc, n, p, "events")
  BY <1>1 DEF IInv, TypeOK, At2, Labels
<1>4. TypeOK'
  BY ZenonT(60), <1>1, <1>2, <1>3 DEF IInv, TypeOK
<1>5. LockOK'
  <2> SUFFICES ASSUME NEW k \in Node, NEW q \in Proc
               PROVE  LockAt(k, q)'
    BY DEF LockOK
  <2> QED BY <1>0, <1>1, <1>2, <1>3, TagConstants DEF LockOK, LockAt, Locked, At1, At2
<1>6. ActiveOK'
  <2> SUFFICES ASSUME NEW k \in Node
               PROVE  ActiveAt(k)'
    BY DEF ActiveOK
  <2>1. send_active_msg'[k] => state'[k] = "active"
    BY <1>0, <1>1 DEF ActiveOK, ActiveAt, At1
  <2>2. ASSUME NEW q \in Proc, pc'[k][q] \in {"activate", "activate_events"}
        PROVE  state'[k] = "active"
    BY ZenonT(60), <1>0, <1>1, <1>3, <2>2 DEF ActiveOK, ActiveAt, At2
  <2>3. state'[k] = "backup" => active_msgs_sent'[k] = {}
    BY <1>0, <1>1 DEF ActiveOK, ActiveAt
  <2> QED BY <2>1, <2>2, <2>3 DEF ActiveAt
<1>7. PeerOK'
  <2> SUFFICES ASSUME NEW k \in Node, NEW q \in Proc
               PROVE  PeerAt(k, q)'
    BY DEF PeerOK
  <2>1. PeerAt(k, q) /\ peer[k][q] \in Node
    BY <1>0 DEF PeerOK
  <2> QED BY <2>1, <1>1, <1>3 DEF PeerAt, At1, At2, Others
<1>8. \A k \in Node \ {n} : Same(k)
  BY <1>1, <1>3 DEF Same, At1, At2
<1>9. ASSUME NEW b \in Node \ {n}, Owes(n, b) PROVE Owes(n, b)'
  <2>1. CASE wire[n][b] > 0 BY ZenonT(60), <1>1, <2>1 DEF Owes
  <2>2. CASE WillTell(n, b)
    <3>1. \A q \in Proc : q # p => pc'[n][q] = pc[n][q] BY ZenonT(60), <1>3 DEF At2
    <3>2. WillTell(n, b)' BY ZenonT(60), <1>1, <2>2, <3>1 DEF WillTell, Stuck
    <3> QED BY ZenonT(60), <3>2 DEF Owes
  <2> QED BY <1>9, <2>1, <2>2 DEF Owes
<1>10. SomeoneOwes'
  BY ZenonT(60), <1>0, <1>1, <1>8, <1>9, KeepOwes
<1> QED BY <1>4, <1>5, <1>6, <1>7, <1>10 DEF IInv

\* shtag_activate makes the node active, with all other nodes to visit.
LEMMA ActivateInv ==
    ASSUME NEW n \in Node, NEW p \in Proc, IInv, Activate(n, p)
    PROVE  IInv'
<1>0. /\ LockOK /\ ActiveOK /\ PeerOK /\ SomeoneOwes
      /\ budget \in [activations : Nat, faults : Nat, restarts : Nat]
  BY DEF IInv, TypeOK
<1>1. /\ pc[n][p] = "idle" /\ sw[n] = NoProc
      /\ budget.activations > 0 /\ budget' = [budget EXCEPT !.activations = @ - 1]
      /\ sw' = [sw EXCEPT ![n] = p]
      /\ state' = [state EXCEPT ![n] = "active"]
      /\ pc' = [pc EXCEPT ![n][p] = "activate"]
      /\ todo' = [todo EXCEPT ![n][p] = Others(n)]
      /\ UNCHANGED <<config, send_active_msg, active_msgs_sent, up, events, nested, peer, wire>>
  BY DEF Activate, Goto, links
<1>2. sw' \in [Node -> Proc \cup {NoProc}] /\ At1(sw, sw', n, p)
  BY <1>1 DEF IInv, TypeOK, At1
<1>3. state' \in [Node -> State] /\ At1(state, state', n, "active")
  BY <1>1 DEF IInv, TypeOK, At1, State
<1>4. pc' \in [Node -> [Proc -> Labels]] /\ At2(pc, pc', Proc, n, p, "activate")
  BY <1>1 DEF IInv, TypeOK, At2, Labels
<1>5. todo' \in [Node -> [Proc -> SUBSET Node]] /\ At2(todo, todo', Proc, n, p, Others(n))
  BY <1>1 DEF IInv, TypeOK, At2, Others
<1>6. budget' \in [activations : Nat, faults : Nat, restarts : Nat]
  BY <1>0, <1>1
<1>7. TypeOK'
  BY <1>1, <1>2, <1>3, <1>4, <1>5, <1>6 DEF IInv, TypeOK
<1>8. LockOK'
  <2> SUFFICES ASSUME NEW k \in Node, NEW q \in Proc PROVE LockAt(k, q)'
    BY DEF LockOK
  <2> QED BY <1>0, <1>1, <1>2, <1>4, TagConstants DEF LockOK, LockAt, Locked, At1, At2
<1>9. ActiveOK'
  <2> SUFFICES ASSUME NEW k \in Node PROVE ActiveAt(k)'
    BY DEF ActiveOK
  <2> QED BY <1>0, <1>1, <1>3, <1>4 DEF ActiveOK, ActiveAt, At1, At2
<1>10. PeerOK'
  <2> SUFFICES ASSUME NEW k \in Node, NEW q \in Proc PROVE PeerAt(k, q)'
    BY DEF PeerOK
  <2> QED BY <1>0, <1>1, <1>4 DEF PeerOK, PeerAt, At2
<1>11. SomeoneOwes'
  <2> SUFFICES ASSUME NEW a \in Actives', NEW b \in Actives', a # b
               PROVE  Owes(a, b)' \/ Owes(b, a)'
    BY DEF SomeoneOwes
  <2>1. a \in Node /\ b \in Node
    BY DEF Actives
  <2>2. \A k \in Node \ {n} : Same(k)
    BY <1>1, <1>4, <1>5 DEF Same, At2
  <2>3. ASSUME NEW k \in Node, NEW l \in Node, k # l, Owes(k, l) PROVE Owes(k, l)'
    <3>1. CASE k # n
      BY <2>2, <2>3, <3>1, SameOwes
    <3>2. CASE k = n
      BY <1>0, <1>1, <1>4, <1>5, <2>3, <3>2, TagConstants
         DEF LockOK, LockAt, Locked, Owes, WillTell, Stuck, At2, Others
    <3> QED BY <3>1, <3>2
  <2>4. CASE a # n /\ b # n
    BY <1>0, <1>3, <2>1, <2>3, <2>4 DEF SomeoneOwes, Actives, At1
  <2>5. ASSUME NEW b2 \in Node, b2 # n, b2 \in Actives' PROVE Owes(n, b2)' \/ Owes(b2, n)'
    <3>1. CASE b2 \notin active_msgs_sent[n]
      BY <1>1, <1>4, <1>5, <2>5, <3>1 DEF Owes, WillTell, At2, Others
    <3>2. CASE b2 \in active_msgs_sent[n]
      <4>1. state[n] = "active" /\ state[b2] = "active"
        BY <1>0, <1>3, <2>5, <3>2 DEF ActiveOK, ActiveAt, Actives, At1, IInv, TypeOK, State
      <4> QED BY <1>0, <2>3, <2>5, <4>1 DEF SomeoneOwes, Actives
    <3> QED BY <3>1, <3>2
  <2> QED BY <2>1, <2>4, <2>5
<1> QED BY <1>7, <1>8, <1>9, <1>10, <1>11 DEF IInv

\* handle_shtag_active makes the node a backup, which owes nothing.
LEMMA HandleActiveInv ==
    ASSUME NEW n \in Node, NEW p \in Proc, NEW m \in Others(n), IInv, HandleActive(n, p, m)
    PROVE  IInv'
<1>0. /\ LockOK /\ ActiveOK /\ PeerOK /\ SomeoneOwes
      /\ m \in Node /\ m # n /\ wire[m][n] \in Nat
  BY DEF IInv, TypeOK, Others
<1>1. /\ sw[n] = NoProc /\ wire[m][n] > 0
      /\ wire' = [wire EXCEPT ![m][n] = wire[m][n] - 1]
      /\ state' = [state EXCEPT ![n] = "backup"]
      /\ send_active_msg' = [send_active_msg EXCEPT ![n] = FALSE]
      /\ active_msgs_sent' = [active_msgs_sent EXCEPT ![n] = {}]
      /\ UNCHANGED <<config, sw, up, events, pc, todo, nested, peer, budget>>
  BY DEF HandleActive, links, procs
<1>2. wire' \in [Node -> [Node -> Nat]] /\ At2(wire, wire', Node, m, n, wire[m][n] - 1)
  BY <1>0, <1>1 DEF IInv, TypeOK, At2
<1>3. state' \in [Node -> State] /\ At1(state, state', n, "backup")
  BY <1>1 DEF IInv, TypeOK, At1, State
<1>4. send_active_msg' \in [Node -> BOOLEAN] /\ At1(send_active_msg, send_active_msg', n, FALSE)
  BY <1>1 DEF IInv, TypeOK, At1
<1>5. active_msgs_sent' \in [Node -> SUBSET Node] /\ At1(active_msgs_sent, active_msgs_sent', n, {})
  BY <1>1 DEF IInv, TypeOK, At1
<1>6. \A k \in Node : k \notin active_msgs_sent'[k] \cup up'[k]
  BY <1>1, <1>5 DEF IInv, TypeOK, At1
<1>7. TypeOK'
  BY ZenonT(60), <1>1, <1>2, <1>3, <1>4, <1>5, <1>6 DEF IInv, TypeOK
<1>8. LockOK' /\ PeerOK'
  BY <1>0, <1>1 DEF LockOK, LockAt, Locked, PeerOK, PeerAt
<1>9. ActiveOK'
  <2> SUFFICES ASSUME NEW k \in Node PROVE ActiveAt(k)'
    BY DEF ActiveOK
  <2>1. CASE k = n
    <3>1. /\ state'[k] = "backup" /\ send_active_msg'[k] = FALSE
          /\ active_msgs_sent'[k] = {}
      BY ZenonT(60), <1>3, <1>4, <1>5, <2>1 DEF At1
    <3>2. ASSUME NEW q \in Proc PROVE pc'[k][q] \notin {"activate", "activate_events"}
      <4>1. pc[n][q] \notin Locked
        BY ZenonT(60), <1>0, <1>1, TagConstants DEF LockOK, LockAt
      <4>2. pc' = pc BY <1>1
      <4> QED BY ZenonT(60), <2>1, <4>1, <4>2 DEF Locked
    <3> QED BY ZenonT(60), <3>1, <3>2 DEF ActiveAt
  <2>2. CASE k # n
    <3>1. /\ state'[k] = state[k] /\ send_active_msg'[k] = send_active_msg[k]
          /\ active_msgs_sent'[k] = active_msgs_sent[k]
      BY ZenonT(60), <1>3, <1>4, <1>5, <2>2 DEF At1
    <3>2. pc' = pc BY <1>1
    <3>3. ActiveAt(k) BY ZenonT(60), <1>0 DEF ActiveOK
    <3> QED BY ZenonT(60), <3>1, <3>2, <3>3 DEF ActiveAt
  <2> QED BY ZenonT(60), <2>1, <2>2
<1>10. SomeoneOwes'
  <2> SUFFICES ASSUME NEW a \in Actives', NEW b \in Actives', a # b
               PROVE  Owes(a, b)' \/ Owes(b, a)'
    BY DEF SomeoneOwes
  <2>1. a \in Node /\ b \in Node /\ a # n /\ b # n /\ a \in Actives /\ b \in Actives
    BY <1>3 DEF Actives, At1
  <2>2. ASSUME NEW k \in Node \ {n}, NEW l \in Node \ {n}, Owes(k, l) PROVE Owes(k, l)'
    <3>1. /\ active_msgs_sent'[k] = active_msgs_sent[k] /\ send_active_msg'[k] = send_active_msg[k]
          /\ wire'[k][l] = wire[k][l]
          /\ up' = up /\ events' = events /\ pc' = pc /\ todo' = todo /\ peer' = peer
      BY ZenonT(60), <1>0, <1>1, <1>2, <1>4, <1>5 DEF At1, At2
    <3> QED BY ZenonT(60), <2>2, <3>1 DEF Owes, WillTell, Stuck
  <2> QED BY <1>0, <2>1, <2>2 DEF SomeoneOwes
<1> QED BY <1>7, <1>8, <1>9, <1>10 DEF IInv

\* A node that restarts as active has every other node still to inform.
LEMMA RestartInv ==
    ASSUME NEW n \in Node, IInv, Restart(n)
    PROVE  IInv'
<1>0. /\ LockOK /\ ActiveOK /\ PeerOK /\ SomeoneOwes
      /\ config \in [Node -> State]
      /\ budget \in [activations : Nat, faults : Nat, restarts : Nat]
  BY DEF IInv, TypeOK
<1>1. state' \in [Node -> State] /\ At1(state, state', n, config[n]) /\ config' = config
  BY DEF IInv, TypeOK, At1, Restart
<1>2. /\ send_active_msg' \in [Node -> BOOLEAN]
      /\ At1(send_active_msg, send_active_msg', n, Configured(config[n]))
  BY DEF IInv, TypeOK, At1, Restart, Configured
<1>3. active_msgs_sent' \in [Node -> SUBSET Node] /\ At1(active_msgs_sent, active_msgs_sent', n, {})
  BY DEF IInv, TypeOK, At1, Restart
<1>4. sw' \in [Node -> Proc \cup {NoProc}] /\ At1(sw, sw', n, NoProc)
  BY DEF IInv, TypeOK, At1, Restart
<1>5. up' \in [Node -> SUBSET Node] /\ At1(up, up', n, {})
  BY DEF IInv, TypeOK, At1, Restart
<1>6. /\ events' \in [Node -> [Node -> SUBSET {"up", "down"}]]
      /\ At1(events, events', n, [m \in Node |-> {}])
  BY DEF IInv, TypeOK, At1, Restart
<1>7. pc' \in [Node -> [Proc -> Labels]] /\ At1(pc, pc', n, [p \in Proc |-> "idle"])
  BY DEF IInv, TypeOK, At1, Restart, Labels
<1>8. todo' \in [Node -> [Proc -> SUBSET Node]] /\ At1(todo, todo', n, [p \in Proc |-> {}])
  BY DEF IInv, TypeOK, At1, Restart
<1>9. nested' \in [Node -> [Proc -> SUBSET Node]]
  BY DEF IInv, TypeOK, Restart
<1>10. peer' \in [Node -> [Proc -> Node]] /\ At1(peer, peer', n, [p \in Proc |-> n])
  BY DEF IInv, TypeOK, At1, Restart
<1>11. /\ wire' \in [Node -> [Node -> Nat]]
       /\ \A k \in Node, l \in Node \ {n} : wire'[k][l] = wire[k][l]
  BY DEF IInv, TypeOK, Restart
<1>12. budget' \in [activations : Nat, faults : Nat, restarts : Nat]
  <2>1. budget.restarts > 0 /\ budget' = [budget EXCEPT !.restarts = @ - 1]
    BY DEF Restart
  <2> QED BY <1>0, <2>1
<1>13. \A k \in Node : k \notin active_msgs_sent'[k] \cup up'[k]
  BY ZenonT(60), <1>3, <1>5 DEF IInv, TypeOK, At1
<1>14. TypeOK'
  BY ZenonT(60), <1>0, <1>1, <1>2, <1>3, <1>4, <1>5, <1>6, <1>7, <1>8, <1>9, <1>10, <1>11, <1>12, <1>13
     DEF TypeOK
<1>15. LockOK'
  <2> SUFFICES ASSUME NEW k \in Node, NEW q \in Proc PROVE LockAt(k, q)'
    BY DEF LockOK
  <2> QED BY <1>0, <1>4, <1>7 DEF LockOK, LockAt, Locked, At1
<1>16. ActiveOK'
  <2> SUFFICES ASSUME NEW k \in Node PROVE ActiveAt(k)'
    BY DEF ActiveOK
  <2> QED BY ZenonT(60), <1>0, <1>1, <1>2, <1>3, <1>7 DEF ActiveOK, ActiveAt, Configured, At1
<1>17. PeerOK'
  <2> SUFFICES ASSUME NEW k \in Node, NEW q \in Proc PROVE PeerAt(k, q)'
    BY DEF PeerOK
  <2> QED BY ZenonT(60), <1>0, <1>6, <1>7, <1>10 DEF PeerOK, PeerAt, At1
<1>18. SomeoneOwes'
  <2> SUFFICES ASSUME NEW a \in Actives', NEW b \in Actives', a # b
               PROVE  Owes(a, b)' \/ Owes(b, a)'
    BY DEF SomeoneOwes
  <2>1. a \in Node /\ b \in Node
    BY DEF Actives
  <2>2. ASSUME NEW k \in Node \ {n}, NEW l \in Node \ {n}, Owes(k, l) PROVE Owes(k, l)'
    <3>1. /\ active_msgs_sent'[k] = active_msgs_sent[k]
          /\ send_active_msg'[k] = send_active_msg[k] /\ up'[k] = up[k]
      BY ZenonT(60), <1>2, <1>3, <1>5 DEF At1
    <3>2. events'[k] = events[k] /\ pc'[k] = pc[k] /\ wire'[k][l] = wire[k][l]
      BY ZenonT(60), <1>6, <1>7, <1>11 DEF At1
    <3>3. todo'[k] = todo[k] /\ peer'[k] = peer[k]
      BY ZenonT(60), <1>8, <1>10 DEF At1
    <3> QED BY ZenonT(60), <2>2, <3>1, <3>2, <3>3 DEF Owes, WillTell, Stuck
  <2>3. CASE a # n /\ b # n
    BY <1>0, <1>1, <2>1, <2>2, <2>3 DEF SomeoneOwes, Actives, At1
  <2>4. ASSUME NEW l \in Node \ {n}, n \in Actives' PROVE Owes(n, l)'
    BY ZenonT(60), <1>1, <1>2, <1>3, <1>5, <2>4 DEF Owes, WillTell, Actives, Configured, At1
  <2> QED BY <2>1, <2>3, <2>4
<1> QED BY <1>14, <1>15, <1>16, <1>17, <1>18 DEF IInv

----------------------------------------------------------------------------
\* The configured states satisfy the invariant.
LEMMA InitInv == Init => IInv
<1> SUFFICES ASSUME Init PROVE IInv
  OBVIOUS
<1>1. config \in [Node -> State]
  BY TagConstants DEF Init
<1>2. TypeOK
  BY <1>1, TagConstants DEF Init, TypeOK, Labels, Configured
<1>3. LockOK /\ PeerOK
  BY DEF Init, LockOK, LockAt, Locked, PeerOK, PeerAt
<1>4. ActiveOK
  BY ZenonT(60) DEF Init, ActiveOK, ActiveAt, Configured
<1>5. SomeoneOwes
  BY ZenonT(60) DEF Init, SomeoneOwes, Actives, Owes, WillTell, Configured
<1> QED BY <1>2, <1>3, <1>4, <1>5 DEF IInv

\* A step that changes nothing keeps the invariant.
LEMMA StutterInv == ASSUME IInv, UNCHANGED vars PROVE IInv'
<1> USE DEF vars, tag, links, procs
<1>1. TypeOK'
  BY DEF IInv, TypeOK
<1>2. LockOK'
  BY DEF IInv, LockOK, LockAt
<1>3. ActiveOK'
  BY DEF IInv, ActiveOK, ActiveAt
<1>4. PeerOK'
  BY ZenonT(60) DEF IInv, PeerOK, PeerAt
<1>5. Actives' = Actives
  BY DEF Actives
<1>6. \A a, b : Owes(a, b) => Owes(a, b)'
  BY DEF Owes, WillTell, Stuck
<1>7. SomeoneOwes'
  BY <1>5, <1>6 DEF IInv, SomeoneOwes
<1> QED BY <1>1, <1>2, <1>3, <1>4, <1>7 DEF IInv

\* Every step keeps the invariant.
LEMMA NextInv ==
    ASSUME ~Windows, ~Loss, IInv, [Next]_vars
    PROVE  IInv'
<1>1. ASSUME NEW n \in Node, Restart(n) PROVE IInv'
  BY <1>1, RestartInv
<1>2. ASSUME NEW n \in Node, NEW p \in Proc, ~InWindow(n, p), Call(n, p) PROVE IInv'
  <2>1. CASE Activate(n, p)
    BY <2>1, ActivateInv
  <2>2. CASE RunEvents(n, p)
    BY <2>2, RunEventsInv
  <2>3. CASE Step(n, p)
    <3>1. ASSUME NEW m \in Others(n),
                 ActivateSend(n, p, m) \/ DoEvent(n, p, m) \/ NestedEvent(n, p, m)
          PROVE  IInv'
      BY <1>2, <3>1, ActivateSendInv, DoEventInv, NestedEventInv
    <3> QED BY <2>3, <3>1, ActivateDoneInv, LinkUpSetInv, DoneEventsInv, FlushInv,
               ActivateFailedInv, FlushFailedInv DEF Step
  <2>4. ASSUME NEW m \in Others(n),
               LinkUp(n, p, m) \/ LinkDown(n, p, m) \/ HandleActive(n, p, m)
        PROVE  IInv'
    BY <2>4, LinkUpInv, LinkDownInv, HandleActiveInv
  <2> QED BY <1>2, <2>1, <2>2, <2>3, <2>4 DEF Call
<1>3. ASSUME UNCHANGED vars PROVE IInv'
  BY <1>3, StutterInv
<1> QED BY <1>1, <1>2, <1>3 DEF Next, Rest

\* In a quiet cluster nobody owes anybody anything.
LEMMA QuietOne == ASSUME IInv PROVE AtMostOneActive
<1> SUFFICES ASSUME Quiet, NEW a \in Actives, NEW b \in Actives, a # b PROVE FALSE
  BY DEF AtMostOneActive
<1>1. a \in Node /\ b \in Node
  BY DEF Actives
<1>2. ASSUME NEW k \in Node, NEW l \in Node, k # l PROVE ~Owes(k, l)
  BY <1>2 DEF Quiet, Connected, Idle, Owes, WillTell, Stuck, Others, IInv, TypeOK
<1> QED BY <1>1, <1>2 DEF IInv, SomeoneOwes

\* While two nodes are active one of them still owes the other the news
\* (shtag_activate, shtag_flush_state and handle_shtag_active together never
\* lose it), whatever links fail and nodes restart, for any number of nodes,
\* processes, activations, faults and restarts.
THEOREM NewsIsNeverLost ==
    ASSUME ~Windows, ~Loss
    PROVE  Spec => []SomeoneOwes
<1>1. IInv /\ [Next]_vars => IInv'
  BY NextInv
<1>2. IInv => SomeoneOwes
  BY DEF IInv
<1> QED BY InitInv, <1>1, <1>2, PTL DEF Spec

\* Once the cluster is quiet the tag is active on at most one node: the promise
\* of shtag_set_active, for any number of nodes and processes.
THEOREM OneActiveWhenQuiet ==
    ASSUME ~Windows, ~Loss
    PROVE  Spec => []AtMostOneActive
<1>1. IInv /\ [Next]_vars => IInv'
  BY NextInv
<1>2. IInv => AtMostOneActive
  BY QuietOne
<1> QED BY InitInv, <1>1, <1>2, PTL DEF Spec

\* The variables keep their types, and no node notes itself as informed or has a
\* link to itself (shtag_activate and do_actions_node_ev visit the other nodes).
THEOREM TagTypes ==
    ASSUME ~Windows, ~Loss
    PROVE  Spec => []TypeOK
<1>1. IInv /\ [Next]_vars => IInv'
  BY NextInv
<1>2. IInv => TypeOK
  BY DEF IInv
<1> QED BY InitInv, <1>1, <1>2, PTL DEF Spec

----------------------------------------------------------------------------
(* The futex lock of futex_lock.h.                                         *)

\* The invariants of the lock, inductive together.
FutexInv == FutexTypeOK /\ MutualExclusion /\ HeldIffLocked /\ NoLostWakeup

\* A free lock and idle processes (init_lock) satisfy the invariant.
LEMMA FutexInitInv == FutexInit => FutexInv
  BY AdaptiveWaitLoopsType
     DEF FutexInit, FutexInv, FutexTypeOK, FutexLabels, MutualExclusion, HeldIffLocked,
         NoLostWakeup, Holding

\* Every instruction of get_lock and release_lock keeps the word and the
\* spin counters in range.
LEMMA FutexStepType ==
  FutexTypeOK /\ [FutexNext]_futex_vars => FutexTypeOK'
<1> SUFFICES ASSUME FutexTypeOK, [FutexNext]_futex_vars PROVE FutexTypeOK'
  OBVIOUS
<1> USE AdaptiveWaitLoopsType DEF FutexTypeOK, FutexLabels
<1>1. ASSUME NEW p \in Procs, GetLock(p) PROVE FutexTypeOK'
  BY <1>1 DEF GetLock
<1>2. ASSUME NEW p \in Procs, CmpXchg(p) PROVE FutexTypeOK'
  BY <1>2 DEF CmpXchg
<1>3. ASSUME NEW p \in Procs, Spin(p) PROVE FutexTypeOK'
  <2>1. CASE spins[p] > 0
    <3>1. spins[p] \in 0..AdaptiveWaitLoops /\ spins[p] - 1 \in 0..AdaptiveWaitLoops
      BY <2>1
    <3> QED BY <1>3, <2>1, <3>1 DEF Spin
  <2>2. CASE ~(spins[p] > 0)
    BY <1>3, <2>2 DEF Spin
  <2> QED BY <2>1, <2>2
<1>4. ASSUME NEW p \in Procs, XchgTwo(p) PROVE FutexTypeOK'
  BY <1>4 DEF XchgTwo
<1>5. ASSUME NEW p \in Procs, FutexWait(p) PROVE FutexTypeOK'
  BY <1>5 DEF FutexWait
<1>6. ASSUME NEW p \in Procs, Interrupted(p) PROVE FutexTypeOK'
  BY <1>6 DEF Interrupted
<1>7. ASSUME NEW p \in Procs, ReleaseLock(p) PROVE FutexTypeOK'
  BY <1>7 DEF ReleaseLock
<1>8. ASSUME NEW p \in Procs, XchgZero(p) PROVE FutexTypeOK'
  BY <1>8 DEF XchgZero
<1>9. ASSUME NEW p \in Procs, FutexWake(p) PROVE FutexTypeOK'
  BY <1>9 DEF FutexWake
<1>10. CASE UNCHANGED futex_vars
  BY <1>10 DEF futex_vars
<1> QED
  BY <1>1, <1>2, <1>3, <1>4, <1>5, <1>6, <1>7, <1>8, <1>9, <1>10
     DEF FutexNext, FutexStep

\* Every instruction of get_lock and release_lock preserves the invariant.
LEMMA FutexStepInv ==
  FutexInv /\ [FutexNext]_futex_vars => FutexInv'
<1> SUFFICES ASSUME FutexInv, [FutexNext]_futex_vars PROVE FutexInv'
  OBVIOUS
<1>t. FutexTypeOK /\ FutexTypeOK'
  BY FutexStepType DEF FutexInv
<1> DEFINE Safe == MutualExclusion /\ HeldIffLocked /\ NoLostWakeup
<1>s. Safe
  BY DEF FutexInv
<1> USE <1>t, <1>s DEF FutexTypeOK, FutexLabels, MutualExclusion, HeldIffLocked,
        NoLostWakeup, Holding
<1>1. ASSUME NEW p \in Procs, GetLock(p) PROVE Safe'
  BY <1>1 DEF GetLock
<1>2. ASSUME NEW p \in Procs, CmpXchg(p) PROVE Safe'
  <2>1. CASE lock = 0  BY <1>2, <2>1 DEF CmpXchg
  <2>2. CASE lock = 1  BY <1>2, <2>2 DEF CmpXchg
  <2>3. CASE lock = 2  BY <1>2, <2>3 DEF CmpXchg
  <2> QED BY <2>1, <2>2, <2>3
<1>3. ASSUME NEW p \in Procs, Spin(p) PROVE Safe'
  <2>1. CASE spins[p] > 0 /\ lock = 0  BY <1>3, <2>1 DEF Spin
  <2>2. CASE spins[p] > 0 /\ lock # 0  BY <1>3, <2>2 DEF Spin
  <2>3. CASE ~(spins[p] > 0)           BY <1>3, <2>3 DEF Spin
  <2> QED BY <2>1, <2>2, <2>3
<1>4. ASSUME NEW p \in Procs, XchgTwo(p) PROVE Safe'
  <2>1. CASE lock = 0  BY <1>4, <2>1 DEF XchgTwo
  <2>2. CASE lock # 0  BY <1>4, <2>2 DEF XchgTwo
  <2> QED BY <2>1, <2>2
<1>5. ASSUME NEW p \in Procs, FutexWait(p) PROVE Safe'
  BY <1>5 DEF FutexWait
<1>6. ASSUME NEW p \in Procs, Interrupted(p) PROVE Safe'
  BY <1>6 DEF Interrupted
<1>7. ASSUME NEW p \in Procs, ReleaseLock(p) PROVE Safe'
  BY <1>7 DEF ReleaseLock
<1>8. ASSUME NEW p \in Procs, XchgZero(p) PROVE Safe'
  <2>1. CASE lock = 1  BY <1>8, <2>1 DEF XchgZero
  <2>2. CASE lock = 2  BY <1>8, <2>2 DEF XchgZero
  <2>3. lock # 0       BY <1>8 DEF XchgZero
  <2> QED BY <2>1, <2>2, <2>3
<1>9. ASSUME NEW p \in Procs, FutexWake(p) PROVE Safe'
  <2>1. ASSUME NEW q \in Procs, fpc[q] = "asleep",
               fpc' = [fpc EXCEPT ![p] = "idle", ![q] = "xchg2"]
        PROVE  Safe'
    BY <1>9, <2>1 DEF FutexWake
  <2>2. CASE \A q \in Procs : fpc[q] # "asleep"
    BY <1>9, <2>2 DEF FutexWake
  <2> QED BY <1>9, <2>1, <2>2 DEF FutexWake
<1>10. ASSUME UNCHANGED futex_vars PROVE Safe'
  BY <1>10 DEF futex_vars
<1>11. Safe'
  BY ZenonT(60), <1>1, <1>2, <1>3, <1>4, <1>5, <1>6, <1>7, <1>8, <1>9, <1>10
     DEF FutexNext, FutexStep
<1> QED
  BY <1>11 DEF FutexInv

\* The inductive invariant holds throughout get_lock and release_lock.
LEMMA FutexInvariance == FutexSpec => []FutexInv
<1>1. FutexInit => FutexInv
  BY FutexInitInv
<1>2. FutexInv /\ [FutexNext]_futex_vars => FutexInv'
  BY FutexStepInv
<1> QED BY <1>1, <1>2, PTL DEF FutexSpec

\* The lock lock and the spin counters of get_lock stay in range.
THEOREM FutexTypes == FutexSpec => []FutexTypeOK
<1>1. FutexInv => FutexTypeOK
  BY DEF FutexInv
<1>2. FutexSpec => []FutexInv
  BY FutexInvariance
<1> QED BY <1>1, <1>2, PTL

\* get_lock lets one process in at a time.
THEOREM FutexExclusion == FutexSpec => []MutualExclusion
<1>1. FutexInv => MutualExclusion
  BY DEF FutexInv
<1>2. FutexSpec => []FutexInv
  BY FutexInvariance
<1> QED BY <1>1, <1>2, PTL

\* The lock is non-zero exactly while the lock is held.
THEOREM FutexWordExact == FutexSpec => []HeldIffLocked
<1>1. FutexInv => HeldIffLocked
  BY DEF FutexInv
<1>2. FutexSpec => []FutexInv
  BY FutexInvariance
<1> QED BY <1>1, <1>2, PTL

\* get_lock and release_lock never leave a sleeper without a wake-up on its way.
THEOREM FutexNoLostWakeup == FutexSpec => []NoLostWakeup
<1>1. FutexInv => NoLostWakeup
  BY DEF FutexInv
<1>2. FutexSpec => []FutexInv
  BY FutexInvariance
<1> QED BY <1>1, <1>2, PTL

----------------------------------------------------------------------------
(* The safety part of the refinement: every instruction is a step of       *)
(* ProcessLock or changes nothing its users can see.                       *)

\* What the abstract lock sees of a process, in terms of the steps of get_lock.
LEMMA AtOf ==
    ASSUME NEW p \in Procs, fpc[p] \in FutexLabels
    PROVE  /\ At[p] = "inside" <=> Holding(p)
           /\ At[p] = "waiting" <=> Waiting(p)
           /\ At[p] = "outside" <=> fpc[p] \in {"idle", "futex_wake"}
  BY DEF At, Holding, Waiting, FutexLabels

\* One process moves from where At sees it to a.
LEMMA AtMove ==
    ASSUME FutexTypeOK, NEW p \in Procs, NEW l \in FutexLabels, fpc' = [fpc EXCEPT ![p] = l],
           NEW a, a = IF l \in {"critical", "xchg0"} THEN "inside"
                      ELSE IF l \in {"cmpxchg", "spin", "xchg2", "futex_wait", "asleep"}
                           THEN "waiting" ELSE "outside"
    PROVE  At' = [At EXCEPT ![p] = a]
  BY ZenonT(60) DEF At, Holding, Waiting, FutexTypeOK

\* Every step of get_lock or release_lock is a step of the abstract lock or none.
LEMMA FutexStepRefines == ASSUME FutexInv, [FutexNext]_futex_vars PROVE [Lock!Next]_At
<1> DEFINE Keep == At' = At
<1>t. FutexTypeOK /\ MutualExclusion /\ HeldIffLocked
  BY DEF FutexInv
<1>p. \A p \in Procs : fpc[p] \in FutexLabels
  BY <1>t DEF FutexTypeOK
<1>a. At \in [Procs -> {"inside", "waiting", "outside"}]
  BY DEF At
<1>f. lock = 0 => \A q \in Procs : At[q] # "inside"
  BY <1>t, <1>p, AtOf DEF HeldIffLocked
<1>1. ASSUME NEW p \in Procs, GetLock(p) PROVE Lock!Ask(p)
  <2>1. At' = [At EXCEPT ![p] = "waiting"]
    BY ZenonT(60), <1>1, <1>t, AtMove DEF GetLock, FutexLabels
  <2>2. At[p] = "outside"
    BY <1>1, <1>p, AtOf DEF GetLock
  <2> QED BY <2>1, <2>2 DEF Lock!Ask
<1>2. ASSUME NEW p \in Procs, Waiting(p), lock = 0, fpc' = [fpc EXCEPT ![p] = "critical"]
      PROVE  Lock!Enter(p)
  <2>1. At' = [At EXCEPT ![p] = "inside"]
    BY ZenonT(60), <1>2, <1>t, AtMove DEF FutexLabels
  <2>2. At[p] = "waiting"
    BY <1>2, <1>p, AtOf
  <2> QED BY <1>2, <1>f, <2>1, <2>2 DEF Lock!Enter
<1>3. ASSUME NEW p \in Procs, Waiting(p), NEW l \in {"spin", "xchg2", "futex_wait", "asleep"},
             fpc' = [fpc EXCEPT ![p] = l]
      PROVE  Keep
  <2>1. At' = [At EXCEPT ![p] = "waiting"]
    BY ZenonT(60), <1>3, <1>t, AtMove DEF FutexLabels
  <2>2. At[p] = "waiting"
    BY <1>3, <1>p, AtOf
  <2> QED BY <2>1, <2>2, <1>a
<1>4. ASSUME NEW p \in Procs, CmpXchg(p) PROVE Lock!Enter(p) \/ Keep
  <2>1. Waiting(p)
    BY <1>4 DEF CmpXchg, Waiting
  <2>2. CASE lock = 0
    <3>1. fpc' = [fpc EXCEPT ![p] = "critical"]
      BY <1>4, <2>2 DEF CmpXchg
    <3> QED BY ZenonT(60), <1>2, <2>1, <2>2, <3>1
  <2>3. CASE lock = 1
    <3>1. fpc' = [fpc EXCEPT ![p] = "spin"]
      BY <1>4, <2>3 DEF CmpXchg
    <3> QED BY ZenonT(60), <1>3, <2>1, <3>1
  <2>4. CASE lock = 2
    <3>1. fpc' = [fpc EXCEPT ![p] = "futex_wait"]
      BY <1>4, <2>4 DEF CmpXchg
    <3> QED BY ZenonT(60), <1>3, <2>1, <3>1
  <2> QED BY <1>t, <2>2, <2>3, <2>4 DEF FutexTypeOK
<1>5. ASSUME NEW p \in Procs, Spin(p) PROVE Lock!Enter(p) \/ Keep
  <2>1. Waiting(p)
    BY <1>5 DEF Spin, Waiting
  <2>2. CASE spins[p] > 0 /\ lock = 0  BY <1>2, <1>5, <2>1, <2>2 DEF Spin
  <2>3. CASE spins[p] > 0 /\ lock # 0  BY <1>3, <1>5, <2>1, <2>3 DEF Spin
  <2>4. CASE ~(spins[p] > 0)           BY <1>3, <1>5, <2>1, <2>4 DEF Spin
  <2> QED BY <2>2, <2>3, <2>4
<1>6. ASSUME NEW p \in Procs, XchgTwo(p) PROVE Lock!Enter(p) \/ Keep
  <2>1. Waiting(p)
    BY <1>6 DEF XchgTwo, Waiting
  <2>2. CASE lock = 0  BY ZenonT(60), <1>2, <1>6, <2>1, <2>2 DEF XchgTwo
  <2>3. CASE lock # 0  BY ZenonT(60), <1>3, <1>6, <2>1, <2>3 DEF XchgTwo
  <2> QED BY <2>2, <2>3
<1>7. ASSUME NEW p \in Procs, FutexWait(p) \/ Interrupted(p) PROVE Keep
  <2>1. Waiting(p)
    BY <1>7 DEF FutexWait, Interrupted, Waiting
  <2> QED BY <1>3, <1>7, <2>1 DEF FutexWait, Interrupted
<1>8. ASSUME NEW p \in Procs, ReleaseLock(p) PROVE Keep
  <2>1. At' = [At EXCEPT ![p] = "inside"]
    BY ZenonT(60), <1>8, <1>t, AtMove DEF ReleaseLock, FutexLabels
  <2>2. At[p] = "inside"
    BY <1>8, <1>p, AtOf DEF ReleaseLock, Holding
  <2> QED BY <2>1, <2>2, <1>a
<1>9. ASSUME NEW p \in Procs, XchgZero(p) PROVE Lock!Leave(p)
  <2>1. At' = [At EXCEPT ![p] = "outside"]
    <3>1. CASE lock = 1  BY ZenonT(60), <1>9, <1>t, <3>1, AtMove DEF XchgZero, FutexLabels
    <3>2. CASE lock # 1  BY ZenonT(60), <1>9, <1>t, <3>2, AtMove DEF XchgZero, FutexLabels
    <3> QED BY <3>1, <3>2
  <2>2. At[p] = "inside"
    BY <1>9, <1>p, AtOf DEF XchgZero, Holding
  <2> QED BY <2>1, <2>2 DEF Lock!Leave
<1>10. ASSUME NEW p \in Procs, FutexWake(p) PROVE Keep
  BY <1>10, <1>t DEF FutexWake, At, Holding, Waiting, FutexTypeOK
<1>11. ASSUME UNCHANGED futex_vars PROVE Keep
  BY <1>11 DEF futex_vars, At, Holding, Waiting
<1> QED
  BY <1>1, <1>4, <1>5, <1>6, <1>7, <1>8, <1>9, <1>10, <1>11 DEF FutexNext, FutexStep, Lock!Next

\* Whatever the processes and the number of spins, get_lock and release_lock
\* behave as the lock of ProcessLock: one process inside at a time, entered
\* from waiting and left to the outside.
THEOREM FutexImplementsLock == FutexSpec => Lock!SafeSpec
<1>1. FutexInit => Lock!Init
  BY DEF FutexInit, Lock!Init, At, Holding, Waiting
<1>2. FutexSpec => []FutexInv
  BY FutexInvariance
<1>3. FutexInv /\ [FutexNext]_futex_vars => [Lock!Next]_At
  BY FutexStepRefines
<1> QED BY <1>1, <1>2, <1>3, PTL DEF FutexSpec, Lock!SafeSpec

----------------------------------------------------------------------------
(* The read/write lock of rw_locking.h.                                    *)

Writer(p)   == rwpc[p] \in {"drain", "writing"}
Upgraded(p) == rwpc[p] \in {"sw_drain", "sw_writing", "switch_read"}
SwOwner(p)  == Switchable(p) \/ rwpc[p] = "clear_sw"

\* What the holder of the inner lock read is still good enough to act on.
SectionInv ==
    inner # None =>
      /\ rwpc[inner] \in Sections
      /\ r_seen = r_count
      /\ w_flag => w_seen
      /\ sw_flag => sw_seen

\* One writer, who keeps w_flag up; a switched reader knows about them.
WriterInv ==
    /\ \A p \in Users : Writer(p) => w_flag
    /\ \A p, q \in Users : Writer(p) /\ Writer(q) => p = q
    /\ \A p \in Users : Upgraded(p) => w_flag /\ \A q \in Users : Writer(q) => old[p]

\* One switchable reader, who keeps sw_flag up.
SwInv ==
    /\ \A p \in Users : SwOwner(p) => sw_flag
    /\ \A p, q \in Users : SwOwner(p) /\ SwOwner(q) => p = q

\* Whoever writes has seen all (other) readers leave, and none came back.
AloneInv ==
    /\ \A p, q \in Users : rwpc[p] = "writing" => ~Counted(q)
    /\ \A p, q \in Users : rwpc[p] = "sw_writing" /\ q # p => ~Counted(q)

RwIInv == RwTypeOK /\ SectionInv /\ RCountExact /\ WriterInv /\ SwInv /\ AloneInv

Readers == {p \in Users : Counted(p)}

\* r_count is the number of readers, now and after a step.
LEMMA CountsReaders ==
  /\ RCountExact <=> r_count = Cardinality(Readers)
  /\ RCountExact' <=> r_count' = Cardinality(Readers')
  BY DEF RCountExact, Readers

\* The readers are finitely many, so that they can be counted.
LEMMA ReadersFinite ==
  IsFiniteSet(Readers) /\ IsFiniteSet(Readers)'
  <1>1. Readers \subseteq Users /\ Readers' \subseteq Users
    BY DEF Readers
  <1> QED BY <1>1, FS_Subset, UsersType

\* A process starts to be counted, and r_count goes up by one.
LEMMA CountUp ==
  ASSUME RCountExact, NEW p \in Users, ~Counted(p), Counted(p)',
         \A q \in Users : q # p => (Counted(q)' <=> Counted(q)),
         r_count' = r_count + 1
  PROVE  RCountExact'
  <1>1. Readers' = Readers \cup {p} /\ p \notin Readers
    BY DEF Readers
  <1>2. Cardinality(Readers') = Cardinality(Readers) + 1
    BY <1>1, ReadersFinite, FS_AddElement
  <1> QED BY <1>2, CountsReaders

\* A process stops being counted, and r_count goes down by one.
LEMMA CountDown ==
  ASSUME RCountExact, NEW p \in Users, Counted(p), ~Counted(p)',
         \A q \in Users : q # p => (Counted(q)' <=> Counted(q)),
         r_count' = r_count - 1
  PROVE  RCountExact'
  <1>1. Readers' = Readers \ {p} /\ p \in Readers
    BY DEF Readers
  <1>2. Cardinality(Readers') = Cardinality(Readers) - 1
    BY <1>1, ReadersFinite, FS_RemoveElement
  <1> QED BY <1>2, CountsReaders

\* Nobody starts or stops being counted, and r_count stays.
LEMMA CountSame ==
  ASSUME RCountExact, \A q \in Users : Counted(q)' <=> Counted(q),
         r_count' = r_count
  PROVE  RCountExact'
  <1>1. Readers' = Readers
    BY DEF Readers
  <1> QED BY <1>1, CountsReaders

\* r_count tells the truth about the readers.
LEMMA CountZero ==
  ASSUME RCountExact, r_count = 0, NEW q \in Users
  PROVE  ~Counted(q)
  <1>1. Readers = {}
    BY ReadersFinite, FS_EmptySet, CountsReaders
  <1> QED BY <1>1 DEF Readers

\* With r_count at most one, a counted process is the only one: what
\* lock_switch_write waits for.
LEMMA CountOne ==
  ASSUME RCountExact, r_count \in Nat, r_count <= 1, NEW p \in Users, Counted(p),
         NEW q \in Users, q # p
  PROVE  ~Counted(q)
  <1>1. p \in Readers
    BY DEF Readers
  <1>2. /\ IsFiniteSet(Readers \ {p})
        /\ Cardinality(Readers \ {p}) = Cardinality(Readers) - 1
    BY <1>1, ReadersFinite, FS_RemoveElement
  <1>3. Cardinality(Readers \ {p}) \in Nat
    BY <1>2, FS_CardinalityType
  <1>4. Cardinality(Readers) <= 1 /\ Cardinality(Readers) \in Nat
    BY ReadersFinite, FS_CardinalityType, CountsReaders
  <1>5. Cardinality(Readers \ {p}) = 0
    BY <1>2, <1>3, <1>4
  <1>6. Readers \ {p} = {}
    BY <1>2, <1>5, FS_EmptySet
  <1> QED BY <1>6 DEF Readers

\* The lock made by lock_init_rw satisfies the invariant.
LEMMA InitOK == RwInit => RwIInv
  <1> SUFFICES ASSUME RwInit PROVE RwIInv
    OBVIOUS
  <1>1. RwTypeOK /\ SectionInv /\ WriterInv /\ SwInv /\ AloneInv
    BY ZenonT(60) DEF RwInit, RwTypeOK, States, SectionInv, WriterInv, Writer, Upgraded, SwInv,
           SwOwner, Switchable, AloneInv, Counted
  <1>2. Readers = {}
    BY DEF RwInit, Readers, Counted
  <1>3. RCountExact
    BY <1>2, FS_EmptySet, CountsReaders DEF RwInit
  <1> QED BY <1>1, <1>3 DEF RwIInv

\* A process that calls the next macro disturbs nobody.
LEMMA CallsOK == ASSUME RwIInv, NEW p \in Users, Calls(p) PROVE RwIInv'
  <1> USE UsersType DEF RwIInv
  <1>1. RwTypeOK'
    BY DEF RwTypeOK, States, Sections, fields, seen, Calls, RwGoto
  <1>2. SectionInv'
    BY DEF RwTypeOK, SectionInv, Sections, fields, seen, Calls, RwGoto
  <1>3. RCountExact'
    <2>1. r_count' = r_count
      BY DEF fields, Calls, RwGoto
    <2>2. \A q \in Users : Counted(q)' <=> Counted(q)
      BY DEF RwTypeOK, Counted, Calls, RwGoto
    <2> QED BY <2>1, <2>2, CountSame
  <1>4. WriterInv'
    BY DEF RwTypeOK, SectionInv, WriterInv, Writer, Upgraded, fields, seen, Calls, RwGoto
  <1>5. SwInv'
    BY DEF RwTypeOK, SectionInv, SwInv, SwOwner, Switchable, fields, seen, Calls, RwGoto
  <1>6. AloneInv'
    BY DEF RwTypeOK, SectionInv, AloneInv, WriterInv, Writer, Upgraded, Counted, fields, seen, Calls, RwGoto
  <1> QED BY <1>1, <1>2, <1>3, <1>4, <1>5, <1>6

\* Taking the inner lock, and reading the fields, preserves the invariant.
LEMMA GetOK == ASSUME RwIInv, NEW p \in Users, Get(p) PROVE RwIInv'
  <1> USE UsersType DEF RwIInv
  <1>1. RwTypeOK'
    BY DEF RwTypeOK, States, Sections, fields, seen, Get
  <1>2. SectionInv'
    BY DEF RwTypeOK, SectionInv, Sections, fields, seen, Get
  <1>3. RCountExact'
    <2>1. r_count' = r_count
      BY DEF fields, Get
    <2>2. \A q \in Users : Counted(q)' <=> Counted(q)
      BY DEF RwTypeOK, Counted, Get
    <2> QED BY <2>1, <2>2, CountSame
  <1>4. WriterInv'
    BY DEF RwTypeOK, SectionInv, WriterInv, Writer, Upgraded, fields, seen, Get
  <1>5. SwInv'
    BY DEF RwTypeOK, SectionInv, SwInv, SwOwner, Switchable, fields, seen, Get
  <1>6. AloneInv'
    BY DEF RwTypeOK, SectionInv, AloneInv, WriterInv, Writer, Upgraded, Counted, fields, seen, Get
  <1> QED BY <1>1, <1>2, <1>3, <1>4, <1>5, <1>6

\* lock_start_write raises w_flag only if it was down, so there is one owner.
LEMMA StartWriteOK == ASSUME RwIInv, NEW p \in Users, StartWrite(p) PROVE RwIInv'
  <1> USE UsersType DEF RwIInv
  <1>1. RwTypeOK'
    BY ZenonT(60) DEF RwTypeOK, States, Sections, fields, seen, StartWrite, InSection, Again, RwGoto
  <1>2. SectionInv'
    BY DEF RwTypeOK, SectionInv, Sections, fields, seen, StartWrite, InSection, Again, RwGoto
  <1>3. RCountExact'
    <2>1. r_count' = r_count
      BY DEF fields, StartWrite, InSection, Again, RwGoto
    <2>2. \A q \in Users : Counted(q)' <=> Counted(q)
      BY DEF RwTypeOK, Counted, StartWrite, InSection, Again, RwGoto
    <2> QED BY <2>1, <2>2, CountSame
  <1>4. WriterInv'
    BY DEF RwTypeOK, SectionInv, WriterInv, Writer, Upgraded, fields, seen, StartWrite, InSection, Again, RwGoto
  <1>5. SwInv'
    BY ZenonT(60) DEF RwTypeOK, SectionInv, SwInv, SwOwner, Switchable, fields, seen, StartWrite, InSection, Again, RwGoto
  <1>6. AloneInv'
    BY ZenonT(60) DEF RwTypeOK, SectionInv, AloneInv, WriterInv, Writer, Upgraded, Counted, fields, seen, StartWrite, InSection, Again, RwGoto
  <1> QED BY <1>1, <1>2, <1>3, <1>4, <1>5, <1>6

\* The writer that sees r_count = 0 is alone: w_flag keeps new readers out.
LEMMA DrainOK == ASSUME RwIInv, NEW p \in Users, Drain(p) PROVE RwIInv'
  <1> USE UsersType DEF RwIInv
  <1>1. RwTypeOK'
    BY DEF RwTypeOK, States, Sections, fields, seen, Drain, RwGoto
  <1>2. SectionInv'
    BY DEF RwTypeOK, SectionInv, Sections, fields, seen, Drain, RwGoto
  <1>3. RCountExact'
    <2>1. r_count' = r_count
      BY DEF fields, Drain, RwGoto
    <2>2. \A q \in Users : Counted(q)' <=> Counted(q)
      BY DEF RwTypeOK, Counted, Drain, RwGoto
    <2> QED BY <2>1, <2>2, CountSame
  <1>4. WriterInv'
    BY DEF RwTypeOK, SectionInv, WriterInv, Writer, Upgraded, fields, seen, Drain, RwGoto
  <1>5. SwInv'
    BY DEF RwTypeOK, SectionInv, SwInv, SwOwner, Switchable, fields, seen, Drain, RwGoto
  <1>6. AloneInv'
    <2>1. \A q \in Users : ~Counted(q)
      BY CountZero DEF Drain
    <2> QED BY <2>1 DEF RwTypeOK, AloneInv, Counted, Drain, RwGoto
  <1> QED BY <1>1, <1>2, <1>3, <1>4, <1>5, <1>6

\* lock_stop_write clears w_flag without the inner lock, but only its owner does.
LEMMA StopWriteOK == ASSUME RwIInv, NEW p \in Users, StopWrite(p) PROVE RwIInv'
  <1> USE UsersType DEF RwIInv
  <1>1. RwTypeOK'
    BY ZenonT(60) DEF RwTypeOK, States, Sections, fields, seen, StopWrite, RwGoto
  <1>2. SectionInv'
    BY DEF RwTypeOK, SectionInv, Sections, fields, seen, StopWrite, RwGoto
  <1>3. RCountExact'
    <2>1. r_count' = r_count
      BY DEF fields, StopWrite, RwGoto
    <2>2. \A q \in Users : Counted(q)' <=> Counted(q)
      BY DEF RwTypeOK, Counted, StopWrite, RwGoto
    <2> QED BY <2>1, <2>2, CountSame
  <1>4. WriterInv'
    BY DEF RwTypeOK, WriterInv, Writer, Upgraded, AloneInv, Counted, StopWrite, RwGoto
  <1>5. SwInv'
    BY DEF RwTypeOK, SectionInv, SwInv, SwOwner, Switchable, fields, seen, StopWrite, RwGoto
  <1>6. AloneInv'
    BY DEF RwTypeOK, SectionInv, AloneInv, WriterInv, Writer, Upgraded, Counted, fields, seen, StopWrite, RwGoto
  <1> QED BY <1>1, <1>2, <1>3, <1>4, <1>5, <1>6

\* lock_start_read counts a reader only while w_flag is down.
LEMMA StartReadOK == ASSUME RwIInv, NEW p \in Users, StartRead(p) PROVE RwIInv'
  <1> USE UsersType DEF RwIInv
  <1>1. RwTypeOK'
    <2>1. r_count' \in Nat
      BY DEF RwTypeOK, SectionInv, fields, StartRead, InSection, Again, RwGoto
    <2>2. w_flag' \in BOOLEAN /\ sw_flag' \in BOOLEAN
      BY DEF RwTypeOK, fields, StartRead, InSection, Again, RwGoto
    <2>3. rwpc' \in [Users -> States] /\ old' \in [Users -> BOOLEAN]
      BY DEF RwTypeOK, States, StartRead, InSection, Again, RwGoto
    <2> QED BY ZenonT(60), <2>1, <2>2, <2>3 DEF RwTypeOK, InSection, StartRead
  <1>2. SectionInv'
    BY DEF RwTypeOK, SectionInv, Sections, fields, seen, StartRead, InSection, Again, RwGoto
  <1>3. RCountExact'
    <2>1. CASE Again(p) /\ inner' = None
      BY <2>1, CountSame DEF Again, fields, Counted
    <2>2. CASE r_count' = r_seen + 1 /\ ~Again(p)
      <3>1. r_count' = r_count + 1
        BY <2>2 DEF SectionInv, StartRead, InSection, Again, RwGoto
      <3>2. ~Counted(p) /\ Counted(p)' /\ \A q \in Users : q # p => (Counted(q)' <=> Counted(q))
        BY <2>2 DEF RwTypeOK, Counted, StartRead, InSection, Again, RwGoto
      <3> QED BY <3>1, <3>2, CountUp
    <2> QED BY <2>1, <2>2 DEF StartRead, InSection, Again, RwGoto
  <1>4. WriterInv'
    BY DEF RwTypeOK, SectionInv, WriterInv, Writer, Upgraded, fields, seen, StartRead, InSection, Again, RwGoto
  <1>5. SwInv'
    BY DEF RwTypeOK, SectionInv, SwInv, SwOwner, Switchable, fields, seen, StartRead, InSection, Again, RwGoto
  <1>6. AloneInv'
    BY DEF RwTypeOK, SectionInv, AloneInv, WriterInv, Writer, Upgraded, Counted, fields, seen, StartRead, InSection, Again, RwGoto
  <1> QED BY <1>1, <1>2, <1>3, <1>4, <1>5, <1>6

\* lock_stop_read takes one counted reader off r_count.
LEMMA StopReadOK == ASSUME RwIInv, NEW p \in Users, StopRead(p) PROVE RwIInv'
  <1> USE UsersType DEF RwIInv
  <1>1. RwTypeOK'
    <2>1. r_count' \in Nat
      BY CountZero DEF RwTypeOK, SectionInv, Counted, StopRead, InSection, RwGoto
    <2>2. w_flag' \in BOOLEAN /\ sw_flag' \in BOOLEAN
      BY DEF RwTypeOK, fields, StopRead, InSection, RwGoto
    <2>3. rwpc' \in [Users -> States] /\ old' \in [Users -> BOOLEAN]
      BY DEF RwTypeOK, States, StopRead, InSection, RwGoto
    <2> QED BY ZenonT(60), <2>1, <2>2, <2>3 DEF RwTypeOK, InSection, StopRead
  <1>2. SectionInv'
    BY DEF RwTypeOK, SectionInv, Sections, fields, seen, StopRead, InSection, RwGoto
  <1>3. RCountExact'
    <2>1. r_count' = r_count - 1
      BY DEF SectionInv, StopRead, InSection, RwGoto
    <2>2. Counted(p) /\ ~Counted(p)' /\ \A q \in Users : q # p => (Counted(q)' <=> Counted(q))
      BY DEF RwTypeOK, Counted, StopRead, InSection, RwGoto
    <2> QED BY <2>1, <2>2, CountDown
  <1>4. WriterInv'
    BY DEF RwTypeOK, SectionInv, WriterInv, Writer, Upgraded, fields, seen, StopRead, InSection, RwGoto
  <1>5. SwInv'
    BY DEF RwTypeOK, SectionInv, SwInv, SwOwner, Switchable, fields, seen, StopRead, InSection, RwGoto
  <1>6. AloneInv'
    BY DEF RwTypeOK, SectionInv, AloneInv, WriterInv, Writer, Upgraded, Counted, fields, seen, StopRead, InSection, RwGoto
  <1> QED BY <1>1, <1>2, <1>3, <1>4, <1>5, <1>6

\* lock_start_sw_read lets one switchable reader in, while both flags are down.
LEMMA StartSwReadOK == ASSUME RwIInv, NEW p \in Users, StartSwRead(p) PROVE RwIInv'
  <1> USE UsersType DEF RwIInv
  <1>1. RwTypeOK'
    <2>1. r_count' \in Nat
      BY DEF RwTypeOK, SectionInv, fields, StartSwRead, InSection, Again, RwGoto
    <2>2. w_flag' \in BOOLEAN /\ sw_flag' \in BOOLEAN
      BY ZenonT(60) DEF RwTypeOK, fields, StartSwRead, InSection, Again, RwGoto
    <2>3. rwpc' \in [Users -> States] /\ old' \in [Users -> BOOLEAN]
      BY DEF RwTypeOK, States, StartSwRead, InSection, Again, RwGoto
    <2> QED BY ZenonT(60), <2>1, <2>2, <2>3 DEF RwTypeOK, InSection, StartSwRead
  <1>2. SectionInv'
    BY DEF RwTypeOK, SectionInv, Sections, fields, seen, StartSwRead, InSection, Again, RwGoto
  <1>3. RCountExact'
    <2>1. CASE Again(p) /\ inner' = None
      BY <2>1, CountSame DEF Again, fields, Counted
    <2>2. CASE r_count' = r_seen + 1 /\ ~Again(p)
      <3>1. r_count' = r_count + 1
        BY <2>2 DEF SectionInv, StartSwRead, InSection, Again, RwGoto
      <3>2. ~Counted(p) /\ Counted(p)' /\ \A q \in Users : q # p => (Counted(q)' <=> Counted(q))
        BY <2>2 DEF RwTypeOK, Counted, StartSwRead, InSection, Again, RwGoto
      <3> QED BY <3>1, <3>2, CountUp
    <2> QED BY <2>1, <2>2 DEF StartSwRead, InSection, Again, RwGoto
  <1>4. WriterInv'
    BY DEF RwTypeOK, SectionInv, WriterInv, Writer, Upgraded, fields, seen, StartSwRead, InSection, Again, RwGoto
  <1>5. SwInv'
    BY DEF RwTypeOK, SectionInv, SwInv, SwOwner, Switchable, fields, seen, StartSwRead, InSection, Again, RwGoto
  <1>6. AloneInv'
    BY ZenonT(60) DEF RwTypeOK, SectionInv, AloneInv, WriterInv, Writer, Upgraded, Counted, fields, seen, StartSwRead, InSection, Again, RwGoto
  <1> QED BY <1>1, <1>2, <1>3, <1>4, <1>5, <1>6

\* lock_stop_sw_read takes the reader off r_count; sw_flag stays up for now.
LEMMA StopSwReadOK == ASSUME RwIInv, NEW p \in Users, StopSwRead(p) PROVE RwIInv'
  <1> USE UsersType DEF RwIInv
  <1>1. RwTypeOK'
    <2>1. r_count' \in Nat
      BY CountZero DEF RwTypeOK, SectionInv, Counted, StopSwRead, InSection, RwGoto
    <2>2. w_flag' \in BOOLEAN /\ sw_flag' \in BOOLEAN
      BY DEF RwTypeOK, fields, StopSwRead, InSection, RwGoto
    <2>3. rwpc' \in [Users -> States] /\ old' \in [Users -> BOOLEAN]
      BY DEF RwTypeOK, States, StopSwRead, InSection, RwGoto
    <2> QED BY ZenonT(60), <2>1, <2>2, <2>3 DEF RwTypeOK, InSection, StopSwRead
  <1>2. SectionInv'
    BY DEF RwTypeOK, SectionInv, Sections, fields, seen, StopSwRead, InSection, RwGoto
  <1>3. RCountExact'
    <2>1. r_count' = r_count - 1
      BY DEF SectionInv, StopSwRead, InSection, RwGoto
    <2>2. Counted(p) /\ ~Counted(p)' /\ \A q \in Users : q # p => (Counted(q)' <=> Counted(q))
      BY DEF RwTypeOK, Counted, StopSwRead, InSection, RwGoto
    <2> QED BY <2>1, <2>2, CountDown
  <1>4. WriterInv'
    BY DEF RwTypeOK, SectionInv, WriterInv, Writer, Upgraded, fields, seen, StopSwRead, InSection, RwGoto
  <1>5. SwInv'
    BY DEF RwTypeOK, SectionInv, SwInv, SwOwner, Switchable, fields, seen, StopSwRead, InSection, RwGoto
  <1>6. AloneInv'
    BY DEF RwTypeOK, SectionInv, AloneInv, WriterInv, Writer, Upgraded, Counted, fields, seen, StopSwRead, InSection, RwGoto
  <1> QED BY <1>1, <1>2, <1>3, <1>4, <1>5, <1>6

\* sw_flag is cleared without the inner lock by the one process that raised it.
LEMMA ClearSwOK == ASSUME RwIInv, NEW p \in Users, ClearSw(p) PROVE RwIInv'
  <1> USE UsersType DEF RwIInv
  <1>1. RwTypeOK'
    BY ZenonT(60) DEF RwTypeOK, States, Sections, fields, seen, ClearSw, RwGoto
  <1>2. SectionInv'
    BY DEF RwTypeOK, SectionInv, Sections, fields, seen, ClearSw, RwGoto
  <1>3. RCountExact'
    <2>1. r_count' = r_count
      BY DEF fields, ClearSw, RwGoto
    <2>2. \A q \in Users : Counted(q)' <=> Counted(q)
      BY DEF RwTypeOK, Counted, ClearSw, RwGoto
    <2> QED BY <2>1, <2>2, CountSame
  <1>4. WriterInv'
    BY DEF RwTypeOK, SectionInv, WriterInv, Writer, Upgraded, fields, seen, ClearSw, RwGoto
  <1>5. SwInv'
    BY DEF RwTypeOK, SectionInv, SwInv, SwOwner, Switchable, fields, seen, ClearSw, RwGoto
  <1>6. AloneInv'
    BY DEF RwTypeOK, SectionInv, AloneInv, WriterInv, Writer, Upgraded, Counted, fields, seen, ClearSw, RwGoto
  <1> QED BY <1>1, <1>2, <1>3, <1>4, <1>5, <1>6

\* lock_switch_write raises w_flag and remembers whether a writer had raised it.
LEMMA SwitchWriteOK == ASSUME RwIInv, NEW p \in Users, SwitchWrite(p) PROVE RwIInv'
  <1> USE UsersType DEF RwIInv
  <1>1. RwTypeOK'
    BY ZenonT(60) DEF RwTypeOK, States, Sections, fields, seen, SwitchWrite, InSection, RwGoto
  <1>2. SectionInv'
    BY DEF RwTypeOK, SectionInv, Sections, fields, seen, SwitchWrite, InSection, RwGoto
  <1>3. RCountExact'
    <2>1. r_count' = r_count
      BY DEF fields, SwitchWrite, InSection, RwGoto
    <2>2. \A q \in Users : Counted(q)' <=> Counted(q)
      BY DEF RwTypeOK, Counted, SwitchWrite, InSection, RwGoto
    <2> QED BY <2>1, <2>2, CountSame
  <1>4. WriterInv'
    BY DEF RwTypeOK, SectionInv, WriterInv, Writer, Upgraded, fields, seen, SwitchWrite, InSection, RwGoto
  <1>5. SwInv'
    BY DEF RwTypeOK, SectionInv, SwInv, SwOwner, Switchable, fields, seen, SwitchWrite, InSection, RwGoto
  <1>6. AloneInv'
    BY ZenonT(60) DEF RwTypeOK, SectionInv, AloneInv, WriterInv, Writer, Upgraded, Counted, fields, seen, SwitchWrite, InSection, RwGoto
  <1> QED BY <1>1, <1>2, <1>3, <1>4, <1>5, <1>6

\* The switchable reader that sees r_count <= 1 is the only reader left.
LEMMA SwDrainOK == ASSUME RwIInv, NEW p \in Users, SwDrain(p) PROVE RwIInv'
  <1> USE UsersType DEF RwIInv
  <1>1. RwTypeOK'
    BY DEF RwTypeOK, States, Sections, fields, seen, SwDrain, RwGoto
  <1>2. SectionInv'
    BY DEF RwTypeOK, SectionInv, Sections, fields, seen, SwDrain, RwGoto
  <1>3. RCountExact'
    <2>1. r_count' = r_count
      BY DEF fields, SwDrain, RwGoto
    <2>2. \A q \in Users : Counted(q)' <=> Counted(q)
      BY DEF RwTypeOK, Counted, SwDrain, RwGoto
    <2> QED BY <2>1, <2>2, CountSame
  <1>4. WriterInv'
    BY DEF RwTypeOK, SectionInv, WriterInv, Writer, Upgraded, fields, seen, SwDrain, RwGoto
  <1>5. SwInv'
    BY DEF RwTypeOK, SectionInv, SwInv, SwOwner, Switchable, fields, seen, SwDrain, RwGoto
  <1>6. AloneInv'
    <2>1. \A q \in Users : q # p => ~Counted(q)
      <3>1. Counted(p) /\ r_count \in Nat /\ r_count <= 1
        BY DEF RwTypeOK, Counted, SwDrain
      <3> QED BY <3>1, CountOne
    <2> QED BY <2>1 DEF RwTypeOK, AloneInv, Counted, SwDrain, RwGoto
  <1> QED BY <1>1, <1>2, <1>3, <1>4, <1>5, <1>6

\* lock_switch_read puts w_flag back to what it was, so a waiting writer keeps it.
LEMMA SwitchReadOK == ASSUME RwIInv, NEW p \in Users, SwitchRead(p) PROVE RwIInv'
  <1> USE UsersType DEF RwIInv
  <1>1. RwTypeOK'
    BY ZenonT(60) DEF RwTypeOK, States, Sections, fields, seen, SwitchRead, InSection, RwGoto
  <1>2. SectionInv'
    BY DEF RwTypeOK, SectionInv, Sections, fields, seen, SwitchRead, InSection, RwGoto
  <1>3. RCountExact'
    <2>1. r_count' = r_count
      BY DEF fields, SwitchRead, InSection, RwGoto
    <2>2. \A q \in Users : Counted(q)' <=> Counted(q)
      BY DEF RwTypeOK, Counted, SwitchRead, InSection, RwGoto
    <2> QED BY <2>1, <2>2, CountSame
  <1>4. WriterInv'
    BY DEF RwTypeOK, WriterInv, Writer, Upgraded, SwInv, SwOwner, Switchable, SwitchRead, InSection, RwGoto
  <1>5. SwInv'
    BY DEF RwTypeOK, SectionInv, SwInv, SwOwner, Switchable, fields, seen, SwitchRead, InSection, RwGoto
  <1>6. AloneInv'
    BY DEF RwTypeOK, SectionInv, AloneInv, WriterInv, Writer, Upgraded, Counted, fields, seen, SwitchRead, InSection, RwGoto
  <1> QED BY <1>1, <1>2, <1>3, <1>4, <1>5, <1>6

\* Every step preserves the invariant.
LEMMA NextOK == RwIInv /\ [RwNext]_rw_vars => RwIInv'
  <1> SUFFICES ASSUME RwIInv, [RwNext]_rw_vars PROVE RwIInv'
    OBVIOUS
  <1>1. CASE UNCHANGED rw_vars
    BY ZenonT(60), <1>1 DEF rw_vars, fields, seen, RwIInv, RwTypeOK, SectionInv, RCountExact, Counted,
                WriterInv, Writer, Upgraded, SwInv, SwOwner, Switchable, AloneInv
  <1>2. CASE RwNext
    BY <1>2, CallsOK, GetOK, StartWriteOK, DrainOK, StopWriteOK, StartReadOK,
       StopReadOK, StartSwReadOK, StopSwReadOK, ClearSwOK, SwitchWriteOK,
       SwDrainOK, SwitchReadOK DEF RwNext, RwStep
  <1> QED BY <1>1, <1>2

\* The invariant gives exclusion of writers and of switchable readers.
LEMMA IInvSafe == RwIInv => WriterAlone /\ SwitchableSerial
  BY ZenonT(60) DEF RwIInv, WriterInv, Writer, SwInv, SwOwner, Switchable, AloneInv, Counted,
         WriterAlone, SwitchableSerial

\* The inductive invariant holds whatever macros the processes call.
LEMMA RwInvariance == RwSpec => []RwIInv
  <1>1. RwInit => RwIInv
    BY InitOK
  <1>2. RwIInv /\ [RwNext]_rw_vars => RwIInv'
    BY NextOK
  <1> QED BY <1>1, <1>2, PTL DEF RwSpec

\* For any number of processes, the fields of the lock keep their types.
THEOREM RwTypes == RwSpec => []RwTypeOK
  <1>0. RwSpec => []RwIInv BY RwInvariance
  <1>1. RwIInv => RwTypeOK BY DEF RwIInv
  <1> QED BY <1>0, <1>1, PTL

\* r_count is the number of processes that lock_start_read and lock_start_sw_read
\* have let in and that have not left.
THEOREM RwCountExact == RwSpec => []RCountExact
  <1>0. RwSpec => []RwIInv BY RwInvariance
  <1>1. RwIInv => RCountExact BY DEF RwIInv
  <1> QED BY <1>0, <1>1, PTL

\* A process that may write is alone, whatever the order in which
\* lock_start_write and lock_switch_write raise w_flag.
THEOREM RwWriterAlone == RwSpec => []WriterAlone
  <1>1. RwSpec => []RwIInv BY RwInvariance
  <1> QED BY <1>1, IInvSafe, PTL

\* Switchable readers run one after the other (sw_flag).
THEOREM RwSwitchableSerial == RwSpec => []SwitchableSerial
  <1>1. RwSpec => []RwIInv BY RwInvariance
  <1> QED BY <1>1, IInvSafe, PTL
=============================================================================
