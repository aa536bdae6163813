--------------------------- MODULE TmCell_proofs ---------------------------
(***************************************************************************)
(* Reference counting in TmCell, for any number of cells, workers and      *)
(* messages.  What a worker has to do ends in exactly one UNREF, so        *)
(* ref_count counts the workers at the cell; a cell on its way to          *)
(* free_cell is out of the hash table, so nobody can take a new reference  *)
(* after delete_cell found none.  First the steps of the timer process:    *)
(* wait_handler, delete_handler and delete_cell, and the passes over the   *)
(* timer lists.                                                            *)
(***************************************************************************)
EXTENDS TmCell_inv

\* The provers every leaf is given, unless it names its own.
USE SMTT(10), ZenonT(30), SMTT(60)

----------------------------------------------------------------------------
(***************************************************************************)
(* The calls of the timer process that are not plain.                      *)
(***************************************************************************)
\* A call of wait_handler or delete_cell is replaced by the calls it leads to.
LEMMA TimerDone ==
  ASSUME CallType, WorkerInv, TimerInv, todo[Timer] # <<>>,
         Call(Timer).name # "run_handler_for_each",
         NEW more \in Seq(GoodOps), Done(Timer, more),
         \A i \in 1..Len(more) : more[i].name # "run_handler_for_each",
         \A i \in 2..Len(more) :
            more[i].name \notin WaitNames \cup {"delete_later", "free_cell"},
         \A i \in 1..Len(more) :
            more[i].name \in LastNames => i = Len(more) /\ Len(todo[Timer]) = 2
  PROVE  /\ todo' \in [Actors -> Seq(GoodOps)]
         /\ \A w \in Workers : todo'[w] = todo[w]
         /\ TimerInv'
         /\ \A N : TimerHas(N)' <=>
              \/ \E i \in 1..Len(more) : more[i].name \in N
              \/ \E i \in 2..Len(todo[Timer]) : todo[Timer][i].name \in N
  <1> DEFINE s == todo[Timer]
             r == more \o Tail(s)
  <1>1. s \in Seq(GoodOps) /\ s # <<>> BY DEF CallType, Actors
  <1>2. todo' = [todo EXCEPT ![Timer] = r] BY DEF Done
  <1>3. /\ r \in Seq(GoodOps)
        /\ Len(r) = Len(more) + Len(s) - 1
        /\ \A i \in 1..Len(more) : r[i] = more[i]
        /\ \A i \in Len(more)+1..Len(more)+Len(s)-1 : r[i] = s[i - Len(more) + 1]
    BY <1>1, SeqDone
  <1>4. Len(more) \in Nat /\ Len(s) \in Nat /\ Len(s) # 0
    BY <1>1, SeqLen
  <1>5. EndsIn(s, "run_handler_for_each") /\ Head(s).name # "run_handler_for_each"
    BY <1>1 DEF TimerInv, Call
  <1>6. EndsIn(r, "run_handler_for_each") BY <1>1, <1>5, EndsInDone
  <1>7. \A i \in 2..Len(s) : s[i].name \notin WaitNames \cup {"delete_later", "free_cell"}
    BY <1>1 DEF TimerInv
  <1> HIDE DEF r
  <1>8. \A i \in 2..Len(r) : r[i].name \notin WaitNames \cup {"delete_later", "free_cell"}
    <2> SUFFICES ASSUME NEW i \in 2..Len(r)
                 PROVE  r[i].name \notin WaitNames \cup {"delete_later", "free_cell"}
      OBVIOUS
    <2>1. CASE i <= Len(more) BY <1>3, <1>4, <2>1
    <2>2. CASE i > Len(more)
      <3>1. r[i] = s[i - Len(more) + 1] /\ i - Len(more) + 1 \in 2..Len(s)
        BY <1>3, <1>4, <2>2
      <3> QED BY <1>7, <3>1
    <2> QED BY <1>3, <1>4, <2>1, <2>2
  <1>9. todo'[Timer] = r /\ \A w \in Workers : todo'[w] = todo[w]
    BY <1>2, ConstantsType DEF CallType, Actors
  <1>10. todo' \in [Actors -> Seq(GoodOps)] BY ZenonT(60), <1>2, <1>3 DEF CallType
  <1>13. ASSUME NEW i \in 1..Len(r), r[i].name \in LastNames PROVE i = Len(r) - 1
    <2>1. CASE i <= Len(more)
      <3>1. i \in 1..Len(more) /\ r[i] = more[i] BY <1>3, <1>4, <2>1
      <3>2. i = Len(more) /\ Len(s) = 2 BY <1>13, <3>1
      <3> QED BY <1>3, <1>4, <3>2
    <2>2. CASE i > Len(more)
      <3>1. r[i] = s[i - Len(more) + 1] /\ i - Len(more) + 1 \in 1..Len(s)
        BY <1>3, <1>4, <2>2
      <3>2. i - Len(more) + 1 = Len(s) - 1 BY <1>1, <1>13, <3>1 DEF TimerInv
      <3> QED BY <1>3, <1>4, <3>2
    <2> QED BY <1>3, <1>4, <2>1, <2>2
  <1>11. TimerInv' BY <1>6, <1>8, <1>9, <1>13 DEF TimerInv
  <1>12. ASSUME NEW N
         PROVE  TimerHas(N)' <=> \/ \E i \in 1..Len(more) : more[i].name \in N
                                 \/ \E i \in 2..Len(s) : s[i].name \in N
    <2>1. TimerHas(N)' <=> \E i \in 1..Len(r) : r[i].name \in N BY <1>9 DEF TimerHas
    <2>2. ASSUME NEW i \in 1..Len(r), r[i].name \in N, i > Len(more)
          PROVE  \E j \in 2..Len(s) : s[j].name \in N
      <3>1. r[i] = s[i - Len(more) + 1] /\ i - Len(more) + 1 \in 2..Len(s)
        BY <1>3, <1>4, <2>2
      <3> QED BY <2>2, <3>1
    <2>3. ASSUME NEW i \in 1..Len(r), r[i].name \in N, ~(i > Len(more))
          PROVE  \E j \in 1..Len(more) : more[j].name \in N
      BY <1>3, <1>4, <2>3
    <2>4. ASSUME NEW j \in 2..Len(s), s[j].name \in N
          PROVE  \E i \in 1..Len(r) : r[i].name \in N
      <3>1. Len(more) + j - 1 \in 1..Len(r) /\ r[Len(more) + j - 1] = s[j]
        BY <1>3, <1>4
      <3> QED BY <2>4, <3>1
    <2>5. ASSUME NEW j \in 1..Len(more), more[j].name \in N
          PROVE  \E i \in 1..Len(r) : r[i].name \in N
      <3>1. j \in 1..Len(r) /\ r[j] = more[j] BY <1>3, <1>4
      <3> QED BY <2>5, <3>1
    <2> QED BY <2>1, <2>2, <2>3, <2>4, <2>5
  <1> QED BY <1>9, <1>10, <1>11, <1>12

\* The timer process has c in hand, and how it may go on about it.
LEMMA DeletingCell ==
  ASSUME IInv, NEW name \in WaitNames \cup DelNames, Calls(Timer, name)
  PROVE  /\ cell[Timer] \in Cells
         /\ name \in WaitNames =>
              /\ where[cell[Timer]] = "hashed"
              /\ link[cell[Timer]][WaitTl] = "detached"
              /\ <<cell[Timer], WaitTl>> \notin detached
         /\ name \notin WaitNames =>
              /\ where[cell[Timer]] = "unhashed"
              /\ ~Pending(cell[Timer], DeleTl)
              /\ ~TimerHas(WaitNames)
         /\ name = "free_cell" => ref_count[cell[Timer]] = 0
         /\ name \in LastNames => Len(todo[Timer]) = 2
         /\ \A i \in 2..Len(todo[Timer]) :
              todo[Timer][i].name \notin WaitNames \cup {"delete_later", "free_cell"}
  <1>1. CallType /\ TimerInv /\ DeleteInv BY DEF IInv
  <1>2. todo[Timer] \in Seq(GoodOps) /\ todo[Timer] # <<>>
    BY <1>1 DEF CallType, Actors, Calls
  <1>3. 1 \in 1..Len(todo[Timer]) /\ todo[Timer][1].name = name
        /\ Len(todo[Timer]) \in Nat
    BY <1>2, SeqLen DEF Calls, Call
  <1>4. \A i \in 2..Len(todo[Timer]) :
          todo[Timer][i].name \notin WaitNames \cup {"delete_later", "free_cell"}
    BY <1>1, <1>2 DEF TimerInv
  <1>5. \A N : name \in N => TimerHas(N) BY <1>3 DEF TimerHas
  <1>6. name \notin WaitNames => ~TimerHas(WaitNames) BY <1>3, <1>4 DEF TimerHas
  <1>7. TimerHas(WaitNames \cup DelNames)
    BY <1>5
  <1>8. cell[Timer] \in Cells BY <1>1, <1>7 DEF DeleteInv
  <1>9. ASSUME name \in WaitNames
        PROVE  /\ where[cell[Timer]] = "hashed"
               /\ link[cell[Timer]][WaitTl] = "detached"
               /\ <<cell[Timer], WaitTl>> \notin detached
    BY <1>1, <1>5, <1>9 DEF DeleteInv
  <1>10. ASSUME name \notin WaitNames
         PROVE  where[cell[Timer]] = "unhashed" /\ ~Pending(cell[Timer], DeleTl)
    BY <1>1, <1>5, <1>6, <1>10 DEF DeleteInv
  <1>11. ASSUME name = "free_cell" PROVE ref_count[cell[Timer]] = 0
    <2>1. TimerHas({"free_cell"}) BY <1>5, <1>11
    <2> QED BY <1>1, <2>1 DEF DeleteInv
  <1>12. name \in LastNames => Len(todo[Timer]) = 2
    <2>1. name \in LastNames => 1 = Len(todo[Timer]) - 1
      BY ZenonT(60), <1>1, <1>2, <1>3 DEF TimerInv
    <2> QED BY <1>3, <2>1
  <1> QED BY <1>4, <1>6, <1>8, <1>9, <1>10, <1>11, <1>12

\* A step that changes neither ref_count nor who has which cell keeps the count exact.
LEMMA RefSame ==
  ASSUME RefCountExact, ref_count' = ref_count, cell' = cell
  PROVE  RefCountExact'
  BY DEF RefCountExact

\* Steps of wait_handler and delete_cell that leave the cell where it is, and
\* that lead to at least one more call about it.
LEMMA DeleteStep ==
  ASSUME IInv, NEW name \in WaitNames \cup DelNames, Calls(Timer, name),
         NEW more \in Seq(GoodOps), Done(Timer, more), StateType',
         \A i \in 1..Len(more) : more[i].name # "run_handler_for_each",
         \A i \in 2..Len(more) :
            more[i].name \notin WaitNames \cup {"delete_later", "free_cell"},
         \A i \in 1..Len(more) :
            more[i].name \in LastNames => i = Len(more) /\ name \in LastNames,
         (\E i \in 1..Len(more) : more[i].name \in WaitNames) <=> name \in WaitNames,
         (\E i \in 1..Len(more) : more[i].name = "free_cell")
            => ref_count[cell[Timer]] = 0,
         UNCHANGED <<where, ref_count, cell, detached>>,
         \A c \in Cells : /\ c # cell[Timer] => link'[c] = link[c]
                          /\ link'[c][WaitTl] = link[c][WaitTl]
                          /\ link'[c][DeleTl] = link[c][DeleTl]
  PROVE  IInv'
  <1> DEFINE c == cell[Timer]
  <1>1. /\ CallType /\ WorkerInv /\ TimerInv /\ LinkInv /\ UnbornInv
        /\ RefCountExact /\ NoUseAfterFree /\ DeletedOnce
    BY DEF IInv
  <1>2. todo[Timer] # <<>> /\ Call(Timer).name = name
        /\ name # "run_handler_for_each"
    BY DEF Calls, WaitNames, DelNames
  <1>14. \A i \in 1..Len(more) :
            more[i].name \in LastNames => i = Len(more) /\ Len(todo[Timer]) = 2
    BY DeletingCell
  <1>3. /\ todo' \in [Actors -> Seq(GoodOps)]
        /\ \A w \in Workers : todo'[w] = todo[w]
        /\ TimerInv'
        /\ \A N : TimerHas(N)' <=>
              \/ \E i \in 1..Len(more) : more[i].name \in N
              \/ \E i \in 2..Len(todo[Timer]) : todo[Timer][i].name \in N
    BY <1>1, <1>2, <1>14, TimerDone
  <1>4. /\ c \in Cells
        /\ name \in WaitNames =>
              /\ where[c] = "hashed"
              /\ link[c][WaitTl] = "detached"
              /\ <<c, WaitTl>> \notin detached
        /\ name \notin WaitNames =>
              where[c] = "unhashed" /\ ~Pending(c, DeleTl)
        /\ \A i \in 2..Len(todo[Timer]) :
              todo[Timer][i].name \notin WaitNames \cup {"delete_later", "free_cell"}
    BY DeletingCell
  <1>5. \A d \in Cells : /\ Pending(d, WaitTl)' <=> Pending(d, WaitTl)
                         /\ Pending(d, DeleTl)' <=> Pending(d, DeleTl)
    BY DEF Pending, IsInTimerList
  <1>6. CallType' BY <1>1, <1>3 DEF CallType
  <1>7. WorkerInv' BY <1>1, <1>3 DEF WorkerInv
  <1>8. DeleteInv'
    <2>1. TimerHas(WaitNames)' <=> name \in WaitNames BY <1>3, <1>4
    <2>2. ASSUME TimerHas({"free_cell"})' PROVE ref_count[c] = 0
      <3>1. ~ \E i \in 2..Len(todo[Timer]) : todo[Timer][i].name \in {"free_cell"}
        BY <1>4
      <3> QED BY <1>3, <2>2, <3>1
    <2> QED BY <1>4, <1>5, <2>1, <2>2 DEF DeleteInv
  <1>9. LinkInv' BY ZenonT(60), <1>1 DEF LinkInv
  <1>10. UnbornInv'
    <2>1. where[c] # "unborn" BY <1>4
    <2> QED BY <1>1, <2>1 DEF UnbornInv, Pending, IsInTimerList
  <1>11. NoUseAfterFree' BY <1>1 DEF NoUseAfterFree
  <1>13. RefCountExact'
    <2>1. ref_count' = ref_count /\ cell' = cell OBVIOUS
    <2> QED BY <1>1, <2>1, RefSame
  <1>12. DeletedOnce' BY <1>1, <1>5 DEF DeletedOnce
  <1> QED BY <1>3, <1>13, <1>6, <1>7, <1>8, <1>9, <1>10, <1>11, <1>12 DEF IInv

\* Calls about the cell being deleted.
LEMMA DeleteOps ==
  /\ \A n \in WaitNames \cup DelNames : Do(n) \in GoodOps /\ Do(n).name = n
  /\ \A k \in {"retr", "fr"} : DoOn("unlink", k) \in GoodOps /\ DoOn("unlink", k).name = "unlink"
  <1>1. WaitNames \cup DelNames \subseteq CallNames
        /\ "final_response_handler" \notin WaitNames \cup DelNames
        /\ "unlink" \in WaitNames \cup DelNames
    BY DEF WaitNames, DelNames, CallNames
  <1>2. ASSUME NEW n \in WaitNames \cup DelNames, NEW rb \in OpBufs
        PROVE  Op(n, rb, 0, FALSE) \in GoodOps /\ Op(n, rb, 0, FALSE).name = n
    <2>1. Op(n, rb, 0, FALSE) \in OpType
      <3>1. [name |-> n, rb |-> rb, code |-> 0, flag |-> FALSE]
              \in [name : CallNames, rb : OpBufs, code : ReplyCodes, flag : BOOLEAN]
        BY <1>1, SomeCodes, RecordIn
      <3> QED BY ZenonT(60), <3>1 DEF Op, OpType, OpBufs
    <2>2. Op(n, rb, 0, FALSE).name = n BY DEF Op
    <2> QED BY ZenonT(60), <1>1, <2>1, <2>2 DEF GoodOps
  <1>3. "" \in OpBufs /\ "retr" \in OpBufs /\ "fr" \in OpBufs BY DEF OpBufs
  <1>4. ASSUME NEW n \in WaitNames \cup DelNames PROVE Do(n) \in GoodOps /\ Do(n).name = n
    BY ZenonT(60), <1>2, <1>3 DEF Do
  <1>5. ASSUME NEW k \in {"retr", "fr"}
        PROVE  DoOn("unlink", k) \in GoodOps /\ DoOn("unlink", k).name = "unlink"
    BY ZenonT(60), <1>1, <1>2, <1>3 DEF DoOn
  <1> QED BY <1>4, <1>5

\* wait_handler preserves the invariant: the cell is still in the table.
LEMMA WaitHandlerOK == ASSUME IInv, WaitHandler PROVE IInv'
  <1> DEFINE op1 == Do("remove_from_hash_table")
             op2 == Do("unlink_timers")
             more == << op1, op2 >>
  <1>1. StateType /\ Calls(Timer, "wait_handler") /\ Done(Timer, more)
    BY DEF IInv, WaitHandler
  <1>2. /\ op1 \in GoodOps /\ op1.name = "remove_from_hash_table"
        /\ op2 \in GoodOps /\ op2.name = "unlink_timers"
    BY DeleteOps DEF WaitNames, DelNames
  <1>3. LinksKept(cell[Timer]) /\ link' = link BY <1>1, ResetKept DEF WaitHandler
  <1>4. UNCHANGED <<where, ref_count, tvars, reply_lock, hash_lock, cell,
                    timervars, msgs>>
    BY DEF WaitHandler
  <1>5. StateType' BY <1>1, <1>3, <1>4 DEF StateType, LinksKept, tvars, timervars
  <1> HIDE DEF op1, op2
  <1>6. more \in Seq(GoodOps) /\ Len(more) = 2 /\ more[1] = op1 /\ more[2] = op2
    BY <1>2
  <1> HIDE DEF more
  <1>7. /\ \A i \in 1..Len(more) : more[i].name # "run_handler_for_each"
        /\ \A i \in 2..Len(more) :
             more[i].name \notin WaitNames \cup {"delete_later", "free_cell"}
        /\ \E i \in 1..Len(more) : more[i].name \in WaitNames
        /\ "wait_handler" \in WaitNames
        /\ ~ \E i \in 1..Len(more) : more[i].name = "free_cell"
        /\ \A i \in 1..Len(more) : more[i].name \in LastNames => i = Len(more)
        /\ "wait_handler" \in LastNames
    BY <1>2, <1>6 DEF WaitNames, LastNames
  <1>8. UNCHANGED <<where, ref_count, cell, detached>> BY <1>4 DEF timervars
  <1> QED BY ZenonT(60), <1>1, <1>3, <1>5, <1>6, <1>7, <1>8, DeleteStep

\* The look of unlink_timers preserves the invariant.
LEMMA UnlinkTimersOK == ASSUME IInv, UnlinkTimers PROVE IInv'
  <1> DEFINE op1 == DoOn("unlink", "retr")
             op2 == DoOn("unlink", "fr")
             op3 == Do("test_ref")
             more == << op1, op2, op3 >>
  <1>1. StateType /\ Calls(Timer, "unlink_timers") /\ Done(Timer, more)
    BY DEF IInv, UnlinkTimers
  <1>2. /\ op1 \in GoodOps /\ op1.name = "unlink"
        /\ op2 \in GoodOps /\ op2.name = "unlink"
        /\ op3 \in GoodOps /\ op3.name = "test_ref"
    BY DeleteOps DEF DelNames
  <1>3. /\ remove' \subseteq {"retr", "fr"}
        /\ UNCHANGED <<where, ref_count, tlvars, tvars, reply_lock, hash_lock, cell,
                       detached, msgs>>
    BY DEF UnlinkTimers
  <1>5. StateType' BY <1>1, <1>3 DEF StateType, tlvars, tvars
  <1> HIDE DEF op1, op2, op3
  <1>6. more \in Seq(GoodOps) /\ Len(more) = 3
        /\ more[1] = op1 /\ more[2] = op2 /\ more[3] = op3
    BY <1>2
  <1> HIDE DEF more
  <1>7. /\ \A i \in 1..Len(more) : more[i].name \in {"unlink", "test_ref"}
        /\ "unlink_timers" \in DelNames /\ "unlink_timers" \notin WaitNames
    BY <1>2, <1>6 DEF DelNames, WaitNames
  <1>8. /\ \A i \in 1..Len(more) : more[i].name # "run_handler_for_each"
        /\ \A i \in 2..Len(more) :
             more[i].name \notin WaitNames \cup {"delete_later", "free_cell"}
        /\ ~ \E i \in 1..Len(more) : more[i].name \in WaitNames
        /\ ~ \E i \in 1..Len(more) : more[i].name = "free_cell"
    BY <1>6, <1>7 DEF WaitNames
  <1>10. /\ \A i \in 1..Len(more) : more[i].name \in LastNames => i = Len(more)
         /\ "unlink_timers" \in LastNames
    BY <1>2, <1>6 DEF LastNames
  <1>9. UNCHANGED <<where, ref_count, cell, detached>> /\ link' = link
    BY <1>3 DEF tlvars
  <1> QED BY ZenonT(60), <1>1, <1>5, <1>6, <1>7, <1>8, <1>9, <1>10, DeleteStep

\* Removing the timers found linked preserves the invariant.
LEMMA UnlinkOK == ASSUME IInv, Unlink PROVE IInv'
  <1> DEFINE c == cell[Timer]
             more == <<>>
  <1>1. StateType /\ Calls(Timer, "unlink") /\ Done(Timer, more) BY DEF IInv, Unlink
  <1>2. "unlink" \in DelNames /\ "unlink" \notin WaitNames BY DEF DelNames, WaitNames
  <1>3. c \in Cells BY <1>1, <1>2, DeletingCell
  <1>4. UNCHANGED <<where, ref_count, deleted, tvars, reply_lock, hash_lock, cell,
                    timervars, msgs>>
    BY DEF Unlink
  <1>5. PICK L \in SUBSET (RetrLinks \cup FrLinks) :
          link' = [link EXCEPT ![c] = [l \in Links |-> IF l \in L THEN "none" ELSE @[l]]]
    BY ZenonT(60) DEF Unlink
  <1> DEFINE h == [l \in Links |-> IF l \in L THEN "none" ELSE link[c][l]]
  <1>6. /\ h \in [Links -> LinkStates]
        /\ h[WaitTl] = link[c][WaitTl] /\ h[DeleTl] = link[c][DeleTl]
    <2>1. "none" \in LinkStates BY DEF LinkStates
    <2>2. WaitTl \notin L /\ DeleTl \notin L
      BY DEF RetrLinks, FrLinks, WaitTl, DeleTl
    <2>3. WaitTl \in Links /\ DeleTl \in Links BY DEF Links
    <2>4. link[c] \in [Links -> LinkStates] BY <1>1, <1>3 DEF StateType
    <2> QED BY <2>1, <2>2, <2>3, <2>4
  <1>7. link' = [link EXCEPT ![c] = h] BY <1>5
  <1> HIDE DEF h
  <1>8. link' \in [Cells -> [Links -> LinkStates]] BY ZenonT(60), <1>1, <1>6, <1>7 DEF StateType
  <1>9. \A d \in Cells : /\ d # c => link'[d] = link[d]
                         /\ link'[d][WaitTl] = link[d][WaitTl]
                         /\ link'[d][DeleTl] = link[d][DeleTl]
    BY <1>1, <1>6, <1>7 DEF StateType
  <1>10. StateType' BY <1>1, <1>4, <1>8 DEF StateType, tvars, timervars
  <1>11. UNCHANGED <<where, ref_count, cell, detached>> BY <1>4 DEF timervars
  <1>12. more \in Seq(GoodOps) /\ Len(more) = 0 OBVIOUS
  <1> HIDE DEF more
  <1>13. /\ \A i \in 1..Len(more) : more[i].name # "run_handler_for_each"
         /\ \A i \in 2..Len(more) :
              more[i].name \notin WaitNames \cup {"delete_later", "free_cell"}
         /\ ~ \E i \in 1..Len(more) : more[i].name \in WaitNames
         /\ ~ \E i \in 1..Len(more) : more[i].name = "free_cell"
         /\ ~ \E i \in 1..Len(more) : more[i].name \in LastNames
    BY <1>12
  <1> QED BY ZenonT(60), <1>1, <1>2, <1>9, <1>10, <1>11, <1>12, <1>13, DeleteStep

\* The test of ref_count in delete_cell preserves the invariant: free_cell follows
\* only if no worker is at the cell.
LEMMA TestRefOK == ASSUME IInv, TestRef PROVE IInv'
  <1> DEFINE op == IF ref_count[cell[Timer]] # 0
                   THEN Do("delete_later") ELSE Do("free_cell")
             more == << op >>
  <1>1. StateType /\ Calls(Timer, "test_ref") /\ Done(Timer, more)
    BY DEF IInv, TestRef
  <1>2. /\ op \in GoodOps /\ op.name \in {"delete_later", "free_cell"}
        /\ op.name = "free_cell" => ref_count[cell[Timer]] = 0
    <2>1. /\ Do("delete_later") \in GoodOps /\ Do("delete_later").name = "delete_later"
          /\ Do("free_cell") \in GoodOps /\ Do("free_cell").name = "free_cell"
      BY DeleteOps DEF DelNames
    <2> QED BY <2>1
  <1>3. /\ hash_lock' = None
        /\ UNCHANGED <<where, ref_count, tlvars, tvars, reply_lock, cell, timervars, msgs>>
    BY DEF TestRef
  <1>4. StateType' BY <1>1, <1>3 DEF StateType, tlvars, tvars, timervars
  <1>5. UNCHANGED <<where, ref_count, cell, detached>> /\ link' = link
    BY <1>3 DEF tlvars, timervars
  <1>6. "test_ref" \in DelNames /\ "test_ref" \notin WaitNames BY DEF DelNames, WaitNames
  <1> HIDE DEF op
  <1>7. more \in Seq(GoodOps) /\ Len(more) = 1 /\ more[1] = op BY <1>2
  <1> HIDE DEF more
  <1>8. /\ \A i \in 1..Len(more) : more[i].name # "run_handler_for_each"
        /\ \A i \in 2..Len(more) :
             more[i].name \notin WaitNames \cup {"delete_later", "free_cell"}
        /\ ~ \E i \in 1..Len(more) : more[i].name \in WaitNames
        /\ (\E i \in 1..Len(more) : more[i].name = "free_cell")
             => ref_count[cell[Timer]] = 0
        /\ \A i \in 1..Len(more) : i = Len(more)
        /\ "test_ref" \in LastNames
    BY <1>2, <1>7 DEF WaitNames, LastNames
  <1> QED BY ZenonT(60), <1>1, <1>4, <1>5, <1>6, <1>7, <1>8, DeleteStep

\* Calls of the timer process that end its work on the cell.
LEMMA LastCall ==
  ASSUME IInv, NEW name \in WaitNames \cup DelNames, Calls(Timer, name),
         Done(Timer, <<>>)
  PROVE  /\ todo' \in [Actors -> Seq(GoodOps)]
         /\ \A w \in Workers : todo'[w] = todo[w]
         /\ TimerInv'
         /\ ~TimerHas(WaitNames)' /\ ~TimerHas({"free_cell"})'
         /\ TimerHas(DelNames)' =>
              \E i \in 2..Len(todo[Timer]) : todo[Timer][i].name \in DelNames
         /\ name \in LastNames => ~TimerHas(DelNames)'
  <1> DEFINE more == <<>>
  <1>1. CallType /\ WorkerInv /\ TimerInv BY DEF IInv
  <1>2. todo[Timer] # <<>> /\ Call(Timer).name # "run_handler_for_each"
    BY DEF Calls, WaitNames, DelNames
  <1>3. more \in Seq(GoodOps) /\ Len(more) = 0 /\ Done(Timer, more) OBVIOUS
  <1>4. \A i \in 2..Len(todo[Timer]) :
          todo[Timer][i].name \notin WaitNames \cup {"delete_later", "free_cell"}
    BY DeletingCell
  <1> HIDE DEF more
  <1>9. /\ \A i \in 1..Len(more) : more[i].name # "run_handler_for_each"
        /\ \A i \in 2..Len(more) :
             more[i].name \notin WaitNames \cup {"delete_later", "free_cell"}
        /\ ~ \E i \in 1..Len(more) : TRUE
        /\ \A i \in 1..Len(more) :
             more[i].name \in LastNames => i = Len(more) /\ Len(todo[Timer]) = 2
    BY <1>3
  <1>5. /\ todo' \in [Actors -> Seq(GoodOps)]
        /\ \A w \in Workers : todo'[w] = todo[w]
        /\ TimerInv'
        /\ \A N : TimerHas(N)' <=>
              \/ \E i \in 1..Len(more) : more[i].name \in N
              \/ \E i \in 2..Len(todo[Timer]) : todo[Timer][i].name \in N
    BY ZenonT(60), <1>1, <1>2, <1>3, <1>9, TimerDone
  <1>6. \A N : TimerHas(N)' <=>
          \E i \in 2..Len(todo[Timer]) : todo[Timer][i].name \in N
    BY <1>9, <1>5
  <1>7. ~TimerHas({"free_cell"})' BY <1>4, <1>6
  <1>8. ~TimerHas(WaitNames)' BY <1>4, <1>6
  <1>10. ASSUME name \in LastNames PROVE ~TimerHas(DelNames)'
    <2>1. Len(todo[Timer]) = 2 BY <1>10, DeletingCell
    <2>2. todo[Timer][2].name = "run_handler_for_each"
      BY <1>1, <1>2, <2>1 DEF TimerInv, EndsIn
    <2>3. "run_handler_for_each" \notin DelNames BY DEF DelNames
    <2> QED BY <1>6, <2>1, <2>2, <2>3
  <1> QED BY <1>5, <1>6, <1>7, <1>8, <1>10

\* remove_from_hash_table_unsafe preserves the invariant.
LEMMA RemoveFromHashTableOK == ASSUME IInv, RemoveFromHashTable PROVE IInv'
  <1> DEFINE c == cell[Timer]
  <1>1. /\ StateType /\ CallType /\ WorkerInv /\ LinkInv /\ UnbornInv
        /\ RefCountExact /\ NoUseAfterFree /\ DeletedOnce
    BY DEF IInv
  <1>2. Calls(Timer, "remove_from_hash_table") /\ Done(Timer, <<>>)
        /\ "remove_from_hash_table" \in WaitNames
    BY DEF RemoveFromHashTable, WaitNames
  <1>3. /\ c \in Cells /\ where[c] = "hashed"
        /\ link[c][WaitTl] = "detached" /\ <<c, WaitTl>> \notin detached
    BY <1>2, DeletingCell
  <1>4. /\ todo' \in [Actors -> Seq(GoodOps)]
        /\ \A w \in Workers : todo'[w] = todo[w]
        /\ TimerInv'
        /\ ~TimerHas(WaitNames)' /\ ~TimerHas({"free_cell"})'
    BY <1>2, LastCall
  <1>5. /\ where' = [where EXCEPT ![c] = "unhashed"] /\ hash_lock' = Timer
        /\ UNCHANGED <<ref_count, tlvars, tvars, reply_lock, cell, timervars, msgs>>
    BY DEF RemoveFromHashTable
  <1>6. /\ ref_count' = ref_count /\ cell' = cell /\ detached' = detached
        /\ link' = link
    BY <1>5 DEF tlvars, timervars
  <1>7. StateType' BY ZenonT(60), <1>1, <1>5 DEF StateType, tlvars, tvars, timervars
  <1>8. CallType' BY <1>1, <1>4, <1>6 DEF CallType
  <1>9. WorkerInv' BY <1>1, <1>4, <1>6 DEF WorkerInv
  <1>10. \A d \in Cells : \A l : Pending(d, l)' <=> Pending(d, l)
    BY <1>6 DEF Pending, IsInTimerList
  <1>11. /\ where'[c] = "unhashed"
         /\ \A d \in Cells : d # c => where'[d] = where[d]
    BY <1>1, <1>3, <1>5 DEF StateType
  <1>12. ~Pending(c, DeleTl) BY <1>1, <1>3 DEF DeletedOnce
  <1>13. ~Pending(c, WaitTl)
    BY <1>3 DEF Pending, IsInTimerList, TimerLists
  <1>14. DeleteInv' BY <1>3, <1>4, <1>6, <1>10, <1>11, <1>12 DEF DeleteInv
  <1>15. LinkInv' BY ZenonT(60), <1>1, <1>3, <1>6, <1>11 DEF LinkInv
  <1>16. UnbornInv' BY <1>1, <1>6, <1>10, <1>11 DEF UnbornInv
  <1>17. RefCountExact' BY <1>1, <1>6, RefSame
  <1>18. NoUseAfterFree'
    <2> SUFFICES ASSUME NEW w \in Workers, cell[w] # None
                 PROVE  where'[cell[w]] # "freed"
      BY <1>6 DEF NoUseAfterFree
    <2>1. cell[w] \in Cells BY <1>1 DEF CallType, Actors
    <2> QED BY <1>1, <1>11, <2>1 DEF NoUseAfterFree
  <1>19. DeletedOnce' BY <1>1, <1>10, <1>11, <1>13 DEF DeletedOnce
  <1> QED BY <1>4, <1>7, <1>8, <1>9, <1>14, <1>15, <1>16, <1>17, <1>18, <1>19 DEF IInv

\* delete_cell of a referenced cell: its delete timer is set.
LEMMA DeleteLaterOK == ASSUME IInv, DeleteLater PROVE IInv'
  <1> DEFINE c == cell[Timer]
  <1>1. /\ StateType /\ CallType /\ WorkerInv /\ LinkInv /\ UnbornInv
        /\ RefCountExact /\ NoUseAfterFree /\ DeletedOnce
    BY DEF IInv
  <1>2. Calls(Timer, "delete_later") /\ Done(Timer, <<>>)
        /\ "delete_later" \in DelNames /\ "delete_later" \notin WaitNames
        /\ "delete_later" \in LastNames
    BY DEF DeleteLater, DelNames, WaitNames, LastNames
  <1>3. c \in Cells /\ where[c] = "unhashed" /\ ~Pending(c, DeleTl)
    BY <1>2, DeletingCell
  <1>4. /\ todo' \in [Actors -> Seq(GoodOps)]
        /\ \A w \in Workers : todo'[w] = todo[w]
        /\ TimerInv'
        /\ ~TimerHas(WaitNames)' /\ ~TimerHas({"free_cell"})' /\ ~TimerHas(DelNames)'
    BY <1>2, LastCall
  <1>5. /\ InsertTimer(c, DeleTl, "DELETE")
        /\ UNCHANGED <<where, ref_count, tvars, reply_lock, hash_lock, cell,
                       timervars, msgs>>
    BY DEF DeleteLater
  <1>6. where' = where /\ ref_count' = ref_count /\ cell' = cell /\ detached' = detached
    BY <1>5 DEF timervars
  <1>7. /\ link' \in [Cells -> [Links -> LinkStates]]
        /\ deleted' \in [Cells -> [Links -> BOOLEAN]]
        /\ \A d \in Cells : d # c => link'[d] = link[d]
        /\ \A d \in Cells : \A m \in Links :
             link'[d][m] = IF d = c /\ m = DeleTl THEN "DELETE" ELSE link[d][m]
    <2>1. "DELETE" \in TimerLists BY DEF TimerLists
    <2> QED BY <1>1, <1>5, <2>1, InsertTyped
  <1>8. StateType' BY <1>1, <1>5, <1>7 DEF StateType, tvars, timervars
  <1>9. CallType' BY <1>1, <1>4, <1>6 DEF CallType
  <1>10. WorkerInv' BY <1>1, <1>4, <1>6 DEF WorkerInv
  <1>11. DeleteInv'
    <2>1. ~TimerHas(WaitNames \cup DelNames)' BY <1>4 DEF TimerHas
    <2> QED BY <1>4, <2>1 DEF DeleteInv
  <1>12. WaitTl \in Links /\ DeleTl \in Links /\ WaitTl # DeleTl
    BY DEF Links, WaitTl, DeleTl
  <1>13. \A d \in Cells : link'[d][WaitTl] = link[d][WaitTl] BY <1>7, <1>12
  <1>14. <<c, DeleTl>> \notin detached BY <1>3 DEF Pending
  <1>15. \A d \in Cells : d # c => link'[d][DeleTl] = link[d][DeleTl] BY <1>7
  <1>16. LinkInv'
    <2> SUFFICES ASSUME NEW d \in Cells
                 PROVE  /\ where[d] \in {"unhashed", "freed"} => link'[d][WaitTl] # "never"
                        /\ \A l \in {WaitTl, DeleTl} :
                             <<d, l>> \in detached => link'[d][l] = "detached"
      BY ZenonT(60), <1>6 DEF LinkInv
    <2>1. /\ where[d] \in {"unhashed", "freed"} => link[d][WaitTl] # "never"
          /\ <<d, WaitTl>> \in detached => link[d][WaitTl] = "detached"
          /\ <<d, DeleTl>> \in detached => link[d][DeleTl] = "detached"
      BY <1>1 DEF LinkInv
    <2> QED BY <1>13, <1>14, <1>15, <2>1
  <1>17. UnbornInv'
    <2>1. where[c] # "unborn" BY <1>3
    <2> QED BY <1>1, <1>6, <1>7, <2>1 DEF UnbornInv, Pending, IsInTimerList
  <1>18. RefCountExact' BY <1>1, <1>6, RefSame
  <1>19. NoUseAfterFree' BY <1>1, <1>6 DEF NoUseAfterFree
  <1>20. DeletedOnce'
    <2> SUFFICES ASSUME NEW d \in Cells
                 PROVE  /\ Pending(d, WaitTl)' => where[d] = "hashed"
                        /\ Pending(d, DeleTl)' => where[d] = "unhashed"
      BY <1>6 DEF DeletedOnce
    <2>1. Pending(d, WaitTl)' <=> Pending(d, WaitTl)
      BY <1>6, <1>13 DEF Pending, IsInTimerList
    <2>2. d # c => (Pending(d, DeleTl)' <=> Pending(d, DeleTl))
      BY <1>6, <1>15 DEF Pending, IsInTimerList
    <2> QED BY <1>1, <1>3, <2>1, <2>2 DEF DeletedOnce
  <1> QED BY <1>4, <1>8, <1>9, <1>10, <1>11, <1>16, <1>17, <1>18, <1>19, <1>20 DEF IInv

\* delete_cell of a cell found unreferenced: no worker has come to it since.
LEMMA FreeCellOK == ASSUME IInv, FreeCell PROVE IInv'
  <1> DEFINE c == cell[Timer]
  <1>1. /\ StateType /\ CallType /\ WorkerInv /\ LinkInv /\ UnbornInv
        /\ RefCountExact /\ NoUseAfterFree /\ DeletedOnce
    BY DEF IInv
  <1>2. Calls(Timer, "free_cell") /\ Done(Timer, <<>>)
        /\ "free_cell" \in DelNames /\ "free_cell" \notin WaitNames
        /\ "free_cell" \in LastNames
    BY DEF FreeCell, DelNames, WaitNames, LastNames
  <1>3. c \in Cells /\ where[c] = "unhashed" /\ ~Pending(c, DeleTl) /\ ref_count[c] = 0
    BY <1>2, DeletingCell
  <1>4. /\ todo' \in [Actors -> Seq(GoodOps)]
        /\ \A w \in Workers : todo'[w] = todo[w]
        /\ TimerInv'
        /\ ~TimerHas(WaitNames)' /\ ~TimerHas({"free_cell"})' /\ ~TimerHas(DelNames)'
    BY <1>2, LastCall
  <1>5. /\ where' = [where EXCEPT ![c] = "freed"]
        /\ cell' = [cell EXCEPT ![Timer] = None]
        /\ UNCHANGED <<ref_count, tlvars, tvars, reply_lock, hash_lock, timervars, msgs>>
    BY DEF FreeCell
  <1>6. ref_count' = ref_count /\ link' = link /\ detached' = detached
    BY <1>5 DEF timervars, tlvars
  <1>7. /\ cell' \in [Actors -> Cells \cup {None}] /\ cell'[Timer] = None
        /\ \A w \in Workers : cell'[w] = cell[w]
    BY <1>1, <1>5, ConstantsType DEF CallType, Actors
  <1>8. StateType' BY ZenonT(60), <1>1, <1>5 DEF StateType, tlvars, tvars, timervars
  <1>9. CallType' BY <1>1, <1>4, <1>6, <1>7 DEF CallType
  <1>10. WorkerInv' BY <1>1, <1>4, <1>7 DEF WorkerInv
  <1>11. DeleteInv'
    <2>1. ~TimerHas(WaitNames \cup DelNames)' BY <1>4 DEF TimerHas
    <2> QED BY <1>4, <2>1 DEF DeleteInv
  <1>12. /\ where'[c] = "freed"
         /\ \A d \in Cells : d # c => where'[d] = where[d]
    BY <1>1, <1>3, <1>5 DEF StateType
  <1>13. \A d \in Cells : \A l : Pending(d, l)' <=> Pending(d, l)
    BY <1>6 DEF Pending, IsInTimerList
  <1>14. LinkInv' BY ZenonT(60), <1>1, <1>3, <1>6, <1>12 DEF LinkInv
  <1>15. UnbornInv'
    <2>1. \A a \in Actors : cell'[a] = cell[a] \/ cell'[a] = None
      BY <1>7 DEF Actors
    <2>2. None \notin Cells BY ConstantsType
    <2> QED BY <1>1, <1>12, <1>13, <2>1, <2>2 DEF UnbornInv
  <1>16. RefCountExact' BY <1>1, <1>6, <1>7, RefSameWorkers
  <1>17. NoUseAfterFree'
    <2> SUFFICES ASSUME NEW w \in Workers, cell[w] # None
                 PROVE  where'[cell[w]] # "freed"
      BY <1>7 DEF NoUseAfterFree
    <2>1. cell[w] \in Cells BY <1>1 DEF CallType, Actors
    <2>2. cell[w] # c
      <3>1. Cardinality({v \in Workers : cell[v] = c}) = 0
        BY <1>1, <1>3 DEF RefCountExact
      <3>2. IsFiniteSet({v \in Workers : cell[v] = c})
        BY ConstantsType, FS_Subset
      <3>3. {v \in Workers : cell[v] = c} = {} BY <3>1, <3>2, FS_EmptySet
      <3> QED BY <3>3
    <2> QED BY <1>1, <1>12, <2>1, <2>2 DEF NoUseAfterFree
  <1>18. DeletedOnce'
    <2>1. ~Pending(c, WaitTl) BY <1>1, <1>3 DEF DeletedOnce
    <2> QED BY <1>1, <1>3, <1>12, <1>13, <2>1 DEF DeletedOnce
  <1> QED BY <1>4, <1>8, <1>9, <1>10, <1>11, <1>14, <1>15, <1>16, <1>17, <1>18 DEF IInv

----------------------------------------------------------------------------
(***************************************************************************)
(* The timer process between handlers.                                     *)
(***************************************************************************)
\* A step of the timer process that leaves workers, the hash table and the
\* reference counts alone and makes no timer pending.
LEMMA TimerFrame ==
  ASSUME IInv, StateType', where' = where, ref_count' = ref_count,
         todo' \in [Actors -> Seq(GoodOps)], cell' \in [Actors -> Cells \cup {None}],
         \A w \in Workers : todo'[w] = todo[w] /\ cell'[w] = cell[w],
         TimerInv', DeleteInv', LinkInv',
         \A c \in Cells : \A l \in Links : Pending(c, l)' => Pending(c, l),
         \A c \in Cells : cell'[Timer] = c => where[c] # "unborn"
  PROVE  IInv'
  <1>1. /\ StateType /\ CallType /\ WorkerInv /\ UnbornInv
        /\ RefCountExact /\ NoUseAfterFree /\ DeletedOnce
    BY DEF IInv
  <1>2. CallType' BY <1>1 DEF CallType
  <1>3. WorkerInv'
    <2> SUFFICES ASSUME NEW v \in Workers
                 PROVE  /\ cell'[v] = None <=> todo'[v] = <<>>
                        /\ todo'[v] # <<>> => EndsIn(todo'[v], "UNREF")
      BY DEF WorkerInv
    <2>1. todo'[v] = todo[v] /\ cell'[v] = cell[v] OBVIOUS
    <2> QED BY <1>1, <2>1 DEF WorkerInv
  <1>4. RefCountExact' BY <1>1, RefSameWorkers
  <1>5. NoUseAfterFree'
    <2> SUFFICES ASSUME NEW v \in Workers, cell'[v] # None
                 PROVE  where'[cell'[v]] # "freed"
      BY DEF NoUseAfterFree
    <2>1. cell'[v] = cell[v] OBVIOUS
    <2> QED BY <1>1, <2>1 DEF NoUseAfterFree
  <1>6. UnbornInv'
    <2> SUFFICES ASSUME NEW d \in Cells, where[d] = "unborn"
                 PROVE  /\ \A l \in Links : ~Pending(d, l)'
                        /\ \A a \in Actors : cell'[a] # d
      BY DEF UnbornInv
    <2>1. \A l \in Links : ~Pending(d, l)' BY <1>1 DEF UnbornInv
    <2>2. \A a \in Workers : cell'[a] # d BY <1>1 DEF UnbornInv, Actors
    <2>3. cell'[Timer] # d OBVIOUS
    <2> QED BY <2>1, <2>2, <2>3 DEF Actors
  <1>7. DeletedOnce'
    <2>1. WaitTl \in Links /\ DeleTl \in Links BY DEF Links
    <2> SUFFICES ASSUME NEW d \in Cells
                 PROVE  /\ Pending(d, WaitTl)' => where[d] = "hashed"
                        /\ Pending(d, DeleTl)' => where[d] = "unhashed"
      BY DEF DeletedOnce
    <2> QED BY <1>1, <2>1 DEF DeletedOnce
  <1> QED BY <1>2, <1>3, <1>4, <1>5, <1>6, <1>7 DEF IInv

\* Between handlers run_handler_for_each is all the timer process has to do.
LEMMA OnlyRunHandler ==
  ASSUME IInv, Calls(Timer, "run_handler_for_each")
  PROVE  /\ todo[Timer] \in Seq(GoodOps)
         /\ Len(todo[Timer]) = 1
         /\ todo[Timer][1].name = "run_handler_for_each"
  <1>1. CallType /\ TimerInv BY DEF IInv
  <1>2. todo[Timer] \in Seq(GoodOps) /\ todo[Timer] # <<>>
        /\ Head(todo[Timer]).name = "run_handler_for_each"
    BY <1>1 DEF CallType, Calls, Call, Actors
  <1>3. EndsIn(todo[Timer], "run_handler_for_each") BY <1>1, <1>2 DEF TimerInv
  <1>4. Len(todo[Timer]) \in Nat /\ Len(todo[Timer]) # 0
    BY <1>2, SeqLen
  <1>5. Head(todo[Timer]) = todo[Timer][1] BY <1>2
  <1>6. 1 \in 1..Len(todo[Timer]) BY <1>4
  <1>7. todo[Timer][1].name = "run_handler_for_each" <=> 1 = Len(todo[Timer])
    BY ZenonT(60), <1>3, <1>6 DEF EndsIn
  <1> QED BY <1>2, <1>5, <1>7

\* The list of detached timers is done.
LEMMA HandlersDoneOK == ASSUME IInv, HandlersDone PROVE IInv'
  <1>1. StateType /\ CallType /\ LinkInv /\ UnbornInv BY DEF IInv
  <1>2. /\ Calls(Timer, "run_handler_for_each") /\ Done(Timer, <<>>)
        /\ cell' = [cell EXCEPT ![Timer] = None]
        /\ UNCHANGED <<where, ref_count, tlvars, tvars, reply_lock, hash_lock,
                       timervars, msgs>>
    BY DEF HandlersDone
  <1>3. todo[Timer] \in Seq(GoodOps) /\ Len(todo[Timer]) = 1 BY <1>2, OnlyRunHandler
  <1>4. <<>> \o Tail(todo[Timer]) = <<>>
    <2>1. <<>> \in Seq(GoodOps) /\ Len(<<>>) = 0 OBVIOUS
    <2>2. todo[Timer] # <<>> BY <1>2 DEF Calls
    <2>3. <<>> \o Tail(todo[Timer]) \in Seq(GoodOps) /\ Len(<<>> \o Tail(todo[Timer])) = 0
      BY <1>3, <2>1, <2>2, SeqDone
    <2> QED BY ZenonT(60), <2>3, SeqLen
  <1>5. todo' = [todo EXCEPT ![Timer] = <<>>] BY ZenonT(60), <1>2, <1>4 DEF Done
  <1>6. /\ todo'[Timer] = <<>> /\ todo' \in [Actors -> Seq(GoodOps)]
        /\ cell'[Timer] = None /\ cell' \in [Actors -> Cells \cup {None}]
        /\ \A w \in Workers : todo'[w] = todo[w] /\ cell'[w] = cell[w]
    BY <1>1, <1>2, <1>5, ConstantsType DEF CallType, Actors
  <1>7. where' = where /\ ref_count' = ref_count /\ link' = link /\ detached' = detached
    BY <1>2 DEF tlvars, timervars
  <1>8. StateType' BY <1>1, <1>2 DEF StateType, tlvars, tvars, timervars
  <1>9. TimerInv' BY <1>6 DEF TimerInv
  <1>10. DeleteInv'
    <2>1. \A N : ~TimerHas(N)' BY <1>6 DEF TimerHas
    <2> QED BY <2>1 DEF DeleteInv
  <1>11. LinkInv' BY ZenonT(60), <1>1, <1>7 DEF LinkInv
  <1>12. \A c \in Cells : \A l \in Links : Pending(c, l)' => Pending(c, l)
    BY <1>7 DEF Pending, IsInTimerList
  <1>13. None \notin Cells BY ConstantsType
  <1> QED BY ZenonT(60), <1>6, <1>7, <1>8, <1>9, <1>10, <1>11, <1>12, <1>13, TimerFrame

\* The handler of each kind of link.
LEMMA HandlerOps ==
  ASSUME NEW l \in Links
  PROVE  /\ Handler(l) \in GoodOps
         /\ Handler(l).name \in {"retransmission_handler", "final_response_handler",
                                 "wait_handler", "unlink_timers"}
         /\ Handler(l).name = "wait_handler" => l = WaitTl
         /\ Handler(l).name = "unlink_timers" => l = DeleTl
  <1>1. ASSUME NEW n \in {"retransmission_handler", "final_response_handler",
                          "wait_handler", "unlink_timers"},
               NEW rb \in OpBufs, n = "final_response_handler" => rb \in RetrBufs
        PROVE  Op(n, rb, 0, FALSE) \in GoodOps /\ Op(n, rb, 0, FALSE).name = n
    <2>1. n \in CallNames BY DEF CallNames
    <2>2. [name |-> n, rb |-> rb, code |-> 0, flag |-> FALSE]
            \in [name : CallNames, rb : OpBufs, code : ReplyCodes, flag : BOOLEAN]
      BY <2>1, SomeCodes, RecordIn
    <2>3. Op(n, rb, 0, FALSE) \in OpType BY ZenonT(60), <2>2 DEF Op, OpType, OpBufs
    <2>4. Op(n, rb, 0, FALSE).name = n /\ Op(n, rb, 0, FALSE).rb = rb BY DEF Op
    <2> QED BY ZenonT(60), <1>1, <2>3, <2>4 DEF GoodOps
  <1>2. CASE l \in RetrLinks
    <2>1. l[1] = "retr" /\ l[2] \in RetrBufs BY <1>2 DEF RetrLinks
    <2>2. Handler(l) = Op("retransmission_handler", l[2], 0, FALSE)
      BY <2>1 DEF Handler, DoOn
    <2>3. l[2] \in OpBufs BY ZenonT(60), <2>1 DEF OpBufs
    <2> QED BY ZenonT(60), <1>1, <2>2, <2>3
  <1>3. CASE l \in FrLinks
    <2>1. l[1] = "fr" /\ l[2] \in RetrBufs BY <1>3 DEF FrLinks
    <2>2. Handler(l) = Op("final_response_handler", l[2], 0, FALSE)
      BY <2>1 DEF Handler, DoOn
    <2>3. l[2] \in OpBufs BY ZenonT(60), <2>1 DEF OpBufs
    <2> QED BY ZenonT(60), <1>1, <2>1, <2>2, <2>3
  <1>4. CASE l = WaitTl
    <2>1. l[1] = "wait_tl" BY <1>4 DEF WaitTl
    <2>2. Handler(l) = Op("wait_handler", "", 0, FALSE) BY <2>1 DEF Handler, Do
    <2>3. "" \in OpBufs BY DEF OpBufs
    <2> QED BY ZenonT(60), <1>1, <1>4, <2>2, <2>3
  <1>5. CASE l = DeleTl
    <2>1. l[1] = "dele_tl" BY <1>5 DEF DeleTl
    <2>2. Handler(l) = Op("unlink_timers", "", 0, FALSE) BY <2>1 DEF Handler, Do
    <2>3. "" \in OpBufs BY DEF OpBufs
    <2> QED BY ZenonT(60), <1>1, <1>5, <2>2, <2>3
  <1> QED BY <1>2, <1>3, <1>4, <1>5 DEF Links

\* A handler starts: a wait timer is detached once, on a hashed cell; a delete
\* timer fires on a cell that is out of the table.
LEMMA RunHandlerOK == ASSUME IInv, NEW x \in detached, RunHandler(x) PROVE IInv'
  <1>1. /\ StateType /\ CallType /\ TimerInv /\ LinkInv /\ UnbornInv
        /\ DeletedOnce /\ DeleteInv
    BY DEF IInv
  <1>2. /\ Calls(Timer, "run_handler_for_each") /\ detached' = detached \ {x}
        /\ UNCHANGED <<where, ref_count, tlvars, tvars, reply_lock, hash_lock,
                       remove, msgs>>
    BY ZenonT(60) DEF RunHandler
  <1>3. PICK c \in Cells, l \in Links : x = <<c, l>> BY <1>1 DEF StateType
  <1>4. /\ todo[Timer] \in Seq(GoodOps) /\ Len(todo[Timer]) = 1
        /\ todo[Timer][1].name = "run_handler_for_each"
    BY <1>2, OnlyRunHandler
  <1>5. where' = where /\ ref_count' = ref_count /\ link' = link
    BY <1>2 DEF tlvars
  <1>6. StateType' BY <1>1, <1>2 DEF StateType, tlvars, tvars
  <1>7. LinkInv' BY ZenonT(60), <1>1, <1>2, <1>5 DEF LinkInv
  <1>8. \A d \in Cells : \A k \in Links : Pending(d, k)' => Pending(d, k)
    BY <1>2, <1>5 DEF Pending, IsInTimerList
  <1>9. Pending(c, l) /\ WaitTl \in Links /\ DeleTl \in Links
    BY <1>3 DEF Pending, Links
  <1>10. where[c] # "unborn" BY ZenonT(60), <1>1, <1>9 DEF UnbornInv
  <1>11. "run_handler_for_each" \notin WaitNames \cup DelNames \cup LastNames
    BY DEF WaitNames, DelNames, LastNames
  <1>12. CASE deleted[x[1]][x[2]]
    <2>1. todo' = todo /\ cell' = cell BY ZenonT(60), <1>12 DEF RunHandler
    <2>2. TimerInv' BY ZenonT(60), <1>1, <2>1 DEF TimerInv
    <2>3. \A N : TimerHas(N) => "run_handler_for_each" \in N BY <1>4 DEF TimerHas
    <2>4. \A N : TimerHas(N)' => "run_handler_for_each" \in N
      BY <2>1, <2>3 DEF TimerHas
    <2>5. ~TimerHas(WaitNames \cup DelNames)' /\ ~TimerHas(WaitNames)'
          /\ ~TimerHas(DelNames)' /\ ~TimerHas({"free_cell"})'
      BY <1>11, <2>4
    <2>6. DeleteInv' BY <2>5 DEF DeleteInv
    <2>7. \A d \in Cells : cell'[Timer] = d => where[d] # "unborn"
      BY <1>1, <2>1 DEF UnbornInv, Actors
    <2> QED BY <1>1, <1>5, <1>6, <1>7, <1>8, <2>1, <2>2, <2>6, <2>7, TimerFrame
            DEF CallType
  <1>13. CASE ~deleted[x[1]][x[2]]
    <2> DEFINE h == Handler(l)
               s == << h >> \o todo[Timer]
    <2>1. cell' = [cell EXCEPT ![Timer] = c] /\ todo' = [todo EXCEPT ![Timer] = s]
      BY <1>3, <1>13 DEF RunHandler
    <2>2. /\ h \in GoodOps
          /\ h.name \in {"retransmission_handler", "final_response_handler",
                         "wait_handler", "unlink_timers"}
          /\ h.name = "wait_handler" => l = WaitTl
          /\ h.name = "unlink_timers" => l = DeleTl
      BY HandlerOps
    <2> HIDE DEF h
    <2>3. s \in Seq(GoodOps) /\ Len(s) = 2 /\ s[1] = h /\ s[2] = todo[Timer][1]
      <3>1. << h >> \in Seq(GoodOps) /\ Len(<< h >>) = 1 /\ << h >>[1] = h BY <2>2
      <3> HIDE DEF h
      <3> QED BY <1>4, <3>1, SeqConcat
    <2> HIDE DEF s
    <2>4. /\ todo'[Timer] = s /\ cell'[Timer] = c
          /\ todo' \in [Actors -> Seq(GoodOps)]
          /\ cell' \in [Actors -> Cells \cup {None}]
          /\ \A w \in Workers : todo'[w] = todo[w] /\ cell'[w] = cell[w]
      BY <1>1, <2>1, <2>3, ConstantsType DEF CallType, Actors
    <2>5. TimerInv'
      <3>1. h.name # "run_handler_for_each" BY <2>2
      <3>2. s # <<>> BY <2>3
      <3>3. \A i \in 1..Len(s) : i = 1 \/ i = 2 BY <2>3
      <3>4. EndsIn(s, "run_handler_for_each")
        BY <1>4, <2>3, <3>1, <3>2, <3>3 DEF EndsIn
      <3>5. \A i \in 2..Len(s) :
              s[i].name \notin WaitNames \cup {"delete_later", "free_cell"}
        BY <1>4, <2>3, <1>11 DEF DelNames
      <3>6. \A i \in 1..Len(s) : s[i].name \in LastNames => i = Len(s) - 1
        BY <1>4, <1>11, <2>3, <3>3
      <3> QED BY <2>4, <3>4, <3>5, <3>6 DEF TimerInv
    <2>6. \A N : TimerHas(N)' => h.name \in N \/ "run_handler_for_each" \in N
      <3> SUFFICES ASSUME NEW N, NEW i \in 1..Len(s), s[i].name \in N
                   PROVE  h.name \in N \/ "run_handler_for_each" \in N
        BY <2>4 DEF TimerHas
      <3>1. i = 1 \/ i = 2 BY <2>3
      <3> QED BY <1>4, <2>3, <3>1
    <2>7. DeleteInv'
      <3>1. ~TimerHas({"free_cell"})' BY <2>2, <2>6
      <3>2. TimerHas(WaitNames)' =>
              where[c] = "hashed" /\ link[c][WaitTl] = "detached" /\ <<c, WaitTl>> \notin detached'
        <4> SUFFICES ASSUME TimerHas(WaitNames)'
                     PROVE  where[c] = "hashed" /\ link[c][WaitTl] = "detached"
                            /\ <<c, WaitTl>> \notin detached'
          OBVIOUS
        <4>1. h.name \in WaitNames BY <1>11, <2>6
        <4>2. h.name = "wait_handler" BY <2>2, <4>1 DEF WaitNames
        <4>3. l = WaitTl BY <2>2, <4>2
        <4> QED BY ZenonT(60), <1>1, <1>2, <1>3, <1>9, <4>3 DEF DeletedOnce, LinkInv
      <3>3. TimerHas(DelNames)' =>
              where[c] = "unhashed" /\ ~IsInTimerList(c, DeleTl)
              /\ <<c, DeleTl>> \notin detached'
        <4> SUFFICES ASSUME TimerHas(DelNames)'
                     PROVE  where[c] = "unhashed" /\ ~IsInTimerList(c, DeleTl)
                            /\ <<c, DeleTl>> \notin detached'
          OBVIOUS
        <4>1. h.name \in DelNames BY <1>11, <2>6
        <4>2. h.name = "unlink_timers" BY <2>2, <4>1 DEF DelNames
        <4>3. l = DeleTl BY <2>2, <4>2
        <4>4. where[c] = "unhashed" BY <1>1, <1>9, <4>3 DEF DeletedOnce
        <4>5. link[c][DeleTl] = "detached" BY ZenonT(60), <1>1, <1>3, <4>3 DEF LinkInv
        <4> QED BY ZenonT(60), <1>2, <1>3, <4>3, <4>4, <4>5 DEF IsInTimerList, TimerLists
      <3>4. TimerHas(DelNames)' => ~Pending(cell[Timer], DeleTl)'
        BY <1>5, <2>4, <3>3 DEF Pending, IsInTimerList
      <3> QED BY ZenonT(60), <1>5, <2>4, <3>1, <3>2, <3>3, <3>4 DEF DeleteInv
    <2>8. \A d \in Cells : cell'[Timer] = d => where[d] # "unborn"
      BY <1>10, <2>4
    <2> QED BY ZenonT(60), <1>5, <1>6, <1>7, <1>8, <2>4, <2>5, <2>7, <2>8, TimerFrame
  <1> QED BY <1>12, <1>13

\* Expired timers leave their list, marked as detached.
LEMMA SplitOK ==
  ASSUME IInv, NEW list \in TimerLists, NEW expired, Split(list, expired)
  PROVE  IInv'
  <1> DEFINE run == Do("run_handler_for_each")
  <1>1. StateType /\ CallType /\ LinkInv /\ UnbornInv BY DEF IInv
  <1>2. /\ expired \subseteq InList(list) /\ detached' = expired
        /\ link' = [c \in Cells |-> [l \in Links |->
                     IF <<c, l>> \in expired THEN "detached" ELSE link[c][l]]]
        /\ todo' = [todo EXCEPT ![Timer] = << run >>]
        /\ UNCHANGED <<where, ref_count, deleted, tvars, reply_lock, hash_lock, cell,
                       remove, msgs>>
    BY DEF Split
  <1>3. run \in GoodOps /\ run.name = "run_handler_for_each"
    BY EndNamesGood DEF EndNames
  <1> HIDE DEF run
  <1>4. << run >> \in Seq(GoodOps) /\ Len(<< run >>) = 1 /\ << run >>[1] = run
        /\ << run >> # <<>>
    BY <1>3
  <1>5. /\ todo'[Timer] = << run >> /\ todo' \in [Actors -> Seq(GoodOps)]
        /\ cell' = cell /\ cell' \in [Actors -> Cells \cup {None}]
        /\ \A w \in Workers : todo'[w] = todo[w] /\ cell'[w] = cell[w]
    <2>1. /\ Timer \in Actors
          /\ \A w \in Workers : w \in Actors /\ w # Timer
      BY ConstantsType DEF Actors
    <2>2. todo \in [Actors -> Seq(GoodOps)] /\ cell \in [Actors -> Cells \cup {None}]
      BY <1>1 DEF CallType
    <2>3. todo' = [todo EXCEPT ![Timer] = << run >>] /\ cell' = cell BY <1>2
    <2> QED BY <1>4, <2>1, <2>2, <2>3
  <1>6. expired \subseteq Cells \X Links
        /\ \A c \in Cells, l \in Links : <<c, l>> \in expired => link[c][l] = list
    BY <1>2 DEF InList
  <1>7. \A c \in Cells, l \in Links :
          link'[c][l] = IF <<c, l>> \in expired THEN "detached" ELSE link[c][l]
    BY <1>2
  <1>8. StateType'
    <2>1. link' \in [Cells -> [Links -> LinkStates]]
      <3>1. "detached" \in LinkStates BY DEF LinkStates
      <3>2. \A c \in Cells : \A l \in Links : link[c][l] \in LinkStates
        BY <1>1 DEF StateType
      <3> QED BY ZenonT(60), <1>2, <3>1, <3>2
    <2> QED BY <1>1, <1>2, <1>6, <2>1 DEF StateType, tvars
  <1>9. "run_handler_for_each" \notin WaitNames \cup DelNames \cup LastNames
    BY DEF WaitNames, DelNames, LastNames
  <1>10. TimerInv'
    <2>1. EndsIn(<< run >>, "run_handler_for_each") BY <1>3, <1>4 DEF EndsIn
    <2>2. \A i \in 1..Len(<< run >>) : << run >>[i].name \notin LastNames
      BY <1>3, <1>4, <1>9
    <2>3. \A i \in 2..Len(<< run >>) : FALSE BY <1>4
    <2> DEFINE s == << run >>
    <2>4. /\ EndsIn(s, "run_handler_for_each")
          /\ \A i \in 2..Len(s) : FALSE
          /\ \A i \in 1..Len(s) : s[i].name \notin LastNames
          /\ todo'[Timer] = s
      BY <1>5, <2>1, <2>2, <2>3
    <2> HIDE DEF s
    <2> QED BY ZenonT(60), <2>4 DEF TimerInv
  <1>11. DeleteInv'
    <2>1. \A N : TimerHas(N)' => "run_handler_for_each" \in N
      BY <1>3, <1>4, <1>5 DEF TimerHas
    <2>2. ~TimerHas(WaitNames \cup DelNames)' /\ ~TimerHas(WaitNames)'
          /\ ~TimerHas(DelNames)' /\ ~TimerHas({"free_cell"})'
      BY <1>9, <2>1
    <2> QED BY <2>2 DEF DeleteInv
  <1>12. LinkInv'
    <2> SUFFICES ASSUME NEW c \in Cells
                 PROVE  /\ where'[c] \in {"unhashed", "freed"} => link'[c][WaitTl] # "never"
                        /\ \A l \in {WaitTl, DeleTl} :
                             <<c, l>> \in detached' => link'[c][l] = "detached"
      BY ZenonT(60) DEF LinkInv
    <2>1. WaitTl \in Links /\ DeleTl \in Links BY DEF Links
    <2>2. link'[c][WaitTl] = "never" => link[c][WaitTl] = "never" BY ZenonT(60), <1>7, <2>1
    <2>3. where'[c] \in {"unhashed", "freed"} => link'[c][WaitTl] # "never"
      BY ZenonT(60), <1>1, <1>2, <2>2 DEF LinkInv
    <2> QED BY <1>2, <1>7, <2>1, <2>3
  <1>13. \A c \in Cells : \A l \in Links : Pending(c, l)' => Pending(c, l)
    <2> SUFFICES ASSUME NEW c \in Cells, NEW l \in Links,
                        link'[c][l] \in TimerLists \/ <<c, l>> \in expired
                 PROVE  link[c][l] \in TimerLists
      BY <1>2 DEF Pending, IsInTimerList
    <2>1. CASE <<c, l>> \in expired BY <1>6, <2>1
    <2>2. CASE <<c, l>> \notin expired BY <1>7, <2>2
    <2> QED BY <2>1, <2>2
  <1>14. \A c \in Cells : cell'[Timer] = c => where[c] # "unborn"
    BY <1>1, <1>5 DEF UnbornInv, Actors
  <1>15. where' = where /\ ref_count' = ref_count BY <1>2
  <1> QED BY ZenonT(60), <1>5, <1>8, <1>10, <1>11, <1>12, <1>13, <1>14, <1>15, TimerFrame

----------------------------------------------------------------------------
(***************************************************************************)
(* Reference counting is correct.                                          *)
(***************************************************************************)
\* At start-up the hash table is empty and no process works on a cell.
LEMMA InitOK == Init => IInv
  <1> SUFFICES ASSUME Init PROVE IInv OBVIOUS
  <1>1. StateType
    <2>1. 0 \in ReplyCodes BY SomeCodes
    <2>2. link \in [Cells -> [Links -> LinkStates]] BY DEF Init, LinkStates
    <2> QED BY <2>1, <2>2, ConstantsType DEF Init, StateType
  <1>2. \A a \in Actors : todo[a] = <<>> /\ cell[a] = None BY DEF Init
  <1>3. CallType
    <2>1. <<>> \in Seq(GoodOps) OBVIOUS
    <2> QED BY <2>1 DEF Init, CallType
  <1>4. WorkerInv BY <1>2 DEF WorkerInv, Actors
  <1>5. TimerInv BY <1>2 DEF TimerInv, Actors
  <1>6. DeleteInv
    <2>1. \A N : ~TimerHas(N) BY <1>2 DEF TimerHas, Actors
    <2> QED BY <2>1 DEF DeleteInv
  <1>7. LinkInv BY DEF Init, LinkInv
  <1>8. \A c \in Cells : \A l \in Links : ~Pending(c, l)
    BY DEF Init, Pending, IsInTimerList, TimerLists
  <1>9. UnbornInv BY <1>2, <1>8, ConstantsType DEF UnbornInv
  <1>10. RefCountExact
    <2> SUFFICES ASSUME NEW c \in Cells
                 PROVE  ref_count[c] = Cardinality({w \in Workers : cell[w] = c})
      BY DEF RefCountExact
    <2>1. {w \in Workers : cell[w] = c} = {} BY <1>2, ConstantsType DEF Actors
    <2>2. ref_count[c] = 0 BY DEF Init
    <2> QED BY <2>1, <2>2, FS_EmptySet
  <1>11. NoUseAfterFree BY <1>2 DEF NoUseAfterFree, Actors
  <1>12. DeletedOnce
    <2>1. WaitTl \in Links /\ DeleTl \in Links BY DEF Links
    <2> QED BY <1>8, <2>1 DEF DeletedOnce
  <1> QED BY <1>1, <1>3, <1>4, <1>5, <1>6, <1>7, <1>9, <1>10, <1>11, <1>12 DEF IInv

\* The calls that workers and the timer process share keep the invariant.
LEMMA SharedCallOK == ASSUME IInv, NEW a \in Actors, SharedCall(a) PROVE IInv'
  <1>1. CASE SetRetr(a) BY <1>1, SetRetrOK
  <1>2. CASE SetFr(a) BY <1>2, SetFrOK
  <1>3. CASE PutOnWait(a) BY <1>3, PutOnWaitOK
  <1>4. CASE SetFinalTimer(a) BY <1>4, SetFinalTimerOK
  <1>5. CASE CancelUacs(a) BY <1>5, CancelUacsOK
  <1>6. CASE LockReplies(a) BY <1>6, LockRepliesOK
  <1>7. CASE RelayReply(a) BY <1>7, RelayReplyOK
  <1> QED BY <1>1, <1>2, <1>3, <1>4, <1>5, <1>6, <1>7 DEF SharedCall

\* So do the calls of a worker.
LEMMA WorkerCallOK == ASSUME IInv, NEW w \in Workers, WorkerCall(w) PROVE IInv'
  <1> w \in Actors BY DEF Actors
  <1>1. CASE SharedCall(w) BY <1>1, SharedCallOK
  <1>2. CASE Route(w) BY <1>2, RouteOK
  <1>3. CASE ReleaseTransaction(w) BY <1>3, ReleaseTransactionOK
  <1>4. CASE Reply(w) BY <1>4, ReplyOK
  <1>5. CASE Forward(w) BY <1>5, ForwardOK
  <1>6. CASE MarkCancelled(w) BY <1>6, MarkCancelledOK
  <1>7. CASE CancelInvite(w) BY <1>7, CancelInviteOK
  <1>8. CASE StopTimers(w) BY <1>8, StopTimersOK
  <1>9. CASE ProcessReply(w) BY <1>9, ProcessReplyOK
  <1>10. CASE RestartTimers(w) BY <1>10, RestartTimersOK
  <1>11. CASE CancelReplied(w) BY <1>11, CancelRepliedOK
  <1>12. CASE RetransmitReply(w) BY <1>12, RetransmitReplyOK
  <1>13. CASE Unref(w) BY <1>13, UnrefOK
  <1>14. CASE CleanupUacTimers(w) BY <1>14, CleanupUacTimersOK
  <1> QED BY <1>1, <1>2, <1>3, <1>4, <1>5, <1>6, <1>7, <1>8, <1>9, <1>10, <1>11,
             <1>12, <1>13, <1>14 DEF WorkerCall

\* And the handlers of the timer process.
LEMMA TimerHandlerOK == ASSUME IInv, TimerHandler PROVE IInv'
  <1> Timer \in Actors BY DEF Actors
  <1>1. CASE SharedCall(Timer) BY <1>1, SharedCallOK
  <1>2. CASE \E x \in detached : RunHandler(x) BY <1>2, RunHandlerOK
  <1>3. CASE HandlersDone BY <1>3, HandlersDoneOK
  <1>4. CASE RetransmissionHandler BY <1>4, RetransmissionHandlerOK
  <1>5. CASE FinalResponseHandler BY <1>5, FinalResponseHandlerOK
  <1>6. CASE CancelTimedOut BY <1>6, CancelTimedOutOK
  <1>7. CASE WaitHandler BY <1>7, WaitHandlerOK
  <1>8. CASE RemoveFromHashTable BY <1>8, RemoveFromHashTableOK
  <1>9. CASE UnlinkTimers BY <1>9, UnlinkTimersOK
  <1>10. CASE Unlink BY <1>10, UnlinkOK
  <1>11. CASE TestRef BY <1>11, TestRefOK
  <1>12. CASE DeleteLater BY <1>12, DeleteLaterOK
  <1>13. CASE FreeCell BY <1>13, FreeCellOK
  <1> QED BY <1>1, <1>2, <1>3, <1>4, <1>5, <1>6, <1>7, <1>8, <1>9, <1>10, <1>11,
             <1>12, <1>13 DEF TimerHandler

\* A step that changes nothing keeps the invariant.
LEMMA StutterOK == ASSUME IInv, UNCHANGED vars PROVE IInv'
  <1>1. UNCHANGED <<where, ref_count, link, deleted, status, uac, last_received,
                    replied_local, cancel_buf, to_cancel, was_cancelled, reply_lock,
                    hash_lock, todo, cell, detached, remove, msgs>>
    BY DEF vars, tlvars, tvars, timervars
  <1>2. StateType' /\ CallType' BY <1>1 DEF IInv, StateType, CallType
  <1>3. WorkerInv' /\ TimerInv' BY <1>1 DEF IInv, WorkerInv, TimerInv
  <1>4. \A N : TimerHas(N)' <=> TimerHas(N) BY <1>1 DEF TimerHas
  <1>5. DeleteInv' BY <1>1, <1>4 DEF IInv, DeleteInv, Pending, IsInTimerList
  <1>6. LinkInv' /\ UnbornInv'
    BY ZenonT(60), <1>1 DEF IInv, LinkInv, UnbornInv, Pending, IsInTimerList
  <1>7. RefCountExact' BY <1>1, RefSame DEF IInv
  <1>8. NoUseAfterFree' /\ DeletedOnce'
    BY ZenonT(60), <1>1 DEF IInv, NoUseAfterFree, DeletedOnce, Pending, IsInTimerList
  <1> QED BY <1>2, <1>3, <1>5, <1>6, <1>7, <1>8 DEF IInv

\* The invariant is inductive.
LEMMA NextOK == IInv /\ [Next]_vars => IInv'
  <1> SUFFICES ASSUME IInv, [Next]_vars PROVE IInv' OBVIOUS
  <1>1. ASSUME NEW w \in Workers, WorkerStep(w) PROVE IInv'
    BY <1>1, WorkerCallOK DEF WorkerStep
  <1>2. ASSUME NEW w \in Workers, Arrival(w) PROVE IInv'
    BY <1>2, ArrivalOK
  <1>3. ASSUME NEW list \in TimerLists, TimerPass(list) PROVE IInv'
    <2>1. PICK expired \in SUBSET InList(list) : Split(list, expired)
      BY <1>3 DEF TimerPass
    <2> QED BY <2>1, SplitOK
  <1>4. CASE TimerHandler BY <1>4, TimerHandlerOK
  <1>5. CASE Idle BY <1>5, StutterOK DEF Idle
  <1>6. CASE UNCHANGED vars BY <1>6, StutterOK
  <1> QED BY <1>1, <1>2, <1>3, <1>4, <1>5, <1>6 DEF Next

\* The invariant implies the type invariant: the exact count of a finite set of
\* workers is a natural number.
LEMMA IInvType == IInv => TypeOK
  <1> SUFFICES ASSUME IInv PROVE TypeOK OBVIOUS
  <1>1. StateType /\ CallType /\ RefCountExact BY DEF IInv
  <1>2. ref_count \in [Cells -> Nat]
    <2> SUFFICES ASSUME NEW c \in Cells PROVE ref_count[c] \in Nat
      BY <1>1 DEF CallType
    <2>1. IsFiniteSet({w \in Workers : cell[w] = c}) BY ConstantsType, FS_Subset
    <2>2. Cardinality({w \in Workers : cell[w] = c}) \in Nat
      BY <2>1, FS_CardinalityType
    <2> QED BY <1>1, <2>2 DEF RefCountExact
  <1>3. todo \in [Actors -> Seq(OpType)]
    <2>1. GoodOps \subseteq OpType BY DEF GoodOps
    <2>2. \A s \in Seq(GoodOps) : s \in Seq(OpType)
      <3> HIDE DEF GoodOps
      <3> QED BY <2>1
    <2> QED BY <1>1, <2>2 DEF CallType
  <1> QED BY <1>1, <1>2, <1>3 DEF TypeOK, StateType, CallType, LinkStates

(***************************************************************************)
(* What follows holds for every number of cells, workers and messages, for *)
(* INVITE and other transactions, over UDP or not, and whether or not      *)
(* workers run inside delete_handler.                                      *)
(***************************************************************************)
LEMMA Invariance == Spec => []IInv
  <1>1. Init => IInv BY InitOK
  <1>2. IInv /\ [Next]_vars => IInv' BY NextOK
  <1> QED BY <1>1, <1>2, PTL DEF Spec

\* The variables keep their types; in particular ref_count is never negative.
THEOREM TmCellTypes == Spec => []TypeOK
  <1> QED BY Invariance, IInvType, PTL

\* ref_count is the number of workers at the cell (REF_UNSAFE, UNREF).
THEOREM TmRefCountExact == Spec => []RefCountExact
  <1>1. IInv => RefCountExact BY DEF IInv
  <1> QED BY Invariance, <1>1, PTL

\* free_cell never takes a cell from under a worker
\* (delete_cell, delete_handler).
THEOREM TmNoUseAfterFree == Spec => []NoUseAfterFree
  <1>1. IInv => NoUseAfterFree BY DEF IInv
  <1> QED BY Invariance, <1>1, PTL

\* A cell goes through wait_handler once (put_on_wait, set_1timer).
THEOREM TmDeletedOnce == Spec => []DeletedOnce
  <1>1. IInv => DeletedOnce BY DEF IInv
  <1> QED BY Invariance, <1>1, PTL
=============================================================================
