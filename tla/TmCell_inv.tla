----------------------------- MODULE TmCell_inv -----------------------------
(***************************************************************************)
(* The inductive invariant of TmCell; lemmas on the calls an actor has yet *)
(* to make, on the calls that neither end a handler nor delete the cell,   *)
(* and on the primitives of timer.c; and that the steps of workers, and    *)
(* the calls they share with the timer process, preserve the invariant.    *)
(***************************************************************************)
EXTENDS TmCell, FiniteSetTheorems, TLAPS

\* The provers every leaf is given, unless it names its own.
USE SMTT(10), ZenonT(30), SMTT(60)

LinkStates == TimerLists \cup {"never", "none", "detached"}

\* The part of TypeOK that is not about calls.
StateType ==
    /\ where \in [Cells -> {"unborn", "hashed", "unhashed", "freed"}]
    /\ link \in [Cells -> [Links -> LinkStates]]
    /\ deleted \in [Cells -> [Links -> BOOLEAN]]
    /\ status \in [Cells -> ReplyCodes]
    /\ uac \in [Cells -> {"none", "unsent", "sent"}]
    /\ last_received \in [Cells -> ReplyCodes]
    /\ replied_local \in [Cells -> BOOLEAN]
    /\ cancel_buf \in [Cells -> {"null", "busy", "built"}]
    /\ to_cancel \in [Cells -> BOOLEAN] /\ was_cancelled \in [Cells -> BOOLEAN]
    /\ reply_lock \in [Cells -> Actors \cup {None}]
    /\ hash_lock \in {Timer, None}
    /\ detached \subseteq Cells \X Links
    /\ remove \subseteq {"retr", "fr"}
    /\ msgs \in Nat

\* final_response_handler is only called on a retransmission buffer.
GoodOps == {op \in OpType :
              op.name = "final_response_handler" => op.rb \in RetrBufs}

CallType ==
    /\ ref_count \in [Cells -> Int]
    /\ todo \in [Actors -> Seq(GoodOps)]
    /\ cell \in [Actors -> Cells \cup {None}]

----------------------------------------------------------------------------
(***************************************************************************)
(* Calls: which are plain, and how they change what is left to do.         *)
(***************************************************************************)
EndNames == {"UNREF", "run_handler_for_each"}
WaitNames == {"wait_handler", "remove_from_hash_table"}
DelNames == {"unlink_timers", "unlink", "test_ref", "delete_later", "free_cell"}
LastNames == {"wait_handler", "unlink_timers", "test_ref", "delete_later", "free_cell"}
PlainNames == CallNames \ (EndNames \cup WaitNames \cup DelNames)
PlainOps == {op \in GoodOps : op.name \in PlainNames}

\* The last call of s, and no other, is called name.
EndsIn(s, name) ==
    /\ s # <<>>
    /\ \A i \in 1..Len(s) : s[i].name = name <=> i = Len(s)

TimerHas(names) ==
    \E i \in 1..Len(todo[Timer]) : todo[Timer][i].name \in names

\* A worker has a cell in hand exactly while it has calls to make, the last of
\* which is UNREF.
WorkerInv ==
    \A w \in Workers :
      /\ cell[w] = None <=> todo[w] = <<>>
      /\ todo[w] # <<>> => EndsIn(todo[w], "UNREF")

\* The timer process runs one handler at a time.
TimerInv ==
    todo[Timer] # <<>> =>
      /\ EndsIn(todo[Timer], "run_handler_for_each")
      /\ \A i \in 2..Len(todo[Timer]) :
           todo[Timer][i].name \notin WaitNames \cup {"delete_later", "free_cell"}
      /\ \A i \in 1..Len(todo[Timer]) :
           todo[Timer][i].name \in LastNames => i = Len(todo[Timer]) - 1

\* The cell that wait_handler or delete_handler works on.
DeleteInv ==
    LET c == cell[Timer]
    IN  /\ TimerHas(WaitNames \cup DelNames) => c \in Cells
        /\ TimerHas(WaitNames) => /\ where[c] = "hashed"
                                  /\ link[c][WaitTl] = "detached"
                                  /\ <<c, WaitTl>> \notin detached
        /\ TimerHas(DelNames) /\ ~TimerHas(WaitNames) =>
              where[c] = "unhashed" /\ ~Pending(c, DeleTl)
        /\ TimerHas({"free_cell"}) => ref_count[c] = 0

\* The wait and delete links of a cell.
LinkInv ==
    \A c \in Cells :
      /\ where[c] \in {"unhashed", "freed"} => link[c][WaitTl] # "never"
      /\ \A l \in {WaitTl, DeleTl} :
           <<c, l>> \in detached => link[c][l] = "detached"

\* A cell is not in anybody's hands before t_newtran.
UnbornInv ==
    \A c \in Cells : where[c] = "unborn" =>
      /\ \A l \in Links : ~Pending(c, l)
      /\ \A a \in Actors : cell[a] # c

IInv ==
    /\ StateType /\ CallType
    /\ WorkerInv /\ TimerInv /\ DeleteInv /\ LinkInv /\ UnbornInv
    /\ RefCountExact /\ NoUseAfterFree /\ DeletedOnce

----------------------------------------------------------------------------
(***************************************************************************)
(* What is used of sequences.                                              *)
(***************************************************************************)
\* The calls left to do are none exactly if their number is 0.
LEMMA SeqLen ==
  ASSUME NEW S, NEW s \in Seq(S)
  PROVE  Len(s) \in Nat /\ (s = <<>> <=> Len(s) = 0)
  OBVIOUS

\* The next call, and the calls after it.
LEMMA SeqTail ==
  ASSUME NEW S, NEW s \in Seq(S), s # <<>>
  PROVE  /\ Head(s) \in S /\ Head(s) = s[1]
         /\ Tail(s) \in Seq(S) /\ Len(Tail(s)) = Len(s) - 1
         /\ \A i \in 1..Len(s)-1 : Tail(s)[i] = s[i+1]
  OBVIOUS

\* Some calls followed by others.
LEMMA SeqConcat ==
  ASSUME NEW S, NEW s \in Seq(S), NEW r \in Seq(S)
  PROVE  /\ s \o r \in Seq(S) /\ Len(s \o r) = Len(s) + Len(r)
         /\ \A i \in 1..Len(s) + Len(r) :
              (s \o r)[i] = IF i <= Len(s) THEN s[i] ELSE r[i - Len(s)]
  OBVIOUS

\* One more call.
LEMMA SeqAppend ==
  ASSUME NEW S, NEW s \in Seq(S), NEW x \in S
  PROVE  Append(s, x) = s \o <<x>>
  OBVIOUS

\* What Done leaves in todo: the new calls, then the rest of the old ones.
LEMMA SeqDone ==
  ASSUME NEW s \in Seq(GoodOps), s # <<>>, NEW more \in Seq(GoodOps)
  PROVE  /\ more \o Tail(s) \in Seq(GoodOps)
         /\ Len(more \o Tail(s)) = Len(more) + Len(s) - 1
         /\ \A i \in 1..Len(more) : (more \o Tail(s))[i] = more[i]
         /\ \A i \in Len(more)+1..Len(more)+Len(s)-1 :
              (more \o Tail(s))[i] = s[i - Len(more) + 1]
  <1>1. Tail(s) \in Seq(GoodOps) /\ Len(Tail(s)) = Len(s) - 1
    BY SeqTail
  <1>2. \A i \in 1..Len(s)-1 : Tail(s)[i] = s[i+1]
    BY SeqTail
  <1>3. /\ more \o Tail(s) \in Seq(GoodOps)
        /\ Len(more \o Tail(s)) = Len(more) + Len(Tail(s))
        /\ \A i \in 1..Len(more) + Len(Tail(s)) :
             (more \o Tail(s))[i] = IF i <= Len(more) THEN more[i]
                                    ELSE Tail(s)[i - Len(more)]
    BY <1>1, SeqConcat
  <1> QED BY <1>1, <1>2, <1>3, SeqLen

\* A sequence that ends in name goes on doing so when its first call, which is
\* another one, is replaced by calls not called name.
LEMMA EndsInDone ==
  ASSUME NEW s \in Seq(GoodOps), NEW name, EndsIn(s, name), Head(s).name # name,
         NEW more \in Seq(GoodOps), \A i \in 1..Len(more) : more[i].name # name
  PROVE  EndsIn(more \o Tail(s), name)
  <1>1. s # <<>> BY DEF EndsIn
  <1>2. Head(s) = s[1] /\ Len(s) \in Nat /\ Len(s) # 0 /\ Len(more) \in Nat
    BY <1>1, SeqLen
  <1>3. Len(s) > 1 BY <1>2 DEF EndsIn
  <1>4. more \o Tail(s) # <<>> BY <1>1, <1>2, <1>3, SeqDone, SeqLen
  <1>5. ASSUME NEW i \in 1..Len(more \o Tail(s))
        PROVE  (more \o Tail(s))[i].name = name <=> i = Len(more \o Tail(s))
    <2>1. CASE i <= Len(more) BY <1>1, <1>2, <1>3, <2>1, SeqDone
    <2>2. CASE i > Len(more)
      <3>1. (more \o Tail(s))[i] = s[i - Len(more) + 1] /\ i - Len(more) + 1 \in 1..Len(s)
        BY <1>1, <1>2, <2>2, SeqDone
      <3>2. i - Len(more) + 1 = Len(s) <=> i = Len(more \o Tail(s))
        BY <1>1, <1>2, <2>2, SeqDone
      <3> QED BY <3>1, <3>2 DEF EndsIn
    <2> QED BY <1>1, <1>2, <2>1, <2>2, SeqDone
  <1> QED BY <1>4, <1>5 DEF EndsIn
----------------------------------------------------------------------------
(***************************************************************************)
(* Plain calls: those that neither end a handler nor delete the cell.      *)
(***************************************************************************)
\* A step on the timer links of cell c that leaves its delete timer alone, and sets
\* its wait timer at most for the first time.
LinksKept(c) ==
    /\ link' \in [Cells -> [Links -> LinkStates]]
    /\ deleted' \in [Cells -> [Links -> BOOLEAN]]
    /\ \A d \in Cells :
         /\ d # c => link'[d] = link[d]
         /\ link'[d][DeleTl] = link[d][DeleTl]
         /\ \/ link'[d][WaitTl] = link[d][WaitTl]
            \/ link[d][WaitTl] = "never" /\ link'[d][WaitTl] = "WT"

PlainStep(a) ==
    /\ todo[a] # <<>> /\ Call(a).name \in PlainNames
    /\ \E more \in Seq(PlainOps) : Done(a, more)
    /\ UNCHANGED <<where, ref_count, cell, detached>>
    /\ LinksKept(cell[a])

\* The elements of a sequence of plain calls.
LEMMA PlainSeq ==
  ASSUME NEW more \in Seq(PlainOps)
  PROVE  /\ more \in Seq(GoodOps)
         /\ \A i \in 1..Len(more) : more[i].name \in PlainNames
  BY DEF PlainOps

\* A plain call keeps the shape of what is left to do.
LEMMA PlainTodo ==
  ASSUME IInv, NEW a \in Actors, PlainStep(a)
  PROVE  /\ CallType' /\ WorkerInv' /\ TimerInv'
         /\ \A N \in SUBSET (WaitNames \cup DelNames) :
              TimerHas(N)' <=> TimerHas(N)
  <1> USE DEF IInv
  <1>1. PICK more \in Seq(PlainOps) : Done(a, more) BY DEF PlainStep
  <1>2. /\ more \in Seq(GoodOps)
        /\ \A i \in 1..Len(more) : more[i].name \in PlainNames
    BY PlainSeq
  <1>3. todo[a] \in Seq(GoodOps) /\ todo[a] # <<>> BY DEF CallType, PlainStep
  <1>4. /\ todo'[a] = more \o Tail(todo[a])
        /\ \A b \in Actors : b # a => todo'[b] = todo[b]
        /\ cell' = cell /\ ref_count' = ref_count
    BY ZenonT(60), <1>1 DEF Done, CallType, PlainStep
  <1>5. CallType'
    <2>1. todo' = [todo EXCEPT ![a] = more \o Tail(@)] BY <1>1 DEF Done
    <2>2. more \o Tail(todo[a]) \in Seq(GoodOps) BY <1>2, <1>3, SeqDone
    <2>3. todo' \in [Actors -> Seq(GoodOps)] BY <2>1, <2>2 DEF CallType
    <2> QED BY <1>4, <2>3 DEF CallType
  <1>6. Head(todo[a]).name \in PlainNames BY DEF PlainStep, Call
  <1>7. WorkerInv'
    <2> SUFFICES ASSUME NEW w \in Workers
                 PROVE  /\ cell'[w] = None <=> todo'[w] = <<>>
                        /\ todo'[w] # <<>> => EndsIn(todo'[w], "UNREF")
      BY DEF WorkerInv
    <2>1. CASE w # a BY <1>4, <2>1 DEF WorkerInv, Actors
    <2>2. CASE w = a
      <3>1. EndsIn(todo[a], "UNREF") /\ cell[a] # None
        BY <1>3, <2>2 DEF WorkerInv
      <3>2. \A n \in PlainNames : n # "UNREF" BY DEF PlainNames, EndNames
      <3>3. EndsIn(todo'[a], "UNREF")
        BY ZenonT(60), <1>2, <1>3, <1>4, <1>6, <3>1, <3>2, EndsInDone
      <3> QED BY ZenonT(60), <1>4, <2>2, <3>1, <3>3 DEF EndsIn
    <2> QED BY <2>1, <2>2
  <1>8. TimerInv'
    <2>1. CASE a # Timer BY <1>4, <2>1 DEF TimerInv, Actors
    <2>2. CASE a = Timer
      <3>1. EndsIn(todo[a], "run_handler_for_each")
        BY <1>3, <2>2 DEF TimerInv
      <3>2. \A n \in PlainNames : n # "run_handler_for_each"
        BY DEF PlainNames, EndNames
      <3>3. EndsIn(todo'[a], "run_handler_for_each")
        BY ZenonT(60), <1>2, <1>3, <1>4, <1>6, <3>1, <3>2, EndsInDone
      <3>4. ASSUME NEW i \in 2..Len(todo'[a])
            PROVE  todo'[a][i].name \notin WaitNames \cup {"delete_later", "free_cell"}
        <4>0. Len(more) \in Nat /\ Len(todo[a]) \in Nat
              /\ Len(todo'[a]) = Len(more) + Len(todo[a]) - 1
          BY <1>2, <1>3, <1>4, SeqDone, SeqLen
        <4>1. CASE i <= Len(more)
          <5>1. todo'[a][i].name \in PlainNames
            BY <1>2, <1>3, <1>4, <4>0, <4>1, SeqDone
          <5> QED BY <5>1 DEF PlainNames, WaitNames, DelNames
        <4>2. CASE i > Len(more)
          <5>1. i - Len(more) + 1 \in 2..Len(todo[a])
            BY <4>0, <4>2
          <5>2. todo'[a][i] = todo[a][i - Len(more) + 1]
            BY <1>2, <1>3, <1>4, <4>0, <4>2, SeqDone
          <5> QED BY <1>3, <2>2, <5>1, <5>2 DEF TimerInv
        <4> QED BY <4>0, <4>1, <4>2
      <3>5. ASSUME NEW i \in 1..Len(todo'[a]), todo'[a][i].name \in LastNames
            PROVE  i = Len(todo'[a]) - 1
        <4>0. Len(more) \in Nat /\ Len(todo[a]) \in Nat
              /\ Len(todo'[a]) = Len(more) + Len(todo[a]) - 1
          BY <1>2, <1>3, <1>4, SeqDone, SeqLen
        <4>1. \A n \in PlainNames : n \notin LastNames
          BY DEF PlainNames, WaitNames, DelNames, LastNames
        <4>2. i > Len(more)
          BY <1>2, <1>3, <1>4, <3>5, <4>0, <4>1, SeqDone
        <4>3. i - Len(more) + 1 \in 1..Len(todo[a])
          BY <4>0, <4>2
        <4>4. todo'[a][i] = todo[a][i - Len(more) + 1]
          BY <1>2, <1>3, <1>4, <4>0, <4>2, SeqDone
        <4>5. i - Len(more) + 1 = Len(todo[a]) - 1
          BY ZenonT(60), <1>3, <2>2, <3>5, <4>3, <4>4 DEF TimerInv
        <4> QED BY <4>0, <4>5
      <3> QED BY <2>2, <3>3, <3>4, <3>5 DEF TimerInv
    <2> QED BY <2>1, <2>2
  <1>9. ASSUME NEW N \in SUBSET (WaitNames \cup DelNames)
        PROVE  TimerHas(N)' <=> TimerHas(N)
    <2>1. CASE a # Timer BY <1>4, <2>1 DEF TimerHas, Actors
    <2>2. CASE a = Timer
      <3>0. Len(more) \in Nat /\ Len(todo[a]) \in Nat
            /\ Len(todo'[a]) = Len(more) + Len(todo[a]) - 1
        BY <1>2, <1>3, <1>4, SeqDone, SeqLen
      <3>1. \A n \in PlainNames : n \notin N
        BY DEF PlainNames
      <3>2. ASSUME NEW i \in 1..Len(todo'[a]), todo'[a][i].name \in N
            PROVE  \E j \in 1..Len(todo[a]) : todo[a][j].name \in N
        <4>1. i > Len(more)
          BY <1>2, <1>3, <1>4, <3>0, <3>1, <3>2, SeqDone
        <4>2. i - Len(more) + 1 \in 1..Len(todo[a]) BY <3>0, <4>1
        <4>3. todo'[a][i] = todo[a][i - Len(more) + 1]
          BY <1>2, <1>3, <1>4, <3>0, <4>1, SeqDone
        <4> QED BY <3>2, <4>2, <4>3
      <3>3. ASSUME NEW j \in 1..Len(todo[a]), todo[a][j].name \in N
            PROVE  \E i \in 1..Len(todo'[a]) : todo'[a][i].name \in N
        <4>1. todo[a][1].name \notin N BY <1>3, <1>6, <3>1
        <4>2. j > 1 BY <3>0, <3>3, <4>1
        <4>3. Len(more) + j - 1 \in 1..Len(todo'[a])
              /\ Len(more) + j - 1 \in Len(more)+1..Len(more)+Len(todo[a])-1
          BY <3>0, <4>2
        <4>4. todo'[a][Len(more) + j - 1] = todo[a][j]
          BY <1>2, <1>3, <1>4, <3>0, <4>2, <4>3, SeqDone
        <4> QED BY <3>3, <4>3, <4>4
      <3> QED BY <2>2, <3>2, <3>3 DEF TimerHas
    <2> QED BY <2>1, <2>2
  <1> QED BY <1>5, <1>7, <1>8, <1>9

\* A plain call keeps the invariant.
LEMMA PlainOK ==
  ASSUME IInv, NEW a \in Actors, PlainStep(a), StateType'
  PROVE  IInv'
  <1> USE DEF IInv
  <1>1. /\ CallType' /\ WorkerInv' /\ TimerInv'
        /\ \A N \in SUBSET (WaitNames \cup DelNames) :
              TimerHas(N)' <=> TimerHas(N)
    BY PlainTodo
  <1>2. /\ where' = where /\ ref_count' = ref_count /\ cell' = cell
        /\ detached' = detached
        /\ \A c \in Cells :
             /\ c # cell[a] => link'[c] = link[c]
             /\ link'[c][DeleTl] = link[c][DeleTl]
             /\ \/ link'[c][WaitTl] = link[c][WaitTl]
                \/ link[c][WaitTl] = "never" /\ link'[c][WaitTl] = "WT"
    BY DEF PlainStep, LinksKept
  <1>3. \A c \in Cells : Pending(c, DeleTl)' <=> Pending(c, DeleTl)
    BY <1>2 DEF Pending, IsInTimerList
  <1>4. DeleteInv'
    <2>1. /\ TimerHas(WaitNames \cup DelNames)' <=> TimerHas(WaitNames \cup DelNames)
          /\ TimerHas(WaitNames)' <=> TimerHas(WaitNames)
          /\ TimerHas(DelNames)' <=> TimerHas(DelNames)
          /\ TimerHas({"free_cell"})' <=> TimerHas({"free_cell"})
      <3>1. "free_cell" \in DelNames BY DEF DelNames
      <3> QED BY <1>1, <3>1
    <2>2. TimerHas(WaitNames) \/ TimerHas(DelNames) => TimerHas(WaitNames \cup DelNames)
      BY DEF TimerHas
    <2> QED BY <1>2, <1>3, <2>1, <2>2 DEF DeleteInv
  <1>5. LinkInv'
    <2> SUFFICES ASSUME NEW c \in Cells
                 PROVE  /\ where'[c] \in {"unhashed", "freed"} => link'[c][WaitTl] # "never"
                        /\ \A l \in {WaitTl, DeleTl} :
                             <<c, l>> \in detached' => link'[c][l] = "detached"
      BY ZenonT(60) DEF LinkInv
    <2>1. /\ where[c] \in {"unhashed", "freed"} => link[c][WaitTl] # "never"
          /\ <<c, WaitTl>> \in detached => link[c][WaitTl] = "detached"
          /\ <<c, DeleTl>> \in detached => link[c][DeleTl] = "detached"
      BY DEF LinkInv
    <2> QED BY <1>2, <2>1
  <1>6. UnbornInv'
    BY <1>2 DEF UnbornInv, Pending, IsInTimerList
  <1>7. RefCountExact' /\ NoUseAfterFree'
    BY <1>2 DEF RefCountExact, NoUseAfterFree
  <1>8. DeletedOnce'
    <2> SUFFICES ASSUME NEW c \in Cells
                 PROVE  /\ Pending(c, WaitTl)' => where'[c] = "hashed"
                        /\ Pending(c, DeleTl)' => where'[c] = "unhashed"
      BY DEF DeletedOnce
    <2>1. Pending(c, DeleTl)' => where'[c] = "unhashed" BY <1>2, <1>3 DEF DeletedOnce
    <2>2. CASE link'[c][WaitTl] = link[c][WaitTl]
      BY <1>2, <2>1, <2>2 DEF DeletedOnce, Pending, IsInTimerList
    <2>3. CASE link'[c][WaitTl] # link[c][WaitTl]
      <3>1. link[c][WaitTl] = "never" /\ c = cell[a] BY <1>2, <2>3
      <3>2. where[c] \notin {"unhashed", "freed"} BY ZenonT(60), <3>1 DEF LinkInv
      <3>3. where[c] # "unborn" BY <3>1 DEF UnbornInv
      <3>4. where[c] = "hashed" BY <3>2, <3>3 DEF StateType
      <3> QED BY <1>2, <2>1, <3>4
    <2> QED BY <2>2, <2>3
  <1> QED BY <1>1, <1>4, <1>5, <1>6, <1>7, <1>8

\* Calls made by Op, Do, DoOn and DoCode.
OpBufs == RetrBufs \cup {"", "msg", "timer", "retr", "fr"}
PlainMade == PlainNames \ {"final_response_handler"}

\* A call record is in the set of records of its fields.
LEMMA RecordIn ==
  ASSUME NEW A, NEW B, NEW C, NEW D, NEW a \in A, NEW b \in B, NEW c \in C, NEW d \in D
  PROVE  /\ [name |-> a, rb |-> b, code |-> c, flag |-> d]
               \in [name : A, rb : B, code : C, flag : D]
         /\ [name |-> a, rb |-> b, code |-> c, flag |-> d].name = a
  OBVIOUS

\* A call to a function that is not part of deleting a cell is a plain call.
LEMMA OpPlain ==
  ASSUME NEW name \in PlainMade, NEW rb \in OpBufs,
         NEW code \in ReplyCodes, NEW flag \in BOOLEAN
  PROVE  Op(name, rb, code, flag) \in PlainOps
  <1>1. name \in CallNames /\ name \in PlainNames /\ name # "final_response_handler"
    BY DEF PlainMade, PlainNames
  <1>2. Op(name, rb, code, flag) \in OpType
    <2>1. [name |-> name, rb |-> rb, code |-> code, flag |-> flag]
             \in [name : CallNames, rb : OpBufs, code : ReplyCodes, flag : BOOLEAN]
      BY <1>1, RecordIn
    <2> QED BY ZenonT(60), <2>1 DEF Op, OpType, OpBufs
  <1>3. Op(name, rb, code, flag).name = name BY DEF Op
  <1> QED BY <1>1, <1>2, <1>3 DEF PlainOps, GoodOps

\* The reply codes the code writes, receives or is told to send are reply codes.
LEMMA SomeCodes ==
  /\ 0 \in ReplyCodes /\ 100 \in ReplyCodes /\ 408 \in ReplyCodes
  /\ 487 \in ReplyCodes /\ 500 \in ReplyCodes
  /\ Codes \subseteq ReplyCodes /\ ScriptCodes \subseteq ReplyCodes
  <1>1. /\ 0 \in ReplyCodes /\ 100 \in ReplyCodes /\ 408 \in ReplyCodes
        /\ 487 \in ReplyCodes /\ 500 \in ReplyCodes
    BY SMT DEF ReplyCodes
  <1>2. ASSUME NEW code, code \in 100..699 \/ code \in 200..699 PROVE code \in ReplyCodes
    BY <1>2, SMT DEF ReplyCodes
  <1>3. Codes \subseteq 100..699 /\ ScriptCodes \subseteq 200..699
    BY ZenonT(60), ConstantsType
  <1> QED BY <1>1, <1>2, <1>3

\* The same for the abbreviated forms of a call.
LEMMA DoPlain ==
  ASSUME NEW name \in PlainMade
  PROVE  /\ Do(name) \in PlainOps
         /\ \A rb \in OpBufs : DoOn(name, rb) \in PlainOps
         /\ \A code \in ReplyCodes : DoCode(name, code) \in PlainOps
  <1>1. 0 \in ReplyCodes /\ FALSE \in BOOLEAN /\ "" \in OpBufs
    BY SomeCodes DEF OpBufs
  <1>2. ASSUME NEW rb \in OpBufs, NEW code \in ReplyCodes
        PROVE  Op(name, rb, code, FALSE) \in PlainOps
    BY ZenonT(60), <1>1, OpPlain
  <1>3. Do(name) \in PlainOps
    <2>1. Op(name, "", 0, FALSE) \in PlainOps BY ZenonT(60), <1>1, <1>2
    <2> QED BY ZenonT(60), <2>1 DEF Do
  <1>4. ASSUME NEW rb \in OpBufs PROVE DoOn(name, rb) \in PlainOps
    <2>1. Op(name, rb, 0, FALSE) \in PlainOps BY ZenonT(60), <1>1, <1>2
    <2> QED BY ZenonT(60), <2>1 DEF DoOn
  <1>5. ASSUME NEW code \in ReplyCodes PROVE DoCode(name, code) \in PlainOps
    <2>1. Op(name, "", code, FALSE) \in PlainOps BY ZenonT(60), <1>1, <1>2
    <2> QED BY ZenonT(60), <2>1 DEF DoCode
  <1> QED BY <1>3, <1>4, <1>5

\* The names of the calls that other calls lead to.
LEMMA MadeNames ==
  /\ "set_retr" \in PlainMade /\ "set_fr" \in PlainMade
  /\ "put_on_wait" \in PlainMade /\ "cleanup_uac_timers" \in PlainMade
  /\ "t_release_transaction" \in PlainMade /\ "set_final_timer" \in PlainMade
  /\ "t_reply" \in PlainMade /\ "cancel_uacs" \in PlainMade
  /\ "t_forward_nonack" \in PlainMade /\ "mark_cancelled" \in PlainMade
  /\ "cancel_invite" \in PlainMade /\ "stop_timers" \in PlainMade
  /\ "LOCK_REPLIES" \in PlainMade /\ "process_reply_and_timer" \in PlainMade
  /\ "relay_reply" \in PlainMade /\ "restart_timers" \in PlainMade
  /\ "cancel_replied" \in PlainMade /\ "route" \in PlainMade
  /\ "t_retransmit_reply" \in PlainMade /\ "cancel_timed_out" \in PlainMade
  BY DEF PlainMade, PlainNames, CallNames, EndNames, WaitNames, DelNames

\* Timers are set with two plain calls.
LEMMA FrRetrPlain ==
  ASSUME NEW rb \in RetrBufs
  PROVE  StartRetr(rb) \in Seq(PlainOps) /\ ForceRetr(rb) \in Seq(PlainOps)
  <1>1. rb \in OpBufs BY ZenonT(60) DEF OpBufs
  <1>0. 0 \in ReplyCodes BY SomeCodes
  <1>2. ASSUME NEW retr \in BOOLEAN PROVE SetFrRetr(rb, retr) \in Seq(PlainOps)
    <2>1. Op("set_retr", rb, 0, retr) \in PlainOps BY <1>0, <1>1, MadeNames, OpPlain
    <2>2. DoOn("set_fr", rb) \in PlainOps BY <1>1, MadeNames, DoPlain
    <2>3. ASSUME NEW p \in PlainOps, NEW q \in PlainOps PROVE << p, q >> \in Seq(PlainOps)
      OBVIOUS
    <2>4. << Op("set_retr", rb, 0, retr), DoOn("set_fr", rb) >> \in Seq(PlainOps)
      BY <2>1, <2>2, <2>3, Zenon
    <2> QED BY <2>4, Zenon DEF SetFrRetr
  <1> QED BY ZenonT(60), <1>2, ConstantsType DEF StartRetr, ForceRetr

\* insert_timer_unsafe.
LEMMA InsertTyped ==
  ASSUME StateType, NEW c, NEW l, NEW list \in TimerLists, InsertTimer(c, l, list)
  PROVE  /\ link' \in [Cells -> [Links -> LinkStates]]
         /\ deleted' \in [Cells -> [Links -> BOOLEAN]]
         /\ \A d \in Cells : d # c => link'[d] = link[d]
         /\ \A d \in Cells : \A m \in Links :
              link'[d][m] = IF d = c /\ m = l THEN list ELSE link[d][m]
  <1>1. list \in LinkStates BY DEF LinkStates
  <1>2. link \in [Cells -> [Links -> LinkStates]]
        /\ deleted \in [Cells -> [Links -> BOOLEAN]]
    BY DEF StateType
  <1>3. link' = [link EXCEPT ![c][l] = list]
        /\ deleted' = [deleted EXCEPT ![c][l] = FALSE]
    BY DEF InsertTimer
  <1>4. /\ link' \in [Cells -> [Links -> LinkStates]]
        /\ \A d \in Cells : d # c => link'[d] = link[d]
        /\ \A d \in Cells : \A m \in Links :
             link'[d][m] = IF d = c /\ m = l THEN list ELSE link[d][m]
    <2> DEFINE h == [link[c] EXCEPT ![l] = list]
    <2>0. link' = [link EXCEPT ![c] = h] BY <1>3
    <2>1. CASE c \in Cells
      <3>1. h \in [Links -> LinkStates]
            /\ \A m \in Links : h[m] = IF m = l THEN list ELSE link[c][m]
        BY ZenonT(60), <1>1, <1>2, <2>1
      <3> HIDE DEF h
      <3>2. link' \in [Cells -> [Links -> LinkStates]] BY ZenonT(60), <1>2, <2>0, <3>1
      <3>3. \A d \in Cells : link'[d] = IF d = c THEN h ELSE link[d] BY <1>2, <2>0
      <3> QED BY <3>1, <3>2, <3>3
    <2>2. CASE c \notin Cells
      <3> HIDE DEF h
      <3>1. link' = link BY <1>2, <2>0, <2>2
      <3> QED BY <1>2, <2>2, <3>1
    <2> QED BY <2>1, <2>2
  <1>5. [deleted EXCEPT ![c][l] = FALSE] \in [Cells -> [Links -> BOOLEAN]]
    <2> DEFINE h == [deleted[c] EXCEPT ![l] = FALSE]
    <2>1. CASE c \in Cells
      <3>1. h \in [Links -> BOOLEAN] BY ZenonT(60), <1>2, <2>1
      <3> HIDE DEF h
      <3>2. [deleted EXCEPT ![c] = h] \in [Cells -> [Links -> BOOLEAN]] BY ZenonT(60), <1>2, <3>1
      <3> QED BY <3>2 DEF h
    <2>2. CASE c \notin Cells
      <3> HIDE DEF h
      <3>1. [deleted EXCEPT ![c] = h] = deleted BY <1>2, <2>2
      <3> QED BY ZenonT(60), <1>2, <3>1 DEF h
    <2> QED BY <2>1, <2>2
  <1> QED BY <1>3, <1>4, <1>5

\* The primitives on the retransmission and final-response timers.
LEMMA PrimKept ==
  ASSUME StateType, NEW c, NEW l, l \notin {WaitTl, DeleTl}, NEW list \in TimerLists,
         \/ InsertTimer(c, l, list)
         \/ SetTimer(c, l, list)
         \/ Set1Timer(c, l, list)
  PROVE  LinksKept(c)
  <1>1. CASE UNCHANGED tlvars BY <1>1 DEF tlvars, LinksKept, StateType
  <1>2. CASE InsertTimer(c, l, list)
    <2>1. WaitTl \in Links /\ DeleTl \in Links BY DEF Links
    <2> QED BY <1>2, <2>1, InsertTyped DEF LinksKept
  <1> QED BY <1>1, <1>2 DEF SetTimer, Set1Timer

\* put_on_wait.
LEMMA WaitKept ==
  ASSUME StateType, NEW c, Set1Timer(c, WaitTl, "WT")
  PROVE  LinksKept(c)
  <1>1. CASE UNCHANGED tlvars BY <1>1 DEF tlvars, LinksKept, StateType
  <1>2. CASE link[c][WaitTl] = "never" /\ InsertTimer(c, WaitTl, "WT")
    <2>1. WaitTl \in Links /\ DeleTl \in Links /\ WaitTl # DeleTl
      BY DEF Links, WaitTl, DeleTl
    <2>2. "WT" \in TimerLists BY DEF TimerLists
    <2> QED BY <1>2, <2>1, <2>2, InsertTyped DEF LinksKept
  <1> QED BY <1>1, <1>2 DEF Set1Timer

\* reset_timer.
LEMMA ResetKept ==
  ASSUME StateType, NEW c, NEW L, ResetTimers(c, L)
  PROVE  LinksKept(c) /\ link' = link
  <1>1. deleted' \in [Cells -> [Links -> BOOLEAN]]
    BY ZenonT(60) DEF ResetTimers, StateType
  <1> QED BY <1>1 DEF ResetTimers, StateType, LinksKept

\* Steps that do not touch timers.
LEMMA SameKept ==
  ASSUME StateType, UNCHANGED tlvars, NEW c
  PROVE  LinksKept(c)
  BY DEF tlvars, LinksKept, StateType

\* Calls that set or reset timers and nothing else.
LEMMA TimerOnly ==
  ASSUME IInv, NEW a \in Actors, NEW name \in PlainNames, Calls(a, name),
         NEW more \in Seq(PlainOps), Done(a, more), LinksKept(cell[a]),
         UNCHANGED <<where, ref_count, tvars, reply_lock, hash_lock, cell,
                     timervars, msgs>>
  PROVE  IInv'
  <1>1. PlainStep(a) BY DEF PlainStep, Calls, timervars
  <1>2. StateType' BY DEF IInv, StateType, LinksKept, tvars, timervars
  <1> QED BY <1>1, <1>2, PlainOK

\* The transaction's data.
DataType ==
    /\ status \in [Cells -> ReplyCodes]
    /\ uac \in [Cells -> {"none", "unsent", "sent"}]
    /\ last_received \in [Cells -> ReplyCodes]
    /\ replied_local \in [Cells -> BOOLEAN]
    /\ cancel_buf \in [Cells -> {"null", "busy", "built"}]
    /\ to_cancel \in [Cells -> BOOLEAN] /\ was_cancelled \in [Cells -> BOOLEAN]
    /\ reply_lock \in [Cells -> Actors \cup {None}]

\* Calls that change the transaction's data and no timer.
LEMMA DataOnly ==
  ASSUME IInv, NEW a \in Actors, NEW name \in PlainNames, Calls(a, name),
         NEW more \in Seq(PlainOps), Done(a, more), DataType',
         UNCHANGED <<where, ref_count, tlvars, hash_lock, cell, timervars, msgs>>
  PROVE  IInv'
  <1>1. StateType BY DEF IInv
  <1>2. LinksKept(cell[a]) BY <1>1, SameKept
  <1>3. PlainStep(a) BY <1>2 DEF PlainStep, Calls, timervars
  <1>4. StateType' BY <1>1, <1>2 DEF DataType, StateType, LinksKept, timervars
  <1> QED BY <1>3, <1>4, PlainOK

\* What the calls lead to.
LEMMA MadeSeqs ==
  /\ PlainMade \subseteq PlainNames
  /\ <<>> \in Seq(PlainOps)
  /\ \A n \in PlainMade : << Do(n) >> \in Seq(PlainOps)
  /\ \A m, n \in PlainMade : << Do(m), Do(n) >> \in Seq(PlainOps)
  /\ \A n \in PlainMade : \A code \in ReplyCodes : << DoCode(n, code) >> \in Seq(PlainOps)
  /\ \A s, r \in Seq(PlainOps) : s \o r \in Seq(PlainOps)
  <1>1. PlainMade \subseteq PlainNames BY DEF PlainMade
  <1>2. <<>> \in Seq(PlainOps) OBVIOUS
  <1>3. ASSUME NEW op \in PlainOps PROVE << op >> \in Seq(PlainOps) OBVIOUS
  <1>4. ASSUME NEW op1 \in PlainOps, NEW op2 \in PlainOps
        PROVE  << op1, op2 >> \in Seq(PlainOps)
    OBVIOUS
  <1>5. \A n \in PlainMade : << Do(n) >> \in Seq(PlainOps) BY <1>3, DoPlain
  <1>6. \A m, n \in PlainMade : << Do(m), Do(n) >> \in Seq(PlainOps) BY <1>4, DoPlain
  <1>7. \A n \in PlainMade : \A code \in ReplyCodes : << DoCode(n, code) >> \in Seq(PlainOps)
    BY <1>3, DoPlain
  <1>8. \A s, r \in Seq(PlainOps) : s \o r \in Seq(PlainOps) BY SeqConcat
  <1> QED BY <1>1, <1>2, <1>5, <1>6, <1>7, <1>8

\* The two timers of a buffer are not the wait or the delete timer.
LEMMA RetrFrLinks ==
  \A rb : <<"retr", rb>> \notin {WaitTl, DeleTl} /\ <<"fr", rb>> \notin {WaitTl, DeleTl}
  BY DEF WaitTl, DeleTl

\* The set of workers at a cell does not depend on the timer process.
LEMMA RefSameWorkers ==
  ASSUME RefCountExact, ref_count' = ref_count, \A w \in Workers : cell'[w] = cell[w]
  PROVE  RefCountExact'
  <1>1. \A c \in Cells : {w \in Workers : cell'[w] = c} = {w \in Workers : cell[w] = c}
    OBVIOUS
  <1> QED BY <1>1 DEF RefCountExact

\* The calls that end a handler are well formed.
LEMMA EndNamesGood ==
  \A n \in EndNames : Do(n) \in GoodOps /\ Do(n).name = n
  <1> SUFFICES ASSUME NEW n \in EndNames PROVE Do(n) \in GoodOps /\ Do(n).name = n
    OBVIOUS
  <1>1. n \in CallNames /\ n # "final_response_handler" /\ "" \in OpBufs
    BY DEF EndNames, CallNames, OpBufs
  <1>2. [name |-> n, rb |-> "", code |-> 0, flag |-> FALSE]
          \in [name : CallNames, rb : OpBufs, code : ReplyCodes, flag : BOOLEAN]
    BY ZenonT(60), <1>1, SomeCodes, RecordIn
  <1>3. Do(n) \in OpType BY <1>2 DEF Do, Op, OpType, OpBufs
  <1>4. Do(n).name = n BY DEF Do, Op
  <1> QED BY ZenonT(60), <1>1, <1>3, <1>4 DEF GoodOps

----------------------------------------------------------------------------
(***************************************************************************)
(* The steps of workers, and the calls they share with the timer process.  *)
(***************************************************************************)
\* set_timer of a retransmission timer (_set_fr_retr) preserves the invariant.
LEMMA SetRetrOK == ASSUME IInv, NEW a \in Actors, SetRetr(a) PROVE IInv'
  <1> DEFINE l == <<"retr", Call(a).rb>>
  <1>1. StateType /\ Calls(a, "set_retr") /\ "set_retr" \in PlainNames
        /\ Done(a, <<>>) /\ <<>> \in Seq(PlainOps)
    BY MadeNames, MadeSeqs DEF IInv, SetRetr
  <1>2. LinksKept(cell[a])
    <2>1. l \notin {WaitTl, DeleTl} /\ "RT" \in TimerLists
      BY RetrFrLinks DEF TimerLists
    <2>2. SetTimer(cell[a], l, "RT") \/ UNCHANGED tlvars BY ZenonT(60) DEF SetRetr
    <2> HIDE DEF l
    <2> QED BY <1>1, <2>1, <2>2, PrimKept, SameKept
  <1>3. UNCHANGED <<where, ref_count, tvars, reply_lock, hash_lock, cell,
                    timervars, msgs>>
    BY DEF SetRetr
  <1> QED BY ZenonT(60), <1>1, <1>2, <1>3, TimerOnly

\* set_1timer of a final-response timer (_set_fr_retr) preserves the invariant.
LEMMA SetFrOK == ASSUME IInv, NEW a \in Actors, SetFr(a) PROVE IInv'
  <1>1. StateType /\ Calls(a, "set_fr") /\ "set_fr" \in PlainNames
    BY MadeNames, MadeSeqs DEF IInv, SetFr
  <1>2. LinksKept(cell[a])
    <2>1. <<"fr", Call(a).rb>> \notin {WaitTl, DeleTl} /\ "FR" \in TimerLists
      BY RetrFrLinks DEF TimerLists
    <2>2. Set1Timer(cell[a], <<"fr", Call(a).rb>>, "FR") BY DEF SetFr
    <2> QED BY <1>1, <2>1, <2>2, PrimKept
  <1>3. UNCHANGED <<where, ref_count, tvars, reply_lock, hash_lock, cell,
                    timervars, msgs>>
    BY DEF SetFr
  <1>4. PICK more \in Seq(PlainOps) : Done(a, more)
    BY ZenonT(60), MadeSeqs DEF SetFr
  <1> QED BY <1>1, <1>2, <1>3, <1>4, TimerOnly

\* put_on_wait preserves the invariant: the wait timer is set once, on a hashed cell.
LEMMA PutOnWaitOK == ASSUME IInv, NEW a \in Actors, PutOnWait(a) PROVE IInv'
  <1>1. StateType /\ Calls(a, "put_on_wait") /\ "put_on_wait" \in PlainNames
    BY MadeNames, MadeSeqs DEF IInv, PutOnWait
  <1>2. LinksKept(cell[a])
    BY <1>1, WaitKept DEF PutOnWait
  <1>3. UNCHANGED <<where, ref_count, tvars, reply_lock, hash_lock, cell,
                    timervars, msgs>>
    BY DEF PutOnWait
  <1>4. PICK more \in Seq(PlainOps) : Done(a, more)
    BY ZenonT(60), MadeSeqs DEF PutOnWait
  <1> QED BY <1>1, <1>2, <1>3, <1>4, TimerOnly

\* cleanup_uac_timers preserves the invariant.
LEMMA CleanupUacTimersOK == ASSUME IInv, NEW a \in Actors, CleanupUacTimers(a) PROVE IInv'
  <1>1. StateType /\ Calls(a, "cleanup_uac_timers") /\ "cleanup_uac_timers" \in PlainNames
    BY MadeNames, MadeSeqs DEF IInv, CleanupUacTimers
  <1>2. LinksKept(cell[a])
    BY <1>1, ResetKept DEF CleanupUacTimers
  <1>3. UNCHANGED <<where, ref_count, tvars, reply_lock, hash_lock, cell,
                    timervars, msgs>>
    BY DEF CleanupUacTimers
  <1>4. PICK more \in Seq(PlainOps) : Done(a, more)
    BY ZenonT(60), MadeSeqs DEF CleanupUacTimers
  <1> QED BY <1>1, <1>2, <1>3, <1>4, TimerOnly

\* t_release_transaction preserves the invariant.
LEMMA ReleaseTransactionOK == ASSUME IInv, NEW a \in Actors, ReleaseTransaction(a) PROVE IInv'
  <1>1. StateType /\ Calls(a, "t_release_transaction") /\ "t_release_transaction" \in PlainNames
    BY MadeNames, MadeSeqs DEF IInv, ReleaseTransaction
  <1>2. LinksKept(cell[a])
    BY <1>1, ResetKept DEF ReleaseTransaction
  <1>3. UNCHANGED <<where, ref_count, tvars, reply_lock, hash_lock, cell,
                    timervars, msgs>>
    BY DEF ReleaseTransaction
  <1>4. PICK more \in Seq(PlainOps) : Done(a, more)
    BY ZenonT(60), MadeNames, MadeSeqs DEF ReleaseTransaction
  <1> QED BY <1>1, <1>2, <1>3, <1>4, TimerOnly

\* set_final_timer preserves the invariant.
LEMMA SetFinalTimerOK == ASSUME IInv, NEW a \in Actors, SetFinalTimer(a) PROVE IInv'
  <1>1. StateType /\ Calls(a, "set_final_timer") /\ "set_final_timer" \in PlainNames
    BY ZenonT(60), MadeNames, MadeSeqs DEF IInv, SetFinalTimer
  <1>2. LinksKept(cell[a])
    <2>1. UNCHANGED tlvars BY ZenonT(60) DEF SetFinalTimer
    <2> QED BY <1>1, <2>1, SameKept
  <1>3. UNCHANGED <<where, ref_count, tvars, reply_lock, hash_lock, cell,
                    timervars, msgs>>
    BY DEF SetFinalTimer
  <1>4. PICK more \in Seq(PlainOps) : Done(a, more)
    <2>1. /\ StartRetr("rpl") \in Seq(PlainOps) /\ ForceRetr("rpl") \in Seq(PlainOps)
          /\ << Do("put_on_wait") >> \in Seq(PlainOps)
      BY FrRetrPlain, MadeNames, MadeSeqs DEF RetrBufs
    <2>2. \/ Done(a, StartRetr("rpl")) \/ Done(a, ForceRetr("rpl"))
          \/ Done(a, << Do("put_on_wait") >>)
      BY DEF SetFinalTimer
    <2> QED BY ZenonT(60), <2>1, <2>2
  <1> QED BY <1>1, <1>2, <1>3, <1>4, TimerOnly

\* The resets at the start of reply_received preserve the invariant.
LEMMA StopTimersOK == ASSUME IInv, NEW a \in Actors, StopTimers(a) PROVE IInv'
  <1>1. StateType /\ Calls(a, "stop_timers") /\ "stop_timers" \in PlainNames
    BY MadeNames, MadeSeqs DEF IInv, StopTimers
  <1>2. LinksKept(cell[a])
    BY <1>1, ResetKept DEF StopTimers
  <1>3. UNCHANGED <<where, ref_count, tvars, reply_lock, hash_lock, cell,
                    timervars, msgs>>
    BY DEF StopTimers
  <1>4. PICK more \in Seq(PlainOps) : Done(a, more)
    BY ZenonT(60), MadeSeqs DEF StopTimers
  <1> QED BY <1>1, <1>2, <1>3, <1>4, TimerOnly

\* The resets on a reply to our CANCEL preserve the invariant.
LEMMA CancelRepliedOK == ASSUME IInv, NEW a \in Actors, CancelReplied(a) PROVE IInv'
  <1>1. StateType /\ Calls(a, "cancel_replied") /\ "cancel_replied" \in PlainNames
    BY MadeNames, MadeSeqs DEF IInv, CancelReplied
  <1>2. LinksKept(cell[a])
    BY <1>1, ResetKept DEF CancelReplied
  <1>3. UNCHANGED <<where, ref_count, tvars, reply_lock, hash_lock, cell,
                    timervars, msgs>>
    BY DEF CancelReplied
  <1>4. PICK more \in Seq(PlainOps) : Done(a, more)
    BY ZenonT(60), MadeSeqs DEF CancelReplied
  <1> QED BY <1>1, <1>2, <1>3, <1>4, TimerOnly

\* Restarting FR_INV or retransmissions (process_reply_and_timer) preserves the
\* invariant.
LEMMA RestartTimersOK == ASSUME IInv, NEW a \in Actors, RestartTimers(a) PROVE IInv'
  <1>1. StateType /\ Calls(a, "restart_timers") /\ "restart_timers" \in PlainNames
    BY MadeNames, MadeSeqs DEF IInv, RestartTimers
  <1>2. LinksKept(cell[a])
    <2>1. <<"fr", "req">> \notin {WaitTl, DeleTl} /\ <<"retr", "req">> \notin {WaitTl, DeleTl}
      BY RetrFrLinks
    <2>2. "FR_INV" \in TimerLists /\ "RT" \in TimerLists BY DEF TimerLists
    <2>3. \/ SetTimer(cell[a], <<"fr", "req">>, "FR_INV")
          \/ SetTimer(cell[a], <<"retr", "req">>, "RT")
      BY DEF RestartTimers
    <2> QED BY <1>1, <2>1, <2>2, <2>3, PrimKept
  <1>3. UNCHANGED <<where, ref_count, tvars, reply_lock, hash_lock, cell,
                    timervars, msgs>>
    BY DEF RestartTimers
  <1>4. PICK more \in Seq(PlainOps) : Done(a, more)
    BY ZenonT(60), MadeSeqs DEF RestartTimers
  <1> QED BY <1>1, <1>2, <1>3, <1>4, TimerOnly

\* What the request route decides to do preserves the invariant.
LEMMA RouteOK == ASSUME IInv, NEW a \in Actors, Route(a) PROVE IInv'
  <1>1. StateType /\ Calls(a, "route") /\ "route" \in PlainNames
    BY MadeNames, MadeSeqs DEF IInv, Route
  <1>2. LinksKept(cell[a])
    <2>1. UNCHANGED tlvars BY DEF Route
    <2> QED BY <1>1, <2>1, SameKept
  <1>3. UNCHANGED <<where, ref_count, tvars, reply_lock, hash_lock, cell,
                    timervars, msgs>>
    BY DEF Route
  <1>4. PICK more \in Seq(PlainOps) : Done(a, more)
    <2>1. CASE \E code \in ScriptCodes : Done(a, << DoCode("t_reply", code) >>)
      BY ZenonT(60), <2>1, SomeCodes, MadeNames, MadeSeqs
    <2>2. CASE ~ \E code \in ScriptCodes : Done(a, << DoCode("t_reply", code) >>)
      <3>1. \/ Done(a, << Do("t_forward_nonack") >>)
            \/ Done(a, << Do("t_release_transaction") >>)
        BY <2>2 DEF Route
      <3> QED BY <3>1, MadeNames, MadeSeqs
    <2> QED BY <2>1, <2>2
  <1> QED BY <1>1, <1>2, <1>3, <1>4, TimerOnly

\* t_retransmit_reply preserves the invariant.
LEMMA RetransmitReplyOK == ASSUME IInv, NEW a \in Actors, RetransmitReply(a) PROVE IInv'
  <1>1. StateType /\ Calls(a, "t_retransmit_reply") /\ "t_retransmit_reply" \in PlainNames
    BY MadeNames, MadeSeqs DEF IInv, RetransmitReply
  <1>2. LinksKept(cell[a])
    <2>1. UNCHANGED tlvars BY DEF RetransmitReply
    <2> QED BY <1>1, <2>1, SameKept
  <1>3. UNCHANGED <<where, ref_count, tvars, reply_lock, hash_lock, cell,
                    timervars, msgs>>
    BY DEF RetransmitReply
  <1>4. PICK more \in Seq(PlainOps) : Done(a, more)
    BY ZenonT(60), MadeSeqs DEF RetransmitReply
  <1> QED BY <1>1, <1>2, <1>3, <1>4, TimerOnly

\* More of what the calls lead to.
LEMMA MoreSeqs ==
  /\ \A selected \in BOOLEAN : CancelUacsIf(selected) \in Seq(PlainOps)
  /\ \A code \in ReplyCodes : << FinalTimer(code) >> \in Seq(PlainOps)
  /\ StartRetr("req") \in Seq(PlainOps) /\ StartRetr("cancel") \in Seq(PlainOps)
  <1>1. \A selected \in BOOLEAN : CancelUacsIf(selected) \in Seq(PlainOps)
    BY MadeNames, MadeSeqs DEF CancelUacsIf
  <1>2. \A code \in ReplyCodes : << FinalTimer(code) >> \in Seq(PlainOps)
    BY MadeNames, MadeSeqs DEF FinalTimer
  <1>3. "req" \in RetrBufs /\ "cancel" \in RetrBufs BY DEF RetrBufs
  <1> QED BY <1>1, <1>2, <1>3, FrRetrPlain

\* The code of a call is a reply code, its flag a Boolean.
LEMMA CallTyped ==
  ASSUME CallType, NEW a \in Actors, NEW name, Calls(a, name)
  PROVE  Call(a) \in GoodOps /\ Call(a).code \in ReplyCodes /\ Call(a).flag \in BOOLEAN
  <1>1. Call(a) \in GoodOps BY SeqTail DEF CallType, Calls, Call
  <1>2. Call(a) \in OpType BY <1>1 DEF GoodOps
  <1> QED BY ZenonT(60), <1>1, <1>2 DEF OpType

\* The data is typed before the step.
LEMMA DataBefore == ASSUME IInv PROVE StateType /\ CallType /\ DataType
  BY DEF IInv, StateType, DataType

\* cancel_uacs preserves the invariant.
LEMMA CancelUacsOK == ASSUME IInv, NEW a \in Actors, CancelUacs(a) PROVE IInv'
  <1>1. Calls(a, "cancel_uacs") /\ "cancel_uacs" \in PlainNames
    BY MadeNames, MadeSeqs DEF CancelUacs
  <1>2. StateType /\ CallType /\ DataType BY DataBefore
  <1>3. DataType'
    BY ZenonT(60), <1>2 DEF CancelUacs, DataType
  <1>4. UNCHANGED <<where, ref_count, tlvars, hash_lock, cell, timervars, msgs>>
    BY ZenonT(60) DEF CancelUacs, tvars
  <1>5. PICK more \in Seq(PlainOps) : Done(a, more)
    <2>1. Done(a, StartRetr("cancel")) \/ Done(a, <<>>) BY DEF CancelUacs
    <2> QED BY ZenonT(60), <2>1, MadeSeqs, MoreSeqs
  <1> QED BY <1>1, <1>3, <1>4, <1>5, DataOnly

\* LOCK_REPLIES preserves the invariant.
LEMMA LockRepliesOK == ASSUME IInv, NEW a \in Actors, LockReplies(a) PROVE IInv'
  <1>1. Calls(a, "LOCK_REPLIES") /\ "LOCK_REPLIES" \in PlainNames
    BY MadeNames, MadeSeqs DEF LockReplies
  <1>2. StateType /\ CallType /\ DataType BY DataBefore
  <1>3. DataType'
    BY ZenonT(60), <1>2 DEF LockReplies, DataType, tvars
  <1>4. UNCHANGED <<where, ref_count, tlvars, hash_lock, cell, timervars, msgs>>
    BY DEF LockReplies, tvars
  <1>5. PICK more \in Seq(PlainOps) : Done(a, more)
    BY ZenonT(60), MadeSeqs DEF LockReplies
  <1> QED BY <1>1, <1>3, <1>4, <1>5, DataOnly

\* Setting T_WAS_CANCELLED_FLAG preserves the invariant.
LEMMA MarkCancelledOK == ASSUME IInv, NEW a \in Actors, MarkCancelled(a) PROVE IInv'
  <1>1. Calls(a, "mark_cancelled") /\ "mark_cancelled" \in PlainNames
    BY MadeNames, MadeSeqs DEF MarkCancelled
  <1>2. StateType /\ CallType /\ DataType BY DataBefore
  <1>3. DataType'
    BY ZenonT(60), <1>2 DEF MarkCancelled, DataType
  <1>4. UNCHANGED <<where, ref_count, tlvars, hash_lock, cell, timervars, msgs>>
    BY DEF MarkCancelled, tvars
  <1>5. PICK more \in Seq(PlainOps) : Done(a, more)
    BY ZenonT(60), MadeSeqs DEF MarkCancelled
  <1> QED BY <1>1, <1>3, <1>4, <1>5, DataOnly

\* cancel_invite preserves the invariant.
LEMMA CancelInviteOK == ASSUME IInv, NEW a \in Actors, CancelInvite(a) PROVE IInv'
  <1>1. Calls(a, "cancel_invite") /\ "cancel_invite" \in PlainNames
    BY MadeNames, MadeSeqs DEF CancelInvite
  <1>2. StateType /\ CallType /\ DataType BY DataBefore
  <1>3. DataType'
    BY ZenonT(60), <1>2 DEF CancelInvite, WhichCancel, DataType
  <1>4. UNCHANGED <<where, ref_count, tlvars, hash_lock, cell, timervars, msgs>>
    BY ZenonT(60) DEF CancelInvite, tvars
  <1>5. PICK more \in Seq(PlainOps) : Done(a, more)
    <2>1. Done(a, CancelUacsIf(ShouldCancelBranch(cell[a]))) BY DEF CancelInvite
    <2>2. ShouldCancelBranch(cell[a]) \in BOOLEAN BY DEF ShouldCancelBranch
    <2> QED BY <2>1, <2>2, MoreSeqs
  <1> QED BY <1>1, <1>3, <1>4, <1>5, DataOnly

\* The unlocked should_cancel_branch of final_response_handler preserves the
\* invariant.
LEMMA CancelTimedOutOK == ASSUME IInv, CancelTimedOut PROVE IInv'
  <1>0. Timer \in Actors BY DEF Actors
  <1>1. Calls(Timer, "cancel_timed_out") /\ "cancel_timed_out" \in PlainNames
    BY MadeNames, MadeSeqs DEF CancelTimedOut
  <1>2. StateType /\ CallType /\ DataType BY DataBefore
  <1>3. DataType'
    BY <1>2 DEF CancelTimedOut, WhichCancel, DataType
  <1>4. UNCHANGED <<where, ref_count, tlvars, hash_lock, cell, timervars, msgs>>
    BY DEF CancelTimedOut, tvars
  <1>5. PICK more \in Seq(PlainOps) : Done(Timer, more)
    <2>1. Done(Timer, CancelUacsIf(Invite(cell[Timer]) /\ ShouldCancelBranch(cell[Timer])))
      BY DEF CancelTimedOut
    <2>2. (Invite(cell[Timer]) /\ ShouldCancelBranch(cell[Timer])) \in BOOLEAN
      BY DEF ShouldCancelBranch
    <2> QED BY ZenonT(60), <2>1, <2>2, MoreSeqs
  <1> QED BY <1>1, <1>3, <1>4, <1>5, <1>0, DataOnly

\* t_forward_nonack preserves the invariant.
LEMMA ForwardOK == ASSUME IInv, NEW a \in Actors, Forward(a) PROVE IInv'
  <1>1. Calls(a, "t_forward_nonack") /\ "t_forward_nonack" \in PlainNames
    BY MadeNames, MadeSeqs DEF Forward
  <1>2. StateType /\ CallType /\ DataType BY DataBefore
  <1>3. DataType'
    BY <1>2 DEF Forward, DataType
  <1>4. UNCHANGED <<where, ref_count, tlvars, hash_lock, cell, timervars, msgs>>
    BY DEF Forward, tvars
  <1>5. PICK more \in Seq(PlainOps) : Done(a, more)
    <2> DEFINE s1 == << DoCode("t_reply", 487), DoCode("t_reply", 500) >>
               s2 == << DoCode("t_reply", 500) >>
    <2>1. Done(a, s1) \/ Done(a, StartRetr("req")) \/ Done(a, s2) BY DEF Forward
    <2>2. s1 \in Seq(PlainOps) BY DoPlain, SomeCodes, MadeNames
    <2>3. s2 \in Seq(PlainOps) BY SomeCodes, MadeNames, MadeSeqs
    <2> HIDE DEF s1, s2
    <2> QED BY <2>1, <2>2, <2>3, MoreSeqs
  <1> QED BY <1>1, <1>3, <1>4, <1>5, DataOnly

\* _reply_light preserves the invariant.
LEMMA ReplyOK == ASSUME IInv, NEW a \in Actors, Reply(a) PROVE IInv'
  <1>1. Calls(a, "t_reply") /\ "t_reply" \in PlainNames
    BY ZenonT(60), MadeNames, MadeSeqs DEF Reply
  <1>2. StateType /\ CallType /\ DataType BY DataBefore
  <1>3. DataType'
    <2>1. Call(a).code \in ReplyCodes BY <1>1, <1>2, CallTyped
    <2>2. CASE UNCHANGED tvars BY <1>2, <2>2 DEF Reply, DataType, tvars
    <2>3. CASE /\ status' = [status EXCEPT ![cell[a]] = Call(a).code]
               /\ replied_local' = [replied_local EXCEPT ![cell[a]] = TRUE]
               /\ WhichCancel(cell[a]) \/ UNCHANGED cancel_buf
               /\ UNCHANGED <<uac, last_received, to_cancel, was_cancelled>>
      BY ZenonT(60), <1>2, <2>1, <2>3 DEF Reply, DataType, WhichCancel
    <2> QED BY ZenonT(60), <2>2, <2>3 DEF Reply
  <1>4. UNCHANGED <<where, ref_count, tlvars, hash_lock, cell, timervars, msgs>>
    BY ZenonT(60) DEF Reply, tvars
  <1>5. PICK more \in Seq(PlainOps) : Done(a, more)
    <2>1. Call(a).code \in ReplyCodes BY <1>1, <1>2, CallTyped
    <2>2. CASE Done(a, << Do("cleanup_uac_timers"), Do("put_on_wait") >>)
      BY ZenonT(60), <2>2, MadeNames, MadeSeqs
    <2>3. CASE Done(a, <<>>) BY ZenonT(60), <2>3, MadeSeqs
    <2>4. CASE Done(a, << Do("cleanup_uac_timers") >>
                       \o CancelUacsIf(Invite(cell[a]) /\ ShouldCancelBranch(cell[a]))
                       \o << FinalTimer(Call(a).code) >>)
      <3>1. (Invite(cell[a]) /\ ShouldCancelBranch(cell[a])) \in BOOLEAN
        BY DEF ShouldCancelBranch
      <3>2. << Do("cleanup_uac_timers") >>
              \o CancelUacsIf(Invite(cell[a]) /\ ShouldCancelBranch(cell[a])) \in Seq(PlainOps)
        BY ZenonT(60), <3>1, MadeNames, MadeSeqs, MoreSeqs
      <3>3. << FinalTimer(Call(a).code) >> \in Seq(PlainOps) BY <2>1, MoreSeqs
      <3> QED BY ZenonT(60), <2>4, <3>2, <3>3, MadeSeqs
    <2> QED BY ZenonT(60), <2>2, <2>3, <2>4 DEF Reply
  <1> QED BY <1>1, <1>3, <1>4, <1>5, DataOnly

\* The start of process_reply_and_timer preserves the invariant.
LEMMA ProcessReplyOK == ASSUME IInv, NEW a \in Actors, ProcessReply(a) PROVE IInv'
  <1>1. Calls(a, "process_reply_and_timer") /\ "process_reply_and_timer" \in PlainNames
    BY ZenonT(60), MadeNames, MadeSeqs DEF ProcessReply
  <1>2. StateType /\ CallType /\ DataType BY DataBefore
  <1>3. DataType'
    <2>1. cancel_buf' \in [Cells -> {"null", "busy", "built"}]
      BY ZenonT(60), <1>2 DEF ProcessReply, DataType
    <2>2. to_cancel' \in [Cells -> BOOLEAN]
      BY ZenonT(60), <1>2 DEF ProcessReply, DataType
    <2> QED BY <1>2, <2>1, <2>2 DEF ProcessReply, DataType
  <1>4. UNCHANGED <<where, ref_count, tlvars, hash_lock, cell, timervars, msgs>>
    BY ZenonT(60) DEF ProcessReply, tvars
  <1>5. PICK more \in Seq(PlainOps) : Done(a, more)
    <2> DEFINE op == Op("relay_reply", "msg", Call(a).code, Call(a).flag)
    <2>1. op \in PlainOps
      <3>1. "msg" \in OpBufs BY DEF OpBufs
      <3> QED BY <1>1, <1>2, <3>1, CallTyped, MadeNames, OpPlain
    <2>2. Done(a, StartRetr("cancel") \o << op >>) \/ Done(a, <<>> \o << op >>)
      BY ZenonT(60) DEF ProcessReply
    <2> HIDE DEF op
    <2>3. << op >> \in Seq(PlainOps) BY <2>1
    <2> QED BY ZenonT(60), <2>2, <2>3, MadeSeqs, MoreSeqs
  <1> QED BY <1>1, <1>3, <1>4, <1>5, DataOnly

\* relay_reply preserves the invariant.
LEMMA RelayReplyOK == ASSUME IInv, NEW a \in Actors, RelayReply(a) PROVE IInv'
  <1>1. Calls(a, "relay_reply") /\ "relay_reply" \in PlainNames
    BY MadeNames, MadeSeqs DEF RelayReply
  <1>2. StateType /\ CallType /\ DataType BY DataBefore
  <1>3. DataType'
    <2>1. Call(a).code \in ReplyCodes BY <1>1, <1>2, CallTyped
    <2>2. status' \in [Cells -> ReplyCodes]
      <3>1. \/ status' = [status EXCEPT ![cell[a]] = Call(a).code]
            \/ status' = [status EXCEPT ![cell[a]] = @]
        BY ZenonT(60) DEF RelayReply
      <3> QED BY <1>2, <2>1, <3>1 DEF DataType
    <2>5. last_received' \in [Cells -> ReplyCodes]
      <3>1. \/ last_received' = [last_received EXCEPT ![cell[a]] = Call(a).code]
            \/ last_received' = [last_received EXCEPT ![cell[a]] = @]
        BY ZenonT(60) DEF RelayReply
      <3> QED BY <1>2, <2>1, <3>1 DEF DataType
    <2>3. replied_local' \in [Cells -> BOOLEAN] BY ZenonT(60), <1>2 DEF RelayReply, DataType
    <2>4. reply_lock' \in [Cells -> Actors \cup {None}] BY ZenonT(60), <1>2 DEF RelayReply, DataType
    <2> QED BY <1>2, <2>2, <2>3, <2>4, <2>5 DEF RelayReply, DataType
  <1>4. UNCHANGED <<where, ref_count, tlvars, hash_lock, cell, timervars, msgs>>
    BY ZenonT(60) DEF RelayReply, tvars
  <1>5. PICK more \in Seq(PlainOps) : Done(a, more)
    <2>1. Call(a).code \in ReplyCodes BY <1>1, <1>2, CallTyped
    <2>2. << FinalTimer(Call(a).code) >> \in Seq(PlainOps) BY <2>1, MoreSeqs
    <2>3. /\ << Do("cleanup_uac_timers") >> \in Seq(PlainOps)
          /\ << Do("restart_timers") >> \in Seq(PlainOps)
          /\ <<>> \in Seq(PlainOps)
      BY MadeNames, MadeSeqs
    <2>4. \/ Done(a, << FinalTimer(Call(a).code) >> \o << Do("cleanup_uac_timers") >>)
          \/ Done(a, << FinalTimer(Call(a).code) >> \o <<>>)
          \/ Done(a, << Do("restart_timers") >>)
          \/ Done(a, <<>>)
      BY ZenonT(60) DEF RelayReply
    <2> QED BY ZenonT(60), <2>2, <2>3, <2>4, MadeSeqs
  <1> QED BY <1>1, <1>3, <1>4, <1>5, DataOnly

\* retransmission_handler preserves the invariant.
LEMMA RetransmissionHandlerOK == ASSUME IInv, RetransmissionHandler PROVE IInv'
  <1>0. Timer \in Actors BY DEF Actors
  <1>1. StateType /\ Calls(Timer, "retransmission_handler") /\ Done(Timer, <<>>)
    BY DEF IInv, RetransmissionHandler
  <1>2. "retransmission_handler" \in PlainNames
    BY DEF PlainNames, CallNames, EndNames, WaitNames, DelNames
  <1>3. LinksKept(cell[Timer])
    <2> DEFINE l == <<"retr", Call(Timer).rb>>
    <2>1. l \notin {WaitTl, DeleTl} /\ "RT" \in TimerLists
      BY RetrFrLinks DEF TimerLists
    <2>2. InsertTimer(cell[Timer], l, "RT") BY DEF RetransmissionHandler
    <2> HIDE DEF l
    <2> QED BY <1>1, <2>1, <2>2, PrimKept
  <1>4. UNCHANGED <<where, ref_count, tvars, reply_lock, hash_lock, cell,
                    timervars, msgs>>
    BY DEF RetransmissionHandler
  <1> QED BY ZenonT(60), <1>0, <1>1, <1>2, <1>3, <1>4, MadeSeqs, TimerOnly

\* final_response_handler preserves the invariant.
LEMMA FinalResponseHandlerOK == ASSUME IInv, FinalResponseHandler PROVE IInv'
  <1>0. Timer \in Actors BY DEF Actors
  <1>1. StateType /\ CallType /\ Calls(Timer, "final_response_handler")
    BY DEF IInv, FinalResponseHandler
  <1>2. "final_response_handler" \in PlainNames
    BY DEF PlainNames, CallNames, EndNames, WaitNames, DelNames
  <1>3. LinksKept(cell[Timer]) BY <1>1, ResetKept DEF FinalResponseHandler
  <1>4. UNCHANGED <<where, ref_count, tvars, reply_lock, hash_lock, cell,
                    timervars, msgs>>
    BY DEF FinalResponseHandler
  <1>5. PICK more \in Seq(PlainOps) : Done(Timer, more)
    <2>1. Call(Timer) \in GoodOps /\ Call(Timer).name = "final_response_handler"
      BY <1>0, <1>1, CallTyped DEF Calls
    <2>2. Call(Timer).rb \in {"req", "rpl", "cancel"} BY <2>1 DEF GoodOps, RetrBufs
    <2> DEFINE op1 == Do("cancel_timed_out")
               op2 == Do("LOCK_REPLIES")
               op3 == Op("relay_reply", "timer", 408, FALSE)
               s == << op1, op2, op3 >>
    <2>3. Done(Timer, <<>>) \/ Done(Timer, << Do("put_on_wait") >>) \/ Done(Timer, s)
      BY <2>2 DEF FinalResponseHandler
    <2>4. s \in Seq(PlainOps)
      <3>1. op1 \in PlainOps /\ op2 \in PlainOps
        BY DoPlain, MadeNames
      <3>2. op3 \in PlainOps
        <4> DEFINE k == 408
        <4>1. "timer" \in OpBufs /\ FALSE \in BOOLEAN BY DEF OpBufs
        <4>2. k \in ReplyCodes BY SomeCodes
        <4> HIDE DEF k
        <4>3. Op("relay_reply", "timer", k, FALSE) \in PlainOps
          BY ZenonT(60), <4>1, <4>2, MadeNames, OpPlain
        <4> QED BY ZenonT(60), <4>3 DEF k
      <3> HIDE DEF op1, op2, op3
      <3> QED BY <3>1, <3>2
    <2> HIDE DEF s
    <2> QED BY ZenonT(60), <2>3, <2>4, MadeNames, MadeSeqs
  <1> QED BY <1>0, <1>1, <1>2, <1>3, <1>4, <1>5, TimerOnly

----------------------------------------------------------------------------
(***************************************************************************)
(* Workers come to a cell and leave it.                                    *)
(***************************************************************************)

\* What a worker has to do for a message ends in UNREF.
LEMMA ArriveTodo ==
  ASSUME NEW calls \in Seq(PlainOps)
  PROVE  /\ calls \o << Do("UNREF") >> \in Seq(GoodOps)
         /\ EndsIn(calls \o << Do("UNREF") >>, "UNREF")
  <1> DEFINE op == Do("UNREF")
             s == calls \o << op >>
  <1>1. op \in GoodOps /\ op.name = "UNREF" BY EndNamesGood DEF EndNames
  <1> HIDE DEF op
  <1>2. /\ calls \in Seq(GoodOps) /\ Len(calls) \in Nat
        /\ \A i \in 1..Len(calls) : calls[i].name \in PlainNames
    BY PlainSeq, SeqLen
  <1>3. << op >> \in Seq(GoodOps) /\ Len(<< op >>) = 1 /\ << op >>[1] = op BY <1>1
  <1>4. /\ s \in Seq(GoodOps) /\ Len(s) = Len(calls) + 1
        /\ \A i \in 1..Len(calls) + 1 :
             s[i] = IF i <= Len(calls) THEN calls[i] ELSE << op >>[i - Len(calls)]
    BY <1>2, <1>3, SeqConcat
  <1> HIDE DEF s
  <1>5. \A n \in PlainNames : n # "UNREF" BY DEF PlainNames, EndNames
  <1>6. \A i \in 1..Len(calls) : s[i] = calls[i] BY <1>2, <1>4
  <1>7. s[Len(calls) + 1] = op BY <1>2, <1>3, <1>4
  <1>8. ASSUME NEW i \in 1..Len(s) PROVE s[i].name = "UNREF" <=> i = Len(s)
    <2>1. CASE i <= Len(calls) BY <1>2, <1>4, <1>5, <1>6, <2>1
    <2>2. CASE i = Len(calls) + 1 BY <1>1, <1>4, <1>7, <2>2
    <2> QED BY <1>2, <1>4, <2>1, <2>2
  <1>9. s # <<>> BY <1>2, <1>4, SeqLen
  <1>10. EndsIn(s, "UNREF") BY <1>8, <1>9 DEF EndsIn
  <1> QED BY <1>4, <1>10 DEF s, op

\* One more worker at c.
LEMMA CountUp ==
  ASSUME CallType, NEW w \in Workers, NEW c \in Cells, cell[w] = None,
         cell' = [cell EXCEPT ![w] = c]
  PROVE  \A d \in Cells :
           Cardinality({v \in Workers : cell'[v] = d})
             = Cardinality({v \in Workers : cell[v] = d}) + (IF d = c THEN 1 ELSE 0)
  <1> SUFFICES ASSUME NEW d \in Cells
               PROVE  Cardinality({v \in Workers : cell'[v] = d})
                        = Cardinality({v \in Workers : cell[v] = d})
                          + (IF d = c THEN 1 ELSE 0)
    OBVIOUS
  <1> DEFINE S == {v \in Workers : cell[v] = d}
             T == {v \in Workers : cell'[v] = d}
  <1>1. IsFiniteSet(S) BY ConstantsType, FS_Subset
  <1>2. Cardinality(S) \in Nat BY <1>1, FS_CardinalityType
  <1>3. \A v \in Workers : cell'[v] = IF v = w THEN c ELSE cell[v]
    BY DEF CallType, Actors
  <1>4. w \notin S BY ConstantsType
  <1>5. CASE d = c
    <2>1. T = S \cup {w} BY <1>3, <1>5
    <2> HIDE DEF S, T
    <2>2. Cardinality(S \cup {w}) = Cardinality(S) + 1
      BY ZenonT(60), <1>1, <1>4, FS_AddElement
    <2> QED BY <1>5, <2>1, <2>2 DEF S, T
  <1>6. CASE d # c
    <2>1. T = S BY <1>3, <1>4, <1>6
    <2> HIDE DEF S, T
    <2> QED BY <1>2, <1>6, <2>1 DEF S, T
  <1> QED BY <1>5, <1>6

\* One worker less at the cell it had.
LEMMA CountDown ==
  ASSUME CallType, NEW w \in Workers, cell[w] \in Cells,
         cell' = [cell EXCEPT ![w] = None]
  PROVE  \A d \in Cells :
           Cardinality({v \in Workers : cell'[v] = d})
             = Cardinality({v \in Workers : cell[v] = d}) - (IF d = cell[w] THEN 1 ELSE 0)
  <1> SUFFICES ASSUME NEW d \in Cells
               PROVE  Cardinality({v \in Workers : cell'[v] = d})
                        = Cardinality({v \in Workers : cell[v] = d})
                          - (IF d = cell[w] THEN 1 ELSE 0)
    OBVIOUS
  <1> DEFINE S == {v \in Workers : cell[v] = d}
             T == {v \in Workers : cell'[v] = d}
  <1>1. IsFiniteSet(S) BY ConstantsType, FS_Subset
  <1>2. Cardinality(S) \in Nat BY <1>1, FS_CardinalityType
  <1>3. \A v \in Workers : cell'[v] = IF v = w THEN None ELSE cell[v]
    BY DEF CallType, Actors
  <1>4. None # d BY ConstantsType
  <1>5. CASE d = cell[w]
    <2>1. T = S \ {w} /\ w \in S BY <1>3, <1>4, <1>5
    <2> HIDE DEF S, T
    <2>2. Cardinality(S \ {w}) = Cardinality(S) - 1
      BY ZenonT(60), <1>1, <2>1, FS_RemoveElement
    <2> QED BY <1>5, <2>1, <2>2 DEF S, T
  <1>6. CASE d # cell[w]
    <2>1. T = S BY <1>3, <1>4, <1>6
    <2> HIDE DEF S, T
    <2> QED BY <1>2, <1>6, <2>1 DEF S, T
  <1> QED BY <1>5, <1>6

\* A cell about to be freed is out of the hash table.
LEMMA FreeUnhashed ==
  ASSUME IInv, TimerHas({"free_cell"})
  PROVE  where[cell[Timer]] = "unhashed"
  <1>1. CallType /\ TimerInv /\ DeleteInv BY DEF IInv
  <1>2. PICK i \in 1..Len(todo[Timer]) : todo[Timer][i].name = "free_cell"
    BY DEF TimerHas
  <1>3. todo[Timer] \in Seq(GoodOps) /\ Len(todo[Timer]) \in Nat /\ todo[Timer] # <<>>
    BY <1>1, <1>2, SeqLen DEF CallType, Actors
  <1>4. \A j \in 2..Len(todo[Timer]) :
          todo[Timer][j].name \notin WaitNames \cup {"delete_later", "free_cell"}
    BY <1>1, <1>3 DEF TimerInv
  <1>5. i = 1 BY <1>2, <1>3, <1>4
  <1>6. "free_cell" \in DelNames /\ "free_cell" \notin WaitNames
    BY DEF DelNames, WaitNames
  <1>7. TimerHas(DelNames) BY <1>2, <1>6 DEF TimerHas
  <1>8. ~TimerHas(WaitNames) BY <1>2, <1>3, <1>4, <1>5, <1>6 DEF TimerHas
  <1> QED BY <1>1, <1>7, <1>8 DEF DeleteInv

\* A worker takes a reference to a cell that is in the hash table now.
LEMMA ArriveOK ==
  ASSUME IInv, NEW w \in Workers, NEW c \in Cells, NEW calls \in Seq(PlainOps),
         todo[w] = <<>>, where[c] \in {"unborn", "hashed"},
         where'[c] = "hashed", \A d \in Cells : d # c => where'[d] = where[d],
         ref_count' = [ref_count EXCEPT ![c] = @ + 1],
         cell' = [cell EXCEPT ![w] = c],
         todo' = [todo EXCEPT ![w] = calls \o << Do("UNREF") >>],
         link' = link, detached' = detached, StateType'
  PROVE  IInv'
  <1> DEFINE s == calls \o << Do("UNREF") >>
  <1>1. /\ StateType /\ CallType /\ WorkerInv /\ TimerInv /\ DeleteInv /\ LinkInv
        /\ UnbornInv /\ RefCountExact /\ NoUseAfterFree /\ DeletedOnce
    BY DEF IInv
  <1>2. s \in Seq(GoodOps) /\ EndsIn(s, "UNREF") BY ArriveTodo
  <1> HIDE DEF s
  <1>3. todo' = [todo EXCEPT ![w] = s] BY DEF s
  <1>4. w \in Actors /\ Timer \in Actors /\ w # Timer BY ConstantsType DEF Actors
  <1>5. /\ todo'[w] = s /\ todo'[Timer] = todo[Timer]
        /\ \A v \in Workers : v # w => todo'[v] = todo[v]
        /\ todo' \in [Actors -> Seq(GoodOps)]
    BY ZenonT(60), <1>1, <1>2, <1>3, <1>4 DEF CallType, Actors
  <1>6. /\ cell'[w] = c /\ cell'[Timer] = cell[Timer]
        /\ \A v \in Workers : v # w => cell'[v] = cell[v]
        /\ cell' \in [Actors -> Cells \cup {None}]
    BY <1>1, <1>4 DEF CallType, Actors
  <1>7. /\ ref_count' \in [Cells -> Int]
        /\ \A d \in Cells : ref_count'[d] = ref_count[d] + (IF d = c THEN 1 ELSE 0)
    BY <1>1 DEF CallType
  <1>8. CallType' BY <1>5, <1>6, <1>7 DEF CallType
  <1>9. WorkerInv'
    <2> SUFFICES ASSUME NEW v \in Workers
                 PROVE  /\ cell'[v] = None <=> todo'[v] = <<>>
                        /\ todo'[v] # <<>> => EndsIn(todo'[v], "UNREF")
      BY DEF WorkerInv
    <2>1. CASE v = w
      <3>1. None # c BY ConstantsType
      <3>2. s # <<>> BY <1>2 DEF EndsIn
      <3> QED BY ZenonT(60), <1>2, <1>5, <1>6, <2>1, <3>1, <3>2
    <2>2. CASE v # w BY <1>1, <1>5, <1>6, <2>2 DEF WorkerInv
    <2> QED BY ZenonT(60), <2>1, <2>2
  <1>10. TimerInv' BY ZenonT(60), <1>1, <1>5 DEF TimerInv
  <1>11. \A N : TimerHas(N)' <=> TimerHas(N) BY ZenonT(60), <1>5 DEF TimerHas
  <1>12. \A d \in Cells : \A l : Pending(d, l)' <=> Pending(d, l)
    BY ZenonT(60) DEF Pending, IsInTimerList
  <1>13. DeleteInv'
    <2> DEFINE ct == cell[Timer]
    <2>1. TimerHas(WaitNames \cup DelNames) => ct \in Cells BY <1>1 DEF DeleteInv
    <2>2. TimerHas(WaitNames) \/ TimerHas(DelNames) => TimerHas(WaitNames \cup DelNames)
      BY DEF TimerHas
    <2>3. ASSUME TimerHas(WaitNames)
          PROVE  /\ where'[ct] = "hashed" /\ link'[ct][WaitTl] = "detached"
                 /\ <<ct, WaitTl>> \notin detached'
      BY ZenonT(60), <1>1, <2>1, <2>2, <2>3 DEF DeleteInv
    <2>4. ASSUME TimerHas(DelNames), ~TimerHas(WaitNames)
          PROVE  where'[ct] = "unhashed" /\ ~Pending(ct, DeleTl)'
      <3>1. where[ct] = "unhashed" /\ ~Pending(ct, DeleTl) /\ ct \in Cells
        BY ZenonT(60), <1>1, <2>1, <2>2, <2>4 DEF DeleteInv
      <3>2. where'[ct] = where[ct] BY ZenonT(60), <3>1
      <3>3. ~Pending(ct, DeleTl)' BY <1>6, <3>1 DEF Pending, IsInTimerList
      <3> QED BY ZenonT(60), <3>1, <3>2, <3>3
    <2>5. ASSUME TimerHas({"free_cell"}) PROVE ref_count'[ct] = 0
      <3>1. ref_count[ct] = 0 BY <1>1, <2>5 DEF DeleteInv
      <3>2. where[ct] = "unhashed" BY <2>5, FreeUnhashed
      <3>3. ct \in Cells
        <4>1. "free_cell" \in WaitNames \cup DelNames BY DEF DelNames
        <4>2. TimerHas(WaitNames \cup DelNames) BY <2>5, <4>1 DEF TimerHas
        <4> QED BY <2>1, <4>2
      <3> QED BY <1>7, <3>1, <3>2, <3>3
    <2>6. cell'[Timer] = ct BY <1>6
    <2>7. /\ TimerHas(WaitNames \cup DelNames)' <=> TimerHas(WaitNames \cup DelNames)
          /\ TimerHas(WaitNames)' <=> TimerHas(WaitNames)
          /\ TimerHas(DelNames)' <=> TimerHas(DelNames)
          /\ TimerHas({"free_cell"})' <=> TimerHas({"free_cell"})
      BY <1>11
    <2>8. ASSUME TimerHas(WaitNames)'
          PROVE  /\ where'[cell'[Timer]] = "hashed"
                 /\ link'[cell'[Timer]][WaitTl] = "detached"
                 /\ <<cell'[Timer], WaitTl>> \notin detached'
      BY <2>3, <2>6, <2>7, <2>8
    <2>9. ASSUME TimerHas(DelNames)', ~TimerHas(WaitNames)'
          PROVE  where'[cell'[Timer]] = "unhashed" /\ ~Pending(cell[Timer], DeleTl)'
      <3>1. where'[ct] = "unhashed" /\ ~Pending(ct, DeleTl)' BY ZenonT(60), <2>4, <2>7, <2>9
      <3> QED BY <2>6, <3>1 DEF Pending, IsInTimerList
    <2>10. TimerHas({"free_cell"})' => ref_count'[cell'[Timer]] = 0
      BY <2>5, <2>6, <2>7
    <2>11. TimerHas(WaitNames \cup DelNames)' => cell'[Timer] \in Cells
      BY <2>1, <2>6, <2>7
    <2> QED BY ZenonT(60), <2>8, <2>9, <2>10, <2>11 DEF DeleteInv
  <1>14. LinkInv' BY ZenonT(60), <1>1 DEF LinkInv
  <1>15. UnbornInv'
    <2> SUFFICES ASSUME NEW d \in Cells, where'[d] = "unborn"
                 PROVE  /\ \A l \in Links : ~Pending(d, l)'
                        /\ \A a \in Actors : cell'[a] # d
      BY DEF UnbornInv
    <2>1. d # c /\ where[d] = "unborn" OBVIOUS
    <2>2. \A a \in Actors : cell'[a] = c \/ cell'[a] = cell[a] BY <1>6 DEF Actors
    <2> QED BY <1>1, <1>12, <2>1, <2>2 DEF UnbornInv
  <1>16. RefCountExact'
    <2>1. cell[w] = None BY <1>1 DEF WorkerInv
    <2>2. \A d \in Cells :
            Cardinality({v \in Workers : cell'[v] = d})
              = Cardinality({v \in Workers : cell[v] = d}) + (IF d = c THEN 1 ELSE 0)
      BY ZenonT(60), <1>1, <2>1, CountUp
    <2> QED BY ZenonT(60), <1>1, <1>7, <2>2 DEF RefCountExact
  <1>17. NoUseAfterFree'
    <2> SUFFICES ASSUME NEW v \in Workers, cell'[v] # None
                 PROVE  where'[cell'[v]] # "freed"
      BY DEF NoUseAfterFree
    <2>1. CASE v = w BY <1>6, <2>1
    <2>2. CASE v # w
      <3>1. cell[v] \in Cells /\ where[cell[v]] # "freed"
        BY <1>1, <1>6, <2>2 DEF NoUseAfterFree, CallType, Actors
      <3> QED BY <1>6, <2>2, <3>1
    <2> QED BY <2>1, <2>2
  <1>18. DeletedOnce'
    <2> SUFFICES ASSUME NEW d \in Cells
                 PROVE  /\ Pending(d, WaitTl) => where'[d] = "hashed"
                        /\ Pending(d, DeleTl) => where'[d] = "unhashed"
      BY ZenonT(60), <1>12 DEF DeletedOnce
    <2>1. WaitTl \in Links /\ DeleTl \in Links BY DEF Links
    <2>2. CASE d # c BY <1>1, <2>2 DEF DeletedOnce
    <2>3. CASE d = c BY <1>1, <2>1, <2>3 DEF DeletedOnce, UnbornInv
    <2> QED BY ZenonT(60), <2>2, <2>3
  <1> QED BY <1>8, <1>9, <1>10, <1>13, <1>14, <1>15, <1>16, <1>17, <1>18 DEF IInv

\* A message that matches the cell.
LEMMA MatchOK ==
  ASSUME IInv, NEW w \in Workers, NEW c \in Cells, NEW calls \in Seq(PlainOps),
         Match(w, c, calls)
  PROVE  IInv'
  <1>1. /\ todo[w] = <<>> /\ where[c] = "hashed"
        /\ ref_count' = [ref_count EXCEPT ![c] = @ + 1]
        /\ cell' = [cell EXCEPT ![w] = c]
        /\ todo' = [todo EXCEPT ![w] = calls \o << Do("UNREF") >>]
        /\ UNCHANGED <<where, tlvars, tvars, reply_lock, hash_lock, timervars>>
    BY DEF Match
  <1>2. StateType BY DEF IInv
  <1>3. msgs' \in Nat BY <1>2 DEF Match, StateType
  <1>4. StateType' BY <1>1, <1>2, <1>3 DEF StateType, tlvars, tvars, timervars
  <1>5. where' = where /\ link' = link /\ detached' = detached
    BY <1>1 DEF tlvars, timervars
  <1>6. where'[c] = "hashed" /\ \A d \in Cells : d # c => where'[d] = where[d]
    BY <1>1, <1>5
  <1> QED BY ZenonT(60), <1>1, <1>4, <1>5, <1>6, ArriveOK

\* A new transaction, which has one reference from the start.
LEMMA NewTranOK ==
  ASSUME IInv, NEW w \in Workers, NEW c \in Cells, NewTran(w, c)
  PROVE  IInv'
  <1> DEFINE first == IF Invite(c) THEN << DoCode("t_reply", 100) >> ELSE <<>>
             calls == first \o << Do("route") >>
  <1>1. /\ StateType /\ CallType /\ UnbornInv /\ RefCountExact BY DEF IInv
  <1>2. /\ todo[w] = <<>> /\ where[c] = "unborn"
        /\ where' = [where EXCEPT ![c] = "hashed"]
        /\ ref_count' = [ref_count EXCEPT ![c] = 1]
        /\ cell' = [cell EXCEPT ![w] = c]
        /\ todo' = [todo EXCEPT ![w] = first \o << Do("route"), Do("UNREF") >>]
        /\ UNCHANGED <<tlvars, tvars, reply_lock, hash_lock, timervars, msgs>>
    BY DEF NewTran
  <1>3. first \in Seq(PlainOps) BY SomeCodes, MadeNames, MadeSeqs
  <1>4. << Do("route") >> \in Seq(PlainOps) BY MadeNames, MadeSeqs
  <1>5. calls \in Seq(PlainOps) BY <1>3, <1>4, MadeSeqs
  <1> HIDE DEF first
  <1>6. first \o << Do("route"), Do("UNREF") >> = calls \o << Do("UNREF") >>
    <2> DEFINE r == Do("route")
               u == Do("UNREF")
    <2>0. r \in GoodOps /\ u \in GoodOps
      BY EndNamesGood, MadeNames, DoPlain DEF PlainOps, EndNames
    <2>1. first \in Seq(GoodOps) BY <1>3, PlainSeq
    <2> HIDE DEF r, u
    <2>2. << r >> \in Seq(GoodOps) /\ << u >> \in Seq(GoodOps) BY <2>0
    <2>3. << r, u >> = << r >> \o << u >>
      <3>1. << r, u >> = Append(<< r >>, u) OBVIOUS
      <3> QED BY ZenonT(60), <2>0, <2>2, <3>1, SeqAppend
    <2>4. (first \o << r >>) \o << u >> = first \o (<< r >> \o << u >>)
      BY <2>1, <2>2
    <2> QED BY <2>3, <2>4 DEF r, u, calls
  <1> HIDE DEF calls
  <1>7. ref_count[c] = 0
    <2>1. {v \in Workers : cell[v] = c} = {} BY <1>1, <1>2 DEF UnbornInv, Actors
    <2> QED BY <1>1, <2>1, FS_EmptySet DEF RefCountExact
  <1>8. ref_count' = [ref_count EXCEPT ![c] = @ + 1] BY <1>2, <1>7
  <1>9. todo' = [todo EXCEPT ![w] = calls \o << Do("UNREF") >>] BY ZenonT(60), <1>2, <1>6
  <1>10. StateType' BY <1>1, <1>2 DEF StateType, tlvars, tvars, timervars
  <1>11. link' = link /\ detached' = detached BY <1>2 DEF tlvars, timervars
  <1>12. where'[c] = "hashed" /\ \A d \in Cells : d # c => where'[d] = where[d]
    BY <1>1, <1>2 DEF StateType
  <1> QED BY ZenonT(60), <1>2, <1>5, <1>8, <1>9, <1>10, <1>11, <1>12, ArriveOK

\* Every message that matches leads to plain calls before UNREF.
LEMMA ArrivalOK == ASSUME IInv, NEW w \in Workers, Arrival(w) PROVE IInv'
  <1>1. PICK c \in Cells :
          \/ NewTran(w, c) \/ Retransmission(w, c) \/ Ack(w, c) \/ Cancel(w, c)
          \/ \E code \in Codes : ReplyReceived(w, c, code)
          \/ \E code \in {100, 200} : ReplyToCancel(w, c, code)
    BY DEF Arrival
  <1>2. CASE NewTran(w, c) BY <1>2, NewTranOK
  <1>3. CASE Retransmission(w, c)
    <2>1. << Do("t_retransmit_reply") >> \in Seq(PlainOps) BY MadeNames, MadeSeqs
    <2> QED BY ZenonT(60), <1>3, <2>1, MatchOK DEF Retransmission
  <1>4. CASE Ack(w, c)
    <2>1. << Do("t_release_transaction") >> \in Seq(PlainOps) BY MadeNames, MadeSeqs
    <2>2. Match(w, c, << Do("t_release_transaction") >>) BY <1>4 DEF Ack
    <2> QED BY ZenonT(60), <2>1, <2>2, MatchOK
  <1>5. CASE Cancel(w, c)
    <2>1. << Do("mark_cancelled"), Do("cancel_invite") >> \in Seq(PlainOps)
      BY MadeNames, MadeSeqs
    <2>2. Match(w, c, << Do("mark_cancelled"), Do("cancel_invite") >>)
      BY <1>5 DEF Cancel
    <2> QED BY ZenonT(60), <2>1, <2>2, MatchOK
  <1>6. ASSUME NEW code \in Codes, ReplyReceived(w, c, code) PROVE IInv'
    <2> DEFINE restart == /\ code < 200
                          /\ \/ RestartFr
                             \/ last_received[c] < code
                                  /\ (code >= 180 \/ last_received[c] = 0)
               op1 == DoCode("stop_timers", code)
               op2 == Do("LOCK_REPLIES")
               op3 == Op("process_reply_and_timer", "", code, restart)
               calls == << op1, op2, op3 >>
    <2>1. code \in ReplyCodes BY SomeCodes
    <2>2. restart \in BOOLEAN BY ConstantsType
    <2>3. Match(w, c, calls) BY ZenonT(60), <1>6 DEF ReplyReceived
    <2> HIDE DEF restart
    <2>4. op1 \in PlainOps BY <2>1, MadeNames, DoPlain
    <2>5. op2 \in PlainOps BY MadeNames, DoPlain
    <2>6. op3 \in PlainOps
      <3>1. "" \in OpBufs BY DEF OpBufs
      <3> QED BY ZenonT(60), <2>1, <2>2, <3>1, MadeNames, OpPlain
    <2> HIDE DEF op1, op2, op3
    <2>7. calls \in Seq(PlainOps) BY <2>4, <2>5, <2>6
    <2> HIDE DEF calls
    <2> QED BY <2>3, <2>7, MatchOK
  <1>7. ASSUME NEW code \in {100, 200}, ReplyToCancel(w, c, code) PROVE IInv'
    <2>1. code \in ReplyCodes BY DEF ReplyCodes
    <2>2. << DoCode("cancel_replied", code) >> \in Seq(PlainOps)
      BY <2>1, MadeNames, MadeSeqs
    <2>3. Match(w, c, << DoCode("cancel_replied", code) >>) BY <1>7 DEF ReplyToCancel
    <2> QED BY ZenonT(60), <2>2, <2>3, MatchOK
  <1> QED BY <1>1, <1>2, <1>3, <1>4, <1>5, <1>6, <1>7

\* A worker has done everything else when it dereferences the cell.
LEMMA UnrefOK == ASSUME IInv, NEW w \in Workers, Unref(w) PROVE IInv'
  <1>1. /\ StateType /\ CallType /\ WorkerInv /\ TimerInv /\ DeleteInv /\ LinkInv
        /\ UnbornInv /\ RefCountExact /\ NoUseAfterFree /\ DeletedOnce
    BY DEF IInv
  <1>2. /\ Calls(w, "UNREF") /\ Done(w, <<>>)
        /\ ref_count' = [ref_count EXCEPT ![cell[w]] = @ - 1]
        /\ cell' = [cell EXCEPT ![w] = None]
        /\ UNCHANGED <<where, tlvars, tvars, reply_lock, hash_lock, timervars, msgs>>
    BY DEF Unref
  <1>3. w \in Actors /\ Timer \in Actors /\ w # Timer BY ConstantsType DEF Actors
  <1>4. todo[w] \in Seq(GoodOps) /\ todo[w] # <<>> /\ Head(todo[w]).name = "UNREF"
    BY <1>1, <1>2, <1>3 DEF CallType, Calls, Call
  <1>5. EndsIn(todo[w], "UNREF") /\ cell[w] # None BY <1>1, <1>4 DEF WorkerInv
  <1>6. cell[w] \in Cells BY <1>1, <1>3, <1>5 DEF CallType
  <1>7. Len(todo[w]) = 1
    <2>1. Len(todo[w]) \in Nat /\ Len(todo[w]) # 0 BY <1>4, SeqLen
    <2>2. Head(todo[w]) = todo[w][1] BY <1>4
    <2> DEFINE n == Len(todo[w])
    <2>3. 1 \in 1..n BY <2>1
    <2>4. todo[w][1].name = "UNREF" <=> 1 = n BY ZenonT(60), <1>5, <2>3 DEF EndsIn
    <2> QED BY <1>4, <2>2, <2>4
  <1>8. <<>> \o Tail(todo[w]) = <<>>
    <2>1. <<>> \in Seq(GoodOps) /\ Len(<<>>) = 0 OBVIOUS
    <2>2. <<>> \o Tail(todo[w]) \in Seq(GoodOps) /\ Len(<<>> \o Tail(todo[w])) = 0
      BY <1>4, <1>7, <2>1, SeqDone
    <2> QED BY ZenonT(60), <2>2, SeqLen
  <1>9. todo' = [todo EXCEPT ![w] = <<>>] BY ZenonT(60), <1>2, <1>8 DEF Done
  <1>10. /\ todo'[w] = <<>> /\ todo'[Timer] = todo[Timer]
         /\ \A v \in Workers : v # w => todo'[v] = todo[v]
         /\ todo' \in [Actors -> Seq(GoodOps)]
    BY <1>1, <1>3, <1>9 DEF CallType, Actors
  <1>11. /\ cell'[w] = None /\ cell'[Timer] = cell[Timer]
         /\ \A v \in Workers : v # w => cell'[v] = cell[v]
         /\ cell' \in [Actors -> Cells \cup {None}]
    BY <1>1, <1>2, <1>3 DEF CallType, Actors
  <1>12. /\ ref_count' \in [Cells -> Int]
         /\ \A d \in Cells : ref_count'[d] = ref_count[d] - (IF d = cell[w] THEN 1 ELSE 0)
    BY <1>1, <1>2, <1>6 DEF CallType
  <1>13. where' = where /\ link' = link /\ detached' = detached
    BY <1>2 DEF tlvars, timervars
  <1>14. StateType' BY <1>1, <1>2 DEF StateType, tlvars, tvars, timervars
  <1>15. CallType' BY <1>10, <1>11, <1>12 DEF CallType
  <1>16. WorkerInv'
    <2> SUFFICES ASSUME NEW v \in Workers
                 PROVE  /\ cell'[v] = None <=> todo'[v] = <<>>
                        /\ todo'[v] # <<>> => EndsIn(todo'[v], "UNREF")
      BY DEF WorkerInv
    <2>1. CASE v = w BY <1>10, <1>11, <2>1
    <2>2. CASE v # w
      <3>1. todo'[v] = todo[v] /\ cell'[v] = cell[v] BY <1>10, <1>11, <2>2
      <3> QED BY <1>1, <3>1 DEF WorkerInv
    <2> QED BY <2>1, <2>2
  <1>17. TimerInv' BY <1>1, <1>10 DEF TimerInv
  <1>18. RefCountExact'
    <2>1. \A d \in Cells :
            Cardinality({v \in Workers : cell'[v] = d})
              = Cardinality({v \in Workers : cell[v] = d})
                - (IF d = cell[w] THEN 1 ELSE 0)
      BY ZenonT(60), <1>1, <1>2, <1>6, CountDown
    <2> SUFFICES ASSUME NEW d \in Cells
                 PROVE  ref_count'[d] = Cardinality({v \in Workers : cell'[v] = d})
      BY DEF RefCountExact
    <2>2. ref_count[d] = Cardinality({v \in Workers : cell[v] = d})
      BY <1>1 DEF RefCountExact
    <2> QED BY <1>12, <2>1, <2>2
  <1>19. DeleteInv'
    <2>1. /\ TimerHas(WaitNames \cup DelNames)' <=> TimerHas(WaitNames \cup DelNames)
          /\ TimerHas(WaitNames)' <=> TimerHas(WaitNames)
          /\ TimerHas(DelNames)' <=> TimerHas(DelNames)
          /\ TimerHas({"free_cell"})' <=> TimerHas({"free_cell"})
      BY ZenonT(60), <1>10 DEF TimerHas
    <2>2. Pending(cell[Timer], DeleTl)' <=> Pending(cell[Timer], DeleTl)
      BY <1>11, <1>13 DEF Pending, IsInTimerList
    <2>3. TimerHas({"free_cell"}) => cell[Timer] # cell[w]
      <3>1. \A v \in Workers : cell[v] = cell[Timer] /\ cell[v] \in Cells
              => ref_count[cell[Timer]] # 0
        <4> SUFFICES ASSUME NEW v \in Workers, cell[v] = cell[Timer], cell[v] \in Cells,
                            ref_count[cell[Timer]] = 0
                     PROVE  FALSE
          OBVIOUS
        <4> DEFINE S == {u \in Workers : cell[u] = cell[Timer]}
        <4>1. Cardinality(S) = 0 BY <1>1 DEF RefCountExact
        <4>2. IsFiniteSet(S)
          <5>1. S \subseteq Workers /\ IsFiniteSet(Workers) BY ConstantsType
          <5> HIDE DEF S
          <5> QED BY <5>1, FS_Subset
        <4>3. S = {} BY <4>1, <4>2, FS_EmptySet
        <4> QED BY <4>3
      <3> QED BY <1>1, <1>6, <3>1 DEF DeleteInv
    <2>4. ASSUME TimerHas({"free_cell"}) PROVE ref_count'[cell[Timer]] = 0
      <3>1. "free_cell" \in WaitNames \cup DelNames BY DEF DelNames
      <3>2. cell[Timer] \in Cells /\ ref_count[cell[Timer]] = 0
        <4>1. TimerHas(WaitNames \cup DelNames) BY <2>4, <3>1 DEF TimerHas
        <4> QED BY <1>1, <2>4, <4>1 DEF DeleteInv
      <3> QED BY <1>12, <2>3, <2>4, <3>2
    <2> QED BY ZenonT(60), <1>1, <1>11, <1>13, <2>1, <2>2, <2>4 DEF DeleteInv
  <1>20. LinkInv' BY ZenonT(60), <1>1, <1>13 DEF LinkInv
  <1>21. UnbornInv'
    <2>1. \A a \in Actors : cell'[a] = cell[a] \/ cell'[a] = None BY <1>11 DEF Actors
    <2>2. None \notin Cells BY ConstantsType
    <2>3. \A d \in Cells : \A l : Pending(d, l)' <=> Pending(d, l)
      BY <1>13 DEF Pending, IsInTimerList
    <2> QED BY ZenonT(60), <1>1, <1>13, <2>1, <2>2, <2>3 DEF UnbornInv
  <1>22. NoUseAfterFree' BY ZenonT(60), <1>1, <1>11, <1>13 DEF NoUseAfterFree
  <1>23. DeletedOnce' BY ZenonT(60), <1>1, <1>13 DEF DeletedOnce, Pending, IsInTimerList
  <1> QED BY <1>14, <1>15, <1>16, <1>17, <1>18, <1>19, <1>20, <1>21, <1>22, <1>23
          DEF IInv
=============================================================================
