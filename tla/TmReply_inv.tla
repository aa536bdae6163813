--------------------------- MODULE TmReply_inv ------------------------------
(***************************************************************************)
(* Proofs about TmReply, for every number of workers, branches and         *)
(* messages: the inductive invariant, and the steps that choose no         *)
(* negative reply.  TmReply_relay has that choice, the script's replies    *)
(* and forwarding, TmReply_proofs the theorems.                            *)
(***************************************************************************)
EXTENDS TmReply, TLAPS

\* The provers every leaf is given, unless it names its own.
USE SMTT(10), ZenonT(30), SMTT(60)

\* The calls of a sequence.
CallsOf(s) == {s[i] : i \in 1..Len(s)}

\* The calls actor a has yet to make.
Left(a) == CallsOf(todo[a])

\* Of the calls named in N, s has one at most.
AtMostOne(s, N) ==
    \A i, j \in 1..Len(s) : s[i].name \in N /\ s[j].name \in N => i = j

\* Calls with the arguments they are made with.
GoodOps ==
    {op \in OpType :
       /\ op.b \in Branches
       /\ op.name \in {"cancel_uacs", "send_requests"} => op.bm # {}
       /\ op.name = "on_failure" => op.code \in Branches
       /\ op.name = "t_reply" => op.code >= 200}

\* TypeOK, for these calls.
CountType == /\ nr \in 0 .. MaxBranches /\ first \in 0 .. MaxBranches /\ first <= nr
             /\ reply_lock \in Actors \cup {None} /\ msgs \in Nat
BranchType ==
    /\ request \in [Branches -> {"null", "built", "sent"}]
    /\ fr \in [Branches -> {"never", "armed", "reset", "fired"}]
    /\ last_received \in [Branches -> 0..699]
    /\ stored \in [Branches -> BOOLEAN] /\ rang \in [Branches -> BOOLEAN]
CancelType ==
    /\ cancel_buf \in [Branches -> {"null", "busy", "built"}]
    /\ to_cancel \in [Branches -> BOOLEAN] /\ cancels \in [Branches -> Nat]
ReplyType == status \in 0..699 /\ replied_local \in BOOLEAN /\ upstream \in Seq(200..699)
FlagType ==
    /\ was_cancelled \in BOOLEAN /\ no_new \in BOOLEAN /\ multi_200ok \in Multi200
    /\ rpl_retr \in {"never", "armed", "over"} /\ on_wait \in BOOLEAN
StateType == CountType /\ BranchType /\ CancelType /\ ReplyType /\ FlagType

TodoType == todo \in [Actors -> Seq(GoodOps)]
GoodType == StateType /\ TodoType

\* The calls of the request route: one process makes them.
ForwardNames == {"t_forward_nonack", "add_uac", "send_requests", "forwarded", "t_reply"}

\* The calls made for a branch whose request went out.
BranchNames == {"start_retr", "process_reply_and_timer", "relay_reply", "on_failure",
                "set_timer", "fake_reply"}

\* The calls made under the reply lock that depend on it.
LockNames == {"relay_reply", "on_failure", "UNLOCK_REPLIES"}

\* The calls without which nothing below is at stake.
PlainNames == {"cleanup_uac_timers", "put_on_wait", "set_final_timer", "cancel_uacs",
               "flag_to_cancel"}
PlainOps == {op \in GoodOps : op.name \in PlainNames}

\* Branches are added, and then sent, by one process, before any reply can come.
ForwardOK(a, op) ==
    /\ op.name \in {"t_forward_nonack", "add_uac"} =>
         /\ todo[a] = <<op>> /\ status < 200 /\ nr < MaxBranches
         /\ \A b \in Branches : request[b] # "sent" /\ (b < nr => request[b] = "built")
    /\ op.name = "send_requests" => \A b \in op.bm : request[b] = "built"
    /\ op.name \in BranchNames => request[op.b] = "sent"

ForwardInv ==
    /\ \A a \in Actors :
         /\ \A op \in Left(a) : ForwardOK(a, op)
         /\ AtMostOne(todo[a], {"send_requests"})
    /\ \A a, c \in Actors : \A x \in Left(a), y \in Left(c) :
         x.name \in ForwardNames /\ y.name \in ForwardNames => a = c
    /\ \A b \in Branches :
         /\ fr[b] # "never" \/ rang[b] \/ last_received[b] # 0 => request[b] = "sent"
         /\ request[b] # "null" => b < nr

\* A process that has a call under the reply lock to make holds the lock.
LockInv ==
    \A a \in Actors :
      /\ \A op \in Left(a) : op.name \in LockNames => reply_lock = a
      /\ AtMostOne(todo[a], LockNames)

\* The first final reply ends the wait for one; failure handlers run before it.
FinalInv ==
    /\ status < 200 => upstream = <<>>
    /\ OneFinal
    /\ \A a \in Actors : \A op \in Left(a) :
         op.name = "on_failure" => status < 200 /\ last_received[op.code] >= 200

\* A final reply of a current branch is stored, unless it is being handled.
StoreInv ==
    /\ \A a \in Actors : \A op \in Left(a) :
         op.name = "on_failure" /\ op.code # op.b => stored[op.code]
    /\ \A b \in Branches :
         first <= b /\ last_received[b] >= 200 /\ status < 200 =>
           \/ stored[b]
           \/ \E a \in Actors : \E op \in Left(a) : op.name = "on_failure" /\ op.b = b

\* The branch picked is the best one, until its reply is relayed.
Best(code) ==
    /\ Open(last_received) \subseteq Minor
    /\ ~was_cancelled => \A b \in Choices(last_received) :
         BranchPrio(code, FALSE) <= BranchPrio(last_received[b], FALSE)
PickInv ==
    \A a \in Actors : \A op \in Left(a) : op.name = "on_failure" =>
      \/ Block6xx /\ last_received[op.code] >= 600
      \/ Best(last_received[op.code])

\* Branch b is over, or some process has taken it on itself to cancel it.
Settled(b) == last_received[b] >= 200 \/ cancel_buf[b] # "null"

SelectInv ==
    /\ \A b \in Branches : request[b] # "null" =>
         /\ b < first => Settled(b)
         /\ Invite /\ status >= 200 /\ ~multi_200ok => Settled(b)
         /\ \A a \in Actors : \A op \in Left(a) : op.name = "on_failure" => Settled(b)
    /\ was_cancelled =>
         \/ \E a \in Actors : \E op \in Left(a) : op.name = "cancel_invite"
         \/ \A b \in Branches : rang[b] => Settled(b)

IInv == GoodType /\ ForwardInv /\ LockInv /\ FinalInv /\ StoreInv /\ PickInv /\ SelectInv

\* The branches an actor is about to cancel by this call.
Selected(op) == IF op.name = "send_requests" THEN {} ELSE op.bm

\* No branch is selected by two of the calls.
Disjoint(s) ==
    \A i, j \in 1..Len(s) : i # j => Selected(s[i]) \cap Selected(s[j]) = {}

----------------------------------------------------------------------------
(***************************************************************************)
(* Sequences of calls.                                                     *)
(***************************************************************************)
\* Some calls followed by others (Done, and the sequences relay_reply leaves).
LEMMA CallsCat ==
  ASSUME NEW S, NEW s \in Seq(S), NEW r \in Seq(S)
  PROVE  /\ s \o r \in Seq(S)
         /\ CallsOf(s \o r) = CallsOf(s) \cup CallsOf(r)
  <1>1. /\ s \o r \in Seq(S) /\ Len(s \o r) = Len(s) + Len(r)
        /\ Len(s) \in Nat /\ Len(r) \in Nat
        /\ \A i \in 1..Len(s) + Len(r) :
             (s \o r)[i] = IF i <= Len(s) THEN s[i] ELSE r[i - Len(s)]
    OBVIOUS
  <1>2. ASSUME NEW i \in 1..Len(s \o r)
        PROVE  (s \o r)[i] \in CallsOf(s) \cup CallsOf(r)
    <2>1. CASE i <= Len(s)
      <3>1. i \in 1..Len(s) /\ (s \o r)[i] = s[i] BY <1>1, <2>1
      <3> QED BY <3>1 DEF CallsOf
    <2>2. CASE i > Len(s)
      <3>1. i - Len(s) \in 1..Len(r) /\ (s \o r)[i] = r[i - Len(s)] BY <1>1, <2>2
      <3> QED BY <3>1 DEF CallsOf
    <2> QED BY <1>1, <2>1, <2>2
  <1>3. ASSUME NEW i \in 1..Len(s)
        PROVE  s[i] \in CallsOf(s \o r)
    <2>1. i \in 1..Len(s \o r) /\ (s \o r)[i] = s[i] BY <1>1
    <2> QED BY <2>1 DEF CallsOf
  <1>4. ASSUME NEW i \in 1..Len(r)
        PROVE  r[i] \in CallsOf(s \o r)
    <2>1. Len(s) + i \in 1..Len(s \o r) /\ (s \o r)[Len(s) + i] = r[i] BY <1>1
    <2> QED BY <2>1 DEF CallsOf
  <1>5. CallsOf(s \o r) \subseteq CallsOf(s) \cup CallsOf(r)
    <2> SUFFICES ASSUME NEW x \in CallsOf(s \o r) PROVE x \in CallsOf(s) \cup CallsOf(r)
      OBVIOUS
    <2>1. PICK i \in 1..Len(s \o r) : x = (s \o r)[i] BY DEF CallsOf
    <2> QED BY <1>2, <2>1
  <1>6. CallsOf(s) \subseteq CallsOf(s \o r)
    <2> SUFFICES ASSUME NEW x \in CallsOf(s) PROVE x \in CallsOf(s \o r)
      OBVIOUS
    <2>1. PICK i \in 1..Len(s) : x = s[i] BY DEF CallsOf
    <2> QED BY <1>3, <2>1
  <1>7. CallsOf(r) \subseteq CallsOf(s \o r)
    <2> SUFFICES ASSUME NEW x \in CallsOf(r) PROVE x \in CallsOf(s \o r)
      OBVIOUS
    <2>1. PICK i \in 1..Len(r) : x = r[i] BY DEF CallsOf
    <2> QED BY <1>4, <2>1
  <1> QED BY <1>1, <1>5, <1>6, <1>7

\* No call, one call, two calls.
LEMMA CallsFew ==
  /\ CallsOf(<<>>) = {}
  /\ \A x : CallsOf(<<x>>) = {x}
  /\ \A x, y : CallsOf(<<x, y>>) = {x, y}
  <1>1. CallsOf(<<>>) = {} BY DEF CallsOf
  <1>2. ASSUME NEW x PROVE CallsOf(<<x>>) = {x} BY DEF CallsOf
  <1>3. ASSUME NEW x, NEW y PROVE CallsOf(<<x, y>>) = {x, y}
    <2>1. Len(<<x, y>>) = 2 /\ <<x, y>>[1] = x /\ <<x, y>>[2] = y OBVIOUS
    <2>2. 1..2 = {1, 2} OBVIOUS
    <2> QED BY <2>1, <2>2 DEF CallsOf
  <1> QED BY <1>1, <1>2, <1>3

\* The next call, and those after it.
LEMMA CallsTail ==
  ASSUME NEW S, NEW s \in Seq(S), s # <<>>
  PROVE  /\ Tail(s) \in Seq(S) /\ Head(s) \in S
         /\ CallsOf(s) = {Head(s)} \cup CallsOf(Tail(s))
  <1>1. /\ Head(s) = s[1] /\ Len(s) \in Nat /\ Len(s) # 0 /\ Tail(s) \in Seq(S)
        /\ Len(Tail(s)) = Len(s) - 1 /\ Head(s) \in S
        /\ \A i \in 1..Len(s)-1 : Tail(s)[i] = s[i+1]
    OBVIOUS
  <1>2. CallsOf(s) \subseteq {Head(s)} \cup CallsOf(Tail(s))
    <2> SUFFICES ASSUME NEW x \in CallsOf(s) PROVE x = Head(s) \/ x \in CallsOf(Tail(s))
      OBVIOUS
    <2>1. PICK i \in 1..Len(s) : x = s[i] BY DEF CallsOf
    <2>2. CASE i = 1 BY <1>1, <2>1, <2>2
    <2>3. CASE i # 1
      <3>1. i - 1 \in 1..Len(Tail(s)) /\ Tail(s)[i - 1] = s[i] BY <1>1, <2>3
      <3> QED BY <2>1, <3>1 DEF CallsOf
    <2> QED BY <2>2, <2>3
  <1>3. {Head(s)} \cup CallsOf(Tail(s)) \subseteq CallsOf(s)
    <2> SUFFICES ASSUME NEW x \in {Head(s)} \cup CallsOf(Tail(s)) PROVE x \in CallsOf(s)
      OBVIOUS
    <2>1. CASE x = Head(s)
      <3>1. 1 \in 1..Len(s) /\ x = s[1] BY <1>1, <2>1
      <3> QED BY <3>1 DEF CallsOf
    <2>2. CASE x \in CallsOf(Tail(s))
      <3>1. PICK i \in 1..Len(Tail(s)) : x = Tail(s)[i] BY <2>2 DEF CallsOf
      <3>2. i + 1 \in 1..Len(s) /\ x = s[i + 1] BY <1>1, <3>1
      <3> QED BY <3>2 DEF CallsOf
    <2> QED BY <2>1, <2>2
  <1> QED BY <1>1, <1>2, <1>3

\* Of two sequences that have no call of N in common, one at most has one.
LEMMA OneCat ==
  ASSUME NEW S, NEW N, NEW s \in Seq(S), NEW r \in Seq(S),
         AtMostOne(s, N), AtMostOne(r, N),
         \A x \in CallsOf(s), y \in CallsOf(r) : ~(x.name \in N /\ y.name \in N)
  PROVE  AtMostOne(s \o r, N)
  <1>1. /\ Len(s \o r) = Len(s) + Len(r) /\ Len(s) \in Nat /\ Len(r) \in Nat
        /\ \A i \in 1..Len(s) + Len(r) :
             (s \o r)[i] = IF i <= Len(s) THEN s[i] ELSE r[i - Len(s)]
    OBVIOUS
  <1> SUFFICES ASSUME NEW i \in 1..Len(s \o r), NEW j \in 1..Len(s \o r),
                      (s \o r)[i].name \in N, (s \o r)[j].name \in N
               PROVE  i = j
    BY DEF AtMostOne
  <1>2. ASSUME NEW k \in 1..Len(s \o r)
        PROVE  \/ k \in 1..Len(s) /\ (s \o r)[k] = s[k]
               \/ k - Len(s) \in 1..Len(r) /\ (s \o r)[k] = r[k - Len(s)]
    BY <1>1
  <1>3. ASSUME NEW k \in 1..Len(s), NEW l \in 1..Len(r)
        PROVE  ~(s[k].name \in N /\ r[l].name \in N)
    BY ZenonT(60) DEF CallsOf
  <1>4. CASE i \in 1..Len(s) /\ (s \o r)[i] = s[i] /\ j \in 1..Len(s) /\ (s \o r)[j] = s[j]
    BY <1>4 DEF AtMostOne
  <1>5. CASE /\ i - Len(s) \in 1..Len(r) /\ (s \o r)[i] = r[i - Len(s)]
             /\ j - Len(s) \in 1..Len(r) /\ (s \o r)[j] = r[j - Len(s)]
    <2>1. i - Len(s) = j - Len(s) BY <1>5 DEF AtMostOne
    <2> QED BY <1>1, <2>1
  <1> QED BY <1>2, <1>3, <1>4, <1>5

\* Without its first call, a sequence has no more calls of N.
LEMMA OneTail ==
  ASSUME NEW S, NEW N, NEW s \in Seq(S), s # <<>>, AtMostOne(s, N)
  PROVE  /\ AtMostOne(Tail(s), N)
         /\ Head(s).name \in N => \A x \in CallsOf(Tail(s)) : x.name \notin N
  <1>1. /\ Head(s) = s[1] /\ Len(s) \in Nat /\ Len(s) # 0
        /\ Len(Tail(s)) = Len(s) - 1
        /\ \A i \in 1..Len(s)-1 : Tail(s)[i] = s[i+1]
    OBVIOUS
  <1>2. ASSUME NEW i \in 1..Len(Tail(s))
        PROVE  i + 1 \in 1..Len(s) /\ i + 1 # 1 /\ 1 \in 1..Len(s) /\ Tail(s)[i] = s[i + 1]
    BY <1>1
  <1>3. ASSUME NEW i \in 1..Len(Tail(s)), NEW j \in 1..Len(Tail(s)),
               Tail(s)[i].name \in N, Tail(s)[j].name \in N
        PROVE  i = j
    <2>1. i + 1 = j + 1 BY <1>2, <1>3 DEF AtMostOne
    <2> QED BY <1>1, <2>1
  <1>4. ASSUME Head(s).name \in N, NEW x \in CallsOf(Tail(s)), x.name \in N
        PROVE  FALSE
    <2>1. PICK i \in 1..Len(Tail(s)) : x = Tail(s)[i] BY DEF CallsOf
    <2>2. i + 1 = 1 BY <1>1, <1>2, <1>4, <2>1 DEF AtMostOne
    <2> QED BY <1>2, <2>2
  <1> QED BY <1>3, <1>4 DEF AtMostOne

\* A sequence without calls of N, and a sequence of one call.
LEMMA OneFew ==
  ASSUME NEW N
  PROVE  /\ \A s : (\A x \in CallsOf(s) : x.name \notin N) => AtMostOne(s, N)
         /\ \A x : AtMostOne(<<x>>, N)
  BY DEF AtMostOne, CallsOf

\* The same for the bitmaps of calls.
LEMMA DisjointCat ==
  ASSUME NEW S, NEW s \in Seq(S), NEW r \in Seq(S), Disjoint(s), Disjoint(r),
         \A x \in CallsOf(s), y \in CallsOf(r) : Selected(x) \cap Selected(y) = {}
  PROVE  Disjoint(s \o r)
  <1>1. /\ Len(s \o r) = Len(s) + Len(r) /\ Len(s) \in Nat /\ Len(r) \in Nat
        /\ \A i \in 1..Len(s) + Len(r) :
             (s \o r)[i] = IF i <= Len(s) THEN s[i] ELSE r[i - Len(s)]
    OBVIOUS
  <1> SUFFICES ASSUME NEW i \in 1..Len(s \o r), NEW j \in 1..Len(s \o r), i # j
               PROVE  Selected((s \o r)[i]) \cap Selected((s \o r)[j]) = {}
    BY ZenonT(60) DEF Disjoint
  <1>2. ASSUME NEW k \in 1..Len(s \o r)
        PROVE  \/ k \in 1..Len(s) /\ (s \o r)[k] = s[k]
               \/ k - Len(s) \in 1..Len(r) /\ (s \o r)[k] = r[k - Len(s)]
    BY <1>1
  <1>3. ASSUME NEW k \in 1..Len(s), NEW l \in 1..Len(r)
        PROVE  /\ Selected(s[k]) \cap Selected(r[l]) = {}
               /\ Selected(r[l]) \cap Selected(s[k]) = {}
    <2>1. s[k] \in CallsOf(s) /\ r[l] \in CallsOf(r) BY DEF CallsOf
    <2>2. Selected(s[k]) \cap Selected(r[l]) = {} BY <2>1
    <2> QED BY <2>2
  <1>4. CASE i \in 1..Len(s) /\ (s \o r)[i] = s[i] /\ j \in 1..Len(s) /\ (s \o r)[j] = s[j]
    BY ZenonT(60), <1>4 DEF Disjoint
  <1>5. CASE /\ i - Len(s) \in 1..Len(r) /\ (s \o r)[i] = r[i - Len(s)]
             /\ j - Len(s) \in 1..Len(r) /\ (s \o r)[j] = r[j - Len(s)]
    <2>1. i - Len(s) # j - Len(s) BY <1>1
    <2> QED BY ZenonT(60), <1>5, <2>1 DEF Disjoint
  <1>6. CASE /\ i \in 1..Len(s) /\ (s \o r)[i] = s[i]
             /\ j - Len(s) \in 1..Len(r) /\ (s \o r)[j] = r[j - Len(s)]
    BY ZenonT(60), <1>3, <1>6
  <1>7. CASE /\ j \in 1..Len(s) /\ (s \o r)[j] = s[j]
             /\ i - Len(s) \in 1..Len(r) /\ (s \o r)[i] = r[i - Len(s)]
    BY ZenonT(60), <1>3, <1>7
  <1> QED BY ZenonT(60), <1>2, <1>4, <1>5, <1>6, <1>7

\* The bitmap of the first call has nothing in common with those of the others.
LEMMA DisjointTail ==
  ASSUME NEW S, NEW s \in Seq(S), s # <<>>, Disjoint(s)
  PROVE  /\ Disjoint(Tail(s))
         /\ \A x \in CallsOf(Tail(s)) : Selected(Head(s)) \cap Selected(x) = {}
  <1>1. /\ Head(s) = s[1] /\ Len(s) \in Nat /\ Len(s) # 0
        /\ Len(Tail(s)) = Len(s) - 1
        /\ \A i \in 1..Len(s)-1 : Tail(s)[i] = s[i+1]
    OBVIOUS
  <1>2. ASSUME NEW i \in 1..Len(Tail(s))
        PROVE  i + 1 \in 1..Len(s) /\ i + 1 # 1 /\ 1 \in 1..Len(s) /\ Tail(s)[i] = s[i + 1]
    BY <1>1
  <1>3. ASSUME NEW i \in 1..Len(Tail(s)), NEW j \in 1..Len(Tail(s)), i # j
        PROVE  Selected(Tail(s)[i]) \cap Selected(Tail(s)[j]) = {}
    <2>1. i + 1 # j + 1 BY <1>1, <1>3
    <2> QED BY ZenonT(60), <1>2, <2>1 DEF Disjoint
  <1>4. ASSUME NEW x \in CallsOf(Tail(s))
        PROVE  Selected(Head(s)) \cap Selected(x) = {}
    <2>1. PICK i \in 1..Len(Tail(s)) : x = Tail(s)[i] BY DEF CallsOf
    <2> QED BY <1>1, <1>2, <2>1 DEF Disjoint
  <1> QED BY ZenonT(60), <1>3, <1>4 DEF Disjoint

\* Calls without bitmaps, and a single call.
LEMMA DisjointFew ==
  /\ \A s : (\A x \in CallsOf(s) : Selected(x) = {}) => Disjoint(s)
  /\ \A x : Disjoint(<<x>>)
  <1>1. ASSUME NEW s, \A x \in CallsOf(s) : Selected(x) = {}
        PROVE  Disjoint(s)
    <2>1. \A i \in 1..Len(s) : Selected(s[i]) = {} BY <1>1 DEF CallsOf
    <2> QED BY <2>1 DEF Disjoint
  <1>2. ASSUME NEW x PROVE Disjoint(<<x>>)
    <2>1. Len(<<x>>) = 1 OBVIOUS
    <2> QED BY <2>1 DEF Disjoint
  <1> QED BY <1>1, <1>2

\* What Done leaves of the calls to make: the new ones, then all but the first.
LEMMA DoneCalls ==
  ASSUME TodoType, NEW a \in Actors, todo[a] # <<>>,
         NEW more \in Seq(GoodOps), Done(a, more)
  PROVE  /\ TodoType'
         /\ \A c \in Actors : c # a => todo'[c] = todo[c] /\ Left(c)' = Left(c)
         /\ todo'[a] = more \o Tail(todo[a])
         /\ Left(a)' = CallsOf(more) \cup CallsOf(Tail(todo[a]))
         /\ Left(a) = {Call(a)} \cup CallsOf(Tail(todo[a]))
         /\ Call(a) \in GoodOps
  <1>1. /\ todo[a] \in Seq(GoodOps) /\ Tail(todo[a]) \in Seq(GoodOps)
        /\ Left(a) = {Call(a)} \cup CallsOf(Tail(todo[a])) /\ Call(a) \in GoodOps
    BY CallsTail DEF Left, Call, TodoType
  <1>2. /\ more \o Tail(todo[a]) \in Seq(GoodOps)
        /\ CallsOf(more \o Tail(todo[a])) = CallsOf(more) \cup CallsOf(Tail(todo[a]))
    <2>1. Tail(todo[a]) \in Seq(GoodOps) BY <1>1
    <2> QED BY ONLY ZenonT(60), <2>1, more \in Seq(GoodOps), CallsCat
  <1>3. todo' = [todo EXCEPT ![a] = more \o Tail(todo[a])] BY DEF Done
  <1>4. TodoType' BY <1>2, <1>3 DEF TodoType
  <1>5. todo'[a] = more \o Tail(todo[a]) BY <1>3 DEF TodoType
  <1>6. \A c \in Actors : c # a => todo'[c] = todo[c] BY <1>3 DEF TodoType
  <1> QED BY <1>1, <1>2, <1>4, <1>5, <1>6 DEF Left

\* A message or a timer finds its process idle.
LEMMA StartCalls ==
  ASSUME TodoType, NEW a \in Actors, todo[a] = <<>>,
         NEW more \in Seq(GoodOps), todo' = [todo EXCEPT ![a] = more]
  PROVE  /\ TodoType'
         /\ \A c \in Actors : c # a => todo'[c] = todo[c] /\ Left(c)' = Left(c)
         /\ todo'[a] = more /\ Left(a)' = CallsOf(more) /\ Left(a) = {}
  BY CallsFew DEF Left, TodoType

\* Every call in a sequence of calls of S is in S.
LEMMA CallsIn ==
  ASSUME NEW S, NEW s \in Seq(S)
  PROVE  CallsOf(s) \subseteq S
  BY DEF CallsOf

\* A plain call is a call.
LEMMA PlainGood ==
  ASSUME NEW s \in Seq(PlainOps)
  PROVE  /\ s \in Seq(GoodOps)
         /\ \A op \in CallsOf(s) : op \in PlainOps /\ op.name \in PlainNames
  <1>1. PlainOps \subseteq GoodOps BY DEF PlainOps
  <1>2. s \in Seq(GoodOps) BY <1>1
  <1> QED BY <1>2, CallsIn DEF PlainOps

\* Branches are numbered from 0; a branch fits the code of a call.
LEMMA ZeroBranch == /\ 0 \in Branches /\ Branches \subseteq Nat
                    /\ Branches \subseteq 0..699
  <1>1. MaxBranches \in 1..256 BY ZenonT(60), ConstantsType
  <1>2. \A m \in 1..256 : 0 \in 0 .. m - 1 /\ 0 .. m - 1 \subseteq 0..699 OBVIOUS
  <1>3. 0..699 \subseteq Nat OBVIOUS
  <1> QED BY ZenonT(60), <1>1, <1>2, <1>3 DEF Branches

\* A code is final or it is below 200.
LEMMA FinalCode == \A n \in 0..699 : n >= 200 <=> ~(n < 200)
  OBVIOUS

\* The calls that Op builds.
LEMMA OpGood ==
  ASSUME NEW name \in CallNames, NEW b \in Branches, NEW code \in 0..699,
         NEW fake \in BOOLEAN, NEW restart \in BOOLEAN, NEW bm \in SUBSET Branches,
         name \in {"cancel_uacs", "send_requests"} => bm # {},
         name = "on_failure" => code \in Branches,
         name = "t_reply" => code >= 200
  PROVE  /\ Op(name, b, code, fake, restart, bm) \in GoodOps
         /\ <<Op(name, b, code, fake, restart, bm)>> \in Seq(GoodOps)
  <1>1. b \in Nat BY ZeroBranch
  <1>2. Op(name, b, code, fake, restart, bm) \in OpType BY <1>1 DEF Op, OpType
  <1>3. Op(name, b, code, fake, restart, bm) \in GoodOps BY <1>2 DEF Op, GoodOps
  <1> QED BY <1>3

\* A plain call without a bitmap.
LEMMA DoPlain ==
  ASSUME NEW name \in PlainNames \ {"cancel_uacs"}
  PROVE  /\ <<Do(name)>> \in Seq(PlainOps)
         /\ Do(name).name = name /\ Do(name).bm = {}
  <1>1. name \in CallNames BY DEF PlainNames, CallNames
  <1>2. Do(name) \in GoodOps
    <2>1. /\ name \notin {"cancel_uacs", "send_requests"}
          /\ name # "on_failure" /\ name # "t_reply"
      BY DEF PlainNames
    <2>2. 0 \in 0..699 /\ {} \in SUBSET Branches /\ FALSE \in BOOLEAN OBVIOUS
    <2>3. Op(name, 0, 0, FALSE, FALSE, {}) \in GoodOps
      BY ZenonT(60), <1>1, <2>1, <2>2, ZeroBranch, OpGood
    <2> QED BY ZenonT(60), <2>3 DEF Do
  <1>3. Do(name).name = name /\ Do(name).bm = {} BY DEF Do, Op
  <1> QED BY <1>2, <1>3 DEF PlainOps

\* The loops over a set of branches.
LEMMA ForEachCalls ==
  ASSUME NEW name \in {"cancel_uacs", "send_requests"}, NEW B \in SUBSET Branches
  PROVE  /\ ForEach(name, B) \in Seq(GoodOps)
         /\ \A op \in CallsOf(ForEach(name, B)) : op.name = name /\ op.bm = B
         /\ name = "cancel_uacs" => ForEach(name, B) \in Seq(PlainOps)
         /\ Disjoint(ForEach(name, B))
         /\ \A N : AtMostOne(ForEach(name, B), N)
  <1>1. CASE B = {}
    <2>1. ForEach(name, B) = <<>> BY <1>1 DEF ForEach
    <2>2. /\ <<>> \in Seq(GoodOps) /\ <<>> \in Seq(PlainOps) OBVIOUS
    <2> QED BY <2>1, <2>2, CallsFew, OneFew, DisjointFew
  <1>2. CASE B # {}
    <2> DEFINE op == Op(name, 0, 0, FALSE, FALSE, B)
    <2>1. ForEach(name, B) = <<op>> BY ZenonT(60), <1>2 DEF ForEach
    <2>2. name \in CallNames BY DEF CallNames
    <2>3. op \in GoodOps
      <3>1. name # "on_failure" /\ name # "t_reply" OBVIOUS
      <3>2. 0 \in 0..699 /\ FALSE \in BOOLEAN OBVIOUS
      <3> QED BY ZenonT(60), <1>2, <2>2, <3>1, <3>2, ZeroBranch, OpGood
    <2>4. op.name = name /\ op.bm = B BY DEF Op
    <2>5. name = "cancel_uacs" => op \in PlainOps BY ZenonT(60), <2>3, <2>4 DEF PlainOps, PlainNames
    <2> HIDE DEF op
    <2> QED BY <2>1, <2>3, <2>4, <2>5, CallsFew, OneFew, DisjointFew
  <1> QED BY <1>1, <1>2

\* cancel_uacs.
LEMMA CancelUacsCalls ==
  ASSUME NEW B \in SUBSET Branches
  PROVE  /\ CancelUacs(B) \in Seq(PlainOps)
         /\ \A op \in CallsOf(CancelUacs(B)) : op.name = "cancel_uacs" /\ op.bm = B
         /\ Disjoint(CancelUacs(B))
  <1>1. CASE Invite BY <1>1, ForEachCalls DEF CancelUacs
  <1>2. CASE ~Invite
    <2>1. CancelUacs(B) = <<>> /\ <<>> \in Seq(PlainOps) BY <1>2 DEF CancelUacs
    <2> QED BY <2>1, CallsFew, DisjointFew
  <1> QED BY <1>1, <1>2

\* The final timer.
LEMMA FinalTimerCalls ==
  ASSUME NEW code
  PROVE  /\ FinalTimer(code) \in Seq(PlainOps)
         /\ \A op \in CallsOf(FinalTimer(code)) :
              op.name \in {"put_on_wait", "set_final_timer"} /\ op.bm = {}
  <1>1. "put_on_wait" \in PlainNames \ {"cancel_uacs"} BY DEF PlainNames
  <1>2. "set_final_timer" \in PlainNames \ {"cancel_uacs"} BY DEF PlainNames
  <1>3. CASE code \in {401, 407}
    BY <1>1, <1>3, DoPlain, CallsFew DEF FinalTimer
  <1>4. CASE code \notin {401, 407}
    BY <1>2, <1>4, DoPlain, CallsFew DEF FinalTimer
  <1> QED BY <1>3, <1>4

\* A set of numbers from an interval of n has a least element, if it is not
\* empty.  What a loop over branches finds first, and what t_pick_branch finds
\* best, is such an element; the numbers are branches and priorities.
LeastUpTo(n) ==
  \A lo \in Nat : \A B \in SUBSET (lo .. lo + n - 1) :
    B # {} => \E b \in B : \A c \in B : b <= c

\* Then so has one from an interval twice as long: in its lower half, or else
\* in its upper half.
LEMMA LeastTwice ==
  ASSUME NEW n \in Nat, LeastUpTo(n)
  PROVE  LeastUpTo(2 * n)
  <1> SUFFICES ASSUME NEW lo \in Nat, NEW B \in SUBSET (lo .. lo + 2 * n - 1), B # {}
               PROVE  \E b \in B : \A c \in B : b <= c
    BY ZenonT(60) DEF LeastUpTo
  <1> DEFINE Low == B \cap (lo .. lo + n - 1)
  <1>1. CASE Low # {}
    <2>1. Low \in SUBSET (lo .. lo + n - 1) OBVIOUS
    <2>2. PICK b \in Low : \A c \in Low : b <= c
      BY ZenonT(60), <1>1, <2>1 DEF LeastUpTo
    <2>3. ASSUME NEW c \in B PROVE b <= c BY <2>2
    <2> QED BY <2>3
  <1>2. CASE Low = {}
    <2>1. B \in SUBSET (lo + n .. (lo + n) + n - 1) BY <1>2
    <2>2. lo + n \in Nat OBVIOUS
    <2> QED BY ZenonT(60), <2>1, <2>2 DEF LeastUpTo
  <1> QED BY <1>1, <1>2

\* Branches and priorities are numbers of this size.
Ranked == 0 .. 1023

\* A set of branches or of priorities has a least element, if it is not empty.
LEMMA HasMin ==
  ASSUME NEW B \in SUBSET Ranked, B # {}
  PROVE  \E b \in B : \A c \in B : b <= c
  <1>0. LeastUpTo(1)
    <2>1. ASSUME NEW lo \in Nat, NEW S \in SUBSET (lo .. lo + 1 - 1), S # {}
          PROVE  \E b \in S : \A c \in S : b <= c
      <3>1. \A c \in S : c = lo OBVIOUS
      <3>2. \A b, c \in S : b <= c BY <3>1
      <3> QED BY ZenonT(60), <2>1, <3>2
    <2> QED BY ZenonT(60), <2>1 DEF LeastUpTo
  <1>1. \A n \in Nat : LeastUpTo(n) => LeastUpTo(2 * n) BY LeastTwice
  <1> HIDE DEF LeastUpTo
  <1>2. LeastUpTo(2) /\ LeastUpTo(4) /\ LeastUpTo(8) /\ LeastUpTo(16) /\ LeastUpTo(32)
    BY <1>0, <1>1
  <1>3. LeastUpTo(64) /\ LeastUpTo(128) /\ LeastUpTo(256) /\ LeastUpTo(512) /\ LeastUpTo(1024)
    BY <1>1, <1>2
  <1>4. PICK n \in Nat : n = 1024 /\ LeastUpTo(n) BY <1>3
  <1>5. PICK lo \in Nat : lo = 0 OBVIOUS
  <1>6. B \in SUBSET (lo .. lo + n - 1) BY <1>4, <1>5 DEF Ranked
  <1>7. LeastUpTo(n) BY <1>4
  <1> QED BY ONLY ZenonT(20), <1>6, <1>7, lo \in Nat, B # {} DEF LeastUpTo

\* The loops over branches take a branch of their set.
LEMMA LowestIn ==
  ASSUME NEW B \in SUBSET Branches, B # {}
  PROVE  Lowest(B) \in B
  <1>1. B \in SUBSET Ranked BY ZeroBranch DEF Ranked
  <1>2. \E b \in B : \A c \in B : b <= c BY ZenonT(60), <1>1, HasMin
  <1> QED BY <1>2 DEF Lowest

\* The branches selected by which_cancel.
LEMMA WhichCancelIn ==
  ASSUME StateType, NEW B \in SUBSET Current
  PROVE  /\ WhichCancel(B) \in SUBSET Branches
         /\ WhichCancel(B) \subseteq B
         /\ \A b \in WhichCancel(B) : cancel_buf[b] = "null"
  <1>1. Current \subseteq Branches BY ConstantsType DEF Current, Branches, StateType, CountType
  <1> QED BY <1>1 DEF WhichCancel, ShouldCancel

\* The calls that _reply_light makes.
LEMMA AfterReplyCalls ==
  ASSUME StateType, NEW code \in Nat
  PROVE  /\ AfterReplyLight(code) \in Seq(PlainOps)
         /\ \A op \in CallsOf(AfterReplyLight(code)) :
              /\ op.name # "flag_to_cancel"
              /\ (code >= 200 /\ Invite) \/ op.bm = {}
              /\ op.bm \subseteq WhichCancel(Current)
         /\ Disjoint(AfterReplyLight(code))
  <1> DEFINE W == WhichCancel(Current)
             x == <<Do("cleanup_uac_timers")>>
             y == CancelUacs(W)
             z == FinalTimer(code)
  <1>1. CASE code < 200
    <2>1. AfterReplyLight(code) = <<>> /\ <<>> \in Seq(PlainOps)
      BY <1>1 DEF AfterReplyLight
    <2> QED BY <2>1, CallsFew, DisjointFew
  <1>2. CASE ~(code < 200)
    <2>1. W \in SUBSET Branches BY WhichCancelIn
    <2>2. "cleanup_uac_timers" \in PlainNames \ {"cancel_uacs"} BY DEF PlainNames
    <2>3. /\ x \in Seq(PlainOps) /\ Disjoint(x)
          /\ \A op \in CallsOf(x) : op.name = "cleanup_uac_timers" /\ op.bm = {}
      BY <2>2, DoPlain, CallsFew, DisjointFew
    <2> HIDE DEF W, x
    <2>4. /\ y \in Seq(PlainOps) /\ Disjoint(y)
          /\ \A op \in CallsOf(y) : op.name = "cancel_uacs" /\ op.bm = W
      BY <2>1, CancelUacsCalls
    <2>5. /\ z \in Seq(PlainOps)
          /\ \A op \in CallsOf(z) : op.name # "flag_to_cancel" /\ op.bm = {}
      BY FinalTimerCalls
    <2>6. ~Invite => CallsOf(y) = {} BY CallsFew DEF CancelUacs
    <2> HIDE DEF y, z
    <2>7. Disjoint(z) BY <2>5, DisjointFew DEF Selected
    <2>8. x \o y \in Seq(PlainOps) /\ CallsOf(x \o y) = CallsOf(x) \cup CallsOf(y)
      BY <2>3, <2>4, CallsCat
    <2>9. /\ (x \o y) \o z \in Seq(PlainOps)
          /\ CallsOf((x \o y) \o z) = CallsOf(x) \cup CallsOf(y) \cup CallsOf(z)
      <3>1. CallsOf((x \o y) \o z) = CallsOf(x \o y) \cup CallsOf(z)
            /\ (x \o y) \o z \in Seq(PlainOps)
        <4> DEFINE u == x \o y
        <4>1. u \in Seq(PlainOps) /\ z \in Seq(PlainOps) BY <2>5, <2>8
        <4> HIDE DEF u
        <4>2. CallsOf(u \o z) = CallsOf(u) \cup CallsOf(z) /\ u \o z \in Seq(PlainOps)
          BY ONLY SMTT(10), ZenonT(30), SMTT(60), <4>1, CallsCat
        <4> QED BY <4>2 DEF u
      <3> QED BY <2>8, <3>1
    <2>10. Disjoint(x \o y)
      <3>1. \A p \in CallsOf(x), q \in CallsOf(y) : Selected(p) \cap Selected(q) = {}
        BY <2>3 DEF Selected
      <3> QED BY <2>3, <2>4, <3>1, DisjointCat
    <2>11. Disjoint((x \o y) \o z)
      <3>1. \A p \in CallsOf(x \o y), q \in CallsOf(z) : Selected(p) \cap Selected(q) = {}
        BY <2>5 DEF Selected
      <3> QED BY ZenonT(60), <2>5, <2>7, <2>8, <2>10, <3>1, DisjointCat
    <2>12. AfterReplyLight(code) = (x \o y) \o z BY <1>2 DEF AfterReplyLight, x, y, z, W
    <2>13. \A op \in CallsOf(x) \cup CallsOf(y) \cup CallsOf(z) :
             /\ op.name # "flag_to_cancel" /\ op.bm \subseteq W
             /\ Invite \/ op.bm = {}
      BY <2>3, <2>4, <2>5, <2>6
    <2>14. code >= 200 BY <1>2
    <2> QED BY <2>9, <2>11, <2>12, <2>13, <2>14 DEF W
  <1> QED BY <1>1, <1>2

\* The calls that follow RPS_COMPLETED.
LEMMA CompletedCalls ==
  ASSUME NEW code, NEW fake \in BOOLEAN, NEW bm \in SUBSET Branches
  PROVE  /\ Completed(code, fake, bm) \in Seq(PlainOps)
         /\ \A op \in CallsOf(Completed(code, fake, bm)) :
              op.name # "flag_to_cancel" /\ op.bm \subseteq bm
         /\ Disjoint(Completed(code, fake, bm))
  <1> DEFINE x == <<Do("cleanup_uac_timers")>>
             y == CancelUacs(bm)
             z == FinalTimer(code)
             t == IF fake THEN <<>> ELSE x \o y
  <1>1. "cleanup_uac_timers" \in PlainNames \ {"cancel_uacs"} BY DEF PlainNames
  <1>2. /\ x \in Seq(PlainOps) /\ Disjoint(x)
        /\ \A op \in CallsOf(x) : op.name = "cleanup_uac_timers" /\ op.bm = {}
    BY <1>1, DoPlain, CallsFew, DisjointFew
  <1> HIDE DEF x
  <1>3. /\ y \in Seq(PlainOps) /\ Disjoint(y)
        /\ \A op \in CallsOf(y) : op.name = "cancel_uacs" /\ op.bm = bm
    BY CancelUacsCalls
  <1>4. /\ z \in Seq(PlainOps)
        /\ \A op \in CallsOf(z) : op.name # "flag_to_cancel" /\ op.bm = {}
    BY FinalTimerCalls
  <1> HIDE DEF y, z
  <1>5. Disjoint(z) BY <1>4, DisjointFew DEF Selected
  <1>6. x \o y \in Seq(PlainOps) /\ CallsOf(x \o y) = CallsOf(x) \cup CallsOf(y)
    BY <1>2, <1>3, CallsCat
  <1>7. Disjoint(x \o y)
    <2>1. \A p \in CallsOf(x), q \in CallsOf(y) : Selected(p) \cap Selected(q) = {}
      BY <1>2 DEF Selected
    <2> QED BY <1>2, <1>3, <2>1, DisjointCat
  <1>8. t \in Seq(PlainOps) /\ CallsOf(t) \subseteq CallsOf(x) \cup CallsOf(y) /\ Disjoint(t)
    <2>1. CASE fake
      <3>1. t = <<>> /\ <<>> \in Seq(PlainOps) BY <2>1
      <3> QED BY ZenonT(60), <3>1, CallsFew, DisjointFew
    <2>2. CASE ~fake BY <1>6, <1>7, <2>2
    <2> QED BY <2>1, <2>2
  <1>9. Completed(code, fake, bm) = z \o t BY DEF Completed, x, y, z
  <1> HIDE DEF t
  <1>10. z \o t \in Seq(PlainOps) /\ CallsOf(z \o t) = CallsOf(z) \cup CallsOf(t)
    BY <1>4, <1>8, CallsCat
  <1>11. Disjoint(z \o t)
    <2>1. \A p \in CallsOf(z), q \in CallsOf(t) : Selected(p) \cap Selected(q) = {}
      BY <1>4 DEF Selected
    <2> QED BY <1>4, <1>5, <1>8, <2>1, DisjointCat
  <1>12. \A op \in CallsOf(z) \cup CallsOf(t) :
           op.name # "flag_to_cancel" /\ op.bm \subseteq bm
    BY <1>2, <1>3, <1>4, <1>8
  <1> QED BY <1>9, <1>10, <1>11, <1>12

\* The type invariant is the one proved.
LEMMA GoodTypeOK == GoodType => TypeOK
  <1>1. GoodOps \subseteq OpType BY DEF GoodOps
  <1>2. \A s \in Seq(GoodOps) : s \in Seq(OpType) BY <1>1
  <1>3. TodoType => todo \in [Actors -> Seq(OpType)] BY <1>2 DEF TodoType
  <1> QED BY ZenonT(60), <1>3 DEF GoodType, StateType, CountType, BranchType, CancelType, ReplyType,
                      FlagType, TypeOK

----------------------------------------------------------------------------
(***************************************************************************)
(* Steps as seen by the calls left to make.                                *)
(***************************************************************************)
\* a makes its next call or, idle, takes an event; this leads to plain calls and
\* to calls of S.
Makes(a, name, S) ==
    \E more \in Seq(GoodOps) :
      /\ \/ Calls(a, name) /\ name # "event" /\ Done(a, more)
         \/ todo[a] = <<>> /\ name = "event" /\ todo' = [todo EXCEPT ![a] = more]
      /\ CallsOf(more) \subseteq PlainOps \cup S
      /\ AtMostOne(more, LockNames) /\ AtMostOne(more, {"send_requests"})

\* What is left of a's old calls.
Rest(a) == IF todo[a] = <<>> THEN {} ELSE CallsOf(Tail(todo[a]))

\* What becomes of the calls of all actors.
LEMMA MakesCalls ==
  ASSUME TodoType, NEW a \in Actors, NEW name, NEW S, Makes(a, name, S)
  PROVE  /\ TodoType'
         /\ \A c \in Actors : c # a => todo'[c] = todo[c] /\ Left(c)' = Left(c)
         /\ Left(a)' \subseteq PlainOps \cup S \cup Rest(a)
         /\ Rest(a) \subseteq Left(a)' /\ Rest(a) \subseteq Left(a)
         /\ name = "event" => Left(a) = {}
         /\ name # "event" => /\ Left(a) = {Call(a)} \cup Rest(a)
                              /\ Call(a) \in GoodOps /\ Call(a).name = name
  <1>1. PICK more \in Seq(GoodOps) :
          /\ \/ Calls(a, name) /\ name # "event" /\ Done(a, more)
             \/ todo[a] = <<>> /\ name = "event" /\ todo' = [todo EXCEPT ![a] = more]
          /\ CallsOf(more) \subseteq PlainOps \cup S
    BY DEF Makes
  <1>2. CASE Calls(a, name) /\ name # "event" /\ Done(a, more)
    <2>1. todo[a] # <<>> /\ Call(a).name = name BY <1>2 DEF Calls
    <2>2. /\ TodoType'
          /\ \A c \in Actors : c # a => todo'[c] = todo[c] /\ Left(c)' = Left(c)
          /\ Left(a)' = CallsOf(more) \cup CallsOf(Tail(todo[a]))
          /\ Left(a) = {Call(a)} \cup CallsOf(Tail(todo[a]))
          /\ Call(a) \in GoodOps
      BY <1>2, <2>1, DoneCalls
    <2> QED BY <1>1, <1>2, <2>1, <2>2 DEF Rest
  <1>3. CASE todo[a] = <<>> /\ name = "event" /\ todo' = [todo EXCEPT ![a] = more]
    <2>1. /\ TodoType'
          /\ \A c \in Actors : c # a => todo'[c] = todo[c] /\ Left(c)' = Left(c)
          /\ Left(a)' = CallsOf(more) /\ Left(a) = {}
      BY ZenonT(60), <1>3, StartCalls
    <2> QED BY <1>1, <1>3, <2>1 DEF Rest
  <1> QED BY <1>1, <1>2, <1>3

\* Calls of N that are made once are left to make once.
LEMMA MakesOnce ==
  ASSUME TodoType, NEW a \in Actors, NEW name, NEW S, Makes(a, name, S),
         NEW N \in {LockNames, {"send_requests"}}, AtMostOne(todo[a], N),
         \/ name \in N
         \/ \A op \in S : op.name \notin N
         \/ \A op \in Rest(a) : op.name \notin N
  PROVE  /\ AtMostOne(todo'[a], N)
         /\ name \in N => \A op \in Rest(a) : op.name \notin N
  <1>1. PICK more \in Seq(GoodOps) :
          /\ \/ Calls(a, name) /\ name # "event" /\ Done(a, more)
             \/ todo[a] = <<>> /\ name = "event" /\ todo' = [todo EXCEPT ![a] = more]
          /\ CallsOf(more) \subseteq PlainOps \cup S
          /\ AtMostOne(more, N)
    BY ZenonT(60) DEF Makes
  <1>2. CASE Calls(a, name) /\ Done(a, more)
    <2>2. todo[a] # <<>> /\ Head(todo[a]).name = name BY <1>2 DEF Calls, Call
    <2>3. todo[a] \in Seq(GoodOps) BY DEF TodoType
    <2>4. /\ AtMostOne(Tail(todo[a]), N)
          /\ name \in N => \A x \in CallsOf(Tail(todo[a])) : x.name \notin N
      BY ZenonT(60), <2>2, <2>3, OneTail
    <2>5. Tail(todo[a]) \in Seq(GoodOps) BY <2>2, <2>3
    <2>6. \A x \in PlainOps : x.name \notin N
      BY DEF PlainOps, PlainNames, LockNames
    <2>7. \A x \in CallsOf(more), y \in CallsOf(Tail(todo[a])) :
            ~(x.name \in N /\ y.name \in N)
      BY <1>1, <2>2, <2>4, <2>6 DEF Rest
    <2>8. AtMostOne(more \o Tail(todo[a]), N) BY ZenonT(60), <1>1, <2>4, <2>5, <2>7, OneCat
    <2>9. todo'[a] = more \o Tail(todo[a]) BY ZenonT(60), <1>2, <2>2, DoneCalls
    <2> QED BY <2>2, <2>4, <2>8, <2>9 DEF Rest
  <1>3. CASE todo[a] = <<>> /\ todo' = [todo EXCEPT ![a] = more]
    <2>1. todo'[a] = more BY <1>3 DEF TodoType
    <2> QED BY <1>1, <1>3, <2>1 DEF Rest
  <1> QED BY <1>1, <1>2, <1>3

----------------------------------------------------------------------------
(***************************************************************************)
(* The reply lock.                                                         *)
(***************************************************************************)
\* What a step that makes a call does to the reply lock: nothing, if neither the
\* call nor those it leads to depend on it; it goes on under the lock; it
\* releases the lock; or it takes it.
LockStep(a, name, S) ==
    \/ /\ name \notin LockNames /\ \A op \in S : op.name \notin LockNames
       /\ reply_lock' = reply_lock
    \/ name \in LockNames /\ reply_lock' = reply_lock
    \/ /\ name \in LockNames /\ \A op \in S : op.name \notin LockNames
       /\ reply_lock' = None
    \/ name \notin LockNames /\ reply_lock = None /\ reply_lock' = a

\* Such steps keep the lock with those who need it.
LEMMA LockKept ==
  ASSUME TodoType, LockInv, NEW a \in Actors, NEW name, NEW S,
         Makes(a, name, S), LockStep(a, name, S)
  PROVE  LockInv'
  <1>1. /\ \A c \in Actors : c # a => todo'[c] = todo[c] /\ Left(c)' = Left(c)
        /\ Left(a)' \subseteq PlainOps \cup S \cup Rest(a)
        /\ Rest(a) \subseteq Left(a)
        /\ name # "event" => Call(a) \in Left(a) /\ Call(a).name = name
    BY MakesCalls
  <1>2. \A op \in PlainOps : op.name \notin LockNames
    BY DEF PlainOps, PlainNames, LockNames
  <1>3. None \notin Actors BY ConstantsType DEF Actors
  <1>4. AtMostOne(todo[a], LockNames) BY DEF LockInv
  <1>5. \A c \in Actors : \A op \in Left(c) : op.name \in LockNames => reply_lock = c
    BY DEF LockInv
  <1>6. name \in LockNames => reply_lock = a BY <1>1, <1>5 DEF LockNames
  <1>7. reply_lock = None => \A op \in Rest(a) : op.name \notin LockNames
    BY <1>1, <1>3, <1>5
  <1>8. /\ AtMostOne(todo'[a], LockNames)
        /\ name \in LockNames => \A op \in Rest(a) : op.name \notin LockNames
    BY <1>4, <1>7, MakesOnce DEF LockStep
  <1>9. ASSUME NEW op \in Left(a)', op.name \in LockNames PROVE reply_lock' = a
    <2>1. op \in S \/ op \in Rest(a) BY <1>1, <1>2, <1>9
    <2>2. op \in Rest(a) => reply_lock = a BY <1>1, <1>5, <1>9
    <2> QED BY <1>6, <1>8, <1>9, <2>1, <2>2 DEF LockStep
  <1>10. ASSUME NEW c \in Actors, c # a
         PROVE  /\ \A op \in Left(c)' : op.name \in LockNames => reply_lock' = c
                /\ AtMostOne(todo'[c], LockNames)
    <2>1. AtMostOne(todo'[c], LockNames) BY <1>1, <1>10 DEF LockInv
    <2>2. ASSUME NEW op \in Left(c)', op.name \in LockNames PROVE reply_lock' = c
      <3>1. reply_lock = c BY <1>1, <1>5, <1>10, <2>2
      <3>2. reply_lock # None BY <1>3, <3>1
      <3> QED BY <1>6, <1>10, <3>1, <3>2 DEF LockStep
    <2> QED BY <2>1, <2>2
  <1> QED BY <1>8, <1>9, <1>10 DEF LockInv

----------------------------------------------------------------------------
(***************************************************************************)
(* Forwarding.                                                             *)
(***************************************************************************)
\* A branch is heard of only once its request went out.
Heard(b) == fr[b] # "never" \/ rang[b] \/ last_received[b] # 0

\* A step that does not forward: it starts calls only on branches whose request
\* went out, and leaves the requests alone unless a failure handler adds a branch.
NoForward(a, name, S) ==
    /\ name \notin {"t_forward_nonack", "add_uac"}
    /\ (status < 200 => status' < 200) \/ name \in BranchNames \cup {"t_reply"}
    /\ \A op \in S : /\ op.name \notin ForwardNames
                     /\ op.name \in BranchNames => request[op.b] = "sent"
    /\ \A b \in Branches : Heard(b)' => Heard(b) \/ request'[b] = "sent"
    /\ \/ request' = request /\ nr' = nr
       \/ /\ name \in BranchNames /\ nr' = nr + 1
          /\ \A b \in Branches :
               request'[b] = request[b] \/ (b = nr /\ request'[b] = "sent")

\* A step that adds no call of the request route keeps the order of forwarding.
LEMMA ForwardKept ==
  ASSUME TodoType, CountType, ForwardInv, NEW a \in Actors, NEW name, NEW S,
         Makes(a, name, S), NoForward(a, name, S)
  PROVE  ForwardInv'
  <1>1. /\ \A c \in Actors : c # a => todo'[c] = todo[c] /\ Left(c)' = Left(c)
        /\ Left(a)' \subseteq PlainOps \cup S \cup Rest(a)
        /\ Rest(a) \subseteq Left(a)
        /\ name = "event" => Left(a) = {}
        /\ name # "event" => /\ Call(a) \in Left(a)
                             /\ Call(a) \in GoodOps /\ Call(a).name = name
    BY MakesCalls
  <1>2. \A op \in PlainOps : op.name \notin ForwardNames /\ op.name \notin BranchNames
    BY DEF PlainOps, PlainNames, ForwardNames, BranchNames
  <1>3. /\ \A c \in Actors : \A op \in Left(c) : ForwardOK(c, op)
        /\ \A c, d \in Actors : \A x \in Left(c), y \in Left(d) :
             x.name \in ForwardNames /\ y.name \in ForwardNames => c = d
    BY DEF ForwardInv
  <1>4. name # "event" => Call(a) \in Left(a) BY <1>1
  <1>5. ASSUME NEW c \in Actors, NEW op \in Left(c), c # a \/ op \in Rest(a),
               op.name \in {"t_forward_nonack", "add_uac"}
        PROVE  c # a /\ status' < 200 /\ request' = request /\ nr' = nr
    <2>1. todo[c] = <<op>> /\ status < 200 /\ \A b \in Branches : request[b] # "sent"
      BY ZenonT(60), <1>3, <1>5 DEF ForwardOK
    <2>2. Left(c) = {op} BY ZenonT(60), <2>1, CallsFew DEF Left
    <2>3. op.name \in ForwardNames BY <1>5 DEF ForwardNames
    <2>4. c # a
      <3>1. CASE c = a
        <4>0. name # "event" BY <1>1, <3>1
        <4>1. op = Call(a) BY <1>4, <2>2, <3>1, <4>0
        <4> QED BY <1>1, <1>5, <4>0, <4>1 DEF NoForward
      <3> QED BY <3>1
    <2>5. name # "t_reply" BY <1>1, <1>3, <2>3, <2>4 DEF ForwardNames
    <2>6. name \notin BranchNames
      <3>0. name \in BranchNames => name # "event" BY DEF BranchNames
      <3>1. name # "event" => Call(a).b \in Branches BY ZenonT(60), <1>1 DEF GoodOps
      <3> QED BY <1>1, <1>3, <2>1, <3>0, <3>1 DEF ForwardOK
    <2> QED BY <2>1, <2>4, <2>5, <2>6 DEF NoForward
  <1>6. ASSUME NEW b \in Branches
        PROVE  /\ request[b] = "sent" => request'[b] = "sent"
               /\ request[b] = "built" => request'[b] = "built"
               /\ request'[b] # "null" => b < nr'
    <2>1. request[b] # "null" => b < nr BY DEF ForwardInv
    <2>2. b \in Nat /\ nr \in Nat BY ZeroBranch, ConstantsType DEF CountType
    <2>3. CASE request' = request /\ nr' = nr BY <2>1, <2>3
    <2>4. CASE /\ nr' = nr + 1
               /\ request'[b] = request[b] \/ (b = nr /\ request'[b] = "sent")
      BY <2>1, <2>2, <2>4
    <2> QED BY <2>3, <2>4 DEF NoForward
  <1>7. ASSUME NEW c \in Actors, NEW op \in Left(c), c # a \/ op \in Rest(a),
               op \in GoodOps
        PROVE  ForwardOK(c, op)'
    <2>1. ForwardOK(c, op) BY <1>3
    <2>2. CASE op.name \in {"t_forward_nonack", "add_uac"}
      <3>1. c # a /\ status' < 200 /\ request' = request /\ nr' = nr
        BY <1>5, <1>7, <2>2
      <3>2. todo'[c] = todo[c] BY <1>1, <3>1
      <3>3. op.name \notin BranchNames /\ op.name # "send_requests"
        BY <2>2 DEF BranchNames
      <3> QED BY <2>1, <2>2, <3>1, <3>2, <3>3 DEF ForwardOK
    <2>3. CASE op.name \notin {"t_forward_nonack", "add_uac"}
      <3>1. op.b \in Branches /\ op.bm \in SUBSET Branches
        BY <1>7 DEF GoodOps, OpType
      <3> QED BY <1>6, <2>1, <2>3, <3>1 DEF ForwardOK
    <2> QED BY <2>2, <2>3
  <1>8. ASSUME NEW op \in PlainOps \cup S, op \in GoodOps
        PROVE  ForwardOK(a, op)' /\ op.name \notin ForwardNames
    <2>1. /\ op.name \notin ForwardNames
          /\ op.name \in BranchNames => request[op.b] = "sent"
      BY <1>2 DEF NoForward
    <2>2. op.name \notin {"t_forward_nonack", "add_uac", "send_requests"}
      BY <2>1 DEF ForwardNames
    <2>3. op.b \in Branches BY <1>8 DEF GoodOps
    <2> QED BY ZenonT(60), <1>6, <2>1, <2>2, <2>3 DEF ForwardOK
  <1>9. \A c \in Actors : Left(c)' \subseteq GoodOps
    <2>1. TodoType' BY MakesCalls
    <2> QED BY <2>1, CallsIn DEF TodoType, Left
  <1>10. ASSUME NEW c \in Actors, NEW op \in Left(c)'
         PROVE  ForwardOK(c, op)' /\ (op.name \in ForwardNames => op \in Left(c))
    <2>0. op \in GoodOps BY <1>9
    <2>1. CASE c # a BY <1>1, <1>7, <2>0, <2>1
    <2>2. CASE c = a
      <3>1. op \in PlainOps \cup S \/ op \in Rest(a) BY <1>1, <2>2
      <3>2. CASE op \in PlainOps \cup S BY <1>8, <2>0, <2>2, <3>2
      <3>3. CASE op \in Rest(a) BY <1>1, <1>7, <2>0, <2>2, <3>3
      <3> QED BY <3>1, <3>2, <3>3
    <2> QED BY <2>1, <2>2
  <1>11. \A c, d \in Actors : \A x \in Left(c)', y \in Left(d)' :
           x.name \in ForwardNames /\ y.name \in ForwardNames => c = d
    BY <1>3, <1>10
  <1>12. \A c \in Actors : AtMostOne(todo'[c], {"send_requests"})
    <2>1. \A op \in S : op.name \notin {"send_requests"} BY DEF NoForward, ForwardNames
    <2>2. AtMostOne(todo[a], {"send_requests"}) BY DEF ForwardInv
    <2>3. AtMostOne(todo'[a], {"send_requests"}) BY <2>1, <2>2, MakesOnce
    <2> QED BY <1>1, <2>3 DEF ForwardInv
  <1>13. ASSUME NEW b \in Branches
         PROVE  /\ Heard(b)' => request'[b] = "sent"
                /\ request'[b] # "null" => b < nr'
    <2>1. Heard(b) => request[b] = "sent" BY DEF ForwardInv, Heard
    <2>2. Heard(b)' => Heard(b) \/ request'[b] = "sent" BY DEF NoForward
    <2> QED BY <1>6, <2>1, <2>2
  <1> QED BY ZenonT(60), <1>10, <1>11, <1>12, <1>13 DEF ForwardInv, Heard

----------------------------------------------------------------------------
(***************************************************************************)
(* The calls that lead to plain calls, or to one other call.               *)
(***************************************************************************)
\* A call that leads to plain calls.
LEMMA MakesPlain ==
  ASSUME NEW a \in Actors, NEW name, name # "event", Calls(a, name),
         NEW more \in Seq(PlainOps), Done(a, more)
  PROVE  Makes(a, name, {})
  <1>1. /\ more \in Seq(GoodOps)
        /\ \A op \in CallsOf(more) : op \in PlainOps /\ op.name \in PlainNames
    BY PlainGood
  <1>2. AtMostOne(more, LockNames) /\ AtMostOne(more, {"send_requests"})
    BY <1>1, OneFew DEF PlainNames, LockNames
  <1> QED BY <1>1, <1>2 DEF Makes

\* In particular to none.
LEMMA MakesNothing ==
  ASSUME NEW a \in Actors, NEW name, name # "event", Calls(a, name), Done(a, <<>>)
  PROVE  Makes(a, name, {})
  <1>1. <<>> \in Seq(PlainOps) OBVIOUS
  <1> QED BY ZenonT(60), <1>1, MakesPlain

\* A step whose call leads to a single one.
LEMMA MakesOne ==
  ASSUME NEW a \in Actors, NEW name, name # "event", Calls(a, name),
         NEW op \in GoodOps, Done(a, <<op>>)
  PROVE  Makes(a, name, {op})
  <1>1. <<op>> \in Seq(GoodOps) OBVIOUS
  <1>2. CallsOf(<<op>>) = {op} BY CallsFew
  <1>3. AtMostOne(<<op>>, LockNames) /\ AtMostOne(<<op>>, {"send_requests"}) BY OneFew
  <1> QED BY ZenonT(60), <1>1, <1>2, <1>3 DEF Makes

\* The call made next is one of the actor's calls.
LEMMA NextCall ==
  ASSUME TodoType, NEW a \in Actors, NEW name, Calls(a, name)
  PROVE  /\ Call(a) \in GoodOps /\ Call(a) \in Left(a) /\ Call(a).name = name
         /\ Call(a).b \in Branches /\ Call(a).code \in 0..699
         /\ Call(a).fake \in BOOLEAN /\ Call(a).restart \in BOOLEAN
         /\ Call(a).bm \in SUBSET Branches
         /\ name \in {"cancel_uacs", "send_requests"} => Lowest(Call(a).bm) \in Call(a).bm
  <1>1. todo[a] \in Seq(GoodOps) /\ todo[a] # <<>> BY DEF TodoType, Calls
  <1>2. Call(a) \in GoodOps /\ Call(a) \in Left(a) BY <1>1, CallsTail DEF Call, Left
  <1>3. Call(a).name = name BY DEF Calls
  <1>4. /\ Call(a).b \in Branches /\ Call(a).code \in 0..699
        /\ Call(a).fake \in BOOLEAN /\ Call(a).restart \in BOOLEAN
        /\ Call(a).bm \in SUBSET Branches
        /\ name \in {"cancel_uacs", "send_requests"} => Call(a).bm # {}
    BY <1>2, <1>3 DEF GoodOps, OpType
  <1> QED BY ZenonT(60), <1>2, <1>3, <1>4, LowestIn

\* A reply that is processed, or handled by the failure handlers, is that of a
\* branch whose request went out.
LEMMA CallSent ==
  ASSUME TodoType, ForwardInv, NEW a \in Actors, NEW name \in BranchNames, Calls(a, name)
  PROVE  request[Call(a).b] = "sent"
  <1>1. Call(a) \in Left(a) /\ Call(a).name = name BY ZenonT(60), NextCall
  <1>2. ForwardOK(a, Call(a)) BY ZenonT(60), <1>1 DEF ForwardInv
  <1> QED BY ZenonT(60), <1>1, <1>2 DEF ForwardOK

----------------------------------------------------------------------------
(***************************************************************************)
(* Steps that leave the replies alone: what they have in common.           *)
(***************************************************************************)
\* No reply is received, stored, relayed or chosen, and no CANCEL arrives;
\* branches may be selected for a CANCEL.
Calm(a, name, S) ==
    /\ Makes(a, name, S)
    /\ name # "on_failure" /\ \A op \in S : op.name # "on_failure"
    /\ UNCHANGED <<status, upstream, last_received, stored, first, nr, was_cancelled,
                   multi_200ok>>
    /\ \A b \in Branches :
         /\ request'[b] # "null" => request[b] # "null"
         /\ cancel_buf[b] # "null" => cancel_buf'[b] # "null"
         /\ rang'[b] => rang[b] \/ ~was_cancelled \/ cancel_buf'[b] # "null"
    /\ name = "cancel_invite" => \A b \in Branches : rang'[b] => Settled(b)'

\* The failure handlers' calls are the same before and after such a step.
LEMMA CalmCalls ==
  ASSUME TodoType, NEW a \in Actors, NEW name, NEW S, Calm(a, name, S)
  PROVE  /\ \A c \in Actors : \A op \in Left(c)' :
              op.name = "on_failure" => op \in Left(c)
         /\ \A c \in Actors : \A op \in Left(c) :
              op.name = "on_failure" => op \in Left(c)'
         /\ name # "cancel_invite" => \A c \in Actors : \A op \in Left(c) :
              op.name = "cancel_invite" => op \in Left(c)'
  <1>1. /\ \A c \in Actors : c # a => todo'[c] = todo[c] /\ Left(c)' = Left(c)
        /\ Left(a)' \subseteq PlainOps \cup S \cup Rest(a)
        /\ Rest(a) \subseteq Left(a)' /\ Rest(a) \subseteq Left(a)
        /\ name = "event" => Left(a) = {}
        /\ name # "event" => Left(a) = {Call(a)} \cup Rest(a) /\ Call(a).name = name
    BY ZenonT(60), MakesCalls DEF Calm
  <1>2. \A op \in PlainOps \cup S : op.name # "on_failure"
    BY DEF PlainOps, PlainNames, Calm
  <1>3. \A op \in Left(a)' : op.name = "on_failure" => op \in Left(a) BY <1>1, <1>2
  <1>4. \A op \in Left(a) : op.name = "on_failure" => op \in Left(a)'
    BY ZenonT(60), <1>1 DEF Calm
  <1>5. name # "cancel_invite" =>
          \A op \in Left(a) : op.name = "cancel_invite" => op \in Left(a)'
    BY <1>1
  <1> QED BY <1>1, <1>3, <1>4, <1>5

\* A step that leaves replies and failure handlers alone keeps what is said of them.
LEMMA CalmKeeps ==
  ASSUME GoodType, FinalInv, StoreInv, PickInv, SelectInv,
         NEW a \in Actors, NEW name, NEW S, Calm(a, name, S)
  PROVE  FinalInv' /\ StoreInv' /\ PickInv' /\ SelectInv'
  <1>0. TodoType BY DEF GoodType
  <1>1. /\ \A c \in Actors : \A op \in Left(c)' :
              op.name = "on_failure" => op \in Left(c)
        /\ \A c \in Actors : \A op \in Left(c) :
              op.name = "on_failure" => op \in Left(c)'
        /\ name # "cancel_invite" => \A c \in Actors : \A op \in Left(c) :
              op.name = "cancel_invite" => op \in Left(c)'
    BY <1>0, CalmCalls
  <1>2. /\ status' = status /\ upstream' = upstream /\ last_received' = last_received
        /\ stored' = stored /\ first' = first /\ nr' = nr
        /\ was_cancelled' = was_cancelled /\ multi_200ok' = multi_200ok
    BY ZenonT(60) DEF Calm
  <1>3. FinalInv' BY ZenonT(60), <1>1, <1>2 DEF FinalInv, OneFinal
  <1>4. StoreInv' BY <1>1, <1>2 DEF StoreInv
  <1>5. PickInv'
    <2>1. /\ Open(last_received)' \subseteq Open(last_received)
          /\ Choices(last_received)' \subseteq Choices(last_received)
      <3>1. Candidates' \subseteq Candidates
        <4>1. Current' = Current /\ Current \subseteq Branches
          BY <1>2, ConstantsType DEF Current, GoodType, StateType, CountType, Branches
        <4> QED BY ZenonT(60), <4>1 DEF Candidates, Calm
      <3> QED BY <1>2, <3>1 DEF Open, Choices
    <2>2. ASSUME NEW code, Best(code) PROVE Best(code)'
      BY ZenonT(60), <1>2, <2>1, <2>2 DEF Best
    <2> QED BY <1>1, <1>2, <2>2 DEF PickInv
  <1>6. SelectInv'
    <2>1. \A b \in Branches : Settled(b) => Settled(b)' BY ZenonT(60), <1>2 DEF Settled, Calm
    <2>2. ASSUME NEW b \in Branches, request'[b] # "null"
          PROVE  /\ b < first' => Settled(b)'
                 /\ Invite /\ status' >= 200 /\ ~multi_200ok' => Settled(b)'
                 /\ \A c \in Actors : \A op \in Left(c)' :
                      op.name = "on_failure" => Settled(b)'
      BY <1>1, <1>2, <2>1, <2>2 DEF SelectInv, Calm
    <2>3. ASSUME was_cancelled'
          PROVE  \/ \E c \in Actors : \E op \in Left(c)' : op.name = "cancel_invite"
                 \/ \A b \in Branches : rang'[b] => Settled(b)'
      <3>1. CASE name = "cancel_invite" BY ZenonT(60), <3>1 DEF Calm
      <3>2. CASE name # "cancel_invite"
        <4>1. CASE \E c \in Actors : \E op \in Left(c) : op.name = "cancel_invite"
          BY <1>1, <3>2, <4>1
        <4>2. CASE \A b \in Branches : rang[b] => Settled(b)
          BY ZenonT(60), <1>2, <2>1, <2>3, <4>2 DEF Calm, Settled
        <4> QED BY <1>2, <2>3, <4>1, <4>2 DEF SelectInv
      <3> QED BY <3>1, <3>2
    <2> QED BY <2>2, <2>3 DEF SelectInv
  <1> QED BY <1>3, <1>4, <1>5, <1>6

\* The invariant and its types.
LEMMA InvTypes ==
  ASSUME IInv
  PROVE  /\ GoodType /\ StateType /\ TodoType
         /\ CountType /\ BranchType /\ CancelType /\ ReplyType /\ FlagType
  BY DEF IInv, GoodType, StateType

\* What a step leaves alone keeps its type.
LEMMA SameType ==
  ASSUME IInv
  PROVE  /\ UNCHANGED <<nr, first, reply_lock, msgs>> => CountType'
         /\ UNCHANGED <<request, fr, last_received, stored, rang>> => BranchType'
         /\ UNCHANGED <<cancel_buf, to_cancel, cancels>> => CancelType'
         /\ UNCHANGED uvars => ReplyType'
         /\ UNCHANGED <<fvars, wvars>> => FlagType'
  <1>1. /\ CountType /\ BranchType /\ CancelType /\ ReplyType /\ FlagType BY InvTypes
  <1>2. UNCHANGED <<nr, first, reply_lock, msgs>> => CountType'
    BY ZenonT(60), <1>1 DEF CountType
  <1>3. UNCHANGED <<request, fr, last_received, stored, rang>> => BranchType'
    BY ZenonT(60), <1>1 DEF BranchType
  <1>4. UNCHANGED <<cancel_buf, to_cancel, cancels>> => CancelType'
    BY ZenonT(60), <1>1 DEF CancelType
  <1>5. UNCHANGED uvars => ReplyType' BY ZenonT(60), <1>1 DEF ReplyType, uvars
  <1>6. UNCHANGED <<fvars, wvars>> => FlagType'
    BY ZenonT(60), <1>1 DEF FlagType, fvars, wvars
  <1> QED BY ZenonT(60), <1>2, <1>3, <1>4, <1>5, <1>6

\* The invariant is kept by a calm step that does not forward.
LEMMA CalmInv ==
  ASSUME IInv, NEW a \in Actors, NEW name, NEW S,
         Calm(a, name, S), LockStep(a, name, S), NoForward(a, name, S), StateType'
  PROVE  IInv'
  <1>1. Makes(a, name, S) BY DEF Calm
  <1>2. GoodType /\ TodoType /\ CountType BY InvTypes
  <1>3. TodoType' BY ZenonT(60), <1>1, <1>2, MakesCalls
  <1>4. LockInv' BY <1>1, <1>2, LockKept DEF IInv
  <1>5. ForwardInv' BY <1>1, <1>2, ForwardKept DEF IInv
  <1>6. FinalInv' /\ StoreInv' /\ PickInv' /\ SelectInv' BY <1>2, CalmKeeps DEF IInv
  <1> QED BY <1>3, <1>4, <1>5, <1>6 DEF IInv, GoodType

----------------------------------------------------------------------------
(***************************************************************************)
(* Steps that answer, or choose the answer.                                *)
(***************************************************************************)
\* Only one process is inside the failure handlers, and it holds the reply lock:
\* who else answers finds nobody there.
LEMMA HandlerAlone ==
  ASSUME TodoType, LockInv, NEW a \in Actors, NEW name, NEW S, Makes(a, name, S),
         name \in {"relay_reply", "on_failure"} \/ (name = "t_reply" /\ reply_lock = None)
  PROVE  /\ \A c \in Actors : \A op \in Left(c)' : op.name = "on_failure" => c = a /\ op \in S
         /\ name # "on_failure" =>
              \A c \in Actors : \A op \in Left(c) : op.name # "on_failure"
         /\ \A c \in Actors : \A op \in Left(c) :
              op.name = "cancel_invite" => op \in Left(c)'
  <1>1. /\ \A c \in Actors : c # a => todo'[c] = todo[c] /\ Left(c)' = Left(c)
        /\ Left(a)' \subseteq PlainOps \cup S \cup Rest(a)
        /\ Rest(a) \subseteq Left(a)' /\ Rest(a) \subseteq Left(a)
        /\ Left(a) = {Call(a)} \cup Rest(a) /\ Call(a).name = name
    BY ZenonT(60), MakesCalls
  <1>2. \A c \in Actors : \A op \in Left(c) : op.name \in LockNames => reply_lock = c
    BY DEF LockInv
  <1>3. AtMostOne(todo[a], LockNames) BY DEF LockInv
  <1>4. None \notin Actors BY ConstantsType DEF Actors
  <1>5. "on_failure" \in LockNames /\ "relay_reply" \in LockNames BY DEF LockNames
  <1>6. name \in LockNames =>
          reply_lock = a /\ \A op \in Rest(a) : op.name \notin LockNames
    BY ZenonT(60), <1>1, <1>2, <1>3, MakesOnce
  <1>7. ASSUME NEW c \in Actors, NEW op \in Left(c), op.name = "on_failure"
        PROVE  c = a /\ op \notin Rest(a) /\ name = "on_failure"
    <2>1. reply_lock = c /\ op.name \in LockNames BY <1>2, <1>5, <1>7
    <2>2. name \in LockNames BY <1>4, <1>5, <2>1
    <2>3. c = a /\ op \notin Rest(a) BY <1>6, <2>1, <2>2
    <2>4. op = Call(a) BY <1>1, <2>3
    <2> QED BY ZenonT(60), <1>1, <1>7, <2>3, <2>4
  <1>8. \A op \in PlainOps : op.name # "on_failure" BY DEF PlainOps, PlainNames
  <1>9. ASSUME NEW c \in Actors, NEW op \in Left(c)', op.name = "on_failure"
        PROVE  c = a /\ op \in S
    <2>1. CASE c # a
      <3>1. op \in Left(c) BY <1>1, <2>1
      <3> QED BY <1>7, <1>9, <2>1, <3>1
    <2>2. CASE c = a
      <3>1. op \in S \/ op \in Rest(a) BY <1>1, <1>8, <1>9, <2>2
      <3>2. op \notin Rest(a) BY <1>1, <1>7, <1>9
      <3> QED BY <2>2, <3>1, <3>2
    <2> QED BY <2>1, <2>2
  <1>10. ASSUME NEW c \in Actors, NEW op \in Left(c), op.name = "cancel_invite"
         PROVE  op \in Left(c)'
    BY <1>1, <1>10
  <1> QED BY <1>7, <1>9, <1>10

\* The reply sent upstream, if any, is the first final one or a 2xx of an INVITE;
\* replies received are stored or answered; branches stay settled.
Answer(a, name, S) ==
    /\ Makes(a, name, S)
    /\ name \in {"relay_reply", "on_failure"} \/ (name = "t_reply" /\ reply_lock = None)
    /\ \A op \in S : op.name # "on_failure"
    /\ status' < 200 => upstream' = <<>>
    /\ OneFinal'
    /\ \A b \in Branches :
         first' <= b /\ last_received'[b] >= 200 /\ status' < 200 => stored'[b]
    /\ \A b \in Branches :
         /\ Settled(b) => Settled(b)'
         /\ request'[b] # "null" =>
              /\ b < first' => Settled(b)'
              /\ Invite /\ status' >= 200 /\ ~multi_200ok' => Settled(b)'
    /\ rang' = rang /\ was_cancelled' = was_cancelled

\* The invariant is kept by a step that answers or stores a reply.
LEMMA AnswerInv ==
  ASSUME IInv, NEW a \in Actors, NEW name, NEW S,
         Answer(a, name, S), LockStep(a, name, S), NoForward(a, name, S), StateType'
  PROVE  IInv'
  <1>1. Makes(a, name, S) BY DEF Answer
  <1>2. TodoType /\ CountType BY InvTypes
  <1>3. TodoType' BY ZenonT(60), <1>1, <1>2, MakesCalls
  <1>4. LockInv' BY <1>1, <1>2, LockKept DEF IInv
  <1>5. ForwardInv' BY <1>1, <1>2, ForwardKept DEF IInv
  <1>6. name \in {"relay_reply", "on_failure"} \/ (name = "t_reply" /\ reply_lock = None)
    BY DEF Answer
  <1>7. /\ \A c \in Actors : \A op \in Left(c)' : op.name = "on_failure" => c = a /\ op \in S
        /\ \A c \in Actors : \A op \in Left(c) :
             op.name = "cancel_invite" => op \in Left(c)'
    BY <1>1, <1>2, <1>6, HandlerAlone DEF IInv
  <1>8. \A c \in Actors : \A op \in Left(c)' : op.name # "on_failure"
    BY <1>7 DEF Answer
  <1>9. FinalInv' BY <1>8 DEF FinalInv, Answer
  <1>10. StoreInv' BY <1>8 DEF StoreInv, Answer
  <1>11. PickInv' BY <1>8 DEF PickInv
  <1>12. SelectInv'
    <2>1. ASSUME was_cancelled'
          PROVE  \/ \E c \in Actors : \E op \in Left(c)' : op.name = "cancel_invite"
                 \/ \A b \in Branches : rang'[b] => Settled(b)'
      <3>1. was_cancelled /\ rang' = rang BY <2>1 DEF Answer
      <3>2. CASE \E c \in Actors : \E op \in Left(c) : op.name = "cancel_invite"
        BY <1>7, <3>2
      <3>3. CASE \A b \in Branches : rang[b] => Settled(b)
        BY <3>1, <3>3 DEF Answer
      <3> QED BY <3>1, <3>2, <3>3 DEF IInv, SelectInv
    <2> QED BY <1>8, <2>1 DEF SelectInv, Answer
  <1> QED BY <1>3, <1>4, <1>5, <1>9, <1>10, <1>11, <1>12 DEF IInv, GoodType

\* relay_reply picks a branch and leaves the rest to the failure handlers.
Decide(a, op) ==
    /\ Makes(a, "relay_reply", {op}) /\ op \in Left(a)' /\ op.name = "on_failure"
    /\ UNCHANGED <<status, upstream, stored, first, rang, was_cancelled>>
    /\ status < 200 /\ last_received'[op.code] >= 200
    /\ \A b \in Branches : b # op.b => last_received'[b] = last_received[b]
    /\ op.code # op.b => stored[op.code]
    /\ (Block6xx /\ last_received'[op.code] >= 600) \/ Best(last_received[op.code])'
    /\ \A b \in Branches : /\ Settled(b) => Settled(b)'
                           /\ request'[b] # "null" => Settled(b)'

\* The invariant is kept by such a step.
LEMMA DecideInv ==
  ASSUME IInv, NEW a \in Actors, NEW op, Decide(a, op),
         LockStep(a, "relay_reply", {op}), NoForward(a, "relay_reply", {op}), StateType'
  PROVE  IInv'
  <1> DEFINE name == "relay_reply"
  <1>1. Makes(a, name, {op}) BY ZenonT(60) DEF Decide
  <1>2. TodoType /\ CountType BY InvTypes
  <1>3. TodoType' BY ZenonT(60), <1>1, <1>2, MakesCalls
  <1>4. LockInv' BY <1>1, <1>2, LockKept DEF IInv
  <1>5. ForwardInv' BY <1>1, <1>2, ForwardKept DEF IInv
  <1>6. /\ \A c \in Actors : \A x \in Left(c)' :
             x.name = "on_failure" => c = a /\ x \in {op}
        /\ \A c \in Actors : \A x \in Left(c) : x.name # "on_failure"
        /\ \A c \in Actors : \A x \in Left(c) :
             x.name = "cancel_invite" => x \in Left(c)'
    BY <1>1, <1>2, HandlerAlone DEF IInv
  <1>7. \A c \in Actors : \A x \in Left(c)' : x.name = "on_failure" => x = op
    BY <1>6
  <1>8. /\ UNCHANGED <<status, upstream, stored, first, rang, was_cancelled>>
        /\ status < 200
    BY ZenonT(60) DEF Decide
  <1>9. FinalInv' BY ZenonT(60), <1>7, <1>8 DEF IInv, FinalInv, OneFinal, Decide
  <1>10. StoreInv'
    <2>1. ASSUME NEW b \in Branches, first' <= b, last_received'[b] >= 200
          PROVE  \/ stored'[b]
                 \/ \E c \in Actors : \E x \in Left(c)' : x.name = "on_failure" /\ x.b = b
      <3>1. CASE b = op.b BY ZenonT(60), <3>1 DEF Decide
      <3>2. CASE b # op.b
        <4>1. last_received[b] >= 200 BY <2>1, <3>2 DEF Decide
        <4> QED BY <1>6, <1>8, <2>1, <4>1 DEF IInv, StoreInv
      <3> QED BY ZenonT(60), <3>1, <3>2
    <2> QED BY <1>7, <1>8, <2>1 DEF StoreInv, Decide
  <1>11. PickInv' BY ZenonT(60), <1>7 DEF PickInv, Decide
  <1>12. SelectInv'
    <2>1. ASSUME was_cancelled'
          PROVE  \/ \E c \in Actors : \E x \in Left(c)' : x.name = "cancel_invite"
                 \/ \A b \in Branches : rang'[b] => Settled(b)'
      <3>2. CASE \E c \in Actors : \E x \in Left(c) : x.name = "cancel_invite"
        BY <1>6, <3>2
      <3>3. CASE \A b \in Branches : rang[b] => Settled(b)
        BY ZenonT(60), <1>8, <3>3 DEF Decide
      <3> QED BY <1>8, <2>1, <3>2, <3>3 DEF IInv, SelectInv
    <2> QED BY ZenonT(60), <2>1 DEF SelectInv, Decide
  <1> QED BY <1>3, <1>4, <1>5, <1>9, <1>10, <1>11, <1>12 DEF IInv, GoodType

\* cleanup_uac_timers.
LEMMA CleanupInv ==
  ASSUME IInv, NEW a \in Actors, CleanupUacTimers(a)
  PROVE  IInv'
  <1>1. Calls(a, "cleanup_uac_timers") /\ Done(a, <<>>) BY DEF CleanupUacTimers
  <1>2. Makes(a, "cleanup_uac_timers", {}) BY <1>1, MakesNothing
  <1>3. StateType'
    <2>1. BranchType' BY ZenonT(60), InvTypes DEF CleanupUacTimers, BranchType
    <2>2. CountType' /\ CancelType' /\ ReplyType' /\ FlagType'
      BY ZenonT(60), InvTypes DEF CleanupUacTimers, CountType, CancelType, ReplyType, FlagType,
                      uvars, fvars, wvars
    <2> QED BY <2>1, <2>2 DEF StateType
  <1>4. Calm(a, "cleanup_uac_timers", {})
    BY <1>2 DEF Calm, CleanupUacTimers, uvars, fvars, wvars
  <1>5. LockStep(a, "cleanup_uac_timers", {})
    BY DEF LockStep, LockNames, CleanupUacTimers
  <1>6. NoForward(a, "cleanup_uac_timers", {})
    BY InvTypes DEF NoForward, Heard, CleanupUacTimers, BranchType, uvars
  <1> QED BY <1>3, <1>4, <1>5, <1>6, CalmInv

\* put_on_wait and set_final_timer.
LEMMA WaitInv ==
  ASSUME IInv, NEW a \in Actors, PutOnWait(a) \/ SetFinalTimer(a)
  PROVE  IInv'
  <1> DEFINE name == IF PutOnWait(a) THEN "put_on_wait" ELSE "set_final_timer"
  <1>1. Calls(a, name) /\ Done(a, <<>>) BY DEF PutOnWait, SetFinalTimer
  <1>2. name \in {"put_on_wait", "set_final_timer"} OBVIOUS
  <1>3. UNCHANGED <<nr, first, bvars, uvars, fvars, reply_lock, msgs>>
    BY DEF PutOnWait, SetFinalTimer
  <1>4. on_wait' \in BOOLEAN /\ rpl_retr' \in {"never", "armed", "over"}
    BY ZenonT(60), InvTypes DEF PutOnWait, SetFinalTimer, FlagType
  <1> HIDE DEF name
  <1>5. Makes(a, name, {}) BY <1>1, <1>2, MakesNothing
  <1>6. StateType'
    <2>1. CountType' /\ BranchType' /\ CancelType' /\ ReplyType'
      BY ZenonT(60), <1>3, SameType DEF bvars
    <2>2. FlagType' BY <1>3, <1>4, InvTypes DEF FlagType, fvars
    <2> QED BY <2>1, <2>2 DEF StateType
  <1>7. Calm(a, name, {}) BY <1>2, <1>3, <1>5 DEF Calm, bvars, uvars, fvars
  <1>8. LockStep(a, name, {}) BY <1>2, <1>3 DEF LockStep, LockNames
  <1>9. NoForward(a, name, {})
    BY <1>2, <1>3 DEF NoForward, Heard, bvars, uvars
  <1> QED BY <1>6, <1>7, <1>8, <1>9, CalmInv

\* A round of cancel_uacs, and its second half.
LEMMA CancelUacInv ==
  ASSUME IInv, NEW a \in Actors, CancelUac(a) \/ FlagToCancel(a)
  PROVE  IInv'
  <1> DEFINE name == IF CancelUac(a) THEN "cancel_uacs" ELSE "flag_to_cancel"
  <1>0. TodoType /\ CancelType /\ ReplyType BY InvTypes
  <1>1. name \in {"cancel_uacs", "flag_to_cancel"} OBVIOUS
  <1>2. UNCHANGED <<nr, first, request, fr, last_received, stored, uvars, fvars, wvars,
                    reply_lock, msgs, rang>>
    BY ZenonT(60) DEF CancelUac, FlagToCancel
  <1>3. /\ Makes(a, name, {})
        /\ cancel_buf' \in [Branches -> {"null", "busy", "built"}]
        /\ \A b \in Branches : cancel_buf[b] # "null" => cancel_buf'[b] # "null"
        /\ cancels' \in [Branches -> Nat] /\ to_cancel' \in [Branches -> BOOLEAN]
    <2>1. CASE CancelUac(a)
      <3> DEFINE b == Lowest(Call(a).bm)
                 rest == ForEach("cancel_uacs", Call(a).bm \ {b})
                 flag == << DoOn("flag_to_cancel", b) >>
      <3>1. Calls(a, "cancel_uacs") BY ZenonT(60), <2>1 DEF CancelUac
      <3>2. b \in Branches /\ Call(a).bm \ {b} \in SUBSET Branches
        BY ZenonT(60), <1>0, <3>1, NextCall
      <3>3. rest \in Seq(PlainOps) BY ZenonT(60), <3>2, ForEachCalls
      <3>4. flag \in Seq(PlainOps)
        <4>1. DoOn("flag_to_cancel", b) \in GoodOps
          <5>1. "flag_to_cancel" \in CallNames /\ 0 \in 0..699 /\ {} \in SUBSET Branches
            BY DEF CallNames
          <5> HIDE DEF b
          <5> QED BY ZenonT(60), <3>2, <5>1, OpGood DEF DoOn
        <4>2. DoOn("flag_to_cancel", b).name = "flag_to_cancel" BY DEF DoOn, Op
        <4> QED BY <4>1, <4>2 DEF PlainOps, PlainNames
      <3>5. flag \o rest \in Seq(PlainOps) BY ZenonT(60), <3>3, <3>4, CallsCat
      <3>6. \E more \in Seq(PlainOps) : Done(a, more)
        BY ZenonT(60), <2>1, <3>3, <3>5 DEF CancelUac
      <3>7. Makes(a, "cancel_uacs", {}) BY <3>1, <3>6, MakesPlain
      <3> HIDE DEF b, rest, flag
      <3>8. \/ CancelBranch(b) /\ UNCHANGED to_cancel
            \/ UNCHANGED <<cancel_buf, cancels, to_cancel>>
            \/ UNCHANGED <<cancel_buf, cancels>> /\ to_cancel' = [to_cancel EXCEPT ![b] = TRUE]
        BY ZenonT(60), <2>1 DEF CancelUac, b
      <3>9. /\ cancel_buf' \in [Branches -> {"null", "busy", "built"}]
            /\ \A c \in Branches : cancel_buf[c] # "null" => cancel_buf'[c] # "null"
        BY <1>0, <3>2, <3>8 DEF CancelBranch, CancelType
      <3>10. to_cancel' \in [Branches -> BOOLEAN]
        BY ZenonT(60), <1>0, <3>2, <3>8 DEF CancelType
      <3>11. cancels' \in [Branches -> Nat]
        BY <1>0, <3>2, <3>8 DEF CancelBranch, CancelType
      <3> QED BY <2>1, <3>7, <3>9, <3>10, <3>11
    <2>2. CASE FlagToCancel(a) /\ ~CancelUac(a)
      <3>1. Calls(a, "flag_to_cancel") /\ Done(a, <<>>) BY <2>2 DEF FlagToCancel
      <3>2. Makes(a, "flag_to_cancel", {}) BY <3>1, MakesNothing
      <3> QED BY ZenonT(60), <1>0, <2>2, <3>2 DEF FlagToCancel, CancelType
    <2> QED BY <2>1, <2>2
  <1> HIDE DEF name
  <1>4. StateType'
    <2>1. CountType' /\ BranchType' /\ ReplyType' /\ FlagType'
      BY ZenonT(60), <1>2, SameType
    <2> QED BY <1>3, <2>1 DEF StateType, CancelType
  <1>5. Calm(a, name, {}) BY <1>1, <1>2, <1>3 DEF Calm, uvars, fvars
  <1>6. LockStep(a, name, {}) BY <1>1, <1>2 DEF LockStep, LockNames
  <1>7. NoForward(a, name, {})
    BY <1>1, <1>2 DEF NoForward, Heard, uvars
  <1> QED BY <1>4, <1>5, <1>6, <1>7, CalmInv

\* Marking branches busy.
LEMMA Marked ==
  ASSUME CancelType, NEW B, MarkBusy(B), to_cancel' = to_cancel, cancels' = cancels
  PROVE  /\ CancelType'
         /\ \A b \in Branches :
              cancel_buf'[b] = IF b \in B THEN "busy" ELSE cancel_buf[b]
         /\ \A b \in Branches : cancel_buf[b] # "null" => cancel_buf'[b] # "null"
  <1>1. \A b \in Branches : cancel_buf'[b] = IF b \in B THEN "busy" ELSE cancel_buf[b]
    BY DEF MarkBusy
  <1>2. cancel_buf' \in [Branches -> {"null", "busy", "built"}]
    BY DEF MarkBusy, CancelType
  <1>3. CancelType' BY <1>2 DEF CancelType
  <1> QED BY <1>1, <1>3

\* start_retr, set_timer: the FR timer of a branch.
LEMMA TimerInv ==
  ASSUME IInv, NEW a \in Actors, StartRetr(a) \/ RestartTimer(a)
  PROVE  IInv'
  <1> DEFINE name == IF StartRetr(a) THEN "start_retr" ELSE "set_timer"
  <1>0. TodoType /\ BranchType BY InvTypes
  <1>1. name \in {"start_retr", "set_timer"} OBVIOUS
  <1>2. Calls(a, name) /\ Done(a, <<>>) BY DEF StartRetr, RestartTimer
  <1>3. UNCHANGED <<nr, first, request, last_received, stored, cancel_buf, to_cancel,
                    cancels, uvars, fvars, wvars, reply_lock, msgs, rang>>
    BY DEF StartRetr, RestartTimer
  <1>4. Call(a).b \in Branches BY ZenonT(60), <1>0, <1>2, NextCall
  <1>5. /\ fr' \in [Branches -> {"never", "armed", "reset", "fired"}]
        /\ \A b \in Branches : b # Call(a).b => fr'[b] = fr[b]
    <2> DEFINE S == {"never", "armed", "reset", "fired"}
               c == Call(a).b
    <2>1. fr \in [Branches -> S] /\ "armed" \in S BY ZenonT(60), <1>0 DEF BranchType
    <2> HIDE DEF S
    <2>2. fr[c] \in S BY ZenonT(60), <1>4, <2>1
    <2>3. \E v \in S : fr' = [fr EXCEPT ![c] = v]
      <3>1. CASE StartRetr(a)
        <4>1. fr' = [fr EXCEPT ![c] = IF fr[c] = "never" THEN "armed" ELSE fr[c]]
          BY ZenonT(60), <3>1 DEF StartRetr
        <4> QED BY ZenonT(60), <2>1, <2>2, <4>1
      <3>2. CASE RestartTimer(a)
        <4>1. fr' = [fr EXCEPT ![c] = IF Invite /\ fr[c] # "fired" THEN "armed" ELSE fr[c]]
          BY ZenonT(60), <3>2 DEF RestartTimer
        <4> QED BY ZenonT(60), <2>1, <2>2, <4>1
      <3> QED BY ZenonT(60), <3>1, <3>2
    <2> HIDE DEF c
    <2>4. fr' \in [Branches -> S] /\ \A b \in Branches : b # c => fr'[b] = fr[b]
      BY ZenonT(60), <2>1, <2>3
    <2> QED BY ZenonT(60), <2>4 DEF S, c
  <1> HIDE DEF name
  <1>6. Makes(a, name, {}) BY <1>1, <1>2, MakesNothing
  <1>7. request[Call(a).b] = "sent"
    BY ZenonT(60), <1>0, <1>1, <1>2, CallSent DEF BranchNames, IInv
  <1>8. StateType'
    <2>1. BranchType' BY ZenonT(60), <1>0, <1>3, <1>5 DEF BranchType
    <2>2. CountType' /\ CancelType' /\ ReplyType' /\ FlagType'
      BY ZenonT(60), <1>3, SameType
    <2> QED BY <2>1, <2>2 DEF StateType
  <1>9. Calm(a, name, {}) BY ZenonT(60), <1>1, <1>3, <1>6 DEF Calm, uvars, fvars
  <1>10. LockStep(a, name, {}) BY <1>1, <1>3 DEF LockStep, LockNames
  <1>11. NoForward(a, name, {})
    BY <1>1, <1>3, <1>5, <1>7 DEF NoForward, Heard, uvars
  <1> QED BY <1>8, <1>9, <1>10, <1>11, CalmInv

\* UNLOCK_REPLIES.
LEMMA UnlockInv ==
  ASSUME IInv, NEW a \in Actors, UnlockReplies(a)
  PROVE  IInv'
  <1>1. Calls(a, "UNLOCK_REPLIES") /\ Done(a, <<>>) /\ reply_lock' = None
    BY DEF UnlockReplies, Unlock
  <1>2. UNCHANGED <<nr, first, bvars, uvars, fvars, wvars, msgs>> BY DEF UnlockReplies
  <1>3. Makes(a, "UNLOCK_REPLIES", {}) BY <1>1, MakesNothing
  <1>4. StateType'
    <2>1. BranchType' /\ CancelType' /\ ReplyType' /\ FlagType'
      BY ZenonT(60), <1>2, SameType DEF bvars
    <2>2. CountType' BY <1>1, <1>2, InvTypes DEF CountType
    <2> QED BY <2>1, <2>2 DEF StateType
  <1>5. Calm(a, "UNLOCK_REPLIES", {}) BY ZenonT(60), <1>2, <1>3 DEF Calm, bvars, uvars, fvars
  <1>6. LockStep(a, "UNLOCK_REPLIES", {}) BY <1>1 DEF LockStep, LockNames
  <1>7. NoForward(a, "UNLOCK_REPLIES", {})
    BY <1>2 DEF NoForward, Heard, bvars, uvars
  <1> QED BY <1>4, <1>5, <1>6, <1>7, CalmInv

\* A reply on a branch that is over.
LEMMA OverBranchInv ==
  ASSUME IInv, NEW a \in Actors, RelayOnOverBranch(a)
  PROVE  IInv'
  <1>1. Calls(a, "relay_reply") /\ Done(a, <<>>) /\ reply_lock' = None
    BY DEF RelayOnOverBranch, Relaying, Unlock
  <1>2. UNCHANGED <<nr, first, request, fr, last_received, stored, cancel_buf, to_cancel,
                    cancels, rang, uvars, no_new, was_cancelled, multi_200ok, wvars, msgs>>
    BY DEF RelayOnOverBranch, Relaying
  <1>3. Makes(a, "relay_reply", {}) BY <1>1, MakesNothing
  <1>4. StateType'
    <2>1. BranchType' /\ CancelType' /\ ReplyType' /\ FlagType'
      BY ZenonT(60), <1>2, SameType DEF fvars
    <2>2. CountType' BY <1>1, <1>2, InvTypes DEF CountType
    <2> QED BY <2>1, <2>2 DEF StateType
  <1>5. Calm(a, "relay_reply", {}) BY ZenonT(60), <1>2, <1>3 DEF Calm, uvars
  <1>6. LockStep(a, "relay_reply", {}) BY <1>1 DEF LockStep, LockNames
  <1>7. NoForward(a, "relay_reply", {}) BY <1>2 DEF NoForward, Heard, uvars
  <1> QED BY <1>4, <1>5, <1>6, <1>7, CalmInv

\* cancel_invite.
LEMMA CancelInviteInv ==
  ASSUME IInv, NEW a \in Actors, CancelInvite(a)
  PROVE  IInv'
  <1> DEFINE W == WhichCancel(Current)
  <1>0. StateType /\ BranchType /\ CancelType BY InvTypes
  <1>1. Calls(a, "cancel_invite") /\ MarkBusy(W) /\ Done(a, CancelUacs(W))
    BY DEF CancelInvite
  <1>2. UNCHANGED <<nr, first, request, fr, last_received, stored, to_cancel, cancels,
                    uvars, fvars, wvars, reply_lock, msgs, rang>>
    BY DEF CancelInvite
  <1>3. W \in SUBSET Branches BY <1>0, WhichCancelIn
  <1>4. CancelUacs(W) \in Seq(PlainOps) BY <1>3, CancelUacsCalls
  <1>5. Makes(a, "cancel_invite", {}) BY <1>1, <1>4, MakesPlain
  <1>6. /\ CancelType'
        /\ \A b \in Branches : cancel_buf'[b] = IF b \in W THEN "busy" ELSE cancel_buf[b]
        /\ \A b \in Branches : cancel_buf[b] # "null" => cancel_buf'[b] # "null"
    BY ZenonT(60), <1>0, <1>1, <1>2, Marked
  <1>7. StateType'
    <2>1. CountType' /\ BranchType' /\ ReplyType' /\ FlagType'
      BY ZenonT(60), <1>2, SameType
    <2> QED BY <1>6, <2>1 DEF StateType
  <1>8. ASSUME NEW b \in Branches, rang'[b] PROVE Settled(b)'
    <2>1. rang[b] /\ last_received' = last_received BY <1>2, <1>8
    <2>2. request[b] = "sent" /\ b < nr BY <2>1 DEF IInv, ForwardInv
    <2>3. CASE b < first
      BY <1>6, <2>1, <2>2, <2>3 DEF IInv, SelectInv, Settled
    <2>4. CASE ~(b < first)
      <3>1. b \in Current
        BY <1>0, <2>2, <2>4, ZeroBranch DEF Current, StateType, CountType
      <3>2. CASE b \in W
        <4>1. cancel_buf'[b] = "busy" BY <1>6, <3>2
        <4> QED BY <4>1 DEF Settled
      <3>3. CASE b \notin W
        <4>1. cancel_buf[b] # "null" \/ ~(last_received[b] < 200)
          BY <3>1, <3>3 DEF WhichCancel, ShouldCancel
        <4>2. last_received[b] \in 0..699 BY <1>0 DEF BranchType
        <4>3. cancel_buf[b] # "null" \/ last_received[b] >= 200
          BY ZenonT(60), <4>1, <4>2, FinalCode
        <4> QED BY ZenonT(60), <1>6, <2>1, <4>3 DEF Settled
      <3> QED BY <3>2, <3>3
    <2> QED BY <2>3, <2>4
  <1> HIDE DEF W
  <1>9. Calm(a, "cancel_invite", {})
    BY ZenonT(60), <1>2, <1>5, <1>6, <1>8 DEF Calm, uvars, fvars
  <1>10. LockStep(a, "cancel_invite", {}) BY <1>2 DEF LockStep, LockNames
  <1>11. NoForward(a, "cancel_invite", {}) BY <1>2 DEF NoForward, Heard, uvars
  <1> QED BY <1>7, <1>9, <1>10, <1>11, CalmInv

\* The cancelling of a branch that timed out.
LEMMA TimedOutInv ==
  ASSUME IInv, CancelTimedOut \/ MarkTimedOutBusy
  PROVE  IInv'
  <1> DEFINE name == IF CancelTimedOut THEN "cancel_timed_out" ELSE "mark_busy"
             op == DoOn("mark_busy", Call(Timer).b)
  <1>0. StateType /\ TodoType /\ CancelType /\ Timer \in Actors
    BY InvTypes DEF Actors
  <1>1. name \in {"cancel_timed_out", "mark_busy"} /\ Calls(Timer, name)
    BY DEF CancelTimedOut, MarkTimedOutBusy
  <1>2. UNCHANGED <<nr, first, request, fr, last_received, stored, to_cancel, cancels,
                    uvars, fvars, wvars, reply_lock, msgs, rang>>
    BY DEF CancelTimedOut, MarkTimedOutBusy
  <1>3. Call(Timer).b \in Branches BY ZenonT(60), <1>0, <1>1, NextCall
  <1>4. PICK B : MarkBusy(B) BY DEF CancelTimedOut, MarkTimedOutBusy
  <1>5. CancelUacs({Call(Timer).b}) \in Seq(PlainOps)
    BY <1>3, CancelUacsCalls
  <1>6. op \in GoodOps /\ op.name = "mark_busy"
    <2>1. "mark_busy" \in CallNames /\ 0 \in 0..699 /\ {} \in SUBSET Branches
      BY DEF CallNames
    <2>2. op \in GoodOps BY ZenonT(60), <1>3, <2>1, OpGood DEF DoOn
    <2>3. op.name = "mark_busy" BY DEF DoOn, Op
    <2> QED BY <2>2, <2>3
  <1>7. \E S \in {{}, {op}} : Makes(Timer, name, S)
    <2>1. \/ Done(Timer, <<>>) \/ Done(Timer, <<op>>)
          \/ Done(Timer, CancelUacs({Call(Timer).b}))
      BY DEF CancelTimedOut, MarkTimedOutBusy
    <2> HIDE DEF name, op
    <2> QED BY <1>0, <1>1, <1>5, <1>6, <2>1, MakesNothing, MakesPlain, MakesOne
  <1> HIDE DEF name, op
  <1>8. PICK S \in {{}, {op}} : Makes(Timer, name, S) BY <1>7
  <1>9. \A x \in S : x.name = "mark_busy" BY <1>6
  <1>10. /\ CancelType'
         /\ \A b \in Branches : cancel_buf[b] # "null" => cancel_buf'[b] # "null"
    BY ZenonT(60), <1>0, <1>2, <1>4, Marked
  <1>11. StateType'
    <2>1. CountType' /\ BranchType' /\ ReplyType' /\ FlagType'
      BY ZenonT(60), <1>2, SameType
    <2> QED BY <1>10, <2>1 DEF StateType
  <1>12. Calm(Timer, name, S) BY ZenonT(60), <1>1, <1>2, <1>8, <1>9, <1>10 DEF Calm, uvars, fvars
  <1>13. LockStep(Timer, name, S) BY <1>1, <1>2, <1>9 DEF LockStep, LockNames
  <1>14. NoForward(Timer, name, S)
    BY <1>1, <1>2, <1>9 DEF NoForward, Heard, uvars, ForwardNames, BranchNames
  <1> QED BY <1>0, <1>11, <1>12, <1>13, <1>14, CalmInv

\* LOCK_REPLIES and fake_reply.
LEMMA FakeReplyInv ==
  ASSUME IInv, FakeReply
  PROVE  IInv'
  <1> DEFINE op == Op("relay_reply", Call(Timer).b, 408, TRUE, FALSE, {})
  <1>0. TodoType /\ Timer \in Actors BY InvTypes DEF Actors
  <1>1. /\ Calls(Timer, "fake_reply") /\ Done(Timer, <<op>>)
        /\ reply_lock = None /\ reply_lock' = Timer
    BY DEF FakeReply
  <1>2. UNCHANGED <<nr, first, bvars, uvars, fvars, wvars, msgs>> BY DEF FakeReply
  <1>3. Call(Timer).b \in Branches BY ZenonT(60), <1>0, <1>1, NextCall
  <1>4. op \in GoodOps /\ op.name = "relay_reply" /\ op.b = Call(Timer).b
    <2>1. /\ "relay_reply" \in CallNames /\ {} \in SUBSET Branches
          /\ "relay_reply" \notin {"cancel_uacs", "send_requests"}
          /\ "relay_reply" # "on_failure" /\ "relay_reply" # "t_reply"
          /\ FALSE \in BOOLEAN /\ TRUE \in BOOLEAN /\ 408 \in 0..699
      BY DEF CallNames
    <2>2. op \in GoodOps BY ZenonT(60), <1>3, <2>1, OpGood
    <2>3. op.name = "relay_reply" /\ op.b = Call(Timer).b BY DEF Op
    <2> QED BY ZenonT(60), <2>2, <2>3
  <1> HIDE DEF op
  <1>5. request[op.b] = "sent" BY ZenonT(60), <1>0, <1>1, <1>4, CallSent DEF BranchNames, IInv
  <1>6. Makes(Timer, "fake_reply", {op}) BY ZenonT(60), <1>0, <1>1, <1>4, MakesOne
  <1>7. StateType'
    <2>1. BranchType' /\ CancelType' /\ ReplyType' /\ FlagType'
      BY ZenonT(60), <1>2, SameType DEF bvars
    <2>2. CountType' BY <1>0, <1>1, <1>2, InvTypes DEF CountType
    <2> QED BY <2>1, <2>2 DEF StateType
  <1>8. Calm(Timer, "fake_reply", {op}) BY ZenonT(60), <1>2, <1>4, <1>6 DEF Calm, bvars, uvars, fvars
  <1>9. LockStep(Timer, "fake_reply", {op}) BY <1>1 DEF LockStep, LockNames
  <1>10. NoForward(Timer, "fake_reply", {op})
    BY <1>2, <1>4, <1>5 DEF NoForward, Heard, bvars, uvars, ForwardNames
  <1> QED BY <1>0, <1>7, <1>8, <1>9, <1>10, CalmInv

\* LOCK_REPLIES and the start of process_reply_and_timer.
LEMMA ProcessReplyInv ==
  ASSUME IInv, NEW a \in Actors, ProcessReply(a)
  PROVE  IInv'
  <1> DEFINE b == Call(a).b
             code == Call(a).code
             pending == to_cancel[b] \/ (was_cancelled /\ cancel_buf[b] = "null")
             op == Op("relay_reply", b, code, FALSE, Call(a).restart, {})
  <1>0. TodoType /\ BranchType /\ CancelType BY InvTypes
  <1>1. /\ Calls(a, "process_reply_and_timer") /\ Done(a, <<op>>)
        /\ reply_lock = None /\ reply_lock' = a
    BY ZenonT(60) DEF ProcessReply
  <1>2. UNCHANGED <<nr, first, request, fr, last_received, stored, uvars, fvars, wvars, msgs>>
    BY ZenonT(60) DEF ProcessReply
  <1>3. b \in Branches /\ code \in 0..699 /\ Call(a).restart \in BOOLEAN
    <2> HIDE DEF op, pending
    <2> QED BY ZenonT(60), <1>0, <1>1, NextCall
  <1>4. op \in GoodOps /\ op.name = "relay_reply" /\ op.b = b
    <2>1. /\ "relay_reply" \in CallNames /\ {} \in SUBSET Branches
          /\ "relay_reply" \notin {"cancel_uacs", "send_requests"}
          /\ "relay_reply" # "on_failure" /\ "relay_reply" # "t_reply"
          /\ FALSE \in BOOLEAN
      BY DEF CallNames
    <2>2. op \in GoodOps
      <3> DEFINE restart == Call(a).restart
      <3>1. restart \in BOOLEAN BY <1>3
      <3> HIDE DEF b, code, restart
      <3>2. Op("relay_reply", b, code, FALSE, restart, {}) \in GoodOps
        BY ZenonT(60), <1>3, <2>1, <3>1, OpGood
      <3> QED BY ZenonT(60), <3>2 DEF restart
    <2>3. op.name = "relay_reply" /\ op.b = b BY DEF Op
    <2> QED BY ZenonT(60), <2>2, <2>3
  <1>5. request[b] = "sent" BY ZenonT(60), <1>0, <1>1, CallSent DEF BranchNames, IInv
  <1>6. /\ IF pending /\ code < 200 THEN CancelBranch(b) ELSE UNCHANGED <<cancel_buf, cancels>>
        /\ to_cancel' = [to_cancel EXCEPT ![b] = @ /\ ~pending]
        /\ rang' = [rang EXCEPT ![b] = @ \/ code < 200]
    BY ZenonT(60) DEF ProcessReply
  <1>7. was_cancelled /\ cancel_buf[b] = "null" => pending BY ZenonT(60)
  <1>8. pending \in BOOLEAN BY ZenonT(60), <1>0, <1>3, InvTypes DEF CancelType, FlagType
  <1> HIDE DEF b, code, pending, op
  <1>9. /\ cancel_buf' \in [Branches -> {"null", "busy", "built"}]
        /\ \A c \in Branches : cancel_buf[c] # "null" => cancel_buf'[c] # "null"
    BY <1>0, <1>3, <1>6 DEF CancelBranch, CancelType
  <1>10. cancels' \in [Branches -> Nat]
    <2>1. cancels \in [Branches -> Nat] BY <1>0 DEF CancelType
    <2>2. cancels' = cancels \/ cancels' = [cancels EXCEPT ![b] = cancels[b] + 1]
      BY <1>6 DEF CancelBranch
    <2> QED BY <1>3, <2>1, <2>2
  <1>11. to_cancel' \in [Branches -> BOOLEAN]
    <2> DEFINE val == to_cancel[b] /\ ~pending
    <2>1. to_cancel' = [to_cancel EXCEPT ![b] = val] BY <1>6
    <2>2. val \in BOOLEAN BY <1>0, <1>3, <1>8 DEF CancelType
    <2> HIDE DEF val
    <2> QED BY <1>0, <1>3, <2>1, <2>2 DEF CancelType
  <1>12. rang' \in [Branches -> BOOLEAN] BY <1>0, <1>3, <1>6 DEF BranchType
  <1>13. ASSUME NEW c \in Branches, rang'[c]
         PROVE  rang[c] \/ ~was_cancelled \/ cancel_buf'[c] # "null"
    <2>1. CASE c # b BY <1>0, <1>3, <1>6, <1>13, <2>1 DEF BranchType
    <2>2. CASE c = b /\ ~(code < 200)
      BY <1>0, <1>3, <1>6, <1>13, <2>2 DEF BranchType
    <2>3. CASE c = b /\ code < 200 /\ pending
      <3>1. cancel_buf'[b] = "built"
        BY <1>0, <1>3, <1>6, <2>3 DEF CancelBranch, CancelType
      <3> QED BY <2>3, <3>1
    <2>4. CASE c = b /\ code < 200 /\ ~pending
      <3>1. cancel_buf' = cancel_buf BY <1>6, <2>4
      <3> QED BY <1>7, <2>4, <3>1
    <2> QED BY <1>8, <2>1, <2>2, <2>3, <2>4
  <1>14. Makes(a, "process_reply_and_timer", {op}) BY <1>1, <1>4, MakesOne
  <1>15. StateType'
    <2>1. BranchType' BY <1>0, <1>2, <1>12 DEF BranchType
    <2>2. ReplyType' /\ FlagType'
      BY ZenonT(60), <1>2, SameType
    <2>3. CountType' BY <1>1, <1>2, InvTypes DEF CountType
    <2> QED BY <1>9, <1>10, <1>11, <2>1, <2>2, <2>3 DEF StateType, CancelType
  <1>16. Calm(a, "process_reply_and_timer", {op})
    BY ZenonT(60), <1>2, <1>4, <1>9, <1>13, <1>14 DEF Calm, uvars, fvars
  <1>17. LockStep(a, "process_reply_and_timer", {op}) BY <1>1 DEF LockStep, LockNames
  <1>18. NoForward(a, "process_reply_and_timer", {op})
    <2>1. \A c \in Branches : rang'[c] => rang[c] \/ c = b
      BY <1>0, <1>3, <1>6 DEF BranchType
    <2> QED BY <1>2, <1>4, <1>5, <2>1 DEF NoForward, Heard, uvars, ForwardNames
  <1> QED BY <1>15, <1>16, <1>17, <1>18, CalmInv

\* Events: an ACK, a reply from downstream, the FR timer of a branch.
LEMMA MakesEvent ==
  ASSUME NEW a \in Actors, todo[a] = <<>>, NEW S, NEW more \in Seq(GoodOps),
         todo' = [todo EXCEPT ![a] = more], CallsOf(more) \subseteq PlainOps \cup S,
         \A op \in CallsOf(more) : op.name \notin LockNames \cup {"send_requests"}
  PROVE  Makes(a, "event", S)
  <1>1. AtMostOne(more, LockNames) /\ AtMostOne(more, {"send_requests"}) BY OneFew
  <1> QED BY ZenonT(60), <1>1 DEF Makes

\* The arrival of an ACK.
LEMMA AckInv ==
  ASSUME IInv, NEW a \in Actors, Ack(a)
  PROVE  IInv'
  <1> DEFINE x == Do("cleanup_uac_timers")
             y == Do("put_on_wait")
  <1>1. todo[a] = <<>> /\ todo' = [todo EXCEPT ![a] = <<x, y>>] BY DEF Ack
  <1>2. UNCHANGED <<nr, first, bvars, uvars, fvars, on_wait, reply_lock>> BY DEF Ack
  <1>3. /\ msgs' = msgs - 1 /\ msgs > 0
        /\ rpl_retr' = IF rpl_retr = "armed" THEN "over" ELSE rpl_retr
    BY DEF Ack
  <1>4. <<x>> \in Seq(PlainOps) /\ <<y>> \in Seq(PlainOps)
    BY DoPlain DEF PlainNames
  <1>5. x \in PlainOps /\ y \in PlainOps
    <2>1. x \in CallsOf(<<x>>) /\ y \in CallsOf(<<y>>) BY CallsFew
    <2> QED BY <1>4, <2>1, CallsIn
  <1> HIDE DEF x, y
  <1>6. <<x, y>> \in Seq(GoodOps) BY <1>5 DEF PlainOps
  <1>7. CallsOf(<<x, y>>) \subseteq PlainOps BY <1>5, CallsFew
  <1>8. \A op \in PlainOps : op.name \notin LockNames \cup {"send_requests"}
    BY DEF PlainOps, PlainNames, LockNames
  <1>9. Makes(a, "event", {}) BY ZenonT(60), <1>1, <1>6, <1>7, <1>8, MakesEvent
  <1>10. StateType'
    <2>1. BranchType' /\ CancelType' /\ ReplyType'
      BY ZenonT(60), <1>2, SameType DEF bvars
    <2>2. FlagType' BY <1>2, <1>3, InvTypes DEF FlagType, fvars
    <2>3. CountType' BY <1>2, <1>3, InvTypes DEF CountType
    <2> QED BY <2>1, <2>2, <2>3 DEF StateType
  <1>11. Calm(a, "event", {}) BY ZenonT(60), <1>2, <1>9 DEF Calm, bvars, uvars, fvars
  <1>12. LockStep(a, "event", {}) BY <1>2 DEF LockStep, LockNames
  <1>13. NoForward(a, "event", {}) BY <1>2 DEF NoForward, Heard, bvars, uvars
  <1> QED BY <1>10, <1>11, <1>12, <1>13, CalmInv

\* reply_received, before it takes the reply lock.
LEMMA ReplyReceivedInv ==
  ASSUME IInv, NEW a \in Actors, NEW b \in Branches, NEW code \in Codes,
         ReplyReceived(a, b, code)
  PROVE  IInv'
  <1> DEFINE seen == last_received[b]
             restart == code < 200 /\ seen < code /\ (code >= 180 \/ seen = 0)
             op == Op("process_reply_and_timer", b, code, FALSE, restart, {})
  <1>1. todo[a] = <<>> /\ todo' = [todo EXCEPT ![a] = <<op>>] BY DEF ReplyReceived
  <1>2. UNCHANGED <<nr, first, request, last_received, stored, cancel_buf, to_cancel,
                    cancels, uvars, fvars, wvars, reply_lock, rang>>
    BY DEF ReplyReceived
  <1>3. /\ msgs' = msgs - 1 /\ msgs > 0 /\ request[b] = "sent"
        /\ fr' = [fr EXCEPT ![b] = IF @ = "armed" /\ code >= 200 THEN "reset" ELSE @]
    BY DEF ReplyReceived
  <1>4. restart \in BOOLEAN /\ code \in 0..699 BY ConstantsType
  <1> HIDE DEF restart
  <1>5. op \in GoodOps /\ op.name = "process_reply_and_timer" /\ op.b = b
    <2>1. /\ "process_reply_and_timer" \in CallNames /\ {} \in SUBSET Branches
          /\ "process_reply_and_timer" \notin {"cancel_uacs", "send_requests"}
          /\ "process_reply_and_timer" # "on_failure"
          /\ "process_reply_and_timer" # "t_reply" /\ FALSE \in BOOLEAN
      BY DEF CallNames
    <2>2. op \in GoodOps BY ZenonT(60), <1>4, <2>1, OpGood
    <2>3. op.name = "process_reply_and_timer" /\ op.b = b BY ZenonT(60) DEF Op
    <2> QED BY ZenonT(60), <2>2, <2>3
  <1> HIDE DEF op
  <1>6. <<op>> \in Seq(GoodOps) /\ CallsOf(<<op>>) = {op} BY <1>5, CallsFew
  <1>7. Makes(a, "event", {op}) BY ZenonT(60), <1>1, <1>5, <1>6, MakesEvent DEF LockNames
  <1>8. StateType'
    <2>1. BranchType' BY ZenonT(60), <1>2, <1>3, InvTypes DEF BranchType
    <2>2. CancelType' /\ ReplyType' /\ FlagType'
      BY ZenonT(60), <1>2, SameType
    <2>3. CountType' BY <1>2, <1>3, InvTypes DEF CountType
    <2> QED BY <2>1, <2>2, <2>3 DEF StateType
  <1>9. Calm(a, "event", {op}) BY ZenonT(60), <1>2, <1>5, <1>7 DEF Calm, uvars, fvars
  <1>10. LockStep(a, "event", {op}) BY <1>2, <1>5 DEF LockStep, LockNames
  <1>11. NoForward(a, "event", {op})
    <2>1. \A c \in Branches : c # b => fr'[c] = fr[c]
      BY <1>3, InvTypes DEF BranchType
    <2> QED BY <1>2, <1>3, <1>5, <2>1 DEF NoForward, Heard, uvars, ForwardNames
  <1> QED BY <1>8, <1>9, <1>10, <1>11, CalmInv

\* The FR timer of a branch fires.
LEMMA FrFiresInv ==
  ASSUME IInv, NEW b \in Branches, FrFires(b)
  PROVE  IInv'
  <1> DEFINE x == DoOn("cancel_timed_out", b)
             y == DoOn("fake_reply", b)
  <1>0. Timer \in Actors BY DEF Actors
  <1>1. todo[Timer] = <<>> /\ todo' = [todo EXCEPT ![Timer] = <<x, y>>] BY DEF FrFires
  <1>2. UNCHANGED <<nr, first, request, last_received, stored, cancel_buf, to_cancel,
                    cancels, uvars, fvars, wvars, reply_lock, msgs, rang>>
    BY DEF FrFires
  <1>3. fr[b] = "armed" /\ fr' = [fr EXCEPT ![b] = "fired"] BY DEF FrFires
  <1>4. request[b] = "sent" BY <1>3 DEF IInv, ForwardInv
  <1>5. /\ x \in GoodOps /\ x.name = "cancel_timed_out" /\ x.b = b
        /\ y \in GoodOps /\ y.name = "fake_reply" /\ y.b = b
    <2>1. /\ "cancel_timed_out" \in CallNames /\ "fake_reply" \in CallNames
          /\ {} \in SUBSET Branches /\ 0 \in 0..699
          /\ "cancel_timed_out" \notin {"cancel_uacs", "send_requests"}
          /\ "fake_reply" \notin {"cancel_uacs", "send_requests"}
          /\ "cancel_timed_out" # "on_failure" /\ "cancel_timed_out" # "t_reply"
          /\ "fake_reply" # "on_failure" /\ "fake_reply" # "t_reply" /\ FALSE \in BOOLEAN
      BY DEF CallNames
    <2>2. x \in GoodOps BY ZenonT(60), <2>1, OpGood DEF DoOn
    <2>3. y \in GoodOps BY ZenonT(60), <2>1, OpGood DEF DoOn
    <2>4. /\ x.name = "cancel_timed_out" /\ x.b = b /\ y.name = "fake_reply" /\ y.b = b
      BY DEF DoOn, Op
    <2> QED BY <2>2, <2>3, <2>4
  <1> HIDE DEF x, y
  <1>6. <<x, y>> \in Seq(GoodOps) /\ CallsOf(<<x, y>>) = {x, y} BY <1>5, CallsFew
  <1>7. Makes(Timer, "event", {x, y})
    <2>1. \A op \in CallsOf(<<x, y>>) : op.name \notin LockNames \cup {"send_requests"}
      BY <1>5, <1>6 DEF LockNames
    <2> QED BY ZenonT(60), <1>0, <1>1, <1>6, <2>1, MakesEvent
  <1>8. StateType'
    <2>1. BranchType' BY <1>2, <1>3, InvTypes DEF BranchType
    <2>2. CountType' /\ CancelType' /\ ReplyType' /\ FlagType'
      BY ZenonT(60), <1>2, SameType
    <2> QED BY <2>1, <2>2 DEF StateType
  <1>9. Calm(Timer, "event", {x, y}) BY ZenonT(60), <1>2, <1>5, <1>7 DEF Calm, uvars, fvars
  <1>10. LockStep(Timer, "event", {x, y}) BY <1>2, <1>5 DEF LockStep, LockNames
  <1>11. NoForward(Timer, "event", {x, y})
    <2>1. \A c \in Branches : c # b => fr'[c] = fr[c]
      BY <1>3, InvTypes DEF BranchType
    <2> QED BY <1>2, <1>4, <1>5, <2>1 DEF NoForward, Heard, uvars, ForwardNames, BranchNames
  <1> QED BY <1>0, <1>8, <1>9, <1>10, <1>11, CalmInv
----------------------------------------------------------------------------
\* The timer of the reply, and steps that change nothing.
LEMMA QuietInv ==
  ASSUME IInv, ReplyFrFires \/ UNCHANGED vars
  PROVE  IInv'
  <1>1. UNCHANGED <<nr, first, bvars, uvars, fvars, reply_lock, todo, msgs>>
    BY DEF ReplyFrFires, vars
  <1>2. rpl_retr' \in {"never", "armed", "over"} /\ on_wait' \in BOOLEAN
    BY ZenonT(60), InvTypes DEF ReplyFrFires, vars, wvars, FlagType
  <1>3. StateType'
    <2>1. CountType' /\ BranchType' /\ CancelType' /\ ReplyType'
      BY ZenonT(60), <1>1, InvTypes DEF CountType, BranchType, CancelType, ReplyType, bvars, uvars
    <2>2. FlagType' BY <1>1, <1>2, InvTypes DEF FlagType, fvars
    <2> QED BY <2>1, <2>2 DEF StateType
  <1>4. TodoType' /\ \A a \in Actors : Left(a)' = Left(a) /\ todo'[a] = todo[a]
    BY <1>1, InvTypes DEF TodoType, Left
  <1>5. ForwardInv'
    <2>1. UNCHANGED <<nr, request, fr, last_received, rang, status>>
      BY ZenonT(60), <1>1 DEF bvars, uvars
    <2>2. \A a \in Actors : \A op \in Left(a) : ForwardOK(a, op)'
      BY ZenonT(60), <1>4, <2>1 DEF IInv, ForwardInv, ForwardOK
    <2>3. ForwardInv BY ZenonT(60) DEF IInv
    <2>4. \A a \in Actors : (\A op \in Left(a) : ForwardOK(a, op))'
      BY ZenonT(60), <1>4, <2>2
    <2>5. \A a \in Actors : AtMostOne(todo'[a], {"send_requests"})
      BY ZenonT(60), <1>4, <2>3 DEF ForwardInv
    <2>6. ASSUME NEW a \in Actors, NEW c \in Actors, NEW x \in Left(a)', NEW y \in Left(c)',
                 x.name \in ForwardNames, y.name \in ForwardNames
          PROVE  a = c
      <3>1. x \in Left(a) /\ y \in Left(c) BY ZenonT(60), <1>4
      <3> QED BY ZenonT(60), <2>3, <2>6, <3>1 DEF ForwardInv
    <2>7. \A b \in Branches :
            /\ fr'[b] # "never" \/ rang'[b] \/ last_received'[b] # 0 => request'[b] = "sent"
            /\ request'[b] # "null" => b < nr'
      BY ZenonT(60), <2>1, <2>3 DEF ForwardInv
    <2> QED BY ZenonT(60), <2>4, <2>5, <2>6, <2>7 DEF ForwardInv
  <1>6. LockInv' BY <1>1, <1>4 DEF IInv, LockInv
  <1>7. FinalInv' BY <1>1, <1>4 DEF IInv, FinalInv, OneFinal, bvars, uvars
  <1>8. StoreInv' BY <1>1, <1>4 DEF IInv, StoreInv, bvars, uvars
  <1>9. PickInv'
    <2>1. Open(last_received)' = Open(last_received)
          /\ Choices(last_received)' = Choices(last_received)
      BY <1>1 DEF Open, Choices, Candidates, Current, bvars
    <2> QED BY ZenonT(60), <1>1, <1>4, <2>1 DEF IInv, PickInv, Best, bvars, fvars
  <1>10. SelectInv' BY <1>1, <1>4 DEF IInv, SelectInv, Settled, bvars, uvars, fvars
  <1> QED BY <1>3, <1>4, <1>5, <1>6, <1>7, <1>8, <1>9, <1>10 DEF IInv, GoodType

----------------------------------------------------------------------------
(***************************************************************************)
(* relay_reply.                                                            *)
(***************************************************************************)
\* A sequence with one more element.
LEMMA AppendLast ==
  ASSUME NEW S, NEW s \in Seq(S), NEW x \in S
  PROVE  /\ Append(s, x) \in Seq(S) /\ Len(Append(s, x)) = Len(s) + 1
         /\ Len(s) \in Nat /\ Append(s, x)[Len(s) + 1] = x
         /\ \A i \in 1..Len(s) : Append(s, x)[i] = s[i]
  OBVIOUS

\* What is known of the replies sent upstream.
ReplyOK == ReplyType /\ OneFinal /\ (status < 200 => upstream = <<>>)

\* The invariant says so.
LEMMA InvReply == ASSUME IInv PROVE ReplyOK
  BY ZenonT(60), InvTypes DEF IInv, FinalInv, ReplyOK

\* Nothing is sent upstream.
LEMMA SentNothing == ASSUME ReplyOK, UNCHANGED uvars PROVE ReplyOK'
  BY DEF ReplyOK, ReplyType, OneFinal, uvars

\* A reply goes upstream if it is the first final one, or a 2xx of an INVITE.
LEMMA SentUpstream ==
  ASSUME ReplyOK, NEW code \in 0..699,
         status < 200 \/ (Invite /\ Is2xx(code)),
         status' = code,
         upstream' = IF code >= 200 THEN Append(upstream, code) ELSE upstream,
         replied_local' \in BOOLEAN
  PROVE  ReplyOK'
  <1>1. upstream \in Seq(200..699) /\ status \in 0..699 BY DEF ReplyOK, ReplyType
  <1>0. OneFinal /\ (status < 200 => upstream = <<>>) BY ZenonT(60) DEF ReplyOK
  <1>2. CASE code < 200
    <2>1. upstream' = upstream /\ status < 200 BY <1>2 DEF Is2xx
    <2> QED BY <1>0, <1>1, <2>1 DEF ReplyOK, ReplyType, OneFinal
  <1>3. CASE code >= 200
    <2>1. upstream' = Append(upstream, code) /\ code \in 200..699 BY <1>3
    <2>2. /\ upstream' \in Seq(200..699) /\ Len(upstream') = Len(upstream) + 1
          /\ Len(upstream) \in Nat /\ upstream'[Len(upstream) + 1] = code
          /\ \A i \in 1..Len(upstream) : upstream'[i] = upstream[i]
      <3> DEFINE S == 200..699
      <3>1. upstream \in Seq(S) /\ code \in S BY <1>1, <2>1
      <3> HIDE DEF S
      <3>2. /\ Append(upstream, code) \in Seq(S)
            /\ Len(Append(upstream, code)) = Len(upstream) + 1
            /\ Len(upstream) \in Nat /\ Append(upstream, code)[Len(upstream) + 1] = code
            /\ \A i \in 1..Len(upstream) : Append(upstream, code)[i] = upstream[i]
        BY <3>1, AppendLast
      <3> QED BY ZenonT(60), <2>1, <3>2 DEF S
    <2>3. ASSUME NEW i \in 2..Len(upstream') PROVE Invite /\ Is2xx(upstream'[i])
      <3>1. CASE i <= Len(upstream)
        <4>1. i \in 2..Len(upstream) /\ upstream'[i] = upstream[i] BY <2>2, <3>1
        <4> QED BY <1>0, <4>1 DEF OneFinal
      <3>2. CASE i > Len(upstream)
        <4>1. i = Len(upstream) + 1 /\ Len(upstream) # 0 BY <2>2, <3>2
        <4>2. upstream # <<>> BY <4>1
        <4>3. Invite /\ Is2xx(code) BY <1>0, <4>2
        <4> QED BY <2>2, <4>1, <4>3
      <3> QED BY <2>2, <3>1, <3>2
    <2>4. OneFinal' BY ZenonT(60), <2>3 DEF OneFinal
    <2>5. ReplyType' BY <2>1, <2>2 DEF ReplyType
    <2>6. ~(status' < 200) BY <1>3
    <2> QED BY ZenonT(60), <2>4, <2>5, <2>6 DEF ReplyOK
  <1> QED BY <1>2, <1>3

\* What relay_reply leaves alone.
Kept == /\ request' = request /\ nr' = nr /\ first' = first /\ rang' = rang
        /\ was_cancelled' = was_cancelled /\ multi_200ok' = multi_200ok
        /\ to_cancel' = to_cancel /\ cancels' = cancels /\ msgs' = msgs
        /\ rpl_retr' = rpl_retr /\ on_wait' = on_wait

\* The reply relay_reply is called with, and what it leaves alone.
LEMMA Relays ==
  ASSUME IInv, NEW a \in Actors, Relaying(a)
  PROVE  /\ Calls(a, "relay_reply") /\ Kept
         /\ Call(a).b \in Branches /\ Call(a).code \in 0..699 /\ Call(a).fake \in BOOLEAN
         /\ request[Call(a).b] = "sent" /\ Call(a).b < nr
  <1>1. Calls(a, "relay_reply") BY DEF Relaying
  <1>2. TodoType BY InvTypes
  <1>3. Call(a).b \in Branches /\ Call(a).code \in 0..699 /\ Call(a).fake \in BOOLEAN
    BY ZenonT(60), <1>1, <1>2, NextCall
  <1>4. request[Call(a).b] = "sent"
    BY <1>1, <1>2, CallSent DEF BranchNames, IInv
  <1>5. Call(a).b < nr BY <1>3, <1>4 DEF IInv, ForwardInv
  <1>6. Kept BY DEF Relaying, wvars, Kept
  <1> QED BY ZenonT(60), <1>1, <1>3, <1>4, <1>5, <1>6

\* No failure handler runs while relay_reply does: both are under the reply lock.
LEMMA RelaysAlone ==
  ASSUME IInv, NEW a \in Actors, Calls(a, "relay_reply")
  PROVE  \A c \in Actors : \A op \in Left(c) : op.name # "on_failure"
  <1> SUFFICES ASSUME NEW c \in Actors, NEW op \in Left(c), op.name = "on_failure"
               PROVE  FALSE
    BY ZenonT(60)
  <1>1. TodoType BY InvTypes
  <1>2. Call(a) \in Left(a) /\ Call(a).name = "relay_reply" BY ZenonT(60), <1>1, NextCall
  <1>3. todo[a] # <<>> /\ todo[a] \in Seq(GoodOps) /\ Call(a) = Head(todo[a])
    BY <1>1 DEF Calls, TodoType, Call
  <1>4. \A d \in Actors : \A x \in Left(d) : x.name \in LockNames => reply_lock = d
    BY ZenonT(60) DEF IInv, LockInv
  <1>5. reply_lock = a /\ reply_lock = c
    <2>1. Call(a).name \in LockNames /\ op.name \in LockNames BY <1>2 DEF LockNames
    <2> QED BY ZenonT(60), <1>2, <1>4, <2>1
  <1>6. AtMostOne(todo[a], LockNames) BY ZenonT(60) DEF IInv, LockInv
  <1>7. Head(todo[a]).name \in LockNames BY <1>2, <1>3 DEF LockNames
  <1>8. \A x \in CallsOf(Tail(todo[a])) : x.name \notin LockNames
    BY ZenonT(60), <1>3, <1>6, <1>7, OneTail
  <1>9. op \in CallsOf(Tail(todo[a]))
    <2>1. op \in Left(a) /\ op # Call(a) BY <1>2, <1>5
    <2> QED BY <1>3, <2>1, CallsTail DEF Left
  <1> QED BY <1>8, <1>9 DEF LockNames

\* Branch b has received code: the other branches, and what is stored, are kept.
ReceivedAt(b, code) ==
    /\ BranchType' /\ last_received'[b] = code
    /\ \A c \in Branches : c # b => last_received'[c] = last_received[c]
    /\ \A c \in Branches : stored[c] => stored'[c]

\* last_received is updated.
LEMMA ReceivedType ==
  ASSUME BranchType, NEW b \in Branches, NEW code \in 0..699, Received(b, code),
         Kept, fr' = fr,
         stored' = stored \/ stored' = [stored EXCEPT ![b] = TRUE]
  PROVE  ReceivedAt(b, code)
  <1>1. last_received' = [last_received EXCEPT ![b] = code] BY DEF Received
  <1>2. /\ last_received' \in [Branches -> 0..699] /\ last_received'[b] = code
        /\ \A c \in Branches : c # b => last_received'[c] = last_received[c]
    BY <1>1 DEF BranchType
  <1>3. /\ stored' \in [Branches -> BOOLEAN]
        /\ \A c \in Branches : stored[c] => stored'[c]
    <2>1. stored \in [Branches -> BOOLEAN] BY DEF BranchType
    <2>2. CASE stored' = stored BY <2>1, <2>2
    <2>3. CASE stored' = [stored EXCEPT ![b] = TRUE] BY <2>1, <2>3
    <2> QED BY <2>2, <2>3
  <1>4. request' = request /\ rang' = rang BY ZenonT(60) DEF Kept
  <1> QED BY <1>2, <1>3, <1>4 DEF BranchType, ReceivedAt

\* What all cases that answer at once have in common: what is called, ...
Answers(a, S) ==
    /\ Makes(a, "relay_reply", S)
    /\ \A op \in S : op.name = "set_timer" /\ op.b = Call(a).b
    /\ reply_lock' = None /\ fr' = fr /\ no_new' = no_new

\* ... what is sent ...
Sends ==
    /\ ReplyOK'
    /\ status < 200 \/ status' >= 200
    /\ \E B : MarkBusy(B)
    /\ Invite /\ status' >= 200 /\ ~multi_200ok =>
         \A c \in Branches : request[c] # "null" => Settled(c)'

\* ... and what is received.
Takes(b) ==
    /\ BranchType'
    /\ \A c \in Branches : c # b => last_received'[c] = last_received[c]
    /\ last_received[b] >= 200 => last_received'[b] >= 200
    /\ last_received'[b] >= 200 /\ status' < 200 /\ first <= b => stored'[b]
    /\ \A c \in Branches : stored[c] => stored'[c]

\* relay_reply sends a reply upstream, or drops it, and unlocks.
LEMMA RelayedInv ==
  ASSUME IInv, NEW a \in Actors, Relaying(a), NEW S, Answers(a, S), Sends,
         NEW b \in Branches, b = Call(a).b, Takes(b)
  PROVE  IInv'
  <1>0. Kept /\ request[b] = "sent" BY ZenonT(60), Relays
  <1>1. /\ request' = request /\ nr' = nr /\ first' = first /\ rang' = rang
        /\ was_cancelled' = was_cancelled /\ multi_200ok' = multi_200ok
    BY ZenonT(60), <1>0 DEF Kept
  <1>2. /\ CancelType'
        /\ \A c \in Branches : cancel_buf[c] # "null" => cancel_buf'[c] # "null"
    <2>1. PICK B : MarkBusy(B) BY ZenonT(60) DEF Sends
    <2>2. to_cancel' = to_cancel /\ cancels' = cancels BY ZenonT(60), <1>0 DEF Kept
    <2>3. CancelType BY InvTypes
    <2> QED BY ONLY ZenonT(60), <2>1, <2>2, <2>3, Marked
  <1>3. \A c \in Branches : Settled(c) => Settled(c)'
    <2>1. ASSUME NEW c \in Branches, last_received[c] >= 200 PROVE last_received'[c] >= 200
      BY ZenonT(60), <2>1 DEF Takes
    <2> QED BY ZenonT(60), <1>2, <2>1 DEF Settled
  <1>4. StateType'
    <2>1. CountType'
      <3>1. CountType /\ reply_lock' = None BY ZenonT(60), InvTypes DEF Answers
      <3>2. msgs' = msgs BY ZenonT(60), <1>0 DEF Kept
      <3> QED BY <1>1, <3>1, <3>2 DEF CountType
    <2>2. FlagType'
      <3>1. FlagType /\ no_new' = no_new BY ZenonT(60), InvTypes DEF Answers
      <3> QED BY ZenonT(60), <1>0, <3>1 DEF FlagType, Kept
    <2>3. BranchType' /\ ReplyType' BY ZenonT(60) DEF Takes, Sends, ReplyOK
    <2> QED BY ZenonT(60), <1>2, <2>1, <2>2, <2>3 DEF StateType
  <1>5. ASSUME NEW c \in Branches, first' <= c, last_received'[c] >= 200, status' < 200
        PROVE  stored'[c]
    <2>1. CASE c = b BY ZenonT(60), <1>1, <1>5, <2>1 DEF Takes
    <2>2. CASE c # b
      <3>1. status \in 0..699 /\ status' \in 0..699
        BY ZenonT(60), InvTypes DEF ReplyType, Sends, ReplyOK
      <3>2. ~(status' >= 200)
        <4>1. status' < 200 BY <1>5
        <4> QED BY ONLY SMTT(10), ZenonT(30), SMTT(60), <3>1, <4>1
      <3>3. first <= c /\ last_received[c] >= 200 /\ status < 200
        BY ZenonT(60), <1>1, <1>5, <2>2, <3>2 DEF Sends, Takes
      <3>4. \A d \in Actors : \A op \in Left(d) : op.name # "on_failure"
        BY ZenonT(60), Relays, RelaysAlone
      <3>5. stored[c] BY ZenonT(60), <3>3, <3>4 DEF IInv, StoreInv
      <3> QED BY ZenonT(60), <3>5 DEF Takes
    <2> QED BY <2>1, <2>2
  <1>6. Answer(a, "relay_reply", S)
    <2>1. \A c \in Branches : request'[c] # "null" => (c < first' => Settled(c)')
      BY ZenonT(60), <1>1, <1>3 DEF IInv, SelectInv
    <2>2. ASSUME NEW op \in S PROVE op.name # "on_failure"
      <3>1. op.name = "set_timer" BY ZenonT(60) DEF Answers
      <3> QED BY ONLY SMTT(10), ZenonT(30), SMTT(60), <3>1
    <2>3. OneFinal' /\ (status' < 200 => upstream' = <<>>)
      BY ZenonT(60) DEF Sends, ReplyOK
    <2>4. \A c \in Branches : request'[c] # "null" =>
            (Invite /\ status' >= 200 /\ ~multi_200ok' => Settled(c)')
      BY ZenonT(60), <1>1 DEF Sends
    <2>5. Makes(a, "relay_reply", S) BY ZenonT(60) DEF Answers
    <2> QED BY ZenonT(60), <1>1, <1>3, <1>5, <2>1, <2>2, <2>3, <2>4, <2>5 DEF Answer
  <1>7. LockStep(a, "relay_reply", S)
    <2>1. \A op \in S : op.name = "set_timer" BY ZenonT(60) DEF Answers
    <2>2. \A op \in S : op.name \notin LockNames
      BY ONLY SMTT(10), ZenonT(30), SMTT(60), <2>1 DEF LockNames
    <2>3. reply_lock' = None BY ZenonT(60) DEF Answers
    <2>4. "relay_reply" \in LockNames BY ONLY ZenonT(60) DEF LockNames
    <2> QED BY ONLY ZenonT(60), <2>2, <2>3, <2>4 DEF LockStep
  <1>8. NoForward(a, "relay_reply", S)
    <2>1. ASSUME NEW c \in Branches, Heard(c)' PROVE Heard(c) \/ request'[c] = "sent"
      <3>1. CASE c = b BY ZenonT(60), <1>0, <1>1, <3>1
      <3>2. CASE c # b
        <4>1. last_received'[c] = last_received[c] BY ZenonT(60), <3>2 DEF Takes
        <4>2. fr' = fr BY ZenonT(60) DEF Answers
        <4> QED BY ZenonT(60), <1>1, <2>1, <4>1, <4>2 DEF Heard
      <3> QED BY <3>1, <3>2
    <2>2. ASSUME NEW op \in S
          PROVE  op.name \notin ForwardNames /\ (op.name \in BranchNames => request[op.b] = "sent")
      <3>1. op.name = "set_timer" /\ op.b = b BY ZenonT(60) DEF Answers
      <3>2. "set_timer" \notin ForwardNames BY ONLY ZenonT(60) DEF ForwardNames
      <3> QED BY ZenonT(60), <1>0, <3>1, <3>2
    <2>3. "relay_reply" \in BranchNames /\ "relay_reply" \notin {"t_forward_nonack", "add_uac"}
      BY ONLY ZenonT(60) DEF BranchNames
    <2> QED BY ZenonT(60), <1>1, <2>1, <2>2, <2>3 DEF NoForward
  <1> QED BY ZenonT(60), <1>4, <1>6, <1>7, <1>8, AnswerInv

\* Nothing is marked.
LEMMA MarkNone ==
  ASSUME CancelType, cancel_buf' = cancel_buf
  PROVE  MarkBusy({})
  BY DEF CancelType, MarkBusy

\* A branch that which_cancel was asked about is over or marked.
LEMMA SelectedSettled ==
  ASSUME IInv, NEW X \in SUBSET Current, MarkBusy(WhichCancel(X)),
         NEW c \in Branches, request[c] # "null", c < first \/ c \in X,
         last_received'[c] = last_received[c]
  PROVE  Settled(c)'
  <1>0. CancelType /\ last_received[c] \in 0..699 BY InvTypes DEF BranchType
  <1>1. cancel_buf'[c] = IF c \in WhichCancel(X) THEN "busy" ELSE cancel_buf[c]
    BY DEF MarkBusy
  <1>2. CASE c \in WhichCancel(X)
    <2>1. cancel_buf'[c] = "busy" BY <1>1, <1>2
    <2> QED BY <2>1 DEF Settled
  <1>3. CASE c \notin WhichCancel(X)
    <2>0. cancel_buf'[c] = cancel_buf[c] BY <1>1, <1>3
    <2>1. CASE c < first
      <3>1. Settled(c) BY <2>1 DEF IInv, SelectInv
      <3> QED BY <2>0, <3>1 DEF Settled
    <2>2. CASE c \in X
      <3>1. cancel_buf[c] # "null" \/ ~(last_received[c] < 200)
        BY <1>3, <2>2 DEF WhichCancel, ShouldCancel
      <3>2. CASE cancel_buf[c] # "null" BY <2>0, <3>2 DEF Settled
      <3>3. CASE ~(last_received[c] < 200)
        <4>1. last_received[c] >= 200 BY ZenonT(60), <1>0, <3>3, FinalCode
        <4> QED BY <4>1 DEF Settled
      <3> QED BY <3>1, <3>2, <3>3
    <2> QED BY <2>1, <2>2
  <1> QED BY <1>2, <1>3

\* A branch with a request is current or earlier.
LEMMA InCurrent ==
  ASSUME IInv, NEW c \in Branches, request[c] # "null"
  PROVE  c < first \/ c \in Current
  <1>1. c < nr BY DEF IInv, ForwardInv
  <1>2. c \in Nat /\ nr \in Nat /\ first \in Nat
    BY ZeroBranch, InvTypes, ConstantsType DEF CountType
  <1> QED BY <1>1, <1>2 DEF Current

\* Every branch may answer a call that was answered already.
LEMMA RelayMultiInv ==
  ASSUME IInv, NEW a \in Actors, RelayMulti2xx(a)
  PROVE  IInv'
  <1> DEFINE b == Call(a).b
             code == Call(a).code
             done == Completed(code, Call(a).fake, {})
  <1>1. /\ Relaying(a) /\ AfterMulti2xx(code) /\ Received(b, code) /\ reply_lock' = None
        /\ fr' = fr /\ stored' = stored /\ cancel_buf' = cancel_buf /\ no_new' = no_new
    BY DEF RelayMulti2xx, Unlock
  <1>2. \/ UNCHANGED uvars /\ Done(a, <<>>)
        \/ /\ Is2xx(code) /\ Relay(code)
           /\ Done(a, <<>>) \/ Done(a, done)
    BY DEF RelayMulti2xx
  <1>3. /\ Calls(a, "relay_reply") /\ Kept /\ b \in Branches /\ code \in 0..699
        /\ Call(a).fake \in BOOLEAN
    BY ZenonT(60), <1>1, Relays
  <1>4. multi_200ok /\ Invite /\ code >= 200 /\ status >= 200
    BY <1>1 DEF AfterMulti2xx, Is2xx
  <1>5. done \in Seq(PlainOps) BY ZenonT(60), <1>3, CompletedCalls
  <1>6. b = Call(a).b OBVIOUS
  <1> HIDE DEF done, b, code
  <1>7. Answers(a, {})
    <2>1. TodoType BY InvTypes
    <2>2. Makes(a, "relay_reply", {})
      <3>1. CASE Done(a, <<>>) BY ZenonT(60), <1>3, <2>1, <3>1, MakesNothing
      <3>2. CASE Done(a, done) BY ZenonT(60), <1>3, <1>5, <2>1, <3>2, MakesPlain
      <3> QED BY ZenonT(60), <1>2, <3>1, <3>2
    <2> QED BY ZenonT(60), <1>1, <2>2 DEF Answers
  <1>8. ReceivedAt(b, code) BY ZenonT(60), <1>1, <1>3, InvTypes, ReceivedType
  <1>9. ReplyOK' /\ status' >= 200
    <2>1. CASE UNCHANGED uvars
      <3>1. ReplyOK' BY ZenonT(60), <2>1, InvReply, SentNothing
      <3> QED BY ZenonT(60), <1>4, <2>1, <3>1 DEF uvars
    <2>2. CASE Is2xx(code) /\ Relay(code)
      <3>1. ReplyOK' BY ZenonT(60), <1>3, <1>4, <2>2, InvReply, SentUpstream DEF Relay
      <3> QED BY ZenonT(60), <1>4, <2>2, <3>1 DEF Relay
    <2> QED BY ZenonT(60), <1>2, <2>1, <2>2
  <1>10. ~(status' < 200)
    <2>1. status' \in 0..699 BY <1>9 DEF ReplyOK, ReplyType
    <2> QED BY ONLY SMTT(10), ZenonT(30), SMTT(60), <1>9, <2>1
  <1>11. Sends
    <2>1. CancelType BY InvTypes
    <2>2. MarkBusy({}) BY ZenonT(60), <1>1, <2>1, MarkNone
    <2> QED BY ZenonT(60), <1>4, <1>9, <2>2 DEF Sends
  <1>12. Takes(b) BY ZenonT(60), <1>4, <1>8, <1>10 DEF Takes, ReceivedAt
  <1> QED BY ZenonT(60), <1>1, <1>3, <1>6, <1>7, <1>11, <1>12, RelayedInv

\* After a final reply, only the 2xx of an INVITE is relayed.
LEMMA RelayAfterFinalInv ==
  ASSUME IInv, NEW a \in Actors, RelayAfterFinal(a)
  PROVE  IInv'
  <1> DEFINE b == Call(a).b
             code == Call(a).code
  <1>1. /\ Relaying(a) /\ status >= 200 /\ Done(a, <<>>) /\ reply_lock' = None
        /\ fr' = fr /\ stored' = stored /\ cancel_buf' = cancel_buf /\ no_new' = no_new
    BY DEF RelayAfterFinal, Unlock
  <1>2. \/ Invite /\ Is2xx(code) /\ Received(b, code) /\ Relay(code)
        \/ UNCHANGED <<last_received, uvars>>
    BY DEF RelayAfterFinal
  <1>3. /\ Calls(a, "relay_reply") /\ Kept /\ b \in Branches /\ code \in 0..699
    BY ZenonT(60), <1>1, Relays
  <1>4. b = Call(a).b OBVIOUS
  <1> HIDE DEF b, code
  <1>5. Answers(a, {})
    <2>1. TodoType BY InvTypes
    <2>2. Makes(a, "relay_reply", {}) BY ZenonT(60), <1>1, <1>3, <2>1, MakesNothing
    <2> QED BY ZenonT(60), <1>1, <2>2 DEF Answers
  <1>6. /\ BranchType'
        /\ \A c \in Branches : c # b => last_received'[c] = last_received[c]
        /\ \A c \in Branches : last_received[c] >= 200 => last_received'[c] >= 200
        /\ \A c \in Branches : stored[c] => stored'[c]
    <2>0. BranchType BY InvTypes
    <2>1. CASE UNCHANGED <<last_received, uvars>>
      <3>1. request' = request /\ rang' = rang BY ZenonT(60), <1>3 DEF Kept
      <3> QED BY ZenonT(60), <1>1, <2>0, <2>1, <3>1 DEF BranchType
    <2>2. CASE Is2xx(code) /\ Received(b, code)
      <3>1. ReceivedAt(b, code) BY ZenonT(60), <1>1, <1>3, <2>0, <2>2, ReceivedType
      <3>2. code >= 200 BY ZenonT(60), <2>2 DEF Is2xx
      <3> QED BY ZenonT(60), <3>1, <3>2 DEF ReceivedAt
    <2> QED BY ZenonT(60), <1>2, <2>1, <2>2
  <1>7. ReplyOK' /\ status' >= 200
    <2>1. CASE UNCHANGED uvars
      <3>1. ReplyOK' BY ZenonT(60), <2>1, InvReply, SentNothing
      <3> QED BY ZenonT(60), <1>1, <2>1, <3>1 DEF uvars
    <2>2. CASE Invite /\ Is2xx(code) /\ Relay(code)
      <3>1. ReplyOK' BY ZenonT(60), <1>3, <2>2, InvReply, SentUpstream DEF Relay
      <3> QED BY ZenonT(60), <2>2, <3>1 DEF Relay, Is2xx
    <2> QED BY ZenonT(60), <1>2, <2>1, <2>2
  <1>8. ~(status' < 200)
    <2>1. status' \in 0..699 BY <1>7 DEF ReplyOK, ReplyType
    <2> QED BY ONLY SMTT(10), ZenonT(30), SMTT(60), <1>7, <2>1
  <1>9. ASSUME Invite, ~multi_200ok, NEW c \in Branches, request[c] # "null"
        PROVE  Settled(c)'
    <2>1. Settled(c) BY ZenonT(60), <1>1, <1>9 DEF IInv, SelectInv
    <2> QED BY ZenonT(60), <1>1, <1>6, <2>1 DEF Settled
  <1>10. Sends
    <2>1. CancelType BY InvTypes
    <2>2. MarkBusy({}) BY ZenonT(60), <1>1, <2>1, MarkNone
    <2> QED BY ZenonT(60), <1>7, <1>9, <2>2 DEF Sends
  <1>11. Takes(b) BY ZenonT(60), <1>3, <1>6, <1>8 DEF Takes
  <1> QED BY ZenonT(60), <1>1, <1>3, <1>4, <1>5, <1>10, <1>11, RelayedInv

\* The first 2xx of a branch.
LEMMA Relay2xxInv ==
  ASSUME IInv, NEW a \in Actors, Relay2xx(a)
  PROVE  IInv'
  <1> DEFINE b == Call(a).b
             code == Call(a).code
             X == IF multi_200ok THEN {} ELSE Current \ {b}
             done == Completed(code, Call(a).fake, WhichCancel(X))
  <1>1. /\ Relaying(a) /\ Is2xx(code) /\ status < 200 /\ Received(b, code) /\ Relay(code)
        /\ reply_lock' = None /\ fr' = fr /\ stored' = stored /\ no_new' = no_new
    BY DEF Relay2xx, Unlock
  <1>2. MarkBusy(WhichCancel(X)) /\ (Done(a, <<>>) \/ Done(a, done))
    <2>1. WhichCancel(X) = IF multi_200ok THEN {} ELSE WhichCancel(Current \ {b})
      BY DEF WhichCancel
    <2> QED BY <2>1 DEF Relay2xx
  <1>3. /\ Calls(a, "relay_reply") /\ Kept /\ b \in Branches /\ code \in 0..699
        /\ Call(a).fake \in BOOLEAN
    BY ZenonT(60), <1>1, Relays
  <1>4. X \in SUBSET Current /\ WhichCancel(X) \in SUBSET Branches
    <2>1. X \in SUBSET Current OBVIOUS
    <2> HIDE DEF X
    <2> QED BY ZenonT(60), <2>1, InvTypes, WhichCancelIn
  <1>5. done \in Seq(PlainOps) BY ZenonT(60), <1>3, <1>4, CompletedCalls
  <1>6. ~multi_200ok => X = Current \ {b} OBVIOUS
  <1>7. code >= 200 BY <1>1 DEF Is2xx
  <1>8. b = Call(a).b OBVIOUS
  <1> HIDE DEF done, b, code, X
  <1>9. Answers(a, {})
    <2>1. TodoType BY InvTypes
    <2>2. Makes(a, "relay_reply", {})
      <3>1. CASE Done(a, <<>>) BY ZenonT(60), <1>3, <2>1, <3>1, MakesNothing
      <3>2. CASE Done(a, done) BY ZenonT(60), <1>3, <1>5, <2>1, <3>2, MakesPlain
      <3> QED BY ZenonT(60), <1>2, <3>1, <3>2
    <2> QED BY ZenonT(60), <1>1, <2>2 DEF Answers
  <1>10. ReceivedAt(b, code) BY ZenonT(60), <1>1, <1>3, InvTypes, ReceivedType
  <1>11. ReplyOK' BY ZenonT(60), <1>1, <1>3, InvReply, SentUpstream DEF Relay
  <1>12. status' >= 200 /\ ~(status' < 200)
    <2>1. status' = code BY ZenonT(60), <1>1 DEF Relay
    <2> QED BY ONLY SMTT(10), ZenonT(30), SMTT(60), <1>3, <1>7, <2>1
  <1>13. ASSUME ~multi_200ok, NEW c \in Branches, request[c] # "null"
         PROVE  Settled(c)'
    <2>1. CASE c = b BY ZenonT(60), <1>7, <1>10, <2>1 DEF Settled, ReceivedAt
    <2>2. CASE c # b
      <3>1. c < first \/ c \in X BY ZenonT(60), <1>6, <1>13, <2>2, InCurrent
      <3>2. last_received'[c] = last_received[c] BY ZenonT(60), <1>10, <2>2 DEF ReceivedAt
      <3> QED BY ZenonT(60), <1>2, <1>4, <1>13, <3>1, <3>2, SelectedSettled
    <2> QED BY ZenonT(60), <2>1, <2>2
  <1>14. Sends BY ZenonT(60), <1>2, <1>11, <1>12, <1>13 DEF Sends
  <1>15. Takes(b) BY ZenonT(60), <1>7, <1>10, <1>12 DEF Takes, ReceivedAt
  <1> QED BY ZenonT(60), <1>1, <1>3, <1>8, <1>9, <1>14, <1>15, RelayedInv

\* A provisional reply.
LEMMA RelayProvisionalInv ==
  ASSUME IInv, NEW a \in Actors, RelayProvisional(a)
  PROVE  IInv'
  <1> DEFINE b == Call(a).b
             code == Call(a).code
             op == DoOn("set_timer", b)
  <1>1. /\ Relaying(a) /\ code < 200 /\ status < 200 /\ ~BranchOver(b, code)
        /\ Received(b, code) /\ (UNCHANGED uvars \/ Relay(code))
        /\ (Done(a, <<op>>) \/ Done(a, <<>>))
        /\ reply_lock' = None /\ fr' = fr /\ stored' = stored /\ no_new' = no_new
        /\ cancel_buf' = cancel_buf
    BY DEF RelayProvisional, Unlock
  <1>3. /\ Calls(a, "relay_reply") /\ Kept /\ b \in Branches /\ code \in 0..699
    BY ZenonT(60), <1>1, Relays
  <1>4. op \in GoodOps /\ op.name = "set_timer" /\ op.b = b
    <2>1. /\ "set_timer" \in CallNames /\ {} \in SUBSET Branches /\ 0 \in 0..699
          /\ "set_timer" \notin {"cancel_uacs", "send_requests"}
          /\ "set_timer" # "on_failure" /\ "set_timer" # "t_reply" /\ FALSE \in BOOLEAN
      BY DEF CallNames
    <2>2. op \in GoodOps
      <3> HIDE DEF b
      <3> QED BY ZenonT(60), <1>3, <2>1, OpGood DEF DoOn
    <2>3. op.name = "set_timer" /\ op.b = b BY DEF DoOn, Op
    <2> QED BY ZenonT(60), <2>2, <2>3
  <1>5. b = Call(a).b OBVIOUS
  <1> HIDE DEF b, code, op
  <1>6. \E S : Answers(a, S)
    <2>1. TodoType BY InvTypes
    <2>2. CASE Done(a, <<op>>)
      <3>1. Makes(a, "relay_reply", {op}) BY ZenonT(60), <1>3, <1>4, <2>1, <2>2, MakesOne
      <3>2. ASSUME NEW x \in {op} PROVE x.name = "set_timer" /\ x.b = Call(a).b
        BY ONLY SMTT(10), ZenonT(30), SMTT(60), <1>4, <1>5, x \in {op}
      <3>3. Answers(a, {op}) BY ZenonT(60), <1>1, <3>1, <3>2 DEF Answers
      <3> QED BY ONLY ZenonT(60), <3>3
    <2>3. CASE Done(a, <<>>)
      <3>1. Makes(a, "relay_reply", {}) BY ZenonT(60), <1>3, <2>1, <2>3, MakesNothing
      <3>2. Answers(a, {}) BY ZenonT(60), <1>1, <3>1 DEF Answers
      <3> QED BY ONLY ZenonT(60), <3>2
    <2> QED BY ZenonT(60), <1>1, <2>2, <2>3
  <1>7. ReceivedAt(b, code) BY ZenonT(60), <1>1, <1>3, InvTypes, ReceivedType
  <1>8. ~(last_received[b] >= 200)
    BY <1>1, <1>3 DEF BranchOver, Is2xx
  <1>9. ~(last_received'[b] >= 200)
    <2>1. last_received'[b] = code BY ZenonT(60), <1>7 DEF ReceivedAt
    <2>2. code < 200 BY ZenonT(60), <1>1
    <2> QED BY ONLY SMTT(10), ZenonT(30), SMTT(60), <1>3, <2>1, <2>2
  <1>10. ReplyOK' /\ ~(status' >= 200)
    <2>1. CASE UNCHANGED uvars
      <3>1. ReplyOK' /\ status' = status BY ZenonT(60), <2>1, InvReply, SentNothing DEF uvars
      <3>2. status \in 0..699 /\ status < 200 BY ZenonT(60), <1>1, InvTypes DEF ReplyType
      <3>3. ~(status >= 200) BY ONLY SMTT(10), ZenonT(30), SMTT(60), <3>2
      <3> QED BY ZenonT(60), <3>1, <3>3
    <2>2. CASE Relay(code)
      <3>1. ReplyOK' BY ZenonT(60), <1>1, <1>3, <2>2, InvReply, SentUpstream DEF Relay
      <3>2. status' = code /\ code < 200 BY ZenonT(60), <1>1, <2>2 DEF Relay
      <3>3. ~(status' >= 200) BY ONLY SMTT(10), ZenonT(30), SMTT(60), <1>3, <3>2
      <3> QED BY ZenonT(60), <3>1, <3>3
    <2> QED BY ZenonT(60), <1>1, <2>1, <2>2
  <1>11. Sends
    <2>1. CancelType BY InvTypes
    <2>2. MarkBusy({}) BY ZenonT(60), <1>1, <2>1, MarkNone
    <2> QED BY ZenonT(60), <1>1, <1>10, <2>2 DEF Sends
  <1>12. Takes(b) BY ZenonT(60), <1>7, <1>8, <1>9 DEF Takes, ReceivedAt
  <1> QED BY ZenonT(60), <1>1, <1>3, <1>5, <1>6, <1>11, <1>12, RelayedInv

=============================================================================
