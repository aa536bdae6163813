--------------------------- MODULE TmReply_relay ---------------------------
(***************************************************************************)
(* The steps of relay_reply that store a negative reply or choose one keep *)
(* the invariant of TmReply_inv.  So do the failure handlers, the replies  *)
(* of the script and the forwarding of the request.                        *)
(***************************************************************************)
EXTENDS TmReply_inv

\* The provers every leaf is given, unless it names its own.
USE SMTT(10), ZenonT(30), SMTT(60)

----------------------------------------------------------------------------
(***************************************************************************)
(* The choice of a negative reply.                                         *)
(***************************************************************************)
\* Priorities are numbers below 1024.
LEMMA PrioBound ==
  ASSUME NEW code \in 0..699, NEW cancelled \in BOOLEAN
  PROVE  BranchPrio(code, cancelled) \in Ranked
  <1>1. CASE code < 300 BY <1>1 DEF BranchPrio, Ranked
  <1>2. CASE code >= 600 BY <1>2 DEF BranchPrio, Ranked
  <1>3. CASE code \in 300..399 BY <1>3 DEF BranchPrio, Ranked
  <1>4. CASE code \in 400..599 BY <1>4 DEF BranchPrio, Ranked
  <1>5. code < 300 \/ code >= 600 \/ code \in 300..399 \/ code \in 400..599 OBVIOUS
  <1> QED BY ZenonT(60), <1>1, <1>2, <1>3, <1>4, <1>5

\* Priorities can be compared.
LEMMA RankedNat == ASSUME NEW n \in Ranked PROVE n \in Nat
  BY DEF Ranked

\* Branch p has the best reply, and no open branch is worth the wait.
BestOf(received, p) ==
    /\ Open(received) \subseteq Minor
    /\ p \in Choices(received)
    /\ \A c \in Choices(received) :
         BranchPrio(received[p], was_cancelled) <= BranchPrio(received[c], was_cancelled)

\* t_pick_branch finds a branch unless it must wait or there is none, and none
\* has a better reply.
LEMMA PickProps ==
  ASSUME StateType, NEW received \in [Branches -> 0..699]
  PROVE  /\ Pick(received) >= 0 => BestOf(received, Pick(received))
         /\ Pick(received) = -1 => Choices(received) = {}
  <1> DEFINE Prio(b) == BranchPrio(received[b], was_cancelled)
             C == Choices(received)
             Wins(b) == \A c \in C : Prio(b) < Prio(c) \/ (Prio(b) = Prio(c) /\ b <= c)
             Ranks == {Prio(b) : b \in C}
  <1>1. C \subseteq Branches
    <2>1. Current \subseteq Branches
      BY ConstantsType DEF Current, Branches, StateType, CountType
    <2> QED BY <2>1 DEF Choices, Candidates
  <1>2. \A b \in C : Prio(b) \in Ranked /\ b \in Ranked
    <2>1. \A b \in C : received[b] \in 0..699 /\ was_cancelled \in BOOLEAN
      BY <1>1 DEF StateType, FlagType
    <2> HIDE DEF C
    <2>2. ASSUME NEW b \in C PROVE BranchPrio(received[b], was_cancelled) \in Ranked
      <3>1. received[b] \in 0..699 /\ was_cancelled \in BOOLEAN BY ZenonT(60), <2>1
      <3> QED BY ZenonT(60), <3>1, PrioBound
    <2>3. \A b \in C : b \in Ranked BY <1>1, ZeroBranch DEF Ranked
    <2> QED BY ZenonT(60), <2>2, <2>3
  <1>3. \A b \in C : Prio(b) \in Nat /\ b \in Nat
    <2> HIDE DEF C, Prio
    <2> QED BY ZenonT(60), <1>2, RankedNat
  <1>4. ASSUME C # {}
        PROVE  \E b \in C : Wins(b)
    <2> HIDE DEF Prio, C
    <2>1. Ranks \in SUBSET Ranked /\ Ranks # {} BY <1>2, <1>4
    <2>2. PICK m \in Ranks : \A n \in Ranks : m <= n BY ZenonT(60), <2>1, HasMin
    <2> DEFINE T == {b \in C : Prio(b) = m}
    <2>3. T \in SUBSET Ranked /\ T # {} BY <1>2, <2>2
    <2>4. PICK b \in T : \A c \in T : b <= c BY ZenonT(60), <2>3, HasMin
    <2>5. ASSUME NEW c \in C
          PROVE  Prio(b) < Prio(c) \/ (Prio(b) = Prio(c) /\ b <= c)
      <3>1. Prio(b) = m /\ m <= Prio(c) BY ZenonT(60), <2>2, <2>4
      <3>2. CASE Prio(c) = m BY ZenonT(60), <2>4, <3>1, <3>2
      <3>3. CASE Prio(c) # m
        <4>1. Prio(b) \in Nat /\ Prio(c) \in Nat BY ZenonT(60), <1>3, <2>4
        <4> QED BY ONLY SMTT(10), ZenonT(30), SMTT(60), <3>1, <3>3, <4>1
      <3> QED BY <3>2, <3>3
    <2> QED BY ZenonT(60), <2>4, <2>5
  <1>5. ASSUME Open(received) \subseteq Minor, C # {}
        PROVE  Pick(received) \in C /\ Wins(Pick(received))
    <2>1. Pick(received) = CHOOSE b \in C : Wins(b) BY <1>5 DEF Pick
    <2> HIDE DEF C, Wins
    <2> QED BY <1>4, <1>5, <2>1
  <1>6. ASSUME ~(Open(received) \subseteq Minor)
        PROVE  Pick(received) = -2
    BY <1>6 DEF Pick
  <1>7. ASSUME Open(received) \subseteq Minor, C = {}
        PROVE  Pick(received) = -1
    BY <1>7 DEF Pick
  <1>8. ASSUME Pick(received) >= 0
        PROVE  BestOf(received, Pick(received))
    <2>1. Open(received) \subseteq Minor
      <3>1. SUFFICES ASSUME ~(Open(received) \subseteq Minor) PROVE FALSE OBVIOUS
      <3>2. Pick(received) = -2 BY ZenonT(60), <1>6, <3>1
      <3> QED BY ONLY SMTT(10), ZenonT(30), SMTT(60), <1>8, <3>2
    <2>2. C # {}
      <3>1. SUFFICES ASSUME C = {} PROVE FALSE OBVIOUS
      <3>2. Pick(received) = -1 BY ZenonT(60), <1>7, <2>1, <3>1
      <3> QED BY ONLY SMTT(10), ZenonT(30), SMTT(60), <1>8, <3>2
    <2>3. Pick(received) \in C /\ Wins(Pick(received)) BY ZenonT(60), <1>5, <2>1, <2>2
    <2>4. ASSUME NEW c \in C PROVE Prio(Pick(received)) <= Prio(c)
      <3>1. Prio(Pick(received)) \in Nat /\ Prio(c) \in Nat
        <4> HIDE DEF C, Prio
        <4> QED BY ZenonT(60), <1>3, <2>3
      <3>2. Prio(Pick(received)) < Prio(c) \/ Prio(Pick(received)) = Prio(c)
        BY ZenonT(60), <2>3
      <3> HIDE DEF Prio
      <3> QED BY ONLY SMTT(10), ZenonT(30), SMTT(60), <3>1, <3>2
    <2> QED BY ZenonT(60), <2>1, <2>3, <2>4 DEF BestOf
  <1>9. ASSUME Pick(received) = -1 PROVE C = {}
    <2>1. CASE Open(received) \subseteq Minor /\ C # {}
      <3>1. Pick(received) \in C BY ZenonT(60), <1>5, <2>1
      <3>2. Pick(received) \in Nat
        <4> HIDE DEF C, Prio
        <4> QED BY ZenonT(60), <1>3, <3>1
      <3> QED BY ONLY SMTT(10), ZenonT(30), SMTT(60), <1>9, <3>2
    <2>2. CASE ~(Open(received) \subseteq Minor)
      <3>1. Pick(received) = -2 BY ZenonT(60), <1>6, <2>2
      <3> QED BY ONLY SMTT(10), ZenonT(30), SMTT(60), <1>9, <3>1
    <2> QED BY <2>1, <2>2
  <1> QED BY ZenonT(60), <1>8, <1>9

\* One other call amid plain ones.
LEMMA MakesAmid ==
  ASSUME TodoType, NEW a \in Actors, NEW name, name # "event", Calls(a, name),
         NEW s \in Seq(PlainOps), NEW op \in GoodOps, NEW r \in Seq(PlainOps),
         Done(a, s \o <<op>> \o r)
  PROVE  Makes(a, name, {op}) /\ op \in Left(a)'
  <1> DEFINE o == <<op>>
             t == s \o o
             all == t \o r
  <1>1. /\ s \in Seq(GoodOps) /\ r \in Seq(GoodOps)
        /\ \A x \in CallsOf(s) \cup CallsOf(r) : x \in PlainOps /\ x.name \in PlainNames
    BY ZenonT(60), PlainGood
  <1>2. o \in Seq(GoodOps) /\ CallsOf(o) = {op} BY CallsFew
  <1>3. Done(a, all) OBVIOUS
  <1>4. \A N : AtMostOne(o, N) BY OneFew
  <1> HIDE DEF o
  <1>5. t \in Seq(GoodOps) /\ CallsOf(t) = CallsOf(s) \cup {op}
    BY <1>1, <1>2, CallsCat
  <1>6. ASSUME NEW N, \A n \in PlainNames : n \notin N
        PROVE  AtMostOne(all, N)
    <2>1. \A x \in CallsOf(s) \cup CallsOf(r) : x.name \notin N BY <1>1, <1>6
    <2>2. AtMostOne(s, N) /\ AtMostOne(r, N) BY <2>1, OneFew
    <2>3. \A x \in CallsOf(s), y \in CallsOf(o) : ~(x.name \in N /\ y.name \in N)
      BY <2>1
    <2>4. AtMostOne(t, N) BY ZenonT(60), <1>1, <1>2, <1>4, <2>2, <2>3, OneCat
    <2>5. \A x \in CallsOf(t), y \in CallsOf(r) : ~(x.name \in N /\ y.name \in N)
      BY <2>1
    <2> HIDE DEF t
    <2> QED BY ZenonT(60), <1>1, <1>5, <2>2, <2>4, <2>5, OneCat
  <1> HIDE DEF t
  <1>7. all \in Seq(GoodOps) /\ CallsOf(all) = CallsOf(s) \cup {op} \cup CallsOf(r)
    BY <1>1, <1>5, CallsCat
  <1> HIDE DEF all
  <1>8. Makes(a, name, {op})
    <2>1. CallsOf(all) \subseteq PlainOps \cup {op} BY <1>1, <1>7
    <2>2. \A n \in PlainNames : n \notin LockNames /\ n \notin {"send_requests"}
      BY DEF PlainNames, LockNames
    <2>3. AtMostOne(all, LockNames) /\ AtMostOne(all, {"send_requests"}) BY <1>6, <2>2
    <2> QED BY <1>3, <1>7, <2>1, <2>3 DEF Makes
  <1>9. op \in Left(a)'
    <2>1. todo[a] # <<>> BY DEF Calls
    <2>2. Left(a)' = CallsOf(all) \cup CallsOf(Tail(todo[a]))
      BY ZenonT(60), <1>3, <1>7, <2>1, DoneCalls
    <2> QED BY <1>7, <2>2
  <1> QED BY <1>8, <1>9

\* Plain calls, then one other call.
LEMMA MakesLast ==
  ASSUME TodoType, NEW a \in Actors, NEW name, name # "event", Calls(a, name),
         NEW s \in Seq(PlainOps), NEW op \in GoodOps, Done(a, s \o <<op>>)
  PROVE  Makes(a, name, {op}) /\ op \in Left(a)'
  <1> DEFINE t == s \o <<op>>
  <1>1. s \in Seq(GoodOps) /\ <<op>> \in Seq(GoodOps) BY PlainGood
  <1>2. t \in Seq(GoodOps)
    <2> DEFINE o == <<op>>
    <2>1. o \in Seq(GoodOps) BY <1>1
    <2> HIDE DEF o
    <2>2. s \o o \in Seq(GoodOps) BY <1>1, <2>1, CallsCat
    <2> QED BY <2>2 DEF o
  <1>3. Done(a, t) OBVIOUS
  <1> HIDE DEF t
  <1>4. t \o <<>> = t BY <1>2
  <1>5. Done(a, t \o <<>>) /\ <<>> \in Seq(PlainOps) BY <1>3, <1>4
  <1> QED BY ZenonT(60), <1>5, MakesAmid DEF t

\* What the cases that leave the reply to the failure handlers have in common.
Decides(a, b, op) ==
    /\ Makes(a, "relay_reply", {op}) /\ op \in Left(a)'
    /\ op.name = "on_failure" /\ op.b = b
    /\ last_received'[op.code] >= 200 /\ (op.code # b => stored[op.code])
    /\ (Block6xx /\ last_received'[op.code] >= 600) \/ Best(last_received[op.code])'
    /\ fr' = fr /\ stored' = stored /\ reply_lock' = reply_lock /\ no_new' \in BOOLEAN
    /\ \E B : MarkBusy(B)
    /\ \A c \in Branches : request[c] # "null" => Settled(c)'

\* relay_reply picks a reply and leaves it to the failure handlers.
LEMMA RelayDecidesInv ==
  ASSUME IInv, NEW a \in Actors, Relaying(a), NEW b \in Branches, b = Call(a).b,
         NEW code \in 0..699, code >= 200, ReceivedAt(b, code), status < 200,
         UNCHANGED uvars, NEW op, Decides(a, b, op)
  PROVE  IInv'
  <1>0. Kept /\ request[b] = "sent" BY ZenonT(60), Relays
  <1>1. /\ request' = request /\ nr' = nr /\ first' = first /\ rang' = rang
        /\ was_cancelled' = was_cancelled /\ fr' = fr /\ stored' = stored
    BY ZenonT(60), <1>0 DEF Kept, Decides
  <1>2. /\ CancelType'
        /\ \A c \in Branches : cancel_buf[c] # "null" => cancel_buf'[c] # "null"
    <2>1. PICK B : MarkBusy(B) BY ZenonT(60) DEF Decides
    <2>2. to_cancel' = to_cancel /\ cancels' = cancels BY ZenonT(60), <1>0 DEF Kept
    <2>3. CancelType BY InvTypes
    <2> QED BY ONLY ZenonT(60), <2>1, <2>2, <2>3, Marked
  <1>3. \A c \in Branches : Settled(c) => Settled(c)'
    <2>1. ASSUME NEW c \in Branches, last_received[c] >= 200 PROVE last_received'[c] >= 200
      BY ZenonT(60), <2>1 DEF ReceivedAt
    <2> QED BY ZenonT(60), <1>2, <2>1 DEF Settled
  <1>4. StateType'
    <2>1. CountType'
      <3>1. CountType /\ reply_lock' = reply_lock BY ZenonT(60), InvTypes DEF Decides
      <3> QED BY ZenonT(60), <1>0, <3>1 DEF CountType, Kept
    <2>2. FlagType'
      <3>1. FlagType /\ no_new' \in BOOLEAN BY ZenonT(60), InvTypes DEF Decides
      <3> QED BY ZenonT(60), <1>0, <3>1 DEF FlagType, Kept
    <2>3. ReplyType' BY ZenonT(60), InvTypes DEF ReplyType, uvars
    <2>4. BranchType' BY ZenonT(60) DEF ReceivedAt
    <2> QED BY ZenonT(60), <1>2, <2>1, <2>2, <2>3, <2>4 DEF StateType
  <1>5. Decide(a, op)
    <2>1. UNCHANGED <<status, upstream, stored, first, rang, was_cancelled>>
      BY ZenonT(60), <1>1 DEF uvars
    <2>2. op.b = b /\ \A c \in Branches : c # b => last_received'[c] = last_received[c]
      BY ZenonT(60) DEF ReceivedAt, Decides
    <2>3. \A c \in Branches : c # op.b => last_received'[c] = last_received[c]
      BY ZenonT(60), <2>2
    <2>4. op.code # op.b => stored[op.code] BY ZenonT(60), <2>2 DEF Decides
    <2>5. \A c \in Branches : request'[c] # "null" => Settled(c)'
      BY ZenonT(60), <1>1 DEF Decides
    <2> QED BY ZenonT(60), <1>3, <2>1, <2>3, <2>4, <2>5 DEF Decide, Decides
  <1>6. LockStep(a, "relay_reply", {op})
    <2>1. "relay_reply" \in LockNames BY ONLY ZenonT(60) DEF LockNames
    <2>2. reply_lock' = reply_lock BY ZenonT(60) DEF Decides
    <2> QED BY ONLY ZenonT(60), <2>1, <2>2 DEF LockStep
  <1>7. NoForward(a, "relay_reply", {op})
    <2>1. ASSUME NEW c \in Branches, Heard(c)' PROVE Heard(c) \/ request'[c] = "sent"
      <3>1. CASE c = b BY ZenonT(60), <1>0, <1>1, <3>1
      <3>2. CASE c # b
        <4>1. last_received'[c] = last_received[c] BY ZenonT(60), <3>2 DEF ReceivedAt
        <4> QED BY ZenonT(60), <1>1, <2>1, <4>1 DEF Heard
      <3> QED BY <3>1, <3>2
    <2>2. ASSUME NEW x \in {op}
          PROVE  x.name \notin ForwardNames /\ (x.name \in BranchNames => request[x.b] = "sent")
      <3>1. op.name = "on_failure" /\ op.b = b BY ZenonT(60) DEF Decides
      <3>2. "on_failure" \notin ForwardNames BY ONLY ZenonT(60) DEF ForwardNames
      <3>3. x = op OBVIOUS
      <3> QED BY ZenonT(60), <1>0, <3>1, <3>2, <3>3
    <2>3. "relay_reply" \in BranchNames /\ "relay_reply" \notin {"t_forward_nonack", "add_uac"}
      BY ONLY ZenonT(60) DEF BranchNames
    <2> QED BY ZenonT(60), <1>1, <2>1, <2>2, <2>3 DEF NoForward
  <1> QED BY ZenonT(60), <1>4, <1>5, <1>6, <1>7, DecideInv

\* One branch receives a reply.
LEMMA OneReceived ==
  ASSUME NEW S, NEW f \in [Branches -> S], NEW b \in Branches, NEW code \in S
  PROVE  [f EXCEPT ![b] = code] \in [Branches -> S] /\ [f EXCEPT ![b] = code][b] = code
  OBVIOUS

\* The handlers run on a branch for a picked one.
FailureOp(a, p, bm) == Op("on_failure", Call(a).b, p, Call(a).fake, FALSE, bm)

\* Their call is well formed.
LEMMA FailureGood ==
  ASSUME NEW a, Call(a).b \in Branches, Call(a).fake \in BOOLEAN,
         NEW p \in Branches, NEW bm \in SUBSET Branches
  PROVE  /\ FailureOp(a, p, bm) \in GoodOps /\ FailureOp(a, p, bm).name = "on_failure"
         /\ FailureOp(a, p, bm).b = Call(a).b /\ FailureOp(a, p, bm).code = p
  <1> DEFINE fake == Call(a).fake
             b == Call(a).b
  <1>1. /\ "on_failure" \in CallNames /\ p \in 0..699
        /\ "on_failure" \notin {"cancel_uacs", "send_requests"}
        /\ "on_failure" # "t_reply" /\ FALSE \in BOOLEAN
    BY ZeroBranch DEF CallNames
  <1>2. fake \in BOOLEAN /\ b \in Branches OBVIOUS
  <1>3. FailureOp(a, p, bm) = Op("on_failure", b, p, fake, FALSE, bm)
        /\ b = Call(a).b
    BY ZenonT(60) DEF FailureOp
  <1> HIDE DEF fake, b
  <1>4. Op("on_failure", b, p, fake, FALSE, bm) \in GoodOps
    BY ZenonT(60), <1>1, <1>2, OpGood
  <1> QED BY <1>3, <1>4 DEF Op

\* The other branches are over or marked, once which_cancel was asked about them.
LEMMA OthersSettled ==
  ASSUME IInv, NEW b \in Branches, NEW code, code >= 200, ReceivedAt(b, code),
         MarkBusy(WhichCancel(Current \ {b}))
  PROVE  \A c \in Branches : request[c] # "null" => Settled(c)'
  <1> SUFFICES ASSUME NEW c \in Branches, request[c] # "null" PROVE Settled(c)'
    BY ZenonT(60)
  <1>1. CASE c = b BY ZenonT(60), <1>1 DEF Settled, ReceivedAt
  <1>2. CASE c # b
    <2> DEFINE X == Current \ {b}
    <2>1. c < first \/ c \in X BY <1>2, InCurrent
    <2>2. X \in SUBSET Current /\ MarkBusy(WhichCancel(X)) OBVIOUS
    <2> HIDE DEF X
    <2>3. last_received'[c] = last_received[c] BY ZenonT(60), <1>2 DEF ReceivedAt
    <2> QED BY ZenonT(60), <2>1, <2>2, <2>3, SelectedSettled
  <1> QED BY <1>1, <1>2

\* A 6xx ends the wait.
LEMMA Relay6xxInv ==
  ASSUME IInv, NEW a \in Actors, Relaying(a), NEW b \in Branches, b = Call(a).b,
         NEW code \in 0..699, code >= 600, Block6xx, Received(b, code), status < 200,
         fr' = fr, UNCHANGED uvars, MarkBusy(WhichCancel(Current \ {b})), no_new' = TRUE,
         Done(a, <<FailureOp(a, b, WhichCancel(Current \ {b}))>>),
         UNCHANGED <<stored, reply_lock>>
  PROVE  IInv'
  <1> DEFINE cancel == WhichCancel(Current \ {b})
  <1>0. PICK op : op = FailureOp(a, b, cancel) OBVIOUS
  <1>1. Calls(a, "relay_reply") /\ Kept /\ Call(a).fake \in BOOLEAN BY ZenonT(60), Relays
  <1>2. cancel \in SUBSET Branches
    <2> DEFINE X == Current \ {b}
    <2>1. X \in SUBSET Current OBVIOUS
    <2> HIDE DEF X
    <2>2. WhichCancel(X) \in SUBSET Branches BY ZenonT(60), <2>1, InvTypes, WhichCancelIn
    <2> QED BY ZenonT(60), <2>2 DEF X
  <1>3. stored' = stored /\ reply_lock' = reply_lock /\ Done(a, <<op>>) /\ MarkBusy(cancel)
    BY ZenonT(60), <1>0
  <1>4. BranchType /\ TodoType BY InvTypes
  <1>5. ReceivedAt(b, code) BY ZenonT(60), <1>1, <1>3, <1>4, ReceivedType
  <1>6. code >= 200 BY ONLY SMTT(10), ZenonT(30), SMTT(60), code \in 0..699, code >= 600
  <1>7. \A c \in Branches : request[c] # "null" => Settled(c)'
    BY ZenonT(60), <1>5, <1>6, OthersSettled
  <1> HIDE DEF cancel
  <1>8. op \in GoodOps /\ op.name = "on_failure" /\ op.b = b /\ op.code = b
    BY ZenonT(60), <1>0, <1>1, <1>2, FailureGood
  <1>9. Makes(a, "relay_reply", {op}) BY ZenonT(60), <1>1, <1>3, <1>4, <1>8, MakesOne
  <1>10. op \in Left(a)'
    <2>1. todo[a] # <<>> BY ZenonT(60), <1>1 DEF Calls
    <2>2. <<op>> \in Seq(GoodOps) /\ CallsOf(<<op>>) = {op} BY <1>8, CallsFew
    <2>3. Left(a)' = {op} \cup CallsOf(Tail(todo[a]))
      BY ZenonT(60), <1>3, <1>4, <2>1, <2>2, DoneCalls
    <2> QED BY ZenonT(60), <2>3
  <1>11. last_received'[b] = code BY ZenonT(60), <1>5 DEF ReceivedAt
  <1>12. /\ last_received'[op.code] >= 200 /\ (op.code # b => stored[op.code])
         /\ Block6xx /\ last_received'[op.code] >= 600
    BY ONLY SMTT(10), ZenonT(30), SMTT(60), <1>6, <1>8, <1>11, code >= 600, Block6xx
  <1>13. Decides(a, b, op)
    BY ZenonT(60), <1>3, <1>7, <1>8, <1>9, <1>10, <1>12 DEF Decides
  <1> QED BY ZenonT(60), <1>5, <1>6, <1>13, RelayDecidesInv

\* While branches are open the reply is stored; if there is nothing to pick from,
\* the branch is one of an earlier fork, and its reply is dropped.
LEMMA RelayWaitsInv ==
  ASSUME IInv, NEW a \in Actors, Relaying(a), NEW b \in Branches, b = Call(a).b,
         NEW code \in 0..699, code >= 200, Received(b, code), status < 200,
         fr' = fr, UNCHANGED uvars, Done(a, <<>>), reply_lock' = None,
         UNCHANGED <<cancel_buf, no_new>>,
         Store(b) \/ (UNCHANGED stored /\ b \notin Current)
  PROVE  IInv'
  <1>1. Calls(a, "relay_reply") /\ Kept /\ b < nr BY ZenonT(60), Relays
  <1>2. BranchType /\ TodoType /\ CancelType /\ CountType /\ ReplyType BY InvTypes
  <1>3. stored' = stored \/ stored' = [stored EXCEPT ![b] = TRUE] BY ZenonT(60) DEF Store
  <1>4. ReceivedAt(b, code) BY ZenonT(60), <1>1, <1>2, <1>3, ReceivedType
  <1>5. first <= b => stored'[b]
    <2>1. CASE Store(b) BY <1>2, <2>1 DEF Store, BranchType
    <2>2. CASE b \notin Current
      <3>1. b \in Nat /\ nr \in Nat /\ first \in Nat
        BY <1>2, ZeroBranch, ConstantsType DEF CountType
      <3>2. ~(first <= b) BY ONLY SMTT(10), ZenonT(30), SMTT(60), <1>1, <2>2, <3>1 DEF Current
      <3> QED BY ZenonT(60), <3>2
    <2> QED BY ZenonT(60), <2>1, <2>2
  <1>6. Takes(b) BY ZenonT(60), <1>4, <1>5 DEF Takes, ReceivedAt
  <1>7. ~(status' >= 200)
    <2>1. status' = status BY ZenonT(60) DEF uvars
    <2>2. status \in 0..699 BY ZenonT(60), <1>2 DEF ReplyType
    <2> QED BY ONLY SMTT(10), ZenonT(30), SMTT(60), <2>1, <2>2, status < 200
  <1>8. Sends
    <2>1. ReplyOK' BY ZenonT(60), InvReply, SentNothing
    <2>2. MarkBusy({}) BY ZenonT(60), <1>2, MarkNone
    <2> QED BY ZenonT(60), <1>7, <2>1, <2>2 DEF Sends
  <1>9. Answers(a, {})
    <2>1. Makes(a, "relay_reply", {}) BY ZenonT(60), <1>1, <1>2, MakesNothing
    <2> QED BY ZenonT(60), <2>1 DEF Answers
  <1> QED BY ZenonT(60), <1>6, <1>8, <1>9, RelayedInv

\* Else the best branch is picked, and the open ones are cancelled.
LEMMA RelayPicksInv ==
  ASSUME IInv, NEW a \in Actors, Relaying(a), NEW b \in Branches, b = Call(a).b,
         NEW code \in 0..699, code >= 200, Received(b, code), status < 200,
         fr' = fr, UNCHANGED uvars, UNCHANGED <<stored, no_new, reply_lock>>,
         NEW received \in [Branches -> 0..699], last_received' = received,
         NEW p, BestOf(received, p),
         IF Open(received) = {}
         THEN UNCHANGED cancel_buf /\ Done(a, <<FailureOp(a, p, {})>>)
         ELSE /\ MarkBusy(WhichCancel(Current \ {b}))
              /\ Done(a, << Do("cleanup_uac_timers") >>
                         \o ForEach("cancel_uacs", WhichCancel(Current \ {b}))
                         \o <<FailureOp(a, p, {})>>)
  PROVE  IInv'
  <1> DEFINE cancel == WhichCancel(Current \ {b})
  <1>0. PICK op : op = FailureOp(a, p, {}) OBVIOUS
  <1>1. Calls(a, "relay_reply") /\ Kept /\ Call(a).fake \in BOOLEAN BY ZenonT(60), Relays
  <1>2. BranchType /\ TodoType /\ CancelType /\ CountType BY InvTypes
  <1>3. stored' = stored /\ reply_lock' = reply_lock /\ no_new' = no_new OBVIOUS
  <1>4. ReceivedAt(b, code) BY ZenonT(60), <1>1, <1>2, <1>3, ReceivedType
  <1>5. p \in Current /\ ~(received[p] < 200)
    BY ZenonT(60) DEF BestOf, Choices, Open, Candidates
  <1>6. Current \subseteq Branches BY <1>2, ConstantsType DEF Current, Branches, CountType
  <1>7. p \in Branches BY ZenonT(60), <1>5, <1>6
  <1>8. last_received'[p] \in 0..699 /\ last_received'[p] >= 200
    <2>1. received[p] \in 0..699 BY ZenonT(60), <1>7
    <2>2. received[p] >= 200 BY ZenonT(60), <1>5, <2>1, FinalCode
    <2> QED BY ZenonT(60), <2>1, <2>2
  <1>9. p # b => stored[p]
    <2>1. SUFFICES ASSUME p # b PROVE stored[p] BY ZenonT(60)
    <2>2. last_received[p] >= 200 BY ZenonT(60), <1>4, <1>7, <1>8, <2>1 DEF ReceivedAt
    <2>3. first <= p
      <3>1. first \in Nat /\ nr \in Nat BY <1>2, ConstantsType DEF CountType
      <3> QED BY ONLY SMTT(10), ZenonT(30), SMTT(60), <1>5, <3>1 DEF Current
    <2>4. \A c \in Actors : \A x \in Left(c) : x.name # "on_failure"
      BY ZenonT(60), <1>1, RelaysAlone
    <2> QED BY ZenonT(60), <1>7, <2>2, <2>3, <2>4 DEF IInv, StoreInv
  <1>10. Best(last_received[p])'
    <2>1. /\ Open(last_received)' = Open(received)
          /\ Choices(last_received)' = Choices(received) /\ was_cancelled' = was_cancelled
      <3>1. Candidates' = Candidates /\ was_cancelled' = was_cancelled
        BY <1>1 DEF Candidates, Current, Kept
      <3> QED BY <3>1 DEF Open, Choices
    <2>2. Open(received) \subseteq Minor BY ZenonT(60) DEF BestOf
    <2>3. ASSUME NEW c \in Choices(received), ~was_cancelled'
          PROVE  BranchPrio(last_received'[p], FALSE) <= BranchPrio(last_received'[c], FALSE)
      <3>1. was_cancelled \in BOOLEAN BY ZenonT(60), InvTypes DEF FlagType
      <3>2. was_cancelled = FALSE BY ZenonT(60), <2>1, <2>3, <3>1
      <3>3. BranchPrio(received[p], was_cancelled) <= BranchPrio(received[c], was_cancelled)
        BY ZenonT(60) DEF BestOf
      <3> QED BY ZenonT(60), <3>2, <3>3
    <2> QED BY ZenonT(60), <2>1, <2>2, <2>3 DEF Best
  <1>11. /\ \E B : MarkBusy(B)
         /\ \A c \in Branches : request[c] # "null" => Settled(c)'
    <2>1. CASE Open(received) = {}
      <3>1. cancel_buf' = cancel_buf BY ZenonT(60), <2>1
      <3>2. MarkBusy({}) BY ZenonT(60), <1>2, <3>1, MarkNone
      <3>3. ASSUME NEW c \in Branches, request[c] # "null" PROVE Settled(c)'
        <4>1. CASE c < first
          <5>1. Settled(c) BY ZenonT(60), <3>3, <4>1 DEF IInv, SelectInv
          <5>2. CASE c = b BY ZenonT(60), <1>4, <5>2 DEF Settled, ReceivedAt
          <5>3. CASE c # b
            <6>1. last_received'[c] = last_received[c] BY ZenonT(60), <1>4, <5>3 DEF ReceivedAt
            <6> QED BY ZenonT(60), <3>1, <5>1, <6>1 DEF Settled
          <5> QED BY ZenonT(60), <5>2, <5>3
        <4>2. CASE c \in Current
          <5>1. ~(received[c] < 200) BY ZenonT(60), <2>1, <3>3, <4>2 DEF Open, Candidates
          <5>2. received[c] \in 0..699 BY ZenonT(60)
          <5>3. received[c] >= 200 BY ZenonT(60), <5>1, <5>2, FinalCode
          <5> QED BY ZenonT(60), <5>3 DEF Settled
        <4> QED BY ZenonT(60), <3>3, <4>1, <4>2, InCurrent
      <3> QED BY ZenonT(60), <3>2, <3>3
    <2>2. CASE Open(received) # {}
      <3>1. MarkBusy(cancel) BY ZenonT(60), <2>2
      <3>2. \A c \in Branches : request[c] # "null" => Settled(c)'
        BY ZenonT(60), <1>4, <3>1, OthersSettled
      <3> QED BY ZenonT(60), <3>1, <3>2
    <2> QED BY ZenonT(60), <2>1, <2>2
  <1>12. op \in GoodOps /\ op.name = "on_failure" /\ op.b = b /\ op.code = p
    <2>1. {} \in SUBSET Branches OBVIOUS
    <2> QED BY ZenonT(60), <1>0, <1>1, <1>7, <2>1, FailureGood
  <1>13. PICK more \in Seq(PlainOps) : Done(a, more \o <<op>>)
    <2>1. CASE Open(received) = {}
      <3>1. Done(a, <<op>>) BY ZenonT(60), <1>0, <2>1
      <3>2. <<>> \o <<op>> = <<op>> /\ <<>> \in Seq(PlainOps)
        BY ONLY SMTT(10), ZenonT(30), SMTT(60), TRUE
      <3>3. Done(a, <<>> \o <<op>>) BY ZenonT(60), <3>1, <3>2
      <3> QED BY ONLY ZenonT(60), <3>2, <3>3
    <2>2. CASE Open(received) # {}
      <3> DEFINE s == << Do("cleanup_uac_timers") >>
                 r == ForEach("cancel_uacs", cancel)
                 q == <<op>>
      <3>1. Done(a, s \o r \o q) BY ZenonT(60), <1>0, <2>2
      <3>2. s \in Seq(PlainOps) BY ZenonT(60), DoPlain DEF PlainNames
      <3>3. cancel \in SUBSET Branches
        <4> DEFINE X == Current \ {b}
        <4>1. X \in SUBSET Current OBVIOUS
        <4> HIDE DEF X
        <4>2. WhichCancel(X) \in SUBSET Branches BY ZenonT(60), <4>1, InvTypes, WhichCancelIn
        <4> QED BY ZenonT(60), <4>2 DEF X
      <3> HIDE DEF cancel
      <3>4. r \in Seq(PlainOps) BY ZenonT(60), <3>3, ForEachCalls
      <3> HIDE DEF s, r, q
      <3>5. s \o r \in Seq(PlainOps) BY ZenonT(60), <3>2, <3>4, CallsCat
      <3> QED BY ZenonT(60), <3>1, <3>5 DEF q
    <2> QED BY ZenonT(60), <2>1, <2>2
  <1>14. Makes(a, "relay_reply", {op}) /\ op \in Left(a)'
    BY ZenonT(60), <1>1, <1>2, <1>12, <1>13, MakesLast
  <1>15. /\ last_received'[op.code] >= 200 /\ (op.code # b => stored[op.code])
         /\ Best(last_received[op.code])'
    BY ZenonT(60), <1>8, <1>9, <1>10, <1>12
  <1>16. no_new' \in BOOLEAN BY ZenonT(60), <1>3, InvTypes DEF FlagType
  <1>17. Decides(a, b, op)
    BY ZenonT(60), <1>3, <1>11, <1>12, <1>14, <1>15, <1>16 DEF Decides
  <1> QED BY ZenonT(60), <1>4, <1>17, RelayDecidesInv

\* A negative reply.
LEMMA RelayNegativeInv ==
  ASSUME IInv, NEW a \in Actors, RelayNegative(a)
  PROVE  IInv'
  <1> DEFINE b == Call(a).b
             code == Call(a).code
             received == [last_received EXCEPT ![b] = code]
             p == Pick(received)
             cancel == WhichCancel(Current \ {b})
  <1>1. /\ Relaying(a) /\ code >= 300 /\ status < 200
        /\ Received(b, code) /\ fr' = fr /\ UNCHANGED uvars
    BY DEF RelayNegative, Received
  <1>2. \/ /\ code >= 600 /\ Block6xx
           /\ MarkBusy(cancel) /\ no_new' = TRUE
           /\ Done(a, <<FailureOp(a, b, cancel)>>)
           /\ UNCHANGED <<stored, reply_lock>>
        \/ /\ p = -2 /\ Store(b) /\ Done(a, <<>>) /\ reply_lock' = None
           /\ UNCHANGED <<cancel_buf, no_new>>
        \/ /\ p = -1 /\ Done(a, <<>>) /\ reply_lock' = None
           /\ UNCHANGED <<stored, cancel_buf, no_new>>
        \/ /\ p >= 0
           /\ IF Open(received) = {}
              THEN UNCHANGED cancel_buf /\ Done(a, <<FailureOp(a, p, {})>>)
              ELSE /\ MarkBusy(cancel)
                   /\ Done(a, << Do("cleanup_uac_timers") >>
                              \o ForEach("cancel_uacs", cancel) \o <<FailureOp(a, p, {})>>)
           /\ UNCHANGED <<stored, no_new, reply_lock>>
    BY ZenonT(60) DEF RelayNegative, Unlock, FailureOp
  <1>3. b \in Branches /\ code \in 0..699 BY ZenonT(60), <1>1, Relays
  <1>4. code >= 200 BY <1>1, <1>3
  <1>5. StateType /\ BranchType /\ CountType BY InvTypes
  <1>6. received \in [Branches -> 0..699] /\ received[b] = code
    <2> DEFINE S == 0..699
    <2>1. last_received \in [Branches -> S] /\ code \in S
      BY ZenonT(60), <1>3, <1>5 DEF BranchType
    <2> HIDE DEF S, b, code
    <2>2. received \in [Branches -> S] /\ received[b] = code
      BY ZenonT(60), <1>3, <2>1, OneReceived
    <2> QED BY ZenonT(60), <2>2 DEF S
  <1>7. b = Call(a).b /\ last_received' = received BY ZenonT(60), <1>1 DEF Received
  <1> HIDE DEF b, code, received
  <1>8. /\ p >= 0 => BestOf(received, p)
        /\ p = -1 => Choices(received) = {}
    BY ZenonT(60), <1>5, <1>6, PickProps
  <1>9. Choices(received) = {} => b \notin Current
    <2>1. ~(code < 200) BY ONLY SMTT(10), ZenonT(30), SMTT(60), <1>3, <1>4
    <2>2. request[b] = "sent" BY ZenonT(60), <1>1, <1>7, Relays
    <2>3. request[b] # "null" BY ONLY SMTT(10), ZenonT(30), SMTT(60), <2>2
    <2> QED BY ZenonT(60), <1>6, <2>1, <2>3 DEF Choices, Candidates, Open
  <1> HIDE DEF p
  <1>10. CASE /\ code >= 600 /\ Block6xx
              /\ MarkBusy(cancel) /\ no_new' = TRUE
              /\ Done(a, <<FailureOp(a, b, cancel)>>)
              /\ UNCHANGED <<stored, reply_lock>>
    BY ZenonT(60), <1>1, <1>3, <1>7, <1>10, Relay6xxInv
  <1>11. CASE /\ p = -2 /\ Store(b) /\ Done(a, <<>>) /\ reply_lock' = None
              /\ UNCHANGED <<cancel_buf, no_new>>
    BY ZenonT(60), <1>1, <1>3, <1>4, <1>7, <1>11, RelayWaitsInv
  <1>12. CASE /\ p = -1 /\ Done(a, <<>>) /\ reply_lock' = None
              /\ UNCHANGED <<stored, cancel_buf, no_new>>
    <2>1. UNCHANGED <<cancel_buf, no_new>> /\ UNCHANGED stored BY ZenonT(60), <1>12
    <2> QED BY ZenonT(60), <1>1, <1>3, <1>4, <1>7, <1>8, <1>9, <1>12, <2>1, RelayWaitsInv
  <1>13. CASE /\ p >= 0
              /\ IF Open(received) = {}
                 THEN UNCHANGED cancel_buf /\ Done(a, <<FailureOp(a, p, {})>>)
                 ELSE /\ MarkBusy(cancel)
                      /\ Done(a, << Do("cleanup_uac_timers") >>
                                 \o ForEach("cancel_uacs", cancel) \o <<FailureOp(a, p, {})>>)
              /\ UNCHANGED <<stored, no_new, reply_lock>>
    BY ZenonT(60), <1>1, <1>3, <1>4, <1>6, <1>7, <1>8, <1>13, RelayPicksInv
  <1> QED BY ZenonT(60), <1>2, <1>10, <1>11, <1>12, <1>13

----------------------------------------------------------------------------
(***************************************************************************)
(* The failure handlers, and the replies of the script.                    *)
(***************************************************************************)
\* What the failure handlers find.
LEMMA HandlerFinds ==
  ASSUME IInv, NEW a \in Actors, Calls(a, "on_failure")
  PROVE  /\ Call(a).b \in Branches /\ Call(a).code \in Branches
         /\ Call(a).fake \in BOOLEAN /\ Call(a).bm \in SUBSET Branches
         /\ request[Call(a).b] = "sent" /\ status < 200
         /\ last_received[Call(a).code] \in 200..699
         /\ \A c \in Branches : request[c] # "null" => Settled(c)
         /\ \A c \in Branches : last_received[c] >= 200 => c < nr
  <1>1. TodoType /\ BranchType BY InvTypes
  <1>2. /\ Call(a) \in GoodOps /\ Call(a) \in Left(a) /\ Call(a).name = "on_failure"
        /\ Call(a).b \in Branches /\ Call(a).fake \in BOOLEAN
        /\ Call(a).bm \in SUBSET Branches
    BY <1>1, NextCall
  <1>3. Call(a).code \in Branches BY ZenonT(60), <1>2 DEF GoodOps
  <1>4. request[Call(a).b] = "sent"
    <2>1. "on_failure" \in BranchNames BY ONLY ZenonT(60) DEF BranchNames
    <2> QED BY ZenonT(60), <1>1, <2>1, CallSent DEF IInv
  <1>5. status < 200 /\ last_received[Call(a).code] >= 200
    BY ZenonT(60), <1>2 DEF IInv, FinalInv
  <1>6. last_received[Call(a).code] \in 200..699
    <2>1. PICK p \in Branches : p = Call(a).code BY ZenonT(60), <1>3
    <2>2. last_received[p] \in 0..699 BY ZenonT(60), <1>1 DEF BranchType
    <2>3. last_received[p] >= 200 BY ZenonT(60), <1>5, <2>1
    <2>4. last_received[p] \in 200..699 BY ONLY SMTT(10), ZenonT(30), SMTT(60), <2>2, <2>3
    <2> QED BY ZenonT(60), <2>1, <2>4
  <1>7. \A c \in Branches : request[c] # "null" => Settled(c)
    BY ZenonT(60), <1>2 DEF IInv, SelectInv
  <1>8. ASSUME NEW c \in Branches, last_received[c] >= 200 PROVE c < nr
    <2>1. last_received[c] # 0 BY ONLY SMTT(10), ZenonT(30), SMTT(60), <1>8
    <2>2. request[c] = "sent" BY ZenonT(60), <2>1 DEF IInv, ForwardInv
    <2>3. request[c] # "null" BY ONLY SMTT(10), ZenonT(30), SMTT(60), <2>2
    <2> QED BY ZenonT(60), <2>3 DEF IInv, ForwardInv
  <1> QED BY ZenonT(60), <1>2, <1>3, <1>4, <1>5, <1>6, <1>7, <1>8

\* What the cases that relay the picked reply have in common, whether a branch
\* could not be added or none was.
RelaysPicked(a) ==
    /\ Calls(a, "on_failure")
    /\ Relay(last_received[Call(a).code])
    /\ Done(a, Completed(last_received[Call(a).code], Call(a).fake, Call(a).bm))
    /\ Unlock
    /\ UNCHANGED <<stored, cancel_buf, request, fr, last_received, to_cancel,
                   cancels, rang, fvars, wvars, msgs>>
    /\ \/ UNCHANGED <<nr, first>>
       \/ nr < MaxBranches /\ nr' = nr + 1 /\ first' = nr

\* The failure handlers are over, and relay_reply sends the picked reply.
LEMMA RelayPickedInv ==
  ASSUME IInv, NEW a \in Actors, RelaysPicked(a)
  PROVE  IInv'
  <1> DEFINE code == last_received[Call(a).code]
             done == Completed(code, Call(a).fake, Call(a).bm)
  <1>0. Calls(a, "on_failure") BY ZenonT(60) DEF RelaysPicked
  <1>1. /\ Call(a).fake \in BOOLEAN /\ Call(a).bm \in SUBSET Branches
        /\ code \in 200..699 /\ status < 200
        /\ \A c \in Branches : request[c] # "null" => Settled(c)
    BY ZenonT(60), <1>0, HandlerFinds
  <1>2. code \in 0..699
    <2>1. code \in 200..699 BY ZenonT(60), <1>1
    <2> HIDE DEF code
    <2> QED BY ONLY SMTT(10), ZenonT(30), SMTT(60), <2>1
  <1>3. done \in Seq(PlainOps)
    <2> HIDE DEF code
    <2> QED BY ZenonT(60), <1>1, <1>2, CompletedCalls
  <1>4. Relay(code) /\ Done(a, done) BY ZenonT(60) DEF RelaysPicked
  <1> HIDE DEF code, done
  <1>5. StateType /\ TodoType /\ CountType BY InvTypes
  <1>6. Makes(a, "on_failure", {}) BY ZenonT(60), <1>0, <1>3, <1>4, <1>5, MakesPlain
  <1>7. ReplyOK' BY ZenonT(60), <1>1, <1>2, <1>4, InvReply, SentUpstream DEF Relay
  <1>8. status' >= 200 /\ ~(status' < 200)
    <2>1. status' = code BY ZenonT(60), <1>4 DEF Relay
    <2> QED BY ONLY SMTT(10), ZenonT(30), SMTT(60), <1>1, <2>1
  <1>9. /\ stored' = stored /\ cancel_buf' = cancel_buf /\ request' = request /\ fr' = fr
        /\ last_received' = last_received /\ to_cancel' = to_cancel /\ cancels' = cancels
        /\ rang' = rang /\ reply_lock' = None /\ msgs' = msgs
        /\ was_cancelled' = was_cancelled /\ no_new' = no_new /\ multi_200ok' = multi_200ok
        /\ rpl_retr' = rpl_retr /\ on_wait' = on_wait
    BY ZenonT(60) DEF RelaysPicked, Unlock, fvars, wvars
  <1>10. \/ nr' = nr /\ first' = first
         \/ nr < MaxBranches /\ nr' = nr + 1 /\ first' = nr
    BY ZenonT(60) DEF RelaysPicked
  <1>11. StateType'
    <2>1. CountType'
      <3>1. nr \in 0..MaxBranches /\ first \in 0..MaxBranches /\ first <= nr
            /\ msgs \in Nat
        BY ZenonT(60), <1>5 DEF CountType
      <3>2. MaxBranches \in Nat BY ConstantsType
      <3>3. nr' \in 0..MaxBranches /\ first' \in 0..MaxBranches /\ first' <= nr'
        BY ONLY SMTT(10), ZenonT(30), SMTT(60), <1>10, <3>1, <3>2
      <3>4. None \in Actors \cup {None} BY ZenonT(60)
      <3> QED BY ZenonT(60), <1>9, <3>1, <3>3, <3>4 DEF CountType
    <2>2. BranchType' BY ZenonT(60), <1>5, <1>9 DEF StateType, BranchType
    <2>3. CancelType' BY ZenonT(60), <1>5, <1>9 DEF StateType, CancelType
    <2>4. FlagType' BY ZenonT(60), <1>5, <1>9 DEF StateType, FlagType
    <2>5. ReplyType' BY ZenonT(60), <1>7 DEF ReplyOK
    <2> QED BY ZenonT(60), <2>1, <2>2, <2>3, <2>4, <2>5 DEF StateType
  <1>12. \A c \in Branches : /\ Settled(c) => Settled(c)'
                             /\ request'[c] # "null" => Settled(c)'
    BY ZenonT(60), <1>1, <1>9 DEF Settled
  <1>13. Answer(a, "on_failure", {})
    <2>1. OneFinal' BY ZenonT(60), <1>7 DEF ReplyOK
    <2> QED BY ZenonT(60), <1>6, <1>8, <1>9, <1>12, <2>1 DEF Answer
  <1>14. LockStep(a, "on_failure", {})
    <2>1. "on_failure" \in LockNames BY ONLY ZenonT(60) DEF LockNames
    <2> QED BY ONLY ZenonT(60), <1>9, <2>1 DEF LockStep
  <1>15. NoForward(a, "on_failure", {})
    <2>1. \A c \in Branches : Heard(c)' => Heard(c) BY ZenonT(60), <1>9 DEF Heard
    <2>2. "on_failure" \in BranchNames /\ "on_failure" \notin {"t_forward_nonack", "add_uac"}
      BY ONLY ZenonT(60) DEF BranchNames
    <2>3. \/ request' = request /\ nr' = nr
          \/ nr' = nr + 1 /\ \A c \in Branches : request'[c] = request[c]
      BY ZenonT(60), <1>9, <1>10
    <2> QED BY ZenonT(60), <2>1, <2>2, <2>3 DEF NoForward
  <1> QED BY ZenonT(60), <1>11, <1>13, <1>14, <1>15, AnswerInv

\* A failure handler adds a branch, and its request goes out.
AddsBranch(a, b) ==
    /\ Calls(a, "on_failure")
    /\ nr < MaxBranches /\ nr' = nr + 1 /\ first' = nr
    /\ request' = [request EXCEPT ![nr] = "sent"] /\ fr' = [fr EXCEPT ![nr] = "armed"]
    /\ Store(b) /\ Done(a, <<>>) /\ Unlock
    /\ UNCHANGED <<uvars, cancel_buf, last_received, to_cancel, cancels, rang, fvars,
                   wvars, msgs>>

\* A branch added by a failure route keeps the invariant.
LEMMA BranchAddedInv ==
  ASSUME IInv, NEW a \in Actors, NEW b \in Branches, AddsBranch(a, b)
  PROVE  IInv'
  <1>0. /\ Calls(a, "on_failure") /\ Done(a, <<>>) /\ UNCHANGED uvars
        /\ nr < MaxBranches /\ nr' = nr + 1 /\ first' = nr
    BY ZenonT(60) DEF AddsBranch
  <1>1. /\ status < 200
        /\ \A c \in Branches : request[c] # "null" => Settled(c)
        /\ \A c \in Branches : last_received[c] >= 200 => c < nr
    BY ZenonT(60), <1>0, HandlerFinds
  <1>2. StateType /\ TodoType /\ CountType /\ BranchType /\ ReplyType BY InvTypes
  <1>3. Makes(a, "on_failure", {}) BY ZenonT(60), <1>0, <1>2, MakesNothing
  <1>4. nr \in Branches /\ nr \in Nat /\ MaxBranches \in Nat
    <2>1. MaxBranches \in Nat BY ConstantsType
    <2>2. nr \in 0..MaxBranches BY ZenonT(60), <1>2 DEF CountType
    <2> QED BY ONLY SMTT(10), ZenonT(30), SMTT(60), <1>0, <2>1, <2>2 DEF Branches
  <1>5. ReplyOK' BY ZenonT(60), <1>0, InvReply, SentNothing
  <1>6. ~(status' >= 200)
    <2>1. status' = status /\ status \in 0..699 BY ZenonT(60), <1>0, <1>2 DEF uvars, ReplyType
    <2> QED BY ONLY SMTT(10), ZenonT(30), SMTT(60), <1>1, <2>1
  <1>7. /\ cancel_buf' = cancel_buf /\ last_received' = last_received
        /\ to_cancel' = to_cancel /\ cancels' = cancels /\ rang' = rang
        /\ was_cancelled' = was_cancelled /\ no_new' = no_new /\ multi_200ok' = multi_200ok
        /\ rpl_retr' = rpl_retr /\ on_wait' = on_wait /\ msgs' = msgs /\ reply_lock' = None
    BY ZenonT(60) DEF AddsBranch, Unlock, fvars, wvars
  <1>8. StateType'
    <2>1. CountType'
      <3>1. nr' \in 0..MaxBranches /\ first' \in 0..MaxBranches /\ first' <= nr'
        BY ONLY SMTT(10), ZenonT(30), SMTT(60), <1>0, <1>4
      <3>2. None \in Actors \cup {None} BY ZenonT(60)
      <3> QED BY ZenonT(60), <1>2, <1>7, <3>1, <3>2 DEF CountType
    <2>2. BranchType'
      <3>1. request' \in [Branches -> {"null", "built", "sent"}]
        BY ZenonT(60), <1>2 DEF BranchType, AddsBranch
      <3>2. fr' \in [Branches -> {"never", "armed", "reset", "fired"}]
        BY ZenonT(60), <1>2 DEF BranchType, AddsBranch
      <3>3. stored' \in [Branches -> BOOLEAN] BY <1>2 DEF BranchType, Store, AddsBranch
      <3> QED BY ZenonT(60), <1>2, <1>7, <3>1, <3>2, <3>3 DEF BranchType
    <2>3. CancelType' BY ZenonT(60), <1>2, <1>7 DEF StateType, CancelType
    <2>4. FlagType' BY ZenonT(60), <1>2, <1>7 DEF StateType, FlagType
    <2>5. ReplyType' BY ZenonT(60), <1>5 DEF ReplyOK
    <2> QED BY ZenonT(60), <2>1, <2>2, <2>3, <2>4, <2>5 DEF StateType
  <1>9. ASSUME NEW c \in Branches
        PROVE  /\ request'[c] = request[c] \/ (c = nr /\ request'[c] = "sent")
               /\ fr'[c] = fr[c] \/ request'[c] = "sent"
    <2>1. /\ request' = [request EXCEPT ![nr] = "sent"] /\ DOMAIN request = Branches
          /\ fr' = [fr EXCEPT ![nr] = "armed"] /\ DOMAIN fr = Branches
      BY ZenonT(60), <1>2 DEF BranchType, AddsBranch
    <2> QED BY ONLY SMTT(10), ZenonT(30), SMTT(60), <2>1, c \in Branches
  <1>10. \A c \in Branches : Settled(c) => Settled(c)' BY ZenonT(60), <1>7 DEF Settled
  <1>11. ASSUME NEW c \in Branches, request'[c] # "null", c < first' PROVE Settled(c)'
    <2>0. c \in Nat BY ZeroBranch
    <2>1. c # nr BY ONLY SMTT(10), ZenonT(30), SMTT(60), <1>0, <1>4, <1>11, <2>0
    <2>2. request[c] # "null" BY ZenonT(60), <1>9, <1>11, <2>1
    <2> QED BY ZenonT(60), <1>1, <1>10, <2>2
  <1>12. ASSUME NEW c \in Branches, first' <= c PROVE ~(last_received'[c] >= 200)
    <2>0. c \in Nat BY ZeroBranch
    <2>1. ~(c < nr) BY ONLY SMTT(10), ZenonT(30), SMTT(60), <1>0, <1>4, <1>12, <2>0
    <2> QED BY ZenonT(60), <1>1, <1>7, <2>1
  <1>13. Answer(a, "on_failure", {})
    <2>1. OneFinal' /\ (status' < 200 => upstream' = <<>>) BY ZenonT(60), <1>5 DEF ReplyOK
    <2> QED BY ZenonT(60), <1>3, <1>6, <1>7, <1>10, <1>11, <1>12, <2>1 DEF Answer
  <1>14. LockStep(a, "on_failure", {})
    <2>1. "on_failure" \in LockNames BY ONLY ZenonT(60) DEF LockNames
    <2> QED BY ONLY ZenonT(60), <1>7, <2>1 DEF LockStep
  <1>15. NoForward(a, "on_failure", {})
    <2>1. \A c \in Branches : Heard(c)' => Heard(c) \/ request'[c] = "sent"
      BY ZenonT(60), <1>7, <1>9 DEF Heard
    <2>2. "on_failure" \in BranchNames /\ "on_failure" \notin {"t_forward_nonack", "add_uac"}
      BY ONLY ZenonT(60) DEF BranchNames
    <2> QED BY ZenonT(60), <1>0, <1>9, <2>1, <2>2 DEF NoForward
  <1> QED BY ZenonT(60), <1>8, <1>13, <1>14, <1>15, AnswerInv

\* _reply_light, called by the script in either route.
Replies(a, name, S) ==
    /\ Makes(a, name, S)
    /\ UNCHANGED <<nr, first, request, fr, last_received, stored, to_cancel, cancels,
                   fvars, wvars, reply_lock, msgs, rang>>
    /\ \/ name = "on_failure" /\ \A op \in S : op.name = "UNLOCK_REPLIES"
       \/ name = "t_reply" /\ reply_lock = None /\ S = {}

\* A reply of the script keeps the invariant.
LEMMA ReplyLightInv ==
  ASSUME IInv, NEW a \in Actors, NEW name, NEW S, NEW code \in 200..699,
         Replies(a, name, S), ReplyLight(code), status < 200
  PROVE  IInv'
  <1>1. StateType /\ CancelType BY InvTypes
  <1>2. code \in 0..699 /\ code >= 200 /\ ~(code < 200)
    BY ONLY SMTT(10), ZenonT(30), SMTT(60), code \in 200..699
  <1>3. status' = code BY ZenonT(60) DEF ReplyLight
  <1>4. ReplyOK'
    <2>1. /\ replied_local' \in BOOLEAN
          /\ upstream' = IF code >= 200 THEN Append(upstream, code) ELSE upstream
      BY DEF ReplyLight
    <2> QED BY ZenonT(60), <1>2, <1>3, <2>1, InvReply, SentUpstream
  <1>5. status' >= 200 /\ ~(status' < 200) BY ZenonT(60), <1>2, <1>3
  <1>6. PICK B : MarkBusy(B) /\ (Invite => B = WhichCancel(Current))
    BY <1>2 DEF ReplyLight
  <1>7. /\ nr' = nr /\ first' = first /\ request' = request /\ fr' = fr
        /\ last_received' = last_received /\ stored' = stored /\ to_cancel' = to_cancel
        /\ cancels' = cancels /\ was_cancelled' = was_cancelled /\ no_new' = no_new
        /\ multi_200ok' = multi_200ok /\ rpl_retr' = rpl_retr /\ on_wait' = on_wait
        /\ reply_lock' = reply_lock /\ msgs' = msgs /\ rang' = rang
    BY ZenonT(60) DEF Replies, fvars, wvars
  <1>8. /\ CancelType'
        /\ \A c \in Branches : cancel_buf[c] # "null" => cancel_buf'[c] # "null"
    BY ZenonT(60), <1>1, <1>6, <1>7, Marked
  <1>9. StateType'
    <2>1. CountType' BY ZenonT(60), <1>1, <1>7 DEF StateType, CountType
    <2>2. BranchType' BY ZenonT(60), <1>1, <1>7 DEF StateType, BranchType
    <2>3. FlagType' BY ZenonT(60), <1>1, <1>7 DEF StateType, FlagType
    <2>4. ReplyType' BY ZenonT(60), <1>4 DEF ReplyOK
    <2> QED BY ZenonT(60), <1>8, <2>1, <2>2, <2>3, <2>4 DEF StateType
  <1>10. \A c \in Branches : Settled(c) => Settled(c)' BY ZenonT(60), <1>7, <1>8 DEF Settled
  <1>11. ASSUME NEW c \in Branches, request'[c] # "null" PROVE c < first' => Settled(c)'
    BY ZenonT(60), <1>7, <1>10, <1>11 DEF IInv, SelectInv
  <1>12. ASSUME NEW c \in Branches, request'[c] # "null", Invite PROVE Settled(c)'
    <2>0. request[c] # "null" /\ last_received'[c] = last_received[c] BY ZenonT(60), <1>7, <1>12
    <2>1. Current \in SUBSET Current /\ MarkBusy(WhichCancel(Current)) BY ZenonT(60), <1>6, <1>12
    <2>2. c < first \/ c \in Current BY ZenonT(60), <2>0, InCurrent
    <2> QED BY ZenonT(60), <2>0, <2>1, <2>2, SelectedSettled
  <1>13. /\ name \in {"relay_reply", "on_failure"} \/ (name = "t_reply" /\ reply_lock = None)
         /\ name \in {"on_failure", "t_reply"}
    BY ZenonT(60) DEF Replies
  <1>14. \A op \in S : op.name = "UNLOCK_REPLIES" BY ZenonT(60) DEF Replies
  <1>15. Answer(a, name, S)
    <2>1. \A op \in S : op.name # "on_failure" BY ONLY SMTT(10), ZenonT(30), SMTT(60), <1>14
    <2>2. OneFinal' BY ZenonT(60), <1>4 DEF ReplyOK
    <2>3. Makes(a, name, S) BY ZenonT(60) DEF Replies
    <2> QED BY ZenonT(60), <1>5, <1>7, <1>10, <1>11, <1>12, <1>13, <2>1, <2>2, <2>3 DEF Answer
  <1>16. LockStep(a, name, S)
    <2>1. "on_failure" \in LockNames /\ "t_reply" \notin LockNames BY ONLY ZenonT(60) DEF LockNames
    <2> QED BY ZenonT(60), <1>7, <2>1 DEF LockStep, Replies
  <1>17. NoForward(a, name, S)
    <2>1. \A c \in Branches : Heard(c)' => Heard(c) BY ZenonT(60), <1>7 DEF Heard
    <2>2. \A op \in S : op.name \notin ForwardNames /\ op.name \notin BranchNames
      BY ONLY SMTT(10), ZenonT(30), SMTT(60), <1>14 DEF ForwardNames, BranchNames
    <2>3. name \notin {"t_forward_nonack", "add_uac"} /\ name \in BranchNames \cup {"t_reply"}
      BY ONLY SMTT(10), ZenonT(30), SMTT(60), <1>13 DEF BranchNames
    <2> QED BY ZenonT(60), <1>7, <2>1, <2>2, <2>3 DEF NoForward
  <1> QED BY ZenonT(60), <1>9, <1>15, <1>16, <1>17, AnswerInv

\* A step that only makes calls.
LEMMA SameState ==
  ASSUME StateType, UNCHANGED <<nr, first, bvars, uvars, fvars, wvars, reply_lock, msgs>>
  PROVE  StateType'
  <1>1. CountType' BY ZenonT(60) DEF StateType, CountType
  <1>2. BranchType' BY ZenonT(60) DEF StateType, BranchType, bvars
  <1>3. CancelType' BY ZenonT(60) DEF StateType, CancelType, bvars
  <1>4. ReplyType' BY ZenonT(60) DEF StateType, ReplyType, uvars
  <1>5. FlagType' BY ZenonT(60) DEF StateType, FlagType, fvars, wvars
  <1> QED BY ZenonT(60), <1>1, <1>2, <1>3, <1>4, <1>5 DEF StateType

\* A call without a branch, and a reply of the script.
LEMMA DoGood ==
  ASSUME NEW name \in CallNames,
         name \notin {"cancel_uacs", "send_requests", "on_failure", "t_reply"}
  PROVE  Do(name) \in GoodOps /\ Do(name).name = name
  <1>1. /\ name \notin {"cancel_uacs", "send_requests"} /\ name # "on_failure"
        /\ name # "t_reply" /\ {} \in SUBSET Branches /\ FALSE \in BOOLEAN
        /\ 0 \in Branches /\ 0 \in 0..699
    BY ZeroBranch
  <1>2. Op(name, 0, 0, FALSE, FALSE, {}) \in GoodOps BY ZenonT(60), <1>1, OpGood
  <1> QED BY <1>2 DEF Op, Do

\* A reply of the script is a well-formed call.
LEMMA ReplyGood ==
  ASSUME NEW code \in 200..699
  PROVE  DoCode("t_reply", code) \in GoodOps /\ DoCode("t_reply", code).name = "t_reply"
  <1>1. /\ "t_reply" \notin {"cancel_uacs", "send_requests"} /\ "t_reply" # "on_failure"
        /\ "t_reply" \in CallNames /\ {} \in SUBSET Branches /\ FALSE \in BOOLEAN
        /\ 0 \in Branches /\ code \in 0..699 /\ code >= 200
    BY ZeroBranch DEF CallNames
  <1>2. Op("t_reply", 0, code, FALSE, FALSE, {}) \in GoodOps BY ZenonT(60), <1>1, OpGood
  <1> QED BY <1>2 DEF Op, DoCode

\* The failure handlers do nothing, add a branch, or reply.
LEMMA OnFailureInv ==
  ASSUME IInv, NEW a \in Actors, OnFailure(a)
  PROVE  IInv'
  <1> DEFINE b == Call(a).b
             code == last_received[Call(a).code]
             done == Completed(code, Call(a).fake, Call(a).bm)
             picked == /\ Relay(code) /\ Done(a, done) /\ Unlock
                       /\ UNCHANGED <<stored, cancel_buf>>
             u == Do("UNLOCK_REPLIES")
             r == Completed(0, Call(a).fake, Call(a).bm)
  <1>1. /\ Calls(a, "on_failure")
        /\ UNCHANGED <<last_received, to_cancel, cancels, rang, fvars, wvars, msgs>>
    BY ZenonT(60) DEF OnFailure
  <1>2. /\ b \in Branches /\ Call(a).fake \in BOOLEAN /\ Call(a).bm \in SUBSET Branches
        /\ status < 200
    <2> HIDE DEF code, done
    <2> QED BY ZenonT(60), <1>1, HandlerFinds
  <1>3. \/ picked /\ UNCHANGED <<nr, first, request, fr>>
        \/ /\ nr < MaxBranches /\ nr' = nr + 1 /\ first' = nr
           /\ request' = [request EXCEPT ![nr] = "sent"]
           /\ fr' = [fr EXCEPT ![nr] = "armed"]
           /\ Store(b) /\ Done(a, <<>>) /\ Unlock /\ UNCHANGED <<uvars, cancel_buf>>
        \/ /\ nr < MaxBranches /\ nr' = nr + 1 /\ first' = nr
           /\ picked /\ UNCHANGED <<request, fr>>
        \/ /\ \E c \in ScriptCodes :
                ReplyLight(c) /\ Done(a, AfterReplyLight(c) \o <<u>> \o r)
           /\ UNCHANGED <<nr, first, request, fr, stored, reply_lock>>
    BY ZenonT(60) DEF OnFailure
  <1>4. CASE picked /\ UNCHANGED <<nr, first, request, fr>>
    <2>1. RelaysPicked(a) BY ZenonT(60), <1>1, <1>4 DEF RelaysPicked
    <2> QED BY ZenonT(60), <2>1, RelayPickedInv
  <1>5. CASE /\ nr < MaxBranches /\ nr' = nr + 1 /\ first' = nr
             /\ picked /\ UNCHANGED <<request, fr>>
    <2>1. RelaysPicked(a) BY ZenonT(60), <1>1, <1>5 DEF RelaysPicked
    <2> QED BY ZenonT(60), <2>1, RelayPickedInv
  <1>6. CASE /\ nr < MaxBranches /\ nr' = nr + 1 /\ first' = nr
             /\ request' = [request EXCEPT ![nr] = "sent"]
             /\ fr' = [fr EXCEPT ![nr] = "armed"]
             /\ Store(b) /\ Done(a, <<>>) /\ Unlock /\ UNCHANGED <<uvars, cancel_buf>>
    <2> HIDE DEF b
    <2>1. AddsBranch(a, b) BY ZenonT(60), <1>1, <1>6 DEF AddsBranch
    <2> QED BY ZenonT(60), <1>2, <2>1, BranchAddedInv
  <1>7. CASE /\ \E c \in ScriptCodes :
                  ReplyLight(c) /\ Done(a, AfterReplyLight(c) \o <<u>> \o r)
             /\ UNCHANGED <<nr, first, request, fr, stored, reply_lock>>
    <2>1. PICK c \in ScriptCodes : ReplyLight(c) /\ Done(a, AfterReplyLight(c) \o <<u>> \o r)
      BY ZenonT(60), <1>7
    <2>2. c \in 200..699 /\ c \in Nat BY ConstantsType
    <2> DEFINE s == AfterReplyLight(c)
    <2>3. s \in Seq(PlainOps) BY ZenonT(60), <2>2, InvTypes, AfterReplyCalls
    <2>4. r \in Seq(PlainOps) BY ZenonT(60), <1>2, CompletedCalls
    <2>5. u \in GoodOps /\ u.name = "UNLOCK_REPLIES"
      <3>1. /\ "UNLOCK_REPLIES" \in CallNames
            /\ "UNLOCK_REPLIES" \notin {"cancel_uacs", "send_requests", "on_failure", "t_reply"}
        BY ONLY ZenonT(60) DEF CallNames
      <3> QED BY ZenonT(60), <3>1, DoGood
    <2>6. Done(a, s \o <<u>> \o r) BY ZenonT(60), <2>1
    <2>7. TodoType BY InvTypes
    <2> HIDE DEF s, r, u, code, done, b
    <2>8. Makes(a, "on_failure", {u})
      BY ZenonT(60), <1>1, <2>3, <2>4, <2>5, <2>6, <2>7, MakesAmid
    <2>9. \A op \in {u} : op.name = "UNLOCK_REPLIES"
      BY ONLY SMTT(10), ZenonT(30), SMTT(60), <2>5
    <2>10. UNCHANGED <<nr, first, request, fr, last_received, stored, to_cancel, cancels,
                       fvars, wvars, reply_lock, msgs, rang>>
      BY ZenonT(60), <1>1, <1>7
    <2>11. Replies(a, "on_failure", {u}) BY ZenonT(60), <2>8, <2>9, <2>10 DEF Replies
    <2> QED BY ZenonT(60), <1>2, <2>1, <2>2, <2>11, ReplyLightInv
  <1> QED BY ZenonT(60), <1>3, <1>4, <1>5, <1>6, <1>7

\* t_reply in the request route.
LEMMA ReplyInv ==
  ASSUME IInv, NEW a \in Actors, Reply(a)
  PROVE  IInv'
  <1> DEFINE code == Call(a).code
             x == Do("cleanup_uac_timers")
             y == Do("put_on_wait")
             s == AfterReplyLight(code)
  <1>1. /\ Calls(a, "t_reply") /\ reply_lock = None
        /\ UNCHANGED <<nr, first, request, fr, last_received, stored, to_cancel, cancels,
                       fvars, wvars, reply_lock, msgs, rang>>
    BY ZenonT(60) DEF Reply
  <1>2. \/ status >= 200 /\ Done(a, <<x, y>>) /\ UNCHANGED <<uvars, cancel_buf>>
        \/ status < 200 /\ ReplyLight(code) /\ Done(a, s)
    BY DEF Reply
  <1>3. TodoType /\ StateType BY InvTypes
  <1>4. code \in 200..699
    <2>1. Call(a) \in GoodOps /\ Call(a).name = "t_reply" /\ code \in 0..699
      BY ZenonT(60), <1>1, <1>3, NextCall
    <2>2. code >= 200 BY ZenonT(60), <2>1 DEF GoodOps
    <2> HIDE DEF code
    <2> QED BY ONLY SMTT(10), ZenonT(30), SMTT(60), <2>1, <2>2
  <1>5. CASE status >= 200 /\ Done(a, <<x, y>>) /\ UNCHANGED <<uvars, cancel_buf>>
    <2>1. <<x>> \in Seq(PlainOps) /\ <<y>> \in Seq(PlainOps)
      BY DoPlain DEF PlainNames
    <2>2. x \in PlainOps /\ y \in PlainOps
      <3>1. x \in CallsOf(<<x>>) /\ y \in CallsOf(<<y>>) BY CallsFew
      <3> QED BY ZenonT(60), <2>1, <3>1, CallsIn
    <2> HIDE DEF x, y
    <2>3. <<x, y>> \in Seq(PlainOps) BY ONLY SMTT(10), ZenonT(30), SMTT(60), <2>2
    <2>4. Makes(a, "t_reply", {}) BY ZenonT(60), <1>1, <1>3, <1>5, <2>3, MakesPlain
    <2>5. UNCHANGED <<nr, first, bvars, uvars, fvars, wvars, reply_lock, msgs>>
      BY ZenonT(60), <1>1, <1>5 DEF bvars
    <2>6. StateType' BY ZenonT(60), <1>3, <2>5, SameState
    <2>7. Calm(a, "t_reply", {}) BY ZenonT(60), <2>4, <2>5 DEF Calm, bvars, uvars, fvars
    <2>8. LockStep(a, "t_reply", {})
      <3>1. "t_reply" \notin LockNames BY ONLY ZenonT(60) DEF LockNames
      <3> QED BY ZenonT(60), <2>5, <3>1 DEF LockStep
    <2>9. NoForward(a, "t_reply", {})
      BY ZenonT(60), <2>5 DEF NoForward, Heard, uvars, bvars, ForwardNames
    <2> QED BY ZenonT(60), <2>6, <2>7, <2>8, <2>9, CalmInv
  <1>6. CASE status < 200 /\ ReplyLight(code) /\ Done(a, s)
    <2> HIDE DEF code
    <2>0. code \in Nat BY ONLY SMTT(10), ZenonT(30), SMTT(60), <1>4
    <2>1. s \in Seq(PlainOps) BY ZenonT(60), <2>0, InvTypes, AfterReplyCalls
    <2> HIDE DEF s
    <2>2. Makes(a, "t_reply", {}) BY ZenonT(60), <1>1, <1>3, <1>6, <2>1, MakesPlain
    <2>3. Replies(a, "t_reply", {}) BY ZenonT(60), <1>1, <2>2 DEF Replies
    <2> QED BY ZenonT(60), <1>4, <1>6, <2>3, ReplyLightInv
  <1> QED BY ZenonT(60), <1>2, <1>5, <1>6
----------------------------------------------------------------------------
(***************************************************************************)
(* Forwarding the request.                                                 *)
(***************************************************************************)
\* A step of the process that forwards: other processes only have calls for
\* branches that were sent.
LEMMA ForwardStep ==
  ASSUME TodoType, ForwardInv, NEW a \in Actors, NEW name \in ForwardNames, NEW S,
         Makes(a, name, S), UNCHANGED <<fr, rang, last_received>>,
         \A b \in Branches : /\ request[b] = "sent" => request'[b] = "sent"
                             /\ request'[b] # "null" => b < nr',
         request' = request \/ name = "send_requests" \/ Rest(a) = {},
         \A op \in S : ForwardOK(a, op)',
         name = "send_requests" \/ Rest(a) = {} \/ \A op \in S : op.name # "send_requests"
  PROVE  ForwardInv'
  <1> DEFINE N == {"send_requests"}
  <1>0. name # "event" BY DEF ForwardNames
  <1>1. /\ TodoType'
        /\ \A c \in Actors : c # a => todo'[c] = todo[c] /\ Left(c)' = Left(c)
        /\ Left(a)' \subseteq PlainOps \cup S \cup Rest(a)
        /\ Rest(a) \subseteq Left(a)
        /\ Left(a) = {Call(a)} \cup Rest(a) /\ Call(a).name = name
    BY ZenonT(60), <1>0, MakesCalls
  <1>2. /\ \A c \in Actors : \A op \in Left(c) : ForwardOK(c, op)
        /\ \A c, d \in Actors : \A x \in Left(c), y \in Left(d) :
             x.name \in ForwardNames /\ y.name \in ForwardNames => c = d
        /\ \A c \in Actors : AtMostOne(todo[c], N)
    BY DEF ForwardInv
  <1>3. \A op \in PlainOps : op.name \notin ForwardNames /\ op.name \notin BranchNames
    BY DEF PlainOps, PlainNames, ForwardNames, BranchNames
  <1>4. \A c \in Actors : c # a => \A op \in Left(c) : op.name \notin ForwardNames
    BY <1>1, <1>2
  <1>5. \A c \in Actors : Left(c)' \subseteq GoodOps
    BY <1>1, CallsIn DEF TodoType, Left
  <1>6. /\ AtMostOne(todo'[a], N)
        /\ name \in N => \A op \in Rest(a) : op.name \notin N
    <2>1. AtMostOne(todo[a], N) /\ N \in {LockNames, N} BY <1>2
    <2>2. \/ name \in N
          \/ \A op \in S : op.name \notin N
          \/ \A op \in Rest(a) : op.name \notin N
      OBVIOUS
    <2> QED BY <2>1, <2>2, MakesOnce
  <1>7. ASSUME NEW c \in Actors, NEW op \in GoodOps, op.name \notin ForwardNames,
               op \in Left(c)
        PROVE  ForwardOK(c, op)'
    <2>1. ForwardOK(c, op) /\ op.b \in Branches BY ZenonT(60), <1>2, <1>7 DEF GoodOps
    <2>2. op.name \notin {"t_forward_nonack", "add_uac", "send_requests"}
      BY <1>7 DEF ForwardNames
    <2> QED BY <2>1, <2>2 DEF ForwardOK
  <1>8. ASSUME NEW op \in Rest(a), op \in GoodOps PROVE ForwardOK(a, op)'
    <2>0. ForwardOK(a, op) /\ op.b \in Branches /\ op.bm \in SUBSET Branches
      BY ZenonT(60), <1>1, <1>2, <1>8 DEF GoodOps, OpType
    <2>1. op.name \notin {"t_forward_nonack", "add_uac"}
      <3> SUFFICES ASSUME op.name \in {"t_forward_nonack", "add_uac"} PROVE FALSE
        OBVIOUS
      <3>1. todo[a] = <<op>> BY <2>0 DEF ForwardOK
      <3>2. Rest(a) = {}
        <4>1. Tail(<<op>>) = <<>> /\ <<op>> # <<>> OBVIOUS
        <4> QED BY <3>1, <4>1, CallsFew DEF Rest
      <3> QED BY <3>2
    <2>2. op.name = "send_requests" => request' = request BY <1>6
    <2> QED BY <2>0, <2>1, <2>2 DEF ForwardOK
  <1>9. ASSUME NEW c \in Actors, NEW op \in Left(c)' PROVE ForwardOK(c, op)'
    <2>0. op \in GoodOps BY <1>5
    <2>1. CASE c # a BY <1>1, <1>4, <1>7, <2>0, <2>1
    <2>2. CASE c = a
      <3>1. CASE op \in PlainOps
        <4>1. op.name \notin {"t_forward_nonack", "add_uac", "send_requests"}
              /\ op.name \notin BranchNames
          BY <1>3, <3>1 DEF ForwardNames
        <4> QED BY ZenonT(60), <4>1 DEF ForwardOK
      <3>2. CASE op \in S BY <2>2, <3>2
      <3>3. CASE op \in Rest(a) BY <1>8, <2>0, <2>2, <3>3
      <3> QED BY <1>1, <2>2, <3>1, <3>2, <3>3
    <2> QED BY <2>1, <2>2
  <1>10. ASSUME NEW c \in Actors, NEW op \in Left(c)', op.name \in ForwardNames
         PROVE  c = a
    BY <1>1, <1>4, <1>10
  <1>11. \A c \in Actors : AtMostOne(todo'[c], N) BY ZenonT(60), <1>1, <1>2, <1>6
  <1>12. \A b \in Branches : fr'[b] # "never" \/ rang'[b] \/ last_received'[b] # 0
           => request'[b] = "sent"
    BY DEF ForwardInv
  <1> QED BY ZenonT(60), <1>9, <1>10, <1>11, <1>12 DEF ForwardInv

\* The invariant is kept by a calm step of the process that forwards.
LEMMA ForwardCalmInv ==
  ASSUME IInv, NEW a \in Actors, NEW name \in ForwardNames, NEW S, Calm(a, name, S),
         \A op \in S : op.name \notin LockNames, reply_lock' = reply_lock,
         UNCHANGED <<fr, rang>>,
         \A b \in Branches : request[b] = "sent" => request'[b] = "sent",
         request' = request \/ name = "send_requests" \/ Rest(a) = {},
         \A op \in S : ForwardOK(a, op)',
         name = "send_requests" \/ Rest(a) = {} \/ \A op \in S : op.name # "send_requests",
         StateType'
  PROVE  IInv'
  <1>1. Makes(a, name, S) /\ UNCHANGED last_received BY DEF Calm
  <1>2. GoodType /\ TodoType BY InvTypes
  <1>3. TodoType' BY <1>1, <1>2, MakesCalls
  <1>4. LockStep(a, name, S) BY DEF LockStep, LockNames, ForwardNames
  <1>5. LockInv' BY <1>1, <1>2, <1>4, LockKept DEF IInv
  <1>6. \A b \in Branches : request'[b] # "null" => b < nr'
    BY DEF Calm, IInv, ForwardInv
  <1>7. ForwardInv' BY <1>1, <1>2, <1>6, ForwardStep DEF IInv
  <1>8. FinalInv' /\ StoreInv' /\ PickInv' /\ SelectInv' BY <1>2, CalmKeeps DEF IInv
  <1> QED BY <1>3, <1>5, <1>7, <1>8 DEF IInv, GoodType

\* The calls that a call leads to, neither under the lock nor the sending loop.
LEMMA MakesMore ==
  ASSUME NEW a \in Actors, NEW name, name # "event", Calls(a, name),
         NEW more \in Seq(GoodOps), Done(a, more),
         \A op \in CallsOf(more) : op.name \notin LockNames \cup {"send_requests"}
  PROVE  Makes(a, name, CallsOf(more))
  <1>1. AtMostOne(more, LockNames) /\ AtMostOne(more, {"send_requests"}) BY OneFew
  <1> QED BY <1>1 DEF Makes

\* What the process that forwards finds.
LEMMA ForwardFinds ==
  ASSUME IInv, NEW a \in Actors, NEW name \in {"t_forward_nonack", "add_uac"},
         Calls(a, name)
  PROVE  /\ Rest(a) = {} /\ status < 200 /\ nr < MaxBranches /\ Tail(todo[a]) = <<>>
         /\ \A b \in Branches : request[b] # "sent" /\ (b < nr => request[b] = "built")
  <1>1. Call(a) \in Left(a) /\ Call(a).name = name BY InvTypes, NextCall
  <1>2. ForwardOK(a, Call(a)) BY <1>1 DEF IInv, ForwardInv
  <1>3. todo[a] = <<Call(a)>> /\ status < 200 /\ nr < MaxBranches
        /\ \A b \in Branches : request[b] # "sent" /\ (b < nr => request[b] = "built")
    BY <1>1, <1>2 DEF ForwardOK
  <1>4. Tail(todo[a]) = <<>>
    <2>1. PICK x : x = Call(a) OBVIOUS
    <2>2. todo[a] = <<x>> BY <1>3, <2>1
    <2> QED BY <2>2
  <1>5. Rest(a) = {} BY ZenonT(60), <1>4, CallsFew DEF Rest
  <1> QED BY ZenonT(60), <1>3, <1>4, <1>5

\* t_forward_nonack starts, or kill_transaction replies.
LEMMA ForwardsInv ==
  ASSUME IInv, NEW a \in Actors, Forward(a)
  PROVE  IInv'
  <1> DEFINE name == "t_forward_nonack"
             x == DoCode("t_reply", 487)
             y == DoCode("t_reply", 500)
             z == Do("add_uac")
  <1>1. /\ Calls(a, name) /\ (Done(a, <<x, y>>) \/ Done(a, <<z>>))
        /\ UNCHANGED <<nr, first, bvars, uvars, fvars, wvars, reply_lock, msgs>>
    BY DEF Forward
  <1>2. /\ Rest(a) = {} /\ status < 200 /\ nr < MaxBranches /\ Tail(todo[a]) = <<>>
        /\ \A b \in Branches : request[b] # "sent" /\ (b < nr => request[b] = "built")
    BY <1>1, ForwardFinds
  <1>3. /\ x \in GoodOps /\ x.name = "t_reply" /\ y \in GoodOps /\ y.name = "t_reply"
        /\ z \in GoodOps /\ z.name = "add_uac"
    <2>1. /\ "add_uac" \in CallNames
          /\ "add_uac" \notin {"cancel_uacs", "send_requests", "on_failure", "t_reply"}
      BY ONLY ZenonT(60) DEF CallNames
    <2>0. 487 \in 200..699 /\ 500 \in 200..699 BY ONLY SMTT(10), ZenonT(30), SMTT(60), TRUE
    <2>2. x \in GoodOps /\ x.name = "t_reply" BY ZenonT(60), <2>0, ReplyGood
    <2>3. y \in GoodOps /\ y.name = "t_reply" BY ZenonT(60), <2>0, ReplyGood
    <2>4. z \in GoodOps /\ z.name = "add_uac" BY ZenonT(60), <2>1, DoGood
    <2> QED BY ZenonT(60), <2>2, <2>3, <2>4
  <1> HIDE DEF x, y, z
  <1>4. StateType'
    <2>1. StateType BY InvTypes
    <2> QED BY ZenonT(60), <1>1, <2>1, SameState
  <1>5. name \in ForwardNames /\ name # "event" /\ name # "on_failure"
        /\ name # "cancel_invite"
    BY DEF ForwardNames
  <1>6. PICK S : /\ Makes(a, name, S)
                 /\ \A op \in S : /\ op.name \in {"t_reply", "add_uac"}
                                  /\ op.name = "add_uac" => todo'[a] = <<op>>
    <2>0. todo \in [Actors -> Seq(GoodOps)] BY InvTypes DEF TodoType
    <2>1. CASE Done(a, <<x, y>>)
      <3>1. <<x, y>> \in Seq(GoodOps) /\ CallsOf(<<x, y>>) = {x, y} BY <1>3, CallsFew
      <3>2. \A op \in CallsOf(<<x, y>>) : op.name \notin LockNames \cup {"send_requests"}
        BY <1>3, <3>1 DEF LockNames
      <3>3. Makes(a, name, {x, y}) BY ZenonT(60), <1>1, <1>5, <2>1, <3>1, <3>2, MakesMore
      <3> QED BY <1>3, <3>3
    <2>2. CASE Done(a, <<z>>)
      <3>1. Makes(a, name, {z}) BY <1>1, <1>3, <1>5, <2>2, MakesOne
      <3>2. todo'[a] = <<z>>
        <4>1. todo'[a] = <<z>> \o Tail(todo[a]) BY <2>0, <2>2 DEF Done
        <4>2. <<z>> \o <<>> = <<z>> OBVIOUS
        <4> QED BY ZenonT(60), <1>2, <4>1, <4>2
      <3> QED BY <1>3, <3>1, <3>2
    <2> QED BY ZenonT(60), <1>1, <2>1, <2>2
  <1>7. \A op \in S : op.name \notin LockNames /\ op.name # "send_requests"
                      /\ op.name # "on_failure"
    BY <1>6 DEF LockNames
  <1>8. Calm(a, name, S)
    BY ZenonT(60), <1>1, <1>5, <1>6, <1>7 DEF Calm, bvars, uvars, fvars
  <1>9. ASSUME NEW op \in S PROVE ForwardOK(a, op)'
    <2>1. op.name \in {"t_reply", "add_uac"} /\ (op.name = "add_uac" => todo'[a] = <<op>>)
      BY ZenonT(60), <1>6
    <2>2. op.name \notin BranchNames /\ op.name # "send_requests"
          /\ op.name # "t_forward_nonack"
      BY ONLY SMTT(10), ZenonT(30), SMTT(60), <2>1 DEF BranchNames
    <2>3. UNCHANGED <<status, nr, request>> BY ZenonT(60), <1>1 DEF bvars, uvars
    <2> QED BY ZenonT(60), <1>2, <2>1, <2>2, <2>3 DEF ForwardOK
  <1>10. UNCHANGED <<fr, rang, request, reply_lock>> BY <1>1 DEF bvars
  <1> HIDE DEF name
  <1> QED BY <1>2, <1>4, <1>5, <1>7, <1>8, <1>9, <1>10, ForwardCalmInv

\* A branch is added; the last one is followed by the sending loop.
LEMMA AddUacInv ==
  ASSUME IInv, NEW a \in Actors, AddUac(a)
  PROVE  IInv'
  <1> DEFINE name == "add_uac"
             z == Do("add_uac")
             y == Do("forwarded")
             x == Op("send_requests", 0, 0, FALSE, FALSE, 0 .. nr)
  <1>1. /\ Calls(a, name) /\ nr' = nr + 1 /\ request' = [request EXCEPT ![nr] = "built"]
        /\ UNCHANGED <<first, fr, last_received, stored, cancel_buf, to_cancel, cancels,
                       uvars, fvars, wvars, reply_lock, msgs, rang>>
    BY DEF AddUac
  <1>2. /\ Rest(a) = {} /\ status < 200 /\ nr < MaxBranches /\ Tail(todo[a]) = <<>>
        /\ \A b \in Branches : request[b] # "sent" /\ (b < nr => request[b] = "built")
    BY <1>1, ForwardFinds
  <1>3. TodoType /\ StateType /\ CountType /\ BranchType BY InvTypes
  <1>4. nr \in Branches /\ nr \in Nat /\ MaxBranches \in Nat /\ 0..nr \in SUBSET Branches
        /\ 0..nr # {}
    <2>1. MaxBranches \in Nat BY ConstantsType
    <2>2. nr \in Nat BY <1>3, <2>1 DEF CountType
    <2>3. nr \in 0 .. MaxBranches - 1 /\ 0..nr \in SUBSET (0 .. MaxBranches - 1)
          /\ 0 \in 0..nr
      BY <1>2, <2>1, <2>2
    <2> QED BY <2>1, <2>2, <2>3 DEF Branches
  <1>5. \/ nr' < MaxBranches /\ Done(a, <<z>>)
        \/ Done(a, <<x>> \o <<y>>)
    <2>1. ForEach("send_requests", 0 .. nr) = <<x>> BY ZenonT(60), <1>4 DEF ForEach
    <2>2. \/ nr' < MaxBranches /\ Done(a, <<z>>)
          \/ Done(a, ForEach("send_requests", 0 .. nr) \o <<y>>)
      BY DEF AddUac
    <2> QED BY ZenonT(60), <2>1, <2>2
  <1>6. /\ z \in GoodOps /\ z.name = "add_uac" /\ y \in GoodOps /\ y.name = "forwarded"
        /\ x \in GoodOps /\ x.name = "send_requests" /\ x.bm = 0 .. nr
    <2>1. /\ "add_uac" \in CallNames /\ "forwarded" \in CallNames
          /\ "add_uac" \notin {"cancel_uacs", "send_requests", "on_failure", "t_reply"}
          /\ "forwarded" \notin {"cancel_uacs", "send_requests", "on_failure", "t_reply"}
      BY ONLY ZenonT(60) DEF CallNames
    <2>2. z \in GoodOps /\ z.name = "add_uac" BY ZenonT(60), <2>1, DoGood
    <2>3. y \in GoodOps /\ y.name = "forwarded" BY ZenonT(60), <2>1, DoGood
    <2>4. x \in GoodOps
      <3> DEFINE B == 0 .. nr
      <3>1. B \in SUBSET Branches /\ B # {} BY <1>4
      <3>2. /\ "send_requests" \in CallNames /\ "send_requests" # "on_failure"
            /\ "send_requests" # "t_reply" /\ FALSE \in BOOLEAN /\ 0 \in Branches
            /\ 0 \in 0..699
        BY ZeroBranch DEF CallNames
      <3> HIDE DEF B
      <3>3. Op("send_requests", 0, 0, FALSE, FALSE, B) \in GoodOps
        BY ZenonT(60), <3>1, <3>2, OpGood
      <3> QED BY ZenonT(60), <3>3 DEF B
    <2>5. x.name = "send_requests" /\ x.bm = 0 .. nr BY DEF Op
    <2> QED BY ZenonT(60), <2>2, <2>3, <2>4, <2>5
  <1> HIDE DEF x, y, z
  <1>7. PICK S : /\ Makes(a, name, S)
                 /\ \A op \in S :
                      \/ op = z /\ todo'[a] = <<z>> /\ nr' < MaxBranches
                      \/ op = x \/ op = y
    <2>0. todo \in [Actors -> Seq(GoodOps)] BY <1>3 DEF TodoType
    <2>1. CASE nr' < MaxBranches /\ Done(a, <<z>>)
      <3>1. Makes(a, name, {z}) BY ZenonT(60), <1>1, <1>6, <2>1, MakesOne
      <3>2. todo'[a] = <<z>>
        <4>1. todo'[a] = <<z>> \o Tail(todo[a]) BY <2>0, <2>1 DEF Done
        <4>2. <<z>> \o <<>> = <<z>> OBVIOUS
        <4> QED BY ZenonT(60), <1>2, <4>1, <4>2
      <3> QED BY <2>1, <3>1, <3>2
    <2>2. CASE Done(a, <<x>> \o <<y>>)
      <3> DEFINE s == <<x>>
                 r == <<y>>
      <3>1. /\ s \in Seq(GoodOps) /\ CallsOf(s) = {x}
            /\ r \in Seq(GoodOps) /\ CallsOf(r) = {y}
            /\ \A N : AtMostOne(s, N) /\ AtMostOne(r, N)
        <4>1. s \in Seq(GoodOps) /\ r \in Seq(GoodOps) BY <1>6
        <4>2. CallsOf(s) = {x} /\ CallsOf(r) = {y} BY CallsFew
        <4>3. \A N : AtMostOne(s, N) /\ AtMostOne(r, N) BY OneFew
        <4> QED BY <4>1, <4>2, <4>3
      <3>2. Done(a, s \o r) BY <2>2
      <3> HIDE DEF s, r
      <3>3. s \o r \in Seq(GoodOps) /\ CallsOf(s \o r) = {x, y} BY <3>1, CallsCat
      <3>4. \A N \in {LockNames, {"send_requests"}} : AtMostOne(s \o r, N)
        <4> SUFFICES ASSUME NEW N, N = LockNames \/ N = {"send_requests"}
                     PROVE  AtMostOne(s \o r, N)
          OBVIOUS
        <4>1. y.name \notin N BY <1>6 DEF LockNames
        <4>2. \A p \in CallsOf(s), q \in CallsOf(r) : ~(p.name \in N /\ q.name \in N)
          BY <3>1, <4>1
        <4> QED BY ZenonT(60), <3>1, <4>2, OneCat
      <3>5. Makes(a, name, {x, y})
        BY ZenonT(60), <1>1, <3>2, <3>3, <3>4 DEF Makes
      <3> QED BY <3>5
    <2> QED BY <1>5, <2>1, <2>2
  <1>8. \A op \in S : op.name \in {"add_uac", "send_requests", "forwarded"}
    BY <1>6, <1>7
  <1>9. ASSUME NEW b \in Branches
        PROVE  /\ b # nr => request'[b] = request[b]
               /\ request'[nr] = "built"
               /\ request'[b] # "sent" /\ (b < nr' => request'[b] = "built")
    <2>1. request'[nr] = "built" /\ (b # nr => request'[b] = request[b])
      BY <1>1, <1>3, <1>4 DEF BranchType
    <2>2. b < nr' => b < nr \/ b = nr BY <1>1, <1>4, ZeroBranch
    <2> QED BY <1>2, <2>1, <2>2
  <1>10. ASSUME NEW op \in S PROVE ForwardOK(a, op)'
    <2>1. op.name \notin BranchNames /\ op.name # "t_forward_nonack"
      BY <1>8 DEF BranchNames
    <2>2. status' < 200 BY <1>1, <1>2 DEF uvars
    <2>3. CASE op = z /\ todo'[a] = <<z>> /\ nr' < MaxBranches
      <3>1. op.name = "add_uac" BY <1>6, <2>3
      <3> QED BY <1>9, <2>1, <2>2, <2>3, <3>1 DEF ForwardOK
    <2>4. CASE op = x
      <3>1. op.name = "send_requests" /\ op.bm = 0..nr BY <1>6, <2>4
      <3>2. \A b \in 0..nr : b \in Branches /\ b < nr' BY <1>1, <1>4
      <3>3. \A b \in op.bm : request'[b] = "built" BY <1>9, <3>1, <3>2
      <3> QED BY <2>1, <3>1, <3>3 DEF ForwardOK
    <2>5. CASE op = y
      <3>1. op.name = "forwarded" BY <1>6, <2>5
      <3> QED BY <2>1, <3>1 DEF ForwardOK
    <2> QED BY <1>7, <2>3, <2>4, <2>5
  <1>11. name \in ForwardNames /\ name # "event" BY DEF ForwardNames
  <1>12. TodoType' BY ZenonT(60), <1>3, <1>7, MakesCalls
  <1>13. LockInv'
    <2>1. LockStep(a, name, S) BY <1>1, <1>8 DEF LockStep, LockNames
    <2> QED BY ZenonT(60), <1>3, <1>7, <2>1, LockKept DEF IInv
  <1>14. ForwardInv'
    <2>1. UNCHANGED <<fr, rang, last_received>> BY <1>1
    <2>2. ASSUME NEW b \in Branches
          PROVE  /\ request[b] = "sent" => request'[b] = "sent"
                 /\ request'[b] # "null" => b < nr'
      <3>1. request[b] # "null" => b < nr BY DEF IInv, ForwardInv
      <3>2. b \in Nat BY ZeroBranch
      <3>3. CASE b = nr BY <1>1, <1>2, <1>4, <3>3
      <3>4. CASE b # nr
        <4>1. request'[b] = request[b] BY <1>9, <3>4
        <4>2. b < nr => b < nr' BY <1>1, <1>4, <3>2
        <4> QED BY <3>1, <4>1, <4>2
      <3> QED BY <3>3, <3>4
    <2> HIDE DEF name
    <2> QED BY ZenonT(60), <1>2, <1>3, <1>7, <1>10, <1>11, <2>1, <2>2, ForwardStep DEF IInv
  <1>15. \A c \in Actors : \A op \in Left(c)' : op.name # "on_failure"
    <2>1. ASSUME NEW c \in Actors, NEW op \in Left(c)', op.name = "on_failure" PROVE FALSE
      <3>1. ForwardOK(c, op)' BY <1>14 DEF ForwardInv
      <3>2. op.b \in Branches
        <4>1. op \in GoodOps BY <1>12, CallsIn DEF TodoType, Left
        <4> QED BY <4>1 DEF GoodOps
      <3>3. request'[op.b] = "sent" BY <2>1, <3>1 DEF ForwardOK, BranchNames
      <3> QED BY <1>9, <3>2, <3>3
    <2> QED BY <2>1
  <1>16. FinalInv' BY <1>1, <1>15 DEF IInv, FinalInv, OneFinal, uvars
  <1>17. StoreInv'
    <2>1. ASSUME NEW b \in Branches PROVE ~(last_received'[b] >= 200)
      <3>1. last_received[b] \in 0..699 /\ last_received'[b] = last_received[b]
        BY ZenonT(60), <1>1, <1>3 DEF BranchType
      <3>2. last_received[b] = 0 BY <1>2 DEF IInv, ForwardInv
      <3> QED BY <3>1, <3>2
    <2> QED BY <1>15, <2>1 DEF StoreInv
  <1>18. PickInv' BY <1>15 DEF PickInv
  <1>19. SelectInv'
    <2>1. \A b \in Branches : ~rang'[b] BY <1>1, <1>2 DEF IInv, ForwardInv
    <2>2. ~(status' >= 200) BY <1>1, <1>2, <1>3 DEF uvars, StateType, ReplyType
    <2>3. ASSUME NEW b \in Branches, request'[b] # "null", b < first' PROVE Settled(b)'
      <3>1. first <= nr /\ first' = first /\ first \in Nat
        <4>1. first \in 0..MaxBranches /\ first <= nr BY ZenonT(60), <1>3 DEF CountType
        <4>2. first' = first BY ZenonT(60), <1>1
        <4> QED BY ONLY SMTT(10), ZenonT(30), SMTT(60), <4>1, <4>2, <1>4
      <3>2. b # nr BY <1>4, <2>3, <3>1, ZeroBranch
      <3>3. request[b] # "null" BY <1>9, <2>3, <3>2
      <3>4. Settled(b) BY <2>3, <3>1, <3>3 DEF IInv, SelectInv
      <3> QED BY ZenonT(60), <1>1, <3>4 DEF Settled
    <2> QED BY <1>15, <2>1, <2>2, <2>3 DEF SelectInv
  <1>20. StateType'
    <2>1. CountType'
      <3>1. nr' \in 0..MaxBranches /\ first' \in 0..MaxBranches /\ first' <= nr'
        BY <1>1, <1>2, <1>3, <1>4 DEF CountType
      <3> QED BY <1>1, <1>3, <3>1 DEF CountType
    <2>2. BranchType'
      <3>1. request' \in [Branches -> {"null", "built", "sent"}] BY ZenonT(60), <1>1, <1>3 DEF BranchType
      <3> QED BY <1>1, <1>3, <3>1 DEF BranchType
    <2>3. CancelType' /\ ReplyType' /\ FlagType'
      BY <1>1, InvTypes DEF CancelType, ReplyType, FlagType, uvars, fvars, wvars
    <2> QED BY <2>1, <2>2, <2>3 DEF StateType
  <1> QED BY <1>12, <1>13, <1>14, <1>16, <1>17, <1>18, <1>19, <1>20 DEF IInv, GoodType

\* A request is sent, or its branch is given up.
LEMMA SendRequestInv ==
  ASSUME IInv, NEW a \in Actors, SendRequest(a)
  PROVE  IInv'
  <1> DEFINE name == "send_requests"
             B == Call(a).bm
             l == Lowest(B)
             rest == ForEach("send_requests", B \ {l})
             x == DoOn("start_retr", l)
  <1>1. /\ Calls(a, name)
        /\ UNCHANGED <<nr, first, fr, last_received, stored, cancel_buf, to_cancel,
                       cancels, uvars, fvars, wvars, reply_lock, msgs, rang>>
    BY ZenonT(60) DEF SendRequest
  <1>2. \/ request' = [request EXCEPT ![l] = "sent"] /\ Done(a, <<x>> \o rest)
        \/ request' = [request EXCEPT ![l] = "null"] /\ Done(a, rest)
    BY ZenonT(60) DEF SendRequest
  <1>3. TodoType /\ StateType /\ BranchType BY InvTypes
  <1>4. /\ B \in SUBSET Branches /\ l \in B
        /\ Call(a) \in Left(a) /\ Call(a).name = name
    <2> HIDE DEF B, l, rest, x
    <2>1. /\ Call(a).bm \in SUBSET Branches /\ Lowest(Call(a).bm) \in Call(a).bm
          /\ Call(a) \in Left(a) /\ Call(a).name = name
      BY ZenonT(60), <1>1, <1>3, NextCall
    <2> QED BY ZenonT(60), <2>1 DEF B, l
  <1>5. \A c \in B : request[c] = "built"
    <2>1. ForwardOK(a, Call(a)) BY ZenonT(60), <1>4 DEF IInv, ForwardInv
    <2> QED BY ZenonT(60), <1>4, <2>1 DEF ForwardOK
  <1>6. /\ rest \in Seq(GoodOps) /\ AtMostOne(rest, LockNames)
        /\ AtMostOne(rest, {"send_requests"})
        /\ \A op \in CallsOf(rest) : op.name = "send_requests" /\ op.bm = B \ {l}
    <2> DEFINE R == B \ {l}
    <2>1. R \in SUBSET Branches BY <1>4
    <2> HIDE DEF R
    <2>2. /\ ForEach("send_requests", R) \in Seq(GoodOps)
          /\ \A op \in CallsOf(ForEach("send_requests", R)) :
               op.name = "send_requests" /\ op.bm = R
          /\ \A N : AtMostOne(ForEach("send_requests", R), N)
      BY ZenonT(60), <2>1, ForEachCalls
    <2> QED BY ZenonT(60), <2>2 DEF R
  <1>7. PICK b \in Branches : b = l BY <1>4
  <1>8. x \in GoodOps /\ x.name = "start_retr" /\ x.b = b
    <2>1. /\ "start_retr" \in CallNames /\ {} \in SUBSET Branches /\ 0 \in 0..699
          /\ "start_retr" \notin {"cancel_uacs", "send_requests"}
          /\ "start_retr" # "on_failure" /\ "start_retr" # "t_reply" /\ FALSE \in BOOLEAN
      BY DEF CallNames
    <2>2. x = Op("start_retr", b, 0, FALSE, FALSE, {}) BY <1>7 DEF DoOn
    <2> HIDE DEF x
    <2>3. Op("start_retr", b, 0, FALSE, FALSE, {}) \in GoodOps
      BY ZenonT(60), <2>1, OpGood
    <2>4. x.name = "start_retr" /\ x.b = b BY ONLY SMTT(10), ZenonT(30), SMTT(60), <2>2 DEF Op
    <2> QED BY ZenonT(60), <2>2, <2>3, <2>4
  <1> HIDE DEF x, rest, l, B
  <1>9. PICK new \in {"sent", "null"} :
          /\ request' = [request EXCEPT ![b] = new]
          /\ new = "sent" => Done(a, <<x>> \o rest)
          /\ new = "null" => Done(a, rest)
    BY <1>2, <1>7
  <1>10. PICK S : /\ Makes(a, name, S)
                  /\ \A op \in S : \/ op.name = "send_requests" /\ op.bm = B \ {b}
                                   \/ op = x /\ new = "sent"
    <2>1. CASE new = "sent"
      <3> DEFINE s == <<x>>
      <3>1. s \in Seq(GoodOps) BY <1>8
      <3>2. CallsOf(s) = {x} BY CallsFew
      <3>3. \A N : AtMostOne(s, N) BY OneFew
      <3>4. Done(a, s \o rest) BY <1>9, <2>1
      <3> HIDE DEF s
      <3>5. s \o rest \in Seq(GoodOps) /\ CallsOf(s \o rest) = {x} \cup CallsOf(rest)
        BY <1>6, <3>1, <3>2, CallsCat
      <3>6. AtMostOne(s \o rest, LockNames)
        <4>1. \A p \in CallsOf(s), q \in CallsOf(rest) :
                ~(p.name \in LockNames /\ q.name \in LockNames)
          BY <1>8, <3>2 DEF LockNames
        <4> QED BY <1>6, <3>1, <3>3, <4>1, OneCat
      <3>7. AtMostOne(s \o rest, {"send_requests"})
        <4>1. \A p \in CallsOf(s), q \in CallsOf(rest) :
                ~(p.name \in {"send_requests"} /\ q.name \in {"send_requests"})
          BY <1>8, <3>2
        <4> QED BY <1>6, <3>1, <3>3, <4>1, OneCat
      <3>8. Makes(a, name, CallsOf(s \o rest))
        BY ZenonT(60), <1>1, <3>4, <3>5, <3>6, <3>7 DEF Makes
      <3> QED BY <1>6, <1>7, <2>1, <3>5, <3>8
    <2>2. CASE new = "null"
      <3>1. Done(a, rest) BY <1>9, <2>2
      <3>2. Makes(a, name, CallsOf(rest)) BY ZenonT(60), <1>1, <1>6, <3>1 DEF Makes
      <3> QED BY ZenonT(60), <1>6, <1>7, <3>2
    <2> QED BY <2>1, <2>2
  <1>11. \A op \in S : /\ op.name \in {"send_requests", "start_retr"}
                       /\ op.name \notin LockNames /\ op.name # "on_failure"
    BY ZenonT(60), <1>8, <1>10 DEF LockNames
  <1>12. /\ request' \in [Branches -> {"null", "built", "sent"}] /\ request'[b] = new
         /\ \A c \in Branches : c # b => request'[c] = request[c]
         /\ request[b] = "built"
    BY <1>3, <1>4, <1>5, <1>7, <1>9 DEF BranchType
  <1>13. StateType'
    <2>1. BranchType' BY <1>1, <1>3, <1>12 DEF BranchType
    <2>2. CountType' /\ CancelType' /\ ReplyType' /\ FlagType'
      BY ZenonT(60), <1>1, InvTypes DEF CountType, CancelType, ReplyType, FlagType, uvars, fvars, wvars
    <2> QED BY <2>1, <2>2 DEF StateType
  <1>14. Calm(a, name, S)
    <2>1. \A c \in Branches : request'[c] # "null" => request[c] # "null" BY <1>12
    <2> QED BY <1>1, <1>10, <1>11, <2>1 DEF Calm, uvars, fvars
  <1>15. ASSUME NEW op \in S PROVE ForwardOK(a, op)'
    <2>1. CASE op.name = "send_requests" /\ op.bm = B \ {b}
      <3>1. \A c \in op.bm : request'[c] = "built" BY <1>4, <1>5, <1>12, <2>1
      <3> QED BY <2>1, <3>1 DEF ForwardOK, BranchNames
    <2>2. CASE op = x /\ new = "sent"
      <3>1. op.name = "start_retr" /\ request'[op.b] = "sent" BY <1>8, <1>12, <2>2
      <3> QED BY <3>1 DEF ForwardOK
    <2> QED BY <1>10, <2>1, <2>2
  <1>16. name \in ForwardNames BY DEF ForwardNames
  <1>17. \A c \in Branches : request[c] = "sent" => request'[c] = "sent" BY <1>12
  <1> QED BY <1>1, <1>11, <1>13, <1>14, <1>15, <1>16, <1>17, ForwardCalmInv

\* No branch could be sent: kill_transaction replies.
LEMMA ForwardedInv ==
  ASSUME IInv, NEW a \in Actors, Forwarded(a)
  PROVE  IInv'
  <1> DEFINE name == "forwarded"
             x == DoCode("t_reply", 500)
  <1>1. /\ Calls(a, name) /\ (Done(a, <<>>) \/ Done(a, <<x>>))
        /\ UNCHANGED <<nr, first, bvars, uvars, fvars, wvars, reply_lock, msgs>>
    BY DEF Forwarded
  <1>2. x \in GoodOps /\ x.name = "t_reply"
    <2>1. 500 \in 200..699 BY ONLY SMTT(10), ZenonT(30), SMTT(60), TRUE
    <2> QED BY ZenonT(60), <2>1, ReplyGood
  <1> HIDE DEF x
  <1>3. PICK S \in {{}, {x}} : Makes(a, name, S) BY <1>1, <1>2, MakesNothing, MakesOne
  <1>4. \A op \in S : /\ op.name = "t_reply" /\ op.name \notin LockNames
                      /\ op.name # "send_requests" /\ op.name # "on_failure"
    BY <1>2 DEF LockNames
  <1>5. StateType'
    <2>1. StateType BY InvTypes
    <2> QED BY ZenonT(60), <1>1, <2>1, SameState
  <1>6. Calm(a, name, S) BY ZenonT(60), <1>1, <1>3, <1>4 DEF Calm, bvars, uvars, fvars
  <1>7. \A op \in S : ForwardOK(a, op)' BY ZenonT(60), <1>4 DEF ForwardOK, BranchNames
  <1>8. UNCHANGED <<fr, rang, request, reply_lock>> BY <1>1 DEF bvars
  <1>9. name \in ForwardNames BY DEF ForwardNames
  <1> HIDE DEF name
  <1> QED BY <1>4, <1>5, <1>6, <1>7, <1>8, <1>9, ForwardCalmInv

============================================================================
