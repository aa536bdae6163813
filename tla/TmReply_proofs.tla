--------------------------- MODULE TmReply_proofs ---------------------------
(***************************************************************************)
(* The theorems about TmReply, from the invariant of TmReply_inv.  That a  *)
(* branch is cancelled once needs an invariant of its own, on the bitmaps  *)
(* of selected branches.                                                   *)
(***************************************************************************)
EXTENDS TmReply_relay

\* The provers every leaf is given, unless it names its own.
USE SMTT(10), ZenonT(30), SMTT(60)

----------------------------------------------------------------------------
(***************************************************************************)
(* The theorems.                                                           *)
(***************************************************************************)
\* A CANCEL arrives: somebody is now to select the branches that ring.
LEMMA CancelArrivesInv ==
  ASSUME IInv, NEW a \in Actors, Cancel(a)
  PROVE  IInv'
  <1> DEFINE x == Do("cancel_invite")
  <1>1. /\ todo[a] = <<>> /\ todo' = [todo EXCEPT ![a] = <<x>>]
        /\ was_cancelled' = TRUE /\ msgs > 0 /\ msgs' = msgs - 1
        /\ UNCHANGED <<nr, first, bvars, uvars, no_new, multi_200ok, wvars, reply_lock>>
    BY DEF Cancel
  <1>2. x \in GoodOps /\ x.name = "cancel_invite"
    <2>1. /\ "cancel_invite" \in CallNames
          /\ "cancel_invite" \notin {"cancel_uacs", "send_requests", "on_failure", "t_reply"}
      BY ONLY ZenonT(60) DEF CallNames
    <2> QED BY ZenonT(60), <2>1, DoGood
  <1> HIDE DEF x
  <1>3. <<x>> \in Seq(GoodOps) /\ CallsOf(<<x>>) = {x} BY <1>2, CallsFew
  <1>4. TodoType BY InvTypes
  <1>5. Makes(a, "event", {x})
    <2>1. \A op \in CallsOf(<<x>>) : op.name \notin LockNames \cup {"send_requests"}
      BY <1>2, <1>3 DEF LockNames
    <2> QED BY ZenonT(60), <1>1, <1>3, <2>1, MakesEvent
  <1>6. /\ TodoType'
        /\ \A c \in Actors : c # a => todo'[c] = todo[c] /\ Left(c)' = Left(c)
        /\ Left(a)' = {x} /\ Left(a) = {}
    BY ZenonT(60), <1>1, <1>3, <1>4, StartCalls
  <1>7. \A c \in Actors : \A op \in Left(c)' : op.name = "on_failure" => op \in Left(c)
    BY <1>2, <1>6
  <1>8. \A c \in Actors : \A op \in Left(c) : op \in Left(c)' BY <1>6
  <1>9. StateType'
    <2>1. BranchType' /\ CancelType' /\ ReplyType'
      BY ZenonT(60), <1>1, InvTypes DEF BranchType, CancelType, ReplyType, bvars, uvars
    <2>2. FlagType' BY <1>1, InvTypes DEF FlagType, wvars
    <2>3. CountType' BY <1>1, InvTypes DEF CountType
    <2> QED BY <2>1, <2>2, <2>3 DEF StateType
  <1>10. LockInv'
    <2>1. LockStep(a, "event", {x}) BY <1>1, <1>2 DEF LockStep, LockNames
    <2> QED BY <1>4, <1>5, <2>1, LockKept DEF IInv
  <1>11. ForwardInv'
    <2>1. NoForward(a, "event", {x})
      BY <1>1, <1>2 DEF NoForward, Heard, bvars, uvars, ForwardNames, BranchNames
    <2> QED BY <1>4, <1>5, <2>1, InvTypes, ForwardKept DEF IInv
  <1>12. FinalInv' BY ZenonT(60), <1>1, <1>7 DEF IInv, FinalInv, OneFinal, bvars, uvars
  <1>13. StoreInv' BY <1>1, <1>7, <1>8 DEF IInv, StoreInv, bvars, uvars
  <1>14. PickInv'
    <2>1. Open(last_received)' = Open(last_received)
      BY <1>1 DEF Open, Candidates, Current, bvars
    <2>2. ASSUME NEW code, Best(code) PROVE Best(code)' BY ZenonT(60), <1>1, <2>1, <2>2 DEF Best
    <2>3. last_received' = last_received BY <1>1 DEF bvars
    <2> QED BY ZenonT(60), <1>7, <2>2, <2>3 DEF IInv, PickInv
  <1>15. SelectInv'
    <2>1. UNCHANGED <<request, first, status, multi_200ok, last_received, cancel_buf>>
      BY <1>1 DEF bvars, uvars
    <2>2. \E c \in Actors : \E op \in Left(c)' : op.name = "cancel_invite"
      BY <1>2, <1>6
    <2>3. \A b \in Branches : Settled(b) => Settled(b)' BY <2>1 DEF Settled
    <2> QED BY <1>7, <2>1, <2>2, <2>3 DEF IInv, SelectInv
  <1> QED BY ZenonT(60), <1>6, <1>9, <1>10, <1>11, <1>12, <1>13, <1>14, <1>15 DEF IInv, GoodType

\* The invariant holds once the transaction is built.
LEMMA InitInv == Init => IInv
  <1> SUFFICES ASSUME Init PROVE IInv OBVIOUS
  <1> DEFINE x == Do("t_forward_nonack")
  <1>1. PICK w \in Workers : todo = [a \in Actors |-> IF a = w THEN <<x>> ELSE <<>>]
    BY DEF Init
  <1>2. x \in GoodOps /\ x.name = "t_forward_nonack"
    <2>1. /\ "t_forward_nonack" \in CallNames
          /\ "t_forward_nonack" \notin {"cancel_uacs", "send_requests", "on_failure", "t_reply"}
      BY ONLY ZenonT(60) DEF CallNames
    <2> QED BY ZenonT(60), <2>1, DoGood
  <1> HIDE DEF x
  <1>3. TodoType
    <2>1. <<x>> \in Seq(GoodOps) /\ <<>> \in Seq(GoodOps) BY <1>2
    <2> QED BY <1>1, <2>1 DEF TodoType
  <1>4. \A a \in Actors : \A op \in Left(a) : op = x /\ a = w /\ todo[a] = <<x>>
    <2>1. CallsOf(<<x>>) = {x} /\ CallsOf(<<>>) = {} BY CallsFew
    <2> QED BY <1>1, <2>1 DEF Left
  <1>5. \A a \in Actors : \A N : AtMostOne(todo[a], N)
    <2>1. \A N : AtMostOne(<<x>>, N) BY OneFew
    <2>2. \A N : AtMostOne(<<>>, N) BY CallsFew, OneFew
    <2> QED BY <1>1, <2>1, <2>2
  <1>6. StateType
    <2>1. CountType BY ConstantsType DEF Init, CountType
    <2>2. BranchType BY DEF Init, BranchType
    <2>3. CancelType BY DEF Init, CancelType
    <2>4. ReplyType
      <3>1. <<>> \in Seq(200..699) OBVIOUS
      <3>2. status = 0 /\ replied_local = FALSE /\ upstream = <<>> BY DEF Init
      <3>3. 0 \in 0..699 OBVIOUS
      <3>4. FALSE \in BOOLEAN OBVIOUS
      <3> QED BY <3>1, <3>2, <3>3, <3>4, ZenonT(30) DEF ReplyType
    <2>5. FlagType BY ZenonT(60) DEF Init, FlagType
    <2> QED BY <2>1, <2>2, <2>3, <2>4, <2>5 DEF StateType
  <1>7. /\ \A b \in Branches : request[b] = "null" /\ fr[b] = "never" /\ ~rang[b]
                               /\ last_received[b] = 0
        /\ status = 0 /\ upstream = <<>> /\ nr = 0 /\ first = 0 /\ ~was_cancelled
    BY DEF Init
  <1>8. ForwardInv
    <2>1. 0 < MaxBranches /\ \A b \in Branches : ~(b < 0) BY ConstantsType DEF Branches
    <2>2. ASSUME NEW a \in Actors, NEW op \in Left(a) PROVE ForwardOK(a, op)
      BY <1>2, <1>4, <1>7, <2>1 DEF ForwardOK, BranchNames
    <2> QED BY ZenonT(60), <1>4, <1>5, <1>7, <2>2 DEF ForwardInv
  <1>9. LockInv BY <1>2, <1>4, <1>5 DEF LockInv, LockNames
  <1>10. FinalInv BY <1>2, <1>4, <1>7 DEF FinalInv, OneFinal
  <1>11. StoreInv BY <1>2, <1>4, <1>7 DEF StoreInv
  <1>12. PickInv BY <1>2, <1>4 DEF PickInv
  <1>13. SelectInv BY <1>7 DEF SelectInv
  <1> QED BY <1>3, <1>6, <1>8, <1>9, <1>10, <1>11, <1>12, <1>13 DEF IInv, GoodType

\* Every step keeps the invariant.
LEMMA NextInv == IInv /\ [Next]_vars => IInv'
  <1> SUFFICES ASSUME IInv, [Next]_vars PROVE IInv' OBVIOUS
  <1>1. Timer \in Actors /\ \A w \in Workers : w \in Actors BY DEF Actors
  <1>2. ASSUME NEW a \in Actors, SharedCall(a) PROVE IInv'
    <2>1. ASSUME RelayReply(a) PROVE IInv'
      BY <2>1, RelayMultiInv, RelayAfterFinalInv, OverBranchInv, RelayNegativeInv,
         Relay2xxInv, RelayProvisionalInv DEF RelayReply
    <2> QED BY <1>2, <2>1, CleanupInv, WaitInv, CancelUacInv, OnFailureInv, UnlockInv
            DEF SharedCall
  <1>3. ASSUME NEW w \in Workers, WorkerStep(w) PROVE IInv'
    BY <1>1, <1>2, <1>3, ReplyInv, ForwardsInv, AddUacInv, SendRequestInv, TimerInv,
       ForwardedInv, CancelInviteInv, ProcessReplyInv DEF WorkerStep
  <1>4. ASSUME NEW w \in Workers, Arrival(w) PROVE IInv'
    BY <1>1, <1>4, CancelArrivesInv, AckInv, ReplyReceivedInv DEF Arrival
  <1>5. ASSUME TimerStep PROVE IInv'
    BY <1>1, <1>2, <1>5, TimedOutInv, FakeReplyInv, QuietInv, FrFiresInv DEF TimerStep
  <1> QED BY <1>3, <1>4, <1>5, QuietInv DEF Next, Idle

\* The invariant holds in every reachable state.
LEMMA SpecInv == Spec => []IInv
  BY InitInv, NextInv, PTL DEF Spec

\* The variables keep the shape of the C structures: branch indices stay below
\* MaxBranches, statuses are SIP codes, only replies from 200 on go upstream.
THEOREM ReplyTypes == Spec => []TypeOK
  <1>1. IInv => TypeOK BY GoodTypeOK DEF IInv
  <1> QED BY <1>1, SpecInv, PTL

\* One final reply goes upstream, and after it only 2xx replies of an INVITE,
\* for any number of processes, branches and messages (relay_reply,
\* _reply_light under the reply lock).
THEOREM FinalOnce == Spec => []OneFinal
  <1>1. IInv => OneFinal BY DEF IInv, FinalInv
  <1> QED BY <1>1, SpecInv, PTL

\* A reply that relay_reply takes from another branch than the one being
\* handled was kept there by store_reply, whatever happened in between.
THEOREM StoredWhenPicked == Spec => []PickedReplyStored
  <1>1. IInv => PickedReplyStored
    <2> SUFFICES ASSUME IInv, NEW a \in Actors, Calls(a, "on_failure"),
                        Call(a).code # Call(a).b
                 PROVE  stored[Call(a).code]
      BY DEF PickedReplyStored
    <2>1. Call(a) \in Left(a) /\ Call(a).name = "on_failure" BY ZenonT(60), NextCall, InvTypes
    <2> QED BY <2>1 DEF IInv, StoreInv
  <1> QED BY <1>1, SpecInv, PTL

\* No branch that rings in vain is overlooked: when everybody is done, a process
\* has selected it for a CANCEL (which_cancel, process_reply_and_timer).
THEOREM NoneOverlooked == Spec => []RingingSelected
  <1>1. IInv => RingingSelected
    <2> SUFFICES ASSUME IInv, Quiet, NEW b \in RingingInVain
                 PROVE  cancel_buf[b] # "null"
      BY DEF RingingSelected
    <2>1. /\ b \in Branches /\ rang[b] /\ last_received[b] < 200 /\ Invite
          /\ was_cancelled \/ (status >= 200 /\ ~multi_200ok)
      BY DEF RingingInVain
    <2>2. \A a \in Actors : Left(a) = {}
      <3>1. CallsOf(<<>>) = {} BY CallsFew
      <3> QED BY <3>1 DEF Quiet, Left
    <2>3. request[b] # "null" BY <2>1 DEF IInv, ForwardInv
    <2>4. Settled(b) BY <2>1, <2>2, <2>3 DEF IInv, SelectInv
    <2>5. ~(last_received[b] >= 200)
      <3>1. last_received[b] \in 0..699 BY ZenonT(60), <2>1, InvTypes DEF BranchType
      <3> QED BY ZenonT(60), <2>1, <3>1, FinalCode
    <2> QED BY <2>4, <2>5 DEF Settled
  <1> QED BY <1>1, SpecInv, PTL

\* A step that relays a negative reply: on_failure's end, and then it is a 6xx
\* that blocks or the best reply of the branches.
LEMMA RelaysBest ==
  ASSUME IInv, [Next]_vars, upstream' # upstream, ~replied_local', status' >= 300
  PROVE  (Block6xx /\ status' >= 600) \/ Best(status')
  <1> DEFINE Goal == (Block6xx /\ status' >= 600) \/ Best(status')
  <1>1. Timer \in Actors /\ \A w \in Workers : w \in Actors BY DEF Actors
  <1>2. ASSUME UNCHANGED uvars PROVE FALSE BY <1>2 DEF uvars
  <1>3. ASSUME NEW code \in 0..699, Is2xx(code), Relay(code) PROVE FALSE
    <2>1. status' = code BY <1>3 DEF Relay
    <2> QED BY <1>3, <2>1 DEF Is2xx
  <1>4. ASSUME NEW code, ReplyLight(code) PROVE FALSE BY <1>4 DEF ReplyLight
  <1>5. ASSUME NEW a \in Actors, OnFailure(a) PROVE Goal
    <2>1. Call(a) \in Left(a) /\ Call(a).name = "on_failure"
      BY ZenonT(60), <1>5, NextCall, InvTypes DEF OnFailure
    <2>2. ASSUME Relay(last_received[Call(a).code]) PROVE Goal
      <3>1. status' = last_received[Call(a).code] BY <2>2 DEF Relay
      <3>2. PICK s : s = last_received[Call(a).code] OBVIOUS
      <3>3. (Block6xx /\ s >= 600) \/ Best(s) BY ZenonT(60), <2>1, <3>2 DEF IInv, PickInv
      <3>4. s = status' BY ZenonT(60), <3>1, <3>2
      <3> QED BY <3>3, <3>4
    <2>3. \/ Relay(last_received[Call(a).code]) \/ UNCHANGED uvars
          \/ \E c \in ScriptCodes : ReplyLight(c)
      BY ZenonT(60), <1>5 DEF OnFailure
    <2> QED BY <1>2, <1>4, <2>2, <2>3
  <1> HIDE DEF Goal
  <1>6. ASSUME NEW a \in Actors, RelayReply(a) PROVE FALSE
    <2>1. RelayMulti2xx(a) => FALSE BY ZenonT(60), <1>2, <1>3, Relays DEF RelayMulti2xx
    <2>2. RelayAfterFinal(a) => FALSE BY ZenonT(60), <1>2, <1>3, Relays DEF RelayAfterFinal
    <2>3. RelayOnOverBranch(a) => FALSE BY <1>2 DEF RelayOnOverBranch
    <2>4. RelayNegative(a) => FALSE BY ZenonT(60), <1>2 DEF RelayNegative
    <2>5. Relay2xx(a) => FALSE BY ZenonT(60), <1>3, Relays DEF Relay2xx
    <2>6. ASSUME RelayProvisional(a) PROVE FALSE
      <3>1. Call(a).code < 200 /\ (UNCHANGED uvars \/ Relay(Call(a).code)) /\ Relaying(a)
        BY <2>6 DEF RelayProvisional
      <3>2. Call(a).code \in 0..699 BY ZenonT(60), <3>1, Relays
      <3>3. status' = Call(a).code BY <1>2, <3>1 DEF Relay
      <3> QED BY <3>1, <3>2, <3>3
    <2> QED BY <1>6, <2>1, <2>2, <2>3, <2>4, <2>5, <2>6 DEF RelayReply
  <1>7. ASSUME NEW a \in Actors, SharedCall(a) PROVE Goal
    BY ZenonT(60), <1>2, <1>5, <1>6, <1>7
       DEF SharedCall, CleanupUacTimers, PutOnWait, SetFinalTimer, CancelUac,
           FlagToCancel, UnlockReplies
  <1>8. ASSUME NEW w \in Workers, WorkerStep(w) PROVE Goal
    <2>1. Reply(w) => FALSE BY <1>2, <1>4 DEF Reply
    <2>2. (Forward(w) => FALSE) /\ (AddUac(w) => FALSE) BY <1>2 DEF Forward, AddUac
    <2>4. (SendRequest(w) => FALSE) /\ (Forwarded(w) => FALSE)
      BY ZenonT(60), <1>2 DEF SendRequest, Forwarded
    <2>5. (StartRetr(w) => FALSE) /\ (CancelInvite(w) => FALSE)
      BY <1>2 DEF StartRetr, CancelInvite
    <2>3. ProcessReply(w) \/ RestartTimer(w) => FALSE BY ZenonT(60), <1>2 DEF ProcessReply, RestartTimer
    <2> QED BY <1>1, <1>7, <1>8, <2>1, <2>2, <2>3, <2>4, <2>5 DEF WorkerStep
  <1>9. ASSUME NEW w \in Workers, Arrival(w) PROVE FALSE
    BY ZenonT(60), <1>2, <1>9 DEF Arrival, Cancel, Ack, ReplyReceived
  <1>10. ASSUME TimerStep PROVE Goal
    BY ZenonT(60), <1>1, <1>2, <1>7, <1>10
       DEF TimerStep, CancelTimedOut, MarkTimedOutBusy, FakeReply, ReplyFrFires, FrFires
  <1>11. UNCHANGED vars => FALSE BY <1>2 DEF vars
  <1> QED BY <1>8, <1>9, <1>10, <1>11 DEF Next, Idle, Goal

\* A negative reply that is not this proxy's own is relayed only when no branch
\* is open (but for minor ones) or it is a blocking 6xx, and it is the best of the
\* branches' replies then (t_pick_branch, the end of relay_reply).
THEOREM BestRelayed == Spec => BestNegativeRelayed
  <1> DEFINE Step == upstream' # upstream /\ ~replied_local' /\ status' >= 300
          => \/ Block6xx /\ status' >= 600
             \/ /\ Open(last_received) \subseteq Minor
                /\ ~was_cancelled => \A b \in Choices(last_received) :
                     BranchPrio(status', FALSE) <= BranchPrio(last_received[b], FALSE)
  <1>1. IInv /\ [Next]_vars => [Step]_vars BY ZenonT(60), RelaysBest DEF Best
  <1>2. BestNegativeRelayed <=> [][Step]_vars BY DEF BestNegativeRelayed
  <1> QED BY <1>1, <1>2, SpecInv, PTL DEF Spec

----------------------------------------------------------------------------
(***************************************************************************)
(* cancel_branch runs once per branch, if the tests of                     *)
(* should_cancel_branch and cancel_uacs and the writes that follow them    *)
(* are one step each.                                                      *)
(***************************************************************************)
\* The calls that separate such a write from its test.
FineNames == {"flag_to_cancel", "mark_busy"}

\* Process a is about to cancel branch b.
Picks(a, b) == \E op \in Left(a) : b \in Selected(op)

\* Branch b was selected, and nothing was done about it yet.
Untouched(b) == cancel_buf[b] = "busy" /\ cancels[b] = 0 /\ ~to_cancel[b]

\* A branch is selected before it is flagged or cancelled.
CancelOK(b) ==
    /\ to_cancel[b] => cancel_buf[b] = "busy" /\ cancels[b] = 0
    /\ cancel_buf[b] = "null" => cancels[b] = 0
    /\ cancels[b] <= 1

\* A selected branch is in one bitmap of one process, until that process cancels
\* or flags it.
CancelInv ==
    /\ \A a \in Actors : Disjoint(todo[a]) /\ \A op \in Left(a) : op.name \notin FineNames
    /\ \A a \in Actors, b \in Branches : Picks(a, b) => Untouched(b)
    /\ \A a, c \in Actors, b \in Branches : Picks(a, b) /\ Picks(c, b) => a = c
    /\ \A b \in Branches : CancelOK(b)

\* Process a selects branches that nobody had, or does something about its own.
CancelStep(a) ==
    /\ \A c \in Actors : c # a => todo'[c] = todo[c]
    /\ Disjoint(todo'[a]) /\ \A op \in CallsOf(todo'[a]) : op.name \notin FineNames
    /\ \A b \in Branches :
         /\ Picks(a, b)' => Untouched(b)' /\ (Picks(a, b) \/ cancel_buf[b] = "null")
         /\ Untouched(b) /\ ~Picks(a, b) => Untouched(b)'
         /\ CancelOK(b)'

\* That keeps the invariant.
LEMMA CancelStepInv ==
  ASSUME CancelInv, NEW a \in Actors, CancelStep(a)
  PROVE  CancelInv'
  <1>1. ASSUME NEW c \in Actors, c # a
        PROVE  /\ todo'[c] = todo[c] /\ Left(c)' = Left(c)
               /\ \A b : Picks(c, b)' <=> Picks(c, b)
    <2>1. todo'[c] = todo[c] BY ZenonT(60), <1>1 DEF CancelStep
    <2>2. Left(c)' = Left(c) BY <2>1 DEF Left
    <2> QED BY ZenonT(60), <2>1, <2>2 DEF Picks
  <1>2. ASSUME NEW c \in Actors
        PROVE  Disjoint(todo'[c]) /\ \A op \in Left(c)' : op.name \notin FineNames
    <2>1. CASE c = a BY ZenonT(60), <2>1 DEF CancelStep, Left
    <2>2. CASE c # a BY ZenonT(60), <1>1, <2>2 DEF CancelInv
    <2> QED BY <2>1, <2>2
  <1>3. ASSUME NEW c \in Actors, NEW b \in Branches, Picks(c, b)' PROVE Untouched(b)'
    <2>1. CASE c = a BY ZenonT(60), <1>3, <2>1 DEF CancelStep
    <2>2. CASE c # a
      <3>1. Picks(c, b) BY ZenonT(60), <1>1, <1>3, <2>2
      <3>2. Untouched(b) /\ ~Picks(a, b) BY ZenonT(60), <2>2, <3>1 DEF CancelInv
      <3> QED BY ZenonT(60), <3>2 DEF CancelStep
    <2> QED BY <2>1, <2>2
  <1>4. ASSUME NEW c \in Actors, c # a, NEW b \in Branches, Picks(c, b)', Picks(a, b)'
        PROVE  FALSE
    <2>1. Picks(c, b) BY ZenonT(60), <1>1, <1>4
    <2>2. Untouched(b) /\ ~Picks(a, b) BY ZenonT(60), <1>4, <2>1 DEF CancelInv
    <2>3. cancel_buf[b] = "null" BY ZenonT(60), <1>4, <2>2 DEF CancelStep
    <2> QED BY ONLY SMTT(10), ZenonT(30), SMTT(60), <2>2, <2>3 DEF Untouched
  <1>5. ASSUME NEW c \in Actors, NEW d \in Actors, NEW b \in Branches,
               Picks(c, b)', Picks(d, b)'
        PROVE  c = d
    <2>1. CASE c = a \/ d = a BY ZenonT(60), <1>4, <1>5, <2>1
    <2>2. CASE c # a /\ d # a
      <3>1. Picks(c, b) /\ Picks(d, b) BY ZenonT(60), <1>1, <1>5, <2>2
      <3> QED BY ZenonT(60), <3>1 DEF CancelInv
    <2> QED BY <2>1, <2>2
  <1>6. \A b \in Branches : CancelOK(b)' BY ZenonT(60) DEF CancelStep
  <1> QED BY ZenonT(60), <1>2, <1>3, <1>5, <1>6 DEF CancelInv

\* The calls more follow: they cancel branches of B, just selected, or those that
\* the call made was to cancel.
Selects(a, B, more) ==
    /\ todo[a] # <<>> /\ Done(a, more) /\ more \in Seq(GoodOps) /\ Disjoint(more)
    /\ \A op \in CallsOf(more) :
         op.name \notin FineNames /\ Selected(op) \subseteq B \cup Selected(Call(a))
    /\ \A b \in B : cancel_buf[b] = "null"
    /\ \A b \in Branches : cancel_buf'[b] = IF b \in B THEN "busy" ELSE cancel_buf[b]
    /\ UNCHANGED <<to_cancel, cancels>>

\* Such a step keeps the invariant.
LEMMA SelectsInv ==
  ASSUME TodoType, CancelInv, NEW a \in Actors, NEW B, NEW more, Selects(a, B, more)
  PROVE  CancelInv'
  <1>1. todo[a] # <<>> /\ Done(a, more) /\ more \in Seq(GoodOps) /\ Disjoint(more)
    BY ZenonT(60) DEF Selects
  <1>2. /\ \A c \in Actors : c # a => todo'[c] = todo[c]
        /\ todo'[a] = more \o Tail(todo[a])
        /\ Left(a)' = CallsOf(more) \cup CallsOf(Tail(todo[a]))
        /\ Left(a) = {Call(a)} \cup CallsOf(Tail(todo[a]))
    BY ZenonT(60), <1>1, DoneCalls
  <1>3. todo[a] \in Seq(GoodOps) /\ Disjoint(todo[a]) BY ZenonT(60) DEF TodoType, CancelInv
  <1>4. /\ Tail(todo[a]) \in Seq(GoodOps) /\ Disjoint(Tail(todo[a]))
        /\ \A x \in CallsOf(Tail(todo[a])) : Selected(Call(a)) \cap Selected(x) = {}
    BY ZenonT(60), <1>1, <1>3, CallsTail, DisjointTail DEF Call
  <1>5. ASSUME NEW x \in CallsOf(Tail(todo[a]))
        PROVE  x \in GoodOps /\ Selected(x) \subseteq Branches
    <2>1. x \in GoodOps BY ZenonT(60), <1>4, CallsIn
    <2> QED BY <2>1 DEF GoodOps, OpType, Selected
  <1>6. ASSUME NEW x \in CallsOf(more), NEW y \in CallsOf(Tail(todo[a]))
        PROVE  Selected(x) \cap Selected(y) = {}
    <2> SUFFICES ASSUME NEW b, b \in Selected(x), b \in Selected(y) PROVE FALSE
      OBVIOUS
    <2>1. b \in Branches BY ZenonT(60), <1>5
    <2>2. Picks(a, b) BY ZenonT(60), <1>2 DEF Picks
    <2>3. Untouched(b) BY ZenonT(60), <2>1, <2>2 DEF CancelInv
    <2>4. b \notin Selected(Call(a)) BY ZenonT(60), <1>4
    <2>5. b \in B BY ZenonT(60), <2>4 DEF Selects
    <2>6. cancel_buf[b] = "null" BY ZenonT(60), <2>5 DEF Selects
    <2> QED BY ONLY SMTT(10), ZenonT(30), SMTT(60), <2>3, <2>6 DEF Untouched
  <1>7. Disjoint(todo'[a]) BY ZenonT(60), <1>1, <1>2, <1>4, <1>6, DisjointCat
  <1>8. CallsOf(todo'[a]) = CallsOf(more) \cup CallsOf(Tail(todo[a]))
    BY ZenonT(60), <1>1, <1>2, <1>4, CallsCat
  <1>9. ASSUME NEW op \in CallsOf(todo'[a]) PROVE op.name \notin FineNames
    <2>1. CASE op \in CallsOf(more) BY ZenonT(60), <2>1 DEF Selects
    <2>2. CASE op \in CallsOf(Tail(todo[a]))
      <3>1. op \in Left(a) BY ZenonT(60), <1>2, <2>2
      <3> QED BY ZenonT(60), <3>1 DEF CancelInv
    <2> QED BY ZenonT(60), <1>8, <2>1, <2>2
  <1>10. ASSUME NEW b \in Branches
         PROVE  /\ to_cancel'[b] = to_cancel[b] /\ cancels'[b] = cancels[b]
                /\ b \in B => cancel_buf[b] = "null" /\ cancel_buf'[b] = "busy"
                /\ b \notin B => cancel_buf'[b] = cancel_buf[b]
                /\ CancelOK(b)
    BY ZenonT(60) DEF Selects, CancelInv
  <1>11. ASSUME NEW b \in Branches
         PROVE  /\ CancelOK(b)' /\ (Untouched(b) => Untouched(b)')
                /\ b \in B => Untouched(b)'
    <2>1. CASE b \notin B BY ONLY ZenonT(60), <1>10, <2>1 DEF CancelOK, Untouched
    <2>2. CASE b \in B
      <3>1. cancels[b] = 0 /\ ~to_cancel[b]
        BY ONLY SMTT(10), ZenonT(30), SMTT(60), <1>10, <2>2 DEF CancelOK
      <3>2. Untouched(b)' BY ONLY ZenonT(60), <1>10, <2>2, <3>1 DEF Untouched
      <3>3. CancelOK(b)' BY ONLY SMTT(10), ZenonT(30), SMTT(60), <1>10, <2>2, <3>1 DEF CancelOK
      <3> QED BY ZenonT(60), <2>2, <3>2, <3>3
    <2> QED BY ZenonT(60), <2>1, <2>2
  <1>12. ASSUME NEW b \in Branches, Picks(a, b)'
         PROVE  Untouched(b)' /\ (Picks(a, b) \/ cancel_buf[b] = "null")
    <2>1. PICK op \in Left(a)' : b \in Selected(op) BY ZenonT(60), <1>12 DEF Picks
    <2>2. b \in B \/ Picks(a, b)
      <3>1. CASE op \in CallsOf(more)
        <4>1. b \in B \/ b \in Selected(Call(a)) BY ZenonT(60), <2>1, <3>1 DEF Selects
        <4> QED BY ZenonT(60), <1>2, <4>1 DEF Picks
      <3>2. CASE op \in CallsOf(Tail(todo[a]))
        BY ZenonT(60), <1>2, <2>1, <3>2 DEF Picks
      <3> QED BY ZenonT(60), <1>2, <2>1, <3>1, <3>2
    <2>3. CASE b \in B BY ZenonT(60), <1>10, <1>11, <2>3
    <2>4. CASE Picks(a, b)
      <3>1. Untouched(b) BY ZenonT(60), <2>4 DEF CancelInv
      <3> QED BY ZenonT(60), <1>11, <2>4, <3>1
    <2> QED BY <2>2, <2>3, <2>4
  <1>13. CancelStep(a) BY ZenonT(60), <1>2, <1>7, <1>9, <1>11, <1>12 DEF CancelStep
  <1> QED BY ZenonT(60), <1>13, CancelStepInv

\* Calls that cancel nothing.
Light(s) ==
    /\ s \in Seq(GoodOps)
    /\ \A op \in CallsOf(s) : op.name \notin FineNames /\ Selected(op) = {}

\* No call at all.
LEMMA LightNone == Light(<<>>)
  <1>1. <<>> \in Seq(GoodOps) OBVIOUS
  <1> QED BY ZenonT(60), <1>1, CallsFew DEF Light

\* A call without a bitmap.
LEMMA LightOne ==
  ASSUME NEW op \in GoodOps, op.name \notin FineNames, op.bm = {} \/ op.name = "send_requests"
  PROVE  Light(<<op>>)
  <1>1. <<op>> \in Seq(GoodOps) OBVIOUS
  <1>2. Selected(op) = {} BY ZenonT(60) DEF Selected
  <1> QED BY ZenonT(60), <1>1, <1>2, CallsFew DEF Light

\* Some such calls, and then others.
LEMMA LightCat ==
  ASSUME NEW s, NEW r, Light(s), Light(r)
  PROVE  Light(s \o r)
  <1>1. s \in Seq(GoodOps) /\ r \in Seq(GoodOps) BY ZenonT(60) DEF Light
  <1>2. s \o r \in Seq(GoodOps) /\ CallsOf(s \o r) = CallsOf(s) \cup CallsOf(r)
    BY ZenonT(60), <1>1, CallsCat
  <1> QED BY ZenonT(60), <1>2 DEF Light

\* Two of them.
LEMMA LightTwo ==
  ASSUME NEW x, NEW y, Light(<<x>>), Light(<<y>>)
  PROVE  Light(<<x, y>>)
  <1>1. x \in CallsOf(<<x>>) /\ y \in CallsOf(<<y>>) BY ZenonT(60), CallsFew
  <1>2. x \in GoodOps /\ y \in GoodOps BY ZenonT(60), <1>1, CallsIn DEF Light
  <1>3. <<x, y>> \in Seq(GoodOps) BY ONLY SMTT(10), ZenonT(30), SMTT(60), <1>2
  <1>4. ASSUME NEW op \in CallsOf(<<x, y>>)
        PROVE  op.name \notin FineNames /\ Selected(op) = {}
    <2>1. CallsOf(<<x, y>>) = {x, y} BY CallsFew
    <2>2. op = x \/ op = y BY ONLY ZenonT(60), <1>4, <2>1
    <2> QED BY ZenonT(60), <1>1, <2>2 DEF Light
  <1> QED BY ZenonT(60), <1>3, <1>4 DEF Light

\* A call of the program that has no bitmap.
LEMMA LightOp ==
  ASSUME NEW name \in CallNames \ FineNames, NEW b \in Branches, NEW code \in 0..699,
         NEW fake \in BOOLEAN, NEW restart \in BOOLEAN,
         name \notin {"cancel_uacs", "send_requests", "on_failure"},
         name = "t_reply" => code >= 200
  PROVE  Light(<<Op(name, b, code, fake, restart, {})>>)
  <1> DEFINE op == Op(name, b, code, fake, restart, {})
  <1>1. {} \in SUBSET Branches /\ name # "on_failure" /\ name \in CallNames
        /\ name \notin {"cancel_uacs", "send_requests"}
    OBVIOUS
  <1>2. op \in GoodOps BY ZenonT(60), <1>1, OpGood
  <1>3. op.name = name /\ op.bm = {} BY DEF Op
  <1> HIDE DEF op
  <1> QED BY ZenonT(60), <1>2, <1>3, LightOne DEF op

\* The same for Do.
LEMMA LightDo ==
  ASSUME NEW name \in CallNames \ FineNames,
         name \notin {"cancel_uacs", "send_requests", "on_failure", "t_reply"}
  PROVE  Light(<<Do(name)>>)
  <1>1. /\ 0 \in Branches /\ 0 \in 0..699 /\ FALSE \in BOOLEAN /\ name # "t_reply"
        /\ name \notin {"cancel_uacs", "send_requests", "on_failure"}
    BY ZeroBranch
  <1> QED BY ZenonT(60), <1>1, LightOp DEF Do

\* The plain calls of sequences that cancel branches of B.
LEMMA PlainSelected ==
  ASSUME NEW s \in Seq(PlainOps), NEW B,
         \A op \in CallsOf(s) : op.name # "flag_to_cancel" /\ op.bm \subseteq B
  PROVE  /\ s \in Seq(GoodOps)
         /\ \A op \in CallsOf(s) : op.name \notin FineNames /\ Selected(op) \subseteq B
  <1>1. s \in Seq(GoodOps) BY ZenonT(60), PlainGood
  <1>2. ASSUME NEW op \in CallsOf(s) PROVE op.name \notin FineNames /\ Selected(op) \subseteq B
    <2>1. op.name \in PlainNames /\ op.name # "flag_to_cancel" /\ op.bm \subseteq B
      BY ZenonT(60), <1>2, PlainGood
    <2> QED BY ONLY SMTT(10), ZenonT(30), SMTT(60), <2>1 DEF PlainNames, FineNames, Selected
  <1> QED BY ZenonT(60), <1>1, <1>2

\* A call that leads to such calls.
LEMMA LightStep ==
  ASSUME TodoType, CancelInv, NEW a \in Actors, todo[a] # <<>>, NEW more, Light(more),
         Done(a, more), UNCHANGED <<cancel_buf, to_cancel, cancels>>
  PROVE  CancelInv'
  <1>1. Disjoint(more) BY ZenonT(60), DisjointFew DEF Light
  <1>2. Selects(a, {}, more) BY ZenonT(60), <1>1 DEF Selects, Light
  <1> QED BY ZenonT(60), <1>2, SelectsInv

\* An event that leads to such calls.
LEMMA LightStart ==
  ASSUME TodoType, CancelInv, NEW a \in Actors, todo[a] = <<>>, NEW more, Light(more),
         todo' = [todo EXCEPT ![a] = more], UNCHANGED <<cancel_buf, to_cancel, cancels>>
  PROVE  CancelInv'
  <1>1. more \in Seq(GoodOps) BY ZenonT(60) DEF Light
  <1>2. /\ \A c \in Actors : c # a => todo'[c] = todo[c]
        /\ todo'[a] = more /\ Left(a)' = CallsOf(more)
    BY ZenonT(60), <1>1, StartCalls
  <1>3. Disjoint(todo'[a]) BY ZenonT(60), <1>2, DisjointFew DEF Light
  <1>4. \A op \in CallsOf(todo'[a]) : op.name \notin FineNames
    BY ZenonT(60), <1>2 DEF Light
  <1>5. \A b : ~Picks(a, b)' BY ZenonT(60), <1>2 DEF Picks, Light
  <1>6. ASSUME NEW b \in Branches
        PROVE  CancelOK(b)' /\ (Untouched(b) => Untouched(b)')
    BY ZenonT(60) DEF CancelInv, CancelOK, Untouched
  <1>7. CancelStep(a) BY ZenonT(60), <1>2, <1>3, <1>4, <1>5, <1>6 DEF CancelStep
  <1> QED BY ZenonT(60), <1>7, CancelStepInv

\* A call that leads to none.
LEMMA NoMore ==
  ASSUME TodoType, CancelInv, NEW a \in Actors, NEW name, Calls(a, name), Done(a, <<>>),
         UNCHANGED <<cancel_buf, to_cancel, cancels>>
  PROVE  CancelInv'
  <1>1. todo[a] # <<>> BY DEF Calls
  <1> QED BY ZenonT(60), <1>1, LightNone, LightStep

\* The calls that go on after a call on the same timers, or after the lock.
LEMMA TimersCancel ==
  ASSUME IInv, CancelInv, NEW a \in Actors,
         \/ CleanupUacTimers(a) \/ PutOnWait(a) \/ SetFinalTimer(a) \/ StartRetr(a)
         \/ RestartTimer(a) \/ UnlockReplies(a) \/ RelayOnOverBranch(a) \/ RelayAfterFinal(a)
  PROVE  CancelInv'
  <1>1. Done(a, <<>>) /\ UNCHANGED <<cancel_buf, to_cancel, cancels>>
    BY ZenonT(60) DEF CleanupUacTimers, PutOnWait, SetFinalTimer, StartRetr, RestartTimer,
       UnlockReplies, RelayOnOverBranch, RelayAfterFinal, Relaying, bvars
  <1>2. \E name : Calls(a, name)
    BY ZenonT(60) DEF CleanupUacTimers, PutOnWait, SetFinalTimer, StartRetr, RestartTimer,
       UnlockReplies, RelayOnOverBranch, RelayAfterFinal, Relaying
  <1> QED BY ZenonT(60), <1>1, <1>2, InvTypes, NoMore

\* The calls without a branch that need no more than a name.
LightNames == {"cleanup_uac_timers", "put_on_wait", "add_uac", "forwarded", "cancel_invite",
               "UNLOCK_REPLIES", "start_retr", "set_timer", "cancel_timed_out", "fake_reply",
               "relay_reply", "process_reply_and_timer"}

\* They cancel nothing.
LEMMA LightNamed ==
  ASSUME NEW name \in LightNames, NEW b \in Branches
  PROVE  /\ Light(<<Do(name)>>) /\ Light(<<DoOn(name, b)>>)
         /\ \A code \in 0..699, fake \in BOOLEAN, restart \in BOOLEAN :
              Light(<<Op(name, b, code, fake, restart, {})>>)
  <1>1. /\ name \in CallNames \ FineNames /\ name # "t_reply"
        /\ name \notin {"cancel_uacs", "send_requests", "on_failure"}
        /\ name \notin {"cancel_uacs", "send_requests", "on_failure", "t_reply"}

     BY ONLY SMTT(10), ZenonT(30), SMTT(60), name \in LightNames DEF LightNames, CallNames, FineNames
  <1>2. Light(<<Do(name)>>) BY ZenonT(60), <1>1, LightDo
  <1>3. ASSUME NEW code \in 0..699, NEW fake \in BOOLEAN, NEW restart \in BOOLEAN
        PROVE  Light(<<Op(name, b, code, fake, restart, {})>>)
    BY ZenonT(60), <1>1, LightOp
  <1>4. 0 \in 0..699 /\ FALSE \in BOOLEAN OBVIOUS
  <1>5. Light(<<DoOn(name, b)>>) BY ZenonT(60), <1>3, <1>4 DEF DoOn
  <1> QED BY ZenonT(60), <1>2, <1>3, <1>5

\* A reply of the script.
LEMMA LightReply ==
  ASSUME NEW code \in 200..699
  PROVE  Light(<<DoCode("t_reply", code)>>)
  <1> DEFINE op == DoCode("t_reply", code)
  <1>1. op \in GoodOps BY ZenonT(60), ReplyGood
  <1>2. op.name \notin FineNames /\ op.bm = {} BY DEF DoCode, Op, FineNames
  <1> HIDE DEF op
  <1> QED BY ZenonT(60), <1>1, <1>2, LightOne DEF op

\* The loop of send_requests, whose bitmap is not one to cancel.
LEMMA LightLoop ==
  ASSUME NEW B \in SUBSET Branches
  PROVE  Light(ForEach("send_requests", B))
  <1> DEFINE s == ForEach("send_requests", B)
  <1>1. s \in Seq(GoodOps) /\ \A op \in CallsOf(s) : op.name = "send_requests"
    BY ZenonT(60), ForEachCalls
  <1>2. ASSUME NEW op \in CallsOf(s) PROVE op.name \notin FineNames /\ Selected(op) = {}
    <2>1. op.name = "send_requests" BY ZenonT(60), <1>1, <1>2
    <2> QED BY ONLY SMTT(10), ZenonT(30), SMTT(60), <2>1 DEF FineNames, Selected
  <1> QED BY ZenonT(60), <1>1, <1>2 DEF Light

\* Forwarding cancels nothing.
LEMMA ForwardCancel ==
  ASSUME IInv, CancelInv, NEW a \in Actors, Forward(a) \/ Forwarded(a)
  PROVE  CancelInv'
  <1> DEFINE s == <<DoCode("t_reply", 487)>>
             r == <<DoCode("t_reply", 500)>>
             sr == <<DoCode("t_reply", 487), DoCode("t_reply", 500)>>
             t == <<Do("add_uac")>>
  <1>1. todo[a] # <<>> /\ UNCHANGED <<cancel_buf, to_cancel, cancels>>
    BY ZenonT(60) DEF Forward, Forwarded, Calls, bvars
  <1>2. Light(s) /\ Light(r)
    <2>1. 487 \in 200..699 /\ 500 \in 200..699 OBVIOUS
    <2> QED BY ZenonT(60), <2>1, LightReply
  <1>3. Light(t) /\ Light(<<>>)
    <2>1. "add_uac" \in LightNames BY ZenonT(60) DEF LightNames
    <2> QED BY ZenonT(60), <2>1, ZeroBranch, LightNamed, LightNone
  <1>4. Light(sr) BY ZenonT(60), <1>2, LightTwo
  <1>5. Done(a, sr) \/ Done(a, t) \/ Done(a, r) \/ Done(a, <<>>)
    BY ZenonT(60) DEF Forward, Forwarded
  <1> HIDE DEF s, r, t, sr
  <1> QED BY ZenonT(60), <1>1, <1>2, <1>3, <1>4, <1>5, InvTypes, LightStep

\* Nor does adding a branch.
LEMMA AddUacCancel ==
  ASSUME IInv, CancelInv, NEW a \in Actors, AddUac(a)
  PROVE  CancelInv'
  <1> DEFINE s == ForEach("send_requests", 0 .. nr)
             r == <<Do("forwarded")>>
             t == <<Do("add_uac")>>
  <1>1. /\ Calls(a, "add_uac") /\ todo[a] # <<>>
        /\ UNCHANGED <<cancel_buf, to_cancel, cancels>>
    BY ZenonT(60) DEF AddUac, Calls
  <1>2. 0 .. nr \in SUBSET Branches
    <2>1. nr < MaxBranches BY ZenonT(60), <1>1, ForwardFinds
    <2>2. nr \in 0 .. MaxBranches BY ZenonT(60), InvTypes DEF CountType
    <2> QED BY ONLY SMTT(10), ZenonT(30), SMTT(60), <2>1, <2>2, ConstantsType DEF Branches
  <1>3. Light(s) BY ZenonT(60), <1>2, LightLoop
  <1>4. Light(r) /\ Light(t)
    <2>1. "add_uac" \in LightNames /\ "forwarded" \in LightNames BY ZenonT(60) DEF LightNames
    <2> QED BY ZenonT(60), <2>1, ZeroBranch, LightNamed
  <1>5. Done(a, t) \/ Done(a, s \o r) BY ZenonT(60) DEF AddUac
  <1> HIDE DEF s, r, t
  <1>6. Light(s \o r) BY ZenonT(60), <1>3, <1>4, LightCat
  <1> QED BY ZenonT(60), <1>1, <1>4, <1>5, <1>6, InvTypes, LightStep

\* Nor does sending its request.
LEMMA SendRequestCancel ==
  ASSUME IInv, CancelInv, NEW a \in Actors, SendRequest(a)
  PROVE  CancelInv'
  <1> DEFINE b == Lowest(Call(a).bm)
             s == <<DoOn("start_retr", b)>>
             r == ForEach("send_requests", Call(a).bm \ {b})
  <1>1. /\ Calls(a, "send_requests") /\ todo[a] # <<>>
        /\ UNCHANGED <<cancel_buf, to_cancel, cancels>>
        /\ Done(a, s \o r) \/ Done(a, r)
    BY ZenonT(60) DEF SendRequest, Calls
  <1>2. b \in Branches /\ Call(a).bm \ {b} \in SUBSET Branches
    BY ZenonT(60), <1>1, InvTypes, NextCall
  <1>3. Light(r) BY ZenonT(60), <1>2, LightLoop
  <1>4. Light(s)
    <2>1. "start_retr" \in LightNames BY ZenonT(60) DEF LightNames
    <2> QED BY ZenonT(60), <1>2, <2>1, LightNamed
  <1> HIDE DEF s, r
  <1>5. Light(s \o r) BY ZenonT(60), <1>3, <1>4, LightCat
  <1> QED BY ZenonT(60), <1>1, <1>3, <1>5, InvTypes, LightStep

\* Nor do the events: they lead to calls that select.
LEMMA EventsCancel ==
  ASSUME IInv, CancelInv, NEW a \in Actors,
         \/ Cancel(a) \/ Ack(a)
         \/ \E b \in Branches, code \in Codes : ReplyReceived(a, b, code)
         \/ a = Timer /\ \E b \in Branches : FrFires(b)
  PROVE  CancelInv'
  <1>0. /\ "cleanup_uac_timers" \in LightNames /\ "put_on_wait" \in LightNames
        /\ "cancel_invite" \in LightNames /\ "process_reply_and_timer" \in LightNames
        /\ "cancel_timed_out" \in LightNames /\ "fake_reply" \in LightNames
    BY ZenonT(60) DEF LightNames
  <1>1. CASE Cancel(a)
    <2>1. /\ todo[a] = <<>> /\ todo' = [todo EXCEPT ![a] = <<Do("cancel_invite")>>]
          /\ UNCHANGED <<cancel_buf, to_cancel, cancels>>
      BY ZenonT(60), <1>1 DEF Cancel, bvars
    <2>2. Light(<<Do("cancel_invite")>>) BY ZenonT(60), <1>0, ZeroBranch, LightNamed
    <2> QED BY ZenonT(60), <2>1, <2>2, InvTypes, LightStart
  <1>2. CASE Ack(a)
    <2> DEFINE s == <<Do("cleanup_uac_timers")>>
               r == <<Do("put_on_wait")>>
               sr == <<Do("cleanup_uac_timers"), Do("put_on_wait")>>
    <2>1. /\ todo[a] = <<>> /\ todo' = [todo EXCEPT ![a] = sr]
          /\ UNCHANGED <<cancel_buf, to_cancel, cancels>>
      BY ZenonT(60), <1>2 DEF Ack, bvars
    <2>2. Light(s) /\ Light(r) BY ZenonT(60), <1>0, ZeroBranch, LightNamed
    <2>3. Light(sr) BY ZenonT(60), <2>2, LightTwo
    <2> HIDE DEF sr
    <2> QED BY ZenonT(60), <2>1, <2>3, InvTypes, LightStart
  <1>3. CASE \E b \in Branches, code \in Codes : ReplyReceived(a, b, code)
    <2>1. PICK b \in Branches, code \in Codes : ReplyReceived(a, b, code) BY ZenonT(60), <1>3
    <2> DEFINE seen == last_received[b]
               restart == code < 200 /\ seen < code /\ (code >= 180 \/ seen = 0)
               op == Op("process_reply_and_timer", b, code, FALSE, restart, {})
    <2>2. /\ todo[a] = <<>> /\ todo' = [todo EXCEPT ![a] = <<op>>]
          /\ UNCHANGED <<cancel_buf, to_cancel, cancels>>
      BY ZenonT(60), <2>1 DEF ReplyReceived
    <2>3. restart \in BOOLEAN /\ code \in 0..699 BY ConstantsType
    <2> HIDE DEF restart
    <2>4. Light(<<op>>) BY ZenonT(60), <1>0, <2>3, LightNamed
    <2> HIDE DEF op
    <2> QED BY ZenonT(60), <2>2, <2>4, InvTypes, LightStart
  <1>4. CASE a = Timer /\ \E b \in Branches : FrFires(b)
    <2>1. PICK b \in Branches : FrFires(b) BY ZenonT(60), <1>4
    <2> DEFINE s == <<DoOn("cancel_timed_out", b)>>
               r == <<DoOn("fake_reply", b)>>
               sr == <<DoOn("cancel_timed_out", b), DoOn("fake_reply", b)>>
    <2>2. /\ todo[a] = <<>> /\ todo' = [todo EXCEPT ![a] = sr]
          /\ UNCHANGED <<cancel_buf, to_cancel, cancels>>
      BY ZenonT(60), <1>4, <2>1 DEF FrFires
    <2>3. Light(s) /\ Light(r) BY ZenonT(60), <1>0, LightNamed
    <2>4. Light(sr) BY ZenonT(60), <2>3, LightTwo
    <2> HIDE DEF sr
    <2> QED BY ZenonT(60), <2>2, <2>4, InvTypes, LightStart
  <1> QED BY ZenonT(60), <1>1, <1>2, <1>3, <1>4

\* Branches marked by which_cancel are about to be cancelled, by calls that had
\* them or by new ones.
LEMMA SelectStep ==
  ASSUME IInv, CancelInv, NEW a \in Actors, todo[a] # <<>>, NEW B, MarkBusy(B),
         \A b \in B : cancel_buf[b] = "null", UNCHANGED <<to_cancel, cancels>>,
         NEW more \in Seq(GoodOps), Done(a, more), Disjoint(more),
         \A op \in CallsOf(more) :
           op.name \notin FineNames /\ Selected(op) \subseteq B \cup Selected(Call(a))
  PROVE  CancelInv'
  <1>1. TodoType /\ CancelType BY ZenonT(60), InvTypes
  <1>2. \A b \in Branches : cancel_buf'[b] = IF b \in B THEN "busy" ELSE cancel_buf[b]
    BY ZenonT(60), <1>1, Marked
  <1>3. Selects(a, B, more) BY ZenonT(60), <1>2 DEF Selects
  <1> QED BY ZenonT(60), <1>1, <1>3, SelectsInv

\* The same, when all the calls are plain ones.
LEMMA PlainStep ==
  ASSUME IInv, CancelInv, NEW a \in Actors, todo[a] # <<>>, NEW B, MarkBusy(B),
         \A b \in B : cancel_buf[b] = "null", UNCHANGED <<to_cancel, cancels>>,
         NEW more \in Seq(PlainOps), Done(a, more), Disjoint(more),
         \A op \in CallsOf(more) : op.name # "flag_to_cancel" /\ op.bm \subseteq B
  PROVE  CancelInv'
  <1>1. /\ more \in Seq(GoodOps)
        /\ \A op \in CallsOf(more) : op.name \notin FineNames /\ Selected(op) \subseteq B
    BY ZenonT(60), PlainSelected
  <1>2. \A op \in CallsOf(more) :
          op.name \notin FineNames /\ Selected(op) \subseteq B \cup Selected(Call(a))
    BY ZenonT(60), <1>1
  <1> QED BY ZenonT(60), <1>1, <1>2, SelectStep

\* Nothing is marked.
LEMMA MarkedNone == ASSUME IInv, UNCHANGED cancel_buf PROVE MarkBusy({})
  <1>1. CancelType BY InvTypes
  <1> QED BY ZenonT(60), <1>1, MarkNone

\* What which_cancel is asked about.
LEMMA WhichNull ==
  ASSUME IInv, NEW X
  PROVE  LET W == WhichCancel(Current \ X)
         IN  /\ W \in SUBSET Branches /\ \A b \in W : cancel_buf[b] = "null"
  <1>1. Current \ X \in SUBSET Current /\ StateType BY InvTypes
  <1> QED BY ZenonT(60), <1>1, WhichCancelIn

\* The same when no branch is left out.
LEMMA WhichAll ==
  ASSUME IInv
  PROVE  /\ WhichCancel(Current) \in SUBSET Branches
         /\ \A b \in WhichCancel(Current) : cancel_buf[b] = "null"
  <1>1. Current \in SUBSET Current /\ StateType BY InvTypes
  <1> QED BY ZenonT(60), <1>1, WhichCancelIn

\* cancel_invite.
LEMMA CancelInviteCancel ==
  ASSUME IInv, CancelInv, NEW a \in Actors, CancelInvite(a)
  PROVE  CancelInv'
  <1> DEFINE W == WhichCancel(Current)
             s == CancelUacs(W)
  <1>1. todo[a] # <<>> /\ MarkBusy(W) /\ Done(a, s) /\ UNCHANGED <<to_cancel, cancels>>
    BY ZenonT(60) DEF CancelInvite, Calls
  <1>2. W \in SUBSET Branches /\ \A b \in W : cancel_buf[b] = "null" BY ZenonT(60), WhichAll
  <1> HIDE DEF W
  <1>3. /\ s \in Seq(PlainOps) /\ Disjoint(s)
        /\ \A op \in CallsOf(s) : op.name = "cancel_uacs" /\ op.bm = W
    BY ZenonT(60), <1>2, CancelUacsCalls
  <1> HIDE DEF s
  <1>4. \A op \in CallsOf(s) : op.name # "flag_to_cancel" /\ op.bm \subseteq W
    BY ONLY SMTT(10), ZenonT(30), SMTT(60), <1>3
  <1> QED BY ZenonT(60), <1>1, <1>2, <1>3, <1>4, PlainStep

\* The timer's should_cancel_branch.
LEMMA TimedOutCancel ==
  ASSUME IInv, CancelInv, ~FineCancel, CancelTimedOut
  PROVE  CancelInv'
  <1> DEFINE b == Call(Timer).b
             s == CancelUacs({b})
  <1>0. Timer \in Actors BY ZenonT(60) DEF Actors
  <1>1. /\ Calls(Timer, "cancel_timed_out") /\ todo[Timer] # <<>>
        /\ UNCHANGED <<to_cancel, cancels>>
    BY ZenonT(60) DEF CancelTimedOut, Calls
  <1>2. CASE ~(Invite /\ ShouldCancel(b))
    <2>1. MarkBusy({}) /\ Done(Timer, <<>>) BY ZenonT(60), <1>2 DEF CancelTimedOut
    <2>2. <<>> \in Seq(GoodOps) /\ Light(<<>>) BY ZenonT(60), LightNone DEF Light
    <2>3. /\ Disjoint(<<>>)
          /\ \A op \in CallsOf(<<>>) :
               op.name \notin FineNames /\ Selected(op) \subseteq {} \cup Selected(Call(Timer))
      BY ZenonT(60), CallsFew, DisjointFew
    <2> QED BY ZenonT(60), <1>0, <1>1, <2>1, <2>2, <2>3, SelectStep
  <1>3. CASE Invite /\ ShouldCancel(b)
    <2>1. MarkBusy({b}) /\ Done(Timer, s) BY ZenonT(60), <1>3 DEF CancelTimedOut
    <2>2. b \in Branches BY ZenonT(60), <1>0, <1>1, InvTypes, NextCall
    <2>3. {b} \in SUBSET Branches /\ \A c \in {b} : cancel_buf[c] = "null"
      BY ZenonT(60), <1>3, <2>2 DEF ShouldCancel
    <2> HIDE DEF b
    <2>4. /\ s \in Seq(PlainOps) /\ Disjoint(s)
          /\ \A op \in CallsOf(s) : op.name = "cancel_uacs" /\ op.bm = {b}
      BY ZenonT(60), <2>3, CancelUacsCalls
    <2> HIDE DEF s
    <2>5. \A op \in CallsOf(s) : op.name # "flag_to_cancel" /\ op.bm \subseteq {b}
      BY ONLY SMTT(10), ZenonT(30), SMTT(60), <2>4
    <2> QED BY ZenonT(60), <1>0, <1>1, <2>1, <2>3, <2>4, <2>5, PlainStep
  <1> QED BY ZenonT(60), <1>2, <1>3

\* t_reply.
LEMMA ReplyCancel ==
  ASSUME IInv, CancelInv, NEW a \in Actors, Reply(a)
  PROVE  CancelInv'
  <1> DEFINE code == Call(a).code
             x == Do("cleanup_uac_timers")
             y == Do("put_on_wait")
             s == AfterReplyLight(code)
             B == IF Invite /\ code >= 200 THEN WhichCancel(Current) ELSE {}
  <1>1. Calls(a, "t_reply") /\ todo[a] # <<>> /\ UNCHANGED <<to_cancel, cancels>>
    BY ZenonT(60) DEF Reply, Calls
  <1>2. \/ Done(a, <<x, y>>) /\ UNCHANGED cancel_buf
        \/ MarkBusy(B) /\ Done(a, s)
    BY ZenonT(60) DEF Reply, ReplyLight
  <1>3. CASE Done(a, <<x, y>>) /\ UNCHANGED cancel_buf
    <2>1. "cleanup_uac_timers" \in LightNames /\ "put_on_wait" \in LightNames
      BY ZenonT(60) DEF LightNames
    <2>2. Light(<<x>>) /\ Light(<<y>>) BY ZenonT(60), <2>1, ZeroBranch, LightNamed
    <2> HIDE DEF x, y
    <2>3. Light(<<x, y>>) BY ZenonT(60), <2>2, LightTwo
    <2> QED BY ZenonT(60), <1>1, <1>3, <2>3, InvTypes, LightStep
  <1>4. CASE MarkBusy(B) /\ Done(a, s)
    <2>1. code \in Nat
      <3>1. code \in 0..699 BY ZenonT(60), <1>1, InvTypes, NextCall
      <3> HIDE DEF code
      <3> QED BY ONLY SMTT(10), ZenonT(30), SMTT(60), <3>1
    <2> HIDE DEF code
    <2>2. /\ s \in Seq(PlainOps) /\ Disjoint(s)
          /\ \A op \in CallsOf(s) :
               /\ op.name # "flag_to_cancel" /\ ((code >= 200 /\ Invite) \/ op.bm = {})
               /\ op.bm \subseteq WhichCancel(Current)
      BY ZenonT(60), <2>1, InvTypes, AfterReplyCalls
    <2> HIDE DEF s
    <2>3. \A op \in CallsOf(s) : op.name # "flag_to_cancel" /\ op.bm \subseteq B
      BY ZenonT(60), <2>2
    <2>4. \A b \in B : cancel_buf[b] = "null" BY ZenonT(60), WhichAll
    <2> HIDE DEF B
    <2> QED BY ZenonT(60), <1>1, <1>4, <2>2, <2>3, <2>4, PlainStep
  <1> QED BY ZenonT(60), <1>2, <1>3, <1>4

\* cancel_branch runs on branch b, or b is flagged, by the process that selected
\* it; or nobody had selected it.
Touches(a, b, more) ==
    /\ todo[a] # <<>> /\ Done(a, more) /\ more \in Seq(GoodOps) /\ Disjoint(more)
    /\ \A op \in CallsOf(more) :
         op.name \notin FineNames /\ Selected(op) \subseteq Selected(Call(a)) \ {b}
    /\ Untouched(b) => b \in Selected(Call(a))
    /\ CancelOK(b)'
    /\ \A c \in Branches : c # b =>
         /\ cancel_buf'[c] = cancel_buf[c] /\ to_cancel'[c] = to_cancel[c]
         /\ cancels'[c] = cancels[c]

\* Such a step keeps the invariant.
LEMMA TouchStep ==
  ASSUME TodoType, CancelInv, NEW a \in Actors, NEW b \in Branches, NEW more,
         Touches(a, b, more)
  PROVE  CancelInv'
  <1>1. todo[a] # <<>> /\ Done(a, more) /\ more \in Seq(GoodOps) /\ Disjoint(more)
    BY ZenonT(60) DEF Touches
  <1>2. /\ \A c \in Actors : c # a => todo'[c] = todo[c]
        /\ todo'[a] = more \o Tail(todo[a])
        /\ Left(a)' = CallsOf(more) \cup CallsOf(Tail(todo[a]))
        /\ Left(a) = {Call(a)} \cup CallsOf(Tail(todo[a]))
    BY ZenonT(60), <1>1, DoneCalls
  <1>3. todo[a] \in Seq(GoodOps) /\ Disjoint(todo[a]) BY ZenonT(60) DEF TodoType, CancelInv
  <1>4. /\ Tail(todo[a]) \in Seq(GoodOps) /\ Disjoint(Tail(todo[a]))
        /\ \A x \in CallsOf(Tail(todo[a])) : Selected(Call(a)) \cap Selected(x) = {}
    BY ZenonT(60), <1>1, <1>3, CallsTail, DisjointTail DEF Call
  <1>5. ASSUME NEW x \in CallsOf(more), NEW y \in CallsOf(Tail(todo[a]))
        PROVE  Selected(x) \cap Selected(y) = {}
    BY ZenonT(60), <1>4, <1>5 DEF Touches
  <1>6. Disjoint(todo'[a]) BY ZenonT(60), <1>1, <1>2, <1>4, <1>5, DisjointCat
  <1>7. CallsOf(todo'[a]) = CallsOf(more) \cup CallsOf(Tail(todo[a]))
    BY ZenonT(60), <1>1, <1>2, <1>4, CallsCat
  <1>8. ASSUME NEW op \in CallsOf(todo'[a]) PROVE op.name \notin FineNames
    <2>1. CASE op \in CallsOf(more) BY ZenonT(60), <2>1 DEF Touches
    <2>2. CASE op \in CallsOf(Tail(todo[a]))
      <3>1. op \in Left(a) BY ZenonT(60), <1>2, <2>2
      <3> QED BY ZenonT(60), <3>1 DEF CancelInv
    <2> QED BY ZenonT(60), <1>7, <1>8, <2>1, <2>2
  <1>9. ASSUME NEW c \in Branches, Picks(a, c)' PROVE c # b /\ Picks(a, c)
    <2>1. PICK op \in Left(a)' : c \in Selected(op) BY ZenonT(60), <1>9 DEF Picks
    <2>2. CASE op \in CallsOf(more)
      <3>1. c \in Selected(Call(a)) /\ c # b BY ZenonT(60), <2>1, <2>2 DEF Touches
      <3> QED BY ZenonT(60), <1>2, <3>1 DEF Picks
    <2>3. CASE op \in CallsOf(Tail(todo[a]))
      <3>1. Picks(a, c) BY ZenonT(60), <1>2, <2>1, <2>3 DEF Picks
      <3>2. c \notin Selected(Call(a)) BY ZenonT(60), <1>4, <2>1, <2>3
      <3>3. Untouched(c) BY ZenonT(60), <3>1 DEF CancelInv
      <3> QED BY ZenonT(60), <3>1, <3>2, <3>3 DEF Touches
    <2> QED BY ZenonT(60), <1>2, <2>1, <2>2, <2>3
  <1>10. ASSUME NEW c \in Branches, c # b
         PROVE  CancelOK(c)' /\ (Untouched(c) => Untouched(c)')
    BY ZenonT(60), <1>10 DEF CancelInv, CancelOK, Untouched, Touches
  <1>11. ASSUME NEW c \in Branches, Picks(a, c)' PROVE Untouched(c)' /\ Picks(a, c)
    BY ZenonT(60), <1>9, <1>10, <1>11 DEF CancelInv
  <1>12. ASSUME NEW c \in Branches, Untouched(c), ~Picks(a, c) PROVE Untouched(c)'
    <2>1. c # b BY ZenonT(60), <1>2, <1>12 DEF Picks, Touches
    <2> QED BY ZenonT(60), <1>10, <1>12, <2>1
  <1>13. \A c \in Branches : CancelOK(c)' BY ZenonT(60), <1>10 DEF Touches
  <1>14. CancelStep(a) BY ZenonT(60), <1>2, <1>6, <1>8, <1>11, <1>12, <1>13 DEF CancelStep
  <1> QED BY ZenonT(60), <1>14, CancelStepInv

\* The effects of cancel_branch.
LEMMA CancelledBranch ==
  ASSUME CancelType, NEW b \in Branches, CancelBranch(b), cancels[b] = 0
  PROVE  /\ cancel_buf'[b] = "built" /\ cancels'[b] = 1
         /\ \A c \in Branches : c # b => cancel_buf'[c] = cancel_buf[c] /\ cancels'[c] = cancels[c]
  <1>1. cancel_buf' = [cancel_buf EXCEPT ![b] = "built"] /\ cancels' = [cancels EXCEPT ![b] = 1]
    BY DEF CancelBranch
  <1> QED BY ZenonT(60), <1>1 DEF CancelType

\* A branch that is flagged no more was cancelled, or its final reply came first.
LEMMA OnceOK ==
  ASSUME NEW b, ~to_cancel'[b],
         cancels'[b] = 0 \/ (cancels'[b] = 1 /\ cancel_buf'[b] = "built")
  PROVE  CancelOK(b)'
  <1>1. 0 <= 1 /\ 1 <= 1 /\ "built" # "null" OBVIOUS
  <1> QED BY ZenonT(60), <1>1 DEF CancelOK

\* A branch that is flagged was not cancelled.
LEMMA FlaggedOK ==
  ASSUME NEW b, cancel_buf'[b] = "busy", cancels'[b] = 0
  PROVE  CancelOK(b)'
  <1>1. 0 <= 1 OBVIOUS
  <1> QED BY ZenonT(60), <1>1 DEF CancelOK

\* One round of cancel_uacs: the branch leaves the bitmap.
LEMMA CancelUacCancel ==
  ASSUME IInv, CancelInv, ~FineCancel, NEW a \in Actors, CancelUac(a)
  PROVE  CancelInv'
  <1> DEFINE B == Call(a).bm
  <1> PICK b : b = Lowest(B) OBVIOUS
  <1> DEFINE rest == ForEach("cancel_uacs", B \ {b})
  <1>0. TodoType /\ CancelType BY InvTypes
  <1>1. Calls(a, "cancel_uacs") /\ todo[a] # <<>> /\ Done(a, rest)
    BY ZenonT(60) DEF CancelUac, Calls
  <1>2. \/ CancelBranch(b) /\ UNCHANGED to_cancel
        \/ UNCHANGED <<cancel_buf, cancels>> /\ to_cancel' = [to_cancel EXCEPT ![b] = TRUE]
    BY ZenonT(60) DEF CancelUac
  <1>3. /\ B \in SUBSET Branches /\ b \in B /\ Call(a).name = "cancel_uacs"
        /\ Call(a) \in Left(a)
    <2>1. /\ Call(a).bm \in SUBSET Branches /\ Lowest(Call(a).bm) \in Call(a).bm
          /\ Call(a).name = "cancel_uacs" /\ Call(a) \in Left(a)
      BY ZenonT(60), <1>0, <1>1, NextCall
    <2> QED BY ZenonT(60), <2>1
  <1>4. Selected(Call(a)) = B BY <1>3 DEF Selected
  <1> HIDE DEF B
  <1>5. b \in Branches /\ B \ {b} \in SUBSET Branches BY ZenonT(60), <1>3
  <1>6. Untouched(b)
    <2>1. Picks(a, b) BY ZenonT(60), <1>3, <1>4 DEF Picks
    <2> QED BY ZenonT(60), <1>5, <2>1 DEF CancelInv
  <1>7. /\ rest \in Seq(PlainOps) /\ Disjoint(rest)
        /\ \A op \in CallsOf(rest) : op.name = "cancel_uacs" /\ op.bm = B \ {b}
    BY ZenonT(60), <1>5, ForEachCalls
  <1> HIDE DEF rest
  <1>8. \A op \in CallsOf(rest) : op.name # "flag_to_cancel" /\ op.bm \subseteq B \ {b}
    BY ONLY SMTT(10), ZenonT(30), SMTT(60), <1>7
  <1>9. /\ rest \in Seq(GoodOps)
        /\ \A op \in CallsOf(rest) : op.name \notin FineNames /\ Selected(op) \subseteq B \ {b}
    BY ZenonT(60), <1>7, <1>8, PlainSelected
  <1>10. /\ CancelOK(b)'
         /\ \A c \in Branches : c # b =>
              /\ cancel_buf'[c] = cancel_buf[c] /\ to_cancel'[c] = to_cancel[c]
              /\ cancels'[c] = cancels[c]
    <2>1. CASE CancelBranch(b) /\ UNCHANGED to_cancel
      <3>1. /\ cancel_buf'[b] = "built" /\ cancels'[b] = 1
            /\ \A c \in Branches :
                 c # b => cancel_buf'[c] = cancel_buf[c] /\ cancels'[c] = cancels[c]
        BY ZenonT(60), <1>0, <1>5, <1>6, <2>1, CancelledBranch DEF Untouched
      <3>2. ~to_cancel'[b] BY ZenonT(60), <1>6, <2>1 DEF Untouched
      <3>3. CancelOK(b)' BY ZenonT(60), <3>1, <3>2, OnceOK
      <3> QED BY ZenonT(60), <2>1, <3>1, <3>3
    <2>2. CASE UNCHANGED <<cancel_buf, cancels>> /\ to_cancel' = [to_cancel EXCEPT ![b] = TRUE]
      <3>1. \A c \in Branches : c # b => to_cancel'[c] = to_cancel[c]
        BY ZenonT(60), <1>0, <2>2 DEF CancelType
      <3>2. cancel_buf'[b] = "busy" /\ cancels'[b] = 0 BY ZenonT(60), <1>6, <2>2 DEF Untouched
      <3>3. CancelOK(b)' BY ZenonT(60), <3>2, FlaggedOK
      <3> QED BY ZenonT(60), <2>2, <3>1, <3>3
    <2> QED BY ZenonT(60), <1>2, <2>1, <2>2
  <1>11. Touches(a, b, rest)
    BY ZenonT(60), <1>1, <1>3, <1>4, <1>7, <1>9, <1>10 DEF Touches
  <1> QED BY ZenonT(60), <1>0, <1>5, <1>11, TouchStep

\* process_reply_and_timer sends a pending CANCEL.
LEMMA ProcessReplyCancel ==
  ASSUME IInv, CancelInv, NEW a \in Actors, ProcessReply(a)
  PROVE  CancelInv'
  <1> PICK b : b = Call(a).b OBVIOUS
  <1> DEFINE code == Call(a).code
             pending == to_cancel[b] \/ (was_cancelled /\ cancel_buf[b] = "null")
             op == Op("relay_reply", b, code, FALSE, Call(a).restart, {})
  <1>0. TodoType /\ CancelType BY InvTypes
  <1>1. /\ Calls(a, "process_reply_and_timer") /\ todo[a] # <<>> /\ Done(a, <<op>>)
        /\ to_cancel' = [to_cancel EXCEPT ![b] = @ /\ ~pending]
        /\ IF pending /\ code < 200 THEN CancelBranch(b) ELSE UNCHANGED <<cancel_buf, cancels>>
    BY ZenonT(60) DEF ProcessReply, Calls
  <1>2. b \in Branches /\ code \in 0..699 /\ Call(a).restart \in BOOLEAN
    BY ZenonT(60), <1>0, <1>1, NextCall
  <1>3. Light(<<op>>)
    <2>1. "relay_reply" \in LightNames /\ FALSE \in BOOLEAN BY ZenonT(60) DEF LightNames
    <2> HIDE DEF code
    <2> QED BY ZenonT(60), <1>2, <2>1, LightNamed
  <1> HIDE DEF op
  <1>4. to_cancel \in [Branches -> BOOLEAN] BY ZenonT(60), <1>0 DEF CancelType
  <1>5. CancelOK(b) BY ZenonT(60), <1>2 DEF CancelInv
  <1>6. CASE pending
    <2>1. ~Untouched(b) BY ONLY ZenonT(60), <1>6 DEF Untouched
    <2>2. cancels[b] = 0 BY ONLY SMTT(10), ZenonT(30), SMTT(60), <1>5, <1>6 DEF CancelOK
    <2>3. /\ ~to_cancel'[b]
          /\ \A c \in Branches : c # b => to_cancel'[c] = to_cancel[c]
      <3> HIDE DEF pending
      <3>1. to_cancel' = [to_cancel EXCEPT ![b] = FALSE] BY ZenonT(60), <1>1, <1>6
      <3> QED BY ZenonT(60), <1>2, <1>4, <3>1
    <2> HIDE DEF pending
    <2>4. /\ CancelOK(b)'
          /\ \A c \in Branches :
               c # b => cancel_buf'[c] = cancel_buf[c] /\ cancels'[c] = cancels[c]
      <3>1. CASE code < 200
        <4>1. CancelBranch(b) BY ZenonT(60), <1>1, <1>6, <3>1
        <4>2. /\ cancel_buf'[b] = "built" /\ cancels'[b] = 1
              /\ \A c \in Branches :
                   c # b => cancel_buf'[c] = cancel_buf[c] /\ cancels'[c] = cancels[c]
          BY ZenonT(60), <1>0, <1>2, <2>2, <4>1, CancelledBranch
        <4>3. CancelOK(b)' BY ZenonT(60), <2>3, <4>2, OnceOK
        <4> QED BY ZenonT(60), <4>2, <4>3
      <3>2. CASE ~(code < 200)
        <4>1. UNCHANGED <<cancel_buf, cancels>> BY ZenonT(60), <1>1, <3>2
        <4>2. cancels'[b] = 0 BY ZenonT(60), <2>2, <4>1
        <4>3. CancelOK(b)' BY ZenonT(60), <2>3, <4>2, OnceOK
        <4> QED BY ZenonT(60), <4>1, <4>3
      <3> QED BY ZenonT(60), <3>1, <3>2
    <2>5. <<op>> \in Seq(GoodOps) /\ Disjoint(<<op>>) BY ZenonT(60), <1>3, DisjointFew DEF Light
    <2>6. \A x \in CallsOf(<<op>>) :
            x.name \notin FineNames /\ Selected(x) \subseteq Selected(Call(a)) \ {b}
      BY ZenonT(60), <1>3 DEF Light
    <2>7. Touches(a, b, <<op>>)
      BY ZenonT(60), <1>1, <2>1, <2>3, <2>4, <2>5, <2>6 DEF Touches
    <2> QED BY ZenonT(60), <1>0, <1>2, <2>7, TouchStep
  <1>7. CASE ~pending
    <2>1. UNCHANGED <<cancel_buf, cancels>> BY ZenonT(60), <1>1, <1>7
    <2>2. to_cancel' = [to_cancel EXCEPT ![b] = FALSE] /\ to_cancel[b] = FALSE
      <3>1. to_cancel[b] = FALSE BY ZenonT(60), <1>2, <1>4, <1>7
      <3> QED BY ZenonT(60), <1>1, <3>1
    <2>3. to_cancel' = to_cancel
      <3> QED BY <1>2, <1>4, <2>2
    <2> QED BY ZenonT(60), <1>0, <1>1, <1>3, <2>1, <2>3, LightStep
  <1> QED BY ZenonT(60), <1>6, <1>7

\* Calls that cancel branches of B, each by one of them.
Cancels(s, B) ==
    /\ s \in Seq(GoodOps) /\ Disjoint(s)
    /\ \A op \in CallsOf(s) : op.name \notin FineNames /\ Selected(op) \subseteq B

\* Calls that cancel nothing are such.
LEMMA LightCancels == ASSUME NEW s, Light(s), NEW B PROVE Cancels(s, B)
  <1>1. Disjoint(s) BY ZenonT(60), DisjointFew DEF Light
  <1> QED BY ZenonT(60), <1>1 DEF Cancels, Light

\* So are some of them, followed by calls that cancel other branches.
LEMMA CancelsCat ==
  ASSUME NEW s, NEW r, NEW B, NEW C, Cancels(s, B), Cancels(r, C), B \cap C = {}
  PROVE  Cancels(s \o r, B \cup C)
  <1>1. /\ s \in Seq(GoodOps) /\ Disjoint(s) /\ r \in Seq(GoodOps) /\ Disjoint(r)
    BY ZenonT(60) DEF Cancels
  <1>2. s \o r \in Seq(GoodOps) /\ CallsOf(s \o r) = CallsOf(s) \cup CallsOf(r)
    BY ZenonT(60), <1>1, CallsCat
  <1>3. ASSUME NEW x \in CallsOf(s), NEW y \in CallsOf(r)
        PROVE  Selected(x) \cap Selected(y) = {}
    <2>1. Selected(x) \subseteq B /\ Selected(y) \subseteq C BY ZenonT(60), <1>3 DEF Cancels
    <2> QED BY ONLY ZenonT(60), <2>1, B \cap C = {}
  <1>4. Disjoint(s \o r) BY ZenonT(60), <1>1, <1>3, DisjointCat
  <1>5. ASSUME NEW op \in CallsOf(s \o r)
        PROVE  op.name \notin FineNames /\ Selected(op) \subseteq B \cup C
    <2>1. CASE op \in CallsOf(s) BY ZenonT(60), <2>1 DEF Cancels
    <2>2. CASE op \in CallsOf(r) BY ZenonT(60), <2>2 DEF Cancels
    <2> QED BY ZenonT(60), <1>2, <1>5, <2>1, <2>2
  <1> QED BY ZenonT(60), <1>2, <1>4, <1>5 DEF Cancels

\* The calls that follow RPS_COMPLETED, and the loop of cancel_uacs.
LEMMA CompletedCancels ==
  ASSUME NEW code, NEW fake \in BOOLEAN, NEW bm \in SUBSET Branches
  PROVE  Cancels(Completed(code, fake, bm), bm) /\ Cancels(ForEach("cancel_uacs", bm), bm)
  <1> DEFINE s == Completed(code, fake, bm)
             r == ForEach("cancel_uacs", bm)
  <1>1. /\ s \in Seq(PlainOps) /\ Disjoint(s)
        /\ \A op \in CallsOf(s) : op.name # "flag_to_cancel" /\ op.bm \subseteq bm
    BY ZenonT(60), CompletedCalls
  <1>2. /\ r \in Seq(PlainOps) /\ Disjoint(r)
        /\ \A op \in CallsOf(r) : op.name = "cancel_uacs" /\ op.bm = bm
    BY ZenonT(60), ForEachCalls
  <1> HIDE DEF s, r
  <1>3. \A op \in CallsOf(r) : op.name # "flag_to_cancel" /\ op.bm \subseteq bm BY ONLY ZenonT(60), <1>2
  <1>4. Cancels(s, bm) BY ZenonT(60), <1>1, PlainSelected DEF Cancels
  <1>5. Cancels(r, bm) BY ZenonT(60), <1>2, <1>3, PlainSelected DEF Cancels
  <1> QED BY ZenonT(60), <1>4, <1>5 DEF s, r

\* The same for _reply_light, with the branches it marks.
LEMMA ReplyLightCancels ==
  ASSUME IInv, NEW c \in Nat
  PROVE  LET B == IF Invite /\ c >= 200 THEN WhichCancel(Current) ELSE {}
         IN  Cancels(AfterReplyLight(c), B) /\ \A b \in B : cancel_buf[b] = "null"
  <1> DEFINE s == AfterReplyLight(c)
             B == IF Invite /\ c >= 200 THEN WhichCancel(Current) ELSE {}
  <1>1. /\ s \in Seq(PlainOps) /\ Disjoint(s)
        /\ \A op \in CallsOf(s) :
             /\ op.name # "flag_to_cancel" /\ ((c >= 200 /\ Invite) \/ op.bm = {})
             /\ op.bm \subseteq WhichCancel(Current)
    BY ZenonT(60), InvTypes, AfterReplyCalls
  <1> HIDE DEF s
  <1>2. \A op \in CallsOf(s) : op.name # "flag_to_cancel" /\ op.bm \subseteq B
    BY ZenonT(60), <1>1
  <1>3. \A b \in B : cancel_buf[b] = "null" BY ZenonT(60), WhichAll
  <1> HIDE DEF B
  <1>4. Cancels(s, B) BY ZenonT(60), <1>1, <1>2, PlainSelected DEF Cancels
  <1> QED BY ZenonT(60), <1>3, <1>4 DEF s, B

\* A step that marks branches and makes such calls.
LEMMA MarkStep ==
  ASSUME IInv, CancelInv, NEW a \in Actors, NEW name, Calls(a, name), NEW B, MarkBusy(B),
         \A b \in B : cancel_buf[b] = "null", UNCHANGED <<to_cancel, cancels>>,
         NEW more, Done(a, more), Cancels(more, B \cup Selected(Call(a)))
  PROVE  CancelInv'
  <1>1. todo[a] # <<>> BY ZenonT(60) DEF Calls
  <1>2. /\ more \in Seq(GoodOps) /\ Disjoint(more)
        /\ \A op \in CallsOf(more) :
             op.name \notin FineNames /\ Selected(op) \subseteq B \cup Selected(Call(a))
    BY ZenonT(60) DEF Cancels
  <1> QED BY ZenonT(60), <1>1, <1>2, SelectStep

\* A process that handles a reply has a bitmap of its own.
LEMMA HandlerSelects ==
  ASSUME IInv, CancelInv, NEW a \in Actors, Calls(a, "on_failure")
  PROVE  /\ Selected(Call(a)) = Call(a).bm /\ Call(a).bm \in SUBSET Branches
         /\ Call(a).fake \in BOOLEAN
         /\ \A b \in Call(a).bm : cancel_buf[b] # "null"
  <1>1. /\ Call(a) \in Left(a) /\ Call(a).name = "on_failure"
        /\ Call(a).bm \in SUBSET Branches /\ Call(a).fake \in BOOLEAN
    BY ZenonT(60), InvTypes, NextCall
  <1>2. Selected(Call(a)) = Call(a).bm BY ZenonT(60), <1>1 DEF Selected
  <1>3. ASSUME NEW b \in Call(a).bm PROVE cancel_buf[b] # "null"
    <2>1. b \in Branches /\ Picks(a, b) BY ZenonT(60), <1>1, <1>2, <1>3 DEF Picks
    <2>2. Untouched(b) BY ZenonT(60), <2>1 DEF CancelInv
    <2> QED BY ONLY ZenonT(60), <2>2 DEF Untouched
  <1> QED BY ZenonT(60), <1>1, <1>2, <1>3

\* The failure handlers: the branches selected by a 6xx are cancelled at the end.
LEMMA OnFailureCancel ==
  ASSUME IInv, CancelInv, NEW a \in Actors, OnFailure(a)
  PROVE  CancelInv'
  <1> DEFINE bm == Call(a).bm
             done == Completed(last_received[Call(a).code], Call(a).fake, bm)
             u == <<Do("UNLOCK_REPLIES")>>
             r == Completed(0, Call(a).fake, bm)
  <1>1. Calls(a, "on_failure") /\ UNCHANGED <<to_cancel, cancels>>
    BY ZenonT(60) DEF OnFailure
  <1>2. \/ Done(a, done) /\ UNCHANGED cancel_buf
        \/ Done(a, <<>>) /\ UNCHANGED cancel_buf
        \/ \E c \in ScriptCodes : ReplyLight(c) /\ Done(a, AfterReplyLight(c) \o u \o r)
    BY ZenonT(60) DEF OnFailure
  <1>3. /\ Selected(Call(a)) = bm /\ bm \in SUBSET Branches
        /\ Call(a).fake \in BOOLEAN /\ \A b \in bm : cancel_buf[b] # "null"
    BY ZenonT(60), <1>1, HandlerSelects
  <1>4. Cancels(done, bm) /\ Cancels(r, bm) BY ZenonT(60), <1>3, CompletedCancels
  <1>5. Light(u)
    <2>1. "UNLOCK_REPLIES" \in LightNames BY ZenonT(60) DEF LightNames
    <2> QED BY ZenonT(60), <2>1, ZeroBranch, LightNamed
  <1> HIDE DEF done, u, r, bm
  <1>6. CASE Done(a, done) /\ UNCHANGED cancel_buf
    <2>1. MarkBusy({}) BY ZenonT(60), <1>6, MarkedNone
    <2>2. {} \cup bm = bm BY ONLY ZenonT(60)
    <2>3. Cancels(done, {} \cup Selected(Call(a))) BY ZenonT(60), <1>3, <1>4, <2>2
    <2> QED BY ZenonT(60), <1>1, <1>6, <2>1, <2>3, MarkStep
  <1>7. CASE Done(a, <<>>) /\ UNCHANGED cancel_buf
    BY ZenonT(60), <1>1, <1>7, InvTypes, NoMore
  <1>8. CASE \E c \in ScriptCodes : ReplyLight(c) /\ Done(a, AfterReplyLight(c) \o u \o r)
    <2>1. PICK c \in ScriptCodes : ReplyLight(c) /\ Done(a, AfterReplyLight(c) \o u \o r)
      BY ZenonT(60), <1>8
    <2>2. c \in Nat BY ConstantsType
    <2> DEFINE s == AfterReplyLight(c)
               B == IF Invite /\ c >= 200 THEN WhichCancel(Current) ELSE {}
    <2>3. MarkBusy(B) BY ZenonT(60), <2>1 DEF ReplyLight
    <2>4. Cancels(s, B) /\ \A b \in B : cancel_buf[b] = "null"
      BY ZenonT(60), <2>2, ReplyLightCancels
    <2> HIDE DEF s, B
    <2>5. B \cap {} = {} /\ B \cup {} = B BY ONLY ZenonT(60)
    <2>6. Cancels(s \o u, B)
      <3>1. Cancels(u, {}) BY ZenonT(60), <1>5, LightCancels
      <3>2. Cancels(s \o u, B \cup {}) BY ZenonT(60), <2>4, <2>5, <3>1, CancelsCat
      <3> QED BY ZenonT(60), <2>5, <3>2
    <2>7. B \cap bm = {} BY ZenonT(60), <1>3, <2>4
    <2>8. Cancels(s \o u \o r, B \cup Selected(Call(a)))
      BY ZenonT(60), <1>3, <1>4, <2>6, <2>7, CancelsCat
    <2>9. Done(a, s \o u \o r) BY ZenonT(60), <2>1 DEF s
    <2> QED BY ZenonT(60), <1>1, <2>3, <2>4, <2>8, <2>9, MarkStep
  <1> QED BY ZenonT(60), <1>2, <1>6, <1>7, <1>8

\* A 2xx: the other branches are selected, and cancelled at the end.
LEMMA Relay2xxCancel ==
  ASSUME IInv, CancelInv, NEW a \in Actors, Relay2xx(a)
  PROVE  CancelInv'
  <1> DEFINE W == WhichCancel(Current \ {Call(a).b})
             B == IF multi_200ok THEN {} ELSE W
             done == Completed(Call(a).code, Call(a).fake, B)
  <1>1. /\ Relaying(a) /\ Calls(a, "relay_reply") /\ UNCHANGED <<to_cancel, cancels>>
        /\ MarkBusy(B) /\ (Done(a, <<>>) \/ Done(a, done))
    BY ZenonT(60) DEF Relay2xx, Relaying
  <1>2. Call(a).fake \in BOOLEAN BY ZenonT(60), <1>1, Relays
  <1>3. W \in SUBSET Branches /\ \A b \in W : cancel_buf[b] = "null" BY ZenonT(60), WhichNull
  <1> HIDE DEF W
  <1>4. B \in SUBSET Branches /\ \A b \in B : cancel_buf[b] = "null" BY ZenonT(60), <1>3
  <1> HIDE DEF B
  <1>5. Cancels(done, B) BY ZenonT(60), <1>2, <1>4, CompletedCancels
  <1>6. Cancels(<<>>, B) BY ZenonT(60), LightNone, LightCancels
  <1> HIDE DEF done
  <1>7. \A s : Cancels(s, B) => Cancels(s, B \cup Selected(Call(a)))
    BY ZenonT(60) DEF Cancels
  <1> QED BY ZenonT(60), <1>1, <1>4, <1>5, <1>6, <1>7, MarkStep

\* Further 2xx replies and provisional ones select nothing.
LEMMA RelayLightCancel ==
  ASSUME IInv, CancelInv, NEW a \in Actors, RelayMulti2xx(a) \/ RelayProvisional(a)
  PROVE  CancelInv'
  <1> DEFINE done == Completed(Call(a).code, Call(a).fake, {})
             timer == <<DoOn("set_timer", Call(a).b)>>
  <1>1. /\ Relaying(a) /\ Calls(a, "relay_reply")
        /\ UNCHANGED <<cancel_buf, to_cancel, cancels>>
        /\ Done(a, <<>>) \/ Done(a, done) \/ Done(a, timer)
    BY ZenonT(60) DEF RelayMulti2xx, RelayProvisional, Relaying
  <1>2. Call(a).fake \in BOOLEAN /\ Call(a).b \in Branches BY ZenonT(60), <1>1, Relays
  <1>3. Cancels(done, {})
    <2>1. {} \in SUBSET Branches BY ONLY ZenonT(60)
    <2> QED BY ZenonT(60), <1>2, <2>1, CompletedCancels
  <1>4. Light(timer)
    <2>1. "set_timer" \in LightNames BY ZenonT(60) DEF LightNames
    <2> QED BY ZenonT(60), <1>2, <2>1, LightNamed
  <1> HIDE DEF done, timer
  <1>5. Cancels(timer, {}) /\ Cancels(<<>>, {}) BY ZenonT(60), <1>4, LightNone, LightCancels
  <1>6. \A s : Cancels(s, {}) => Cancels(s, {} \cup Selected(Call(a)))
    BY ZenonT(60) DEF Cancels
  <1>7. MarkBusy({}) BY ZenonT(60), <1>1, MarkedNone
  <1> QED BY ZenonT(60), <1>1, <1>3, <1>5, <1>6, <1>7, MarkStep

\* The same for the 408 that the timer process makes up.
LEMMA FakeReplyCancel ==
  ASSUME IInv, CancelInv, FakeReply
  PROVE  CancelInv'
  <1> DEFINE b == Call(Timer).b
             s == <<Op("relay_reply", b, 408, TRUE, FALSE, {})>>
  <1>0. Timer \in Actors BY ZenonT(60) DEF Actors
  <1>1. /\ Calls(Timer, "fake_reply") /\ todo[Timer] # <<>>
        /\ UNCHANGED <<cancel_buf, to_cancel, cancels>> /\ Done(Timer, s)
    BY ZenonT(60) DEF FakeReply, Calls, bvars
  <1>2. b \in Branches BY ZenonT(60), <1>0, <1>1, InvTypes, NextCall
  <1> HIDE DEF b
  <1>3. "relay_reply" \in LightNames /\ 408 \in 0..699 /\ TRUE \in BOOLEAN /\ FALSE \in BOOLEAN
    BY DEF LightNames
  <1>4. Light(s) BY ZenonT(60), <1>2, <1>3, LightNamed
  <1> HIDE DEF s
  <1> QED BY ZenonT(60), <1>0, <1>1, <1>4, InvTypes, LightStep

\* The call of the failure handlers with the branches they are to cancel.
LEMMA FailureCancels ==
  ASSUME NEW a, Call(a).b \in Branches, Call(a).fake \in BOOLEAN,
         NEW p \in Branches, NEW bm \in SUBSET Branches
  PROVE  Cancels(<<FailureOp(a, p, bm)>>, bm)
  <1> PICK op : op = FailureOp(a, p, bm) OBVIOUS
  <1>1. op \in GoodOps /\ op.name = "on_failure" BY ZenonT(60), FailureGood
  <1>2. op.bm = bm
    BY ONLY SMTT(10), ZenonT(30), SMTT(60), op = FailureOp(a, p, bm) DEF FailureOp, Op
  <1>3. op.name \notin FineNames /\ Selected(op) = bm
    BY ONLY SMTT(10), ZenonT(30), SMTT(60), <1>1, <1>2 DEF FineNames, Selected
  <1>4. <<op>> \in Seq(GoodOps) BY ONLY SMTT(10), ZenonT(30), SMTT(60), <1>1
  <1>5. Cancels(<<op>>, bm) BY ZenonT(60), <1>3, <1>4, CallsFew, DisjointFew DEF Cancels
  <1> QED BY ZenonT(60), <1>5

\* A negative reply: a 6xx, and the last one if minor branches are open, select.
LEMMA RelayNegativeCancel ==
  ASSUME IInv, CancelInv, NEW a \in Actors, RelayNegative(a)
  PROVE  CancelInv'
  <1> DEFINE b == Call(a).b
             received == [last_received EXCEPT ![b] = Call(a).code]
             p == Pick(received)
             W == WhichCancel(Current \ {b})
             x == <<Do("cleanup_uac_timers")>>
             y == ForEach("cancel_uacs", W)
             z == <<FailureOp(a, p, {})>>
             t == <<FailureOp(a, b, W)>>
  <1>1. /\ Relaying(a) /\ Calls(a, "relay_reply") /\ UNCHANGED <<to_cancel, cancels>>
        /\ \/ MarkBusy(W) /\ Done(a, t)
           \/ UNCHANGED cancel_buf /\ Done(a, <<>>)
           \/ p >= 0 /\ UNCHANGED cancel_buf /\ Done(a, z)
           \/ p >= 0 /\ MarkBusy(W) /\ Done(a, x \o y \o z)
    BY ZenonT(60) DEF RelayNegative, Relaying, FailureOp
  <1>2. b \in Branches /\ Call(a).fake \in BOOLEAN /\ Call(a).code \in 0..699
    BY ZenonT(60), <1>1, Relays
  <1>3. p >= 0 => p \in Branches
    <2>1. StateType /\ BranchType /\ CountType BY InvTypes
    <2>2. received \in [Branches -> 0..699]
      <3> DEFINE S == 0..699
                 code == Call(a).code
      <3>1. last_received \in [Branches -> S] /\ code \in S
        BY ZenonT(60), <1>2, <2>1 DEF BranchType
      <3> HIDE DEF S, b, code
      <3>2. [last_received EXCEPT ![b] = code] \in [Branches -> S]
        BY ZenonT(60), <1>2, <3>1, OneReceived
      <3> QED BY ZenonT(60), <3>2 DEF S, code
    <2> HIDE DEF received
    <2>3. p >= 0 => p \in Current
      BY ZenonT(60), <2>1, <2>2, PickProps DEF BestOf, Choices, Candidates
    <2>4. Current \subseteq Branches BY <2>1, ConstantsType DEF Current, Branches, CountType
    <2> QED BY ZenonT(60), <2>3, <2>4
  <1>4. W \in SUBSET Branches /\ \A c \in W : cancel_buf[c] = "null" BY ZenonT(60), WhichNull
  <1>5. Cancels(t, W)
    <2> HIDE DEF W
    <2> QED BY ZenonT(60), <1>2, <1>4, FailureCancels
  <1>6. p >= 0 => Cancels(z, {})
    <2> HIDE DEF p
    <2>1. {} \in SUBSET Branches BY ONLY ZenonT(60)
    <2> QED BY ZenonT(60), <1>2, <1>3, <2>1, FailureCancels
  <1>7. Cancels(y, W)
    <2> HIDE DEF W
    <2> QED BY ZenonT(60), <1>2, <1>4, CompletedCancels
  <1>8. Cancels(x, {})
    <2>1. "cleanup_uac_timers" \in LightNames BY ZenonT(60) DEF LightNames
    <2>2. Light(x) BY ZenonT(60), <2>1, ZeroBranch, LightNamed
    <2> HIDE DEF x
    <2> QED BY ZenonT(60), <2>2, LightCancels
  <1> HIDE DEF p, W, x, y, z, t
  <1>9. p >= 0 => Cancels(x \o y \o z, W)
    <2>1. {} \cap W = {} /\ {} \cup W = W /\ W \cap {} = {} /\ W \cup {} = W
      BY ONLY ZenonT(60)
    <2>2. Cancels(x \o y, {} \cup W) BY ONLY ZenonT(60), <1>7, <1>8, <2>1, CancelsCat
    <2>3. Cancels(x \o y, W) BY ONLY ZenonT(60), <2>1, <2>2
    <2>4. p >= 0 => Cancels(x \o y \o z, W \cup {})
      BY ONLY ZenonT(60), <1>6, <2>1, <2>3, CancelsCat
    <2> QED BY ONLY ZenonT(60), <2>1, <2>4
  <1>10. \A s, B : Cancels(s, B) => Cancels(s, B \cup Selected(Call(a)))
    BY ZenonT(60) DEF Cancels
  <1>11. CASE UNCHANGED cancel_buf /\ (Done(a, <<>>) \/ (p >= 0 /\ Done(a, z)))
    <2>1. MarkBusy({}) BY ZenonT(60), <1>11, MarkedNone
    <2>2. Cancels(<<>>, {}) BY ZenonT(60), LightNone, LightCancels
    <2> QED BY ZenonT(60), <1>1, <1>6, <1>10, <1>11, <2>1, <2>2, MarkStep
  <1>12. CASE MarkBusy(W) /\ (Done(a, t) \/ (p >= 0 /\ Done(a, x \o y \o z)))
    BY ZenonT(60), <1>1, <1>4, <1>5, <1>9, <1>10, <1>12, MarkStep
  <1> QED BY ZenonT(60), <1>1, <1>11, <1>12

\* A step that selects and cancels nothing.
LEMMA StillCancel ==
  ASSUME CancelInv, UNCHANGED <<todo, cancel_buf, to_cancel, cancels>>
  PROVE  CancelInv'
  <1>1. \A a \in Actors : Left(a)' = Left(a) BY ZenonT(60) DEF Left
  <1>2. \A a \in Actors, b \in Branches : Picks(a, b)' <=> Picks(a, b)
    BY ZenonT(60), <1>1 DEF Picks
  <1>3. \A b \in Branches : (Untouched(b)' <=> Untouched(b)) /\ (CancelOK(b)' <=> CancelOK(b))
    BY ZenonT(60) DEF Untouched, CancelOK
  <1> QED BY ZenonT(60), <1>1, <1>2, <1>3 DEF CancelInv

\* The calls that take the test and the write apart are not made.
LEMMA NotFine ==
  ASSUME IInv, CancelInv, NEW a \in Actors, NEW name \in FineNames, Calls(a, name)
  PROVE  FALSE
  <1>1. Call(a) \in Left(a) /\ Call(a).name = name BY ZenonT(60), InvTypes, NextCall
  <1> QED BY ZenonT(60), <1>1 DEF CancelInv

\* Nothing is selected at first.
LEMMA InitCancel == ASSUME Init PROVE CancelInv
  <1> DEFINE x == Do("t_forward_nonack")
  <1>1. PICK w \in Workers : todo = [a \in Actors |-> IF a = w THEN <<x>> ELSE <<>>]
    BY ZenonT(60) DEF Init
  <1>2. x.name \notin FineNames /\ Selected(x) = {} BY DEF Do, Op, FineNames, Selected
  <1> HIDE DEF x
  <1>3. CallsOf(<<x>>) = {x} /\ CallsOf(<<>>) = {} /\ Disjoint(<<x>>) /\ Disjoint(<<>>)
    BY ZenonT(60), CallsFew, DisjointFew
  <1>4. \A a \in Actors : todo[a] = <<x>> \/ todo[a] = <<>> BY ZenonT(60), <1>1
  <1>5. ASSUME NEW a \in Actors
        PROVE  Disjoint(todo[a]) /\ \A op \in Left(a) : op = x
    BY ZenonT(60), <1>3, <1>4 DEF Left
  <1>6. \A a \in Actors, b \in Branches : ~Picks(a, b) BY ZenonT(60), <1>2, <1>5 DEF Picks
  <1>7. ASSUME NEW b \in Branches PROVE CancelOK(b)
    <2>1. to_cancel[b] = FALSE /\ cancels[b] = 0 BY ZenonT(60) DEF Init
    <2> QED BY ONLY SMTT(10), ZenonT(30), SMTT(60), <2>1 DEF CancelOK
  <1> QED BY ZenonT(60), <1>2, <1>5, <1>6, <1>7 DEF CancelInv

\* Every step keeps the invariant.
LEMMA NextCancel ==
  ASSUME ~FineCancel, IInv, CancelInv, [Next]_vars
  PROVE  CancelInv'
  <1>1. Timer \in Actors /\ \A w \in Workers : w \in Actors BY ZenonT(60) DEF Actors
  <1>2. ASSUME NEW a \in Actors, SharedCall(a) PROVE CancelInv'
    <2>1. CASE RelayReply(a)
      BY ZenonT(60), <2>1, TimersCancel, RelayLightCancel, RelayNegativeCancel, Relay2xxCancel
         DEF RelayReply
    <2>2. CASE FlagToCancel(a)
      BY ZenonT(60), <2>2, NotFine DEF FlagToCancel, FineNames
    <2> QED
      BY ZenonT(60), <1>2, <2>1, <2>2, TimersCancel, CancelUacCancel, OnFailureCancel
         DEF SharedCall
  <1>3. ASSUME NEW w \in Workers, WorkerStep(w) PROVE CancelInv'
    BY ZenonT(60), <1>1, <1>2, <1>3, ReplyCancel, ForwardCancel, AddUacCancel,
       SendRequestCancel, TimersCancel, CancelInviteCancel, ProcessReplyCancel DEF WorkerStep
  <1>4. ASSUME NEW w \in Workers, Arrival(w) PROVE CancelInv'
    BY ZenonT(60), <1>1, <1>4, EventsCancel DEF Arrival
  <1>5. ASSUME TimerStep PROVE CancelInv'
    <2>1. CASE MarkTimedOutBusy
      BY ZenonT(60), <1>1, <2>1, NotFine DEF MarkTimedOutBusy, FineNames
    <2>2. CASE ReplyFrFires
      BY ZenonT(60), <2>2, StillCancel DEF ReplyFrFires, bvars
    <2> QED
      BY ZenonT(60), <1>1, <1>2, <1>5, <2>1, <2>2, TimedOutCancel, FakeReplyCancel,
         EventsCancel DEF TimerStep
  <1>6. CASE UNCHANGED vars BY ZenonT(60), <1>6, StillCancel DEF vars, bvars
  <1> QED BY ZenonT(60), <1>3, <1>4, <1>5, <1>6 DEF Next, Idle

\* A branch is cancelled once, for any number of processes, branches and messages:
\* should_cancel_branch marks it before anybody else can select it, and who has
\* selected it cancels it, or leaves it to the next provisional reply.  This is so
\* if each test and the write that follows it are one step.
THEOREM OneCancel == ASSUME ~FineCancel PROVE Spec => []CancelledOnce
  <1>1. Init => CancelInv BY InitCancel
  <1>2. IInv /\ CancelInv /\ [Next]_vars => CancelInv' BY NextCancel
  <1>3. CancelInv => CancelledOnce BY ZenonT(60) DEF CancelInv, CancelOK, CancelledOnce
  <1> QED BY <1>1, <1>2, <1>3, SpecInv, PTL DEF Spec
============================================================================
