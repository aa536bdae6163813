------------------------------- MODULE TmReply -------------------------------
(***************************************************************************)
(* Reply processing of a forked tm transaction (modules/tm: t_reply.c,     *)
(* t_cancel.*, t_fwd.c, and final_response_handler of timer.c).            *)
(*                                                                         *)
(* One transaction, its branches, and the processes that work on it: SIP   *)
(* workers that forward it, take replies from its branches or a CANCEL     *)
(* from upstream, and the timer process.  As in TmCell, todo[a] holds the  *)
(* calls an actor still has to make, each one atomic step.  The life of    *)
(* the cell and of its timer links is the subject of TmCell; here an FR    *)
(* timer is armed or not, and retransmission is left out.                  *)
(***************************************************************************)
EXTENDS Integers, Sequences, FiniteSets

CONSTANTS
    Workers,        \* the SIP worker processes
    Timer,          \* the process inside timer_routine
    None,           \* nobody holds the reply lock
    MaxBranches,    \* bound on nr_of_outgoings
    Minor,          \* the branches with minor_branch_flag
    Invite,         \* is_invite(t)
    Multi200,       \* the values T_MULTI_200OK_FLAG may have
    Block6xx,       \* ~disable_6xx_block
    FailureRoute,   \* on_negative, a TMCB_ON_FAILURE callback or DNS failover
    ScriptCodes,    \* the codes a failure route may reply with
    Codes,          \* the reply codes that arrive from downstream
    MaxMsgs,        \* how many messages arrive
    SendFails,      \* SEND_BUFFER of a request may fail
    FineCancel      \* TRUE: the unlocked test and write of should_cancel_branch
                    \* and of cancel_uacs are separate steps

ASSUME ConstantsType ==
    /\ Timer \notin Workers /\ None \notin Workers \cup {Timer}
    /\ MaxBranches \in 1 .. 256 /\ MaxMsgs \in Nat    \* TM_BRANCH_MAX
    /\ Codes \subseteq 100..699 /\ ScriptCodes \subseteq 200..699
    /\ Multi200 \subseteq BOOLEAN
    /\ \A x \in {Invite, Block6xx, FailureRoute, SendFails, FineCancel} :
         x \in BOOLEAN

Actors   == Workers \cup {Timer}
Branches == 0 .. MaxBranches - 1

VARIABLES
    nr,             \* nr_of_outgoings
    first,          \* first_branch
    request,        \* of a branch, request.buffer: "null", "built", "sent"
    fr,             \* of a branch, the FR timer: "never", "armed", "reset", "fired"
    last_received,  \* of a branch
    stored,         \* of a branch: reply # NULL
    cancel_buf,     \* of a branch, local_cancel.buffer: "null", "busy", "built"
    to_cancel,      \* of a branch: T_UAC_TO_CANCEL_FLAG
    cancels,        \* of a branch, history: how often cancel_branch ran
    rang,           \* of a branch, history: a provisional reply was processed
    status,         \* uas.status
    replied_local,  \* relaied_reply_branch = -2
    upstream,       \* the final replies sent upstream, in the order of the status
    was_cancelled,  \* T_WAS_CANCELLED_FLAG
    no_new,         \* T_NO_NEW_BRANCHES_FLAG
    multi_200ok,    \* T_MULTI_200OK_FLAG, set by the script before it forwards
    rpl_retr,       \* the FR/RETR timers of uas.response: "never", "armed", "over"
    on_wait,        \* the wait timer was set
    reply_lock,     \* owner of reply_mutex
    todo,           \* of an actor: the calls still to make
    msgs            \* messages that may still arrive

bvars == <<request, fr, last_received, stored, cancel_buf, to_cancel, cancels,
           rang>>
uvars == <<status, replied_local, upstream>>
fvars == <<was_cancelled, no_new, multi_200ok>>
wvars == <<rpl_retr, on_wait>>
vars  == <<nr, first, bvars, uvars, fvars, wvars, reply_lock, todo, msgs>>

Current == first .. nr - 1
Is2xx(code) == code >= 200 /\ code < 300

----------------------------------------------------------------------------
(***************************************************************************)
(* Sequencing of calls.                                                    *)
(***************************************************************************)
\* A call: the function, the branch, the code, whether it is made for a reply
\* faked by the timer, whether the FR timer is to be restarted, and the bitmap
\* of branches to cancel.
Op(name, b, code, fake, restart, bm) ==
    [name |-> name, b |-> b, code |-> code, fake |-> fake, restart |-> restart,
     bm |-> bm]
Do(name)           == Op(name, 0, 0, FALSE, FALSE, {})
DoOn(name, b)      == Op(name, b, 0, FALSE, FALSE, {})
DoCode(name, code) == Op(name, 0, code, FALSE, FALSE, {})

Call(a) == Head(todo[a])
Calls(a, name) == todo[a] # <<>> /\ Call(a).name = name

\* a has made its next call, which leads to the calls more.
Done(a, more) == todo' = [todo EXCEPT ![a] = more \o Tail(@)]

\* A loop over the branches of the set B: one call per branch, lowest first.
ForEach(name, B) == IF B = {} THEN <<>> ELSE << Op(name, 0, 0, FALSE, FALSE, B) >>
Lowest(B) == CHOOSE b \in B : \A c \in B : b <= c

Init ==
    /\ nr = 0 /\ first = 0
    /\ request = [b \in Branches |-> "null"]
    /\ fr = [b \in Branches |-> "never"]
    /\ last_received = [b \in Branches |-> 0]
    /\ stored = [b \in Branches |-> FALSE]
    /\ cancel_buf = [b \in Branches |-> "null"]
    /\ to_cancel = [b \in Branches |-> FALSE]
    /\ cancels = [b \in Branches |-> 0]
    /\ rang = [b \in Branches |-> FALSE]
    /\ status = 0 /\ replied_local = FALSE /\ upstream = <<>>
    /\ was_cancelled = FALSE /\ no_new = FALSE /\ multi_200ok \in Multi200
    /\ rpl_retr = "never" /\ on_wait = FALSE
    /\ reply_lock = None
    /\ \E w \in Workers :        \* t_newtran is over and the route calls t_relay
         todo = [a \in Actors |-> IF a = w THEN << Do("t_forward_nonack") >> ELSE <<>>]
    /\ msgs = MaxMsgs

----------------------------------------------------------------------------
(***************************************************************************)
(* Timers of the transaction, and CANCELs of its branches.                 *)
(***************************************************************************)
\* cleanup_uac_timers: reset_timer on the current branches.
CleanupUacTimers(a) ==
    /\ Calls(a, "cleanup_uac_timers")
    /\ fr' = [b \in Branches |->
                IF b \in Current /\ fr[b] = "armed" THEN "reset" ELSE fr[b]]
    /\ Done(a, <<>>)
    /\ UNCHANGED <<nr, first, request, last_received, stored, cancel_buf, to_cancel,
                   cancels, uvars, fvars, wvars, reply_lock, msgs, rang>>

PutOnWait(a) ==
    /\ Calls(a, "put_on_wait")
    /\ on_wait' = TRUE
    /\ Done(a, <<>>)
    /\ UNCHANGED <<nr, first, bvars, uvars, fvars, rpl_retr, reply_lock, msgs>>

\* Faulty variant: a relayed 2xx leads to no timer.
SetFinalTimerForgets(a) ==
    /\ Calls(a, "set_final_timer")
    /\ LET retransmit == Invite /\ (status >= 300 \/ (replied_local /\ status >= 200))
       IN  rpl_retr' = IF retransmit /\ rpl_retr = "never" THEN "armed" ELSE rpl_retr
    /\ Done(a, <<>>)
    /\ UNCHANGED <<nr, first, bvars, uvars, fvars, on_wait, reply_lock, msgs>>

\* Decided on the status found now, after the reply lock was released.
SetFinalTimer(a) ==
    /\ Calls(a, "set_final_timer")
    /\ LET retransmit == Invite /\ (status >= 300 \/ (replied_local /\ status >= 200))
       IN  IF retransmit
           THEN /\ rpl_retr' = IF rpl_retr = "never" THEN "armed" ELSE rpl_retr
                /\ UNCHANGED on_wait
           ELSE on_wait' = TRUE /\ UNCHANGED rpl_retr
    /\ Done(a, <<>>)
    /\ UNCHANGED <<nr, first, bvars, uvars, fvars, reply_lock, msgs>>

\* Challenges are not retransmitted.
FinalTimer(code) ==
    IF code \in {401, 407} THEN << Do("put_on_wait") >> ELSE << Do("set_final_timer") >>

\* Faulty variant: only branches that ring are selected.
ShouldCancelRinging(b) == cancel_buf[b] = "null" /\ last_received[b] \in 100..199

\* which_cancel: the branches to cancel, whose cancel buffer is marked busy.
ShouldCancel(b) == cancel_buf[b] = "null" /\ last_received[b] < 200
WhichCancel(B) == {b \in B : ShouldCancel(b)}

\* Faulty variant: the selected branches are not marked.
MarkNothing(B) == UNCHANGED cancel_buf

MarkBusy(B) == cancel_buf' = [b \in Branches |-> IF b \in B THEN "busy" ELSE cancel_buf[b]]

\* cancel_uacs on the branches of a bitmap.
CancelUacs(bm) == IF Invite THEN ForEach("cancel_uacs", bm) ELSE <<>>

\* cancel_branch builds the CANCEL and sends it.
CancelBranch(b) ==
    /\ cancel_buf' = [cancel_buf EXCEPT ![b] = "built"]
    /\ cancels' = [cancels EXCEPT ![b] = @ + 1]

\* One round of the loop of cancel_uacs; last_received is read without the lock.
CancelUac(a) ==
    /\ Calls(a, "cancel_uacs")
    /\ LET b == Lowest(Call(a).bm)
           rest == ForEach("cancel_uacs", Call(a).bm \ {b})
       IN  \/ /\ last_received[b] # 0
              /\ CancelBranch(b)
              /\ Done(a, rest)
              /\ UNCHANGED to_cancel
           \/ /\ last_received[b] = 0 /\ FineCancel
              /\ Done(a, << DoOn("flag_to_cancel", b) >> \o rest)
              /\ UNCHANGED <<cancel_buf, cancels, to_cancel>>
           \/ /\ last_received[b] = 0 /\ ~FineCancel
              /\ to_cancel' = [to_cancel EXCEPT ![b] = TRUE]
              /\ Done(a, rest)
              /\ UNCHANGED <<cancel_buf, cancels>>
    /\ UNCHANGED <<nr, first, request, fr, last_received, stored, uvars, fvars, wvars,
                   reply_lock, msgs, rang>>

FlagToCancel(a) ==
    /\ Calls(a, "flag_to_cancel")
    /\ to_cancel' = [to_cancel EXCEPT ![Call(a).b] = TRUE]
    /\ Done(a, <<>>)
    /\ UNCHANGED <<nr, first, request, fr, last_received, stored, cancel_buf, cancels,
                   uvars, fvars, wvars, reply_lock, msgs, rang>>

----------------------------------------------------------------------------
(***************************************************************************)
(* Replying, forwarding, cancelling.                                       *)
(***************************************************************************)
\* What _reply_light does to the transaction under the reply lock ...
ReplyLight(code) ==
    /\ status' = code /\ replied_local' = TRUE
    /\ upstream' = IF code >= 200 THEN Append(upstream, code) ELSE upstream
    /\ MarkBusy(IF Invite /\ code >= 200 THEN WhichCancel(Current) ELSE {})

\* ... and the calls it makes then.
AfterReplyLight(code) ==
    IF code < 200 THEN <<>>
    ELSE << Do("cleanup_uac_timers") >> \o CancelUacs(WhichCancel(Current))
         \o FinalTimer(code)

\* t_reply from the request route.  A second final reply fails and cleans up.
Reply(a) ==
    /\ Calls(a, "t_reply")
    /\ reply_lock = None
    /\ \/ /\ status >= 200
          /\ Done(a, << Do("cleanup_uac_timers"), Do("put_on_wait") >>)
          /\ UNCHANGED <<uvars, cancel_buf>>
       \/ /\ status < 200
          /\ ReplyLight(Call(a).code)
          /\ Done(a, AfterReplyLight(Call(a).code))
    /\ UNCHANGED <<nr, first, request, fr, last_received, stored, to_cancel, cancels,
                   fvars, wvars, reply_lock, msgs, rang>>

\* t_forward_nonack of the request.  A failure ends in kill_transaction, which
\* replies 500.
Forward(w) ==
    /\ Calls(w, "t_forward_nonack")
    /\ Done(w, IF was_cancelled
               THEN << DoCode("t_reply", 487), DoCode("t_reply", 500) >>
               ELSE << Do("add_uac") >>)
    /\ UNCHANGED <<nr, first, bvars, uvars, fvars, wvars, reply_lock, msgs>>

\* The branches are added one by one, then each is sent.
AddUac(w) ==
    /\ Calls(w, "add_uac")
    /\ nr' = nr + 1
    /\ request' = [request EXCEPT ![nr] = "built"]
    /\ \/ nr' < MaxBranches /\ Done(w, << Do("add_uac") >>)
       \/ Done(w, ForEach("send_requests", 0 .. nr) \o << Do("forwarded") >>)
    /\ UNCHANGED <<first, fr, last_received, stored, cancel_buf, to_cancel, cancels,
                   uvars, fvars, wvars, reply_lock, msgs, rang>>

\* SEND_BUFFER, and start_retr or the release of the buffer of the branch.
SendRequest(w) ==
    /\ Calls(w, "send_requests")
    /\ LET b == Lowest(Call(w).bm)
           rest == ForEach("send_requests", Call(w).bm \ {b})
       IN  \/ /\ request' = [request EXCEPT ![b] = "sent"]
              /\ Done(w, << DoOn("start_retr", b) >> \o rest)
           \/ /\ SendFails
              /\ request' = [request EXCEPT ![b] = "null"]
              /\ Done(w, rest)
    /\ UNCHANGED <<nr, first, fr, last_received, stored, cancel_buf, to_cancel,
                   cancels, uvars, fvars, wvars, reply_lock, msgs, rang>>

\* set_1timer: takes effect once, whatever resets came before.
StartRetr(w) ==
    /\ Calls(w, "start_retr")
    /\ fr' = [fr EXCEPT ![Call(w).b] = IF @ = "never" THEN "armed" ELSE @]
    /\ Done(w, <<>>)
    /\ UNCHANGED <<nr, first, request, last_received, stored, cancel_buf, to_cancel,
                   cancels, uvars, fvars, wvars, reply_lock, msgs, rang>>

\* No branch could be sent: kill_transaction.
Forwarded(w) ==
    /\ Calls(w, "forwarded")
    /\ Done(w, IF \E b \in Branches : request[b] = "sent" THEN <<>>
               ELSE << DoCode("t_reply", 500) >>)
    /\ UNCHANGED <<nr, first, bvars, uvars, fvars, wvars, reply_lock, msgs>>

\* A CANCEL matches the transaction: the flag is set without a lock ...
Cancel(w) ==
    /\ Invite /\ todo[w] = <<>> /\ msgs > 0
    /\ was_cancelled' = TRUE
    /\ todo' = [todo EXCEPT ![w] = << Do("cancel_invite") >>]
    /\ msgs' = msgs - 1
    /\ UNCHANGED <<nr, first, bvars, uvars, no_new, multi_200ok, wvars, reply_lock>>

\* ... and cancel_invite selects the branches under the reply lock.
CancelInvite(w) ==
    /\ Calls(w, "cancel_invite")
    /\ reply_lock = None
    /\ MarkBusy(WhichCancel(Current))
    /\ Done(w, CancelUacs(WhichCancel(Current)))
    /\ UNCHANGED <<nr, first, request, fr, last_received, stored, to_cancel, cancels,
                   uvars, fvars, wvars, reply_lock, msgs, rang>>

\* The ACK to a negative reply, or to a 2xx of ours: t_release_transaction.
Ack(w) ==
    /\ Invite /\ todo[w] = <<>> /\ msgs > 0
    /\ status >= 300 \/ (status >= 200 /\ replied_local)
    /\ rpl_retr' = IF rpl_retr = "armed" THEN "over" ELSE rpl_retr
    /\ todo' = [todo EXCEPT ![w] = << Do("cleanup_uac_timers"), Do("put_on_wait") >>]
    /\ msgs' = msgs - 1
    /\ UNCHANGED <<nr, first, bvars, uvars, fvars, on_wait, reply_lock>>

----------------------------------------------------------------------------
(***************************************************************************)
(* A reply from a branch, or the 408 of its FR timer.                      *)
(***************************************************************************)
\* reply_received: last_uac_status is read, and the timers are reset, before
\* the reply lock is taken.
ReplyReceived(w, b, code) ==
    /\ todo[w] = <<>> /\ msgs > 0
    /\ b < nr /\ request[b] = "sent"
    /\ fr' = [fr EXCEPT ![b] = IF @ = "armed" /\ code >= 200 THEN "reset" ELSE @]
    /\ LET seen == last_received[b]
           restart == code < 200 /\ seen < code /\ (code >= 180 \/ seen = 0)
       IN  todo' = [todo EXCEPT ![w] =
                      << Op("process_reply_and_timer", b, code, FALSE, restart, {}) >>]
    /\ msgs' = msgs - 1
    /\ UNCHANGED <<nr, first, request, last_received, stored, cancel_buf, to_cancel,
                   cancels, uvars, fvars, wvars, reply_lock, rang>>

\* LOCK_REPLIES, and the start of process_reply_and_timer: a provisional reply
\* on a branch with a pending CANCEL sends it.
ProcessReply(a) ==
    /\ Calls(a, "process_reply_and_timer")
    /\ reply_lock = None
    /\ reply_lock' = a
    /\ LET b == Call(a).b
           code == Call(a).code
           pending == to_cancel[b] \/ (was_cancelled /\ cancel_buf[b] = "null")
       IN  /\ IF pending /\ code < 200 THEN CancelBranch(b)
              ELSE UNCHANGED <<cancel_buf, cancels>>
           /\ to_cancel' = [to_cancel EXCEPT ![b] = @ /\ ~pending]
           /\ rang' = [rang EXCEPT ![b] = @ \/ code < 200]
           /\ Done(a, << Op("relay_reply", b, code, FALSE, Call(a).restart, {}) >>)
    /\ UNCHANGED <<nr, first, request, fr, last_received, stored, uvars, fvars, wvars,
                   msgs>>

\* Faulty variant: a provisional reply counts as final.
RelayFinal(code) ==
    /\ status' = code /\ replied_local' = FALSE
    /\ upstream' = Append(upstream, code)

\* relay_reply sends code upstream.
Relay(code) ==
    /\ status' = code /\ replied_local' = FALSE
    /\ upstream' = IF code >= 200 THEN Append(upstream, code) ELSE upstream

\* What follows RPS_COMPLETED: the final timer in relay_reply, then, unless
\* fake_reply called it, the clean-up of process_reply_and_timer.
Completed(code, fake, bm) ==
    FinalTimer(code) \o
    (IF fake THEN <<>> ELSE << Do("cleanup_uac_timers") >> \o CancelUacs(bm))

Unlock == reply_lock' = None

\* Faulty variant: the reply is not kept.
StoreNothing(b) == UNCHANGED stored

\* store_reply.
Store(b) == stored' = [stored EXCEPT ![b] = TRUE]
Received(b, code) == last_received' = [last_received EXCEPT ![b] = code]

\* relay_reply is called, under the reply lock.
Relaying(a) ==
    /\ Calls(a, "relay_reply")
    /\ UNCHANGED <<request, to_cancel, cancels, was_cancelled, multi_200ok, wvars, msgs,
                   nr, first, rang>>

\* A final reply after a 2xx, if every branch may have its own.
AfterMulti2xx(code) == multi_200ok /\ Invite /\ code >= 200 /\ Is2xx(status)

\* tran_is_completed, once b has received code.
AllOver(b, code) ==
    \A c \in Current : IF c = b THEN code >= 200 ELSE last_received[c] >= 200

\* Faulty variant: the 2xx that completes the transaction is not relayed.
RelayMulti2xxButLast(a) ==
    LET b == Call(a).b
        code == Call(a).code
    IN  /\ Relaying(a)
        /\ AfterMulti2xx(code)
        /\ Received(b, code)
        /\ IF Is2xx(code) /\ ~AllOver(b, code)
           THEN Relay(code) /\ Done(a, <<>>)
           ELSE UNCHANGED uvars /\ Done(a, Completed(code, Call(a).fake, {}))
        /\ Unlock
        /\ UNCHANGED <<fr, stored, cancel_buf, no_new>>

RelayMulti2xx(a) ==
    LET b == Call(a).b
        code == Call(a).code
    IN  /\ Relaying(a)
        /\ AfterMulti2xx(code)
        /\ Received(b, code)
        /\ \/ /\ code >= 300
              /\ Done(a, <<>>)
              /\ UNCHANGED uvars
           \/ /\ Is2xx(code)
              /\ Relay(code)
              /\ Done(a, IF AllOver(b, code) THEN Completed(code, Call(a).fake, {})
                         ELSE <<>>)
        /\ Unlock
        /\ UNCHANGED <<fr, stored, cancel_buf, no_new>>

\* Faulty variant: any final reply goes through.
RelayAfterFinalAny(a) ==
    LET b == Call(a).b
        code == Call(a).code
    IN  /\ Relaying(a)
        /\ ~AfterMulti2xx(code) /\ status >= 200
        /\ \/ code >= 200 /\ Received(b, code) /\ Relay(code)
           \/ code < 200 /\ UNCHANGED <<last_received, uvars>>
        /\ Done(a, <<>>)
        /\ Unlock
        /\ UNCHANGED <<fr, stored, cancel_buf, no_new>>

\* A final reply is out: only the 2xx of an INVITE still goes through.
RelayAfterFinal(a) ==
    LET b == Call(a).b
        code == Call(a).code
    IN  /\ Relaying(a)
        /\ ~AfterMulti2xx(code) /\ status >= 200
        /\ \/ Invite /\ Is2xx(code) /\ Received(b, code) /\ Relay(code)
           \/ ~(Invite /\ Is2xx(code)) /\ UNCHANGED <<last_received, uvars>>
        /\ Done(a, <<>>)
        /\ Unlock
        /\ UNCHANGED <<fr, stored, cancel_buf, no_new>>

\* The branch already had its final reply.
BranchOver(b, code) ==
    /\ last_received[b] >= 200
    /\ ~(Invite /\ Is2xx(code) /\ last_received[b] < 300)

RelayOnOverBranch(a) ==
    /\ Relaying(a)
    /\ status < 200 /\ BranchOver(Call(a).b, Call(a).code)
    /\ Done(a, <<>>)
    /\ Unlock
    /\ UNCHANGED <<fr, last_received, stored, cancel_buf, no_new, uvars, rang>>

----------------------------------------------------------------------------
(***************************************************************************)
(* A negative reply: pick the branch to relay, if all branches are over.   *)
(***************************************************************************)
BranchPrio(code, cancelled) ==
    CASE code < 300                      -> code
      [] code >= 600                     -> code - 300
      [] code >= 300 /\ code < 400       -> code + 100
      [] code = 503                      -> 801
      [] code = 401                      -> 500
      [] code = 407                      -> 501
      [] code = 415                      -> 502
      [] code = 420                      -> 503
      [] code = 484                      -> 504
      [] code = 408                      -> 800
      [] code = 487 /\ cancelled         -> 0
      [] OTHER                           -> code + 200

\* The branches t_pick_branch looks at, given what the branches received; those
\* that are still open; those among which it chooses.
Candidates == {b \in Current : request[b] # "null"}
Open(received) == {b \in Candidates : received[b] < 200}
Choices(received) == Candidates \ Open(received)

\* Faulty variant: does not wait for open branches.
PickEarly(received) ==
    IF Choices(received) = {} THEN -1
    ELSE LET Prio(b) == BranchPrio(received[b], was_cancelled)
         IN  CHOOSE b \in Choices(received) : \A c \in Choices(received) :
               Prio(b) < Prio(c) \/ (Prio(b) = Prio(c) /\ b <= c)

\* t_pick_branch: -2 if it must wait for a branch, -1 if there is none.
Pick(received) ==
    IF ~(Open(received) \subseteq Minor) THEN -2
    ELSE IF Choices(received) = {} THEN -1
    ELSE LET Prio(b) == BranchPrio(received[b], was_cancelled)
         IN  CHOOSE b \in Choices(received) : \A c \in Choices(received) :
               Prio(b) < Prio(c) \/ (Prio(b) = Prio(c) /\ b <= c)

\* A 6xx closes all branches; otherwise the reply is stored while branches are
\* open.  Minor branches that are still open when the rest is over are cancelled.
RelayNegative(a) ==
    LET b == Call(a).b
        code == Call(a).code
        received == [last_received EXCEPT ![b] = code]
        picked == Pick(received)
        cancel == WhichCancel(Current \ {b})
        OnFailure(branch, bm) == << Op("on_failure", b, branch, Call(a).fake, FALSE, bm) >>
    IN  /\ Relaying(a)
        /\ code >= 300 /\ status < 200 /\ ~BranchOver(b, code)
        /\ last_received' = received
        /\ \/ /\ code >= 600 /\ Block6xx
              /\ MarkBusy(cancel)
              /\ no_new' = TRUE
              /\ Done(a, OnFailure(b, cancel))
              /\ UNCHANGED <<stored, reply_lock>>
           \/ /\ ~(code >= 600 /\ Block6xx) /\ picked = -2
              /\ Store(b)
              /\ Done(a, <<>>)
              /\ Unlock
              /\ UNCHANGED <<cancel_buf, no_new>>
           \/ /\ ~(code >= 600 /\ Block6xx) /\ picked = -1
              /\ Done(a, <<>>)
              /\ Unlock
              /\ UNCHANGED <<stored, cancel_buf, no_new>>
           \/ /\ ~(code >= 600 /\ Block6xx) /\ picked >= 0
              /\ IF Open(received) = {}
                 THEN UNCHANGED cancel_buf /\ Done(a, OnFailure(picked, {}))
                 ELSE /\ MarkBusy(cancel)
                      /\ Done(a, << Do("cleanup_uac_timers") >>
                                 \o ForEach("cancel_uacs", cancel)
                                 \o OnFailure(picked, {}))
              /\ UNCHANGED <<stored, no_new, reply_lock>>
        /\ UNCHANGED <<fr, uvars>>

\* The failure handlers, still under the lock; the call's code is the branch
\* picked.  They do nothing, add a branch, or reply.
OnFailure(a) ==
    LET b == Call(a).b
        picked == Call(a).code
        code == last_received[picked]
        RelayPicked ==
          /\ Relay(code)
          /\ Done(a, Completed(code, Call(a).fake, Call(a).bm))
          /\ Unlock
          /\ UNCHANGED <<stored, cancel_buf>>
    IN  /\ Calls(a, "on_failure")
        /\ \/ RelayPicked /\ UNCHANGED <<nr, first, request, fr>>
           \/ /\ FailureRoute /\ ~no_new /\ ~was_cancelled /\ nr < MaxBranches
              /\ nr' = nr + 1 /\ first' = nr
              /\ \/ /\ request' = [request EXCEPT ![nr] = "sent"]
                    /\ fr' = [fr EXCEPT ![nr] = "armed"]
                    /\ Store(b)
                    /\ Done(a, <<>>)
                    /\ Unlock
                    /\ UNCHANGED <<uvars, cancel_buf>>
                 \/ SendFails /\ RelayPicked /\ UNCHANGED <<request, fr>>
           \/ /\ FailureRoute
              /\ \E c \in ScriptCodes :
                   /\ ReplyLight(c)
                   /\ Done(a, AfterReplyLight(c) \o << Do("UNLOCK_REPLIES") >>
                              \o Completed(0, Call(a).fake, Call(a).bm))
              /\ UNCHANGED <<nr, first, request, fr, stored, reply_lock>>
        /\ UNCHANGED <<last_received, to_cancel, cancels, rang, fvars, wvars, msgs>>

UnlockReplies(a) ==
    /\ Calls(a, "UNLOCK_REPLIES")
    /\ Unlock
    /\ Done(a, <<>>)
    /\ UNCHANGED <<nr, first, bvars, uvars, fvars, wvars, msgs>>

----------------------------------------------------------------------------
\* A first 2xx: the other branches are cancelled, unless every branch may answer.
Relay2xx(a) ==
    LET b == Call(a).b
        code == Call(a).code
        cancel == IF multi_200ok THEN {} ELSE WhichCancel(Current \ {b})
    IN  /\ Relaying(a)
        /\ Is2xx(code) /\ status < 200 /\ ~BranchOver(b, code)
        /\ Received(b, code)
        /\ Relay(code)
        /\ MarkBusy(cancel)
        /\ Done(a, IF multi_200ok /\ ~AllOver(b, code) THEN <<>>
                   ELSE Completed(code, Call(a).fake, cancel))
        /\ Unlock
        /\ UNCHANGED <<fr, stored, no_new>>

\* A provisional reply; 100 is not relayed.
RelayProvisional(a) ==
    LET b == Call(a).b
        code == Call(a).code
    IN  /\ Relaying(a)
        /\ code < 200 /\ status < 200 /\ ~BranchOver(b, code)
        /\ Received(b, code)
        /\ IF code = 100 THEN UNCHANGED uvars ELSE Relay(code)
        /\ Done(a, IF Call(a).restart THEN << DoOn("set_timer", b) >> ELSE <<>>)
        /\ Unlock
        /\ UNCHANGED <<fr, stored, cancel_buf, no_new>>

\* INVITE: FR becomes FR_INV, even if the timer was reset meanwhile; a timer
\* whose handler is running is left alone.
RestartTimer(a) ==
    /\ Calls(a, "set_timer")
    /\ fr' = [fr EXCEPT ![Call(a).b] = IF Invite /\ @ # "fired" THEN "armed" ELSE @]
    /\ Done(a, <<>>)
    /\ UNCHANGED <<nr, first, request, last_received, stored, cancel_buf, to_cancel,
                   cancels, uvars, fvars, wvars, reply_lock, msgs, rang>>

----------------------------------------------------------------------------
(***************************************************************************)
(* The timer process.                                                      *)
(***************************************************************************)
\* final_response_handler for the request of branch b.
FrFires(b) ==
    /\ todo[Timer] = <<>> /\ fr[b] = "armed"
    /\ fr' = [fr EXCEPT ![b] = "fired"]
    /\ todo' = [todo EXCEPT ![Timer] =
                  << DoOn("cancel_timed_out", b), DoOn("fake_reply", b) >>]
    /\ UNCHANGED <<nr, first, request, last_received, stored, cancel_buf, to_cancel,
                   cancels, uvars, fvars, wvars, reply_lock, msgs, rang>>

\* should_cancel_branch, called without the reply lock.
CancelTimedOut ==
    /\ Calls(Timer, "cancel_timed_out")
    /\ LET b == Call(Timer).b
           cancel == Invite /\ ShouldCancel(b)
       IN  /\ MarkBusy(IF cancel /\ ~FineCancel THEN {b} ELSE {})
           /\ Done(Timer, IF ~cancel THEN <<>>
                          ELSE IF FineCancel THEN << DoOn("mark_busy", b) >>
                          ELSE CancelUacs({b}))
    /\ UNCHANGED <<nr, first, request, fr, last_received, stored, to_cancel, cancels,
                   uvars, fvars, wvars, reply_lock, msgs, rang>>

MarkTimedOutBusy ==
    /\ Calls(Timer, "mark_busy")
    /\ MarkBusy({Call(Timer).b})
    /\ Done(Timer, CancelUacs({Call(Timer).b}))
    /\ UNCHANGED <<nr, first, request, fr, last_received, stored, to_cancel, cancels,
                   uvars, fvars, wvars, reply_lock, msgs, rang>>

\* LOCK_REPLIES and fake_reply of a 408.
FakeReply ==
    /\ Calls(Timer, "fake_reply")
    /\ reply_lock = None
    /\ reply_lock' = Timer
    /\ Done(Timer, << Op("relay_reply", Call(Timer).b, 408, TRUE, FALSE, {}) >>)
    /\ UNCHANGED <<nr, first, bvars, uvars, fvars, wvars, msgs>>

\* final_response_handler for the reply: nobody acknowledged it.
ReplyFrFires ==
    /\ todo[Timer] = <<>> /\ rpl_retr = "armed"
    /\ rpl_retr' = "over" /\ on_wait' = TRUE
    /\ UNCHANGED <<nr, first, bvars, uvars, fvars, reply_lock, todo, msgs>>

----------------------------------------------------------------------------
RelayReply(a) ==
    \/ RelayMulti2xx(a) \/ RelayAfterFinal(a) \/ RelayOnOverBranch(a)
    \/ RelayNegative(a) \/ Relay2xx(a) \/ RelayProvisional(a)

\* The calls that workers and the timer process share.
SharedCall(a) ==
    \/ CleanupUacTimers(a) \/ PutOnWait(a) \/ SetFinalTimer(a) \/ CancelUac(a)
    \/ FlagToCancel(a) \/ RelayReply(a) \/ OnFailure(a) \/ UnlockReplies(a)

WorkerStep(w) ==
    \/ SharedCall(w) \/ Reply(w) \/ Forward(w) \/ AddUac(w) \/ SendRequest(w)
    \/ StartRetr(w) \/ Forwarded(w) \/ CancelInvite(w) \/ ProcessReply(w)
    \/ RestartTimer(w)

Arrival(w) ==
    \/ Cancel(w) \/ Ack(w)
    \/ \E b \in Branches, code \in Codes : ReplyReceived(w, b, code)

TimerStep ==
    \/ SharedCall(Timer) \/ CancelTimedOut \/ MarkTimedOutBusy \/ FakeReply
    \/ ReplyFrFires \/ \E b \in Branches : FrFires(b)

\* Nobody has anything to do, and a timer tick finds nothing expired.
Quiet == \A a \in Actors : todo[a] = <<>>
Idle == Quiet /\ UNCHANGED vars

Next == (\E w \in Workers : WorkerStep(w) \/ Arrival(w)) \/ TimerStep \/ Idle

Spec == Init /\ [][Next]_vars

\* Processes keep running, and an armed timer fires unless it is reset.
Fairness == (\A w \in Workers : WF_vars(WorkerStep(w))) /\ WF_vars(TimerStep)

FairSpec == Spec /\ Fairness

----------------------------------------------------------------------------
CallNames == {"cleanup_uac_timers", "put_on_wait", "set_final_timer", "cancel_uacs",
    "flag_to_cancel", "t_reply", "t_forward_nonack", "add_uac", "send_requests",
    "start_retr", "forwarded", "cancel_invite", "process_reply_and_timer", "relay_reply",
    "on_failure", "UNLOCK_REPLIES", "set_timer", "cancel_timed_out", "mark_busy",
    "fake_reply"}
OpType == [name : CallNames, b : Nat, code : 0..699, fake : BOOLEAN,
           restart : BOOLEAN, bm : SUBSET Branches]

\* Branches, status and pending calls have the shape of the C structures.
TypeOK ==
    /\ nr \in 0 .. MaxBranches /\ first \in 0 .. MaxBranches
    /\ request \in [Branches -> {"null", "built", "sent"}]
    /\ fr \in [Branches -> {"never", "armed", "reset", "fired"}]
    /\ last_received \in [Branches -> 0..699]
    /\ stored \in [Branches -> BOOLEAN]
    /\ cancel_buf \in [Branches -> {"null", "busy", "built"}]
    /\ to_cancel \in [Branches -> BOOLEAN]
    /\ cancels \in [Branches -> Nat] /\ rang \in [Branches -> BOOLEAN]
    /\ status \in 0..699 /\ replied_local \in BOOLEAN /\ upstream \in Seq(200..699)
    /\ was_cancelled \in BOOLEAN /\ no_new \in BOOLEAN /\ multi_200ok \in Multi200
    /\ rpl_retr \in {"never", "armed", "over"} /\ on_wait \in BOOLEAN
    /\ reply_lock \in Actors \cup {None}
    /\ todo \in [Actors -> Seq(OpType)]
    /\ msgs \in Nat

\* Whatever branches, timers, the script and a CANCEL do at the same time, one
\* final reply goes upstream; after it only 2xx replies of an INVITE
\* (t_should_relay_response, _reply_light).
OneFinal ==
    \A i \in 2 .. Len(upstream) : Invite /\ Is2xx(upstream[i])

\* No answer to an INVITE is lost: however many branches answer with a 2xx, and in
\* whatever order, each of these replies goes upstream.
No2xxLost ==
    Invite => Cardinality({b \in Branches : Is2xx(last_received[b])})
                <= Len(SelectSeq(upstream, Is2xx))

\* A negative reply is relayed only when no branch is open (but for minor ones)
\* or it is a 6xx, and it is the best of the branches' replies (t_pick_branch).
\* A CANCEL may come between the choice and the relaying.
BestNegativeRelayed ==
    [][ upstream' # upstream /\ ~replied_local' /\ status' >= 300
          => \/ Block6xx /\ status' >= 600
             \/ /\ Open(last_received) \subseteq Minor
                /\ ~was_cancelled => \A b \in Choices(last_received) :
                     BranchPrio(status', FALSE) <= BranchPrio(last_received[b], FALSE)
      ]_vars

\* The reply relay_reply takes from another branch than the one that completed
\* the transaction was stored there (store_reply).
PickedReplyStored ==
    \A a \in Actors :
      Calls(a, "on_failure") /\ Call(a).code # Call(a).b => stored[Call(a).code]

\* cancel_branch runs once per branch: "two 200 for two branches processed by two
\* processes might concurrently try to generate a CANCEL for the third branch"
\* (which_cancel) does not happen.
CancelledOnce == \A b \in Branches : cancels[b] <= 1

\* The branches that ring, though a final reply is out or a CANCEL came.
RingingInVain ==
    IF Invite /\ (was_cancelled \/ (status >= 200 /\ ~multi_200ok))
    THEN {b \in Branches : rang[b] /\ last_received[b] < 200} ELSE {}

\* No such branch is overlooked: once everybody is done, a process has taken it
\* on itself to cancel it (which_cancel, process_reply_and_timer).
RingingSelected == Quiet => \A b \in RingingInVain : cancel_buf[b] # "null"

\* And a CANCEL was sent: "We will eventually send one out IF we receive later a
\* reply on this branch, so let's flag it for catching (and cancelling) such
\* delaied replies" (cancel_uacs).
NoneLeftRinging == Quiet => \A b \in RingingInVain : cancels[b] > 0

\* A transaction is not forgotten: when everybody is done, it is on the wait
\* list or a timer is armed that will complete it.
NotForgotten ==
    Quiet => on_wait \/ rpl_retr = "armed" \/ \E b \in Current : fr[b] = "armed"

\* "for auth related replies, we do not do retransmission" (relay_reply and
\* _reply_light).
ChallengeNotRetransmitted == status \in {401, 407} => rpl_retr # "armed"

\* The transaction comes to its end: it is put on wait.
EventuallyOnWait == <>on_wait
============================================================================
