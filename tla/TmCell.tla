------------------------------- MODULE TmCell -------------------------------
(***************************************************************************)
(* The life of a tm transaction cell: hash table, reference count, timer   *)
(* links and deletion (modules/tm: h_table.c, timer.c, t_funcs.*,          *)
(* t_lookup.c and the timer side of t_reply.c and t_cancel.c).             *)
(*                                                                         *)
(* Every SIP worker, and the process that runs the tm timer routines, is   *)
(* an actor.  What an actor still has to do for the message or timer in    *)
(* hand is the sequence of calls todo[a]; each call is one atomic step,    *)
(* that is, one critical section or one unprotected read or write of       *)
(* shared memory.  A call that decides what comes next puts further calls  *)
(* in front.  cell[a] is the cell the actor works on.                      *)
(*                                                                         *)
(* Cells have one branch.  Time is abstracted: a timer that is linked in a *)
(* list may be found expired at any pass over that list.  The four RT_*    *)
(* lists differ only in their timeout and are one list here.               *)
(***************************************************************************)
EXTENDS Integers, Sequences, FiniteSets

CONSTANTS
    Cells,            \* the transaction cells, each used for one transaction
    Workers,          \* the SIP worker processes
    Timer,            \* the process inside timer_routine or utimer_routine
    None,             \* no cell, no lock owner
    InviteCells,      \* the cells whose transactions are INVITE transactions
    Udp,              \* start_retr retransmits (rb->dst.proto == PROTO_UDP)
    RestartFr,        \* restart_fr_on_each_reply
    Codes,            \* the reply codes that arrive from downstream
    ScriptCodes,      \* the codes the request route may reply with
    MaxTrans,         \* bound: how many initial requests arrive
    MaxMsgs,          \* bound: how many messages arrive after them
    DeleteWindow      \* FALSE: no worker runs between unlink_timers and the
                      \* test of ref_count inside delete_handler

ASSUME ConstantsType ==
    /\ IsFiniteSet(Workers) /\ Timer \notin Workers
    /\ None \notin Cells \cup Workers \cup {Timer}
    /\ InviteCells \subseteq Cells /\ Udp \in BOOLEAN /\ RestartFr \in BOOLEAN
    /\ DeleteWindow \in BOOLEAN
    /\ Codes \subseteq 100..699 /\ ScriptCodes \subseteq 200..699
    /\ MaxTrans \in Nat /\ MaxMsgs \in Nat

Invite(c) == c \in InviteCells        \* is_invite(t)

Actors == Workers \cup {Timer}

\* The retransmission buffers of a cell: uac[0].request, uas.response and
\* uac[0].local_cancel.  Each has a retransmission and a final-response timer.
RetrBufs == {"req", "rpl", "cancel"}
RetrLinks == {"retr"} \X RetrBufs
FrLinks   == {"fr"} \X RetrBufs
WaitTl == <<"wait_tl", "cell">>
DeleTl == <<"dele_tl", "cell">>
Links  == RetrLinks \cup FrLinks \cup {WaitTl, DeleTl}

TimerLists == {"FR", "FR_INV", "WT", "DELETE", "RT"}

VARIABLES
    where,        \* of a cell: unborn, hashed, unhashed, freed
    ref_count,    \* of a cell
    link,         \* of a cell and a link: "never" (time_out = 0), "none"
                  \* (timer_list = NULL), the list it is in, or "detached"
    deleted,      \* of a cell and a link
    status,       \* uas.status
    uac,          \* the branch: "none", "unsent" (send failed), "sent"
    last_received,\* uac[0].last_received
    replied_local,\* relaied_reply_branch = -2
    cancel_buf,   \* uac[0].local_cancel.buffer: "null", "busy", "built"
    to_cancel,    \* T_UAC_TO_CANCEL_FLAG of uac[0]
    was_cancelled,\* T_WAS_CANCELLED_FLAG
    reply_lock,   \* owner of the cell's reply_mutex
    hash_lock,    \* owner of the hash entry's mutex
    todo,         \* of an actor: the calls still to make
    cell,         \* of an actor: the cell in hand
    detached,     \* the links taken off a list whose handler has not run yet
    remove,       \* the timer kinds unlink_timers found linked
    msgs          \* messages that may still arrive

tlvars   == <<link, deleted>>
tvars    == <<status, uac, last_received, replied_local, cancel_buf,
              to_cancel, was_cancelled>>
timervars == <<detached, remove>>
vars == <<where, ref_count, tlvars, tvars, reply_lock, hash_lock, todo, cell,
          timervars, msgs>>

Init ==
    /\ where = [c \in Cells |-> "unborn"]
    /\ ref_count = [c \in Cells |-> 0]
    /\ link = [c \in Cells |-> [l \in Links |-> "never"]]
    /\ deleted = [c \in Cells |-> [l \in Links |-> FALSE]]
    /\ status = [c \in Cells |-> 0]
    /\ uac = [c \in Cells |-> "none"]
    /\ last_received = [c \in Cells |-> 0]
    /\ replied_local = [c \in Cells |-> FALSE]
    /\ cancel_buf = [c \in Cells |-> "null"]
    /\ to_cancel = [c \in Cells |-> FALSE]
    /\ was_cancelled = [c \in Cells |-> FALSE]
    /\ reply_lock = [c \in Cells |-> None]
    /\ hash_lock = None
    /\ todo = [a \in Actors |-> <<>>]
    /\ cell = [a \in Actors |-> None]
    /\ detached = {}
    /\ remove = {}
    /\ msgs = MaxMsgs

----------------------------------------------------------------------------
(***************************************************************************)
(* Sequencing of calls.                                                    *)
(***************************************************************************)
\* A call: the function, the buffer it is about, the reply code and a
\* flag (for set_retr: retransmit; for process and relay: restart FR/RETR).
Op(name, rb, code, flag) ==
    [name |-> name, rb |-> rb, code |-> code, flag |-> flag]
Do(name)             == Op(name, "", 0, FALSE)
DoOn(name, rb)       == Op(name, rb, 0, FALSE)
DoCode(name, code)   == Op(name, "", code, FALSE)

Call(a) == Head(todo[a])
Calls(a, name) == todo[a] # <<>> /\ Call(a).name = name

\* a has made its next call, which leads to the calls more.
Done(a, more) == todo' = [todo EXCEPT ![a] = more \o Tail(@)]

(***************************************************************************)
(* The primitives of timer.c on one link.                                  *)
(***************************************************************************)
IsInTimerList(c, l) == link[c][l] \in TimerLists

\* insert_timer_unsafe clears the deleted mark.
InsertTimer(c, l, list) ==
    /\ link' = [link EXCEPT ![c][l] = list]
    /\ deleted' = [deleted EXCEPT ![c][l] = FALSE]

\* A detached link is left alone; otherwise the link is moved to the list.
SetTimer(c, l, list) ==
    IF link[c][l] = "detached" THEN UNCHANGED tlvars ELSE InsertTimer(c, l, list)

\* Only the first call in the life of the link has an effect.
Set1Timer(c, l, list) ==
    IF link[c][l] = "never" THEN InsertTimer(c, l, list) ELSE UNCHANGED tlvars

\* reset_timer on each link of L.
ResetTimers(c, L) ==
    /\ deleted' = [deleted EXCEPT ![c] = [l \in Links |-> @[l] \/ l \in L]]
    /\ UNCHANGED link

UacTimers == {<<"retr", "req">>, <<"fr", "req">>}
RplTimers == {<<"retr", "rpl">>, <<"fr", "rpl">>}
LocalCancelTimers == {<<"retr", "cancel">>, <<"fr", "cancel">>}

\* _set_fr_retr: one call per timer; start_retr retransmits over UDP only.
SetFrRetr(rb, retr) == << Op("set_retr", rb, 0, retr), DoOn("set_fr", rb) >>
StartRetr(rb) == SetFrRetr(rb, Udp)
ForceRetr(rb) == SetFrRetr(rb, TRUE)

----------------------------------------------------------------------------
(***************************************************************************)
(* The calls that set and reset timers.                                    *)
(***************************************************************************)
SetRetr(a) ==
    /\ Calls(a, "set_retr")
    /\ LET l == <<"retr", Call(a).rb>>
       IN  IF Call(a).flag /\ ~deleted[cell[a]][l]
           THEN SetTimer(cell[a], l, "RT")
           ELSE UNCHANGED tlvars
    /\ Done(a, <<>>)
    /\ UNCHANGED <<where, ref_count, tvars, reply_lock, hash_lock, cell,
                   timervars, msgs>>

SetFr(a) ==
    /\ Calls(a, "set_fr")
    /\ Set1Timer(cell[a], <<"fr", Call(a).rb>>, "FR")
    /\ Done(a, <<>>)
    /\ UNCHANGED <<where, ref_count, tvars, reply_lock, hash_lock, cell,
                   timervars, msgs>>

\* Faulty variant: the wait timer may be set again after it fired.
PutOnWaitAgain(a) ==
    /\ Calls(a, "put_on_wait")
    /\ InsertTimer(cell[a], WaitTl, "WT")
    /\ Done(a, <<>>)
    /\ UNCHANGED <<where, ref_count, tvars, reply_lock, hash_lock, cell,
                   timervars, msgs>>

PutOnWait(a) ==
    /\ Calls(a, "put_on_wait")
    /\ Set1Timer(cell[a], WaitTl, "WT")
    /\ Done(a, <<>>)
    /\ UNCHANGED <<where, ref_count, tvars, reply_lock, hash_lock, cell,
                   timervars, msgs>>

\* cleanup_uac_timers loops over the branches of the cell.
CleanupUacTimers(a) ==
    /\ Calls(a, "cleanup_uac_timers")
    /\ ResetTimers(cell[a], IF uac[cell[a]] # "none" THEN UacTimers ELSE {})
    /\ Done(a, <<>>)
    /\ UNCHANGED <<where, ref_count, tvars, reply_lock, hash_lock, cell,
                   timervars, msgs>>

ReleaseTransaction(a) ==
    /\ Calls(a, "t_release_transaction")
    /\ ResetTimers(cell[a], RplTimers)
    /\ Done(a, << Do("cleanup_uac_timers"), Do("put_on_wait") >>)
    /\ UNCHANGED <<where, ref_count, tvars, reply_lock, hash_lock, cell,
                   timervars, msgs>>

\* Faulty variant: a 2xx that was relayed is left without put_on_wait.
SetFinalTimerNoWait(a) ==
    /\ Calls(a, "set_final_timer")
    /\ LET c == cell[a]
       IN  Done(a,
             IF Invite(c) /\ status[c] >= 300 THEN StartRetr("rpl")
             ELSE IF Invite(c) /\ replied_local[c] /\ status[c] >= 200
                  THEN ForceRetr("rpl")
                  ELSE <<>>)
    /\ UNCHANGED <<where, ref_count, tlvars, tvars, reply_lock, hash_lock, cell,
                   timervars, msgs>>

\* Whether to retransmit the final reply is decided on the status found now.
SetFinalTimer(a) ==
    /\ Calls(a, "set_final_timer")
    /\ LET c == cell[a]
       IN  Done(a,
             IF Invite(c) /\ status[c] >= 300 THEN StartRetr("rpl")
             ELSE IF Invite(c) /\ replied_local[c] /\ status[c] >= 200
                  THEN ForceRetr("rpl")
                  ELSE << Do("put_on_wait") >>)
    /\ UNCHANGED <<where, ref_count, tlvars, tvars, reply_lock, hash_lock, cell,
                   timervars, msgs>>

\* Challenges are not retransmitted.
FinalTimer(code) ==
    IF code \in {401, 407} THEN Do("put_on_wait") ELSE Do("set_final_timer")

----------------------------------------------------------------------------
(***************************************************************************)
(* Replying, cancelling, forwarding.                                       *)
(***************************************************************************)
ShouldCancelBranch(c) ==
    uac[c] # "none" /\ cancel_buf[c] = "null" /\ last_received[c] < 200

\* which_cancel marks the cancel buffer busy and selects the branch.
WhichCancel(c) ==
    cancel_buf' = [cancel_buf EXCEPT ![c] =
                     IF ShouldCancelBranch(c) THEN "busy" ELSE @]

CancelUacsIf(selected) == IF selected THEN << Do("cancel_uacs") >> ELSE <<>>

\* t_reply (_reply_light).  A second final reply fails and cleans up.
Reply(a) ==
    /\ Calls(a, "t_reply")
    /\ LET c == cell[a]
           code == Call(a).code
       IN  /\ reply_lock[c] = None
           /\ \/ /\ status[c] >= 200
                 /\ Done(a, << Do("cleanup_uac_timers"), Do("put_on_wait") >>)
                 /\ UNCHANGED tvars
              \/ /\ status[c] < 200
                 /\ status' = [status EXCEPT ![c] = code]
                 /\ replied_local' = [replied_local EXCEPT ![c] = TRUE]
                 /\ IF Invite(c) /\ code >= 200
                    THEN WhichCancel(c) ELSE UNCHANGED cancel_buf
                 /\ Done(a, IF code < 200 THEN <<>> ELSE
                        << Do("cleanup_uac_timers") >>
                        \o CancelUacsIf(Invite(c) /\ ShouldCancelBranch(c))
                        \o << FinalTimer(code) >>)
                 /\ UNCHANGED <<uac, last_received, to_cancel,
                                was_cancelled>>
    /\ UNCHANGED <<where, ref_count, tlvars, reply_lock, hash_lock, cell,
                   timervars, msgs>>

\* cancel_uacs on the selected branch; reads last_received without the lock.
CancelUacs(a) ==
    /\ Calls(a, "cancel_uacs")
    /\ LET c == cell[a]
       IN  \/ /\ last_received[c] # 0
              /\ cancel_buf' = [cancel_buf EXCEPT ![c] = "built"]
              /\ Done(a, StartRetr("cancel"))
              /\ UNCHANGED to_cancel
           \/ /\ last_received[c] = 0
              /\ to_cancel' = [to_cancel EXCEPT ![c] = TRUE]
              /\ Done(a, <<>>)
              /\ UNCHANGED cancel_buf
    /\ UNCHANGED <<where, ref_count, tlvars, status, uac, last_received,
                   replied_local, was_cancelled, reply_lock, hash_lock, cell,
                   timervars, msgs>>

\* t_forward_nonack (through t_relay_to): a cancelled transaction is answered
\* 487 and not forwarded; any failure goes through kill_transaction, which
\* replies 500 (again, if the 487 is out).
Forward(a) ==
    /\ Calls(a, "t_forward_nonack")
    /\ LET c == cell[a]
       IN  \/ /\ was_cancelled[c]
              /\ Done(a, << DoCode("t_reply", 487), DoCode("t_reply", 500) >>)
              /\ UNCHANGED uac
           \/ /\ ~was_cancelled[c]
              /\ \/ /\ uac' = [uac EXCEPT ![c] = "sent"]
                    /\ Done(a, StartRetr("req"))
                 \/ /\ uac' = [uac EXCEPT ![c] = "unsent"]
                    /\ Done(a, << DoCode("t_reply", 500) >>)
    /\ UNCHANGED <<where, ref_count, tlvars, status, last_received,
                   replied_local, cancel_buf, to_cancel, was_cancelled,
                   reply_lock, hash_lock, cell, timervars, msgs>>

\* t_forward_nonack of a CANCEL: mark the INVITE transaction, then
\* cancel_invite selects the branch under the reply lock.
MarkCancelled(a) ==
    /\ Calls(a, "mark_cancelled")
    /\ was_cancelled' = [was_cancelled EXCEPT ![cell[a]] = TRUE]
    /\ Done(a, <<>>)
    /\ UNCHANGED <<where, ref_count, tlvars, status, uac, last_received,
                   replied_local, cancel_buf, to_cancel, reply_lock, hash_lock,
                   cell, timervars, msgs>>

CancelInvite(a) ==
    /\ Calls(a, "cancel_invite")
    /\ reply_lock[cell[a]] = None
    /\ WhichCancel(cell[a])
    /\ Done(a, CancelUacsIf(ShouldCancelBranch(cell[a])))
    /\ UNCHANGED <<where, ref_count, tlvars, status, uac, last_received,
                   replied_local, to_cancel, was_cancelled, reply_lock,
                   hash_lock, cell, timervars, msgs>>

----------------------------------------------------------------------------
(***************************************************************************)
(* Processing a reply from downstream, and the 408 of the FR timer.        *)
(***************************************************************************)
StopTimers(a) ==
    /\ Calls(a, "stop_timers")
    /\ ResetTimers(cell[a],
         {<<"retr", "req">>} \cup
         (IF Call(a).code >= 200 THEN {<<"fr", "req">>} ELSE {}))
    /\ Done(a, <<>>)
    /\ UNCHANGED <<where, ref_count, tvars, reply_lock, hash_lock, cell,
                   timervars, msgs>>

LockReplies(a) ==
    /\ Calls(a, "LOCK_REPLIES")
    /\ reply_lock[cell[a]] = None
    /\ reply_lock' = [reply_lock EXCEPT ![cell[a]] = a]
    /\ Done(a, <<>>)
    /\ UNCHANGED <<where, ref_count, tlvars, tvars, hash_lock, cell, timervars,
                   msgs>>

\* The start of process_reply_and_timer: a pending CANCEL is sent on a
\* provisional reply, under the reply lock.
ProcessReply(a) ==
    /\ Calls(a, "process_reply_and_timer")
    /\ LET c == cell[a]
           code == Call(a).code
           pending == to_cancel[c] \/ (was_cancelled[c] /\ cancel_buf[c] = "null")
           cancel == pending /\ code < 200
       IN  /\ cancel_buf' = [cancel_buf EXCEPT ![c] = IF cancel THEN "built" ELSE @]
           /\ to_cancel' = [to_cancel EXCEPT ![c] = @ /\ ~pending]
           /\ Done(a, (IF cancel THEN StartRetr("cancel") ELSE <<>>)
                      \o << Op("relay_reply", "msg", code, Call(a).flag) >>)
    /\ UNCHANGED <<where, ref_count, tlvars, status, uac, last_received,
                   replied_local, was_cancelled, reply_lock, hash_lock, cell,
                   timervars, msgs>>

\* What t_should_relay_response makes of code on the only branch.
Is2xx(code) == code >= 200 /\ code < 300
RpsOf(c, code) ==
    IF status[c] >= 200
    THEN IF Invite(c) /\ Is2xx(code) THEN "PUSHED_AFTER_COMPLETION" ELSE "DISCARDED"
    ELSE IF last_received[c] >= 200
            /\ ~(Invite(c) /\ Is2xx(code) /\ last_received[c] < 300)
    THEN "DISCARDED"
    ELSE IF code >= 200 THEN "COMPLETED" ELSE "PROVISIONAL"

\* relay_reply, up to its UNLOCK_REPLIES, and the calls that follow it in
\* process_reply_and_timer or in fake_reply.
RelayReply(a) ==
    /\ Calls(a, "relay_reply")
    /\ LET c == cell[a]
           code == Call(a).code
           rps == RpsOf(c, code)
           relayed == rps # "DISCARDED" /\ code # 100
       IN  /\ last_received' = [last_received EXCEPT ![c] =
                                  IF rps # "DISCARDED" THEN code ELSE @]
           /\ status' = [status EXCEPT ![c] = IF relayed THEN code ELSE @]
           /\ replied_local' = [replied_local EXCEPT ![c] = @ /\ ~relayed]
           /\ Done(a,
                IF rps = "COMPLETED"
                THEN << FinalTimer(code) >> \o
                     (IF Call(a).rb = "msg" THEN << Do("cleanup_uac_timers") >>
                      ELSE <<>>)
                ELSE IF rps = "PROVISIONAL" /\ Call(a).flag
                     THEN << Do("restart_timers") >>
                     ELSE <<>>)
           /\ reply_lock' = [reply_lock EXCEPT ![c] = None]
    /\ UNCHANGED <<where, ref_count, tlvars, uac, cancel_buf, to_cancel,
                   was_cancelled, hash_lock, cell, timervars, msgs>>

\* INVITE: the FR timer becomes the longer FR_INV timer; otherwise slow
\* retransmissions are restarted.
RestartTimers(a) ==
    /\ Calls(a, "restart_timers")
    /\ IF Invite(cell[a]) THEN SetTimer(cell[a], <<"fr", "req">>, "FR_INV")
                 ELSE SetTimer(cell[a], <<"retr", "req">>, "RT")
    /\ Done(a, <<>>)
    /\ UNCHANGED <<where, ref_count, tvars, reply_lock, hash_lock, cell,
                   timervars, msgs>>

\* A reply to our CANCEL only stops the timers of the CANCEL.
CancelReplied(a) ==
    /\ Calls(a, "cancel_replied")
    /\ ResetTimers(cell[a],
         {<<"retr", "cancel">>} \cup
         (IF Call(a).code >= 200 THEN {<<"fr", "cancel">>} ELSE {}))
    /\ Done(a, <<>>)
    /\ UNCHANGED <<where, ref_count, tvars, reply_lock, hash_lock, cell,
                   timervars, msgs>>

----------------------------------------------------------------------------
(***************************************************************************)
(* The workers: a new request, and messages that match a cell in the hash  *)
(* table.  A matched cell is referenced while the hash entry is locked, and *)
(* dereferenced at the end of the processing.                              *)
(***************************************************************************)
\* t_newtran of a new request, then the request route and t_unref.
NewTran(w, c) ==
    /\ todo[w] = <<>> /\ hash_lock = None
    /\ where[c] = "unborn"
    /\ Cardinality({d \in Cells : where[d] # "unborn"}) < MaxTrans
    /\ where' = [where EXCEPT ![c] = "hashed"]
    /\ ref_count' = [ref_count EXCEPT ![c] = 1]
    /\ cell' = [cell EXCEPT ![w] = c]
    /\ todo' = [todo EXCEPT ![w] =
                  (IF Invite(c) THEN << DoCode("t_reply", 100) >> ELSE <<>>)
                  \o << Do("route"), Do("UNREF") >>]
    /\ UNCHANGED <<tlvars, tvars, reply_lock, hash_lock, timervars, msgs>>

\* The route relays, replies, or does neither (kr = 0, so t_unref releases).
Route(w) ==
    /\ Calls(w, "route")
    /\ \/ Done(w, << Do("t_forward_nonack") >>)
       \/ \E code \in ScriptCodes : Done(w, << DoCode("t_reply", code) >>)
       \/ Done(w, << Do("t_release_transaction") >>)
    /\ UNCHANGED <<where, ref_count, tlvars, tvars, reply_lock, hash_lock, cell,
                   timervars, msgs>>

\* Faulty variant: the match does not take a reference.
MatchNoRef(w, c, calls) ==
    /\ todo[w] = <<>> /\ hash_lock = None /\ msgs > 0
    /\ where[c] = "hashed"
    /\ cell' = [cell EXCEPT ![w] = c]
    /\ todo' = [todo EXCEPT ![w] = calls \o << Do("UNREF") >>]
    /\ msgs' = msgs - 1
    /\ UNCHANGED <<where, ref_count, tlvars, tvars, reply_lock, hash_lock,
                   timervars>>

\* A message matches c: REF_UNSAFE under the lock of the hash entry.
Match(w, c, calls) ==
    /\ todo[w] = <<>> /\ hash_lock = None /\ msgs > 0
    /\ where[c] = "hashed"
    /\ ref_count' = [ref_count EXCEPT ![c] = @ + 1]
    /\ cell' = [cell EXCEPT ![w] = c]
    /\ todo' = [todo EXCEPT ![w] = calls \o << Do("UNREF") >>]
    /\ msgs' = msgs - 1
    /\ UNCHANGED <<where, tlvars, tvars, reply_lock, hash_lock, timervars>>

Retransmission(w, c) == Match(w, c, << Do("t_retransmit_reply") >>)

\* The ACK to a negative reply, or to a 2xx of ours, releases the cell.
Ack(w, c) ==
    /\ Invite(c)
    /\ status[c] >= 300 \/ (status[c] >= 200 /\ replied_local[c])
    /\ Match(w, c, << Do("t_release_transaction") >>)

\* reply_received; last_uac_status is read here, before the lock.
ReplyReceived(w, c, code) ==
    LET seen == last_received[c]
        restart == /\ code < 200
                   /\ \/ RestartFr
                      \/ seen < code /\ (code >= 180 \/ seen = 0)
    IN  /\ uac[c] = "sent"
        /\ Match(w, c, << DoCode("stop_timers", code), Do("LOCK_REPLIES"),
                          Op("process_reply_and_timer", "", code, restart) >>)

ReplyToCancel(w, c, code) ==
    /\ cancel_buf[c] = "built"
    /\ Match(w, c, << DoCode("cancel_replied", code) >>)

Cancel(w, c) ==
    /\ Invite(c)
    /\ Match(w, c, << Do("mark_cancelled"), Do("cancel_invite") >>)

RetransmitReply(w) ==
    /\ Calls(w, "t_retransmit_reply")
    /\ reply_lock[cell[w]] = None
    /\ Done(w, <<>>)
    /\ UNCHANGED <<where, ref_count, tlvars, tvars, reply_lock, hash_lock, cell,
                   timervars, msgs>>

Unref(w) ==
    /\ Calls(w, "UNREF")
    /\ hash_lock = None
    /\ ref_count' = [ref_count EXCEPT ![cell[w]] = @ - 1]
    /\ cell' = [cell EXCEPT ![w] = None]
    /\ Done(w, <<>>)
    /\ UNCHANGED <<where, tlvars, tvars, reply_lock, hash_lock, timervars, msgs>>

----------------------------------------------------------------------------
(***************************************************************************)
(* The timer process.  timer_routine goes through the FR, FR_INV, WT and   *)
(* DELETE lists, utimer_routine through the RT lists, at every tick;       *)
(* ex_lock keeps the two routines of a timer set apart, so that one actor  *)
(* stands for both.  A list with nothing expired is passed over without    *)
(* effect, so the lists served are any sequence of lists.                  *)
(***************************************************************************)
InList(list) == {x \in Cells \X Links : link[x[1]][x[2]] = list}

\* check_and_split_time_list: the links of `expired` leave the list together.
Split(list, expired) ==
    /\ todo[Timer] = <<>>
    /\ expired # {} /\ expired \subseteq InList(list)
    /\ link' = [c \in Cells |-> [l \in Links |->
                 IF <<c, l>> \in expired THEN "detached" ELSE link[c][l]]]
    /\ detached' = expired
    /\ todo' = [todo EXCEPT ![Timer] = << Do("run_handler_for_each") >>]
    /\ UNCHANGED <<where, ref_count, deleted, tvars, reply_lock, hash_lock, cell,
                   remove, msgs>>

Handler(l) ==
    CASE l[1] = "retr"    -> DoOn("retransmission_handler", l[2])
      [] l[1] = "fr"      -> DoOn("final_response_handler", l[2])
      [] l[1] = "wait_tl" -> Do("wait_handler")
      [] l[1] = "dele_tl" -> Do("unlink_timers")

\* run_handler_for_each: the deleted mark is looked at once, here.
RunHandler(x) ==
    /\ Calls(Timer, "run_handler_for_each")
    /\ x \in detached
    /\ detached' = detached \ {x}
    /\ IF deleted[x[1]][x[2]]
       THEN UNCHANGED <<todo, cell>>
       ELSE /\ cell' = [cell EXCEPT ![Timer] = x[1]]
            /\ todo' = [todo EXCEPT ![Timer] = << Handler(x[2]) >> \o @]
    /\ UNCHANGED <<where, ref_count, tlvars, tvars, reply_lock, hash_lock,
                   remove, msgs>>

HandlersDone ==
    /\ Calls(Timer, "run_handler_for_each")
    /\ detached = {}
    /\ cell' = [cell EXCEPT ![Timer] = None]
    /\ Done(Timer, <<>>)
    /\ UNCHANGED <<where, ref_count, tlvars, tvars, reply_lock, hash_lock,
                   timervars, msgs>>

\* Sends, then links the timer again; a reset that came since the deleted mark
\* was tested is lost.  Resending a reply takes the reply lock.
RetransmissionHandler ==
    /\ Calls(Timer, "retransmission_handler")
    /\ LET c == cell[Timer]
           rb == Call(Timer).rb
       IN  /\ rb = "rpl" => reply_lock[c] = None
           /\ InsertTimer(c, <<"retr", rb>>, "RT")
    /\ Done(Timer, <<>>)
    /\ UNCHANGED <<where, ref_count, tvars, reply_lock, hash_lock, cell,
                   timervars, msgs>>

FinalResponseHandler ==
    /\ Calls(Timer, "final_response_handler")
    /\ LET rb == Call(Timer).rb
       IN  /\ ResetTimers(cell[Timer], {<<"retr", rb>>})
           /\ Done(Timer,
                CASE rb = "cancel" -> <<>>
                  [] rb = "rpl"    -> << Do("put_on_wait") >>
                  [] rb = "req"    ->
                       << Do("cancel_timed_out"), Do("LOCK_REPLIES"),
                          Op("relay_reply", "timer", 408, FALSE) >>)
    /\ UNCHANGED <<where, ref_count, tvars, reply_lock, hash_lock, cell,
                   timervars, msgs>>

\* should_cancel_branch is called here without the reply lock.
CancelTimedOut ==
    /\ Calls(Timer, "cancel_timed_out")
    /\ LET c == cell[Timer]
       IN  /\ IF Invite(c) THEN WhichCancel(c) ELSE UNCHANGED cancel_buf
           /\ Done(Timer, CancelUacsIf(Invite(c) /\ ShouldCancelBranch(c)))
    /\ UNCHANGED <<where, ref_count, tlvars, status, uac, last_received,
                   replied_local, to_cancel, was_cancelled, reply_lock,
                   hash_lock, cell, timervars, msgs>>

----------------------------------------------------------------------------
(***************************************************************************)
(* Deleting a cell: wait_handler, delete_handler, delete_cell.             *)
(***************************************************************************)
WaitHandler ==
    /\ Calls(Timer, "wait_handler")
    /\ ResetTimers(cell[Timer],
         IF Invite(cell[Timer]) /\ uac[cell[Timer]] # "none" THEN LocalCancelTimers ELSE {})
    /\ Done(Timer, << Do("remove_from_hash_table"), Do("unlink_timers") >>)
    /\ UNCHANGED <<where, ref_count, tvars, reply_lock, hash_lock, cell,
                   timervars, msgs>>

\* Takes the lock of the hash entry and keeps it until delete_cell lets go.
RemoveFromHashTable ==
    /\ Calls(Timer, "remove_from_hash_table")
    /\ hash_lock = None
    /\ hash_lock' = Timer
    /\ where' = [where EXCEPT ![cell[Timer]] = "unhashed"]
    /\ Done(Timer, <<>>)
    /\ UNCHANGED <<ref_count, tlvars, tvars, reply_lock, cell, timervars, msgs>>

\* unlink_timers first looks, without a lock, whether any timer is linked.
UnlinkTimers ==
    /\ Calls(Timer, "unlink_timers")
    /\ remove' = {kind \in {"retr", "fr"} :
                    \E rb \in RetrBufs : IsInTimerList(cell[Timer], <<kind, rb>>)}
    /\ Done(Timer, << DoOn("unlink", "retr"), DoOn("unlink", "fr"),
                      Do("test_ref") >>)
    /\ UNCHANGED <<where, ref_count, tlvars, tvars, reply_lock, hash_lock, cell,
                   detached, msgs>>

\* Faulty variant: the FR timers are not removed.
UnlinkRetrOnly ==
    /\ Calls(Timer, "unlink")
    /\ LET c == cell[Timer]
           L == IF Call(Timer).rb \in remove
                THEN {l \in RetrLinks : l[1] = Call(Timer).rb /\ IsInTimerList(c, l)}
                ELSE {}
       IN  link' = [link EXCEPT ![c] =
                     [l \in Links |-> IF l \in L THEN "none" ELSE @[l]]]
    /\ Done(Timer, <<>>)
    /\ UNCHANGED <<where, ref_count, deleted, tvars, reply_lock, hash_lock, cell,
                   timervars, msgs>>

\* Then it removes the timers of each kind found under the lock of the lists.
Unlink ==
    /\ Calls(Timer, "unlink")
    /\ LET c == cell[Timer]
           L == IF Call(Timer).rb \in remove
                THEN {l \in RetrLinks \cup FrLinks :
                        l[1] = Call(Timer).rb /\ IsInTimerList(c, l)}
                ELSE {}
       IN  link' = [link EXCEPT ![c] =
                     [l \in Links |-> IF l \in L THEN "none" ELSE @[l]]]
    /\ Done(Timer, <<>>)
    /\ UNCHANGED <<where, ref_count, deleted, tvars, reply_lock, hash_lock, cell,
                   timervars, msgs>>

\* Faulty variant: the cell is freed whether or not it is referenced.
TestRefAlwaysFree ==
    /\ Calls(Timer, "test_ref")
    /\ Done(Timer, << Do("free_cell") >>)
    /\ hash_lock' = None
    /\ UNCHANGED <<where, ref_count, tlvars, tvars, reply_lock, cell, timervars,
                   msgs>>

\* IS_REFFED_UNSAFE, then UNLOCK_HASH if the lock is held.
TestRef ==
    /\ Calls(Timer, "test_ref")
    /\ Done(Timer, << IF ref_count[cell[Timer]] # 0
                      THEN Do("delete_later") ELSE Do("free_cell") >>)
    /\ hash_lock' = None
    /\ UNCHANGED <<where, ref_count, tlvars, tvars, reply_lock, cell, timervars,
                   msgs>>

\* Faulty variant: the link still counts as detached, and set_timer leaves it so.
DeleteLaterDetached ==
    /\ Calls(Timer, "delete_later")
    /\ SetTimer(cell[Timer], DeleTl, "DELETE")
    /\ Done(Timer, <<>>)
    /\ UNCHANGED <<where, ref_count, tvars, reply_lock, hash_lock, cell,
                   timervars, msgs>>

\* The delete timer, which may just have fired, is set again.
DeleteLater ==
    /\ Calls(Timer, "delete_later")
    /\ InsertTimer(cell[Timer], DeleTl, "DELETE")
    /\ Done(Timer, <<>>)
    /\ UNCHANGED <<where, ref_count, tvars, reply_lock, hash_lock, cell,
                   timervars, msgs>>

FreeCell ==
    /\ Calls(Timer, "free_cell")
    /\ where' = [where EXCEPT ![cell[Timer]] = "freed"]
    /\ cell' = [cell EXCEPT ![Timer] = None]
    /\ Done(Timer, <<>>)
    /\ UNCHANGED <<ref_count, tlvars, tvars, reply_lock, hash_lock, timervars,
                   msgs>>

----------------------------------------------------------------------------
\* The calls that workers and the timer process share.
SharedCall(a) ==
    \/ SetRetr(a) \/ SetFr(a) \/ PutOnWait(a)
    \/ SetFinalTimer(a) \/ CancelUacs(a) \/ LockReplies(a) \/ RelayReply(a)

WorkerCall(w) ==
    \/ SharedCall(w)
    \/ Route(w) \/ ReleaseTransaction(w) \/ Reply(w) \/ Forward(w)
    \/ CleanupUacTimers(w)
    \/ MarkCancelled(w) \/ CancelInvite(w) \/ StopTimers(w)
    \/ ProcessReply(w) \/ RestartTimers(w) \/ CancelReplied(w)
    \/ RetransmitReply(w) \/ Unref(w)

Arrival(w) == \E c \in Cells :
    \/ NewTran(w, c) \/ Retransmission(w, c) \/ Ack(w, c) \/ Cancel(w, c)
    \/ \E code \in Codes : ReplyReceived(w, c, code)
    \/ \E code \in {100, 200} : ReplyToCancel(w, c, code)

\* delete_handler is between unlink_timers and the test of ref_count.
InDeleteWindow ==
    /\ hash_lock = None
    /\ Calls(Timer, "unlink") \/ Calls(Timer, "test_ref")

WorkerStep(w) == (DeleteWindow \/ ~InDeleteWindow) /\ WorkerCall(w)

TimerHandler ==
    \/ SharedCall(Timer)
    \/ \E x \in detached : RunHandler(x)
    \/ HandlersDone \/ RetransmissionHandler \/ FinalResponseHandler
    \/ CancelTimedOut \/ WaitHandler \/ RemoveFromHashTable
    \/ UnlinkTimers \/ Unlink \/ TestRef \/ DeleteLater \/ FreeCell

TimerPass(list) == \E expired \in SUBSET InList(list) : Split(list, expired)

\* Nobody has anything to do, and a timer tick finds nothing expired.
Idle == (\A a \in Actors : todo[a] = <<>>) /\ UNCHANGED vars

Next ==
    \/ \E w \in Workers : WorkerStep(w) \/ Arrival(w)
    \/ \E list \in TimerLists : TimerPass(list)
    \/ TimerHandler
    \/ Idle

Spec == Init /\ [][Next]_vars

(***************************************************************************)
(* Fairness: processes keep running, the timer routines keep being called, *)
(* and a timer that stays in its list is found expired in the end.  A      *)
(* worker that DeleteWindow = FALSE holds back goes on after the window.   *)
(***************************************************************************)
Fairness ==
    /\ \A w \in Workers : WF_vars(WorkerCall(w))
    /\ WF_vars(TimerHandler)
    /\ \A list \in TimerLists \ {"RT"} : SF_vars(Split(list, InList(list)))

FairSpec == Spec /\ Fairness

----------------------------------------------------------------------------
CallNames == {"set_retr", "set_fr", "put_on_wait", "cleanup_uac_timers",
    "t_release_transaction", "set_final_timer", "t_reply", "cancel_uacs",
    "t_forward_nonack", "mark_cancelled", "cancel_invite", "stop_timers",
    "LOCK_REPLIES", "process_reply_and_timer", "relay_reply", "restart_timers",
    "cancel_replied", "route", "t_retransmit_reply", "UNREF",
    "run_handler_for_each", "retransmission_handler", "final_response_handler",
    "cancel_timed_out", "wait_handler", "remove_from_hash_table",
    "unlink_timers", "unlink", "test_ref", "delete_later", "free_cell"}
ReplyCodes == 0..699    \* 0: none
OpType == [name : CallNames,
           rb   : RetrBufs \cup {"", "msg", "timer", "retr", "fr"},
           code : ReplyCodes, flag : BOOLEAN]

\* The state of cells, actors and timer links has the shape of the C structures.
TypeOK ==
    /\ where \in [Cells -> {"unborn", "hashed", "unhashed", "freed"}]
    /\ ref_count \in [Cells -> Nat]
    /\ link \in [Cells -> [Links -> TimerLists \cup {"never", "none", "detached"}]]
    /\ deleted \in [Cells -> [Links -> BOOLEAN]]
    /\ status \in [Cells -> ReplyCodes]
    /\ uac \in [Cells -> {"none", "unsent", "sent"}]
    /\ last_received \in [Cells -> ReplyCodes]
    /\ replied_local \in [Cells -> BOOLEAN]
    /\ cancel_buf \in [Cells -> {"null", "busy", "built"}]
    /\ to_cancel \in [Cells -> BOOLEAN] /\ was_cancelled \in [Cells -> BOOLEAN]
    /\ reply_lock \in [Cells -> Actors \cup {None}]
    /\ hash_lock \in {Timer, None}
    /\ todo \in [Actors -> Seq(OpType)]
    /\ cell \in [Actors -> Cells \cup {None}]
    /\ detached \subseteq Cells \X Links
    /\ remove \subseteq {"retr", "fr"}
    /\ msgs \in Nat

\* ref_count is the number of workers that use the cell: every REF of t_lookup.c
\* is paired with one UNREF on every path of the processing.
RefCountExact ==
    \A c \in Cells : ref_count[c] = Cardinality({w \in Workers : cell[w] = c})

\* free_cell never takes a cell from under a worker: delete_cell's IS_REFFED test
\* is enough, though it is made without the hash lock from delete_handler and the
\* cell is freed after the lock is released.
NoUseAfterFree == \A w \in Workers : cell[w] # None => where[cell[w]] # "freed"

\* A timer that is in a list, or detached with its handler still to run.
Pending(c, l) == IsInTimerList(c, l) \/ <<c, l>> \in detached

\* A cell goes through wait_handler once, and is on the delete list only after
\* that: "putting it multiple-times might result in ... the transaction would be
\* re-deleted" (put_on_wait).
DeletedOnce ==
    \A c \in Cells :
      /\ Pending(c, WaitTl) => where[c] = "hashed"
      /\ Pending(c, DeleTl) => where[c] = "unhashed"

\* free_cell leaves no timer link of the cell in a timer list or in the hands of
\* the timer routine (unlink_timers).
NoTimerOnFreedCell ==
    \A c \in Cells : where[c] = "freed" => \A l \in Links : ~Pending(c, l)

\* A transaction is never forgotten: while it is in the hash table, somebody is
\* working on it or a timer is armed that will complete it or delete it, however
\* set_timer, set_1timer and reset_timer of replies, requests and timers cross.
NoOrphan ==
    \A c \in Cells : where[c] = "hashed" =>
      \/ \E a \in Actors : cell[a] = c /\ todo[a] # <<>>
      \/ \E l \in {WaitTl, <<"fr", "req">>, <<"fr", "rpl">>} :
            Pending(c, l) /\ ~deleted[c][l]

\* Every transaction is freed in the end, whatever messages came.
EventuallyFreed ==
    \A c \in Cells : where[c] = "hashed" ~> where[c] = "freed"
============================================================================
