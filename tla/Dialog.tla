------------------------------- MODULE Dialog -------------------------------
(***************************************************************************)
(* The life of a dialog: its state machine, its reference count, its       *)
(* lifetime, ping and delete timers (modules/dialog: dlg_hash.c,           *)
(* dlg_hash.h, dlg_timer.c, dlg_handlers.c, dlg_req_within.c).             *)
(*                                                                         *)
(* Every SIP worker, and the process that runs the dialog timer routines,  *)
(* is an actor that runs one handler at a time; pc[a] is the next step of  *)
(* its handler.  A step is one critical section of the hash entry or of a  *)
(* timer list, or one unprotected access.  hand is the set of references   *)
(* that handlers hold or still have to give back: the pair <<a, "hash">>,  *)
(* for instance, stands for the 1 in the variable unref of a's handler     *)
(* that next_state_dlg asked for.                                          *)
(*                                                                         *)
(* The transactions are external: the INVITE transaction calls dlg_onreply *)
(* while it exists (outside its reply lock, so in any order), and every    *)
(* other transaction that refers to the dialog releases it in the end.     *)
(***************************************************************************)
EXTENDS Integers, FiniteSets

CONSTANTS
    Workers,      \* the SIP worker processes
    Timer,        \* the process inside a timer routine of the module
    FlagSets,     \* the flags a dialog may be created with
    DelDelays,    \* whether the module parameter delete_delay is set
    MaxMsgs,      \* how many messages, commands and pings there may be
    LateAnswer,   \* FALSE: no 2xx comes for a failed dialog after the race timer
                  \* that a CANCEL started has expired
    Windows       \* FALSE: nobody runs between the insertion of a timer and
                  \* the ref_dlg that follows it, nor between the test of
                  \* tl->timeout and *tl = bk_tl in dlg_ontimeout

ASSUME ConstantsType ==
    /\ IsFiniteSet(Workers) /\ Timer \notin Workers
    /\ FlagSets \subseteq SUBSET {"BYEONTIMEOUT", "END_ON_RACE_CONDITION",
                                  "PING", "rt_on_timeout", "del_delay"}
    /\ DelDelays \subseteq BOOLEAN /\ MaxMsgs \in Nat
    /\ LateAnswer \in BOOLEAN /\ Windows \in BOOLEAN

Actors == Workers \cup {Timer}

VARIABLES
    dlg_del_delay,\* the module parameter is non-zero
    where,        \* "none", "hashed", "destroyed"
    state,        \* of the dialog, DLG_STATE_*
    flags,        \* of the dialog
    ref,          \* of the dialog
    tl,           \* the lifetime timer: "out" (prev = next = 0), "in" the list,
                  \* "gone" (prev = 0, next # 0: expired or removed)
    del_tl,       \* the delete timer, likewise
    ping,         \* the ping node: "out", "in", "pinged", "failed"
    tmcb,         \* the callbacks of the INVITE transaction exist
    byes,         \* BYEs of ours without a final reply
    txns,         \* other references kept by transactions
    jobs,         \* dlg_end_rpc jobs that are dispatched and have not run
    hand,         \* references in the hands of a handler
    pc,           \* of an actor
    inserted,     \* the actors between the insertion of tl and ref_dlg
    fails,        \* of an actor: the dual_bye_event calls still to make
    msgs          \* what may still arrive

dlgvars   == <<state, flags>>
timervars == <<tl, del_tl, ping>>
heldvars  == <<tmcb, byes, txns, jobs>>
vars == <<dlg_del_delay, where, dlgvars, ref, timervars, heldvars, hand, pc,
          inserted, fails, msgs>>

Setup     == {"UNCONFIRMED", "EARLY"}
Confirmed == {"CONFIRMED_NA", "CONFIRMED"}

Init ==
    /\ dlg_del_delay \in DelDelays
    /\ where = "none" /\ state = "UNCONFIRMED" /\ flags = {} /\ ref = 0
    /\ tl = "out" /\ del_tl = "out" /\ ping = "out"
    /\ tmcb = FALSE /\ byes = 0 /\ txns = 0 /\ jobs = 0
    /\ hand = {} /\ inserted = {}
    /\ pc = [a \in Actors |-> "idle"] /\ fails = [a \in Actors |-> 0]
    /\ msgs = MaxMsgs

----------------------------------------------------------------------------
(***************************************************************************)
(* References.                                                             *)
(***************************************************************************)
Goto(a, label) == pc' = [pc EXCEPT ![a] = label]

\* ref_dlg by a handler that keeps the reference.
Take(a, kind) == ref' = ref + 1 /\ hand' = hand \cup {<<a, kind>>}

\* unref_dlg(dlg, n): the last reference destroys the dialog, or has it wait
\* in the delete timer unless it has been there already.
UnrefTo(n) ==
    /\ ref' = n
    /\ IF n > 0 THEN UNCHANGED <<where, tl, del_tl>>
       ELSE IF dlg_del_delay \/ "del_delay" \in flags
       THEN /\ del_tl' = IF del_tl = "out" THEN "in" ELSE del_tl
            /\ UNCHANGED <<where, tl>>
       ELSE /\ where' = "destroyed"
            /\ tl' = IF tl = "in" THEN "gone" ELSE tl
            /\ UNCHANGED del_tl

\* a gives back the references of these kinds.
Drop(a, kinds) ==
    LET given == {x \in hand : x[1] = a /\ x[2] \in kinds}
    IN  hand' = hand \ given /\ UnrefTo(ref - Cardinality(given))

(***************************************************************************)
(* next_state_dlg.  leg: the BYE comes on a leg that may end the call.     *)
(***************************************************************************)
NextState(event, leg) ==
    CASE event \in {"TDEL", "RPL3xx"} /\ state \in Setup -> "DELETED"
      [] event = "RPL1xx" /\ state \in Setup -> "EARLY"
      [] event = "RPL2xx" /\ state \in Setup -> "CONFIRMED_NA"
      [] event = "RPL2xx" /\ state = "DELETED" /\ "HASBYE" \notin flags
           -> "CONFIRMED_NA"
      [] event = "REQACK" /\ state = "CONFIRMED_NA" -> "CONFIRMED"
      [] event = "REQBYE" /\ leg /\ state \in Confirmed -> "DELETED"
      [] OTHER -> state

\* Mutant: the dialog is not referenced again when a late 2xx revives it.
NextStateDlgNotBack(a, event, leg) ==
    LET new == NextState(event, leg)
        ends == new = "DELETED" /\ state # "DELETED"
    IN  /\ state' = new
        /\ flags' = flags \cup
             (IF event = "REQBYE" /\ leg /\ state # "DELETED" THEN {"HASBYE"} ELSE {})
        /\ hand' = hand \cup (IF ends THEN {<<a, "hash">>} ELSE {})
        /\ UNCHANGED ref

\* The reference of the hash table is a's to give back when the dialog ends,
\* and is taken again when a 2xx comes for a dialog that had failed.
NextStateDlg(a, event, leg) ==
    LET new == NextState(event, leg)
        ends == new = "DELETED" /\ state # "DELETED"
        back == state = "DELETED" /\ new # "DELETED"
    IN  /\ state' = new
        /\ flags' = flags \cup
             (IF event = "REQBYE" /\ leg /\ state # "DELETED" THEN {"HASBYE"} ELSE {})
        /\ hand' = hand \cup (IF ends THEN {<<a, "hash">>} ELSE {})
        /\ ref' = ref + (IF back THEN 1 ELSE 0)

\* What dlg_onreply, dlg_onroute and the others call "old_state != DELETED".
Ended == state # "DELETED" /\ state' = "DELETED"

----------------------------------------------------------------------------
(***************************************************************************)
(* The lifetime timer.                                                     *)
(***************************************************************************)
\* The steps that insert the timer, and what follows each of them.
AfterArm == [reply_timer  |-> "idle",  cancel_timer |-> "cancel_ctx",
             seq_timer    |-> "ctx",   ack_timer    |-> "ack_ping",
             script_timer |-> "leave", route_timer  |-> "route_test"]

\* insert_dlg_timer or update_dlg_timer: only a timer that never was in the
\* list is inserted, and only an insertion is followed by ref_dlg.
ArmTimer(a) ==
    /\ pc[a] \in DOMAIN AfterArm /\ a \notin inserted
    /\ IF tl # "out" THEN Goto(a, AfterArm[pc[a]]) /\ UNCHANGED <<tl, inserted>>
       ELSE tl' = "in" /\ inserted' = inserted \cup {a} /\ UNCHANGED pc
    /\ UNCHANGED <<dlg_del_delay, where, dlgvars, ref, del_tl, ping, heldvars, hand,
                   fails, msgs>>

\* "reference dialog as kept in timer list"
RefTimer(a) ==
    /\ a \in inserted
    /\ inserted' = inserted \ {a} /\ ref' = ref + 1
    /\ Goto(a, AfterArm[pc[a]])
    /\ UNCHANGED <<dlg_del_delay, where, dlgvars, timervars, heldvars, hand, fails,
                   msgs>>

\* Mutant: a reference is counted for a timer that was not in the list, too.
RemoveTimerBlind(a) ==
    /\ pc[a] \in {"bye_timer", "dual_timer"}
    /\ tl' = "gone" /\ hand' = hand \cup {<<a, "timer">>}
    /\ Goto(a, IF pc[a] = "bye_timer" THEN "bye_unref" ELSE "dual_unref")
    /\ UNCHANGED <<dlg_del_delay, where, dlgvars, ref, del_tl, ping, heldvars,
                   inserted, fails, msgs>>

\* Mutant: the reference of the timer list is forgotten.
RemoveTimerKeepsRef(a) ==
    /\ pc[a] \in {"bye_timer", "dual_timer"}
    /\ tl' = IF tl = "in" THEN "gone" ELSE tl
    /\ Goto(a, IF pc[a] = "bye_timer" THEN "bye_unref" ELSE "dual_unref")
    /\ UNCHANGED <<dlg_del_delay, where, dlgvars, ref, del_tl, ping, heldvars, hand,
                   inserted, fails, msgs>>

\* remove_dlg_timer; a timer that was in the list is one more reference to
\* give back.
RemoveTimer(a) ==
    /\ pc[a] \in {"bye_timer", "dual_timer"}
    /\ IF tl = "in" THEN tl' = "gone" /\ hand' = hand \cup {<<a, "timer">>}
                    ELSE UNCHANGED <<tl, hand>>
    /\ Goto(a, IF pc[a] = "bye_timer" THEN "bye_unref" ELSE "dual_unref")
    /\ UNCHANGED <<dlg_del_delay, where, dlgvars, ref, del_tl, ping, heldvars,
                   inserted, fails, msgs>>

\* The steps that give back what the handler owes, and what follows.
AfterUnref == [reply_unref |-> "idle", tdel_unref |-> "idle", bye_unref |-> "ctx",
               dual_unref |-> "dual", create |-> "idle", ctx |-> "idle",
               leave |-> "idle", end_unref |-> "idle"]

\* unref_dlg(dlg, unref), or the end of the handler: the context of the
\* message (dialog_cleanup), of the command or of the timer lets go.
Unref(a) ==
    /\ pc[a] \in DOMAIN AfterUnref
    /\ Drop(a, IF pc[a] \in {"bye_unref", "dual_unref"} THEN {"hash", "timer"}
               ELSE {"hash", "timer", "tm", "ctx", "expired", "ping", "job"})
    /\ Goto(a, AfterUnref[pc[a]])
    /\ UNCHANGED <<dlg_del_delay, dlgvars, ping, heldvars, inserted, fails, msgs>>

----------------------------------------------------------------------------
(***************************************************************************)
(* The INVITE transaction: dlg_create_dialog and dlg_onreply.              *)
(***************************************************************************)
Arrives(w) == pc[w] = "idle" /\ msgs > 0 /\ msgs' = msgs - 1

\* link_dlg with two extra references.
Create(w) ==
    /\ where = "none" /\ pc[w] = "idle"
    /\ where' = "hashed" /\ ref' = 3 /\ tmcb' = TRUE
    /\ hand' = {<<w, "ctx">>}
    /\ flags' \in FlagSets
    /\ Goto(w, "create")
    /\ UNCHANGED <<dlg_del_delay, state, timervars, byes, txns, jobs, inserted,
                   fails, msgs>>

\* TMCB_RESPONSE_PRE_OUT.
Reply(w, event) ==
    /\ tmcb /\ Arrives(w)
    /\ LateAnswer \/ ~(event = "RPL2xx" /\ state = "DELETED" /\ tl = "gone")
    /\ NextStateDlg(w, event, FALSE)
    /\ Goto(w, IF state \notin Confirmed /\ state' = "CONFIRMED_NA" THEN "reply_timer"
               ELSE IF Ended THEN "reply_unref" ELSE "idle")
    /\ UNCHANGED <<dlg_del_delay, where, timervars, heldvars, inserted, fails>>

\* TMCB_TRANS_CANCELLED; the state is read without the lock.
Cancelled(w) ==
    /\ tmcb /\ Arrives(w)
    /\ flags' = flags \cup {"WAS_CANCELLED"}
    /\ Goto(w, IF "END_ON_RACE_CONDITION" \in flags /\ state \notin Setup
               THEN "cancel_timer" ELSE "cancel_ctx")
    /\ UNCHANGED <<dlg_del_delay, where, state, ref, timervars, heldvars, hand,
                   inserted, fails>>

\* "reference and attached to script"
CancelCtx(w) ==
    /\ pc[w] = "cancel_ctx"
    /\ Take(w, "ctx")
    /\ Goto(w, "ctx")
    /\ UNCHANGED <<dlg_del_delay, where, dlgvars, timervars, heldvars, inserted,
                   fails, msgs>>

\* The workers that hold the INVITE transaction.
InTransaction == {w \in Workers : pc[w] \in
    {"create", "reply_timer", "reply_unref", "cancel_timer", "cancel_ctx"}}

\* The transaction is deleted: unreference_dialog_create.  A dialog that is
\* not DELETED is unreferenced inside next_state_dlg.
Tdel(w) ==
    /\ tmcb /\ pc[w] = "idle" /\ InTransaction = {}
    /\ tmcb' = FALSE
    /\ state' = NextState("TDEL", FALSE)
    /\ IF state = "DELETED"
       THEN /\ hand' = hand \cup {<<w, "tm">>} /\ Goto(w, "tdel_unref")
            /\ UNCHANGED <<where, ref, tl, del_tl>>
       ELSE /\ UnrefTo(ref - 1)
            /\ IF Ended THEN hand' = hand \cup {<<w, "hash">>} /\ Goto(w, "tdel_unref")
                        ELSE UNCHANGED <<hand, pc>>
    /\ UNCHANGED <<dlg_del_delay, flags, ping, byes, txns, jobs, inserted, fails,
                   msgs>>

----------------------------------------------------------------------------
(***************************************************************************)
(* Requests within the dialog: dlg_onroute.                                *)
(***************************************************************************)
\* lookup_dlg finds the dialog in any state, and references it.
Request(w) ==
    /\ where = "hashed" /\ Arrives(w)
    /\ Take(w, "ctx")
    /\ Goto(w, "onroute")
    /\ UNCHANGED <<dlg_del_delay, where, dlgvars, timervars, heldvars, inserted,
                   fails>>

OnRoute(w) ==
    /\ pc[w] = "onroute"
    /\ \E event \in {"REQBYE", "REQACK", "REQ"}, leg \in BOOLEAN :
         /\ NextStateDlg(w, event, leg)
         /\ IF Ended THEN Goto(w, "bye_timer")
            ELSE IF event = "REQBYE" \/ state' \notin Confirmed THEN Goto(w, "ctx")
            ELSE IF state' # state
            THEN \E label \in {"ack_timer", "ack_ping"} : Goto(w, label)
            ELSE \E label \in {"seq_timer", "ctx"} : Goto(w, label)
    /\ UNCHANGED <<dlg_del_delay, where, timervars, heldvars, inserted, fails, msgs>>

\* The ACK that confirms the dialog has it pinged from now on.
InsertPing(w) ==
    /\ pc[w] = "ack_ping"
    /\ IF "PING" \in flags THEN ping' = "in" /\ ref' = ref + 1
                           ELSE UNCHANGED <<ping, ref>>
    /\ Goto(w, "ctx")
    /\ UNCHANGED <<dlg_del_delay, where, dlgvars, tl, del_tl, heldvars, hand,
                   inserted, fails, msgs>>

\* The script creates the transaction of the request, whose callbacks
\* reference the dialog (dlg_set_tm_dialog_ctx).
Bind(w) ==
    /\ pc[w] = "ctx"
    /\ txns' = txns + 1 /\ ref' = ref + 1
    /\ Goto(w, "leave")
    /\ UNCHANGED <<dlg_del_delay, where, dlgvars, timervars, tmcb, byes, jobs, hand,
                   inserted, fails, msgs>>

\* The script sets $DLG_timeout; the on-timeout route may do so too.
SetTimeout(a) ==
    /\ pc[a] \in {"ctx", "route"}
    /\ state \in Confirmed
    /\ Goto(a, IF pc[a] = "ctx" THEN "script_timer" ELSE "route_timer")
    /\ UNCHANGED <<dlg_del_delay, where, dlgvars, ref, timervars, heldvars, hand,
                   inserted, fails, msgs>>

\* A transaction with callbacks of ours is deleted; the transaction of a ping
\* is not before the ping is answered.
Release(w) ==
    /\ pc[w] = "idle" /\ txns > (IF ping = "pinged" THEN 1 ELSE 0)
    /\ txns' = txns - 1 /\ UnrefTo(ref - 1)
    /\ UNCHANGED <<dlg_del_delay, dlgvars, ping, tmcb, byes, jobs, hand, pc, inserted,
                   fails, msgs>>

----------------------------------------------------------------------------
(***************************************************************************)
(* Ending a dialog from inside: dlg_end_dlg, and the replies to our BYEs.  *)
(***************************************************************************)
\* terminate_dlg (dlg_end_dlg of the management interface, and others).
Terminate(w) ==
    /\ where = "hashed" /\ state # "DELETED" /\ Arrives(w)
    /\ Take(w, "ctx")
    /\ Goto(w, "end")
    /\ UNCHANGED <<dlg_del_delay, where, dlgvars, timervars, heldvars, inserted,
                   fails>>

\* A dialog that is being set up has its INVITE cancelled.  A process that
\* has no routes leaves the BYEs to a worker.
End(a) ==
    /\ pc[a] = "end"
    /\ \/ state \in Setup /\ Goto(a, "end_unref") /\ UNCHANGED <<ref, jobs>>
       \/ state \notin Setup /\ Goto(a, "bye1") /\ UNCHANGED <<ref, jobs>>
       \/ /\ state \notin Setup
          /\ ref' = ref + 1 /\ jobs' = jobs + 1
          /\ Goto(a, "end_unref")
    /\ UNCHANGED <<dlg_del_delay, where, dlgvars, timervars, tmcb, byes, txns, hand,
                   inserted, fails, msgs>>

\* dlg_end_rpc.
EndRpc(w) ==
    /\ jobs > 0 /\ pc[w] = "idle"
    /\ jobs' = jobs - 1 /\ hand' = hand \cup {<<w, "job">>}
    /\ Goto(w, "bye1")
    /\ UNCHANGED <<dlg_del_delay, where, dlgvars, ref, timervars, tmcb, byes, txns,
                   inserted, fails, msgs>>

\* Mutant: a BYE that cannot be sent is not reported to dual_bye_event.
SendByeForgets(a) ==
    /\ pc[a] \in {"bye1", "bye2"}
    /\ \/ ref' = ref + 1 /\ byes' = byes + 1
       \/ UNCHANGED <<ref, byes>>
    /\ Goto(a, IF pc[a] = "bye1" THEN "bye2" ELSE "dual")
    /\ UNCHANGED <<dlg_del_delay, where, dlgvars, timervars, tmcb, txns, jobs, hand,
                   inserted, fails, msgs>>

\* send_leg_bye, to the caller and then to the callee.
SendBye(a) ==
    /\ pc[a] \in {"bye1", "bye2"}
    /\ \/ ref' = ref + 1 /\ byes' = byes + 1 /\ UNCHANGED fails
       \/ fails' = [fails EXCEPT ![a] = @ + 1] /\ UNCHANGED <<ref, byes>>
    /\ Goto(a, IF pc[a] = "bye1" THEN "bye2" ELSE "dual")
    /\ UNCHANGED <<dlg_del_delay, where, dlgvars, timervars, tmcb, txns, jobs, hand,
                   inserted, msgs>>

\* bye_reply_cb on the final reply to a BYE of ours.
ByeReplied(w) ==
    /\ byes > 0 /\ pc[w] = "idle"
    /\ byes' = byes - 1 /\ hand' = hand \cup {<<w, "bye">>}
    /\ fails' = [fails EXCEPT ![w] = 1]
    /\ Goto(w, "dual")
    /\ UNCHANGED <<dlg_del_delay, where, dlgvars, ref, timervars, tmcb, txns, jobs,
                   inserted, msgs>>

\* dual_bye_event, for each BYE that is answered or that could not be sent.
DualByeEvent(a) ==
    /\ pc[a] = "dual" /\ fails[a] > 0
    /\ fails' = [fails EXCEPT ![a] = @ - 1]
    /\ NextStateDlg(a, "REQBYE", state \notin Setup)
    /\ Goto(a, IF Ended THEN "dual_timer" ELSE "dual")
    /\ UNCHANGED <<dlg_del_delay, where, timervars, heldvars, inserted, msgs>>

\* The BYE transaction keeps its reference until it is deleted.
DualDone(a) ==
    /\ pc[a] = "dual" /\ fails[a] = 0
    /\ IF <<a, "bye">> \in hand
       THEN hand' = hand \ {<<a, "bye">>} /\ txns' = txns + 1 /\ Goto(a, "idle")
       ELSE Goto(a, "end_unref") /\ UNCHANGED <<hand, txns>>
    /\ UNCHANGED <<dlg_del_delay, where, dlgvars, ref, timervars, tmcb, byes, jobs,
                   inserted, fails, msgs>>

----------------------------------------------------------------------------
(***************************************************************************)
(* The timer routines.                                                     *)
(***************************************************************************)
\* The lifetime is over; dlg_ontimeout inherits the reference of the list.
Expire ==
    /\ pc[Timer] = "idle" /\ tl = "in"
    /\ tl' = "gone" /\ hand' = hand \cup {<<Timer, "expired">>}
    /\ Goto(Timer, "timeout")
    /\ UNCHANGED <<dlg_del_delay, where, dlgvars, ref, del_tl, ping, heldvars,
                   inserted, fails, msgs>>

HasRoute == "rt_on_timeout" \in flags /\ state # "DELETED"

\* "allow the dialog to be re-inserted in the timer list"
RunRoute ==
    /\ pc[Timer] = "timeout" /\ HasRoute
    /\ tl' = "out"
    /\ Goto(Timer, "route")
    /\ UNCHANGED <<dlg_del_delay, where, dlgvars, ref, del_tl, ping, heldvars, hand,
                   inserted, fails, msgs>>

RouteDone ==
    /\ pc[Timer] = "route"
    /\ Goto(Timer, "route_test")
    /\ UNCHANGED <<dlg_del_delay, where, dlgvars, ref, timervars, heldvars, hand,
                   inserted, fails, msgs>>

\* Mutant: the route is taken to have prolonged the dialog.
RouteTestLinks ==
    /\ pc[Timer] = "route_test"
    /\ Goto(Timer, "end_unref")
    /\ UNCHANGED <<dlg_del_delay, where, dlgvars, ref, timervars, heldvars, hand,
                   inserted, fails, msgs>>

\* If the timer is back in the list, it has a reference of its own.
RouteTest ==
    /\ pc[Timer] = "route_test"
    /\ Goto(Timer, IF tl = "in" THEN "end_unref" ELSE "restore")
    /\ UNCHANGED <<dlg_del_delay, where, dlgvars, ref, timervars, heldvars, hand,
                   inserted, fails, msgs>>

\* *tl = bk_tl, whatever tl has become.
Restore ==
    /\ pc[Timer] = "restore"
    /\ tl' = "gone"
    /\ Goto(Timer, "expire")
    /\ UNCHANGED <<dlg_del_delay, where, dlgvars, ref, del_tl, ping, heldvars, hand,
                   inserted, fails, msgs>>

\* The rest of dlg_ontimeout: BYEs, or the end as if a BYE had come.
OnTimeout ==
    /\ pc[Timer] = "expire" \/ (pc[Timer] = "timeout" /\ ~HasRoute)
    /\ \/ /\ "BYEONTIMEOUT" \in flags /\ state \in Confirmed
          /\ Goto(Timer, "end")
          /\ UNCHANGED <<dlgvars, ref, hand>>
       \/ /\ ~("BYEONTIMEOUT" \in flags /\ state \in Confirmed)
          /\ NextStateDlg(Timer, "REQBYE", state \notin Setup)
          /\ Goto(Timer, "end_unref")
    /\ UNCHANGED <<dlg_del_delay, where, timervars, heldvars, inserted, fails, msgs>>

\* dlg_timer_routine looks at the delete timer only if delete_delay is set.
ExpireDel ==
    /\ pc[Timer] = "idle" /\ dlg_del_delay /\ del_tl = "in"
    /\ del_tl' = "gone"
    /\ Goto(Timer, "ondelete")
    /\ UNCHANGED <<dlg_del_delay, where, dlgvars, ref, tl, ping, heldvars, hand,
                   inserted, fails, msgs>>

\* dlg_ondelete.
OnDelete ==
    /\ pc[Timer] = "ondelete"
    /\ IF ref <= 0 THEN /\ where' = "destroyed"
                        /\ tl' = IF tl = "in" THEN "gone" ELSE tl
                   ELSE UNCHANGED <<where, tl>>
    /\ Goto(Timer, "idle")
    /\ UNCHANGED <<dlg_del_delay, dlgvars, ref, del_tl, ping, heldvars, hand,
                   inserted, fails, msgs>>

\* dlg_options_routine takes the node of a dialog that is over, or whose ping
\* failed, off the list, with its reference.
PingOver ==
    /\ pc[Timer] = "idle" /\ ping # "out"
    /\ state = "DELETED" \/ ping = "failed"
    /\ ping' = "out" /\ hand' = hand \cup {<<Timer, "ping">>}
    /\ Goto(Timer, IF state = "DELETED" THEN "end_unref" ELSE "end")
    /\ UNCHANGED <<dlg_del_delay, where, dlgvars, ref, tl, del_tl, heldvars,
                   inserted, fails, msgs>>

\* The transaction of the ping keeps a reference.
SendPing ==
    /\ ping = "in" /\ state # "DELETED" /\ Arrives(Timer)
    /\ ping' = "pinged" /\ txns' = txns + 1 /\ ref' = ref + 1
    /\ UNCHANGED <<dlg_del_delay, where, dlgvars, tl, del_tl, tmcb, byes, jobs, hand,
                   pc, inserted, fails>>

\* dlg_handle_seq_reply.
PingReplied ==
    /\ ping = "pinged"
    /\ ping' \in {"in", "failed"}
    /\ UNCHANGED <<dlg_del_delay, where, dlgvars, ref, tl, del_tl, heldvars, hand, pc,
                   inserted, fails, msgs>>

----------------------------------------------------------------------------
Step(a) ==
    \/ ArmTimer(a) \/ RefTimer(a) \/ RemoveTimer(a) \/ Unref(a) \/ SetTimeout(a)
    \/ End(a) \/ SendBye(a) \/ DualByeEvent(a) \/ DualDone(a)

WorkerStep(w) == Step(w) \/ CancelCtx(w) \/ OnRoute(w) \/ InsertPing(w) \/ Bind(w)

TimerStep == \/ Step(Timer) \/ RunRoute \/ RouteDone \/ RouteTest \/ Restore
             \/ OnTimeout \/ OnDelete

Arrival(w) == \/ Create(w) \/ Cancelled(w) \/ Request(w) \/ Terminate(w)
              \/ \E event \in {"RPL1xx", "RPL2xx", "RPL3xx"} : Reply(w, event)

\* What the transactions and the dispatched jobs bring.
Completion(w) == Tdel(w) \/ Release(w) \/ EndRpc(w) \/ ByeReplied(w)

TimerPass == Expire \/ ExpireDel \/ PingOver

Idle == (\A a \in Actors : pc[a] = "idle") /\ UNCHANGED vars

\* The two windows that Windows = FALSE closes.
Alone(a) == Windows \/ \A b \in Actors \ {a} : b \notin inserted /\ pc[b] # "restore"

Next ==
    \/ \E w \in Workers : Alone(w) /\ (WorkerStep(w) \/ Arrival(w) \/ Completion(w))
    \/ Alone(Timer) /\ (TimerStep \/ TimerPass \/ SendPing \/ PingReplied)
    \/ Idle

(***************************************************************************)
(* Fairness: processes keep running, the timer routines keep being called, *)
(* a timer that stays in its list expires, the on-timeout route does not   *)
(* prolong a dialog for ever, and transactions come to their end (TmCell,  *)
(* EventuallyFreed).                                                       *)
(***************************************************************************)
Fairness ==
    /\ \A w \in Workers : WF_vars(Alone(w) /\ WorkerStep(w))
    /\ WF_vars(\E w \in Workers : Alone(w) /\ Tdel(w))
    /\ WF_vars(\E w \in Workers : Alone(w) /\ Release(w))
    /\ WF_vars(\E w \in Workers : Alone(w) /\ EndRpc(w))
    /\ WF_vars(\E w \in Workers : Alone(w) /\ ByeReplied(w))
    /\ WF_vars(Alone(Timer) /\ TimerStep) /\ WF_vars(Alone(Timer) /\ PingReplied)
    /\ SF_vars(Alone(Timer) /\ Expire) /\ SF_vars(Alone(Timer) /\ ExpireDel)
    /\ SF_vars(Alone(Timer) /\ PingOver) /\ SF_vars(Alone(Timer) /\ RouteDone)

Spec == Init /\ [][Next]_vars /\ Fairness

----------------------------------------------------------------------------
Labels == DOMAIN AfterArm \cup DOMAIN AfterUnref \cup
    {"idle", "cancel_ctx", "onroute", "ack_ping", "bye_timer", "dual_timer", "end",
     "bye1", "bye2", "dual", "timeout", "route", "route_test", "restore", "expire",
     "ondelete"}
Kinds == {"ctx", "hash", "tm", "timer", "expired", "bye", "job", "ping"}

\* The reference count is never negative (unref_dlg would abort the server), and the
\* timer links are in one of the three states dlg_timer.c names.
TypeOK ==
    /\ dlg_del_delay \in BOOLEAN
    /\ where \in {"none", "hashed", "destroyed"}
    /\ state \in Setup \cup Confirmed \cup {"DELETED"}
    /\ flags \subseteq {"BYEONTIMEOUT", "END_ON_RACE_CONDITION", "PING",
                        "rt_on_timeout", "del_delay", "HASBYE", "WAS_CANCELLED"}
    /\ ref \in Nat
    /\ tl \in {"out", "in", "gone"} /\ del_tl \in {"out", "in", "gone"}
    /\ ping \in {"out", "in", "pinged", "failed"}
    /\ tmcb \in BOOLEAN /\ byes \in Nat /\ txns \in Nat /\ jobs \in Nat
    /\ hand \subseteq Actors \X Kinds
    /\ pc \in [Actors -> Labels] /\ inserted \subseteq Actors
    /\ fails \in [Actors -> Nat] /\ msgs \in Nat

One(b) == IF b THEN 1 ELSE 0

\* The reference count of a dialog is exact: one for the hash table unless the dialog
\* is DELETED, one for each list the dialog is linked in, one for each transaction
\* or job that points to it, and what the handlers hold or have yet to give back.
\* The handlers that just inserted the lifetime timer have yet to count it.
RefExact ==
    where # "none" =>
      ref + Cardinality(inserted) =
            Cardinality(hand) + byes + txns + jobs + One(state # "DELETED")
            + One(tmcb) + One(tl = "in") + One(ping # "out")

\* A dialog is destroyed only when no handler works on it, no transaction, job or
\* BYE points to it and no timer list holds it.
NoUseAfterFree ==
    where = "destroyed" =>
      /\ \A a \in Actors : pc[a] = "idle"
      /\ ~tmcb /\ byes + txns + jobs = 0
      /\ tl # "in" /\ del_tl # "in" /\ ping = "out"

\* The handlers that will insert the lifetime timer or end the dialog.
Deciding(a) == pc[a] \in {"reply_timer", "timeout", "route", "route_test",
    "route_timer", "restore", "expire", "end", "bye1", "bye2", "dual"}

\* An answered dialog is never left without an end in sight: its lifetime timer runs,
\* or its BYEs are on their way, or a handler is about to see to one of the two.
NoImmortal ==
    where = "hashed" /\ state \in Confirmed =>
      \/ tl = "in" \/ byes + jobs > 0
      \/ \E a \in Actors : Deciding(a)

\* A dialog that lost its last reference is destroyed or waits in the delete timer.
NotForgotten ==
    where = "hashed" /\ ref = 0 => del_tl = "in" \/ pc[Timer] = "ondelete"

\* Without a delay on deletion, every dialog is destroyed in the end, whatever
\* replies, requests, commands and timers crossed.
EventuallyDestroyed ==
    (where = "hashed" /\ ~dlg_del_delay /\ "del_delay" \notin flags)
      ~> where = "destroyed"
============================================================================
