------------------------------- MODULE Usrloc -------------------------------
(***************************************************************************)
(* The contacts of a location domain in memory and in its database table   *)
(* (modules/usrloc: ucontact.c, urecord.c, udomain.c, ul_mod.c, ul_mi.c),  *)
(* with restart_persistency "load-from-sql" and either SQL write mode.     *)
(*                                                                         *)
(* SIP workers insert, update and delete contacts under the lock of the    *)
(* AOR's slot; in write-through mode they also run the SQL statement under *)
(* it.  The timer process walks the slots one after another, writes what   *)
(* is new or dirty, drops what expired, and deletes the rows of the        *)
(* dropped contacts in batches, the last one after the last slot has been  *)
(* unlocked.  A MI command can empty the table and have it written again.  *)
(* Statements may fail, the server may crash at any point or be stopped.   *)
(*                                                                         *)
(* Every AOR has a slot of its own.  A registration stands for all that a  *)
(* REGISTER sets in a contact, the time of expiry included.  Contact ids   *)
(* and registrations are only compared, so the lowest unused one stands    *)
(* for any new one.                                                        *)
(***************************************************************************)
EXTENDS Integers, FiniteSets, FiniteSetsExt, Sequences, SequencesExt

CONSTANTS
    Uris,         \* the contact URIs
    Aors,
    AorOf,        \* the AOR that registers a URI
    Ids,          \* contact ids
    Regs,         \* registrations
    None,
    Setups,       \* pairs <<mode, buffered>>: the values of sql_wmode, and whether
                  \* query_buffer_size > 1
    BufferSize,   \* query_buffer_size when it is
    Batch,        \* max_contact_delete
    SyncSetups,   \* the ones in which the MI command usrloc_sync is used
    Faults,       \* pairs <<mode, statement>>: what may fail
    MaxFaults,    \* how many statements may fail
    EarlyTraffic  \* TRUE: workers may serve before preload_udomain has finished

Modes == {"write-back", "write-through"}
Statements == {"insert", "flush", "update", "delete", "truncate"}

ASSUME ConstantsType ==
    /\ IsFiniteSet(Uris) /\ IsFiniteSet(Aors) /\ AorOf \in [Uris -> Aors]
    /\ IsFiniteSet(Ids) /\ Ids \subseteq Nat /\ IsFiniteSet(Regs) /\ Regs \subseteq Nat
    /\ None \notin Aors
    /\ Setups \subseteq Modes \X BOOLEAN /\ SyncSetups \subseteq Setups
    /\ BufferSize \in Nat \ {0, 1}
    /\ Batch \in Nat \ {0} /\ MaxFaults \in Nat
    /\ Faults \subseteq Modes \X Statements
    /\ EarlyTraffic \in BOOLEAN

VARIABLES
    sql_wmode,    \* "write-back" or "write-through"
    buffered,     \* inserts of the timer go through the insert list
    contacts,     \* the contact list of an AOR
    location,     \* the rows of the table
    ins_list,     \* rows waiting in the insert list
    cid_vals,     \* the "to-be-delete" buffer of the process that runs the pass
    pass,         \* mem_timer_udomain: "idle", "slots", "walk", "batch", "flush"
    slots,        \* the slots the pass has still to visit
    cur,          \* the slot it holds, or None
    pos,          \* the position of ptr in the list of cur
    flush,        \* of mem_timer_udomain
    unmarked,     \* the slots mi_sync_domain has still to mark
    phase,        \* "boot", "load", "run", "stop", "down"
    load,         \* rows of the preload query that are not in memory yet
    faults        \* how many statements may still fail

pvars == <<pass, slots, cur, pos, flush, cid_vals>>
dbvars == <<location, ins_list>>
vars == <<sql_wmode, buffered, contacts, dbvars, pvars, unmarked, phase, load, faults>>

Contact == [id : Ids, uri : Uris, reg : Regs, exp : {"valid", "past", "forced"},
            state : {"CS_NEW", "CS_SYNC", "CS_DIRTY"}]
Row == [id : Ids, uri : Uris, reg : Regs, exp : {"valid", "past"}]

Known == UNION {ToSet(contacts[a]) : a \in Aors}
RowOf(c) == [id |-> c.id, uri |-> c.uri, reg |-> c.reg, exp |-> c.exp]
IdsOf(S) == {r.id : r \in S}

\* VALID_CONTACT; delete_ucontact sets expires to UL_EXPIRED_TIME ("forced").
ValidContact(c) == c.exp = "valid"

(***************************************************************************)
(* New ids and registrations.                                              *)
(***************************************************************************)
UsedIds == IdsOf(Known) \cup IdsOf(location) \cup IdsOf(ins_list) \cup IdsOf(load)
               \cup cid_vals
UsedRegs == {r.reg : r \in Known \cup location \cup ins_list \cup load}
FreshIds == Ids \ UsedIds
FreshRegs == Regs \ UsedRegs

(***************************************************************************)
(* The SQL statements.  One that fails changes nothing; an insert also     *)
(* fails on a contact id that the table holds already.                     *)
(***************************************************************************)
Fails(stmt) ==
    /\ faults > 0
    /\ <<sql_wmode, stmt>> \in Faults
    /\ faults' = faults - 1

\* INSERT of the rows R.
SqlInsert(stmt, R, ok) ==
    LET collides == IdsOf(R) \cap IdsOf(location) # {}
    IN  /\ IF ok THEN ~collides /\ UNCHANGED faults
                 ELSE IF collides THEN UNCHANGED faults ELSE Fails(stmt)
        /\ location' = IF ok THEN location \cup R ELSE location

\* UPDATE ... WHERE contact_id = r.id: no error when there is no such row.
SqlUpdate(r, ok) ==
    /\ IF ok THEN UNCHANGED faults ELSE Fails("update")
    /\ location' = IF ok THEN {IF q.id = r.id THEN r ELSE q : q \in location}
                         ELSE location

\* DELETE ... WHERE contact_id IN D.
SqlDelete(D, ok) ==
    /\ IF ok THEN UNCHANGED faults ELSE Fails("delete")
    /\ location' = IF ok THEN {q \in location : q.id \notin D} ELSE location

Init ==
    /\ \E s \in Setups : sql_wmode = s[1] /\ buffered = s[2]
    /\ contacts = [a \in Aors |-> <<>>]
    /\ location = {} /\ ins_list = {}
    /\ pass = "idle" /\ slots = {} /\ cur = None /\ pos = 1 /\ flush = FALSE
    /\ cid_vals = {}
    /\ unmarked = {}
    /\ phase = "run" /\ load = {}
    /\ faults = MaxFaults

(***************************************************************************)
(* SIP workers.  A worker holds the lock of the slot for the whole         *)
(* operation.                                                              *)
(***************************************************************************)
Serving == phase = "run" \/ (EarlyTraffic /\ phase \in {"boot", "load"})
SlotFree(a) == cur # a

\* contact_match, get_ucontact: the first contact with the URI; 0: none.
Position(u) == SelectInSeq(contacts[AorOf[u]], LAMBDA c : c.uri = u)

SetContact(a, i, c) == contacts' = [contacts EXCEPT ![a][i] = c]
DropContact(a, i) == contacts' = [contacts EXCEPT ![a] = RemoveAt(@, i)]

\* Mutant: an update does not make a synchronized contact dirty.
StUpdateKeeps(c) == c.state

\* st_update_ucontact
StUpdate(c) == IF c.state = "CS_SYNC" THEN "CS_DIRTY" ELSE c.state

\* insert_ucontact: in memory first, as CS_NEW, at the end of the list.
InsertUcontact(u) ==
    /\ Serving /\ SlotFree(AorOf[u]) /\ Position(u) = 0
    /\ FreshIds # {} /\ FreshRegs # {}
    /\ LET c == [id |-> Min(FreshIds), uri |-> u, reg |-> Min(FreshRegs),
                 exp |-> "valid", state |-> "CS_NEW"]
           Add(s) == contacts' = [contacts EXCEPT ![AorOf[u]] =
                                      Append(@, [c EXCEPT !.state = s])]
       IN  \/ /\ sql_wmode = "write-back"
              /\ Add("CS_NEW")
              /\ UNCHANGED <<location, faults>>
           \/ /\ sql_wmode = "write-through"
              /\ \E ok \in BOOLEAN :
                    /\ SqlInsert("insert", {RowOf(c)}, ok)
                    /\ Add(IF ok THEN "CS_SYNC" ELSE "CS_NEW")
    /\ UNCHANGED <<sql_wmode, buffered, ins_list, pvars, unmarked, phase, load>>

\* update_ucontact: what the contact holds is replaced, expires included.
UpdateUcontact(u) ==
    LET a == AorOf[u]
        i == Position(u)
        c == [contacts[a][i] EXCEPT !.reg = Min(FreshRegs), !.exp = "valid",
                                    !.state = StUpdate(contacts[a][i])]
    IN  /\ Serving /\ SlotFree(a) /\ i # 0
        /\ FreshRegs # {}
        /\ \/ /\ sql_wmode = "write-back"
              /\ SetContact(a, i, c)
              /\ UNCHANGED <<location, faults>>
           \/ /\ sql_wmode = "write-through"
              /\ \E ok \in BOOLEAN :
                    /\ SqlUpdate(RowOf(c), ok)
                    /\ SetContact(a, i, IF ok THEN [c EXCEPT !.state = "CS_SYNC"] ELSE c)
        /\ UNCHANGED <<sql_wmode, buffered, ins_list, pvars, unmarked, phase, load>>

\* st_delete_ucontact: the contact leaves the memory at once.
DeletedAtOnce(c) == c.state = "CS_NEW" \/ sql_wmode = "write-through"

\* delete_ucontact of the contacts at the positions P of the list: one of them
\* (the registrar, MI), or all of them (delete_urecord).
DeleteUcontacts(a, P) ==
    LET list == contacts[a]
        kept == SetToSortSeq({i \in DOMAIN list : i \notin P \/ ~DeletedAtOnce(list[i])},
                             LAMBDA i, j : i < j)
        after(i) == IF i \in P THEN [list[i] EXCEPT !.exp = "forced"] ELSE list[i]
        D == {list[i].id : i \in P}
    IN  /\ Serving /\ SlotFree(a) /\ P # {}
        /\ contacts' = [contacts EXCEPT ![a] = [n \in DOMAIN kept |-> after(kept[n])]]
        /\ \/ sql_wmode = "write-back" /\ UNCHANGED <<location, faults>>
           \/ /\ sql_wmode = "write-through"
              /\ \E F \in SUBSET D :
                    /\ Cardinality(F) <= 1
                    /\ IF F = {} THEN UNCHANGED faults ELSE Fails("delete")
                    /\ location' = {q \in location : q.id \notin D \ F}
        /\ UNCHANGED <<sql_wmode, buffered, ins_list, pvars, unmarked, phase, load>>

DeleteUcontact(u) == DeleteUcontacts(AorOf[u], {Position(u)} \ {0})
DeleteUrecord(a) == DeleteUcontacts(a, DOMAIN contacts[a])

\* The expiry time of a registration passes, wherever it is written.
Expire(g) ==
    LET old(r) == IF r.reg = g /\ r.exp = "valid" THEN [r EXCEPT !.exp = "past"] ELSE r
        olds(R) == {old(r) : r \in R}
    IN  /\ \E r \in Known \cup location \cup ins_list : r.reg = g /\ r.exp = "valid"
        /\ contacts' = [a \in Aors |-> [i \in DOMAIN contacts[a] |-> old(contacts[a][i])]]
        /\ location' = olds(location)
        /\ ins_list' = olds(ins_list)
        /\ load' = olds(load)
        /\ UNCHANGED <<sql_wmode, buffered, pvars, unmarked, phase, faults>>

(***************************************************************************)
(* The pass over the domain, run by the timer process and, at shutdown, by *)
(* the attendant (mem_timer_udomain).  It holds sync_lock as a reader.     *)
(***************************************************************************)
BeginPass ==
    /\ pass' = "slots" /\ slots' = Aors /\ flush' = FALSE /\ cid_vals' = {}
    /\ UNCHANGED <<cur, pos>>

TimerStart ==
    /\ Serving /\ pass = "idle" /\ unmarked = {}
    /\ BeginPass
    /\ UNCHANGED <<sql_wmode, buffered, contacts, dbvars, unmarked, phase, load, faults>>

LockSlot(a) ==
    /\ pass = "slots" /\ a \in slots
    /\ pass' = "walk" /\ cur' = a /\ pos' = 1 /\ slots' = slots \ {a}
    /\ UNCHANGED <<sql_wmode, buffered, contacts, dbvars, flush, cid_vals, unmarked,
                   phase, load, faults>>

Walking == pass = "walk" /\ pos <= Len(contacts[cur])
Ptr == contacts[cur][pos]

\* Mutant: the row of a dirty contact is forgotten.
StExpiredSyncOnly(c) == c.state = "CS_SYNC"

\* st_expired_ucontact: the contact has a row to delete.
StExpired(c) == c.state # "CS_NEW"

\* Mutant: one id too many.
BufferFullLate(cids) == Cardinality(cids) > Batch

\* (++cid_len) == max_contact_delete
BufferFull(cids) == Cardinality(cids) = Batch

\* wb_timer on a contact that is no longer valid: the id joins the buffer, a
\* full buffer is deleted, and unless that fails the contact is dropped.
WbExpired ==
    /\ Walking /\ ~ValidContact(Ptr)
    /\ LET cids == IF StExpired(Ptr) THEN cid_vals \cup {Ptr.id} ELSE cid_vals
           full == StExpired(Ptr) /\ BufferFull(cids)
       IN  \/ /\ ~full
              /\ cid_vals' = cids
              /\ DropContact(cur, pos)
              /\ UNCHANGED <<pos, location, faults>>
           \/ /\ full
              /\ cid_vals' = {}
              /\ \E ok \in BOOLEAN :
                    /\ SqlDelete(cids, ok)
                    /\ IF ok THEN DropContact(cur, pos) /\ UNCHANGED pos
                             ELSE pos' = pos + 1 /\ UNCHANGED contacts
    /\ UNCHANGED <<sql_wmode, buffered, ins_list, pass, slots, cur, flush, unmarked,
                   phase, load>>

\* db_insert_ucontact by the timer: at once, or through the insert list, which
\* is written when it is full (ql_row_add); rows that could not be written are
\* dropped.
TimerInsert(r, ok) ==
    \/ /\ ~buffered
       /\ SqlInsert("insert", {r}, ok)
       /\ UNCHANGED ins_list
    \/ /\ buffered /\ Cardinality(ins_list) + 1 < BufferSize
       /\ ok
       /\ ins_list' = ins_list \cup {r}
       /\ UNCHANGED <<location, faults>>
    \/ /\ buffered /\ Cardinality(ins_list) + 1 >= BufferSize
       /\ SqlInsert("flush", ins_list \cup {r}, ok)
       /\ ins_list' = {}

\* Mutant: the old state is not restored.
AfterFlushForgets(ok) == SetContact(cur, pos, [Ptr EXCEPT !.state = "CS_SYNC"])
\* Mutant: the state does not become CS_SYNC.
AfterFlushStays(ok) == UNCHANGED contacts

\* The state of the contact once the statement has been run.
AfterFlush(ok) ==
    IF ok THEN SetContact(cur, pos, [Ptr EXCEPT !.state = "CS_SYNC"])
          ELSE UNCHANGED contacts

\* wb_timer on a valid contact: st_flush_ucontact says what to write, and the
\* old state comes back when that fails.
WbFlush ==
    /\ Walking /\ ValidContact(Ptr)
    /\ pos' = pos + 1
    /\ \/ /\ Ptr.state = "CS_SYNC"
          /\ UNCHANGED <<contacts, dbvars, flush, faults>>
       \/ /\ Ptr.state = "CS_NEW"
          /\ \E ok \in BOOLEAN : TimerInsert(RowOf(Ptr), ok) /\ AfterFlush(ok)
          /\ flush' = TRUE
       \/ /\ Ptr.state = "CS_DIRTY"
          /\ \E ok \in BOOLEAN : SqlUpdate(RowOf(Ptr), ok) /\ AfterFlush(ok)
          /\ UNCHANGED <<ins_list, flush>>
    /\ UNCHANGED <<sql_wmode, buffered, pass, slots, cur, cid_vals, unmarked, phase, load>>

UnlockSlot ==
    /\ pass = "walk" /\ ~Walking
    /\ pass' = IF slots = {} THEN "batch" ELSE "slots"
    /\ cur' = None /\ pos' = 1
    /\ UNCHANGED <<sql_wmode, buffered, contacts, dbvars, slots, flush,
                   cid_vals, unmarked, phase, load, faults>>

\* The pass is over; at shutdown the process ends with it.
EndPass ==
    /\ pass' = "idle" /\ cid_vals' = {} /\ flush' = FALSE
    /\ phase' = IF phase = "stop" THEN "down" ELSE phase

\* What is left in the buffer is deleted without any slot lock; on a failure
\* the pass ends before the insert list is written.
BatchDelete ==
    /\ pass = "batch"
    /\ \E ok \in BOOLEAN :
          /\ IF cid_vals = {} THEN ok /\ UNCHANGED <<location, faults>>
                              ELSE SqlDelete(cid_vals, ok)
          /\ IF ok THEN pass' = "flush" /\ cid_vals' = {} /\ UNCHANGED <<phase, flush>>
                   ELSE EndPass
    /\ UNCHANGED <<sql_wmode, buffered, contacts, ins_list, slots, cur, pos,
                   unmarked, load>>

\* ql_flush_rows: the rows leave the list whether they are written or not.
FlushList(ok) ==
    /\ IF ins_list = {} THEN ok /\ UNCHANGED <<location, faults>>
                        ELSE SqlInsert("flush", ins_list, ok)
    /\ ins_list' = {}

FlushRows ==
    /\ pass = "flush"
    /\ IF flush /\ buffered THEN \E ok \in BOOLEAN : FlushList(ok)
                            ELSE UNCHANGED <<dbvars, faults>>
    /\ EndPass
    /\ UNCHANGED <<sql_wmode, buffered, contacts, slots, cur, pos, unmarked, load>>

\* ql_timer_routine, in any timer process.
QlTimer ==
    /\ phase = "run" /\ ins_list # {}
    /\ \E ok \in BOOLEAN : FlushList(ok)
    /\ UNCHANGED <<sql_wmode, buffered, contacts, pvars, unmarked, phase, load>>

(***************************************************************************)
(* The MI command usrloc_sync.                                             *)
(***************************************************************************)
\* mi_process_sync
MarkNew(a) ==
    contacts' = [contacts EXCEPT ![a] =
                     [i \in DOMAIN @ |-> [@[i] EXCEPT !.state = "CS_NEW"]]]

\* Mutant: the contacts are marked although the rows are still there.
MiSyncAorMarksAnyway(a) ==
    /\ Serving /\ <<sql_wmode, buffered>> \in SyncSetups /\ SlotFree(a)
    /\ contacts[a] # <<>>
    /\ MarkNew(a)
    /\ \/ location' = {q \in location : AorOf[q.uri] # a} /\ UNCHANGED faults
       \/ Fails("truncate") /\ UNCHANGED location
    /\ UNCHANGED <<sql_wmode, buffered, ins_list, pvars, unmarked, phase, load>>

\* mi_sync_aor: the rows of the AOR are deleted and its contacts marked, under
\* the lock of the slot.
MiSyncAor(a) ==
    /\ Serving /\ <<sql_wmode, buffered>> \in SyncSetups /\ SlotFree(a)
    /\ contacts[a] # <<>>
    /\ \/ location' = {q \in location : AorOf[q.uri] # a} /\ MarkNew(a) /\ UNCHANGED faults
       \/ Fails("truncate") /\ UNCHANGED <<location, contacts>>
    /\ UNCHANGED <<sql_wmode, buffered, ins_list, pvars, unmarked, phase, load>>

\* mi_sync_domain: it holds sync_lock as the writer; the table is emptied before
\* the first slot is locked.
MiSyncDomain ==
    /\ Serving /\ <<sql_wmode, buffered>> \in SyncSetups
    /\ unmarked = {} /\ pass = "idle"
    /\ \/ location' = {} /\ unmarked' = Aors /\ UNCHANGED faults
       \/ Fails("truncate") /\ UNCHANGED <<location, unmarked>>
    /\ UNCHANGED <<sql_wmode, buffered, contacts, ins_list, pvars, phase, load>>

MiMark(a) ==
    /\ a \in unmarked
    /\ MarkNew(a)
    /\ unmarked' = unmarked \ {a}
    /\ UNCHANGED <<sql_wmode, buffered, dbvars, pvars, phase, load, faults>>

(***************************************************************************)
(* Shutdown, crash and start.                                              *)
(***************************************************************************)
\* shutdown_opensips: every process ends between two jobs; then destroy() runs a
\* last pass.  With insert buffering that pass would use the insert list after
\* handle_ql_shutdown has freed it, so the model leaves that case out.
Shutdown ==
    /\ phase = "run" /\ pass = "idle" /\ unmarked = {} /\ ~buffered
    /\ phase' = "stop"
    /\ BeginPass
    /\ UNCHANGED <<sql_wmode, buffered, contacts, dbvars, unmarked, load, faults>>

\* All that is not in the table is gone.
Forget ==
    /\ contacts' = [a \in Aors |-> <<>>]
    /\ ins_list' = {} /\ cid_vals' = {} /\ pass' = "idle" /\ unmarked' = {} /\ load' = {}
    /\ slots' = {} /\ cur' = None /\ pos' = 1 /\ flush' = FALSE
    /\ phase' = "boot"
    /\ UNCHANGED <<sql_wmode, buffered, location, faults>>

Crash == phase # "boot" /\ phase # "down" /\ Forget
Restart == phase = "down" /\ Forget

\* preload_udomain: one query, then row after row under the lock of its slot.
\* Expired rows are loaded too.
PreloadQuery ==
    /\ phase = "boot"
    /\ load' = location
    /\ phase' = IF location = {} THEN "run" ELSE "load"
    /\ UNCHANGED <<sql_wmode, buffered, contacts, dbvars, pvars, unmarked, faults>>

PreloadRow ==
    \E r \in load :
        /\ phase = "load" /\ SlotFree(AorOf[r.uri])
        /\ contacts' = [contacts EXCEPT ![AorOf[r.uri]] =
                            Append(@, [id |-> r.id, uri |-> r.uri, reg |-> r.reg,
                                       exp |-> r.exp, state |-> "CS_SYNC"])]
        /\ load' = load \ {r}
        /\ phase' = IF load' = {} THEN "run" ELSE phase
        /\ UNCHANGED <<sql_wmode, buffered, dbvars, pvars, unmarked, faults>>

(***************************************************************************)
(* The next-state relation.  The timer is called again and again, a        *)
(* process that has begun a job ends it, and a server that starts loads    *)
(* its table; what users and administrators do is not required.            *)
(***************************************************************************)
Timer ==
    \/ TimerStart \/ WbExpired \/ WbFlush \/ UnlockSlot \/ BatchDelete \/ FlushRows
    \/ \E a \in Aors : LockSlot(a)

Next ==
    \/ Timer
    \/ QlTimer
    \/ \E u \in Uris : InsertUcontact(u) \/ UpdateUcontact(u) \/ DeleteUcontact(u)
    \/ \E a \in Aors : DeleteUrecord(a) \/ MiSyncAor(a) \/ MiMark(a)
    \/ \E g \in Regs : Expire(g)
    \/ MiSyncDomain
    \/ Shutdown \/ Crash \/ Restart
    \/ PreloadQuery \/ PreloadRow

Fairness ==
    /\ WF_vars(Timer) /\ SF_vars(TimerStart)
    /\ WF_vars(\E a \in Aors : MiMark(a))
    /\ WF_vars(PreloadQuery)
    /\ WF_vars(PreloadRow)

Spec == Init /\ [][Next]_vars /\ Fairness

(***************************************************************************)
(* Properties.                                                             *)
(***************************************************************************)
\* The types of the state; the delete buffer of the pass never holds more than
\* max_contact_delete ids, the length of the array cid_vals (ul_mod.c:931), and
\* is flushed when that many have been put in it.
TypeOK ==
    /\ <<sql_wmode, buffered>> \in Setups
    /\ \A a \in Aors : \A i \in DOMAIN contacts[a] :
          contacts[a][i] \in Contact /\ AorOf[contacts[a][i].uri] = a
    /\ location \subseteq Row /\ ins_list \subseteq Row /\ load \subseteq Row
    /\ cid_vals \subseteq Ids /\ Cardinality(cid_vals) < Batch
    /\ Cardinality(ins_list) < BufferSize
    /\ pass \in {"idle", "slots", "walk", "batch", "flush"}
    /\ slots \subseteq Aors /\ cur \in Aors \cup {None} /\ pos \in Nat \ {0} /\ flush \in BOOLEAN
    /\ unmarked \subseteq Aors
    /\ phase \in {"boot", "load", "run", "stop", "down"}
    /\ faults \in 0..MaxFaults

\* The contacts of the slots that mi_sync_domain has not emptied the table under.
Settled == {c \in Known : AorOf[c.uri] \notin unmarked}

\* A contact that the memory takes for synchronized (CS_SYNC: wb_timer will not
\* write it again) has a row, written or in the insert list, that holds its last
\* registration; and a dirty one has a row for the update to find.  Otherwise a
\* restart loses the contact or brings back an old registration of it.
SyncedIsStored ==
    \A c \in Settled :
        /\ c.state = "CS_SYNC" => \E r \in location \cup ins_list :
                                      r.id = c.id /\ r.uri = c.uri /\ r.reg = c.reg
        /\ c.state = "CS_DIRTY" => c.id \in IdsOf(location \cup ins_list)

\* A contact in CS_NEW, which wb_timer will insert, has no row yet, and no two
\* contacts or rows share an id: the insert cannot collide ("Future
\* registrations will not be able to get inserted due to index collision").
NewIsAbsent ==
    /\ \A c \in Settled : c.state = "CS_NEW" => c.id \notin IdsOf(location \cup ins_list)
    /\ \A c, d \in Known : c.id = d.id => c = d
    /\ \A q, r \in location \cup ins_list : q.id = r.id => q = r

\* Every row belongs to a contact in memory, to one that is being loaded, or to
\* one whose id waits in the delete buffer of the pass: no row outlives its
\* contact in the table, where only the next restart would find it.
NoStuckRow ==
    phase # "boot" =>
        IdsOf(location \cup ins_list) \subseteq IdsOf(Known) \cup IdsOf(load) \cup cid_vals

\* After a shutdown in which no statement failed the table holds exactly the
\* contacts of the memory, with their last registrations: nothing is lost by a
\* restart and nothing that was unregistered comes back.
CleanStop ==
    phase = "down" /\ faults = MaxFaults =>
        location = {RowOf(c) : c \in Known}

\* A contact of u whose last change the timer has still to write.
Unwritten(u) ==
    \E c \in Known : c.uri = u /\ (~ValidContact(c) \/ c.state # "CS_SYNC")

\* While the server runs, every change of a contact gets written by the timer,
\* or dropped with the contact: failed statements (retried by later passes),
\* usrloc_sync and more registrations do not keep it away for ever.
EventuallyWritten ==
    \A u \in Uris :
        (phase = "run" /\ Unwritten(u)) ~> (phase # "run" \/ ~Unwritten(u))
=============================================================================
