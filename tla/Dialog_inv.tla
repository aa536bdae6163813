--------------------------- MODULE Dialog_inv ---------------------------
(***************************************************************************)
(* The reference count of a dialog is exact, a dialog is destroyed only    *)
(* when nobody uses it, and an answered dialog is never without an end in  *)
(* sight: the proofs for any number of workers and messages, any flags and *)
(* either value of delete_delay, when nobody runs in the two unlocked      *)
(* windows of dlg_timer.c and dlg_handlers.c (Windows; with them TLC finds *)
(* the reference that is lost).                                            *)
(***************************************************************************)
EXTENDS Dialog, FiniteSetTheorems, TLAPS

\* The provers every leaf is given, unless it names its own.
USE SMTT(10), ZenonT(30), SMTT(60)

Arm == {"reply_timer", "cancel_timer", "seq_timer", "ack_timer", "script_timer",
        "route_timer"}
Ack == {"ack_timer", "ack_ping"}
OnExpiry == {"timeout", "route", "route_test", "route_timer", "restore", "expire"}

\* The kinds of references that keep the dialog while a handler works on it.
Bases == {"ctx", "job", "expired", "ping", "bye"}

\* The steps at which a handler may hold a reference of a kind.
MayHold(k) ==
    CASE k = "hash"    -> {"reply_unref", "tdel_unref", "bye_timer", "bye_unref",
                           "dual_timer", "dual_unref", "end_unref"}
      [] k = "timer"   -> {"bye_unref", "dual_unref"}
      [] k = "tm"      -> {"tdel_unref"}
      [] k = "bye"     -> {"dual", "dual_timer", "dual_unref"}
      [] OTHER         -> Labels \ {"idle", "reply_timer", "reply_unref", "cancel_timer",
                                    "cancel_ctx", "tdel_unref", "ondelete"}

\* What the handler of a holds: nothing but at the right steps, ...
HandAt(a) ==
    /\ \A k \in Kinds : <<a, k>> \in hand => pc[a] \in MayHold(k)
    /\ <<a, "bye">> \in hand => \A k \in Bases : <<a, k>> \in hand => k = "bye"

\* ... and enough to keep the dialog alive.
HeldAt(a) ==
    /\ pc[a] \in {"create", "onroute", "bye_timer", "bye_unref", "ctx", "seq_timer",
                  "ack_timer", "ack_ping", "script_timer", "leave"} => <<a, "ctx">> \in hand
    /\ pc[a] \in {"end", "bye1", "bye2", "dual", "dual_timer", "dual_unref", "end_unref"}
         => \E k \in Bases : <<a, k>> \in hand
    /\ pc[a] \in OnExpiry => <<a, "expired">> \in hand
    /\ pc[a] = "reply_unref" => <<a, "hash">> \in hand
    /\ pc[a] = "tdel_unref" => <<a, "hash">> \in hand \/ <<a, "tm">> \in hand
    /\ pc[a] \in {"create", "reply_timer", "cancel_timer", "cancel_ctx"} => tmcb /\ a \in Workers
    /\ pc[a] = "reply_unref" => a \in Workers
    /\ pc[a] = "ondelete" => a = Timer
    /\ a \in inserted => pc[a] \in Arm

Hands == \A a \in Actors : HandAt(a) /\ HeldAt(a)

\* Before the dialog exists, and when it is over.
NoneYet ==
    where = "none" =>
      /\ state = "UNCONFIRMED" /\ tl = "out" /\ del_tl = "out" /\ ping = "out"
      /\ ~tmcb /\ byes = 0 /\ txns = 0 /\ jobs = 0 /\ hand = {} /\ inserted = {}
      /\ \A a \in Actors : pc[a] = "idle"

Over == where = "destroyed" => ref = 0 /\ inserted = {} /\ del_tl # "in" /\ pc[Timer] # "ondelete"

\* A dialog that ended with a BYE is not revived.
Finished == state = "DELETED" /\ "HASBYE" \in flags

Links ==
    /\ del_tl # "out" => dlg_del_delay \/ "del_delay" \in flags
    /\ pc[Timer] = "ondelete" => dlg_del_delay /\ del_tl = "gone"
    /\ pc[Timer] = "timeout" => tl = "gone"
    /\ pc[Timer] = "restore" => tl # "in"
    /\ pc[Timer] \in OnExpiry => state \notin Setup
    /\ state \in Setup => tl = "out" /\ \A a \in Actors : pc[a] \notin Arm

Pings ==
    /\ ping # "out" => state = "CONFIRMED" \/ Finished
    /\ \A a \in Actors : pc[a] \in Ack => ping = "out" /\ (state = "CONFIRMED" \/ Finished)
    /\ \A a, b \in Actors : pc[a] \in Ack /\ pc[b] \in Ack => a = b

IInv == TypeOK /\ RefExact /\ Hands /\ NoneYet /\ Over /\ Links /\ Pings

\* Who sees to the end of an answered dialog.
SeesTo(a) ==
    \/ pc[a] \in OnExpiry \cup {"end", "bye1", "bye2"}
    \/ pc[a] = "dual" /\ fails[a] > 0
    \/ pc[a] = "reply_timer" /\ tl # "gone"

EndInSight ==
    /\ inserted # {} => tl = "in"
    /\ \A a \in Actors : pc[a] \in {"bye_timer", "dual_timer"} => Finished
    /\ where = "hashed" /\ state \in Confirmed =>
         tl = "in" \/ byes + jobs > 0 \/ \E a \in Actors : SeesTo(a)

----------------------------------------------------------------------------
(***************************************************************************)
(* Facts about the parts.                                                  *)
(***************************************************************************)
\* The tables of ArmTimer and Unref (what follows update_dlg_timer and
\* unref_dlg in each handler).
LEMMA Tables ==
    /\ DOMAIN AfterArm = Arm
    /\ AfterArm["reply_timer"] = "idle" /\ AfterArm["cancel_timer"] = "cancel_ctx"
    /\ AfterArm["seq_timer"] = "ctx" /\ AfterArm["ack_timer"] = "ack_ping"
    /\ AfterArm["script_timer"] = "leave" /\ AfterArm["route_timer"] = "route_test"
    /\ DOMAIN AfterUnref = {"reply_unref", "tdel_unref", "bye_unref", "dual_unref",
                            "create", "ctx", "leave", "end_unref"}
    /\ AfterUnref["bye_unref"] = "ctx" /\ AfterUnref["dual_unref"] = "dual"
    /\ \A l \in {"reply_unref", "tdel_unref", "create", "ctx", "leave", "end_unref"} :
         AfterUnref[l] = "idle"
    /\ Labels = Arm \cup {"reply_unref", "tdel_unref", "bye_unref", "dual_unref",
         "create", "ctx", "leave", "end_unref",
         "idle", "cancel_ctx", "onroute", "ack_ping", "bye_timer", "dual_timer", "end",
         "bye1", "bye2", "dual", "timeout", "route", "route_test", "restore", "expire",
         "ondelete"}
<1>1. DOMAIN AfterArm = Arm
  BY DEF AfterArm, Arm
<1>2. /\ AfterArm["reply_timer"] = "idle" /\ AfterArm["cancel_timer"] = "cancel_ctx"
      /\ AfterArm["seq_timer"] = "ctx" /\ AfterArm["ack_timer"] = "ack_ping"
      /\ AfterArm["script_timer"] = "leave" /\ AfterArm["route_timer"] = "route_test"
  BY DEF AfterArm
<1>3. DOMAIN AfterUnref = {"reply_unref", "tdel_unref", "bye_unref", "dual_unref",
                           "create", "ctx", "leave", "end_unref"}
  BY DEF AfterUnref
<1>4. /\ AfterUnref["bye_unref"] = "ctx" /\ AfterUnref["dual_unref"] = "dual"
      /\ \A l \in {"reply_unref", "tdel_unref", "create", "ctx", "leave", "end_unref"} :
           AfterUnref[l] = "idle"
  BY DEF AfterUnref
<1> QED BY <1>1, <1>2, <1>3, <1>4 DEF Labels

\* The sets that are counted are finite.
LEMMA Finite ==
    ASSUME TypeOK
    PROVE  /\ IsFiniteSet(hand) /\ Cardinality(hand) \in Nat
           /\ IsFiniteSet(inserted) /\ Cardinality(inserted) \in Nat
           /\ Cardinality({}) = 0
           /\ Cardinality(hand) = 0 => hand = {}
<1>1. IsFiniteSet(Actors)
  BY ConstantsType, FS_AddElement DEF Actors
<1>2. IsFiniteSet(Kinds)
  <2>1. Kinds = {"ctx"} \cup {"hash"} \cup {"tm"} \cup {"timer"} \cup {"expired"}
                \cup {"bye"} \cup {"job"} \cup {"ping"}
    BY DEF Kinds
  <2>2. /\ IsFiniteSet({"ctx"}) /\ IsFiniteSet({"ctx"} \cup {"hash"})
        /\ IsFiniteSet({"ctx"} \cup {"hash"} \cup {"tm"})
        /\ IsFiniteSet({"ctx"} \cup {"hash"} \cup {"tm"} \cup {"timer"})
    BY FS_Singleton, FS_AddElement
  <2>3. /\ IsFiniteSet({"ctx"} \cup {"hash"} \cup {"tm"} \cup {"timer"} \cup {"expired"})
        /\ IsFiniteSet({"ctx"} \cup {"hash"} \cup {"tm"} \cup {"timer"} \cup {"expired"}
                       \cup {"bye"})
    BY ZenonT(60), <2>2, FS_AddElement
  <2> QED BY ZenonT(60), <2>1, <2>3, FS_AddElement
<1>3. IsFiniteSet(Actors \X Kinds)
  BY <1>1, <1>2, FS_Product
<1>4. IsFiniteSet(hand) /\ IsFiniteSet(inserted)
  BY <1>1, <1>3, FS_Subset DEF TypeOK
<1> QED BY <1>4, FS_CardinalityType, FS_EmptySet

\* A handler takes a reference that it did not hold.
LEMMA TakeOne ==
    ASSUME TypeOK, NEW a \in Actors, NEW k \in Kinds, <<a, k>> \notin hand,
           hand' = hand \cup {<<a, k>>}
    PROVE  /\ hand' \subseteq Actors \X Kinds
           /\ Cardinality(hand') = Cardinality(hand) + 1
           /\ \A b \in Actors, j \in Kinds :
                <<b, j>> \in hand' <=> <<b, j>> \in hand \/ (b = a /\ j = k)
<1>1. hand' \subseteq Actors \X Kinds
  BY DEF TypeOK
<1>2. Cardinality(hand') = Cardinality(hand) + 1
  BY ZenonT(60), Finite, FS_AddElement
<1>3. \A b \in Actors, j \in Kinds :
        <<b, j>> \in hand' <=> <<b, j>> \in hand \/ (b = a /\ j = k)
  OBVIOUS
<1> QED BY <1>1, <1>2, <1>3

\* The references of these kinds that a holds.
Given(a, kinds) == {x \in hand : x[1] = a /\ x[2] \in kinds}

\* A handler gives back references that it holds.
LEMMA GiveBack ==
    ASSUME TypeOK, NEW a \in Actors, NEW K \in SUBSET Kinds,
           hand' = hand \ Given(a, K)
    PROVE  /\ hand' \subseteq Actors \X Kinds
           /\ Cardinality(Given(a, K)) \in Nat
           /\ Cardinality(hand') \in Nat
           /\ Cardinality(hand') = Cardinality(hand) - Cardinality(Given(a, K))
           /\ \A b \in Actors, j \in Kinds :
                <<b, j>> \in hand' <=> <<b, j>> \in hand /\ ~(b = a /\ j \in K)
<1>1. hand' \subseteq Actors \X Kinds
  BY DEF TypeOK
<1>2. Given(a, K) \subseteq hand /\ hand \cap Given(a, K) = Given(a, K)
  BY DEF Given
<1>3. IsFiniteSet(hand) /\ IsFiniteSet(Given(a, K)) /\ IsFiniteSet(hand')
  BY <1>2, Finite, FS_Subset
<1>4. Cardinality(hand') = Cardinality(hand) - Cardinality(Given(a, K))
  BY <1>2, <1>3, FS_Difference
<1>5. \A b \in Actors, j \in Kinds :
        <<b, j>> \in hand' <=> <<b, j>> \in hand /\ ~(b = a /\ j \in K)
  BY DEF Given
<1> QED BY <1>1, <1>3, <1>4, <1>5, FS_CardinalityType

\* A reference of the handler of a is in hand.
LEMMA HandNotEmpty ==
    ASSUME NEW a \in Actors, NEW k, <<a, k>> \in hand, TypeOK
    PROVE  Cardinality(hand) > 0
BY Finite

\* The terms of RefExact that are 0 or 1.
HashRef == IF state = "DELETED" THEN 0 ELSE 1
TmRef   == IF tmcb THEN 1 ELSE 0
TlRef   == IF tl = "in" THEN 1 ELSE 0
PingRef == IF ping = "out" THEN 0 ELSE 1

Counted ==
    ref + Cardinality(inserted) =
      Cardinality(hand) + byes + txns + jobs + HashRef + TmRef + TlRef + PingRef

\* Each place that keeps a reference counts one or none.
LEMMA Ones == HashRef \in Nat /\ TmRef \in Nat /\ TlRef \in Nat /\ PingRef \in Nat
BY DEF HashRef, TmRef, TlRef, PingRef

\* RefExact, as an equation between numbers.
LEMMA RefIsCounted == RefExact <=> (where # "none" => Counted)
<1>1. /\ One(state # "DELETED") = HashRef /\ One(tmcb) = TmRef /\ One(tl = "in") = TlRef
      /\ One(ping # "out") = PingRef
  BY DEF One, HashRef, TmRef, TlRef, PingRef
<1> QED BY <1>1 DEF RefExact, Counted

\* With the count down to 0 nothing refers to the dialog.
LEMMA NothingLeft ==
    ASSUME TypeOK, RefExact, where # "none", ref = 0, inserted = {}
    PROVE  /\ hand = {} /\ byes = 0 /\ txns = 0 /\ jobs = 0 /\ state = "DELETED"
           /\ ~tmcb /\ tl # "in" /\ ping = "out"
<1>1. Cardinality(inserted) = 0 /\ Cardinality(hand) \in Nat
  BY Finite
<1>2. byes \in Nat /\ txns \in Nat /\ jobs \in Nat
  BY DEF TypeOK
<1>3. Counted
  BY RefIsCounted
<1>4. 0 = Cardinality(hand) + byes + txns + jobs + HashRef + TmRef + TlRef + PingRef
  BY <1>1, <1>3 DEF Counted
<1>5. HashRef = 0 /\ TmRef = 0
  BY <1>1, <1>2, <1>4, Ones
<1>6. TlRef = 0 /\ PingRef = 0
  BY <1>1, <1>2, <1>4, Ones
<1>7. Cardinality(hand) = 0 /\ byes = 0
  BY <1>1, <1>2, <1>4, Ones
<1>8. txns = 0 /\ jobs = 0
  BY <1>1, <1>2, <1>4, Ones
<1> QED BY <1>5, <1>6, <1>7, <1>8, Finite DEF HashRef, TmRef, TlRef, PingRef

\* While anything refers to the dialog, it is in the hash table.
LEMMA Alive ==
    ASSUME IInv,
           \/ tmcb \/ byes > 0 \/ txns > 0 \/ jobs > 0 \/ tl = "in" \/ ping # "out"
           \/ del_tl = "in"
           \/ \E a \in Actors : pc[a] # "idle"
    PROVE  where = "hashed"
<1>1. where # "none"
  BY DEF IInv, NoneYet
<1>2. SUFFICES ASSUME where = "destroyed" PROVE FALSE
  BY <1>1 DEF IInv, TypeOK
<1>3. /\ hand = {} /\ byes = 0 /\ txns = 0 /\ jobs = 0 /\ state = "DELETED"
      /\ ~tmcb /\ tl # "in" /\ ping = "out" /\ del_tl # "in"
  BY <1>2, NothingLeft DEF IInv, Over
<1>4. PICK a \in Actors : pc[a] # "idle"
  BY <1>3
<1>6. a = Timer \/ pc[a] # "ondelete"
  BY ZenonT(60) DEF IInv, Hands, HeldAt
<1> QED BY <1>2, <1>3, <1>4, <1>6, Tables DEF IInv, TypeOK, Hands, HeldAt, OnExpiry, Over, Arm

\* Nobody runs while a timer is inserted and not yet referenced, nor between
\* the test and the restoration of the link.
LEMMA NoWindow ==
    ASSUME IInv, ~Windows, NEW a \in Actors, Alone(a), pc[a] \notin Arm
    PROVE  inserted = {} /\ \A b \in Actors \ {a} : pc[b] # "restore"
<1>1. \A b \in Actors \ {a} : b \notin inserted /\ pc[b] # "restore"
  BY DEF Alone
<1>2. a \notin inserted
  BY ZenonT(60) DEF IInv, Hands, HeldAt
<1> QED BY <1>1, <1>2 DEF IInv, TypeOK

\* A step of a that leaves alone what the other handlers do and hold.
Local(a) ==
    \A b \in Actors \ {a} :
      /\ pc'[b] = pc[b]
      /\ \A k \in Kinds : <<b, k>> \in hand' <=> <<b, k>> \in hand
      /\ b \in inserted' <=> b \in inserted

\* A step that only touches what its own process holds keeps the others' share.
LEMMA LocalHands ==
    ASSUME Hands, NEW a \in Actors, Local(a), HandAt(a)', HeldAt(a)',
           tmcb => tmcb' \/ InTransaction = {}
    PROVE  Hands'
<1> SUFFICES ASSUME NEW b \in Actors \ {a} PROVE HandAt(b)' /\ HeldAt(b)'
  BY DEF Hands
<1>1. /\ pc'[b] = pc[b]
      /\ \A k \in Kinds : <<b, k>> \in hand' <=> <<b, k>> \in hand
      /\ b \in inserted' <=> b \in inserted
  BY DEF Local
<1>2. HandAt(b) /\ HeldAt(b)
  BY DEF Hands
<1>3. HandAt(b)'
  BY <1>1, <1>2 DEF HandAt, MayHold, Bases, Kinds
<1>4. HeldAt(b)'
  BY <1>1, <1>2 DEF HeldAt, Bases, Kinds, InTransaction
<1> QED BY <1>3, <1>4

\* a moves on, and nothing changes hands.
LEMMA MoveLocal ==
    ASSUME TypeOK, NEW a \in Actors, NEW l \in Labels, Goto(a, l)
    PROVE  /\ pc' \in [Actors -> Labels] /\ pc'[a] = l
           /\ \A b \in Actors \ {a} : pc'[b] = pc[b]
BY DEF TypeOK, Goto

\* next_state_dlg: what a state may become, and who owes the reference of the
\* hash table then.
LEMMA StateStep ==
    ASSUME TypeOK, NEW a \in Actors, NEW leg \in BOOLEAN,
           NEW event \in {"RPL1xx", "RPL2xx", "RPL3xx", "REQBYE", "REQACK", "REQ"},
           NextStateDlg(a, event, leg)
    PROVE  /\ state' \in Setup \cup Confirmed \cup {"DELETED"}
           /\ flags \subseteq flags'
           /\ flags' \subseteq {"BYEONTIMEOUT", "END_ON_RACE_CONDITION", "PING",
                        "rt_on_timeout", "del_delay", "HASBYE", "WAS_CANCELLED"}
           /\ state' \in Setup => state \in Setup
           /\ Finished => Finished'
           /\ state = "CONFIRMED" => state' = "CONFIRMED" \/ Finished'
           /\ Ended /\ event # "RPL3xx" => Finished'
           /\ event = "REQBYE" /\ leg => state' \notin Confirmed
           /\ state' = "CONFIRMED" => state \in Confirmed
           /\ state' = "CONFIRMED" /\ state # "CONFIRMED" => event = "REQACK"
           /\ state' = "CONFIRMED_NA" /\ state # "CONFIRMED_NA" => event = "RPL2xx"
           /\ \/ ref' = ref /\ hand' = hand /\ HashRef' = HashRef /\ ~Ended
              \/ /\ ref' = ref /\ hand' = hand \cup {<<a, "hash">>} /\ Ended
                 /\ HashRef = 1 /\ HashRef' = 0
              \/ ref' = ref + 1 /\ hand' = hand /\ HashRef = 0 /\ HashRef' = 1 /\ ~Ended
<1>1. /\ state' = NextState(event, leg)
      /\ flags' = flags \cup
           (IF event = "REQBYE" /\ leg /\ state # "DELETED" THEN {"HASBYE"} ELSE {})
      /\ hand' = hand \cup (IF state' = "DELETED" /\ state # "DELETED"
                            THEN {<<a, "hash">>} ELSE {})
      /\ ref' = ref + (IF state = "DELETED" /\ state' # "DELETED" THEN 1 ELSE 0)
  BY DEF NextStateDlg
<1>2. /\ state' \in Setup \cup Confirmed \cup {"DELETED"}
      /\ state' \in Setup => state \in Setup
      /\ state' = "CONFIRMED" => state \in Confirmed
      /\ state' = "CONFIRMED" /\ state # "CONFIRMED" => event = "REQACK"
      /\ state' = "CONFIRMED_NA" /\ state # "CONFIRMED_NA" => event = "RPL2xx"
  BY <1>1 DEF NextState, TypeOK, Setup, Confirmed
<1>3. /\ flags \subseteq flags'
      /\ flags' \subseteq {"BYEONTIMEOUT", "END_ON_RACE_CONDITION", "PING",
                        "rt_on_timeout", "del_delay", "HASBYE", "WAS_CANCELLED"}
  BY <1>1 DEF TypeOK
<1>4. Finished => Finished'
  BY <1>1, <1>3 DEF NextState, Finished, Setup, Confirmed
<1>5. state = "CONFIRMED" => state' = "CONFIRMED" \/ Finished'
  BY <1>1 DEF NextState, Finished, Setup, Confirmed
<1>6. Ended /\ event # "RPL3xx" => Finished'
  BY <1>1 DEF NextState, Finished, Setup, Confirmed, Ended
<1>9. event = "REQBYE" /\ leg => state' \notin Confirmed
  BY <1>1 DEF NextState, Setup, Confirmed
<1>7. ref \in Nat
  BY DEF TypeOK
<1>8. \/ ref' = ref /\ hand' = hand /\ HashRef' = HashRef /\ ~Ended
      \/ /\ ref' = ref /\ hand' = hand \cup {<<a, "hash">>} /\ Ended
         /\ HashRef = 1 /\ HashRef' = 0
      \/ ref' = ref + 1 /\ hand' = hand /\ HashRef = 0 /\ HashRef' = 1 /\ ~Ended
  <2>1. CASE state' = "DELETED" /\ state # "DELETED"
    BY <1>1, <1>7, <2>1 DEF HashRef, Ended
  <2>2. CASE state = "DELETED" /\ state' # "DELETED"
    BY <1>1, <1>7, <2>2 DEF HashRef, Ended
  <2>3. CASE state' = "DELETED" <=> state = "DELETED"
    BY <1>1, <1>7, <2>3 DEF HashRef, Ended
  <2> QED BY <2>1, <2>2, <2>3
<1> QED BY <1>2, <1>3, <1>4, <1>5, <1>6, <1>8, <1>9

----------------------------------------------------------------------------
(***************************************************************************)
(* What every step has in common.                                          *)
(***************************************************************************)
\* A step of a on a dialog that stays in the hash table.
LEMMA StepOf ==
    ASSUME IInv, NEW a \in Actors, TypeOK', where' = "hashed", Counted',
           Local(a), tmcb => tmcb', HandAt(a)', HeldAt(a)', Links', Pings'
    PROVE  IInv'
<1>2. RefExact'
  BY DEF RefExact, Counted, One, HashRef, TmRef, TlRef, PingRef
<1>3. Hands'
  BY LocalHands DEF IInv
<1>4. NoneYet' /\ Over'
  BY DEF NoneYet, Over
<1> QED BY <1>2, <1>3, <1>4 DEF IInv

\* The links of the timers that a step of a leaves alone.
LEMMA LinksKept ==
    ASSUME TypeOK, Links, NEW a \in Actors, \A b \in Actors \ {a} : pc'[b] = pc[b],
           dlg_del_delay' = dlg_del_delay, flags \subseteq flags',
           tl' = tl, del_tl' = del_tl, state' \in Setup => state \in Setup,
           a = Timer => /\ pc'[a] \notin {"ondelete", "timeout"}
                        /\ pc'[a] = "restore" => tl # "in"
                        /\ pc'[a] \in OnExpiry => pc[a] \in OnExpiry,
           pc'[a] \in Arm => state' \notin Setup
    PROVE  Links'
<1>1. /\ del_tl' # "out" => dlg_del_delay' \/ "del_delay" \in flags'
      /\ pc'[Timer] = "ondelete" => dlg_del_delay' /\ del_tl' = "gone"
      /\ pc'[Timer] = "timeout" => tl' = "gone"
      /\ pc'[Timer] = "restore" => tl' # "in"
      /\ pc'[Timer] \in OnExpiry => state' \notin Setup
  BY DEF Links, Actors
<1>2. state' \in Setup => tl' = "out" /\ \A b \in Actors : pc'[b] \notin Arm
  BY DEF Links
<1> QED BY <1>1, <1>2 DEF Links

\* The ping node that a step of a leaves alone, or takes off the list.
LEMMA PingsKept ==
    ASSUME TypeOK, Pings, NEW a \in Actors, \A b \in Actors \ {a} : pc'[b] = pc[b],
           ping' # "out" => ping # "out",
           state = "CONFIRMED" \/ Finished => state' = "CONFIRMED" \/ Finished',
           pc'[a] \in Ack => pc[a] \in Ack
    PROVE  Pings'
<1> DEFINE P == state = "CONFIRMED" \/ Finished
<1>1. P => P'
  OBVIOUS
<1>2. ping' # "out" => P'
  BY <1>1 DEF Pings
<1>3. \A b \in Actors : pc'[b] \in Ack => pc[b] \in Ack
  OBVIOUS
<1>4. \A b \in Actors : pc'[b] \in Ack => ping' = "out" /\ P'
  BY <1>1, <1>3 DEF Pings
<1>5. \A b, c \in Actors : pc'[b] \in Ack /\ pc'[c] \in Ack => b = c
  BY <1>3 DEF Pings
<1> QED BY <1>2, <1>4, <1>5 DEF Pings

\* A step of a that changes neither the dialog nor its timers.
LEMMA PlainStep ==
    ASSUME IInv, NEW a \in Actors, NEW l \in Labels, Goto(a, l), where = "hashed",
           UNCHANGED <<dlg_del_delay, where, dlgvars, timervars, tmcb, inserted>>,
           ref' \in Nat, byes' \in Nat, txns' \in Nat, jobs' \in Nat,
           hand' \subseteq Actors \X Kinds, fails' \in [Actors -> Nat], msgs' \in Nat,
           Counted',
           \A b \in Actors \ {a}, k \in Kinds : <<b, k>> \in hand' <=> <<b, k>> \in hand,
           HandAt(a)', HeldAt(a)',
           a = Timer => /\ l \notin {"ondelete", "timeout"}
                        /\ l = "restore" => tl # "in"
                        /\ l \in OnExpiry => pc[a] \in OnExpiry,
           l \in Arm => state \notin Setup, l \in Ack => pc[a] \in Ack
    PROVE  IInv'
<1>0. TypeOK /\ Links /\ Pings
  BY DEF IInv
<1>1. /\ pc' \in [Actors -> Labels] /\ pc'[a] = l
      /\ \A b \in Actors \ {a} : pc'[b] = pc[b]
  BY <1>0, MoveLocal
<1>2. TypeOK'
  BY <1>0, <1>1 DEF TypeOK, dlgvars, timervars
<1>3. Local(a)
  BY <1>1 DEF Local
<1>4. Links'
  BY <1>0, <1>1, LinksKept DEF dlgvars, timervars
<1>5. Pings'
  BY <1>0, <1>1, PingsKept DEF dlgvars, timervars, Finished
<1> QED BY <1>2, <1>3, <1>4, <1>5, StepOf

\* a only goes on to its next step.
LEMMA MoveStep ==
    ASSUME IInv, NEW a \in Actors, NEW l \in Labels, Goto(a, l), where = "hashed",
           UNCHANGED <<dlg_del_delay, where, dlgvars, timervars, heldvars, inserted, ref, hand>>,
           fails' \in [Actors -> Nat], msgs' \in Nat,
           \A k \in Kinds : <<a, k>> \in hand => l \in MayHold(k), HeldAt(a)',
           a = Timer => /\ l \notin {"ondelete", "timeout"}
                        /\ l = "restore" => tl # "in"
                        /\ l \in OnExpiry => pc[a] \in OnExpiry,
           l \in Arm => state \notin Setup, l \in Ack => pc[a] \in Ack
    PROVE  IInv'
<1>0. TypeOK /\ Hands /\ RefExact
  BY DEF IInv
<1>1. pc'[a] = l
  BY <1>0, MoveLocal
<1>2. HandAt(a)'
  BY <1>0, <1>1 DEF Hands, HandAt, MayHold
<1>3. Counted
  BY <1>0, RefIsCounted
<1>4. Counted'
  BY <1>3 DEF Counted, HashRef, TmRef, TlRef, PingRef, dlgvars, timervars, heldvars
<1>5. /\ ref' \in Nat /\ byes' \in Nat /\ txns' \in Nat /\ jobs' \in Nat /\ tmcb' = tmcb
      /\ hand' \subseteq Actors \X Kinds
  BY <1>0 DEF TypeOK, heldvars
<1> QED BY <1>2, <1>4, <1>5, PlainStep

\* What a handler holds depends on the step it is at.
LEMMA Holding ==
    ASSUME IInv, NEW a \in Actors
    PROVE  /\ \A k \in Kinds : <<a, k>> \in hand => pc[a] \in MayHold(k)
           /\ <<a, "bye">> \in hand => \A k \in Bases : <<a, k>> \in hand => k = "bye"
           /\ HeldAt(a) /\ pc[a] \in Labels
BY DEF IInv, Hands, HandAt, TypeOK

\* The next step of a handler that changes nothing else.
Follows ==
    {<<"ctx", "script_timer">>, <<"ctx", "leave">>, <<"route", "route_timer">>,
     <<"end", "end_unref">>, <<"end", "bye1">>, <<"bye1", "bye2">>, <<"bye2", "dual">>, <<"dual", "end_unref">>,
     <<"route", "route_test">>, <<"route_test", "end_unref">>, <<"route_test", "restore">>,
     <<"timeout", "end">>, <<"expire", "end">>, <<"reply_timer", "idle">>,
     <<"cancel_timer", "cancel_ctx">>, <<"seq_timer", "ctx">>, <<"ack_timer", "ack_ping">>,
     <<"script_timer", "leave">>, <<"route_timer", "route_test">>}

\* Moving on to the next label of a handler keeps what it needs to hold there.
LEMMA FollowsOK ==
    ASSUME IInv, NEW a \in Actors, NEW l, <<pc[a], l>> \in Follows,
           l = "end_unref" => <<a, "bye">> \notin hand
    PROVE  /\ l \in Labels /\ pc[a] # "idle"
           /\ \A k \in Kinds : <<a, k>> \in hand => l \in MayHold(k)
           /\ l \notin {"ondelete", "timeout"}
           /\ l \in OnExpiry => pc[a] \in OnExpiry
           /\ l \in Ack => pc[a] \in Ack
           /\ l \in {"create", "onroute", "bye_timer", "bye_unref", "ctx", "seq_timer",
                  "ack_timer", "ack_ping", "script_timer", "leave"} => <<a, "ctx">> \in hand
           /\ l \in {"end", "bye1", "bye2", "dual", "dual_timer", "dual_unref", "end_unref"}
                => \E k \in Bases : <<a, k>> \in hand
           /\ l \in OnExpiry => <<a, "expired">> \in hand
           /\ l \notin {"reply_unref", "tdel_unref", "ondelete"}
           /\ l \in {"create", "reply_timer", "cancel_timer", "cancel_ctx"} => tmcb /\ a \in Workers
<1>1. l \in Labels /\ pc[a] # "idle" /\ l \notin {"ondelete", "timeout", "reply_unref", "tdel_unref"}
  BY Tables DEF Follows, Arm
<1>2. (l \in OnExpiry => pc[a] \in OnExpiry) /\ (l \in Ack => pc[a] \in Ack)
  BY DEF Follows, OnExpiry, Ack
<1>3. \A k \in Kinds : <<a, k>> \in hand => l \in MayHold(k)
  <2> SUFFICES ASSUME NEW k \in Kinds, <<a, k>> \in hand PROVE l \in MayHold(k)
    OBVIOUS
  <2>1. pc[a] \in MayHold(k)
    BY Holding
  <2>2. CASE k \in {"hash", "timer", "tm"}
    BY <2>1, <2>2 DEF Follows, MayHold
  <2>3. CASE k = "bye"
    BY <2>1, <2>3 DEF Follows, MayHold
  <2>4. CASE k \in {"ctx", "expired", "job", "ping"}
    BY <1>1, <2>1, <2>4 DEF Follows, MayHold
  <2> QED BY <2>2, <2>3, <2>4 DEF Kinds
<1>4. HeldAt(a)
  BY Holding
<1>5. l \in {"create", "onroute", "bye_timer", "bye_unref", "ctx", "seq_timer",
             "ack_timer", "ack_ping", "script_timer", "leave"} => <<a, "ctx">> \in hand
  BY <1>4 DEF Follows, HeldAt
<1>6. l \in {"end", "bye1", "bye2", "dual", "dual_timer", "dual_unref", "end_unref"}
                => \E k \in Bases : <<a, k>> \in hand
  <2>1. CASE pc[a] \in {"end", "bye1", "bye2", "dual"}
    BY <1>4, <2>1 DEF HeldAt
  <2>2. CASE pc[a] \in {"timeout", "route_test", "expire"}
    BY <1>4, <2>2 DEF HeldAt, OnExpiry, Bases
  <2> QED BY <2>1, <2>2 DEF Follows
<1>7. l \in OnExpiry => <<a, "expired">> \in hand
  BY <1>2, <1>4 DEF HeldAt
<1>8. l \in {"create", "reply_timer", "cancel_timer", "cancel_ctx"} => tmcb /\ a \in Workers
  BY <1>4 DEF HeldAt, Follows
<1> QED BY <1>1, <1>2, <1>3, <1>5, <1>6, <1>7, <1>8

\* a only goes on to its next step.
LEMMA FollowStep ==
    ASSUME IInv, NEW a \in Actors, NEW l, <<pc[a], l>> \in Follows, Goto(a, l), a \notin inserted,
           UNCHANGED <<dlg_del_delay, where, dlgvars, timervars, heldvars, inserted, ref, hand>>,
           fails' \in [Actors -> Nat], msgs' \in Nat,
           l = "end_unref" => <<a, "bye">> \notin hand,
           l = "restore" => tl # "in", l \in Arm => state \notin Setup
    PROVE  IInv'
<1>1. l \in Labels /\ pc[a] # "idle"
  BY ZenonT(60), FollowsOK
<1>2. where = "hashed"
  BY <1>1, Alive
<1>3. pc'[a] = l /\ hand' = hand /\ tmcb' = tmcb /\ inserted' = inserted
  BY <1>1, MoveLocal DEF IInv, heldvars
<1>4. HeldAt(a)'
  BY <1>3, FollowsOK DEF HeldAt
<1>5. /\ \A k \in Kinds : <<a, k>> \in hand => l \in MayHold(k)
      /\ l \notin {"ondelete", "timeout"}
      /\ l \in OnExpiry => pc[a] \in OnExpiry
      /\ l \in Ack => pc[a] \in Ack
  BY ZenonT(60), FollowsOK
<1> QED BY <1>1, <1>2, <1>4, <1>5, MoveStep

\* The count of a step that changes neither the dialog nor its timers.
LEMMA Recount ==
    ASSUME IInv, where = "hashed", inserted' = inserted,
           UNCHANGED <<dlgvars, timervars, tmcb>>,
           ref' \in Nat, byes' \in Nat, txns' \in Nat, jobs' \in Nat,
           Cardinality(hand') \in Nat,
           ref' - ref = (Cardinality(hand') - Cardinality(hand))
                        + (byes' - byes) + (txns' - txns) + (jobs' - jobs)
    PROVE  Counted'
<1>1. /\ ref \in Nat /\ byes \in Nat /\ txns \in Nat /\ jobs \in Nat /\ Cardinality(hand) \in Nat
      /\ Cardinality(inserted) \in Nat
  BY Finite DEF IInv, TypeOK
<1>2. TlRef' = TlRef /\ HashRef' = HashRef /\ TmRef' = TmRef /\ PingRef' = PingRef
  BY DEF TlRef, HashRef, TmRef, PingRef, dlgvars, timervars
<1>3. Counted
  BY RefIsCounted DEF IInv
<1> QED BY <1>1, <1>2, <1>3, Ones DEF Counted

\* a goes on to its next step, and someone else keeps a new reference.
LEMMA RefStep ==
    ASSUME IInv, NEW a \in Actors, NEW l, <<pc[a], l>> \in Follows, Goto(a, l), a \notin inserted,
           UNCHANGED <<dlg_del_delay, where, dlgvars, timervars, tmcb, hand, inserted, msgs>>,
           fails' \in [Actors -> Nat],
           ref' \in Nat, byes' \in Nat, txns' \in Nat, jobs' \in Nat,
           ref' - ref = (byes' - byes) + (txns' - txns) + (jobs' - jobs),
           l = "end_unref" => <<a, "bye">> \notin hand,
           l = "restore" => tl # "in", l \in Arm => state \notin Setup
    PROVE  IInv'
<1>1. /\ l \in Labels /\ pc[a] # "idle" /\ l \notin {"ondelete", "timeout"}
      /\ l \in OnExpiry => pc[a] \in OnExpiry
      /\ l \in Ack => pc[a] \in Ack
  BY ZenonT(60), FollowsOK
<1>2. where = "hashed"
  BY <1>1, Alive
<1>3. pc'[a] = l /\ hand' = hand /\ tmcb' = tmcb /\ inserted' = inserted
  BY <1>1, MoveLocal DEF IInv
<1>4. HandAt(a)'
  BY ZenonT(60), <1>3, FollowsOK DEF HandAt, MayHold, IInv, Hands
<1>5. HeldAt(a)'
  BY <1>3, FollowsOK DEF HeldAt
<1>6. /\ ref \in Nat /\ byes \in Nat /\ txns \in Nat /\ jobs \in Nat /\ Cardinality(hand) \in Nat
      /\ msgs' \in Nat /\ hand' \subseteq Actors \X Kinds
  BY <1>3, Finite DEF IInv, TypeOK
<1>7. ref' - ref = (Cardinality(hand') - Cardinality(hand))
                        + (byes' - byes) + (txns' - txns) + (jobs' - jobs)
  BY <1>3, <1>6
<1>8. Counted'
  BY <1>2, <1>3, <1>6, <1>7, Recount
<1> QED BY <1>1, <1>2, <1>3, <1>4, <1>5, <1>6, <1>8, PlainStep

----------------------------------------------------------------------------
(***************************************************************************)
(* The steps of a handler.                                                 *)
(***************************************************************************)
\* $DLG_timeout is set.
LEMMA SetTimeoutInv ==
    ASSUME IInv, ~Windows, NEW a \in Actors, Alone(a), SetTimeout(a) PROVE IInv'
<1>1. PICK l \in {"script_timer", "route_timer"} : Goto(a, l) /\ <<pc[a], l>> \in Follows
  BY DEF SetTimeout, Follows
<1>2. /\ pc[a] \in {"ctx", "route"} /\ state \notin Setup
      /\ UNCHANGED <<dlg_del_delay, where, dlgvars, timervars, heldvars, inserted, ref, hand>>
  BY DEF SetTimeout, Setup, Confirmed
<1>3. a \notin inserted
  BY <1>2, NoWindow DEF Arm
<1>4. fails' \in [Actors -> Nat] /\ msgs' \in Nat
  BY DEF IInv, TypeOK, SetTimeout
<1> QED BY ZenonT(60), <1>1, <1>2, <1>3, <1>4, FollowStep

\* insert_dlg_timer, update_dlg_timer.
LEMMA ArmTimerInv ==
    ASSUME IInv, ~Windows, NEW a \in Actors, Alone(a), ArmTimer(a) PROVE IInv'
<1>1. /\ pc[a] \in Arm /\ a \notin inserted
      /\ UNCHANGED <<dlg_del_delay, where, dlgvars, ref, del_tl, ping, heldvars, hand, fails, msgs>>
  BY Tables DEF ArmTimer
<1>2. where = "hashed"
  BY <1>1, Alive DEF Arm
<1>3. TypeOK /\ Hands /\ Links /\ Pings /\ RefExact
  BY DEF IInv
<1>4. \A b \in Actors \ {a} : b \notin inserted /\ pc[b] # "restore"
  BY DEF Alone
<1>5. inserted = {}
  BY <1>1, <1>3, <1>4 DEF TypeOK
<1>6. CASE tl # "out"
  <2>1. UNCHANGED <<tl, inserted>> /\ Goto(a, AfterArm[pc[a]])
    BY <1>6 DEF ArmTimer
  <2>2. /\ <<pc[a], AfterArm[pc[a]]>> \in Follows
        /\ AfterArm[pc[a]] \notin Arm \cup {"restore", "end_unref"}
    BY <1>1, Tables DEF Follows, Arm
  <2>3. fails' \in [Actors -> Nat] /\ msgs' \in Nat
    BY <1>1, <1>3 DEF TypeOK
  <2>4. UNCHANGED <<dlg_del_delay, where, dlgvars, timervars, heldvars, inserted, ref, hand>>
    BY <1>1, <2>1 DEF timervars
  <2> QED BY ZenonT(60), <1>1, <2>1, <2>2, <2>3, <2>4, FollowStep
<1>7. CASE tl = "out"
  <2>1. tl' = "in" /\ inserted' = {a} /\ pc' = pc
    BY <1>5, <1>7 DEF ArmTimer
  <2>2. TypeOK'
    BY <1>1, <1>3, <2>1 DEF TypeOK, dlgvars, heldvars
  <2>3. Cardinality(inserted) = 0 /\ Cardinality(inserted') = 1
    BY <1>5, <2>1, FS_EmptySet, FS_Singleton
  <2>4. TlRef = 0 /\ TlRef' = 1 /\ HashRef' = HashRef /\ TmRef' = TmRef /\ PingRef' = PingRef
    BY <1>1, <1>7, <2>1 DEF TlRef, HashRef, TmRef, PingRef, dlgvars, heldvars
  <2>5. Counted
    BY <1>2, <1>3, RefIsCounted
  <2>6. /\ ref \in Nat /\ byes \in Nat /\ txns \in Nat /\ jobs \in Nat /\ Cardinality(hand) \in Nat
        /\ ref' = ref /\ byes' = byes /\ txns' = txns /\ jobs' = jobs /\ hand' = hand
    BY <1>1, <1>3, Finite DEF TypeOK, heldvars
  <2>7. Counted'
    BY <2>3, <2>4, <2>5, <2>6, Ones DEF Counted
  <2>8. Local(a)
    BY <1>1, <1>5, <2>1 DEF Local
  <2>9. HandAt(a)' /\ HeldAt(a)'
    BY ZenonT(60), <1>1, <1>3, <2>1 DEF Hands, HandAt, HeldAt, MayHold, heldvars
  <2>10. Links'
    BY <1>1, <1>3, <1>4, <1>7, <2>1 DEF Links, dlgvars, Arm, Actors
  <2>11. Pings'
    BY <1>1, <1>3, <2>1 DEF Pings, dlgvars, Finished
  <2> QED BY <1>1, <1>2, <2>2, <2>7, <2>8, <2>9, <2>10, <2>11, StepOf DEF heldvars
<1> QED BY <1>6, <1>7

\* ref_dlg after the insertion.
LEMMA RefTimerInv ==
    ASSUME IInv, ~Windows, NEW a \in Actors, Alone(a), RefTimer(a) PROVE IInv'
<1> DEFINE l == AfterArm[pc[a]]
<1>1. /\ a \in inserted /\ inserted' = inserted \ {a} /\ ref' = ref + 1 /\ Goto(a, l)
      /\ UNCHANGED <<dlg_del_delay, where, dlgvars, timervars, heldvars, hand, fails, msgs>>
  BY DEF RefTimer
<1>2. TypeOK /\ Hands /\ Links /\ Pings /\ RefExact
  BY DEF IInv
<1>3. pc[a] \in Arm
  BY ZenonT(60), <1>1, <1>2 DEF Hands, HeldAt
<1>4. where = "hashed"
  BY <1>3, Alive DEF Arm
<1>5. inserted = {a} /\ inserted' = {}
  BY <1>1, <1>2 DEF Alone, TypeOK
<1>6. <<pc[a], l>> \in Follows /\ l \notin Arm \cup {"restore", "end_unref"}
  BY <1>3, Tables DEF Follows, Arm
<1>7. /\ l \in Labels /\ pc[a] # "idle" /\ l \notin {"ondelete", "timeout"}
      /\ l \in OnExpiry => pc[a] \in OnExpiry
      /\ l \in Ack => pc[a] \in Ack
      /\ \A k \in Kinds : <<a, k>> \in hand => l \in MayHold(k)
  BY ZenonT(60), <1>6, FollowsOK
<1>8. /\ pc' \in [Actors -> Labels] /\ pc'[a] = l
      /\ \A b \in Actors \ {a} : pc'[b] = pc[b]
  BY <1>1, <1>2, <1>7, MoveLocal
<1>9. TypeOK'
  BY <1>1, <1>2, <1>5, <1>8 DEF TypeOK, dlgvars, timervars, heldvars
<1>10. Counted'
  <2>1. Counted
    BY <1>2, <1>4, RefIsCounted
  <2>2. Cardinality(inserted) = 1 /\ Cardinality(inserted') = 0
    BY <1>5, FS_EmptySet, FS_Singleton
  <2>3. TlRef' = TlRef /\ HashRef' = HashRef /\ TmRef' = TmRef /\ PingRef' = PingRef
    BY <1>1 DEF TlRef, HashRef, TmRef, PingRef, dlgvars, timervars, heldvars
  <2>4. /\ ref \in Nat /\ byes \in Nat /\ txns \in Nat /\ jobs \in Nat /\ Cardinality(hand) \in Nat
        /\ ref' = ref + 1 /\ byes' = byes /\ txns' = txns /\ jobs' = jobs /\ hand' = hand
    BY <1>1, <1>2, Finite DEF TypeOK, heldvars
  <2> QED BY <2>1, <2>2, <2>3, <2>4, Ones DEF Counted
<1>11. Local(a)
  BY <1>1, <1>5, <1>8 DEF Local
<1>12. HandAt(a)'
  BY <1>1, <1>2, <1>7, <1>8 DEF Hands, HandAt, MayHold
<1>13. HeldAt(a)'
  BY ZenonT(60), <1>1, <1>5, <1>6, <1>8, FollowsOK DEF HeldAt, heldvars
<1>14. Links'
  BY <1>1, <1>2, <1>6, <1>7, <1>8, LinksKept DEF dlgvars, timervars
<1>15. Pings'
  BY <1>1, <1>2, <1>7, <1>8, PingsKept DEF dlgvars, timervars, Finished
<1> QED BY <1>1, <1>4, <1>9, <1>10, <1>11, <1>12, <1>13, <1>14, <1>15, StepOf DEF heldvars

\* dlg_end_dlg: the INVITE is cancelled, or BYEs go out, from here or from a worker.
LEMMA EndInv ==
    ASSUME IInv, ~Windows, NEW a \in Actors, Alone(a), End(a) PROVE IInv'
<1>1. /\ pc[a] = "end"
      /\ UNCHANGED <<dlg_del_delay, where, dlgvars, timervars, tmcb, byes, txns, hand,
                     inserted, fails, msgs>>
  BY DEF End
<1>2. fails' \in [Actors -> Nat] /\ msgs' \in Nat
  BY <1>1 DEF IInv, TypeOK
<1>3. a \notin inserted /\ inserted = {}
  BY <1>1, NoWindow DEF Arm
<1>4. <<a, "bye">> \notin hand
  BY ZenonT(60), <1>1, Holding DEF MayHold, Kinds
<1>5. CASE UNCHANGED <<ref, jobs>>
  <2>1. PICK l \in {"end_unref", "bye1"} : Goto(a, l)
    BY DEF End
  <2>2. UNCHANGED <<dlg_del_delay, where, dlgvars, timervars, heldvars, inserted, ref, hand>>
    BY <1>1, <1>5 DEF heldvars
  <2>3. <<pc[a], l>> \in Follows /\ l # "restore" /\ l \notin Arm
    BY <1>1 DEF Follows, Arm
  <2> QED BY <1>2, <1>3, <1>4, <2>1, <2>2, <2>3, FollowStep
<1>6. CASE ref' = ref + 1 /\ jobs' = jobs + 1 /\ Goto(a, "end_unref")
  <2>1. <<pc[a], "end_unref">> \in Follows /\ "end_unref" \notin Arm
    BY <1>1 DEF Follows, Arm
  <2>2. /\ ref' \in Nat /\ byes' \in Nat /\ txns' \in Nat /\ jobs' \in Nat
        /\ ref' - ref = (byes' - byes) + (txns' - txns) + (jobs' - jobs)
    BY <1>1, <1>6 DEF IInv, TypeOK
  <2> QED BY <1>1, <1>2, <1>3, <1>4, <1>6, <2>1, <2>2, RefStep
<1> QED BY <1>5, <1>6 DEF End

\* send_leg_bye, whether the BYE can be sent or not.
LEMMA SendByeInv ==
    ASSUME IInv, ~Windows, NEW a \in Actors, Alone(a), SendBye(a) PROVE IInv'
<1> DEFINE l == IF pc[a] = "bye1" THEN "bye2" ELSE "dual"
<1>1. /\ pc[a] \in {"bye1", "bye2"} /\ Goto(a, l)
      /\ UNCHANGED <<dlg_del_delay, where, dlgvars, timervars, tmcb, txns, jobs, hand,
                     inserted, msgs>>
  BY DEF SendBye
<1>2. TypeOK /\ Hands
  BY DEF IInv
<1>3. a \notin inserted
  BY <1>1, NoWindow DEF Arm
<1>4. <<pc[a], l>> \in Follows /\ l \notin Arm \cup OnExpiry \cup Ack \cup {"restore", "end_unref"}
  BY <1>1 DEF Follows, Arm, OnExpiry, Ack
<1>5. CASE fails' = [fails EXCEPT ![a] = @ + 1] /\ UNCHANGED <<ref, byes>>
  <2>1. fails' \in [Actors -> Nat] /\ msgs' \in Nat
    BY <1>1, <1>2, <1>5 DEF TypeOK
  <2>2. UNCHANGED <<dlg_del_delay, where, dlgvars, timervars, heldvars, inserted, ref, hand>>
    BY <1>1, <1>5 DEF heldvars
  <2> QED BY ZenonT(60), <1>1, <1>3, <1>4, <2>1, <2>2, FollowStep
<1>6. CASE ref' = ref + 1 /\ byes' = byes + 1 /\ UNCHANGED fails
  <2>1. /\ ref' \in Nat /\ byes' \in Nat /\ txns' \in Nat /\ jobs' \in Nat
        /\ fails' \in [Actors -> Nat]
        /\ ref' - ref = (byes' - byes) + (txns' - txns) + (jobs' - jobs)
    BY <1>1, <1>2, <1>6 DEF TypeOK
  <2> QED BY ZenonT(60), <1>1, <1>3, <1>4, <2>1, RefStep
<1> QED BY <1>5, <1>6 DEF SendBye

\* The end of the reply to a BYE of ours, or of dlg_end_dlg.
LEMMA DualDoneInv ==
    ASSUME IInv, ~Windows, NEW a \in Actors, Alone(a), DualDone(a) PROVE IInv'
<1>1. /\ pc[a] = "dual"
      /\ UNCHANGED <<dlg_del_delay, where, dlgvars, ref, timervars, tmcb, byes, jobs,
                     inserted, fails, msgs>>
  BY DEF DualDone
<1>2. TypeOK /\ Hands
  BY DEF IInv
<1>3. a \notin inserted
  BY <1>1, NoWindow DEF Arm
<1>4. CASE <<a, "bye">> \notin hand
  <2>1. Goto(a, "end_unref") /\ UNCHANGED <<hand, txns>>
    BY <1>4 DEF DualDone
  <2>2. UNCHANGED <<dlg_del_delay, where, dlgvars, timervars, heldvars, inserted, ref, hand>>
    BY <1>1, <2>1 DEF heldvars
  <2>3. <<pc[a], "end_unref">> \in Follows /\ "end_unref" \notin Arm
    BY <1>1 DEF Follows, Arm
  <2>4. fails' \in [Actors -> Nat] /\ msgs' \in Nat
    BY <1>1, <1>2 DEF TypeOK
  <2> QED BY <1>3, <1>4, <2>1, <2>2, <2>3, <2>4, FollowStep
<1>5. CASE <<a, "bye">> \in hand
  <2>1. hand' = hand \ {<<a, "bye">>} /\ txns' = txns + 1 /\ Goto(a, "idle")
    BY <1>5 DEF DualDone
  <2>2. where = "hashed"
    BY <1>1, Alive
  <2>3. "idle" \in Labels /\ pc'[a] = "idle"
    BY <1>2, <2>1, Tables, MoveLocal
  <2>4. \A k \in Kinds : <<a, k>> \notin hand'
    BY ZenonT(60), <1>1, <1>5, <2>1, Holding DEF MayHold, Kinds, Bases
  <2>5. HandAt(a)'
    BY <2>4 DEF HandAt, Kinds, MayHold
  <2>6. HeldAt(a)'
    BY <1>1, <1>3, <2>3 DEF HeldAt, OnExpiry
  <2>7. /\ ref' \in Nat /\ byes' \in Nat /\ txns' \in Nat /\ jobs' \in Nat /\ msgs' \in Nat
        /\ hand' \subseteq Actors \X Kinds /\ fails' \in [Actors -> Nat]
    BY <1>1, <1>2, <2>1 DEF TypeOK
  <2>8. Cardinality(hand') = Cardinality(hand) - 1 /\ Cardinality(hand') \in Nat
    BY ZenonT(60), <1>2, <1>5, <2>1, Finite, FS_RemoveElement, FS_CardinalityType
  <2>9. Counted'
    <3>1. /\ ref \in Nat /\ byes \in Nat /\ txns \in Nat /\ jobs \in Nat /\ Cardinality(hand) \in Nat
          /\ ref' = ref /\ byes' = byes /\ jobs' = jobs /\ inserted' = inserted
      BY <1>1, <1>2, Finite DEF TypeOK
    <3>2. ref' - ref = (Cardinality(hand') - Cardinality(hand))
                        + (byes' - byes) + (txns' - txns) + (jobs' - jobs)
      BY <2>1, <2>8, <3>1
    <3> QED BY <1>1, <2>2, <2>7, <2>8, <3>1, <3>2, Recount
  <2>10. \A b \in Actors \ {a}, k \in Kinds : <<b, k>> \in hand' <=> <<b, k>> \in hand
    BY <2>1
  <2>11. "idle" \notin Arm \cup OnExpiry \cup Ack
    BY DEF Arm, OnExpiry, Ack
  <2> QED BY <1>1, <2>1, <2>2, <2>3, <2>5, <2>6, <2>7, <2>9, <2>10, <2>11, PlainStep
<1> QED BY <1>4, <1>5

\* The script creates a transaction.
LEMMA BindInv ==
    ASSUME IInv, ~Windows, NEW a \in Actors, Alone(a), Bind(a) PROVE IInv'
<1>1. /\ pc[a] = "ctx" /\ txns' = txns + 1 /\ ref' = ref + 1 /\ Goto(a, "leave")
      /\ UNCHANGED <<dlg_del_delay, where, dlgvars, timervars, tmcb, byes, jobs, hand,
                     inserted, fails, msgs>>
  BY DEF Bind
<1>2. a \notin inserted
  BY <1>1, NoWindow DEF Arm
<1>3. <<pc[a], "leave">> \in Follows /\ "leave" \notin Arm
  BY <1>1 DEF Follows, Arm
<1>4. /\ ref' \in Nat /\ byes' \in Nat /\ txns' \in Nat /\ jobs' \in Nat
      /\ fails' \in [Actors -> Nat]
      /\ ref' - ref = (byes' - byes) + (txns' - txns) + (jobs' - jobs)
  BY <1>1 DEF IInv, TypeOK
<1> QED BY ZenonT(60), <1>1, <1>2, <1>3, <1>4, RefStep

\* A handler that held nothing gets hold of the dialog.
LEMMA TakeStep ==
    ASSUME IInv, NEW a \in Actors, NEW k, NEW l, Goto(a, l), where = "hashed",
           <<k, l>> \in {<<"ctx", "ctx">>, <<"ctx", "onroute">>, <<"ctx", "end">>,
                         <<"job", "bye1">>, <<"bye", "dual">>},
           \A j \in Kinds : <<a, j>> \notin hand, hand' = hand \cup {<<a, k>>},
           a \notin inserted, UNCHANGED <<dlg_del_delay, where, dlgvars, timervars, tmcb, inserted>>,
           fails' \in [Actors -> Nat], msgs' \in Nat,
           ref' \in Nat, byes' \in Nat, txns' \in Nat, jobs' \in Nat,
           ref' - ref = 1 + (byes' - byes) + (txns' - txns) + (jobs' - jobs)
    PROVE  IInv'
<1>0. TypeOK
  BY DEF IInv
<1>1. k \in Kinds /\ k \in Bases /\ l \in Labels /\ l \in MayHold(k)
      /\ l \notin Arm \cup OnExpiry \cup Ack \cup {"ondelete"}
  BY Tables DEF Kinds, Bases, MayHold, Arm, OnExpiry, Ack
<1>2. pc'[a] = l
  BY <1>0, <1>1, MoveLocal
<1>3. /\ hand' \subseteq Actors \X Kinds
      /\ Cardinality(hand') = Cardinality(hand) + 1
      /\ \A b \in Actors, j \in Kinds :
           <<b, j>> \in hand' <=> <<b, j>> \in hand \/ (b = a /\ j = k)
  BY ZenonT(60), <1>0, <1>1, TakeOne
<1>4. HandAt(a)'
  BY <1>1, <1>2, <1>3 DEF HandAt, MayHold, Bases, Kinds
<1>5. HeldAt(a)'
  BY <1>1, <1>2, <1>3 DEF HeldAt, OnExpiry, Arm
<1>6. /\ ref \in Nat /\ byes \in Nat /\ txns \in Nat /\ jobs \in Nat /\ Cardinality(hand) \in Nat
      /\ Cardinality(hand') \in Nat
  BY <1>0, <1>3, Finite DEF TypeOK
<1>7. ref' - ref = (Cardinality(hand') - Cardinality(hand))
                        + (byes' - byes) + (txns' - txns) + (jobs' - jobs)
  BY <1>3, <1>6
<1>8. Counted'
  BY <1>6, <1>7, Recount
<1>9. \A b \in Actors \ {a}, j \in Kinds : <<b, j>> \in hand' <=> <<b, j>> \in hand
  BY <1>3
<1>10. /\ a = Timer => /\ l \notin {"ondelete", "timeout"}
                       /\ l = "restore" => tl # "in"
                       /\ l \in OnExpiry => pc[a] \in OnExpiry
       /\ l \in Arm => state \notin Setup
       /\ l \in Ack => pc[a] \in Ack
  BY <1>1 DEF OnExpiry
<1> QED BY <1>1, <1>3, <1>4, <1>5, <1>8, <1>9, <1>10, PlainStep

\* A handler that is idle, or still in the callback of the INVITE transaction,
\* holds nothing.
LEMMA HoldsNothing ==
    ASSUME IInv, NEW a \in Actors, pc[a] \in {"idle", "cancel_ctx"}
    PROVE  \A k \in Kinds : <<a, k>> \notin hand
BY ZenonT(60), Holding DEF MayHold, Kinds

\* The CANCEL attaches the dialog to its context.
LEMMA CancelCtxInv ==
    ASSUME IInv, ~Windows, NEW a \in Actors, Alone(a), CancelCtx(a) PROVE IInv'
<1>1. /\ pc[a] = "cancel_ctx" /\ ref' = ref + 1 /\ hand' = hand \cup {<<a, "ctx">>}
      /\ Goto(a, "ctx")
      /\ UNCHANGED <<dlg_del_delay, where, dlgvars, timervars, heldvars, inserted, fails, msgs>>
  BY DEF CancelCtx, Take
<1>2. a \notin inserted /\ where = "hashed"
  BY <1>1, NoWindow, Alive DEF Arm
<1>3. /\ ref' \in Nat /\ byes' \in Nat /\ txns' \in Nat /\ jobs' \in Nat /\ tmcb' = tmcb
      /\ fails' \in [Actors -> Nat] /\ msgs' \in Nat
      /\ ref' - ref = 1 + (byes' - byes) + (txns' - txns) + (jobs' - jobs)
  BY <1>1 DEF IInv, TypeOK, heldvars
<1> QED BY <1>1, <1>2, <1>3, HoldsNothing, TakeStep

\* lookup_dlg for a request within the dialog, and for terminate_dlg.
LEMMA LookupInv ==
    ASSUME IInv, ~Windows, NEW a \in Actors, Alone(a), Request(a) \/ Terminate(a) PROVE IInv'
<1>1. /\ pc[a] = "idle" /\ ref' = ref + 1 /\ hand' = hand \cup {<<a, "ctx">>} /\ where = "hashed"
      /\ msgs > 0 /\ msgs' = msgs - 1
      /\ UNCHANGED <<dlg_del_delay, where, dlgvars, timervars, heldvars, inserted, fails>>
  BY DEF Request, Terminate, Take, Arrives
<1>2. PICK l \in {"onroute", "end"} : Goto(a, l)
  BY DEF Request, Terminate
<1>3. a \notin inserted
  BY <1>1, NoWindow DEF Arm
<1>4. /\ ref' \in Nat /\ byes' \in Nat /\ txns' \in Nat /\ jobs' \in Nat /\ tmcb' = tmcb
      /\ fails' \in [Actors -> Nat] /\ msgs' \in Nat
      /\ ref' - ref = 1 + (byes' - byes) + (txns' - txns) + (jobs' - jobs)
  BY <1>1 DEF IInv, TypeOK, heldvars
<1>5. \A k \in Kinds : <<a, k>> \notin hand
  BY <1>1, HoldsNothing
<1> QED BY <1>1, <1>2, <1>3, <1>4, <1>5, TakeStep

\* dlg_end_rpc takes over the reference of its job.
LEMMA EndRpcInv ==
    ASSUME IInv, ~Windows, NEW a \in Actors, Alone(a), EndRpc(a) PROVE IInv'
<1>1. /\ jobs > 0 /\ pc[a] = "idle" /\ jobs' = jobs - 1 /\ hand' = hand \cup {<<a, "job">>}
      /\ Goto(a, "bye1")
      /\ UNCHANGED <<dlg_del_delay, where, dlgvars, ref, timervars, tmcb, byes, txns,
                     inserted, fails, msgs>>
  BY DEF EndRpc
<1>2. a \notin inserted /\ where = "hashed"
  BY <1>1, NoWindow, Alive DEF Arm
<1>3. /\ ref' \in Nat /\ byes' \in Nat /\ txns' \in Nat /\ jobs' \in Nat
      /\ fails' \in [Actors -> Nat] /\ msgs' \in Nat
      /\ ref' - ref = 1 + (byes' - byes) + (txns' - txns) + (jobs' - jobs)
  BY <1>1 DEF IInv, TypeOK
<1>4. \A k \in Kinds : <<a, k>> \notin hand
  BY <1>1, HoldsNothing
<1> QED BY <1>1, <1>2, <1>3, <1>4, TakeStep

\* bye_reply_cb takes over the reference of the BYE.
LEMMA ByeRepliedInv ==
    ASSUME IInv, ~Windows, NEW a \in Actors, Alone(a), ByeReplied(a) PROVE IInv'
<1>1. /\ byes > 0 /\ pc[a] = "idle" /\ byes' = byes - 1 /\ hand' = hand \cup {<<a, "bye">>}
      /\ fails' = [fails EXCEPT ![a] = 1] /\ Goto(a, "dual")
      /\ UNCHANGED <<dlg_del_delay, where, dlgvars, ref, timervars, tmcb, txns, jobs,
                     inserted, msgs>>
  BY DEF ByeReplied
<1>2. a \notin inserted /\ where = "hashed"
  BY <1>1, NoWindow, Alive DEF Arm
<1>3. /\ ref' \in Nat /\ byes' \in Nat /\ txns' \in Nat /\ jobs' \in Nat
      /\ fails' \in [Actors -> Nat] /\ msgs' \in Nat
      /\ ref' - ref = 1 + (byes' - byes) + (txns' - txns) + (jobs' - jobs)
  BY <1>1 DEF IInv, TypeOK
<1>4. \A k \in Kinds : <<a, k>> \notin hand
  BY <1>1, HoldsNothing
<1> QED BY <1>1, <1>2, <1>3, <1>4, TakeStep

\* The on-timeout route is over, and the link is tested.
LEMMA RouteInv ==
    ASSUME IInv, ~Windows, Alone(Timer), RouteDone \/ RouteTest PROVE IInv'
<1>0. Timer \in Actors
  BY DEF Actors
<1>1. /\ pc[Timer] \in {"route", "route_test"}
      /\ UNCHANGED <<dlg_del_delay, where, dlgvars, ref, timervars, heldvars, hand,
                     inserted, fails, msgs>>
  BY DEF RouteDone, RouteTest
<1>2. PICK l : Goto(Timer, l) /\ <<pc[Timer], l>> \in Follows
               /\ l \in {"route_test", "end_unref", "restore"} /\ (l = "restore" => tl # "in")
  <2>1. CASE RouteDone
    BY <2>1 DEF RouteDone, Follows
  <2>2. CASE RouteTest /\ tl = "in"
    BY <2>2 DEF RouteTest, Follows
  <2>3. CASE RouteTest /\ tl # "in"
    BY <2>3 DEF RouteTest, Follows
  <2> QED BY ZenonT(60), <2>1, <2>2, <2>3
<1>3. Timer \notin inserted
  BY <1>0, <1>1, NoWindow DEF Arm
<1>4. <<Timer, "bye">> \notin hand
  BY ZenonT(60), <1>0, <1>1, Holding DEF MayHold, Kinds
<1>5. fails' \in [Actors -> Nat] /\ msgs' \in Nat /\ l \notin Arm
  BY <1>1, <1>2 DEF IInv, TypeOK, Arm
<1> QED BY <1>0, <1>1, <1>2, <1>3, <1>4, <1>5, FollowStep

\* TMCB_TRANS_CANCELLED.
LEMMA CancelledInv ==
    ASSUME IInv, ~Windows, NEW a \in Workers, Alone(a), Cancelled(a) PROVE IInv'
<1>0. a \in Actors /\ a # Timer
  BY ConstantsType DEF Actors
<1>1. /\ tmcb /\ pc[a] = "idle" /\ msgs > 0 /\ msgs' = msgs - 1
      /\ flags' = flags \cup {"WAS_CANCELLED"}
      /\ UNCHANGED <<dlg_del_delay, where, state, ref, timervars, heldvars, hand, inserted, fails>>
  BY DEF Cancelled, Arrives
<1>2. PICK l \in {"cancel_timer", "cancel_ctx"} :
        Goto(a, l) /\ (l = "cancel_timer" => state \notin Setup)
  BY DEF Cancelled
<1>3. TypeOK /\ Links /\ Pings
  BY DEF IInv
<1>4. where = "hashed" /\ inserted = {}
  BY <1>0, <1>1, NoWindow, Alive DEF Arm
<1>5. /\ pc' \in [Actors -> Labels] /\ pc'[a] = l
      /\ \A b \in Actors \ {a} : pc'[b] = pc[b]
  BY <1>0, <1>2, <1>3, Tables, MoveLocal DEF Arm
<1>6. TypeOK'
  BY <1>1, <1>3, <1>5 DEF TypeOK, timervars, heldvars
<1>7. Counted
  BY <1>4, RefIsCounted DEF IInv
<1>8. Counted'
  BY <1>1, <1>7 DEF Counted, HashRef, TmRef, TlRef, PingRef, timervars, heldvars
<1>9. Local(a)
  BY <1>1, <1>5 DEF Local
<1>10. HandAt(a)'
  BY ZenonT(60), <1>0, <1>1, HoldsNothing DEF HandAt, Kinds, MayHold
<1>11. HeldAt(a)'
  BY <1>1, <1>4, <1>5 DEF HeldAt, heldvars, OnExpiry
<1>12. Links'
  BY <1>0, <1>1, <1>2, <1>3, <1>5, LinksKept DEF timervars, Arm
<1>13. Pings'
  BY <1>0, <1>1, <1>3, <1>5, PingsKept DEF timervars, Ack, Finished
<1> QED BY <1>0, <1>1, <1>4, <1>6, <1>8, <1>9, <1>10, <1>11, <1>12, <1>13, StepOf DEF heldvars

----------------------------------------------------------------------------
(***************************************************************************)
(* The steps that change a timer.                                          *)
(***************************************************************************)
\* remove_dlg_timer by the handler that ends the dialog.
LEMMA RemoveTimerInv ==
    ASSUME IInv, ~Windows, NEW a \in Actors, Alone(a), RemoveTimer(a) PROVE IInv'
<1> DEFINE l == IF pc[a] = "bye_timer" THEN "bye_unref" ELSE "dual_unref"
<1>1. /\ pc[a] \in {"bye_timer", "dual_timer"} /\ Goto(a, l)
      /\ UNCHANGED <<dlg_del_delay, where, dlgvars, ref, del_tl, ping, heldvars,
                     inserted, fails, msgs>>
  BY DEF RemoveTimer
<1>2. TypeOK /\ Links /\ Pings
  BY DEF IInv
<1>3. where = "hashed" /\ inserted = {} /\ \A b \in Actors \ {a} : pc[b] # "restore"
  BY <1>1, NoWindow, Alive DEF Arm
<1>4. /\ pc' \in [Actors -> Labels] /\ pc'[a] = l
      /\ \A b \in Actors \ {a} : pc'[b] = pc[b]
  BY <1>1, <1>2, Tables, MoveLocal
<1>5. <<a, "timer">> \notin hand
  BY ZenonT(60), <1>1, Holding DEF MayHold, Kinds
<1>6. \/ tl' = tl /\ hand' = hand
      \/ tl = "in" /\ tl' = "gone" /\ hand' = hand \cup {<<a, "timer">>}
  BY DEF RemoveTimer
<1>7. /\ hand' \subseteq Actors \X Kinds
      /\ Cardinality(hand') + TlRef' = Cardinality(hand) + TlRef
      /\ Cardinality(hand') \in Nat
      /\ \A b \in Actors, j \in Kinds :
           /\ <<b, j>> \in hand => <<b, j>> \in hand'
           /\ <<b, j>> \in hand' => <<b, j>> \in hand \/ (b = a /\ j = "timer")
  <2>1. CASE tl' = tl /\ hand' = hand
    BY <1>2, <2>1, Finite DEF TypeOK, TlRef
  <2>2. CASE tl = "in" /\ tl' = "gone" /\ hand' = hand \cup {<<a, "timer">>}
    <3>1. "timer" \in Kinds /\ TlRef = 1 /\ TlRef' = 0 /\ Cardinality(hand) \in Nat
      BY <1>2, <2>2, Finite DEF Kinds, TlRef
    <3>2. /\ hand' \subseteq Actors \X Kinds
          /\ Cardinality(hand') = Cardinality(hand) + 1
          /\ \A b \in Actors, j \in Kinds :
               <<b, j>> \in hand' <=> <<b, j>> \in hand \/ (b = a /\ j = "timer")
      BY ZenonT(60), <1>2, <1>5, <2>2, <3>1, TakeOne
    <3>3. Cardinality(hand') + TlRef' = Cardinality(hand) + TlRef /\ Cardinality(hand') \in Nat
      BY <3>1, <3>2
    <3> QED BY <3>2, <3>3
  <2> QED BY <1>6, <2>1, <2>2
<1>8. TypeOK'
  BY <1>1, <1>2, <1>4, <1>6, <1>7 DEF TypeOK, dlgvars, heldvars
<1>9. Counted'
  <2>1. Counted
    BY <1>3, RefIsCounted DEF IInv
  <2>2. /\ ref \in Nat /\ byes \in Nat /\ txns \in Nat /\ jobs \in Nat /\ Cardinality(hand) \in Nat
        /\ Cardinality(inserted) \in Nat
        /\ ref' = ref /\ byes' = byes /\ txns' = txns /\ jobs' = jobs /\ inserted' = inserted
    BY <1>1, <1>2, Finite DEF TypeOK, heldvars
  <2>3. HashRef' = HashRef /\ TmRef' = TmRef /\ PingRef' = PingRef
    BY <1>1 DEF HashRef, TmRef, PingRef, dlgvars, heldvars
  <2>4. TlRef' \in Nat
    BY DEF TlRef
  <2> QED BY <1>7, <2>1, <2>2, <2>3, <2>4, Ones DEF Counted
<1>10. Local(a)
  BY <1>1, <1>4, <1>7 DEF Local
<1>11. HandAt(a)'
  BY ZenonT(60), <1>1, <1>4, <1>7, Holding DEF HandAt, MayHold, Kinds, Bases
<1>12. HeldAt(a)'
  <2>1. \E k \in Bases : <<a, k>> \in hand /\ (pc[a] = "bye_timer" => <<a, "ctx">> \in hand)
    BY ZenonT(60), <1>1, Holding DEF HeldAt, Bases
  <2>2. \E k \in Bases : <<a, k>> \in hand' /\ (pc[a] = "bye_timer" => <<a, "ctx">> \in hand')
    BY ZenonT(60), <1>7, <2>1 DEF Bases, Kinds
  <2> QED BY <1>1, <1>3, <1>4, <2>2 DEF HeldAt, OnExpiry
<1>13. Links'
  <2>1. l \notin Arm \cup OnExpiry \cup {"ondelete"}
    BY DEF Arm, OnExpiry
  <2>2. CASE tl' = tl
    BY <1>1, <1>2, <1>4, <2>1, <2>2, LinksKept DEF dlgvars, OnExpiry
  <2>3. CASE tl = "in" /\ tl' = "gone"
    BY <1>1, <1>2, <1>4, <2>1, <2>3 DEF Links, dlgvars, Actors, OnExpiry
  <2> QED BY <1>6, <2>2, <2>3
<1>14. Pings'
  BY <1>1, <1>2, <1>4, PingsKept DEF dlgvars, Ack, Finished
<1> QED BY <1>1, <1>3, <1>8, <1>9, <1>10, <1>11, <1>12, <1>13, <1>14, StepOf DEF heldvars

\* The lifetime is over: the reference of the list becomes that of dlg_ontimeout.
LEMMA ExpireInv ==
    ASSUME IInv, ~Windows, Alone(Timer), Expire PROVE IInv'
<1>0. Timer \in Actors
  BY DEF Actors
<1>1. /\ pc[Timer] = "idle" /\ tl = "in" /\ tl' = "gone"
      /\ hand' = hand \cup {<<Timer, "expired">>} /\ Goto(Timer, "timeout")
      /\ UNCHANGED <<dlg_del_delay, where, dlgvars, ref, del_tl, ping, heldvars,
                     inserted, fails, msgs>>
  BY DEF Expire
<1>2. TypeOK /\ Links /\ Pings
  BY DEF IInv
<1>3. where = "hashed" /\ inserted = {}
  BY <1>0, <1>1, NoWindow, Alive DEF Arm
<1>4. /\ pc' \in [Actors -> Labels] /\ pc'[Timer] = "timeout"
      /\ \A b \in Actors \ {Timer} : pc'[b] = pc[b]
  BY <1>0, <1>1, <1>2, Tables, MoveLocal
<1>5. \A k \in Kinds : <<Timer, k>> \notin hand
  BY <1>0, <1>1, HoldsNothing
<1>6. /\ hand' \subseteq Actors \X Kinds
      /\ Cardinality(hand') = Cardinality(hand) + 1
      /\ \A b \in Actors, j \in Kinds :
           <<b, j>> \in hand' <=> <<b, j>> \in hand \/ (b = Timer /\ j = "expired")
  <2>1. "expired" \in Kinds
    BY DEF Kinds
  <2> QED BY ZenonT(60), <1>0, <1>1, <1>2, <1>5, <2>1, TakeOne
<1>7. TypeOK'
  BY <1>1, <1>2, <1>4, <1>6 DEF TypeOK, dlgvars, heldvars
<1>8. Counted'
  <2>1. Counted
    BY <1>3, RefIsCounted DEF IInv
  <2>2. /\ ref \in Nat /\ byes \in Nat /\ txns \in Nat /\ jobs \in Nat /\ Cardinality(hand) \in Nat
        /\ Cardinality(inserted) \in Nat
        /\ ref' = ref /\ byes' = byes /\ txns' = txns /\ jobs' = jobs /\ inserted' = inserted
    BY <1>1, <1>2, Finite DEF TypeOK, heldvars
  <2>3. HashRef' = HashRef /\ TmRef' = TmRef /\ PingRef' = PingRef /\ TlRef = 1 /\ TlRef' = 0
    BY <1>1 DEF HashRef, TmRef, TlRef, PingRef, dlgvars, heldvars
  <2> QED BY <1>6, <2>1, <2>2, <2>3, Ones DEF Counted
<1>9. Local(Timer)
  BY <1>1, <1>4, <1>6 DEF Local
<1>10. HandAt(Timer)'
  BY ZenonT(60), <1>0, <1>4, <1>5, <1>6, Tables DEF HandAt, MayHold, Kinds, Bases
<1>11. HeldAt(Timer)'
  BY <1>0, <1>3, <1>1, <1>4, <1>6 DEF HeldAt, OnExpiry, Kinds
<1>12. Links'
  BY <1>0, <1>1, <1>2, <1>4 DEF Links, dlgvars, Arm
<1>13. Pings'
  BY <1>0, <1>1, <1>2, <1>4, PingsKept DEF dlgvars, Ack, Finished
<1> QED BY <1>0, <1>1, <1>3, <1>7, <1>8, <1>9, <1>10, <1>11, <1>12, <1>13, StepOf DEF heldvars

\* The link is cleared before the on-timeout route, and restored after it.
LEMMA RelinkInv ==
    ASSUME IInv, ~Windows, Alone(Timer), RunRoute \/ Restore PROVE IInv'
<1>0. Timer \in Actors
  BY DEF Actors
<1>1. /\ pc[Timer] \in {"timeout", "restore"}
      /\ UNCHANGED <<dlg_del_delay, where, dlgvars, ref, del_tl, ping, heldvars, hand,
                     inserted, fails, msgs>>
  BY DEF RunRoute, Restore
<1>2. PICK l \in {"route", "expire"} : Goto(Timer, l)
  BY DEF RunRoute, Restore
<1>3. TypeOK /\ Links /\ Pings /\ Hands
  BY DEF IInv
<1>4. tl' \in {"out", "gone"} /\ tl # "in" /\ state \notin Setup
  BY <1>1, <1>3 DEF Links, RunRoute, Restore, OnExpiry
<1>5. where = "hashed" /\ inserted = {}
  BY <1>0, <1>1, NoWindow, Alive DEF Arm
<1>6. /\ pc' \in [Actors -> Labels] /\ pc'[Timer] = l
      /\ \A b \in Actors \ {Timer} : pc'[b] = pc[b]
  BY <1>0, <1>2, <1>3, Tables, MoveLocal
<1>7. TypeOK'
  BY <1>1, <1>3, <1>4, <1>6 DEF TypeOK, dlgvars, heldvars
<1>8. Counted'
  <2>1. Counted
    BY <1>5, RefIsCounted DEF IInv
  <2>2. TlRef' = TlRef
    BY <1>4 DEF TlRef
  <2> QED BY <1>1, <2>1, <2>2 DEF Counted, HashRef, TmRef, PingRef, dlgvars, heldvars
<1>9. Local(Timer)
  BY <1>1, <1>6 DEF Local
<1>10. HandAt(Timer)'
  BY ZenonT(60), <1>0, <1>1, <1>6, Holding, Tables DEF HandAt, MayHold, Kinds, Bases
<1>11. HeldAt(Timer)'
  BY ZenonT(60), <1>0, <1>1, <1>5, <1>6, Holding DEF HeldAt, OnExpiry
<1>12. Links'
  BY <1>0, <1>1, <1>3, <1>4, <1>6 DEF Links, dlgvars
<1>13. Pings'
  BY <1>0, <1>1, <1>3, <1>6, PingsKept DEF dlgvars, Ack, Finished
<1> QED BY <1>0, <1>1, <1>5, <1>7, <1>8, <1>9, <1>10, <1>11, <1>12, <1>13, StepOf DEF heldvars

\* The ACK puts the ping node in the list.
LEMMA InsertPingInv ==
    ASSUME IInv, ~Windows, NEW a \in Actors, Alone(a), InsertPing(a) PROVE IInv'
<1>1. /\ pc[a] = "ack_ping" /\ Goto(a, "ctx")
      /\ UNCHANGED <<dlg_del_delay, where, dlgvars, tl, del_tl, heldvars, hand,
                     inserted, fails, msgs>>
      /\ (ping' = "in" /\ ref' = ref + 1) \/ UNCHANGED <<ping, ref>>
  BY DEF InsertPing
<1>2. TypeOK /\ Links /\ Pings
  BY DEF IInv
<1>3. /\ ping = "out" /\ (state = "CONFIRMED" \/ Finished)
      /\ \A b \in Actors \ {a} : pc[b] \notin Ack
  BY <1>1, <1>2 DEF Pings, Ack
<1>4. where = "hashed" /\ inserted = {}
  BY <1>1, NoWindow, Alive DEF Arm
<1>5. /\ pc' \in [Actors -> Labels] /\ pc'[a] = "ctx"
      /\ \A b \in Actors \ {a} : pc'[b] = pc[b]
  BY <1>1, <1>2, Tables, MoveLocal
<1>6. TypeOK'
  BY <1>1, <1>2, <1>5 DEF TypeOK, dlgvars, heldvars
<1>7. Counted'
  <2>1. Counted
    BY <1>4, RefIsCounted DEF IInv
  <2>2. /\ ref \in Nat /\ byes \in Nat /\ txns \in Nat /\ jobs \in Nat /\ Cardinality(hand) \in Nat
        /\ Cardinality(inserted) \in Nat
        /\ byes' = byes /\ txns' = txns /\ jobs' = jobs /\ inserted' = inserted /\ hand' = hand
    BY <1>1, <1>2, Finite DEF TypeOK, heldvars
  <2>3. HashRef' = HashRef /\ TmRef' = TmRef /\ TlRef' = TlRef /\ PingRef = 0
    BY <1>1, <1>3 DEF HashRef, TmRef, TlRef, PingRef, dlgvars, heldvars
  <2>4. ref' = ref + PingRef'
    BY <1>1, <1>3, <2>2 DEF PingRef
  <2>5. PingRef' \in Nat
    BY DEF PingRef
  <2> QED BY <2>1, <2>2, <2>3, <2>4, <2>5, Ones DEF Counted
<1>8. Local(a)
  BY <1>1, <1>5 DEF Local
<1>9. HandAt(a)'
  BY ZenonT(60), <1>1, <1>5, Holding, Tables DEF HandAt, MayHold, Kinds, Bases
<1>10. HeldAt(a)'
  BY ZenonT(60), <1>1, <1>4, <1>5, Holding DEF HeldAt, OnExpiry
<1>11. Links'
  BY <1>1, <1>2, <1>5, LinksKept DEF dlgvars, OnExpiry, Arm
<1>12. Pings'
  BY <1>1, <1>3, <1>5 DEF Pings, dlgvars, Finished, Ack
<1> QED BY <1>1, <1>4, <1>6, <1>7, <1>8, <1>9, <1>10, <1>11, <1>12, StepOf DEF heldvars

\* The ping node leaves the list, with its reference.
LEMMA PingOverInv ==
    ASSUME IInv, ~Windows, Alone(Timer), PingOver PROVE IInv'
<1>0. Timer \in Actors
  BY DEF Actors
<1>1. /\ pc[Timer] = "idle" /\ ping # "out" /\ ping' = "out"
      /\ hand' = hand \cup {<<Timer, "ping">>}
      /\ UNCHANGED <<dlg_del_delay, where, dlgvars, ref, tl, del_tl, heldvars,
                     inserted, fails, msgs>>
  BY DEF PingOver
<1>2. PICK l \in {"end_unref", "end"} : Goto(Timer, l)
  BY DEF PingOver
<1>3. TypeOK /\ Links /\ Pings
  BY DEF IInv
<1>4. where = "hashed" /\ inserted = {}
  BY <1>0, <1>1, NoWindow, Alive DEF Arm
<1>5. /\ pc' \in [Actors -> Labels] /\ pc'[Timer] = l
      /\ \A b \in Actors \ {Timer} : pc'[b] = pc[b]
  BY <1>0, <1>2, <1>3, Tables, MoveLocal
<1>6. \A k \in Kinds : <<Timer, k>> \notin hand
  BY <1>0, <1>1, HoldsNothing
<1>7. /\ hand' \subseteq Actors \X Kinds
      /\ Cardinality(hand') = Cardinality(hand) + 1
      /\ \A b \in Actors, j \in Kinds :
           <<b, j>> \in hand' <=> <<b, j>> \in hand \/ (b = Timer /\ j = "ping")
  <2>1. "ping" \in Kinds
    BY DEF Kinds
  <2> QED BY ZenonT(60), <1>0, <1>1, <1>3, <1>6, <2>1, TakeOne
<1>8. TypeOK'
  BY ZenonT(60), <1>1, <1>3, <1>5, <1>7 DEF TypeOK, dlgvars, heldvars
<1>9. Counted'
  <2>1. Counted
    BY <1>4, RefIsCounted DEF IInv
  <2>2. /\ ref \in Nat /\ byes \in Nat /\ txns \in Nat /\ jobs \in Nat /\ Cardinality(hand) \in Nat
        /\ Cardinality(inserted) \in Nat
        /\ ref' = ref /\ byes' = byes /\ txns' = txns /\ jobs' = jobs /\ inserted' = inserted
    BY <1>1, <1>3, Finite DEF TypeOK, heldvars
  <2>3. HashRef' = HashRef /\ TmRef' = TmRef /\ TlRef' = TlRef /\ PingRef = 1 /\ PingRef' = 0
    BY <1>1 DEF HashRef, TmRef, TlRef, PingRef, dlgvars, heldvars
  <2> QED BY <1>7, <2>1, <2>2, <2>3, Ones DEF Counted
<1>10. Local(Timer)
  BY <1>1, <1>5, <1>7 DEF Local
<1>11. HandAt(Timer)'
  BY ZenonT(60), <1>0, <1>5, <1>6, <1>7, Tables DEF HandAt, MayHold, Kinds, Bases
<1>12. HeldAt(Timer)'
  <2>1. <<Timer, "ping">> \in hand' /\ "ping" \in Bases
    BY <1>1 DEF Bases
  <2> QED BY <1>1, <1>4, <1>5, <2>1 DEF HeldAt, OnExpiry
<1>13. Links'
  BY <1>0, <1>1, <1>3, <1>5, LinksKept DEF dlgvars, OnExpiry, Arm
<1>14. Pings'
  BY <1>0, <1>1, <1>3, <1>5, PingsKept DEF dlgvars, Ack, Finished
<1> QED BY <1>0, <1>1, <1>4, <1>8, <1>9, <1>10, <1>11, <1>12, <1>13, <1>14, StepOf DEF heldvars

\* A ping goes out, or is answered.
LEMMA PingInv ==
    ASSUME IInv, ~Windows, Alone(Timer), SendPing \/ PingReplied PROVE IInv'
<1>0. Timer \in Actors
  BY DEF Actors
<1>1. /\ ping # "out" /\ ping' # "out" /\ ping' \in {"in", "pinged", "failed"}
      /\ UNCHANGED <<dlg_del_delay, where, dlgvars, tl, del_tl, tmcb, byes, jobs, hand, pc,
                     inserted, fails>>
  BY DEF SendPing, PingReplied, heldvars
<1>2. /\ (txns' = txns + 1 /\ ref' = ref + 1) \/ UNCHANGED <<txns, ref>>
      /\ msgs' = msgs \/ (msgs > 0 /\ msgs' = msgs - 1)
  BY DEF SendPing, PingReplied, heldvars, Arrives
<1>3. TypeOK /\ Links /\ Pings /\ Hands
  BY DEF IInv
<1>4. where = "hashed"
  BY <1>1, Alive
<1>5. TypeOK'
  BY <1>1, <1>2, <1>3 DEF TypeOK, dlgvars
<1>6. Counted'
  <2>1. Counted
    BY <1>4, RefIsCounted DEF IInv
  <2>2. /\ ref \in Nat /\ byes \in Nat /\ txns \in Nat /\ jobs \in Nat /\ Cardinality(hand) \in Nat
        /\ Cardinality(inserted) \in Nat
        /\ byes' = byes /\ jobs' = jobs /\ inserted' = inserted /\ hand' = hand
    BY <1>1, <1>3, Finite DEF TypeOK
  <2>3. HashRef' = HashRef /\ TmRef' = TmRef /\ TlRef' = TlRef /\ PingRef = 1 /\ PingRef' = 1
    BY <1>1 DEF HashRef, TmRef, TlRef, PingRef, dlgvars
  <2> QED BY <1>2, <2>1, <2>2, <2>3, Ones DEF Counted
<1>7. Local(Timer)
  BY <1>1 DEF Local
<1>8. HandAt(Timer)' /\ HeldAt(Timer)'
  BY ZenonT(60), <1>0, <1>1, <1>3 DEF Hands, HandAt, HeldAt, MayHold
<1>9. Links'
  BY <1>1, <1>3 DEF Links, dlgvars
<1>10. Pings'
  BY <1>0, <1>1, <1>3, PingsKept DEF dlgvars, Finished
<1> QED BY <1>0, <1>1, <1>4, <1>5, <1>6, <1>7, <1>8, <1>9, <1>10, StepOf
============================================================================
