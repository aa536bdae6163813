--------------------------- MODULE Dialog_proofs ---------------------------
(***************************************************************************)
(* The rest of the proofs about dialogs: the steps that give references    *)
(* back and may destroy the dialog, those that call next_state_dlg, the    *)
(* creation; that an end stays in sight; and the theorems.                 *)
(***************************************************************************)
EXTENDS Dialog_inv

\* The provers every leaf is given, unless it names its own.
USE SMTT(10), ZenonT(30), SMTT(60)

----------------------------------------------------------------------------
(***************************************************************************)
(* The steps that give references back, and may destroy the dialog.        *)
(***************************************************************************)
\* unref_dlg down to what is still in use.
LEMMA UnrefStep ==
    ASSUME IInv, NEW a \in Actors, where = "hashed", inserted = {}, NEW n \in Nat, UnrefTo(n),
           pc' \in [Actors -> Labels], \A b \in Actors \ {a} : pc'[b] = pc[b],
           pc'[a] \notin Arm \cup OnExpiry \cup Ack \cup {"ondelete"},
           hand' \subseteq Actors \X Kinds, Cardinality(hand') \in Nat, Hands',
           tmcb' \in BOOLEAN, byes' \in Nat, txns' \in Nat, jobs' \in Nat,
           state' \in Setup \cup Confirmed \cup {"DELETED"}, state' \in Setup => state \in Setup,
           state \notin Setup => state' = state,
           UNCHANGED <<dlg_del_delay, flags, ping, inserted, fails, msgs>>,
           n = Cardinality(hand') + byes' + txns' + jobs' + HashRef' + TmRef' + TlRef + PingRef
    PROVE  IInv'
<1>1. TypeOK /\ Links /\ Pings
  BY DEF IInv
<1>2. HashRef' \in Nat /\ TmRef' \in Nat /\ TlRef \in Nat /\ PingRef \in Nat
  BY DEF HashRef, TmRef, TlRef, PingRef
<1>3. n = 0 => TlRef = 0
  BY <1>2
<1>4. tl' = tl /\ ref' = n
  BY <1>3 DEF UnrefTo, TlRef
<1>5. \/ where' = where /\ del_tl' = del_tl
      \/ where' = where /\ n = 0 /\ del_tl' = (IF del_tl = "out" THEN "in" ELSE del_tl)
         /\ (dlg_del_delay \/ "del_delay" \in flags)
      \/ where' = "destroyed" /\ n = 0 /\ del_tl' = del_tl
         /\ ~(dlg_del_delay \/ "del_delay" \in flags)
  BY DEF UnrefTo
<1>6. TypeOK'
  BY <1>1, <1>4, <1>5 DEF TypeOK
<1>7. TlRef' = TlRef /\ PingRef' = PingRef /\ Cardinality(inserted') = 0
  BY <1>4, FS_EmptySet DEF TlRef, PingRef
<1>8. Counted'
  BY <1>2, <1>4, <1>7 DEF Counted
<1>9. RefExact'
  BY <1>8 DEF RefExact, Counted, One, HashRef, TmRef, TlRef, PingRef
<1>10. Links'
  <2>1. /\ del_tl' # "out" => dlg_del_delay' \/ "del_delay" \in flags'
        /\ pc'[Timer] = "ondelete" => dlg_del_delay' /\ del_tl' = "gone"
    BY ZenonT(60), <1>1, <1>5 DEF Links, Actors
  <2>2. /\ pc'[Timer] = "timeout" => tl' = "gone"
        /\ pc'[Timer] = "restore" => tl' # "in"
        /\ pc'[Timer] \in OnExpiry => state' \notin Setup
    BY <1>1, <1>4 DEF Links, Actors, OnExpiry
  <2>3. state' \in Setup => tl' = "out" /\ \A b \in Actors : pc'[b] \notin Arm
    BY <1>1, <1>4 DEF Links
  <2> QED BY <2>1, <2>2, <2>3 DEF Links
<1>11. Pings'
  <2>1. state = "CONFIRMED" \/ Finished => state' = "CONFIRMED" \/ Finished'
    BY DEF Finished, Setup
  <2> QED BY <1>1, <2>1, PingsKept
<1>12. NoneYet'
  BY <1>5 DEF NoneYet
<1>13. Over'
  <2> SUFFICES ASSUME where' = "destroyed"
               PROVE  ref' = 0 /\ inserted' = {} /\ del_tl' # "in" /\ pc'[Timer] # "ondelete"
    BY DEF Over
  <2>1. n = 0 /\ del_tl' = del_tl /\ ~(dlg_del_delay \/ "del_delay" \in flags)
    BY <1>5
  <2>2. del_tl = "out" /\ pc[Timer] # "ondelete"
    BY <1>1, <2>1 DEF Links
  <2> QED BY <1>4, <2>1, <2>2 DEF Actors
<1> QED BY <1>6, <1>9, <1>10, <1>11, <1>12, <1>13 DEF IInv

\* A transaction that referred to the dialog is deleted.
LEMMA ReleaseInv ==
    ASSUME IInv, ~Windows, NEW a \in Actors, Alone(a), Release(a) PROVE IInv'
<1>1. /\ pc[a] = "idle" /\ txns > 0 /\ txns' = txns - 1 /\ UnrefTo(ref - 1)
      /\ UNCHANGED <<dlg_del_delay, dlgvars, ping, tmcb, byes, jobs, hand, pc, inserted,
                     fails, msgs>>
  BY DEF Release, IInv, TypeOK
<1>2. where = "hashed" /\ inserted = {}
  BY <1>1, NoWindow, Alive DEF Arm
<1>3. TypeOK /\ Hands
  BY DEF IInv
<1>4. /\ ref \in Nat /\ byes \in Nat /\ txns \in Nat /\ jobs \in Nat /\ Cardinality(hand) \in Nat
      /\ Cardinality(inserted) = 0
      /\ txns' \in Nat /\ byes' = byes /\ jobs' = jobs /\ hand' = hand
  BY <1>1, <1>2, <1>3, Finite DEF TypeOK
<1>5. Counted
  BY <1>2, RefIsCounted DEF IInv
<1>6. HashRef' = HashRef /\ TmRef' = TmRef
  BY <1>1 DEF HashRef, TmRef, dlgvars
<1>7. ref - 1 = Cardinality(hand') + byes' + txns' + jobs' + HashRef' + TmRef' + TlRef + PingRef
  BY <1>1, <1>4, <1>5, <1>6, Ones DEF Counted
<1>8. ref - 1 \in Nat
  BY <1>4, <1>6, <1>7, Ones
<1>9. Hands'
  BY ZenonT(60), <1>1, <1>3 DEF Hands, HandAt, HeldAt, MayHold
<1>10. "idle" \notin Arm \cup OnExpiry \cup Ack \cup {"ondelete"}
  BY DEF Arm, OnExpiry, Ack
<1> QED BY <1>1, <1>2, <1>3, <1>4, <1>7, <1>8, <1>9, <1>10, UnrefStep DEF dlgvars, TypeOK

\* The unref_dlg calls of the handlers, and their ends.
LEMMA UnrefInv ==
    ASSUME IInv, ~Windows, NEW a \in Actors, Alone(a), Unref(a) PROVE IInv'
<1> DEFINE K == IF pc[a] \in {"bye_unref", "dual_unref"} THEN {"hash", "timer"}
                ELSE {"hash", "timer", "tm", "ctx", "expired", "ping", "job"}
           l == AfterUnref[pc[a]]
           n == ref - Cardinality(Given(a, K))
<1>1. /\ pc[a] \in {"reply_unref", "tdel_unref", "bye_unref", "dual_unref",
                    "create", "ctx", "leave", "end_unref"}
      /\ hand' = hand \ Given(a, K) /\ UnrefTo(n) /\ Goto(a, l)
      /\ UNCHANGED <<dlg_del_delay, dlgvars, ping, heldvars, inserted, fails, msgs>>
  BY Tables DEF Unref, Drop, Given
<1>2. where = "hashed" /\ inserted = {}
  BY <1>1, NoWindow, Alive DEF Arm
<1>3. TypeOK /\ Hands
  BY DEF IInv
<1>4. /\ l \in {"idle", "ctx", "dual"} /\ l \in Labels
      /\ l \notin Arm \cup OnExpiry \cup Ack \cup {"ondelete"}
      /\ l = "ctx" <=> pc[a] = "bye_unref"
      /\ l = "dual" <=> pc[a] = "dual_unref"
  BY <1>1, Tables DEF Arm, OnExpiry, Ack
<1>5. /\ pc' \in [Actors -> Labels] /\ pc'[a] = l
      /\ \A b \in Actors \ {a} : pc'[b] = pc[b]
  BY <1>1, <1>3, <1>4, MoveLocal
<1>6. /\ hand' \subseteq Actors \X Kinds
      /\ Cardinality(Given(a, K)) \in Nat
      /\ Cardinality(hand') \in Nat
      /\ Cardinality(hand') = Cardinality(hand) - Cardinality(Given(a, K))
      /\ \A b \in Actors, j \in Kinds :
           <<b, j>> \in hand' <=> <<b, j>> \in hand /\ ~(b = a /\ j \in K)
  <2>1. K \in SUBSET Kinds
    BY DEF Kinds
  <2> HIDE DEF K
  <2> QED BY ZenonT(60), <1>1, <1>3, <2>1, GiveBack
<1>7. /\ ref \in Nat /\ byes \in Nat /\ txns \in Nat /\ jobs \in Nat /\ Cardinality(hand) \in Nat
      /\ Cardinality(inserted) = 0
      /\ byes' = byes /\ txns' = txns /\ jobs' = jobs /\ tmcb' = tmcb
  BY ZenonT(60), <1>1, <1>2, <1>3, Finite DEF TypeOK, heldvars
<1>8. Counted
  BY <1>2, RefIsCounted DEF IInv
<1>9. HashRef' = HashRef /\ TmRef' = TmRef
  BY <1>1 DEF HashRef, TmRef, dlgvars, heldvars
<1>10. n = Cardinality(hand') + byes' + txns' + jobs' + HashRef' + TmRef' + TlRef + PingRef
  BY <1>6, <1>7, <1>8, <1>9, Ones DEF Counted
<1>11. n \in Nat
  BY <1>6, <1>7, <1>9, <1>10, Ones
<1>12. Local(a)
  BY <1>1, <1>5, <1>6 DEF Local
<1>13. HandAt(a)'
  <2>1. CASE l = "idle"
    <3>1. \A k \in Kinds : <<a, k>> \notin hand'
      BY ZenonT(60), <1>1, <1>4, <1>6, <2>1, Holding DEF MayHold, Kinds
    <3> QED BY <3>1 DEF HandAt, MayHold, Kinds
  <2>2. CASE l = "ctx"
    <3>1. \A k \in Kinds : <<a, k>> \in hand' => k \in {"ctx", "expired", "job", "ping"}
      BY ZenonT(60), <1>4, <1>6, <2>2, Holding DEF MayHold, Kinds
    <3>2. \A k \in {"ctx", "expired", "job", "ping"} : "ctx" \in MayHold(k)
      BY Tables DEF MayHold
    <3> QED BY <1>5, <2>2, <3>1, <3>2 DEF HandAt, Kinds, MayHold
  <2>3. CASE l = "dual"
    <3>1. \A k \in Kinds : <<a, k>> \in hand'
                             => k \in {"ctx", "expired", "job", "ping", "bye"}
      BY ZenonT(60), <1>4, <1>6, <2>3, Holding DEF MayHold, Kinds
    <3>2. \A k \in {"ctx", "expired", "job", "ping", "bye"} : "dual" \in MayHold(k)
      BY Tables DEF MayHold
    <3>3. <<a, "bye">> \in hand' => \A k \in Bases : <<a, k>> \in hand' => k = "bye"
      BY ZenonT(60), <1>6, Holding DEF Kinds, Bases
    <3> QED BY <1>5, <2>3, <3>1, <3>2, <3>3 DEF HandAt, MayHold
  <2> QED BY <1>4, <2>1, <2>2, <2>3
<1>14. HeldAt(a)'
  <2>1. CASE l = "idle"
    BY <1>1, <1>2, <1>5, <2>1 DEF HeldAt, OnExpiry
  <2>2. CASE l = "ctx"
    <3>1. <<a, "ctx">> \in hand'
      BY ZenonT(60), <1>4, <1>6, <2>2, Holding DEF HeldAt, Kinds
    <3> QED BY <1>1, <1>2, <1>5, <2>2, <3>1 DEF HeldAt, OnExpiry
  <2>3. CASE l = "dual"
    <3>1. PICK k \in Bases : <<a, k>> \in hand
      BY ZenonT(60), <1>4, <2>3, Holding DEF HeldAt
    <3>2. k \in Kinds /\ k \notin K
      BY <1>4, <2>3 DEF Kinds, Bases
    <3>3. <<a, k>> \in hand'
      BY <1>6, <3>1, <3>2
    <3> QED BY <1>1, <1>2, <1>5, <2>3, <3>3 DEF HeldAt, OnExpiry
  <2> QED BY <1>4, <2>1, <2>2, <2>3
<1>15. Hands'
  BY <1>3, <1>7, <1>12, <1>13, <1>14, LocalHands
<1> QED BY ZenonT(60), <1>1, <1>2, <1>3, <1>4, <1>5, <1>6, <1>7, <1>10, <1>11, <1>15, UnrefStep
         DEF dlgvars, TypeOK

\* The transaction of the INVITE is deleted.
LEMMA TdelInv ==
    ASSUME IInv, ~Windows, NEW a \in Workers, Alone(a), Tdel(a) PROVE IInv'
<1>0. a \in Actors /\ a # Timer
  BY ConstantsType DEF Actors
<1>1. /\ tmcb /\ pc[a] = "idle" /\ InTransaction = {} /\ tmcb' = FALSE
      /\ state' = (IF state \in Setup THEN "DELETED" ELSE state)
      /\ UNCHANGED <<dlg_del_delay, flags, ping, byes, txns, jobs, inserted, fails, msgs>>
  BY DEF Tdel, NextState
<1>2. where = "hashed" /\ inserted = {}
  BY <1>0, <1>1, NoWindow, Alive DEF Arm
<1>3. TypeOK /\ Hands /\ Links /\ Pings
  BY DEF IInv
<1>4. \A k \in Kinds : <<a, k>> \notin hand
  BY <1>0, <1>1, HoldsNothing
<1>5. /\ ref \in Nat /\ byes \in Nat /\ txns \in Nat /\ jobs \in Nat /\ Cardinality(hand) \in Nat
      /\ Cardinality(inserted) = 0 /\ TmRef = 1 /\ TmRef' = 0
      /\ byes' = byes /\ txns' = txns /\ jobs' = jobs
  BY <1>1, <1>2, <1>3, Finite DEF TypeOK, TmRef
<1>6. Counted
  BY <1>2, RefIsCounted DEF IInv
<1>7. "hash" \in Kinds /\ "tm" \in Kinds /\ "idle" \in Labels /\ "tdel_unref" \in Labels
      /\ {"idle", "tdel_unref"} \cap (Arm \cup OnExpiry \cup Ack \cup {"ondelete"}) = {}
  BY Tables DEF Kinds, Arm, OnExpiry, Ack
<1>8. CASE state = "DELETED"
  <2>1. /\ hand' = hand \cup {<<a, "tm">>} /\ Goto(a, "tdel_unref")
        /\ UNCHANGED <<where, ref, tl, del_tl>> /\ state' = state
    BY ZenonT(60), <1>1, <1>8 DEF Tdel, Setup
  <2>2. /\ pc' \in [Actors -> Labels] /\ pc'[a] = "tdel_unref"
        /\ \A b \in Actors \ {a} : pc'[b] = pc[b]
    BY <1>0, <1>3, <1>7, <2>1, MoveLocal
  <2>3. /\ hand' \subseteq Actors \X Kinds
        /\ Cardinality(hand') = Cardinality(hand) + 1
        /\ \A b \in Actors, j \in Kinds :
             <<b, j>> \in hand' <=> <<b, j>> \in hand \/ (b = a /\ j = "tm")
    BY ZenonT(60), <1>0, <1>3, <1>4, <1>7, <2>1, TakeOne
  <2>4. TypeOK'
    BY ZenonT(60), <1>1, <1>3, <2>1, <2>2, <2>3 DEF TypeOK
  <2>5. HashRef' = HashRef /\ TlRef' = TlRef /\ PingRef' = PingRef
    BY <1>1, <2>1 DEF HashRef, TlRef, PingRef
  <2>6. Counted'
    BY <1>1, <1>5, <1>6, <2>1, <2>3, <2>5, Ones DEF Counted
  <2>7. Local(a)
    BY <1>1, <2>2, <2>3 DEF Local
  <2>8. HandAt(a)'
    BY ZenonT(60), <1>4, <2>2, <2>3 DEF HandAt, MayHold, Kinds, Bases
  <2>9. HeldAt(a)'
    BY <1>1, <1>2, <2>1, <2>2 DEF HeldAt, OnExpiry
  <2>10. Hands'
    BY <1>0, <1>1, <1>3, <2>7, <2>8, <2>9, LocalHands
  <2>11. Links'
    BY <1>0, <1>1, <1>3, <1>7, <2>1, <2>2, LinksKept
  <2>12. Pings'
    BY <1>0, <1>1, <1>3, <1>7, <2>1, <2>2, PingsKept DEF Finished
  <2>13. RefExact'
    BY <2>6 DEF RefExact, Counted, One, HashRef, TmRef, TlRef, PingRef
  <2>14. NoneYet' /\ Over'
    BY <1>2, <2>1 DEF NoneYet, Over
  <2> QED BY <2>4, <2>10, <2>11, <2>12, <2>13, <2>14 DEF IInv
<1>9. CASE state # "DELETED"
  <2>1. /\ UnrefTo(ref - 1)
        /\ IF Ended THEN hand' = hand \cup {<<a, "hash">>} /\ Goto(a, "tdel_unref")
                    ELSE UNCHANGED <<hand, pc>>
    BY <1>9 DEF Tdel
  <2>2. Ended <=> state \in Setup
    BY <1>1, <1>9 DEF Ended
  <2>3. /\ pc' \in [Actors -> Labels] /\ \A b \in Actors \ {a} : pc'[b] = pc[b]
        /\ pc'[a] = IF Ended THEN "tdel_unref" ELSE "idle"
    BY <1>0, <1>1, <1>3, <1>7, <2>1, MoveLocal DEF TypeOK
  <2>4. /\ hand' \subseteq Actors \X Kinds /\ Cardinality(hand') \in Nat
        /\ Cardinality(hand') + HashRef' = Cardinality(hand) + HashRef
        /\ \A b \in Actors, j \in Kinds :
             <<b, j>> \in hand' <=> <<b, j>> \in hand \/ (b = a /\ j = "hash" /\ Ended)
    <3>1. CASE Ended
      <4>1. /\ hand' \subseteq Actors \X Kinds
            /\ Cardinality(hand') = Cardinality(hand) + 1
            /\ \A b \in Actors, j \in Kinds :
                 <<b, j>> \in hand' <=> <<b, j>> \in hand \/ (b = a /\ j = "hash")
        BY ZenonT(60), <1>0, <1>3, <1>4, <1>7, <2>1, <3>1, TakeOne
      <4>2. HashRef = 1 /\ HashRef' = 0
        BY <1>9, <3>1 DEF Ended, HashRef
      <4>3. Cardinality(hand') \in Nat /\ Cardinality(hand') + HashRef' = Cardinality(hand) + HashRef
        BY <1>5, <4>1, <4>2
      <4> QED BY <3>1, <4>1, <4>3
    <3>2. CASE ~Ended
      <4>1. HashRef' = HashRef
        BY <1>1, <2>2, <3>2 DEF HashRef
      <4> QED BY <1>3, <1>5, <2>1, <3>2, <4>1 DEF TypeOK
    <3> QED BY <3>1, <3>2
  <2>5. HashRef' \in Nat
    BY DEF HashRef
  <2>6. ref - 1 = Cardinality(hand') + byes' + txns' + jobs' + HashRef' + TmRef' + TlRef + PingRef
    BY <1>5, <1>6, <2>4, <2>5, Ones DEF Counted
  <2>7. ref - 1 \in Nat
    BY <1>5, <2>4, <2>5, <2>6, Ones
  <2>8. Local(a)
    BY <1>1, <2>3, <2>4 DEF Local
  <2>9. HandAt(a)'
    BY ZenonT(60), <1>4, <2>3, <2>4 DEF HandAt, MayHold, Kinds, Bases
  <2>10. HeldAt(a)'
    BY ZenonT(60), <1>0, <1>1, <1>2, <2>3, <2>4 DEF HeldAt, OnExpiry, Kinds
  <2>11. Hands'
    BY <1>0, <1>1, <1>3, <2>8, <2>9, <2>10, LocalHands
  <2>12. /\ state' \in Setup \cup Confirmed \cup {"DELETED"} /\ (state' \in Setup => state \in Setup)
         /\ state \notin Setup => state' = state
    BY <1>1, <1>3 DEF TypeOK, Setup
  <2> QED BY ZenonT(60), <1>0, <1>1, <1>2, <1>5, <1>7, <2>1, <2>3, <2>4, <2>6, <2>7, <2>11, <2>12, UnrefStep
<1> QED BY <1>8, <1>9

\* The delete timer has expired.
LEMMA ExpireDelInv ==
    ASSUME IInv, ~Windows, Alone(Timer), ExpireDel PROVE IInv'
<1>0. Timer \in Actors
  BY DEF Actors
<1>1. /\ pc[Timer] = "idle" /\ dlg_del_delay /\ del_tl = "in" /\ del_tl' = "gone"
      /\ Goto(Timer, "ondelete")
      /\ UNCHANGED <<dlg_del_delay, where, dlgvars, ref, tl, ping, heldvars, hand,
                     inserted, fails, msgs>>
  BY DEF ExpireDel
<1>2. TypeOK /\ Links /\ Pings
  BY DEF IInv
<1>3. where = "hashed" /\ inserted = {}
  BY <1>0, <1>1, NoWindow, Alive DEF Arm
<1>4. /\ pc' \in [Actors -> Labels] /\ pc'[Timer] = "ondelete"
      /\ \A b \in Actors \ {Timer} : pc'[b] = pc[b]
  BY <1>0, <1>1, <1>2, Tables, MoveLocal
<1>5. TypeOK'
  BY <1>1, <1>2, <1>4 DEF TypeOK, dlgvars, heldvars
<1>6. Counted
  BY <1>3, RefIsCounted DEF IInv
<1>7. Counted'
  BY <1>1, <1>6 DEF Counted, HashRef, TmRef, TlRef, PingRef, dlgvars, heldvars
<1>8. Local(Timer)
  BY <1>1, <1>4 DEF Local
<1>9. HandAt(Timer)'
  BY ZenonT(60), <1>0, <1>1, HoldsNothing DEF HandAt, Kinds, MayHold
<1>10. HeldAt(Timer)'
  BY <1>1, <1>3, <1>4 DEF HeldAt, OnExpiry
<1>11. Links'
  BY <1>0, <1>1, <1>2, <1>4 DEF Links, dlgvars, OnExpiry, Arm
<1>12. Pings'
  BY <1>0, <1>1, <1>2, <1>4, PingsKept DEF dlgvars, Ack, Finished
<1> QED BY <1>0, <1>1, <1>3, <1>5, <1>7, <1>8, <1>9, <1>10, <1>11, <1>12, StepOf DEF heldvars

\* dlg_ondelete destroys the dialog unless it was looked up in the meantime.
LEMMA OnDeleteInv ==
    ASSUME IInv, ~Windows, Alone(Timer), OnDelete PROVE IInv'
<1>0. Timer \in Actors
  BY DEF Actors
<1>1. /\ pc[Timer] = "ondelete" /\ Goto(Timer, "idle")
      /\ UNCHANGED <<dlg_del_delay, dlgvars, ref, del_tl, ping, heldvars, hand,
                     inserted, fails, msgs>>
  BY DEF OnDelete
<1>2. TypeOK /\ Links /\ Pings /\ Hands /\ RefExact
  BY DEF IInv
<1>3. where = "hashed" /\ inserted = {}
  BY <1>0, <1>1, NoWindow, Alive DEF Arm
<1>4. /\ pc' \in [Actors -> Labels] /\ pc'[Timer] = "idle"
      /\ \A b \in Actors \ {Timer} : pc'[b] = pc[b]
  BY <1>0, <1>1, <1>2, Tables, MoveLocal
<1>5. ref = 0 => tl # "in"
  BY <1>2, <1>3, NothingLeft
<1>6. /\ tl' = tl
      /\ where' = "hashed" \/ (where' = "destroyed" /\ ref = 0)
  BY <1>2, <1>3, <1>5 DEF OnDelete, TypeOK
<1>7. TypeOK'
  BY <1>1, <1>2, <1>4, <1>6 DEF TypeOK, dlgvars, heldvars
<1>8. RefExact'
  BY <1>1, <1>2, <1>3, <1>6 DEF RefExact, One, dlgvars, heldvars
<1>9. Local(Timer)
  BY <1>1, <1>4 DEF Local
<1>10. HandAt(Timer)'
  BY ZenonT(60), <1>0, <1>1, Holding DEF HandAt, Kinds, MayHold
<1>11. HeldAt(Timer)'
  BY <1>1, <1>3, <1>4 DEF HeldAt, OnExpiry
<1>12. Hands'
  BY <1>0, <1>1, <1>2, <1>9, <1>10, <1>11, LocalHands DEF heldvars
<1>13. Links'
  BY <1>0, <1>1, <1>2, <1>4, <1>6, LinksKept DEF dlgvars, OnExpiry, Arm
<1>14. Pings'
  BY <1>0, <1>1, <1>2, <1>4, PingsKept DEF dlgvars, Ack, Finished
<1>15. NoneYet' /\ Over'
  BY <1>1, <1>2, <1>3, <1>4, <1>6 DEF NoneYet, Over, Links
<1> QED BY <1>7, <1>8, <1>12, <1>13, <1>14, <1>15 DEF IInv

----------------------------------------------------------------------------
(***************************************************************************)
(* The steps that call next_state_dlg, and the creation.                   *)
(***************************************************************************)
LEMMA StateInv ==
    ASSUME IInv, NEW a \in Actors, NEW leg \in BOOLEAN,
           NEW event \in {"RPL1xx", "RPL2xx", "RPL3xx", "REQBYE", "REQACK", "REQ"},
           NextStateDlg(a, event, leg), where = "hashed", <<a, "hash">> \notin hand,
           NEW l \in Labels, Goto(a, l),
           UNCHANGED <<dlg_del_delay, where, timervars, heldvars, inserted>>,
           fails' \in [Actors -> Nat], msgs' \in Nat,
           HandAt(a)', HeldAt(a)', l \notin OnExpiry \ Arm, l # "ondelete",
           a = Timer => l \notin Arm, l \in Arm => state' \notin Setup,
           l \in Ack => state' = "CONFIRMED" /\ state # "CONFIRMED"
    PROVE  IInv'
<1>1. TypeOK /\ Links /\ Pings
  BY DEF IInv
<1>2. /\ pc' \in [Actors -> Labels] /\ pc'[a] = l
      /\ \A b \in Actors \ {a} : pc'[b] = pc[b]
  BY <1>1, MoveLocal
<1>3. /\ state' \in Setup \cup Confirmed \cup {"DELETED"}
      /\ flags \subseteq flags'
      /\ flags' \subseteq {"BYEONTIMEOUT", "END_ON_RACE_CONDITION", "PING",
                        "rt_on_timeout", "del_delay", "HASBYE", "WAS_CANCELLED"}
      /\ state' \in Setup => state \in Setup
      /\ state' = "CONFIRMED" => state \in Confirmed
  BY <1>1, StateStep
<1>4. state = "CONFIRMED" \/ Finished => state' = "CONFIRMED" \/ Finished'
  BY <1>1, StateStep
<1>5. \/ ref' = ref /\ hand' = hand /\ HashRef' = HashRef
      \/ ref' = ref /\ hand' = hand \cup {<<a, "hash">>} /\ HashRef = 1 /\ HashRef' = 0
      \/ ref' = ref + 1 /\ hand' = hand /\ HashRef = 0 /\ HashRef' = 1
  BY <1>1, StateStep
<1>6. /\ ref \in Nat /\ byes \in Nat /\ txns \in Nat /\ jobs \in Nat /\ Cardinality(hand) \in Nat
      /\ Cardinality(inserted) \in Nat /\ inserted' = inserted
      /\ byes' = byes /\ txns' = txns /\ jobs' = jobs
  BY <1>1, Finite DEF TypeOK, heldvars
<1>7. /\ hand' \subseteq Actors \X Kinds /\ ref' \in Nat /\ Cardinality(hand') \in Nat
      /\ ref' + Cardinality(hand) + HashRef = ref + Cardinality(hand') + HashRef'
      /\ \A b \in Actors \ {a}, j \in Kinds : <<b, j>> \in hand' <=> <<b, j>> \in hand
  <2>1. CASE hand' = hand
    BY <1>1, <1>5, <1>6, <2>1 DEF TypeOK, HashRef
  <2>2. CASE ref' = ref /\ hand' = hand \cup {<<a, "hash">>} /\ HashRef = 1 /\ HashRef' = 0
    <3>1. "hash" \in Kinds
      BY DEF Kinds
    <3>2. /\ hand' \subseteq Actors \X Kinds
          /\ Cardinality(hand') = Cardinality(hand) + 1
          /\ \A b \in Actors, j \in Kinds :
               <<b, j>> \in hand' <=> <<b, j>> \in hand \/ (b = a /\ j = "hash")
      BY ZenonT(60), <1>1, <2>2, <3>1, TakeOne
    <3>3. /\ ref' \in Nat /\ Cardinality(hand') \in Nat
          /\ ref' + Cardinality(hand) + HashRef = ref + Cardinality(hand') + HashRef'
      BY <1>6, <2>2, <3>2
    <3> QED BY <3>2, <3>3
  <2> QED BY <1>5, <2>1, <2>2
<1>8. TypeOK'
  BY <1>1, <1>2, <1>3, <1>7 DEF TypeOK, timervars, heldvars
<1>9. Counted'
  <2>1. Counted
    BY RefIsCounted DEF IInv
  <2>2. TlRef' = TlRef /\ TmRef' = TmRef /\ PingRef' = PingRef
    BY DEF TlRef, TmRef, PingRef, timervars, heldvars
  <2>3. HashRef' \in Nat
    BY DEF HashRef
  <2> QED BY <1>6, <1>7, <2>1, <2>2, <2>3, Ones DEF Counted
<1>10. Local(a)
  BY <1>2, <1>7 DEF Local
<1>11. Links'
  BY <1>1, <1>2, <1>3, LinksKept DEF timervars, OnExpiry
<1>12. Pings'
  <2>1. CASE l \notin Ack
    BY <1>1, <1>2, <1>4, <2>1, PingsKept DEF timervars
  <2>2. CASE l \in Ack
    <3>1. state = "CONFIRMED_NA" /\ state' = "CONFIRMED"
      BY <1>3, <2>2 DEF Confirmed
    <3>2. ping = "out" /\ \A b \in Actors : pc[b] \notin Ack
      BY <1>1, <3>1 DEF Pings, Finished
    <3> QED BY <1>2, <3>1, <3>2 DEF Pings, timervars
  <2> QED BY <2>1, <2>2
<1> QED BY <1>8, <1>9, <1>10, <1>11, <1>12, StepOf DEF heldvars

\* dlg_onreply.
LEMMA ReplyInv ==
    ASSUME IInv, ~Windows, NEW a \in Workers, Alone(a),
           NEW event \in {"RPL1xx", "RPL2xx", "RPL3xx"}, Reply(a, event)
    PROVE  IInv'
<1> DEFINE l == IF state \notin Confirmed /\ state' = "CONFIRMED_NA" THEN "reply_timer"
                ELSE IF Ended THEN "reply_unref" ELSE "idle"
<1>0. a \in Actors /\ a # Timer
  BY ConstantsType DEF Actors
<1>1. /\ tmcb /\ pc[a] = "idle" /\ msgs > 0 /\ msgs' = msgs - 1
      /\ NextStateDlg(a, event, FALSE) /\ Goto(a, l)
      /\ UNCHANGED <<dlg_del_delay, where, timervars, heldvars, inserted, fails>>
  BY ZenonT(60) DEF Reply, Arrives
<1>2. TypeOK
  BY DEF IInv
<1>3. where = "hashed" /\ inserted = {} /\ \A k \in Kinds : <<a, k>> \notin hand
  BY <1>0, <1>1, NoWindow, Alive, HoldsNothing DEF Arm
<1>4. l \in Labels /\ l \in {"reply_timer", "reply_unref", "idle"}
  BY Tables DEF Arm
<1>5. pc'[a] = l
  BY <1>0, <1>1, <1>2, <1>4, MoveLocal
<1>6. (hand' = hand /\ ~Ended) \/ (hand' = hand \cup {<<a, "hash">>} /\ Ended)
  BY ZenonT(60), <1>0, <1>1, <1>2, StateStep
<1>7. Ended => l = "reply_unref"
  BY DEF Ended
<1>8. HandAt(a)'
  BY <1>3, <1>5, <1>6, <1>7 DEF HandAt, MayHold, Kinds, Bases
<1>9. HeldAt(a)'
  BY ZenonT(60), <1>1, <1>3, <1>5, <1>6 DEF HeldAt, OnExpiry, Arm, heldvars
<1>10. fails' \in [Actors -> Nat] /\ msgs' \in Nat /\ <<a, "hash">> \notin hand
  BY <1>1, <1>2, <1>3 DEF TypeOK, Kinds
<1>11. /\ l \notin OnExpiry \ Arm /\ l # "ondelete" /\ l \notin Ack
       /\ l \in Arm => state' \notin Setup
  BY DEF OnExpiry, Arm, Ack, Setup
<1> HIDE DEF l
<1> QED BY ZenonT(60), <1>0, <1>1, <1>3, <1>4, <1>8, <1>9, <1>10, <1>11, StateInv

\* dlg_onroute.
LEMMA OnRouteInv ==
    ASSUME IInv, ~Windows, NEW a \in Workers, Alone(a), OnRoute(a) PROVE IInv'
<1>0. a \in Actors /\ a # Timer
  BY ConstantsType DEF Actors
<1>1. PICK event \in {"REQBYE", "REQACK", "REQ"}, leg \in BOOLEAN :
         /\ NextStateDlg(a, event, leg)
         /\ IF Ended THEN Goto(a, "bye_timer")
            ELSE IF event = "REQBYE" \/ state' \notin Confirmed THEN Goto(a, "ctx")
            ELSE IF state' # state
            THEN \E label \in {"ack_timer", "ack_ping"} : Goto(a, label)
            ELSE \E label \in {"seq_timer", "ctx"} : Goto(a, label)
  BY DEF OnRoute
<1>2. /\ pc[a] = "onroute"
      /\ UNCHANGED <<dlg_del_delay, where, timervars, heldvars, inserted, fails, msgs>>
  BY DEF OnRoute
<1>3. TypeOK
  BY DEF IInv
<1>4. where = "hashed" /\ inserted = {}
  BY <1>0, <1>2, NoWindow, Alive DEF Arm
<1>5. PICK l \in {"bye_timer", "ctx", "ack_timer", "ack_ping", "seq_timer"} :
        /\ Goto(a, l) /\ (Ended => l = "bye_timer")
        /\ l \in Ack \cup Arm => state' \in Confirmed
        /\ l \in Ack => state' # state
  BY <1>1 DEF Ack, Arm
<1>6. /\ state' = "CONFIRMED_NA" /\ state # "CONFIRMED_NA" => event = "RPL2xx"
      /\ (hand' = hand /\ ~Ended) \/ (hand' = hand \cup {<<a, "hash">>} /\ Ended)
  BY <1>0, <1>1, <1>3, StateStep
<1>7. pc'[a] = l /\ l \in Labels
  BY <1>0, <1>3, <1>5, Tables, MoveLocal DEF Arm
<1>8. /\ \A k \in Kinds : <<a, k>> \in hand => k \in {"ctx", "expired", "job", "ping"}
      /\ <<a, "ctx">> \in hand
  BY ZenonT(60), <1>0, <1>2, Holding DEF MayHold, Kinds, HeldAt
<1>9. HandAt(a)'
  <2>1. \A k \in {"ctx", "expired", "job", "ping"} : l \in MayHold(k)
    BY <1>7 DEF MayHold
  <2>2. Ended => l \in MayHold("hash")
    BY <1>5 DEF MayHold
  <2>3. \A k \in Kinds : <<a, k>> \in hand' => <<a, k>> \in hand \/ (k = "hash" /\ Ended)
    BY <1>6
  <2>4. <<a, "bye">> \notin hand'
    BY <1>8, <2>3 DEF Kinds
  <2> QED BY <1>7, <1>8, <2>1, <2>2, <2>3, <2>4 DEF HandAt, MayHold
<1>10. HeldAt(a)'
  BY <1>2, <1>4, <1>6, <1>7, <1>8 DEF HeldAt, OnExpiry, Arm
<1>11. fails' \in [Actors -> Nat] /\ msgs' \in Nat /\ <<a, "hash">> \notin hand
  BY <1>2, <1>3, <1>8 DEF TypeOK, Kinds
<1>12. /\ l \notin OnExpiry \ Arm /\ l # "ondelete"
       /\ l \in Arm => state' \notin Setup
       /\ l \in Ack => state' = "CONFIRMED" /\ state # "CONFIRMED"
  BY <1>1, <1>5, <1>6 DEF OnExpiry, Arm, Ack, Setup, Confirmed
<1> QED BY ZenonT(60), <1>0, <1>1, <1>2, <1>4, <1>5, <1>7, <1>9, <1>10, <1>11, <1>12, StateInv

\* dual_bye_event.
LEMMA DualByeEventInv ==
    ASSUME IInv, ~Windows, NEW a \in Actors, Alone(a), DualByeEvent(a) PROVE IInv'
<1> DEFINE l == IF Ended THEN "dual_timer" ELSE "dual"
<1>1. /\ pc[a] = "dual" /\ fails[a] > 0 /\ fails' = [fails EXCEPT ![a] = @ - 1]
      /\ NextStateDlg(a, "REQBYE", state \notin Setup) /\ Goto(a, l)
      /\ UNCHANGED <<dlg_del_delay, where, timervars, heldvars, inserted, msgs>>
  BY DEF DualByeEvent
<1>2. TypeOK
  BY DEF IInv
<1>3. where = "hashed" /\ inserted = {}
  BY <1>1, NoWindow, Alive DEF Arm
<1>4. l \in Labels /\ l \in {"dual_timer", "dual"} /\ (Ended => l = "dual_timer")
  BY Tables
<1>5. pc'[a] = l
  BY <1>1, <1>2, <1>4, MoveLocal
<1>6. (hand' = hand /\ ~Ended) \/ (hand' = hand \cup {<<a, "hash">>} /\ Ended)
  BY ZenonT(60), <1>1, <1>2, StateStep
<1>7. /\ \A k \in Kinds : <<a, k>> \in hand => k \in {"ctx", "expired", "job", "ping", "bye"}
      /\ \E k \in Bases : <<a, k>> \in hand
      /\ <<a, "bye">> \in hand => \A k \in Bases : <<a, k>> \in hand => k = "bye"
  BY ZenonT(60), <1>1, Holding DEF MayHold, Kinds, HeldAt
<1>8. HandAt(a)'
  <2>1. \A k \in {"ctx", "expired", "job", "ping", "bye"} : l \in MayHold(k)
    BY Tables DEF MayHold
  <2>2. Ended => l \in MayHold("hash")
    BY <1>4 DEF MayHold
  <2>3. \A k \in Kinds : <<a, k>> \in hand' => <<a, k>> \in hand \/ (k = "hash" /\ Ended)
    BY <1>6
  <2>4. <<a, "bye">> \in hand' => \A k \in Bases : <<a, k>> \in hand' => k = "bye"
    BY <1>7, <2>3 DEF Bases, Kinds
  <2> HIDE DEF l
  <2> QED BY <1>5, <1>7, <2>1, <2>2, <2>3, <2>4 DEF HandAt, MayHold
<1>9. HeldAt(a)'
  <2>1. \E k \in Bases : <<a, k>> \in hand'
    BY <1>6, <1>7
  <2> QED BY ZenonT(60), <1>1, <1>3, <1>4, <1>5, <2>1 DEF HeldAt, OnExpiry, Arm
<1>10. fails' \in [Actors -> Nat] /\ msgs' \in Nat /\ <<a, "hash">> \notin hand
  BY <1>1, <1>2, <1>7 DEF TypeOK, Kinds
<1>11. l \notin OnExpiry /\ l \notin Arm /\ l # "ondelete" /\ l \notin Ack
  BY DEF OnExpiry, Arm, Ack
<1> HIDE DEF l
<1> QED BY ZenonT(60), <1>1, <1>3, <1>4, <1>8, <1>9, <1>10, <1>11, StateInv

\* The rest of dlg_ontimeout.
LEMMA OnTimeoutInv ==
    ASSUME IInv, ~Windows, Alone(Timer), OnTimeout PROVE IInv'
<1>0. Timer \in Actors
  BY DEF Actors
<1>1. /\ pc[Timer] \in {"timeout", "expire"}
      /\ UNCHANGED <<dlg_del_delay, where, timervars, heldvars, inserted, fails, msgs>>
  BY DEF OnTimeout
<1>2. TypeOK
  BY DEF IInv
<1>3. where = "hashed" /\ inserted = {}
  BY <1>0, <1>1, NoWindow, Alive DEF Arm
<1>4. fails' \in [Actors -> Nat] /\ msgs' \in Nat
  BY <1>1, <1>2 DEF TypeOK
<1>5. CASE Goto(Timer, "end") /\ UNCHANGED <<dlgvars, ref, hand>>
  <2>1. <<pc[Timer], "end">> \in Follows /\ "end" \notin Arm
    BY <1>1 DEF Follows, Arm
  <2> QED BY ZenonT(60), <1>0, <1>1, <1>3, <1>4, <1>5, <2>1, FollowStep
<1>6. CASE NextStateDlg(Timer, "REQBYE", state \notin Setup) /\ Goto(Timer, "end_unref")
  <2>1. "end_unref" \in Labels
    BY Tables
  <2>2. pc'[Timer] = "end_unref"
    BY <1>0, <1>2, <1>6, <2>1, MoveLocal
  <2>3. hand' = hand \/ hand' = hand \cup {<<Timer, "hash">>}
    BY ZenonT(60), <1>0, <1>2, <1>6, StateStep
  <2>4. /\ \A k \in Kinds : <<Timer, k>> \in hand => k \in {"ctx", "expired", "job", "ping"}
        /\ <<Timer, "expired">> \in hand
    BY ZenonT(60), <1>0, <1>1, Holding DEF MayHold, Kinds, HeldAt, OnExpiry
  <2>5. HandAt(Timer)'
    <3>1. \A k \in {"ctx", "expired", "job", "ping", "hash"} : "end_unref" \in MayHold(k)
      BY Tables DEF MayHold
    <3>2. \A k \in Kinds : <<Timer, k>> \in hand' => k \in {"ctx", "expired", "job", "ping", "hash"}
      BY <2>3, <2>4
    <3> QED BY <2>2, <3>1, <3>2 DEF HandAt, MayHold, Kinds
  <2>6. HeldAt(Timer)'
    BY <1>1, <1>3, <2>2, <2>3, <2>4 DEF HeldAt, OnExpiry, Bases
  <2>7. <<Timer, "hash">> \notin hand
    BY <2>4 DEF Kinds
  <2>8. /\ "end_unref" \notin OnExpiry /\ "end_unref" \notin Arm /\ "end_unref" # "ondelete"
        /\ "end_unref" \notin Ack
    BY DEF OnExpiry, Arm, Ack
  <2> QED BY ZenonT(60), <1>0, <1>1, <1>3, <1>4, <1>6, <2>1, <2>5, <2>6, <2>7, <2>8, StateInv
<1> QED BY <1>5, <1>6 DEF OnTimeout

\* dlg_create_dialog.
LEMMA CreateInv ==
    ASSUME IInv, ~Windows, NEW a \in Workers, Alone(a), Create(a) PROVE IInv'
<1>0. a \in Actors /\ a # Timer
  BY ConstantsType DEF Actors
<1>1. /\ where = "none" /\ where' = "hashed" /\ ref' = 3 /\ tmcb' = TRUE /\ hand' = {<<a, "ctx">>}
      /\ flags' \in FlagSets /\ Goto(a, "create")
      /\ UNCHANGED <<dlg_del_delay, state, timervars, byes, txns, jobs, inserted, fails, msgs>>
  BY DEF Create
<1>2. TypeOK
  BY DEF IInv
<1>3. /\ state = "UNCONFIRMED" /\ tl = "out" /\ del_tl = "out" /\ ping = "out"
      /\ ~tmcb /\ byes = 0 /\ txns = 0 /\ jobs = 0 /\ hand = {} /\ inserted = {}
      /\ \A b \in Actors : pc[b] = "idle"
  BY <1>1 DEF IInv, NoneYet
<1>4. /\ pc' \in [Actors -> Labels] /\ pc'[a] = "create"
      /\ \A b \in Actors \ {a} : pc'[b] = "idle"
  BY <1>0, <1>1, <1>2, <1>3, Tables, MoveLocal
<1>5. TypeOK'
  <2>1. flags' \subseteq {"BYEONTIMEOUT", "END_ON_RACE_CONDITION", "PING", "rt_on_timeout",
                          "del_delay", "HASBYE", "WAS_CANCELLED"}
    BY <1>1, ConstantsType
  <2>2. hand' \subseteq Actors \X Kinds
    BY <1>0, <1>1 DEF Kinds
  <2> QED BY <1>1, <1>2, <1>4, <2>1, <2>2 DEF TypeOK, timervars
<1>6. Counted'
  <2>1. Cardinality(hand') = 1 /\ Cardinality(inserted') = 0
    BY ZenonT(60), <1>1, <1>3, FS_EmptySet, FS_Singleton
  <2>2. HashRef' = 1 /\ TmRef' = 1 /\ TlRef' = 0 /\ PingRef' = 0
    BY <1>1, <1>3 DEF HashRef, TmRef, TlRef, PingRef, timervars
  <2> QED BY <1>1, <1>3, <2>1, <2>2 DEF Counted
<1>7. RefExact'
  BY <1>6 DEF RefExact, Counted, One, HashRef, TmRef, TlRef, PingRef
<1>8. Hands'
  <2> SUFFICES ASSUME NEW b \in Actors PROVE HandAt(b)' /\ HeldAt(b)'
    BY DEF Hands
  <2>1. \A k \in Kinds : <<b, k>> \in hand' <=> b = a /\ k = "ctx"
    BY <1>1
  <2>2. "create" \in MayHold("ctx")
    BY Tables DEF MayHold
  <2>3. HandAt(b)'
    BY <1>4, <2>1, <2>2 DEF HandAt, MayHold, Kinds, Bases
  <2>4. /\ b \notin inserted'
        /\ \/ pc'[b] = "create" /\ <<b, "ctx">> \in hand' /\ b \in Workers
           \/ pc'[b] = "idle"
    BY <1>0, <1>1, <1>3, <1>4
  <2>5. HeldAt(b)'
    BY <1>1, <2>4 DEF HeldAt, OnExpiry
  <2> QED BY <2>3, <2>5
<1>9. NoneYet' /\ Over'
  BY <1>1 DEF NoneYet, Over
<1>10. Links'
  BY <1>0, <1>1, <1>3, <1>4 DEF Links, timervars, Actors, OnExpiry, Arm
<1>11. Pings'
  BY <1>0, <1>1, <1>3, <1>4 DEF Pings, timervars, Ack
<1> QED BY <1>5, <1>7, <1>8, <1>9, <1>10, <1>11 DEF IInv

\* No dialog exists yet.
LEMMA InitInv == ASSUME Init PROVE IInv
<1>1. TypeOK
  BY ZenonT(60), ConstantsType, Tables DEF Init, TypeOK, Setup
<1>2. RefExact /\ NoneYet /\ Over
  BY DEF Init, RefExact, NoneYet, Over
<1>3. Timer \in Actors
  BY DEF Actors
<1>4. Hands
  BY DEF Init, Hands, HandAt, HeldAt, OnExpiry, MayHold
<1>5. Links /\ Pings
  BY <1>3 DEF Init, Links, Pings, OnExpiry, Arm, Ack
<1> QED BY <1>1, <1>2, <1>4, <1>5 DEF IInv

\* A step that changes nothing keeps the invariant.
LEMMA StutterInv == ASSUME IInv, UNCHANGED vars PROVE IInv'
<1> USE DEF vars, dlgvars, timervars, heldvars
<1>1. TypeOK'
  BY DEF IInv, TypeOK
<1>2. RefExact'
  BY DEF IInv, RefExact, One
<1>3. Hands'
  BY ZenonT(60) DEF IInv, Hands, HandAt, HeldAt, MayHold
<1>4. NoneYet' /\ Over'
  BY DEF IInv, NoneYet, Over
<1>5. Links' /\ Pings'
  BY DEF IInv, Links, Pings, Finished
<1> QED BY <1>1, <1>2, <1>3, <1>4, <1>5 DEF IInv

\* Every step keeps the invariant.
LEMMA NextInv == ASSUME ~Windows, IInv, [Next]_vars PROVE IInv'
<1>1. ASSUME NEW a \in Actors, Alone(a), Step(a) PROVE IInv'
  BY <1>1, ArmTimerInv, RefTimerInv, RemoveTimerInv, UnrefInv, SetTimeoutInv, EndInv, SendByeInv,
     DualByeEventInv, DualDoneInv DEF Step
<1>2. ASSUME NEW w \in Workers, Alone(w), WorkerStep(w) PROVE IInv'
  <2>1. w \in Actors
    BY DEF Actors
  <2> QED BY <1>1, <1>2, <2>1, CancelCtxInv, OnRouteInv, InsertPingInv, BindInv DEF WorkerStep
<1>3. ASSUME NEW w \in Workers, Alone(w), Arrival(w) \/ Completion(w) PROVE IInv'
  <2>1. w \in Actors
    BY DEF Actors
  <2>2. CASE Arrival(w)
    BY <1>3, <2>1, <2>2, CreateInv, CancelledInv, LookupInv, ReplyInv DEF Arrival
  <2>3. CASE Completion(w)
    BY <1>3, <2>1, <2>3, TdelInv, ReleaseInv, EndRpcInv, ByeRepliedInv DEF Completion
  <2> QED BY <1>3, <2>2, <2>3
<1>4. ASSUME Alone(Timer), TimerStep \/ TimerPass \/ SendPing \/ PingReplied PROVE IInv'
  <2>1. Timer \in Actors
    BY DEF Actors
  <2>2. CASE TimerStep
    BY <1>1, <1>4, <2>1, <2>2, RelinkInv, RouteInv, OnTimeoutInv, OnDeleteInv DEF TimerStep
  <2>3. CASE TimerPass
    BY <1>4, <2>3, ExpireInv, ExpireDelInv, PingOverInv DEF TimerPass
  <2> QED BY <1>4, <2>2, <2>3, PingInv
<1> QED BY <1>2, <1>3, <1>4, StutterInv DEF Next, Idle

\* A dialog is destroyed only when nobody uses it.
LEMMA InvNoUse == ASSUME IInv PROVE NoUseAfterFree
<1> SUFFICES ASSUME where = "destroyed"
             PROVE  /\ \A a \in Actors : pc[a] = "idle"
                    /\ ~tmcb /\ byes + txns + jobs = 0
                    /\ tl # "in" /\ del_tl # "in" /\ ping = "out"
  BY DEF NoUseAfterFree
<1>1. \A a \in Actors : pc[a] = "idle"
  BY Alive
<1>2. /\ ~tmcb /\ byes = 0 /\ txns = 0 /\ jobs = 0
      /\ tl # "in" /\ del_tl # "in" /\ ping = "out"
  BY NothingLeft DEF IInv, Over
<1> QED BY <1>1, <1>2

----------------------------------------------------------------------------
(***************************************************************************)
(* The end of an answered dialog stays in sight.                           *)
(***************************************************************************)
\* A step of a after which somebody still sees to the end.
KeepsSight(a) ==
    /\ inserted' # {} => tl' = "in"
    /\ \A b \in Actors \ {a} : pc'[b] = pc[b] /\ fails'[b] = fails[b]
    /\ Finished => Finished'
    /\ pc'[a] \in {"bye_timer", "dual_timer"} => Finished'
    /\ where' = "hashed" /\ state' \in Confirmed =>
         \/ SeesTo(a)'
         \/ /\ where = "hashed" /\ state \in Confirmed
            /\ tl = "in" => tl' = "in"
            /\ tl # "gone" => tl' # "gone"
            /\ byes + jobs > 0 => byes' + jobs' > 0
            /\ SeesTo(a) => tl' = "in" \/ byes' + jobs' > 0

\* A step that neither answers the dialog nor takes its timer keeps the end in sight.
LEMMA SightKept ==
    ASSUME EndInSight, NEW a \in Actors, KeepsSight(a)
    PROVE  EndInSight'
<1>1. inserted' # {} => tl' = "in"
  BY DEF KeepsSight
<1>2. \A b \in Actors : pc'[b] \in {"bye_timer", "dual_timer"} => Finished'
  BY DEF KeepsSight, EndInSight
<1>3. ASSUME where' = "hashed", state' \in Confirmed
      PROVE  tl' = "in" \/ byes' + jobs' > 0 \/ \E b \in Actors : SeesTo(b)'
  <2>1. CASE SeesTo(a)'
    BY <2>1
  <2>2. CASE ~SeesTo(a)'
    <3>1. /\ where = "hashed" /\ state \in Confirmed
          /\ tl = "in" => tl' = "in"
          /\ tl # "gone" => tl' # "gone"
          /\ byes + jobs > 0 => byes' + jobs' > 0
          /\ SeesTo(a) => tl' = "in" \/ byes' + jobs' > 0
      BY <1>3, <2>2 DEF KeepsSight
    <3>2. tl = "in" \/ byes + jobs > 0 \/ \E b \in Actors : SeesTo(b)
      BY <3>1 DEF EndInSight
    <3>3. ASSUME NEW b \in Actors \ {a}, SeesTo(b) PROVE SeesTo(b)'
      BY <3>1, <3>3 DEF KeepsSight, SeesTo
    <3> QED BY <3>1, <3>2, <3>3
  <2> QED BY <2>1, <2>2
<1> QED BY <1>1, <1>2, <1>3 DEF EndInSight

\* Nobody else runs while the new timer is not yet counted.
LEMMA InsertedElse ==
    ASSUME IInv, ~Windows, NEW a \in Actors, Alone(a), a \notin inserted
    PROVE  inserted = {}
BY DEF Alone, IInv, TypeOK

\* The steps of a handler.
LEMMA StepSight ==
    ASSUME IInv, EndInSight, ~Windows, NEW a \in Actors, Alone(a), Step(a)
    PROVE  EndInSight'
<1>0. /\ TypeOK /\ pc[a] \in Labels /\ fails[a] \in Nat
      /\ byes \in Nat /\ jobs \in Nat
  BY DEF IInv, TypeOK
<1>1. ASSUME NEW l, Goto(a, l) PROVE pc'[a] = l /\ \A b \in Actors \ {a} : pc'[b] = pc[b]
  BY <1>0, <1>1 DEF Goto, TypeOK
<1>2. pc[a] \notin Arm => inserted = {}
  BY NoWindow
<1>3. CASE ArmTimer(a)
  <2>1. /\ pc[a] \in Arm /\ inserted = {}
        /\ UNCHANGED <<where, state, flags, byes, jobs, fails>>
    BY <1>3, Tables, InsertedElse DEF ArmTimer, dlgvars, heldvars
  <2>2. CASE tl = "out"
    BY ZenonT(60), <1>3, <2>1, <2>2, SightKept DEF ArmTimer, KeepsSight, Finished, EndInSight
  <2>3. CASE tl # "out"
    <3>1. tl' = tl /\ inserted' = {} /\ Goto(a, AfterArm[pc[a]])
      BY ZenonT(60), <1>3, <2>1, <2>3 DEF ArmTimer
    <3>2. /\ pc'[a] = AfterArm[pc[a]] /\ \A b \in Actors \ {a} : pc'[b] = pc[b]
      BY <1>1, <3>1
    <3>3. /\ pc'[a] \notin {"bye_timer", "dual_timer"}
          /\ pc[a] = "route_timer" => pc'[a] = "route_test"
      BY <2>1, <3>2, Tables DEF Arm
    <3>4. SeesTo(a) => SeesTo(a)' \/ tl' = "in"
      <4>1. pc[a] \notin {"end", "bye1", "bye2", "dual"}
        BY <2>1 DEF Arm
      <4>2. CASE pc[a] \in OnExpiry
        BY ZenonT(60), <2>1, <3>3, <4>2 DEF SeesTo, Arm, OnExpiry
      <4>3. CASE pc[a] = "reply_timer" /\ tl # "gone"
        BY <1>0, <2>3, <3>1, <4>3 DEF TypeOK
      <4> QED BY <4>1, <4>2, <4>3 DEF SeesTo
    <3>5. KeepsSight(a)
      BY ZenonT(60), <2>1, <3>1, <3>2, <3>3, <3>4 DEF KeepsSight, Finished
    <3> QED BY <3>5, SightKept
  <2> QED BY <2>2, <2>3
<1>4. CASE RefTimer(a)
  <2>1. /\ a \in inserted /\ pc[a] \in Arm /\ tl = "in" /\ Goto(a, AfterArm[pc[a]])
        /\ UNCHANGED <<where, state, flags, byes, jobs, fails, tl>>
    BY ZenonT(60), <1>4 DEF RefTimer, dlgvars, heldvars, timervars, IInv, Hands, HeldAt, EndInSight
  <2>2. /\ pc'[a] = AfterArm[pc[a]] /\ \A b \in Actors \ {a} : pc'[b] = pc[b]
    BY ZenonT(60), <1>1, <2>1
  <2>3. pc'[a] \notin {"bye_timer", "dual_timer"}
    BY <2>1, <2>2, Tables DEF Arm
  <2>4. KeepsSight(a)
    BY ZenonT(60), <2>1, <2>2, <2>3 DEF KeepsSight, Finished
  <2> QED BY <2>4, SightKept
<1>5. CASE RemoveTimer(a)
  <2>1. /\ pc[a] \in {"bye_timer", "dual_timer"} /\ UNCHANGED <<where, state, flags, fails, inserted>>
        /\ Goto(a, IF pc[a] = "bye_timer" THEN "bye_unref" ELSE "dual_unref")
    BY <1>5 DEF RemoveTimer, dlgvars
  <2>2. Finished /\ state \notin Confirmed /\ inserted = {}
    BY <1>2, <2>1 DEF EndInSight, Finished, Confirmed, Arm
  <2>3. pc'[a] \in {"bye_unref", "dual_unref"} /\ \A b \in Actors \ {a} : pc'[b] = pc[b]
    BY ZenonT(60), <1>1, <2>1
  <2>4. KeepsSight(a)
    BY ZenonT(60), <2>1, <2>2, <2>3 DEF KeepsSight, Finished
  <2> QED BY <2>4, SightKept
<1>6. CASE Unref(a)
  <2>1. /\ pc[a] \in {"reply_unref", "tdel_unref", "bye_unref", "dual_unref",
                      "create", "ctx", "leave", "end_unref"}
        /\ Goto(a, AfterUnref[pc[a]])
        /\ UNCHANGED <<state, flags, byes, jobs, inserted, fails>>
    BY <1>6, Tables DEF Unref, dlgvars, heldvars
  <2>2. where' = "hashed" => where = "hashed" /\ tl' = tl
    BY <1>6 DEF Unref, Drop, UnrefTo
  <2>3. inserted = {}
    BY <1>2, <2>1 DEF Arm
  <2>4. pc'[a] \notin {"bye_timer", "dual_timer"} /\ \A b \in Actors \ {a} : pc'[b] = pc[b]
    BY ZenonT(60), <1>1, <2>1, Tables
  <2>5. ~SeesTo(a)
    BY ZenonT(60), <2>1 DEF SeesTo, OnExpiry
  <2>6. KeepsSight(a)
    BY ZenonT(60), <2>1, <2>2, <2>3, <2>4, <2>5 DEF KeepsSight, Finished
  <2> QED BY <2>6, SightKept
<1>7. CASE SetTimeout(a) \/ End(a) \/ SendBye(a)
  <2>1. /\ pc[a] \in {"ctx", "route", "end", "bye1", "bye2"}
        /\ UNCHANGED <<where, state, flags, tl, inserted>>
        /\ \A b \in Actors \ {a} : fails'[b] = fails[b]
    BY <1>0, <1>7 DEF SetTimeout, End, SendBye, dlgvars, timervars, TypeOK
  <2>2. inserted = {}
    BY <1>2, <2>1 DEF Arm
  <2>3. PICK l \in {"script_timer", "route_timer", "end_unref", "bye1", "bye2", "dual"} : Goto(a, l)
    BY <1>7 DEF SetTimeout, End, SendBye
  <2>4. pc'[a] = l /\ \A b \in Actors \ {a} : pc'[b] = pc[b]
    BY <1>1, <2>3
  <2>5. \/ byes' = byes /\ jobs' = jobs
        \/ byes' = byes + 1 /\ jobs' = jobs
        \/ byes' = byes /\ jobs' = jobs + 1
    BY <1>7 DEF SetTimeout, End, SendBye, heldvars
  <2>7. state \in Confirmed => SeesTo(a)' \/ ~SeesTo(a) \/ byes' + jobs' > 0
    <3>1. CASE SetTimeout(a)
      BY ZenonT(60), <1>1, <3>1 DEF SetTimeout, SeesTo, OnExpiry
    <3>2. CASE End(a)
      BY <1>0, <1>1, <3>2 DEF End, SeesTo, Setup, Confirmed
    <3>3. CASE SendBye(a) /\ byes' = byes + 1
      BY <1>0, <3>3 DEF SendBye
    <3>4. CASE SendBye(a) /\ fails' = [fails EXCEPT ![a] = @ + 1]
      <4>1. fails'[a] > 0
        BY <1>0, <3>4 DEF TypeOK
      <4>2. pc'[a] \in {"bye2", "dual"}
        BY <1>1, <3>4 DEF SendBye
      <4> QED BY ZenonT(60), <4>1, <4>2 DEF SeesTo
    <3> QED BY ZenonT(60), <1>7, <3>1, <3>2, <3>3, <3>4 DEF SendBye
  <2>8. KeepsSight(a)
    <3>2. byes \in Nat /\ jobs \in Nat
      BY <1>0
    <3>1. byes + jobs > 0 => byes' + jobs' > 0
      BY <2>5, <3>2
    <3> QED BY <2>1, <2>2, <2>4, <2>7, <3>1 DEF KeepsSight, Finished
  <2> QED BY <2>8, SightKept
<1>8. CASE DualByeEvent(a)
  <2>1. /\ pc[a] = "dual" /\ UNCHANGED <<where, inserted>>
        /\ NextStateDlg(a, "REQBYE", state \notin Setup)
        /\ Goto(a, IF Ended THEN "dual_timer" ELSE "dual")
        /\ \A b \in Actors \ {a} : fails'[b] = fails[b]
    BY <1>0, <1>8 DEF DualByeEvent, TypeOK
  <2>2. /\ Ended => Finished'
        /\ Finished => Finished'
        /\ state \notin Setup => state' \notin Confirmed
        /\ state' = "CONFIRMED" => state \in Confirmed
        /\ state' = "CONFIRMED_NA" => state = "CONFIRMED_NA"
    BY ZenonT(60), <1>0, <2>1, StateStep
  <2>3. inserted = {}
    BY ZenonT(60), <1>2, <2>1 DEF Arm
  <2>4. pc'[a] = (IF Ended THEN "dual_timer" ELSE "dual") /\ \A b \in Actors \ {a} : pc'[b] = pc[b]
    BY ZenonT(60), <1>1, <2>1
  <2>5. state' \notin Confirmed
    BY <2>2 DEF Setup, Confirmed
  <2>6. KeepsSight(a)
    BY ZenonT(60), <2>1, <2>2, <2>3, <2>4, <2>5 DEF KeepsSight
  <2> QED BY <2>6, SightKept
<1>9. CASE DualDone(a)
  <2>1. /\ pc[a] = "dual" /\ fails[a] = 0 /\ UNCHANGED <<where, state, flags, tl, byes, jobs, inserted, fails>>
    BY ZenonT(60), <1>9 DEF DualDone, dlgvars, timervars
  <2>2. PICK l \in {"idle", "end_unref"} : Goto(a, l)
    BY ZenonT(60), <1>9 DEF DualDone
  <2>3. inserted = {}
    BY <1>2, <2>1 DEF Arm
  <2>4. pc'[a] = l /\ \A b \in Actors \ {a} : pc'[b] = pc[b]
    BY <1>1, <2>2
  <2>5. ~SeesTo(a)
    BY <2>1 DEF SeesTo, OnExpiry
  <2>6. KeepsSight(a)
    BY <2>1, <2>2, <2>3, <2>4, <2>5 DEF KeepsSight, Finished
  <2> QED BY <2>6, SightKept
<1> QED BY <1>3, <1>4, <1>5, <1>6, <1>7, <1>8, <1>9 DEF Step

\* The steps of a worker, what arrives and what completes.
LEMMA WorkerSight ==
    ASSUME IInv, EndInSight, ~Windows, ~LateAnswer, NEW a \in Workers, Alone(a),
           \/ CancelCtx(a) \/ OnRoute(a) \/ InsertPing(a) \/ Bind(a)
           \/ Arrival(a) \/ Completion(a)
    PROVE  EndInSight'
<1>0. /\ TypeOK /\ a \in Actors /\ byes \in Nat /\ jobs \in Nat
  BY DEF IInv, TypeOK, Actors
<1>1. ASSUME NEW l, Goto(a, l) PROVE pc'[a] = l /\ \A b \in Actors \ {a} : pc'[b] = pc[b]
  BY <1>0, <1>1 DEF Goto, TypeOK
<1>2. /\ pc[a] \in {"cancel_ctx", "onroute", "ack_ping", "ctx", "idle"} /\ inserted' = inserted
  BY ZenonT(60) DEF CancelCtx, OnRoute, InsertPing, Bind, Arrival, Completion, Create, Cancelled, Request,
         Terminate, Reply, Tdel, Release, EndRpc, ByeReplied, Arrives
<1>3. inserted' = {} /\ ~SeesTo(a)
  BY ZenonT(60), <1>0, <1>2, NoWindow DEF Arm, SeesTo, OnExpiry
<1>4. CASE \/ CancelCtx(a) \/ InsertPing(a) \/ Bind(a) \/ Cancelled(a) \/ Request(a) \/ Terminate(a)
  <2>1. UNCHANGED <<where, state, tl, byes, jobs, fails>> /\ flags \subseteq flags'
    BY ZenonT(60), <1>4 DEF CancelCtx, InsertPing, Bind, Cancelled, Request, Terminate, dlgvars, timervars, heldvars
  <2>2. PICK l \in {"ctx", "leave", "cancel_timer", "cancel_ctx", "onroute", "end"} : Goto(a, l)
    BY ZenonT(60), <1>4 DEF CancelCtx, InsertPing, Bind, Cancelled, Request, Terminate
  <2>3. pc'[a] = l /\ \A b \in Actors \ {a} : pc'[b] = pc[b]
    BY ZenonT(60), <1>1, <2>2
  <2>4. KeepsSight(a)
    BY ZenonT(60), <1>3, <2>1, <2>2, <2>3 DEF KeepsSight, Finished
  <2> QED BY <1>0, <2>4, SightKept
<1>5. CASE OnRoute(a)
  <2>1. PICK event \in {"REQBYE", "REQACK", "REQ"}, leg \in BOOLEAN : NextStateDlg(a, event, leg)
    BY <1>5 DEF OnRoute
  <2>2. UNCHANGED <<where, tl, byes, jobs, fails>>
    BY <1>5 DEF OnRoute, timervars, heldvars
  <2>3. PICK l : Goto(a, l) /\ (l \in {"bye_timer", "dual_timer"} => Ended)
    BY <1>5 DEF OnRoute
  <2>4. pc'[a] = l /\ \A b \in Actors \ {a} : pc'[b] = pc[b]
    BY ZenonT(60), <1>1, <2>3
  <2>5. /\ Ended => Finished'
        /\ Finished => Finished'
        /\ state' \in Confirmed => state \in Confirmed
    BY <1>0, <2>1, StateStep DEF Confirmed
  <2>6. KeepsSight(a)
    BY ZenonT(60), <1>3, <2>2, <2>3, <2>4, <2>5 DEF KeepsSight
  <2> QED BY <1>0, <2>6, SightKept
<1>6. CASE Create(a)
  <2>1. UNCHANGED <<state, fails>> /\ Goto(a, "create") /\ where = "none"
    BY <1>6 DEF Create
  <2>2. pc'[a] = "create" /\ \A b \in Actors \ {a} : pc'[b] = pc[b]
    BY ZenonT(60), <1>1, <2>1
  <2>3. state = "UNCONFIRMED"
    BY <2>1 DEF IInv, NoneYet
  <2>4. KeepsSight(a)
    BY ZenonT(60), <1>3, <2>1, <2>2, <2>3 DEF KeepsSight, Finished, Confirmed
  <2> QED BY <1>0, <2>4, SightKept
<1>7. ASSUME NEW event \in {"RPL1xx", "RPL2xx", "RPL3xx"}, Reply(a, event) PROVE EndInSight'
  <2>1. /\ NextStateDlg(a, event, FALSE)
        /\ ~(event = "RPL2xx" /\ state = "DELETED" /\ tl = "gone")
        /\ UNCHANGED <<where, tl, byes, jobs, fails>>
        /\ Goto(a, IF state \notin Confirmed /\ state' = "CONFIRMED_NA" THEN "reply_timer"
                   ELSE IF Ended THEN "reply_unref" ELSE "idle")
    BY ZenonT(60), <1>7 DEF Reply, timervars, heldvars
  <2>2. PICK l \in {"reply_timer", "reply_unref", "idle"} :
          /\ Goto(a, l)
          /\ state \notin Confirmed /\ state' = "CONFIRMED_NA" => l = "reply_timer"
    BY <2>1
  <2>3. pc'[a] = l /\ \A b \in Actors \ {a} : pc'[b] = pc[b]
    BY ZenonT(60), <1>1, <2>2
  <2>4. /\ Finished => Finished'
        /\ state' = "CONFIRMED" => state \in Confirmed
        /\ state' = "CONFIRMED_NA" /\ state # "CONFIRMED_NA" => event = "RPL2xx"
    BY ZenonT(60), <1>0, <2>1, StateStep
  <2>5. ASSUME state' \in Confirmed, state \notin Confirmed PROVE SeesTo(a)'
    <3>1. state' = "CONFIRMED_NA" /\ event = "RPL2xx" /\ l = "reply_timer"
      BY <2>2, <2>4, <2>5 DEF Confirmed
    <3>2. state \in Setup \/ state = "DELETED"
      BY <1>0, <2>5 DEF TypeOK
    <3>3. tl # "gone"
      BY <2>1, <3>1, <3>2 DEF IInv, Links
    <3> QED BY ZenonT(60), <2>1, <2>3, <3>1, <3>3 DEF SeesTo
  <2>6. KeepsSight(a)
    BY ZenonT(60), <1>3, <2>1, <2>3, <2>4, <2>5 DEF KeepsSight
  <2> QED BY <1>0, <2>6, SightKept
<1>8. CASE Tdel(a) \/ Release(a)
  <2>1. UNCHANGED <<flags, byes, jobs, fails>>
    BY ZenonT(60), <1>8 DEF Tdel, Release, dlgvars
  <2>2. where' = "hashed" => where = "hashed" /\ tl' = tl
    BY ZenonT(60), <1>8 DEF Tdel, Release, UnrefTo
  <2>3. /\ pc'[a] \in {"idle", "tdel_unref"} /\ \A b \in Actors \ {a} : pc'[b] = pc[b]
    BY ZenonT(60), <1>1, <1>8 DEF Tdel, Release
  <2>4. (Finished => Finished') /\ (state' \in Confirmed => state \in Confirmed)
    BY <1>8, <2>1 DEF Tdel, Release, dlgvars, NextState, Finished, Setup, Confirmed
  <2>5. KeepsSight(a)
    BY ZenonT(60), <1>3, <2>1, <2>2, <2>3, <2>4 DEF KeepsSight
  <2> QED BY <1>0, <2>5, SightKept
<1>9. CASE EndRpc(a) \/ ByeReplied(a)
  <2>1. UNCHANGED <<where, state, flags, tl>> /\ \A b \in Actors \ {a} : fails'[b] = fails[b]
    BY <1>0, <1>9 DEF EndRpc, ByeReplied, dlgvars, timervars, TypeOK
  <2>2. /\ pc'[a] = "bye1" \/ (pc'[a] = "dual" /\ fails'[a] > 0)
        /\ \A b \in Actors \ {a} : pc'[b] = pc[b]
    <3>1. CASE EndRpc(a)
      BY ZenonT(60), <1>1, <3>1 DEF EndRpc
    <3>2. CASE ByeReplied(a)
      BY <1>0, <1>1, <3>2 DEF ByeReplied, TypeOK
    <3> QED BY ZenonT(60), <1>9, <3>1, <3>2
  <2>3. SeesTo(a)' /\ pc'[a] \notin {"bye_timer", "dual_timer"}
    BY ZenonT(60), <2>2 DEF SeesTo
  <2>4. KeepsSight(a)
    BY ZenonT(60), <1>3, <2>1, <2>2, <2>3 DEF KeepsSight, Finished
  <2> QED BY <1>0, <2>4, SightKept
<1> QED BY <1>4, <1>5, <1>6, <1>7, <1>8, <1>9 DEF Arrival, Completion

\* The steps of the timer process.
LEMMA TimerSight ==
    ASSUME IInv, EndInSight, ~Windows, Alone(Timer),
           \/ RunRoute \/ RouteDone \/ RouteTest \/ Restore \/ OnTimeout \/ OnDelete
           \/ TimerPass \/ SendPing \/ PingReplied
    PROVE  EndInSight'
<1>0. TypeOK /\ Timer \in Actors
  BY DEF IInv, Actors
<1>1. ASSUME NEW l, Goto(Timer, l)
      PROVE  pc'[Timer] = l /\ \A b \in Actors \ {Timer} : pc'[b] = pc[b]
  BY <1>0, <1>1 DEF Goto, TypeOK
<1>2. inserted' = inserted /\ UNCHANGED <<byes, jobs, fails>>
  BY ZenonT(60) DEF RunRoute, RouteDone, RouteTest, Restore, OnTimeout, OnDelete, TimerPass, Expire, ExpireDel,
         PingOver, SendPing, PingReplied, heldvars
<1>3. CASE \/ RunRoute \/ RouteDone \/ RouteTest \/ Restore \/ Expire
  <2>1. pc[Timer] \in {"timeout", "route", "route_test", "restore", "idle"}
        /\ UNCHANGED <<where, state, flags>>
    BY ZenonT(60), <1>3 DEF RunRoute, RouteDone, RouteTest, Restore, Expire, dlgvars
  <2>2. inserted = {}
    BY <1>0, <2>1, NoWindow DEF Arm
  <2>3. PICK l \in {"timeout", "route", "route_test", "restore", "expire", "end_unref"} :
          Goto(Timer, l) /\ (l = "end_unref" => tl' = "in")
    BY ZenonT(60), <1>3 DEF RunRoute, RouteDone, RouteTest, Restore, Expire, timervars
  <2>4. pc'[Timer] = l /\ \A b \in Actors \ {Timer} : pc'[b] = pc[b]
    BY <1>1, <2>3
  <2>5. SeesTo(Timer)' \/ tl' = "in"
    BY <2>3, <2>4 DEF SeesTo, OnExpiry
  <2>6. KeepsSight(Timer)
    BY ZenonT(60), <1>2, <2>1, <2>2, <2>3, <2>4, <2>5 DEF KeepsSight, Finished
  <2> QED BY <1>0, <2>6, SightKept
<1>4. CASE OnTimeout
  <2>1. pc[Timer] \in {"timeout", "expire"} /\ UNCHANGED <<where, tl>>
    BY <1>4 DEF OnTimeout, timervars
  <2>2. inserted = {}
    BY <1>0, <2>1, NoWindow DEF Arm
  <2>3. CASE Goto(Timer, "end") /\ UNCHANGED <<dlgvars, ref, hand>>
    <3>1. pc'[Timer] = "end" /\ \A b \in Actors \ {Timer} : pc'[b] = pc[b]
      BY <1>1, <2>3
    <3>2. KeepsSight(Timer)
      BY <1>2, <2>1, <2>2, <2>3, <3>1 DEF KeepsSight, Finished, SeesTo, dlgvars
    <3> QED BY <1>0, <3>2, SightKept
  <2>4. CASE NextStateDlg(Timer, "REQBYE", state \notin Setup) /\ Goto(Timer, "end_unref")
    <3>1. pc'[Timer] = "end_unref" /\ \A b \in Actors \ {Timer} : pc'[b] = pc[b]
      BY <1>1, <2>4
    <3>2. /\ Finished => Finished'
          /\ state \notin Setup => state' \notin Confirmed
          /\ state' = "CONFIRMED" => state \in Confirmed
          /\ state' = "CONFIRMED_NA" => state = "CONFIRMED_NA"
      BY ZenonT(60), <1>0, <2>4, StateStep
    <3>3. state' \notin Confirmed
      BY <3>2 DEF Setup, Confirmed
    <3>4. KeepsSight(Timer)
      BY ZenonT(60), <1>2, <2>1, <2>2, <3>1, <3>2, <3>3 DEF KeepsSight
    <3> QED BY <1>0, <3>4, SightKept
  <2> QED BY <1>4, <2>3, <2>4 DEF OnTimeout
<1>5. CASE OnDelete \/ ExpireDel \/ PingOver
  <2>1. pc[Timer] \in {"ondelete", "idle"} /\ UNCHANGED <<state, flags>>
    BY <1>5 DEF OnDelete, ExpireDel, PingOver, dlgvars
  <2>2. inserted = {} /\ ~SeesTo(Timer)
    BY ZenonT(60), <1>0, <2>1, NoWindow DEF Arm, SeesTo, OnExpiry
  <2>3. PICK l \in {"idle", "ondelete", "end", "end_unref"} : Goto(Timer, l)
    BY <1>5 DEF OnDelete, ExpireDel, PingOver
  <2>4. pc'[Timer] = l /\ \A b \in Actors \ {Timer} : pc'[b] = pc[b]
    BY <1>1, <2>3
  <2>5. where' = "hashed" => where = "hashed" /\ tl' = tl
    BY <1>5 DEF OnDelete, ExpireDel, PingOver
  <2>6. KeepsSight(Timer)
    BY ZenonT(60), <1>2, <2>1, <2>2, <2>3, <2>4, <2>5 DEF KeepsSight, Finished
  <2> QED BY <1>0, <2>6, SightKept
<1>6. CASE SendPing \/ PingReplied
  BY ZenonT(60), <1>2, <1>6 DEF SendPing, PingReplied, EndInSight, SeesTo, Finished, dlgvars
<1> QED BY <1>3, <1>4, <1>5, <1>6 DEF TimerPass

\* Every step keeps the end in sight.
LEMMA NextSight == ASSUME ~Windows, ~LateAnswer, IInv, EndInSight, [Next]_vars PROVE EndInSight'
<1>1. ASSUME NEW w \in Workers, Alone(w), WorkerStep(w) \/ Arrival(w) \/ Completion(w)
      PROVE  EndInSight'
  <2>1. w \in Actors
    BY DEF Actors
  <2> QED BY <1>1, <2>1, StepSight, WorkerSight DEF WorkerStep
<1>2. ASSUME Alone(Timer), TimerStep \/ TimerPass \/ SendPing \/ PingReplied PROVE EndInSight'
  <2>1. Timer \in Actors
    BY DEF Actors
  <2> QED BY <1>2, <2>1, StepSight, TimerSight DEF TimerStep
<1>3. CASE UNCHANGED vars
  BY ZenonT(60), <1>3 DEF vars, dlgvars, timervars, heldvars, EndInSight, SeesTo, Finished
<1> QED BY <1>1, <1>2, <1>3 DEF Next, Idle

----------------------------------------------------------------------------
\* The reference count never goes below zero, and every field keeps its
\* type, whatever the number of workers and messages.
THEOREM DialogTypes == ASSUME ~Windows PROVE Spec => []TypeOK
<1>1. Init => IInv
  BY InitInv
<1>2. IInv /\ [Next]_vars => IInv'
  BY NextInv
<1>3. IInv => TypeOK
  BY DEF IInv
<1> QED BY <1>1, <1>2, <1>3, PTL DEF Spec

\* The reference count is what the hash table, the lists, the transactions,
\* the jobs and the handlers hold.
THEOREM CountExact == ASSUME ~Windows PROVE Spec => []RefExact
<1>1. Init => IInv
  BY InitInv
<1>2. IInv /\ [Next]_vars => IInv'
  BY NextInv
<1>3. IInv => RefExact
  BY DEF IInv
<1> QED BY <1>1, <1>2, <1>3, PTL DEF Spec

\* destroy_dlg is called only when no handler, transaction, job, BYE or list
\* has the dialog.
THEOREM DestroyedUnused == ASSUME ~Windows PROVE Spec => []NoUseAfterFree
<1>1. Init => IInv
  BY InitInv
<1>2. IInv /\ [Next]_vars => IInv'
  BY NextInv
<1>3. IInv => NoUseAfterFree
  BY InvNoUse
<1> QED BY <1>1, <1>2, <1>3, PTL DEF Spec

\* An answered dialog has a running lifetime timer, BYEs on their way, or a
\* handler that is about to see to one of them.
THEOREM AlwaysEnds == ASSUME ~Windows, ~LateAnswer PROVE Spec => []NoImmortal
<1>1. Init => IInv /\ EndInSight
  BY ZenonT(60), InitInv DEF Init, EndInSight
<1>2. (IInv /\ EndInSight) /\ [Next]_vars => (IInv /\ EndInSight)'
  BY NextInv, NextSight
<1>3. IInv /\ EndInSight => NoImmortal
  <2> SUFFICES ASSUME EndInSight, where = "hashed", state \in Confirmed, NEW a \in Actors, SeesTo(a)
               PROVE  Deciding(a)
    BY DEF EndInSight, NoImmortal
  <2> QED BY DEF SeesTo, Deciding, OnExpiry
<1> QED BY <1>1, <1>2, <1>3, PTL DEF Spec
============================================================================
