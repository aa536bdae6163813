------------------------------ MODULE MCUsrloc ------------------------------
(***************************************************************************)
(* Instances of Usrloc for model checking.                                 *)
(***************************************************************************)
EXTENDS Usrloc, TLC

CONSTANTS u1, u2, a1, a2

\* Two URIs of one AOR, or of two.
OneAor == (u1 :> a1) @@ (u2 :> a1)
TwoAors == (u1 :> a1) @@ (u2 :> a2)

\* Without failed inserts the timer inserts nothing in write-through mode, so
\* that there is nothing to buffer.
AllSetups == {<<"write-back", FALSE>>, <<"write-back", TRUE>>, <<"write-through", FALSE>>}
WriteBackUnbuffered == {<<"write-back", FALSE>>}

\* The failures that the state of a contact makes up for.
Retried == {<<"write-back", "insert">>, <<"write-back", "update">>,
            <<"write-through", "update">>, <<"write-back", "truncate">>}
=============================================================================
