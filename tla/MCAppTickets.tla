---------------------------- MODULE MCAppTickets ----------------------------
(* AppTickets on a small instance.                                         *)
EXTENDS AppTickets

\* The first application's findings change, the others' come and go.
MCFindingsOf == [a \in Apps |-> IF a = "a1" THEN {{}, {"p"}, {"q"}} ELSE {{}, {"p"}}]
=============================================================================
