--------------------------- MODULE MCCveTickets ----------------------------
(* CveTickets on small instances.                                          *)
EXTENDS CveTickets, TLC

HostSymmetry == Permutations(Hosts)
=============================================================================
