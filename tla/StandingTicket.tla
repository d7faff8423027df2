--------------------------- MODULE StandingTicket ---------------------------
(***************************************************************************)
(* What the weekly lanes promise about the tickets they keep up: a ticket  *)
(* is filed with a list, told a list only when it is not the one its       *)
(* readers already have, and told once that nothing is left.  What a       *)
(* ticket has been told is remembered on the ticket itself, so a telling   *)
(* and its record are two steps; while the record is missing, and only     *)
(* then, a lane may repeat itself.                                         *)
(*                                                                         *)
(* The header of cmd/cti-jira/domains.go and of internal/appscan/tickets.go *)
(* say this in words.  AppTickets and DomainsTicket implement it.          *)
(***************************************************************************)
CONSTANTS
    Tickets,    \* tickets there can be
    Lists,      \* what a ticket can be told is open
    Finished,   \* what it is told when nothing is left
    Unfiled     \* a ticket that does not exist yet

SayingsAssumption ==
    /\ \A l \in Lists : l # Finished /\ l # Unfiled
    /\ Finished # Unfiled

VARIABLES
    said,       \* the last thing a ticket's readers were told
    recorded    \* whether the ticket remembers it

vars == <<said, recorded>>

TypeOK ==
    /\ said \in [Tickets -> Lists \cup {Finished, Unfiled}]
    /\ recorded \in [Tickets -> BOOLEAN]

Init ==
    /\ said = [k \in Tickets |-> Unfiled]
    /\ recorded = [k \in Tickets |-> FALSE]

File(k) ==
    /\ said[k] = Unfiled /\ said'[k] # Unfiled
    /\ \E l \in Lists : said' = [said EXCEPT ![k] = l]
    /\ UNCHANGED recorded

\* News, or a repetition of what was not recorded.
Say(k) ==
    /\ said[k] # Unfiled /\ ~recorded'[k]
    /\ recorded[k] => said'[k] # said[k]
    /\ \E what \in Lists \cup {Finished} : said' = [said EXCEPT ![k] = what]
    /\ recorded' = [recorded EXCEPT ![k] = FALSE]

Record(k) ==
    /\ said[k] # Unfiled
    /\ recorded' = [recorded EXCEPT ![k] = TRUE]
    /\ UNCHANGED said

Next == \E k \in Tickets : File(k) \/ Say(k) \/ Record(k)

Spec == Init /\ [][Next]_vars
=============================================================================
