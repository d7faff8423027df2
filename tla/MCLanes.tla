------------------------------ MODULE MCLanes -------------------------------
(* Lanes on a small instance.                                              *)
EXTENDS Lanes

\* The first application's findings change, the others' come and go.
MCFindingsOf == [a \in Apps |-> IF a = "a1" THEN {{}, {"p"}, {"q"}} ELSE {{}, {"p"}}]

\* Both scans are of one application.
MCAppOf == [s \in Scans |-> "app"]

\* app-owners.txt: an owner with a watcher, a site's owner, and a line after the
\* first one's that records hosts for it and names nobody.
MCOldFile ==
    <<[app |-> "a1", owner |-> "p1", watchers |-> {"p2"}, covers |-> FALSE],
      [app |-> "s1", owner |-> "p2", watchers |-> {}, covers |-> FALSE],
      [app |-> "a1", owner |-> NoOwner, watchers |-> {}, covers |-> TRUE]>>

\* Two operators, a developer, an analyst, an owner, and one outside the house.
MCAddresses == {"op", "op2", "dev", "ann", "bob", "eve"}
MCDomainOf == [a \in MCAddresses |-> IF a = "eve" THEN "vendor" ELSE "corp"]
MCToVar == [was |-> "WAS_TO", dom |-> "DOM_TO"]
MCAllowVar == [was |-> "WAS_ALLOW_TO", dom |-> "DOM_ALLOW_TO"]
MCExtra == {{}, {"ann"}}

MCSettings == [
    DIGEST_TO |-> {{}, {"ann"}, {"ann", "op"}},
    DIGEST_CC |-> {{}, {"bob"}},
    DIGEST_CC_FROM_ALLOW_TO |-> {{}, {"true"}},
    VM_ALLOW_TO |-> {{}, {"ann"}, {"ann", "bob"}},
    FLEET_ALLOW_TO |-> {{}, {"ann"}, {"eve"}},
    FLEET_OPERATOR_EMAIL |-> {{}, {"op"}, {"op", "op2"}},
    FLEET_DEV_EMAIL |-> {{}, {"dev"}},
    WAS_TO |-> {{}, {"bob"}, {"bob", "ann"}},
    WAS_ALLOW_TO |-> {{}, {""}, {"bob"}, {"bob", "DOM_ALLOW_TO"}, {"WAS_ALLOW_TO"}, {"bob", "$*"}},
    DOM_TO |-> {{"eve"}, {"ann"}},
    DOM_ALLOW_TO |-> {{}, {"eve"}, {"VM_ALLOW_TO"}, {"WAS_ALLOW_TO", "eve"}},
    OWNER_ALLOW_DOMAINS |-> {{}, {"corp"}}]

MCStart == [
    env |-> [DIGEST_TO |-> {"ann"}, DIGEST_CC |-> {}, DIGEST_CC_FROM_ALLOW_TO |-> {},
             VM_ALLOW_TO |-> {"ann"}, FLEET_ALLOW_TO |-> {}, FLEET_OPERATOR_EMAIL |-> {"op"},
             FLEET_DEV_EMAIL |-> {"dev"}, WAS_TO |-> {"bob"}, WAS_ALLOW_TO |-> {"bob"},
             DOM_TO |-> {"eve"}, DOM_ALLOW_TO |-> {"eve"}, OWNER_ALLOW_DOMAINS |-> {"corp"}],
    owners |-> [email |-> "bob", watchers |-> {"ann", "eve"}, managed |-> FALSE, domains |-> {}]]

\* An entry of the file, entries of a managed source, and no entry.
MCOwnerEntries ==
    {MCStart.owners}
    \cup [email : {"bob", "eve"}, watchers : {{"ann", "eve"}}, managed : {TRUE},
          domains : {{}, {"corp"}, {"vendor"}}]
    \cup {[email |-> "", watchers |-> {}, managed |-> TRUE, domains |-> {"corp"}]}
=============================================================================
