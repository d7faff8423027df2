---------------------------- MODULE DomainsTicket ---------------------------
(***************************************************************************)
(* The lock-down ticket: cmd/cti-jira --domains-actions on the list of DNS *)
(* changes cti-domains wrote (run-domains, once a week).  One ticket holds *)
(* them all, and what it was last told is kept on it.                      *)
(*                                                                         *)
(* The list asks for a record where it is known and not what the domain's  *)
(* profile wants: a lookup that failed asks for nothing, nor does a domain *)
(* the mail gateway saw sending, nor anything while the gateway's evidence *)
(* is missing.  It is chosen when it is used.  Left out: wording, the CSV, *)
(* the ref file for the report; a dry run is a run that may not write.     *)
(***************************************************************************)
EXTENDS Integers, FiniteSets, Sequences

CONSTANTS
    Domains,
    NoProperty,     \* a ticket with no property
    Finished,       \* what the ticket is told when nothing is left
    Unfiled,        \* no ticket yet
    MaxLockdowns,   \* bound: lock-down tickets the project can hold
    LookupsFail,    \* DNS may not answer
    JiraFails,      \* any Jira call may fail
    Kills           \* a run may be cut off between two calls

VARIABLES
    lockdowns,  \* the lock-down tickets, oldest first
    filing,     \* the local state of the cti-jira process
    heard       \* observer: what each ticket's readers were last told

lockdownVars == <<lockdowns, filing, heard>>

-----------------------------------------------------------------------------
\* A list, and its hash: the domains that need a change.
Lists == SUBSET Domains
\* domainsState, the issue property; without one it reads as never posted.
DomainsState == {s \in [hash : Lists, resolved : BOOLEAN] : s.resolved <=> s.hash = {}}
ZeroState == [hash |-> {}, resolved |-> FALSE]

LockdownAssumption ==
    /\ IsFiniteSet(Domains) /\ NoProperty \notin DomainsState
    /\ MaxLockdowns \in Nat
    /\ {LookupsFail, JiraFails, Kills} \subseteq BOOLEAN

\* reopened: a person reopened it, so two can be open at once.
Lockdown == [open : BOOLEAN, prop : DomainsState \cup {NoProperty}, reopened : BOOLEAN]

\* bad: the domains that did not match their profile at this run's survey.
NotFiling == [pc |-> "idle", id |-> 0, prev |-> ZeroState, plan |-> "nothing",
              list |-> {}, bad |-> {}]

Ids == DOMAIN lockdowns
Open == {i \in Ids : lockdowns[i].open}
Newest == CHOOSE i \in Open : \A j \in Open : j <= i

\* ActionsWithSkipped.
Actions(bad, known, held, sends) == IF held THEN {} ELSE (bad \cap known) \ sends

\* Every actions file there can be, with what the survey really met.
ActionsFile ==
    {[bad |-> bad, list |-> Actions(bad, known, held, sends), held |-> held,
      skipped |-> IF held THEN {} ELSE sends] :
        bad \in Lists, known \in IF LookupsFail THEN SUBSET Domains ELSE {Domains},
        held \in BOOLEAN, sends \in Lists}

\* Mutants: a held or shortened list counts; the hash is not compared.
IgnoresGateway(open, prev, af) ==
    IF ~open THEN IF af.list = {} THEN "nothing" ELSE "create"
    ELSE IF af.list = {} THEN IF prev.resolved THEN "nothing" ELSE "done"
    ELSE IF prev.hash = af.list THEN "nothing" ELSE "comment"
CommentsEveryWeek(open, prev, af) ==
    IF af.held \/ (af.list = {} /\ af.skipped # {}) THEN "nothing"
    ELSE IF ~open THEN IF af.list = {} THEN "nothing" ELSE "create"
    ELSE IF af.list # {} THEN "comment"
    ELSE IF prev.resolved THEN "nothing" ELSE "done"
planDomains(open, prev, af) ==
    IF af.held \/ (af.list = {} /\ af.skipped # {}) THEN "nothing"
    ELSE IF ~open THEN IF af.list = {} THEN "nothing" ELSE "create"
    ELSE IF af.list = {} THEN IF prev.resolved THEN "nothing" ELSE "done"
    ELSE IF prev.hash = af.list THEN "nothing" ELSE "comment"

-----------------------------------------------------------------------------
JiraUnchanged == UNCHANGED <<lockdowns, heard>>
Ends == filing' = NotFiling

\* The newest open ticket, and what it was last told.
SearchLockdown ==
    /\ filing.pc = "idle"
    /\ filing' = IF Open = {} THEN [filing EXCEPT !.pc = "plan"]
                 ELSE [filing EXCEPT !.pc = "property", !.id = Newest]
    /\ JiraUnchanged

GetLockdownProperty ==
    /\ filing.pc = "property"
    /\ filing' = [filing EXCEPT !.pc = "plan",
                     !.prev = IF lockdowns[filing.id].prop = NoProperty THEN ZeroState
                              ELSE lockdowns[filing.id].prop]
    /\ JiraUnchanged

\* A failed search, a property that cannot be read ("unknown is not never
\* posted"), a refused create or comment: the run stops there.
CallFails ==
    /\ filing.pc \in {"property", "create", "comment"} /\ JiraFails
    /\ Ends /\ JiraUnchanged

\* planDomains.  A dry run, and a project outside JIRA_ALLOW_CREATE, end here.
Plan ==
    /\ filing.pc = "plan"
    /\ \E af \in ActionsFile, mayWrite \in BOOLEAN :
         LET plan == planDomains(filing.id # 0, filing.prev, af)
         IN  filing' = IF plan = "nothing" \/ ~mayWrite THEN NotFiling
                       ELSE [filing EXCEPT !.pc = IF plan = "create" THEN "create" ELSE "comment",
                                           !.plan = plan, !.list = af.list, !.bad = af.bad]
    /\ JiraUnchanged

\* Mutant: a create whose answer was lost is tried again.
CreatesAgain ==
    /\ filing.pc = "create" /\ Len(lockdowns) < MaxLockdowns
    /\ lockdowns' = Append(lockdowns, [open |-> TRUE, prop |-> NoProperty, reopened |-> FALSE])
    /\ heard' = Append(heard, filing.list)
    /\ \/ filing' = [filing EXCEPT !.pc = "record", !.id = Len(lockdowns) + 1]
       \/ JiraFails /\ UNCHANGED filing
\* A continuation comment Jira refuses is only a warning here: the ticket
\* exists.  When the answer itself is lost the run takes it for failed.
CreateLockdown ==
    /\ filing.pc = "create" /\ Len(lockdowns) < MaxLockdowns
    /\ lockdowns' = Append(lockdowns, [open |-> TRUE, prop |-> NoProperty, reopened |-> FALSE])
    /\ heard' = Append(heard, filing.list)
    /\ \/ filing' = [filing EXCEPT !.pc = "record", !.id = Len(lockdowns) + 1]
       \/ JiraFails /\ Ends

\* The list, or "nothing in this ticket is left to change".
CommentLockdown ==
    /\ filing.pc = "comment"
    /\ heard' = [heard EXCEPT ![filing.id] = IF filing.plan = "done" THEN Finished ELSE filing.list]
    /\ \/ filing' = [filing EXCEPT !.pc = "record"]
       \/ JiraFails /\ Ends
    /\ UNCHANGED lockdowns

\* State last.
RecordLockdown ==
    /\ filing.pc = "record"
    /\ lockdowns' = [lockdowns EXCEPT ![filing.id].prop =
                        [hash |-> filing.list, resolved |-> filing.plan = "done"]]
    /\ Ends /\ UNCHANGED heard

RecordFails ==
    /\ filing.pc = "record" /\ JiraFails
    /\ Ends /\ JiraUnchanged

Killed ==
    /\ filing.pc # "idle" /\ Kills
    /\ Ends /\ JiraUnchanged

\* A person closes or reopens a ticket.
MoveLockdown(i) ==
    /\ lockdowns' = [lockdowns EXCEPT ![i].open = ~@,
                                      ![i].reopened = @ \/ ~lockdowns[i].open]
    /\ UNCHANGED <<filing, heard>>

LockdownInit ==
    /\ lockdowns = <<>>
    /\ filing = NotFiling
    /\ heard = <<>>

LockdownNext ==
    \/ SearchLockdown \/ GetLockdownProperty \/ CallFails \/ Plan
    \/ CreateLockdown \/ CommentLockdown \/ RecordLockdown \/ RecordFails \/ Killed
    \/ \E i \in Ids : MoveLockdown(i)

LockdownSpec == LockdownInit /\ [][LockdownNext]_lockdownVars

-----------------------------------------------------------------------------
LockdownTypeOK ==
    /\ lockdowns \in Seq(Lockdown) /\ Len(lockdowns) <= MaxLockdowns
    /\ heard \in Seq((Lists \ {{}}) \cup {Finished}) /\ Len(heard) = Len(lockdowns)
    /\ filing.pc \in {"idle", "property", "plan", "create", "comment", "record"}
    /\ filing.id \in {0} \cup Ids /\ filing.list \subseteq Domains

\* "ONE LOCK-DOWN TICKET, NOT ONE PER DOMAIN": two are open at once only when
\* a person reopened the earlier one, whatever was lost or cut off.
OneLockdownTicket ==
    \A i, j \in Ids : i < j /\ lockdowns[i].open /\ lockdowns[j].open => lockdowns[i].reopened

RecordedFor(i) ==
    /\ lockdowns[i].prop # NoProperty
    /\ IF heard[i] = Finished THEN lockdowns[i].prop.resolved
       ELSE lockdowns[i].prop = [hash |-> heard[i], resolved |-> FALSE]

\* "a comment ONLY when the list of changes is different from the last one it
\* posted ... told so once": StandingTicket, read off the tickets.
LockdownStanding == INSTANCE StandingTicket WITH
    Tickets  <- 1 .. MaxLockdowns,
    Lists    <- Lists \ {{}},
    said     <- [i \in 1 .. MaxLockdowns |-> IF i \in Ids THEN heard[i] ELSE Unfiled],
    recorded <- [i \in 1 .. MaxLockdowns |-> i \in Ids /\ RecordedFor(i)]
LockdownTellsNews == LockdownStanding!Spec

\* "found every domain matching its profile: nothing in this ticket is left
\* to change": said only in a week in which that is what the survey met.
FinishedIsTrue ==
    [][\A i \in Ids : heard'[i] = Finished /\ heard[i] # Finished => filing.bad = {}]_lockdownVars
=============================================================================
