----------------------------- MODULE AppTickets -----------------------------
(***************************************************************************)
(* The application tickets: cmd/cti-jira run with --appscan-tickets on the *)
(* file cti-appscan wrote (run-appscan, once a week), and at the end of    *)
(* the run the closing of the tickets of applications the scanner no       *)
(* longer defines.                                                         *)
(*                                                                         *)
(* A run takes the file's applications one by one: it searches the open    *)
(* ticket by label, reads from its property what the ticket was last told, *)
(* and files, comments, says that nothing is left, or does nothing.  The   *)
(* fleet keeps nothing else: every step is a Jira call that may fail,      *)
(* before or after it took effect, and people close and reopen tickets     *)
(* while a run is going on.                                                *)
(*                                                                         *)
(* What the file says of an application is chosen when its turn comes, and *)
(* the scanner's list when the retirements are judged: nothing reads them  *)
(* earlier.  A finding set stands for its hash.  Left out: wording, the    *)
(* attachments, watchers and the link to the application's last closed     *)
(* ticket (all best effort: a failure only logs), the stored finding keys  *)
(* (they only choose what a comment lists as new), --appscan-test and      *)
(* --appscan-close-test.                                                   *)
(***************************************************************************)
EXTENDS Integers, FiniteSets, Sequences

CONSTANTS
    Apps,               \* web applications, by scanner id
    FindingsOf,         \* application -> the finding sets its scans may list
    MaxRetirePerRun,    \* tickets one run closes at most (3)
    RetireSearchMax,    \* page of open tickets it judges from (100)
    MaxTickets,         \* bound: tickets the project can hold
    NoState,            \* a ticket with no property
    Finished,           \* what a ticket is told when nothing is left
    Unfiled,            \* no ticket yet
    CallsFail,          \* any Jira call may fail
    Crashes             \* a run may be cut off between two calls

ASSUME ConstantsAssumption ==
    /\ \A a \in Apps : IsFiniteSet(FindingsOf[a]) /\ {} \in FindingsOf[a]
    /\ \A a \in Apps : \A f \in FindingsOf[a] : IsFiniteSet(f)
    /\ MaxRetirePerRun \in Nat \ {0} /\ RetireSearchMax \in Nat \ {0} /\ MaxTickets \in Nat
    /\ {CallsFail, Crashes} \subseteq BOOLEAN

VARIABLES
    tickets,    \* the Jira project, oldest ticket first
    run,        \* the local state of the cti-jira process
    told,       \* observer: what each ticket's readers were last told
    ref         \* observer: the --ref-out entry this very step wrote

vars == <<tickets, run, told, ref>>

-----------------------------------------------------------------------------
(* Data.                                                                   *)

Findings == UNION {FindingsOf[a] : a \in Apps}

\* appscanState, the issue property.  A ticket without one reads as the zero
\* state, whose empty hash equals no list that has findings.
AppscanState == {s \in [hash : Findings, resolved : BOOLEAN] : s.hash # {} \/ s.resolved}
ZeroState == [hash |-> {}, resolved |-> FALSE]
ASSUME StatesAssumption == NoState \notin AppscanState

\* reopened: a person reopened it, so two can be open at once.
Ticket == [app : Apps, open : BOOLEAN, prop : AppscanState \cup {NoState},
           reopened : BOOLEAN]

Said == (Findings \ {{}}) \cup {Finished}

\* The applications named by the file so far: scanned.  queue: tickets still
\* to close; judged: how many open tickets the retirement was judged on.
NotRunning ==
    [pc |-> "idle", todo |-> {}, app |-> "none", f |-> {}, id |-> 0, prev |-> ZeroState,
     plan |-> "nothing", routed |-> FALSE,
     scanned |-> {}, list |-> {}, judged |-> 0, queue |-> {}, closed |-> 0]

NoRef == [action |-> "no ref", id |-> 0, f |-> {}]

Ids == DOMAIN tickets
OpenFor(a) == {i \in Ids : tickets[i].app = a /\ tickets[i].open}
Newest(is) == IF is = {} THEN 0 ELSE CHOOSE i \in is : \A j \in is : j <= i
IdKeyedOpen == {i \in Ids : tickets[i].open}

PropOf(i) == IF tickets[i].prop = NoState THEN ZeroState ELSE tickets[i].prop
\* The run knows a ticket for the fleet's own by its property alone.
fleetFiled(i) == tickets[i].prop # NoState

-----------------------------------------------------------------------------
(* The decision: planApp.                                                  *)

\* Mutants: an empty list is news every week; the stored list is not looked at.
ForgetsResolved(open, prev, f) ==
    CASE ~open /\ f = {}          -> "nothing"
      [] ~open /\ f # {}          -> "create"
      [] open /\ f = {}           -> "done"
      [] open /\ f # {} /\ prev.hash = f -> "nothing"
      [] OTHER                    -> "comment"
KeepsQuiet(open, prev, f) ==
    CASE ~open /\ f # {}          -> "create"
      [] open /\ f = {} /\ ~prev.resolved -> "done"
      [] open /\ f # {} /\ prev.hash = {} -> "comment"
      [] OTHER                    -> "nothing"
planApp(open, prev, f) ==
    CASE ~open /\ f = {}          -> "nothing"
      [] ~open /\ f # {}          -> "create"
      [] open /\ f = {} /\ prev.resolved -> "nothing"
      [] open /\ f = {} /\ ~prev.resolved -> "done"
      [] open /\ f # {} /\ prev.hash = f -> "nothing"
      [] open /\ f # {} /\ prev.hash # f -> "comment"

\* Mutant: the state is made from what the list was.
RecordsBefore(plan, prev, f) == [hash |-> prev.hash, resolved |-> plan = "done"]
\* What SetProperty writes.  The ticket that was told nothing is left keeps
\* the list it was told before.
StateToRecord(plan, prev, f) ==
    IF plan = "done" THEN [hash |-> prev.hash, resolved |-> TRUE]
    ELSE [hash |-> f, resolved |-> FALSE]

-----------------------------------------------------------------------------
(* The decision: planRetire.                                               *)

\* Mutants: whatever is missing from the list goes; the list need not know
\* the applications of this very run.
ClosesThemAll(open, own, list, scanned) == {i \in open \cap own : tickets[i].app \notin list}
TrustsTheList(open, own, list, scanned) ==
    LET gone == {i \in open \cap own : tickets[i].app \notin list}
    IN  IF \/ list = {} \/ Cardinality(open) >= RetireSearchMax
           \/ Cardinality(gone) > MaxRetirePerRun
           \/ Cardinality(gone) > 1 /\ 2 * Cardinality(gone) > Cardinality(open)
        THEN {} ELSE gone
planRetire(open, own, list, scanned) ==
    LET gone == {i \in open \cap own : tickets[i].app \notin list}
    IN  IF \/ list = {} \/ Cardinality(open) >= RetireSearchMax
           \/ ~(scanned \subseteq list)
           \/ Cardinality(gone) > MaxRetirePerRun
           \/ Cardinality(gone) > 1 /\ 2 * Cardinality(gone) > Cardinality(open)
        THEN {} ELSE gone
-----------------------------------------------------------------------------
(* The run.                                                                *)

Quiet == ref' = NoRef
JiraUnchanged == UNCHANGED <<tickets, told>>

NextApp(R) == [R EXCEPT !.pc = "apps", !.app = "none", !.f = {}, !.id = 0,
                        !.prev = ZeroState, !.plan = "nothing", !.routed = FALSE]
Ref(action, id, f) == [action |-> action, id |-> id, f |-> f]

\* The process ends this application and says what came of it.
AnswersFor(f, action, id) ==
    /\ run' = NextApp(run)
    /\ ref' = Ref(action, id, f)
Answers(action, id) == AnswersFor(run.f, action, id)

StartRun ==
    /\ run.pc = "idle"
    /\ \E named \in SUBSET Apps : run' = [NotRunning EXCEPT !.pc = "apps", !.todo = named]
    /\ Quiet /\ JiraUnchanged

\* The file lists its applications in a fixed order.
Turn == CHOOSE a \in run.todo : TRUE
Taken == [run EXCEPT !.todo = @ \ {Turn}, !.scanned = @ \cup {Turn}]

\* AppTicket.Skip: the scan cannot be trusted to say what is fixed.
SkipApp ==
    /\ run.pc = "apps" /\ run.todo # {}
    /\ run' = Taken
    /\ ref' = Ref("skipped", 0, {})
    /\ JiraUnchanged

SearchFails ==
    /\ run.pc = "apps" /\ run.todo # {} /\ CallsFail
    /\ run' = Taken
    /\ ref' = Ref("error", 0, {})
    /\ JiraUnchanged

\* The open tickets with the application's label, the newest of them taken.
SearchTicket ==
    /\ run.pc = "apps" /\ run.todo # {}
    /\ run' = [Taken EXCEPT !.pc = IF OpenFor(Turn) = {} THEN "plan" ELSE "property",
                            !.app = Turn, !.id = Newest(OpenFor(Turn))]
    /\ Quiet /\ JiraUnchanged

GetProperty ==
    /\ run.pc = "property"
    /\ run' = [run EXCEPT !.pc = "plan", !.prev = PropOf(run.id)]
    /\ Quiet /\ JiraUnchanged

\* "Unknown is not never posted": the ticket is left alone.
GetPropertyFails ==
    /\ run.pc = "property" /\ CallsFail
    /\ Answers("error", run.id)
    /\ JiraUnchanged

PlanFor(f) == planApp(run.id # 0, run.prev, f)

LeaveAlone ==
    /\ run.pc = "plan"
    /\ \E f \in FindingsOf[run.app] :
         /\ PlanFor(f) = "nothing"
         /\ AnswersFor(f, IF run.id = 0 THEN "none"
                          ELSE IF run.prev.resolved THEN "resolved" ELSE "unchanged", run.id)
    /\ JiraUnchanged

\* A dry run, and a run with JIRA_ALLOW_CREATE shut, say what they would do
\* (here of each application by itself: more than such a run can do).
OnlyPreview ==
    /\ run.pc = "plan"
    /\ \E f \in FindingsOf[run.app] :
         PlanFor(f) # "nothing" /\ AnswersFor(f, "not written", run.id)
    /\ JiraUnchanged

\* The owner's account or the component make a create Jira may refuse.
GoAhead ==
    /\ run.pc = "plan"
    /\ \E f \in FindingsOf[run.app] :
         /\ PlanFor(f) # "nothing"
         /\ \E routed \in IF PlanFor(f) = "create" THEN BOOLEAN ELSE {FALSE} :
              run' = [run EXCEPT !.pc = IF PlanFor(f) = "create" THEN "create" ELSE "comment",
                                 !.f = f, !.plan = PlanFor(f), !.routed = routed]
    /\ Quiet /\ JiraUnchanged

\* The issue is filed.  When the answer is lost (a timeout, a 5xx, a refused
\* continuation comment) the run takes the create for failed and stops there.
CreateIssue ==
    /\ run.pc = "create" /\ Len(tickets) < MaxTickets
    /\ tickets' = Append(tickets, [app |-> run.app, open |-> TRUE, prop |-> NoState,
                                   reopened |-> FALSE])
    /\ told' = Append(told, run.f)
    /\ \/ /\ run' = [run EXCEPT !.pc = "record", !.id = Len(tickets) + 1]
          /\ Quiet
       \/ CallsFail /\ Answers("error", 0)

\* Mutant: a second try after any failure, which may have filed the first.
TriesAgain ==
    /\ run.pc = "create" /\ CallsFail /\ Len(tickets) < MaxTickets
    /\ \/ UNCHANGED <<tickets, told>>
       \/ /\ tickets' = Append(tickets, [app |-> run.app, open |-> TRUE, prop |-> NoState,
                                         reopened |-> FALSE])
          /\ told' = Append(told, run.f)
    /\ \/ run.routed /\ run' = [run EXCEPT !.routed = FALSE] /\ Quiet
       \/ ~run.routed /\ Answers("error", 0)

\* 400: nothing was created.  Once more without assignee and component.
CreateRefused ==
    /\ run.pc = "create" /\ CallsFail
    /\ \/ run.routed /\ run' = [run EXCEPT !.routed = FALSE] /\ Quiet
       \/ ~run.routed /\ Answers("error", 0)
    /\ JiraUnchanged

\* Anything else: no second try, it may exist.
CreateFails ==
    /\ run.pc = "create" /\ CallsFail
    /\ Answers("error", 0)
    /\ JiraUnchanged

\* AddComment, with the findings or with "this ticket can be closed".  Its
\* answer can be lost after its readers have it.
AddComment ==
    /\ run.pc = "comment"
    /\ told' = [told EXCEPT ![run.id] = IF run.plan = "done" THEN Finished ELSE run.f]
    /\ \/ run' = [run EXCEPT !.pc = "record"] /\ Quiet
       \/ CallsFail /\ Answers("error", run.id)
    /\ UNCHANGED tickets

CommentFails ==
    /\ run.pc = "comment" /\ CallsFail
    /\ Answers("error", run.id)
    /\ JiraUnchanged

Outcome == CASE run.plan = "create"  -> "created"
             [] run.plan = "comment" -> "commented"
             [] run.plan = "done"    -> "resolved"

\* State last: SetProperty, whose failure only logs.
SetProperty ==
    /\ run.pc = "record"
    /\ tickets' = [tickets EXCEPT ![run.id].prop = StateToRecord(run.plan, run.prev, run.f)]
    /\ Answers(Outcome, run.id)
    /\ UNCHANGED told

SetPropertyFails ==
    /\ run.pc = "record" /\ CallsFail
    /\ Answers(Outcome, run.id)
    /\ JiraUnchanged

EndApps ==
    /\ run.pc = "apps" /\ run.todo = {}
    /\ run' = [run EXCEPT !.pc = "retire"]
    /\ Quiet /\ JiraUnchanged

\* retireOrphans: judged on one page of open tickets, on those whose property
\* could be read, and on the list of applications cti-appscan got from the
\* scanner: all of them, a part if its account lost sight of the others, or
\* none, which is also a fetch that failed and a file more than a day old.
\* It closes nothing in a dry run or outside JIRA_ALLOW_CLOSE.
JudgeRetired ==
    /\ run.pc = "retire"
    /\ \/ run' = NotRunning
       \/ \E list \in SUBSET Apps,
             own \in LET mine == {i \in IdKeyedOpen : fleetFiled(i)}
                     IN  IF CallsFail THEN SUBSET mine ELSE {mine} :
            LET queue == planRetire(IdKeyedOpen, own, list, run.scanned)
            IN  /\ queue # {}
                /\ run' = [run EXCEPT !.pc = "close", !.list = list, !.queue = queue,
                                      !.judged = Cardinality(IdKeyedOpen)]
    /\ Quiet /\ JiraUnchanged

RetireSearchFails ==
    /\ run.pc = "retire" /\ CallsFail
    /\ run' = NotRunning
    /\ Quiet /\ JiraUnchanged

Oldest(is) == CHOOSE i \in is : \A j \in is : i <= j

\* closeTicket: the comment goes in the transition's own request.
CloseTicket ==
    /\ run.pc = "close" /\ run.queue # {}
    /\ LET i == Oldest(run.queue)
       IN  /\ tickets[i].open
           /\ tickets' = [tickets EXCEPT ![i].open = FALSE]
           /\ run' = [run EXCEPT !.queue = @ \ {i}, !.closed = @ + 1]
    /\ Quiet /\ UNCHANGED told

\* No transition, an ambiguous one, a field it cannot fill, a refusal; or a
\* person was faster.
CloseFails ==
    /\ run.pc = "close" /\ run.queue # {}
    /\ LET i == Oldest(run.queue)
       IN  /\ CallsFail \/ ~tickets[i].open
           /\ run' = [run EXCEPT !.queue = @ \ {i}]
    /\ Quiet /\ JiraUnchanged

EndRun ==
    /\ run.pc = "close" /\ run.queue = {}
    /\ run' = NotRunning
    /\ Quiet /\ JiraUnchanged

\* TimeoutStartSec, a kill or a power cut.
Crash ==
    /\ run.pc # "idle" /\ Crashes
    /\ run' = NotRunning
    /\ Quiet /\ JiraUnchanged

-----------------------------------------------------------------------------
(* The rest of the world.                                                  *)

\* A person closes or reopens a ticket.
MoveTicket(i) ==
    /\ tickets' = [tickets EXCEPT ![i].open = ~@, ![i].reopened = @ \/ ~tickets[i].open]
    /\ Quiet /\ UNCHANGED <<run, told>>

-----------------------------------------------------------------------------
Init ==
    /\ tickets = <<>>
    /\ run = NotRunning
    /\ told = <<>>
    /\ ref = NoRef

Step ==
    \/ StartRun \/ EndApps \/ GetProperty \/ GetPropertyFails
    \/ SkipApp \/ SearchTicket \/ SearchFails \/ LeaveAlone \/ OnlyPreview \/ GoAhead
    \/ CreateIssue \/ CreateRefused \/ CreateFails \/ AddComment \/ CommentFails
    \/ SetProperty \/ SetPropertyFails
    \/ JudgeRetired \/ RetireSearchFails \/ CloseTicket \/ CloseFails \/ EndRun
    \/ Crash

World ==
    \E i \in Ids : MoveTicket(i)

Next == Step \/ World

Spec == Init /\ [][Next]_vars

-----------------------------------------------------------------------------
(* Safety.                                                                 *)

TypeOK ==
    /\ tickets \in Seq(Ticket) /\ Len(tickets) <= MaxTickets
    /\ told \in Seq(Said) /\ Len(told) = Len(tickets)
    /\ run.pc \in {"idle", "apps", "property", "plan", "create", "comment", "record",
                   "retire", "close"}
    /\ run.id \in {0} \cup Ids /\ run.queue \subseteq Ids

\* "One open ticket per application": two are open at once only when a person
\* reopened the earlier one; creates that were refused and retried, whose
\* answer was lost, or that a kill cut off never file a second.
OneOpenTicket ==
    \A i, j \in Ids : /\ i < j /\ tickets[i].app = tickets[j].app
                      /\ tickets[i].open /\ tickets[j].open
                      => tickets[i].reopened

\* The ticket's property says what its readers were last told.
Recorded(i) ==
    /\ tickets[i].prop # NoState
    /\ IF told[i] = Finished THEN tickets[i].prop.resolved
       ELSE tickets[i].prop = [hash |-> told[i], resolved |-> FALSE]

\* "commented only when that set of findings changed, and told once when
\* nothing is left": StandingTicket, read off the tickets.
Standing == INSTANCE StandingTicket WITH
    Tickets  <- 1 .. MaxTickets,
    Lists    <- Findings \ {{}},
    said     <- [i \in 1 .. MaxTickets |-> IF i \in Ids THEN told[i] ELSE Unfiled],
    recorded <- [i \in 1 .. MaxTickets |-> i \in Ids /\ Recorded(i)]
TellsNews == Standing!Spec

\* When the run says a ticket is up to date, was commented or was filed, its
\* readers have this week's findings, unless an earlier record was lost.
UpToDate ==
    ref.action \in {"created", "commented", "unchanged"} =>
        told[ref.id] = ref.f \/ ~Recorded(ref.id)

\* A run closes no ticket of an application it was itself given, or that the
\* list it judged by names, however much of the scanner that list shows.
ClosesOnlyGone ==
    [][\A i \in Ids : run.pc = "close" /\ run' # run /\ tickets[i].open /\ ~tickets'[i].open =>
          tickets[i].app \notin run.scanned \cup run.list /\ tickets[i].prop # NoState]_vars

\* "a fault must not close the queue": a scanner that shows none or few of
\* its applications costs a few tickets at most, and never most of them.
QueueSurvives ==
    /\ run.closed <= MaxRetirePerRun
    /\ run.closed > 1 => 2 * run.closed <= run.judged

\* "if the same findings come back, they are reported as back": a run that
\* says of a ticket that nothing is left found nothing.
ResolvedIsTrue == ref.action = "resolved" => ref.f = {}
=============================================================================
