----------------------------- MODULE CveTickets -----------------------------
(***************************************************************************)
(* The CVE ticket lane: cmd/cti-jira run with --from-enriched and          *)
(* --follow-up, over internal/jira.  A run looks today's findings up in    *)
(* the scanner, files a ticket for each CVE that has none, and then        *)
(* re-checks every fleet ticket, commenting when the exposure changed      *)
(* enough to say so.                                                       *)
(*                                                                         *)
(* What a run remembers about a ticket it keeps ON the ticket, in a Jira   *)
(* issue property.  So a run is a sequence of separate Jira calls (search, *)
(* read the property, comment, write the property), each of which may fail *)
(* before or after it took effect, and between any two of which the        *)
(* estate, the KnowledgeBase and the people working the ticket move.       *)
(*                                                                         *)
(* Time is counted in days.  The program compares one pair of instants     *)
(* only, now and LastReportedAt + GrowthInterval, so an instant is held    *)
(* here as its age, capped at GrowthInterval; a run takes at most fifteen  *)
(* minutes (its context deadline) and no day passes inside one.            *)
(*                                                                         *)
(* Left out: wording, the CSV attachment (its failure only logs), the      *)
(* ticket map written for the digest, --test-ticket, and the tickets the   *)
(* follow-up leaves alone (the domains lock-down ticket, tickets whose     *)
(* CVE label somebody removed).                                            *)
(***************************************************************************)
EXTENDS Integers, FiniteSets, Sequences

CONSTANTS
    CVEs, Hosts, Qids,
    Runs,               \* cti-jira processes: the timer's, an operator's
    GrowthInterval,     \* days between two host-change comments (7)
    MaxPropertyHosts,   \* longest host list the property keeps (800)
    FollowUpMax,        \* tickets one follow-up looks at (200)
    MaxTickets,         \* bound: tickets the project can hold
    NoState,            \* a ticket with no exposure property
    DryRuns,            \* runs that may not write are started too
    Overlap,            \* two runs may be active at once
    ReadFails,          \* reading the property may fail
    WriteFails,         \* a search, create, comment or property write may fail
    Crashes,            \* a run may be cut off between two calls
    LookupFails,        \* the scanner may not answer
    Truncates,          \* the scanner may return fewer names than hosts
    PagesLost           \* a later page of its answer may not be read

ASSUME ConstantsAssumption ==
    /\ GrowthInterval \in Nat \ {0}
    /\ MaxPropertyHosts \in Nat
    /\ FollowUpMax \in Nat \ {0}
    /\ MaxTickets \in Nat
    /\ {DryRuns, Overlap, ReadFails, WriteFails, Crashes, LookupFails, Truncates, PagesLost}
          \subseteq BOOLEAN
    /\ IsFiniteSet(Hosts)
    /\ CVEs # {}

VARIABLES
    detected,   \* CVE -> hosts the scanner detects it on
    mapped,     \* CVE -> QIDs the KnowledgeBase maps it to
    tickets,    \* the Jira project, oldest ticket first
    run,        \* the local state of each cti-jira process
    ledger,     \* observer: per ticket, what its readers have been told
    said        \* observer: the comments this very step put on tickets

vars == <<detected, mapped, tickets, run, ledger, said>>

-----------------------------------------------------------------------------
(* Data.                                                                   *)

\* LastReportedAt unset.
Never == GrowthInterval + 1
Ages == 0 .. GrowthInterval

\* jira.Finding: the names the scanner returned, its count (Finding.Count)
\* and the QIDs.  A count of 0 in a run's findings is a CVE not selected.
Finding == [hosts : SUBSET Hosts, count : Nat, qids : SUBSET Qids]
NoFinding == [hosts |-> {}, count |-> 0, qids |-> {}]

\* jira.ExposureState, the issue property.
StateFields == [hosts : SUBSET Hosts, kept : BOOLEAN, count : Nat,
                qids : SUBSET Qids,
                noted : BOOLEAN,              \* ClosedButDetectedAt set
                age : Ages \cup {Never}]      \* of LastReportedAt

\* Jira caps a property at 32 KB, so a long host list is not kept in it.
ExposureState == {s \in StateFields : Cardinality(s.hosts) <= MaxPropertyHosts}

ASSUME NoStateAssumption == NoState \notin StateFields

Ticket == [cve : CVEs, done : BOOLEAN, state : ExposureState \cup {NoState}]

\* What a ticket's readers know.  told: hosts a filing or a comment covered.
\* adopted: hosts recorded by the first look at a ticket with no property.
\* age: of the last host report.  clear: that report said none remain.
\* sure: the last report was recorded on the ticket.  note: the "closed but
\* still detected" comment was never made, made but not recorded, recorded.
Readers == [told : SUBSET Hosts, adopted : SUBSET Hosts, age : Ages,
            clear : BOOLEAN, sure : BOOLEAN,
            note : {"no", "unrecorded", "recorded"}]

\* The hosts on the pages that were read, when a later one may be lost.
getAllPages(hosts) == IF PagesLost THEN SUBSET hosts ELSE {hosts}

\* The names kept of the hosts read, and the counts: with names cut the count
\* is a floor, no less than the longest of the QIDs' lists.
parseHostDetections(seen, qids) ==
    {d \in (IF Truncates THEN SUBSET seen ELSE {seen}) \X (0 .. Cardinality(seen)) :
        /\ seen # {} => d[2] > 0
        /\ d[2] >= Cardinality(d[1])
        /\ d[2] * Cardinality(qids) >= Cardinality(seen)}

\* Every answer LookupCVE can give now.  One that could not be had says
\* UNKNOWN and carries no hosts, exactly as an estate without any would.
LookupCVE(c) ==
    LET unknown(qs) == [status |-> "UNKNOWN", hosts |-> {}, count |-> 0, qids |-> qs]
        answer(seen, d) == [status |-> IF seen = {} THEN "NOT_PRESENT" ELSE "PRESENT",
                            hosts |-> d[1], count |-> d[2], qids |-> mapped[c]]
    IN  IF mapped[c] = {} THEN {unknown({})}
        ELSE (UNION {{answer(seen, d) : d \in parseHostDetections(seen, mapped[c])} :
                     seen \in getAllPages(detected[c])})
             \cup IF LookupFails THEN {unknown(mapped[c])} ELSE {}

\* Mutant: counts the names it was given.
CountsNames(res) == [hosts |-> res.hosts, count |-> Cardinality(res.hosts), qids |-> res.qids]
applyLookup(res) == [hosts |-> res.hosts, count |-> res.count, qids |-> res.qids]

\* Mutants: an answer that could not be had counts; a fixed CVE is skipped.
TrustsUnknown(res) == res.status \in {"PRESENT", "NOT_PRESENT", "UNKNOWN"}
PresentOnly(res) == res.status = "PRESENT"
\* Whether a scanner answer may be compared with a ticket at all.
followUpVerdict(res) == res.status \in {"PRESENT", "NOT_PRESENT"}

\* Mutant: keeps the host list however long it is.
KeepsEveryHost(f, noted, age) ==
    [hosts |-> f.hosts, kept |-> TRUE, count |-> f.count, qids |-> f.qids,
     noted |-> noted, age |-> age]
StateFrom(f, noted, age) ==
    LET keep == /\ Cardinality(f.hosts) <= MaxPropertyHosts
                /\ f.hosts # {} \/ f.count = 0
    IN  [hosts |-> IF keep THEN f.hosts ELSE {}, kept |-> keep, count |-> f.count,
         qids |-> f.qids, noted |-> noted, age |-> age]

-----------------------------------------------------------------------------
(* The decision: DiffExposure, holdGrowth, Material and planUpdate.        *)

\* Mutant: zero is news however long it has been zero.
ZeroIsResolved(prev, f) == f.count = 0
Resolved(prev, f) == f.count = 0 /\ prev.count > 0
NewQIDs(prev, f) == f.qids \ prev.qids
Grew(prev, f) == IF prev.kept THEN f.hosts \ prev.hosts # {} ELSE f.count > prev.count

\* Mutants: the interval ends a day early; growth is held for good.
HoldsADayLess(prev, f) ==
    Grew(prev, f) /\ prev.count # 0 /\ (prev.age = Never \/ prev.age + 1 < GrowthInterval)
HoldsForGood(prev, f) == Grew(prev, f) /\ prev.count # 0
holdGrowth(prev, f) ==
    /\ Grew(prev, f)
    /\ prev.count # 0
    /\ prev.age = Never \/ prev.age < GrowthInterval

\* State from before LastReportedAt existed (or a first look's): hold the
\* growth and start the clock.
StartClock(prev, f) == holdGrowth(prev, f) /\ prev.age = Never

Material(prev, f) ==
    \/ Resolved(prev, f)
    \/ NewQIDs(prev, f) # {}
    \/ Grew(prev, f) /\ ~holdGrowth(prev, f)

planUpdate(done, prev, f) ==
    IF done /\ f.count > 0
    THEN IF prev # NoState /\ prev.noted THEN "closedNoted" ELSE "closedComment"
    ELSE IF prev = NoState \/ ~Material(prev, f) THEN "recordOnly" ELSE "comment"

\* Mutants: every look refreshes the stored state; a comment drops the
\* closed-note stamp.
RecordsEveryLook(plan, prev, f) ==
    IF plan = "closedNoted" THEN NoState
    ELSE IF plan = "file" \/ prev = NoState
    THEN StateFrom(f, plan = "closedComment", IF plan = "file" THEN 0 ELSE Never)
    ELSE StateFrom(f, plan = "closedComment" \/ prev.noted,
                   IF plan = "comment" \/ StartClock(prev, f) THEN 0 ELSE prev.age)
ForgetsClosedNote(plan, prev, f) ==
    CASE plan \in {"file", "comment"} -> StateFrom(f, FALSE, 0)
      [] plan = "closedComment" ->
             StateFrom(f, TRUE, IF prev = NoState THEN Never ELSE prev.age)
      [] plan = "recordOnly" ->
             IF prev = NoState THEN StateFrom(f, FALSE, Never)
             ELSE IF StartClock(prev, f) THEN [prev EXCEPT !.age = 0]
             ELSE NoState
      [] OTHER -> NoState

\* What the plan writes to the property; NoState when it writes nothing.
StateToRecord(plan, prev, f) ==
    CASE plan = "file" -> StateFrom(f, FALSE, 0)
      [] plan = "closedComment" ->
             StateFrom(f, TRUE, IF prev = NoState THEN Never ELSE prev.age)
      [] plan = "comment" -> StateFrom(f, prev.noted, 0)
      [] plan = "recordOnly" ->
             IF prev = NoState THEN StateFrom(f, FALSE, Never)
             ELSE IF StartClock(prev, f) THEN [prev EXCEPT !.age = 0]
             ELSE NoState
      [] OTHER -> NoState

-----------------------------------------------------------------------------
(* Runs.                                                                   *)

\* pc          the Jira or scanner call the run makes next
\* forReal, gate, followUp   flags and configuration, read once
\* rows        today's rows that should file, not yet looked up
\* auto        rows it may file: on KEV or at CVSS 9.0 and up, all with --approve
\* findings    what selection kept;  handled: what the morning path is done with
\* queue, closed   the follow-up's search result and its tickets then done
\* cve, id, done, f, prev, plan   the ticket being worked on
\* following   the ticket came from the follow-up and not from today's mail
\* sawZero, absent   observers: the lookup found an estate with no
\*                   detection; the property really was absent when read
Run == [pc : {"idle", "select", "file", "create", "read", "comment", "record",
              "search", "check"},
        forReal : BOOLEAN, gate : BOOLEAN, followUp : BOOLEAN,
        rows : SUBSET CVEs, auto : SUBSET CVEs, findings : [CVEs -> Finding],
        handled : SUBSET CVEs, queue : SUBSET Nat, closed : SUBSET Nat,
        cve : CVEs, id : Nat, done : BOOLEAN, f : Finding,
        prev : ExposureState \cup {NoState},
        plan : {"none", "file", "closedNoted", "closedComment", "recordOnly", "comment"},
        following : BOOLEAN, sawZero : BOOLEAN, absent : BOOLEAN]

\* A process that is not running.  Locals of no interest hold these values.
NotRunning ==
    [pc |-> "idle", forReal |-> FALSE, gate |-> FALSE,
     followUp |-> FALSE, rows |-> {}, auto |-> {},
     findings |-> [c \in CVEs |-> NoFinding], handled |-> {}, queue |-> {},
     closed |-> {}, cve |-> CHOOSE c \in CVEs : TRUE, id |-> 0, done |-> FALSE,
     f |-> NoFinding, prev |-> NoState, plan |-> "none", following |-> FALSE,
     sawZero |-> FALSE, absent |-> FALSE]

TypeOK ==
    /\ detected \in [CVEs -> SUBSET Hosts]
    /\ mapped \in [CVEs -> SUBSET Qids]
    /\ tickets \in Seq(Ticket)
    /\ run \in [Runs -> Run]
    /\ ledger \in Seq(Readers)
    /\ Len(ledger) = Len(tickets)
    /\ said \in SUBSET [id : Nat, by : Runs, kind : {"closed", "clear", "qids", "hosts"}]

Oldest(S) == CHOOSE i \in S : \A j \in S : i <= j
Ids == 1 .. Len(tickets)
\* Mutant: only open tickets match.
OpenMatching(c) == {i \in Ids : tickets[i].cve = c /\ ~tickets[i].done}
Matching(c) == {i \in Ids : tickets[i].cve = c}            \* FindJQL
Pending(r) == {c \in CVEs : run[r].findings[c].count > 0} \ run[r].handled
\* Mutant: --for-real alone decides.
ForRealAlone(r) == run[r].forReal
Writes(r) == run[r].forReal /\ run[r].gate

\* The run record once the item in hand is dealt with: back to today's
\* findings or to the follow-up's queue.
NextItem(r) ==
    LET R == run[r]
    IN  [R EXCEPT !.pc = IF R.following THEN "check" ELSE "file",
                  !.handled = IF R.following THEN @ ELSE @ \cup {R.cve},
                  !.queue = @ \ {R.id},
                  !.cve = NotRunning.cve, !.id = 0, !.done = FALSE,
                  !.f = NoFinding, !.prev = NoState, !.plan = "none",
                  !.sawZero = FALSE, !.absent = FALSE]

\* A morning finding that needs no Jira call, or whose call failed.
Handled(r, c) == [run[r] EXCEPT !.handled = @ \cup {c}]

Quiet == said' = {}
JiraUnchanged == UNCHANGED <<tickets, ledger>>
WorldUnchanged == UNCHANGED <<detected, mapped>>

-----------------------------------------------------------------------------
(* The run's steps.                                                        *)

StartRun(r) ==
    /\ run[r].pc = "idle"
    /\ Overlap \/ \A q \in Runs : run[q].pc = "idle"
    /\ \E rows \in SUBSET CVEs, forReal, gate, followUp \in BOOLEAN :
       \E auto \in SUBSET rows :
       /\ DryRuns \/ (forReal /\ gate)
       /\ run' = [run EXCEPT ![r] =
                    [NotRunning EXCEPT !.pc = "select", !.rows = rows, !.auto = auto,
                                       !.forReal = forReal, !.gate = gate,
                                       !.followUp = followUp]]
    /\ Quiet /\ JiraUnchanged /\ WorldUnchanged

\* selectForTicketing, one row.  Only PRESENT, now, is kept; an answer that
\* could not be had drops the row.
Select(r) ==
    /\ run[r].pc = "select"
    /\ \E c \in run[r].rows : \E res \in LookupCVE(c) :
          run' = [run EXCEPT ![r].rows = @ \ {c},
                             ![r].findings[c] = IF res.status = "PRESENT"
                                                THEN applyLookup(res) ELSE NoFinding]
    /\ Quiet /\ JiraUnchanged /\ WorldUnchanged

Selected(r) ==
    /\ run[r].pc = "select" /\ run[r].rows = {}
    /\ run' = [run EXCEPT ![r].pc = "file"]
    /\ Quiet /\ JiraUnchanged /\ WorldUnchanged

\* fileOrUpdate up to its first write: search for the CVE's ticket (closed
\* ones count) and decide.  The oldest match is the ticket.
FileOrUpdate(r) ==
    /\ run[r].pc = "file"
    /\ \E c \in Pending(r) :
         LET found == Matching(c)
             i == Oldest(found)
             held == c \notin run[r].auto    \* NeedsApproval
         IN  run' = [run EXCEPT ![r] =
               IF found # {} /\ Writes(r)
               THEN [@ EXCEPT !.pc = "read", !.following = FALSE, !.cve = c, !.id = i,
                              !.done = tickets[i].done, !.f = run[r].findings[c]]
               ELSE IF found = {} /\ ~held /\ Writes(r)
               THEN [@ EXCEPT !.pc = "create", !.following = FALSE, !.cve = c,
                              !.f = run[r].findings[c]]
               ELSE Handled(r, c)]
    /\ Quiet /\ JiraUnchanged /\ WorldUnchanged

\* The search failed: that CVE is skipped, and the follow-up skips it too.
FileSearchFails(r) ==
    /\ run[r].pc = "file" /\ WriteFails
    /\ \E c \in Pending(r) : run' = [run EXCEPT ![r] = Handled(r, c)]
    /\ Quiet /\ JiraUnchanged /\ WorldUnchanged

\* Jira files the ticket.  The answer may be lost, or a continuation comment
\* refused: the ticket exists and the run takes the create for failed.
CreateIssue(r) ==
    /\ run[r].pc = "create" /\ Len(tickets) < MaxTickets
    /\ tickets' = Append(tickets, [cve |-> run[r].cve, done |-> FALSE, state |-> NoState])
    /\ ledger' = Append(ledger, [told |-> run[r].f.hosts, adopted |-> {}, age |-> 0,
                                 clear |-> FALSE, sure |-> FALSE, note |-> "no"])
    /\ \/ run' = [run EXCEPT ![r].pc = "record", ![r].plan = "file",
                             ![r].id = Len(tickets) + 1]
       \/ WriteFails /\ run' = [run EXCEPT ![r] = NextItem(r)]
    /\ Quiet /\ WorldUnchanged

CreateFails(r) ==
    /\ run[r].pc = "create" /\ WriteFails
    /\ run' = [run EXCEPT ![r] = NextItem(r)]
    /\ Quiet /\ JiraUnchanged /\ WorldUnchanged

\* storedState and planUpdate.  A property that cannot be read is taken for
\* one that is not there.
ReadState(r) ==
    /\ run[r].pc = "read"
    /\ \E prev \in {tickets[run[r].id].state} \cup IF ReadFails THEN {NoState} ELSE {} :
         LET plan == planUpdate(run[r].done, prev, run[r].f)
         IN  run' = [run EXCEPT ![r] =
               IF plan \in {"closedComment", "comment"}
               THEN [@ EXCEPT !.pc = "comment", !.plan = plan, !.prev = prev,
                              !.absent = tickets[run[r].id].state = NoState]
               ELSE IF StateToRecord(plan, prev, run[r].f) # NoState
               THEN [@ EXCEPT !.pc = "record", !.plan = plan, !.prev = prev,
                              !.absent = tickets[run[r].id].state = NoState]
               ELSE NextItem(r)]
    /\ Quiet /\ JiraUnchanged /\ WorldUnchanged

CommentKind(r) ==
    IF run[r].plan = "closedComment" THEN "closed"
    ELSE IF Resolved(run[r].prev, run[r].f) THEN "clear"
    ELSE IF NewQIDs(run[r].prev, run[r].f) # {} THEN "qids" ELSE "hosts"

\* What the comment does to its readers.
Told(L, kind, f) ==
    IF kind = "closed"
    THEN [L EXCEPT !.told = @ \cup f.hosts, !.note = "unrecorded"]
    ELSE [L EXCEPT !.told = @ \cup f.hosts, !.age = 0, !.clear = (f.count = 0),
                   !.sure = FALSE]

\* AddComment.  Part of a long comment, or the answer, can be lost: the
\* readers have it and the run takes it for failed.
AddComment(r) ==
    LET R == run[r] IN
    /\ R.pc = "comment"
    /\ ledger' = [ledger EXCEPT ![R.id] = Told(@, CommentKind(r), R.f)]
    /\ said' = {[id |-> R.id, by |-> r, kind |-> CommentKind(r)]}
    /\ \/ run' = [run EXCEPT ![r].pc = "record"]
       \/ WriteFails /\ run' = [run EXCEPT ![r] = NextItem(r)]
    /\ UNCHANGED tickets /\ WorldUnchanged

CommentFails(r) ==
    /\ run[r].pc = "comment" /\ WriteFails
    /\ run' = [run EXCEPT ![r] = NextItem(r)]
    /\ Quiet /\ JiraUnchanged /\ WorldUnchanged

\* What recording the state means for the readers' ledger.
Recorded(L, R) ==
    CASE R.plan \in {"file", "comment"} ->
             [L EXCEPT !.told = @ \cap R.f.hosts, !.adopted = {}, !.sure = TRUE]
      [] R.plan = "closedComment" ->
             [L EXCEPT !.told = @ \cap R.f.hosts, !.adopted = {}, !.clear = FALSE,
                       !.note = "recorded"]
      [] R.plan = "recordOnly" /\ R.prev = NoState /\ R.absent ->
             [L EXCEPT !.adopted = R.f.hosts]
      [] OTHER -> L

\* State last: SetProperty, whose failure only logs.
SetProperty(r) ==
    LET R == run[r] IN
    /\ R.pc = "record"
    /\ tickets' = [tickets EXCEPT ![R.id].state = StateToRecord(R.plan, R.prev, R.f)]
    /\ ledger' = [ledger EXCEPT ![R.id] = Recorded(@, R)]
    /\ run' = [run EXCEPT ![r] = NextItem(r)]
    /\ Quiet /\ WorldUnchanged

SetPropertyFails(r) ==
    /\ run[r].pc = "record" /\ WriteFails
    /\ run' = [run EXCEPT ![r] = NextItem(r)]
    /\ Quiet /\ JiraUnchanged /\ WorldUnchanged

EndFiling(r) ==
    /\ run[r].pc = "file" /\ Pending(r) = {}
    /\ run' = [run EXCEPT ![r] =
          IF @.followUp THEN [NotRunning EXCEPT !.pc = "search", !.following = TRUE,
                                !.forReal = run[r].forReal, !.gate = run[r].gate,
                                !.handled = run[r].handled]
          ELSE NotRunning]
    /\ Quiet /\ JiraUnchanged /\ WorldUnchanged

\* The follow-up's search: every open ticket, closed ones touched in the
\* last 30 days, oldest first, the first FollowUpMax of them.
FollowUpSearch(r) ==
    /\ run[r].pc = "search"
    /\ \E recent \in SUBSET {i \in Ids : tickets[i].done} :
         LET hits == {i \in Ids : ~tickets[i].done} \cup recent
             page == {i \in hits : Cardinality({j \in hits : j <= i}) <= FollowUpMax}
         IN  run' = [run EXCEPT ![r].pc = "check", ![r].queue = page,
                                ![r].closed = page \cap recent]
    /\ Quiet /\ JiraUnchanged /\ WorldUnchanged

FollowUpSearchFails(r) ==
    /\ run[r].pc = "search" /\ WriteFails
    /\ run' = [run EXCEPT ![r] = NotRunning]
    /\ Quiet /\ JiraUnchanged /\ WorldUnchanged

\* One ticket of the follow-up: not if the morning path handled its CVE, not
\* if the scanner could not answer, and read-only unless the run may write.
FollowUp(r) ==
    /\ run[r].pc = "check" /\ run[r].queue # {}
    /\ LET i == Oldest(run[r].queue)
           c == tickets[i].cve
           skip == [run EXCEPT ![r].queue = @ \ {i}]
       IN  IF c \in run[r].handled THEN run' = skip
           ELSE \E res \in LookupCVE(c) :
                  IF followUpVerdict(res) /\ Writes(r)
                  THEN run' = [run EXCEPT ![r].pc = "read", ![r].cve = c, ![r].id = i,
                                          ![r].done = i \in run[r].closed,
                                          ![r].f = applyLookup(res),
                                          ![r].sawZero = detected[c] = {}]
                  ELSE run' = skip
    /\ Quiet /\ JiraUnchanged /\ WorldUnchanged

EndFollowUp(r) ==
    /\ run[r].pc = "check" /\ run[r].queue = {}
    /\ run' = [run EXCEPT ![r] = NotRunning]
    /\ Quiet /\ JiraUnchanged /\ WorldUnchanged

\* The deadline, a kill or a power cut, between any two calls.
Crash(r) ==
    /\ run[r].pc # "idle" /\ Crashes
    /\ run' = [run EXCEPT ![r] = NotRunning]
    /\ Quiet /\ JiraUnchanged /\ WorldUnchanged

-----------------------------------------------------------------------------
(* The rest of the world.                                                  *)

Rescan(c) ==
    /\ \E hs \in SUBSET Hosts : detected' = [detected EXCEPT ![c] = hs]
    /\ Quiet /\ UNCHANGED <<mapped, run>> /\ JiraUnchanged

KBRefresh(c) ==
    /\ \E qs \in SUBSET Qids : mapped' = [mapped EXCEPT ![c] = qs]
    /\ Quiet /\ UNCHANGED <<detected, run>> /\ JiraUnchanged

\* A person closes or reopens a ticket.
MoveTicket(i) ==
    /\ tickets' = [tickets EXCEPT ![i].done = ~@]
    /\ Quiet /\ UNCHANGED <<run, ledger>> /\ WorldUnchanged

DayPasses ==
    /\ \A r \in Runs : run[r].pc = "idle"
    /\ LET older(a) == IF a < GrowthInterval THEN a + 1 ELSE a
       IN  /\ tickets' = [i \in Ids |->
                  IF tickets[i].state = NoState THEN tickets[i]
                  ELSE [tickets[i] EXCEPT !.state.age = older(@)]]
           /\ ledger' = [i \in Ids |-> [ledger[i] EXCEPT !.age = older(@)]]
    /\ Quiet /\ UNCHANGED run /\ WorldUnchanged

-----------------------------------------------------------------------------
Init ==
    /\ detected \in [CVEs -> SUBSET Hosts]
    /\ mapped \in [CVEs -> SUBSET Qids]
    /\ tickets = <<>>
    /\ run = [r \in Runs |-> NotRunning]
    /\ ledger = <<>>
    /\ said = {}

Step(r) ==
    \/ StartRun(r) \/ Select(r) \/ Selected(r)
    \/ FileOrUpdate(r) \/ FileSearchFails(r) \/ CreateIssue(r) \/ CreateFails(r)
    \/ ReadState(r) \/ AddComment(r) \/ CommentFails(r)
    \/ SetProperty(r) \/ SetPropertyFails(r) \/ EndFiling(r)
    \/ FollowUpSearch(r) \/ FollowUpSearchFails(r) \/ FollowUp(r) \/ EndFollowUp(r)
    \/ Crash(r)

World ==
    \/ \E c \in CVEs : Rescan(c) \/ KBRefresh(c)
    \/ \E i \in Ids : MoveTicket(i)
    \/ DayPasses

Next == (\E r \in Runs : Step(r)) \/ World

Spec == Init /\ [][Next]_vars

\* The timer starts a real run every day, a run that started goes on, days
\* pass, and a call that is made again and again gets through in the end: the
\* scanner's answer, the follow-up's search, a comment, a property write.
ScheduledStart(r) ==
    /\ StartRun(r)
    /\ run'[r].forReal /\ run'[r].gate /\ run'[r].followUp
GoesOn(r) == run[r].pc # "idle" /\ Step(r)

Fairness ==
    /\ \A r \in Runs : /\ WF_vars(GoesOn(r)) /\ SF_vars(ScheduledStart(r))
                       /\ SF_vars(FollowUpSearch(r) /\ Writes(r))
                       /\ SF_vars(FollowUp(r) /\ run'[r].pc = "read")
                       /\ SF_vars(AddComment(r) /\ run'[r].pc = "record")
                       /\ SF_vars(SetProperty(r))
    /\ SF_vars(DayPasses)

LiveSpec == Spec /\ Fairness

-----------------------------------------------------------------------------
(* Safety.                                                                 *)

\* "One ticket per CVE, carrying every QID and every host for that CVE": a
\* create whose answer was lost, a search that failed and a crash never lead
\* to a second ticket for a CVE.
OneTicketPerCVE ==
    \A i, j \in Ids : tickets[i].cve = tickets[j].cve => i = j

\* "The set IT was last told about": a host on the stored list has been put
\* before the ticket's readers, or was taken over by the first look at a
\* ticket that had no stored state.  A host that is stored and was never
\* announced is never announced.
StoredIsTold ==
    \A i \in Ids : tickets[i].state # NoState =>
        tickets[i].state.hosts \subseteq ledger[i].told \cup ledger[i].adopted

\* The "no detections remain" comment goes out only in a run whose own
\* lookup of that CVE met an estate with no detection of it: an outage, an
\* unmapped CVE or a truncated host list is never read as a fix.
NoFalseAllClear ==
    [][\A s \in said' : s.kind = "clear" => run[s.by].sawZero]_vars

\* Two comments about hosts on one ticket are GrowthInterval apart, unless
\* the last report said none remain, or could not be recorded on the ticket.
GrowthPaced ==
    [][\A s \in said' : s.kind = "hosts" =>
          LET L == ledger[s.id] IN L.age >= GrowthInterval \/ L.clear \/ ~L.sure]_vars

\* "will not comment again": a closed-but-still-detected note that was
\* recorded is never repeated, whatever becomes of the ticket.
ClosedNotedOnce ==
    [][\A s \in said' : s.kind = "closed" => ledger[s.id].note # "recorded"]_vars

\* Nobody is told twice that a CVE is gone, without having been told in
\* between that it is back.
AllClearOnce ==
    [][\A s \in said' : s.kind = "clear" => ~(ledger[s.id].clear /\ ledger[s.id].sure)]_vars

Authorised(r) == run[r].forReal /\ run[r].gate

\* A dry run and a run with the write gate closed change nothing in Jira, and
\* a ticket is filed only for a CVE this run found present, on KEV or at
\* CVSS 9.0 unless a person approved.
WritesAuthorised ==
    [][/\ \A i \in Ids : tickets'[i].state # tickets[i].state =>
             run' = run \/ \E r \in Runs : run'[r] # run[r] /\ Authorised(r)
       /\ \A s \in said' : Authorised(s.by)
       /\ Len(tickets') > Len(tickets) =>
             \E r \in Runs : /\ Authorised(r) /\ run[r].f.count > 0
                             /\ run[r].cve = tickets'[Len(tickets')].cve
                             /\ run[r].cve \in run[r].auto]_vars

-----------------------------------------------------------------------------
(* Liveness, under LiveSpec.                                               *)

Open(c) == \E i \in Matching(c) : ~tickets[i].done

\* A host that stays affected while the CVE's ticket stays open reaches the
\* ticket's readers in the end, whatever else is held back, spreads, shrinks
\* or is reported meanwhile: held is not lost.
SpreadReported ==
    \A c \in CVEs, h \in Hosts :
        <>[](h \in detected[c] /\ mapped[c] # {} /\ Open(c))
            => []<>(\E i \in Matching(c) : h \in ledger[i].told \cup ledger[i].adopted)

\* "reaching zero ... is what tells IT they are finished": once the scanner
\* finds a CVE on no host any more, its open ticket says so.
FixReported ==
    \A c \in CVEs :
        <>[](detected[c] = {} /\ mapped[c] # {} /\ Open(c))
            => []<>(\E i \in Matching(c) : ledger[i].clear)
=============================================================================
