----------------------------- MODULE AppscanRun ------------------------------
(***************************************************************************)
(* The weekly application-security report: fleet-kit/fleet/bin/run-appscan *)
(* around cti-appscan, seen from one application.                          *)
(*                                                                         *)
(* The run reads the week's scan notice, pages through the findings the    *)
(* scanner holds open, writes the report and the input of the ticket,      *)
(* fetches the scanner's own report for the ticket to carry, has cti-jira  *)
(* update the ticket (AppTickets), stamps what came of it into the report, *)
(* mails it, and tells the operator of a login that failed.  Its files are *)
(* named for the day: those of a run that was cut off lie there for the    *)
(* next one of that day.  The scanner finds and closes findings between    *)
(* two pages; what it holds open is chosen when a run first looks.         *)
(*                                                                         *)
(* Left out: the report's wording, findings too low for a ticket, whose    *)
(* application it is (OwnersDb), the notices' records (Mailbox), two runs  *)
(* at once.                                                                *)
(***************************************************************************)
EXTENDS Integers, FiniteSets, FiniteSetsExt

CONSTANTS
    FindingIds,     \* the findings of the application, by scanner id
    pageSize,       \* findings in one answer (100)
    maxPages,       \* answers of one lookup (40)
    NoFile          \* a file that is not there

RunAssumption ==
    /\ FindingIds \subseteq Nat \ {0} /\ IsFiniteSet(FindingIds)
    /\ {pageSize, maxPages} \subseteq Nat \ {0}

VARIABLES
    open,       \* what the scanner holds open while a run looks
    files,      \* the day's tickets and ref files
    onDisk,     \* observer: a scanner report, with its session cookies, is on disk
    week,       \* the run
    letter,     \* observer: what the mail sent by this very step says
    cut         \* observer: the last run was cut off, its trap with it

runVars == <<open, files, onDisk, week, letter, cut>>

Modes == {"real", "test", "dry"}

\* The notice and the scan list, of this week's scan.
Scan == [matched : BOOLEAN, type : {"VULNERABILITY", "DISCOVERY"}, complete : BOOLEAN,
         record : BOOLEAN, login : {"none", "successful", "failed"}]

\* A login that was meant to work and did not: the vendor says so, or a record
\* is configured and its status is anything but success.
Failed(s) == s.login = "failed" \/ (s.record /\ s.login # "successful")

\* Whether a scan may say what is fixed.
Trusted(s) == s.matched /\ s.type = "VULNERABILITY" /\ s.complete /\ ~Failed(s)

NoLetter == [sent |-> FALSE, line |-> "none"]
\* page, after, got and fetched: the lookup.  stood (an observer): what was
\* open from its first page until now.
NoLookup == [page |-> 0, after |-> 0, got |-> {}, fetched |-> FALSE, stood |-> {}]
NotStarted == [pc |-> "idle", mode |-> "dry", files |-> FALSE, attach |-> FALSE,
               trusted |-> FALSE, failed |-> FALSE, look |-> NoLookup, line |-> "slot"]

Still == UNCHANGED <<open, cut>> /\ letter' = NoLetter
Only(w) == week' = w /\ UNCHANGED <<files, onDisk>> /\ Still

-----------------------------------------------------------------------------
(* The run.                                                                *)

\* Mutants: the ref of an earlier run, or its report, is left.
KeepsRef(f) == [tickets |-> NoFile, ref |-> IF f.ref = NoFile THEN NoFile ELSE "stale"]
Cleared(f) == [tickets |-> NoFile, ref |-> NoFile]
KeepsReport == onDisk
NothingLeft == FALSE

\* WAS_TICKETS and WAS_ATTACH_REPORT as they are now.  What an earlier run of
\* the day left is deleted before anything is written.
StartRun ==
    /\ week.pc = "idle"
    /\ \E mode \in Modes, tickets, attach \in BOOLEAN :
         week' = [NotStarted EXCEPT !.pc = "read", !.mode = mode, !.files = tickets,
                                    !.attach = tickets /\ attach]
    /\ files' = Cleared(files) /\ onDisk' = NothingLeft
    /\ cut' = FALSE /\ letter' = NoLetter /\ UNCHANGED open

\* The notices, and the scan list: unavailable, it leaves the scan unmatched.
ReadScan ==
    /\ week.pc = "read"
    /\ \E s \in Scan :
         LET looks == week.files /\ s.matched
         IN  /\ open' \in IF looks THEN SUBSET FindingIds ELSE {{}}
             /\ week' = [week EXCEPT !.pc = IF looks THEN "fetch" ELSE "build",
                                     !.trusted = Trusted(s), !.failed = Failed(s),
                                     !.look = [NoLookup EXCEPT !.stood = open']]
    /\ letter' = NoLetter /\ UNCHANGED <<files, onDisk, cut>>

FirstPage(fs) == {f \in fs : Cardinality({g \in fs : g < f}) < pageSize}

NextAfter(page) == Max(page \cup {week.look.after})

\* Mutant: that there are more records is not looked at.
TakesPart(fs) == TRUE
Whole(fs) == Cardinality(fs) <= pageSize

\* findings: the scanner answers in the order of its ids, those behind the
\* last one seen.
FetchPage ==
    /\ week.pc = "fetch" /\ week.look.page < maxPages
    /\ LET rest == {f \in open : f > week.look.after}
           page == FirstPage(rest)
       IN  Only([week EXCEPT !.look = [week.look EXCEPT !.got = @ \cup page, !.page = @ + 1,
                                                        !.after = NextAfter(page),
                                                        !.fetched = Whole(rest)],
                             !.pc = IF Whole(rest) THEN "build" ELSE "fetch"])

\* An answer that is none, a limit, or one page too many: the list is no list.
FetchFails ==
    /\ week.pc = "fetch"
    /\ Only([week EXCEPT !.pc = "build", !.look.got = {}])

\* Mutant: a lookup that failed gives an empty list, as a scan without findings.
NeverSkips(w) == FALSE
Skipped(w) == ~w.trusted \/ ~w.look.fetched

\* BuildTickets: the list, or why the ticket is left alone.
TicketsFile(w) ==
    [skip |-> Skipped(w), list |-> IF Skipped(w) THEN {} ELSE w.look.got, stood |-> w.look.stood]

\* The tickets file, which may fail to be written; then the report.
WriteReport ==
    /\ week.pc = "build"
    /\ \E f \in IF week.files THEN {TicketsFile(week), NoFile} ELSE {NoFile} :
         /\ files' = [files EXCEPT !.tickets = f]
         /\ week' = [week EXCEPT !.pc = IF f = NoFile THEN "send"
                                        ELSE IF week.attach /\ week.mode # "dry" THEN "report"
                                        ELSE "file",
                                 !.look = NoLookup,
                                 !.line = IF f = NoFile THEN "none" ELSE "slot"]
    /\ open' = {} /\ letter' = NoLetter /\ UNCHANGED <<onDisk, cut>>

\* A preview names the tickets that will be told something, and cti-appreport
\* fetches their reports; without them the ticket is told all the same.
FetchReport ==
    /\ week.pc = "report"
    /\ onDisk' \in BOOLEAN
    /\ week' = [week EXCEPT !.pc = "file"]
    /\ UNCHANGED files /\ Still

\* cti-jira, for real or as a preview: --ref-out is written at its end,
\* whatever came of the tickets, unless it cannot be.
UpdateTicket ==
    /\ week.pc = "file"
    /\ files' = [files EXCEPT !.ref = "ours"] \/ UNCHANGED files
    /\ week' = [week EXCEPT !.pc = "stamp"]
    /\ onDisk' = FALSE /\ Still

\* StampTickets: without a ref, the application's line says that its status is
\* not available.
LineOf(ref) == IF ref = NoFile THEN "unavailable" ELSE ref

\* A stamp that fails has the slot removed.
Stamp ==
    /\ week.pc = "stamp"
    /\ \E line \in {"none", LineOf(files.ref)} :
         Only([week EXCEPT !.pc = "send", !.line = line])

\* To the lane's audience; a test to FLEET_DEV_EMAIL alone; a dry run nowhere.
SendReport ==
    /\ week.pc = "send"
    /\ week' = [week EXCEPT !.pc = IF week.failed THEN "alert" ELSE "done"]
    /\ letter' = [sent |-> week.mode # "dry", line |-> week.line]
    /\ UNCHANGED <<open, files, onDisk, cut>>

\* cti-alert, whose failure is only logged; a dry run only says it would.
AlertOperator ==
    /\ week.pc = "alert"
    /\ Only([week EXCEPT !.pc = "done"])

EndRun ==
    /\ week.pc = "done"
    /\ Only(NotStarted)

\* A command that fails ends the run, and so does TimeoutStartSec: its trap
\* deletes the reports.
RunFails ==
    /\ week.pc # "idle"
    /\ week' = NotStarted
    /\ open' = {} /\ onDisk' = FALSE
    /\ letter' = NoLetter /\ UNCHANGED <<files, cut>>

\* SIGKILL or a power cut.
Cut ==
    /\ week.pc # "idle"
    /\ week' = NotStarted
    /\ open' = {} /\ cut' = TRUE
    /\ letter' = NoLetter /\ UNCHANGED <<files, onDisk>>

-----------------------------------------------------------------------------
(* The scanner.                                                            *)

Fixed(f) ==
    /\ week.pc = "fetch" /\ f \in open
    /\ open' = open \ {f}
    /\ week' = [week EXCEPT !.look.stood = @ \ {f}]
    /\ letter' = NoLetter /\ UNCHANGED <<files, onDisk, cut>>

Found(f) ==
    /\ week.pc = "fetch" /\ f \notin open
    /\ open' = open \cup {f}
    /\ letter' = NoLetter /\ UNCHANGED <<week, files, onDisk, cut>>

-----------------------------------------------------------------------------
RunInit ==
    /\ open = {}
    /\ files = [tickets |-> NoFile, ref |-> NoFile]
    /\ onDisk = FALSE /\ week = NotStarted /\ letter = NoLetter /\ cut = FALSE

RunNext ==
    \/ StartRun \/ ReadScan \/ FetchPage \/ FetchFails \/ WriteReport \/ FetchReport
    \/ UpdateTicket \/ Stamp \/ SendReport \/ AlertOperator \/ EndRun \/ RunFails \/ Cut
    \/ \E f \in FindingIds : Fixed(f) \/ Found(f)

RunSpec == RunInit /\ [][RunNext]_runVars

-----------------------------------------------------------------------------
RunTypeOK ==
    /\ open \subseteq FindingIds
    /\ files.tickets \in {NoFile} \cup [skip : BOOLEAN, list : SUBSET FindingIds,
                                        stood : SUBSET FindingIds]
    /\ files.ref \in {NoFile, "ours"}
    /\ week.mode \in Modes /\ week.look.page \in 0 .. maxPages
    /\ {onDisk, cut} \subseteq BOOLEAN

\* "its ticket is never told it has nothing open": a list that a ticket is
\* judged by names every finding that was open from the first page to the end,
\* whatever was fixed, found or refused between two pages.
ListIsWhole ==
    files.tickets # NoFile /\ ~files.tickets.skip => files.tickets.stood \subseteq files.tickets.list

\* "a stale one is never stamped": what the mail says of the ticket is what
\* this run's cti-jira did, or that it is not known, whatever files a run of
\* the same day that was cut off has left.
LineIsThisRuns == letter.line # "stale"

\* "each report carries the scan account's session cookies": one is on disk
\* only for the ticket it is attached to, and after a cut until the next run.
ReportsDeleted == onDisk => week.pc = "file" \/ cut
=============================================================================
