----------------------------- MODULE OwnerReports ------------------------------
(***************************************************************************)
(* The owners lane, daily (run-appowners): each application's scanner      *)
(* report to the people on its owners line.  cti-appscan plans from the    *)
(* scan notices of the mailbox, the scanner's scan list and the log of     *)
(* what was dealt with; cti-appreport has the scanner make each report,    *)
(* fetches it and deletes it there; cti-mailer sends one mail per          *)
(* application; cti-appscan records what was sent or held.                 *)
(*                                                                         *)
(* Scans are numbered in the order in which they finish; a scan takes no   *)
(* time.  Ages are in started days.  A run ends within its day.  Left out: *)
(* who is mailed (OwnerMail), what a report says, --to-dev and dry runs,   *)
(* counts, the covering mail of a report too large to attach.              *)
(***************************************************************************)
EXTENDS Integers, FiniteSets, FiniteSetsExt

CONSTANTS
    Scans,          \* the numbers of the scans, as many as a behaviour has
    AppOf,          \* the application of each
    Window,         \* --since, of the notices and of the scans that are added
    ScanMargin,     \* how much further back the scan list is asked for
    maxReports,     \* --max-reports
    MaxHeld,        \* bound: reports in the scanner's list
    NoScan

OwnerReportsAssumption ==
    /\ IsFiniteSet(Scans) /\ Scans \subseteq Nat \ {0} /\ NoScan \notin Scans
    /\ {Window, ScanMargin, maxReports, MaxHeld} \subseteq Nat \ {0}

VARIABLES
    scans,          \* external: the scans and their notices
    owned,          \* external: the applications with an owner on file
    held,           \* external: how many reports the scanner's list holds
    sentLog,        \* state/appowners-sent.json
    run,            \* the local state of run-appowners
    delivered,      \* observer: how often the report of a scan was mailed
    unrecorded,     \* observer: scans whose record was lost or replaced
    stranded        \* observer: reports left in the scanner for a known cause

reportVars == <<scans, owned, held, sentLog, run, delivered, unrecorded, stranded>>

-----------------------------------------------------------------------------
Owned == {AppOf[s] : s \in Scans}
Never == Window + ScanMargin        \* too old to tell; for a notice, none
\* How a scan ended: "fault" did not finish or did not log in, "manual" the
\* same of a scan launched by hand, "unreached" had no host answer.
Kind == {"good", "fault", "manual", "unreached"}
\* An application is keyed by the scanner's id, or by the name in the notice.
Keys == Owned \X {"id", "name"}

NotRunning == [pc |-> "idle", plan |-> {}, todo |-> {}, got |-> {}, ready |-> {}, done |-> {}]

External == UNCHANGED <<scans, owned>>

-----------------------------------------------------------------------------
(* The plan.                                                               *)

Noticed(s) == scans[s].notice < Window
Listed(s) == scans[s].age < Window + ScanMargin

\* Reconcile: notices, joined to the list where it has the scan, and the listed
\* scans of the window whose application has no notice that was joined.  A fault
\* launched by hand that nobody was notified of is somebody's test.
Reconcile ==
    LET joined == {s \in Scans : Noticed(s) /\ Listed(s)}
        added  == {s \in Scans : /\ scans[s].age < Window /\ ~Noticed(s)
                                 /\ scans[s].kind # "manual"
                                 /\ \A t \in joined : AppOf[t] # AppOf[s]}
    IN  {[scan |-> s, id |-> Listed(s)] : s \in {t \in Scans : Noticed(t)} \cup added}

\* Without the list the notices are all there is.
collect == {[scan |-> s, id |-> FALSE] : s \in {t \in Scans : Noticed(t)}}

\* Mutant: every scan of the window is kept.
EveryScan(found) == found
\* The newest scan of each application (notices carry its id as well).
newestPerApp(found) ==
    {r \in found : \A q \in found : AppOf[q.scan] = AppOf[r.scan] => q.scan <= r.scan}

AppKey(r) == <<AppOf[r.scan], IF r.id THEN "id" ELSE "name">>

\* fromScan: without a notice nobody knows that no host answered.
Measured(s) == scans[s].kind = "good" \/ (scans[s].kind = "unreached" /\ ~Noticed(s))

Hold(r) ==
    IF ~Measured(r.scan) THEN "measured less"
    ELSE IF ~r.id THEN "retry"
    ELSE IF AppOf[r.scan] \notin owned THEN "no owner"
    ELSE "send"

BuildDeliveries(found) ==
    {[scan |-> r.scan, key |-> AppKey(r), hold |-> Hold(r)] :
        r \in {q \in newestPerApp(found) : sentLog[AppKey(q)] # q.scan}}

\* Armed, the mailbox and the owners read; the scanner's list or not.
PlanDeliveries ==
    /\ run.pc = "idle"
    /\ \E found \in {Reconcile, collect} :
         LET plan == BuildDeliveries(found)
         IN  run' = [NotRunning EXCEPT !.pc = "next", !.plan = plan,
                                       !.todo = {d \in plan : d.hold = "send"}]
    /\ External /\ UNCHANGED <<held, sentLog, delivered, unrecorded, stranded>>

-----------------------------------------------------------------------------
(* cti-appreport: one report after the other.                              *)

Current == CHOOSE d \in run.todo : \A e \in run.todo : d.scan <= e.scan
FetchStays == External /\ UNCHANGED <<sentLog, delivered, unrecorded>>
Goto(pc) == run' = [run EXCEPT !.pc = pc]
\* The next application, or no further one: the budget is reserved, time is up.
NextApp(fetched) ==
    run' = [run EXCEPT !.pc = "next", !.todo = @ \ {Current},
                       !.got = IF fetched THEN @ \cup {Current} ELSE @]
Tried == Cardinality({d \in run.plan : d.hold = "send"} \ run.todo)

\* create: an id, a refusal, or an answer that was lost or named no id.
CreateReport ==
    /\ run.pc = "next" /\ run.todo # {} /\ Tried < maxReports /\ held < MaxHeld
    /\ \/ held' = held + 1 /\ Goto("wait") /\ UNCHANGED stranded
       \/ NextApp(FALSE) /\ UNCHANGED <<held, stranded>>
       \/ held' = held + 1 /\ stranded' = stranded + 1 /\ NextApp(FALSE)
    /\ FetchStays

\* The report is complete and downloads, or it is not ready in time, cannot be
\* made, or is too large.
WaitReport ==
    /\ run.pc = "wait"
    /\ \E fetched \in BOOLEAN : run' = [run EXCEPT !.pc = IF fetched THEN "delete" ELSE "failed"]
    /\ FetchStays /\ UNCHANGED <<held, stranded>>

\* Mutant: what was not fetched is not deleted.
DeletesFetched ==
    /\ run.pc \in {"delete", "failed"}
    /\ \/ held' = (IF run.pc = "delete" THEN held - 1 ELSE held) /\ UNCHANGED stranded
       \/ stranded' = stranded + 1 /\ UNCHANGED held
    /\ NextApp(run.pc = "delete")
    /\ FetchStays
\* Deleted on every path out, outside the run's time and the reserve; a delete
\* that fails is said and the report stays.
DeleteReport ==
    /\ run.pc \in {"delete", "failed"}
    /\ \/ held' = held - 1 /\ UNCHANGED stranded
       \/ stranded' = stranded + 1 /\ UNCHANGED held
    /\ NextApp(run.pc = "delete")
    /\ FetchStays

\* RedactReport: an archive it cannot read, or with no HTML in it, is not mailed.
Redactable == SUBSET run.got

\* doDeliveries: a mail for each report that is fit to mail.
PrepareMails ==
    /\ run.pc = "next"
    /\ \E ready \in Redactable : run' = [run EXCEPT !.pc = "send", !.ready = ready]
    /\ FetchStays /\ UNCHANGED <<held, stranded>>

-----------------------------------------------------------------------------
(* run-appowners: send, then record.                                       *)

\* Sent; refused; or sent and the answer lost, which reads as refused.
SendMail(d) ==
    /\ run.pc = "send" /\ d \in run.ready
    /\ \/ /\ delivered' = [delivered EXCEPT ![d.scan] = IF @ < 2 THEN @ + 1 ELSE @]
          /\ run' = [run EXCEPT !.ready = @ \ {d}, !.done = @ \cup {d}]
          /\ UNCHANGED unrecorded
       \/ run' = [run EXCEPT !.ready = @ \ {d}] /\ UNCHANGED <<delivered, unrecorded>>
       \/ /\ delivered' = [delivered EXCEPT ![d.scan] = IF @ < 2 THEN @ + 1 ELSE @]
          /\ unrecorded' = unrecorded \cup {d.scan}
          /\ run' = [run EXCEPT !.ready = @ \ {d}]
    /\ External /\ UNCHANGED <<held, sentLog, stranded>>

\* What is recorded: sent, and held unless the hold may clear by itself; of two
\* lines for one application the last one stays.
Recorded == run.done \cup {d \in run.plan : d.hold \in {"measured less", "no owner"}}

CommitDelivered ==
    /\ run.pc = "send" /\ run.ready = {}
    /\ \E log \in [Keys -> Scans \cup {NoScan}] :
         /\ \A k \in Keys : LET of == {d.scan : d \in {e \in Recorded : e.key = k}}
                            IN  IF of = {} THEN log[k] = sentLog[k] ELSE log[k] \in of
         /\ sentLog' = log
         /\ unrecorded' = unrecorded \cup {sentLog[k] : k \in {j \in Keys : log[j] # sentLog[j]}}
    /\ run' = NotRunning
    /\ External /\ UNCHANGED <<held, delivered, stranded>>

\* Killed or out of time, a command that failed, a log that cannot be written:
\* the plan and the reports fetched are removed, nothing is recorded.
EndUnrecorded ==
    /\ run.pc # "idle"
    /\ unrecorded' = unrecorded \cup {d.scan : d \in run.done}
    /\ stranded' = IF run.pc \in {"wait", "delete", "failed"} THEN stranded + 1 ELSE stranded
    /\ run' = NotRunning
    /\ External /\ UNCHANGED <<held, sentLog, delivered>>

-----------------------------------------------------------------------------
(* The scanner, its mail, the operators, the calendar.                     *)

Others == UNCHANGED <<held, sentLog, run, delivered, unrecorded, stranded>>

FinishScan(s) ==
    /\ scans[s].kind = "due" /\ \A t \in Scans : t < s => scans[t].kind # "due"
    /\ \E kind \in Kind, notice \in {0, Never} :
         scans' = [scans EXCEPT ![s] = [kind |-> kind, age |-> 0, notice |-> notice]]
    /\ UNCHANGED owned /\ Others

NoticeIsLate(s) ==
    /\ scans[s].kind # "due" /\ scans[s].notice = Never /\ scans[s].age \in 1 .. Never - 1
    /\ scans' = [scans EXCEPT ![s].notice = 0]
    /\ UNCHANGED owned /\ Others

ChangeOwners(a) ==
    /\ owned' = IF a \in owned THEN owned \ {a} ELSE owned \cup {a}
    /\ UNCHANGED scans /\ Others

Older(age) == IF age < Never THEN age + 1 ELSE age
NextDay ==
    /\ run.pc = "idle"
    /\ scans' = [s \in Scans |-> [scans[s] EXCEPT !.age = Older(@), !.notice = Older(@)]]
    /\ UNCHANGED owned /\ Others

ReportInit ==
    /\ scans = [s \in Scans |-> [kind |-> "due", age |-> Never, notice |-> Never]]
    /\ owned = Owned
    /\ held = 0 /\ stranded = 0
    /\ sentLog = [k \in Keys |-> NoScan]
    /\ run = NotRunning
    /\ delivered = [s \in Scans |-> 0] /\ unrecorded = {}

ReportNext ==
    \/ PlanDeliveries \/ CreateReport \/ WaitReport \/ DeleteReport \/ PrepareMails
    \/ CommitDelivered \/ EndUnrecorded \/ NextDay
    \/ \E d \in run.ready : SendMail(d)
    \/ \E s \in Scans : FinishScan(s) \/ NoticeIsLate(s)
    \/ \E a \in Owned : ChangeOwners(a)

ReportSpec == ReportInit /\ [][ReportNext]_reportVars

-----------------------------------------------------------------------------
ReportTypeOK ==
    /\ scans \in [Scans -> [kind : Kind \cup {"due"}, age : 0 .. Never, notice : 0 .. Never]]
    /\ owned \subseteq Owned /\ {held, stranded} \subseteq Nat
    /\ sentLog \in [Keys -> Scans \cup {NoScan}]
    /\ run.pc \in {"idle", "next", "wait", "delete", "failed", "send"}
    /\ run.todo \cup run.got \cup run.ready \cup run.done \subseteq run.plan
    /\ delivered \in [Scans -> 0 .. 2]

\* "The log keeps a scan from being sent twice": over two days of overlap,
\* refused and lost calls and changing lists, a second mail needs a record that
\* was lost, or replaced by that of another scan in a later run.
MailedOnce == \A s \in Scans : delivered[s] <= 1 \/ s \in unrecorded

\* "The report is deleted from Qualys once downloaded, success or failure": what
\* the scanner's list holds is the report being made, and those whose id was
\* never learnt, whose delete failed or whose run was killed.
NoReportLeft == held = stranded + IF run.pc \in {"wait", "delete", "failed"} THEN 1 ELSE 0
=============================================================================
