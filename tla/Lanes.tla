------------------------------- MODULE Lanes --------------------------------
(***************************************************************************)
(* The lanes of the fleet that share no state, as one specification: the   *)
(* weekly runs that keep tickets up (AppscanRun, AppTickets; DomainsSurvey,*)
(* DomainsTicket), the limiter of Qualys calls, the monthly synopsis with  *)
(* what it takes out of the daily, the mailbox with its three readers, the *)
(* digests, the owners' reports with the database of owners, the message   *)
(* board, the rules of who is mailed and the scanner's cache of QIDs.      *)
(*                                                                         *)
(* They share a machine, and some of them a Jira project or a mailer, but  *)
(* what each module has as its state no other module writes.  A behaviour  *)
(* follows one of them, chosen at the start, while the others stay where   *)
(* they began: what one needs of another is in its module as a choice (the *)
(* owners on file, what enrich stored, whether a mail went out).           *)
(***************************************************************************)
EXTENDS AppTickets

CONSTANTS
    Followed,                                                   \* bound: the lanes looked at
    Domains, NoProperty, MaxLockdowns, LookupsFail,             \* DomainsTicket
    Values, Unknown, NoBaseline,                                \* DomainsSurvey
    Limit, Reserve, maxAttempts, MaxBlind,                      \* QualysLimiter
    Months, CVEs, MaxCopies, NoManifest, WritesFail, Replays,   \* PatchTuesday
    Mails, Lookback, ScanLookback, MinAge, SelfMinAge, Window, Retain, NoRecord, \* Mailbox
    Scans, AppOf, ReportWindow, ScanMargin, maxReports, MaxHeld, NoScan, \* OwnerReports
    DigestCVEs, Week, NoRow,                                    \* DigestRun
    Posters, NoLock,                                            \* FleetBoard
    Addresses, DomainOf, Wild, LaneNames, ToVar, AllowVar, Settings, Start,
    OwnerEntries, Extra, MaxRefDepth, MaxEdits, NoMail,         \* MailPolicy
    Editors, OwnedApps, Sites, People, MailDomains, OldFile, MaxWatchers,
    MaxChanges, NoOwner, NoFile, NoOne,                         \* OwnersDb
    FindingIds, pageSize, maxPages,                             \* AppscanRun
    KbCVEs, LastQid, MaxAge, NoCache                            \* KbCache

VARIABLES
    lane,                                   \* the part this behaviour follows
    lockdowns, filing, heard,               \* DomainsTicket
    zone, baseline, survey, mailed, lost,   \* DomainsSurvey
    left, state, call, past, blind,         \* QualysLimiter
    now, out, manifests, digests, synopsis, synopses, copies, excused,  \* PatchTuesday
    mails, digestLog, scanLog, digest, weekly, cleanup, reported, covered, recorded, \* Mailbox
    scans, owned, held, sentLog, fetch, delivered, unrecorded, stranded, \* OwnerReports
    morning, listed, findings, sentToday, kevCache, digestRun, mailedToday, mayRepeat,
    doubled, owed, rolled, skipped,         \* DigestRun
    board, archive, lock, pc, aim, judged, moving, kept, posted, raced, \* FleetBoard
    env, owners, edits, mail,               \* MailPolicy
    db, snapshot, flock, txn, editor, op, tmp, behind, \* OwnersDb
    open, files, onDisk, week, letter, cut, \* AppscanRun
    kb, kbFile, client                      \* KbCache

Lockdown == INSTANCE DomainsTicket WITH JiraFails <- CallsFail, Kills <- Crashes
Survey == INSTANCE DomainsSurvey
Limiter == INSTANCE QualysLimiter
Release == INSTANCE PatchTuesday WITH mailed <- synopses
Mail == INSTANCE Mailbox
Reports == INSTANCE OwnerReports WITH Window <- ReportWindow, run <- fetch
Digest == INSTANCE DigestRun WITH CVEs <- DigestCVEs, digests <- sentToday, run <- digestRun,
                                  mailed <- mailedToday, excused <- mayRepeat
Board == INSTANCE FleetBoard WITH Procs <- Posters
Policy == INSTANCE MailPolicy
Owners == INSTANCE OwnersDb WITH Procs <- Editors, Apps <- OwnedApps, Domains <- MailDomains,
                                 pc <- editor
Weekly == INSTANCE AppscanRun
Scanner == INSTANCE KbCache

LaneIds == {"appscan", "lockdown", "survey", "limiter", "synopsis", "mailbox", "reports",
            "digest", "board", "policy", "owners", "weekly", "scanner"}

\* What the modules take their constants to be.
ASSUME LanesAssumption ==
    /\ Followed \subseteq LaneIds
    /\ Lockdown!LockdownAssumption /\ Survey!SurveyAssumption /\ Limiter!LimiterAssumption
    /\ Release!ReleaseAssumption /\ Mail!MailboxAssumption /\ Reports!OwnerReportsAssumption
    /\ Digest!DigestRunAssumption /\ Board!BoardAssumption /\ Weekly!RunAssumption
    /\ Policy!PolicyAssumption /\ Owners!OwnersDbAssumption /\ Scanner!KbAssumption
    /\ Standing!SayingsAssumption /\ Lockdown!LockdownStanding!SayingsAssumption

ticketVars == <<lockdowns, filing, heard>>
surveyVars == <<zone, baseline, survey, mailed, lost>>
limiterVars == <<left, state, call, past, blind>>
releaseVars == <<now, out, manifests, digests, synopsis, synopses, copies, excused>>
mailVars == <<mails, digestLog, scanLog, digest, weekly, cleanup, reported, covered, recorded>>
reportVars == <<scans, owned, held, sentLog, fetch, delivered, unrecorded, stranded>>
digestVars == <<morning, listed, findings, sentToday, kevCache, digestRun, mailedToday, mayRepeat,
                doubled, owed, rolled, skipped>>
boardVars == <<board, archive, lock, pc, aim, judged, moving, kept, posted, raced>>
policyVars == <<env, owners, edits, mail>>
ownerVars == <<db, snapshot, flock, txn, editor, op, tmp, behind>>
reportRunVars == <<open, files, onDisk, week, letter, cut>>
kbVars == <<kb, kbFile, client>>

weeklyVars == <<vars, ticketVars, surveyVars, limiterVars, releaseVars, mailVars,
                reportRunVars>>
dailyVars == <<reportVars, digestVars, boardVars, policyVars, ownerVars, kbVars>>
lanesVars == <<lane, weeklyVars, dailyVars>>

LanesInit ==
    /\ lane \in Followed
    /\ Init /\ Lockdown!LockdownInit /\ Survey!SurveyInit
    /\ Limiter!LimiterInit /\ Release!ReleaseInit /\ Mail!MailInit
    /\ Reports!ReportInit /\ Digest!DigestInit
    /\ Board!BoardInit /\ Policy!PolicyInit /\ Owners!DbInit /\ Weekly!RunInit
    /\ Scanner!KbInit

Appscan ==
    /\ lane = "appscan" /\ Next
    /\ UNCHANGED <<lane, ticketVars, surveyVars, limiterVars, releaseVars, mailVars,
                  reportRunVars, dailyVars>>

DomainsActions ==
    /\ lane = "lockdown" /\ Lockdown!LockdownNext
    /\ UNCHANGED <<lane, vars, surveyVars, limiterVars, releaseVars, mailVars,
                  reportRunVars, dailyVars>>

WeeklySurvey ==
    /\ lane = "survey" /\ Survey!SurveyNext
    /\ UNCHANGED <<lane, vars, ticketVars, limiterVars, releaseVars, mailVars,
                  reportRunVars, dailyVars>>

QualysCalls ==
    /\ lane = "limiter" /\ Limiter!LimiterNext
    /\ UNCHANGED <<lane, vars, ticketVars, surveyVars, releaseVars, mailVars,
                  reportRunVars, dailyVars>>

Synopses ==
    /\ lane = "synopsis" /\ Release!ReleaseNext
    /\ UNCHANGED <<lane, vars, ticketVars, surveyVars, limiterVars, mailVars,
                  reportRunVars, dailyVars>>

SharedMailbox ==
    /\ lane = "mailbox" /\ Mail!MailNext
    /\ UNCHANGED <<lane, vars, ticketVars, surveyVars, limiterVars, releaseVars,
                  reportRunVars, dailyVars>>

WeeklyReport ==
    /\ lane = "weekly" /\ Weekly!RunNext
    /\ UNCHANGED <<lane, vars, ticketVars, surveyVars, limiterVars, releaseVars, mailVars, dailyVars>>

OwnersMail ==
    /\ lane = "reports" /\ Reports!ReportNext
    /\ UNCHANGED <<lane, digestVars, boardVars, policyVars, ownerVars, kbVars, weeklyVars>>

Digests ==
    /\ lane = "digest" /\ Digest!DigestNext
    /\ UNCHANGED <<lane, reportVars, boardVars, policyVars, ownerVars, kbVars, weeklyVars>>

MessageBoard ==
    /\ lane = "board" /\ Board!BoardNext
    /\ UNCHANGED <<lane, reportVars, digestVars, policyVars, ownerVars, kbVars, weeklyVars>>

Mailers ==
    /\ lane = "policy" /\ Policy!PolicyNext
    /\ UNCHANGED <<lane, reportVars, digestVars, boardVars, ownerVars, kbVars, weeklyVars>>

OwnersOnFile ==
    /\ lane = "owners" /\ Owners!DbNext
    /\ UNCHANGED <<lane, reportVars, digestVars, boardVars, policyVars, kbVars, weeklyVars>>

ScannerCache ==
    /\ lane = "scanner" /\ Scanner!KbNext
    /\ UNCHANGED <<lane, reportVars, digestVars, boardVars, policyVars, ownerVars, weeklyVars>>

LanesNext ==
    \/ Appscan \/ DomainsActions \/ WeeklySurvey \/ QualysCalls \/ Synopses \/ SharedMailbox
    \/ WeeklyReport \/ OwnersMail \/ Digests \/ MessageBoard \/ Mailers \/ OwnersOnFile
    \/ ScannerCache

LanesSpec == LanesInit /\ [][LanesNext]_lanesVars

-----------------------------------------------------------------------------
(* The properties of the lanes, under their own names.                     *)

\* The types of the state of the lane that is followed.
LanesTypeOK ==
    /\ lane = "appscan" => TypeOK
    /\ lane = "lockdown" => Lockdown!LockdownTypeOK
    /\ lane = "survey" => Survey!SurveyTypeOK
    /\ lane = "limiter" => Limiter!LimiterTypeOK
    /\ lane = "synopsis" => Release!ReleaseTypeOK
    /\ lane = "mailbox" => Mail!MailTypeOK
    /\ lane = "reports" => Reports!ReportTypeOK
    /\ lane = "digest" => Digest!DigestTypeOK
    /\ lane = "board" => Board!BoardTypeOK
    /\ lane = "policy" => Policy!PolicyTypeOK
    /\ lane = "owners" => Owners!DbTypeOK
    /\ lane = "weekly" => Weekly!RunTypeOK
    /\ lane = "scanner" => Scanner!KbTypeOK

\* One ticket of an application, and one lock-down ticket, is open, whatever
\* answer was lost (appscan.go, domains.go).
OneStandingTicket == OneOpenTicket /\ Lockdown!OneLockdownTicket
\* It is told news only, and once that nothing is left (domains.go).
LockdownTellsNews == Lockdown!LockdownTellsNews
\* It is told so only when every domain matched its profile (domains.go), and
\* an application's ticket is judged by the whole list (qualys/findings.go).
FinishedIsTrue == Lockdown!FinishedIsTrue /\ [][Weekly!ListIsWhole']_reportRunVars
\* A ticket said to be up to date has told the findings, and the report says of
\* a ticket what this run did (appscan.go, run-appscan).
ToldAsDone == UpToDate /\ Weekly!LineIsThisRuns
\* The baseline never runs ahead of a report that was not made (cti-domains).
NoChangeLost == Survey!NoChangeLost
\* A failed lookup is never reported as a change (domains/state.go).
ChangesAreReal == Survey!ChangesAreReal
\* A run leaves the reserve to the other lanes, but for the call that tells it
\* so (limiter.go, Reserve).
ReserveKept == Limiter!ReserveKept
\* The longest one call can spend waiting (limiter.go, WaitBudget).
WaitBounded == Limiter!WaitBounded
\* The daily holds back no CVE that was in no synopsis (manifest.go, Held).
HeldWasMailed == Release!HeldWasMailed
\* A digest, a release's synopsis and an application's report are mailed once,
\* but for the causes their modules name (was-sent; appowners-sent.json).
SentOnce == Digest!OneDigest /\ Release!OneSynopsis /\ Reports!MailedOnce
\* What the cleanup archives, its owner has dealt with (mailbox/plan.go).
MovesOnlyItsOwn == Mail!MovesOnlyItsOwn
\* An advisory the log once knew is not deleted for its subject (plan.go).
RecordedIsKept == Mail!RecordedIsKept
\* No report of a finished run stays in the scanner unsaid (qualys/report.go),
\* nor on this machine (run-appscan).
NoReportLeft == Reports!NoReportLeft /\ Weekly!ReportsDeleted
\* What was stored is in a weekly in time (fleet-db rollup).
WeekCovered == Digest!WeekCovered
\* What CISA lists is scored so, or the catalog is named (enrich.py).
ExploitedIsSeen == Digest!ExploitedIsSeen
\* A line that was posted is on the board or in its archive (fleet-board).
BoardKept == Board!BoardKept
\* A mail goes to those alone whom the settings name for it (mailer, lane.go).
OnlyAllowed == Policy!OnlyAllowed
\* The lanes read the owners the last change came to (fleet-owners).
SnapshotFollows == Owners!SnapshotFollows
\* A cache not marked stale lacks recent mappings only (qualys/client.go).
MappingsAreRecent == Scanner!MappingsAreRecent
=============================================================================
