# CTI agent fleet: TLA+ specifications

Specifications of zany2dmax/cti-agent: what its lanes promise, how they keep
it, and where they do not. Modules are translated from the Go and shell source
under `src/`; a name that exists there keeps its spelling here. `PROJECT.json`
says which definition stands for which lines.

| module | what it is |
|---|---|
| `CveTickets` | the CVE ticket lane: `cti-jira --from-enriched --follow-up` over `internal/jira` |
| `CveTicketsProofs` | theorems of `CveTickets` |
| `Heartbeat` | `run-checkin` with its lock, gated by `cti-budget` over `internal/budget` |
| `HeartbeatProofs` | theorems of `Heartbeat` |
| `StandingTicket` | abstract: what is promised about a ticket that is kept up week by week |
| `AppTickets` | one ticket per application: `cti-jira --appscan-tickets`, and closing the retired ones; implements `StandingTicket` |
| `AppTicketsProofs` | theorems of `AppTickets`, the refinement among them |
| `DomainsTicket` | the one lock-down ticket: `cti-jira --domains-actions`; implements `StandingTicket` |
| `DomainsTicketProofs` | theorems of `DomainsTicket`, the refinement among them |
| `DomainsSurvey` | `cti-domains`: last week's baseline against this week's look-ups |
| `AppscanRun` | `run-appscan` around `cti-appscan`: the weekly report and the input of a ticket |
| `OwnerReports` | `run-appowners`: each application's scanner report to its owners |
| `OwnersDb` | `fleet-owners`: the database of owners and the snapshot the lanes read |
| `DigestRun` | `run-digest`, daily and weekly, over the findings table of `fleet-db` |
| `PatchTuesday` | `run-patchtuesday` and what its manifests take out of the daily |
| `Mailbox` | the shared mailbox: two lanes that read it and the cleanup |
| `QualysLimiter` | `internal/qualysrl`, the limiter of Qualys calls |
| `QualysLimiterProofs` | theorems of `QualysLimiter` |
| `FleetBoard` | `fleet-board`: the message board under its lock |
| `MailPolicy` | `cti-mailer` and `mailer.py`: who is mailed |
| `MailPolicyProofs` | theorems of `MailPolicy` |
| `KbCache` | the cache of CVE → QIDs behind every scanner lookup |
| `Lanes` | the modules from `AppTickets` on, as one specification with their properties |
| `WeeklyLanesProofs` | theorems of `Lanes`: survey, weekly report, synopsis, mailbox |
| `LanesProofs` | theorems of `Lanes`: owners' reports, board, digests, cache, owners, and every property that joins modules |
| `MC*` + 12 `.cfg` | small instances for TLC |

To run: `tlc -config MCCveTickets_faults.cfg MCCveTickets`,
`tlc -config MCLanes_runs.cfg MCLanes`, and `tlapm` on each `*Proofs.tla`
(`LanesProofs` takes six minutes, the others less).

## 1. The system

A fleet of unattended lanes on one machine, each a systemd oneshot on a timer.
They share a SQLite file (`fleet-db`), a message board, a Jira project, a
Qualys subscription, one mailbox, and a model account. Nothing stays resident:
what a lane knows tomorrow is what it wrote down today, in Jira, in the
database or in a JSON file.

| lane | started | steps | what it writes |
|---|---|---|---|
| daily digest (`run-digest`) | 06:00 | ingest mail → `enrich.py` → `cti-jira` → `brief.py` → `mailer.py` → `fleet-db sent` | findings, tickets, a mail, a row in `digests` |
| weekly rollup | Mon 07:00 | the same, from `fleet-db rollup`, no ticketing | a mail, a row |
| scout | every 4 h | `scout.py` | scout items |
| heartbeat (`run-checkin`) | every 2 h, on boot | lock → `cti-budget check` → model session → `cti-budget record` | `budget.json`, board, alerts |
| domains (`run-domains`) | Tue | survey → one lock-down ticket → report | ticket, state file, mail |
| AppSec (`run-appscan`) | Fri | scan results → one ticket per application, close retired ones → report | tickets, mail |
| application owners (`run-appowners`) | daily 07:15 | scan notices and the scanner's list → plan → report made, fetched, redacted, deleted → mail to owner and watchers → record | mails, the log of delivered scans (`state/appowners-sent.json`), alerts |
| mailbox cleanup | daily 07:00 | plan → move mails | mailbox folders, owner records |
| Patch Tuesday | Wed 9th to 15th | MSRC → report → manifest | saved report, manifest, mail |
| alert (`cti-alert`) | on failure of a unit | mail | — |

### Components, their state and what makes them correct

| component | state | operations | correct when |
|---|---|---|---|
| ticket filing and follow-up (`cmd/cti-jira`) | a run's locals only | select, search, create, comment, record, re-check | one ticket per CVE; IT told of every spread and of the fix, not twice, not early, not wrongly |
| ticket policy, exposure state (`internal/jira`) | issue property `cti-agent-exposure` | diff, hold, plan, state from finding | what is stored is what IT was last told |
| Jira client | none | search, create, comment in parts, get/set property | a failure is reported as one, whether or not the call took effect |
| scanner lookup (`internal/vulnlookup`) | KnowledgeBase cache | `LookupCVE`; load, top up, rebuild the cache | an outage or an old cache is not an answer; the count is the scanner's |
| budget ledger (`internal/budget`) | `budget.json` | check, record, save, prune | ceilings hold, refusals are waited out, holds have a cause |
| heartbeat runner | lock directory | take, take over, beat, release | one beat at a time; it beats again after a crash |
| digest pipeline, database | `digests`, findings | was-sent, steps, send, sent | a digest a day, once |
| domains ticket | property on one ticket | search, create or comment, record | one ticket, a comment per changed list |
| application tickets | property per ticket | file, update, close retired | one per application, closed only when retired |
| mailbox cleanup | owner records | plan, move, record | only handled mail moves, after its grace period |
| Qualys limiter | quota as last seen | reserve, send, retry | the subscription's limits are kept, with a reserve |
| Patch Tuesday | manifest | build, send, mark | each release reported once |
| board | a file and a lock | post, tail, archive | no post lost or torn |

How they interact: lanes call each other's binaries in sequence, and meet only
in the shared stores. `cti-jira` runs inside `run-digest`, before the mail, and
exits 0 whatever happens. `run-checkin` asks `cti-budget`, and calls `cti-alert`
itself for a hold. Mail passes a list of who may be reached: the digests'
`VM_ALLOW_TO`, a lane's own, the owners' domains; `cti-alert` mails the operator
and nobody else. All Jira writes pass one gate (`JIRA_ALLOW_CREATE`,
`JIRA_ALLOW_CLOSE`).

What is hard: several calls that should be one (comment, then record);
answers lost after their effect; runs cut off by a deadline; the world moving
between a read and the write that depends on it; operator runs beside the
timer's; locks made of directories; limits that restart at midnight or after
seven days; an outage that looks like good news. `PROJECT.json` lists the
hazards with their lines.

## 2. CveTickets

### State and actions

| variable | in the code |
|---|---|
| `detected`, `mapped` | the estate as the scanner sees it; the KnowledgeBase's CVE → QID mapping |
| `tickets` | the project's tickets, oldest first: CVE label, status category, `cti-agent-exposure` |
| `run` | the locals of one `cti-jira` process; `pc` is its next call |
| `ledger`, `said` | observers: what the readers of each ticket have been told, and the comment this step made |

| action | code |
|---|---|
| `StartRun` | `main.run`: flags, configuration, today's rows (those `ShouldFile` accepts, and of them those that need no approval) |
| `Select`, `Selected` | `selectForTicketing` |
| `FileOrUpdate`, `FileSearchFails`, `CreateIssue`, `CreateFails` | `fileOrUpdate` |
| `ReadState` | `storedState` and `planUpdate` |
| `AddComment`, `CommentFails`, `SetProperty`, `SetPropertyFails` | `updateExisting` and the end of `fileOrUpdate`, one action per Jira call |
| `EndFiling`, `FollowUpSearch`, `FollowUpSearchFails`, `FollowUp`, `EndFollowUp` | `doFromEnriched`, `followUp` |
| `Crash` | the context deadline, a kill, a power cut |
| `Rescan`, `KBRefresh`, `MoveTicket`, `DayPasses` | the rest of the world |

`StateFrom`, `holdGrowth`, `Material`, `planUpdate` and `StateToRecord` are the
decision functions of `state.go` and `plan.go` on sets. `LookupCVE` is the set
of answers a lookup can give: of the pages that were read (`getAllPages`), with
the names and the floor of a count that `parseHostDetections` keeps of them. A
failed call has two
forms: without effect (`CreateFails`), and with its effect but without its
answer (the second disjunct of `CreateIssue` and `AddComment`). The latter also
stands for a comment of several parts of which one was refused.

Time is in days. The program compares only `now` with `LastReportedAt +
GrowthInterval`, so an instant is kept as its age up to that interval. A run
ends within its 15-minute deadline; no day passes inside one.

### Runs

| run | instance | shows |
|---|---|---|
| `cve_faults` | 1 CVE, 2 hosts, 1 QID, interval 1 day, 2 tickets allowed, list limit 1 below 2 hosts; truncated scans, writes and lookups fail, runs crash, dry runs | `TypeOK`, `OneTicketPerCVE`, `StoredIsTold`, `NoFalseAllClear`, `GrowthPaced`, `ClosedNotedOnce`, `AllClearOnce`, `WritesAuthorised` |
| `cve_live` | fairness, lookups fail now and then | `SpreadReported`, `FixReported` |
| `cve_readfails` | property reads fail, nothing else | a violation of `StoredIsTold` |
| `cve_writelost` | property writes fail, fairness | a violation of `FixReported` |
| `cve_pageslost` | a later page of an answer may be lost, nothing else fails | a violation of `NoFalseAllClear` |

Why the bounds are enough: tickets interact only by carrying the same CVE, so
one CVE with room for two tickets lets every double filing happen; two hosts
give growth, shrinkage and replacement; an interval of one day gives the day
before, the day of and never; a list limit of 1 gives lists that fit and lists
that do not. The number of days and of runs is unbounded. Two CVEs exceed what
TLC does in reasonable time; the theorems hold for any number.

### What the violations say

`cve_readfails`. `storedState` takes a property it cannot read for a missing
one. The plan is then a first look, which stores today's hosts and tells
nobody: the stored set is no longer "the set IT was last told about"
(`state.go:66`), and the new hosts are never announced. The comment at
`plan.go:115` expects this to cost one comparison. The same step loses the
stamp of the closed note, which is promised "once, ever". `domains.go:98`
leaves the ticket alone in the same situation.

`cve_writelost`. If the property write after filing is lost and the CVE is gone
by the next day, the first look stores zero, and zero is never news again: the
ticket stays open and is never told that no detections remain
(`RUNBOOK.md:932`, `LANES.md:13`).

`cve_pageslost`. When a later page of host detections cannot be read, the QIDs
met on the pages before are marked as truncated (`client.go:517`). A CVE whose
hosts were all on the lost page has no QID there to mark: `LookupCVE` answers
NOT_PRESENT with a count of 0 that is no floor, the follow-up accepts it, and
the ticket of a live exposure is told that no detections remain. "Reporting 'not
present' for a failed lookup is the failure this codebase is built to avoid"
(`INTERFACES.md:68`). The other runs and the theorem take pages as read.

Seen while modelling, and not a run: with `Overlap = TRUE` two processes file
two tickets for one CVE, because nothing serialises search and create. A first
comment on a CVE that gained a QID after its all-clear reads "0 -> 0 hosts".
The comments at `state.go:260` ("a shrinking count is still recorded") and
`plan.go:31` describe an earlier version: a look that says nothing stores
nothing (`main.go:491`).

### Fairness (`LiveSpec`)

A run that started goes on (its deadline ends it otherwise), the timer's run
starts again and again (`SF` on `ScheduledStart`: daily, real, gate open, with
follow-up, as `run-digest` starts it), days pass, and a call repeated for ever
succeeds in the end. The last is about networks and not about the code; the
live run needs it for the scanner's answer and, where writes fail, for Jira.
The live properties speak of an estate and a ticket that stay as they are long
enough; nothing is assumed of what happens before.

### Theorems (`CveTicketsProofs`)

| theorem | assumes | says |
|---|---|---|
| `TypeCorrect` | — | `TypeOK` always |
| `OneTicket` | `~Overlap` | `OneTicketPerCVE` always |
| `StoredWasTold` | `~Overlap`, `~ReadFails` | `StoredIsTold` always |
| `AllClearIsTrue` | `~PagesLost` | `NoFalseAllClear` |
| `WritesAreAuthorised` | — | `WritesAuthorised` |
| `NotedOnce` | `~Overlap`, `~ReadFails` | `ClosedNotedOnce` |
| `ClearedOnce` | `~Overlap`, `~ReadFails` | `AllClearOnce` |
| `GrowthIsPaced` | `~Overlap`, `~ReadFails` | `GrowthPaced` |

for every finite set of hosts, all sets of CVEs, QIDs and runs, all bounds and
all combinations of failures (`ConstantsAssumption`, `NoStateAssumption`; both
evaluated by TLC in every run).

The inductive invariants:

- `TypeInv` = `TypeOK` and, for each run, `InHand`: the ticket it works on and
  those in its queue exist, and a run that plans a comment has a state to
  compare with. Without it `tickets[run[r].id]` need not be a ticket.
- `TicketInv` adds `OneRun` (one process at a time) and `NoneYet`: a run about
  to file knows that its CVE has no ticket. The search was an earlier step;
  only the absence of other runs keeps its answer true.
- `ToldInv` adds `Announced`: what a run is about to store after a comment is
  in the readers' ledger by now, and what it stores silently is either a
  genuine first look or the set that is stored already.
- `ZeroSeen`: a run that compares an answer of no hosts saw an estate without
  the CVE. This one needs every page of an answer, and no assumption on overlap
  or any other failure.
- `AuthorInv`: a run that goes on to Jira is one that may write there, and the
  one about to file found its CVE present and need not ask anybody.
- `NewsInv` = `ToldInv` with `OnRecord` (what the ticket's readers know is what
  its property says: a note that is stamped, a zero, a day of the last report)
  and `Planned` (what a run is about to comment or to record was compared with
  the property as it still is). From it, `CommentsAreNews` gives the three
  theorems on what is told once. Overlapping runs break `Planned`, an unread
  property `OnRecord`: the run `cve_readfails` shows the latter.

`RunStepType`, `StepShape` and `WorldShape` say once what steps leave alone;
the invariants cite them and treat only the actions that can disturb them.

Only model-checked: the two liveness properties, `SpreadReported` and
`FixReported` (out of the prover's reach).

## 3. Heartbeat

### State and actions

| variable | in the code |
|---|---|
| `hour` | ticks since midnight, for the daily ceiling |
| `lock` | `$FLEET_HOME/.checkin.lock` and the age of its mtime |
| `ledger` | `budget.json`: beats, `cooldown_until`, `alerted_for` |
| `proc` | the runs of `run-checkin`; `pc` is the next command |
| `calls` | observer: the beats that ended, whatever the ledger says |
| `alerts`, `mailed` | observers: how often a run was told to mail a pending end of a hold, and how often that mail went out |
| `crashes` | bound |

`TryLock`, `StatLock`, `BreakLock` and `RetakeLock` are the four commands of
`run-checkin:395-402`; `Proceed` and `Hold` are `cti-budget check` with its exit
codes; `Refuse` the checks before the lock (code integrity, credentials: the
run ends without a beat); `EndBeat` the model session, its outcome decided by
`Classify` from the exit code and what the output mentions;
`RecordBeat` is `cti-budget record`; `Leave` the exit trap; `TimeOut` the unit's
`TimeoutStartSec`; `Crash` a reboot. `RetryAfter`, `Record`, `backoffFor`,
`consecutiveRateLimits`, `countSince` and `prune` are `ledger.go`. One call of
`cti-budget` is one step: `OneBeat` keeps other beats out of it, and
`cti-budget status` saves nothing. Told is not mailed: the ledger's mark is
saved before `cti-alert ... || true`, which exits 0 when its mail is refused or
nobody is configured (`Alert`, `MailFails`). Instants are ages or times left, capped where
the program stops telling them apart. Only beats take time.

### Runs

| run | instance | shows |
|---|---|---|
| `hb_beats` | 2 processes, window 3 with 2 beats, day 5 with 3 beats, waits 1, 2, 4, no crash | `TypeOK`, `OneBeat`, `SpendBounded`, `BacksOff`, `HoldsForCause`, `GateTellsOnce` |
| `hb_restart` | 1 process, 1 crash, unreliable ledger, fairness | `BeatsAgain` |
| `hb_exhausted` | 1 process | a violation of `HoldToldOnce` |

Mail may fail in `hb_beats` and `hb_restart`; in `hb_exhausted` every mail
arrives, so that a second one is not for want of the first.

The bounds: the window is shorter than the day and does not divide it, so it
slides over midnight; both ceilings can be the one that bites; the wait grows
twice and reaches its maximum; the beats kept just cover the day; two processes are
enough for one to meet the other at every step of the takeover. Time itself is not bounded. `SpendBounded` is
about `calls`, what really happened, and not about the ledger's own account.
`hb_beats` leaves crashes out because `OneBeat` fails with them (below), and the
ledger's failures because the gate fails open by intention.

Fairness in `LiveSpec`: time passes, and each process takes its next step
(the timer fires, every command ends). Nothing is owed to crashes.

### Theorems (`HeartbeatProofs`)

| theorem | assumes | says |
|---|---|---|
| `HeartbeatTypes` | — | `TypeOK` always |
| `OneBeatHolds` | `MaxCrashes = 0`, `Cadence > 0`, `TwoRuns` | `OneBeat` always |
| `SpendIsBounded` | the same, `~LedgerFails` | `SpendBounded` always |
| `HoldsHaveCause` | the same, `~LedgerFails` | `HoldsForCause` |
| `GateMailsOnce` | the same, `~LedgerFails` | `GateTellsOnce` |
| `WaitsAreKept` | the same, `~LedgerFails` | `BacksOff` |

for every window, day, ceiling, wait, stale age and number of beats kept that
`ConstantsAssumption` allows. The assumptions are where the code itself stops keeping the
promise. `TwoRuns` says that there are two processes at most: three can take
the lock from under one another, and so can two after a crash left a lock (both
below). Without a `Cadence` a process that gave the lock back may take it again
while the other is between its look at the old lock and its takeover. A ledger
that cannot be read or written opens the gate, by intention.

The inductive invariants, which TLC checked on `hb_beats` before they were
proved:

- `TypeInv`: `TypeOK` and what a process's record says at each command. That
  the wait after any row of refusals is a number up to the maximum is a lemma
  on `backoffFor`.
- `LockInv`: whoever is between taking the lock and giving it back holds it,
  the lock is as old as its beat, and the other is idle or about to look at its
  age; whoever takes over a lock that is gone has the other at rest. Without
  the ages the takeover cannot be excluded.
- `SpendInv`: for every number of hours, the ledger counts the beats the model
  was really asked, but for the one about to be recorded; a beat starts below
  both ceilings. It rests on what pruning keeps: a beat within any limit that
  is read later stays, in its order.
- `CauseInv`: a cooldown has a refusal behind it, whose age and what is left
  come to the longest wait at most, with no clean beat since; nobody beats or
  records in a cooldown.
- `TellInv`: the mark of the ledger is the end of the hold; what a run was told
  to mail for an instant is that mark and the report of an exhausted account, of
  which there is one at most within the longest wait. What went out is no more,
  and may be less.
- `PaceInv`: the ledger's history, with the beat about to be recorded, ends as
  the calls do; the calls are in the order they were made; and the cooldown
  lasts for what is left of every recorded beat's wait. It rests on three facts:
  a history that ends as another does has no longer a row of refusals at its
  end; fewer refusals ask for no longer; and `backoffFor`, which stops doubling
  at the maximum, comes to the wait that is doubled first and cut off after.

`prune` is written by places (`Kept`, and `Nth` of it) and not with
`SelectSeq`, which the provers cannot expand.

`BacksOff` states its wait by a recursive function and not as a power
(`Base * 2^n`): exponentiation is not in the provers' arithmetic.

Only model-checked: `BeatsAgain`, which is liveness, and what crashes do.

### What the violation says

`hb_exhausted`. When the account is out of credit, `cti-budget record` exits 4
and `run-checkin` mails a hold. `Record` has started the cooldown but has not
marked it as alerted, so the first check the cooldown denies is told to mail it
again: two mails for one cooldown, against "one email per distinct cooldown"
(`fleet-kit/README.md:2002`). `GateTellsOnce` states what does hold: the gate
has every hold told once. Whether the mail arrives it cannot say: a hold whose
one mail fails is marked as alerted and never mailed.

Seen while modelling, and not a run: the lock is taken over in two commands and
the second may fail unnoticed (`mkdir ... || true`). After a crash left a stale
lock, a run between its `rmdir` and its `mkdir` and another that makes the
directory in that moment both beat. Three runs reach the same without a crash,
because a lock removed between `mkdir` and `stat` looks infinitely old. The
comment above the lock names the cost: a slot and double spend, nothing
corrupted. A beat killed by systemd spends quota no record counts; a beat
started by hand has no time limit, and the model lets none outlive the lock's
stale age.

## 4. The lanes

### How they are put together (`Lanes`)

The modules of this section share no state: no action of one writes a variable
of another, and what one needs of another is a choice in its own module (the
owners on file, what `enrich.py` stored, whether a mail went out). `Lanes`
declares all their variables, starts them all, and lets a behaviour follow one
of them, `lane` (one of `Followed`), while the others stay where they began. Since they share
nothing, this is as good as their interleaving for properties that speak of one
lane each, and it costs the sum of their state spaces and not the product. Run
with `-coverage`, every action of every lane fires. Where two programs do share
state they are in one module: the digest, the weekly and the cleanup in
`Mailbox`; the daily and the weekly in `DigestRun`; the synopsis and the daily
in `PatchTuesday`; all editors in `OwnersDb`; all posters in `FleetBoard`; the
other lanes' calls in `QualysLimiter`.

A property of `Lanes` that joins two modules' (`OneStandingTicket`,
`FinishedIsTrue`, `ToldAsDone`, `SentOnce`, `NoReportLeft`) is one promise made
by two lanes. Their assumptions on constants are plain definitions;
`LanesAssumption` states them all, and TLC evaluates it in the run `lanes`.

### Tickets kept up week by week: `StandingTicket`, `AppTickets`, `DomainsTicket`

`StandingTicket` is the abstract promise, in two variables per ticket: what its
readers were last told, and whether the ticket remembers it. A ticket is filed
with a list; it is told a list, or that nothing is left, only when that is news
or when the last telling was not recorded; and only then may a lane repeat
itself. Both lanes implement it. The mapping reads `said` off the readers' last
message and `recorded` off the issue property, and the property checked is the
abstract `Spec` (`TellsNews`, `LockdownTellsNews`).

`AppTickets` follows `planApp` and its calls: search, read of the property,
create (with the second try without assignee and component after a 400, and
none after any other failure), comment, record; then `retireOrphans`, which
closes tickets of applications the scanner no longer defines, judged on one
page of tickets, the properties that could be read and the scanner's list.
`DomainsTicket` follows `planDomains`: a property that cannot be read stops it.
What its list asks for comes from look-ups and from the gateway's evidence,
each of which may be missing.

Checked: `OneStandingTicket`, `ToldAsDone` (a run that says a ticket is up to
date speaks of these findings), `QueueSurvives` and `ClosesOnlyGone`
(retirement never closes many, most, or those it was just told about),
`FinishedIsTrue` (a ticket is told to close only in a week in which nothing was
left). Bounds: two applications, one with two different findings; two tickets;
two closings a run (3 in the code), so that a list which lost one, both or no
applications meets every limit. People move tickets at any time.

### The weekly report: `AppscanRun`

One application's view of `run-appscan`: the scan notice, paging through open
findings while the scanner changes them, the ticket's input, the report fetched
for the ticket, `cti-jira`, the stamp, the mail, the alert, and the files of
the day that a run cut off leaves for the next. `ListIsWhole`: a list that a
ticket is judged by has every finding that was open from the first page to the
end. `LineIsThisRuns`: what the mail says of the ticket is of this run.
`ReportsDeleted`: reports with session cookies do not stay on this machine.
Bounds: 3 findings in pages of 1 (100 in the code) and at most 3 pages (40), so
that a look-up is cut short by the limit, by an error, or neither. The scanner
is assumed to answer in id order, which the cursor of `findings.go` relies on.

### The domains survey: `DomainsSurvey`

Zone, baseline, a run. A look-up that fails carries last week's value over.
The baseline is saved after the report is rendered and before it is mailed:
`NoChangeLost` says that the baseline is ahead of the mails only where a
rendered report was not sent (`lost`); `ChangesAreReal` that no reported change
is a failed look-up.

### Owners: `OwnerReports`, `OwnersDb`

`OwnerReports` joins the notices with the scan list (`Reconcile`), takes the
newest per application, skips what the log has, makes, fetches and deletes each
report, mails, and records. `MailedOnce`, `NoReportLeft`: exceptions are
observers that name their cause (`unrecorded`, `stranded`). That an application
is mailed in the end is not stated: sends that fail are tried again the next
day, until the scan leaves the 48 hours of the listing. Bounds: two scans
of one application, a window of one day with a margin of one, one report in
the scanner's list.

`OwnersDb` has every command of `fleet-owners` that writes, two editors, the
file lock, SQLite's write lock, the snapshot written inside the transaction and
renamed after it, and kills between. `SnapshotFollows`: what the lanes read is
what the last change came to. Two changes are enough for one editor's rename to
meet the other's commit.

### The digest: `DigestRun`

Daily and weekly over `findings` and `digests`: was-sent, ingest, `enrich.py`
(KEV cache, NVD's flag, scores), the upsert, tickets, rendering, the send with
or without an answer, the record. `OneDigest`, `WeekCovered`, `ExploitedIsSeen`.
A week is one day long and there is one CVE: rows do not interact in these
properties, and a window of one day already has a day inside, the day on its
edge, and one past it.

A day has two halves, because `KEV_TTL_HOURS` is half a day: a catalog fetched
in this half is used, one of the half before may or may not be, across midnight
too, and an older one is not. The morning's daily may therefore score with the
catalog of the evening before and not see what CISA listed in between, without
naming the catalog as degraded. `ExploitedIsSeen` speaks of what was listed for
longer than that when the daily scores it; of nothing younger does the code
promise more.

`OneDigest` excuses a second mail of a day by its cause only: an earlier one was
repeated by `graph_post` or given up on without an answer, its record failed or
its run ended before it, or was-sent did not answer (which reads as not sent)
when a mail had gone out.

### The synopsis: `PatchTuesday`

Two months, two CVEs a release, sources that answer in part. A manifest is
written unsent, the mail goes out, then the manifest is marked and the digest
recorded. was-sent that fails reads as not sent (`|| echo no`), so a run may
start on a release that was reported; and `graph_post` repeats a POST without
an answer, so one run may mail up to three copies, or mail some and fail.
`HeldWasMailed`: the daily leaves out only what was mailed. `OneSynopsis`: of
all copies of a release one at most has no cause of its own: a record that was
lost, a guard that did not answer or was passed by `--resend`, a repeated POST.
That a release is reported at all is not stated: the timer starts one run a
month.

### The mailbox: `Mailbox`

The digest reads and logs, the weekly reads scan notices and logs, the cleanup
merges the logs, plans, and moves one by one; each may fail after any step.
`MovesOnlyItsOwn`, `RecordedIsKept`. Ages are in started ticks. The constants
keep the order `load` demands and no other: the digest's look-back is no longer
than the grace unless the grace is 0, and both graces are shorter than the
window. The window is not bounded by the logs' retention (by default it equals
it), and the run has one that is longer: a record then expires while its mail
is still in the window, and the promise of `RecordedIsKept` ends with it. What
remains at any age when the window is no longer is the theorem
`AdvisoryIsKeptHolds`. Without a grace a mail that a digest would still read may
be archived. One mail of any kind: the plan treats each by itself.

### Qualys calls: `QualysLimiter`

A window of 5 calls, a reserve of 3, 4 attempts as in the code, other lanes
spending at any moment, answers without numbers, stale waits. `ReserveKept`: a
run spends one call of a window past the reserve, the one that tells it so, and
one more per answer that told it nothing, a refusal without numbers among
them. `WaitBounded`: a call waits as often
as `WaitBudget` has room for.

### The board: `FleetBoard`

`acquire` in its five commands, posts, the move to the archive, kills, two
processes and those of a later hour. `BoardKept`: a line whose post exited 0 is
on the board or in the archive, except after one process removed another lock
than the one whose age it read (`raced`). Live owners are assumed to be done
within the 60 seconds after which `acquire` takes a lock for dead.

### Who is mailed: `MailPolicy`

`fleet.env` and the owners are edited between sends; each request goes through
the gate of `cti-mailer` or of `mailer.py`. `OnlyAllowed` says who a mail may
reach, per kind. References between lists are followed 1 deep (5 in the code; with 1, a
list that names a list that names a list is already too deep, and a circle is
met before that), and at most two settings are edited, each from a start in
which all are sensible.

### The scanner's cache: `KbCache`

`LoadOrBuildKBCache` in its branches: a fresh file; an aged one topped up with
what changed since it was written; a rebuild when that fails; the old cache
marked stale when the rebuild fails or is implausible; a first build that may
fail. Pages are read one at a time while Qualys changes, days pass, and the
process may end. `MappingsAreRecent`: a cache not marked stale lacks only
mappings that are younger than its maximal age, so an UNKNOWN without
"coverage UNVERIFIED" is one of a CVE that Qualys cannot find or learned to
find just now. Bounds: one CVE, two QIDs on a page each (one page is read and
one is not), a maximal age of one day (7 in the code), ages capped two days
later. With two CVEs it holds too (3.8 million states by itself); the
plausibility check then still only tells an empty parse from a whole one.

### Runs

| run | instance | shows |
|---|---|---|
| `lanes` | as above; calls fail, runs are cut off; 2 million states | the 23 properties of `Lanes` |
| `app_returns` | one application, nothing fails | a violation of `ResolvedIsTrue` |
| `domains_outage` | DNS may not answer | a violation of `FinishedIsTrue` |
| `resend_marks` | sends by hand with `--month` | a violation of `HeldWasMailed` |

No fairness is assumed: these lanes' promises are of safety. That a lane runs
again is its timer's doing.

### Theorems

The 23 properties of the run `lanes` are proved of `LanesSpec`, for every value
of the constants. `LanesAssumption` is the only thing taken of the constants
(and evaluated by TLC) where the table names nothing else. Besides bounds it
says that the values standing for "none" (`NoRecord`, `NoLock`, `NoRow`,
`NoFile`, ...) are not values of the other kind, and that there is something to
choose from (`Values # {}`).

| theorems | in | assume | inductive invariants |
|---|---|---|---|
| `LimiterTypes`, `ReserveIsKept`, `WaitIsBounded` | `QualysLimiterProofs` | | `KnownInv`, `SpentInv`: past the reserve, the last call was answered, the answer said so, and nothing but a cleanup call gets as far as being sent; `WaitInv`: a call waits before its first attempt alone, since a wait forgets what was announced |
| `AppTicketsTypes`, `OneOpenTicketHolds`, `TellsNewsHolds`, `UpToDateHolds`, `QueueSurvivesHolds`, `ClosesOnlyGoneHolds` | `AppTicketsProofs` | | `OpenInv`: every open ticket of the application a run files for was reopened by a person; `SayInv`: the run compares with the property the ticket still has, and what it records its readers were told; `RetireInv`: what is left to close, with what was closed, is within both caps |
| `DomainsTicketTypes`, `OneLockdownTicketHolds`, `LockdownTellsNewsHolds` | `DomainsTicketProofs` | | `OpenInv`, `SayInv` as above |
| `FinishedIsTrueHolds` | `DomainsTicketProofs` | `~LookupsFail`, `Finished \notin Lists` | `DoneInv`: a run about to say that nothing is left met a survey in which every domain matched |
| `MailPolicyTypes`, `OnlyAllowedHolds` | `MailPolicyProofs` | | `PolicyInv`; `WalkStays`: what following references collects was named by a list the lane's own one leads to |
| `NoChangeLostHolds`, `ChangesAreRealHolds` | `WeeklyLanesProofs` | | `SurveyInv`: what a run is about to save is last week's, but for what it reports as changed and what was never looked up |
| `ListIsWholeHolds`, `LineIsThisRunsHolds`, `ReportsDeletedHolds` | `WeeklyLanesProofs` | | `LookInv`: what was open from the first page on and is before the cursor has been read |
| `HeldWasMailedHolds` | `WeeklyLanesProofs` | `~WritesFail`, `~Replays` | `SentInv`: the manifest a run marks is the one it wrote and mailed |
| `OneSynopsisHolds` | `WeeklyLanesProofs` | `~Replays` | `CopyInv`: of the copies that went out one at most is not excused, and that one is on record or about to be |
| `MovesOnlyItsOwnHolds`, `RecordedIsKeptHolds` (every window, grace and retention) | `WeeklyLanesProofs` | | `DigestInv`, `ScanInv`, `KnownInv`, `CleanupPlanInv`: what the logs and the cleanup's plan say of a mail is still so when it is moved |
| `AdvisoryIsKeptHolds` | `WeeklyLanesProofs` | `Window <= Retain` | the same: what is on record is younger than the retention while its mail is in the window |
| `NoReportLeftHolds`, `MailedOnceHolds` | `LanesProofs` | | `PlanInv`: one delivery per application in a plan, of a scan the log does not have; `MailedInv` |
| `BoardKeptHolds` | `LanesProofs` | | `LockInv`: a lock past its age is of a process that no longer works, and whoever works has the lock unless `raced`; `LinesInv`: what a pruning parted is the whole board |
| `OneDigestHolds`, `WeekCoveredHolds`, `ExploitedIsSeenHolds` | `LanesProofs` | | `OneDigestInv`: a digest mailed today is on record or about to be, and none is on its way to the mailer; `OwedInv`: what a weekly owes was stored since the last one was rolled up; `CatalogInv`: the cached catalog, while it is used, has all that CISA listed before it was fetched |
| `MappingsAreRecentHolds` | `LanesProofs` | | `FileInv`: the file lacks only what changed since its stamp or was missed; `DownloadInv`: the same of a download, page by page |
| `SnapshotFollowsHolds` | `LanesProofs` | | `CommandInv`, `SnapshotInv`, `ChangesInv`: the snapshot that counts as many changes as the database is the database, and whoever is between its transaction and its rename holds the lock |
| `LanesTypeOKHolds`, `OneStandingTicketHolds`, `ToldAsDoneHolds`, `NoReportStays`, `ReserveKeptHolds`, `WaitBoundedHolds`, `LockdownTellsNewsLanes`, `OnlyAllowedLanes` | `LanesProofs` | | carried over from the components |
| `FinishedIsTrueLanes` | `LanesProofs` | `~LookupsFail`, `Finished # {}` | carried over |
| `SentOnceHolds` | `LanesProofs` | `~Replays` | carried over |

*From a component to `Lanes`.* `Lanes` extends `AppTickets`; the other modules
it instantiates. A step of `LanesNext` is a step of one component or leaves
that component's variables as they are, so a behaviour of `LanesSpec` is one of
each component's specification (`ReportSteps`, `SurveySteps`, ..., `LimiterIs`,
`LockdownIs`, `PolicyIs`). The survey and its like are proved over the
instances directly. The limiter, the lock-down ticket and the mail policy have
theorems of their own module; `LimiterP`, `LockdownP` and `PolicyP` are those
modules over the variables of `Lanes`.

*The refinement of `StandingTicket`.* The initial states map to initial ones.
Creating a ticket maps to `File`, each kind of comment to `Say`, writing the
property to `Record`, and all else to a stutter: what a person does to a
ticket, a call refused, closing. `SayInv` is what makes a comment news in the abstract sense:
the abstract guard speaks of what the readers know, the code's of a property,
and an earlier step read it.

*Where an assumption is named* the property fails without it, and a run shows
how: `domains_outage` without `~LookupsFail`, `resend_marks` without
`~Replays`. `~WritesFail` excludes the manifest that could not be written and
an older one marked in its place. In the run `lanes` they hold.

*No induction over data.* `Walk`, which follows references between lists, is a
recursive function. That such a function exists at all, and satisfies its
equation, is `WalkIs`: the depth is bounded, and the deepest level at which it
fails would be a least one. Facts about maxima and counts are proved the same
way, from the well-foundedness of `<`.

### What the violations say

`app_returns`. A ticket told that nothing is left keeps the hash of the list
before (`appscan.go:427`), so that returning findings "are reported as back".
When exactly those return, `planApp` finds the hash unchanged and does nothing,
and the report calls the ticket resolved.

`domains_outage`. A look-up that failed asks for no change. A week without DNS
gives an empty list that is neither held nor skipped, and the ticket is told
that every domain matches and that it can be closed. The same mistake is
guarded against for the gateway's evidence (`profile.go:327`).

`resend_marks`. `run-patchtuesday --for-real --month` builds without writing a
manifest and then marks the one that is there, which may be of an earlier run
with other sources whose mail failed: the daily leaves out CVEs no mail had.

### Seen while modelling, and not a run

Assumptions of the models that nothing in the code enforces, and what else a
reader of the code may want to know.

- *Two runs of one kind.* Nothing serialises two synopses, two digests of a
  kind, or two `run-appscan` of a day (which share their files). The models have
  one at a time.
- *Digest.* `--to-dev` says that nothing is recorded and stores its findings. A
  weekly more than a week after the last leaves a gap. The roll-up's `kev_deadlines` counts every past date.
- *Owners' reports.* With the scan list down, a faulty scan is held under its
  name and the next day under its id, and told twice. A late notice can make an
  older scan the newest again. A newer faulty scan displaces an older good one
  that was not sent. A run that is killed leaves its report in the scanner.
- *Owners.* A kill between commit and rename leaves the snapshot behind the
  database until the next change. A half-made `init` is refused for ever. A
  line with hosts and no owner drops the owner in the Python import but not in
  Go's reading. Between `init` and `import` the lanes read an empty snapshot.
- *Mail.* `FLEET_OPERATOR_EMAIL` with two addresses refuses every escalation.
  With two different allowlists under the two names, `mailer.py` escalates and
  `cti-mailer` decides otherwise. A reference to a list set to nothing is not
  refused.
- *Synopsis.* The tag in `digests` is "2026-September" live and "2026-09" with
  `--month`, so was-sent does not see the other. If writing the manifest of a
  live run fails and marking then succeeds, an older manifest is marked
  (`WritesFail`).
- *Mailbox.* `load` takes any window (`config.go:232`), and the manual proposes a
  catch-up with `--lookback 720h` (`man/man1/cti-mailbox.1:191`), where the logs
  keep 14 days: a mail titled as an automatic reply that the digest took a CVE
  from is then deleted for its title once its record has expired, though "a
  subject-only match the digest took a CVE from is archived, not deleted"
  (`plan.go:93`). `AdvisoryIsKept` fails with a `Window` longer than `Retain`.
  A cleanup beside a catch-up with a longer `--lookback` can archive
  what that run would still read. Records are made when the report is on disk,
  whether or not it is sent later. A log that is corrupt or gone forgets.
- *Weekly.* When the send fails, the alert of a failed login is not sent either.
  The reports of a killed run go with the next run of that day, or when they
  are a day old.
- *Board.* The age of a lock that cannot be read is infinite. A unit that
  recovered before `cti-alert` looks is reported as a test.
- *Scanner's cache.* The file is stamped when it is written and topped up with
  what changed on or after the stamp's date (UTC). A vulnerability changed after
  its page was read, in a download that crosses midnight, is before the next
  stamp: no later top-up asks for it. `MappingsAreRecent` excuses it by name
  (`missed`). A rebuild in which the parser knows more than half of the CVEs it
  had passes for whole. Two processes share the name of the temporary file.
- *Ledger.* `Classify` looks for words: a failing beat whose output merely
  mentions "402", "429", "billing" or "quota" is taken for a denial.

## 5. Not modelled

Wording, rendering (`brief.py`, `emailkit`, the reports of the weekly lanes),
parsing (mails, KEV, CSV, XML), the judgement of DNS, mail and web records, the
previous-ticket links, watchers and attachments of Jira, the shell guard of the
model's tools, the pod log probe, and the installers: data transformations or
pure input and output. A `--lookback` given by hand is another `Window` or
`Lookback`: the models hold for any, but one per behaviour. `--lane vm`, the
digest's list under a lane's name: `PolicyAssumption` gives every lane a list
of its own. Performance. Each component's status and reason is in `PROJECT.json`.

## 6. Plan

Every safety property of a passing run is a theorem. What is left, in this
order:

1. `Heartbeat` with crashes: what is left of `OneBeat` after a lock was left
   behind, and of `SpendBounded` with it.
2. `CveTickets` with overlapping runs: which of its promises remain of the
   timer's runs when the operator's are dry.

Liveness (`SpreadReported`, `FixReported`, `BeatsAgain`) stays with TLC: the
provers have neither fairness nor ENABLED.
