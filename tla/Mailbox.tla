------------------------------ MODULE Mailbox -------------------------------
(***************************************************************************)
(* The shared mailbox and the three lanes that go through it: the daily    *)
(* digest (cti-agent) reads it, the application weekly (cti-appscan) reads *)
(* scan notices in it, and the cleanup (cti-mailbox) moves out of it what  *)
(* an owner's log says has been dealt with, and automatic replies.         *)
(*                                                                         *)
(* The lanes are separate units and run at the same time; each may fail or *)
(* be killed after any step, and may take longer than a tick of the clock. *)
(* Ages are in started ticks: what is younger than a limit is inside it (a *)
(* mail is older than its record, so its window ends first).  Left out:    *)
(* what a mail says beyond its kind, the digest's lookups, wording,        *)
(* dry runs, and a --lookback given by hand (README, "Not modelled").      *)
(***************************************************************************)
EXTENDS Integers, FiniteSetsExt

CONSTANTS
    Mails,
    Lookback,       \* GRAPH_LOOKBACK_HOURS, in ticks; also the subject grace
    ScanLookback,   \* how far back the weekly reads
    MinAge,         \* MAILBOX_MIN_AGE_HOURS, 0 for no grace
    SelfMinAge,     \* MAILBOX_SELF_MIN_AGE_HOURS, likewise
    Window,         \* MAILBOX_LOOKBACK_HOURS
    Retain,         \* DefaultRetain, of the logs
    NoRecord

\* A log's entry of a mail, and what the cleanup makes of both logs.
Entry == [cve : BOOLEAN, age : 0 .. Retain]
Known == [cve : BOOLEAN, owner : {"appscan", "digest", "none"}]

\* load refuses a grace that is shorter than what the digest still reads, unless
\* it is 0, and one the window does not reach.  The window it takes as it is: the
\* logs' retention by default, and any other, longer or shorter.
MailboxAssumption ==
    /\ IsFiniteSet(Mails) /\ NoRecord \notin Entry \cup Known
    /\ {Lookback, ScanLookback, Window, Retain} \subseteq Nat \ {0}
    /\ {MinAge, SelfMinAge} \subseteq Nat
    /\ MinAge = 0 \/ Lookback <= MinAge
    /\ MinAge < Window /\ SelfMinAge < Window

VARIABLES
    mails,          \* external: the kind of each mail, where it is, its age
    digestLog,      \* state/processed-messages.json
    scanLog,        \* state/processed-appscan.json
    digest, weekly, cleanup,    \* the local states of the three processes
    reported,       \* observer: mails in a digest report that was written
    covered,        \* observer: notices in a weekly that was mailed
    recorded        \* observer: mails the digest's log once had a CVE for

mailboxVars == <<mails, digestLog, scanLog, digest, weekly, cleanup, reported, covered, recorded>>

-----------------------------------------------------------------------------
\* from: "skipped" is mail the digest passes over unread (a lookalike of our
\* own, a catalogue).  auto: what says the mail is an automatic reply.
Kind == [from : {"person", "scanner", "fleet", "skipped"},
         auto : {"no", "subject", "header"}, cve : BOOLEAN]
Ordinary == [from |-> "person", auto |-> "no", cve |-> FALSE]
Place == {"outside", "inbox", "archive", "deleted", "elsewhere"}

\* An age past every limit.
Oldest == Max({Lookback, ScanLookback, Window, Retain})

Inbox == {m \in Mails : mails[m].at = "inbox"}
NotReading == [pc |-> "idle", read |-> {}]
NotCleaning == [pc |-> "idle", known |-> [m \in Mails |-> NoRecord],
                owed |-> {}, archive |-> {}, delete |-> {}]

MailboxStays == UNCHANGED <<mails, cleanup>>

-----------------------------------------------------------------------------
(* The digest.                                                             *)

\* RecentMessages since the lookback; our own mail and what it skips is left
\* out, of its log too.
DigestReads ==
    /\ digest.pc = "idle"
    /\ digest' = [pc |-> "report",
                  read |-> {m \in Inbox : /\ mails[m].age < Lookback
                                          /\ mails[m].kind.from \notin {"fleet", "skipped"}}]
    /\ MailboxStays /\ UNCHANGED <<digestLog, scanLog, weekly, reported, covered, recorded>>

WritesReport ==
    /\ digest.pc = "report"
    /\ reported' = reported \cup digest.read
    /\ digest' = [digest EXCEPT !.pc = "record"]
    /\ MailboxStays /\ UNCHANGED <<digestLog, scanLog, weekly, covered, recorded>>

\* Mutant: the log is this run's.
RecordsItsOwn(log, seen) == [m \in Mails |-> IF m \in DOMAIN seen THEN seen[m] ELSE NoRecord]
\* Store.Record: replaced, and the old pruned.
Record(log, seen) ==
    [m \in Mails |-> IF m \in DOMAIN seen THEN seen[m]
                     ELSE IF log[m] # NoRecord /\ log[m].age < Retain THEN log[m]
                     ELSE NoRecord]

RecordsMail ==
    /\ digest.pc = "record"
    /\ digestLog' = Record(digestLog,
                        [m \in digest.read |-> [cve |-> mails[m].kind.cve, age |-> 0]])
    /\ recorded' = recorded \cup {m \in digest.read : mails[m].kind.cve}
    /\ digest' = NotReading
    /\ MailboxStays /\ UNCHANGED <<scanLog, weekly, reported, covered>>

\* The mailbox, a lookup or the report fails; the log does (not fatal); killed.
DigestEnds ==
    /\ digest.pc # "idle"
    /\ digest' = NotReading
    /\ MailboxStays /\ UNCHANGED <<digestLog, scanLog, weekly, reported, covered, recorded>>

-----------------------------------------------------------------------------
(* The application weekly.                                                 *)

\* collect: the scanner's notices, when they parse.
WeeklyReads ==
    /\ weekly.pc = "idle"
    /\ \E read \in SUBSET {m \in Inbox : mails[m].kind.from = "scanner"
                                         /\ mails[m].age < ScanLookback} :
         weekly' = [pc |-> "send", read |-> read]
    /\ MailboxStays /\ UNCHANGED <<digestLog, scanLog, digest, reported, covered, recorded>>

\* Mutant: the notices are claimed before the report goes out.
ClaimsFirst ==
    /\ weekly.pc = "send"
    /\ scanLog' = Record(scanLog, [m \in weekly.read |-> [cve |-> FALSE, age |-> 0]])
    /\ weekly' = [weekly EXCEPT !.pc = "commit"]
    /\ MailboxStays /\ UNCHANGED <<digestLog, digest, reported, covered, recorded>>
MailsWeekly ==
    /\ weekly.pc = "send"
    /\ covered' = covered \cup weekly.read
    /\ weekly' = [weekly EXCEPT !.pc = "commit"]
    /\ MailboxStays /\ UNCHANGED <<digestLog, scanLog, digest, reported, recorded>>

\* doCommitSeen.
CommitSeen ==
    /\ weekly.pc = "commit"
    /\ scanLog' = Record(scanLog, [m \in weekly.read |-> [cve |-> FALSE, age |-> 0]])
    /\ weekly' = NotReading
    /\ MailboxStays /\ UNCHANGED <<digestLog, digest, reported, covered, recorded>>

WeeklyEnds ==
    /\ weekly.pc # "idle"
    /\ weekly' = NotReading
    /\ MailboxStays /\ UNCHANGED <<digestLog, scanLog, digest, reported, covered, recorded>>

-----------------------------------------------------------------------------
(* The cleanup.                                                            *)

\* Merge: what the lanes know of a mail, and which of them owns it.
Merge(m) ==
    LET claimed == scanLog[m] # NoRecord /\ scanLog[m].age < Retain
        cve     == digestLog[m] # NoRecord /\ digestLog[m].cve
    IN  IF digestLog[m] = NoRecord /\ ~claimed THEN NoRecord
        ELSE [cve |-> cve, owner |-> IF claimed THEN "appscan" ELSE IF cve THEN "digest" ELSE "none"]

LoadLogs ==
    /\ cleanup.pc = "idle"
    /\ cleanup' = [NotCleaning EXCEPT !.pc = "list", !.owed = recorded,
                                      !.known = [m \in Mails |-> Merge(m)]]
    /\ UNCHANGED <<mails, digestLog, scanLog, digest, weekly, reported, covered, recorded>>

\* PlanWith, in its order.  hold: no CTI mail was processed today.
Plan(m, known, hold) ==
    LET auto == m.kind.auto
    IN  IF m.kind.from = "fleet" THEN IF m.age < SelfMinAge THEN "leave" ELSE "archive"
        ELSE IF auto = "header" THEN "delete"
        ELSE IF auto = "subject" /\ known = NoRecord /\ m.age < Lookback THEN "leave"
        ELSE IF auto = "subject" /\ (known = NoRecord \/ ~known.cve) THEN "delete"
        ELSE IF known = NoRecord THEN "leave"
        ELSE IF known.owner = "none" \/ hold \/ m.age < MinAge THEN "leave"
        ELSE "archive"

\* Other mails processed today are not modelled: hold is either.
ListInbox ==
    /\ cleanup.pc = "list"
    /\ \E hold \in BOOLEAN :
         LET seen == {m \in Inbox : mails[m].age < Window}
             To(what) == {m \in seen : Plan(mails[m], cleanup.known[m], hold) = what}
         IN  cleanup' = [cleanup EXCEPT !.pc = "move", !.archive = To("archive"),
                                        !.delete = To("delete")]
    /\ UNCHANGED <<mails, digestLog, scanLog, digest, weekly, reported, covered, recorded>>

\* One at a time; a mail that is gone by then, or a refused move, is counted
\* and passed over.
MoveMessage(m) ==
    /\ cleanup.pc = "move" /\ m \in cleanup.archive \cup cleanup.delete
    /\ \/ /\ mails[m].at = "inbox"
          /\ mails' = [mails EXCEPT ![m].at = IF m \in cleanup.archive THEN "archive" ELSE "deleted"]
       \/ UNCHANGED mails
    /\ cleanup' = [cleanup EXCEPT !.archive = @ \ {m}, !.delete = @ \ {m}]
    /\ UNCHANGED <<digestLog, scanLog, digest, weekly, reported, covered, recorded>>

\* Done; or a log that does not parse, an unread mailbox, the timeout.
CleanupEnds ==
    /\ cleanup.pc # "idle"
    /\ cleanup' = NotCleaning
    /\ UNCHANGED <<mails, digestLog, scanLog, digest, weekly, reported, covered, recorded>>

-----------------------------------------------------------------------------
(* People, and the clock.                                                  *)

Arrives(m) ==
    /\ mails[m].at = "outside"
    /\ \E kind \in Kind : mails' = [mails EXCEPT ![m] = [kind |-> kind, at |-> "inbox", age |-> 0]]
    /\ UNCHANGED <<digestLog, scanLog, digest, weekly, cleanup, reported, covered, recorded>>

Filed(m) ==
    /\ mails[m].at \in {"inbox", "archive"}
    /\ mails' = [mails EXCEPT ![m].at = "elsewhere"]
    /\ UNCHANGED <<digestLog, scanLog, digest, weekly, cleanup, reported, covered, recorded>>

Older(log) == [m \in Mails |-> IF log[m] = NoRecord \/ log[m].age = Retain THEN log[m]
                               ELSE [log[m] EXCEPT !.age = @ + 1]]

Tick ==
    /\ mails' = [m \in Mails |-> IF mails[m].at = "outside" \/ mails[m].age = Oldest THEN mails[m]
                                 ELSE [mails[m] EXCEPT !.age = @ + 1]]
    /\ digestLog' = Older(digestLog) /\ scanLog' = Older(scanLog)
    /\ UNCHANGED <<digest, weekly, cleanup, reported, covered, recorded>>

MailInit ==
    /\ mails = [m \in Mails |-> [kind |-> Ordinary, at |-> "outside", age |-> 0]]
    /\ digestLog = [m \in Mails |-> NoRecord] /\ scanLog = digestLog
    /\ digest = NotReading /\ weekly = NotReading /\ cleanup = NotCleaning
    /\ reported = {} /\ covered = {} /\ recorded = {}

MailNext ==
    \/ DigestReads \/ WritesReport \/ RecordsMail \/ DigestEnds
    \/ WeeklyReads \/ MailsWeekly \/ CommitSeen \/ WeeklyEnds
    \/ LoadLogs \/ ListInbox \/ CleanupEnds
    \/ \E m \in Mails : MoveMessage(m) \/ Arrives(m) \/ Filed(m)
    \/ Tick

MailSpec == MailInit /\ [][MailNext]_mailboxVars

-----------------------------------------------------------------------------
MailTypeOK ==
    /\ mails \in [Mails -> [kind : Kind, at : Place, age : 0 .. Oldest]]
    /\ {digestLog, scanLog} \subseteq [Mails -> Entry \cup {NoRecord}]
    /\ digest.pc \in {"idle", "report", "record"} /\ weekly.pc \in {"idle", "send", "commit"}
    /\ cleanup.pc \in {"idle", "list", "move"} /\ cleanup.archive \cap cleanup.delete = {}
    /\ {digest.read, weekly.read, reported, covered, recorded} \subseteq SUBSET Mails

Goes(m, place) == mails[m].at = "inbox" /\ mails'[m].at = place

\* "archive once the right lane has seen it": what is archived is our own
\* report, a notice in a weekly that was mailed, or an advisory in a digest
\* report, and none that a digest starting now would still read, unless the
\* grace is turned off.
MovesOnlyItsOwn ==
    [][\A m \in Mails : Goes(m, "archive") =>
        \/ mails[m].kind.from = "fleet"
        \/ /\ MinAge = 0 \/ mails[m].age >= Lookback
           /\ m \in covered \/ (m \in reported /\ mails[m].kind.cve)]_mailboxVars

\* The exception for "a real advisory titled Automatic reply": once the log has
\* a CVE for a mail, no later cleanup deletes it for its subject while it is
\* younger than the logs' retention, however wide the window and whatever the
\* digests record or prune meanwhile.
RecordedIsKept ==
    [][\A m \in Mails : Goes(m, "deleted") /\ m \in cleanup.owed
        => mails[m].kind.auto = "header" \/ mails[m].age >= Retain]_mailboxVars

\* The same at any age: "a subject-only match the digest took a CVE from is
\* archived, not deleted".
AdvisoryIsKept ==
    [][\A m \in Mails : Goes(m, "deleted") /\ m \in cleanup.owed
        => mails[m].kind.auto = "header"]_mailboxVars
=============================================================================
