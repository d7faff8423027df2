------------------------------- MODULE DigestRun -------------------------------
(***************************************************************************)
(* The digest pipeline (run-digest) on the findings table of fleet-db: the *)
(* daily reads the mailbox, scores what it found against NVD, EPSS and the *)
(* KEV catalog (enrich.py), stores it, files tickets, renders, mails and   *)
(* records; the weekly rolls up what the dailies stored.  Both may run at  *)
(* once: on a Monday the weekly starts an hour after the daily.            *)
(*                                                                         *)
(* Days are counted, and their halves: a run may last past noon, none into *)
(* the next day.  Left out: what a digest looks like, is_new, counts,      *)
(* ticket links, who is mailed (MailPolicy), the tickets themselves        *)
(* (CveTickets), which mails are read (Mailbox); --to-dev is a dry run.    *)
(* One run of a kind at a time.                                            *)
(***************************************************************************)
EXTENDS Integers, FiniteSets

CONSTANTS
    CVEs,
    Week,           \* WEEKLY_DAYS
    NoRow

Kinds == {"daily", "weekly"}
Old == Week + 1             \* an age past every window
Row == [first : 0 .. Old, updated : 0 .. Old]

DigestRunAssumption ==
    IsFiniteSet(CVEs) /\ Week \in Nat \ {0} /\ NoRow \notin Row

VARIABLES
    morning,        \* it is before noon
    listed,         \* external: CVE -> half-days since CISA listed it (0, 1, or 2 and
                    \* more), -1 if it has not
    findings,       \* fleet-db, by CVE: the ages of first_seen and updated
    digests,        \* fleet-db: the kinds recorded as sent today
    kevCache,       \* the KEV catalog kept on disk: of this half-day (0), of the one before
                    \* (1), older or none (2); which of CVEs it lists, besides the others
                    \* it always lists
    run,            \* the local state of run-digest, by kind
    mailed,         \* observer: kinds mailed today
    excused,        \* observer: kinds that may be mailed again today, for a known cause
    doubled,        \* observer: kinds mailed again without one
    owed,           \* observer: stored since the last weekly that was mailed
    rolled,         \* observer: days since the roll-up of that weekly
    skipped         \* observer: what two weeklies in time both left out

digestVars == <<morning, listed, findings, digests, kevCache, run, mailed, excused, doubled,
                owed, rolled, skipped>>

-----------------------------------------------------------------------------
(* Data.                                                                   *)

Bands == {"Sev5", "Sev4", "Sev3", "Sev2", "Sev1"}
Status == {"PRESENT", "NOT_PRESENT", "UNKNOWN"}
NoCatalog == [age |-> 2, cves |-> {}]
Feed == [age |-> 0, cves |-> {c \in CVEs : listed[c] >= 0}]

\* A run: its findings with their bands once they are scored, and whether it
\* named the catalog as degraded.
NotRunning == [pc |-> "idle", real |-> FALSE, found |-> {}, degraded |-> FALSE, owed |-> {}]
Found(k) == {f.cve : f \in run[k].found}

World == UNCHANGED <<morning, listed, kevCache>>
Weeklies == UNCHANGED <<owed, rolled, skipped>>
Observers == UNCHANGED <<mailed, excused, doubled>> /\ Weeklies
DBUnchanged == UNCHANGED <<findings, digests>>
Goto(k, pc) == run' = [run EXCEPT ![k].pc = pc]
Ends(k) == run' = [run EXCEPT ![k] = NotRunning]

-----------------------------------------------------------------------------
(* run-digest, the daily.                                                  *)

\* A dry run asks nothing; one of the weekly also changes nothing, and is not
\* modelled.  A guard that cannot be read lets the run go on.
StartRun(k) ==
    /\ run[k].pc = "idle"
    /\ \E real \in {TRUE, k # "daily"}, read \in BOOLEAN :
         /\ real /\ read => k \notin digests
         /\ run' = [run EXCEPT ![k] = [NotRunning EXCEPT !.pc = "read", !.real = real]]
         /\ excused' = IF real /\ ~read /\ k \in mailed THEN excused \cup {k} ELSE excused
    /\ World /\ DBUnchanged /\ UNCHANGED <<mailed, doubled>> /\ Weeklies

\* load_cache, else the feed; what was fetched is kept.  KEV_TTL is half a day:
\* what was fetched in this one is used, from the one before it may be.
fetch_kev(catalog) ==
    \/ kevCache.age <= 1 /\ catalog = kevCache
    \/ kevCache.age >= 1 /\ catalog \in {Feed, NoCatalog}

\* NVD's own flag, from a cache of any age up to its seven days.
NVDFlags == SUBSET {c \in CVEs : listed[c] >= 0}
\* EPSS from 10 % ("hot") and from 50 % ("very"), or below that and the CVE
\* "critical" (CVSS), or nothing; EPSS and NVD may be down.
Scores == {"none", "critical", "hot", "very"}
prioritize(status, kev, score) ==
    LET hot == kev \/ score \in {"hot", "very"}
    IN  CASE status = "PRESENT" /\ hot                                -> "Sev5"
          [] status = "PRESENT" /\ ~hot                               -> "Sev4"
          [] status = "UNKNOWN" /\ (kev \/ score = "very")             -> "Sev3"
          [] status = "UNKNOWN" /\ ~kev /\ score \in {"hot", "critical"} -> "Sev2"
          [] status = "NOT_PRESENT" /\ hot                            -> "Sev2"
          [] OTHER                                                    -> "Sev1"

\* The findings on CVEs F can be, those in kev listed as exploited.
Scored(F, kev) ==
    {{[cve |-> c, status |-> status[c], priority |-> prioritize(status[c], c \in kev, score[c])] :
        c \in F} : status \in [F -> Status], score \in [F -> Scores]}

\* first_seen stays, updated is now.
Upserted(F) ==
    findings' = [c \in CVEs |-> IF c \notin F THEN findings[c]
                                ELSE IF findings[c] = NoRow THEN [first |-> 0, updated |-> 0]
                                ELSE [findings[c] EXCEPT !.updated = 0]]

\* cti-agent, then enrich.py.  NVD's flag stands in for a catalog that does not
\* have the CVE.  What was found is stored, by a dry run as well; a failure of that
\* is logged and no more.
Enrich ==
    /\ run["daily"].pc = "read"
    /\ \E catalog \in {kevCache, Feed, NoCatalog}, F \in SUBSET CVEs, flagged \in NVDFlags :
         /\ fetch_kev(catalog)
         /\ kevCache' = IF catalog.age = 0 THEN catalog ELSE kevCache
         /\ \E found \in Scored(F, catalog.cves \cup flagged) :
              run' = [run EXCEPT !["daily"].pc = "ticket", !["daily"].found = found,
                                 !["daily"].degraded = (catalog = NoCatalog)]
         /\ \/ Upserted(F) /\ owed' = owed \cup F
            \/ UNCHANGED <<findings, owed>>
    /\ UNCHANGED <<morning, listed, digests, mailed, excused, doubled, rolled, skipped>>

\* cti-jira: a note on the finding of each ticket it filed, if it is stored.  What
\* is rendered and mailed after that is what was scored, and is not kept here.
Tickets ==
    /\ run["daily"].pc = "ticket"
    /\ \E filed \in SUBSET {f.cve : f \in {g \in run["daily"].found : g.status = "PRESENT"}} :
         /\ run["daily"].real \/ filed = {}
         /\ findings' = [c \in CVEs |-> IF c \in filed /\ findings[c] # NoRow
                                        THEN [findings[c] EXCEPT !.updated = 0] ELSE findings[c]]
    /\ run' = [run EXCEPT !["daily"] = [@ EXCEPT !.pc = "send", !.found = {}, !.degraded = FALSE]]
    /\ World /\ UNCHANGED digests /\ Observers

-----------------------------------------------------------------------------
(* The weekly, and what both do in the end.                                *)

Within(age) == age <= Week
\* Mutant: what was first seen in the window.
FirstSeen(c) == findings[c] # NoRow /\ Within(findings[c].first)
InWindow(c) ==
    /\ findings[c] # NoRow
    /\ Within(findings[c].updated) \/ Within(findings[c].first)

Rollup ==
    /\ run["weekly"].pc = "read"
    /\ LET rows == {c \in CVEs : InWindow(c)}
       IN  /\ owed' = IF Within(rolled) THEN owed ELSE owed \cap rows
           /\ run' = [run EXCEPT !["weekly"].pc = "send", !["weekly"].owed = owed',
                                 !["weekly"].found = {[cve |-> c, status |-> "stored",
                                                       priority |-> "stored"] : c \in rows}]
    /\ World /\ DBUnchanged /\ UNCHANGED <<mailed, excused, doubled, rolled, skipped>>

\* A mail of kind k goes out (n = 1) or not; a second one on a day needs a cause.
Mailed(k, n) ==
    /\ mailed' = IF n = 1 THEN mailed \cup {k} ELSE mailed
    /\ doubled' = IF k \notin excused' /\ n = 1 /\ k \in mailed
                  THEN doubled \cup {k} ELSE doubled
    /\ IF k = "daily" \/ n = 0 THEN Weeklies
       ELSE /\ skipped' = skipped \cup (run[k].owed \ Found(k))
            /\ owed' = owed \ Found(k) /\ rolled' = 0

SendDry ==
    /\ run["daily"].pc = "send" /\ ~run["daily"].real
    /\ Ends("daily")
    /\ World /\ DBUnchanged /\ Observers

Recording == [NotRunning EXCEPT !.pc = "record"]

SendMail(k) ==
    /\ run[k].pc = "send" /\ run[k].real
    /\ run' = [run EXCEPT ![k] = Recording]
    /\ UNCHANGED excused /\ Mailed(k, 1)
    /\ World /\ DBUnchanged

\* graph_post sends once more what had no answer, accepted or not, and gives up
\* after three: some copies went out or none.
SendUnanswered(k) ==
    /\ run[k].pc = "send" /\ run[k].real
    /\ \E n \in 0 .. 1, answered \in BOOLEAN :
         /\ excused' = IF n = 1 THEN excused \cup {k} ELSE excused
         /\ run' = [run EXCEPT ![k] = IF answered THEN Recording ELSE NotRunning]
         /\ answered => n = 1
         /\ Mailed(k, n)
    /\ World /\ DBUnchanged

\* Mutant: the kind recorded is the message id.
RecordsId(k) ==
    /\ run[k].pc = "record"
    /\ UNCHANGED <<digests, excused>>
    /\ Ends(k)
    /\ World /\ UNCHANGED <<findings, mailed, doubled>> /\ Weeklies
\* fleet-db sent, or exit 3 with the command that records it by hand.
RecordSent(k) ==
    /\ run[k].pc = "record"
    /\ \/ digests' = digests \cup {k} /\ UNCHANGED excused
       \/ excused' = excused \cup {k} /\ UNCHANGED digests
    /\ Ends(k)
    /\ World /\ UNCHANGED <<findings, mailed, doubled>> /\ Weeklies

\* A step that failed, a mail that was refused, a kill: the run ends where it is.
EndUnsent(k) ==
    /\ run[k].pc # "idle"
    /\ excused' = IF run[k].pc = "record" THEN excused \cup {k} ELSE excused
    /\ Ends(k)
    /\ World /\ DBUnchanged /\ UNCHANGED <<mailed, doubled>> /\ Weeklies

-----------------------------------------------------------------------------
(* CISA and the calendar.                                                  *)

ListCVE(c) ==
    /\ listed[c] = -1 /\ listed' = [listed EXCEPT ![c] = 0]
    /\ UNCHANGED <<morning, kevCache, run>> /\ DBUnchanged /\ Observers

Later == [c \in CVEs |-> IF listed[c] \in {0, 1} THEN listed[c] + 1 ELSE listed[c]]
\* Mutant: the catalog never expires.
NeverExpires ==
    /\ morning' = ~morning /\ listed' = Later
    /\ kevCache' = IF kevCache.age = 0 THEN [kevCache EXCEPT !.age = 1] ELSE kevCache
\* Half a day passes for the list and for the catalog, which is good for one more.
HalfDay ==
    /\ morning' = ~morning /\ listed' = Later
    /\ kevCache' = IF kevCache.age = 0 THEN [kevCache EXCEPT !.age = 1] ELSE NoCatalog

Noon == morning /\ HalfDay /\ UNCHANGED run /\ DBUnchanged /\ Observers

Older(age) == IF age < Old THEN age + 1 ELSE age
NextDay ==
    /\ ~morning /\ \A k \in Kinds : run[k].pc = "idle"
    /\ HalfDay
    /\ findings' = [c \in CVEs |-> IF findings[c] = NoRow THEN NoRow ELSE
                        [first |-> Older(findings[c].first), updated |-> Older(findings[c].updated)]]
    /\ digests' = {} /\ mailed' = {} /\ excused' = {}
    /\ rolled' = Older(rolled)
    /\ UNCHANGED <<run, doubled, owed, skipped>>

DigestInit ==
    /\ morning = TRUE /\ listed = [c \in CVEs |-> -1] /\ kevCache = NoCatalog
    /\ findings = [c \in CVEs |-> NoRow] /\ digests = {}
    /\ run = [k \in Kinds |-> NotRunning]
    /\ mailed = {} /\ excused = {} /\ doubled = {}
    /\ owed = {} /\ rolled = Old /\ skipped = {}

DigestNext ==
    \/ Enrich \/ Tickets \/ SendDry \/ Rollup \/ Noon \/ NextDay
    \/ \E k \in Kinds : \/ StartRun(k) \/ SendMail(k) \/ SendUnanswered(k)
                        \/ RecordSent(k) \/ EndUnsent(k)
    \/ \E c \in CVEs : ListCVE(c)

DigestSpec == DigestInit /\ [][DigestNext]_digestVars

-----------------------------------------------------------------------------
DigestTypeOK ==
    /\ morning \in BOOLEAN /\ listed \in [CVEs -> -1 .. 2]
    /\ \A c \in CVEs : findings[c] = NoRow \/ findings[c].updated \in 0 .. findings[c].first
    /\ digests \cup mailed \subseteq Kinds /\ excused \subseteq Kinds
    /\ kevCache.age \in 0 .. 2 /\ kevCache.cves \subseteq CVEs
    /\ \A k \in Kinds : /\ run[k].pc \in {"idle", "read", "ticket", "send", "record"}
                        /\ \A f \in run[k].found : f.priority \in Bands \cup {"stored"}
    /\ owed \cup skipped \subseteq CVEs /\ rolled \in 0 .. Old

\* "Do not double-send": a digest is mailed again on its day only when the record
\* of the first was not made, was not read, or the mailer had no answer.
OneDigest == doubled = {}

\* Nothing falls between two weeklies: what was stored after the roll-up of one
\* that was mailed is in the next, if that is made within the window.
WeekCovered == skipped = {}

\* A CVE that CISA listed KEV_TTL before a daily scores it, or earlier, is scored
\* as exploited, whatever was cached and whatever is down, or the digest names the
\* catalog.
ExploitedIsSeen ==
    [][run["daily"].pc = "read" /\ run'["daily"].pc = "ticket" =>
        \A f \in run'["daily"].found :
            listed[f.cve] = 2 /\ ~run'["daily"].degraded =>
                f.priority = CASE f.status = "PRESENT"     -> "Sev5"
                               [] f.status = "UNKNOWN"     -> "Sev3"
                               [] f.status = "NOT_PRESENT" -> "Sev2"]_digestVars
=============================================================================
