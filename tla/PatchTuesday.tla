---------------------------- MODULE PatchTuesday ----------------------------
(***************************************************************************)
(* The monthly Patch Tuesday synopsis (run-patchtuesday, cti-patchtuesday) *)
(* and what it takes out of the daily digest: the CVEs of the releases     *)
(* whose manifest is marked sent (patchtuesday.Held, called by cti-agent). *)
(*                                                                         *)
(* A run builds the synopsis from the sources that answer, writes the      *)
(* release's manifest unsent, mails, and marks the manifest sent.  With    *)
(* --month it replays a release: the manifest is then left alone when the  *)
(* synopsis is built, and marked sent all the same.  One run at a time     *)
(* (the unit; a run by hand is assumed not to overlap it), and no run      *)
(* crosses midnight.  Left out: what the synopsis says of each CVE, the    *)
(* sources' fallbacks (a saved article, a second URL), dry runs and test   *)
(* sends, which touch none of this state.                                  *)
(***************************************************************************)
EXTENDS Integers, FiniteSets

CONSTANTS
    Months,         \* bound: months the clock runs for, from 1
    CVEs,           \* CVEs of one release: <<month, cve>> names one
    MaxCopies,      \* bound: copies of one release's synopsis
    NoManifest,
    WritesFail,     \* writing the manifest may fail: loud, not fatal
    Replays         \* operators send with --month, confirming past months

ReleaseAssumption ==
    /\ Months \in Nat \ {0} /\ MaxCopies \in Nat /\ IsFiniteSet(CVEs)
    /\ {WritesFail, Replays} \subseteq BOOLEAN

VARIABLES
    now, out,       \* the month, and whether its release is out
    manifests,      \* state/patchtuesday-YYYY-MM.json, by month
    digests,        \* fleet-db: the tags of synopses recorded as sent
    synopsis,       \* the local state of run-patchtuesday
    mailed,         \* observer: the CVEs the synopses that went out covered
    copies,         \* observer: synopses of each month that went out
    excused         \* observer: ... that a failure repeats, or were asked for again

releaseVars == <<now, out, manifests, digests, synopsis, mailed, copies, excused>>

Month == 1 .. Months
CVE == Month \X CVEs
ReleaseOf(m) == {m} \X CVEs
Manifest == [cves : SUBSET CVE, sent : BOOLEAN]

\* A run: its month, how it was asked for, whether its guard had an answer, and
\* what it found.
NotBuilding == [pc |-> "idle", month |-> 1, replay |-> FALSE, guarded |-> TRUE, cves |-> {}]

-----------------------------------------------------------------------------
\* TargetMonth: this month's release once it is out, else last month's.
TargetMonth == IF out THEN now ELSE now - 1
Released(m) == m < now \/ (m = now /\ out)

\* RecentManifests: this month's and last month's.
RecentManifests == {manifests[m] : m \in {now, now - 1} \cap Month} \ {NoManifest}

\* Held: the CVEs the daily leaves to the synopsis.
Held(found, recent) == found \cap UNION {mf.cves : mf \in {r \in recent : r.sent}}

\* The runner's tag: "2026-September", or "2026-09" with --month.
Tag(month, replay) == <<month, replay>>

-----------------------------------------------------------------------------
(* run-patchtuesday --for-real.                                            *)

Idle == synopsis' = NotBuilding
ClockUnchanged == UNCHANGED <<now, out>>
Observed == UNCHANGED <<mailed, copies, excused>>

\* The already-sent guard, and --resend past it.  A database that cannot be read
\* says no as well ("|| echo no"), and the run goes on to send.
StartSynopsis ==
    /\ synopsis.pc = "idle"
    /\ \E m \in Month, replay \in {FALSE, Replays}, resend \in BOOLEAN, read \in BOOLEAN :
         /\ Released(m) /\ (~replay => m = TargetMonth)
         /\ ~resend /\ read => Tag(m, replay) \notin digests
         /\ synopsis' = [NotBuilding EXCEPT !.pc = "build", !.month = m,
                                            !.replay = replay, !.guarded = ~resend /\ read]
    /\ ClockUnchanged /\ Observed /\ UNCHANGED <<manifests, digests>>

Unsent(cves) == [cves |-> cves, sent |-> FALSE]

\* The sources that answered named some of the release's CVEs.
Build ==
    /\ synopsis.pc = "build"
    /\ \E cves \in SUBSET ReleaseOf(synopsis.month) \ {{}} :
         /\ synopsis' = [synopsis EXCEPT !.pc = "send", !.cves = cves]
         /\ \/ /\ ~synopsis.replay
               /\ manifests' = [manifests EXCEPT ![synopsis.month] = Unsent(cves)]
            \/ /\ synopsis.replay \/ WritesFail
               /\ UNCHANGED manifests
    /\ ClockUnchanged /\ Observed /\ UNCHANGED digests

\* No source answered; or the process dies there, its manifest written or not.
BuildFails ==
    /\ synopsis.pc = "build"
    /\ Idle
    /\ ClockUnchanged /\ Observed /\ UNCHANGED <<manifests, digests>>

\* Mutant: what went out is marked before it goes out.
MarksFirst ==
    /\ synopsis.pc = "send"
    /\ manifests' = [manifests EXCEPT ![synopsis.month].sent = TRUE]
    /\ Idle /\ ClockUnchanged /\ Observed /\ UNCHANGED digests
\* The mailer refuses, or the run is killed before it.
SendFails ==
    /\ synopsis.pc = "send"
    /\ Idle
    /\ ClockUnchanged /\ Observed /\ UNCHANGED <<manifests, digests>>

\* The run goes on where its guard, had it been asked and answered, had stopped it.
PastGuard == ~synopsis.guarded /\ Tag(synopsis.month, synopsis.replay) \in digests

\* n copies of it went out; all of them are excused, or all but the one that is
\* to be recorded.
Excused(n) == excused' = [excused EXCEPT ![synopsis.month] = @ + n]
Mailed(n) ==
    /\ copies[synopsis.month] + n <= MaxCopies
    /\ mailed' = IF n > 0 THEN mailed \cup synopsis.cves ELSE mailed
    /\ copies' = [copies EXCEPT ![synopsis.month] = @ + n]

Send ==
    /\ synopsis.pc = "send"
    /\ Mailed(1) /\ Excused(IF PastGuard THEN 1 ELSE 0)
    /\ synopsis' = [synopsis EXCEPT !.pc = "mark"]
    /\ ClockUnchanged /\ UNCHANGED <<manifests, digests>>

\* graph_post sends once more what had no answer, accepted or not, and gives up
\* after three.  A second copy is then its doing; and when it gives up the run
\* fails, and what did go out is on no record.
SendUnanswered ==
    /\ synopsis.pc = "send"
    /\ \E n \in 0 .. 3 :
         /\ Mailed(n)
         /\ \/ /\ n > 0 /\ Excused(IF PastGuard THEN n ELSE n - 1)
               /\ synopsis' = [synopsis EXCEPT !.pc = "mark"]
            \/ Excused(n) /\ Idle
    /\ ClockUnchanged /\ UNCHANGED <<manifests, digests>>

\* --mark-sent, of the manifest that is there.
MarkSent ==
    /\ synopsis.pc = "mark" /\ manifests[synopsis.month] # NoManifest
    /\ manifests' = [manifests EXCEPT ![synopsis.month].sent = TRUE]
    /\ synopsis' = [synopsis EXCEPT !.pc = "record"]
    /\ ClockUnchanged /\ Observed /\ UNCHANGED digests

\* Not fatal: no manifest, one that cannot be read or written.
MarkFails ==
    /\ synopsis.pc = "mark"
    /\ synopsis' = [synopsis EXCEPT !.pc = "record"]
    /\ ClockUnchanged /\ Observed /\ UNCHANGED <<manifests, digests>>

\* Mutant: recorded under another tag than the guard asks for.
RecordsElsewhere ==
    /\ synopsis.pc = "record"
    /\ digests' = digests \cup {Tag(synopsis.month, TRUE)}
    /\ Idle /\ ClockUnchanged /\ Observed /\ UNCHANGED manifests
\* fleet-db sent.
RecordSent ==
    /\ synopsis.pc = "record"
    /\ digests' = digests \cup {Tag(synopsis.month, synopsis.replay)}
    /\ Idle /\ ClockUnchanged /\ Observed /\ UNCHANGED manifests

\* Swallowed ("|| true"); or the run was killed after the mail had gone.
RecordLost ==
    /\ synopsis.pc \in {"mark", "record"}
    /\ Excused(IF PastGuard THEN 0 ELSE 1)
    /\ Idle /\ ClockUnchanged /\ UNCHANGED <<manifests, digests, mailed, copies>>

Clock ==
    /\ synopsis.pc = "idle"
    /\ \/ ~out /\ out' = TRUE /\ UNCHANGED now
       \/ out /\ now < Months /\ now' = now + 1 /\ out' = FALSE
    /\ Observed /\ UNCHANGED <<manifests, digests, synopsis>>

ReleaseInit ==
    /\ now = 1 /\ out = TRUE
    /\ manifests = [m \in Month |-> NoManifest]
    /\ digests = {}
    /\ synopsis = NotBuilding
    /\ mailed = {}
    /\ copies = [m \in Month |-> 0] /\ excused = [m \in Month |-> 0]

ReleaseNext ==
    \/ StartSynopsis \/ Build \/ BuildFails \/ Send \/ SendUnanswered \/ SendFails
    \/ MarkSent \/ MarkFails \/ RecordSent \/ RecordLost
    \/ Clock

ReleaseSpec == ReleaseInit /\ [][ReleaseNext]_releaseVars

-----------------------------------------------------------------------------
ReleaseTypeOK ==
    /\ now \in Month /\ out \in BOOLEAN
    /\ manifests \in [Month -> Manifest \cup {NoManifest}]
    /\ digests \subseteq Month \X BOOLEAN
    /\ synopsis.pc \in {"idle", "build", "send", "mark", "record"}
    /\ mailed \subseteq CVE

\* "A manifest written by a run whose email never went out must not authorise
\* anything": every CVE the daily leaves out was in a synopsis that went out.
HeldWasMailed == Held(CVE, RecentManifests) \subseteq mailed

\* "Do not send twice for the same release": a second copy goes out only because
\* the first one's record was lost, could not be read or was passed by --resend,
\* or because the mailer had no answer.
OneSynopsis == \A m \in Month : copies[m] <= 1 + excused[m]
=============================================================================
