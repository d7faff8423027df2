---------------------------- MODULE DomainsSurvey ---------------------------
(***************************************************************************)
(* The weekly domains survey: cti-domains looks every domain up, compares  *)
(* what it sees with last week's baseline, writes the report, saves the    *)
(* new baseline, and run-domains mails the report at the end.              *)
(*                                                                         *)
(* A domain is one record here.  The other fields of the baseline are kept *)
(* and compared in the same way: a record whose lookup failed, a host that *)
(* did not answer, and a registrar that was not asked all carry forward.   *)
(* The survey is one step: nothing of it survives a run that dies before   *)
(* its baseline is saved.  Left out: how records are judged, the probes'   *)
(* concurrency and timeouts, the mail route's dates, wording.              *)
(***************************************************************************)
EXTENDS FiniteSets

CONSTANTS
    Domains, Values,
    Unknown,        \* a record never looked up successfully: unknownMark
    NoBaseline      \* no state file: the first run

SurveyAssumption ==
    /\ IsFiniteSet(Domains)
    /\ Values # {} /\ Unknown \notin Values
    /\ \A b \in [Domains -> Values \cup {Unknown}] : b # NoBaseline

VARIABLES
    zone,       \* what DNS really holds
    baseline,   \* domains-state.json: last week's observations
    survey,     \* the local state of the run
    mailed,     \* observer: each record as the mails describe it
    lost        \* observer: records whose change was in a report never sent

surveyVars == <<zone, baseline, survey, mailed, lost>>

Observed == [Domains -> Values \cup {Unknown}]
NotSurveying == [pc |-> "idle", cur |-> NoBaseline, changes |-> {}]

-----------------------------------------------------------------------------
\* Mutant: a failed lookup is saved as an absent record.
ReadsFailedAsAbsent(known) ==
    [d \in Domains |-> IF d \in known THEN zone[d] ELSE CHOOSE v \in Values : TRUE]
\* Snap: a record whose lookup failed keeps last week's value.
Snap(known) ==
    [d \in Domains |-> IF d \in known THEN zone[d]
                       ELSE IF baseline = NoBaseline THEN Unknown ELSE baseline[d]]

\* Diff: what the report calls changed since last week.
Diff(prev, cur) ==
    IF prev = NoBaseline THEN {}
    ELSE {d \in Domains : prev[d] # cur[d] /\ Unknown \notin {prev[d], cur[d]}}

\* Probes, diff and report, written to files.  A dry run and a test send keep
\* the baseline (--no-state-write) and mail nobody on the lane's list.
Survey ==
    /\ survey.pc = "idle"
    /\ \E known \in SUBSET Domains :
         survey' = [pc |-> "save", cur |-> Snap(known), changes |-> Diff(baseline, Snap(known))]
    /\ UNCHANGED <<zone, baseline, mailed, lost>>

\* SaveState, last and atomic: a temporary file and a rename.
SaveState ==
    /\ survey.pc = "save"
    /\ baseline' = survey.cur
    /\ survey' = [survey EXCEPT !.pc = "mail"]
    /\ UNCHANGED <<zone, mailed, lost>>

\* The first mail a record is known in lists it; after that the mails report
\* its changes.
SendReport ==
    /\ survey.pc = "mail"
    /\ mailed' = [d \in Domains |-> IF d \in survey.changes \/ mailed[d] = Unknown
                                    THEN survey.cur[d] ELSE mailed[d]]
    /\ lost' = {d \in lost : mailed'[d] # survey.cur[d]}
    /\ survey' = NotSurveying
    /\ UNCHANGED <<zone, baseline>>

\* The mailer refuses, or the run is killed, after the baseline moved on.
SendFails ==
    /\ survey.pc = "mail"
    /\ lost' = lost \cup survey.changes
    /\ survey' = NotSurveying
    /\ UNCHANGED <<zone, baseline, mailed>>

\* Mutant: the baseline is moved on before the report exists.
SavesFirst ==
    /\ survey.pc = "save"
    /\ baseline' = survey.cur
    /\ survey' = NotSurveying
    /\ UNCHANGED <<zone, mailed, lost>>
\* A dry run ends here; so does one that is killed, or cannot save.
EndUnsaved ==
    /\ survey.pc = "save"
    /\ survey' = NotSurveying
    /\ UNCHANGED <<zone, baseline, mailed, lost>>

Publish(d) ==
    /\ \E v \in Values : zone' = [zone EXCEPT ![d] = v]
    /\ UNCHANGED <<baseline, survey, mailed, lost>>

\* Any records: what is published before the first survey gives the others.
SurveyInit ==
    /\ zone = [d \in Domains |-> CHOOSE v \in Values : TRUE]
    /\ baseline = NoBaseline
    /\ survey = NotSurveying
    /\ mailed = [d \in Domains |-> Unknown]
    /\ lost = {}

SurveyNext ==
    \/ Survey \/ SaveState \/ SendReport \/ SendFails \/ EndUnsaved
    \/ \E d \in Domains : Publish(d)

SurveySpec == SurveyInit /\ [][SurveyNext]_surveyVars

-----------------------------------------------------------------------------
SurveyTypeOK ==
    /\ zone \in [Domains -> Values]
    /\ baseline \in Observed \cup {NoBaseline}
    /\ mailed \in Observed
    /\ lost \subseteq Domains
    /\ survey.pc \in {"idle", "save", "mail"}
    /\ survey.pc # "idle" => survey.cur \in Observed

\* "a run that fails to render must not advance the baseline and lose this
\* week's changes": whatever a lookup missed and wherever a run died, the
\* baseline is ahead of the mails only on records in a report that was
\* rendered, saved and never sent.
NoChangeLost ==
    survey.pc # "mail" /\ baseline # NoBaseline =>
        \A d \in Domains \ lost : \/ baseline[d] = Unknown
                                  \/ mailed[d] \in {baseline[d], Unknown}

\* "two false changes from one non-event": what a report calls changed is
\* what DNS answered, never a lookup that failed or a first look.
ChangesAreReal ==
    [][survey'.changes # survey.changes =>
          \A d \in survey'.changes : survey'.cur[d] = zone[d] /\ baseline[d] \in Values]_surveyVars
=============================================================================
