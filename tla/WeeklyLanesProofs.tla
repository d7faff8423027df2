-------------------------- MODULE WeeklyLanesProofs ---------------------------
(***************************************************************************)
(* Theorems of the weekly lanes, of the specification that composes them.  *)
(***************************************************************************)
EXTENDS Lanes, FiniteSetTheorems, WellFoundedInduction, TLAPS

-----------------------------------------------------------------------------
(* The domains survey.                                                     *)

\* A step of the lanes is one of the survey, or leaves the survey as it is.
LEMMA SurveySteps == [LanesNext]_lanesVars => [Survey!SurveyNext]_(Survey!surveyVars)
BY DEF LanesNext, lanesVars, weeklyVars, dailyVars, surveyVars, Survey!surveyVars, Appscan,
       DomainsActions, WeeklySurvey, QualysCalls, Synopses, SharedMailbox, WeeklyReport,
       OwnersMail, Digests, MessageBoard, Mailers, OwnersOnFile, ScannerCache

SurveyRecord == [pc : {"idle", "save", "mail"}, cur : Survey!Observed \cup {NoBaseline},
                 changes : SUBSET Domains]

\* What a run saved, or is about to: last week's observations, but for what it
\* reports as changed and for what was never looked up.
SurveyInv ==
    /\ Survey!SurveyTypeOK /\ survey \in SurveyRecord
    /\ survey.pc = "idle" => survey = Survey!NotSurveying
    /\ survey.pc = "save" => \A d \in Domains \ survey.changes :
                                \/ baseline = NoBaseline
                                \/ survey.cur[d] = baseline[d]
                                \/ baseline[d] = Unknown
    /\ survey.pc = "save" /\ baseline # NoBaseline =>
          \A d \in Domains : survey.cur[d] = Unknown => baseline[d] = Unknown
    /\ survey.pc = "mail" => baseline = survey.cur
    /\ \A d \in Domains : baseline = NoBaseline \/ baseline[d] = Unknown => mailed[d] = Unknown
    /\ baseline # NoBaseline =>
          \A d \in Domains \ (lost \cup (IF survey.pc = "mail" THEN survey.changes ELSE {})) :
             mailed[d] \in {baseline[d], Unknown}

\* SurveyInv at the start.
LEMMA SurveyInvInit == LanesInit => SurveyInv
<1> SUFFICES ASSUME LanesInit PROVE SurveyInv
  OBVIOUS
<1>1. /\ zone = [d \in Domains |-> CHOOSE v \in Values : TRUE] /\ baseline = NoBaseline
      /\ survey = Survey!NotSurveying /\ mailed = [d \in Domains |-> Unknown] /\ lost = {}
  BY DEF LanesInit, Survey!SurveyInit
<1>2. Values # {}
  BY LanesAssumption DEF Survey!SurveyAssumption
<1>3. zone \in [Domains -> Values]
  BY <1>1, <1>2
<1>4. mailed \in Survey!Observed
  BY <1>1 DEF Survey!Observed
<1> QED BY <1>1, <1>3, <1>4
        DEF SurveyInv, SurveyRecord, Survey!SurveyTypeOK, Survey!NotSurveying

\* Every step keeps SurveyInv.
LEMMA SurveyInvStep == SurveyInv /\ [Survey!SurveyNext]_(Survey!surveyVars) => SurveyInv'
<1> SUFFICES ASSUME SurveyInv, [Survey!SurveyNext]_(Survey!surveyVars) PROVE SurveyInv'
  OBVIOUS
<1> DEFINE Obs == Survey!Observed
<1>0. /\ Survey!SurveyTypeOK /\ survey \in SurveyRecord
      /\ zone \in [Domains -> Values] /\ baseline \in Obs \cup {NoBaseline} /\ mailed \in Obs
      /\ lost \subseteq Domains /\ Unknown \notin Values /\ \A b \in Obs : b # NoBaseline
  BY LanesAssumption DEF SurveyInv, Survey!SurveyTypeOK, Survey!SurveyAssumption, Survey!Observed
<1>n. Survey!NotSurveying \in SurveyRecord /\ Survey!NotSurveying.pc = "idle"
  BY DEF Survey!NotSurveying, SurveyRecord
<1>1. CASE Survey!Survey
  <2>1. PICK known \in SUBSET Domains :
          /\ survey' = [pc |-> "save", cur |-> Survey!Snap(known),
                        changes |-> Survey!Diff(baseline, Survey!Snap(known))]
          /\ survey.pc = "idle"
          /\ UNCHANGED <<zone, baseline, mailed, lost>>
    BY <1>1 DEF Survey!Survey
  <2> DEFINE cur == Survey!Snap(known)
             changes == Survey!Diff(baseline, cur)
  <2>2. cur \in Obs
    BY <1>0 DEF Survey!Snap, Survey!Observed
  <2>3. \A d \in Domains : cur[d] = IF d \in known THEN zone[d]
                                    ELSE IF baseline = NoBaseline THEN Unknown ELSE baseline[d]
    BY DEF Survey!Snap
  <2>4. /\ changes \subseteq Domains
        /\ baseline # NoBaseline => \A d \in Domains :
              d \in changes <=> baseline[d] # cur[d] /\ Unknown \notin {baseline[d], cur[d]}
    BY DEF Survey!Diff
  <2> HIDE DEF cur, changes
  <2>5. survey' \in SurveyRecord /\ survey'.pc = "save" /\ survey'.cur = cur
        /\ survey'.changes = changes
    BY <2>1, <2>2, <2>4 DEF SurveyRecord, cur, changes
  <2>6. baseline # NoBaseline => \A d \in Domains : cur[d] = Unknown => baseline[d] = Unknown
    BY <1>0, <2>3
  <2>7. \A d \in Domains \ changes : \/ baseline = NoBaseline
                                     \/ cur[d] = baseline[d]
                                     \/ baseline[d] = Unknown
    BY <2>4, <2>6
  <2> QED BY <1>0, <2>1, <2>2, <2>5, <2>6, <2>7 DEF SurveyInv, Survey!SurveyTypeOK
<1>2. CASE Survey!SaveState
  <2>1. /\ survey.pc = "save" /\ baseline' = survey.cur /\ survey' = [survey EXCEPT !.pc = "mail"]
        /\ UNCHANGED <<zone, mailed, lost>>
    BY <1>2 DEF Survey!SaveState
  <2>2. /\ survey' \in SurveyRecord /\ survey'.pc = "mail" /\ survey'.cur = survey.cur
        /\ survey'.changes = survey.changes /\ survey.changes \subseteq Domains
    BY <1>0, <2>1 DEF SurveyRecord
  <2>3. survey.cur \in Obs
    BY <2>1 DEF SurveyInv, Survey!SurveyTypeOK
  <2>4. \A d \in Domains : survey.cur[d] = Unknown => mailed[d] = Unknown
    BY <2>1 DEF SurveyInv
  <2>5. \A d \in Domains \ (lost \cup survey.changes) : mailed[d] \in {survey.cur[d], Unknown}
    BY <2>1 DEF SurveyInv
  <2> QED BY <1>0, <2>1, <2>2, <2>3, <2>4, <2>5 DEF SurveyInv, Survey!SurveyTypeOK
<1>3. CASE Survey!SendReport
  <2>1. /\ survey.pc = "mail" /\ survey' = Survey!NotSurveying /\ UNCHANGED <<zone, baseline>>
        /\ mailed' = [d \in Domains |-> IF d \in survey.changes \/ mailed[d] = Unknown
                                        THEN survey.cur[d] ELSE mailed[d]]
        /\ lost' = {d \in lost : mailed'[d] # survey.cur[d]}
    BY <1>3 DEF Survey!SendReport
  <2>2. baseline = survey.cur /\ baseline \in Obs /\ baseline # NoBaseline
    BY <1>0, <2>1 DEF SurveyInv, Survey!SurveyTypeOK
  <2>3. \A d \in Domains : baseline[d] = Unknown => mailed[d] = Unknown
    BY DEF SurveyInv
  <2>4. mailed' \in Obs
    BY <1>0, <2>1, <2>2 DEF Survey!Observed
  <2>5. \A d \in Domains : baseline[d] = Unknown => mailed'[d] = Unknown
    BY <2>1, <2>2, <2>3
  <2>6. \A d \in Domains \ lost' : mailed'[d] \in {baseline[d], Unknown}
    <3>1. \A d \in Domains \ (lost \cup survey.changes) : mailed[d] \in {baseline[d], Unknown}
      BY <2>1, <2>2 DEF SurveyInv
    <3> QED BY <2>1, <2>2, <3>1
  <2> QED BY <1>0, <1>n, <2>1, <2>2, <2>4, <2>5, <2>6 DEF SurveyInv, Survey!SurveyTypeOK
<1>4. CASE Survey!SendFails
  BY <1>0, <1>n, <1>4 DEF Survey!SendFails, SurveyInv, Survey!SurveyTypeOK, SurveyRecord
<1>5. CASE Survey!EndUnsaved
  BY <1>0, <1>n, <1>5 DEF Survey!EndUnsaved, SurveyInv, Survey!SurveyTypeOK
<1>6. ASSUME NEW d \in Domains, Survey!Publish(d) PROVE SurveyInv'
  <2>1. zone' \in [Domains -> Values] /\ UNCHANGED <<baseline, survey, mailed, lost>>
    BY <1>0, <1>6 DEF Survey!Publish
  <2> QED BY <2>1 DEF SurveyInv, Survey!SurveyTypeOK
<1>7. CASE UNCHANGED Survey!surveyVars
  BY <1>7 DEF Survey!surveyVars, SurveyInv, Survey!SurveyTypeOK
<1> QED BY <1>1, <1>2, <1>3, <1>4, <1>5, <1>6, <1>7 DEF Survey!SurveyNext

LEMMA SurveyInvHolds == LanesSpec => []SurveyInv
<1>1. LanesInit => SurveyInv
  BY SurveyInvInit
<1>2. SurveyInv /\ [LanesNext]_lanesVars => SurveyInv'
  BY SurveySteps, SurveyInvStep
<1> QED BY <1>1, <1>2, PTL DEF LanesSpec

\* The baseline is ahead of the mails only on records in a report that was
\* rendered, saved and never sent.
THEOREM NoChangeLostHolds == LanesSpec => []NoChangeLost
<1>1. SurveyInv => NoChangeLost
  BY DEF SurveyInv, NoChangeLost, Survey!NoChangeLost
<1> QED BY <1>1, SurveyInvHolds, PTL

\* What a report calls changed is what DNS answered, never a lookup that failed
\* or a first look.
THEOREM ChangesAreRealHolds == LanesSpec => ChangesAreReal
<1>1. SurveyInv /\ [LanesNext]_lanesVars =>
        [survey'.changes # survey.changes =>
           \A d \in survey'.changes : survey'.cur[d] = zone[d] /\ baseline[d] \in Values
        ]_(Survey!surveyVars)
  <2> SUFFICES ASSUME SurveyInv, [Survey!SurveyNext]_(Survey!surveyVars),
                      survey'.changes # survey.changes, NEW d \in survey'.changes
               PROVE  survey'.cur[d] = zone[d] /\ baseline[d] \in Values
    BY SurveySteps
  <2>1. survey \in SurveyRecord /\ Survey!SurveyTypeOK
    BY DEF SurveyInv
  <2>2. Survey!Survey
    <3>1. Survey!NotSurveying.changes = {}
      BY DEF Survey!NotSurveying
    <3> QED BY <2>1, <3>1 DEF Survey!SurveyNext, Survey!surveyVars, Survey!SaveState, SurveyRecord,
               Survey!SendReport, Survey!SendFails, Survey!EndUnsaved, Survey!Publish
  <2>3. PICK known \in SUBSET Domains :
          survey' = [pc |-> "save", cur |-> Survey!Snap(known),
                     changes |-> Survey!Diff(baseline, Survey!Snap(known))]
    BY <2>2 DEF Survey!Survey
  <2>4. /\ baseline # NoBaseline /\ d \in Domains /\ baseline[d] # Survey!Snap(known)[d]
        /\ baseline[d] # Unknown
    BY <2>3 DEF Survey!Diff
  <2>5. Survey!Snap(known)[d] = IF d \in known THEN zone[d] ELSE baseline[d]
    BY <2>4 DEF Survey!Snap
  <2>6. baseline[d] \in Values
    BY <2>1, <2>4 DEF Survey!SurveyTypeOK, Survey!Observed
  <2> QED BY <2>3, <2>4, <2>5, <2>6
<1> QED BY <1>1, SurveyInvHolds, PTL DEF LanesSpec, ChangesAreReal, Survey!ChangesAreReal
-----------------------------------------------------------------------------
(* The application-security report.                                        *)

\* A step of the lanes is one of the report's run, or leaves it as it is.
LEMMA RunSteps == [LanesNext]_lanesVars => [Weekly!RunNext]_(Weekly!runVars)
BY DEF LanesNext, lanesVars, weeklyVars, dailyVars, reportRunVars, Weekly!runVars, Appscan,
       DomainsActions, WeeklySurvey, QualysCalls, Synopses, SharedMailbox, WeeklyReport,
       OwnersMail, Digests, MessageBoard, Mailers, OwnersOnFile, ScannerCache

\* The finite sets of the run's module are those of the library.
LEMMA WeeklySets ==
    /\ \A S : Weekly!Cardinality(S) = Cardinality(S)
    /\ \A S : Weekly!IsFiniteSet(S) <=> IsFiniteSet(S)
<1>1. \A S : Weekly!Cardinality(S) = Cardinality(S)
  BY DEF Weekly!Cardinality, Cardinality
<1>2. \A S : Weekly!IsFiniteSet(S) <=> IsFiniteSet(S)
  BY DEF Weekly!IsFiniteSet, IsFiniteSet
<1> QED BY <1>1, <1>2

\* A finite set of numbers has a largest one.
LEMMA MaxIsOne ==
    ASSUME NEW S \in SUBSET Nat, IsFiniteSet(S), S # {}
    PROVE  Weekly!Max(S) \in S /\ \A x \in S : x <= Weekly!Max(S)
<1> DEFINE above(x) == {y \in S : x < y}
           T == {n \in Nat : \E x \in S : n = Cardinality(above(x))}
<1>1. \A x \in S : IsFiniteSet(above(x)) /\ Cardinality(above(x)) \in Nat
  BY FS_Subset, FS_CardinalityType
<1>2. T # {}
  BY <1>1
<1>3. PICK m \in T : \A l \in T : ~(<<l, m>> \in OpToRel(<, Nat))
  BY <1>2, NatLessThanWellFounded, WFMin
<1>4. PICK x \in S : m = Cardinality(above(x))
  OBVIOUS
<1>5. \A y \in S : ~(x < y)
  <2> SUFFICES ASSUME NEW y \in S, x < y PROVE FALSE
    OBVIOUS
  <2>1. above(y) \subseteq above(x) \ {y} /\ y \in above(x)
    <3>1. \A z \in S : y < z => x < z /\ z # y
      OBVIOUS
    <3> QED BY <3>1
  <2>2. /\ IsFiniteSet(above(x) \ {y}) /\ Cardinality(above(x) \ {y}) = Cardinality(above(x)) - 1
    BY <1>1, <2>1, FS_RemoveElement
  <2>3. Cardinality(above(y)) <= Cardinality(above(x) \ {y})
    BY <2>1, <2>2, FS_Subset
  <2>4. Cardinality(above(y)) \in Nat /\ Cardinality(above(x)) \in Nat
    BY <1>1
  <2>5. Cardinality(above(y)) \in T
    BY <2>4
  <2> HIDE DEF above, T
  <2>6. Cardinality(above(y)) < m
    BY <1>4, <2>2, <2>3, <2>4
  <2> QED BY <1>3, <1>4, <2>4, <2>5, <2>6 DEF OpToRel
<1>6. \A y \in S : x >= y
  BY <1>5
<1> QED BY <1>6 DEF Weekly!Max

LookRecord == [page : 0 .. maxPages, after : Nat, got : SUBSET FindingIds, fetched : BOOLEAN,
               stood : SUBSET FindingIds]

Lines == {"slot", "none", "unavailable", "ours"}

WeekRecord ==
    [pc : {"idle", "read", "fetch", "build", "report", "file", "stamp", "send", "alert", "done"},
     mode : Weekly!Modes, files : BOOLEAN, attach : BOOLEAN, trusted : BOOLEAN,
     failed : BOOLEAN, look : LookRecord, line : Lines]

TicketsFiles == [skip : BOOLEAN, list : SUBSET FindingIds, stood : SUBSET FindingIds]

RunTypeInv ==
    /\ Weekly!RunTypeOK /\ week \in WeekRecord
    /\ files \in [tickets : {NoFile} \cup TicketsFiles, ref : {NoFile, "ours"}]
    /\ letter \in [sent : BOOLEAN, line : Lines]

\* A lookup has got what was open since its first page, of the ids behind it; and
\* when it is fetched, all of it.
LookInv ==
    /\ week.pc = "fetch" => /\ week.look.stood \subseteq open /\ ~week.look.fetched
                            /\ \A f \in week.look.stood :
                                  f <= week.look.after => f \in week.look.got
    /\ week.look.fetched => week.look.stood \subseteq week.look.got

RunInv == RunTypeInv /\ LookInv /\ Weekly!ListIsWhole /\ Weekly!ReportsDeleted

\* One page of the findings: it leaves out none before its last, and none at all
\* when there are no more of them than a page takes.
LEMMA PageIsWhole ==
    ASSUME NEW rest \in SUBSET FindingIds, NEW after \in Nat, \A f \in rest : after < f
    PROVE  LET page == Weekly!FirstPage(rest)
               last == Weekly!Max(page \cup {after})
           IN  /\ page \subseteq rest /\ last \in Nat
               /\ \A f \in rest : f <= last => f \in page
               /\ Weekly!Whole(rest) => page = rest
<1> DEFINE before(f) == {g \in rest : g < f}
           page == Weekly!FirstPage(rest)
           last == Weekly!Max(page \cup {after})
<1>0. /\ FindingIds \subseteq Nat /\ IsFiniteSet(FindingIds) /\ pageSize \in Nat
  BY LanesAssumption, WeeklySets DEF Weekly!RunAssumption
<1>1. /\ page \subseteq rest /\ \A f \in rest : f \in page <=> Cardinality(before(f)) < pageSize
  BY WeeklySets DEF Weekly!FirstPage
<1>2. /\ IsFiniteSet(rest) /\ \A f \in rest : /\ IsFiniteSet(before(f))
                                              /\ Cardinality(before(f)) \in Nat
  BY <1>0, FS_Subset, FS_CardinalityType
<1> HIDE DEF page
<1>3. /\ IsFiniteSet(page) /\ page \subseteq Nat
  BY <1>0, <1>1, <1>2, FS_Subset
<1>4. IsFiniteSet(page \cup {after}) /\ page \cup {after} \subseteq Nat
  BY <1>3, FS_AddElement
<1>5. last \in page \cup {after}
  BY <1>4, MaxIsOne
<1> HIDE DEF last
<1>6. ASSUME NEW f \in rest, f <= last PROVE f \in page
  <2>1. last \in page
    BY <1>0, <1>5, <1>6
  <2>2. last \in rest /\ Cardinality(before(last)) < pageSize
    BY <1>1, <2>1
  <2>3. before(f) \subseteq before(last)
    <3>1. rest \subseteq Nat
      BY <1>0
    <3>2. \A g \in rest : g < f => g < last
      BY <3>1, <1>6, <2>2
    <3> QED BY <3>2
  <2>4. Cardinality(before(f)) <= Cardinality(before(last))
    BY <1>2, <2>2, <2>3, FS_Subset
  <2>5. Cardinality(before(f)) \in Nat /\ Cardinality(before(last)) \in Nat
    BY <1>2, <2>2
  <2> HIDE DEF before
  <2> QED BY <1>0, <1>1, <2>2, <2>4, <2>5
<1>7. ASSUME Weekly!Whole(rest) PROVE page = rest
  <2>1. Cardinality(rest) <= pageSize
    BY <1>7, WeeklySets DEF Weekly!Whole
  <2>2. ASSUME NEW f \in rest PROVE f \in page
    <3>1. before(f) \subseteq rest \ {f}
      BY <1>0
    <3>2. IsFiniteSet(rest \ {f}) /\ Cardinality(rest \ {f}) = Cardinality(rest) - 1
      BY <1>2, <2>2, FS_RemoveElement
    <3>3. Cardinality(before(f)) <= Cardinality(rest \ {f})
      BY <3>1, <3>2, FS_Subset
    <3>4. Cardinality(before(f)) \in Nat /\ Cardinality(rest) \in Nat
      BY <1>2, FS_CardinalityType
    <3> HIDE DEF before
    <3> QED BY <1>0, <1>1, <2>1, <2>2, <3>2, <3>3, <3>4
  <2> QED BY <1>1, <2>2
<1>8. last \in Nat
  BY <1>4, <1>5
<1> QED BY <1>1, <1>6, <1>7, <1>8 DEF page, last

\* RunInv at the start.
LEMMA RunInvInit == LanesInit => RunInv
<1> SUFFICES ASSUME LanesInit PROVE RunInv
  OBVIOUS
<1>1. /\ open = {} /\ files = [tickets |-> NoFile, ref |-> NoFile] /\ onDisk = FALSE
      /\ week = Weekly!NotStarted /\ letter = Weekly!NoLetter /\ cut = FALSE
  BY DEF LanesInit, Weekly!RunInit
<1>2. maxPages \in Nat
  BY LanesAssumption DEF Weekly!RunAssumption
<1>3. Weekly!NoLookup \in LookRecord
  BY <1>2 DEF Weekly!NoLookup, LookRecord
<1>4. week \in WeekRecord /\ week.look = Weekly!NoLookup /\ week.pc = "idle"
  BY <1>1, <1>3 DEF Weekly!NotStarted, WeekRecord, Weekly!Modes, Lines
<1>5. letter \in [sent : BOOLEAN, line : Lines]
  BY <1>1 DEF Weekly!NoLetter, Lines
<1>6. files \in [tickets : {NoFile} \cup TicketsFiles, ref : {NoFile, "ours"}]
  BY <1>1
<1>7. Weekly!RunTypeOK
  BY <1>1, <1>3, <1>4 DEF Weekly!RunTypeOK, WeekRecord, LookRecord
<1>8. LookInv
  BY <1>4 DEF LookInv, Weekly!NoLookup
<1>9. Weekly!ListIsWhole /\ Weekly!ReportsDeleted
  BY <1>1 DEF Weekly!ListIsWhole, Weekly!ReportsDeleted
<1> QED BY <1>4, <1>5, <1>6, <1>7, <1>8, <1>9 DEF RunInv, RunTypeInv

\* What a lookup, the run and its files are made of, field by field.
LEMMA RunFields ==
    ASSUME RunInv
    PROVE  /\ week.pc \in {"idle", "read", "fetch", "build", "report", "file", "stamp", "send",
                           "alert", "done"}
           /\ week.mode \in Weekly!Modes /\ week.look \in LookRecord /\ week.line \in Lines
           /\ {week.files, week.attach, week.trusted, week.failed} \subseteq BOOLEAN
           /\ week.look.page \in 0 .. maxPages /\ week.look.after \in Nat
           /\ week.look.got \subseteq FindingIds /\ week.look.stood \subseteq FindingIds
           /\ week.look.fetched \in BOOLEAN
           /\ files.ref \in {NoFile, "ours"} /\ files.tickets \in {NoFile} \cup TicketsFiles
           /\ open \subseteq FindingIds /\ {onDisk, cut} \subseteq BOOLEAN
           /\ maxPages \in Nat /\ FindingIds \subseteq Nat
<1>1. week \in WeekRecord
  BY DEF RunInv, RunTypeInv
<1>2. week.look \in LookRecord
  BY <1>1 DEF WeekRecord
<1>3. maxPages \in Nat /\ FindingIds \subseteq Nat
  BY LanesAssumption DEF Weekly!RunAssumption
<1> QED BY <1>1, <1>2, <1>3 DEF WeekRecord, LookRecord, RunInv, RunTypeInv, Weekly!RunTypeOK

\* A step of the run keeps RunInv when what it makes of the run's record, of the
\* files and of the scanner's findings does.
LEMMA RunKept ==
    ASSUME RunInv, week' \in WeekRecord, open' \subseteq FindingIds,
           files' \in [tickets : {NoFile} \cup TicketsFiles, ref : {NoFile, "ours"}],
           letter' \in [sent : BOOLEAN, line : Lines], {onDisk', cut'} \subseteq BOOLEAN,
           LookInv', Weekly!ListIsWhole', Weekly!ReportsDeleted'
    PROVE  RunInv'
<1>1. week'.mode \in Weekly!Modes /\ week'.look \in LookRecord
  BY DEF WeekRecord
<1>2. week'.look.page \in 0 .. maxPages
  BY <1>1 DEF LookRecord
<1>3. files'.tickets \in {NoFile} \cup TicketsFiles /\ files'.ref \in {NoFile, "ours"}
  OBVIOUS
<1> QED BY <1>1, <1>2, <1>3 DEF RunInv, RunTypeInv, Weekly!RunTypeOK, TicketsFiles, Weekly!Modes

\* The steps that change the record's place alone, and may name its line.
LEMMA RunMoves ==
    ASSUME RunInv, NEW place \in {"file", "stamp", "send", "alert", "done"}, NEW line \in Lines,
           week' = [week EXCEPT !.pc = place, !.line = line], open' = open,
           files'.tickets = files.tickets,
           files' \in [tickets : {NoFile} \cup TicketsFiles, ref : {NoFile, "ours"}],
           letter' \in [sent : BOOLEAN, line : Lines], onDisk' \in BOOLEAN, cut' = cut,
           onDisk' => (onDisk /\ week.pc # "file") \/ place = "file"
    PROVE  RunInv'
<1>0. week \in WeekRecord /\ open \subseteq FindingIds
  BY RunFields DEF RunInv, RunTypeInv
<1>1. /\ week' \in WeekRecord /\ week'.pc = place /\ week'.look = week.look
  BY <1>0 DEF WeekRecord
<1>2. LookInv'
  BY <1>1 DEF LookInv, RunInv
<1>3. Weekly!ListIsWhole' /\ Weekly!ReportsDeleted'
  BY <1>1 DEF Weekly!ListIsWhole, Weekly!ReportsDeleted, RunInv
<1>4. {onDisk', cut'} \subseteq BOOLEAN
  BY RunFields
<1> QED BY <1>0, <1>1, <1>2, <1>3, <1>4, RunKept

\* Every step keeps RunInv.
LEMMA RunInvStep == RunInv /\ [Weekly!RunNext]_(Weekly!runVars) => RunInv'
<1> SUFFICES ASSUME RunInv, [Weekly!RunNext]_(Weekly!runVars) PROVE RunInv'
  OBVIOUS
<1> DEFINE Files == [tickets : {NoFile} \cup TicketsFiles, ref : {NoFile, "ours"}]
           Letters == [sent : BOOLEAN, line : Lines]
<1>0. /\ week \in WeekRecord /\ files \in Files /\ letter \in Letters /\ open \subseteq FindingIds
      /\ LookInv /\ Weekly!ListIsWhole /\ Weekly!ReportsDeleted /\ {onDisk, cut} \subseteq BOOLEAN
  BY RunFields DEF RunInv, RunTypeInv
<1>n. /\ Weekly!NotStarted \in WeekRecord /\ Weekly!NoLookup \in LookRecord
      /\ Weekly!NotStarted.look = Weekly!NoLookup /\ Weekly!NotStarted.pc = "idle"
      /\ Weekly!NoLookup.stood = {} /\ ~Weekly!NoLookup.fetched
  <2>1. Weekly!NoLookup \in LookRecord /\ Weekly!NoLookup.stood = {} /\ ~Weekly!NoLookup.fetched
    BY RunFields DEF Weekly!NoLookup, LookRecord
  <2> QED BY <2>1 DEF Weekly!NotStarted, WeekRecord, Weekly!Modes, Lines
<1>l. Weekly!NoLetter \in Letters
  BY DEF Weekly!NoLetter, Lines
<1>s. ASSUME week' = Weekly!NotStarted, open' \subseteq open, letter' \in Letters, files' = files,
             onDisk' \in BOOLEAN, cut' \in BOOLEAN, onDisk' => cut'
      PROVE  RunInv'
  <2>1. LookInv'
    BY <1>n, <1>s DEF LookInv
  <2>2. Weekly!ListIsWhole' /\ Weekly!ReportsDeleted'
    BY <1>0, <1>s DEF Weekly!ListIsWhole, Weekly!ReportsDeleted
  <2> HIDE DEF Files, Letters
  <2>3. files' \in Files /\ open' \subseteq FindingIds
    BY <1>0, <1>s
  <2> QED BY <1>n, <1>s, <2>1, <2>2, <2>3, RunKept DEF Files, Letters
<1>1. CASE Weekly!StartRun
  <2>1. PICK mode \in Weekly!Modes, wanted \in BOOLEAN, attach \in BOOLEAN :
          week' = [Weekly!NotStarted EXCEPT !.pc = "read", !.mode = mode, !.files = wanted,
                                            !.attach = wanted /\ attach]
    BY <1>1 DEF Weekly!StartRun
  <2>2. /\ files' = [tickets |-> NoFile, ref |-> NoFile] /\ onDisk' = FALSE /\ cut' = FALSE
        /\ letter' = Weekly!NoLetter /\ open' = open
    BY <1>1 DEF Weekly!StartRun, Weekly!Cleared, Weekly!NothingLeft
  <2>3. week' \in WeekRecord /\ week'.pc = "read" /\ week'.look = Weekly!NoLookup
    BY <1>n, <2>1 DEF WeekRecord
  <2>4. LookInv' /\ Weekly!ListIsWhole' /\ Weekly!ReportsDeleted'
    BY <1>n, <2>2, <2>3 DEF LookInv, Weekly!ListIsWhole, Weekly!ReportsDeleted
  <2>5. files' \in Files /\ letter' \in Letters
    BY <1>l, <2>2
  <2> QED BY <1>0, <2>2, <2>3, <2>4, <2>5, RunKept
<1>2. CASE Weekly!ReadScan
  <2>1. PICK s \in Weekly!Scan :
          /\ open' \in IF week.files /\ s.matched THEN SUBSET FindingIds ELSE {{}}
          /\ week' = [week EXCEPT !.pc = IF week.files /\ s.matched THEN "fetch" ELSE "build",
                                  !.trusted = Weekly!Trusted(s), !.failed = Weekly!Failed(s),
                                  !.look = [Weekly!NoLookup EXCEPT !.stood = open']]
    BY <1>2 DEF Weekly!ReadScan
  <2> DEFINE look == [Weekly!NoLookup EXCEPT !.stood = open']
             place == IF week.files /\ s.matched THEN "fetch" ELSE "build"
             trusted == Weekly!Trusted(s)
             failed == Weekly!Failed(s)
  <2>2. /\ letter' = Weekly!NoLetter /\ UNCHANGED <<files, onDisk, cut>> /\ week.pc = "read"
        /\ open' \subseteq FindingIds
    BY <1>2, <2>1 DEF Weekly!ReadScan
  <2>3. /\ look \in LookRecord /\ look.stood = open' /\ ~look.fetched /\ look.after = 0
    BY <1>n, <2>2 DEF LookRecord, Weekly!NoLookup
  <2>4. place \in {"fetch", "build"} /\ trusted \in BOOLEAN /\ failed \in BOOLEAN
    BY DEF Weekly!Trusted, Weekly!Failed, Weekly!Scan
  <2>5. week' = [week EXCEPT !.pc = place, !.trusted = trusted, !.failed = failed, !.look = look]
    BY <2>1
  <2> HIDE DEF look, place, trusted, failed
  <2>6. week' \in WeekRecord /\ week'.pc = place /\ week'.look = look
    BY <1>0, <2>3, <2>4, <2>5 DEF WeekRecord
  <2>7. LookInv'
    <3>1. \A f \in look.stood : ~(f <= look.after)
      <4>1. FindingIds \subseteq Nat \ {0}
        BY LanesAssumption DEF Weekly!RunAssumption
      <4>2. \A f \in Nat \ {0} : ~(f <= 0)
        OBVIOUS
      <4> QED BY <2>2, <2>3, <4>1, <4>2
    <3> QED BY <2>3, <2>6, <3>1 DEF LookInv
  <2>8. Weekly!ListIsWhole' /\ Weekly!ReportsDeleted'
    BY <1>0, <2>2, <2>4, <2>6 DEF Weekly!ListIsWhole, Weekly!ReportsDeleted
  <2> QED BY <1>0, <1>l, <2>2, <2>6, <2>7, <2>8, RunKept
<1>3. CASE Weekly!FetchPage
  <2> DEFINE rest == {f \in open : f > week.look.after}
             page == Weekly!FirstPage(rest)
             last == Weekly!Max(page \cup {week.look.after})
             look == [week.look EXCEPT !.got = @ \cup page, !.page = @ + 1,
                                       !.after = last, !.fetched = Weekly!Whole(rest)]
             place == IF Weekly!Whole(rest) THEN "build" ELSE "fetch"
  <2>1. /\ week.pc = "fetch" /\ week.look.page < maxPages
        /\ week' = [week EXCEPT !.look = look, !.pc = place]
    BY <1>3, Zenon DEF Weekly!FetchPage, Weekly!Only, Weekly!NextAfter
  <2>2. UNCHANGED <<files, onDisk, open, cut>> /\ letter' = Weekly!NoLetter
    BY <1>3 DEF Weekly!FetchPage, Weekly!Only, Weekly!Still
  <2>3. week.look \in LookRecord /\ week.look.after \in Nat /\ week.look.page + 1 \in 0 .. maxPages
    BY <2>1, RunFields
  <2>4. rest \subseteq FindingIds /\ \A f \in rest : week.look.after < f
    BY <1>0, <2>3, RunFields
  <2> HIDE DEF rest
  <2>5. /\ page \subseteq rest /\ last \in Nat /\ (Weekly!Whole(rest) => page = rest)
        /\ \A f \in rest : f <= last => f \in page
    BY <2>3, <2>4, PageIsWhole
  <2>6. Weekly!Whole(rest) \in BOOLEAN
    BY DEF Weekly!Whole
  <2> DEFINE whole == Weekly!Whole(rest)
  <2> HIDE DEF page, last, whole
  <2>7. /\ look \in LookRecord /\ look.got = week.look.got \cup page /\ look.after = last
        /\ look.fetched = whole /\ look.stood = week.look.stood
    BY <2>3, <2>4, <2>5, <2>6 DEF LookRecord, whole
  <2> HIDE DEF look
  <2>8. week' \in WeekRecord /\ week'.pc = place /\ week'.look = look
    BY <1>0, <2>1, <2>7 DEF WeekRecord
  <2>9. LookInv'
    <3>1. /\ week.look.stood \subseteq open
          /\ \A f \in week.look.stood : f <= week.look.after => f \in week.look.got
      BY <1>0, <2>1 DEF LookInv
    <3>2. \A f \in week.look.stood : f <= week.look.after \/ f \in rest
      <4>1. week.look.stood \subseteq Nat
        BY RunFields
      <4> QED BY <3>1, <4>1, <2>3 DEF rest
    <3>3. \A f \in week.look.stood : f <= last => f \in look.got
      BY <2>5, <2>7, <3>1, <3>2
    <3>4. whole => week.look.stood \subseteq look.got
      BY <2>5, <2>7, <3>1, <3>2 DEF whole
    <3>5. place = "fetch" => ~whole
      BY DEF whole
    <3>6. look.fetched <=> whole
      BY <2>7
    <3> HIDE DEF place
    <3> QED BY <2>2, <2>7, <2>8, <3>1, <3>3, <3>4, <3>5, <3>6 DEF LookInv
  <2>10. Weekly!ListIsWhole' /\ Weekly!ReportsDeleted'
    BY <1>0, <2>1, <2>2 DEF Weekly!ListIsWhole, Weekly!ReportsDeleted
  <2> QED BY <1>0, <1>l, <2>2, <2>8, <2>9, <2>10, RunKept
<1>4. CASE Weekly!FetchFails
  <2> DEFINE look == [week.look EXCEPT !.got = {}]
  <2>1. /\ week.pc = "fetch" /\ week' = [week EXCEPT !.pc = "build", !.look = look]
        /\ UNCHANGED <<files, onDisk, open, cut>> /\ letter' = Weekly!NoLetter
    BY <1>4 DEF Weekly!FetchFails, Weekly!Only, Weekly!Still
  <2>2. /\ look \in LookRecord /\ look.fetched = week.look.fetched /\ look.got = {}
        /\ look.stood = week.look.stood
    BY RunFields DEF LookRecord
  <2> HIDE DEF look
  <2>3. week' \in WeekRecord /\ week'.pc = "build" /\ week'.look = look
    BY <1>0, <2>1, <2>2 DEF WeekRecord
  <2>4. ~look.fetched
    BY <1>0, <2>1, <2>2 DEF LookInv
  <2>5. LookInv' /\ Weekly!ListIsWhole' /\ Weekly!ReportsDeleted'
    BY <1>0, <2>1, <2>3, <2>4 DEF LookInv, Weekly!ListIsWhole, Weekly!ReportsDeleted
  <2> QED BY <1>0, <1>l, <2>1, <2>3, <2>5, RunKept
<1>5. CASE Weekly!WriteReport
  <2>1. PICK f \in IF week.files THEN {Weekly!TicketsFile(week), NoFile} ELSE {NoFile} :
          /\ files' = [files EXCEPT !.tickets = f]
          /\ week' = [week EXCEPT !.pc = IF f = NoFile THEN "send"
                                         ELSE IF week.attach /\ week.mode # "dry" THEN "report"
                                         ELSE "file",
                                  !.look = Weekly!NoLookup,
                                  !.line = IF f = NoFile THEN "none" ELSE "slot"]
    BY <1>5, Zenon DEF Weekly!WriteReport
  <2>2. /\ week.pc = "build" /\ open' = {} /\ letter' = Weekly!NoLetter
        /\ UNCHANGED <<onDisk, cut>>
    BY <1>5 DEF Weekly!WriteReport
  <2> DEFINE skip == Weekly!Skipped(week)
             list == IF skip THEN {} ELSE week.look.got
             place == IF f = NoFile THEN "send"
                   ELSE IF week.attach /\ week.mode # "dry" THEN "report" ELSE "file"
             line == IF f = NoFile THEN "none" ELSE "slot"
  <2>3. skip \in BOOLEAN /\ (~skip => week.look.fetched) /\ list \subseteq FindingIds
    BY RunFields DEF Weekly!Skipped
  <2>4. f = NoFile \/ f = [skip |-> skip, list |-> list, stood |-> week.look.stood]
    BY <2>1 DEF Weekly!TicketsFile
  <2>5. place \in {"send", "report", "file"} /\ line \in Lines
    BY DEF Lines
  <2>6. week' = [week EXCEPT !.pc = place, !.look = Weekly!NoLookup, !.line = line]
    BY <2>1
  <2> HIDE DEF skip, place, line
  <2>7. f \in {NoFile} \cup TicketsFiles
    BY <2>3, <2>4, RunFields DEF TicketsFiles
  <2>8. f # NoFile /\ ~f.skip => f.stood \subseteq f.list
    BY <1>0, <2>3, <2>4 DEF LookInv
  <2>9. files' \in Files /\ files'.tickets = f
    BY <1>0, <2>1, <2>7
  <2>10. week' \in WeekRecord /\ week'.pc = place /\ week'.look = Weekly!NoLookup
    BY <1>0, <1>n, <2>5, <2>6 DEF WeekRecord
  <2>11. LookInv' /\ Weekly!ListIsWhole' /\ Weekly!ReportsDeleted'
    BY <1>0, <1>n, <2>2, <2>5, <2>8, <2>9, <2>10
       DEF LookInv, Weekly!ListIsWhole, Weekly!ReportsDeleted
  <2> QED BY <1>0, <1>l, <2>2, <2>9, <2>10, <2>11, RunKept
<1>6. CASE Weekly!FetchReport
  <2>1. /\ week.pc = "report" /\ week' = [week EXCEPT !.pc = "file", !.line = week.line]
        /\ UNCHANGED <<files, open, cut>> /\ onDisk' \in BOOLEAN /\ letter' = Weekly!NoLetter
    BY <1>0, <1>6 DEF Weekly!FetchReport, Weekly!Still, WeekRecord
  <2> QED BY <1>0, <1>l, <2>1, RunFields, RunMoves
<1>7. CASE Weekly!UpdateTicket
  <2>1. /\ week' = [week EXCEPT !.pc = "stamp", !.line = week.line]
        /\ UNCHANGED <<open, cut>> /\ onDisk' = FALSE /\ letter' = Weekly!NoLetter
    BY <1>0, <1>7 DEF Weekly!UpdateTicket, Weekly!Still, WeekRecord
  <2>2. files' \in Files /\ files'.tickets = files.tickets
    BY <1>0, <1>7 DEF Weekly!UpdateTicket
  <2> QED BY <1>0, <1>l, <2>1, <2>2, RunFields, RunMoves
<1>8. CASE Weekly!Stamp
  <2>1. PICK line \in {"none", Weekly!LineOf(files.ref)} :
          week' = [week EXCEPT !.pc = "send", !.line = line]
    BY <1>8 DEF Weekly!Stamp, Weekly!Only
  <2>2. line \in Lines
    BY RunFields DEF Weekly!LineOf, Lines
  <2>3. /\ week.pc = "stamp" /\ UNCHANGED <<files, onDisk, open, cut>>
        /\ letter' = Weekly!NoLetter
    BY <1>8 DEF Weekly!Stamp, Weekly!Only, Weekly!Still
  <2> QED BY <1>0, <1>l, <2>1, <2>2, <2>3, RunMoves
<1>9. CASE Weekly!SendReport
  <2> DEFINE place == IF week.failed THEN "alert" ELSE "done"
  <2>1. /\ week.pc = "send" /\ week' = [week EXCEPT !.pc = place, !.line = week.line]
        /\ UNCHANGED <<files, onDisk, open, cut>>
    BY <1>0, <1>9 DEF Weekly!SendReport, WeekRecord
  <2>2. letter' \in Letters
    BY <1>9, RunFields DEF Weekly!SendReport
  <2> QED BY <1>0, <2>1, <2>2, RunFields, RunMoves
<1>10. CASE Weekly!AlertOperator
  <2>1. /\ week.pc = "alert" /\ week' = [week EXCEPT !.pc = "done", !.line = week.line]
        /\ UNCHANGED <<files, onDisk, open, cut>> /\ letter' = Weekly!NoLetter
    BY <1>0, <1>10 DEF Weekly!AlertOperator, Weekly!Only, Weekly!Still, WeekRecord
  <2> QED BY <1>0, <1>l, <2>1, RunFields, RunMoves
<1>11. CASE Weekly!EndRun
  <2>1. /\ week.pc = "done" /\ week' = Weekly!NotStarted
        /\ UNCHANGED <<files, onDisk, open, cut>> /\ letter' = Weekly!NoLetter
    BY <1>11 DEF Weekly!EndRun, Weekly!Only, Weekly!Still
  <2> QED BY <1>0, <1>l, <1>s, <2>1 DEF Weekly!ReportsDeleted
<1>12. CASE Weekly!RunFails
  BY <1>0, <1>l, <1>s, <1>12 DEF Weekly!RunFails
<1>13. CASE Weekly!Cut
  BY <1>0, <1>l, <1>s, <1>13 DEF Weekly!Cut
<1>14. ASSUME NEW f \in FindingIds, Weekly!Fixed(f) PROVE RunInv'
  <2> DEFINE look == [week.look EXCEPT !.stood = @ \ {f}]
  <2>1. /\ week.pc = "fetch" /\ week' = [week EXCEPT !.look = look] /\ open' = open \ {f}
        /\ UNCHANGED <<files, onDisk, cut>> /\ letter' = Weekly!NoLetter
    BY <1>14 DEF Weekly!Fixed
  <2>2. /\ look \in LookRecord /\ look.stood = week.look.stood \ {f}
        /\ look.got = week.look.got /\ look.after = week.look.after
        /\ look.fetched = week.look.fetched
    BY RunFields DEF LookRecord
  <2> HIDE DEF look
  <2>3. week' \in WeekRecord /\ week'.pc = week.pc /\ week'.look = look
    BY <1>0, <2>1, <2>2 DEF WeekRecord
  <2>4. LookInv' /\ Weekly!ListIsWhole' /\ Weekly!ReportsDeleted'
    BY <1>0, <2>1, <2>2, <2>3 DEF LookInv, Weekly!ListIsWhole, Weekly!ReportsDeleted
  <2> QED BY <1>0, <1>l, <2>1, <2>3, <2>4, RunKept
<1>15. ASSUME NEW f \in FindingIds, Weekly!Found(f) PROVE RunInv'
  <2>1. /\ open' = open \cup {f} /\ UNCHANGED <<week, files, onDisk, cut>>
        /\ letter' = Weekly!NoLetter
    BY <1>15 DEF Weekly!Found
  <2>2. LookInv' /\ Weekly!ListIsWhole' /\ Weekly!ReportsDeleted'
    BY <1>0, <2>1 DEF LookInv, Weekly!ListIsWhole, Weekly!ReportsDeleted
  <2> QED BY <1>0, <1>l, <2>1, <2>2, RunKept
<1>16. CASE UNCHANGED Weekly!runVars
  BY <1>16 DEF Weekly!runVars, RunInv, RunTypeInv, LookInv, Weekly!RunTypeOK, Weekly!ListIsWhole,
               Weekly!ReportsDeleted
<1> QED BY <1>1, <1>2, <1>3, <1>4, <1>5, <1>6, <1>7, <1>8, <1>9, <1>10, <1>11, <1>12, <1>13,
           <1>14, <1>15, <1>16 DEF Weekly!RunNext

\* RunInv holds throughout.
LEMMA RunInvHolds == LanesSpec => []RunInv
<1>1. LanesInit => RunInv
  BY RunInvInit
<1>2. RunInv /\ [LanesNext]_lanesVars => RunInv'
  BY RunSteps, RunInvStep
<1> QED BY <1>1, <1>2, PTL DEF LanesSpec

\* A list that a ticket is judged by names every finding that was open from the
\* first page to the end, whatever was fixed, found or refused between two pages.
THEOREM ListIsWholeHolds == LanesSpec => []Weekly!ListIsWhole
<1>1. RunInv => Weekly!ListIsWhole
  BY DEF RunInv
<1> QED BY <1>1, RunInvHolds, PTL

\* The mail never says of a ticket what an earlier run of the day did.
THEOREM LineIsThisRunsHolds == LanesSpec => []Weekly!LineIsThisRuns
<1>1. RunInv => Weekly!LineIsThisRuns
  BY DEF RunInv, RunTypeInv, Weekly!LineIsThisRuns, Lines
<1> QED BY <1>1, RunInvHolds, PTL

\* A scanner report, session cookies and all, is on disk only for the ticket it
\* is attached to, and after a cut until the next run.
THEOREM ReportsDeletedHolds == LanesSpec => []Weekly!ReportsDeleted
<1>1. RunInv => Weekly!ReportsDeleted
  BY DEF RunInv
<1> QED BY <1>1, RunInvHolds, PTL
-----------------------------------------------------------------------------
(* The monthly synopsis.                                                   *)

\* A step of the lanes is one of the synopsis, or leaves it as it is.
LEMMA ReleaseSteps == [LanesNext]_lanesVars => [Release!ReleaseNext]_(Release!releaseVars)
BY DEF LanesNext, lanesVars, weeklyVars, dailyVars, releaseVars, Release!releaseVars, Appscan,
       DomainsActions, WeeklySurvey, QualysCalls, Synopses, SharedMailbox, WeeklyReport,
       OwnersMail, Digests, MessageBoard, Mailers, OwnersOnFile, ScannerCache

SynopsisRecord ==
    [pc : {"idle", "build", "send", "mark", "record"}, month : Release!Month,
     replay : BOOLEAN, guarded : BOOLEAN, cves : SUBSET Release!CVE]

ReleaseTypeInv ==
    /\ Release!ReleaseTypeOK /\ synopsis \in SynopsisRecord
    /\ copies \in [Release!Month -> Nat] /\ excused \in [Release!Month -> Nat]
    /\ synopsis.replay => Replays

\* A manifest that is marked sent covers what was mailed; the run's own one says
\* what the run mails, and is marked when it has.
SentInv ==
    /\ \A m \in Release!Month :
          manifests[m] # NoManifest /\ manifests[m].sent => manifests[m].cves \subseteq synopses
    /\ synopsis.pc \in {"send", "mark"} =>
          manifests[synopsis.month] = Release!Unsent(synopsis.cves)
    /\ synopsis.pc = "mark" => synopsis.cves \subseteq synopses

\* A release's synopsis that went out for no cause is on record, or is still
\* being recorded.
Accounted(m) ==
    \/ Release!Tag(m, FALSE) \in digests
    \/ synopsis.pc \in {"mark", "record"} /\ synopsis.month = m

CopyInv ==
    /\ \A m \in Release!Month : copies[m] <= excused[m] + (IF Accounted(m) THEN 1 ELSE 0)
    /\ synopsis.pc # "idle" /\ synopsis.guarded =>
          Release!Tag(synopsis.month, FALSE) \notin digests

\* The record of a run that is not there, and what the months are.
LEMMA ReleaseFacts ==
    /\ Release!NotBuilding \in SynopsisRecord /\ Release!NotBuilding.pc = "idle"
    /\ ~Release!NotBuilding.replay
    /\ Months \in Nat \ {0} /\ MaxCopies \in Nat /\ Release!Month \subseteq Nat
    /\ 1 \in Release!Month
<1>1. Months \in Nat \ {0} /\ MaxCopies \in Nat
  BY LanesAssumption DEF Release!ReleaseAssumption
<1> QED BY <1>1 DEF Release!Month, Release!NotBuilding, SynopsisRecord

\* ReleaseTypeInv at the start.
LEMMA ReleaseTypeInit == LanesInit => ReleaseTypeInv
<1> SUFFICES ASSUME LanesInit PROVE ReleaseTypeInv
  OBVIOUS
<1>1. Release!ReleaseInit
  BY DEF LanesInit
<1> QED BY <1>1, ReleaseFacts DEF ReleaseTypeInv, Release!ReleaseInit, Release!ReleaseTypeOK

\* What each step makes of the run's record, and every step keeps its type.
LEMMA ReleaseTypeStep ==
    ReleaseTypeInv /\ [Release!ReleaseNext]_(Release!releaseVars) => ReleaseTypeInv'
<1> SUFFICES ASSUME ReleaseTypeInv, [Release!ReleaseNext]_(Release!releaseVars)
             PROVE  ReleaseTypeInv'
  OBVIOUS
<1> DEFINE Month == Release!Month
           CVE == Release!CVE
           Manifest == Release!Manifest
<1>0. /\ synopsis \in SynopsisRecord /\ now \in Month /\ out \in BOOLEAN
      /\ manifests \in [Month -> Manifest \cup {NoManifest}] /\ digests \subseteq Month \X BOOLEAN
      /\ synopses \subseteq CVE /\ copies \in [Month -> Nat] /\ excused \in [Month -> Nat]
      /\ synopsis.month \in Month /\ synopsis.cves \subseteq CVE
      /\ {synopsis.replay, synopsis.guarded} \subseteq BOOLEAN /\ (synopsis.replay => Replays)
  BY DEF ReleaseTypeInv, Release!ReleaseTypeOK, SynopsisRecord
<1>1. ASSUME synopsis' \in SynopsisRecord, now' \in Month, out' \in BOOLEAN,
             manifests' \in [Month -> Manifest \cup {NoManifest}],
             digests' \subseteq Month \X BOOLEAN, synopses' \subseteq CVE,
             copies' \in [Month -> Nat], excused' \in [Month -> Nat],
             synopsis'.replay => Replays
      PROVE  ReleaseTypeInv'
  BY <1>1 DEF ReleaseTypeInv, Release!ReleaseTypeOK, SynopsisRecord
<1>2. CASE Release!StartSynopsis
  <2>1. PICK m \in Month, replay \in {FALSE, Replays}, resend \in BOOLEAN, read \in BOOLEAN :
          synopsis' = [Release!NotBuilding EXCEPT !.pc = "build", !.month = m, !.replay = replay,
                                                  !.guarded = ~resend /\ read]
    BY <1>2 DEF Release!StartSynopsis
  <2>2. Replays \in BOOLEAN
    BY LanesAssumption DEF Release!ReleaseAssumption
  <2>3. synopsis' \in SynopsisRecord /\ synopsis'.replay = replay
    BY <2>1, <2>2, ReleaseFacts DEF SynopsisRecord
  <2> QED BY <1>0, <1>1, <1>2, <2>3
          DEF Release!StartSynopsis, Release!ClockUnchanged, Release!Observed
<1>3. CASE Release!Build
  <2>1. PICK cves \in SUBSET Release!ReleaseOf(synopsis.month) \ {{}} :
          /\ synopsis' = [synopsis EXCEPT !.pc = "send", !.cves = cves]
          /\ \/ manifests' = [manifests EXCEPT ![synopsis.month] = Release!Unsent(cves)]
             \/ UNCHANGED manifests
    BY <1>3 DEF Release!Build
  <2>2. cves \subseteq CVE
    BY <1>0 DEF Release!ReleaseOf, Release!CVE
  <2>3. Release!Unsent(cves) \in Manifest
    BY <2>2 DEF Release!Unsent, Release!Manifest
  <2>4. manifests' \in [Month -> Manifest \cup {NoManifest}]
    BY <1>0, <2>1, <2>3
  <2>5. synopsis' \in SynopsisRecord /\ synopsis'.replay = synopsis.replay
    BY <1>0, <2>1, <2>2 DEF SynopsisRecord
  <2> QED BY <1>0, <1>1, <1>3, <2>4, <2>5
          DEF Release!Build, Release!ClockUnchanged, Release!Observed
<1>4. CASE Release!BuildFails \/ Release!SendFails
  BY <1>0, <1>1, <1>4, ReleaseFacts
     DEF Release!BuildFails, Release!SendFails, Release!Idle, Release!ClockUnchanged,
         Release!Observed
<1>5. CASE Release!Send \/ Release!SendUnanswered
  <2>1. PICK n \in 0 .. 3, k \in 0 .. 3 : Release!Mailed(n) /\ Release!Excused(k)
    <3>1. CASE Release!Send
      <4>1. Release!Mailed(1) /\ (Release!Excused(0) \/ Release!Excused(1))
        BY <3>1 DEF Release!Send
      <4> QED BY <4>1
    <3>2. CASE Release!SendUnanswered
      <4>1. PICK n \in 0 .. 3 :
              /\ Release!Mailed(n)
              /\ Release!Excused(n) \/ (n > 0 /\ Release!Excused(n - 1))
        BY <3>2 DEF Release!SendUnanswered
      <4>2. n > 0 => n - 1 \in 0 .. 3
        OBVIOUS
      <4> QED BY <4>1, <4>2
    <3> QED BY <1>5, <3>1, <3>2
  <2>2. synopses' \subseteq CVE
    BY <1>0, <2>1 DEF Release!Mailed
  <2>3. copies' \in [Month -> Nat] /\ excused' \in [Month -> Nat]
    BY <1>0, <2>1 DEF Release!Mailed, Release!Excused
  <2>4. synopsis' = [synopsis EXCEPT !.pc = "mark"] \/ synopsis' = Release!NotBuilding
    BY <1>5 DEF Release!Send, Release!SendUnanswered, Release!Idle
  <2>5. synopsis' \in SynopsisRecord /\ (synopsis'.replay => Replays)
    BY <1>0, <2>4, ReleaseFacts DEF SynopsisRecord
  <2>6. UNCHANGED <<now, out, manifests, digests>>
    BY <1>5 DEF Release!Send, Release!SendUnanswered, Release!ClockUnchanged
  <2> QED BY <1>0, <1>1, <2>2, <2>3, <2>5, <2>6
<1>6. CASE Release!MarkSent \/ Release!MarkFails
  <2>1. /\ synopsis' = [synopsis EXCEPT !.pc = "record"]
        /\ \/ /\ manifests[synopsis.month] # NoManifest
              /\ manifests' = [manifests EXCEPT ![synopsis.month].sent = TRUE]
           \/ UNCHANGED manifests
        /\ UNCHANGED <<now, out, digests, synopses, copies, excused>>
    BY <1>6 DEF Release!MarkSent, Release!MarkFails, Release!ClockUnchanged, Release!Observed
  <2>2. synopsis' \in SynopsisRecord /\ synopsis'.replay = synopsis.replay
    BY <1>0, <2>1 DEF SynopsisRecord
  <2>3. manifests' \in [Month -> Manifest \cup {NoManifest}]
    <3>1. CASE manifests[synopsis.month] # NoManifest
      <4> DEFINE mf == [manifests[synopsis.month] EXCEPT !.sent = TRUE]
      <4>1. manifests[synopsis.month] \in Manifest
        BY <1>0, <3>1
      <4>2. mf \in Manifest
        BY <4>1 DEF Release!Manifest
      <4> QED BY <1>0, <2>1, <4>2
    <3> QED BY <1>0, <2>1, <3>1
  <2> QED BY <1>0, <1>1, <2>1, <2>2, <2>3
<1>7. CASE Release!RecordSent
  <2>1. Release!Tag(synopsis.month, synopsis.replay) \in Month \X BOOLEAN
    BY <1>0 DEF Release!Tag
  <2> QED BY <1>0, <1>1, <1>7, <2>1, ReleaseFacts
          DEF Release!RecordSent, Release!Idle, Release!ClockUnchanged, Release!Observed
<1>8. CASE Release!RecordLost
  <2>1. excused' \in [Month -> Nat]
    BY <1>0, <1>8 DEF Release!RecordLost, Release!Excused
  <2> QED BY <1>0, <1>1, <1>8, <2>1, ReleaseFacts
          DEF Release!RecordLost, Release!Idle, Release!ClockUnchanged
<1>9. CASE Release!Clock
  <2>0. now \in 1 .. Months /\ Months \in Nat
    BY <1>0, ReleaseFacts DEF Release!Month
  <2>1. (now' = now \/ (now < Months /\ now' = now + 1)) /\ out' \in BOOLEAN
    BY <1>0, <1>9 DEF Release!Clock
  <2>2. now' \in 1 .. Months
    BY <2>0, <2>1
  <2>3. now' \in Month
    BY <2>2 DEF Release!Month
  <2> QED BY <1>0, <1>1, <1>9, <2>1, <2>3 DEF Release!Clock, Release!Observed
<1>10. CASE UNCHANGED Release!releaseVars
  BY <1>0, <1>1, <1>10 DEF Release!releaseVars
<1> QED BY <1>2, <1>3, <1>4, <1>5, <1>6, <1>7, <1>8, <1>9, <1>10 DEF Release!ReleaseNext

\* SentInv and CopyInv at the start.
LEMMA SentCopyInit == LanesInit => SentInv /\ CopyInv
<1> SUFFICES ASSUME LanesInit PROVE SentInv /\ CopyInv
  OBVIOUS
<1>1. /\ manifests = [m \in Release!Month |-> NoManifest] /\ synopsis = Release!NotBuilding
      /\ copies = [m \in Release!Month |-> 0] /\ excused = [m \in Release!Month |-> 0]
  BY DEF LanesInit, Release!ReleaseInit
<1>2. synopsis.pc = "idle"
  BY <1>1, ReleaseFacts
<1> QED BY <1>1, <1>2 DEF SentInv, CopyInv, Accounted

\* Where no manifest is lost and no month replayed, what is marked sent was mailed.
LEMMA SentStep ==
    ASSUME ~WritesFail, ~Replays, ReleaseTypeInv, SentInv,
           [Release!ReleaseNext]_(Release!releaseVars)
    PROVE  SentInv'
<1> DEFINE Month == Release!Month
<1>0. /\ manifests \in [Month -> Release!Manifest \cup {NoManifest}]
      /\ synopsis.month \in Month /\ ~synopsis.replay /\ synopsis \in SynopsisRecord
  BY DEF ReleaseTypeInv, Release!ReleaseTypeOK, SynopsisRecord
<1>1. ASSUME UNCHANGED manifests, synopses \subseteq synopses',
             synopsis'.pc \notin {"send", "mark"} PROVE SentInv'
  BY <1>1 DEF SentInv
<1>2. CASE Release!StartSynopsis
  <2>1. PICK m \in Month, replay \in {FALSE, Replays}, resend \in BOOLEAN, read \in BOOLEAN :
          synopsis' = [Release!NotBuilding EXCEPT !.pc = "build", !.month = m, !.replay = replay,
                                                  !.guarded = ~resend /\ read]
    BY <1>2 DEF Release!StartSynopsis
  <2>2. synopsis'.pc = "build"
    BY <2>1 DEF Release!NotBuilding
  <2> QED BY <1>1, <1>2, <2>2 DEF Release!StartSynopsis, Release!Observed
<1>3. CASE Release!Build
  <2>1. PICK cves \in SUBSET Release!ReleaseOf(synopsis.month) \ {{}} :
          /\ synopsis' = [synopsis EXCEPT !.pc = "send", !.cves = cves]
          /\ manifests' = [manifests EXCEPT ![synopsis.month] = Release!Unsent(cves)]
    BY <1>0, <1>3 DEF Release!Build
  <2>2. UNCHANGED synopses
    BY <1>3 DEF Release!Build, Release!Observed
  <2>3. synopsis'.pc = "send" /\ synopsis'.cves = cves /\ synopsis'.month = synopsis.month
    BY <1>0, <2>1 DEF SynopsisRecord
  <2>4. ~Release!Unsent(cves).sent
    BY DEF Release!Unsent
  <2>5. \A m \in Month : manifests'[m] = IF m = synopsis.month THEN Release!Unsent(cves)
                                          ELSE manifests[m]
    BY <1>0, <2>1
  <2>6. \A m \in Month : manifests'[m] # NoManifest /\ manifests'[m].sent
                            => manifests'[m].cves \subseteq synopses'
    BY <2>2, <2>4, <2>5 DEF SentInv
  <2>7. manifests'[synopsis'.month] = Release!Unsent(synopsis'.cves)
    BY <1>0, <2>3, <2>5
  <2> QED BY <2>3, <2>6, <2>7 DEF SentInv, Release!Unsent
<1>4. ASSUME synopses' = synopses \cup synopsis.cves, UNCHANGED manifests,
             synopsis' = [synopsis EXCEPT !.pc = "mark"], synopsis.pc = "send"
      PROVE  SentInv'
  <2>1. /\ synopses' = synopses \cup synopsis.cves /\ UNCHANGED manifests
        /\ synopsis' = [synopsis EXCEPT !.pc = "mark"] /\ synopsis.pc = "send"
    BY <1>4
  <2>2. synopsis'.pc = "mark" /\ synopsis'.cves = synopsis.cves
        /\ synopsis'.month = synopsis.month
    BY <1>0, <2>1 DEF SynopsisRecord
  <2> QED BY <2>1, <2>2 DEF SentInv, Release!Unsent
<1>9. CASE Release!Send \/ Release!SendUnanswered
  <2>1. synopsis.pc = "send" /\ UNCHANGED manifests
    BY <1>9 DEF Release!Send, Release!SendUnanswered
  <2>2. CASE synopsis' = [synopsis EXCEPT !.pc = "mark"]
    <3>1. PICK n \in 0 .. 3 : n > 0 /\ Release!Mailed(n)
      <4>1. Release!NotBuilding.pc # [synopsis EXCEPT !.pc = "mark"].pc
        BY <1>0, ReleaseFacts DEF SynopsisRecord
      <4>2. synopsis' # Release!NotBuilding
        BY <2>2, <4>1
      <4> QED BY <1>9, <4>2 DEF Release!Send, Release!SendUnanswered, Release!Idle
    <3> QED BY <1>4, <2>1, <2>2, <3>1 DEF Release!Mailed
  <2>3. CASE synopsis' = Release!NotBuilding
    <3>1. synopses \subseteq synopses'
      BY <1>9 DEF Release!Send, Release!SendUnanswered, Release!Mailed
    <3> QED BY <1>1, <2>1, <2>3, <3>1, ReleaseFacts
  <2> QED BY <1>9, <2>2, <2>3 DEF Release!Send, Release!SendUnanswered, Release!Idle
<1>5. CASE Release!MarkSent
  <2>1. /\ manifests' = [manifests EXCEPT ![synopsis.month].sent = TRUE]
        /\ synopsis' = [synopsis EXCEPT !.pc = "record"] /\ synopsis.pc = "mark"
        /\ UNCHANGED synopses
    BY <1>5 DEF Release!MarkSent, Release!Observed
  <2>2. synopsis'.pc = "record"
    BY <1>0, <2>1 DEF SynopsisRecord
  <2>3. manifests[synopsis.month].cves = synopsis.cves /\ synopsis.cves \subseteq synopses
    BY <2>1 DEF SentInv, Release!Unsent
  <2>4. manifests[synopsis.month] = [cves |-> synopsis.cves, sent |-> FALSE]
    BY <2>1 DEF SentInv, Release!Unsent
  <2>5. manifests'[synopsis.month].cves = synopsis.cves
    BY <1>0, <2>1, <2>4
  <2>6. \A m \in Month \ {synopsis.month} : manifests'[m] = manifests[m]
    BY <1>0, <2>1
  <2>7. \A m \in Month : manifests'[m] # NoManifest /\ manifests'[m].sent
                            => manifests'[m].cves \subseteq synopses'
    BY <2>1, <2>3, <2>5, <2>6 DEF SentInv
  <2> QED BY <2>2, <2>7 DEF SentInv
<1>6. CASE Release!MarkFails
  <2>1. synopsis' = [synopsis EXCEPT !.pc = "record"]
    BY <1>6 DEF Release!MarkFails
  <2>2. synopsis'.pc = "record"
    BY <1>0, <2>1 DEF SynopsisRecord
  <2> QED BY <1>1, <1>6, <2>2 DEF Release!MarkFails, Release!Observed
<1>7. CASE \/ Release!BuildFails \/ Release!SendFails \/ Release!RecordSent \/ Release!RecordLost
  <2>1. synopsis' = Release!NotBuilding /\ UNCHANGED <<manifests, synopses>>
    BY <1>7 DEF Release!BuildFails, Release!SendFails, Release!RecordSent, Release!RecordLost,
                Release!Idle, Release!Observed
  <2> QED BY <1>1, <2>1, ReleaseFacts
<1>8. CASE Release!Clock \/ UNCHANGED Release!releaseVars
  <2>1. UNCHANGED <<manifests, synopsis, synopses>>
    BY <1>8 DEF Release!Clock, Release!Observed, Release!releaseVars
  <2> QED BY <2>1 DEF SentInv
<1> QED BY <1>2, <1>3, <1>5, <1>6, <1>7, <1>8, <1>9 DEF Release!ReleaseNext

\* Where no month is replayed, every copy but one has its excuse.
LEMMA CopyStep ==
    ASSUME ~Replays, ReleaseTypeInv, CopyInv, [Release!ReleaseNext]_(Release!releaseVars)
    PROVE  CopyInv'
<1> DEFINE Month == Release!Month
<1>0. /\ synopsis.month \in Month /\ ~synopsis.replay /\ synopsis \in SynopsisRecord
      /\ synopsis.guarded \in BOOLEAN /\ synopsis.replay = FALSE
      /\ copies \in [Month -> Nat] /\ excused \in [Month -> Nat]
  BY DEF ReleaseTypeInv, Release!ReleaseTypeOK, SynopsisRecord
<1>1. ASSUME UNCHANGED <<copies, excused>>, digests \subseteq digests',
             \A m \in Month : Accounted(m) => Accounted(m)',
             synopsis'.pc # "idle" /\ synopsis'.guarded
                => Release!Tag(synopsis'.month, FALSE) \notin digests'
      PROVE  CopyInv'
  <2>1. ASSUME NEW m \in Month
        PROVE  copies'[m] <= excused'[m] + (IF Accounted(m)' THEN 1 ELSE 0)
    <3>1. copies[m] \in Nat /\ excused[m] \in Nat
          /\ copies[m] <= excused[m] + (IF Accounted(m) THEN 1 ELSE 0)
      BY <1>0 DEF CopyInv
    <3>2. copies'[m] = copies[m] /\ excused'[m] = excused[m] /\ (Accounted(m) => Accounted(m)')
      BY <1>1
    <3> HIDE DEF Accounted
    <3> QED BY <3>1, <3>2
  <2> QED BY <1>1, <2>1 DEF CopyInv
<1>2. CASE Release!StartSynopsis
  <2>1. PICK m \in Month, replay \in {FALSE, Replays}, resend \in BOOLEAN, read \in BOOLEAN :
          /\ ~resend /\ read => Release!Tag(m, replay) \notin digests
          /\ synopsis' = [Release!NotBuilding EXCEPT !.pc = "build", !.month = m, !.replay = replay,
                                                     !.guarded = ~resend /\ read]
    BY <1>2 DEF Release!StartSynopsis
  <2>2. synopsis'.pc = "build" /\ synopsis'.month = m /\ synopsis'.guarded = (~resend /\ read)
    BY <2>1 DEF Release!NotBuilding
  <2>3. Replays \in BOOLEAN
    BY LanesAssumption DEF Release!ReleaseAssumption
  <2>4. replay = FALSE
    BY <2>3, Zenon
  <2>5. synopsis.pc = "idle" /\ UNCHANGED <<copies, excused, digests>>
    BY <1>2 DEF Release!StartSynopsis, Release!Observed
  <2>6. \A i \in Month : Accounted(i) => Accounted(i)'
    BY <2>5 DEF Accounted
  <2>7. ~resend /\ read => Release!Tag(m, FALSE) \notin digests'
    BY <2>1, <2>4, <2>5, Zenon
  <2>8. synopsis'.guarded => Release!Tag(synopsis'.month, FALSE) \notin digests'
    BY <2>2, <2>7, Zenon
  <2> QED BY <1>1, <2>5, <2>6, <2>8
<1>3. CASE Release!Build
  <2>1. PICK cves \in SUBSET Release!ReleaseOf(synopsis.month) \ {{}} :
          synopsis' = [synopsis EXCEPT !.pc = "send", !.cves = cves]
    BY <1>3 DEF Release!Build
  <2>2. synopsis'.pc = "send" /\ synopsis'.month = synopsis.month
        /\ (synopsis'.guarded <=> synopsis.guarded)
    BY <1>0, <2>1 DEF SynopsisRecord
  <2>3. synopsis.pc = "build" /\ UNCHANGED <<copies, excused, digests>>
    BY <1>3 DEF Release!Build, Release!Observed
  <2> QED BY <1>1, <2>2, <2>3 DEF Accounted, CopyInv
<1>4. CASE Release!BuildFails \/ Release!SendFails
  <2>1. synopsis' = Release!NotBuilding /\ synopsis.pc \in {"build", "send"}
        /\ UNCHANGED <<copies, excused, digests>>
    BY <1>4 DEF Release!BuildFails, Release!SendFails, Release!Idle, Release!Observed
  <2> QED BY <1>1, <2>1, ReleaseFacts DEF Accounted
<1>n. PICK n : n = synopsis.month
  OBVIOUS
\* What is sent and goes on to be recorded; what is sent and given up.
<1>s. ASSUME NEW k \in Nat \ {0}, synopsis.pc = "send", UNCHANGED digests,
             copies' = [copies EXCEPT ![n] = @ + k],
             excused' = [excused EXCEPT ![n] = @ + (IF Release!PastGuard THEN k ELSE k - 1)],
             synopsis' = [synopsis EXCEPT !.pc = "mark"]
      PROVE  CopyInv'
  <2>2. synopsis'.pc = "mark" /\ synopsis'.month = n /\ (synopsis'.guarded <=> synopsis.guarded)
    BY <1>0, <1>n, <1>s DEF SynopsisRecord
  <2>3. \A m \in Month : Accounted(m) => Accounted(m)'
    BY <1>s, <2>2 DEF Accounted
  <2>4. \A m \in Month \ {n} : copies'[m] = copies[m] /\ excused'[m] = excused[m]
    BY <1>0, <1>s
  <2>n. n \in Month /\ copies[n] \in Nat /\ excused[n] \in Nat /\ copies'[n] = copies[n] + k
    BY <1>0, <1>n, <1>s
  <2>5. ASSUME NEW m \in Month
        PROVE  copies'[m] <= excused'[m] + (IF Accounted(m)' THEN 1 ELSE 0)
    <3>0. copies[m] \in Nat /\ excused[m] \in Nat
          /\ copies[m] <= excused[m] + (IF Accounted(m) THEN 1 ELSE 0)
      BY <1>0 DEF CopyInv
    <3>1. CASE m # n
      BY <2>3, <2>4, <3>0, <3>1
    <3>2. CASE m = n /\ Release!PastGuard
      <4>1. copies'[m] = copies[m] + k /\ excused'[m] = excused[m] + k
        BY <1>0, <1>s, <2>n, <3>2
      <4>2. Accounted(m)' \/ ~Accounted(m)
        BY <2>3
      <4> QED BY <3>0, <4>1, <4>2
    <3>3. CASE m = n /\ ~Release!PastGuard
      <4>1. copies'[m] = copies[m] + k /\ excused'[m] = excused[m] + (k - 1)
        BY <1>0, <1>s, <2>n, <3>3
      <4>2. Release!Tag(synopsis.month, FALSE) \notin digests
        BY <1>0, <1>s, <3>3 DEF Release!PastGuard, CopyInv
      <4>3. ~Accounted(m)
        BY <1>n, <1>s, <3>3, <4>2 DEF Accounted
      <4>4. Accounted(m)'
        BY <2>2, <3>3 DEF Accounted
      <4> QED BY <3>0, <4>1, <4>3, <4>4
    <3> QED BY <3>1, <3>2, <3>3
  <2>6. synopsis.guarded => Release!Tag(n, FALSE) \notin digests
    BY <1>n, <1>s DEF CopyInv
  <2>7. synopsis'.pc # "idle" /\ synopsis'.guarded
           => Release!Tag(synopsis'.month, FALSE) \notin digests'
    <3>1. Release!Tag(synopsis'.month, FALSE) = Release!Tag(n, FALSE)
      BY <2>2
    <3>2. digests' = digests /\ (synopsis'.guarded => synopsis.guarded)
      BY <1>s, <2>2
    <3> QED BY <2>6, <3>1, <3>2, Zenon
  <2> QED BY <2>5, <2>7 DEF CopyInv
<1>u. ASSUME NEW k \in Nat, synopsis.pc = "send", UNCHANGED digests,
             copies' = [copies EXCEPT ![n] = @ + k], excused' = [excused EXCEPT ![n] = @ + k],
             synopsis' = Release!NotBuilding
      PROVE  CopyInv'
  <2>1. ASSUME NEW m \in Month
        PROVE  copies'[m] <= excused'[m] + (IF Accounted(m)' THEN 1 ELSE 0)
    <3>0. copies[m] \in Nat /\ excused[m] \in Nat
          /\ copies[m] <= excused[m] + (IF Accounted(m) THEN 1 ELSE 0)
      BY <1>0 DEF CopyInv
    <3>1. PICK d \in {0, k} : copies'[m] = copies[m] + d /\ excused'[m] = excused[m] + d
      BY <1>0, <1>u
    <3>2. Accounted(m) => Accounted(m)'
      BY <1>u DEF Accounted
    <3> HIDE DEF Accounted
    <3> QED BY <3>0, <3>1, <3>2
  <2> QED BY <1>u, <2>1, ReleaseFacts DEF CopyInv
<1>5. CASE Release!Send
  <2>1. PICK k \in Nat \ {0} : k = 1
    OBVIOUS
  <2>2. PICK d \in {0, 1} : d = (IF Release!PastGuard THEN 1 ELSE 0)
    OBVIOUS
  <2>3. d = (IF Release!PastGuard THEN k ELSE k - 1)
    BY <2>1, <2>2
  <2>4. excused' = [excused EXCEPT ![n] = @ + d]
    BY <1>5, <1>n, <2>2, Zenon DEF Release!Send, Release!Excused
  <2>5. copies' = [copies EXCEPT ![n] = @ + k]
    <3>1. copies' = [copies EXCEPT ![synopsis.month] = @ + 1]
      BY <1>5 DEF Release!Send, Release!Mailed
    <3> QED BY <1>n, <2>1, <3>1, Zenon
  <2>6. excused' = [excused EXCEPT ![n] = @ + (IF Release!PastGuard THEN k ELSE k - 1)]
    BY <2>3, <2>4, Zenon
  <2>7. synopsis.pc = "send" /\ UNCHANGED digests /\ synopsis' = [synopsis EXCEPT !.pc = "mark"]
    BY <1>5, Zenon DEF Release!Send
  <2> QED BY <1>s, <2>5, <2>6, <2>7
<1>10. CASE Release!SendUnanswered
  <2>1. PICK k \in 0 .. 3 :
          /\ copies' = [copies EXCEPT ![n] = @ + k]
          /\ \/ /\ k > 0
                /\ excused' = [excused EXCEPT ![n] = @ + (IF Release!PastGuard THEN k ELSE k - 1)]
                /\ synopsis' = [synopsis EXCEPT !.pc = "mark"]
             \/ /\ excused' = [excused EXCEPT ![n] = @ + k]
                /\ synopsis' = Release!NotBuilding
    BY <1>10, <1>n DEF Release!SendUnanswered, Release!Mailed, Release!Excused, Release!Idle
  <2>2. synopsis.pc = "send" /\ UNCHANGED digests
    BY <1>10 DEF Release!SendUnanswered
  <2>3. CASE k > 0 /\ synopsis' = [synopsis EXCEPT !.pc = "mark"] /\
             excused' = [excused EXCEPT ![n] = @ + (IF Release!PastGuard THEN k ELSE k - 1)]
    <3>1. k \in Nat \ {0}
      BY <2>3
    <3> QED BY <1>s, <2>1, <2>2, <2>3, <3>1
  <2>4. CASE synopsis' = Release!NotBuilding /\ excused' = [excused EXCEPT ![n] = @ + k]
    <3>1. k \in Nat
      OBVIOUS
    <3> QED BY <1>u, <2>1, <2>2, <2>4, <3>1
  <2> QED BY <2>1, <2>3, <2>4
<1>6. CASE Release!MarkSent \/ Release!MarkFails
  <2>1. synopsis' = [synopsis EXCEPT !.pc = "record"] /\ synopsis.pc = "mark"
        /\ UNCHANGED <<copies, excused, digests>>
    BY <1>6 DEF Release!MarkSent, Release!MarkFails, Release!Observed
  <2>2. synopsis'.pc = "record" /\ synopsis'.month = synopsis.month
        /\ (synopsis'.guarded <=> synopsis.guarded)
    BY <1>0, <2>1 DEF SynopsisRecord
  <2>3. \A m \in Month : Accounted(m) => Accounted(m)'
    BY <2>1, <2>2 DEF Accounted
  <2>4. synopsis.guarded => Release!Tag(synopsis.month, FALSE) \notin digests
    BY <2>1 DEF CopyInv
  <2>5. Release!Tag(synopsis'.month, FALSE) = Release!Tag(synopsis.month, FALSE)
    BY <2>2
  <2>6. synopsis'.guarded => Release!Tag(synopsis'.month, FALSE) \notin digests'
    <3>1. digests' = digests /\ (synopsis'.guarded => synopsis.guarded)
      BY <2>1, <2>2
    <3> QED BY <2>4, <2>5, <3>1, Zenon
  <2> QED BY <1>1, <2>1, <2>3, <2>6
<1>7. CASE Release!RecordSent
  <2>1. synopsis' = Release!NotBuilding /\ UNCHANGED <<copies, excused>>
        /\ digests' = digests \cup {Release!Tag(synopsis.month, synopsis.replay)}
    BY <1>7 DEF Release!RecordSent, Release!Idle, Release!Observed
  <2>2. synopsis.replay = FALSE
    BY <1>0 DEF SynopsisRecord
  <2> QED BY <1>1, <2>1, <2>2, ReleaseFacts DEF Accounted
<1>8. CASE Release!RecordLost
  <2>1. /\ excused' = [excused EXCEPT ![n] = @ + (IF Release!PastGuard THEN 0 ELSE 1)]
        /\ synopsis' = Release!NotBuilding /\ UNCHANGED <<copies, digests>>
        /\ synopsis.pc \in {"mark", "record"}
    BY <1>8, <1>n DEF Release!RecordLost, Release!Excused, Release!Idle
  <2>2. ASSUME NEW m \in Month
        PROVE  copies'[m] <= excused'[m] + (IF Accounted(m)' THEN 1 ELSE 0)
    <3>0. copies[m] \in Nat /\ excused[m] \in Nat
          /\ copies[m] <= excused[m] + (IF Accounted(m) THEN 1 ELSE 0)
      BY <1>0 DEF CopyInv
    <3>1. CASE m = n /\ ~Release!PastGuard
      <4>1. copies'[m] = copies[m] /\ excused'[m] = excused[m] + 1
        BY <1>0, <2>1, <3>1
      <4> QED BY <3>0, <4>1
    <3>2. CASE ~(m = n /\ ~Release!PastGuard)
      <4>1. copies'[m] = copies[m] /\ excused'[m] = excused[m]
        BY <1>0, <2>1, <3>2
      <4>2. Release!PastGuard => Release!Tag(n, FALSE) \in digests
        BY <1>0, <1>n DEF Release!PastGuard
      <4>3. Accounted(m) => Accounted(m)'
        BY <1>n, <2>1, <3>2, <4>2 DEF Accounted
      <4> QED BY <3>0, <4>1, <4>3
    <3> QED BY <3>1, <3>2
  <2> QED BY <2>1, <2>2, ReleaseFacts DEF CopyInv
<1>9. CASE Release!Clock \/ UNCHANGED Release!releaseVars
  <2>1. UNCHANGED <<copies, excused, synopsis, digests>>
    BY <1>9 DEF Release!Clock, Release!Observed, Release!releaseVars
  <2> QED BY <1>1, <2>1 DEF CopyInv, Accounted
<1> QED BY <1>2, <1>3, <1>4, <1>5, <1>6, <1>7, <1>8, <1>9, <1>10 DEF Release!ReleaseNext

LEMMA ReleaseTypeHolds == LanesSpec => []ReleaseTypeInv
<1>1. ReleaseTypeInv /\ [LanesNext]_lanesVars => ReleaseTypeInv'
  BY ReleaseSteps, ReleaseTypeStep
<1> QED BY <1>1, ReleaseTypeInit, PTL DEF LanesSpec

\* HeldWasMailed: every CVE the daily digest leaves to the synopsis was in one
\* that went out -- where the manifest is written and no month is replayed, the
\* two ways the code leaves an older manifest standing for what is mailed.
THEOREM HeldWasMailedHolds ==
    ASSUME ~WritesFail, ~Replays PROVE LanesSpec => []HeldWasMailed
<1>1. ReleaseTypeInv /\ SentInv /\ [LanesNext]_lanesVars => SentInv'
  BY ReleaseSteps, SentStep
<1>2. SentInv => HeldWasMailed
  BY DEF SentInv, HeldWasMailed, Release!HeldWasMailed, Release!Held, Release!RecentManifests
<1>3. LanesInit => SentInv
  BY SentCopyInit
<1> QED BY <1>1, <1>2, <1>3, ReleaseTypeHolds, PTL DEF LanesSpec

\* OneSynopsis: a second synopsis of a release goes out only because the first
\* one's record was lost or could not be read, on --resend, or because the mailer
\* had no answer -- where no month is replayed, since a replay is recorded under a
\* tag of its own.
THEOREM OneSynopsisHolds == ASSUME ~Replays PROVE LanesSpec => []Release!OneSynopsis
<1>1. ReleaseTypeInv /\ CopyInv /\ [LanesNext]_lanesVars => CopyInv'
  BY ReleaseSteps, CopyStep
<1>2. ReleaseTypeInv /\ CopyInv => Release!OneSynopsis
  <2> SUFFICES ASSUME ReleaseTypeInv, CopyInv, NEW m \in Release!Month
               PROVE  copies[m] <= 1 + excused[m]
    BY DEF Release!OneSynopsis
  <2>1. copies[m] \in Nat /\ excused[m] \in Nat
    BY DEF ReleaseTypeInv
  <2>2. copies[m] <= excused[m] + (IF Accounted(m) THEN 1 ELSE 0)
    BY DEF CopyInv
  <2> QED BY <2>1, <2>2
<1>3. LanesInit => CopyInv
  BY SentCopyInit
<1> QED BY <1>1, <1>2, <1>3, ReleaseTypeHolds, PTL DEF LanesSpec
-----------------------------------------------------------------------------
(* The shared mailbox.                                                     *)

\* A step of the lanes is one of the mailbox, or leaves it as it is.
LEMMA MailSteps == [LanesNext]_lanesVars => [Mail!MailNext]_(Mail!mailboxVars)
BY DEF LanesNext, lanesVars, weeklyVars, dailyVars, mailVars, Mail!mailboxVars, Appscan,
       DomainsActions, WeeklySurvey, QualysCalls, Synopses, SharedMailbox, WeeklyReport,
       OwnersMail, Digests, MessageBoard, Mailers, OwnersOnFile, ScannerCache

MailRecord == [kind : Mail!Kind, at : Mail!Place, age : 0 .. Mail!Oldest]
LogType == [Mails -> Mail!Entry \cup {NoRecord}]
DigestRecord == [pc : {"idle", "report", "record"}, read : SUBSET Mails]
WeeklyRecord == [pc : {"idle", "send", "commit"}, read : SUBSET Mails]
CleanupRecord == [pc : {"idle", "list", "move"}, known : [Mails -> Mail!Known \cup {NoRecord}],
                  owed : SUBSET Mails, archive : SUBSET Mails, delete : SUBSET Mails]

MailTypeInv ==
    /\ mails \in [Mails -> MailRecord]
    /\ digestLog \in LogType /\ scanLog \in LogType
    /\ digest \in DigestRecord /\ weekly \in WeeklyRecord /\ cleanup \in CleanupRecord
    /\ cleanup.archive \cap cleanup.delete = {}
    /\ reported \subseteq Mails /\ covered \subseteq Mails /\ recorded \subseteq Mails

Here(m) == mails[m].at # "outside"

\* The digest's log says of a mail what it is, once its report was written; and
\* does so for as long as the log keeps a record of the mail's age.
DigestInv ==
    /\ \A m \in digest.read : Here(m)
    /\ digest.pc = "record" => digest.read \subseteq reported
    /\ \A m \in Mails : digestLog[m] # NoRecord =>
          m \in reported /\ Here(m) /\ (digestLog[m].cve <=> mails[m].kind.cve)
    /\ \A m \in recorded :
          /\ Here(m) /\ mails[m].kind.cve
          /\ \/ mails[m].age >= Retain
             \/ digestLog[m] # NoRecord /\ digestLog[m].age <= mails[m].age

\* The weekly's log has only notices of a weekly that was mailed.
ScanInv ==
    /\ weekly.pc = "commit" => weekly.read \subseteq covered
    /\ \A m \in Mails : scanLog[m] # NoRecord => m \in covered

\* What the cleanup took from the logs stays true of the mails.
KnownInv ==
    /\ \A m \in Mails : cleanup.known[m] # NoRecord =>
          /\ cleanup.known[m].owner = "digest" => m \in reported /\ Here(m) /\ mails[m].kind.cve
          /\ cleanup.known[m].owner = "appscan" => m \in covered
    /\ \A m \in cleanup.owed :
          /\ Here(m)
          /\ \/ mails[m].age >= Retain
             \/ cleanup.known[m] # NoRecord /\ cleanup.known[m].cve

\* What no digest that starts now would read, unless there is no grace; and what
\* the cleanup may delete, though the digest's log had a CVE for it.
Unread(age) == MinAge = 0 \/ age >= Lookback
Deletable(r) == r.kind.auto = "header" \/ (Retain < Window /\ r.age >= Retain)

\* So does what it planned.
CleanupPlanInv ==
    /\ \A m \in cleanup.archive :
          /\ Here(m)
          /\ \/ mails[m].kind.from = "fleet"
             \/ Unread(mails[m].age)
                /\ (m \in covered \/ (m \in reported /\ mails[m].kind.cve))
    /\ \A m \in cleanup.delete :
          Here(m) /\ (m \in cleanup.owed => Deletable(mails[m]))

\* The configuration's limits, as numbers.
LEMMA MailFacts ==
    /\ Lookback \in Nat /\ ScanLookback \in Nat /\ MinAge \in Nat /\ SelfMinAge \in Nat
    /\ Window \in Nat /\ Retain \in Nat /\ (MinAge = 0 \/ Lookback <= MinAge)
    /\ Lookback # 0 /\ Window # 0 /\ Retain # 0
    /\ NoRecord \notin Mail!Entry /\ NoRecord \notin Mail!Known
    /\ Mail!Oldest \in Nat /\ Mail!Oldest >= Retain
<1>1. /\ Lookback \in Nat /\ ScanLookback \in Nat /\ MinAge \in Nat /\ SelfMinAge \in Nat
      /\ Window \in Nat /\ Retain \in Nat /\ (MinAge = 0 \/ Lookback <= MinAge)
      /\ Lookback # 0 /\ Window # 0 /\ Retain # 0
      /\ NoRecord \notin Mail!Entry /\ NoRecord \notin Mail!Known
  BY LanesAssumption DEF Mail!MailboxAssumption
<1> DEFINE limits == {Lookback, ScanLookback, Window, Retain}
<1>2. \E x \in limits : \A y \in limits : x >= y
  BY <1>1
<1>3. Mail!Oldest \in limits /\ \A y \in limits : Mail!Oldest >= y
  BY <1>2 DEF Mail!Oldest, Mail!Max
<1> QED BY <1>1, <1>3

\* The records of a process that is not there.
LEMMA MailRecords ==
    /\ Mail!NotReading \in DigestRecord /\ Mail!NotReading \in WeeklyRecord
    /\ Mail!NotReading.pc = "idle" /\ Mail!NotReading.read = {}
    /\ Mail!NotCleaning \in CleanupRecord
    /\ Mail!NotCleaning.archive = {} /\ Mail!NotCleaning.delete = {}
    /\ Mail!NotCleaning.owed = {} /\ \A m \in Mails : Mail!NotCleaning.known[m] = NoRecord
BY DEF Mail!NotReading, Mail!NotCleaning, DigestRecord, WeeklyRecord, CleanupRecord

LEMMA MailInit ==
    LanesInit => MailTypeInv /\ DigestInv /\ ScanInv /\ KnownInv /\ CleanupPlanInv
<1> SUFFICES ASSUME LanesInit
             PROVE  MailTypeInv /\ DigestInv /\ ScanInv /\ KnownInv /\ CleanupPlanInv
  OBVIOUS
<1>1. /\ mails = [m \in Mails |-> [kind |-> Mail!Ordinary, at |-> "outside", age |-> 0]]
      /\ digestLog = [m \in Mails |-> NoRecord] /\ scanLog = [m \in Mails |-> NoRecord]
      /\ digest = Mail!NotReading /\ weekly = Mail!NotReading /\ cleanup = Mail!NotCleaning
      /\ reported = {} /\ covered = {} /\ recorded = {}
  BY DEF LanesInit, Mail!MailInit
<1>2. [kind |-> Mail!Ordinary, at |-> "outside", age |-> 0] \in MailRecord
  BY MailFacts DEF MailRecord, Mail!Ordinary, Mail!Kind, Mail!Place
<1>3. MailTypeInv
  BY <1>1, <1>2, MailRecords DEF MailTypeInv, LogType
<1>4. DigestInv /\ ScanInv /\ KnownInv /\ CleanupPlanInv
  BY <1>1, MailRecords DEF DigestInv, ScanInv, KnownInv, CleanupPlanInv
<1> QED BY <1>3, <1>4

\* Record keeps a log's type: what this run saw is on it, and of the rest what
\* was there and is not too old.
LEMMA RecordIs ==
    ASSUME NEW log \in LogType, NEW seen, DOMAIN seen \subseteq Mails,
           \A m \in DOMAIN seen : seen[m] \in Mail!Entry
    PROVE  /\ Mail!Record(log, seen) \in LogType
           /\ \A m \in DOMAIN seen : Mail!Record(log, seen)[m] = seen[m]
           /\ \A m \in Mails \ DOMAIN seen :
                 \/ Mail!Record(log, seen)[m] = NoRecord
                    /\ (log[m] # NoRecord => log[m].age >= Retain)
                 \/ Mail!Record(log, seen)[m] = log[m]
<1>1. Mail!Record(log, seen) =
        [m \in Mails |-> IF m \in DOMAIN seen THEN seen[m]
                         ELSE IF log[m] # NoRecord /\ log[m].age < Retain THEN log[m]
                         ELSE NoRecord]
  BY DEF Mail!Record
<1>2. \A m \in Mails : log[m] \in Mail!Entry \cup {NoRecord}
  BY DEF LogType
<1>3. \A m \in Mails : log[m] # NoRecord => log[m].age \in Nat
  BY <1>2, MailFacts DEF Mail!Entry
<1>4. Mail!Record(log, seen) \in LogType
  BY <1>1, <1>2 DEF LogType
<1>5. \A m \in Mails \ DOMAIN seen :
         \/ Mail!Record(log, seen)[m] = NoRecord /\ (log[m] # NoRecord => log[m].age >= Retain)
         \/ Mail!Record(log, seen)[m] = log[m]
  BY <1>1, <1>3, MailFacts
<1> QED BY <1>1, <1>4, <1>5

\* Older: the same entries, a tick older up to the logs' retention.
LEMMA OlderIs ==
    ASSUME NEW log \in LogType
    PROVE  /\ Mail!Older(log) \in LogType
           /\ \A m \in Mails : log[m] = NoRecord => Mail!Older(log)[m] = NoRecord
           /\ \A m \in Mails : log[m] # NoRecord =>
                 /\ Mail!Older(log)[m] # NoRecord
                 /\ Mail!Older(log)[m].cve = log[m].cve
                 /\ Mail!Older(log)[m].age <= log[m].age + 1
<1>1. \A m \in Mails : log[m] \in Mail!Entry \cup {NoRecord}
  BY DEF LogType
<1>2. Mail!Older(log) = [m \in Mails |-> IF log[m] = NoRecord \/ log[m].age = Retain THEN log[m]
                                         ELSE [log[m] EXCEPT !.age = @ + 1]]
  BY DEF Mail!Older
<1>3. ASSUME NEW e \in Mail!Entry, e.age # Retain
      PROVE  /\ [e EXCEPT !.age = @ + 1] \in Mail!Entry
             /\ [e EXCEPT !.age = @ + 1].cve = e.cve
             /\ [e EXCEPT !.age = @ + 1].age = e.age + 1
  <2>1. e.age + 1 \in 0 .. Retain
    BY <1>3, MailFacts DEF Mail!Entry
  <2> QED BY <2>1 DEF Mail!Entry
<1>4. \A e \in Mail!Entry : e.age \in Nat
  BY MailFacts DEF Mail!Entry
<1>5. \A m \in Mails : log[m] = NoRecord => Mail!Older(log)[m] = NoRecord
  BY <1>2
<1>6. ASSUME NEW m \in Mails, log[m] # NoRecord
      PROVE  /\ Mail!Older(log)[m] \in Mail!Entry
             /\ Mail!Older(log)[m].cve = log[m].cve
             /\ Mail!Older(log)[m].age <= log[m].age + 1
  <2>1. log[m] \in Mail!Entry
    BY <1>1, <1>6
  <2>2. CASE log[m].age = Retain
    BY <1>2, <1>4, <1>6, <2>1, <2>2
  <2>3. CASE log[m].age # Retain
    <3>1. Mail!Older(log)[m] = [log[m] EXCEPT !.age = @ + 1]
      BY <1>2, <1>6, <2>3
    <3> QED BY <1>3, <1>4, <2>1, <2>3, <3>1
  <2> QED BY <2>2, <2>3
<1>7. Mail!Older(log) \in LogType
  <2>1. \A m \in Mails : Mail!Older(log)[m] \in Mail!Entry \cup {NoRecord}
    BY <1>5, <1>6
  <2> QED BY <1>2, <2>1 DEF LogType
<1> QED BY <1>5, <1>6, <1>7, MailFacts

\* A mail that arrived keeps its kind, stays in the mailbox's world, and ages.
MailsAge ==
    /\ mails' \in [Mails -> MailRecord]
    /\ \A m \in Mails : Here(m) =>
          /\ mails'[m].at # "outside" /\ mails'[m].kind = mails[m].kind
          /\ \/ mails'[m].age = mails[m].age
             \/ mails[m].age # Mail!Oldest /\ mails'[m].age = mails[m].age + 1
    /\ \A m \in Mails : mails'[m].at = "archive" /\ mails[m].at = "inbox" =>
          m \in cleanup.archive
    /\ \A m \in Mails : mails'[m].at = "deleted" /\ mails[m].at = "inbox" =>
          m \in cleanup.delete

LEMMA MailsStep == MailTypeInv /\ [Mail!MailNext]_(Mail!mailboxVars) => MailsAge
<1> SUFFICES ASSUME MailTypeInv, [Mail!MailNext]_(Mail!mailboxVars) PROVE MailsAge
  OBVIOUS
<1>0. mails \in [Mails -> MailRecord] /\ \A m \in Mails : mails[m] \in MailRecord
  BY DEF MailTypeInv
<1>1. CASE UNCHANGED mails
  <2>1. \A m \in Mails : mails'[m] = mails[m]
    BY <1>1
  <2>2. mails' \in [Mails -> MailRecord]
    BY <1>0, <1>1
  <2> QED BY <2>1, <2>2 DEF MailsAge, Here
<1>2. ASSUME NEW m \in Mails, NEW at \in Mail!Place \ {"outside"}, mails[m].at \in {"inbox", "archive"},
             mails' = [mails EXCEPT ![m].at = at],
             mails[m].at = "inbox" /\ at = "archive" => m \in cleanup.archive,
             mails[m].at = "inbox" /\ at = "deleted" => m \in cleanup.delete
      PROVE  MailsAge
  <2> DEFINE moved == [mails[m] EXCEPT !.at = at]
  <2>1. moved \in MailRecord /\ moved.at = at /\ moved.kind = mails[m].kind
        /\ moved.age = mails[m].age
    BY <1>0, <1>2 DEF MailRecord, Mail!Place
  <2>2. mails' = [mails EXCEPT ![m] = moved]
    BY <1>0, <1>2
  <2> HIDE DEF moved
  <2>3. \A n \in Mails : mails'[n] = IF n = m THEN moved ELSE mails[n]
    BY <1>0, <2>2
  <2>4. mails' \in [Mails -> MailRecord]
    BY <1>0, <2>1, <2>2
  <2>5. ASSUME NEW n \in Mails
        PROVE  /\ mails[n].at # "outside" => mails'[n].at # "outside"
               /\ mails'[n].kind = mails[n].kind /\ mails'[n].age = mails[n].age
               /\ mails'[n].at = "archive" /\ mails[n].at = "inbox" => n \in cleanup.archive
               /\ mails'[n].at = "deleted" /\ mails[n].at = "inbox" => n \in cleanup.delete
    <3>1. CASE n = m
      BY <1>2, <2>1, <2>3, <3>1
    <3>2. CASE n # m
      <4>1. mails'[n] = mails[n]
        BY <2>3, <3>2
      <4> QED BY <4>1
    <3> QED BY <3>1, <3>2
  <2> QED BY <2>4, <2>5 DEF MailsAge, Here
<1>3. ASSUME NEW m \in Mails, Mail!MoveMessage(m) PROVE MailsAge
  <2>1. CASE UNCHANGED mails
    BY <1>1, <2>1
  <2>2. CASE mails[m].at = "inbox" /\ m \in cleanup.archive
             /\ mails' = [mails EXCEPT ![m].at = "archive"]
    BY <1>2, <2>2 DEF Mail!Place
  <2>3. CASE mails[m].at = "inbox" /\ m \in cleanup.delete
             /\ mails' = [mails EXCEPT ![m].at = "deleted"]
    BY <1>2, <2>3 DEF Mail!Place
  <2> QED BY <1>3, <2>1, <2>2, <2>3 DEF Mail!MoveMessage
<1>4. ASSUME NEW m \in Mails, Mail!Filed(m) PROVE MailsAge
  <2>1. mails[m].at \in {"inbox", "archive"} /\ mails' = [mails EXCEPT ![m].at = "elsewhere"]
    BY <1>4 DEF Mail!Filed
  <2> QED BY <1>2, <2>1 DEF Mail!Place
<1>5. ASSUME NEW m \in Mails, Mail!Arrives(m) PROVE MailsAge
  <2>1. PICK kind \in Mail!Kind :
          mails' = [mails EXCEPT ![m] = [kind |-> kind, at |-> "inbox", age |-> 0]]
    BY <1>5 DEF Mail!Arrives
  <2>2. mails[m].at = "outside"
    BY <1>5 DEF Mail!Arrives
  <2> DEFINE arrived == [kind |-> kind, at |-> "inbox", age |-> 0]
  <2>3. arrived \in MailRecord /\ arrived.at = "inbox"
    BY MailFacts DEF MailRecord, Mail!Place
  <2>4. mails' = [mails EXCEPT ![m] = arrived]
    BY <2>1
  <2> HIDE DEF arrived
  <2>5. mails' \in [Mails -> MailRecord] /\ mails'[m] = arrived
        /\ \A n \in Mails \ {m} : mails'[n] = mails[n]
    BY <1>0, <2>3, <2>4
  <2>6. \A n \in Mails : \/ mails'[n] = mails[n]
                         \/ mails[n].at = "outside" /\ mails'[n].at = "inbox"
    <3>1. mails[m].at = "outside" /\ mails'[m].at = "inbox"
      BY <2>2, <2>3, <2>5
    <3> QED BY <2>5, <3>1
  <2>7. \A n \in Mails : mails[n].at # "outside" => mails'[n] = mails[n]
    BY <2>6
  <2> QED BY <2>5, <2>6, <2>7 DEF MailsAge, Here
<1>6. CASE Mail!Tick
  <2>1. mails' = [m \in Mails |-> IF mails[m].at = "outside" \/ mails[m].age = Mail!Oldest
                                  THEN mails[m] ELSE [mails[m] EXCEPT !.age = @ + 1]]
    BY <1>6 DEF Mail!Tick
  <2>2. ASSUME NEW r \in MailRecord, r.age # Mail!Oldest
        PROVE  /\ [r EXCEPT !.age = @ + 1] \in MailRecord
               /\ [r EXCEPT !.age = @ + 1].age = r.age + 1
               /\ [r EXCEPT !.age = @ + 1].at = r.at
               /\ [r EXCEPT !.age = @ + 1].kind = r.kind
    <3>1. r.age + 1 \in 0 .. Mail!Oldest
      BY <2>2, MailFacts DEF MailRecord
    <3> QED BY <3>1 DEF MailRecord
  <2>3. ASSUME NEW m \in Mails
        PROVE  /\ mails'[m] \in MailRecord
               /\ mails'[m].at = mails[m].at /\ mails'[m].kind = mails[m].kind
               /\ \/ mails'[m].age = mails[m].age
                  \/ mails[m].age # Mail!Oldest /\ mails'[m].age = mails[m].age + 1
    <3>1. CASE mails[m].at = "outside" \/ mails[m].age = Mail!Oldest
      <4>1. mails'[m] = mails[m]
        BY <2>1, <3>1
      <4> QED BY <1>0, <4>1
    <3>2. CASE ~(mails[m].at = "outside" \/ mails[m].age = Mail!Oldest)
      <4>1. mails'[m] = [mails[m] EXCEPT !.age = @ + 1]
        BY <2>1, <3>2
      <4> QED BY <1>0, <2>2, <3>2, <4>1
    <3> QED BY <3>1, <3>2
  <2>4. mails' \in [Mails -> MailRecord]
    BY <2>1, <2>3
  <2> QED BY <2>3, <2>4 DEF MailsAge, Here
<1>7. CASE \/ Mail!DigestReads \/ Mail!WritesReport \/ Mail!RecordsMail \/ Mail!DigestEnds
           \/ Mail!WeeklyReads \/ Mail!MailsWeekly \/ Mail!CommitSeen \/ Mail!WeeklyEnds
           \/ Mail!LoadLogs \/ Mail!ListInbox \/ Mail!CleanupEnds \/ UNCHANGED Mail!mailboxVars
  BY <1>1, <1>7 DEF Mail!DigestReads, Mail!WritesReport, Mail!RecordsMail, Mail!DigestEnds,
     Mail!WeeklyReads, Mail!MailsWeekly, Mail!CommitSeen, Mail!WeeklyEnds, Mail!LoadLogs,
     Mail!ListInbox, Mail!CleanupEnds, Mail!mailboxVars, Mail!MailboxStays
<1> QED BY <1>3, <1>4, <1>5, <1>6, <1>7 DEF Mail!MailNext

\* The digest's actions and the clock: what its log says, and what it recorded.
LEMMA DigestStep ==
    ASSUME MailTypeInv, DigestInv, MailsAge, [Mail!MailNext]_(Mail!mailboxVars)
    PROVE  /\ digestLog' \in LogType /\ digest' \in DigestRecord
           /\ reported \subseteq reported' /\ reported' \subseteq Mails /\ recorded' \subseteq Mails
           /\ DigestInv'
<1> DEFINE Goal ==
      /\ digestLog' \in LogType /\ digest' \in DigestRecord
      /\ reported \subseteq reported' /\ reported' \subseteq Mails /\ recorded' \subseteq Mails
      /\ DigestInv'
<1>0. /\ digestLog \in LogType /\ digest \in DigestRecord /\ digest.read \subseteq Mails
      /\ reported \subseteq Mails /\ recorded \subseteq Mails
      /\ mails \in [Mails -> MailRecord] /\ mails' \in [Mails -> MailRecord]
  BY DEF MailTypeInv, DigestRecord, MailsAge
<1>a. \A m \in Mails : Here(m) =>
          /\ Here(m)' /\ (mails'[m].kind.cve <=> mails[m].kind.cve)
          /\ mails'[m].age \in Nat /\ mails[m].age \in Nat /\ mails'[m].age >= mails[m].age
          /\ mails[m].age >= Retain => mails'[m].age >= Retain
  <2>1. \A m \in Mails : mails[m].age \in Nat /\ mails'[m].age \in Nat
    BY <1>0, MailFacts DEF MailRecord
  <2> QED BY <2>1, MailFacts DEF MailsAge, Here
<1>1. ASSUME UNCHANGED <<digestLog, recorded>>, digest' \in DigestRecord,
             reported \subseteq reported', reported' \subseteq Mails,
             digest'.read \subseteq Mails, \A m \in digest'.read : Here(m),
             digest'.pc = "record" => digest'.read \subseteq reported'
      PROVE  Goal
  <2>1. \A m \in digest'.read : Here(m)'
    BY <1>1, <1>a
  <2>2. \A m \in Mails : digestLog'[m] # NoRecord =>
          m \in reported' /\ Here(m)' /\ (digestLog'[m].cve <=> mails'[m].kind.cve)
    BY <1>1, <1>a DEF DigestInv
  <2>3. ASSUME NEW m \in recorded
        PROVE  /\ Here(m)' /\ mails'[m].kind.cve
               /\ \/ mails'[m].age >= Retain
                  \/ digestLog[m] # NoRecord /\ digestLog[m].age <= mails'[m].age
    <3>1. m \in Mails /\ Here(m) /\ mails[m].kind.cve
      BY <1>0 DEF DigestInv
    <3>2. digestLog[m] # NoRecord => digestLog[m].age \in Nat
      BY <1>0, <3>1, MailFacts DEF LogType, Mail!Entry
    <3> QED BY <1>a, <3>1, <3>2 DEF DigestInv
  <2>4. DigestInv'
    BY <1>1, <2>1, <2>2, <2>3 DEF DigestInv
  <2> QED BY <1>0, <1>1, <2>4
<1>2. CASE Mail!DigestReads
  <2> DEFINE read == {m \in Mail!Inbox : /\ mails[m].age < Lookback
                                         /\ mails[m].kind.from \notin {"fleet", "skipped"}}
  <2>1. digest' = [pc |-> "report", read |-> read]
    BY <1>2 DEF Mail!DigestReads
  <2>2. read \subseteq Mails /\ \A m \in read : Here(m)
    BY DEF Mail!Inbox, Here
  <2> HIDE DEF read
  <2>3. digest' \in DigestRecord /\ digest'.pc = "report" /\ digest'.read = read
    BY <2>1, <2>2 DEF DigestRecord
  <2>4. UNCHANGED <<digestLog, recorded, reported>>
    BY <1>2 DEF Mail!DigestReads
  <2> QED BY <1>0, <1>1, <2>2, <2>3, <2>4
<1>3. CASE Mail!WritesReport
  <2>1. reported' = reported \cup digest.read /\ digest' = [digest EXCEPT !.pc = "record"]
        /\ UNCHANGED <<digestLog, recorded>>
    BY <1>3 DEF Mail!WritesReport
  <2>2. digest' \in DigestRecord /\ digest'.read = digest.read
    BY <1>0, <2>1 DEF DigestRecord
  <2>3. \A m \in digest.read : Here(m)
    BY DEF DigestInv
  <2> QED BY <1>0, <1>1, <2>1, <2>2, <2>3
<1>4. CASE Mail!DigestEnds
  <2>1. digest' = Mail!NotReading /\ UNCHANGED <<digestLog, recorded, reported>>
    BY <1>4 DEF Mail!DigestEnds
  <2> QED BY <1>0, <1>1, <2>1, MailRecords
<1>5. CASE UNCHANGED <<digestLog, recorded, reported, digest>>
  <2>1. \A m \in digest.read : Here(m)
    BY DEF DigestInv
  <2>2. digest.pc = "record" => digest.read \subseteq reported
    BY DEF DigestInv
  <2> QED BY <1>0, <1>1, <1>5, <2>1, <2>2
<1>6. CASE Mail!RecordsMail
  <2> DEFINE seen == [m \in digest.read |-> [cve |-> mails[m].kind.cve, age |-> 0]]
             log == Mail!Record(digestLog, seen)
  <2>1. /\ digestLog' = log /\ recorded' = recorded \cup {m \in digest.read : mails[m].kind.cve}
        /\ digest' = Mail!NotReading /\ digest.pc = "record" /\ UNCHANGED <<mails, reported>>
    BY <1>6 DEF Mail!RecordsMail, Mail!MailboxStays
  <2>2. \A m \in digest.read : seen[m] \in Mail!Entry /\ (seen[m].cve <=> mails[m].kind.cve)
                               /\ seen[m].age = 0
    <3>1. \A m \in digest.read : mails[m].kind.cve \in BOOLEAN
      BY <1>0 DEF MailRecord, Mail!Kind
    <3> QED BY <3>1, MailFacts DEF Mail!Entry
  <2>3. DOMAIN seen = digest.read
    OBVIOUS
  <2> HIDE DEF seen
  <2>4. /\ log \in LogType /\ \A m \in digest.read : log[m] = seen[m]
        /\ \A m \in Mails \ digest.read :
              \/ log[m] = NoRecord /\ (digestLog[m] # NoRecord => digestLog[m].age >= Retain)
              \/ log[m] = digestLog[m]
    BY <1>0, <2>2, <2>3, RecordIs
  <2> HIDE DEF log
  <2>5. digest.read \subseteq reported /\ \A m \in digest.read : Here(m)
    BY <2>1 DEF DigestInv
  <2>6. ASSUME NEW m \in Mails, log[m] # NoRecord
        PROVE  m \in reported /\ Here(m) /\ (log[m].cve <=> mails[m].kind.cve)
    <3>1. CASE m \in digest.read
      BY <2>2, <2>4, <2>5, <3>1
    <3>2. CASE m \notin digest.read
      BY <2>4, <2>6, <3>2 DEF DigestInv
    <3> QED BY <3>1, <3>2
  <2>7. ASSUME NEW m \in recorded'
        PROVE  /\ Here(m) /\ mails[m].kind.cve
               /\ mails[m].age >= Retain \/ (log[m] # NoRecord /\ log[m].age <= mails[m].age)
    <3>0. m \in Mails /\ mails[m].age \in Nat
      BY <1>0, <2>1, MailFacts DEF MailRecord
    <3>1. CASE m \in digest.read
      <4>1. log[m] \in Mail!Entry /\ log[m].age = 0 /\ (log[m].cve <=> mails[m].kind.cve)
        BY <2>2, <2>4, <3>1
      <4>2. mails[m].kind.cve
        BY <2>1, <3>1 DEF DigestInv
      <4> QED BY <2>5, <3>0, <3>1, <4>1, <4>2, MailFacts
    <3>2. CASE m \notin digest.read
      <4>1. m \in recorded
        BY <2>1, <3>2
      <4>2. /\ Here(m) /\ mails[m].kind.cve
            /\ mails[m].age >= Retain \/ (digestLog[m] # NoRecord /\ digestLog[m].age <= mails[m].age)
        BY <4>1 DEF DigestInv
      <4>3. digestLog[m] # NoRecord => digestLog[m].age \in Nat
        BY <1>0, <3>0, MailFacts DEF LogType, Mail!Entry
      <4> QED BY <2>4, <3>0, <3>2, <4>2, <4>3, MailFacts
    <3> QED BY <3>1, <3>2
  <2>8. DigestInv'
    BY <2>1, <2>6, <2>7, MailRecords DEF DigestInv, Here
  <2> QED BY <1>0, <2>1, <2>4, <2>8, MailRecords
<1>7. CASE Mail!Tick
  <2> DEFINE log == Mail!Older(digestLog)
  <2>1. digestLog' = log /\ UNCHANGED <<digest, reported, recorded>>
        /\ mails' = [m \in Mails |-> IF mails[m].at = "outside" \/ mails[m].age = Mail!Oldest
                                     THEN mails[m] ELSE [mails[m] EXCEPT !.age = @ + 1]]
    BY <1>7 DEF Mail!Tick
  <2>2. /\ log \in LogType
        /\ \A m \in Mails : digestLog[m] = NoRecord => log[m] = NoRecord
        /\ \A m \in Mails : digestLog[m] # NoRecord =>
              log[m] # NoRecord /\ log[m].cve = digestLog[m].cve /\ log[m].age <= digestLog[m].age + 1
    BY <1>0, OlderIs
  <2> HIDE DEF log
  <2>3. \A m \in digest.read : Here(m)'
    BY <1>0, <1>a DEF DigestInv
  <2>4. \A m \in Mails : log[m] # NoRecord =>
          m \in reported /\ Here(m)' /\ (log[m].cve <=> mails'[m].kind.cve)
    BY <1>a, <2>2 DEF DigestInv
  <2>5. ASSUME NEW m \in recorded
        PROVE  /\ Here(m)' /\ mails'[m].kind.cve
               /\ mails'[m].age >= Retain \/ (log[m] # NoRecord /\ log[m].age <= mails'[m].age)
    <3>1. m \in Mails /\ Here(m) /\ mails[m].kind.cve
          /\ (mails[m].age >= Retain \/ (digestLog[m] # NoRecord /\ digestLog[m].age <= mails[m].age))
      BY <1>0 DEF DigestInv
    <3>2. mails[m] \in MailRecord
      BY <1>0, <3>1
    <3>3. mails[m].age # Mail!Oldest => mails'[m].age = mails[m].age + 1
      BY <2>1, <3>1, <3>2 DEF Here, MailRecord
    <3>4. digestLog[m] # NoRecord => digestLog[m].age \in Nat /\ log[m].age \in Nat
      BY <1>0, <2>2, <3>1, MailFacts DEF LogType, Mail!Entry
    <3>5. mails[m].age < Retain => mails[m].age # Mail!Oldest
      BY MailFacts
    <3> QED BY <1>a, <2>2, <3>1, <3>3, <3>4, <3>5, MailFacts
  <2>6. DigestInv'
    BY <2>1, <2>3, <2>4, <2>5 DEF DigestInv
  <2> QED BY <1>0, <2>1, <2>2, <2>6
<1>8. CASE \/ Mail!WeeklyReads \/ Mail!MailsWeekly \/ Mail!CommitSeen \/ Mail!WeeklyEnds
           \/ Mail!LoadLogs \/ Mail!ListInbox \/ Mail!CleanupEnds
           \/ UNCHANGED Mail!mailboxVars
  BY <1>5, <1>8 DEF Mail!WeeklyReads, Mail!MailsWeekly, Mail!CommitSeen, Mail!WeeklyEnds,
     Mail!LoadLogs, Mail!ListInbox, Mail!CleanupEnds, Mail!mailboxVars
<1>9. CASE \E m \in Mails : Mail!MoveMessage(m) \/ Mail!Arrives(m) \/ Mail!Filed(m)
  BY <1>5, <1>9 DEF Mail!MoveMessage, Mail!Arrives, Mail!Filed
<1> QED BY <1>2, <1>3, <1>4, <1>6, <1>7, <1>8, <1>9 DEF Mail!MailNext

\* The weekly's actions and the clock: what its log says was mailed.
LEMMA ScanStep ==
    ASSUME MailTypeInv, ScanInv, [Mail!MailNext]_(Mail!mailboxVars)
    PROVE  /\ scanLog' \in LogType /\ weekly' \in WeeklyRecord
           /\ covered \subseteq covered' /\ covered' \subseteq Mails
           /\ ScanInv'
<1>0. /\ scanLog \in LogType /\ weekly \in WeeklyRecord /\ weekly.read \subseteq Mails
      /\ covered \subseteq Mails
  BY DEF MailTypeInv, WeeklyRecord
<1>1. CASE UNCHANGED <<scanLog, weekly, covered>>
  BY <1>0, <1>1 DEF ScanInv
<1>2. CASE Mail!WeeklyReads
  <2>1. PICK read \in SUBSET {m \in Mail!Inbox : mails[m].kind.from = "scanner"
                                                /\ mails[m].age < ScanLookback} :
          weekly' = [pc |-> "send", read |-> read]
    BY <1>2 DEF Mail!WeeklyReads
  <2>2. weekly' \in WeeklyRecord /\ weekly'.pc = "send"
    BY <2>1 DEF WeeklyRecord, Mail!Inbox
  <2> QED BY <1>0, <1>2, <2>2 DEF ScanInv, Mail!WeeklyReads
<1>3. CASE Mail!MailsWeekly
  <2>1. covered' = covered \cup weekly.read /\ weekly' = [weekly EXCEPT !.pc = "commit"]
        /\ UNCHANGED scanLog
    BY <1>3 DEF Mail!MailsWeekly
  <2>2. weekly' \in WeeklyRecord /\ weekly'.read = weekly.read
    BY <1>0, <2>1 DEF WeeklyRecord
  <2> QED BY <1>0, <2>1, <2>2 DEF ScanInv
<1>4. CASE Mail!CommitSeen
  <2> DEFINE seen == [m \in weekly.read |-> [cve |-> FALSE, age |-> 0]]
             log == Mail!Record(scanLog, seen)
  <2>1. scanLog' = log /\ weekly' = Mail!NotReading /\ UNCHANGED covered /\ weekly.pc = "commit"
    BY <1>4 DEF Mail!CommitSeen
  <2>2. \A m \in weekly.read : seen[m] \in Mail!Entry
    BY MailFacts DEF Mail!Entry
  <2>3. DOMAIN seen = weekly.read
    OBVIOUS
  <2> HIDE DEF seen
  <2>4. log \in LogType /\ \A m \in Mails \ weekly.read : log[m] = NoRecord \/ log[m] = scanLog[m]
    BY <1>0, <2>2, <2>3, RecordIs
  <2> HIDE DEF log
  <2>5. \A m \in Mails : log[m] # NoRecord => m \in covered
    BY <2>1, <2>4 DEF ScanInv
  <2> QED BY <1>0, <2>1, <2>4, <2>5, MailRecords DEF ScanInv
<1>5. CASE Mail!WeeklyEnds
  <2>1. weekly' = Mail!NotReading /\ UNCHANGED <<scanLog, covered>>
    BY <1>5 DEF Mail!WeeklyEnds
  <2> QED BY <1>0, <2>1, MailRecords DEF ScanInv
<1>6. CASE Mail!Tick
  <2> DEFINE log == Mail!Older(scanLog)
  <2>1. scanLog' = log /\ UNCHANGED <<weekly, covered>>
    BY <1>6 DEF Mail!Tick
  <2>2. log \in LogType /\ \A m \in Mails : scanLog[m] = NoRecord => log[m] = NoRecord
    BY <1>0, OlderIs
  <2> HIDE DEF log
  <2> QED BY <1>0, <2>1, <2>2 DEF ScanInv
<1>7. CASE \/ Mail!DigestReads \/ Mail!WritesReport \/ Mail!RecordsMail \/ Mail!DigestEnds
           \/ Mail!LoadLogs \/ Mail!ListInbox \/ Mail!CleanupEnds \/ UNCHANGED Mail!mailboxVars
  BY <1>1, <1>7 DEF Mail!DigestReads, Mail!WritesReport, Mail!RecordsMail, Mail!DigestEnds,
     Mail!LoadLogs, Mail!ListInbox, Mail!CleanupEnds, Mail!mailboxVars
<1>8. CASE \E m \in Mails : Mail!MoveMessage(m) \/ Mail!Arrives(m) \/ Mail!Filed(m)
  BY <1>1, <1>8 DEF Mail!MoveMessage, Mail!Arrives, Mail!Filed
<1> QED BY <1>2, <1>3, <1>4, <1>5, <1>6, <1>7, <1>8 DEF Mail!MailNext

\* Merge: a mail is the digest's for a CVE on its log, the weekly's for a claim
\* on the other, and is known to the first for as long as the log holds it.
LEMMA MergeIs ==
    ASSUME MailTypeInv, DigestInv, ScanInv, NEW m \in Mails
    PROVE  /\ Mail!Merge(m) \in Mail!Known \cup {NoRecord}
           /\ Mail!Merge(m) # NoRecord =>
                 /\ Mail!Merge(m).owner = "digest" => m \in reported /\ Here(m) /\ mails[m].kind.cve
                 /\ Mail!Merge(m).owner = "appscan" => m \in covered
           /\ digestLog[m] # NoRecord /\ digestLog[m].cve =>
                 Mail!Merge(m) # NoRecord /\ Mail!Merge(m).cve
<1> DEFINE claimed == scanLog[m] # NoRecord /\ scanLog[m].age < Retain
           cve == digestLog[m] # NoRecord /\ digestLog[m].cve
           owner == IF claimed THEN "appscan" ELSE IF cve THEN "digest" ELSE "none"
           entry == [cve |-> cve, owner |-> owner]
<1>1. Mail!Merge(m) = IF digestLog[m] = NoRecord /\ ~claimed THEN NoRecord ELSE entry
  BY DEF Mail!Merge
<1>2. cve \in BOOLEAN
  OBVIOUS
<1>3. entry \in Mail!Known /\ entry.owner = owner /\ (entry.cve <=> cve)
  BY <1>2 DEF Mail!Known
<1>4. entry # NoRecord
  BY <1>3, MailFacts
<1>5. claimed => m \in covered
  BY DEF ScanInv
<1>6. cve => m \in reported /\ Here(m) /\ mails[m].kind.cve
  BY DEF DigestInv
<1> HIDE DEF entry
<1> QED BY <1>1, <1>3, <1>4, <1>5, <1>6

\* The cleanup's actions: what it knows and plans is true of the mails, and stays
\* so while they age and the other two lanes go on.
LEMMA CleanupStep ==
    ASSUME MailTypeInv, DigestInv, ScanInv, KnownInv, CleanupPlanInv, MailsAge,
           reported \subseteq reported', covered \subseteq covered',
           [Mail!MailNext]_(Mail!mailboxVars)
    PROVE  /\ cleanup' \in CleanupRecord /\ cleanup'.archive \cap cleanup'.delete = {}
           /\ KnownInv' /\ CleanupPlanInv'
<1> DEFINE Goal ==
      /\ cleanup' \in CleanupRecord /\ cleanup'.archive \cap cleanup'.delete = {}
      /\ KnownInv' /\ CleanupPlanInv'
<1>0. /\ cleanup \in CleanupRecord /\ cleanup.archive \cap cleanup.delete = {}
      /\ mails \in [Mails -> MailRecord] /\ mails' \in [Mails -> MailRecord]
      /\ recorded \subseteq Mails
  BY DEF MailTypeInv, MailsAge
<1>a. \A m \in Mails : Here(m) =>
          /\ Here(m)' /\ mails'[m].kind = mails[m].kind
          /\ mails'[m].age \in Nat /\ mails[m].age \in Nat /\ mails'[m].age >= mails[m].age
          /\ mails[m].age >= Retain => mails'[m].age >= Retain
  <2>1. \A m \in Mails : mails[m].age \in Nat /\ mails'[m].age \in Nat
    BY <1>0, MailFacts DEF MailRecord
  <2> QED BY <2>1, MailFacts DEF MailsAge, Here
<1>1. ASSUME NEW m \in Mails, Here(m)
      PROVE  /\ Unread(mails[m].age) => Unread(mails'[m].age)
             /\ Deletable(mails[m]) => Deletable(mails'[m])
  <2>1. mails'[m].age \in Nat /\ mails[m].age \in Nat /\ mails'[m].age >= mails[m].age
        /\ mails'[m].kind = mails[m].kind
    BY <1>a, <1>1
  <2> QED BY <2>1, MailFacts DEF Unread, Deletable
<1>2. ASSUME cleanup' \in CleanupRecord, cleanup'.known = cleanup.known,
             cleanup'.owed = cleanup.owed
      PROVE  KnownInv'
  <2>1. cleanup.owed \subseteq Mails
    BY <1>0 DEF CleanupRecord
  <2>2. ASSUME NEW m \in Mails, cleanup.known[m] # NoRecord
        PROVE  /\ cleanup.known[m].owner = "digest" =>
                     m \in reported' /\ Here(m)' /\ mails'[m].kind.cve
               /\ cleanup.known[m].owner = "appscan" => m \in covered'
    BY <1>a, <2>2 DEF KnownInv
  <2>3. ASSUME NEW m \in cleanup.owed
        PROVE  Here(m)' /\ (mails'[m].age >= Retain
                            \/ (cleanup.known[m] # NoRecord /\ cleanup.known[m].cve))
    BY <1>a, <2>1 DEF KnownInv
  <2> QED BY <1>2, <2>2, <2>3 DEF KnownInv
<1>3. ASSUME cleanup'.archive \subseteq cleanup.archive, cleanup'.delete \subseteq cleanup.delete,
             cleanup'.owed = cleanup.owed
      PROVE  CleanupPlanInv'
  <2>1. cleanup.archive \subseteq Mails /\ cleanup.delete \subseteq Mails
    BY <1>0 DEF CleanupRecord
  <2>2. ASSUME NEW m \in cleanup.archive
        PROVE  /\ Here(m)'
               /\ \/ mails'[m].kind.from = "fleet"
                  \/ Unread(mails'[m].age)
                     /\ (m \in covered' \/ (m \in reported' /\ mails'[m].kind.cve))
    <3>1. /\ Here(m)
          /\ \/ mails[m].kind.from = "fleet"
             \/ Unread(mails[m].age)
                /\ (m \in covered \/ (m \in reported /\ mails[m].kind.cve))
      BY DEF CleanupPlanInv
    <3> QED BY <1>a, <1>1, <2>1, <3>1
  <2>3. ASSUME NEW m \in cleanup.delete
        PROVE  Here(m)' /\ (m \in cleanup.owed => Deletable(mails'[m]))
    BY <1>a, <1>1, <2>1 DEF CleanupPlanInv
  <2> QED BY <1>3, <2>2, <2>3 DEF CleanupPlanInv, Deletable, Unread
<1>4. CASE UNCHANGED cleanup
  BY <1>0, <1>2, <1>3, <1>4
<1>5. CASE Mail!LoadLogs
  <2> DEFINE known == [m \in Mails |-> Mail!Merge(m)]
  <2>1. /\ cleanup' = [Mail!NotCleaning EXCEPT !.pc = "list", !.owed = recorded, !.known = known]
        /\ UNCHANGED <<mails, digestLog, scanLog, reported, covered, recorded>>
    BY <1>5 DEF Mail!LoadLogs
  <2>2. \A m \in Mails : known[m] = Mail!Merge(m)
    OBVIOUS
  <2>3. known \in [Mails -> Mail!Known \cup {NoRecord}]
    BY MergeIs
  <2> HIDE DEF known
  <2>4. /\ cleanup' \in CleanupRecord /\ cleanup'.known = known /\ cleanup'.owed = recorded
        /\ cleanup'.archive = {} /\ cleanup'.delete = {}
    BY <1>0, <2>1, <2>3, MailRecords DEF CleanupRecord
  <2>5. ASSUME NEW m \in Mails, known[m] # NoRecord
        PROVE  /\ known[m].owner = "digest" => m \in reported /\ Here(m) /\ mails[m].kind.cve
               /\ known[m].owner = "appscan" => m \in covered
    BY <2>2, <2>5, MergeIs
  <2>6. ASSUME NEW m \in recorded
        PROVE  Here(m) /\ (mails[m].age >= Retain \/ (known[m] # NoRecord /\ known[m].cve))
    <3>1. /\ Here(m) /\ mails[m].kind.cve
          /\ mails[m].age >= Retain \/ digestLog[m] # NoRecord
      BY DEF DigestInv
    <3>2. digestLog[m] # NoRecord => digestLog[m].cve
      BY <1>0, <3>1 DEF DigestInv
    <3> QED BY <1>0, <2>2, <3>1, <3>2, MergeIs
  <2>7. KnownInv'
    BY <2>1, <2>4, <2>5, <2>6 DEF KnownInv, Here
  <2>8. CleanupPlanInv'
    BY <2>4 DEF CleanupPlanInv
  <2> QED BY <2>4, <2>7, <2>8
<1>6. CASE Mail!ListInbox
  <2>1. PICK hold \in BOOLEAN :
          cleanup' = [cleanup EXCEPT !.pc = "move",
            !.archive = {m \in {n \in Mail!Inbox : mails[n].age < Window} :
                           Mail!Plan(mails[m], cleanup.known[m], hold) = "archive"},
            !.delete = {m \in {n \in Mail!Inbox : mails[n].age < Window} :
                          Mail!Plan(mails[m], cleanup.known[m], hold) = "delete"}]
    BY <1>6, Zenon DEF Mail!ListInbox
  <2> DEFINE seen == {n \in Mail!Inbox : mails[n].age < Window}
             To(what) == {m \in seen : Mail!Plan(mails[m], cleanup.known[m], hold) = what}
  <2>2. seen \subseteq Mails /\ \A m \in seen : Here(m) /\ mails[m].age < Window
    BY DEF Mail!Inbox, Here
  <2>3. cleanup' = [cleanup EXCEPT !.pc = "move", !.archive = To("archive"), !.delete = To("delete")]
    BY <2>1
  <2> HIDE DEF seen
  <2>4. To("archive") \subseteq Mails /\ To("delete") \subseteq Mails
        /\ To("archive") \cap To("delete") = {}
    BY <2>2
  <2>5. /\ cleanup' \in CleanupRecord /\ cleanup'.known = cleanup.known
        /\ cleanup'.owed = cleanup.owed
        /\ cleanup'.archive = To("archive") /\ cleanup'.delete = To("delete")
    <3> HIDE DEF To
    <3> QED BY <1>0, <2>3, <2>4 DEF CleanupRecord
  <2>6. UNCHANGED <<mails, reported, covered>>
    BY <1>6 DEF Mail!ListInbox
  <2>7. ASSUME NEW m \in To("archive")
        PROVE  /\ Here(m)
               /\ \/ mails[m].kind.from = "fleet"
                  \/ Unread(mails[m].age)
                     /\ (m \in covered \/ (m \in reported /\ mails[m].kind.cve))
    <3>1. /\ m \in Mails /\ Here(m) /\ mails[m] \in MailRecord
          /\ cleanup.known[m] \in Mail!Known \cup {NoRecord}
      BY <1>0, <2>2 DEF CleanupRecord
    <3>2. mails[m].kind.from = "fleet" \/
             (cleanup.known[m] # NoRecord /\ cleanup.known[m].owner # "none"
              /\ ~(mails[m].age < MinAge))
      BY DEF Mail!Plan
    <3>3. ASSUME cleanup.known[m] # NoRecord, cleanup.known[m].owner # "none"
          PROVE  m \in covered \/ (m \in reported /\ mails[m].kind.cve)
      BY <3>1, <3>3 DEF Mail!Known, KnownInv
    <3>4. ~(mails[m].age < MinAge) => Unread(mails[m].age)
      BY <3>1, MailFacts DEF MailRecord, Unread
    <3> QED BY <3>1, <3>2, <3>3, <3>4
  <2>8. ASSUME NEW m \in To("delete")
        PROVE  Here(m) /\ (m \in cleanup.owed => Deletable(mails[m]))
    <3>0. m \in Mails /\ Here(m) /\ mails[m].age < Window /\ mails[m].age \in Nat
      BY <1>0, <2>2, MailFacts DEF MailRecord
    <3>1. mails[m].age >= Retain => Retain < Window
      BY <3>0, MailFacts
    <3>2. mails[m].kind.auto = "header" \/ cleanup.known[m] = NoRecord \/ ~cleanup.known[m].cve
      BY DEF Mail!Plan
    <3> QED BY <3>0, <3>1, <3>2 DEF KnownInv, Deletable
  <2>9. CleanupPlanInv'
    <3>1. \A m \in cleanup'.archive :
            /\ Here(m)
            /\ \/ mails[m].kind.from = "fleet"
               \/ Unread(mails[m].age)
                  /\ (m \in covered \/ (m \in reported /\ mails[m].kind.cve))
      BY <2>5, <2>7
    <3>2. \A m \in cleanup'.delete :
            Here(m) /\ (m \in cleanup'.owed => Deletable(mails[m]))
      BY <2>5, <2>8
    <3> QED BY <2>6, <3>1, <3>2 DEF CleanupPlanInv, Here, Deletable, Unread
  <2> QED BY <1>2, <2>4, <2>5, <2>9
<1>7. ASSUME NEW m \in Mails, Mail!MoveMessage(m) PROVE Goal
  <2>1. cleanup' = [cleanup EXCEPT !.archive = cleanup.archive \ {m},
                                   !.delete = cleanup.delete \ {m}]
    BY <1>7 DEF Mail!MoveMessage
  <2>2. /\ cleanup' \in CleanupRecord /\ cleanup'.known = cleanup.known
        /\ cleanup'.owed = cleanup.owed
        /\ cleanup'.archive = cleanup.archive \ {m} /\ cleanup'.delete = cleanup.delete \ {m}
    BY <1>0, <2>1 DEF CleanupRecord
  <2> QED BY <1>0, <1>2, <1>3, <2>2
<1>8. CASE Mail!CleanupEnds
  <2>1. cleanup' = Mail!NotCleaning
    BY <1>8 DEF Mail!CleanupEnds
  <2>2. KnownInv' /\ CleanupPlanInv'
    BY <2>1, MailRecords DEF KnownInv, CleanupPlanInv
  <2> QED BY <2>1, <2>2, MailRecords
<1>9. CASE \/ Mail!DigestReads \/ Mail!WritesReport \/ Mail!RecordsMail \/ Mail!DigestEnds
           \/ Mail!WeeklyReads \/ Mail!MailsWeekly \/ Mail!CommitSeen \/ Mail!WeeklyEnds
           \/ Mail!Tick \/ UNCHANGED Mail!mailboxVars
  BY <1>4, <1>9 DEF Mail!DigestReads, Mail!WritesReport, Mail!RecordsMail, Mail!DigestEnds,
     Mail!WeeklyReads, Mail!MailsWeekly, Mail!CommitSeen, Mail!WeeklyEnds, Mail!Tick,
     Mail!mailboxVars, Mail!MailboxStays
<1>10. ASSUME NEW m \in Mails, Mail!Arrives(m) \/ Mail!Filed(m) PROVE Goal
  BY <1>4, <1>10 DEF Mail!Arrives, Mail!Filed
<1> QED BY <1>5, <1>6, <1>7, <1>8, <1>9, <1>10 DEF Mail!MailNext

MailInv == MailTypeInv /\ DigestInv /\ ScanInv /\ KnownInv /\ CleanupPlanInv

LEMMA MailStep == MailInv /\ [Mail!MailNext]_(Mail!mailboxVars) => MailInv' /\ MailsAge
<1> SUFFICES ASSUME MailInv, [Mail!MailNext]_(Mail!mailboxVars) PROVE MailInv' /\ MailsAge
  OBVIOUS
<1>1. MailTypeInv /\ DigestInv /\ ScanInv /\ KnownInv /\ CleanupPlanInv
  BY DEF MailInv
<1>2. MailsAge /\ mails' \in [Mails -> MailRecord]
  BY <1>1, MailsStep DEF MailsAge
<1>3. /\ digestLog' \in LogType /\ digest' \in DigestRecord
      /\ reported \subseteq reported' /\ reported' \subseteq Mails /\ recorded' \subseteq Mails
      /\ DigestInv'
  BY <1>1, <1>2, DigestStep
<1>4. /\ scanLog' \in LogType /\ weekly' \in WeeklyRecord
      /\ covered \subseteq covered' /\ covered' \subseteq Mails
      /\ ScanInv'
  BY <1>1, ScanStep
<1>5. /\ cleanup' \in CleanupRecord /\ cleanup'.archive \cap cleanup'.delete = {}
      /\ KnownInv' /\ CleanupPlanInv'
  BY <1>1, <1>2, <1>3, <1>4, CleanupStep
<1> QED BY <1>2, <1>3, <1>4, <1>5 DEF MailInv, MailTypeInv

LEMMA MailInvHolds == LanesSpec => []MailInv
<1>1. LanesInit => MailInv
  BY MailInit DEF MailInv
<1>2. MailInv /\ [LanesNext]_lanesVars => MailInv'
  BY MailSteps, MailStep
<1> QED BY <1>1, <1>2, PTL DEF LanesSpec

\* MovesOnlyItsOwn: what the cleanup archives is a report of ours, a notice of a
\* weekly that was mailed or an advisory in a digest's report, and none that a
\* digest starting now would still read -- whatever the look-backs, the graces and
\* the window, but for a grace that is turned off.
THEOREM MovesOnlyItsOwnHolds == LanesSpec => MovesOnlyItsOwn
<1>1. MailInv /\ [LanesNext]_lanesVars =>
        [\A m \in Mails : Mail!Goes(m, "archive") =>
           \/ mails[m].kind.from = "fleet"
           \/ /\ MinAge = 0 \/ mails[m].age >= Lookback
              /\ m \in covered \/ (m \in reported /\ mails[m].kind.cve)]_(Mail!mailboxVars)
  <2> SUFFICES ASSUME MailInv, [LanesNext]_lanesVars, NEW m \in Mails, Mail!Goes(m, "archive")
               PROVE  \/ mails[m].kind.from = "fleet"
                      \/ /\ MinAge = 0 \/ mails[m].age >= Lookback
                         /\ m \in covered \/ (m \in reported /\ mails[m].kind.cve)
    OBVIOUS
  <2>1. m \in cleanup.archive
    BY MailSteps, MailStep DEF MailsAge, Mail!Goes
  <2> QED BY <2>1 DEF MailInv, CleanupPlanInv, Unread
<1> QED BY <1>1, MailInvHolds, PTL DEF LanesSpec, MovesOnlyItsOwn, Mail!MovesOnlyItsOwn

\* What is deleted of the mails the digest's log once had a CVE for.
LEMMA OwedDeleted ==
    ASSUME MailInv, [LanesNext]_lanesVars, NEW m \in Mails, Mail!Goes(m, "deleted"),
           m \in cleanup.owed
    PROVE  Deletable(mails[m])
<1>1. m \in cleanup.delete
  BY MailSteps, MailStep DEF MailsAge, Mail!Goes
<1> QED BY <1>1 DEF MailInv, CleanupPlanInv

\* RecordedIsKept: what the digest's log once had a CVE for is not deleted for its
\* subject while it is younger than the logs' retention, however wide the window.
THEOREM RecordedIsKeptHolds == LanesSpec => RecordedIsKept
<1>1. MailInv /\ [LanesNext]_lanesVars =>
        [\A m \in Mails : Mail!Goes(m, "deleted") /\ m \in cleanup.owed
            => mails[m].kind.auto = "header" \/ mails[m].age >= Retain]_(Mail!mailboxVars)
  BY OwedDeleted DEF Deletable
<1> QED BY <1>1, MailInvHolds, PTL DEF LanesSpec, RecordedIsKept, Mail!RecordedIsKept

\* AdvisoryIsKept: it is not deleted for its subject at all where the cleanup's
\* window is no wider than the retention, which is the default and which load does
\* not demand.
THEOREM AdvisoryIsKeptHolds ==
    ASSUME Window <= Retain PROVE LanesSpec => Mail!AdvisoryIsKept
<1>1. MailInv /\ [LanesNext]_lanesVars =>
        [\A m \in Mails : Mail!Goes(m, "deleted") /\ m \in cleanup.owed
            => mails[m].kind.auto = "header"]_(Mail!mailboxVars)
  <2>1. ~(Retain < Window)
    BY MailFacts
  <2> QED BY <2>1, OwedDeleted DEF Deletable
<1> QED BY <1>1, MailInvHolds, PTL DEF LanesSpec, Mail!AdvisoryIsKept
=============================================================================
