-------------------------- MODULE CveTicketsProofs --------------------------
(***************************************************************************)
(* Theorems of CveTickets, for every value of its constants.               *)
(*                                                                         *)
(* TypeInv adds to TypeOK what a run's record says of the ticket in hand.  *)
(* Every further invariant is proved on top of it:                         *)
(*   TicketInv   one run at a time, and a run about to file knows that its *)
(*               CVE has no ticket;                                        *)
(*   ToldInv     TicketInv, and what a run is about to record has been     *)
(*               announced;                                                *)
(*   ZeroSeen    a run comparing "no hosts" with a ticket saw none;        *)
(*   AuthorInv   a run that goes on to Jira may write there;               *)
(*   NewsInv     TicketInv, and what a ticket's readers know its property  *)
(*               says, which what a run is about to say was compared with. *)
(* Four facts about a step carry all of them: RunStepType (what a step of  *)
(* the run's own record leaves typed), StepShape and WorldShape (which     *)
(* steps touch what) and LookupType (what a scanner answer can be).        *)
(***************************************************************************)
EXTENDS CveTickets, FiniteSetTheorems, SequenceTheorems, WellFoundedInduction, TLAPS

\* Oldest picks a member of a set of ticket numbers, and the least.
LEMMA OldestIsOne ==
    ASSUME NEW S \in SUBSET Nat, S # {}
    PROVE  Oldest(S) \in S /\ \A j \in S : Oldest(S) <= j
<1>1. PICK i \in S : \A j \in S : ~(<<j, i>> \in OpToRel(<, Nat))
  BY NatLessThanWellFounded, WFMin
<1>2. \A j \in S : i <= j
  <2>1. TAKE j \in S
  <2>2. ~(j < i)
    BY <1>1 DEF OpToRel
  <2> QED BY <2>2
<1> QED BY <1>2 DEF Oldest

\* A function on 1 .. n is a sequence of length n.
LEMMA SequenceOfFunction ==
    ASSUME NEW S, NEW n \in Nat, NEW f \in [1 .. n -> S]
    PROVE  f \in Seq(S) /\ Len(f) = n /\ DOMAIN f = 1 .. n
  OBVIOUS

\* Sets of hosts have a cardinality, and it is 0 for the empty one only.
LEMMA FiniteHosts ==
    ASSUME NEW S \in SUBSET Hosts
    PROVE  IsFiniteSet(S) /\ Cardinality(S) \in Nat /\ (Cardinality(S) = 0 <=> S = {})
BY ConstantsAssumption, FS_Subset, FS_CardinalityType, FS_EmptySet

\* The state built from a finding fits the property: long lists are dropped.
LEMMA StateFromType ==
    ASSUME NEW f \in Finding, NEW noted \in BOOLEAN, NEW age \in Ages \cup {Never}
    PROVE  /\ StateFrom(f, noted, age) \in ExposureState
           /\ StateFrom(f, noted, age).hosts \subseteq f.hosts
           /\ StateFrom(f, noted, age).count = f.count
BY FS_EmptySet, ConstantsAssumption DEF StateFrom, ExposureState, StateFields, Finding

\* Whatever the plan, what is recorded is a property or nothing.
LEMMA StateToRecordType ==
    ASSUME NEW f \in Finding, NEW prev \in ExposureState \cup {NoState},
           NEW plan \in {"none", "file", "closedNoted", "closedComment",
                         "recordOnly", "comment"},
           prev = NoState => plan # "comment"
    PROVE  StateToRecord(plan, prev, f) \in ExposureState \cup {NoState}
<1>1. /\ 0 \in Ages \cup {Never} /\ Never \in Ages \cup {Never}
  BY ConstantsAssumption DEF Ages, Never
<1>2. prev # NoState => /\ prev.noted \in BOOLEAN /\ prev.age \in Ages \cup {Never}
                        /\ [prev EXCEPT !.age = 0] \in ExposureState
  BY <1>1 DEF ExposureState, StateFields
<1>3. StateFrom(f, FALSE, 0) \in ExposureState /\ StateFrom(f, FALSE, Never) \in ExposureState
      /\ StateFrom(f, TRUE, Never) \in ExposureState
  BY <1>1, StateFromType
<1>4. prev # NoState => /\ StateFrom(f, prev.noted, 0) \in ExposureState
                        /\ StateFrom(f, TRUE, prev.age) \in ExposureState
  BY <1>1, <1>2, StateFromType
<1>5. CASE plan = "recordOnly"
  BY <1>2, <1>3, <1>5 DEF StateToRecord
<1>6. CASE plan \in {"file", "closedComment", "comment"}
  BY <1>3, <1>4, <1>6 DEF StateToRecord
<1>7. CASE plan \in {"none", "closedNoted"}
  BY <1>7 DEF StateToRecord
<1> QED BY <1>5, <1>6, <1>7

\* planUpdate never answers none or file.
LEMMA PlanType ==
    ASSUME NEW done, NEW prev, NEW f
    PROVE  planUpdate(done, prev, f) \in {"closedNoted", "closedComment", "recordOnly", "comment"}
BY DEF planUpdate

\* A scanner answer is a finding; PRESENT has hosts; when every page was read,
\* a usable answer of none means the estate has no detection.
LEMMA LookupType ==
    ASSUME TypeOK, NEW c \in CVEs, NEW res \in LookupCVE(c)
    PROVE  /\ applyLookup(res) \in Finding
           /\ res.status = "PRESENT" => res.count > 0
           /\ ~PagesLost /\ followUpVerdict(res) /\ res.count = 0 => detected[c] = {}
<1>1. /\ detected[c] \in SUBSET Hosts /\ mapped[c] \in SUBSET Qids
  BY DEF TypeOK
<1>2. CASE res.status = "UNKNOWN" /\ res.hosts = {} /\ res.count = 0 /\ res.qids \in SUBSET Qids
  BY <1>1, <1>2 DEF applyLookup, followUpVerdict, Finding
<1>3. ASSUME NEW seen \in getAllPages(detected[c]),
             NEW d \in parseHostDetections(seen, mapped[c]),
             res = [status |-> IF seen = {} THEN "NOT_PRESENT" ELSE "PRESENT",
                    hosts |-> d[1], count |-> d[2], qids |-> mapped[c]]
      PROVE  /\ applyLookup(res) \in Finding
             /\ res.status = "PRESENT" => res.count > 0
             /\ ~PagesLost /\ followUpVerdict(res) /\ res.count = 0 => detected[c] = {}
  <2>1. /\ res.hosts = d[1] /\ res.count = d[2] /\ res.qids = mapped[c]
        /\ res.status = IF seen = {} THEN "NOT_PRESENT" ELSE "PRESENT"
    BY <1>3
  <2>2. seen \in SUBSET detected[c] /\ (~PagesLost => seen = detected[c])
    BY DEF getAllPages
  <2>3. Cardinality(seen) \in Nat
    BY <1>1, <2>2, FiniteHosts
  <2>4. d[1] \in SUBSET seen /\ d[2] \in Nat /\ (seen # {} => d[2] > 0)
    BY <2>3 DEF parseHostDetections
  <2>5. applyLookup(res) \in Finding
    BY <1>1, <2>1, <2>2, <2>4 DEF applyLookup, Finding
  <2> QED BY <2>1, <2>2, <2>4, <2>5
<1>4. CASE \E seen \in getAllPages(detected[c]) : \E d \in parseHostDetections(seen, mapped[c]) :
              res = [status |-> IF seen = {} THEN "NOT_PRESENT" ELSE "PRESENT",
                     hosts |-> d[1], count |-> d[2], qids |-> mapped[c]]
  BY <1>3, <1>4
<1> QED BY <1>1, <1>2, <1>4 DEF LookupCVE
-----------------------------------------------------------------------------
\* What a run's record says of the ticket in hand.
InHand(R, I) ==
    /\ R.pc \in {"read", "comment", "record"} => R.id \in I
    /\ R.queue \subseteq I
    /\ R.plan = "comment" => R.prev # NoState

TypeInv == TypeOK /\ \A r \in Runs : InHand(run[r], Ids)

\* The fields of a ticket.
LEMMA TicketType ==
    ASSUME TypeOK, NEW i \in Ids
    PROVE  /\ i \in Nat /\ tickets[i] \in Ticket /\ tickets[i].cve \in CVEs
           /\ tickets[i].done \in BOOLEAN
           /\ tickets[i].state \in ExposureState \cup {NoState}
<1>1. tickets[i] \in Ticket
  BY ElementOfSeq DEF TypeOK, Ids
<1>2. i \in Nat
  BY DEF Ids
<1> QED BY <1>1, <1>2 DEF Ticket

\* The readers of a ticket.
LEMMA LedgerType ==
    ASSUME TypeOK, NEW i \in Ids
    PROVE  i \in 1 .. Len(ledger) /\ ledger[i] \in Readers
BY ElementOfSeq DEF TypeOK, Ids

\* Hearing a comment keeps readers typed.
LEMMA ToldType ==
    ASSUME NEW L \in Readers, NEW f \in Finding,
           NEW kind \in {"closed", "clear", "qids", "hosts"}
    PROVE  Told(L, kind, f) \in Readers
<1>1. 0 \in Ages
  BY ConstantsAssumption DEF Ages
<1> QED BY <1>1 DEF Told, Readers, Finding

\* So does recording.
LEMMA RecordedType ==
    ASSUME NEW L \in Readers, NEW R \in Run
    PROVE  Recorded(L, R) \in Readers
<1>1. R.f \in Finding
  BY DEF Run
<1> DEFINE f == R.f
<1>2. /\ [L EXCEPT !.told = @ \cap f.hosts, !.adopted = {}, !.sure = TRUE] \in Readers
      /\ [L EXCEPT !.told = @ \cap f.hosts, !.adopted = {}, !.clear = FALSE,
                   !.note = "recorded"] \in Readers
      /\ [L EXCEPT !.adopted = f.hosts] \in Readers
  BY <1>1 DEF Readers, Finding
<1> QED BY <1>2 DEF Recorded

\* The record of a process that is not running.
LEMMA IdleType ==
    /\ NotRunning \in Run /\ NotRunning.cve \in CVEs
    /\ InHand(NotRunning, Ids) /\ NotRunning.plan = "none" /\ NotRunning.queue = {}
BY ConstantsAssumption DEF NotRunning, Run, NoFinding, Finding, InHand

\* Putting a ticket aside keeps the run typed.
LEMMA NextItemType ==
    ASSUME TypeInv, NEW r \in Runs
    PROVE  NextItem(r) \in Run /\ InHand(NextItem(r), Ids)
<1>1. run[r] \in Run /\ InHand(run[r], Ids)
  BY DEF TypeInv, TypeOK, InHand
<1>2. ASSUME NEW R \in Run, NEW c \in CVEs, NEW f \in Finding
      PROVE  LET N == [R EXCEPT !.pc = IF R.following THEN "check" ELSE "file",
                                !.handled = IF R.following THEN @ ELSE @ \cup {R.cve},
                                !.queue = @ \ {R.id}, !.cve = c, !.id = 0,
                                !.done = FALSE, !.f = f, !.prev = NoState,
                                !.plan = "none", !.sawZero = FALSE, !.absent = FALSE]
             IN  /\ N \in Run
                 /\ InHand(R, Ids) => InHand(N, Ids)
  BY ZenonT(60) DEF Run, InHand
<1>3. NoFinding \in Finding
  BY DEF NoFinding, Finding
<1> QED BY <1>1, <1>2, <1>3, IdleType DEF NextItem

\* Most steps change one run's record and nothing else.
LEMMA RunStepType ==
    ASSUME TypeInv, NEW r \in Runs, NEW R \in Run,
           run' = [run EXCEPT ![r] = R],
           InHand(R, Ids), Quiet, JiraUnchanged, WorldUnchanged
    PROVE  TypeInv'
BY DEF TypeInv, TypeOK, InHand, Ids, Quiet, JiraUnchanged, WorldUnchanged

\* Every step keeps the type invariant.
LEMMA TypeInvStep == TypeInv /\ [Next]_vars => TypeInv'
<1> SUFFICES ASSUME TypeInv, [Next]_vars PROVE TypeInv'
  OBVIOUS
<1>u. CASE UNCHANGED vars
  BY <1>u DEF vars, TypeInv, TypeOK, InHand, Ids
<1>s. ASSUME NEW r \in Runs, Step(r) PROVE TypeInv'
  <2> DEFINE R == run[r]
  <2>0. R \in Run /\ InHand(R, Ids)
    BY DEF TypeInv, TypeOK, InHand
  <2>1. CASE StartRun(r)
    <3>1. PICK rows \in SUBSET CVEs, forReal, gate, followUp \in BOOLEAN :
            \E auto \in SUBSET rows :
              /\ DryRuns \/ (forReal /\ gate)
              /\ run' = [run EXCEPT ![r] =
                    [NotRunning EXCEPT !.pc = "select", !.rows = rows, !.auto = auto,
                                       !.forReal = forReal, !.gate = gate,
                                       !.followUp = followUp]]
      BY <2>1, Zenon DEF StartRun
    <3>2. PICK auto \in SUBSET rows :
              run' = [run EXCEPT ![r] =
                    [NotRunning EXCEPT !.pc = "select", !.rows = rows, !.auto = auto,
                                       !.forReal = forReal, !.gate = gate,
                                       !.followUp = followUp]]
      BY <3>1, Zenon
    <3> DEFINE R2 == [NotRunning EXCEPT !.pc = "select", !.rows = rows, !.auto = auto,
                                        !.forReal = forReal, !.gate = gate,
                                        !.followUp = followUp]
    <3>3. R2 \in Run /\ InHand(R2, Ids)
      BY IdleType DEF Run, InHand
    <3>4. run' = [run EXCEPT ![r] = R2]
      BY <3>2
    <3>5. Quiet /\ JiraUnchanged /\ WorldUnchanged
      BY <2>1 DEF StartRun
    <3> HIDE DEF R2
    <3> QED BY <3>3, <3>4, <3>5, RunStepType
  <2>2. CASE Select(r)
    <3>1. PICK c \in R.rows : \E res \in LookupCVE(c) :
             run' = [run EXCEPT ![r].rows = @ \ {c},
                             ![r].findings[c] = IF res.status = "PRESENT"
                                                THEN applyLookup(res) ELSE NoFinding]
      BY <2>2 DEF Select
    <3>2. PICK res \in LookupCVE(c) :
             run' = [run EXCEPT ![r].rows = @ \ {c},
                             ![r].findings[c] = IF res.status = "PRESENT"
                                                THEN applyLookup(res) ELSE NoFinding]
      BY <3>1
    <3>3. c \in CVEs
      BY <2>0 DEF Run
    <3>4. applyLookup(res) \in Finding /\ NoFinding \in Finding
      BY <3>3, LookupType DEF TypeInv, NoFinding, Finding
    <3> DEFINE F == IF res.status = "PRESENT" THEN applyLookup(res) ELSE NoFinding
               R2 == [R EXCEPT !.rows = @ \ {c}, !.findings = [@ EXCEPT ![c] = F]]
    <3>5. R2 \in Run /\ InHand(R2, Ids)
      BY <2>0, <3>4, <3>3 DEF Run, InHand
    <3>6. run' = [run EXCEPT ![r] = R2]
      BY <3>2
    <3> QED BY <3>5, <3>6, <2>0, <2>2, RunStepType DEF Select
  <2>3. CASE Selected(r)
    <3>1. [R EXCEPT !.pc = "file"] \in Run /\ InHand([R EXCEPT !.pc = "file"], Ids)
      BY <2>0 DEF Run, InHand
    <3> QED BY <3>1, <2>3, RunStepType DEF Selected
  <2>4. CASE EndFollowUp(r) \/ FollowUpSearchFails(r) \/ Crash(r)
    BY <2>4, IdleType, RunStepType DEF EndFollowUp, FollowUpSearchFails, Crash
  <2>5. CASE CreateFails(r) \/ CommentFails(r) \/ SetPropertyFails(r)
    BY <2>5, NextItemType, RunStepType DEF CreateFails, CommentFails, SetPropertyFails
  <2>6. CASE EndFiling(r)
    <3> DEFINE R2 == [NotRunning EXCEPT !.pc = "search", !.following = TRUE,
                        !.forReal = R.forReal, !.gate = R.gate, !.handled = R.handled]
    <3>1. R2 \in Run /\ InHand(R2, Ids)
      BY ZenonT(60), <2>0, IdleType DEF Run, InHand
    <3>2. run' = [run EXCEPT ![r] = R2] \/ run' = [run EXCEPT ![r] = NotRunning]
      BY <2>6 DEF EndFiling
    <3>3. Quiet /\ JiraUnchanged /\ WorldUnchanged
      BY <2>6 DEF EndFiling
    <3> HIDE DEF R2
    <3> QED BY <3>1, <3>2, <3>3, IdleType, RunStepType
  <2>7. CASE FileOrUpdate(r)
    <3>1. PICK c \in Pending(r) :
           LET found == Matching(c)
               i == Oldest(found)
               held == c \notin run[r].auto
           IN  run' = [run EXCEPT ![r] =
                 IF found # {} /\ Writes(r)
                 THEN [@ EXCEPT !.pc = "read", !.following = FALSE, !.cve = c, !.id = i,
                                !.done = tickets[i].done, !.f = run[r].findings[c]]
                 ELSE IF found = {} /\ ~held /\ Writes(r)
                 THEN [@ EXCEPT !.pc = "create", !.following = FALSE, !.cve = c,
                                !.f = run[r].findings[c]]
                 ELSE Handled(r, c)]
      BY <2>7 DEF FileOrUpdate
    <3>2. c \in CVEs /\ R.findings[c] \in Finding
      BY <2>0 DEF Pending, Run
    <3>3. Quiet /\ JiraUnchanged /\ WorldUnchanged /\ R.pc = "file"
      BY <2>7 DEF FileOrUpdate
    <3>4. CASE Matching(c) # {} /\ Writes(r)
      <4> DEFINE i == Oldest(Matching(c))
                 R2 == [R EXCEPT !.pc = "read", !.following = FALSE, !.cve = c, !.id = i,
                                 !.done = tickets[i].done, !.f = R.findings[c]]
      <4>1. i \in Ids
        BY <3>4, OldestIsOne DEF Matching, Ids
      <4>2. i \in Nat /\ tickets[i].done \in BOOLEAN
        BY <4>1, TicketType DEF TypeInv
      <4> HIDE DEF i
      <4>3. R2 \in Run /\ InHand(R2, Ids)
        BY <2>0, <3>2, <4>1, <4>2 DEF Run, InHand
      <4>4. run' = [run EXCEPT ![r] = R2]
        BY <3>1, <3>4 DEF i
      <4> HIDE DEF R2
      <4> QED BY <4>3, <4>4, <3>3, RunStepType
    <3>5. CASE ~(Matching(c) # {} /\ Writes(r))
      <4> DEFINE R2 == [R EXCEPT !.pc = "create", !.following = FALSE, !.cve = c,
                                 !.f = R.findings[c]]
      <4>1. R2 \in Run /\ InHand(R2, Ids)
        BY ZenonT(60), <2>0, <3>2 DEF Run, InHand
      <4>2. Handled(r, c) \in Run /\ InHand(Handled(r, c), Ids)
        BY <2>0, <3>2 DEF Run, Handled, InHand
      <4>3. run' = [run EXCEPT ![r] = R2] \/ run' = [run EXCEPT ![r] = Handled(r, c)]
        BY <3>1, <3>5
      <4> HIDE DEF R2
      <4> QED BY <4>1, <4>2, <4>3, <3>3, RunStepType
    <3> QED BY <3>4, <3>5
  <2>8. CASE FileSearchFails(r)
    <3>1. PICK c \in Pending(r) : run' = [run EXCEPT ![r] = Handled(r, c)]
      BY <2>8 DEF FileSearchFails
    <3>2. Handled(r, c) \in Run /\ InHand(Handled(r, c), Ids)
      BY <2>0 DEF Run, Handled, Pending, InHand
    <3> QED BY <3>1, <3>2, <2>8, RunStepType DEF FileSearchFails
  <2>9. CASE ReadState(r)
    <3>1. PICK prev \in {tickets[run[r].id].state} \cup IF ReadFails THEN {NoState} ELSE {} :
           LET plan == planUpdate(run[r].done, prev, run[r].f)
           IN  run' = [run EXCEPT ![r] =
                 IF plan \in {"closedComment", "comment"}
                 THEN [@ EXCEPT !.pc = "comment", !.plan = plan, !.prev = prev,
                                !.absent = tickets[run[r].id].state = NoState]
                 ELSE IF StateToRecord(plan, prev, run[r].f) # NoState
                 THEN [@ EXCEPT !.pc = "record", !.plan = plan, !.prev = prev,
                                !.absent = tickets[run[r].id].state = NoState]
                 ELSE NextItem(r)]
      BY <2>9 DEF ReadState
    <3> DEFINE plan == planUpdate(R.done, prev, R.f)
               gone == tickets[R.id].state = NoState
               With(pc) == [R EXCEPT !.pc = pc, !.plan = plan, !.prev = prev,
                                     !.absent = gone]
    <3>2. R.id \in Ids
      BY <2>9, <2>0 DEF ReadState, TypeInv, InHand
    <3>3. prev \in ExposureState \cup {NoState}
      BY <3>2, TicketType DEF TypeInv
    <3>4. plan \in {"closedNoted", "closedComment", "recordOnly", "comment"}
      BY PlanType
    <3>5. gone \in BOOLEAN /\ (plan = "comment" => prev # NoState)
      BY DEF planUpdate
    <3> HIDE DEF plan, gone
    <3>6. /\ With("comment") \in Run /\ InHand(With("comment"), Ids)
          /\ With("record") \in Run /\ InHand(With("record"), Ids)
      BY <2>0, <3>2, <3>3, <3>4, <3>5 DEF Run, InHand
    <3>7. \/ run' = [run EXCEPT ![r] = With("comment")]
          \/ run' = [run EXCEPT ![r] = With("record")]
          \/ run' = [run EXCEPT ![r] = NextItem(r)]
      BY <3>1 DEF plan, gone
    <3>8. Quiet /\ JiraUnchanged /\ WorldUnchanged
      BY <2>9 DEF ReadState
    <3> HIDE DEF With
    <3> QED BY <3>6, <3>7, <3>8, RunStepType, NextItemType
  <2>10. CASE FollowUpSearch(r)
    <3>1. PICK recent \in SUBSET {i \in Ids : tickets[i].done} :
         LET hits == {i \in Ids : ~tickets[i].done} \cup recent
             page == {i \in hits : Cardinality({j \in hits : j <= i}) <= FollowUpMax}
         IN  run' = [run EXCEPT ![r].pc = "check", ![r].queue = page,
                                ![r].closed = page \cap recent]
      BY <2>10 DEF FollowUpSearch
    <3> DEFINE hits == {i \in Ids : ~tickets[i].done} \cup recent
               page == {i \in hits : Cardinality({j \in hits : j <= i}) <= FollowUpMax}
               R2 == [R EXCEPT !.pc = "check", !.queue = page, !.closed = page \cap recent]
    <3>2. /\ hits \subseteq Ids /\ page \subseteq hits
          /\ Ids \subseteq Nat
      <4>1. hits \subseteq Ids
        OBVIOUS
      <4> HIDE DEF hits
      <4>2. page \subseteq hits
        OBVIOUS
      <4>3. Ids \subseteq Nat
        BY DEF Ids
      <4> QED BY <4>1, <4>2, <4>3
    <3> HIDE DEF page
    <3>3. R2 \in Run /\ InHand(R2, Ids)
      BY <2>0, <3>2 DEF Run, InHand
    <3>4. run' = [run EXCEPT ![r] = R2]
      BY <3>1 DEF page
    <3>5. Quiet /\ JiraUnchanged /\ WorldUnchanged
      BY <2>10 DEF FollowUpSearch
    <3> HIDE DEF R2
    <3> QED BY <3>3, <3>4, <3>5, RunStepType
  <2>11. CASE FollowUp(r)
    <3> DEFINE i == Oldest(R.queue)
               c == tickets[i].cve
               Skip == [R EXCEPT !.queue = @ \ {i}]
    <3>1. R.queue # {} /\ Quiet /\ JiraUnchanged /\ WorldUnchanged
      BY <2>11 DEF FollowUp
    <3>2. i \in Ids /\ i \in Nat
      BY <3>1, <2>0, OldestIsOne DEF Ids, InHand
    <3>3. c \in CVEs
      BY <3>2, TicketType DEF TypeInv
    <3>4. \/ run' = [run EXCEPT ![r].queue = @ \ {i}]
          \/ \E res \in LookupCVE(c) :
               run' = [run EXCEPT ![r].pc = "read", ![r].cve = c, ![r].id = i,
                                  ![r].done = i \in run[r].closed,
                                  ![r].f = applyLookup(res),
                                  ![r].sawZero = detected[c] = {}]
      BY <2>11 DEF FollowUp
    <3> HIDE DEF i, c
    <3>5. CASE run' = [run EXCEPT ![r].queue = @ \ {i}]
      <4>1. Skip \in Run /\ InHand(Skip, Ids)
        BY <2>0 DEF Run, InHand
      <4>2. run' = [run EXCEPT ![r] = Skip]
        BY <3>5
      <4> QED BY <4>1, <4>2, <3>1, RunStepType
    <3>6. ASSUME NEW res \in LookupCVE(c),
                 run' = [run EXCEPT ![r].pc = "read", ![r].cve = c, ![r].id = i,
                                    ![r].done = i \in run[r].closed,
                                    ![r].f = applyLookup(res),
                                    ![r].sawZero = detected[c] = {}]
          PROVE  TypeInv'
      <4> DEFINE f == applyLookup(res)
                 shut == i \in R.closed
                 zero == detected[c] = {}
                 R2 == [R EXCEPT !.pc = "read", !.cve = c, !.id = i, !.done = shut,
                                 !.f = f, !.sawZero = zero]
      <4>1. f \in Finding
        BY <3>3, <3>6, LookupType DEF TypeInv
      <4>2. shut \in BOOLEAN /\ zero \in BOOLEAN
        OBVIOUS
      <4>3. run' = [run EXCEPT ![r] = R2]
        BY <3>6
      <4> HIDE DEF f, shut, zero
      <4>4. R2 \in Run /\ InHand(R2, Ids)
        BY <2>0, <3>2, <3>3, <4>1, <4>2 DEF Run, InHand
      <4> HIDE DEF R2
      <4> QED BY <4>3, <4>4, <3>1, RunStepType
    <3> QED BY <3>4, <3>5, <3>6
  <2>12. CASE CreateIssue(r)
    <3> DEFINE t == [cve |-> R.cve, done |-> FALSE, state |-> NoState]
               L == [told |-> R.f.hosts, adopted |-> {}, age |-> 0,
                     clear |-> FALSE, sure |-> FALSE, note |-> "no"]
               R2 == [R EXCEPT !.pc = "record", !.plan = "file", !.id = Len(tickets) + 1]
    <3>1. t \in Ticket /\ L \in Readers
      BY <2>0, ConstantsAssumption DEF Run, Ticket, Readers, Finding, Ages
    <3>2. /\ tickets' = Append(tickets, t) /\ ledger' = Append(ledger, L)
          /\ run' = [run EXCEPT ![r] = R2] \/ run' = [run EXCEPT ![r] = NextItem(r)]
          /\ Quiet /\ WorldUnchanged
      BY <2>12 DEF CreateIssue
    <3> HIDE DEF t, L
    <3>3. /\ tickets' \in Seq(Ticket) /\ ledger' \in Seq(Readers)
          /\ Len(tickets') = Len(tickets) + 1 /\ Len(ledger') = Len(tickets')
          /\ Len(tickets) \in Nat
      BY <3>1, <3>2, AppendProperties, LenProperties DEF TypeInv, TypeOK
    <3>4. Ids \subseteq Ids' /\ Len(tickets) + 1 \in Ids' /\ Len(tickets) + 1 \in Nat
      BY <3>3 DEF Ids
    <3>5. R2 \in Run /\ InHand(R2, Ids')
      BY <2>0, <3>4 DEF Run, InHand
    <3>6. \A q \in Runs : InHand(run[q], Ids')
      BY <3>4 DEF InHand, TypeInv
    <3>7. InHand(NextItem(r), Ids')
      BY <3>4, NextItemType DEF InHand
    <3> HIDE DEF R2
    <3> QED BY <3>2, <3>3, <3>5, <3>6, <3>7, NextItemType DEF TypeInv, TypeOK, Quiet, WorldUnchanged
  <2>13. CASE AddComment(r)
    <3> DEFINE kind == CommentKind(r)
               L == Told(ledger[R.id], kind, R.f)
               R2 == [R EXCEPT !.pc = "record"]
    <3>1. /\ ledger' = [ledger EXCEPT ![R.id] = L]
          /\ said' = {[id |-> R.id, by |-> r, kind |-> kind]}
          /\ run' = [run EXCEPT ![r] = R2] \/ run' = [run EXCEPT ![r] = NextItem(r)]
          /\ UNCHANGED tickets /\ WorldUnchanged /\ R.pc = "comment"
      BY <2>13 DEF AddComment
    <3>2. R.id \in Ids /\ R.id \in Nat /\ kind \in {"closed", "clear", "qids", "hosts"}
      BY <3>1, <2>0 DEF InHand, CommentKind, Run
    <3>3. R.id \in 1 .. Len(ledger) /\ ledger[R.id] \in Readers /\ R.f \in Finding
      BY <2>0, <3>2, LedgerType DEF TypeInv, Run
    <3> HIDE DEF kind
    <3>4. L \in Readers
      BY <3>2, <3>3, ToldType
    <3> HIDE DEF L
    <3>5. ledger' \in Seq(Readers) /\ Len(ledger') = Len(ledger)
      BY <3>1, <3>3, <3>4, ExceptSeq DEF TypeInv, TypeOK
    <3>6. R2 \in Run /\ InHand(R2, Ids)
      BY <2>0, <3>1 DEF Run, InHand
    <3>7. said' \in SUBSET [id : Nat, by : Runs, kind : {"closed", "clear", "qids", "hosts"}]
      BY <3>1, <3>2
    <3>8. Ids' = Ids
      BY <3>1 DEF Ids
    <3> HIDE DEF R2
    <3> QED BY <3>1, <3>5, <3>6, <3>7, <3>8, NextItemType DEF TypeInv, TypeOK, WorldUnchanged
  <2>14. CASE SetProperty(r)
    <3> DEFINE st == StateToRecord(R.plan, R.prev, R.f)
               t == [tickets[R.id] EXCEPT !.state = st]
               L == Recorded(ledger[R.id], R)
    <3>1. /\ tickets' = [tickets EXCEPT ![R.id] = t]
          /\ ledger' = [ledger EXCEPT ![R.id] = L]
          /\ run' = [run EXCEPT ![r] = NextItem(r)]
          /\ Quiet /\ WorldUnchanged /\ R.pc = "record"
      BY <2>14 DEF SetProperty
    <3>2. /\ R.id \in Ids /\ R.id \in Nat /\ R.f \in Finding
          /\ R.prev \in ExposureState \cup {NoState}
          /\ R.plan \in {"none", "file", "closedNoted", "closedComment",
                         "recordOnly", "comment"}
          /\ R.prev = NoState => R.plan # "comment"
      BY <3>1, <2>0 DEF InHand, Run
    <3>3. st \in ExposureState \cup {NoState}
      BY <3>2, StateToRecordType
    <3> HIDE DEF st
    <3>4. t \in Ticket
      BY <3>2, <3>3, TicketType DEF TypeInv, Ticket
    <3>5. R.id \in 1 .. Len(ledger) /\ L \in Readers
      BY <2>0, <3>2, LedgerType, RecordedType DEF TypeInv
    <3> HIDE DEF t, L
    <3>6. /\ tickets' \in Seq(Ticket) /\ Len(tickets') = Len(tickets)
          /\ ledger' \in Seq(Readers) /\ Len(ledger') = Len(ledger)
      BY <3>1, <3>2, <3>4, <3>5, ExceptSeq DEF TypeInv, TypeOK, Ids
    <3>7. Ids' = Ids
      BY <3>6 DEF Ids
    <3> QED BY <3>1, <3>6, <3>7, NextItemType DEF TypeInv, TypeOK, Quiet, WorldUnchanged
  <2> QED BY <1>s, <2>1, <2>2, <2>3, <2>4, <2>5, <2>6, <2>7, <2>8, <2>9, <2>10, <2>11,
             <2>12, <2>13, <2>14 DEF Step
<1>w. ASSUME World PROVE TypeInv'
  <2>1. ASSUME NEW c \in CVEs, Rescan(c) \/ KBRefresh(c) PROVE TypeInv'
    BY <2>1 DEF Rescan, KBRefresh, Quiet, JiraUnchanged, TypeInv, TypeOK, Ids
  <2>2. ASSUME NEW i \in Ids, MoveTicket(i) PROVE TypeInv'
    <3> DEFINE t == [tickets[i] EXCEPT !.done = ~@]
    <3>1. t \in Ticket
      BY <2>2, TicketType DEF TypeInv, Ticket
    <3>2. tickets' = [tickets EXCEPT ![i] = t]
      BY <2>2 DEF MoveTicket
    <3> HIDE DEF t
    <3>3. tickets' \in Seq(Ticket) /\ Len(tickets') = Len(tickets)
      BY <3>1, <3>2, ExceptSeq DEF TypeInv, TypeOK, Ids
    <3>4. Ids' = Ids
      BY <3>3 DEF Ids
    <3> QED BY <2>2, <3>3, <3>4 DEF MoveTicket, TypeInv, TypeOK, Quiet, WorldUnchanged
  <2>3. CASE DayPasses
    <3> DEFINE older(a) == IF a < GrowthInterval THEN a + 1 ELSE a
    <3>1. /\ \A a \in Ages : older(a) \in Ages
          /\ older(Never) = Never
      BY ConstantsAssumption DEF Ages, Never
    <3>2. /\ tickets' = [i \in Ids |->
                  IF tickets[i].state = NoState THEN tickets[i]
                  ELSE [tickets[i] EXCEPT !.state.age = older(@)]]
          /\ ledger' = [i \in Ids |-> [ledger[i] EXCEPT !.age = older(@)]]
          /\ Quiet /\ UNCHANGED run /\ WorldUnchanged
      BY <2>3 DEF DayPasses
    <3> HIDE DEF older
    <3>3. \A i \in Ids : (IF tickets[i].state = NoState THEN tickets[i]
                          ELSE [tickets[i] EXCEPT !.state.age = older(@)]) \in Ticket
      BY <3>1, TicketType DEF TypeInv, Ticket, ExposureState, StateFields
    <3>4. \A i \in Ids : [ledger[i] EXCEPT !.age = older(@)] \in Readers
      BY <3>1, LedgerType DEF TypeInv, Readers
    <3>5. Len(tickets) \in Nat /\ Ids = 1 .. Len(tickets)
      BY LenProperties DEF TypeInv, TypeOK, Ids
    <3>6. tickets' \in [1 .. Len(tickets) -> Ticket] /\ ledger' \in [1 .. Len(tickets) -> Readers]
      BY <3>2, <3>3, <3>4, <3>5
    <3>7. /\ tickets' \in Seq(Ticket) /\ Len(tickets') = Len(tickets)
          /\ ledger' \in Seq(Readers) /\ Len(ledger') = Len(tickets)
      BY <3>5, <3>6, SequenceOfFunction
    <3>8. Ids' = Ids
      BY <3>7 DEF Ids
    <3> QED BY <3>2, <3>7, <3>8 DEF TypeInv, TypeOK, Quiet, WorldUnchanged
  <2> QED BY <1>w, <2>1, <2>2, <2>3 DEF World
<1> QED BY <1>u, <1>s, <1>w DEF Next

\* The type invariant holds at first.
LEMMA TypeInvInit == Init => TypeInv
BY IdleType, EmptySeq DEF Init, TypeInv, TypeOK, InHand, Ids

\* In every behaviour every variable keeps its type: in particular a ticket's
\* property never holds a longer host list than Jira accepts.
THEOREM TypeCorrect == Spec => []TypeOK
<1>1. Init => TypeInv
  BY TypeInvInit
<1>2. TypeInv => TypeOK
  BY DEF TypeInv
<1> QED BY <1>1, <1>2, TypeInvStep, PTL DEF Spec
-----------------------------------------------------------------------------
(* One ticket per CVE.                                                     *)

OneRun == \A r, q \in Runs : run[r].pc # "idle" /\ run[q].pc # "idle" => r = q

\* A run about to file knows that the CVE has no ticket.
NoneYet == \A r \in Runs : run[r].pc = "create" => Matching(run[r].cve) = {}

\* A process that is not running is idle.
LEMMA NotRunningIdle == NotRunning.pc = "idle"
BY DEF NotRunning

\* What one step of a run does to the other runs, to its own pc and to the
\* tickets' CVEs.
LEMMA StepShape ==
    ASSUME TypeInv, NEW r \in Runs, Step(r)
    PROVE  /\ \A q \in Runs \ {r} : run'[q] = run[q]
           /\ run[r].pc = "idle" => Overlap \/ \A q \in Runs : run[q].pc = "idle"
           /\ run'[r].pc = "create" => /\ tickets' = tickets
                                       /\ Matching(run'[r].cve) = {}
           /\ \/ Len(tickets') = Len(tickets)
                 /\ \A i \in Ids : tickets'[i].cve = tickets[i].cve
              \/ /\ run[r].pc = "create"
                 /\ \E t \in Ticket : t.cve = run[r].cve /\ tickets' = Append(tickets, t)
           /\ \/ CreateIssue(r) \/ ReadState(r) \/ AddComment(r) \/ SetProperty(r)
              \/ JiraUnchanged /\ run'[r].pc \notin {"comment", "record"}
           /\ run'[r].pc \in {"read", "comment", "create"} =>
                FileOrUpdate(r) \/ FollowUp(r) \/ ReadState(r)
<1> DEFINE R == run[r]
<1>0. R \in Run /\ InHand(R, Ids) /\ run \in [Runs -> Run]
  BY DEF TypeInv, TypeOK
<1>n. NextItem(r).pc \in {"check", "file"}
  BY <1>0 DEF NextItem, Run
<1>1. CASE StartRun(r)
  BY <1>1, <1>0, IdleType DEF StartRun, JiraUnchanged, Run
<1>2. CASE Select(r) \/ Selected(r)
  <2>1. R.pc = "select" /\ JiraUnchanged
    BY <1>2 DEF Select, Selected
  <2>2. /\ \A q \in Runs \ {r} : run'[q] = run[q]
        /\ run'[r].pc \in {"select", "file"}
    <3>1. CASE Selected(r)
      BY <3>1, <1>0 DEF Selected, Run
    <3>2. CASE Select(r)
      <4>1. PICK c, F : run' = [run EXCEPT ![r].rows = @ \ {c}, ![r].findings[c] = F]
        <5>1. PICK c \in R.rows : \E res \in LookupCVE(c) :
                run' = [run EXCEPT ![r].rows = @ \ {c},
                                   ![r].findings[c] = IF res.status = "PRESENT"
                                                      THEN applyLookup(res) ELSE NoFinding]
          BY <3>2 DEF Select
        <5> QED BY <5>1
      <4> QED BY <4>1, <2>1, <1>0 DEF Run
    <3> QED BY <1>2, <3>1, <3>2
  <2> QED BY <2>1, <2>2 DEF JiraUnchanged
<1>3. CASE FileOrUpdate(r)
  <2>1. PICK c \in Pending(r) :
         LET found == Matching(c)
             i == Oldest(found)
             held == c \notin run[r].auto
         IN  run' = [run EXCEPT ![r] =
               IF found # {} /\ Writes(r)
               THEN [@ EXCEPT !.pc = "read", !.following = FALSE, !.cve = c, !.id = i,
                              !.done = tickets[i].done, !.f = run[r].findings[c]]
               ELSE IF found = {} /\ ~held /\ Writes(r)
               THEN [@ EXCEPT !.pc = "create", !.following = FALSE, !.cve = c,
                              !.f = run[r].findings[c]]
               ELSE Handled(r, c)]
    BY <1>3 DEF FileOrUpdate
  <2>2. Handled(r, c).pc = R.pc
    BY <1>0 DEF Handled, Run
  <2>3. run'[r].pc = "create" => Matching(run'[r].cve) = {}
    BY <2>1, <2>2, <1>0, <1>3 DEF FileOrUpdate, Run
  <2>4. \A q \in Runs \ {r} : run'[q] = run[q]
    BY <2>1, <1>0
  <2>5. run'[r].pc \in {"read", "create", "file"}
    BY <2>1, <2>2, <1>0, <1>3 DEF FileOrUpdate, Run
  <2> QED BY <2>3, <2>4, <2>5, <1>3 DEF FileOrUpdate, JiraUnchanged
<1>4. CASE FileSearchFails(r)
  BY <1>4, <1>0 DEF FileSearchFails, Handled, JiraUnchanged, Run
<1>5. CASE CreateIssue(r)
  <2> DEFINE t == [cve |-> R.cve, done |-> FALSE, state |-> NoState]
  <2>1. t \in Ticket /\ t.cve = R.cve
    BY <1>0 DEF Run, Ticket
  <2>2. tickets' = Append(tickets, t) /\ R.pc = "create"
    BY <1>5 DEF CreateIssue
  <2>3. run'[r].pc \in {"record", "check", "file"}
    BY <1>5, <1>0, <1>n DEF CreateIssue, Run
  <2>4. \A q \in Runs \ {r} : run'[q] = run[q]
    BY <1>5, <1>0 DEF CreateIssue
  <2> QED BY <2>1, <2>2, <2>3, <2>4, <1>5
<1>6. CASE CreateFails(r) \/ CommentFails(r) \/ SetPropertyFails(r)
  BY <1>6, <1>0, <1>n DEF CreateFails, CommentFails, SetPropertyFails, JiraUnchanged
<1>7. CASE ReadState(r)
  <2>1. /\ \A q \in Runs \ {r} : run'[q] = run[q]
        /\ run'[r].pc \in {"comment", "record", "check", "file"}
    BY <1>7, <1>0, <1>n DEF ReadState, Run
  <2>2. R.pc = "read" /\ JiraUnchanged
    BY <1>7 DEF ReadState
  <2> QED BY <2>1, <2>2, <1>7 DEF JiraUnchanged
<1>8. CASE AddComment(r)
  BY <1>8, <1>0, <1>n DEF AddComment, Run
<1>9. CASE SetProperty(r)
  <2>1. PICK st : tickets' = [tickets EXCEPT ![R.id].state = st]
    BY <1>9 DEF SetProperty
  <2>2. /\ Len(tickets') = Len(tickets)
        /\ \A i \in Ids : tickets'[i].cve = tickets[i].cve
    BY <2>1, TicketType DEF TypeInv, TypeOK, Ids, Ticket
  <2> QED BY <2>2, <1>9, <1>0, <1>n DEF SetProperty
<1>10. CASE EndFollowUp(r) \/ FollowUpSearchFails(r) \/ Crash(r)
  BY <1>10, <1>0, NotRunningIdle DEF EndFollowUp, FollowUpSearchFails, Crash, JiraUnchanged
<1>11. CASE EndFiling(r)
  <2> DEFINE R2 == [NotRunning EXCEPT !.pc = "search", !.following = TRUE,
                      !.forReal = R.forReal, !.gate = R.gate, !.handled = R.handled]
  <2>1. R2.pc = "search"
    BY IdleType DEF Run
  <2>2. run' = [run EXCEPT ![r] = R2] \/ run' = [run EXCEPT ![r] = NotRunning]
    BY <1>11 DEF EndFiling
  <2>3. JiraUnchanged /\ R.pc = "file"
    BY <1>11 DEF EndFiling
  <2> HIDE DEF R2
  <2> QED BY <1>0, <2>1, <2>2, <2>3, NotRunningIdle DEF JiraUnchanged
<1>12. CASE FollowUpSearch(r) \/ FollowUp(r)
  <2>1. JiraUnchanged /\ R.pc \in {"search", "check"}
    BY <1>12 DEF FollowUpSearch, FollowUp
  <2>2. /\ \A q \in Runs \ {r} : run'[q] = run[q]
        /\ run'[r].pc = "check" \/ (run'[r].pc = "read" /\ FollowUp(r))
    <3>1. CASE FollowUpSearch(r)
      <4>1. PICK page, closed : run' = [run EXCEPT ![r].pc = "check", ![r].queue = page,
                                                   ![r].closed = closed]
        BY <3>1 DEF FollowUpSearch
      <4> QED BY <4>1, <1>0 DEF Run
    <3>2. CASE FollowUp(r)
      <4> DEFINE i == Oldest(R.queue)
                 c == tickets[i].cve
      <4>1. \/ run' = [run EXCEPT ![r].queue = @ \ {i}]
            \/ \E res \in LookupCVE(c) :
                 run' = [run EXCEPT ![r].pc = "read", ![r].cve = c, ![r].id = i,
                                    ![r].done = i \in run[r].closed,
                                    ![r].f = applyLookup(res),
                                    ![r].sawZero = detected[c] = {}]
        BY <3>2 DEF FollowUp
      <4> HIDE DEF i, c
      <4>2. R.pc = "check"
        BY <3>2 DEF FollowUp
      <4>3. CASE run' = [run EXCEPT ![r].queue = @ \ {i}]
        BY <4>2, <4>3, <1>0 DEF Run
      <4>4. ASSUME NEW res \in LookupCVE(c),
                   run' = [run EXCEPT ![r].pc = "read", ![r].cve = c, ![r].id = i,
                                      ![r].done = i \in run[r].closed,
                                      ![r].f = applyLookup(res),
                                      ![r].sawZero = detected[c] = {}]
            PROVE  (\A q \in Runs \ {r} : run'[q] = run[q]) /\ run'[r].pc = "read"
        <5> DEFINE shut == i \in R.closed
                   zero == detected[c] = {}
        <5>1. run' = [run EXCEPT ![r].pc = "read", ![r].cve = c, ![r].id = i,
                                 ![r].done = shut, ![r].f = applyLookup(res),
                                 ![r].sawZero = zero]
          BY <4>4
        <5> HIDE DEF shut, zero
        <5> QED BY <5>1, <1>0 DEF Run
      <4> QED BY <4>1, <4>3, <4>4, <4>2, <3>2
    <3> QED BY <1>12, <3>1, <3>2
  <2> QED BY <2>1, <2>2 DEF JiraUnchanged
<1> QED BY <1>1, <1>2, <1>3, <1>4, <1>5, <1>6, <1>7, <1>8, <1>9, <1>10, <1>11, <1>12 DEF Step

\* The world leaves the runs, the number of tickets and their CVEs alone.
LEMMA WorldShape ==
    ASSUME TypeInv, World
    PROVE  /\ run' = run /\ Len(tickets') = Len(tickets)
           /\ \A i \in Ids : tickets'[i].cve = tickets[i].cve
<1>1. CASE \E c \in CVEs : Rescan(c) \/ KBRefresh(c)
  BY <1>1 DEF Rescan, KBRefresh, JiraUnchanged
<1>2. CASE \E i \in Ids : MoveTicket(i)
  BY <1>2, TicketType DEF MoveTicket, TypeInv, TypeOK, Ids, Ticket
<1>3. CASE DayPasses
  BY <1>3, TicketType DEF DayPasses, TypeInv, TypeOK, Ids, Ticket
<1> QED BY <1>1, <1>2, <1>3 DEF World

TicketInv == TypeInv /\ OneRun /\ NoneYet /\ OneTicketPerCVE

\* Every step keeps TicketInv, when no two runs overlap.
LEMMA TicketInvStep == ~Overlap /\ TicketInv /\ [Next]_vars => TicketInv'
<1> SUFFICES ASSUME ~Overlap, TicketInv, [Next]_vars PROVE TicketInv'
  OBVIOUS
<1>1. TypeInv' /\ TypeInv
  BY TypeInvStep DEF TicketInv
<1>u. CASE UNCHANGED vars
  BY <1>u, <1>1 DEF vars, TicketInv, OneRun, NoneYet, OneTicketPerCVE, Matching, Ids
<1>s. ASSUME NEW r \in Runs, Step(r) PROVE TicketInv'
  <2>1. \A q \in Runs : q # r => run[q].pc = "idle" /\ run'[q] = run[q]
    BY <1>s, <1>1, StepShape DEF TicketInv, OneRun
  <2>2. OneRun'
    BY <2>1 DEF OneRun
  <2>3. NoneYet'
    <3>1. SUFFICES ASSUME run'[r].pc = "create" PROVE Matching(run[r].cve)' = {}
      BY <2>1 DEF NoneYet
    <3>2. tickets' = tickets /\ Matching(run'[r].cve) = {}
      BY <3>1, <1>s, <1>1, StepShape
    <3> QED BY <3>2 DEF Matching, Ids
  <2>4. OneTicketPerCVE'
    <3>1. CASE Len(tickets') = Len(tickets) /\ \A i \in Ids : tickets'[i].cve = tickets[i].cve
      BY <3>1 DEF TicketInv, OneTicketPerCVE, Ids
    <3>2. ASSUME run[r].pc = "create", NEW t \in Ticket, t.cve = run[r].cve,
                 tickets' = Append(tickets, t)
          PROVE  OneTicketPerCVE'
      <4>1. \A i \in Ids : tickets[i].cve # t.cve
        BY <3>2 DEF TicketInv, NoneYet, Matching
      <4>2. /\ Len(tickets') = Len(tickets) + 1 /\ Len(tickets) \in Nat
            /\ \A i \in Ids : tickets'[i] = tickets[i]
            /\ tickets'[Len(tickets) + 1] = t
        BY <3>2, <1>1, AppendProperties, LenProperties DEF TypeInv, TypeOK, Ids
      <4>3. \A i \in Ids' : i \in Ids \/ i = Len(tickets) + 1
        BY <4>2 DEF Ids
      <4> QED BY <4>1, <4>2, <4>3 DEF TicketInv, OneTicketPerCVE
    <3> QED BY <3>1, <3>2, <1>s, <1>1, StepShape
  <2> QED BY <1>1, <2>2, <2>3, <2>4 DEF TicketInv
<1>w. ASSUME World PROVE TicketInv'
  <2>1. /\ run' = run /\ Len(tickets') = Len(tickets)
        /\ \A i \in Ids : tickets'[i].cve = tickets[i].cve
    BY <1>w, <1>1, WorldShape
  <2>2. Ids' = Ids
    BY <2>1 DEF Ids
  <2> QED BY <1>1, <2>1, <2>2 DEF TicketInv, OneRun, NoneYet, OneTicketPerCVE, Matching
<1> QED BY <1>u, <1>s, <1>w DEF Next

\* TicketInv holds at first.
LEMMA TicketInvInit == Init => TicketInv
BY TypeInvInit, NotRunningIdle, EmptySeq DEF Init, TicketInv, OneRun, NoneYet,
                                             OneTicketPerCVE, Ids

\* When runs do not overlap, no CVE ever gets a second ticket, whatever fails
\* and whenever a run is cut off.
THEOREM OneTicket == ASSUME ~Overlap PROVE Spec => []OneTicketPerCVE
<1>1. Init => TicketInv
  BY TicketInvInit
<1>2. TicketInv => OneTicketPerCVE
  BY DEF TicketInv
<1>3. TicketInv /\ [Next]_vars => TicketInv'
  BY TicketInvStep
<1> QED BY <1>1, <1>2, <1>3, PTL DEF Spec
-----------------------------------------------------------------------------
(* What is stored has been told.                                           *)

\* A run that is about to comment or to record: what it will store has been
\* commented, or was not there to be compared with, or is there already.
Announced ==
    \A r \in Runs :
        LET R == run[r] IN
        /\ R.pc = "comment" => R.plan \in {"comment", "closedComment"}
        /\ R.pc = "record" =>
              /\ R.plan \in {"file", "comment", "closedComment"} =>
                    R.f.hosts \subseteq ledger[R.id].told
              /\ R.plan = "recordOnly" =>
                    IF R.prev = NoState THEN R.absent ELSE R.prev = tickets[R.id].state

ToldInv == TicketInv /\ Announced /\ StoredIsTold

\* A state's hosts come from the finding.
LEMMA StateFromHosts ==
    ASSUME NEW f, NEW noted, NEW age
    PROVE  StateFrom(f, noted, age).hosts \subseteq f.hosts
BY DEF StateFrom

\* Recording stores only what was told, or taken over on a first look.
LEMMA RecordIsTold ==
    ASSUME ~ReadFails, ToldInv, NEW r \in Runs, SetProperty(r)
    PROVE  StoredIsTold'
<1> DEFINE R == run[r]
           st == StateToRecord(R.plan, R.prev, R.f)
           L == Recorded(ledger[R.id], R)
<1>0. /\ R \in Run /\ InHand(R, Ids) /\ R.pc = "record" /\ R.id \in Ids /\ TypeOK
  BY DEF ToldInv, TicketInv, TypeInv, TypeOK, SetProperty, InHand
<1>1. /\ tickets' = [tickets EXCEPT ![R.id].state = st]
      /\ ledger' = [ledger EXCEPT ![R.id] = L]
  BY DEF SetProperty
<1>2. ledger[R.id] \in Readers
  BY <1>0, LedgerType
<1>3. st # NoState => st.hosts \subseteq L.told \cup L.adopted
  <2>1. CASE R.plan \in {"file", "comment", "closedComment"}
    <3>1. st.hosts \subseteq R.f.hosts
      BY <2>1, StateFromHosts DEF StateToRecord
    <3>2. R.f.hosts \subseteq ledger[R.id].told
      BY <1>0, <2>1 DEF ToldInv, Announced
    <3>3. L.told = ledger[R.id].told \cap R.f.hosts
      BY <1>2, <2>1 DEF Recorded, Readers
    <3> QED BY <3>1, <3>2, <3>3
  <2>2. CASE R.plan = "recordOnly" /\ R.prev = NoState
    <3>1. R.absent
      BY <1>0, <2>2 DEF ToldInv, Announced
    <3>2. L.adopted = R.f.hosts
      BY <1>2, <2>2, <3>1 DEF Recorded, Readers
    <3> QED BY <2>2, <3>2, StateFromHosts DEF StateToRecord
  <2>3. CASE R.plan = "recordOnly" /\ R.prev # NoState
    <3>1. R.prev = tickets[R.id].state
      BY <1>0, <2>3 DEF ToldInv, Announced
    <3>2. L = ledger[R.id]
      BY <2>3 DEF Recorded
    <3>3. R.prev.hosts \subseteq ledger[R.id].told \cup ledger[R.id].adopted
      BY <1>0, <2>3, <3>1 DEF ToldInv, StoredIsTold
    <3>4. R.prev \in StateFields
      BY <1>0, <2>3 DEF Run, ExposureState
    <3>5. [R.prev EXCEPT !.age = 0].hosts = R.prev.hosts
      BY <3>4 DEF StateFields
    <3> QED BY <2>3, <3>2, <3>3, <3>5 DEF StateToRecord
  <2>4. CASE R.plan \in {"none", "closedNoted"}
    BY <2>4 DEF StateToRecord
  <2> QED BY <1>0, <2>1, <2>2, <2>3, <2>4 DEF Run
<1> HIDE DEF st, L
<1>4. /\ tickets'[R.id].state = st /\ ledger'[R.id] = L /\ Len(tickets') = Len(tickets)
      /\ \A i \in Ids : i # R.id => tickets'[i] = tickets[i] /\ ledger'[i] = ledger[i]
  BY <1>0, <1>1, TicketType, LedgerType DEF TypeOK, Ids, Ticket
<1>5. Ids' = Ids
  BY <1>4 DEF Ids
<1> QED BY <1>3, <1>4, <1>5 DEF StoredIsTold, ToldInv

\* Every step keeps ToldInv, when no two runs overlap and reads succeed.
LEMMA ToldInvStep == ~Overlap /\ ~ReadFails /\ ToldInv /\ [Next]_vars => ToldInv'
<1> SUFFICES ASSUME ~Overlap, ~ReadFails, ToldInv, [Next]_vars PROVE ToldInv'
  OBVIOUS
<1>1. TicketInv' /\ TicketInv /\ TypeInv /\ TypeOK /\ TypeOK' /\ Announced /\ StoredIsTold
  BY TicketInvStep DEF ToldInv, TicketInv, TypeInv
<1>u. CASE UNCHANGED vars
  BY <1>u, <1>1 DEF vars, ToldInv, Announced, StoredIsTold, Ids
<1>s. ASSUME NEW r \in Runs, Step(r) PROVE ToldInv'
  <2> DEFINE R == run[r]
  <2>0. R \in Run /\ InHand(R, Ids) /\ run \in [Runs -> Run]
    BY <1>1 DEF TypeInv, TypeOK
  <2>1. \A q \in Runs : q # r => run'[q].pc = "idle"
    BY <1>s, <1>1, StepShape DEF TicketInv, OneRun
  <2>n. NextItem(r).pc \in {"check", "file"}
    BY <2>0 DEF NextItem, Run
  <2>2. CASE JiraUnchanged /\ run'[r].pc \notin {"comment", "record"}
    BY <2>1, <2>2, <1>1 DEF ToldInv, Announced, StoredIsTold, JiraUnchanged, Ids
  <2>3. CASE CreateIssue(r)
    <3> DEFINE t == [cve |-> R.cve, done |-> FALSE, state |-> NoState]
               L == [told |-> R.f.hosts, adopted |-> {}, age |-> 0,
                     clear |-> FALSE, sure |-> FALSE, note |-> "no"]
               R2 == [R EXCEPT !.pc = "record", !.plan = "file", !.id = Len(tickets) + 1]
    <3>1. /\ tickets' = Append(tickets, t) /\ ledger' = Append(ledger, L)
          /\ run' = [run EXCEPT ![r] = R2] \/ run' = [run EXCEPT ![r] = NextItem(r)]
      BY <2>3 DEF CreateIssue
    <3>2. t \in Ticket /\ L \in Readers
      BY <2>0, ConstantsAssumption DEF Run, Ticket, Readers, Finding, Ages
    <3>3. L.told = R.f.hosts /\ t.state = NoState
      OBVIOUS
    <3>4. R2.pc = "record" /\ R2.plan = "file" /\ R2.id = Len(tickets) + 1 /\ R2.f = R.f
      BY <2>0 DEF Run
    <3> HIDE DEF t, L, R2
    <3>5. /\ Len(tickets) \in Nat /\ Len(ledger) = Len(tickets)
          /\ Len(tickets') = Len(tickets) + 1
          /\ tickets'[Len(tickets) + 1] = t /\ ledger'[Len(tickets) + 1] = L
          /\ \A i \in Ids : tickets'[i] = tickets[i] /\ ledger'[i] = ledger[i]
      BY <1>1, <3>1, <3>2, AppendProperties, LenProperties DEF TypeOK, Ids
    <3>6. \A i \in Ids' : i \in Ids \/ i = Len(tickets) + 1
      BY <3>5 DEF Ids
    <3>7. StoredIsTold'
      BY <1>1, <3>3, <3>5, <3>6 DEF StoredIsTold
    <3>8. run'[r] = R2 \/ run'[r] = NextItem(r)
      BY <3>1, <2>0
    <3>9. Announced'
      BY <2>1, <2>n, <3>3, <3>4, <3>5, <3>8 DEF Announced
    <3> QED BY <1>1, <3>7, <3>9 DEF ToldInv
  <2>4. CASE ReadState(r)
    <3> DEFINE prev == tickets[R.id].state
               plan == planUpdate(R.done, prev, R.f)
               gone == tickets[R.id].state = NoState
               With(pc) == [R EXCEPT !.pc = pc, !.plan = plan, !.prev = prev,
                                     !.absent = gone]
    <3>1. \/ run' = [run EXCEPT ![r] = With("comment")]
             /\ plan \in {"closedComment", "comment"}
          \/ /\ run' = [run EXCEPT ![r] = With("record")]
             /\ plan \notin {"closedComment", "comment"}
             /\ StateToRecord(plan, prev, R.f) # NoState
          \/ run' = [run EXCEPT ![r] = NextItem(r)]
      BY <2>4, <1>s DEF ReadState
    <3>2. plan \in {"closedNoted", "closedComment", "recordOnly", "comment"}
      BY PlanType
    <3>3. StateToRecord("closedNoted", prev, R.f) = NoState
      BY DEF StateToRecord
    <3>4. gone <=> prev = NoState
      OBVIOUS
    <3> HIDE DEF plan, gone
    <3>5. \A pc \in {"comment", "record"} :
             /\ With(pc).pc = pc /\ With(pc).plan = plan /\ With(pc).prev = prev
             /\ With(pc).absent = gone /\ With(pc).id = R.id
      BY <2>0 DEF Run
    <3> HIDE DEF With
    <3>6. JiraUnchanged
      BY <2>4 DEF ReadState
    <3>7. run'[r] \in {With("comment"), With("record"), NextItem(r)}
      BY <3>1, <2>0
    <3>8. /\ run'[r] = With("comment") => plan \in {"closedComment", "comment"}
          /\ run'[r] = With("record") => plan = "recordOnly"
      BY <3>1, <3>2, <3>3, <3>5, <2>0, <2>n
    <3>9. Announced'
      BY <2>1, <2>n, <3>4, <3>5, <3>6, <3>7, <3>8 DEF Announced, JiraUnchanged
    <3> QED BY <1>1, <3>6, <3>9 DEF ToldInv, StoredIsTold, JiraUnchanged, Ids
  <2>5. CASE AddComment(r)
    <3> DEFINE L == Told(ledger[R.id], CommentKind(r), R.f)
               R2 == [R EXCEPT !.pc = "record"]
    <3>1. /\ ledger' = [ledger EXCEPT ![R.id] = L] /\ tickets' = tickets
          /\ run' = [run EXCEPT ![r] = R2] \/ run' = [run EXCEPT ![r] = NextItem(r)]
          /\ R.pc = "comment"
      BY <2>5 DEF AddComment
    <3>2. R.id \in Ids /\ R.id \in 1 .. Len(ledger) /\ ledger[R.id] \in Readers
      BY <2>0, <3>1, <1>1, LedgerType DEF InHand
    <3>3. L.told = ledger[R.id].told \cup R.f.hosts /\ L.adopted = ledger[R.id].adopted
      BY <3>2 DEF Told, Readers
    <3>4. /\ R2.pc = "record" /\ R2.plan \in {"comment", "closedComment"}
          /\ R2.id = R.id /\ R2.f = R.f
      BY <2>0, <1>1, <3>1 DEF Run, Announced
    <3> HIDE DEF L, R2
    <3>5. ledger'[R.id] = L /\ \A i \in Ids : i # R.id => ledger'[i] = ledger[i]
      BY <3>1, <3>2, <1>1 DEF TypeOK, Ids
    <3>6. StoredIsTold'
      BY <1>1, <3>1, <3>3, <3>5 DEF StoredIsTold, Ids
    <3>7. run'[r] = R2 \/ run'[r] = NextItem(r)
      BY <3>1, <2>0
    <3>8. Announced'
      BY <2>1, <2>n, <3>3, <3>4, <3>5, <3>7 DEF Announced
    <3> QED BY <1>1, <3>6, <3>8 DEF ToldInv
  <2>6. CASE SetProperty(r)
    <3>1. run'[r].pc \notin {"comment", "record"}
      BY <2>6, <2>0, <2>n DEF SetProperty
    <3>2. StoredIsTold'
      BY <2>6, RecordIsTold
    <3> QED BY <1>1, <2>1, <3>1, <3>2 DEF ToldInv, Announced
  <2> QED BY <1>s, <1>1, <2>2, <2>3, <2>4, <2>5, <2>6, StepShape
<1>w. ASSUME World PROVE ToldInv'
  <2>1. CASE \E c \in CVEs : Rescan(c) \/ KBRefresh(c)
    BY <2>1, <1>1 DEF Rescan, KBRefresh, JiraUnchanged, ToldInv, Announced, StoredIsTold, Ids
  <2>2. ASSUME NEW i \in Ids, MoveTicket(i) PROVE ToldInv'
    <3>1. /\ Len(tickets') = Len(tickets) /\ ledger' = ledger /\ run' = run
          /\ \A j \in Ids : tickets'[j].state = tickets[j].state
      BY <2>2, <1>1, TicketType DEF MoveTicket, TypeOK, Ids, Ticket
    <3>2. Ids' = Ids /\ \A q \in Runs : run[q].pc \in {"comment", "record"} => run[q].id \in Ids
      BY <3>1, <1>1 DEF Ids, TypeInv, InHand
    <3> QED BY <1>1, <3>1, <3>2 DEF ToldInv, Announced, StoredIsTold
  <2>3. CASE DayPasses
    <3> DEFINE older(a) == IF a < GrowthInterval THEN a + 1 ELSE a
    <3>1. /\ \A r \in Runs : run[r].pc = "idle" /\ run' = run
          /\ tickets' = [i \in Ids |->
                  IF tickets[i].state = NoState THEN tickets[i]
                  ELSE [tickets[i] EXCEPT !.state.age = older(@)]]
          /\ ledger' = [i \in Ids |-> [ledger[i] EXCEPT !.age = older(@)]]
      BY <2>3 DEF DayPasses
    <3> HIDE DEF older
    <3>2. \A i \in Ids : /\ tickets'[i].state # NoState =>
                               /\ tickets[i].state # NoState
                               /\ tickets'[i].state.hosts = tickets[i].state.hosts
                         /\ ledger'[i].told = ledger[i].told
                         /\ ledger'[i].adopted = ledger[i].adopted
      BY <1>1, <3>1, TicketType, LedgerType DEF Ticket, ExposureState, StateFields, Readers
    <3>3. Ids' = Ids
      BY <1>1, <1>w, WorldShape DEF Ids
    <3> QED BY <1>1, <3>1, <3>2, <3>3 DEF ToldInv, Announced, StoredIsTold
  <2> QED BY <1>w, <2>1, <2>2, <2>3 DEF World
<1> QED BY <1>u, <1>s, <1>w DEF Next

\* When runs do not overlap and the property can be read, a stored host was
\* announced or taken over: what is stored silences nothing unannounced.
THEOREM StoredWasTold == ASSUME ~Overlap, ~ReadFails PROVE Spec => []StoredIsTold
<1>1. Init => ToldInv
  BY TicketInvInit, NotRunningIdle, EmptySeq DEF Init, ToldInv, Announced, StoredIsTold, Ids
<1>2. ToldInv => StoredIsTold
  BY DEF ToldInv
<1>3. ToldInv /\ [Next]_vars => ToldInv'
  BY ToldInvStep
<1> QED BY <1>1, <1>2, <1>3, PTL DEF Spec
-----------------------------------------------------------------------------
(* No false all-clear.                                                     *)

\* A run comparing an answer of no hosts with a ticket saw an estate without
\* a detection of the CVE.
ZeroSeen ==
    \A r \in Runs : run[r].pc \in {"read", "comment"} /\ run[r].f.count = 0 => run[r].sawZero

\* Every step keeps ZeroSeen, when every page of an answer is read.
LEMMA ZeroSeenStep == ASSUME ~PagesLost PROVE TypeInv /\ ZeroSeen /\ [Next]_vars => ZeroSeen'
<1> SUFFICES ASSUME TypeInv, ZeroSeen, [Next]_vars PROVE ZeroSeen'
  OBVIOUS
<1>u. CASE UNCHANGED vars
  BY <1>u DEF vars, ZeroSeen
<1>w. CASE World
  BY <1>w, WorldShape DEF ZeroSeen
<1>s. ASSUME NEW r \in Runs, Step(r) PROVE ZeroSeen'
  <2> DEFINE R == run[r]
  <2>0. R \in Run /\ InHand(R, Ids) /\ run \in [Runs -> Run]
    BY DEF TypeInv, TypeOK
  <2> SUFFICES ASSUME run'[r].pc \in {"read", "comment"}, run'[r].f.count = 0
               PROVE  run'[r].sawZero
    BY <1>s, StepShape DEF ZeroSeen
  <2>1. CASE FileOrUpdate(r)
    <3>1. PICK c \in Pending(r) :
           LET found == Matching(c)
               i == Oldest(found)
               held == c \notin run[r].auto
           IN  run' = [run EXCEPT ![r] =
                 IF found # {} /\ Writes(r)
                 THEN [@ EXCEPT !.pc = "read", !.following = FALSE, !.cve = c, !.id = i,
                                !.done = tickets[i].done, !.f = run[r].findings[c]]
                 ELSE IF found = {} /\ ~held /\ Writes(r)
                 THEN [@ EXCEPT !.pc = "create", !.following = FALSE, !.cve = c,
                                !.f = run[r].findings[c]]
                 ELSE Handled(r, c)]
      BY <2>1 DEF FileOrUpdate
    <3>2. R.findings[c].count > 0 /\ R.pc = "file"
      BY <2>1 DEF Pending, FileOrUpdate
    <3>3. Handled(r, c).pc = "file"
      BY <2>0, <3>2 DEF Handled, Run
    <3>4. run'[r].pc = "read" => run'[r].f = R.findings[c]
      BY <3>1, <3>3, <2>0 DEF Run
    <3>5. run'[r].pc # "comment"
      BY <3>1, <3>3, <2>0 DEF Run
    <3>6. R.findings[c].count \in Nat
      BY <2>0 DEF Run, Finding, Pending
    <3> QED BY <3>2, <3>4, <3>5, <3>6
  <2>2. CASE ReadState(r)
    <3>1. R.pc = "read"
      BY <2>2 DEF ReadState
    <3>2. run'[r].f = R.f /\ run'[r].sawZero = R.sawZero
      <4>1. NextItem(r).pc \in {"check", "file"}
        BY <2>0 DEF NextItem, Run
      <4> DEFINE gone == tickets[R.id].state = NoState
                 With(pc, prev) == [R EXCEPT !.pc = pc,
                                             !.plan = planUpdate(R.done, prev, R.f),
                                             !.prev = prev, !.absent = gone]
      <4>2. PICK prev : \/ run' = [run EXCEPT ![r] = With("comment", prev)]
                        \/ run' = [run EXCEPT ![r] = With("record", prev)]
                        \/ run' = [run EXCEPT ![r] = NextItem(r)]
        BY <2>2 DEF ReadState
      <4> HIDE DEF gone
      <4>3. \A pc : With(pc, prev).f = R.f /\ With(pc, prev).sawZero = R.sawZero
        BY <2>0 DEF Run
      <4> HIDE DEF With
      <4> QED BY <4>1, <4>2, <4>3, <2>0
    <3> QED BY <3>1, <3>2 DEF ZeroSeen
  <2>3. CASE FollowUp(r)
    <3> DEFINE i == Oldest(R.queue)
               c == tickets[i].cve
    <3>1. R.queue # {} /\ R.pc = "check"
      BY <2>3 DEF FollowUp
    <3>2. i \in Ids
      BY <3>1, <2>0, OldestIsOne DEF Ids, InHand
    <3>3. c \in CVEs
      BY <3>2, TicketType DEF TypeInv
    <3>4. \/ run' = [run EXCEPT ![r].queue = @ \ {i}]
          \/ \E res \in LookupCVE(c) :
               /\ followUpVerdict(res)
               /\ run' = [run EXCEPT ![r].pc = "read", ![r].cve = c, ![r].id = i,
                                     ![r].done = i \in run[r].closed,
                                     ![r].f = applyLookup(res),
                                     ![r].sawZero = detected[c] = {}]
      BY <2>3 DEF FollowUp
    <3> HIDE DEF i, c
    <3>5. CASE run' = [run EXCEPT ![r].queue = @ \ {i}]
      BY <3>1, <3>5, <2>0 DEF Run
    <3>6. ASSUME NEW res \in LookupCVE(c), followUpVerdict(res),
                 run' = [run EXCEPT ![r].pc = "read", ![r].cve = c, ![r].id = i,
                                    ![r].done = i \in run[r].closed,
                                    ![r].f = applyLookup(res),
                                    ![r].sawZero = detected[c] = {}]
          PROVE  run'[r].sawZero
      <4> DEFINE shut == i \in R.closed
                 zero == detected[c] = {}
      <4>1. run' = [run EXCEPT ![r].pc = "read", ![r].cve = c, ![r].id = i,
                               ![r].done = shut, ![r].f = applyLookup(res),
                               ![r].sawZero = zero]
        BY <3>6
      <4>2. applyLookup(res).count = 0 => zero
        BY <3>3, <3>6, LookupType DEF TypeInv, applyLookup
      <4>3. zero \in BOOLEAN
        OBVIOUS
      <4> HIDE DEF shut, zero
      <4>4. run'[r].f = applyLookup(res) /\ run'[r].sawZero = zero
        BY <4>1, <2>0 DEF Run
      <4> QED BY <4>2, <4>3, <4>4
    <3> QED BY <3>4, <3>5, <3>6
  <2> QED BY <1>s, <2>1, <2>2, <2>3, StepShape
<1> QED BY <1>u, <1>w, <1>s DEF Next

\* A step that comments "none remain" is taken by a run that saw none.
LEMMA ClearIsSeen ==
    ASSUME TypeInv, ZeroSeen, [Next]_vars
    PROVE  UNCHANGED vars \/ \A s \in said' : s.kind = "clear" => run[s.by].sawZero
<1>1. CASE UNCHANGED vars
  BY <1>1
<1>2. CASE World
  BY <1>2 DEF World, Rescan, KBRefresh, MoveTicket, DayPasses, Quiet
<1>3. ASSUME NEW r \in Runs, AddComment(r)
      PROVE  \A s \in said' : s.kind = "clear" => run[s.by].sawZero
  <2>1. said' = {[id |-> run[r].id, by |-> r, kind |-> CommentKind(r)]} /\ run[r].pc = "comment"
    BY <1>3 DEF AddComment
  <2>2. CommentKind(r) = "clear" => run[r].f.count = 0
    BY DEF CommentKind, Resolved
  <2> QED BY <2>1, <2>2 DEF ZeroSeen
<1>4. ASSUME NEW r \in Runs, Step(r), ~AddComment(r) PROVE said' = {}
  BY <1>4 DEF Step, StartRun, Select, Selected, FileOrUpdate, FileSearchFails, CreateIssue,
              CreateFails, ReadState, CommentFails, SetProperty, SetPropertyFails, EndFiling,
              FollowUpSearch, FollowUpSearchFails, FollowUp, EndFollowUp, Crash, Quiet
<1> QED BY <1>1, <1>2, <1>3, <1>4 DEF Next

\* When the pages of the scanner's answers can all be read, no run says "none
\* remain" without having met, in its own lookup, an estate without a
\* detection: whatever overlaps, fails or crashes.
THEOREM AllClearIsTrue == ASSUME ~PagesLost PROVE Spec => NoFalseAllClear
<1>1. Init => TypeInv /\ ZeroSeen
  BY TypeInvInit, NotRunningIdle DEF Init, ZeroSeen
<1>2. TypeInv /\ ZeroSeen /\ [Next]_vars => (TypeInv /\ ZeroSeen)'
  BY TypeInvStep, ZeroSeenStep
<1>3. TypeInv /\ ZeroSeen /\ [Next]_vars =>
        [\A s \in said' : s.kind = "clear" => run[s.by].sawZero]_vars
  BY ClearIsSeen
<1> QED BY <1>1, <1>2, <1>3, PTL DEF Spec, NoFalseAllClear
-----------------------------------------------------------------------------
(* Who may write.                                                          *)

\* A run that goes on to Jira may write; the one about to file has found its CVE
\* present and need not ask.
Allowed(R) ==
    /\ R.pc \in {"read", "create", "comment", "record"} => R.forReal /\ R.gate
    /\ R.pc = "create" => R.f.count > 0 /\ R.cve \in R.auto

AuthorInv == \A r \in Runs : Allowed(run[r])

\* Every step keeps AuthorInv.
LEMMA AuthorStep == TypeInv /\ AuthorInv /\ [Next]_vars => AuthorInv'
<1> SUFFICES ASSUME TypeInv, AuthorInv, [Next]_vars PROVE AuthorInv'
  OBVIOUS
<1>u. CASE UNCHANGED vars
  BY <1>u DEF vars, AuthorInv
<1>w. CASE World
  BY <1>w, WorldShape DEF AuthorInv
<1>s. ASSUME NEW r \in Runs, Step(r) PROVE AuthorInv'
  <2> DEFINE R == run[r]
  <2>0. R \in Run /\ InHand(R, Ids) /\ run \in [Runs -> Run] /\ Allowed(R)
    BY DEF TypeInv, TypeOK, AuthorInv
  <2>n. NextItem(r).pc \in {"check", "file"}
    BY <2>0 DEF NextItem, Run
  <2> SUFFICES ASSUME run'[r].pc \in {"read", "create", "comment", "record"}
               PROVE  Allowed(run'[r])
    BY <1>s, StepShape DEF AuthorInv, Allowed
  <2>1. CASE FileOrUpdate(r)
    <3>1. PICK c \in Pending(r) :
           LET found == Matching(c)
               i == Oldest(found)
               held == c \notin run[r].auto
           IN  run' = [run EXCEPT ![r] =
                 IF found # {} /\ Writes(r)
                 THEN [@ EXCEPT !.pc = "read", !.following = FALSE, !.cve = c, !.id = i,
                                !.done = tickets[i].done, !.f = run[r].findings[c]]
                 ELSE IF found = {} /\ ~held /\ Writes(r)
                 THEN [@ EXCEPT !.pc = "create", !.following = FALSE, !.cve = c,
                                !.f = run[r].findings[c]]
                 ELSE Handled(r, c)]
      BY <2>1 DEF FileOrUpdate
    <3>2. R.findings[c].count > 0 /\ R.pc = "file"
      BY <2>1 DEF Pending, FileOrUpdate
    <3>3. Handled(r, c).pc = "file"
      BY <2>0, <3>2 DEF Handled, Run
    <3> DEFINE i == Oldest(Matching(c))
               shut == tickets[i].done
               Reading == [R EXCEPT !.pc = "read", !.following = FALSE, !.cve = c, !.id = i,
                                    !.done = shut, !.f = R.findings[c]]
               Filing == [R EXCEPT !.pc = "create", !.following = FALSE, !.cve = c,
                                   !.f = R.findings[c]]
    <3>4. \/ run'[r] = Reading /\ Writes(r)
          \/ run'[r] = Filing /\ Writes(r) /\ c \in R.auto
      BY <3>1, <3>3, <2>0
    <3> HIDE DEF i, shut
    <3>5. /\ Reading.pc = "read" /\ Reading.forReal = R.forReal /\ Reading.gate = R.gate
          /\ Filing.pc = "create" /\ Filing.forReal = R.forReal /\ Filing.gate = R.gate
          /\ Filing.f = R.findings[c] /\ Filing.cve = c /\ Filing.auto = R.auto
      BY <2>0 DEF Run
    <3> HIDE DEF Reading, Filing
    <3> QED BY <3>2, <3>4, <3>5 DEF Writes, Allowed
  <2>2. CASE FollowUp(r)
    <3> DEFINE i == Oldest(R.queue)
               c == tickets[i].cve
               shut == i \in R.closed
               zero == detected[c] = {}
    <3>1. R.pc = "check"
      BY <2>2 DEF FollowUp
    <3>2. \/ run' = [run EXCEPT ![r].queue = @ \ {i}]
          \/ \E res \in LookupCVE(c) :
               /\ Writes(r)
               /\ run' = [run EXCEPT ![r].pc = "read", ![r].cve = c, ![r].id = i,
                                     ![r].done = shut, ![r].f = applyLookup(res),
                                     ![r].sawZero = zero]
      BY <2>2 DEF FollowUp
    <3> HIDE DEF i, c, shut, zero
    <3>3. CASE run' = [run EXCEPT ![r].queue = @ \ {i}]
      BY <3>1, <3>3, <2>0 DEF Run
    <3>4. ASSUME NEW res, Writes(r),
                 run' = [run EXCEPT ![r].pc = "read", ![r].cve = c, ![r].id = i,
                                    ![r].done = shut, ![r].f = applyLookup(res),
                                    ![r].sawZero = zero]
          PROVE  Allowed(run'[r])
      <4>1. /\ run'[r].pc = "read" /\ run'[r].forReal = R.forReal /\ run'[r].gate = R.gate
        BY <3>4, <2>0 DEF Run
      <4> QED BY <3>4, <4>1 DEF Writes, Allowed
    <3> QED BY <3>2, <3>3, <3>4
  <2>3. CASE ReadState(r)
    <3> DEFINE gone == tickets[R.id].state = NoState
               With(pc, prev) == [R EXCEPT !.pc = pc, !.plan = planUpdate(R.done, prev, R.f),
                                           !.prev = prev, !.absent = gone]
    <3>1. PICK prev : \/ run' = [run EXCEPT ![r] = With("comment", prev)]
                      \/ run' = [run EXCEPT ![r] = With("record", prev)]
                      \/ run' = [run EXCEPT ![r] = NextItem(r)]
      BY <2>3 DEF ReadState
    <3> HIDE DEF gone
    <3>2. \A pc : /\ With(pc, prev).pc = pc /\ With(pc, prev).forReal = R.forReal
                  /\ With(pc, prev).gate = R.gate
      BY <2>0 DEF Run
    <3> HIDE DEF With
    <3>3. \E pc \in {"comment", "record"} : run'[r] = With(pc, prev)
      BY <3>1, <2>0, <2>n
    <3> QED BY <3>2, <3>3, <2>0, <2>3 DEF ReadState, Allowed
  <2>4. CASE CreateIssue(r)
    <3> DEFINE R2 == [R EXCEPT !.pc = "record", !.plan = "file", !.id = Len(tickets) + 1]
    <3>1. R.pc = "create" /\ run'[r] \in {R2, NextItem(r)}
      BY <2>4, <2>0 DEF CreateIssue
    <3>2. R2.pc = "record" /\ R2.forReal = R.forReal /\ R2.gate = R.gate
      BY <2>0 DEF Run
    <3> HIDE DEF R2
    <3> QED BY <3>1, <3>2, <2>0, <2>n DEF Allowed
  <2>5. CASE AddComment(r)
    <3> DEFINE R2 == [R EXCEPT !.pc = "record"]
    <3>1. R.pc = "comment" /\ run'[r] \in {R2, NextItem(r)}
      BY <2>5, <2>0 DEF AddComment
    <3>2. R2.pc = "record" /\ R2.forReal = R.forReal /\ R2.gate = R.gate
      BY <2>0 DEF Run
    <3> HIDE DEF R2
    <3> QED BY <3>1, <3>2, <2>0, <2>n DEF Allowed
  <2>6. CASE SetProperty(r)
    BY <2>6, <2>0, <2>n DEF SetProperty
  <2> QED BY <1>s, <2>1, <2>2, <2>3, <2>4, <2>5, <2>6, StepShape
<1> QED BY <1>u, <1>w, <1>s DEF Next

LEMMA AuthorInit == Init => TypeInv /\ AuthorInv
BY TypeInvInit, NotRunningIdle DEF Init, AuthorInv, Allowed

\* Comments are made by AddComment alone.
LEMMA WhoComments ==
    ASSUME [Next]_vars, NEW s \in said', ~UNCHANGED vars
    PROVE  \E r \in Runs : /\ AddComment(r)
                           /\ s = [id |-> run[r].id, by |-> r, kind |-> CommentKind(r)]
<1>1. CASE World
  BY <1>1 DEF World, Rescan, KBRefresh, MoveTicket, DayPasses, Quiet
<1>2. ASSUME NEW r \in Runs, Step(r), ~AddComment(r) PROVE FALSE
  BY <1>2 DEF Step, StartRun, Select, Selected, FileOrUpdate, FileSearchFails, CreateIssue,
              CreateFails, ReadState, CommentFails, SetProperty, SetPropertyFails, EndFiling,
              FollowUpSearch, FollowUpSearchFails, FollowUp, EndFollowUp, Crash, Quiet
<1>3. ASSUME NEW r \in Runs, AddComment(r)
      PROVE  s = [id |-> run[r].id, by |-> r, kind |-> CommentKind(r)]
  BY <1>3 DEF AddComment
<1> QED BY <1>1, <1>2, <1>3 DEF Next

\* Jira is written to only by a run that is to do it for real, with its gate
\* open, and a ticket is filed for a present CVE that needs no approval, or has it;
\* whatever overlaps, fails or crashes (main.go; file.go, fileOrUpdate).
THEOREM WritesAreAuthorised == Spec => WritesAuthorised
<1> DEFINE Right ==
      /\ \A i \in Ids : tickets'[i].state # tickets[i].state =>
             run' = run \/ \E r \in Runs : run'[r] # run[r] /\ Authorised(r)
      /\ \A s \in said' : Authorised(s.by)
      /\ Len(tickets') > Len(tickets) =>
             \E r \in Runs : /\ Authorised(r) /\ run[r].f.count > 0
                             /\ run[r].cve = tickets'[Len(tickets')].cve
                             /\ run[r].cve \in run[r].auto
<1>1. TypeInv /\ AuthorInv /\ [Next]_vars => (TypeInv /\ AuthorInv)'
  BY TypeInvStep, AuthorStep
<1>2. ASSUME TypeInv, AuthorInv, [Next]_vars, ~UNCHANGED vars PROVE Right
  <2>1. ASSUME NEW s \in said' PROVE Authorised(s.by)
    <3>1. PICK r \in Runs : AddComment(r) /\ s.by = r
      BY <1>2, WhoComments
    <3> QED BY <3>1, <1>2 DEF AddComment, AuthorInv, Allowed, Authorised
  <2>2. CASE World
    <3>1. run' = run /\ Len(tickets') = Len(tickets) /\ Len(tickets) \in Nat
      BY <1>2, <2>2, WorldShape DEF TypeInv, TypeOK
    <3> QED BY <2>1, <3>1
  <2>3. ASSUME NEW r \in Runs, Step(r) PROVE Right
    <3> DEFINE R == run[r]
    <3>0. R \in Run /\ InHand(R, Ids) /\ run \in [Runs -> Run] /\ TypeOK /\ Allowed(R)
      BY <1>2 DEF TypeInv, TypeOK, AuthorInv
    <3>1. CASE CreateIssue(r)
      <4> DEFINE t == [cve |-> R.cve, done |-> FALSE, state |-> NoState]
      <4>1. tickets' = Append(tickets, t) /\ R.pc = "create"
        BY <3>1 DEF CreateIssue
      <4>2. t \in Ticket /\ t.cve = R.cve
        BY <3>0 DEF Run, Ticket
      <4> HIDE DEF t
      <4>3. /\ Len(tickets) \in Nat /\ Len(tickets') = Len(tickets) + 1
            /\ tickets'[Len(tickets')] = t
            /\ \A i \in Ids : tickets'[i] = tickets[i]
        BY <3>0, <4>1, <4>2, AppendProperties, LenProperties DEF TypeOK, Ids
      <4> QED BY <2>1, <3>0, <4>1, <4>2, <4>3 DEF Allowed, Authorised
    <3>2. CASE SetProperty(r)
      <4>1. PICK st : tickets' = [tickets EXCEPT ![R.id].state = st]
        BY <3>2 DEF SetProperty
      <4>2. Len(tickets') = Len(tickets) /\ Len(tickets) \in Nat
        BY <3>0, <4>1 DEF TypeOK, Ids
      <4>3. NextItem(r).pc \in {"check", "file"}
        BY <3>0 DEF NextItem, Run
      <4>4. R.pc = "record" /\ run'[r].pc # "record"
        BY <3>0, <3>2, <4>3 DEF SetProperty
      <4> QED BY <2>1, <3>0, <4>2, <4>4 DEF Allowed, Authorised
    <3>3. CASE tickets' = tickets
      <4>1. Len(tickets) \in Nat
        BY <3>0 DEF TypeOK
      <4> QED BY <2>1, <3>3, <4>1
    <3> QED BY <1>2, <2>3, <3>1, <3>2, <3>3, StepShape
            DEF ReadState, AddComment, JiraUnchanged
  <2> QED BY <1>2, <2>2, <2>3 DEF Next
<1>3. TypeInv /\ AuthorInv /\ [Next]_vars => [Right]_vars
  BY <1>2
<1> QED BY <1>1, <1>3, AuthorInit, PTL DEF Spec, WritesAuthorised
-----------------------------------------------------------------------------
(* News is told once.                                                      *)

\* What a ticket's readers know of it, its property says.
OnRecord(L, s) ==
    /\ L.note = "recorded" => s # NoState /\ s.noted
    /\ L.sure => /\ s # NoState /\ (L.clear <=> s.count = 0)
                 /\ s.age = Never \/ s.age <= L.age

\* What a run is about to comment or record comes of the property as it still is.
Planned(R, L, s) ==
    /\ R.plan = "file" => L.note = "no" /\ ~L.clear /\ R.f.count > 0
    /\ R.plan # "file" => R.prev = s
    /\ R.plan = "closedComment" => R.f.count > 0 /\ (s = NoState \/ ~s.noted)
    /\ R.plan = "comment" => s # NoState /\ Material(s, R.f)
    /\ R.plan = "recordOnly" => s = NoState \/ StartClock(s, R.f)
    /\ R.pc = "comment" => R.plan \in {"closedComment", "comment"}
    /\ R.pc = "record" => /\ R.plan \in {"file", "closedComment", "comment", "recordOnly"}
                          /\ R.plan = "comment" => (L.clear <=> R.f.count = 0)

NewsInv ==
    /\ TicketInv /\ AuthorInv
    /\ \A i \in Ids : OnRecord(ledger[i], tickets[i].state)
    /\ \A r \in Runs : run[r].pc \in {"comment", "record"} =>
          Planned(run[r], ledger[run[r].id], tickets[run[r].id].state)

\* A plan made of the property as it is.
LEMMA PlanIsPlanned ==
    ASSUME NEW L, NEW R, NEW s, NEW pc, R.prev = s, R.plan = planUpdate(R.done, s, R.f),
           R.f \in Finding,
           \/ R.pc = "comment" /\ R.plan \in {"closedComment", "comment"}
           \/ R.pc = "record" /\ R.plan \notin {"closedComment", "comment"}
              /\ StateToRecord(R.plan, s, R.f) # NoState
    PROVE  Planned(R, L, s)
<1>1. R.plan \in {"closedNoted", "closedComment", "recordOnly", "comment"}
  BY PlanType
<1>2. R.plan # "closedNoted"
  BY DEF StateToRecord
<1>3. R.plan = "closedComment" => R.f.count > 0 /\ (s = NoState \/ ~s.noted)
  BY DEF planUpdate
<1>4. R.plan = "comment" => s # NoState /\ Material(s, R.f)
  BY DEF planUpdate
<1>5. R.plan = "recordOnly" => s = NoState \/ StartClock(s, R.f)
  BY DEF StateToRecord
<1> QED BY <1>1, <1>2, <1>3, <1>4, <1>5 DEF Planned

\* The comment that was planned.
LEMMA KindIs ==
    ASSUME NEW r \in Runs, run[r].plan \in {"closedComment", "comment"}
    PROVE  IF run[r].plan = "closedComment" THEN CommentKind(r) = "closed"
           ELSE CommentKind(r) \in {"clear", "qids", "hosts"}
BY DEF CommentKind

\* A comment leaves the readers as unsure as the property is behind.
LEMMA CommentIsNews ==
    ASSUME NEW L \in Readers, NEW R \in Run, NEW s, NEW kind, OnRecord(L, s), Planned(R, L, s),
           R.pc = "comment",
           IF R.plan = "closedComment" THEN kind = "closed"
           ELSE kind \in {"clear", "qids", "hosts"}
    PROVE  /\ OnRecord(Told(L, kind, R.f), s)
           /\ Planned([R EXCEPT !.pc = "record"], Told(L, kind, R.f), s)
<1> DEFINE M == Told(L, kind, R.f)
           Q == [R EXCEPT !.pc = "record"]
<1>1. Q.pc = "record" /\ Q.plan = R.plan /\ Q.prev = R.prev /\ Q.f = R.f
  BY DEF Run
<1>2. R.plan \in {"closedComment", "comment"}
  BY DEF Planned
<1>3. CASE R.plan = "closedComment"
  <2>1. /\ M.note = "unrecorded" /\ M.sure = L.sure /\ M.clear = L.clear /\ M.age = L.age
    BY <1>3 DEF Told, Readers
  <2> HIDE DEF M, Q
  <2> QED BY <1>1, <1>3, <2>1 DEF OnRecord, Planned, M, Q
<1>4. CASE R.plan = "comment"
  <2>1. M.note = L.note /\ ~M.sure /\ (M.clear <=> R.f.count = 0)
    BY <1>4 DEF Told, Readers
  <2> HIDE DEF M, Q
  <2> QED BY <1>1, <1>4, <2>1 DEF OnRecord, Planned, M, Q
<1> QED BY <1>2, <1>3, <1>4

\* A state built from a finding has what is recorded.
LEMMA StateFromIs ==
    ASSUME NEW f, NEW noted, NEW age
    PROVE  LET s == StateFrom(f, noted, age)
           IN  s.count = f.count /\ s.noted = noted /\ s.age = age
BY DEF StateFrom

\* Recording what was planned puts what the readers know on the ticket.
LEMMA RecordIsKnown ==
    ASSUME NEW L \in Readers, NEW R \in Run, NEW s \in ExposureState \cup {NoState},
           OnRecord(L, s), Planned(R, L, s), R.pc = "record"
    PROVE  OnRecord(Recorded(L, R), StateToRecord(R.plan, R.prev, R.f))
<1> DEFINE M == Recorded(L, R)
           t == StateToRecord(R.plan, R.prev, R.f)
<1>1. /\ R.plan \in {"file", "closedComment", "comment", "recordOnly"}
      /\ R.f \in Finding /\ L.age \in Ages /\ L.clear \in BOOLEAN /\ L.sure \in BOOLEAN
  BY DEF Planned, Run, Readers
<1>2. ASSUME NEW noted \in BOOLEAN, NEW age \in Ages \cup {Never}
      PROVE  LET u == StateFrom(R.f, noted, age)
             IN  u # NoState /\ u.count = R.f.count /\ u.noted = noted /\ u.age = age
  <2>1. StateFrom(R.f, noted, age) \in StateFields
    BY <1>1, StateFromType DEF ExposureState
  <2> QED BY <2>1, StateFromIs, NoStateAssumption
<1>3. 0 \in Ages \cup {Never} /\ Never \in Ages \cup {Never} /\ L.age \in Nat
  BY <1>1, ConstantsAssumption DEF Ages, Never
<1>4. s # NoState => s.noted \in BOOLEAN /\ s.age \in Ages \cup {Never}
  BY DEF ExposureState, StateFields
<1>5. CASE R.plan = "file"
  <2>1. M.note = L.note /\ M.clear = L.clear /\ M.age = L.age
    BY <1>5 DEF Recorded, Readers
  <2>2. t = StateFrom(R.f, FALSE, 0)
    BY <1>5 DEF StateToRecord
  <2>3. L.note = "no" /\ ~L.clear /\ R.f.count > 0
    BY <1>5 DEF Planned
  <2> HIDE DEF M, t
  <2>4. t # NoState /\ t.count = R.f.count /\ t.age = 0
    BY <1>2, <1>3, <2>2
  <2> QED BY <1>1, <1>3, <2>1, <2>3, <2>4 DEF OnRecord, M, t, Finding
<1>6. CASE R.plan = "comment"
  <2>1. M.note = L.note /\ M.clear = L.clear /\ M.age = L.age
    BY <1>6 DEF Recorded, Readers
  <2>2. t = StateFrom(R.f, s.noted, 0) /\ s # NoState
    BY <1>6 DEF StateToRecord, Planned
  <2>3. L.clear <=> R.f.count = 0
    BY <1>6 DEF Planned
  <2>4. L.note = "recorded" => s.noted
    BY DEF OnRecord
  <2> HIDE DEF M, t
  <2>5. t # NoState /\ t.count = R.f.count /\ t.age = 0 /\ t.noted = s.noted
    BY <1>2, <1>3, <1>4, <2>2
  <2> QED BY <1>3, <2>1, <2>3, <2>4, <2>5 DEF OnRecord, M, t
<1>7. CASE R.plan = "closedComment"
  <2>1. M.note = "recorded" /\ ~M.clear /\ M.age = L.age /\ M.sure = L.sure
    BY <1>7 DEF Recorded, Readers
  <2>2. t = StateFrom(R.f, TRUE, IF s = NoState THEN Never ELSE s.age)
    BY <1>7 DEF StateToRecord, Planned
  <2>3. R.f.count > 0
    BY <1>7 DEF Planned
  <2>4. L.sure => s # NoState /\ (s.age = Never \/ s.age <= L.age)
    BY DEF OnRecord
  <2> HIDE DEF M, t
  <2>5. t # NoState /\ t.count = R.f.count /\ t.noted /\ (s # NoState => t.age = s.age)
    BY <1>2, <1>3, <1>4, <2>2
  <2> QED BY <1>1, <2>1, <2>3, <2>4, <2>5 DEF OnRecord, M, t, Finding
<1>8. CASE R.plan = "recordOnly"
  <2>1. M.note = L.note /\ M.clear = L.clear /\ M.age = L.age /\ M.sure = L.sure
    BY <1>8 DEF Recorded, Readers
  <2>2. CASE s = NoState
    <3>1. L.note # "recorded" /\ ~L.sure
      BY <2>2 DEF OnRecord
    <3> HIDE DEF M, t
    <3> QED BY <2>1, <3>1 DEF OnRecord, M, t
  <2>3. CASE s # NoState
    <3>1. t = [s EXCEPT !.age = 0] /\ s \in StateFields
      BY <1>8, <2>3 DEF StateToRecord, Planned, ExposureState
    <3>2. t \in StateFields /\ t.count = s.count /\ t.noted = s.noted /\ t.age = 0
      BY <1>3, <3>1 DEF StateFields
    <3>3. t # NoState
      BY <3>2, NoStateAssumption
    <3> HIDE DEF M, t
    <3> QED BY <1>3, <2>1, <3>2, <3>3 DEF OnRecord, M, t
  <2> QED BY <2>2, <2>3
<1> QED BY <1>1, <1>5, <1>6, <1>7, <1>8

\* A day passes for both.
LEMMA BothGrowOlder ==
    ASSUME NEW L \in Readers, NEW s \in ExposureState \cup {NoState}, OnRecord(L, s)
    PROVE  LET older(a) == IF a < GrowthInterval THEN a + 1 ELSE a
           IN  OnRecord([L EXCEPT !.age = older(@)],
                        IF s = NoState THEN s ELSE [s EXCEPT !.age = older(@)])
<1> DEFINE older(a) == IF a < GrowthInterval THEN a + 1 ELSE a
           M == [L EXCEPT !.age = older(@)]
           t == IF s = NoState THEN s ELSE [s EXCEPT !.age = older(@)]
<1>1. L.age \in Ages /\ GrowthInterval \in Nat /\ Never = GrowthInterval + 1
      /\ Ages = 0 .. GrowthInterval
  BY ConstantsAssumption DEF Readers, Ages, Never
<1>2. s # NoState => s \in StateFields /\ s.age \in Ages \cup {Never}
  BY DEF ExposureState, StateFields
<1>3. /\ older(Never) = Never
      /\ \A a \in Ages, b \in Ages : a <= b => older(a) <= older(b)
      /\ \A a \in Ages : older(a) \in Ages
  BY <1>1
<1> HIDE DEF older
<1>4. /\ M.note = L.note /\ M.sure = L.sure /\ M.clear = L.clear /\ M.age = older(L.age)
  BY DEF Readers
<1>5. s # NoState => /\ t \in StateFields /\ t.count = s.count /\ t.noted = s.noted
                     /\ t.age = older(s.age)
  <2>1. s # NoState => older(s.age) \in Ages \cup {Never}
    BY <1>2, <1>3
  <2> QED BY <1>2, <2>1 DEF StateFields
<1>6. (s # NoState => t # NoState) /\ (s = NoState => t = NoState)
  BY <1>5, NoStateAssumption
<1>7. ASSUME s # NoState, s.age = Never \/ s.age <= L.age
      PROVE  t.age = Never \/ t.age <= M.age
  BY <1>1, <1>2, <1>3, <1>4, <1>5, <1>7
<1> HIDE DEF M, t
<1>8. OnRecord(M, t)
  BY <1>4, <1>5, <1>6, <1>7 DEF OnRecord
<1> QED BY <1>8 DEF M, t, older

\* Every step keeps NewsInv, when no two runs overlap and reads succeed.
LEMMA NewsStep == ~Overlap /\ ~ReadFails /\ NewsInv /\ [Next]_vars => NewsInv'
<1> SUFFICES ASSUME ~Overlap, ~ReadFails, NewsInv, [Next]_vars PROVE NewsInv'
  OBVIOUS
<1>1. /\ TicketInv' /\ TicketInv /\ TypeInv /\ TypeOK /\ TypeOK' /\ AuthorInv /\ AuthorInv'
      /\ \A i \in Ids : OnRecord(ledger[i], tickets[i].state)
      /\ \A r \in Runs : run[r].pc \in {"comment", "record"} =>
            Planned(run[r], ledger[run[r].id], tickets[run[r].id].state)
  BY TicketInvStep, AuthorStep DEF NewsInv, TicketInv, TypeInv
<1>u. CASE UNCHANGED vars
  <2>1. Ids' = Ids /\ tickets' = tickets /\ ledger' = ledger /\ run' = run
    BY <1>u DEF vars, Ids
  <2> QED BY <1>1, <2>1 DEF NewsInv
<1>s. ASSUME NEW r \in Runs, Step(r) PROVE NewsInv'
  <2> DEFINE R == run[r]
  <2>0. R \in Run /\ InHand(R, Ids) /\ run \in [Runs -> Run] /\ Allowed(R)
    BY <1>1 DEF TypeInv, TypeOK, AuthorInv
  <2>1. \A q \in Runs : q # r => run'[q].pc = "idle"
    BY <1>s, <1>1, StepShape DEF TicketInv, OneRun
  <2>n. NextItem(r).pc \in {"check", "file"}
    BY <2>0 DEF NextItem, Run
  <2> SUFFICES /\ \A i \in Ids' : OnRecord(ledger'[i], tickets'[i].state)
               /\ run'[r].pc \in {"comment", "record"} =>
                    Planned(run'[r], ledger'[run'[r].id], tickets'[run'[r].id].state)
    BY <1>1, <2>1 DEF NewsInv
  <2>2. CASE JiraUnchanged /\ run'[r].pc \notin {"comment", "record"}
    BY <2>2, <1>1 DEF JiraUnchanged, Ids
  <2>3. CASE CreateIssue(r)
    <3> DEFINE t == [cve |-> R.cve, done |-> FALSE, state |-> NoState]
               L == [told |-> R.f.hosts, adopted |-> {}, age |-> 0,
                     clear |-> FALSE, sure |-> FALSE, note |-> "no"]
               R2 == [R EXCEPT !.pc = "record", !.plan = "file", !.id = Len(tickets) + 1]
    <3>1. /\ tickets' = Append(tickets, t) /\ ledger' = Append(ledger, L)
          /\ run' = [run EXCEPT ![r] = R2] \/ run' = [run EXCEPT ![r] = NextItem(r)]
          /\ R.pc = "create"
      BY <2>3 DEF CreateIssue
    <3>2. t \in Ticket /\ L \in Readers
      BY <2>0, ConstantsAssumption DEF Run, Ticket, Readers, Finding, Ages
    <3>3. L.note = "no" /\ ~L.clear /\ ~L.sure /\ t.state = NoState
      OBVIOUS
    <3>4. R2.pc = "record" /\ R2.plan = "file" /\ R2.id = Len(tickets) + 1 /\ R2.f = R.f
      BY <2>0 DEF Run
    <3> HIDE DEF t, L, R2
    <3>5. /\ Len(tickets) \in Nat /\ Len(ledger) = Len(tickets)
          /\ Len(tickets') = Len(tickets) + 1
          /\ tickets'[Len(tickets) + 1] = t /\ ledger'[Len(tickets) + 1] = L
          /\ \A i \in Ids : tickets'[i] = tickets[i] /\ ledger'[i] = ledger[i]
      BY <1>1, <3>1, <3>2, AppendProperties, LenProperties DEF TypeOK, Ids
    <3>6. \A i \in Ids' : i \in Ids \/ i = Len(tickets) + 1
      BY <3>5 DEF Ids
    <3>7. OnRecord(L, t.state)
      BY <3>3 DEF OnRecord
    <3>8. \A i \in Ids' : OnRecord(ledger'[i], tickets'[i].state)
      BY <1>1, <3>5, <3>6, <3>7
    <3>9. R.f.count > 0
      BY <2>0, <3>1 DEF Allowed
    <3>10. Planned(R2, L, t.state)
      BY <3>3, <3>4, <3>9 DEF Planned
    <3>11. run'[r] = R2 \/ run'[r] = NextItem(r)
      BY <3>1, <2>0
    <3> QED BY <2>n, <3>4, <3>5, <3>8, <3>10, <3>11
  <2>4. CASE ReadState(r)
    <3> DEFINE prev == tickets[R.id].state
               plan == planUpdate(R.done, prev, R.f)
               gone == prev = NoState
               With(pc) == [R EXCEPT !.pc = pc, !.plan = plan, !.prev = prev,
                                     !.absent = gone]
    <3>1. \/ run' = [run EXCEPT ![r] = With("comment")]
             /\ plan \in {"closedComment", "comment"}
          \/ /\ run' = [run EXCEPT ![r] = With("record")]
             /\ plan \notin {"closedComment", "comment"}
             /\ StateToRecord(plan, prev, R.f) # NoState
          \/ run' = [run EXCEPT ![r] = NextItem(r)]
      BY <2>4, <1>s DEF ReadState
    <3> HIDE DEF gone, prev, plan
    <3>2. \A pc \in {"comment", "record"} :
             /\ With(pc).pc = pc /\ With(pc).plan = plan /\ With(pc).prev = prev
             /\ With(pc).id = R.id /\ With(pc).f = R.f /\ With(pc).done = R.done
      BY <2>0 DEF Run
    <3> HIDE DEF With
    <3>3. JiraUnchanged /\ R.f \in Finding
      BY <2>4, <2>0 DEF ReadState, Run
    <3>4. plan = planUpdate(R.done, prev, R.f)
      BY DEF plan
    <3>5. ASSUME run'[r].pc \in {"comment", "record"}
          PROVE  Planned(run'[r], ledger[R.id], prev) /\ run'[r].id = R.id
      <4>1. PICK pc \in {"comment", "record"} :
              /\ run'[r] = With(pc)
              /\ \/ pc = "comment" /\ plan \in {"closedComment", "comment"}
                 \/ pc = "record" /\ plan \notin {"closedComment", "comment"}
                    /\ StateToRecord(plan, prev, R.f) # NoState
        BY <3>1, <3>5, <2>0, <2>n
      <4> DEFINE Q == With(pc)
      <4>2. /\ Q.prev = prev /\ Q.plan = planUpdate(Q.done, prev, Q.f) /\ Q.f \in Finding
            /\ \/ Q.pc = "comment" /\ Q.plan \in {"closedComment", "comment"}
               \/ Q.pc = "record" /\ Q.plan \notin {"closedComment", "comment"}
                  /\ StateToRecord(Q.plan, prev, Q.f) # NoState
        BY <3>2, <3>3, <3>4, <4>1
      <4> HIDE DEF Q
      <4>3. Planned(Q, ledger[R.id], prev)
        BY <4>2, PlanIsPlanned
      <4> QED BY <3>2, <4>1, <4>3 DEF Q
    <3> QED BY <1>1, <3>3, <3>5 DEF JiraUnchanged, Ids, prev
  <2>5. CASE AddComment(r)
    <3> DEFINE kind == CommentKind(r)
               L == Told(ledger[R.id], kind, R.f)
               R2 == [R EXCEPT !.pc = "record"]
               s == tickets[R.id].state
    <3>1. /\ ledger' = [ledger EXCEPT ![R.id] = L] /\ tickets' = tickets
          /\ run' = [run EXCEPT ![r] = R2] \/ run' = [run EXCEPT ![r] = NextItem(r)]
          /\ R.pc = "comment"
      BY <2>5 DEF AddComment
    <3>2. R.id \in Ids /\ R.id \in 1 .. Len(ledger) /\ ledger[R.id] \in Readers
      BY <2>0, <3>1, <1>1, LedgerType DEF InHand
    <3>3. OnRecord(ledger[R.id], s) /\ Planned(R, ledger[R.id], s)
      BY <1>1, <3>1, <3>2
    <3>4. IF R.plan = "closedComment" THEN kind = "closed" ELSE kind \in {"clear", "qids", "hosts"}
      BY <3>1, <3>3, KindIs DEF Planned
    <3> HIDE DEF kind, s
    <3>5. OnRecord(L, s) /\ Planned(R2, L, s)
      BY <2>0, <3>1, <3>2, <3>3, <3>4, CommentIsNews
    <3>6. R2.id = R.id
      BY <2>0 DEF Run
    <3> HIDE DEF L, R2
    <3>7. ledger'[R.id] = L /\ \A i \in Ids : i # R.id => ledger'[i] = ledger[i]
      BY <3>1, <3>2, <1>1 DEF TypeOK, Ids
    <3>8. \A i \in Ids' : OnRecord(ledger'[i], tickets'[i].state)
      BY <1>1, <3>1, <3>5, <3>7 DEF Ids, s
    <3>9. run'[r] = R2 \/ run'[r] = NextItem(r)
      BY <3>1, <2>0
    <3> QED BY <2>n, <3>1, <3>5, <3>6, <3>7, <3>8, <3>9 DEF s
  <2>6. CASE SetProperty(r)
    <3> DEFINE st == StateToRecord(R.plan, R.prev, R.f)
               L == Recorded(ledger[R.id], R)
    <3>1. /\ tickets' = [tickets EXCEPT ![R.id].state = st]
          /\ ledger' = [ledger EXCEPT ![R.id] = L]
          /\ run'[r].pc \notin {"comment", "record"} /\ R.pc = "record" /\ R.id \in Ids
      BY <2>6, <2>0, <2>n DEF SetProperty, InHand
    <3>2. /\ ledger[R.id] \in Readers
          /\ tickets[R.id].state \in ExposureState \cup {NoState}
      BY <1>1, <3>1, LedgerType, TicketType
    <3>3. OnRecord(L, st)
      BY <1>1, <2>0, <3>1, <3>2, RecordIsKnown
    <3> HIDE DEF st, L
    <3>4. /\ tickets'[R.id].state = st /\ ledger'[R.id] = L /\ Len(tickets') = Len(tickets)
          /\ \A i \in Ids : i # R.id => tickets'[i] = tickets[i] /\ ledger'[i] = ledger[i]
      BY <1>1, <3>1, TicketType, LedgerType DEF TypeOK, Ids, Ticket
    <3>5. Ids' = Ids
      BY <3>4 DEF Ids
    <3> QED BY <1>1, <3>1, <3>3, <3>4, <3>5
  <2> QED BY <1>s, <1>1, <2>2, <2>3, <2>4, <2>5, <2>6, StepShape
<1>w. ASSUME World PROVE NewsInv'
  <2> SUFFICES /\ \A i \in Ids' : OnRecord(ledger'[i], tickets'[i].state)
               /\ \A r \in Runs : run'[r].pc \in {"comment", "record"} =>
                    Planned(run'[r], ledger'[run'[r].id], tickets'[run'[r].id].state)
    BY <1>1 DEF NewsInv
  <2>1. CASE \E c \in CVEs : Rescan(c) \/ KBRefresh(c)
    BY <2>1, <1>1 DEF Rescan, KBRefresh, JiraUnchanged, Ids
  <2>2. ASSUME NEW i \in Ids, MoveTicket(i)
        PROVE  /\ \A j \in Ids' : OnRecord(ledger'[j], tickets'[j].state)
               /\ \A r \in Runs : run'[r].pc \in {"comment", "record"} =>
                    Planned(run'[r], ledger'[run'[r].id], tickets'[run'[r].id].state)
    <3>1. /\ Len(tickets') = Len(tickets) /\ ledger' = ledger /\ run' = run
          /\ \A j \in Ids : tickets'[j].state = tickets[j].state
      BY <2>2, <1>1, TicketType DEF MoveTicket, TypeOK, Ids, Ticket
    <3>2. Ids' = Ids /\ \A q \in Runs : run[q].pc \in {"comment", "record"} => run[q].id \in Ids
      BY <3>1, <1>1 DEF Ids, TypeInv, InHand
    <3> QED BY <1>1, <3>1, <3>2
  <2>3. CASE DayPasses
    <3> DEFINE older(a) == IF a < GrowthInterval THEN a + 1 ELSE a
               Old(s) == IF s = NoState THEN s ELSE [s EXCEPT !.age = older(@)]
    <3>1. /\ \A r \in Runs : run[r].pc = "idle" /\ run' = run
          /\ tickets' = [i \in Ids |->
                  IF tickets[i].state = NoState THEN tickets[i]
                  ELSE [tickets[i] EXCEPT !.state.age = older(@)]]
          /\ ledger' = [i \in Ids |-> [ledger[i] EXCEPT !.age = older(@)]]
      BY <2>3 DEF DayPasses
    <3>2. Ids' = Ids
      BY <1>1, <1>w, WorldShape DEF Ids
    <3>3. ASSUME NEW i \in Ids
          PROVE  /\ tickets'[i].state = Old(tickets[i].state)
                 /\ ledger'[i] = [ledger[i] EXCEPT !.age = older(@)]
      <4>1. tickets[i] \in Ticket
        BY <1>1, TicketType
      <4> HIDE DEF older
      <4> QED BY <3>1, <4>1 DEF Ticket
    <3>4. ASSUME NEW i \in Ids PROVE OnRecord(ledger'[i], tickets'[i].state)
      <4>1. /\ ledger[i] \in Readers /\ tickets[i].state \in ExposureState \cup {NoState}
            /\ OnRecord(ledger[i], tickets[i].state)
        BY <1>1, LedgerType, TicketType
      <4>2. OnRecord([ledger[i] EXCEPT !.age = older(@)], Old(tickets[i].state))
        BY <4>1, BothGrowOlder
      <4> QED BY <3>3, <4>2
    <3> QED BY <3>1, <3>2, <3>4
  <2> QED BY <1>w, <2>1, <2>2, <2>3 DEF World
<1> QED BY <1>u, <1>s, <1>w DEF Next

LEMMA NewsHolds == ASSUME ~Overlap, ~ReadFails PROVE Spec => []NewsInv
<1>1. Init => NewsInv
  BY TicketInvInit, AuthorInit, NotRunningIdle, EmptySeq DEF Init, NewsInv, Ids
<1>2. NewsInv /\ [Next]_vars => NewsInv'
  BY NewsStep
<1> QED BY <1>1, <1>2, PTL DEF Spec

\* A comment is news to the ticket's readers.
LEMMA CommentsAreNews ==
    ASSUME NewsInv, [Next]_vars, NEW s \in said', ~UNCHANGED vars
    PROVE  LET L == ledger[s.id]
           IN  /\ s.kind = "closed" => L.note # "recorded"
               /\ s.kind = "clear" => ~(L.clear /\ L.sure)
               /\ s.kind = "hosts" => L.age >= GrowthInterval \/ L.clear \/ ~L.sure
<1>1. PICK r \in Runs : /\ AddComment(r)
                        /\ s = [id |-> run[r].id, by |-> r, kind |-> CommentKind(r)]
  BY WhoComments
<1> DEFINE R == run[r]
           L == ledger[R.id]
           p == tickets[R.id].state
<1>2. R.pc = "comment" /\ R \in Run /\ InHand(R, Ids) /\ TypeOK
  BY <1>1 DEF AddComment, NewsInv, TicketInv, TypeInv, TypeOK
<1>3. R.id \in Ids /\ L \in Readers /\ p \in ExposureState \cup {NoState}
  BY <1>2, LedgerType, TicketType DEF InHand
<1>4. OnRecord(L, p) /\ Planned(R, L, p)
  BY <1>2, <1>3 DEF NewsInv
<1>5. s.kind = CommentKind(r) /\ s.id = R.id
  BY <1>1
<1>6. /\ R.plan \in {"closedComment", "comment"} /\ R.prev = p
  BY <1>2, <1>4 DEF Planned
<1>7. CASE R.plan = "closedComment"
  <2>1. s.kind = "closed" /\ L.note # "recorded"
    BY <1>4, <1>5, <1>7 DEF CommentKind, OnRecord, Planned
  <2> QED BY <1>5, <2>1
<1>8. CASE R.plan = "comment"
  <2>1. p # NoState /\ Material(p, R.f) /\ s.kind \in {"clear", "qids", "hosts"}
    BY <1>4, <1>5, <1>6, <1>8, KindIs DEF Planned
  <2>2. p \in StateFields /\ p.count \in Nat /\ p.age \in Ages \cup {Never} /\ L.age \in Nat
        /\ GrowthInterval \in Nat /\ Never = GrowthInterval + 1
    BY <1>3, <2>1, ConstantsAssumption DEF ExposureState, StateFields, Readers, Ages, Never
  <2>3. ASSUME s.kind = "clear" PROVE ~(L.clear /\ L.sure)
    <3>1. p.count > 0
      BY <1>5, <1>6, <1>8, <2>3 DEF CommentKind, Resolved
    <3> QED BY <1>4, <2>2, <3>1 DEF OnRecord
  <2>4. ASSUME s.kind = "hosts", ~L.clear, L.sure PROVE L.age >= GrowthInterval
    <3>1. ~Resolved(p, R.f) /\ NewQIDs(p, R.f) = {}
      BY <1>5, <1>6, <1>8, <2>4 DEF CommentKind
    <3>2. Grew(p, R.f) /\ ~holdGrowth(p, R.f)
      BY <2>1, <3>1 DEF Material
    <3>3. p.count # 0 /\ (p.age = Never \/ p.age <= L.age)
      BY <1>4, <2>4 DEF OnRecord
    <3>4. p.age # Never /\ ~(p.age < GrowthInterval)
      BY <3>2, <3>3 DEF holdGrowth
    <3> QED BY <2>2, <3>3, <3>4 DEF Ages
  <2> QED BY <1>5, <2>1, <2>3, <2>4
<1> QED BY <1>6, <1>7, <1>8

\* When runs do not overlap and the property can be read, a note that a closed
\* ticket's CVE is still detected is made once, if it was recorded (exposure.go,
\* ClosedButDetectedAt).
THEOREM NotedOnce == ASSUME ~Overlap, ~ReadFails PROVE Spec => ClosedNotedOnce
<1>1. NewsInv /\ [Next]_vars =>
        [\A s \in said' : s.kind = "closed" => ledger[s.id].note # "recorded"]_vars
  BY CommentsAreNews
<1> QED BY <1>1, NewsHolds, PTL DEF Spec, ClosedNotedOnce

\* So is the news that none remain, until something else was reported.
THEOREM ClearedOnce == ASSUME ~Overlap, ~ReadFails PROVE Spec => AllClearOnce
<1>1. NewsInv /\ [Next]_vars =>
        [\A s \in said' : s.kind = "clear" => ~(ledger[s.id].clear /\ ledger[s.id].sure)]_vars
  BY CommentsAreNews
<1> QED BY <1>1, NewsHolds, PTL DEF Spec, AllClearOnce

\* And host changes are GrowthInterval apart (followup.go, holdGrowth).
THEOREM GrowthIsPaced == ASSUME ~Overlap, ~ReadFails PROVE Spec => GrowthPaced
<1>1. NewsInv /\ [Next]_vars =>
        [\A s \in said' : s.kind = "hosts" =>
            LET L == ledger[s.id] IN L.age >= GrowthInterval \/ L.clear \/ ~L.sure]_vars
  BY CommentsAreNews
<1> QED BY <1>1, NewsHolds, PTL DEF Spec, GrowthPaced
=============================================================================
