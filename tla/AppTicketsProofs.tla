-------------------------- MODULE AppTicketsProofs --------------------------
(***************************************************************************)
(* Theorems of AppTickets, for every value of its constants.               *)
(*                                                                         *)
(* TypeInv adds to TypeOK the type of the run's record and which of its    *)
(* fields are set at which point.  On top of it:                           *)
(*   OpenInv     an open ticket with a later one of its application was    *)
(*               reopened, and so was any open one of the application a    *)
(*               run is about to file for: what the search did not find    *)
(*               cannot be there unless a person put it back;              *)
(*   SayInv      the run compares with the property the ticket has still,  *)
(*               and what it is about to record its readers were told;     *)
(*   RetireInv   what is still to close, with what was closed, is within   *)
(*               both caps, and every ticket of it is of an application    *)
(*               the run's list does not name.                             *)
(***************************************************************************)
EXTENDS AppTickets, FiniteSetTheorems, SequenceTheorems, WellFoundedInduction, TLAPS

States == AppscanState \cup {ZeroState}

RunRecord ==
    [pc : {"idle", "apps", "property", "plan", "create", "comment", "record", "retire", "close"},
     todo : SUBSET Apps, app : Apps \cup {"none"}, f : Findings \cup {{}}, id : Nat,
     prev : States, plan : {"nothing", "create", "done", "comment"}, routed : BOOLEAN,
     scanned : SUBSET Apps, list : SUBSET Apps, judged : Nat, queue : SUBSET Nat, closed : Nat]

\* What the record says of the ticket in hand, out of the tickets I.
InHand(R, I) ==
    /\ R.id \in {0} \cup I /\ R.queue \subseteq I
    /\ R.pc \in {"property", "plan", "create", "comment", "record"} => R.app \in Apps
    /\ R.pc \in {"property", "comment", "record"} => R.id # 0
    /\ R.pc = "create" => R.id = 0 /\ R.plan = "create" /\ R.f # {} /\ R.prev = ZeroState
    /\ R.pc = "apps" \/ (R.pc = "plan" /\ R.id = 0) => R.prev = ZeroState
    /\ R.pc = "comment" => \/ R.plan = "done" /\ R.f = {} /\ ~R.prev.resolved
                           \/ R.plan = "comment" /\ R.f # {} /\ R.prev.hash # R.f
    /\ R.pc = "record" => \/ R.plan = "done" /\ R.f = {}
                          \/ R.plan \in {"create", "comment"} /\ R.f # {}

TypeInv == TypeOK /\ run \in RunRecord /\ InHand(run, Ids)

\* An open ticket that is not its application's newest was reopened, and the
\* run files only for an application all of whose open tickets were.
OpenInv ==
    /\ \A i, j \in Ids : i < j /\ tickets[i].app = tickets[j].app /\ tickets[i].open
                            => tickets[i].reopened
    /\ run.pc \in {"plan", "create"} /\ run.id = 0 =>
          \A i \in Ids : tickets[i].app = run.app /\ tickets[i].open => tickets[i].reopened

\* What the run holds of the ticket's property is so, and what it is about to
\* record has been told.
SayInv ==
    /\ run.pc \in {"plan", "comment", "record"} /\ run.id # 0 => run.prev = PropOf(run.id)
    /\ run.pc = "record" => told[run.id] = IF run.plan = "done" THEN Finished ELSE run.f

\* The retirement under way is within its caps and closes what is gone.
RetireInv ==
    /\ run.pc # "close" => run.closed = 0 /\ run.queue = {}
    /\ run.pc = "close" =>
          /\ IsFiniteSet(run.queue)
          /\ run.closed + Cardinality(run.queue) <= MaxRetirePerRun
          /\ run.closed + Cardinality(run.queue) > 1 =>
                2 * (run.closed + Cardinality(run.queue)) <= run.judged
          /\ run.scanned \subseteq run.list
          /\ \A i \in run.queue : tickets[i].app \notin run.list /\ tickets[i].prop # NoState
-----------------------------------------------------------------------------
(* The operators.                                                          *)

\* The least of a set of ticket numbers is one of them.
LEMMA OldestIsOne ==
    ASSUME NEW S \in SUBSET Nat, S # {}
    PROVE  Oldest(S) \in S /\ \A j \in S : Oldest(S) <= j
<1>1. PICK i \in S : \A j \in S : ~(<<j, i>> \in OpToRel(<, Nat))
  BY NatLessThanWellFounded, WFMin
<1>2. ASSUME NEW j \in S PROVE i <= j
  <2>1. ~(j < i)
    BY <1>1 DEF OpToRel
  <2> QED BY <2>1
<1> QED BY <1>2 DEF Oldest

\* So is the greatest, of a set of numbers up to n.
LEMMA NewestIsOne ==
    ASSUME NEW n \in Nat, NEW S \in SUBSET (1 .. n)
    PROVE  /\ S = {} => Newest(S) = 0
           /\ S # {} => Newest(S) \in S
<1>1. ASSUME S # {} PROVE \E i \in S : \A j \in S : j <= i
  <2> DEFINE T == {m \in Nat : n - m \in S}
  <2>1. T # {}
    <3>1. PICK k \in S : TRUE
      BY <1>1
    <3>2. n - k \in Nat /\ n - (n - k) = k
      OBVIOUS
    <3> QED BY <3>1, <3>2
  <2>2. PICK m \in T : \A l \in T : ~(<<l, m>> \in OpToRel(<, Nat))
    BY <2>1, NatLessThanWellFounded, WFMin
  <2>3. ASSUME NEW j \in S PROVE j <= n - m
    <3>1. n - j \in Nat /\ n - (n - j) = j
      OBVIOUS
    <3>2. ~(n - j < m)
      BY <2>2, <3>1 DEF OpToRel
    <3> QED BY <3>2
  <2> QED BY <2>2, <2>3
<1> QED BY <1>1 DEF Newest

\* The empty list has no findings, and the states are no sentinel.
LEMMA StateFacts ==
    /\ \A a \in Apps : {} \in FindingsOf[a] /\ FindingsOf[a] \subseteq Findings
    /\ ZeroState \in States /\ ZeroState.hash = {} /\ ZeroState.resolved = FALSE
    /\ \A s \in States : s.hash \in Findings \cup {{}} /\ s.resolved \in BOOLEAN
    /\ NoState \notin AppscanState
<1>1. \A a \in Apps : {} \in FindingsOf[a] /\ FindingsOf[a] \subseteq Findings
  BY ConstantsAssumption DEF Findings
<1>2. ZeroState \in States /\ ZeroState.hash = {} /\ ZeroState.resolved = FALSE
  BY DEF States, ZeroState
<1>3. \A s \in States : s.hash \in Findings \cup {{}} /\ s.resolved \in BOOLEAN
  BY <1>2 DEF States, AppscanState
<1> QED BY <1>1, <1>2, <1>3, StatesAssumption

\* What is recorded of an application is a state of its own.
LEMMA StateToRecordType ==
    ASSUME Apps # {}, NEW prev \in States, NEW f \in Findings \cup {{}},
           NEW plan \in {"done", "create", "comment"}, plan # "done" => f # {}
    PROVE  StateToRecord(plan, prev, f) \in AppscanState
<1>1. {} \in Findings
  BY StateFacts
<1>2. prev.hash \in Findings
  BY <1>1, StateFacts
<1>3. CASE plan = "done"
  BY <1>2, <1>3 DEF StateToRecord, AppscanState
<1>4. CASE plan # "done"
  BY <1>4 DEF StateToRecord, AppscanState
<1> QED BY <1>3, <1>4

\* What planApp decides, and on what grounds.
LEMMA PlanGrounds ==
    ASSUME NEW open \in BOOLEAN, NEW prev \in States, NEW f \in Findings \cup {{}}
    PROVE  LET plan == planApp(open, prev, f)
           IN  /\ plan \in {"nothing", "create", "done", "comment"}
               /\ plan = "create" => ~open /\ f # {}
               /\ plan = "done" => open /\ f = {} /\ ~prev.resolved
               /\ plan = "comment" => open /\ f # {} /\ prev.hash # f
               /\ plan = "nothing" /\ open => IF f = {} THEN prev.resolved ELSE prev.hash = f
<1>1. prev.resolved \in BOOLEAN
  BY StateFacts
<1> QED BY <1>1 DEF planApp

\* What planRetire takes up.
LEMMA RetireGrounds ==
    ASSUME NEW open, IsFiniteSet(open), NEW own, NEW list, NEW scanned,
           planRetire(open, own, list, scanned) # {}
    PROVE  LET gone == planRetire(open, own, list, scanned)
           IN  /\ gone \subseteq open \cap own /\ IsFiniteSet(gone)
               /\ \A i \in gone : tickets[i].app \notin list
               /\ scanned \subseteq list
               /\ Cardinality(gone) <= MaxRetirePerRun
               /\ Cardinality(gone) > 1 => 2 * Cardinality(gone) <= Cardinality(open)
<1> DEFINE gone == {i \in open \cap own : tickets[i].app \notin list}
<1>1. gone \subseteq open /\ IsFiniteSet(gone) /\ Cardinality(gone) \in Nat
      /\ Cardinality(open) \in Nat
  BY FS_Subset, FS_CardinalityType
<1>2. planRetire(open, own, list, scanned) = gone
  BY DEF planRetire
<1>3. /\ scanned \subseteq list /\ ~(Cardinality(gone) > MaxRetirePerRun)
      /\ ~(Cardinality(gone) > 1 /\ 2 * Cardinality(gone) > Cardinality(open))
  BY DEF planRetire
<1>4. \A i \in gone : i \in open \cap own /\ tickets[i].app \notin list
  OBVIOUS
<1> HIDE DEF gone
<1> QED BY <1>1, <1>2, <1>3, <1>4, ConstantsAssumption
-----------------------------------------------------------------------------
(* Types.                                                                  *)

\* The fields of a ticket, and what its readers were told.
LEMMA TicketType ==
    ASSUME TypeOK, NEW i \in Ids
    PROVE  /\ i \in Nat /\ i # 0 /\ i \in 1 .. MaxTickets
           /\ tickets[i] \in Ticket /\ tickets[i].app \in Apps
           /\ tickets[i].open \in BOOLEAN /\ tickets[i].reopened \in BOOLEAN
           /\ tickets[i].prop \in AppscanState \cup {NoState}
           /\ i \in DOMAIN told /\ told[i] \in Said
<1>1. tickets[i] \in Ticket /\ told[i] \in Said /\ i \in DOMAIN told
  BY ElementOfSeq DEF TypeOK, Ids
<1>2. Len(tickets) \in Nat /\ Ids = 1 .. Len(tickets) /\ MaxTickets \in Nat
  BY LenProperties, ConstantsAssumption DEF TypeOK, Ids
<1>3. i \in Nat /\ i # 0 /\ i \in 1 .. MaxTickets
  BY <1>2 DEF TypeOK
<1> QED BY <1>1, <1>3 DEF Ticket

\* The property of a ticket in hand is a state.
LEMMA PropOfType ==
    ASSUME TypeOK, NEW i \in Ids
    PROVE  PropOf(i) \in States /\ (tickets[i].prop # NoState => PropOf(i) = tickets[i].prop)
BY TicketType DEF PropOf, States

\* The record of a process that is not running.
LEMMA IdleType ==
    ASSUME NEW I
    PROVE  /\ NotRunning \in RunRecord /\ InHand(NotRunning, I)
           /\ NotRunning.pc = "idle" /\ NotRunning.closed = 0 /\ NotRunning.queue = {}
<1>1. ZeroState \in States
  BY StateFacts
<1>2. NotRunning \in RunRecord
  BY <1>1 DEF NotRunning, RunRecord
<1> QED BY <1>2 DEF NotRunning, InHand

\* Putting an application aside keeps the run typed.
LEMMA NextAppType ==
    ASSUME NEW R \in RunRecord, NEW I, InHand(R, I)
    PROVE  /\ NextApp(R) \in RunRecord /\ InHand(NextApp(R), I)
           /\ NextApp(R).pc = "apps" /\ NextApp(R).queue = R.queue
           /\ NextApp(R).closed = R.closed
<1>1. ZeroState \in States
  BY StateFacts
<1>2. NextApp(R) \in RunRecord
  BY <1>1 DEF NextApp, RunRecord
<1>3. /\ NextApp(R).pc = "apps" /\ NextApp(R).id = 0 /\ NextApp(R).queue = R.queue
      /\ NextApp(R).closed = R.closed /\ NextApp(R).prev = ZeroState
  BY DEF NextApp, RunRecord
<1> QED BY <1>2, <1>3 DEF InHand

\* So does taking the next one up.
LEMMA TakenType ==
    ASSUME run \in RunRecord, InHand(run, Ids), run.pc = "apps", run.todo # {}
    PROVE  /\ Turn \in Apps /\ Taken \in RunRecord /\ InHand(Taken, Ids)
           /\ Taken.pc = "apps" /\ Taken.queue = run.queue /\ Taken.closed = run.closed
           /\ Taken.prev = ZeroState
<1>1. Turn \in run.todo
  BY DEF Turn
<1>2. run.todo \subseteq Apps /\ run.scanned \subseteq Apps
  BY DEF RunRecord
<1>3. Taken = [run EXCEPT !.todo = run.todo \ {Turn}, !.scanned = run.scanned \cup {Turn}]
  BY DEF Taken
<1>4. Taken \in RunRecord
  BY <1>1, <1>2, <1>3 DEF RunRecord
<1>5. /\ Taken.pc = "apps" /\ Taken.queue = run.queue /\ Taken.id = run.id
      /\ Taken.closed = run.closed /\ Taken.prev = run.prev /\ run.prev = ZeroState
  BY <1>3 DEF RunRecord, InHand
<1> QED BY <1>1, <1>2, <1>4, <1>5 DEF InHand

\* Most steps change the run's record and nothing else.
LEMMA RunStepType ==
    ASSUME TypeInv, NEW R \in RunRecord, InHand(R, Ids), run' = R, JiraUnchanged
    PROVE  TypeInv'
<1>1. R.pc \in {"idle", "apps", "property", "plan", "create", "comment", "record",
                "retire", "close"}
  BY DEF RunRecord
<1> QED BY <1>1 DEF TypeInv, TypeOK, InHand, Ids, JiraUnchanged

\* A step that rewrites one ticket.
LEMMA EditType ==
    ASSUME TypeInv, NEW i \in Ids, NEW t \in Ticket, tickets' = [tickets EXCEPT ![i] = t],
           told' = told, NEW R \in RunRecord, InHand(R, Ids), run' = R
    PROVE  /\ TypeInv' /\ Ids' = Ids /\ tickets'[i] = t
           /\ \A j \in Ids \ {i} : tickets'[j] = tickets[j]
<1>1. tickets \in Seq(Ticket)
  BY DEF TypeInv, TypeOK
<1>2. tickets' \in Seq(Ticket) /\ Len(tickets') = Len(tickets)
  BY <1>1, ExceptSeq DEF Ids
<1>3. Ids' = Ids
  BY <1>1, <1>2 DEF Ids
<1>4. tickets'[i] = t /\ \A j \in Ids \ {i} : tickets'[j] = tickets[j]
  BY <1>1 DEF Ids
<1>5. R.pc \in {"idle", "apps", "property", "plan", "create", "comment", "record",
                "retire", "close"}
  BY DEF RunRecord
<1>6. TypeInv'
  BY <1>2, <1>3, <1>5 DEF TypeInv, TypeOK, InHand
<1> QED BY <1>3, <1>4, <1>6

\* A step that files a ticket.
LEMMA FileType ==
    ASSUME TypeInv, NEW t \in Ticket, NEW l \in Said, Len(tickets) < MaxTickets,
           tickets' = Append(tickets, t), told' = Append(told, l),
           NEW R \in RunRecord, InHand(R, Ids \cup {Len(tickets) + 1}), run' = R
    PROVE  /\ TypeInv' /\ Ids' = Ids \cup {Len(tickets) + 1} /\ Len(tickets) \in Nat
           /\ tickets'[Len(tickets) + 1] = t /\ told'[Len(tickets) + 1] = l
           /\ \A j \in Ids : j < Len(tickets) + 1
                             /\ tickets'[j] = tickets[j] /\ told'[j] = told[j]
<1>1. tickets \in Seq(Ticket) /\ told \in Seq(Said) /\ Len(told) = Len(tickets)
      /\ MaxTickets \in Nat
  BY ConstantsAssumption DEF TypeInv, TypeOK
<1>2. /\ tickets' \in Seq(Ticket) /\ Len(tickets') = Len(tickets) + 1
      /\ told' \in Seq(Said) /\ Len(told') = Len(tickets') /\ Len(tickets) \in Nat
  BY <1>1, AppendProperties, LenProperties
<1>3. Ids' = Ids \cup {Len(tickets) + 1}
  BY <1>1, <1>2 DEF Ids
<1>4. /\ tickets'[Len(tickets) + 1] = t /\ told'[Len(tickets) + 1] = l
      /\ \A j \in Ids : tickets'[j] = tickets[j] /\ told'[j] = told[j]
      /\ \A j \in Ids : j < Len(tickets) + 1
  BY <1>1, <1>2, AppendProperties DEF Ids
<1>5. R.pc \in {"idle", "apps", "property", "plan", "create", "comment", "record",
                "retire", "close"}
  BY DEF RunRecord
<1>6. InHand(R, Ids')
  BY <1>3
<1>7. Len(tickets') <= MaxTickets
  BY <1>1, <1>2
<1>8. R.id \in {0} \cup Ids' /\ R.queue \subseteq Ids'
  BY <1>6 DEF InHand
<1>9. TypeInv'
  BY <1>2, <1>5, <1>6, <1>7, <1>8 DEF TypeInv, TypeOK
<1> QED BY <1>2, <1>3, <1>4, <1>9

\* A decision the run goes ahead with.
LEMMA GoAheadType ==
    ASSUME TypeInv, GoAhead
    PROVE  \E f \in FindingsOf[run.app], routed \in BOOLEAN :
             LET R == [run EXCEPT !.pc = IF PlanFor(f) = "create" THEN "create" ELSE "comment",
                                  !.f = f, !.plan = PlanFor(f), !.routed = routed]
             IN  /\ run' = R /\ R \in RunRecord /\ InHand(R, Ids)
                 /\ R.id = run.id /\ R.app = run.app /\ R.prev = run.prev
                 /\ R.queue = run.queue /\ R.closed = run.closed
                 /\ R.pc \in {"create", "comment"}
<1>1. run.pc = "plan" /\ run \in RunRecord /\ InHand(run, Ids) /\ run.prev \in States
  BY DEF GoAhead, TypeInv, RunRecord
<1>2. PICK f \in FindingsOf[run.app], routed \in BOOLEAN :
        /\ PlanFor(f) # "nothing"
        /\ run' = [run EXCEPT !.pc = IF PlanFor(f) = "create" THEN "create" ELSE "comment",
                              !.f = f, !.plan = PlanFor(f), !.routed = routed]
  BY DEF GoAhead
<1>3. f \in Findings \cup {{}}
  BY <1>1, StateFacts DEF InHand
<1> DEFINE p == PlanFor(f)
           R == [run EXCEPT !.pc = IF p = "create" THEN "create" ELSE "comment",
                            !.f = f, !.plan = p, !.routed = routed]
<1>4. /\ p \in {"create", "done", "comment"}
      /\ p = "create" => run.id = 0 /\ f # {}
      /\ p = "done" => run.id # 0 /\ f = {} /\ ~run.prev.resolved
      /\ p = "comment" => run.id # 0 /\ f # {} /\ run.prev.hash # f
  BY <1>1, <1>2, <1>3, PlanGrounds DEF PlanFor
<1> HIDE DEF p
<1>5. R \in RunRecord
  BY <1>1, <1>3, <1>4 DEF RunRecord
<1>6. /\ R.pc = IF p = "create" THEN "create" ELSE "comment"
      /\ R.f = f /\ R.plan = p /\ R.id = run.id /\ R.app = run.app /\ R.prev = run.prev
      /\ R.queue = run.queue /\ R.closed = run.closed
  BY <1>1 DEF RunRecord
<1>7. run' = R
  BY <1>2 DEF p
<1> HIDE DEF R
<1>8. InHand(R, Ids)
  BY <1>1, <1>4, <1>6 DEF InHand
<1>9. R.pc \in {"create", "comment"}
  BY <1>6
<1> QED BY <1>5, <1>6, <1>7, <1>8, <1>9 DEF R, p

\* Taking up a ticket's search.
LEMMA SearchType ==
    ASSUME TypeInv, SearchTicket
    PROVE  LET R == [Taken EXCEPT !.pc = IF OpenFor(Turn) = {} THEN "plan" ELSE "property",
                                  !.app = Turn, !.id = Newest(OpenFor(Turn))]
           IN  /\ run' = R /\ R \in RunRecord /\ InHand(R, Ids)
               /\ R.app = Turn /\ R.id = Newest(OpenFor(Turn))
               /\ R.queue = run.queue /\ R.closed = run.closed
               /\ R.pc = IF OpenFor(Turn) = {} THEN "plan" ELSE "property"
               /\ R.id = 0 <=> OpenFor(Turn) = {}
<1>1. run.pc = "apps" /\ run.todo # {} /\ run \in RunRecord /\ InHand(run, Ids)
  BY DEF SearchTicket, TypeInv
<1>2. /\ Turn \in Apps /\ Taken \in RunRecord /\ InHand(Taken, Ids)
      /\ Taken.pc = "apps" /\ Taken.queue = run.queue /\ Taken.closed = run.closed
      /\ Taken.prev = ZeroState
  BY <1>1, TakenType
<1>3. Len(tickets) \in Nat /\ Ids = 1 .. Len(tickets)
  BY LenProperties DEF TypeInv, TypeOK, Ids
<1> DEFINE is == OpenFor(Turn)
           n == Newest(is)
           next == IF is = {} THEN "plan" ELSE "property"
           R == [Taken EXCEPT !.pc = next, !.app = Turn, !.id = n]
<1>4. is \subseteq Ids
  BY DEF OpenFor
<1>5. n \in {0} \cup Ids /\ n \in Nat /\ (n = 0 <=> is = {})
  <2> HIDE DEF is
  <2>1. (is = {} => n = 0) /\ (is # {} => n \in is)
    BY <1>3, <1>4, NewestIsOne
  <2>2. n \in {0} \cup Ids
    BY <2>1, <1>4
  <2>3. \A i \in Ids : i \in Nat /\ i # 0
    BY <1>3
  <2> QED BY <2>1, <2>2, <2>3, <1>4
<1>6. run' = R
  BY DEF SearchTicket
<1>7. next \in {"plan", "property"} /\ (next = "plan" <=> is = {})
  OBVIOUS
<1> HIDE DEF n, next
<1>8. R \in RunRecord
  BY <1>2, <1>5, <1>7 DEF RunRecord
<1>9. /\ R.pc = next /\ R.app = Turn /\ R.id = n /\ R.prev = ZeroState
      /\ R.queue = run.queue /\ R.closed = run.closed
  BY <1>2 DEF RunRecord
<1> HIDE DEF R
<1>10. InHand(R, Ids)
  BY <1>1, <1>2, <1>5, <1>7, <1>9 DEF InHand
<1>11. next = IF is = {} THEN "plan" ELSE "property"
  BY DEF next
<1> QED BY <1>5, <1>6, <1>8, <1>9, <1>10, <1>11 DEF R, n, next

\* Taking up what is to be closed.
LEMMA JudgeType ==
    ASSUME TypeInv, JudgeRetired
    PROVE  \/ run' = NotRunning
           \/ \E list \in SUBSET Apps, own \in SUBSET {i \in IdKeyedOpen : fleetFiled(i)} :
                LET queue == planRetire(IdKeyedOpen, own, list, run.scanned)
                    R == [run EXCEPT !.pc = "close", !.list = list, !.queue = queue,
                                     !.judged = Cardinality(IdKeyedOpen)]
                IN  /\ queue # {} /\ run' = R /\ R \in RunRecord /\ InHand(R, Ids)
                    /\ R.pc = "close" /\ R.list = list /\ R.queue = queue
                    /\ R.judged = Cardinality(IdKeyedOpen)
                    /\ R.scanned = run.scanned /\ R.closed = run.closed
<1> SUFFICES ASSUME run' # NotRunning
             PROVE  \E list \in SUBSET Apps, own \in SUBSET {i \in IdKeyedOpen : fleetFiled(i)} :
                LET queue == planRetire(IdKeyedOpen, own, list, run.scanned)
                    R == [run EXCEPT !.pc = "close", !.list = list, !.queue = queue,
                                     !.judged = Cardinality(IdKeyedOpen)]
                IN  /\ queue # {} /\ run' = R /\ R \in RunRecord /\ InHand(R, Ids)
                    /\ R.pc = "close" /\ R.list = list /\ R.queue = queue
                    /\ R.judged = Cardinality(IdKeyedOpen)
                    /\ R.scanned = run.scanned /\ R.closed = run.closed
  OBVIOUS
<1>0. TypeOK /\ run \in RunRecord /\ InHand(run, Ids)
  BY DEF TypeInv
<1>1. PICK list \in SUBSET Apps, own \in SUBSET {i \in IdKeyedOpen : fleetFiled(i)} :
        /\ planRetire(IdKeyedOpen, own, list, run.scanned) # {}
        /\ run' = [run EXCEPT !.pc = "close", !.list = list,
                              !.queue = planRetire(IdKeyedOpen, own, list, run.scanned),
                              !.judged = Cardinality(IdKeyedOpen)]
  BY DEF JudgeRetired
<1> DEFINE queue == planRetire(IdKeyedOpen, own, list, run.scanned)
           n == Cardinality(IdKeyedOpen)
           R == [run EXCEPT !.pc = "close", !.list = list, !.queue = queue, !.judged = n]
<1>2. IdKeyedOpen \subseteq Ids /\ IsFiniteSet(IdKeyedOpen) /\ n \in Nat /\ Ids \subseteq Nat
  <2>1. Ids = 1 .. Len(tickets) /\ Len(tickets) \in Nat
    BY <1>0, LenProperties DEF TypeOK, Ids
  <2>2. IsFiniteSet(Ids)
    BY <2>1, FS_Interval
  <2>3. IdKeyedOpen \subseteq Ids
    BY DEF IdKeyedOpen
  <2>4. IsFiniteSet(IdKeyedOpen)
    BY <2>2, <2>3, FS_Subset
  <2>5. Ids \subseteq Nat
    BY <2>1
  <2> QED BY <2>3, <2>4, <2>5, FS_CardinalityType
<1>3. queue \subseteq IdKeyedOpen
  BY <1>1, <1>2, RetireGrounds
<1> HIDE DEF queue, n
<1>4. R \in RunRecord
  BY <1>0, <1>2, <1>3 DEF RunRecord
<1>5. /\ R.pc = "close" /\ R.list = list /\ R.queue = queue /\ R.judged = n /\ R.id = run.id
      /\ R.scanned = run.scanned /\ R.closed = run.closed
  BY <1>0 DEF RunRecord
<1>6. run' = R /\ queue # {}
  BY <1>1 DEF queue, n
<1> HIDE DEF R
<1>7. InHand(R, Ids)
  BY <1>0, <1>2, <1>3, <1>5 DEF InHand
<1> WITNESS list \in SUBSET Apps, own \in SUBSET {i \in IdKeyedOpen : fleetFiled(i)}
<1> QED BY <1>4, <1>5, <1>6, <1>7 DEF R, queue, n

\* Going on to the next ticket to be closed.
LEMMA QueueType ==
    ASSUME TypeInv, run.pc = "close", run.queue # {}, NEW closed \in Nat
    PROVE  LET i == Oldest(run.queue)
               R == [run EXCEPT !.queue = @ \ {i}, !.closed = closed]
           IN  /\ i \in run.queue /\ i \in Ids
               /\ R \in RunRecord /\ InHand(R, Ids) /\ R.pc = "close" /\ R.closed = closed
               /\ R.queue = run.queue \ {i} /\ R.list = run.list /\ R.scanned = run.scanned
               /\ R.judged = run.judged
<1>0. run \in RunRecord /\ InHand(run, Ids) /\ run.queue \subseteq Nat
  BY DEF TypeInv, RunRecord
<1> DEFINE i == Oldest(run.queue)
           q == run.queue \ {i}
           R == [run EXCEPT !.queue = q, !.closed = closed]
<1>1. i \in run.queue /\ i \in Ids
  BY <1>0, OldestIsOne DEF InHand
<1>2. q \subseteq run.queue
  OBVIOUS
<1> HIDE DEF q
<1>3. R \in RunRecord
  BY <1>0, <1>2 DEF RunRecord
<1>4. /\ R.pc = run.pc /\ R.queue = q /\ R.id = run.id /\ R.closed = closed
      /\ R.list = run.list /\ R.scanned = run.scanned /\ R.judged = run.judged
  BY <1>0 DEF RunRecord
<1> HIDE DEF R
<1>5. InHand(R, Ids)
  BY <1>0, <1>2, <1>4 DEF InHand
<1>6. R = [run EXCEPT !.queue = @ \ {i}, !.closed = closed]
  BY DEF R, q
<1> QED BY <1>1, <1>3, <1>4, <1>5, <1>6 DEF q

\* Every step keeps the type invariant.
LEMMA TypeInvStep == TypeInv /\ [Next]_vars => TypeInv'
<1> SUFFICES ASSUME TypeInv, [Next]_vars PROVE TypeInv'
  OBVIOUS
<1>0. TypeOK /\ run \in RunRecord /\ InHand(run, Ids)
  BY DEF TypeInv
<1>u. CASE UNCHANGED vars
  BY <1>u, RunStepType, <1>0 DEF vars, JiraUnchanged
<1>1. CASE StartRun
  <2>1. PICK named \in SUBSET Apps :
          run' = [NotRunning EXCEPT !.pc = "apps", !.todo = named]
    BY <1>1 DEF StartRun
  <2> DEFINE R == [NotRunning EXCEPT !.pc = "apps", !.todo = named]
  <2>2. R \in RunRecord
    BY IdleType DEF RunRecord
  <2>3. R.pc = "apps" /\ R.id = 0 /\ R.queue = {} /\ R.prev = ZeroState
    BY DEF NotRunning
  <2> HIDE DEF R
  <2>4. InHand(R, Ids)
    BY <2>3 DEF InHand
  <2> QED BY <1>1, <2>1, <2>2, <2>4, RunStepType DEF StartRun, R
<1>2. CASE SkipApp \/ SearchFails
  BY <1>2, <1>0, TakenType, RunStepType DEF SkipApp, SearchFails
<1>3. CASE SearchTicket
  <2>1. PICK R \in RunRecord : run' = R /\ InHand(R, Ids)
    BY <1>3, SearchType
  <2> QED BY <2>1, <1>3, RunStepType DEF SearchTicket
<1>4. CASE GetProperty
  <2> DEFINE p == PropOf(run.id)
             R == [run EXCEPT !.pc = "plan", !.prev = p]
  <2>1. run.id \in Ids /\ run.id # 0 /\ run.app \in Apps
    BY <1>4, <1>0 DEF GetProperty, InHand
  <2>2. p \in States
    BY <2>1, <1>0, PropOfType
  <2>3. run' = R
    BY <1>4 DEF GetProperty
  <2> HIDE DEF p
  <2>4. R \in RunRecord
    BY <1>0, <2>2 DEF RunRecord
  <2>5. R.pc = "plan" /\ R.id = run.id /\ R.app = run.app /\ R.queue = run.queue
    BY <1>0 DEF RunRecord
  <2> HIDE DEF R
  <2>6. InHand(R, Ids)
    BY <1>0, <2>1, <2>5 DEF InHand
  <2> QED BY <2>3, <2>4, <2>6, <1>4, RunStepType DEF GetProperty
<1>5. CASE GetPropertyFails \/ LeaveAlone \/ OnlyPreview \/ CreateFails \/ CommentFails
           \/ SetPropertyFails
  <2>1. run' = NextApp(run) /\ JiraUnchanged
    BY <1>5 DEF GetPropertyFails, LeaveAlone, OnlyPreview, CreateFails, CommentFails,
                SetPropertyFails, Answers, AnswersFor
  <2> QED BY <2>1, <1>0, NextAppType, RunStepType
<1>6. CASE GoAhead
  <2>1. PICK R \in RunRecord : run' = R /\ InHand(R, Ids)
    BY <1>6, GoAheadType
  <2> QED BY <2>1, <1>6, RunStepType DEF GoAhead
<1>7. CASE CreateIssue
  <2> DEFINE t == [app |-> run.app, open |-> TRUE, prop |-> NoState, reopened |-> FALSE]
             n == Len(tickets) + 1
             R == [run EXCEPT !.pc = "record", !.id = n]
  <2>1. /\ run.pc = "create" /\ run.app \in Apps /\ run.f # {} /\ run.f \in Findings
        /\ run.plan = "create" /\ Len(tickets) < MaxTickets /\ Len(tickets) \in Nat
    BY <1>7, <1>0, LenProperties DEF CreateIssue, InHand, RunRecord, TypeOK
  <2>2. t \in Ticket /\ run.f \in Said
    BY <2>1 DEF Ticket, Said
  <2>3. /\ tickets' = Append(tickets, t) /\ told' = Append(told, run.f)
        /\ run' = R \/ run' = NextApp(run)
    BY <1>7 DEF CreateIssue, Answers, AnswersFor
  <2>4. n \in Nat /\ n # 0
    BY <2>1
  <2> HIDE DEF t, n
  <2>5. R \in RunRecord
    BY <1>0, <2>4 DEF RunRecord
  <2>6. /\ R.pc = "record" /\ R.id = n /\ R.app = run.app /\ R.queue = run.queue
        /\ R.f = run.f /\ R.plan = run.plan
    BY <1>0 DEF RunRecord
  <2> HIDE DEF R
  <2>7. InHand(R, Ids \cup {n})
    BY <1>0, <2>1, <2>4, <2>6 DEF InHand
  <2>8. NextApp(run) \in RunRecord /\ InHand(NextApp(run), Ids)
    BY <1>0, NextAppType
  <2>9. InHand(NextApp(run), Ids \cup {n})
    BY <2>8 DEF InHand
  <2> QED BY <2>1, <2>2, <2>3, <2>5, <2>7, <2>8, <2>9, FileType DEF n
<1>8. CASE CreateRefused
  <2> DEFINE R == [run EXCEPT !.routed = FALSE]
  <2>1. run.pc = "create" /\ JiraUnchanged /\ (run' = R \/ run' = NextApp(run))
    BY <1>8 DEF CreateRefused, Answers, AnswersFor
  <2>2. R \in RunRecord
    BY <1>0 DEF RunRecord
  <2>3. /\ R.pc = run.pc /\ R.id = run.id /\ R.app = run.app /\ R.queue = run.queue
        /\ R.f = run.f /\ R.plan = run.plan /\ R.prev = run.prev
    BY <1>0 DEF RunRecord
  <2> HIDE DEF R
  <2>4. InHand(R, Ids)
    BY <1>0, <2>1, <2>3 DEF InHand
  <2> QED BY <2>1, <2>2, <2>4, <1>0, NextAppType, RunStepType
<1>9. CASE AddComment
  <2> DEFINE R == [run EXCEPT !.pc = "record"]
             l == IF run.plan = "done" THEN Finished ELSE run.f
  <2>1. /\ run.pc = "comment" /\ tickets' = tickets /\ (run' = R \/ run' = NextApp(run))
        /\ told' = [told EXCEPT ![run.id] = l]
    BY <1>9 DEF AddComment, Answers, AnswersFor
  <2>2. /\ run.id \in Ids /\ run.id # 0 /\ run.app \in Apps
        /\ \/ run.plan = "done" /\ run.f = {}
           \/ run.plan = "comment" /\ run.f # {} /\ run.f \in Findings
    BY <2>1, <1>0 DEF InHand, RunRecord
  <2>3. l \in Said
    BY <2>2 DEF Said
  <2> HIDE DEF l
  <2>4. R \in RunRecord
    BY <1>0 DEF RunRecord
  <2>5. /\ R.pc = "record" /\ R.id = run.id /\ R.app = run.app /\ R.queue = run.queue
        /\ R.f = run.f /\ R.plan = run.plan
    BY <1>0 DEF RunRecord
  <2> HIDE DEF R
  <2>6. InHand(R, Ids)
    BY <1>0, <2>2, <2>5 DEF InHand
  <2>7. told' \in Seq(Said) /\ Len(told') = Len(told)
    BY <1>0, <2>1, <2>2, <2>3, TicketType, ExceptSeq DEF TypeOK
  <2>8. NextApp(run) \in RunRecord /\ InHand(NextApp(run), Ids)
    BY <1>0, NextAppType
  <2>9. run' \in RunRecord /\ InHand(run', Ids) /\ Ids' = Ids
    BY <2>1, <2>4, <2>6, <2>8 DEF Ids
  <2>10. run'.pc \in {"idle", "apps", "property", "plan", "create", "comment", "record",
                      "retire", "close"} /\ run'.id \in {0} \cup Ids /\ run'.queue \subseteq Ids
    BY <2>9 DEF RunRecord, InHand
  <2> QED BY <1>0, <2>1, <2>7, <2>9, <2>10 DEF TypeInv, TypeOK
<1>10. CASE SetProperty
  <2> DEFINE st == StateToRecord(run.plan, run.prev, run.f)
             t == [tickets[run.id] EXCEPT !.prop = st]
  <2>1. /\ run.pc = "record" /\ tickets' = [tickets EXCEPT ![run.id] = t]
        /\ run' = NextApp(run) /\ told' = told
    BY <1>10 DEF SetProperty, Answers, AnswersFor
  <2>2. /\ run.id \in Ids /\ Apps # {} /\ run.prev \in States /\ run.f \in Findings \cup {{}}
        /\ run.plan \in {"done", "create", "comment"} /\ (run.plan # "done" => run.f # {})
    BY <2>1, <1>0 DEF InHand, RunRecord
  <2>3. st \in AppscanState
    BY <2>2, StateToRecordType
  <2> HIDE DEF st
  <2>4. t \in Ticket
    BY <2>2, <2>3, <1>0, TicketType DEF Ticket
  <2> HIDE DEF t
  <2> QED BY <2>1, <2>2, <2>4, <1>0, NextAppType, EditType
<1>11. CASE EndApps
  <2> DEFINE R == [run EXCEPT !.pc = "retire"]
  <2>1. run' = R /\ JiraUnchanged
    BY <1>11 DEF EndApps
  <2>2. R \in RunRecord /\ R.pc = "retire" /\ R.id = run.id /\ R.queue = run.queue
    BY <1>0 DEF RunRecord
  <2> HIDE DEF R
  <2>3. InHand(R, Ids)
    BY <1>0, <2>2 DEF InHand
  <2> QED BY <2>1, <2>2, <2>3, RunStepType
<1>12. CASE RetireSearchFails \/ EndRun \/ Crash
  BY <1>12, IdleType, RunStepType DEF RetireSearchFails, EndRun, Crash
<1>13. CASE JudgeRetired
  <2>1. PICK R \in RunRecord : run' = R /\ InHand(R, Ids)
    BY <1>13, JudgeType, IdleType
  <2> QED BY <2>1, <1>13, RunStepType DEF JudgeRetired
<1>14. CASE CloseTicket
  <2> DEFINE i == Oldest(run.queue)
             t == [tickets[i] EXCEPT !.open = FALSE]
             R == [run EXCEPT !.queue = @ \ {i}, !.closed = run.closed + 1]
  <2>1. /\ run.pc = "close" /\ run.queue # {} /\ told' = told
        /\ tickets' = [tickets EXCEPT ![i] = t] /\ run' = R
    BY <1>14 DEF CloseTicket
  <2>2. run.closed + 1 \in Nat
    BY <1>0 DEF RunRecord
  <2>3. i \in Ids /\ R \in RunRecord /\ InHand(R, Ids)
    BY <2>1, <2>2, QueueType
  <2>4. t \in Ticket
    BY <2>3, <1>0, TicketType DEF Ticket
  <2> HIDE DEF i, t, R
  <2> QED BY <2>1, <2>3, <2>4, EditType
<1>15. CASE CloseFails
  <2> DEFINE R == [run EXCEPT !.queue = @ \ {Oldest(run.queue)}, !.closed = run.closed]
  <2>1. /\ run.pc = "close" /\ run.queue # {} /\ JiraUnchanged
        /\ run' = [run EXCEPT !.queue = @ \ {Oldest(run.queue)}]
    BY <1>15 DEF CloseFails
  <2>2. run' = R /\ run.closed \in Nat
    BY <2>1, <1>0 DEF RunRecord
  <2>3. R \in RunRecord /\ InHand(R, Ids)
    BY <2>1, <2>2, QueueType
  <2> HIDE DEF R
  <2> QED BY <2>1, <2>2, <2>3, RunStepType
<1>16. CASE World
  <2>1. PICK i \in Ids : MoveTicket(i)
    BY <1>16 DEF World
  <2> DEFINE t == [tickets[i] EXCEPT !.open = ~@, !.reopened = @ \/ ~tickets[i].open]
  <2>2. tickets' = [tickets EXCEPT ![i] = t] /\ told' = told /\ run' = run
    BY <2>1 DEF MoveTicket
  <2>3. t \in Ticket
    BY <1>0, TicketType DEF Ticket
  <2> HIDE DEF t
  <2> QED BY <1>0, <2>2, <2>3, EditType
<1> QED BY <1>u, <1>1, <1>2, <1>3, <1>4, <1>5, <1>6, <1>7, <1>8, <1>9, <1>10, <1>11, <1>12,
           <1>13, <1>14, <1>15, <1>16 DEF Next, Step

\* The type invariant holds at first.
LEMMA TypeInvInit == Init => TypeInv
<1> SUFFICES ASSUME Init PROVE TypeInv
  OBVIOUS
<1>1. /\ tickets = <<>> /\ told = <<>> /\ run = NotRunning /\ Ids = {}
  BY DEF Init, Ids
<1>2. tickets \in Seq(Ticket) /\ told \in Seq(Said) /\ Len(tickets) = 0 /\ Len(told) = 0
  BY <1>1, EmptySeq
<1>3. run \in RunRecord /\ InHand(run, Ids) /\ run.pc = "idle"
  BY <1>1, IdleType
<1> QED BY <1>2, <1>3, ConstantsAssumption DEF TypeInv, TypeOK, InHand

\* Every variable keeps its type in every behaviour, and the ticket the run
\* has in hand is one of the project's.
THEOREM AppTicketsTypes == Spec => []TypeOK
<1>1. TypeInv => TypeOK
  BY DEF TypeInv
<1> QED BY <1>1, TypeInvInit, TypeInvStep, PTL DEF Spec
-----------------------------------------------------------------------------
(* One open ticket.                                                        *)

\* Which steps touch the tickets and what their readers were told.
LEMMA StepShape ==
    ASSUME [Next]_vars
    PROVE  \/ JiraUnchanged
           \/ CreateIssue \/ AddComment \/ SetProperty \/ CloseTicket
           \/ \E i \in Ids : MoveTicket(i)
BY DEF Next, Step, World, vars, JiraUnchanged, StartRun, EndApps, GetProperty, GetPropertyFails,
       SkipApp, SearchTicket, SearchFails, LeaveAlone, OnlyPreview, GoAhead, CreateRefused,
       CreateFails, CommentFails, SetPropertyFails, JudgeRetired, RetireSearchFails, CloseFails,
       EndRun, Crash

\* Which steps take a run to where it writes, or decides what to write.
LEMMA RunShape ==
    ASSUME TypeInv, [Next]_vars
    PROVE  \/ run' = run
           \/ run'.pc \notin {"plan", "create", "comment", "record", "close"}
           \/ SearchTicket \/ GetProperty \/ GoAhead \/ CreateRefused
           \/ CreateIssue \/ AddComment \/ JudgeRetired \/ CloseTicket \/ CloseFails
<1>0. run \in RunRecord /\ InHand(run, Ids)
  BY DEF TypeInv
<1>n. NextApp(run).pc = "apps" /\ NotRunning.pc = "idle"
  BY <1>0, NextAppType, IdleType
<1>1. CASE UNCHANGED vars \/ World
  BY <1>1 DEF vars, World, MoveTicket
<1>2. CASE StartRun
  <2>1. PICK named : run' = [NotRunning EXCEPT !.pc = "apps", !.todo = named]
    BY <1>2 DEF StartRun
  <2> QED BY <2>1 DEF NotRunning
<1>3. CASE SkipApp \/ SearchFails
  <2>1. run' = Taken /\ Taken.pc = "apps"
    BY <1>0, <1>3, TakenType DEF SkipApp, SearchFails
  <2> QED BY <2>1
<1>4. CASE GetPropertyFails \/ LeaveAlone \/ OnlyPreview \/ CreateFails \/ CommentFails
           \/ SetProperty \/ SetPropertyFails
  <2>1. run' = NextApp(run)
    BY <1>4 DEF GetPropertyFails, LeaveAlone, OnlyPreview, CreateFails, CommentFails,
                SetProperty, SetPropertyFails, Answers, AnswersFor
  <2> QED BY <2>1, <1>n
<1>5. CASE EndApps
  <2>1. run'.pc = "retire"
    BY <1>5, <1>0 DEF EndApps, RunRecord
  <2> QED BY <2>1
<1>6. CASE RetireSearchFails \/ EndRun \/ Crash
  BY <1>6, <1>n DEF RetireSearchFails, EndRun, Crash
<1> QED BY <1>1, <1>2, <1>3, <1>4, <1>5, <1>6 DEF Next, Step

\* What the three steps that talk to the ticket in hand make of the run.
LEMMA WritingShape ==
    ASSUME TypeInv
    PROVE  /\ CreateIssue => \/ run' = NextApp(run)
                             \/ /\ run'.pc = "record" /\ run'.id = Len(tickets) + 1
                                /\ run'.plan = run.plan /\ run'.f = run.f /\ run'.prev = run.prev
           /\ AddComment => \/ run' = NextApp(run)
                            \/ /\ run'.pc = "record" /\ run'.id = run.id
                               /\ run'.plan = run.plan /\ run'.f = run.f /\ run'.prev = run.prev
           /\ CreateRefused => \/ run' = NextApp(run)
                               \/ /\ run'.pc = "create" /\ run'.id = run.id /\ run'.app = run.app
           /\ GetProperty => /\ run'.pc = "plan" /\ run'.id = run.id /\ run.id \in Ids
                             /\ run.id # 0 /\ run'.prev = PropOf(run.id)
           /\ CloseTicket \/ CloseFails => run.pc = "close" /\ run'.pc = "close"
           /\ NextApp(run).pc = "apps"
<1>0. run \in RunRecord /\ InHand(run, Ids)
  BY DEF TypeInv
<1>1. NextApp(run).pc = "apps"
  BY <1>0, NextAppType
<1>2. ASSUME CreateIssue
      PROVE  \/ run' = NextApp(run)
             \/ /\ run'.pc = "record" /\ run'.id = Len(tickets) + 1
                /\ run'.plan = run.plan /\ run'.f = run.f /\ run'.prev = run.prev
  BY <1>2, <1>0 DEF CreateIssue, Answers, AnswersFor, RunRecord
<1>3. ASSUME AddComment
      PROVE  \/ run' = NextApp(run)
             \/ /\ run'.pc = "record" /\ run'.id = run.id
                /\ run'.plan = run.plan /\ run'.f = run.f /\ run'.prev = run.prev
  BY <1>3, <1>0 DEF AddComment, Answers, AnswersFor, RunRecord
<1>4. ASSUME CreateRefused
      PROVE  run' = NextApp(run)
             \/ (run'.pc = "create" /\ run'.id = run.id /\ run'.app = run.app)
  <2> DEFINE R == [run EXCEPT !.routed = FALSE]
  <2>1. run.pc = "create" /\ (run' = R \/ run' = NextApp(run))
    BY <1>4 DEF CreateRefused, Answers, AnswersFor
  <2>2. R.id = run.id /\ R.app = run.app /\ R.pc = run.pc
    BY <1>0 DEF RunRecord
  <2> HIDE DEF R
  <2> QED BY <2>1, <2>2
<1>5. ASSUME GetProperty
      PROVE  /\ run'.pc = "plan" /\ run'.id = run.id /\ run.id \in Ids
             /\ run.id # 0 /\ run'.prev = PropOf(run.id)
  BY <1>5, <1>0 DEF GetProperty, RunRecord, InHand
<1>6. ASSUME CloseTicket \/ CloseFails PROVE run.pc = "close" /\ run'.pc = "close"
  BY <1>6, <1>0 DEF CloseTicket, CloseFails, RunRecord
<1> QED BY <1>1, <1>2, <1>3, <1>4, <1>5, <1>6

\* How a run comes to be about to file: it searched and found none, or it was.
LEMMA FilingShape ==
    ASSUME TypeInv, [Next]_vars, run'.pc \in {"plan", "create"}, run'.id = 0
    PROVE  /\ run' = run \/ JiraUnchanged
           /\ \/ SearchTicket /\ run'.app = Turn /\ OpenFor(Turn) = {}
              \/ run.pc \in {"plan", "create"} /\ run.id = 0 /\ run'.app = run.app
<1>1. CASE SearchTicket
  BY <1>1, SearchType DEF SearchTicket
<1>2. CASE GoAhead
  <2>1. run'.id = run.id /\ run'.app = run.app /\ run.pc = "plan" /\ JiraUnchanged
    BY <1>2, GoAheadType DEF GoAhead
  <2> QED BY <2>1
<1>3. CASE CreateRefused
  BY <1>3, WritingShape DEF CreateRefused
<1>4. CASE GetProperty \/ CreateIssue \/ AddComment \/ CloseTicket \/ CloseFails
  BY <1>4, WritingShape
<1>5. CASE JudgeRetired
  BY <1>5, IdleType, JudgeType
<1> QED BY <1>1, <1>2, <1>3, <1>4, <1>5, RunShape

\* How it comes to compare with a ticket, or to record on it.
LEMMA SayingShape ==
    ASSUME TypeInv, [Next]_vars, run'.pc \in {"plan", "comment", "record"}, run'.id # 0
    PROVE  \/ run' = run
           \/ GetProperty \/ CreateIssue \/ AddComment
           \/ GoAhead /\ run.pc = "plan" /\ run'.pc # "record"
              /\ run'.id = run.id /\ run'.prev = run.prev
<1>1. CASE SearchTicket
  <2> DEFINE R == [Taken EXCEPT !.pc = IF OpenFor(Turn) = {} THEN "plan" ELSE "property",
                                !.app = Turn, !.id = Newest(OpenFor(Turn))]
  <2>1. /\ run' = R /\ R.pc = IF OpenFor(Turn) = {} THEN "plan" ELSE "property"
        /\ R.id = 0 <=> OpenFor(Turn) = {}
    BY <1>1, SearchType
  <2> HIDE DEF R
  <2> QED BY <2>1
<1>2. CASE GoAhead
  <2>1. /\ run'.id = run.id /\ run'.prev = run.prev /\ run.pc = "plan"
        /\ run'.pc \in {"create", "comment"}
    BY <1>2, GoAheadType DEF GoAhead
  <2> QED BY <1>2, <2>1
<1>3. CASE CreateRefused \/ CloseTicket \/ CloseFails
  BY <1>3, WritingShape
<1>4. CASE JudgeRetired
  BY <1>4, IdleType, JudgeType
<1> QED BY <1>1, <1>2, <1>3, <1>4, RunShape

\* Every step keeps OpenInv.
LEMMA OpenInvStep == TypeInv /\ OpenInv /\ [Next]_vars => OpenInv'
<1> SUFFICES ASSUME TypeInv, OpenInv, [Next]_vars PROVE OpenInv'
  OBVIOUS
<1>0. TypeOK /\ TypeInv' /\ run \in RunRecord /\ InHand(run, Ids)
  BY TypeInvStep DEF TypeInv
<1> DEFINE Sound == \A i, j \in Ids : i < j /\ tickets[i].app = tickets[j].app /\ tickets[i].open
                                         => tickets[i].reopened
           AllBack(a) == \A i \in Ids : tickets[i].app = a /\ tickets[i].open
                                           => tickets[i].reopened
<1>1. Sound /\ (run.pc \in {"plan", "create"} /\ run.id = 0 => AllBack(run.app))
  BY DEF OpenInv
<1>2. CASE JiraUnchanged
  <2>1. Sound'
    BY <1>1, <1>2 DEF JiraUnchanged, Ids
  <2>2. ASSUME run'.pc \in {"plan", "create"}, run'.id = 0 PROVE AllBack(run.app)'
    <3>1. \/ run'.app = Turn /\ OpenFor(Turn) = {}
          \/ run.pc \in {"plan", "create"} /\ run.id = 0 /\ run'.app = run.app
      BY <2>2, FilingShape
    <3>2. OpenFor(Turn) = {} => AllBack(Turn)
      BY DEF OpenFor
    <3>3. AllBack(run'.app)
      BY <3>1, <3>2, <1>1
    <3> QED BY <3>3, <1>2 DEF JiraUnchanged, Ids
  <2> QED BY <2>1, <2>2 DEF OpenInv
<1>3. CASE CreateIssue
  <2> DEFINE n == Len(tickets) + 1
             t == [app |-> run.app, open |-> TRUE, prop |-> NoState, reopened |-> FALSE]
  <2>1. /\ tickets' = Append(tickets, t) /\ told' = Append(told, run.f) /\ run.pc = "create"
        /\ t.app = run.app
    BY <1>3 DEF CreateIssue
  <2>2. AllBack(run.app)
    BY <1>0, <1>1, <2>1 DEF InHand
  <2>3. /\ Ids' = Ids \cup {n} /\ tickets'[n] = t /\ n \in Nat
        /\ \A j \in Ids : j \in Nat /\ j < n /\ tickets'[j] = tickets[j]
    BY <1>0, <2>1, AppendProperties, LenProperties DEF TypeOK, Ids
  <2> HIDE DEF t, n
  <2>4. Sound'
    <3> SUFFICES ASSUME NEW i \in Ids', NEW j \in Ids', i < j,
                        tickets'[i].app = tickets'[j].app, tickets'[i].open
                 PROVE  tickets'[i].reopened
      OBVIOUS
    <3>1. i \in Ids
      BY <2>3
    <3>2. CASE j \in Ids
      BY <3>1, <3>2, <2>3, <1>1
    <3>3. CASE j = n
      BY <3>1, <3>3, <2>1, <2>2, <2>3
    <3> QED BY <3>2, <3>3, <2>3
  <2>5. ~(run'.pc \in {"plan", "create"} /\ run'.id = 0)
    <3>1. Len(tickets') # Len(tickets)
      BY <1>0, <2>1, AppendProperties, LenProperties DEF TypeOK
    <3>2. run' # run
      <4>1. run'.pc \in {"apps", "record"}
        BY <1>0, <1>3, NextAppType DEF CreateIssue, RunRecord, Answers, AnswersFor
      <4> QED BY <4>1, <2>1
    <3> QED BY <3>1, <3>2, <1>0, FilingShape DEF JiraUnchanged
  <2> QED BY <2>4, <2>5 DEF OpenInv
<1>4. ASSUME Ids' = Ids, run' = run \/ run'.pc \notin {"plan", "create"},
             \A i \in Ids : /\ tickets'[i].app = tickets[i].app
                            /\ tickets'[i].open => tickets[i].open \/ tickets'[i].reopened
                            /\ tickets[i].reopened => tickets'[i].reopened
      PROVE  OpenInv'
  <2>1. Sound'
    BY <1>1, <1>4
  <2>2. \A a : AllBack(a) => AllBack(a)'
    BY <1>4
  <2> QED BY <1>1, <1>4, <2>1, <2>2 DEF OpenInv
<1>5. CASE AddComment
  <2>1. tickets' = tickets /\ Ids' = Ids
    BY <1>5 DEF AddComment, Ids
  <2>2. run'.pc \notin {"plan", "create"}
    <3>1. NextApp(run).pc = "apps"
      BY <1>0, NextAppType
    <3> QED BY <3>1, <1>5, <1>0 DEF AddComment, Answers, AnswersFor, RunRecord
  <2> QED BY <1>4, <2>1, <2>2
<1>6. CASE SetProperty
  <2> DEFINE st == StateToRecord(run.plan, run.prev, run.f)
             t == [tickets[run.id] EXCEPT !.prop = st]
  <2>1. tickets' = [tickets EXCEPT ![run.id] = t] /\ run' = NextApp(run)
    BY <1>6 DEF SetProperty, Answers, AnswersFor
  <2>2. NextApp(run).pc = "apps" /\ run.id \in Ids
    BY <1>0, <1>6, NextAppType DEF SetProperty, InHand
  <2> HIDE DEF st
  <2>3. t.app = tickets[run.id].app /\ t.open = tickets[run.id].open
        /\ t.reopened = tickets[run.id].reopened
    BY <2>2, <1>0, TicketType DEF Ticket
  <2> HIDE DEF t
  <2>4. Ids' = Ids /\ tickets'[run.id] = t /\ \A j \in Ids \ {run.id} : tickets'[j] = tickets[j]
    BY <2>1, <2>2, <1>0 DEF TypeOK, Ids
  <2> QED BY <1>4, <2>1, <2>2, <2>3, <2>4
<1>7. CASE CloseTicket
  <2> DEFINE i == Oldest(run.queue)
             t == [tickets[i] EXCEPT !.open = FALSE]
  <2>1. /\ run.pc = "close" /\ run.queue # {} /\ tickets' = [tickets EXCEPT ![i] = t]
        /\ run' = [run EXCEPT !.queue = @ \ {i}, !.closed = @ + 1]
    BY <1>7 DEF CloseTicket
  <2>2. i \in Ids
    BY <2>1, <1>0, OldestIsOne DEF RunRecord, InHand
  <2>3. run'.pc = "close"
    BY <2>1, <1>0 DEF RunRecord
  <2> HIDE DEF i
  <2>4. t.app = tickets[i].app /\ ~t.open /\ t.reopened = tickets[i].reopened
    BY <2>2, <1>0, TicketType DEF Ticket
  <2> HIDE DEF t
  <2>5. Ids' = Ids /\ tickets'[i] = t /\ \A j \in Ids \ {i} : tickets'[j] = tickets[j]
    BY <2>1, <2>2, <1>0 DEF TypeOK, Ids
  <2> QED BY <1>4, <2>3, <2>4, <2>5
<1>8. ASSUME NEW i \in Ids, MoveTicket(i) PROVE OpenInv'
  <2> DEFINE t == [tickets[i] EXCEPT !.open = ~@, !.reopened = @ \/ ~tickets[i].open]
  <2>1. run' = run /\ tickets' = [tickets EXCEPT ![i] = t]
    BY <1>8 DEF MoveTicket
  <2>2. /\ t.app = tickets[i].app
        /\ t.open = ~tickets[i].open
        /\ t.reopened = (tickets[i].reopened \/ ~tickets[i].open)
    BY <1>0, TicketType DEF Ticket
  <2> HIDE DEF t
  <2>3. Ids' = Ids /\ tickets'[i] = t /\ \A j \in Ids \ {i} : tickets'[j] = tickets[j]
    BY <2>1, <1>0 DEF TypeOK, Ids
  <2> QED BY <1>4, <2>1, <2>2, <2>3
<1> QED BY <1>2, <1>3, <1>5, <1>6, <1>7, <1>8, StepShape

\* An application's tickets are open at once only when a person reopened the
\* earlier ones: creates that were refused and retried, whose answer was lost,
\* or that a kill cut off never file a second.
THEOREM OneOpenTicketHolds == Spec => []OneOpenTicket
<1>1. Init => TypeInv /\ OpenInv
  <2>1. Init => OpenInv
    BY IdleType DEF Init, OpenInv, Ids
  <2> QED BY <2>1, TypeInvInit
<1>2. TypeInv /\ OpenInv /\ [Next]_vars => (TypeInv /\ OpenInv)'
  BY TypeInvStep, OpenInvStep
<1>3. OpenInv => OneOpenTicket
  BY DEF OpenInv, OneOpenTicket
<1> QED BY <1>1, <1>2, <1>3, PTL DEF Spec
-----------------------------------------------------------------------------
(* News, and only news.                                                    *)

\* Every step keeps SayInv.
LEMMA SayInvStep == TypeInv /\ SayInv /\ [Next]_vars => SayInv'
<1> SUFFICES ASSUME TypeInv, SayInv, [Next]_vars PROVE SayInv'
  OBVIOUS
<1>0. TypeOK /\ TypeInv' /\ run \in RunRecord /\ InHand(run, Ids)
  BY TypeInvStep DEF TypeInv
<1>1. SUFFICES ASSUME run'.pc \in {"plan", "comment", "record"}, run'.id # 0
               PROVE  /\ run'.prev = PropOf(run.id)'
                      /\ run'.pc = "record" =>
                            told'[run'.id] = IF run'.plan = "done" THEN Finished ELSE run'.f
  <2>1. run'.pc = "record" => run'.id # 0
    BY <1>0 DEF TypeInv, InHand
  <2> QED BY <1>1, <2>1 DEF SayInv
<1>2. CASE run' = run /\ told' = told /\ \A i \in Ids : tickets'[i].prop = tickets[i].prop
  <2>1. run.id \in Ids
    BY <1>1, <1>2, <1>0 DEF InHand
  <2> QED BY <1>1, <1>2, <2>1 DEF SayInv, PropOf
<1>3. CASE GetProperty
  <2>1. run'.pc = "plan" /\ run'.prev = PropOf(run.id) /\ run'.id = run.id
    BY <1>3, WritingShape
  <2> QED BY <2>1, <1>3 DEF GetProperty, JiraUnchanged, PropOf
<1>4. CASE GoAhead /\ run.pc = "plan" /\ run'.pc # "record"
           /\ run'.id = run.id /\ run'.prev = run.prev
  BY <1>1, <1>4 DEF GoAhead, JiraUnchanged, SayInv, PropOf
<1>5. CASE CreateIssue
  <2> DEFINE n == Len(tickets) + 1
             t == [app |-> run.app, open |-> TRUE, prop |-> NoState, reopened |-> FALSE]
  <2>1. /\ run'.pc = "record" /\ run'.id = n /\ run'.plan = run.plan /\ run'.f = run.f
        /\ run'.prev = run.prev
    BY <1>1, <1>5, WritingShape
  <2>2. /\ run.pc = "create" /\ tickets' = Append(tickets, t) /\ told' = Append(told, run.f)
    BY <1>5 DEF CreateIssue
  <2>3. run.plan = "create" /\ run.prev = ZeroState
    BY <2>2, <1>0 DEF InHand
  <2>4. tickets'[n] = t /\ told'[n] = run.f
    BY <2>2, <1>0, AppendProperties DEF TypeOK
  <2>5. tickets'[n].prop = NoState
    BY <2>4
  <2> QED BY <2>1, <2>3, <2>4, <2>5 DEF PropOf
<1>6. CASE AddComment
  <2>1. /\ run'.pc = "record" /\ run'.id = run.id /\ run'.plan = run.plan /\ run'.f = run.f
        /\ run'.prev = run.prev
    BY <1>1, <1>6, WritingShape
  <2>2. /\ run.pc = "comment" /\ tickets' = tickets
        /\ told' = [told EXCEPT ![run.id] = IF run.plan = "done" THEN Finished ELSE run.f]
    BY <1>6 DEF AddComment
  <2>3. run.id \in DOMAIN told /\ run.prev = PropOf(run.id)
    BY <2>1, <2>2, <1>0, <1>1, TicketType DEF SayInv, InHand
  <2> QED BY <2>1, <2>2, <2>3 DEF PropOf
<1>7. CASE run' = run
  <2>1. \/ JiraUnchanged \/ CreateIssue \/ AddComment
        \/ \E i \in Ids : MoveTicket(i)
    <3>1. SetProperty => run'.pc = "apps"
      BY WritingShape DEF SetProperty, Answers, AnswersFor
    <3>2. CloseTicket => run'.pc = "close"
      BY WritingShape
    <3> QED BY <1>1, <3>1, <3>2, StepShape
  <2>2. CASE JiraUnchanged
    BY <1>2, <1>7, <2>2 DEF JiraUnchanged
  <2>3. ASSUME NEW i \in Ids, MoveTicket(i)
        PROVE  told' = told /\ \A j \in Ids : tickets'[j].prop = tickets[j].prop
    BY <2>3, <1>0, TicketType DEF MoveTicket, TypeOK, Ids, Ticket
  <2> QED BY <1>2, <1>5, <1>6, <1>7, <2>1, <2>2, <2>3
<1> QED BY <1>0, <1>1, <1>3, <1>4, <1>5, <1>6, <1>7, SayingShape

\* StandingTicket's variables, read off the state.
saidOf == [i \in 1 .. MaxTickets |-> IF i \in Ids THEN told[i] ELSE Unfiled]
recordedOf == [i \in 1 .. MaxTickets |-> i \in Ids /\ Recorded(i)]

\* The hashes of two lists are compared only if they are lists.
LEMMA SayingsFacts ==
    ASSUME Standing!SayingsAssumption
    PROVE  /\ \A l \in Findings \ {{}} : l # Finished /\ l # Unfiled
           /\ Finished # Unfiled
BY DEF Standing!SayingsAssumption

\* Whether a ticket's property says what was said, by what was said.
LEMMA RecordedBy ==
    ASSUME TypeOK, NEW i \in Ids
    PROVE  /\ Recorded(i) => PropOf(i) = tickets[i].prop
           /\ Recorded(i) /\ told[i] = Finished => PropOf(i).resolved
           /\ Recorded(i) /\ told[i] # Finished => /\ PropOf(i).hash = told[i]
                                                  /\ ~PropOf(i).resolved
BY DEF Recorded, PropOf

\* A step is File, Say or Record of StandingTicket, or changes nothing of it.
LEMMA StandingStep ==
    ASSUME Standing!SayingsAssumption, TypeInv, TypeInv', SayInv, [Next]_vars
    PROVE  [Standing!Next]_(Standing!vars)
<1>0. /\ TypeOK /\ TypeOK' /\ run \in RunRecord /\ InHand(run, Ids)
      /\ MaxTickets \in Nat /\ Len(tickets) \in Nat /\ Ids = 1 .. Len(tickets)
      /\ Len(told) = Len(tickets) /\ tickets \in Seq(Ticket) /\ told \in Seq(Said)
  BY ConstantsAssumption, LenProperties DEF TypeInv, TypeOK, Ids
<1>1. Ids \subseteq 1 .. MaxTickets /\ Ids' \subseteq 1 .. MaxTickets
  <2>1. Len(tickets) <= MaxTickets /\ Len(tickets') <= MaxTickets /\ Len(tickets') \in Nat
        /\ Ids' = 1 .. Len(tickets')
    BY <1>0, LenProperties DEF TypeOK, Ids
  <2> QED BY <1>0, <2>1
<1>2. CASE Ids' = Ids /\ \A i \in Ids : told'[i] = told[i] /\ tickets'[i].prop = tickets[i].prop
  <2>1. saidOf' = saidOf
    BY <1>2 DEF saidOf
  <2>2. \A i \in Ids : Recorded(i)' <=> Recorded(i)
    BY <1>2 DEF Recorded
  <2>3. \A i \in 1 .. MaxTickets : (i \in Ids /\ Recorded(i))' <=> (i \in Ids /\ Recorded(i))
    BY <1>2, <2>2
  <2>4. recordedOf' = recordedOf
    BY <2>3, Zenon DEF recordedOf
  <2> QED BY <2>1, <2>4 DEF saidOf, recordedOf, Standing!vars
<1>3. CASE CreateIssue
  <2> DEFINE t == [app |-> run.app, open |-> TRUE, prop |-> NoState, reopened |-> FALSE]
  <2>1. /\ run.pc = "create" /\ Len(tickets) < MaxTickets
        /\ tickets' = Append(tickets, t) /\ told' = Append(told, run.f)
    BY <1>3 DEF CreateIssue
  <2>2. PICK n \in 1 .. MaxTickets : n = Len(tickets) + 1 /\ n \notin Ids
    BY <1>0, <2>1
  <2>3. run.f \in Findings \ {{}} /\ run.f # Unfiled
    BY <1>0, <2>1, SayingsFacts DEF InHand, RunRecord
  <2>4. /\ Ids' = Ids \cup {n} /\ told'[n] = run.f /\ tickets'[n].prop = NoState
        /\ \A i \in Ids : told'[i] = told[i] /\ tickets'[i] = tickets[i]
    BY <1>0, <2>1, <2>2, AppendProperties DEF Ids
  <2> HIDE DEF t
  <2>5. saidOf' = [saidOf EXCEPT ![n] = run.f]
    BY <2>2, <2>4 DEF saidOf
  <2>6. \A i \in 1 .. MaxTickets : (i \in Ids' /\ Recorded(i)') <=> (i \in Ids /\ Recorded(i))
    BY <2>2, <2>4 DEF Recorded
  <2>7. recordedOf' = recordedOf
    BY <2>6, Zenon DEF recordedOf
  <2>8. saidOf[n] = Unfiled /\ saidOf'[n] = run.f
    BY <2>2, <2>4 DEF saidOf
  <2>9. Standing!File(n)
    BY <2>3, <2>5, <2>7, <2>8 DEF Standing!File, saidOf, recordedOf
  <2> QED BY <2>2, <2>9 DEF Standing!Next
<1>4. CASE AddComment
  <2>k. PICK k \in Ids : k = run.id
    BY <1>4, <1>0 DEF AddComment, InHand
  <2> DEFINE what == IF run.plan = "done" THEN Finished ELSE run.f
  <2>1. /\ run.pc = "comment" /\ tickets' = tickets /\ told' = [told EXCEPT ![k] = what]
    BY <1>4, <2>k DEF AddComment
  <2>2. /\ k \in Ids /\ k \in 1 .. MaxTickets /\ k # 0 /\ run.prev = PropOf(k)
        /\ \/ run.plan = "done" /\ run.f = {} /\ ~run.prev.resolved
           \/ run.plan = "comment" /\ run.f \in Findings \ {{}} /\ run.prev.hash # run.f
    BY <1>0, <1>1, <2>1, <2>k DEF InHand, RunRecord, SayInv
  <2>3. what \in (Findings \ {{}}) \cup {Finished} /\ (what = Finished <=> run.plan = "done")
    BY <2>2, SayingsFacts
  <2>4. /\ Ids' = Ids /\ told'[k] = what /\ \A i \in Ids \ {k} : told'[i] = told[i]
        /\ tickets'[k] = tickets[k]
    BY <1>0, <2>1, <2>2 DEF Ids
  <2>5. told[k] \in Said /\ told[k] # Unfiled
    BY <1>0, <2>2, TicketType, SayingsFacts DEF Said
  <2>6. Recorded(k) => what # told[k]
    BY <1>0, <2>2, <2>3, RecordedBy
  <2>7. ~Recorded(k)'
    <3>1. tickets'[k] = tickets[k]
      BY <2>1
    <3>2. tickets[k].prop # NoState => PropOf(k) = tickets[k].prop
      BY DEF PropOf
    <3>3. what = Finished => ~PropOf(k).resolved
      BY <2>2, <2>3
    <3>4. what # Finished => PropOf(k).hash # what
      BY <2>2, <2>3
    <3> HIDE DEF what
    <3>5. [hash |-> what, resolved |-> FALSE].hash = what
      OBVIOUS
    <3> QED BY <2>4, <3>1, <3>2, <3>3, <3>4, <3>5 DEF Recorded
  <2> HIDE DEF what
  <2>8. saidOf' = [saidOf EXCEPT ![k] = what]
    BY <2>2, <2>4 DEF saidOf
  <2>9. \A i \in 1 .. MaxTickets :
           IF i = k THEN ~(i \in Ids' /\ Recorded(i)')
           ELSE (i \in Ids' /\ Recorded(i)') <=> (i \in Ids /\ Recorded(i))
    BY <2>1, <2>2, <2>4, <2>7 DEF Recorded
  <2>10. recordedOf' = [recordedOf EXCEPT ![k] = FALSE]
    BY <2>2, <2>9 DEF recordedOf
  <2>11. /\ saidOf[k] = told[k] /\ saidOf'[k] = what
         /\ (recordedOf[k] => Recorded(k)) /\ ~recordedOf'[k]
    BY <2>2, <2>4, <2>7 DEF saidOf, recordedOf
  <2>12. Standing!Say(k)
    BY <2>3, <2>5, <2>6, <2>8, <2>10, <2>11 DEF Standing!Say, saidOf, recordedOf
  <2> QED BY <2>2, <2>12 DEF Standing!Next
<1>5. CASE SetProperty
  <2>k. PICK k \in Ids : k = run.id
    BY <1>5, <1>0 DEF SetProperty, InHand
  <2> DEFINE st == StateToRecord(run.plan, run.prev, run.f)
             t == [tickets[k] EXCEPT !.prop = st]
  <2>1. /\ run.pc = "record" /\ told' = told /\ tickets' = [tickets EXCEPT ![k] = t]
    BY <1>5, <2>k DEF SetProperty
  <2>2. /\ k \in 1 .. MaxTickets
        /\ \/ run.plan = "done" /\ run.f = {} /\ told[k] = Finished
           \/ run.plan \in {"create", "comment"} /\ run.f # {} /\ told[k] = run.f
              /\ run.f \in Findings
        /\ Apps # {} /\ run.prev \in States /\ run.f \in Findings \cup {{}}
    BY <1>0, <1>1, <2>1, <2>k DEF InHand, RunRecord, SayInv
  <2>3. st \in AppscanState /\ st # NoState
    BY <2>2, StateToRecordType, StateFacts
  <2>4. IF told[k] = Finished THEN st.resolved ELSE st = [hash |-> told[k], resolved |-> FALSE]
    BY <2>2, SayingsFacts DEF StateToRecord
  <2> HIDE DEF st
  <2>5. t.prop = st
    BY <1>0, <2>2, TicketType DEF Ticket
  <2> HIDE DEF t
  <2>6. Ids' = Ids /\ tickets'[k] = t /\ \A i \in Ids \ {k} : tickets'[i] = tickets[i]
    BY <1>0, <2>1, <2>2 DEF Ids
  <2>7. Recorded(k)'
    BY <2>1, <2>3, <2>4, <2>5, <2>6 DEF Recorded
  <2>8. saidOf' = saidOf
    BY <2>1, <2>6 DEF saidOf
  <2>9. \A i \in 1 .. MaxTickets :
           IF i = k THEN i \in Ids' /\ Recorded(i)'
           ELSE (i \in Ids' /\ Recorded(i)') <=> (i \in Ids /\ Recorded(i))
    BY <2>1, <2>6, <2>7 DEF Recorded
  <2>10. recordedOf' = [recordedOf EXCEPT ![k] = TRUE]
    BY <2>2, <2>9 DEF recordedOf
  <2>11. saidOf[k] # Unfiled
    BY <2>2, SayingsFacts DEF saidOf
  <2>12. Standing!Record(k)
    BY <2>8, <2>10, <2>11 DEF Standing!Record, saidOf, recordedOf
  <2> QED BY <2>2, <2>12 DEF Standing!Next
<1>6. CASE JiraUnchanged
  BY <1>2, <1>6 DEF JiraUnchanged, Ids
<1>7. CASE CloseTicket \/ \E i \in Ids : MoveTicket(i)
  <2>1. ASSUME CloseTicket
        PROVE  /\ told' = told
               /\ Ids' = Ids /\ \A j \in Ids : tickets'[j].prop = tickets[j].prop
    <3>1. PICK i \in Ids : tickets' = [tickets EXCEPT ![i].open = FALSE]
      <4>1. Oldest(run.queue) \in Ids
        BY <1>0, <2>1, OldestIsOne DEF CloseTicket, RunRecord, InHand
      <4> QED BY <2>1, <4>1 DEF CloseTicket
    <3>2. told' = told
      BY <2>1 DEF CloseTicket
    <3> QED BY <1>0, <3>1, <3>2, TicketType DEF Ids, Ticket
  <2>2. ASSUME NEW i \in Ids, MoveTicket(i)
        PROVE  /\ told' = told
               /\ Ids' = Ids /\ \A j \in Ids : tickets'[j].prop = tickets[j].prop
    BY <1>0, <2>2, TicketType DEF MoveTicket, Ids, Ticket
  <2> QED BY <1>2, <1>7, <2>1, <2>2
<1> QED BY <1>3, <1>4, <1>5, <1>6, <1>7, StepShape

\* News, and only news: a ticket is filed with a list, told a list only when
\* it is not the one its readers have, and told once that nothing is left,
\* unless what it was told last could not be recorded.
THEOREM TellsNewsHolds == ASSUME Standing!SayingsAssumption PROVE Spec => TellsNews
<1>1. Init => TypeInv /\ SayInv
  <2>1. Init => SayInv
    BY IdleType DEF Init, SayInv
  <2> QED BY <2>1, TypeInvInit
<1>2. TypeInv /\ SayInv /\ [Next]_vars => (TypeInv /\ SayInv)'
  BY TypeInvStep, SayInvStep
<1>3. Init => Standing!Init
  <2> SUFFICES ASSUME Init PROVE Standing!Init
    OBVIOUS
  <2>1. Ids = {}
    BY DEF Init, Ids
  <2> QED BY <2>1 DEF Standing!Init
<1>4. TypeInv /\ TypeInv' /\ SayInv /\ [Next]_vars => [Standing!Next]_(Standing!vars)
  BY StandingStep
<1> QED BY <1>1, <1>2, <1>3, <1>4, PTL DEF Spec, TellsNews, Standing!Spec
-----------------------------------------------------------------------------
(* What the run says of a ticket.                                          *)

\* Every step says what is so.
LEMMA UpToDateStep ==
    TypeInv /\ SayInv /\ UpToDate /\ [Next]_vars => UpToDate'
<1> SUFFICES ASSUME TypeInv, SayInv, UpToDate, [Next]_vars PROVE UpToDate'
  OBVIOUS
<1>0. TypeOK /\ run \in RunRecord /\ InHand(run, Ids)
  BY DEF TypeInv
<1>1. CASE ref'.action \notin {"created", "commented", "unchanged"}
  BY <1>1 DEF UpToDate
<1>2. CASE Quiet
  BY <1>1, <1>2 DEF Quiet, NoRef
<1>3. CASE SkipApp \/ SearchFails \/ GetPropertyFails \/ CreateFails \/ CommentFails
  BY <1>1, <1>3 DEF SkipApp, SearchFails, GetPropertyFails, CreateFails, CommentFails, Answers,
                    AnswersFor, Ref
<1>4. CASE OnlyPreview
  <2>1. PICK f : ref' = Ref("not written", run.id, f)
    BY <1>4 DEF OnlyPreview, AnswersFor
  <2> QED BY <1>1, <2>1 DEF Ref
<1>5. CASE LeaveAlone
  <2>1. PICK f \in FindingsOf[run.app] :
          /\ run.pc = "plan" /\ PlanFor(f) = "nothing" /\ JiraUnchanged
          /\ ref' = Ref(IF run.id = 0 THEN "none"
                        ELSE IF run.prev.resolved THEN "resolved" ELSE "unchanged", run.id, f)
    BY <1>5 DEF LeaveAlone, AnswersFor
  <2>2. CASE run.id = 0 \/ run.prev.resolved
    BY <1>1, <2>1, <2>2 DEF Ref
  <2>3. CASE run.id # 0 /\ ~run.prev.resolved
    <3>1. run.id \in Ids /\ run.prev = PropOf(run.id) /\ run.prev \in States
          /\ f \in Findings \cup {{}}
      BY <1>0, <2>1, <2>3, StateFacts DEF InHand, RunRecord, SayInv
    <3>2. run.prev.hash = f
      BY <2>1, <2>3, <3>1, PlanGrounds DEF PlanFor
    <3>3. Recorded(run.id) => told[run.id] = f
      BY <1>0, <2>3, <3>1, <3>2, RecordedBy
    <3>4. ref'.id = run.id /\ ref'.f = f
      BY <2>1 DEF Ref
    <3> QED BY <2>1, <3>3, <3>4 DEF UpToDate, JiraUnchanged, Recorded
  <2> QED BY <2>2, <2>3
<1>6. CASE SetProperty \/ SetPropertyFails
  <2>1. run.pc = "record" /\ told' = told /\ ref' = Ref(Outcome, run.id, run.f)
    BY <1>6 DEF SetProperty, SetPropertyFails, Answers, AnswersFor, JiraUnchanged
  <2>2. CASE run.plan = "done"
    BY <1>1, <2>1, <2>2 DEF Outcome, Ref
  <2>3. CASE run.plan # "done"
    <3>1. told[run.id] = run.f /\ ref'.id = run.id /\ ref'.f = run.f
      BY <2>1, <2>3 DEF SayInv, Ref
    <3> QED BY <2>1, <3>1 DEF UpToDate
  <2> QED BY <2>2, <2>3
<1>7. CASE CreateIssue \/ CreateRefused \/ AddComment
  <2>1. Quiet \/ Answers("error", 0) \/ Answers("error", run.id)
    BY <1>7 DEF CreateIssue, CreateRefused, AddComment
  <2>2. Quiet \/ ref'.action = "error"
    BY <2>1 DEF Answers, AnswersFor, Ref
  <2> QED BY <1>1, <1>2, <2>2
<1>8. CASE UNCHANGED vars
  BY <1>8 DEF vars, UpToDate, Recorded
<1>9. CASE World
  BY <1>2, <1>9 DEF World, MoveTicket
<1>10. CASE \/ StartRun \/ EndApps \/ GetProperty \/ SearchTicket \/ GoAhead \/ JudgeRetired
            \/ RetireSearchFails \/ CloseTicket \/ CloseFails \/ EndRun \/ Crash
  BY <1>2, <1>10 DEF StartRun, EndApps, GetProperty, SearchTicket, GoAhead, JudgeRetired,
                     RetireSearchFails, CloseTicket, CloseFails, EndRun, Crash
<1> QED BY <1>3, <1>4, <1>5, <1>6, <1>7, <1>8, <1>9, <1>10 DEF Next, Step

\* A ticket said to be up to date, commented or filed has told its readers this
\* week's findings, unless an earlier telling was never recorded.
THEOREM UpToDateHolds == Spec => []UpToDate
<1>1. Init => TypeInv /\ SayInv /\ UpToDate
  <2>1. Init => SayInv
    BY IdleType DEF Init, SayInv
  <2>2. Init => UpToDate
    <3>1. NoRef.action = "no ref"
      BY DEF NoRef
    <3> QED BY <3>1 DEF Init, UpToDate
  <2> QED BY <2>1, <2>2, TypeInvInit
<1>2. TypeInv /\ SayInv /\ UpToDate /\ [Next]_vars => (TypeInv /\ SayInv /\ UpToDate)'
  BY TypeInvStep, SayInvStep, UpToDateStep
<1> QED BY <1>1, <1>2, PTL DEF Spec
-----------------------------------------------------------------------------
(* The retirement.                                                         *)

\* Outside the retirement nothing waits to be closed.
LEMMA QuietQueue ==
    ASSUME TypeInv, RetireInv, [Next]_vars, run'.pc # "close"
    PROVE  run'.closed = 0 /\ run'.queue = {}
<1>0. run \in RunRecord /\ InHand(run, Ids)
  BY DEF TypeInv
<1>1. run.pc # "close" => run.closed = 0 /\ run.queue = {}
  BY DEF RetireInv
<1>2. /\ NextApp(run).closed = run.closed /\ NextApp(run).queue = run.queue
      /\ NotRunning.closed = 0 /\ NotRunning.queue = {}
  BY <1>0, NextAppType, IdleType
<1>3. CASE UNCHANGED vars \/ World
  BY <1>1, <1>3 DEF vars, World, MoveTicket
<1>4. CASE StartRun
  <2>1. PICK named : run' = [NotRunning EXCEPT !.pc = "apps", !.todo = named]
    BY <1>4 DEF StartRun
  <2> QED BY <2>1 DEF NotRunning
<1>5. CASE SkipApp \/ SearchFails
  <2>1. run' = Taken /\ run.pc = "apps" /\ run.todo # {}
    BY <1>5 DEF SkipApp, SearchFails
  <2> QED BY <1>0, <1>1, <2>1, TakenType
<1>6. CASE SearchTicket
  <2>1. run'.closed = run.closed /\ run'.queue = run.queue /\ run.pc = "apps"
    BY <1>6, SearchType DEF SearchTicket
  <2> QED BY <1>1, <2>1
<1>7. CASE GoAhead
  <2>1. run'.closed = run.closed /\ run'.queue = run.queue /\ run.pc = "plan"
    BY <1>7, GoAheadType DEF GoAhead
  <2> QED BY <1>1, <2>1
<1>8. CASE GetPropertyFails \/ LeaveAlone \/ OnlyPreview \/ CreateFails \/ CommentFails
           \/ SetProperty \/ SetPropertyFails
  <2>1. run' = NextApp(run) /\ run.pc # "close"
    BY <1>8 DEF GetPropertyFails, LeaveAlone, OnlyPreview, CreateFails, CommentFails,
                SetProperty, SetPropertyFails, Answers, AnswersFor
  <2> QED BY <1>1, <1>2, <2>1
<1>9. CASE GetProperty \/ EndApps
  BY <1>0, <1>1, <1>9 DEF GetProperty, EndApps, RunRecord
<1>10. CASE CreateIssue \/ CreateRefused \/ AddComment
  <2>1. /\ run.pc # "close"
        /\ \/ run' = NextApp(run)
           \/ \E n : run' = [run EXCEPT !.pc = "record", !.id = n]
           \/ run' = [run EXCEPT !.routed = FALSE]
           \/ run' = [run EXCEPT !.pc = "record"]
    BY <1>10 DEF CreateIssue, CreateRefused, AddComment, Answers, AnswersFor
  <2> QED BY <1>0, <1>1, <1>2, <2>1 DEF RunRecord
<1>11. CASE JudgeRetired
  BY <1>2, <1>11, JudgeType
<1>12. CASE RetireSearchFails \/ EndRun \/ Crash
  BY <1>2, <1>12 DEF RetireSearchFails, EndRun, Crash
<1>13. CASE CloseTicket \/ CloseFails
  BY <1>13, WritingShape
<1> QED BY <1>3, <1>4, <1>5, <1>6, <1>7, <1>8, <1>9, <1>10, <1>11, <1>12, <1>13 DEF Next, Step

\* The caps allow what they allowed when one ticket fewer is left to close.
LEMMA CapsHold ==
    ASSUME NEW S, IsFiniteSet(S), NEW i \in S, NEW closed \in Nat, NEW after \in {closed, closed + 1},
           NEW judged \in Nat, closed + Cardinality(S) <= MaxRetirePerRun,
           closed + Cardinality(S) > 1 => 2 * (closed + Cardinality(S)) <= judged
    PROVE  /\ IsFiniteSet(S \ {i}) /\ after + Cardinality(S \ {i}) <= MaxRetirePerRun
           /\ after + Cardinality(S \ {i}) > 1 => 2 * (after + Cardinality(S \ {i})) <= judged
<1>1. /\ IsFiniteSet(S \ {i}) /\ Cardinality(S) \in Nat /\ MaxRetirePerRun \in Nat
      /\ Cardinality(S \ {i}) = Cardinality(S) - 1 /\ Cardinality(S \ {i}) \in Nat
  BY FS_RemoveElement, FS_CardinalityType, ConstantsAssumption
<1> QED BY <1>1

\* Every step keeps RetireInv.
LEMMA RetireInvStep == TypeInv /\ RetireInv /\ [Next]_vars => RetireInv'
<1> SUFFICES ASSUME TypeInv, RetireInv, [Next]_vars PROVE RetireInv'
  OBVIOUS
<1>0. TypeOK /\ run \in RunRecord /\ InHand(run, Ids)
  BY DEF TypeInv
<1>1. SUFFICES ASSUME run'.pc = "close"
      PROVE  /\ IsFiniteSet(run'.queue)
             /\ run'.closed + Cardinality(run'.queue) <= MaxRetirePerRun
             /\ run'.closed + Cardinality(run'.queue) > 1 =>
                   2 * (run'.closed + Cardinality(run'.queue)) <= run'.judged
             /\ run'.scanned \subseteq run'.list
             /\ \A i \in run'.queue : tickets'[i].app \notin run'.list
                                      /\ tickets'[i].prop # NoState
  BY QuietQueue DEF RetireInv
<1>2. CASE JudgeRetired
  <2> DEFINE open == IdKeyedOpen
             gone(own, list) == planRetire(open, own, list, run.scanned)
  <2>1. /\ run.pc = "retire" /\ JiraUnchanged /\ run.closed = 0
    BY <1>2 DEF JudgeRetired, RetireInv
  <2>2. PICK list \in SUBSET Apps, own \in SUBSET {i \in open : fleetFiled(i)} :
          /\ run'.list = list /\ run'.queue = gone(own, list) /\ gone(own, list) # {}
          /\ run'.judged = Cardinality(open)
          /\ run'.scanned = run.scanned /\ run'.closed = run.closed
    BY <1>1, <1>2, IdleType, JudgeType
  <2>3. IsFiniteSet(open)
    <3>1. open \subseteq 1 .. Len(tickets) /\ Len(tickets) \in Nat
      BY <1>0, LenProperties DEF TypeOK, Ids, IdKeyedOpen
    <3>2. IsFiniteSet(1 .. Len(tickets))
      BY <3>1, FS_Interval
    <3> QED BY <3>1, <3>2, FS_Subset
  <2>4. /\ gone(own, list) \subseteq open \cap own /\ IsFiniteSet(gone(own, list))
        /\ \A i \in gone(own, list) : tickets[i].app \notin list
        /\ run.scanned \subseteq list
        /\ Cardinality(gone(own, list)) <= MaxRetirePerRun
        /\ Cardinality(gone(own, list)) > 1 =>
              2 * Cardinality(gone(own, list)) <= Cardinality(open)
    BY <2>2, <2>3, RetireGrounds
  <2>5. \A i \in gone(own, list) : tickets[i].prop # NoState
    BY <2>2, <2>4 DEF fleetFiled
  <2>6. Cardinality(gone(own, list)) \in Nat
    BY <2>4, FS_CardinalityType
  <2> HIDE DEF gone
  <2> QED BY <2>1, <2>2, <2>4, <2>5, <2>6 DEF JiraUnchanged
<1>3. CASE CloseTicket
  <2>k. PICK i \in Ids : i = Oldest(run.queue) /\ i \in run.queue
    BY <1>0, <1>3, OldestIsOne DEF CloseTicket, RunRecord, InHand
  <2> DEFINE R == [run EXCEPT !.queue = @ \ {i}, !.closed = run.closed + 1]
  <2>1. /\ run.pc = "close" /\ run.queue # {} /\ tickets' = [tickets EXCEPT ![i].open = FALSE]
        /\ run' = R
    BY <1>3, <2>k DEF CloseTicket
  <2>2. /\ run'.queue = run.queue \ {i} /\ run'.closed = run.closed + 1
        /\ run'.list = run.list /\ run'.scanned = run.scanned /\ run'.judged = run.judged
    BY <1>0, <2>1 DEF RunRecord
  <2>3. \A j \in Ids : tickets'[j].app = tickets[j].app /\ tickets'[j].prop = tickets[j].prop
    BY <1>0, <2>1, TicketType DEF TypeOK, Ids, Ticket
  <2>4. run.closed \in Nat /\ run.judged \in Nat
    BY <1>0 DEF RunRecord
  <2>5. run.queue \subseteq Ids
    BY <1>0 DEF InHand
  <2> HIDE DEF R
  <2>6. /\ IsFiniteSet(run.queue) /\ run.closed + Cardinality(run.queue) <= MaxRetirePerRun
        /\ run.closed + Cardinality(run.queue) > 1 =>
              2 * (run.closed + Cardinality(run.queue)) <= run.judged
        /\ run.scanned \subseteq run.list
        /\ \A j \in run.queue : tickets[j].app \notin run.list /\ tickets[j].prop # NoState
    BY <2>1 DEF RetireInv
  <2>7. /\ IsFiniteSet(run.queue \ {i})
        /\ run.closed + 1 + Cardinality(run.queue \ {i}) <= MaxRetirePerRun
        /\ run.closed + 1 + Cardinality(run.queue \ {i}) > 1 =>
              2 * (run.closed + 1 + Cardinality(run.queue \ {i})) <= run.judged
    BY <2>k, <2>4, <2>6, CapsHold
  <2> QED BY <2>2, <2>3, <2>5, <2>6, <2>7
<1>4. CASE CloseFails
  <2>k. PICK i \in Ids : i = Oldest(run.queue) /\ i \in run.queue
    BY <1>0, <1>4, OldestIsOne DEF CloseFails, RunRecord, InHand
  <2>1. /\ run.pc = "close" /\ JiraUnchanged /\ run' = [run EXCEPT !.queue = @ \ {i}]
    BY <1>4, <2>k DEF CloseFails
  <2>2. /\ run'.queue = run.queue \ {i} /\ run'.closed = run.closed
        /\ run'.list = run.list /\ run'.scanned = run.scanned /\ run'.judged = run.judged
    BY <1>0, <2>1 DEF RunRecord
  <2>3. run.closed \in Nat /\ run.judged \in Nat
    BY <1>0 DEF RunRecord
  <2>4. /\ IsFiniteSet(run.queue) /\ run.closed + Cardinality(run.queue) <= MaxRetirePerRun
        /\ run.closed + Cardinality(run.queue) > 1 =>
              2 * (run.closed + Cardinality(run.queue)) <= run.judged
        /\ run.scanned \subseteq run.list
        /\ \A j \in run.queue : tickets[j].app \notin run.list /\ tickets[j].prop # NoState
    BY <2>1 DEF RetireInv
  <2>5. /\ IsFiniteSet(run.queue \ {i})
        /\ run.closed + Cardinality(run.queue \ {i}) <= MaxRetirePerRun
        /\ run.closed + Cardinality(run.queue \ {i}) > 1 =>
              2 * (run.closed + Cardinality(run.queue \ {i})) <= run.judged
    BY <2>k, <2>3, <2>4, CapsHold
  <2> QED BY <2>1, <2>2, <2>4, <2>5 DEF JiraUnchanged
<1>5. CASE run' = run
  <2>1. \A i \in Ids : tickets'[i].app = tickets[i].app /\ tickets'[i].prop = tickets[i].prop
    <3>1. CASE JiraUnchanged
      BY <3>1 DEF JiraUnchanged
    <3>2. ASSUME NEW j \in Ids, MoveTicket(j)
          PROVE  \A i \in Ids : tickets'[i].app = tickets[i].app /\ tickets'[i].prop = tickets[i].prop
      BY <1>0, <3>2, TicketType DEF MoveTicket, TypeOK, Ids, Ticket
    <3>3. ~CreateIssue /\ ~AddComment /\ ~SetProperty
      BY <1>1, <1>5 DEF CreateIssue, AddComment, SetProperty
    <3>4. ~CloseTicket
      <4>1. CloseTicket => run'.closed = run.closed + 1 /\ run.closed \in Nat
        BY <1>0 DEF CloseTicket, RunRecord
      <4> QED BY <4>1, <1>5
    <3> QED BY <3>1, <3>2, <3>3, <3>4, StepShape
  <2> QED BY <2>1, <1>0, <1>1, <1>5 DEF RetireInv, InHand
<1>6. CASE SearchTicket
  <2>1. run'.pc \in {"plan", "property"}
    BY <1>6, SearchType
  <2> QED BY <1>1, <2>1
<1>7. CASE GoAhead
  <2>1. run'.pc \in {"create", "comment"}
    BY <1>7, GoAheadType
  <2> QED BY <1>1, <2>1
<1> QED BY <1>1, <1>2, <1>3, <1>4, <1>5, <1>6, <1>7, RunShape, WritingShape

\* Both caps, and whatever the scanner shows: a run closes few tickets, and more
\* than one of them only when they are at most half of those it judged.
THEOREM QueueSurvivesHolds == Spec => []QueueSurvives
<1>1. Init => TypeInv /\ RetireInv
  <2>1. Init => RetireInv
    BY IdleType DEF Init, RetireInv
  <2> QED BY <2>1, TypeInvInit
<1>2. TypeInv /\ RetireInv /\ [Next]_vars => (TypeInv /\ RetireInv)'
  BY TypeInvStep, RetireInvStep
<1>3. TypeInv /\ RetireInv => QueueSurvives
  <2> SUFFICES ASSUME TypeInv, RetireInv PROVE QueueSurvives
    OBVIOUS
  <2>1. run.closed \in Nat /\ run.judged \in Nat /\ MaxRetirePerRun \in Nat
    BY ConstantsAssumption DEF TypeInv, RunRecord
  <2>2. CASE run.pc # "close"
    BY <2>1, <2>2 DEF RetireInv, QueueSurvives
  <2>3. CASE run.pc = "close"
    <3>1. IsFiniteSet(run.queue)
      BY <2>3 DEF RetireInv
    <3>2. Cardinality(run.queue) \in Nat
      BY <3>1, FS_CardinalityType
    <3> QED BY <2>1, <2>3, <3>2 DEF RetireInv, QueueSurvives
  <2> QED BY <2>2, <2>3
<1> QED BY <1>1, <1>2, <1>3, PTL DEF Spec

\* A run closes no ticket of an application it was itself given, or that the
\* list it judged by names, and none the fleet did not file.
THEOREM ClosesOnlyGoneHolds == Spec => ClosesOnlyGone
<1>1. Init => TypeInv /\ RetireInv
  <2>1. Init => RetireInv
    BY IdleType DEF Init, RetireInv
  <2> QED BY <2>1, TypeInvInit
<1>2. TypeInv /\ RetireInv /\ [Next]_vars => (TypeInv /\ RetireInv)'
  BY TypeInvStep, RetireInvStep
<1>3. TypeInv /\ RetireInv /\ [Next]_vars =>
        [\A i \in Ids : run.pc = "close" /\ run' # run /\ tickets[i].open /\ ~tickets'[i].open =>
            tickets[i].app \notin run.scanned \cup run.list /\ tickets[i].prop # NoState]_vars
  <2> SUFFICES ASSUME TypeInv, RetireInv, [Next]_vars, NEW i \in Ids, run.pc = "close",
                      run' # run, tickets[i].open, ~tickets'[i].open
               PROVE  tickets[i].app \notin run.scanned \cup run.list /\ tickets[i].prop # NoState
    OBVIOUS
  <2>1. CloseTicket
    BY StepShape DEF JiraUnchanged, CreateIssue, AddComment, SetProperty, MoveTicket
  <2>2. i = Oldest(run.queue)
    <3>1. tickets' = [tickets EXCEPT ![Oldest(run.queue)].open = FALSE]
      BY <2>1 DEF CloseTicket
    <3>2. i # Oldest(run.queue) => tickets'[i] = tickets[i]
      BY <3>1 DEF Ids
    <3> QED BY <3>2
  <2>3. i \in run.queue
    BY <2>1, <2>2, OldestIsOne DEF CloseTicket, TypeInv, RunRecord
  <2> QED BY <2>3 DEF RetireInv
<1> QED BY <1>1, <1>2, <1>3, PTL DEF Spec, ClosesOnlyGone
=============================================================================
