------------------------ MODULE DomainsTicketProofs -------------------------
(***************************************************************************)
(* Theorems of DomainsTicket, for every value of its constants.            *)
(*                                                                         *)
(* TypeInv adds to LockdownTypeOK the type of the run's record and which   *)
(* of its fields are set at which point.  On top of it:                    *)
(*   OpenInv     an open ticket that is not the newest was reopened, and a *)
(*               run about to file knows every open ticket was;            *)
(*   SayInv      the run compares with the property the ticket has still,  *)
(*               and what it is about to record its readers were told;     *)
(*   DoneInv     a run about to say that nothing is left met a survey in   *)
(*               which every domain matched its profile.                   *)
(***************************************************************************)
EXTENDS DomainsTicket, FiniteSetTheorems, SequenceTheorems, WellFoundedInduction, TLAPS

States == DomainsState \cup {ZeroState}

FilingRecord ==
    [pc : {"idle", "property", "plan", "create", "comment", "record"}, id : Nat, prev : States,
     plan : {"nothing", "create", "done", "comment"}, list : Lists, bad : Lists]

\* What the record says of the ticket in hand, out of the tickets I.
InHand(R, I) ==
    /\ R.id \in {0} \cup I
    /\ R.pc = "idle" => R = NotFiling
    /\ R.pc \in {"property", "comment", "record"} => R.id # 0
    /\ R.pc = "plan" /\ R.id = 0 => R.prev = ZeroState
    /\ R.pc = "create" => R.id = 0 /\ R.plan = "create" /\ R.list # {} /\ R.prev = ZeroState
    /\ R.pc = "comment" => \/ R.plan = "done" /\ R.list = {} /\ ~R.prev.resolved
                           \/ R.plan = "comment" /\ R.list # {} /\ R.prev.hash # R.list
    /\ R.pc = "record" => \/ R.plan = "done" /\ R.list = {}
                          \/ R.plan \in {"create", "comment"} /\ R.list # {}

TypeInv == LockdownTypeOK /\ filing \in FilingRecord /\ InHand(filing, Ids)

PropOf(i) == IF lockdowns[i].prop = NoProperty THEN ZeroState ELSE lockdowns[i].prop

\* An open ticket that is not the newest was reopened, and so was every open
\* one while a run is about to file.
OpenInv ==
    /\ \A i, j \in Ids : i < j /\ lockdowns[i].open => lockdowns[i].reopened
    /\ filing.pc \in {"plan", "create"} /\ filing.id = 0 =>
          \A i \in Ids : lockdowns[i].open => lockdowns[i].reopened

\* What the run holds of the ticket's property is so, and what it is about to
\* record has been told.
SayInv ==
    /\ filing.pc \in {"plan", "comment", "record"} /\ filing.id # 0 =>
          filing.prev = PropOf(filing.id)
    /\ filing.pc = "record" =>
          heard[filing.id] = IF filing.plan = "done" THEN Finished ELSE filing.list

\* Nothing was found when nothing is said to be left.
DoneInv == filing.pc = "comment" /\ filing.plan = "done" => filing.bad = {}
-----------------------------------------------------------------------------
(* The operators.                                                          *)

\* The empty list needs no state, and the states are no sentinel.
LEMMA StateFacts ==
    ASSUME LockdownAssumption
    PROVE  /\ ZeroState \in States /\ ZeroState.hash = {} /\ ZeroState.resolved = FALSE
           /\ \A s \in States : s.hash \in Lists /\ s.resolved \in BOOLEAN
           /\ NoProperty \notin DomainsState /\ MaxLockdowns \in Nat
<1>1. ZeroState \in States /\ ZeroState.hash = {} /\ ZeroState.resolved = FALSE
  BY DEF States, ZeroState
<1>2. {} \in Lists
  BY DEF Lists
<1>3. \A s \in States : s.hash \in Lists /\ s.resolved \in BOOLEAN
  BY <1>1, <1>2 DEF States, DomainsState
<1> QED BY <1>1, <1>3 DEF LockdownAssumption

\* What planDomains decides, and on what grounds.
LEMMA PlanGrounds ==
    ASSUME LockdownAssumption, NEW open \in BOOLEAN, NEW prev \in States, NEW af \in ActionsFile
    PROVE  LET plan == planDomains(open, prev, af)
           IN  /\ plan \in {"nothing", "create", "done", "comment"}
               /\ plan = "create" => ~open /\ af.list # {}
               /\ plan = "done" => open /\ af.list = {} /\ ~prev.resolved
                                   /\ ~af.held /\ af.skipped = {}
               /\ plan = "comment" => open /\ af.list # {} /\ prev.hash # af.list
<1>1. prev.resolved \in BOOLEAN
  BY StateFacts
<1> QED BY <1>1 DEF planDomains

\* What an actions file says, and of a survey in which every name was looked
\* up: it asks for nothing when there was nothing to ask for, or on purpose.
LEMMA ActionsType ==
    ASSUME NEW af \in ActionsFile
    PROVE  /\ af.list \in Lists /\ af.bad \in Lists
           /\ ~LookupsFail /\ af.list = {} /\ ~af.held /\ af.skipped = {} => af.bad = {}
<1>1. PICK bad \in Lists, known \in IF LookupsFail THEN SUBSET Domains ELSE {Domains},
           held \in BOOLEAN, sends \in Lists :
        af = [bad |-> bad, list |-> Actions(bad, known, held, sends), held |-> held,
              skipped |-> IF held THEN {} ELSE sends]
  BY DEF ActionsFile
<1>2. /\ af.bad = bad /\ af.list = Actions(bad, known, held, sends) /\ af.held = held
      /\ ~held => af.skipped = sends
  BY <1>1
<1>3. Actions(bad, known, held, sends) \in Lists
  BY DEF Actions, Lists
<1>4. ASSUME ~LookupsFail, ~held, sends = {}, Actions(bad, known, held, sends) = {}
      PROVE  bad = {}
  <2>1. known = Domains
    BY <1>4
  <2> QED BY <1>4, <2>1 DEF Actions, Lists
<1> QED BY <1>2, <1>3, <1>4

\* The newest open ticket is an open ticket.
LEMMA NewestIsOne ==
    ASSUME LockdownTypeOK, Open # {}
    PROVE  Newest \in Open
<1> DEFINE n == Len(lockdowns)
<1>1. n \in Nat /\ Ids = 1 .. n /\ Open \subseteq 1 .. n
  BY LenProperties DEF LockdownTypeOK, Ids, Open
<1> HIDE DEF n
<1> DEFINE T == {m \in Nat : n - m \in Open}
<1>2. T # {}
  <2>1. PICK k \in Open : TRUE
    OBVIOUS
  <2>2. k \in 1 .. n
    BY <1>1
  <2>3. n - k \in Nat /\ n - (n - k) = k
    BY <1>1, <2>2
  <2> QED BY <2>1, <2>3
<1>3. PICK m \in T : \A l \in T : ~(<<l, m>> \in OpToRel(<, Nat))
  BY <1>2, NatLessThanWellFounded, WFMin
<1>4. ASSUME NEW j \in Open PROVE j <= n - m
  <2>1. j \in 1 .. n
    BY <1>1
  <2>2. n - j \in Nat /\ n - (n - j) = j
    BY <1>1, <2>1
  <2>3. ~(n - j < m)
    BY <1>3, <2>2 DEF OpToRel
  <2> QED BY <1>1, <2>1, <2>3
<1> QED BY <1>3, <1>4 DEF Newest
-----------------------------------------------------------------------------
(* Types.                                                                  *)

\* The fields of a ticket, and what its readers were told.
LEMMA TicketType ==
    ASSUME LockdownAssumption, LockdownTypeOK, NEW i \in Ids
    PROVE  /\ i \in Nat /\ i # 0 /\ i \in 1 .. MaxLockdowns
           /\ lockdowns[i] \in Lockdown
           /\ lockdowns[i].open \in BOOLEAN /\ lockdowns[i].reopened \in BOOLEAN
           /\ lockdowns[i].prop \in DomainsState \cup {NoProperty} /\ PropOf(i) \in States
           /\ i \in DOMAIN heard /\ heard[i] \in (Lists \ {{}}) \cup {Finished}
<1>1. /\ lockdowns[i] \in Lockdown /\ heard[i] \in (Lists \ {{}}) \cup {Finished}
      /\ i \in DOMAIN heard
  BY ElementOfSeq DEF LockdownTypeOK, Ids
<1>2. Len(lockdowns) \in Nat /\ Ids = 1 .. Len(lockdowns) /\ MaxLockdowns \in Nat
  BY LenProperties DEF LockdownTypeOK, LockdownAssumption, Ids
<1>3. i \in Nat /\ i # 0 /\ i \in 1 .. MaxLockdowns
  BY <1>2 DEF LockdownTypeOK
<1>4. lockdowns[i].prop \in DomainsState \cup {NoProperty}
  BY <1>1 DEF Lockdown
<1> QED BY <1>1, <1>3, <1>4 DEF Lockdown, PropOf, States

\* The record of a process that is not running.
LEMMA IdleType ==
    ASSUME NEW I
    PROVE  NotFiling \in FilingRecord /\ InHand(NotFiling, I) /\ NotFiling.pc = "idle"
<1>1. ZeroState \in States /\ {} \in Lists
  BY DEF States, Lists
<1>2. NotFiling \in FilingRecord
  BY <1>1 DEF NotFiling, FilingRecord
<1> QED BY <1>2 DEF NotFiling, InHand

\* Most steps change the run's record and nothing else.
LEMMA RunStepType ==
    ASSUME TypeInv, NEW R \in FilingRecord, InHand(R, Ids), filing' = R, JiraUnchanged
    PROVE  TypeInv'
<1>1. /\ R.pc \in {"idle", "property", "plan", "create", "comment", "record"}
      /\ R.list \subseteq Domains
  BY DEF FilingRecord, Lists
<1>2. Ids' = Ids
  BY DEF JiraUnchanged, Ids
<1>3. InHand(R, Ids')
  BY <1>2
<1> QED BY <1>1, <1>2, <1>3 DEF TypeInv, LockdownTypeOK, InHand, JiraUnchanged

\* What a step makes of the run's record.
LEMMA FilingShape ==
    ASSUME LockdownAssumption, TypeInv, [LockdownNext]_lockdownVars
    PROVE  LET R == filing'
           IN  /\ R \in FilingRecord
               /\ \/ R = NotFiling
                  \/ R = filing /\ JiraUnchanged
                  \/ R = filing /\ \E i \in Ids : MoveLockdown(i)
                  \/ /\ SearchLockdown /\ R.pc = "plan" /\ R.id = 0 /\ R.prev = ZeroState
                     /\ Open = {}
                  \/ SearchLockdown /\ R.pc = "property" /\ R.id \in Ids
                  \/ /\ GetLockdownProperty /\ R.pc = "plan" /\ R.id = filing.id /\ R.id # 0
                     /\ R.prev = PropOf(R.id)
                  \/ /\ Plan /\ R.pc = "create" /\ R.plan = "create" /\ R.list # {}
                     /\ R.id = filing.id /\ R.prev = filing.prev /\ R.id = 0
                  \/ /\ Plan /\ R.pc = "comment" /\ R.id = filing.id /\ R.id # 0
                     /\ R.prev = filing.prev
                     /\ \/ R.plan = "done" /\ R.list = {} /\ ~R.prev.resolved
                           /\ (~LookupsFail => R.bad = {})
                        \/ R.plan = "comment" /\ R.list # {} /\ R.prev.hash # R.list
                  \/ /\ CreateLockdown /\ R.pc = "record" /\ R.id = Len(lockdowns) + 1
                     /\ R.plan = filing.plan /\ R.list = filing.list /\ R.prev = filing.prev
                  \/ /\ CommentLockdown /\ R.pc = "record" /\ R.id = filing.id
                     /\ R.plan = filing.plan /\ R.list = filing.list /\ R.prev = filing.prev
<1>0. LockdownTypeOK /\ filing \in FilingRecord /\ InHand(filing, Ids)
  BY DEF TypeInv
<1>n. NotFiling \in FilingRecord
  BY IdleType
<1>1. CASE SearchLockdown
  <2> DEFINE n == Newest
  <2>1. filing = NotFiling /\ filing.pc = "idle"
    BY <1>0, <1>1 DEF SearchLockdown, InHand
  <2>2. CASE Open = {}
    <3>1. filing' = [filing EXCEPT !.pc = "plan"]
      BY <1>1, <2>2 DEF SearchLockdown
    <3>2. /\ filing' \in FilingRecord /\ filing'.pc = "plan" /\ filing'.id = filing.id
          /\ filing'.prev = filing.prev
      BY <1>0, <3>1 DEF FilingRecord
    <3>3. filing.id = 0 /\ filing.prev = ZeroState
      BY <2>1 DEF NotFiling
    <3> QED BY <1>1, <2>2, <3>2, <3>3
  <2>3. CASE Open # {}
    <3>1. filing' = [filing EXCEPT !.pc = "property", !.id = n]
      BY <1>1, <2>3 DEF SearchLockdown
    <3>2. n \in Ids
      BY <1>0, <2>3, NewestIsOne DEF Open
    <3>3. n \in Nat
      BY <1>0, <3>2, TicketType
    <3> HIDE DEF n
    <3>4. filing' \in FilingRecord /\ filing'.pc = "property" /\ filing'.id = n
      BY <1>0, <3>1, <3>3 DEF FilingRecord
    <3> QED BY <1>1, <3>2, <3>4
  <2> QED BY <2>2, <2>3
<1>2. CASE GetLockdownProperty
  <2> DEFINE p == PropOf(filing.id)
  <2>1. filing.id \in Ids /\ filing.id # 0
    BY <1>0, <1>2 DEF GetLockdownProperty, InHand
  <2>2. p \in States
    BY <1>0, <2>1, TicketType
  <2>3. filing' = [filing EXCEPT !.pc = "plan", !.prev = p]
    BY <1>2 DEF GetLockdownProperty, PropOf
  <2> HIDE DEF p
  <2>4. /\ filing' \in FilingRecord /\ filing'.pc = "plan" /\ filing'.id = filing.id
        /\ filing'.prev = p
    BY <1>0, <2>2, <2>3 DEF FilingRecord
  <2>5. p = PropOf(filing.id)
    BY DEF p
  <2> QED BY <1>2, <2>1, <2>4, <2>5
<1>3. CASE CallFails \/ RecordLockdown \/ RecordFails \/ Killed
  BY <1>3, <1>n DEF CallFails, RecordLockdown, RecordFails, Killed, Ends
<1>4. CASE Plan
  <2>1. PICK af \in ActionsFile, mayWrite \in BOOLEAN :
          LET plan == planDomains(filing.id # 0, filing.prev, af)
          IN  filing' = IF plan = "nothing" \/ ~mayWrite THEN NotFiling
                        ELSE [filing EXCEPT !.pc = IF plan = "create" THEN "create" ELSE "comment",
                                            !.plan = plan, !.list = af.list, !.bad = af.bad]
    BY <1>4 DEF Plan
  <2> DEFINE plan == planDomains(filing.id # 0, filing.prev, af)
             pc == IF plan = "create" THEN "create" ELSE "comment"
  <2>2. filing.prev \in States
    BY <1>0 DEF FilingRecord
  <2>3. /\ plan \in {"nothing", "create", "done", "comment"}
        /\ plan = "create" => filing.id = 0 /\ af.list # {}
        /\ plan = "done" => filing.id # 0 /\ af.list = {} /\ ~filing.prev.resolved
                            /\ ~af.held /\ af.skipped = {}
        /\ plan = "comment" => filing.id # 0 /\ af.list # {} /\ filing.prev.hash # af.list
    BY <2>2, PlanGrounds
  <2>4. /\ af.list \in Lists /\ af.bad \in Lists
        /\ ~LookupsFail /\ plan = "done" => af.bad = {}
    BY <2>3, ActionsType
  <2> HIDE DEF plan
  <2>5. CASE plan = "nothing" \/ ~mayWrite
    BY <1>n, <2>1, <2>5 DEF plan
  <2>6. CASE plan # "nothing" /\ mayWrite
    <3>1. filing' = [filing EXCEPT !.pc = pc, !.plan = plan, !.list = af.list, !.bad = af.bad]
      BY <2>1, <2>6 DEF plan
    <3>2. pc \in {"create", "comment"} /\ (pc = "create" <=> plan = "create")
      OBVIOUS
    <3> HIDE DEF pc
    <3>3. filing' \in FilingRecord
      BY <1>0, <2>3, <2>4, <3>1, <3>2 DEF FilingRecord
    <3>4. /\ filing'.pc = pc /\ filing'.plan = plan /\ filing'.list = af.list
          /\ filing'.bad = af.bad /\ filing'.id = filing.id /\ filing'.prev = filing.prev
      BY <1>0, <3>1 DEF FilingRecord
    <3>5. CASE plan = "create"
      BY <1>4, <2>3, <3>2, <3>3, <3>4, <3>5
    <3>6. CASE plan = "done"
      BY <1>4, <2>3, <2>4, <3>2, <3>3, <3>4, <3>6
    <3>7. CASE plan = "comment"
      BY <1>4, <2>3, <3>2, <3>3, <3>4, <3>7
    <3> QED BY <2>3, <2>6, <3>5, <3>6, <3>7
  <2> QED BY <2>5, <2>6
<1>5. CASE CreateLockdown
  <2> DEFINE n == Len(lockdowns) + 1
  <2>1. n \in Nat
    BY <1>0, LenProperties DEF LockdownTypeOK
  <2>2. filing' = [filing EXCEPT !.pc = "record", !.id = n] \/ filing' = NotFiling
    BY <1>5 DEF CreateLockdown, Ends
  <2> HIDE DEF n
  <2>3. CASE filing' = [filing EXCEPT !.pc = "record", !.id = n]
    <3>1. /\ filing' \in FilingRecord /\ filing'.pc = "record" /\ filing'.id = n
          /\ filing'.plan = filing.plan /\ filing'.list = filing.list
          /\ filing'.prev = filing.prev
      BY <1>0, <2>1, <2>3 DEF FilingRecord
    <3> QED BY <1>5, <3>1 DEF n
  <2> QED BY <1>n, <2>2, <2>3
<1>6. CASE CommentLockdown
  <2>1. filing' = [filing EXCEPT !.pc = "record"] \/ filing' = NotFiling
    BY <1>6 DEF CommentLockdown, Ends
  <2>2. CASE filing' = [filing EXCEPT !.pc = "record"]
    <3>1. /\ filing' \in FilingRecord /\ filing'.pc = "record" /\ filing'.id = filing.id
          /\ filing'.plan = filing.plan /\ filing'.list = filing.list
          /\ filing'.prev = filing.prev
      BY <1>0, <2>2 DEF FilingRecord
    <3> QED BY <1>6, <3>1
  <2> QED BY <1>n, <2>1, <2>2
<1>7. CASE \E i \in Ids : MoveLockdown(i)
  BY <1>0, <1>7 DEF MoveLockdown
<1>8. CASE UNCHANGED lockdownVars
  BY <1>0, <1>8 DEF lockdownVars, JiraUnchanged
<1> QED BY <1>1, <1>2, <1>3, <1>4, <1>5, <1>6, <1>7, <1>8 DEF LockdownNext

\* Which steps touch the tickets and what their readers were told.
LEMMA TicketShape ==
    ASSUME [LockdownNext]_lockdownVars
    PROVE  \/ JiraUnchanged
           \/ CreateLockdown \/ CommentLockdown \/ RecordLockdown
           \/ \E i \in Ids : MoveLockdown(i)
BY DEF LockdownNext, lockdownVars, JiraUnchanged, SearchLockdown, GetLockdownProperty, CallFails,
       Plan, RecordFails, Killed

\* What filing a ticket does.
LEMMA CreateShape ==
    ASSUME LockdownAssumption, TypeInv, CreateLockdown
    PROVE  LET n == Len(lockdowns) + 1
           IN  /\ filing.pc = "create" /\ filing.list \in Lists \ {{}}
               /\ n \in Nat /\ n \in 1 .. MaxLockdowns /\ n \notin Ids /\ Ids' = Ids \cup {n}
               /\ \A i \in Ids : /\ i < n /\ lockdowns'[i] = lockdowns[i]
                                 /\ heard'[i] = heard[i]
               /\ lockdowns'[n] = [open |-> TRUE, prop |-> NoProperty, reopened |-> FALSE]
               /\ heard'[n] = filing.list
               /\ lockdowns' \in Seq(Lockdown) /\ Len(lockdowns') <= MaxLockdowns
               /\ heard' \in Seq((Lists \ {{}}) \cup {Finished})
               /\ Len(heard') = Len(lockdowns')
<1> DEFINE t == [open |-> TRUE, prop |-> NoProperty, reopened |-> FALSE]
           n == Len(lockdowns) + 1
<1>1. /\ filing.pc = "create" /\ Len(lockdowns) < MaxLockdowns
      /\ lockdowns' = Append(lockdowns, t) /\ heard' = Append(heard, filing.list)
  BY DEF CreateLockdown
<1>2. /\ lockdowns \in Seq(Lockdown) /\ heard \in Seq((Lists \ {{}}) \cup {Finished})
      /\ Len(heard) = Len(lockdowns) /\ MaxLockdowns \in Nat /\ Len(lockdowns) \in Nat
      /\ Ids = 1 .. Len(lockdowns)
  BY LenProperties DEF TypeInv, LockdownTypeOK, LockdownAssumption, Ids
<1>3. filing.list \in Lists \ {{}}
  BY <1>1 DEF TypeInv, InHand, FilingRecord
<1>4. t \in Lockdown
  BY DEF Lockdown
<1> HIDE DEF t
<1>5. /\ lockdowns' \in Seq(Lockdown) /\ Len(lockdowns') = n
      /\ heard' \in Seq((Lists \ {{}}) \cup {Finished}) /\ Len(heard') = n
      /\ lockdowns'[n] = t /\ heard'[n] = filing.list
      /\ \A i \in Ids : lockdowns'[i] = lockdowns[i] /\ heard'[i] = heard[i]
  BY <1>1, <1>2, <1>3, <1>4, AppendProperties
<1>6. /\ n \in Nat /\ n \in 1 .. MaxLockdowns /\ n \notin Ids /\ n <= MaxLockdowns
      /\ \A i \in Ids : i < n
  BY <1>1, <1>2
<1>7. Ids' = Ids \cup {n}
  <2>1. Ids' = 1 .. n
    BY <1>5, LenProperties DEF Ids
  <2> QED BY <1>2, <2>1
<1> QED BY <1>1, <1>3, <1>5, <1>6, <1>7 DEF t

\* What the other steps do to the tickets.
LEMMA EditShape ==
    ASSUME LockdownAssumption, TypeInv
    PROVE  /\ CommentLockdown =>
                /\ filing.pc = "comment" /\ filing.id \in Ids /\ filing.id # 0
                /\ lockdowns' = lockdowns /\ Ids' = Ids
                /\ heard'[filing.id] = IF filing.plan = "done" THEN Finished ELSE filing.list
                /\ \A i \in Ids \ {filing.id} : heard'[i] = heard[i]
                /\ heard' \in Seq((Lists \ {{}}) \cup {Finished}) /\ Len(heard') = Len(heard)
           /\ RecordLockdown =>
                /\ filing.pc = "record" /\ filing.id \in Ids
                /\ heard' = heard /\ Ids' = Ids /\ filing' = NotFiling
                /\ lockdowns'[filing.id].prop =
                      [hash |-> filing.list, resolved |-> filing.plan = "done"]
                /\ lockdowns'[filing.id].prop \in DomainsState
                /\ lockdowns'[filing.id].open = lockdowns[filing.id].open
                /\ lockdowns'[filing.id].reopened = lockdowns[filing.id].reopened
                /\ \A i \in Ids \ {filing.id} : lockdowns'[i] = lockdowns[i]
                /\ lockdowns' \in Seq(Lockdown) /\ Len(lockdowns') = Len(lockdowns)
           /\ \A i \in Ids : MoveLockdown(i) =>
                /\ heard' = heard /\ Ids' = Ids /\ filing' = filing
                /\ lockdowns'[i].prop = lockdowns[i].prop
                /\ lockdowns'[i].open => lockdowns'[i].reopened
                /\ \A j \in Ids \ {i} : lockdowns'[j] = lockdowns[j]
                /\ lockdowns' \in Seq(Lockdown) /\ Len(lockdowns') = Len(lockdowns)
<1>0. /\ lockdowns \in Seq(Lockdown) /\ heard \in Seq((Lists \ {{}}) \cup {Finished})
      /\ Len(heard) = Len(lockdowns) /\ filing \in FilingRecord /\ InHand(filing, Ids)
      /\ LockdownTypeOK
  BY DEF TypeInv, LockdownTypeOK
<1>1. ASSUME CommentLockdown
      PROVE  /\ filing.pc = "comment" /\ filing.id \in Ids /\ filing.id # 0
             /\ lockdowns' = lockdowns /\ Ids' = Ids
             /\ heard'[filing.id] = IF filing.plan = "done" THEN Finished ELSE filing.list
             /\ \A i \in Ids \ {filing.id} : heard'[i] = heard[i]
             /\ heard' \in Seq((Lists \ {{}}) \cup {Finished}) /\ Len(heard') = Len(heard)
  <2> DEFINE l == IF filing.plan = "done" THEN Finished ELSE filing.list
  <2>1. filing.pc = "comment" /\ lockdowns' = lockdowns /\ heard' = [heard EXCEPT ![filing.id] = l]
    BY <1>1 DEF CommentLockdown
  <2>2. filing.id \in Ids /\ filing.id # 0 /\ l \in (Lists \ {{}}) \cup {Finished}
    BY <1>0, <2>1 DEF InHand, FilingRecord
  <2>3. filing.id \in 1 .. Len(heard)
    BY <1>0, <2>2 DEF Ids
  <2>4. Ids' = Ids
    BY <2>1 DEF Ids
  <2> HIDE DEF l
  <2>5. heard' \in Seq((Lists \ {{}}) \cup {Finished}) /\ Len(heard') = Len(heard)
    BY <1>0, <2>1, <2>2, <2>3, ExceptSeq
  <2>6. heard'[filing.id] = l /\ \A i \in Ids \ {filing.id} : heard'[i] = heard[i]
    BY <1>0, <2>1, <2>3 DEF Ids
  <2> QED BY <2>1, <2>2, <2>4, <2>5, <2>6 DEF l
<1>2. ASSUME RecordLockdown
      PROVE  /\ filing.pc = "record" /\ filing.id \in Ids
             /\ heard' = heard /\ Ids' = Ids /\ filing' = NotFiling
             /\ lockdowns'[filing.id].prop =
                   [hash |-> filing.list, resolved |-> filing.plan = "done"]
             /\ lockdowns'[filing.id].prop \in DomainsState
             /\ lockdowns'[filing.id].open = lockdowns[filing.id].open
             /\ lockdowns'[filing.id].reopened = lockdowns[filing.id].reopened
             /\ \A i \in Ids \ {filing.id} : lockdowns'[i] = lockdowns[i]
             /\ lockdowns' \in Seq(Lockdown) /\ Len(lockdowns') = Len(lockdowns)
  <2> DEFINE st == [hash |-> filing.list, resolved |-> filing.plan = "done"]
             t == [lockdowns[filing.id] EXCEPT !.prop = st]
  <2>1. /\ filing.pc = "record" /\ heard' = heard /\ filing' = NotFiling
        /\ lockdowns' = [lockdowns EXCEPT ![filing.id] = t]
    BY <1>2 DEF RecordLockdown, Ends
  <2>2. filing.id \in Ids
    BY <1>0, <2>1 DEF InHand
  <2>3. st \in DomainsState
    BY <1>0, <2>1 DEF InHand, FilingRecord, DomainsState
  <2> HIDE DEF st
  <2>4. /\ t \in Lockdown /\ t.prop = st /\ t.open = lockdowns[filing.id].open
        /\ t.reopened = lockdowns[filing.id].reopened
    BY <1>0, <2>2, <2>3, TicketType DEF Lockdown
  <2> HIDE DEF t
  <2>5. lockdowns' \in Seq(Lockdown) /\ Len(lockdowns') = Len(lockdowns)
    BY <1>0, <2>1, <2>2, <2>4, ExceptSeq DEF Ids
  <2>6. /\ lockdowns'[filing.id] = t /\ \A i \in Ids \ {filing.id} : lockdowns'[i] = lockdowns[i]
        /\ Ids' = Ids
    BY <1>0, <2>1, <2>2 DEF Ids
  <2> QED BY <2>1, <2>2, <2>3, <2>4, <2>5, <2>6 DEF st
<1>3. ASSUME NEW i \in Ids, MoveLockdown(i)
      PROVE  /\ heard' = heard /\ Ids' = Ids /\ filing' = filing
             /\ lockdowns'[i].prop = lockdowns[i].prop
             /\ lockdowns'[i].open => lockdowns'[i].reopened
             /\ \A j \in Ids \ {i} : lockdowns'[j] = lockdowns[j]
             /\ lockdowns' \in Seq(Lockdown) /\ Len(lockdowns') = Len(lockdowns)
  <2> DEFINE t == [lockdowns[i] EXCEPT !.open = ~@, !.reopened = @ \/ ~lockdowns[i].open]
  <2>1. heard' = heard /\ filing' = filing /\ lockdowns' = [lockdowns EXCEPT ![i] = t]
    BY <1>3 DEF MoveLockdown
  <2>2. t \in Lockdown /\ t.prop = lockdowns[i].prop /\ (t.open => t.reopened)
    BY <1>0, TicketType DEF Lockdown
  <2> HIDE DEF t
  <2>3. lockdowns' \in Seq(Lockdown) /\ Len(lockdowns') = Len(lockdowns)
    BY <1>0, <2>1, <2>2, ExceptSeq DEF Ids
  <2>4. /\ lockdowns'[i] = t /\ \A j \in Ids \ {i} : lockdowns'[j] = lockdowns[j] /\ Ids' = Ids
    BY <1>0, <2>1 DEF Ids
  <2>5. Ids' = Ids
    BY <1>0, <2>1 DEF Ids
  <2> QED BY <2>1, <2>2, <2>3, <2>4, <2>5
<1> QED BY <1>1, <1>2, <1>3

\* Every step keeps the type invariant.
LEMMA TypeInvStep ==
    LockdownAssumption /\ TypeInv /\ [LockdownNext]_lockdownVars => TypeInv'
<1> SUFFICES ASSUME LockdownAssumption, TypeInv, [LockdownNext]_lockdownVars PROVE TypeInv'
  OBVIOUS
<1>0. LockdownTypeOK /\ filing \in FilingRecord /\ InHand(filing, Ids)
  BY DEF TypeInv
<1> DEFINE Kept == /\ lockdowns' \in Seq(Lockdown) /\ Len(lockdowns') <= MaxLockdowns
                   /\ heard' \in Seq((Lists \ {{}}) \cup {Finished})
                   /\ Len(heard') = Len(lockdowns') /\ Ids \subseteq Ids'
<1>1. Kept
  <2>1. CASE JiraUnchanged
    BY <1>0, <2>1 DEF JiraUnchanged, LockdownTypeOK, Ids
  <2>2. CASE CreateLockdown
    BY <2>2, CreateShape
  <2>3. CASE CommentLockdown
    BY <1>0, <2>3, EditShape DEF LockdownTypeOK
  <2>4. CASE RecordLockdown
    BY <1>0, <2>4, EditShape DEF LockdownTypeOK
  <2>5. ASSUME NEW i \in Ids, MoveLockdown(i) PROVE Kept
    BY <1>0, <2>5, EditShape DEF LockdownTypeOK
  <2> QED BY <2>1, <2>2, <2>3, <2>4, <2>5, TicketShape
<1> HIDE DEF Kept
<1>2. filing' \in FilingRecord
  BY FilingShape
<1>3. Ids \subseteq Ids'
  BY <1>1 DEF Kept
<1>4. InHand(filing', Ids')
  <2> DEFINE R == filing'
  <2>1. CASE R = NotFiling
    BY <2>1, IdleType
  <2>2. CASE R = filing
    BY <1>0, <1>3, <2>2 DEF InHand
  <2>3. CASE R.pc = "plan" /\ R.id = 0 /\ R.prev = ZeroState
    BY <2>3 DEF InHand
  <2>4. CASE SearchLockdown /\ R.pc = "property" /\ R.id \in Ids
    <3>1. R.id # 0
      BY <1>0, <2>4, TicketType
    <3> QED BY <1>3, <2>4, <3>1 DEF InHand
  <2>5. CASE GetLockdownProperty /\ R.pc = "plan" /\ R.id = filing.id /\ R.id # 0
    BY <1>0, <1>3, <2>5 DEF InHand
  <2>6. CASE /\ Plan /\ R.pc = "create" /\ R.plan = "create" /\ R.list # {}
             /\ R.id = filing.id /\ R.prev = filing.prev /\ R.id = 0
    BY <1>0, <2>6 DEF InHand, Plan
  <2>7. CASE /\ Plan /\ R.pc = "comment" /\ R.id = filing.id /\ R.id # 0
             /\ \/ R.plan = "done" /\ R.list = {} /\ ~R.prev.resolved
                \/ R.plan = "comment" /\ R.list # {} /\ R.prev.hash # R.list
    BY <1>0, <1>3, <2>7 DEF InHand
  <2>8. CASE /\ CreateLockdown /\ R.pc = "record" /\ R.id = Len(lockdowns) + 1
             /\ R.plan = filing.plan /\ R.list = filing.list
    <3>1. R.id \in Ids' /\ R.id # 0 /\ filing.pc = "create"
      <4>1. /\ Len(lockdowns) + 1 \in Ids' /\ filing.pc = "create"
            /\ Len(lockdowns) + 1 \in 1 .. MaxLockdowns
        BY <2>8, CreateShape
      <4>2. MaxLockdowns \in Nat
        BY DEF LockdownAssumption
      <4>3. Len(lockdowns) + 1 # 0
        BY <4>1, <4>2
      <4> QED BY <2>8, <4>1, <4>3
    <3>2. R.plan = "create" /\ R.list # {}
      BY <1>0, <2>8, <3>1 DEF InHand
    <3> QED BY <2>8, <3>1, <3>2 DEF InHand
  <2>9. CASE /\ CommentLockdown /\ R.pc = "record" /\ R.id = filing.id
             /\ R.plan = filing.plan /\ R.list = filing.list
    <3>1. filing.pc = "comment"
      BY <2>9 DEF CommentLockdown
    <3> QED BY <1>0, <1>3, <2>9, <3>1 DEF InHand
  <2> HIDE DEF R
  <2> QED BY <2>1, <2>2, <2>3, <2>4, <2>5, <2>6, <2>7, <2>8, <2>9, FilingShape DEF R
<1>5. filing'.pc \in {"idle", "property", "plan", "create", "comment", "record"}
      /\ filing'.list \subseteq Domains /\ filing'.id \in {0} \cup Ids'
  BY <1>2, <1>4 DEF FilingRecord, Lists, InHand
<1> QED BY <1>1, <1>2, <1>4, <1>5 DEF TypeInv, LockdownTypeOK, Kept

\* TypeInv at the start.
LEMMA TypeInvInit == LockdownAssumption /\ LockdownInit => TypeInv
<1> SUFFICES ASSUME LockdownAssumption, LockdownInit PROVE TypeInv
  OBVIOUS
<1>1. lockdowns = <<>> /\ heard = <<>> /\ filing = NotFiling
  BY DEF LockdownInit
<1>2. /\ lockdowns \in Seq(Lockdown) /\ heard \in Seq((Lists \ {{}}) \cup {Finished})
      /\ Len(lockdowns) = 0 /\ Len(heard) = 0
  BY <1>1, EmptySeq
<1>3. filing \in FilingRecord /\ InHand(filing, Ids)
  BY <1>1, IdleType
<1>4. filing.pc \in {"idle", "property", "plan", "create", "comment", "record"}
      /\ filing.list \subseteq Domains /\ filing.id \in {0} \cup Ids
  BY <1>3 DEF FilingRecord, Lists, InHand
<1>5. 0 <= MaxLockdowns
  BY DEF LockdownAssumption
<1> QED BY <1>2, <1>3, <1>4, <1>5 DEF TypeInv, LockdownTypeOK

\* Every variable keeps its type in every behaviour, and the ticket the run
\* has in hand is one of the project's.
THEOREM DomainsTicketTypes == ASSUME LockdownAssumption PROVE LockdownSpec => []LockdownTypeOK
<1>1. LockdownInit => TypeInv
  BY TypeInvInit
<1>2. TypeInv /\ [LockdownNext]_lockdownVars => TypeInv'
  BY TypeInvStep
<1>3. TypeInv => LockdownTypeOK
  BY DEF TypeInv
<1> QED BY <1>1, <1>2, <1>3, PTL DEF LockdownSpec
-----------------------------------------------------------------------------
(* One open ticket.                                                        *)

\* Every step keeps OpenInv.
LEMMA OpenInvStep ==
    LockdownAssumption /\ TypeInv /\ OpenInv /\ [LockdownNext]_lockdownVars => OpenInv'
<1> SUFFICES ASSUME LockdownAssumption, TypeInv, OpenInv, [LockdownNext]_lockdownVars
             PROVE  OpenInv'
  OBVIOUS
<1>0. LockdownTypeOK /\ TypeInv' /\ filing \in FilingRecord /\ InHand(filing, Ids)
  BY TypeInvStep DEF TypeInv
<1> DEFINE Sound == \A i, j \in Ids : i < j /\ lockdowns[i].open => lockdowns[i].reopened
           AllBack == \A i \in Ids : lockdowns[i].open => lockdowns[i].reopened
           Files == filing.pc \in {"plan", "create"} /\ filing.id = 0
<1>1. Sound /\ (Files => AllBack)
  BY DEF OpenInv
<1>2. Files' => \/ Files /\ (JiraUnchanged \/ \E i \in Ids : MoveLockdown(i))
                \/ JiraUnchanged /\ Open = {}
  <2>1. NotFiling.pc = "idle"
    BY IdleType
  <2>2. (Plan /\ filing'.pc = "create" /\ filing'.id = filing.id) /\ filing'.id = 0
           => Files /\ JiraUnchanged
    BY DEF Plan
  <2>3. SearchLockdown => JiraUnchanged
    BY DEF SearchLockdown
  <2>4. filing' = filing => (Files' <=> Files)
    OBVIOUS
  <2> HIDE DEF Files
  <2>5. ASSUME filing'.pc \notin {"plan", "create"} \/ filing'.id # 0 PROVE ~Files'
    BY <2>5 DEF Files
  <2> QED BY <2>1, <2>2, <2>3, <2>4, <2>5, FilingShape
<1>3. CASE JiraUnchanged
  <2>1. (Sound' <=> Sound) /\ (AllBack' <=> AllBack)
    BY <1>3 DEF JiraUnchanged, Ids
  <2>2. Open = {} => AllBack
    BY DEF Open
  <2> HIDE DEF Sound, AllBack, Files
  <2>3. Sound' /\ (Files' => AllBack')
    BY <1>1, <1>2, <2>1, <2>2
  <2> QED BY <2>3 DEF OpenInv, Sound, AllBack, Files
<1>4. CASE CreateLockdown
  <2> DEFINE n == Len(lockdowns) + 1
  <2>1. /\ Ids' = Ids \cup {n} /\ filing.pc = "create" /\ n \notin Ids /\ n \in Nat
        /\ \A i \in Ids : i < n /\ lockdowns'[i] = lockdowns[i]
    BY <1>4, CreateShape
  <2>2. filing.id = 0
    BY <1>0, <2>1 DEF InHand
  <2>3. AllBack
    BY <1>1, <2>1, <2>2
  <2>4. ~Files'
    <3>1. ~JiraUnchanged
      BY <2>1 DEF JiraUnchanged, Ids
    <3>2. ~\E i \in Ids : MoveLockdown(i)
      <4>1. \A i \in Ids : MoveLockdown(i) => Ids' = Ids
        BY EditShape
      <4> QED BY <2>1, <4>1
    <3> QED BY <1>2, <3>1, <3>2
  <2> HIDE DEF n
  <2>5. Sound'
    <3> SUFFICES ASSUME NEW i \in Ids', NEW j \in Ids', i < j, lockdowns'[i].open
                 PROVE  lockdowns'[i].reopened
      OBVIOUS
    <3>1. i \in Ids
      <4>1. \A m \in Ids : m \in Nat
        BY <1>0, TicketType
      <4> QED BY <2>1, <4>1
    <3> QED BY <2>1, <2>3, <3>1
  <2> QED BY <2>4, <2>5 DEF OpenInv
<1>5. ASSUME Ids' = Ids, \A i \in Ids : /\ lockdowns[i].open /\ lockdowns'[i].open
                                              /\ lockdowns[i].reopened => lockdowns'[i].reopened
                                        /\ ~lockdowns[i].open /\ lockdowns'[i].open
                                              => lockdowns'[i].reopened,
             Files' => Files
      PROVE  OpenInv'
  <2>1. \A i \in Ids : lockdowns[i].open \in BOOLEAN /\ lockdowns[i].reopened \in BOOLEAN
    BY <1>0, TicketType
  <2>2. Sound' /\ (AllBack => AllBack')
    BY <1>1, <1>5, <2>1
  <2> QED BY <1>1, <1>5, <2>2 DEF OpenInv
<1>6. CASE CommentLockdown \/ RecordLockdown
  <2>1. /\ Ids' = Ids /\ \A i \in Ids : /\ lockdowns'[i].open = lockdowns[i].open
                                        /\ lockdowns'[i].reopened = lockdowns[i].reopened
    BY <1>6, EditShape
  <2>2. filing'.pc \notin {"plan", "create"}
    <3>1. NotFiling.pc = "idle"
      BY IdleType
    <3> QED BY <3>1, <1>0, <1>6 DEF CommentLockdown, RecordLockdown, Ends, FilingRecord
  <2> QED BY <1>5, <2>1, <2>2
<1>7. ASSUME NEW i \in Ids, MoveLockdown(i) PROVE OpenInv'
  <2>1. /\ Ids' = Ids /\ filing' = filing /\ (lockdowns'[i].open => lockdowns'[i].reopened)
        /\ \A j \in Ids \ {i} : lockdowns'[j] = lockdowns[j]
    BY <1>7, EditShape
  <2> QED BY <1>5, <2>1
<1> QED BY <1>3, <1>4, <1>6, <1>7, TicketShape

\* Two lock-down tickets are open at once only when a person reopened the
\* earlier one: a create whose answer was lost, a lost record and a kill never
\* file a second.
THEOREM OneLockdownTicketHolds ==
    ASSUME LockdownAssumption PROVE LockdownSpec => []OneLockdownTicket
<1>1. LockdownInit => TypeInv /\ OpenInv
  <2>1. LockdownInit => OpenInv
    BY IdleType DEF LockdownInit, OpenInv, Ids
  <2> QED BY <2>1, TypeInvInit
<1>2. TypeInv /\ OpenInv /\ [LockdownNext]_lockdownVars => (TypeInv /\ OpenInv)'
  BY TypeInvStep, OpenInvStep
<1>3. OpenInv => OneLockdownTicket
  BY DEF OpenInv, OneLockdownTicket
<1> QED BY <1>1, <1>2, <1>3, PTL DEF LockdownSpec
-----------------------------------------------------------------------------
(* News, and only news.                                                    *)

\* Every step keeps SayInv.
LEMMA SayInvStep ==
    LockdownAssumption /\ TypeInv /\ SayInv /\ [LockdownNext]_lockdownVars => SayInv'
<1> SUFFICES ASSUME LockdownAssumption, TypeInv, SayInv, [LockdownNext]_lockdownVars PROVE SayInv'
  OBVIOUS
<1>0. LockdownTypeOK /\ TypeInv' /\ filing \in FilingRecord /\ InHand(filing, Ids)
  BY TypeInvStep DEF TypeInv
<1> DEFINE R == filing'
<1>1. SUFFICES ASSUME R.pc \in {"plan", "comment", "record"}, R.id # 0
               PROVE  /\ R.prev = PropOf(filing.id)'
                      /\ R.pc = "record" =>
                            heard'[R.id] = IF R.plan = "done" THEN Finished ELSE R.list
  <2>1. R.pc = "record" => R.id # 0
    BY <1>0 DEF TypeInv, InHand
  <2> QED BY <1>1, <2>1 DEF SayInv
<1>2. CASE /\ R = filing /\ heard' = heard
           /\ \A i \in Ids : lockdowns'[i].prop = lockdowns[i].prop
  <2>1. filing.id \in Ids
    BY <1>0, <1>1, <1>2 DEF InHand
  <2> QED BY <1>1, <1>2, <2>1 DEF SayInv, PropOf
<1>3. CASE R = NotFiling \/ (R.pc = "plan" /\ R.id = 0) \/ R.pc = "property" \/ R.pc = "create"
  BY <1>1, <1>3, IdleType
<1>4. CASE GetLockdownProperty /\ R.pc = "plan" /\ R.prev = PropOf(R.id)
  BY <1>4 DEF GetLockdownProperty, JiraUnchanged, PropOf
<1>5. CASE Plan /\ R.pc = "comment" /\ R.id = filing.id /\ R.prev = filing.prev
  BY <1>1, <1>5 DEF Plan, JiraUnchanged, PropOf, SayInv
<1>6. CASE /\ CreateLockdown /\ R.pc = "record" /\ R.id = Len(lockdowns) + 1
           /\ R.plan = filing.plan /\ R.list = filing.list /\ R.prev = filing.prev
  <2> DEFINE n == Len(lockdowns) + 1
  <2>1. /\ filing.pc = "create" /\ lockdowns'[n].prop = NoProperty /\ heard'[n] = filing.list
    BY <1>6, CreateShape
  <2>2. filing.plan = "create" /\ filing.prev = ZeroState
    BY <1>0, <2>1 DEF InHand
  <2>3. R.id = n
    BY <1>6
  <2> HIDE DEF n
  <2> QED BY <1>6, <2>1, <2>2, <2>3 DEF PropOf
<1>7. CASE /\ CommentLockdown /\ R.pc = "record" /\ R.id = filing.id
           /\ R.plan = filing.plan /\ R.list = filing.list /\ R.prev = filing.prev
  <2>1. /\ filing.pc = "comment" /\ filing.id # 0 /\ lockdowns' = lockdowns
        /\ heard'[filing.id] = IF filing.plan = "done" THEN Finished ELSE filing.list
    BY <1>7, EditShape
  <2>2. filing.prev = PropOf(filing.id)
    BY <2>1 DEF SayInv
  <2> QED BY <1>7, <2>1, <2>2 DEF PropOf
<1>8. CASE R = filing /\ JiraUnchanged
  BY <1>2, <1>8 DEF JiraUnchanged
<1>9. ASSUME NEW i \in Ids, MoveLockdown(i)
      PROVE  /\ R = filing /\ heard' = heard
             /\ \A j \in Ids : lockdowns'[j].prop = lockdowns[j].prop
  <2>1. /\ heard' = heard /\ filing' = filing /\ lockdowns'[i].prop = lockdowns[i].prop
        /\ \A j \in Ids \ {i} : lockdowns'[j] = lockdowns[j]
    BY <1>9, EditShape
  <2> QED BY <2>1
<1> HIDE DEF R
<1> QED BY <1>2, <1>3, <1>4, <1>5, <1>6, <1>7, <1>8, <1>9, FilingShape DEF R

saidOf == [i \in 1 .. MaxLockdowns |-> IF i \in Ids THEN heard[i] ELSE Unfiled]
recordedOf == [i \in 1 .. MaxLockdowns |-> i \in Ids /\ RecordedFor(i)]

LEMMA SayingsFacts ==
    ASSUME LockdownStanding!SayingsAssumption
    PROVE  /\ \A l \in Lists \ {{}} : l # Finished /\ l # Unfiled
           /\ Finished # Unfiled
BY DEF LockdownStanding!SayingsAssumption

\* Whether a ticket's property says what was heard, by what was heard.
LEMMA RecordedBy ==
    ASSUME NEW i \in Ids
    PROVE  /\ RecordedFor(i) => PropOf(i) = lockdowns[i].prop
           /\ RecordedFor(i) /\ heard[i] = Finished => PropOf(i).resolved
           /\ RecordedFor(i) /\ heard[i] # Finished => PropOf(i).hash = heard[i]
BY DEF RecordedFor, PropOf

\* A step is File, Say or Record of StandingTicket, or changes nothing of it.
LEMMA StandingStep ==
    ASSUME LockdownAssumption, LockdownStanding!SayingsAssumption, TypeInv, TypeInv', SayInv,
           [LockdownNext]_lockdownVars
    PROVE  [LockdownStanding!Next]_(LockdownStanding!vars)
<1>0. /\ LockdownTypeOK /\ filing \in FilingRecord /\ InHand(filing, Ids)
      /\ \A i \in Ids : i \in 1 .. MaxLockdowns
  BY TicketType DEF TypeInv
<1>2. CASE Ids' = Ids /\ \A i \in Ids : heard'[i] = heard[i] /\ lockdowns'[i].prop = lockdowns[i].prop
  <2>1. saidOf' = saidOf
    BY <1>2 DEF saidOf
  <2>2. \A i \in Ids : RecordedFor(i)' <=> RecordedFor(i)
    BY <1>2 DEF RecordedFor
  <2>3. \A i \in 1 .. MaxLockdowns : (i \in Ids /\ RecordedFor(i))' <=> (i \in Ids /\ RecordedFor(i))
    BY <1>2, <2>2
  <2>4. recordedOf' = recordedOf
    BY <2>3, Zenon DEF recordedOf
  <2> QED BY <2>1, <2>4 DEF saidOf, recordedOf, LockdownStanding!vars
<1>3. CASE CreateLockdown
  <2>1. /\ Len(lockdowns) + 1 \in 1 .. MaxLockdowns /\ Len(lockdowns) + 1 \notin Ids
        /\ filing.list \in Lists \ {{}}
    BY <1>3, CreateShape
  <2>2. PICK n \in 1 .. MaxLockdowns : n = Len(lockdowns) + 1 /\ n \notin Ids
    BY <2>1
  <2>3. filing.list # Unfiled
    BY <2>1, SayingsFacts
  <2>4. /\ Ids' = Ids \cup {n} /\ heard'[n] = filing.list /\ lockdowns'[n].prop = NoProperty
        /\ \A i \in Ids : heard'[i] = heard[i] /\ lockdowns'[i] = lockdowns[i]
    BY <1>3, <2>2, CreateShape
  <2>5. saidOf' = [saidOf EXCEPT ![n] = filing.list]
    BY <2>2, <2>4 DEF saidOf
  <2>6. \A i \in 1 .. MaxLockdowns :
           (i \in Ids' /\ RecordedFor(i)') <=> (i \in Ids /\ RecordedFor(i))
    BY <2>2, <2>4 DEF RecordedFor
  <2>7. recordedOf' = recordedOf
    BY <2>6, Zenon DEF recordedOf
  <2>8. saidOf[n] = Unfiled /\ saidOf'[n] = filing.list
    BY <2>2, <2>4 DEF saidOf
  <2>9. LockdownStanding!File(n)
    BY <2>1, <2>3, <2>5, <2>7, <2>8 DEF LockdownStanding!File, saidOf, recordedOf
  <2> QED BY <2>2, <2>9 DEF LockdownStanding!Next
<1>4. CASE CommentLockdown
  <2>k. PICK k \in Ids : k = filing.id
    BY <1>4, EditShape
  <2> DEFINE what == IF filing.plan = "done" THEN Finished ELSE filing.list
  <2>1. /\ filing.pc = "comment" /\ k # 0 /\ lockdowns' = lockdowns /\ Ids' = Ids
        /\ heard'[k] = what /\ \A i \in Ids \ {k} : heard'[i] = heard[i]
    BY <1>4, <2>k, EditShape
  <2>2. /\ k \in 1 .. MaxLockdowns /\ filing.prev = PropOf(k)
        /\ \/ filing.plan = "done" /\ filing.list = {} /\ ~filing.prev.resolved
           \/ filing.plan = "comment" /\ filing.list \in Lists \ {{}}
              /\ filing.prev.hash # filing.list
    BY <1>0, <2>1, <2>k DEF InHand, FilingRecord, SayInv
  <2>3. what \in (Lists \ {{}}) \cup {Finished} /\ (what = Finished <=> filing.plan = "done")
    BY <2>2, SayingsFacts
  <2>4. heard[k] # Unfiled
    BY <1>0, TicketType, SayingsFacts
  <2>5. what = Finished => ~PropOf(k).resolved
    BY <2>2, <2>3
  <2>6. what # Finished => PropOf(k).hash # what
    BY <2>2, <2>3
  <2> HIDE DEF what
  <2>7. RecordedFor(k) => what # heard[k]
    BY <2>5, <2>6, RecordedBy
  <2>8. ~RecordedFor(k)'
    <3>1. lockdowns[k].prop # NoProperty => PropOf(k) = lockdowns[k].prop
      BY DEF PropOf
    <3>2. [hash |-> what, resolved |-> FALSE].hash = what
      OBVIOUS
    <3> QED BY <2>1, <2>5, <2>6, <3>1, <3>2 DEF RecordedFor
  <2>9. saidOf' = [saidOf EXCEPT ![k] = what]
    BY <2>1, <2>2 DEF saidOf
  <2>10. \A i \in 1 .. MaxLockdowns :
            IF i = k THEN ~(i \in Ids' /\ RecordedFor(i)')
            ELSE (i \in Ids' /\ RecordedFor(i)') <=> (i \in Ids /\ RecordedFor(i))
    BY <2>1, <2>2, <2>8 DEF RecordedFor
  <2>11. recordedOf' = [recordedOf EXCEPT ![k] = FALSE]
    BY <2>2, <2>10 DEF recordedOf
  <2>12. /\ saidOf[k] = heard[k] /\ saidOf'[k] = what
         /\ (recordedOf[k] => RecordedFor(k)) /\ ~recordedOf'[k]
    BY <2>1, <2>2, <2>8 DEF saidOf, recordedOf
  <2>13. LockdownStanding!Say(k)
    BY <2>3, <2>4, <2>7, <2>9, <2>11, <2>12 DEF LockdownStanding!Say, saidOf, recordedOf
  <2> QED BY <2>2, <2>13 DEF LockdownStanding!Next
<1>5. CASE RecordLockdown
  <2>k. PICK k \in Ids : k = filing.id
    BY <1>5, EditShape
  <2> DEFINE st == [hash |-> filing.list, resolved |-> filing.plan = "done"]
  <2>1. /\ filing.pc = "record" /\ heard' = heard /\ Ids' = Ids /\ lockdowns'[k].prop = st
        /\ st \in DomainsState /\ \A i \in Ids \ {k} : lockdowns'[i] = lockdowns[i]
    BY <1>5, <2>k, EditShape
  <2>2. /\ k \in 1 .. MaxLockdowns
        /\ \/ filing.plan = "done" /\ heard[k] = Finished
           \/ filing.plan \in {"create", "comment"} /\ heard[k] = filing.list
              /\ filing.list \in Lists \ {{}}
    BY <1>0, <2>1, <2>k DEF InHand, FilingRecord, SayInv
  <2>3. IF heard[k] = Finished THEN st.resolved ELSE st = [hash |-> heard[k], resolved |-> FALSE]
    BY <2>2, SayingsFacts
  <2>4. st # NoProperty
    BY <2>1, StateFacts
  <2> HIDE DEF st
  <2>5. RecordedFor(k)'
    BY <2>1, <2>3, <2>4 DEF RecordedFor
  <2>6. saidOf' = saidOf
    BY <2>1 DEF saidOf
  <2>7. \A i \in 1 .. MaxLockdowns :
           IF i = k THEN i \in Ids' /\ RecordedFor(i)'
           ELSE (i \in Ids' /\ RecordedFor(i)') <=> (i \in Ids /\ RecordedFor(i))
    BY <2>1, <2>5 DEF RecordedFor
  <2>8. recordedOf' = [recordedOf EXCEPT ![k] = TRUE]
    BY <2>2, <2>7 DEF recordedOf
  <2>9. saidOf[k] # Unfiled
    BY <2>2, SayingsFacts DEF saidOf
  <2>10. LockdownStanding!Record(k)
    BY <2>6, <2>8, <2>9 DEF LockdownStanding!Record, saidOf, recordedOf
  <2> QED BY <2>2, <2>10 DEF LockdownStanding!Next
<1>6. CASE JiraUnchanged
  BY <1>2, <1>6 DEF JiraUnchanged, Ids
<1>7. ASSUME NEW i \in Ids, MoveLockdown(i)
      PROVE  [LockdownStanding!Next]_(LockdownStanding!vars)
  <2>1. /\ heard' = heard /\ Ids' = Ids /\ lockdowns'[i].prop = lockdowns[i].prop
        /\ \A j \in Ids \ {i} : lockdowns'[j] = lockdowns[j]
    BY <1>7, EditShape
  <2> QED BY <1>2, <2>1
<1> QED BY <1>3, <1>4, <1>5, <1>6, <1>7, TicketShape

\* A ticket is filed with a list, told a list only when it is not the one its
\* readers have, and told once that nothing is left, unless what it was told
\* last could not be recorded.
THEOREM LockdownTellsNewsHolds ==
    ASSUME LockdownAssumption, LockdownStanding!SayingsAssumption
    PROVE  LockdownSpec => LockdownTellsNews
<1>1. LockdownInit => TypeInv /\ SayInv
  <2>1. LockdownInit => SayInv
    BY IdleType DEF LockdownInit, SayInv
  <2> QED BY <2>1, TypeInvInit
<1>2. TypeInv /\ SayInv /\ [LockdownNext]_lockdownVars => (TypeInv /\ SayInv)'
  BY TypeInvStep, SayInvStep
<1>3. LockdownInit => LockdownStanding!Init
  <2> SUFFICES ASSUME LockdownInit PROVE LockdownStanding!Init
    OBVIOUS
  <2>1. Ids = {}
    BY DEF LockdownInit, Ids
  <2> QED BY <2>1 DEF LockdownStanding!Init
<1>4. TypeInv /\ TypeInv' /\ SayInv /\ [LockdownNext]_lockdownVars
         => [LockdownStanding!Next]_(LockdownStanding!vars)
  BY StandingStep
<1> QED BY <1>1, <1>2, <1>3, <1>4, PTL DEF LockdownSpec, LockdownTellsNews, LockdownStanding!Spec
-----------------------------------------------------------------------------
(* Nothing is left.                                                        *)

\* Every step keeps DoneInv, as long as every name is looked up.
LEMMA DoneInvStep ==
    ASSUME LockdownAssumption, ~LookupsFail, TypeInv, DoneInv, [LockdownNext]_lockdownVars
    PROVE  DoneInv'
BY FilingShape, IdleType DEF DoneInv

\* A ticket is told that nothing is left only in a week in which the survey
\* met no domain that does not match its profile: the gateway's evidence was
\* not missing, and none was passed over.  LookupsFail is excluded, and with
\* it the property does not hold: the run DomainsTicket_outage.
THEOREM FinishedIsTrueHolds ==
    ASSUME LockdownAssumption, ~LookupsFail, Finished \notin Lists
    PROVE  LockdownSpec => FinishedIsTrue
<1>1. LockdownInit => TypeInv /\ DoneInv
  <2>1. LockdownInit => DoneInv
    BY IdleType DEF LockdownInit, DoneInv
  <2> QED BY <2>1, TypeInvInit
<1>2. TypeInv /\ DoneInv /\ [LockdownNext]_lockdownVars => (TypeInv /\ DoneInv)'
  BY TypeInvStep, DoneInvStep
<1>3. TypeInv /\ DoneInv /\ [LockdownNext]_lockdownVars =>
        [\A i \in Ids : heard'[i] = Finished /\ heard[i] # Finished => filing.bad = {}]_lockdownVars
  <2> SUFFICES ASSUME TypeInv, DoneInv, [LockdownNext]_lockdownVars, NEW i \in Ids,
                      heard'[i] = Finished, heard[i] # Finished
               PROVE  filing.bad = {}
    OBVIOUS
  <2>1. CommentLockdown
    <3>1. ~JiraUnchanged
      BY DEF JiraUnchanged
    <3>2. ~CreateLockdown
      BY CreateShape
    <3>3. ~RecordLockdown
      BY EditShape
    <3>4. ~\E j \in Ids : MoveLockdown(j)
      BY DEF MoveLockdown
    <3> QED BY <3>1, <3>2, <3>3, <3>4, TicketShape
  <2>2. i = filing.id /\ filing.pc = "comment" /\ heard'[i] = IF filing.plan = "done" THEN Finished ELSE filing.list
    BY <2>1, EditShape
  <2>3. filing.list \in Lists
    BY DEF TypeInv, FilingRecord
  <2>4. filing.plan = "done"
    BY <2>2, <2>3
  <2> QED BY <2>2, <2>4 DEF DoneInv
<1> QED BY <1>1, <1>2, <1>3, PTL DEF LockdownSpec, FinishedIsTrue
=============================================================================
