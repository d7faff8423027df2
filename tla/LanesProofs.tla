---------------------------- MODULE LanesProofs -----------------------------
(***************************************************************************)
(* The properties of Lanes, for every value of its constants.  A step of   *)
(* the lanes is a step of one component or leaves it alone, so a behaviour *)
(* of Lanes is one of every component: what is proved of each, here and in *)
(* the modules of their proofs, is carried over to the specification that  *)
(* composes them.                                                          *)
(*                                                                         *)
(* The limiter, the lock-down ticket and the mail policy have proofs of    *)
(* their own, of the modules alone.  LimiterP, LockdownP and PolicyP are   *)
(* those modules with their theorems, over the variables of Lanes.         *)
(***************************************************************************)
EXTENDS AppTicketsProofs, WeeklyLanesProofs

-----------------------------------------------------------------------------
(* The owners' reports.                                                    *)

\* A step of the lanes is one of the owners' reports, or leaves them as they are.
LEMMA ReportSteps == [LanesNext]_lanesVars => [Reports!ReportNext]_(Reports!reportVars)
BY DEF LanesNext, lanesVars, weeklyVars, dailyVars, reportVars, Reports!reportVars, Appscan,
       DomainsActions, WeeklySurvey, QualysCalls, Synopses, SharedMailbox, WeeklyReport,
       OwnersMail, Digests, MessageBoard, Mailers, OwnersOnFile, ScannerCache

ScanRecord == [kind : Reports!Kind \cup {"due"}, age : 0 .. Reports!Never,
               notice : 0 .. Reports!Never]
Delivery == [scan : Scans, key : Reports!Keys,
             hold : {"measured less", "retry", "no owner", "send"}]
FetchRecord == [pc : {"idle", "next", "wait", "delete", "failed", "send"},
                plan : SUBSET Delivery, todo : SUBSET Delivery, got : SUBSET Delivery,
                ready : SUBSET Delivery, done : SUBSET Delivery]
Making == {"wait", "delete", "failed"}

ReportTypeInv ==
    /\ scans \in [Scans -> ScanRecord] /\ owned \subseteq Reports!Owned
    /\ held \in Nat /\ stranded \in Nat
    /\ sentLog \in [Reports!Keys -> Scans \cup {NoScan}]
    /\ fetch \in FetchRecord /\ delivered \in [Scans -> 0 .. 2]
    /\ fetch.pc = "idle" => fetch = Reports!NotRunning

\* What is to be sent: one report of an application, of a scan the log does not have.
ToSend(plan) == {d \in plan : d.hold = "send"}
PlanIsFit(plan) ==
    /\ \A d \in plan, e \in plan : AppOf[d.scan] = AppOf[e.scan] => d = e
    /\ \A d \in plan : d.key[1] = AppOf[d.scan]
    /\ \A d \in ToSend(plan) : d.key = <<AppOf[d.scan], "id">> /\ sentLog[d.key] # d.scan

PlanInv ==
    /\ PlanIsFit(fetch.plan)
    /\ fetch.todo \subseteq ToSend(fetch.plan) /\ fetch.got \subseteq ToSend(fetch.plan)
    /\ fetch.ready \subseteq ToSend(fetch.plan) /\ fetch.done \subseteq ToSend(fetch.plan)
    /\ fetch.ready \cap fetch.done = {}
    /\ fetch.pc # "send" => fetch.ready = {} /\ fetch.done = {}
    /\ fetch.pc \in Making => fetch.todo # {}

\* A report that was mailed is on the log, or will be when the run records.
MailedInv ==
    \A s \in Scans :
        \/ delivered[s] = 0 \/ s \in unrecorded
        \/ /\ delivered[s] = 1
           /\ \/ sentLog[<<AppOf[s], "id">>] = s
              \/ \E d \in fetch.done : d.scan = s

LEMMA ReportFacts ==
    /\ IsFiniteSet(Scans) /\ Scans \subseteq Nat /\ NoScan \notin Scans
    /\ ReportWindow \in Nat \ {0} /\ ScanMargin \in Nat \ {0}
    /\ Reports!Never \in Nat \ {0}
<1>1. /\ IsFiniteSet(Scans) /\ Scans \subseteq Nat /\ NoScan \notin Scans
      /\ ReportWindow \in Nat \ {0} /\ ScanMargin \in Nat \ {0}
  BY LanesAssumption DEF Reports!OwnerReportsAssumption, Reports!IsFiniteSet, IsFiniteSet
<1> QED BY <1>1 DEF Reports!Never

LEMMA NotFetching ==
    /\ Reports!NotRunning \in FetchRecord /\ Reports!NotRunning.pc = "idle"
    /\ Reports!NotRunning.plan = {} /\ Reports!NotRunning.todo = {}
    /\ Reports!NotRunning.got = {} /\ Reports!NotRunning.ready = {}
    /\ Reports!NotRunning.done = {}
BY DEF Reports!NotRunning, FetchRecord

\* The delivery of the earliest scan is one of those to do.
LEMMA CurrentIs ==
    ASSUME fetch.todo \subseteq Delivery, fetch.todo # {}
    PROVE  Reports!Current \in fetch.todo
<1> DEFINE T == {d.scan : d \in fetch.todo}
<1>1. T \subseteq Nat /\ T # {}
  BY ReportFacts DEF Delivery
<1>2. PICK s \in T : \A t \in T : ~(<<t, s>> \in OpToRel(<, Nat))
  BY <1>1, NatLessThanWellFounded, WFMin
<1> HIDE DEF T
<1>3. ASSUME NEW t \in T PROVE s <= t
  <2>1. s \in Nat /\ t \in Nat
    BY <1>1
  <2>2. ~(t < s)
    BY <1>2, <2>1 DEF OpToRel
  <2> QED BY <2>1, <2>2
<1>4. PICK d \in fetch.todo : d.scan = s
  BY <1>2 DEF T
<1>5. \A e \in fetch.todo : d.scan <= e.scan
  BY <1>3, <1>4 DEF T
<1> QED BY <1>5 DEF Reports!Current

\* What is planned of what was found: a report of an application's newest scan.
LEMMA PlanIs ==
    ASSUME ReportTypeInv, NEW found \in {Reports!Reconcile, Reports!collect}
    PROVE  /\ Reports!BuildDeliveries(found) \subseteq Delivery
           /\ PlanIsFit(Reports!BuildDeliveries(found))
<1>1. /\ \A r \in found : r.scan \in Scans /\ r.id \in BOOLEAN
      /\ \A r \in found, q \in found : r.scan = q.scan => r = q
  <2>1. ASSUME NEW S \in SUBSET Scans, NEW f \in [Scans -> BOOLEAN],
               found = {[scan |-> s, id |-> f[s]] : s \in S}
        PROVE  /\ \A r \in found : r.scan \in Scans /\ r.id \in BOOLEAN
               /\ \A r \in found, q \in found : r.scan = q.scan => r = q
    BY <2>1
  <2>2. CASE found = Reports!Reconcile
    <3> DEFINE joined == {s \in Scans : Reports!Noticed(s) /\ Reports!Listed(s)}
               added  == {s \in Scans : /\ scans[s].age < ReportWindow /\ ~Reports!Noticed(s)
                                        /\ scans[s].kind # "manual"
                                        /\ \A t \in joined : AppOf[t] # AppOf[s]}
               S == {t \in Scans : Reports!Noticed(t)} \cup added
               f == [s \in Scans |-> Reports!Listed(s)]
    <3>1. found = {[scan |-> s, id |-> Reports!Listed(s)] : s \in S}
      BY <2>2, Zenon DEF Reports!Reconcile
    <3>2. S \subseteq Scans /\ f \in [Scans -> BOOLEAN]
      BY DEF Reports!Listed
    <3>3. \A s \in S : f[s] = Reports!Listed(s)
      OBVIOUS
    <3> HIDE DEF S, f
    <3>4. found = {[scan |-> s, id |-> f[s]] : s \in S}
      BY <3>1, <3>3
    <3> QED BY <2>1, <3>2, <3>4
  <2>3. CASE found = Reports!collect
    <3> DEFINE S == {t \in Scans : Reports!Noticed(t)}
               f == [s \in Scans |-> FALSE]
    <3>1. found = {[scan |-> s, id |-> FALSE] : s \in S}
      BY <2>3, Zenon DEF Reports!collect
    <3>2. S \subseteq Scans /\ f \in [Scans -> BOOLEAN] /\ \A s \in S : f[s] = FALSE
      OBVIOUS
    <3> HIDE DEF S, f
    <3>4. found = {[scan |-> s, id |-> f[s]] : s \in S}
      BY <3>1, <3>2
    <3> QED BY <2>1, <3>2, <3>4
  <2> QED BY <2>2, <2>3
<1> DEFINE new == {q \in Reports!newestPerApp(found) : sentLog[Reports!AppKey(q)] # q.scan}
           D(r) == [scan |-> r.scan, key |-> Reports!AppKey(r), hold |-> Reports!Hold(r)]
<1>2. Reports!BuildDeliveries(found) = {D(r) : r \in new}
  BY DEF Reports!BuildDeliveries
<1>3. new \subseteq found
  BY DEF Reports!newestPerApp
<1>4. \A r \in new, q \in new : AppOf[r.scan] = AppOf[q.scan] => r = q
  <2> SUFFICES ASSUME NEW r \in new, NEW q \in new, AppOf[r.scan] = AppOf[q.scan]
               PROVE  r = q
    OBVIOUS
  <2>1. r.scan <= q.scan /\ q.scan <= r.scan
    BY DEF Reports!newestPerApp
  <2>2. r.scan \in Nat /\ q.scan \in Nat
    BY <1>1, <1>3, ReportFacts
  <2> QED BY <1>1, <1>3, <2>1, <2>2
<1>5. ASSUME NEW r \in new
      PROVE  /\ D(r) \in Delivery /\ D(r).key[1] = AppOf[r.scan] /\ D(r).scan = r.scan
             /\ D(r).hold = "send" => D(r).key = <<AppOf[r.scan], "id">>
             /\ sentLog[D(r).key] # D(r).scan
  <2>1. r.scan \in Scans /\ AppOf[r.scan] \in Reports!Owned
    BY <1>1, <1>3 DEF Reports!Owned
  <2>2. Reports!AppKey(r) \in Reports!Keys /\ Reports!AppKey(r)[1] = AppOf[r.scan]
        /\ (r.id => Reports!AppKey(r) = <<AppOf[r.scan], "id">>)
    BY <2>1 DEF Reports!AppKey, Reports!Keys
  <2>3. Reports!Hold(r) \in {"measured less", "retry", "no owner", "send"}
        /\ (Reports!Hold(r) = "send" => r.id)
    BY DEF Reports!Hold
  <2>4. sentLog[Reports!AppKey(r)] # r.scan
    OBVIOUS
  <2> QED BY <2>1, <2>2, <2>3, <2>4 DEF Delivery
<1> HIDE DEF new, D
<1>6. Reports!BuildDeliveries(found) \subseteq Delivery
  BY <1>2, <1>5
<1>7. PlanIsFit(Reports!BuildDeliveries(found))
  BY <1>2, <1>4, <1>5 DEF PlanIsFit, ToSend
<1> QED BY <1>6, <1>7

ReportInv == ReportTypeInv /\ PlanInv /\ MailedInv /\ Reports!NoReportLeft

LEMMA ReportInitial == LanesInit => ReportInv
<1> SUFFICES ASSUME LanesInit PROVE ReportInv
  OBVIOUS
<1>1. /\ scans = [s \in Scans |-> [kind |-> "due", age |-> Reports!Never,
                                   notice |-> Reports!Never]]
      /\ owned = Reports!Owned /\ held = 0 /\ stranded = 0
      /\ sentLog = [k \in Reports!Keys |-> NoScan] /\ fetch = Reports!NotRunning
      /\ delivered = [s \in Scans |-> 0] /\ unrecorded = {}
  BY DEF LanesInit, Reports!ReportInit
<1>2. [kind |-> "due", age |-> Reports!Never, notice |-> Reports!Never] \in ScanRecord
  BY ReportFacts DEF ScanRecord
<1>3. ReportTypeInv
  BY <1>1, <1>2, NotFetching DEF ReportTypeInv
<1>4. PlanInv
  BY <1>1, NotFetching DEF PlanInv, PlanIsFit, ToSend, Making
<1>5. MailedInv /\ Reports!NoReportLeft
  BY <1>1, NotFetching DEF MailedInv, Reports!NoReportLeft
<1> QED BY <1>3, <1>4, <1>5 DEF ReportInv

\* What keeps ReportInv, while a run goes on.
LEMMA ReportKept ==
    ASSUME ReportInv, fetch' \in FetchRecord, fetch'.pc # "idle", fetch.pc # "idle",
           fetch'.plan = fetch.plan, UNCHANGED <<scans, owned, sentLog>>,
           held' \in Nat, stranded' \in Nat, delivered' \in [Scans -> 0 .. 2],
           fetch'.todo \subseteq ToSend(fetch.plan), fetch'.got \subseteq ToSend(fetch.plan),
           fetch'.ready \subseteq ToSend(fetch.plan), fetch'.done \subseteq ToSend(fetch.plan),
           fetch'.ready \cap fetch'.done = {},
           fetch'.pc # "send" => fetch'.ready = {} /\ fetch'.done = {},
           fetch'.pc \in Making => fetch'.todo # {},
           MailedInv', Reports!NoReportLeft'
    PROVE  ReportInv'
<1>1. ReportTypeInv'
  BY DEF ReportInv, ReportTypeInv
<1>2. PlanInv'
  BY DEF ReportInv, PlanInv, PlanIsFit, ToSend
<1> QED BY <1>1, <1>2 DEF ReportInv

\* And while the mails are not touched.
LEMMA UnmailedKept ==
    ASSUME ReportInv, UNCHANGED <<scans, owned, sentLog, delivered, unrecorded>>,
           fetch' \in FetchRecord, fetch'.pc # "idle", fetch.pc # "idle",
           fetch'.plan = fetch.plan, fetch'.done = fetch.done,
           held' \in Nat, stranded' \in Nat,
           fetch'.todo \subseteq ToSend(fetch.plan), fetch'.got \subseteq ToSend(fetch.plan),
           fetch'.ready \subseteq ToSend(fetch.plan), fetch'.ready \cap fetch'.done = {},
           fetch'.pc # "send" => fetch'.ready = {} /\ fetch'.done = {},
           fetch'.pc \in Making => fetch'.todo # {},
           Reports!NoReportLeft'
    PROVE  ReportInv'
<1>1. MailedInv'
  BY DEF ReportInv, MailedInv
<1>2. fetch'.done \subseteq ToSend(fetch.plan) /\ delivered' \in [Scans -> 0 .. 2]
  BY DEF ReportInv, PlanInv, ReportTypeInv
<1> QED BY <1>1, <1>2, ReportKept

\* No run, and no run begun.
LEMMA OutsideKept ==
    ASSUME ReportInv, UNCHANGED <<held, sentLog, fetch, delivered, unrecorded, stranded>>,
           scans' \in [Scans -> ScanRecord], owned' \subseteq Reports!Owned
    PROVE  ReportInv'
<1>1. ReportTypeInv'
  BY DEF ReportInv, ReportTypeInv
<1>2. PlanInv' /\ MailedInv' /\ Reports!NoReportLeft'
  BY DEF ReportInv, PlanInv, PlanIsFit, ToSend, MailedInv, Reports!NoReportLeft
<1> QED BY <1>1, <1>2 DEF ReportInv

\* Every step keeps ReportInv.
LEMMA ReportInvStep == ReportInv /\ [Reports!ReportNext]_(Reports!reportVars) => ReportInv'
<1> SUFFICES ASSUME ReportInv, [Reports!ReportNext]_(Reports!reportVars) PROVE ReportInv'
  OBVIOUS
<1>0. /\ fetch \in FetchRecord /\ held \in Nat /\ stranded \in Nat
      /\ scans \in [Scans -> ScanRecord] /\ owned \subseteq Reports!Owned
      /\ sentLog \in [Reports!Keys -> Scans \cup {NoScan}] /\ delivered \in [Scans -> 0 .. 2]
      /\ fetch.plan \subseteq Delivery /\ fetch.todo \subseteq Delivery
      /\ fetch.got \subseteq Delivery /\ fetch.ready \subseteq Delivery
      /\ fetch.done \subseteq Delivery
  BY DEF ReportInv, ReportTypeInv, FetchRecord
<1>a. /\ fetch.todo \subseteq ToSend(fetch.plan) /\ fetch.got \subseteq ToSend(fetch.plan)
      /\ fetch.ready \subseteq ToSend(fetch.plan) /\ fetch.done \subseteq ToSend(fetch.plan)
      /\ fetch.ready \cap fetch.done = {}
      /\ fetch.pc # "send" => fetch.ready = {} /\ fetch.done = {}
      /\ fetch.pc \in Making => fetch.todo # {}
  BY DEF ReportInv, PlanInv
<1>b. held = stranded + IF fetch.pc \in Making THEN 1 ELSE 0
  BY DEF ReportInv, Reports!NoReportLeft, Making
<1>c. fetch.todo # {} => Reports!Current \in fetch.todo
  BY <1>0, CurrentIs
\* The next application: the run's record after NextApp.
<1>d. ASSUME NEW fetched \in BOOLEAN, fetch.todo # {}, fetch.pc \in {"next"} \cup Making,
             Reports!NextApp(fetched)
      PROVE  /\ fetch' \in FetchRecord /\ fetch'.pc = "next" /\ fetch'.plan = fetch.plan
             /\ fetch'.done = fetch.done /\ fetch'.ready = fetch.ready
             /\ fetch'.todo \subseteq ToSend(fetch.plan)
             /\ fetch'.got \subseteq ToSend(fetch.plan)
  <2> DEFINE current == Reports!Current
             got == IF fetched THEN fetch.got \cup {current} ELSE fetch.got
             todo == fetch.todo \ {current}
  <2>1. fetch' = [fetch EXCEPT !.pc = "next", !.todo = todo, !.got = got]
    BY <1>d DEF Reports!NextApp
  <2>2. todo \subseteq fetch.todo /\ got \subseteq fetch.got \cup fetch.todo
    BY <1>c, <1>d
  <2> HIDE DEF todo, got
  <2>3. todo \in SUBSET Delivery /\ got \in SUBSET Delivery
    BY <1>0, <2>2
  <2> QED BY <1>0, <1>a, <2>1, <2>2, <2>3 DEF FetchRecord
<1>1. CASE Reports!PlanDeliveries
  <2>1. PICK found \in {Reports!Reconcile, Reports!collect} :
          fetch' = [Reports!NotRunning EXCEPT !.pc = "next",
                      !.plan = Reports!BuildDeliveries(found),
                      !.todo = {d \in Reports!BuildDeliveries(found) : d.hold = "send"}]
    BY <1>1, Zenon DEF Reports!PlanDeliveries
  <2>2. /\ fetch.pc = "idle"
        /\ UNCHANGED <<scans, owned, held, sentLog, delivered, unrecorded, stranded>>
    BY <1>1 DEF Reports!PlanDeliveries, Reports!External
  <2> DEFINE plan == Reports!BuildDeliveries(found)
  <2>3. plan \subseteq Delivery /\ PlanIsFit(plan)
    BY PlanIs DEF ReportInv
  <2>4. fetch' = [Reports!NotRunning EXCEPT !.pc = "next", !.plan = plan, !.todo = ToSend(plan)]
    BY <2>1 DEF ToSend
  <2> HIDE DEF plan
  <2>5. ToSend(plan) \subseteq Delivery
    BY <2>3 DEF ToSend
  <2>6. /\ fetch' \in FetchRecord /\ fetch'.pc = "next" /\ fetch'.plan = plan
        /\ fetch'.todo = ToSend(plan) /\ fetch'.got = {} /\ fetch'.ready = {}
        /\ fetch'.done = {}
    BY <2>3, <2>4, <2>5 DEF FetchRecord, Reports!NotRunning
  <2>7. ReportTypeInv'
    BY <1>0, <2>2, <2>6 DEF ReportTypeInv
  <2>8. PlanInv'
    BY <2>2, <2>3, <2>6 DEF PlanInv, PlanIsFit, Making
  <2>9. fetch.done = {} /\ fetch'.done = {}
    BY <1>a, <2>2, <2>6
  <2>10. MailedInv'
    BY <2>2, <2>9 DEF MailedInv, ReportInv
  <2>11. Reports!NoReportLeft'
    BY <1>0, <1>b, <2>2, <2>6 DEF Reports!NoReportLeft, Making
  <2> QED BY <2>7, <2>8, <2>10, <2>11 DEF ReportInv
<1>2. CASE Reports!CreateReport
  <2>1. /\ fetch.pc = "next" /\ fetch.todo # {}
        /\ UNCHANGED <<scans, owned, sentLog, delivered, unrecorded>>
    BY <1>2 DEF Reports!CreateReport, Reports!FetchStays, Reports!External
  <2>2. held = stranded
    BY <1>0, <1>b, <2>1 DEF Making
  <2>3. CASE held' = held + 1 /\ fetch' = [fetch EXCEPT !.pc = "wait"] /\ UNCHANGED stranded
    <3>1. /\ fetch' \in FetchRecord /\ fetch'.pc = "wait" /\ fetch'.plan = fetch.plan
          /\ fetch'.todo = fetch.todo /\ fetch'.got = fetch.got /\ fetch'.ready = fetch.ready
          /\ fetch'.done = fetch.done
      BY <1>0, <2>3 DEF FetchRecord
    <3>2. Reports!NoReportLeft' /\ held' \in Nat
      BY <1>0, <2>2, <2>3, <3>1 DEF Reports!NoReportLeft
    <3> QED BY <1>0, <1>a, <2>1, <2>3, <3>1, <3>2, UnmailedKept
  <2>4. ASSUME Reports!NextApp(FALSE),
               \/ UNCHANGED <<held, stranded>>
               \/ held' = held + 1 /\ stranded' = stranded + 1
        PROVE  ReportInv'
    <3>1. /\ fetch' \in FetchRecord /\ fetch'.pc = "next" /\ fetch'.plan = fetch.plan
          /\ fetch'.done = fetch.done /\ fetch'.ready = fetch.ready
          /\ fetch'.todo \subseteq ToSend(fetch.plan) /\ fetch'.got \subseteq ToSend(fetch.plan)
      BY <1>d, <2>1, <2>4
    <3>2. Reports!NoReportLeft' /\ held' \in Nat /\ stranded' \in Nat
      BY <1>0, <2>2, <2>4, <3>1 DEF Reports!NoReportLeft
    <3> QED BY <1>a, <2>1, <3>1, <3>2, UnmailedKept DEF Making
  <2> QED BY <1>2, <2>3, <2>4 DEF Reports!CreateReport, Reports!Goto
<1>3. CASE Reports!WaitReport
  <2>1. PICK fetched \in BOOLEAN :
          fetch' = [fetch EXCEPT !.pc = IF fetched THEN "delete" ELSE "failed"]
    BY <1>3 DEF Reports!WaitReport
  <2>2. /\ fetch.pc = "wait"
        /\ UNCHANGED <<scans, owned, held, sentLog, delivered, unrecorded, stranded>>
    BY <1>3 DEF Reports!WaitReport, Reports!FetchStays, Reports!External
  <2>3. /\ fetch' \in FetchRecord /\ fetch'.pc \in {"delete", "failed"}
        /\ fetch'.plan = fetch.plan /\ fetch'.todo = fetch.todo /\ fetch'.got = fetch.got
        /\ fetch'.ready = fetch.ready /\ fetch'.done = fetch.done
    BY <1>0, <2>1 DEF FetchRecord
  <2>4. Reports!NoReportLeft'
    BY <1>b, <2>2, <2>3 DEF Reports!NoReportLeft, Making
  <2> QED BY <1>0, <1>a, <2>2, <2>3, <2>4, UnmailedKept DEF Making
<1>4. CASE Reports!DeleteReport
  <2>1. /\ fetch.pc \in {"delete", "failed"}
        /\ UNCHANGED <<scans, owned, sentLog, delivered, unrecorded>>
        /\ \/ held' = held - 1 /\ UNCHANGED stranded
           \/ stranded' = stranded + 1 /\ UNCHANGED held
    BY <1>4 DEF Reports!DeleteReport, Reports!FetchStays, Reports!External
  <2>2. /\ fetch' \in FetchRecord /\ fetch'.pc = "next" /\ fetch'.plan = fetch.plan
        /\ fetch'.done = fetch.done /\ fetch'.ready = fetch.ready
        /\ fetch'.todo \subseteq ToSend(fetch.plan) /\ fetch'.got \subseteq ToSend(fetch.plan)
    <3>1. Reports!NextApp(fetch.pc = "delete") /\ (fetch.pc = "delete") \in BOOLEAN
      BY <1>4 DEF Reports!DeleteReport
    <3>2. fetch.todo # {} /\ fetch.pc \in {"next"} \cup Making
      BY <1>a, <2>1 DEF Making
    <3> QED BY <1>d, <3>1, <3>2
  <2>3. held = stranded + 1
    BY <1>b, <2>1 DEF Making
  <2>4. Reports!NoReportLeft' /\ held' \in Nat /\ stranded' \in Nat
    BY <1>0, <2>1, <2>2, <2>3 DEF Reports!NoReportLeft
  <2> QED BY <1>a, <2>1, <2>2, <2>4, UnmailedKept DEF Making
<1>5. CASE Reports!PrepareMails
  <2>1. PICK ready \in SUBSET fetch.got : fetch' = [fetch EXCEPT !.pc = "send", !.ready = ready]
    BY <1>5 DEF Reports!PrepareMails, Reports!Redactable
  <2>2. /\ fetch.pc = "next"
        /\ UNCHANGED <<scans, owned, held, sentLog, delivered, unrecorded, stranded>>
    BY <1>5 DEF Reports!PrepareMails, Reports!FetchStays, Reports!External
  <2>3. /\ fetch' \in FetchRecord /\ fetch'.pc = "send" /\ fetch'.plan = fetch.plan
        /\ fetch'.todo = fetch.todo /\ fetch'.got = fetch.got /\ fetch'.ready = ready
        /\ fetch'.done = fetch.done
    BY <1>0, <2>1 DEF FetchRecord
  <2>4. Reports!NoReportLeft'
    BY <1>b, <2>2, <2>3 DEF Reports!NoReportLeft, Making
  <2> QED BY <1>0, <1>a, <2>1, <2>2, <2>3, <2>4, UnmailedKept DEF Making
<1>6. ASSUME NEW d \in fetch.ready, Reports!SendMail(d) PROVE ReportInv'
  <2>1. /\ fetch.pc = "send" /\ UNCHANGED <<scans, owned, held, sentLog, stranded>>
    BY <1>6 DEF Reports!SendMail, Reports!External
  <2>2. d.scan \in Scans /\ d \in ToSend(fetch.plan) /\ d \in fetch.plan /\ d \notin fetch.done
    BY <1>0, <1>a DEF Delivery, ToSend
  <2>3. /\ delivered[d.scan] = 0 \/ d.scan \in unrecorded
    <3>1. \A e \in fetch.done : e.scan # d.scan
      <4> SUFFICES ASSUME NEW e \in fetch.done, e.scan = d.scan PROVE FALSE
        OBVIOUS
      <4>1. e \in fetch.plan
        BY <1>a DEF ToSend
      <4>2. e = d
        BY <2>2, <4>1 DEF ReportInv, PlanInv, PlanIsFit
      <4> QED BY <2>2, <4>2
    <3>2. sentLog[<<AppOf[d.scan], "id">>] # d.scan
      BY <2>2 DEF ReportInv, PlanInv, PlanIsFit
    <3> QED BY <2>2, <3>1, <3>2 DEF ReportInv, MailedInv
  <2> DEFINE mailed1 == [delivered EXCEPT ![d.scan] = IF delivered[d.scan] < 2
                                                      THEN delivered[d.scan] + 1
                                                      ELSE delivered[d.scan]]
  <2>4. /\ mailed1 \in [Scans -> 0 .. 2]
        /\ \A s \in Scans \ {d.scan} : mailed1[s] = delivered[s]
        /\ delivered[d.scan] = 0 => mailed1[d.scan] = 1
    <3>1. delivered[d.scan] \in 0 .. 2
      BY <1>0, <2>2
    <3>2. (IF delivered[d.scan] < 2 THEN delivered[d.scan] + 1 ELSE delivered[d.scan]) \in 0 .. 2
      BY <3>1
    <3> QED BY <1>0, <2>2, <3>1, <3>2
  <2>5. Reports!NoReportLeft' <=> held' = stranded' + IF fetch'.pc \in Making THEN 1 ELSE 0
    BY DEF Reports!NoReportLeft, Making
  <2>6. /\ fetch.ready \ {d} \subseteq ToSend(fetch.plan)
        /\ fetch.done \cup {d} \subseteq ToSend(fetch.plan)
        /\ fetch.done \cup {d} \in SUBSET Delivery /\ fetch.ready \ {d} \in SUBSET Delivery
        /\ (fetch.ready \ {d}) \cap (fetch.done \cup {d}) = {}
        /\ (fetch.ready \ {d}) \cap fetch.done = {}
    BY <1>0, <1>a
  <2> HIDE DEF mailed1
  <2>7. ASSUME NEW done, done = fetch.done \/ done = fetch.done \cup {d},
               fetch' = [fetch EXCEPT !.ready = fetch.ready \ {d}, !.done = done],
               delivered' \in [Scans -> 0 .. 2], MailedInv'
        PROVE  ReportInv'
    <3>1. done \in SUBSET Delivery
      BY <1>0, <2>6, <2>7
    <3>2. /\ fetch' \in FetchRecord /\ fetch'.pc = "send" /\ fetch'.plan = fetch.plan
          /\ fetch'.todo = fetch.todo /\ fetch'.got = fetch.got
          /\ fetch'.ready = fetch.ready \ {d} /\ fetch'.done = done
      BY <1>0, <2>1, <2>6, <2>7, <3>1 DEF FetchRecord
    <3>3. Reports!NoReportLeft'
      BY <1>b, <2>1, <2>5, <3>2 DEF Making
    <3> QED BY <1>0, <1>a, <2>1, <2>6, <2>7, <3>2, <3>3, ReportKept DEF Making
  <2>8. CASE /\ delivered' = mailed1 /\ UNCHANGED unrecorded
             /\ fetch' = [fetch EXCEPT !.ready = fetch.ready \ {d}, !.done = fetch.done \cup {d}]
    <3>1. fetch'.done = fetch.done \cup {d}
      BY <1>0, <2>8 DEF FetchRecord
    <3>2. MailedInv'
      BY <2>1, <2>3, <2>4, <2>8, <3>1 DEF ReportInv, MailedInv
    <3> QED BY <2>4, <2>7, <2>8, <3>2
  <2>9. CASE /\ UNCHANGED <<delivered, unrecorded>>
             /\ fetch' = [fetch EXCEPT !.ready = fetch.ready \ {d}]
    <3>1. fetch' = [fetch EXCEPT !.ready = fetch.ready \ {d}, !.done = fetch.done]
          /\ fetch'.done = fetch.done
      BY <1>0, <2>9 DEF FetchRecord
    <3>2. MailedInv'
      BY <2>1, <2>9, <3>1 DEF ReportInv, MailedInv
    <3> QED BY <1>0, <2>7, <2>9, <3>1, <3>2
  <2>10. CASE /\ delivered' = mailed1 /\ unrecorded' = unrecorded \cup {d.scan}
              /\ fetch' = [fetch EXCEPT !.ready = fetch.ready \ {d}]
    <3>1. fetch' = [fetch EXCEPT !.ready = fetch.ready \ {d}, !.done = fetch.done]
          /\ fetch'.done = fetch.done
      BY <1>0, <2>10 DEF FetchRecord
    <3>2. MailedInv'
      BY <2>1, <2>4, <2>10, <3>1 DEF ReportInv, MailedInv
    <3> QED BY <2>4, <2>7, <2>10, <3>1, <3>2
  <2> QED BY <1>6, <2>8, <2>9, <2>10 DEF Reports!SendMail, mailed1
<1>7. CASE Reports!CommitDelivered
  <2>1. PICK log \in [Reports!Keys -> Scans \cup {NoScan}] :
          /\ \A k \in Reports!Keys :
                LET of == {d.scan : d \in {e \in Reports!Recorded : e.key = k}}
                IN  IF of = {} THEN log[k] = sentLog[k] ELSE log[k] \in of
          /\ sentLog' = log
          /\ unrecorded' = unrecorded \cup
                {sentLog[k] : k \in {j \in Reports!Keys : log[j] # sentLog[j]}}
    BY <1>7, Zenon DEF Reports!CommitDelivered
  <2>2. /\ fetch.pc = "send" /\ fetch' = Reports!NotRunning
        /\ UNCHANGED <<scans, owned, held, stranded, delivered>>
    BY <1>7 DEF Reports!CommitDelivered, Reports!External
  <2>3. ReportTypeInv' /\ Reports!NoReportLeft'
    BY <1>0, <1>b, <2>1, <2>2, NotFetching DEF ReportTypeInv, Reports!NoReportLeft, Making
  <2>4. PlanInv'
    BY <2>2, NotFetching DEF PlanInv, PlanIsFit, ToSend, Making
  <2>5. Reports!Recorded \subseteq fetch.plan /\ fetch.done \subseteq Reports!Recorded
    BY <1>a DEF Reports!Recorded, ToSend
  <2>6. ASSUME NEW s \in Scans, s \notin unrecorded', delivered[s] # 0
        PROVE  delivered[s] = 1 /\ log[<<AppOf[s], "id">>] = s
    <3> DEFINE k == <<AppOf[s], "id">>
               of == {d.scan : d \in {e \in Reports!Recorded : e.key = k}}
    <3>1. k \in Reports!Keys
      BY DEF Reports!Keys, Reports!Owned
    <3>2. IF of = {} THEN log[k] = sentLog[k] ELSE log[k] \in of
      BY <2>1, <3>1
    <3>3. delivered[s] = 1 /\ (sentLog[k] = s \/ \E d \in fetch.done : d.scan = s)
      BY <2>1, <2>6 DEF ReportInv, MailedInv
    <3>4. CASE sentLog[k] = s
      <4>1. log[k] = sentLog[k]
        BY <2>1, <2>6, <3>1, <3>4
      <4> QED BY <3>3, <3>4, <4>1
    <3>5. ASSUME NEW d \in fetch.done, d.scan = s PROVE log[k] = s
      <4>1. d \in Reports!Recorded /\ d.key = k
        BY <1>a, <2>5, <3>5 DEF ReportInv, PlanInv, PlanIsFit
      <4>2. \A e \in Reports!Recorded : e.key = k => e = d
        BY <1>a, <2>5, <3>5, <4>1 DEF ReportInv, PlanInv, PlanIsFit
      <4>3. d.scan \in of /\ \A t \in of : t = s
        BY <3>5, <4>1, <4>2
      <4> QED BY <3>2, <4>3
    <3> QED BY <3>3, <3>4, <3>5
  <2>7. MailedInv'
    BY <2>1, <2>2, <2>6 DEF MailedInv
  <2> QED BY <2>3, <2>4, <2>7 DEF ReportInv
<1>8. CASE Reports!EndUnrecorded
  <2>1. /\ fetch' = Reports!NotRunning
        /\ unrecorded' = unrecorded \cup {d.scan : d \in fetch.done}
        /\ stranded' = IF fetch.pc \in Making THEN stranded + 1 ELSE stranded
        /\ UNCHANGED <<scans, owned, held, sentLog, delivered>>
    BY <1>8 DEF Reports!EndUnrecorded, Reports!External, Making
  <2>2. ReportTypeInv'
    BY <1>0, <2>1, NotFetching DEF ReportTypeInv
  <2>3. Reports!NoReportLeft'
    BY <1>0, <1>b, <2>1, NotFetching DEF Reports!NoReportLeft, Making
  <2>4. PlanInv'
    BY <2>1, NotFetching DEF PlanInv, PlanIsFit, ToSend, Making
  <2>5. MailedInv'
    BY <2>1 DEF ReportInv, MailedInv
  <2> QED BY <2>2, <2>3, <2>4, <2>5 DEF ReportInv
<1>9. ASSUME NEW s \in Scans, Reports!FinishScan(s) PROVE ReportInv'
  <2>1. PICK kind \in Reports!Kind, notice \in {0, Reports!Never} :
          scans' = [scans EXCEPT ![s] = [kind |-> kind, age |-> 0, notice |-> notice]]
    BY <1>9 DEF Reports!FinishScan
  <2>2. [kind |-> kind, age |-> 0, notice |-> notice] \in ScanRecord
    BY ReportFacts DEF ScanRecord
  <2>3. scans' \in [Scans -> ScanRecord]
    BY <1>0, <2>1, <2>2
  <2> QED BY <1>0, <1>9, <2>3, OutsideKept DEF Reports!FinishScan, Reports!Others
<1>10. ASSUME NEW s \in Scans, Reports!NoticeIsLate(s) PROVE ReportInv'
  <2>1. scans' = [scans EXCEPT ![s] = [scans[s] EXCEPT !.notice = 0]]
    BY <1>0, <1>10 DEF Reports!NoticeIsLate
  <2>2. [scans[s] EXCEPT !.notice = 0] \in ScanRecord
    BY <1>0, ReportFacts DEF ScanRecord
  <2>3. scans' \in [Scans -> ScanRecord]
    BY <1>0, <2>1, <2>2
  <2> QED BY <1>0, <1>10, <2>3, OutsideKept DEF Reports!NoticeIsLate, Reports!Others
<1>11. ASSUME NEW a \in Reports!Owned, Reports!ChangeOwners(a) PROVE ReportInv'
  <2>1. owned' \subseteq Reports!Owned
    BY <1>0, <1>11 DEF Reports!ChangeOwners
  <2> QED BY <1>0, <1>11, <2>1, OutsideKept DEF Reports!ChangeOwners, Reports!Others
<1>12. CASE Reports!NextDay
  <2>1. \A n \in 0 .. Reports!Never : Reports!Older(n) \in 0 .. Reports!Never
    BY ReportFacts DEF Reports!Older
  <2>2. scans' = [s \in Scans |-> [scans[s] EXCEPT !.age = Reports!Older(scans[s].age),
                                                   !.notice = Reports!Older(scans[s].notice)]]
    BY <1>12 DEF Reports!NextDay
  <2>3. \A s \in Scans : [scans[s] EXCEPT !.age = Reports!Older(scans[s].age),
                                         !.notice = Reports!Older(scans[s].notice)] \in ScanRecord
    BY <1>0, <2>1 DEF ScanRecord
  <2>4. scans' \in [Scans -> ScanRecord]
    BY <2>2, <2>3
  <2> QED BY <1>0, <1>12, <2>4, OutsideKept DEF Reports!NextDay, Reports!Others
<1>13. CASE UNCHANGED Reports!reportVars
  BY <1>0, <1>13, OutsideKept DEF Reports!reportVars
<1> QED BY <1>1, <1>2, <1>3, <1>4, <1>5, <1>6, <1>7, <1>8, <1>9, <1>10, <1>11, <1>12, <1>13
        DEF Reports!ReportNext

LEMMA ReportInvHolds == LanesSpec => []ReportInv
<1>1. ReportInv /\ [LanesNext]_lanesVars => ReportInv'
  BY ReportSteps, ReportInvStep
<1> QED BY <1>1, ReportInitial, PTL DEF LanesSpec

\* No report of a finished run stays in the scanner unsaid (qualys/report.go): the
\* list holds the one being made and those left for a cause the run says.
THEOREM NoReportLeftHolds == LanesSpec => []Reports!NoReportLeft
<1>1. ReportInv => Reports!NoReportLeft
  BY DEF ReportInv
<1> QED BY <1>1, ReportInvHolds, PTL

\* The report of a scan is mailed twice only when its record was lost or replaced
\* (appowners-sent.json), over overlapping days and changing lists.
THEOREM MailedOnceHolds == LanesSpec => []Reports!MailedOnce
<1>1. ReportInv => Reports!MailedOnce
  <2>1. \A n : n \in {0, 1} => n <= 1
    OBVIOUS
  <2> QED BY <2>1 DEF ReportInv, MailedInv, Reports!MailedOnce
<1> QED BY <1>1, ReportInvHolds, PTL
-----------------------------------------------------------------------------
(* The message board.                                                      *)

\* A step of the lanes is one of the board, or leaves it as it is.
LEMMA BoardSteps == [LanesNext]_lanesVars => [Board!BoardNext]_(Board!boardVars)
BY DEF LanesNext, lanesVars, weeklyVars, dailyVars, boardVars, Board!boardVars, Appscan,
       DomainsActions, WeeklySurvey, QualysCalls, Synopses, SharedMailbox, WeeklyReport,
       OwnersMail, Digests, MessageBoard, Mailers, OwnersOnFile, ScannerCache

Places == Board!Working \cup {"idle", "mkdir", "look", "stat", "rmdir", "mail", "done"}

BoardTypeInv ==
    /\ board \subseteq Posters /\ archive \subseteq Posters /\ posted \subseteq Posters
    /\ lock \in Board!LockDir \cup {NoLock} /\ raced \in BOOLEAN
    /\ pc \in [Posters -> Places] /\ aim \in [Posters -> Board!Commands]
    /\ judged \in [Posters -> Board!LockDir \cup {NoLock}]
    /\ moving \in [Posters -> SUBSET Posters] /\ kept \in [Posters -> SUBSET Posters]

\* A lock that is past its age is of a process that no longer works, and what
\* was judged stale was: whoever works has the lock, unless one was taken away
\* from under a process that had just made it.
LockInv ==
    /\ lock # NoLock /\ lock.old => pc[lock.by] \notin Board!Working
    /\ \A p \in Posters : judged[p] # NoLock => judged[p].old
    /\ ~raced => \A p \in Posters : pc[p] \in Board!Working => lock # NoLock /\ lock.by = p

\* What a pruning parted is the whole board, and what a post appended is there.
LinesInv ==
    /\ \A p \in Posters : pc[p] \in {"read", "archive", "replace"} => aim[p] = "move"
    /\ ~raced =>
          /\ posted \subseteq board \cup archive
          /\ \A p \in Posters :
                /\ pc[p] \in {"archive", "replace"} => board \subseteq kept[p] \cup moving[p]
                /\ pc[p] = "replace" => moving[p] \subseteq archive
                /\ pc[p] = "leave" /\ aim[p] # "move" => p \in board \cup archive

LEMMA BoardInitial == LanesInit => BoardTypeInv /\ LockInv /\ LinesInv
<1> SUFFICES ASSUME LanesInit PROVE BoardTypeInv /\ LockInv /\ LinesInv
  OBVIOUS
<1>1. Board!BoardInit
  BY DEF LanesInit
<1> QED BY <1>1 DEF Board!BoardInit, BoardTypeInv, LockInv, LinesInv, Places, Board!Working,
                    Board!Commands

LEMMA LockFacts ==
    /\ NoLock \notin Board!LockDir
    /\ \A l \in Board!LockDir : l.by \in Posters /\ l.old \in BOOLEAN
    /\ \A p \in Posters, old \in BOOLEAN :
          /\ [by |-> p, old |-> old] \in Board!LockDir
          /\ [by |-> p, old |-> old].by = p /\ [by |-> p, old |-> old].old = old
<1>1. NoLock \notin Board!LockDir
  BY LanesAssumption DEF Board!BoardAssumption
<1> QED BY <1>1 DEF Board!LockDir

\* What each command's step changes of the places, the aims and the lock.
LEMMA BoardTypeStep ==
    BoardTypeInv /\ [Board!BoardNext]_(Board!boardVars) => BoardTypeInv'
<1> SUFFICES ASSUME BoardTypeInv, [Board!BoardNext]_(Board!boardVars) PROVE BoardTypeInv'
  OBVIOUS
<1>0. /\ board \subseteq Posters /\ archive \subseteq Posters /\ posted \subseteq Posters
      /\ lock \in Board!LockDir \cup {NoLock} /\ raced \in BOOLEAN
      /\ pc \in [Posters -> Places] /\ aim \in [Posters -> Board!Commands]
      /\ judged \in [Posters -> Board!LockDir \cup {NoLock}]
      /\ moving \in [Posters -> SUBSET Posters] /\ kept \in [Posters -> SUBSET Posters]
  BY DEF BoardTypeInv
<1>g. ASSUME NEW p \in Posters, NEW step \in Places, Board!Goto(p, step)
      PROVE  pc' \in [Posters -> Places]
  BY <1>0, <1>g DEF Board!Goto
<1>1. CASE Board!AgeLock
  <2>1. lock' = [by |-> lock.by, old |-> TRUE] /\ lock.by \in Posters
    BY <1>0, <1>1, LockFacts DEF Board!AgeLock, Board!LockDir
  <2> QED BY <1>0, <1>1, <2>1, LockFacts DEF BoardTypeInv, Board!AgeLock, Board!FilesUnchanged
<1>2. CASE Board!LaterOnes
  BY <1>0, <1>2 DEF BoardTypeInv, Board!LaterOnes, Places, Board!Commands
<1>3. ASSUME NEW p \in Posters, Board!Call(p) PROVE BoardTypeInv'
  <2>1. PICK command \in Board!Commands, S \in SUBSET Posters :
          aim' = [aim EXCEPT ![p] = command] /\ moving' = [moving EXCEPT ![p] = S]
    BY <1>3 DEF Board!Call
  <2>2. pc' \in [Posters -> Places]
    BY <1>3, <1>g DEF Board!Call, Places
  <2>3. aim' \in [Posters -> Board!Commands] /\ moving' \in [Posters -> SUBSET Posters]
    BY <1>0, <2>1
  <2> QED BY <1>0, <1>3, <2>2, <2>3
          DEF BoardTypeInv, Board!Call, Board!FilesUnchanged, Board!Held
<1>4. ASSUME NEW p \in Posters, Board!Mkdir(p) PROVE BoardTypeInv'
  <2>1. pc' \in [Posters -> Places]
    BY <1>4, <1>g DEF Board!Mkdir, Places, Board!Working
  <2> QED BY <1>0, <1>4, <2>1, LockFacts DEF BoardTypeInv, Board!Mkdir, Board!FilesUnchanged
<1>5. ASSUME NEW p \in Posters,
             Board!LookForLock(p) \/ Board!GiveUp(p) \/ Board!Kill(p) \/ Board!MailAlert(p)
      PROVE  BoardTypeInv'
  <2>1. pc' \in [Posters -> Places]
    BY <1>5, <1>g DEF Board!LookForLock, Board!GiveUp, Board!Kill, Board!MailAlert, Places
  <2> QED BY <1>0, <1>5, <2>1
          DEF BoardTypeInv, Board!LookForLock, Board!GiveUp, Board!Kill, Board!MailAlert,
              Board!FilesUnchanged, Board!Held
<1>6. ASSUME NEW p \in Posters, Board!ReadAge(p) PROVE BoardTypeInv'
  <2>1. pc' \in [Posters -> Places]
    BY <1>6, <1>g DEF Board!ReadAge, Places
  <2>2. judged' \in [Posters -> Board!LockDir \cup {NoLock}]
    BY <1>0, <1>6 DEF Board!ReadAge
  <2> QED BY <1>0, <1>6, <2>1, <2>2
          DEF BoardTypeInv, Board!ReadAge, Board!FilesUnchanged, Board!Held
<1>7. ASSUME NEW p \in Posters, Board!BreakLock(p) PROVE BoardTypeInv'
  <2>1. pc' \in [Posters -> Places]
    BY <1>7, <1>g DEF Board!BreakLock, Places
  <2>2. judged' \in [Posters -> Board!LockDir \cup {NoLock}]
    BY <1>0, <1>7 DEF Board!BreakLock
  <2>3. raced' \in BOOLEAN
    BY <1>7 DEF Board!BreakLock
  <2> QED BY <1>0, <1>7, <2>1, <2>2, <2>3 DEF BoardTypeInv, Board!BreakLock, Board!FilesUnchanged
<1>8. ASSUME NEW p \in Posters, Board!Append(p) \/ Board!ToArchive(p) \/ Board!ReplaceBoard(p)
      PROVE  BoardTypeInv'
  <2>1. pc' \in [Posters -> Places]
    BY <1>8, <1>g DEF Board!Append, Board!ToArchive, Board!ReplaceBoard, Places, Board!Working
  <2>2. moving[p] \subseteq Posters /\ kept[p] \subseteq Posters
    BY <1>0
  <2> QED BY <1>0, <1>8, <2>1, <2>2
          DEF BoardTypeInv, Board!Append, Board!ToArchive, Board!ReplaceBoard, Board!Held
<1>9. ASSUME NEW p \in Posters, Board!PartBoard(p) PROVE BoardTypeInv'
  <2>1. pc' \in [Posters -> Places]
    BY <1>9, <1>g DEF Board!PartBoard, Places, Board!Working
  <2>2. moving' \in [Posters -> SUBSET Posters] /\ kept' \in [Posters -> SUBSET Posters]
    BY <1>0, <1>9 DEF Board!PartBoard
  <2> QED BY <1>0, <1>9, <2>1, <2>2 DEF BoardTypeInv, Board!PartBoard, Board!Held
<1>10. ASSUME NEW p \in Posters, Board!Leave(p) PROVE BoardTypeInv'
  <2>1. pc' \in [Posters -> Places]
    BY <1>10, <1>g DEF Board!Leave, Places
  <2> QED BY <1>0, <1>10, <2>1 DEF BoardTypeInv, Board!Leave
<1>11. CASE UNCHANGED Board!boardVars
  BY <1>0, <1>11 DEF BoardTypeInv, Board!boardVars
<1> QED BY <1>1, <1>2, <1>3, <1>4, <1>5, <1>6, <1>7, <1>8, <1>9, <1>10, <1>11
        DEF Board!BoardNext, Board!Step

\* Where a process goes, alone of all.
LEMMA OneGoes ==
    ASSUME BoardTypeInv, NEW p \in Posters, NEW step, Board!Goto(p, step)
    PROVE  pc'[p] = step /\ \A q \in Posters \ {p} : pc'[q] = pc[q]
BY DEF BoardTypeInv, Board!Goto

\* Every step keeps the lock of whoever works.
LEMMA LockStep ==
    BoardTypeInv /\ LockInv /\ [Board!BoardNext]_(Board!boardVars) => LockInv'
<1> SUFFICES ASSUME BoardTypeInv, LockInv, [Board!BoardNext]_(Board!boardVars) PROVE LockInv'
  OBVIOUS
<1>0. /\ lock \in Board!LockDir \cup {NoLock} /\ raced \in BOOLEAN
      /\ pc \in [Posters -> Places] /\ judged \in [Posters -> Board!LockDir \cup {NoLock}]
  BY DEF BoardTypeInv
\* A process moves, and works after it only where it did before.
<1>1. ASSUME NEW p \in Posters, NEW step, Board!Goto(p, step), UNCHANGED <<lock, raced>>,
             \A q \in Posters : judged'[q] # NoLock => judged'[q].old,
             step \in Board!Working => pc[p] \in Board!Working
      PROVE  LockInv'
  <2>1. pc'[p] = step /\ \A q \in Posters \ {p} : pc'[q] = pc[q]
    BY <1>1, OneGoes
  <2>2. lock # NoLock => lock.by \in Posters
    BY <1>0, LockFacts
  <2> QED BY <1>1, <2>1, <2>2 DEF LockInv
<1>2. \A q \in Posters : judged[q] # NoLock => judged[q].old
  BY DEF LockInv
<1>3. CASE Board!AgeLock
  <2>1. lock # NoLock /\ lock' = [by |-> lock.by, old |-> TRUE] /\ lock.by \in Posters
    BY <1>0, <1>3, LockFacts DEF Board!AgeLock, Board!LockDir
  <2>2. pc[lock.by] \notin Board!Working /\ UNCHANGED <<pc, judged, raced>>
    BY <1>3 DEF Board!AgeLock
  <2>3. lock' # NoLock /\ lock'.by = lock.by
    BY ZenonT(60), <2>1, LockFacts
  <2> QED BY <2>1, <2>2, <2>3 DEF LockInv
<1>4. CASE Board!LaterOnes
  <2>1. \A q \in Posters : pc'[q] \notin Board!Working /\ judged'[q] = NoLock
    BY <1>4 DEF Board!LaterOnes, Board!Working
  <2>2. lock' = lock /\ (lock # NoLock => lock.by \in Posters)
    BY <1>0, <1>4, LockFacts DEF Board!LaterOnes
  <2> QED BY <2>1, <2>2 DEF LockInv
<1>5. ASSUME NEW p \in Posters,
             Board!Call(p) \/ Board!LookForLock(p) \/ Board!GiveUp(p) \/ Board!Kill(p)
                \/ Board!MailAlert(p)
      PROVE  LockInv'
  BY <1>1, <1>2, <1>5 DEF Board!Call, Board!LookForLock, Board!GiveUp, Board!Kill,
     Board!MailAlert, Board!Held, Board!Working
<1>6. ASSUME NEW p \in Posters, Board!Mkdir(p) PROVE LockInv'
  <2>1. UNCHANGED <<judged, raced>> /\ pc[p] = "mkdir"
    BY <1>6 DEF Board!Mkdir
  <2>2. CASE lock # NoLock /\ Board!Goto(p, "look") /\ UNCHANGED lock
    BY <1>1, <1>2, <2>1, <2>2 DEF Board!Working
  <2>3. CASE /\ lock = NoLock /\ lock' = [by |-> p, old |-> FALSE]
             /\ Board!Goto(p, IF aim[p] = "move" THEN "read" ELSE "append")
    <3>1. lock' # NoLock /\ lock'.by = p /\ ~lock'.old
      BY <2>3, LockFacts
    <3>2. \A q \in Posters \ {p} : pc'[q] = pc[q]
      BY <2>3, OneGoes
    <3> QED BY <2>1, <2>3, <3>1, <3>2 DEF LockInv
  <2> QED BY <1>6, <2>2, <2>3 DEF Board!Mkdir
<1>7. ASSUME NEW p \in Posters, Board!ReadAge(p) PROVE LockInv'
  <2>1. judged' = [judged EXCEPT ![p] = IF Board!Stale(lock) THEN lock ELSE NoLock]
    BY <1>7 DEF Board!ReadAge
  <2>2. \A q \in Posters : judged'[q] # NoLock => judged'[q].old
    BY <1>0, <1>2, <2>1 DEF Board!Stale
  <2> QED BY <1>1, <1>7, <2>2 DEF Board!ReadAge, Board!Held, Board!Working
<1>8. ASSUME NEW p \in Posters, Board!BreakLock(p) PROVE LockInv'
  <2>1. /\ lock' = NoLock /\ raced' = (raced \/ lock \notin {NoLock, judged[p]})
        /\ judged' = [judged EXCEPT ![p] = NoLock] /\ Board!Goto(p, "mkdir")
    BY <1>8 DEF Board!BreakLock
  <2>2. pc'[p] = "mkdir" /\ \A q \in Posters \ {p} : pc'[q] = pc[q]
    BY <2>1, OneGoes
  <2>3. \A q \in Posters : judged'[q] # NoLock => judged'[q].old
    BY <1>0, <1>2, <2>1
  <2>4. ASSUME ~raced', NEW q \in Posters PROVE pc'[q] \notin Board!Working
    <3>1. ~raced /\ (lock = NoLock \/ lock = judged[p])
      BY <2>1, <2>4
    <3>2. pc[q] \notin Board!Working
      <4>1. lock # NoLock => lock.old
        BY <1>2, <3>1
      <4> QED BY <3>1, <4>1 DEF LockInv
    <3> QED BY <2>2, <3>2 DEF Board!Working
  <2> QED BY <2>1, <2>3, <2>4 DEF LockInv
<1>9. ASSUME NEW p \in Posters,
             Board!Append(p) \/ Board!PartBoard(p) \/ Board!ToArchive(p) \/ Board!ReplaceBoard(p)
      PROVE  LockInv'
  BY <1>1, <1>2, <1>9 DEF Board!Append, Board!PartBoard, Board!ToArchive, Board!ReplaceBoard,
     Board!Held, Board!Working
<1>10. ASSUME NEW p \in Posters, Board!Leave(p) PROVE LockInv'
  <2>1. /\ Board!Goto(p, IF aim[p] = "alert" THEN "mail" ELSE "done") /\ pc[p] = "leave"
        /\ lock' = NoLock /\ UNCHANGED <<judged, raced>>
    BY <1>10 DEF Board!Leave
  <2>2. pc'[p] \notin Board!Working /\ \A q \in Posters \ {p} : pc'[q] = pc[q]
    BY <2>1, OneGoes DEF Board!Working
  <2>3. pc[p] \in Board!Working
    BY <2>1 DEF Board!Working
  <2> QED BY <2>1, <2>2, <2>3 DEF LockInv
<1>11. CASE UNCHANGED Board!boardVars
  BY <1>11 DEF LockInv, Board!boardVars
<1> QED BY <1>3, <1>4, <1>5, <1>6, <1>7, <1>8, <1>9, <1>10, <1>11 DEF Board!BoardNext, Board!Step

\* Every step keeps the lines.
LEMMA LinesStep ==
    BoardTypeInv /\ LockInv /\ LinesInv /\ [Board!BoardNext]_(Board!boardVars) => LinesInv'
<1> SUFFICES ASSUME BoardTypeInv, LockInv, LinesInv, [Board!BoardNext]_(Board!boardVars)
             PROVE  LinesInv'
  OBVIOUS
<1>0. /\ pc \in [Posters -> Places] /\ aim \in [Posters -> Board!Commands]
      /\ moving \in [Posters -> SUBSET Posters] /\ kept \in [Posters -> SUBSET Posters]
      /\ raced \in BOOLEAN
  BY DEF BoardTypeInv
\* A process moves to a step where there is nothing to hold, and no line does.
<1>1. ASSUME NEW p \in Posters, NEW step, Board!Goto(p, step), raced => raced',
             UNCHANGED <<board, archive, posted, kept>>,
             \A q \in Posters \ {p} : aim'[q] = aim[q] /\ moving'[q] = moving[q],
             step \notin {"archive", "replace", "leave"},
             step = "read" => aim'[p] = "move"
      PROVE  LinesInv'
  <2>1. pc'[p] = step /\ \A q \in Posters \ {p} : pc'[q] = pc[q]
    BY <1>1, OneGoes
  <2>2. \A q \in Posters : pc'[q] \in {"read", "archive", "replace"} => aim'[q] = "move"
    BY <1>1, <2>1 DEF LinesInv
  <2>3. ~raced' => posted' \subseteq board' \cup archive'
    BY <1>1 DEF LinesInv
  <2>4. ASSUME ~raced', NEW q \in Posters
        PROVE  /\ pc'[q] \in {"archive", "replace"} => board' \subseteq kept'[q] \cup moving'[q]
               /\ pc'[q] = "replace" => moving'[q] \subseteq archive'
               /\ pc'[q] = "leave" /\ aim'[q] # "move" => q \in board' \cup archive'
    <3>1. CASE q = p
      BY <1>1, <2>1, <3>1
    <3>2. CASE q # p
      BY <1>1, <2>1, <2>4, <3>2 DEF LinesInv
    <3> QED BY <3>1, <3>2
  <2> QED BY <2>2, <2>3, <2>4 DEF LinesInv
\* A process moves while it has the lock: the others hold no lines.
<1>2. ASSUME NEW p \in Posters, NEW step, Board!Goto(p, step), UNCHANGED <<raced, aim>>,
             pc[p] \in Board!Working,
             step \in {"archive", "replace"} => aim[p] = "move",
             step # "read",
             ~raced =>
                /\ posted' \subseteq board' \cup archive'
                /\ step \in {"archive", "replace"} => board' \subseteq kept'[p] \cup moving'[p]
                /\ step = "replace" => moving'[p] \subseteq archive'
                /\ step = "leave" /\ aim[p] # "move" => p \in board' \cup archive'
      PROVE  LinesInv'
  <2>1. pc'[p] = step /\ \A q \in Posters \ {p} : pc'[q] = pc[q]
    BY <1>2, OneGoes
  <2>2. ASSUME ~raced, NEW q \in Posters \ {p} PROVE pc'[q] \notin Board!Working
    BY <1>2, <2>1, <2>2 DEF LockInv
  <2>3. \A q \in Posters : pc'[q] \in {"read", "archive", "replace"} => aim'[q] = "move"
    BY <1>2, <2>1 DEF LinesInv
  <2>4. ASSUME ~raced', NEW q \in Posters
        PROVE  /\ pc'[q] \in {"archive", "replace"} => board' \subseteq kept'[q] \cup moving'[q]
               /\ pc'[q] = "replace" => moving'[q] \subseteq archive'
               /\ pc'[q] = "leave" /\ aim'[q] # "move" => q \in board' \cup archive'
    <3>1. CASE q = p
      BY <1>2, <2>1, <2>4, <3>1
    <3>2. CASE q # p
      BY <1>2, <2>2, <2>4, <3>2 DEF Board!Working
    <3> QED BY <3>1, <3>2
  <2> QED BY <1>2, <2>3, <2>4 DEF LinesInv
<1>3. CASE Board!AgeLock
  BY <1>3 DEF Board!AgeLock, Board!FilesUnchanged, LinesInv
<1>4. CASE Board!LaterOnes
  BY <1>4 DEF Board!LaterOnes, LinesInv
<1>5. ASSUME NEW p \in Posters, Board!Call(p) PROVE LinesInv'
  <2>1. PICK command \in Board!Commands, S \in SUBSET Posters :
          aim' = [aim EXCEPT ![p] = command] /\ moving' = [moving EXCEPT ![p] = S]
    BY <1>5 DEF Board!Call
  <2>2. \A q \in Posters \ {p} : aim'[q] = aim[q] /\ moving'[q] = moving[q]
    BY <1>0, <2>1
  <2> QED BY <1>1, <1>5, <2>2 DEF Board!Call, Board!FilesUnchanged, Board!Held
<1>6. ASSUME NEW p \in Posters, Board!Mkdir(p) PROVE LinesInv'
  BY <1>1, <1>6 DEF Board!Mkdir, Board!FilesUnchanged
<1>7. ASSUME NEW p \in Posters,
             Board!LookForLock(p) \/ Board!GiveUp(p) \/ Board!Kill(p) \/ Board!MailAlert(p)
                \/ Board!ReadAge(p)
      PROVE  LinesInv'
  BY <1>1, <1>7 DEF Board!LookForLock, Board!GiveUp, Board!Kill, Board!MailAlert, Board!ReadAge,
     Board!FilesUnchanged, Board!Held
<1>8. ASSUME NEW p \in Posters, Board!BreakLock(p) PROVE LinesInv'
  BY <1>1, <1>8 DEF Board!BreakLock, Board!FilesUnchanged
<1>9. ASSUME NEW p \in Posters, Board!Append(p) PROVE LinesInv'
  <2>1. /\ pc[p] = "append" /\ Board!Goto(p, "leave") /\ board' = board \cup {p}
        /\ UNCHANGED <<aim, archive, posted, raced>>
    BY <1>9 DEF Board!Append, Board!Held
  <2>2. ~raced => posted' \subseteq board' \cup archive' /\ p \in board' \cup archive'
    BY <2>1 DEF LinesInv
  <2> QED BY <1>2, <2>1, <2>2 DEF Board!Working
<1>10. ASSUME NEW p \in Posters, Board!PartBoard(p) PROVE LinesInv'
  <2>1. /\ pc[p] = "read" /\ Board!Goto(p, "archive")
        /\ kept' = [kept EXCEPT ![p] = board \ moving[p]]
        /\ moving' = [moving EXCEPT ![p] = board \cap moving[p]]
        /\ UNCHANGED <<aim, board, archive, posted, raced>>
    BY <1>10 DEF Board!PartBoard, Board!Held
  <2>2. kept'[p] = board \ moving[p] /\ moving'[p] = board \cap moving[p]
    BY <1>0, <2>1
  <2>3. aim[p] = "move" /\ (~raced => posted \subseteq board \cup archive)
    BY <2>1 DEF LinesInv
  <2> QED BY <1>2, <2>1, <2>2, <2>3 DEF Board!Working
<1>11. ASSUME NEW p \in Posters, Board!ToArchive(p) PROVE LinesInv'
  <2>1. /\ pc[p] = "archive" /\ Board!Goto(p, "replace") /\ archive' = archive \cup moving[p]
        /\ UNCHANGED <<aim, moving, kept, board, posted, raced>>
    BY <1>11 DEF Board!ToArchive, Board!Held
  <2>2. /\ aim[p] = "move"
        /\ ~raced => posted \subseteq board \cup archive /\ board \subseteq kept[p] \cup moving[p]
    BY <2>1 DEF LinesInv
  <2> QED BY <1>2, <2>1, <2>2 DEF Board!Working
<1>12. ASSUME NEW p \in Posters, Board!ReplaceBoard(p) PROVE LinesInv'
  <2>1. /\ pc[p] = "replace" /\ Board!Goto(p, "leave") /\ board' = kept[p]
        /\ UNCHANGED <<aim, moving, kept, archive, posted, raced>>
    BY <1>12 DEF Board!ReplaceBoard, Board!Held
  <2>2. /\ aim[p] = "move"
        /\ ~raced => /\ posted \subseteq board \cup archive
                     /\ board \subseteq kept[p] \cup moving[p] /\ moving[p] \subseteq archive
    BY <2>1 DEF LinesInv
  <2> QED BY <1>2, <2>1, <2>2 DEF Board!Working
<1>13. ASSUME NEW p \in Posters, Board!Leave(p) PROVE LinesInv'
  <2>1. /\ pc[p] = "leave" /\ Board!Goto(p, IF aim[p] = "alert" THEN "mail" ELSE "done")
        /\ posted' = IF aim[p] = "move" THEN posted ELSE posted \cup {p}
        /\ UNCHANGED <<aim, moving, kept, board, archive, raced>>
    BY <1>13 DEF Board!Leave
  <2>2. ~raced => /\ posted \subseteq board \cup archive
                  /\ aim[p] # "move" => p \in board \cup archive
    BY <2>1 DEF LinesInv
  <2> QED BY <1>2, <2>1, <2>2 DEF Board!Working
<1>14. CASE UNCHANGED Board!boardVars
  BY <1>14 DEF LinesInv, Board!boardVars
<1> QED BY <1>3, <1>4, <1>5, <1>6, <1>7, <1>8, <1>9, <1>10, <1>11, <1>12, <1>13, <1>14
        DEF Board!BoardNext, Board!Step

LEMMA BoardInvHolds == LanesSpec => [](BoardTypeInv /\ LockInv /\ LinesInv)
<1> DEFINE Inv == BoardTypeInv /\ LockInv /\ LinesInv
<1>1. Inv /\ [LanesNext]_lanesVars => Inv'
  BY BoardSteps, BoardTypeStep, LockStep, LinesStep
<1>2. LanesInit => Inv
  BY BoardInitial
<1> QED BY <1>1, <1>2, PTL DEF LanesSpec

\* A line whose post exited 0 is on the board or in its archive, whatever is
\* posted, moved and killed, unless a lock was taken from under its owner
\* (fleet-board, acquire).
THEOREM BoardKeptHolds == LanesSpec => []BoardKept
<1>1. LinesInv => BoardKept
  BY DEF LinesInv, BoardKept, Board!BoardKept
<1> QED BY <1>1, BoardInvHolds, PTL

-----------------------------------------------------------------------------
(* The digests.                                                            *)

\* A step of the lanes is one of the digests, or leaves them as they are.
LEMMA DigestSteps == [LanesNext]_lanesVars => [Digest!DigestNext]_(Digest!digestVars)
BY DEF LanesNext, lanesVars, weeklyVars, dailyVars, digestVars, Digest!digestVars, Appscan,
       DomainsActions, WeeklySurvey, QualysCalls, Synopses, SharedMailbox, WeeklyReport,
       OwnersMail, Digests, MessageBoard, Mailers, OwnersOnFile, ScannerCache

Finding == [cve : DigestCVEs, status : Digest!Status \cup {"stored"},
            priority : Digest!Bands \cup {"stored"}]
DigestRunRecord == [pc : {"idle", "read", "ticket", "send", "record"}, real : BOOLEAN,
                    found : SUBSET Finding, degraded : BOOLEAN, owed : SUBSET DigestCVEs]
Rows == {r \in Digest!Row : r.updated <= r.first}
Catalog == [age : 0 .. 2, cves : SUBSET DigestCVEs]

DigestTypeInv ==
    /\ morning \in BOOLEAN /\ listed \in [DigestCVEs -> -1 .. 2]
    /\ findings \in [DigestCVEs -> Rows \cup {NoRow}]
    /\ sentToday \subseteq Digest!Kinds /\ mailedToday \subseteq Digest!Kinds
    /\ mayRepeat \subseteq Digest!Kinds
    /\ kevCache \in Catalog /\ digestRun \in [Digest!Kinds -> DigestRunRecord]
    /\ owed \subseteq DigestCVEs /\ skipped \subseteq DigestCVEs /\ rolled \in 0 .. Digest!Old
    /\ \A k \in Digest!Kinds : digestRun[k].pc = "idle" => digestRun[k] = Digest!NotRunning

\* A digest of today that may not be mailed again is on record, or about to be,
\* and none is on its way to the mailer.
OneDigestInv ==
    /\ Digest!OneDigest
    /\ \A k \in mailedToday \ mayRepeat :
          /\ k \in sentToday \/ digestRun[k].pc = "record"
          /\ digestRun[k].pc \in {"read", "ticket", "send"} => ~digestRun[k].real

\* What a weekly owes was stored since the last one was rolled up, and the one on
\* its way has all it owed then.
OwedInv ==
    /\ Digest!WeekCovered
    /\ \A c \in owed : /\ findings[c] # NoRow
                       /\ rolled <= Week => findings[c].updated <= rolled
    /\ digestRun["weekly"].pc = "send" =>
          /\ digestRun["weekly"].owed \subseteq Digest!Found("weekly")
          /\ \A c \in owed \ Digest!Found("weekly") : findings[c].updated = 0

\* A catalog that a run may use has all that was listed a half-day before it was
\* fetched.
CatalogInv ==
    kevCache.age <= 1 => \A c \in DigestCVEs : listed[c] > kevCache.age => c \in kevCache.cves

\* What the findings of the daily's scoring are, as ExploitedIsSeen has them.
ScoredSeen(f) ==
    f.priority = CASE f.status = "PRESENT"     -> "Sev5"
                   [] f.status = "UNKNOWN"     -> "Sev3"
                   [] f.status = "NOT_PRESENT" -> "Sev2"

LEMMA DigestFacts ==
    /\ Week \in Nat \ {0} /\ NoRow \notin Digest!Row /\ NoRow \notin Rows
    /\ Digest!Old = Week + 1 /\ Digest!Kinds = {"daily", "weekly"}
BY LanesAssumption DEF Digest!DigestRunAssumption, Digest!Old, Digest!Kinds, Rows

LEMMA NoDigestRuns ==
    /\ Digest!NotRunning \in DigestRunRecord /\ Digest!NotRunning.pc = "idle"
    /\ Digest!NotRunning.found = {} /\ Digest!NotRunning.owed = {}
    /\ Digest!NotRunning.real = FALSE /\ Digest!NotRunning.degraded = FALSE
    /\ Digest!Recording \in DigestRunRecord /\ Digest!Recording.pc = "record"
    /\ Digest!Recording.found = {} /\ Digest!Recording.owed = {}
BY DEF Digest!NotRunning, DigestRunRecord, Digest!Recording

LEMMA DigestInitial == LanesInit => DigestTypeInv /\ OneDigestInv /\ OwedInv /\ CatalogInv
<1> SUFFICES ASSUME LanesInit PROVE DigestTypeInv /\ OneDigestInv /\ OwedInv /\ CatalogInv
  OBVIOUS
<1>1. Digest!DigestInit
  BY DEF LanesInit
<1>2. \A k \in Digest!Kinds : digestRun[k] = Digest!NotRunning
  BY <1>1 DEF Digest!DigestInit
<1>3. DigestTypeInv
  BY <1>1, <1>2, DigestFacts, NoDigestRuns
     DEF Digest!DigestInit, DigestTypeInv, Digest!NoCatalog, Catalog
<1>4. OneDigestInv /\ OwedInv
  BY <1>1, <1>2, DigestFacts, NoDigestRuns
     DEF Digest!DigestInit, OneDigestInv, OwedInv, Digest!OneDigest, Digest!WeekCovered
<1>5. CatalogInv
  BY <1>1, <1>2, DigestFacts, NoDigestRuns
     DEF Digest!DigestInit, CatalogInv, Digest!NoCatalog
<1> QED BY <1>3, <1>4, <1>5

\* What a finding is scored, and that one that the catalog has is scored so.
LEMMA ScoredIs ==
    ASSUME NEW F \in SUBSET DigestCVEs, NEW kev, NEW found \in Digest!Scored(F, kev)
    PROVE  \A f \in found :
             /\ f \in Finding /\ f.status \in Digest!Status
             /\ f.cve \in kev => f.priority = CASE f.status = "PRESENT"     -> "Sev5"
                                                [] f.status = "UNKNOWN"     -> "Sev3"
                                                [] f.status = "NOT_PRESENT" -> "Sev2"
<1> DEFINE one(status, score) ==
             {[cve |-> c, status |-> status[c],
               priority |-> Digest!prioritize(status[c], c \in kev, score[c])] : c \in F}
<1>1. PICK status \in [F -> Digest!Status], score \in [F -> Digest!Scores] :
        found = one(status, score)
  BY DEF Digest!Scored
<1>2. ASSUME NEW c \in F
      PROVE  /\ Digest!prioritize(status[c], c \in kev, score[c]) \in Digest!Bands
             /\ c \in kev => Digest!prioritize(status[c], c \in kev, score[c]) =
                                CASE status[c] = "PRESENT"     -> "Sev5"
                                  [] status[c] = "UNKNOWN"     -> "Sev3"
                                  [] status[c] = "NOT_PRESENT" -> "Sev2"
  <2>1. status[c] \in {"PRESENT", "NOT_PRESENT", "UNKNOWN"}
    BY <1>1 DEF Digest!Status
  <2>2. CASE c \in kev
    BY <2>1, <2>2 DEF Digest!prioritize, Digest!Bands
  <2>3. CASE c \notin kev
    BY <2>1, <2>3 DEF Digest!prioritize, Digest!Bands
  <2> QED BY <2>2, <2>3
<1>3. ASSUME NEW f \in found
      PROVE  \E c \in F : /\ f.cve = c /\ f.status = status[c]
                          /\ f.priority = Digest!prioritize(status[c], c \in kev, score[c])
                          /\ f = [cve |-> f.cve, status |-> f.status, priority |-> f.priority]
  BY <1>1
<1>4. SUFFICES ASSUME NEW f \in found
               PROVE  /\ f \in Finding /\ f.status \in Digest!Status
                      /\ f.cve \in kev => f.priority = CASE f.status = "PRESENT"     -> "Sev5"
                                                         [] f.status = "UNKNOWN"     -> "Sev3"
                                                         [] f.status = "NOT_PRESENT" -> "Sev2"
  OBVIOUS
<1>5. PICK c \in F : /\ f.cve = c /\ f.status = status[c]
                     /\ f.priority = Digest!prioritize(status[c], c \in kev, score[c])
                     /\ f = [cve |-> f.cve, status |-> f.status, priority |-> f.priority]
  BY <1>3
<1>6. status[c] \in Digest!Status
  BY <1>1
<1>7. f.priority \in Digest!Bands
  BY <1>2, <1>5
<1>8. f \in Finding
  BY <1>5, <1>6, <1>7 DEF Finding
<1>9. f.cve \in kev => f.priority = CASE f.status = "PRESENT"     -> "Sev5"
                                     [] f.status = "UNKNOWN"     -> "Sev3"
                                     [] f.status = "NOT_PRESENT" -> "Sev2"
  BY <1>2, <1>5, Zenon
<1> QED BY <1>5, <1>6, <1>8, <1>9

\* A step's new local state of the run of a kind.
LEMMA RunSet ==
    ASSUME DigestTypeInv, NEW k \in Digest!Kinds, NEW r \in DigestRunRecord,
           digestRun' = [digestRun EXCEPT ![k] = r]
    PROVE  /\ digestRun' \in [Digest!Kinds -> DigestRunRecord] /\ digestRun'[k] = r
           /\ \A j \in Digest!Kinds : j # k => digestRun'[j] = digestRun[j]
           /\ (r.pc = "idle" => r = Digest!NotRunning) =>
                 \A j \in Digest!Kinds : digestRun'[j].pc = "idle" => digestRun'[j] = Digest!NotRunning
BY DEF DigestTypeInv

\* What each action of a run makes of its local state.
LEMMA StartedRun ==
    ASSUME DigestTypeInv, NEW k \in Digest!Kinds, Digest!StartRun(k)
    PROVE  \E r \in DigestRunRecord :
              /\ digestRun' = [digestRun EXCEPT ![k] = r]
              /\ r.pc = "read" /\ r.found = {} /\ r.owed = {}
              /\ r.real => k \notin sentToday \/ k \notin mailedToday \/ k \in mayRepeat'
<1>1. PICK real \in BOOLEAN, read \in BOOLEAN :
        /\ real /\ read => k \notin sentToday
        /\ digestRun' = [digestRun EXCEPT ![k] = [Digest!NotRunning EXCEPT !.pc = "read", !.real = real]]
        /\ mayRepeat' = IF real /\ ~read /\ k \in mailedToday THEN mayRepeat \cup {k} ELSE mayRepeat
  <2>1. PICK real \in {TRUE, k # "daily"}, read \in BOOLEAN :
          /\ real /\ read => k \notin sentToday
          /\ digestRun' = [digestRun EXCEPT ![k] = [Digest!NotRunning EXCEPT !.pc = "read", !.real = real]]
          /\ mayRepeat' = IF real /\ ~read /\ k \in mailedToday THEN mayRepeat \cup {k} ELSE mayRepeat
    BY Zenon DEF Digest!StartRun
  <2>2. real \in BOOLEAN
    OBVIOUS
  <2> QED BY <2>1, <2>2
<1> DEFINE r == [Digest!NotRunning EXCEPT !.pc = "read", !.real = real]
<1>2. real \in BOOLEAN
  BY <1>1
<1>3. /\ r \in DigestRunRecord /\ r.pc = "read" /\ r.found = {} /\ r.owed = {}
      /\ r.real = real
  BY <1>2, NoDigestRuns DEF DigestRunRecord
<1> QED BY <1>1, <1>3

LEMMA EnrichedRun ==
    ASSUME DigestTypeInv, Digest!Enrich
    PROVE  \E r \in DigestRunRecord, F \in SUBSET DigestCVEs, catalog \in Catalog :
              /\ digestRun["daily"].pc = "read"
              /\ digestRun' = [digestRun EXCEPT !["daily"] = r]
              /\ r.pc = "ticket" /\ r.real = digestRun["daily"].real
              /\ kevCache' = IF catalog.age = 0 THEN catalog ELSE kevCache
              /\ \/ kevCache.age <= 1 /\ catalog = kevCache
                 \/ catalog \in {Digest!Feed, Digest!NoCatalog}
              /\ \A f \in r.found : f.cve \in catalog.cves => ScoredSeen(f)
              /\ ~r.degraded => catalog # Digest!NoCatalog
              /\ \/ Digest!Upserted(F) /\ owed' = owed \cup F
                 \/ UNCHANGED <<findings, owed>>
              /\ UNCHANGED <<morning, listed, sentToday, mailedToday, mayRepeat, doubled, rolled, skipped>>
<1>1. PICK catalog \in {kevCache, Digest!Feed, Digest!NoCatalog},
           F \in SUBSET DigestCVEs, flagged \in Digest!NVDFlags :
        /\ Digest!fetch_kev(catalog)
        /\ kevCache' = IF catalog.age = 0 THEN catalog ELSE kevCache
        /\ \E found \in Digest!Scored(F, catalog.cves \cup flagged) :
             digestRun' = [digestRun EXCEPT !["daily"].pc = "ticket", !["daily"].found = found,
                                            !["daily"].degraded = (catalog = Digest!NoCatalog)]
        /\ \/ Digest!Upserted(F) /\ owed' = owed \cup F
           \/ UNCHANGED <<findings, owed>>
  BY Zenon DEF Digest!Enrich
<1>2. PICK found \in Digest!Scored(F, catalog.cves \cup flagged) :
        digestRun' = [digestRun EXCEPT !["daily"].pc = "ticket", !["daily"].found = found,
                                       !["daily"].degraded = (catalog = Digest!NoCatalog)]
  BY <1>1
<1>3. catalog \in Catalog
  BY <1>1 DEF DigestTypeInv, Catalog, Digest!NoCatalog, Digest!Feed
<1>4. \A f \in found :
        f \in Finding /\ (f.cve \in catalog.cves \cup flagged => ScoredSeen(f))
  <2>1. \A f \in found :
          /\ f \in Finding /\ f.status \in Digest!Status
          /\ f.cve \in catalog.cves \cup flagged =>
                f.priority = CASE f.status = "PRESENT"     -> "Sev5"
                               [] f.status = "UNKNOWN"     -> "Sev3"
                               [] f.status = "NOT_PRESENT" -> "Sev2"
    BY ScoredIs
  <2> QED BY <2>1, Zenon DEF ScoredSeen
<1> DEFINE missing == (catalog = Digest!NoCatalog)
           r == [digestRun["daily"] EXCEPT !.pc = "ticket", !.found = found, !.degraded = missing]
<1>5. digestRun["daily"] \in DigestRunRecord
  BY DigestFacts DEF DigestTypeInv
<1>6. missing \in BOOLEAN
  OBVIOUS
<1>7. digestRun' = [digestRun EXCEPT !["daily"] = r]
  BY <1>2, DigestFacts DEF DigestTypeInv
<1>8. missing <=> catalog = Digest!NoCatalog
  OBVIOUS
<1> HIDE DEF missing
<1>9. /\ r \in DigestRunRecord /\ r.pc = "ticket" /\ r.real = digestRun["daily"].real
      /\ r.found = found /\ r.degraded = missing
  BY <1>4, <1>5, <1>6 DEF DigestRunRecord
<1> HIDE DEF r
<1>10. /\ digestRun["daily"].pc = "read"
       /\ UNCHANGED <<morning, listed, sentToday, mailedToday, mayRepeat, doubled, rolled, skipped>>
  BY DEF Digest!Enrich
<1>11. ~r.degraded => catalog # Digest!NoCatalog
  BY <1>8, <1>9
<1>12. (kevCache.age <= 1 /\ catalog = kevCache) \/ catalog \in {Digest!Feed, Digest!NoCatalog}
  BY <1>1, Zenon DEF Digest!fetch_kev
<1>13. \A f \in r.found : f.cve \in catalog.cves => ScoredSeen(f)
  BY <1>4, <1>9, Zenon
<1> QED BY <1>1, <1>3, <1>7, <1>9, <1>10, <1>11, <1>12, <1>13, Zenon

LEMMA TicketedRun ==
    ASSUME DigestTypeInv, Digest!Tickets
    PROVE  \E r \in DigestRunRecord :
              /\ digestRun["daily"].pc = "ticket"
              /\ digestRun' = [digestRun EXCEPT !["daily"] = r]
              /\ r.pc = "send" /\ r.real = digestRun["daily"].real /\ r.found = {}
<1> DEFINE r == [digestRun["daily"] EXCEPT !.pc = "send", !.found = {}, !.degraded = FALSE]
<1>1. digestRun["daily"] \in DigestRunRecord
  BY DigestFacts DEF DigestTypeInv
<1>2. digestRun' = [digestRun EXCEPT !["daily"] = r] /\ digestRun["daily"].pc = "ticket"
  BY DEF Digest!Tickets
<1>3. r \in DigestRunRecord /\ r.pc = "send" /\ r.real = digestRun["daily"].real /\ r.found = {}
  BY <1>1 DEF DigestRunRecord
<1> QED BY <1>2, <1>3

LEMMA RolledUpRun ==
    ASSUME DigestTypeInv, Digest!Rollup
    PROVE  \E r \in DigestRunRecord :
              /\ digestRun["weekly"].pc = "read"
              /\ digestRun' = [digestRun EXCEPT !["weekly"] = r]
              /\ r.pc = "send" /\ r.real = digestRun["weekly"].real
              /\ r.owed = owed'
              /\ {f.cve : f \in r.found} = {c \in DigestCVEs : Digest!InWindow(c)}
              /\ owed' = IF rolled <= Week THEN owed
                         ELSE owed \cap {c \in DigestCVEs : Digest!InWindow(c)}
<1> DEFINE rows == {c \in DigestCVEs : Digest!InWindow(c)}
           found == {[cve |-> c, status |-> "stored", priority |-> "stored"] : c \in rows}
           r == [digestRun["weekly"] EXCEPT !.pc = "send", !.owed = owed', !.found = found]
<1>1. /\ owed' = IF rolled <= Week THEN owed ELSE owed \cap rows
      /\ digestRun' = [digestRun EXCEPT !["weekly"].pc = "send", !["weekly"].owed = owed',
                                        !["weekly"].found = found]
      /\ digestRun["weekly"].pc = "read"
  BY Zenon DEF Digest!Rollup, Digest!Within
<1>2. found \subseteq Finding /\ {f.cve : f \in found} = rows
  <2>1. found \subseteq Finding
    BY DEF Finding
  <2>2. \A f \in found : f.cve \in rows
    OBVIOUS
  <2>3. ASSUME NEW c \in rows PROVE \E f \in found : f.cve = c
    <3>1. [cve |-> c, status |-> "stored", priority |-> "stored"] \in found
      OBVIOUS
    <3> QED BY <3>1
  <2> HIDE DEF found, rows
  <2>4. {f.cve : f \in found} = rows
    BY <2>2, <2>3
  <2> QED BY <2>1, <2>4
<1>3. digestRun["weekly"] \in DigestRunRecord
  BY DigestFacts DEF DigestTypeInv
<1>4. owed' \subseteq DigestCVEs
  BY <1>1 DEF DigestTypeInv
<1> HIDE DEF found
<1>5. digestRun' = [digestRun EXCEPT !["weekly"] = r]
  BY <1>1, DigestFacts DEF DigestTypeInv
<1>6. /\ r \in DigestRunRecord /\ r.pc = "send" /\ r.real = digestRun["weekly"].real
      /\ r.owed = owed' /\ r.found = found
  BY <1>2, <1>3, <1>4 DEF DigestRunRecord
<1> QED BY <1>1, <1>2, <1>5, <1>6

\* A mail of a kind that is sent: the run is to record it, or it ends.
LEMMA SentRun ==
    ASSUME DigestTypeInv, NEW k \in Digest!Kinds, Digest!SendMail(k) \/ Digest!SendUnanswered(k)
    PROVE  \E r \in {Digest!NotRunning, Digest!Recording}, n \in 0 .. 1 :
              /\ digestRun[k].pc = "send" /\ digestRun[k].real
              /\ digestRun' = [digestRun EXCEPT ![k] = r]
              /\ Digest!Mailed(k, n)
              /\ UNCHANGED <<morning, listed, kevCache, findings, sentToday>>
              /\ \/ UNCHANGED mayRepeat /\ r = Digest!Recording
                 \/ UNCHANGED mayRepeat /\ n = 0
                 \/ mayRepeat' = mayRepeat \cup {k}
<1>1. CASE Digest!SendMail(k)
  <2>1. /\ digestRun[k].pc = "send" /\ digestRun[k].real
        /\ digestRun' = [digestRun EXCEPT ![k] = Digest!Recording]
        /\ UNCHANGED mayRepeat /\ Digest!Mailed(k, 1)
        /\ UNCHANGED <<morning, listed, kevCache, findings, sentToday>>
    BY <1>1 DEF Digest!SendMail, Digest!World, Digest!DBUnchanged
  <2> QED BY <2>1
<1>2. CASE Digest!SendUnanswered(k)
  <2>1. /\ digestRun[k].pc = "send" /\ digestRun[k].real
        /\ UNCHANGED <<morning, listed, kevCache, findings, sentToday>>
    BY <1>2 DEF Digest!SendUnanswered, Digest!World, Digest!DBUnchanged
  <2>2. PICK n \in 0 .. 1, answered \in BOOLEAN :
          /\ mayRepeat' = IF n = 1 THEN mayRepeat \cup {k} ELSE mayRepeat
          /\ digestRun' = [digestRun EXCEPT ![k] = IF answered THEN Digest!Recording
                                                   ELSE Digest!NotRunning]
          /\ Digest!Mailed(k, n)
    BY <1>2 DEF Digest!SendUnanswered
  <2>3. PICK r \in {Digest!NotRunning, Digest!Recording} : digestRun' = [digestRun EXCEPT ![k] = r]
    BY <2>2
  <2>4. (UNCHANGED mayRepeat /\ n = 0) \/ mayRepeat' = mayRepeat \cup {k}
    BY <2>2
  <2>5. Digest!Mailed(k, n)
    BY <2>2
  <2> QED BY <2>1, <2>3, <2>4, <2>5
<1> QED BY <1>1, <1>2

\* Every step of the digests that is not the calendar's or CISA's, by the run it
\* moves on.
LEMMA DigestTypeStep ==
    DigestTypeInv /\ [Digest!DigestNext]_(Digest!digestVars) => DigestTypeInv'
<1> SUFFICES ASSUME DigestTypeInv, [Digest!DigestNext]_(Digest!digestVars) PROVE DigestTypeInv'
  OBVIOUS
<1>0. /\ morning \in BOOLEAN /\ listed \in [DigestCVEs -> -1 .. 2]
      /\ findings \in [DigestCVEs -> Rows \cup {NoRow}]
      /\ sentToday \subseteq Digest!Kinds /\ mailedToday \subseteq Digest!Kinds
      /\ mayRepeat \subseteq Digest!Kinds
      /\ kevCache \in Catalog /\ digestRun \in [Digest!Kinds -> DigestRunRecord]
      /\ owed \subseteq DigestCVEs /\ skipped \subseteq DigestCVEs /\ rolled \in 0 .. Digest!Old
      /\ \A k \in Digest!Kinds : digestRun[k].pc = "idle" => digestRun[k] = Digest!NotRunning
  BY DEF DigestTypeInv
<1>r. ASSUME NEW k \in Digest!Kinds, NEW r \in DigestRunRecord,
             digestRun' = [digestRun EXCEPT ![k] = r], r.pc = "idle" => r = Digest!NotRunning
      PROVE  /\ digestRun' \in [Digest!Kinds -> DigestRunRecord]
             /\ \A j \in Digest!Kinds : digestRun'[j].pc = "idle" => digestRun'[j] = Digest!NotRunning
  BY <1>r, RunSet
<1>1. ASSUME NEW k \in Digest!Kinds, Digest!StartRun(k) PROVE DigestTypeInv'
  <2>1. PICK r \in DigestRunRecord : digestRun' = [digestRun EXCEPT ![k] = r] /\ r.pc = "read"
    BY <1>1, StartedRun
  <2>2. mayRepeat' \subseteq Digest!Kinds
    BY <1>0, <1>1 DEF Digest!StartRun
  <2>3. UNCHANGED <<morning, listed, findings, sentToday, kevCache, mailedToday, owed, rolled, skipped>>
    BY <1>1 DEF Digest!StartRun, Digest!World, Digest!DBUnchanged, Digest!Weeklies
  <2> QED BY <1>0, <1>r, <2>1, <2>2, <2>3 DEF DigestTypeInv
<1>2. CASE Digest!Enrich
  <2>1. PICK r \in DigestRunRecord, F \in SUBSET DigestCVEs, catalog \in Catalog :
          /\ digestRun' = [digestRun EXCEPT !["daily"] = r] /\ r.pc = "ticket"
          /\ kevCache' = IF catalog.age = 0 THEN catalog ELSE kevCache
          /\ \/ Digest!Upserted(F) /\ owed' = owed \cup F
             \/ UNCHANGED <<findings, owed>>
          /\ UNCHANGED <<morning, listed, sentToday, mailedToday, mayRepeat, rolled, skipped>>
    BY <1>2, EnrichedRun, Zenon
  <2>2. findings' \in [DigestCVEs -> Rows \cup {NoRow}]
    <3>1. CASE Digest!Upserted(F)
      <4>1. ASSUME NEW c \in DigestCVEs, findings[c] # NoRow
            PROVE  [findings[c] EXCEPT !.updated = 0] \in Rows
        BY <1>0, <4>1, DigestFacts DEF Rows, Digest!Row
      <4>2. [first |-> 0, updated |-> 0] \in Rows
        BY DigestFacts DEF Rows, Digest!Row
      <4> QED BY <1>0, <3>1, <4>1, <4>2 DEF Digest!Upserted
    <3> QED BY <1>0, <2>1, <3>1
  <2>3. owed' \subseteq DigestCVEs /\ kevCache' \in Catalog
    BY <1>0, <2>1
  <2>4. /\ digestRun' \in [Digest!Kinds -> DigestRunRecord]
        /\ \A j \in Digest!Kinds : digestRun'[j].pc = "idle" => digestRun'[j] = Digest!NotRunning
    BY <1>r, <2>1, DigestFacts
  <2> QED BY <1>0, <2>1, <2>2, <2>3, <2>4 DEF DigestTypeInv
<1>3. CASE Digest!Tickets
  <2>1. PICK r \in DigestRunRecord : digestRun' = [digestRun EXCEPT !["daily"] = r] /\ r.pc = "send"
    BY <1>3, TicketedRun
  <2>2. PICK filed \in SUBSET {f.cve : f \in {g \in digestRun["daily"].found : g.status = "PRESENT"}} :
          findings' = [c \in DigestCVEs |-> IF c \in filed /\ findings[c] # NoRow
                                            THEN [findings[c] EXCEPT !.updated = 0] ELSE findings[c]]
    BY <1>3, Zenon DEF Digest!Tickets
  <2>3. ASSUME NEW c \in DigestCVEs, findings[c] # NoRow
        PROVE  [findings[c] EXCEPT !.updated = 0] \in Rows
    BY <1>0, <2>3, DigestFacts DEF Rows, Digest!Row
  <2>4. findings' \in [DigestCVEs -> Rows \cup {NoRow}]
    BY <1>0, <2>2, <2>3
  <2>5. UNCHANGED <<morning, listed, sentToday, kevCache, mailedToday, mayRepeat, owed, rolled, skipped>>
    BY <1>3 DEF Digest!Tickets, Digest!World, Digest!Observers, Digest!Weeklies
  <2>6. /\ digestRun' \in [Digest!Kinds -> DigestRunRecord]
        /\ \A j \in Digest!Kinds : digestRun'[j].pc = "idle" => digestRun'[j] = Digest!NotRunning
    BY <1>r, <2>1, DigestFacts
  <2> QED BY <1>0, <2>4, <2>5, <2>6 DEF DigestTypeInv
<1>4. CASE Digest!SendDry \/ (\E k \in Digest!Kinds : Digest!EndUnsent(k) \/ Digest!RecordSent(k))
  <2>1. PICK k \in Digest!Kinds : digestRun' = [digestRun EXCEPT ![k] = Digest!NotRunning]
    BY <1>4, DigestFacts DEF Digest!SendDry, Digest!EndUnsent, Digest!RecordSent, Digest!Ends
  <2>2. /\ UNCHANGED <<morning, listed, findings, kevCache, mailedToday, owed, rolled, skipped>>
        /\ sentToday' \subseteq Digest!Kinds /\ mayRepeat' \subseteq Digest!Kinds
    BY <1>0, <1>4 DEF Digest!SendDry, Digest!EndUnsent, Digest!RecordSent, Digest!World,
                      Digest!DBUnchanged, Digest!Weeklies, Digest!Observers
  <2> QED BY <1>0, <1>r, <2>1, <2>2, NoDigestRuns DEF DigestTypeInv
<1>5. CASE Digest!Rollup
  <2>1. PICK r \in DigestRunRecord :
          digestRun' = [digestRun EXCEPT !["weekly"] = r] /\ r.pc = "send" /\ r.owed = owed'
    BY <1>5, RolledUpRun
  <2>2. owed' \subseteq DigestCVEs
    BY <2>1 DEF DigestRunRecord
  <2>3. UNCHANGED <<morning, listed, findings, sentToday, kevCache, mailedToday, mayRepeat, rolled, skipped>>
    BY <1>5 DEF Digest!Rollup, Digest!World, Digest!DBUnchanged
  <2>4. /\ digestRun' \in [Digest!Kinds -> DigestRunRecord]
        /\ \A j \in Digest!Kinds : digestRun'[j].pc = "idle" => digestRun'[j] = Digest!NotRunning
    BY <1>r, <2>1, DigestFacts
  <2> QED BY <1>0, <2>2, <2>3, <2>4 DEF DigestTypeInv
<1>6. ASSUME NEW k \in Digest!Kinds, Digest!SendMail(k) \/ Digest!SendUnanswered(k)
      PROVE  DigestTypeInv'
  <2>1. PICK r \in {Digest!NotRunning, Digest!Recording}, n \in 0 .. 1 :
          /\ digestRun' = [digestRun EXCEPT ![k] = r]
          /\ Digest!Mailed(k, n)
          /\ UNCHANGED <<morning, listed, kevCache, findings, sentToday>>
          /\ UNCHANGED mayRepeat \/ mayRepeat' = mayRepeat \cup {k}
    BY <1>6, SentRun, Zenon
  <2>2. mailedToday' \subseteq Digest!Kinds /\ mayRepeat' \subseteq Digest!Kinds
    BY <1>0, <2>1 DEF Digest!Mailed
  <2>3. digestRun[k].owed \subseteq DigestCVEs
    BY <1>0 DEF DigestRunRecord
  <2>4. owed' \subseteq DigestCVEs /\ skipped' \subseteq DigestCVEs /\ rolled' \in 0 .. Digest!Old
    BY <1>0, <2>1, <2>3, DigestFacts DEF Digest!Mailed, Digest!Weeklies
  <2> QED BY <1>0, <1>r, <2>1, <2>2, <2>4, NoDigestRuns DEF DigestTypeInv
\* Noon and midnight, of the list and the catalog.
<1>h. ASSUME Digest!HalfDay
      PROVE  morning' \in BOOLEAN /\ listed' \in [DigestCVEs -> -1 .. 2] /\ kevCache' \in Catalog
  <2>1. /\ morning' = ~morning
        /\ listed' = [c \in DigestCVEs |-> IF listed[c] \in {0, 1} THEN listed[c] + 1
                                          ELSE listed[c]]
        /\ kevCache' = IF kevCache.age = 0 THEN [kevCache EXCEPT !.age = 1] ELSE Digest!NoCatalog
    BY <1>h DEF Digest!HalfDay, Digest!Later
  <2>2. listed' \in [DigestCVEs -> -1 .. 2]
    BY <1>0, <2>1
  <2>3. Digest!NoCatalog \in Catalog /\ [kevCache EXCEPT !.age = 1] \in Catalog
    BY <1>0 DEF Catalog, Digest!NoCatalog
  <2>4. kevCache' \in Catalog
    BY <2>1, <2>3
  <2> QED BY <1>0, <2>1, <2>2, <2>4
<1>7. CASE Digest!NextDay
  <2>1. /\ Digest!HalfDay
        /\ findings' = [c \in DigestCVEs |-> IF findings[c] = NoRow THEN NoRow ELSE
                            [first |-> Digest!Older(findings[c].first),
                             updated |-> Digest!Older(findings[c].updated)]]
        /\ sentToday' = {} /\ mailedToday' = {} /\ mayRepeat' = {}
        /\ rolled' = Digest!Older(rolled) /\ UNCHANGED <<digestRun, owed, skipped>>
    BY <1>7, Zenon DEF Digest!NextDay
  <2>2. /\ \A a \in 0 .. Digest!Old : Digest!Older(a) \in 0 .. Digest!Old
        /\ \A a \in 0 .. Digest!Old : \A b \in 0 .. a : Digest!Older(b) <= Digest!Older(a)
    BY DigestFacts DEF Digest!Older
  <2>3. findings' \in [DigestCVEs -> Rows \cup {NoRow}]
    BY <1>0, <2>1, <2>2 DEF Rows, Digest!Row
  <2> QED BY <1>0, <1>h, <2>1, <2>2, <2>3 DEF DigestTypeInv
<1>10. CASE Digest!Noon
  <2>1. /\ Digest!HalfDay
        /\ UNCHANGED <<digestRun, findings, sentToday, mailedToday, mayRepeat, owed, rolled, skipped>>
    BY <1>10 DEF Digest!Noon, Digest!DBUnchanged, Digest!Observers, Digest!Weeklies
  <2> QED BY <1>0, <1>h, <2>1 DEF DigestTypeInv
<1>8. ASSUME NEW c \in DigestCVEs, Digest!ListCVE(c) PROVE DigestTypeInv'
  BY <1>0, <1>8 DEF DigestTypeInv, Digest!ListCVE, Digest!DBUnchanged, Digest!Observers,
                    Digest!Weeklies
<1>9. CASE UNCHANGED Digest!digestVars
  BY <1>0, <1>9 DEF DigestTypeInv, Digest!digestVars
<1> QED BY <1>1, <1>2, <1>3, <1>4, <1>5, <1>6, <1>7, <1>8, <1>9, <1>10 DEF Digest!DigestNext

\* What the steps that end a run, and the calendar, leave of the digests of today.
LEMMA OneDigestStep ==
    DigestTypeInv /\ OneDigestInv /\ [Digest!DigestNext]_(Digest!digestVars) => OneDigestInv'
<1> SUFFICES ASSUME DigestTypeInv, OneDigestInv, [Digest!DigestNext]_(Digest!digestVars)
             PROVE  OneDigestInv'
  OBVIOUS
<1>0. /\ sentToday \subseteq Digest!Kinds /\ mailedToday \subseteq Digest!Kinds
      /\ mayRepeat \subseteq Digest!Kinds /\ digestRun \in [Digest!Kinds -> DigestRunRecord]
      /\ \A k \in Digest!Kinds : digestRun[k].pc = "idle" => digestRun[k] = Digest!NotRunning
  BY DEF DigestTypeInv
<1>i. /\ doubled = {}
      /\ \A k \in mailedToday \ mayRepeat :
            /\ k \in sentToday \/ digestRun[k].pc = "record"
            /\ digestRun[k].pc \in {"read", "ticket", "send"} => ~digestRun[k].real
  BY DEF OneDigestInv, Digest!OneDigest
\* A run of a kind that goes on, while nothing is mailed.
<1>k. ASSUME NEW k \in Digest!Kinds, NEW r \in DigestRunRecord,
             digestRun' = [digestRun EXCEPT ![k] = r], digestRun[k].pc # "record",
             r.pc \in {"read", "ticket", "send"} /\ r.real =>
                k \notin mailedToday \ mayRepeat',
             UNCHANGED <<sentToday, mailedToday, doubled>>, mayRepeat \subseteq mayRepeat'
      PROVE  OneDigestInv'
  <2>1. digestRun'[k] = r /\ \A j \in Digest!Kinds : j # k => digestRun'[j] = digestRun[j]
    BY <1>k, RunSet
  <2> QED BY <1>0, <1>i, <1>k, <2>1 DEF OneDigestInv, Digest!OneDigest
<1>1. ASSUME NEW k \in Digest!Kinds, Digest!StartRun(k) PROVE OneDigestInv'
  <2>1. PICK r \in DigestRunRecord :
          /\ digestRun' = [digestRun EXCEPT ![k] = r]
          /\ r.real => k \notin sentToday \/ k \notin mailedToday \/ k \in mayRepeat'
    BY <1>1, StartedRun
  <2>2. /\ digestRun[k].pc = "idle" /\ mayRepeat \subseteq mayRepeat'
        /\ UNCHANGED <<sentToday, mailedToday, doubled>>
    BY <1>1 DEF Digest!StartRun, Digest!World, Digest!DBUnchanged
  <2>3. k \in mailedToday \ mayRepeat => k \in sentToday
    BY <1>i, <2>2
  <2> QED BY <1>k, <2>1, <2>2, <2>3
<1>2. CASE Digest!Enrich \/ Digest!Tickets \/ Digest!Rollup
  <2>1. PICK k \in Digest!Kinds, r \in DigestRunRecord :
          /\ digestRun' = [digestRun EXCEPT ![k] = r] /\ r.real = digestRun[k].real
          /\ digestRun[k].pc \in {"read", "ticket"}
    BY <1>2, EnrichedRun, TicketedRun, RolledUpRun, DigestFacts, Zenon
  <2>2. UNCHANGED <<sentToday, mailedToday, doubled, mayRepeat>>
    BY <1>2 DEF Digest!Enrich, Digest!Tickets, Digest!Rollup, Digest!World, Digest!DBUnchanged,
                Digest!Observers
  <2> QED BY <1>i, <1>k, <2>1, <2>2
<1>3. CASE Digest!SendDry \/ (\E k \in Digest!Kinds : Digest!EndUnsent(k) /\ digestRun[k].pc # "record")
  <2>1. PICK k \in Digest!Kinds : /\ digestRun' = [digestRun EXCEPT ![k] = Digest!NotRunning]
                                  /\ digestRun[k].pc # "record"
    BY <1>3, DigestFacts DEF Digest!SendDry, Digest!EndUnsent, Digest!Ends
  <2>2. UNCHANGED <<sentToday, mailedToday, doubled, mayRepeat>>
    BY <1>3 DEF Digest!SendDry, Digest!EndUnsent, Digest!World, Digest!DBUnchanged,
                Digest!Observers
  <2> QED BY <1>k, <2>1, <2>2, NoDigestRuns
<1>4. ASSUME NEW k \in Digest!Kinds,
             Digest!RecordSent(k) \/ (Digest!EndUnsent(k) /\ digestRun[k].pc = "record")
      PROVE  OneDigestInv'
  <2>1. digestRun' = [digestRun EXCEPT ![k] = Digest!NotRunning] /\ UNCHANGED <<mailedToday, doubled>>
    BY <1>4 DEF Digest!RecordSent, Digest!EndUnsent, Digest!Ends
  <2>2. /\ k \in sentToday' \/ k \in mayRepeat'
        /\ sentToday \subseteq sentToday' /\ mayRepeat \subseteq mayRepeat'
    BY <1>4 DEF Digest!RecordSent, Digest!EndUnsent, Digest!DBUnchanged
  <2>3. /\ digestRun'[k] = Digest!NotRunning
        /\ \A j \in Digest!Kinds : j # k => digestRun'[j] = digestRun[j]
    BY <2>1, RunSet, NoDigestRuns
  <2> QED BY <1>0, <1>i, <2>1, <2>2, <2>3, NoDigestRuns DEF OneDigestInv, Digest!OneDigest
<1>5. ASSUME NEW k \in Digest!Kinds, Digest!SendMail(k) \/ Digest!SendUnanswered(k)
      PROVE  OneDigestInv'
  <2>1. PICK r \in {Digest!NotRunning, Digest!Recording}, n \in 0 .. 1 :
          /\ digestRun[k].pc = "send" /\ digestRun[k].real
          /\ digestRun' = [digestRun EXCEPT ![k] = r]
          /\ Digest!Mailed(k, n)
          /\ UNCHANGED sentToday
          /\ \/ UNCHANGED mayRepeat /\ r = Digest!Recording
             \/ UNCHANGED mayRepeat /\ n = 0
             \/ mayRepeat' = mayRepeat \cup {k}
    BY <1>5, SentRun, Zenon
  <2>2. k \notin mailedToday \ mayRepeat
    BY <1>i, <2>1
  <2>3. /\ doubled' = {} /\ mailedToday' \subseteq mailedToday \cup {k}
        /\ n = 0 => mailedToday' = mailedToday
    BY <1>i, <2>1, <2>2 DEF Digest!Mailed
  <2>4. /\ digestRun'[k] = r
        /\ \A j \in Digest!Kinds : j # k => digestRun'[j] = digestRun[j]
    BY <2>1, RunSet, NoDigestRuns
  <2> QED BY <1>0, <1>i, <2>1, <2>3, <2>4, NoDigestRuns DEF OneDigestInv, Digest!OneDigest
<1>6. CASE Digest!NextDay
  BY <1>i, <1>6 DEF Digest!NextDay, OneDigestInv, Digest!OneDigest
<1>7. ASSUME NEW c \in DigestCVEs, Digest!ListCVE(c) PROVE OneDigestInv'
  BY <1>i, <1>7 DEF Digest!ListCVE, Digest!DBUnchanged, Digest!Observers, OneDigestInv,
                    Digest!OneDigest
<1>9. CASE Digest!Noon
  BY <1>i, <1>9 DEF Digest!Noon, Digest!DBUnchanged, Digest!Observers, OneDigestInv,
                    Digest!OneDigest
<1>8. CASE UNCHANGED Digest!digestVars
  BY <1>i, <1>8 DEF Digest!digestVars, OneDigestInv, Digest!OneDigest
<1> QED BY <1>1, <1>2, <1>3, <1>4, <1>5, <1>6, <1>7, <1>8, <1>9 DEF Digest!DigestNext

\* What is owed stays stored, as recently as it must be.
LEMMA OwedStep ==
    DigestTypeInv /\ OwedInv /\ [Digest!DigestNext]_(Digest!digestVars) => OwedInv'
<1> SUFFICES ASSUME DigestTypeInv, OwedInv, [Digest!DigestNext]_(Digest!digestVars) PROVE OwedInv'
  OBVIOUS
<1>0. /\ findings \in [DigestCVEs -> Rows \cup {NoRow}] /\ digestRun \in [Digest!Kinds -> DigestRunRecord]
      /\ owed \subseteq DigestCVEs /\ rolled \in 0 .. Digest!Old
  BY DEF DigestTypeInv
<1>i. /\ skipped = {}
      /\ \A c \in owed : /\ findings[c] # NoRow
                         /\ rolled <= Week => findings[c].updated <= rolled
      /\ digestRun["weekly"].pc = "send" =>
            /\ digestRun["weekly"].owed \subseteq Digest!Found("weekly")
            /\ \A c \in owed \ Digest!Found("weekly") : findings[c].updated = 0
  BY DEF OwedInv, Digest!WeekCovered
\* What the daily stores is of today, and a weekly that does not send has no part in it.
<1>k. ASSUME \A c \in DigestCVEs :
                findings[c] # NoRow => \/ findings'[c] = findings[c]
                                       \/ findings'[c] # NoRow /\ findings'[c].updated = 0,
             \A c \in owed' \ owed : findings'[c] # NoRow /\ findings'[c].updated = 0,
             UNCHANGED <<rolled, skipped>>,
             \/ digestRun'["weekly"] = digestRun["weekly"]
             \/ digestRun'["weekly"].pc # "send",
             owed' \subseteq DigestCVEs
      PROVE  OwedInv'
  <2>1. \A c \in owed' : /\ findings'[c] # NoRow
                         /\ rolled <= Week => findings'[c].updated <= rolled
    BY <1>0, <1>i, <1>k, DigestFacts
  <2>2. ASSUME digestRun'["weekly"].pc = "send"
        PROVE  /\ digestRun["weekly"].pc = "send" /\ Digest!Found("weekly")' = Digest!Found("weekly")
               /\ digestRun'["weekly"].owed = digestRun["weekly"].owed
    BY <1>k, <2>2 DEF Digest!Found
  <2>3. ASSUME digestRun'["weekly"].pc = "send", NEW c \in owed' \ Digest!Found("weekly")
        PROVE  findings'[c].updated = 0
    BY <1>0, <1>i, <1>k, <2>2, <2>3
  <2> QED BY <1>i, <1>k, <2>1, <2>2, <2>3 DEF OwedInv, Digest!WeekCovered
<1>1. ASSUME NEW k \in Digest!Kinds, Digest!StartRun(k) PROVE OwedInv'
  <2>1. PICK r \in DigestRunRecord : digestRun' = [digestRun EXCEPT ![k] = r] /\ r.pc = "read"
    BY <1>1, StartedRun
  <2>2. digestRun'["weekly"] = digestRun["weekly"] \/ digestRun'["weekly"].pc # "send"
    BY <2>1, RunSet, DigestFacts
  <2>3. UNCHANGED <<findings, owed, rolled, skipped>>
    BY <1>1 DEF Digest!StartRun, Digest!DBUnchanged, Digest!Weeklies
  <2> QED BY <1>0, <1>k, <2>2, <2>3
<1>2. CASE Digest!Enrich
  <2>1. PICK r \in DigestRunRecord, F \in SUBSET DigestCVEs :
          /\ digestRun' = [digestRun EXCEPT !["daily"] = r]
          /\ \/ Digest!Upserted(F) /\ owed' = owed \cup F
             \/ UNCHANGED <<findings, owed>>
          /\ UNCHANGED <<rolled, skipped>>
    BY <1>2, EnrichedRun, Zenon
  <2>2. digestRun'["weekly"] = digestRun["weekly"]
    BY <2>1, RunSet, DigestFacts
  <2>3. CASE Digest!Upserted(F) /\ owed' = owed \cup F
    <3>1. ASSUME NEW c \in F
          PROVE  findings'[c] # NoRow /\ findings'[c].updated = 0
      <4>1. CASE findings[c] = NoRow
        <5>1. findings'[c] = [first |-> 0, updated |-> 0]
          BY <2>3, <3>1, <4>1 DEF Digest!Upserted
        <5> QED BY <5>1, DigestFacts DEF Digest!Row
      <4>2. CASE findings[c] # NoRow
        <5>1. findings'[c] = [findings[c] EXCEPT !.updated = 0] /\ findings[c] \in Digest!Row
          BY <1>0, <2>3, <3>1, <4>2 DEF Digest!Upserted, Rows
        <5> QED BY <5>1, DigestFacts DEF Digest!Row
      <4> QED BY <4>1, <4>2
    <3>2. \A c \in DigestCVEs \ F : findings'[c] = findings[c]
      BY <2>3 DEF Digest!Upserted
    <3> QED BY <1>0, <1>k, <2>1, <2>2, <2>3, <3>1, <3>2
  <2>4. CASE UNCHANGED <<findings, owed>>
    BY <1>0, <1>k, <2>1, <2>2, <2>4
  <2> QED BY <2>1, <2>3, <2>4
<1>3. CASE Digest!Tickets
  <2>1. PICK r \in DigestRunRecord : digestRun' = [digestRun EXCEPT !["daily"] = r]
    BY <1>3, TicketedRun
  <2>2. PICK filed \in SUBSET {f.cve : f \in {g \in digestRun["daily"].found : g.status = "PRESENT"}} :
          findings' = [c \in DigestCVEs |-> IF c \in filed /\ findings[c] # NoRow
                                            THEN [findings[c] EXCEPT !.updated = 0] ELSE findings[c]]
    BY <1>3, Zenon DEF Digest!Tickets
  <2>3. ASSUME NEW c \in DigestCVEs, findings[c] # NoRow
        PROVE  findings'[c] = findings[c] \/ (findings'[c] # NoRow /\ findings'[c].updated = 0)
    <3>1. [findings[c] EXCEPT !.updated = 0] \in Digest!Row
      BY <1>0, <2>3, DigestFacts DEF Rows, Digest!Row
    <3>2. [findings[c] EXCEPT !.updated = 0].updated = 0
      BY <1>0, <2>3 DEF Rows, Digest!Row
    <3> QED BY <2>2, <3>1, <3>2, DigestFacts
  <2>4. UNCHANGED <<owed, rolled, skipped>> /\ digestRun'["weekly"] = digestRun["weekly"]
    BY <1>3, <2>1, RunSet, DigestFacts DEF Digest!Tickets, Digest!Observers, Digest!Weeklies
  <2> QED BY <1>0, <1>k, <2>3, <2>4
<1>4. CASE Digest!SendDry \/ (\E k \in Digest!Kinds : Digest!EndUnsent(k) \/ Digest!RecordSent(k))
  <2>1. PICK k \in Digest!Kinds : digestRun' = [digestRun EXCEPT ![k] = Digest!NotRunning]
    BY <1>4, DigestFacts DEF Digest!SendDry, Digest!EndUnsent, Digest!RecordSent, Digest!Ends
  <2>2. digestRun'["weekly"] = digestRun["weekly"] \/ digestRun'["weekly"].pc # "send"
    BY <2>1, RunSet, NoDigestRuns, DigestFacts
  <2>3. UNCHANGED <<findings, owed, rolled, skipped>>
    BY <1>4 DEF Digest!SendDry, Digest!EndUnsent, Digest!RecordSent, Digest!DBUnchanged,
                Digest!Weeklies, Digest!Observers
  <2> QED BY <1>0, <1>k, <2>2, <2>3
<1>5. CASE Digest!Rollup
  <2>1. PICK r \in DigestRunRecord :
          /\ digestRun' = [digestRun EXCEPT !["weekly"] = r]
          /\ r.owed = owed'
          /\ {f.cve : f \in r.found} = {c \in DigestCVEs : Digest!InWindow(c)}
          /\ owed' = IF rolled <= Week THEN owed
                     ELSE owed \cap {c \in DigestCVEs : Digest!InWindow(c)}
    BY <1>5, RolledUpRun
  <2>2. UNCHANGED <<findings, rolled, skipped>>
    BY <1>5 DEF Digest!Rollup, Digest!DBUnchanged
  <2>3. digestRun'["weekly"] = r
    BY <2>1, RunSet, DigestFacts
  <2>4. Digest!Found("weekly")' = {c \in DigestCVEs : Digest!InWindow(c)}
    BY <2>1, <2>3 DEF Digest!Found
  <2>5. ASSUME NEW c \in owed, rolled <= Week PROVE Digest!InWindow(c)
    <3>1. findings[c] \in Rows /\ findings[c].updated <= rolled
      BY <1>0, <1>i, <2>5
    <3>2. findings[c].updated <= Week
      BY <1>0, <2>5, <3>1, DigestFacts DEF Rows, Digest!Row
    <3> QED BY <1>i, <2>5, <3>2 DEF Digest!InWindow, Digest!Within
  <2>6. owed' \subseteq owed /\ owed' \subseteq Digest!Found("weekly")'
    BY <1>0, <2>1, <2>4, <2>5
  <2>7. owed' = digestRun'["weekly"].owed
    BY <2>1, <2>3
  <2> QED BY <1>i, <2>2, <2>6, <2>7 DEF OwedInv, Digest!WeekCovered
<1>6. ASSUME NEW k \in Digest!Kinds, Digest!SendMail(k) \/ Digest!SendUnanswered(k)
      PROVE  OwedInv'
  <2>1. PICK r \in {Digest!NotRunning, Digest!Recording}, n \in 0 .. 1 :
          /\ digestRun[k].pc = "send"
          /\ digestRun' = [digestRun EXCEPT ![k] = r]
          /\ Digest!Mailed(k, n)
          /\ UNCHANGED findings
    BY <1>6, SentRun, Zenon
  <2>2. digestRun'["weekly"] = digestRun["weekly"] \/ digestRun'["weekly"].pc # "send"
    BY <2>1, RunSet, NoDigestRuns, DigestFacts
  <2>3. CASE k = "daily" \/ n = 0
    BY <1>0, <1>k, <2>1, <2>2, <2>3 DEF Digest!Mailed, Digest!Weeklies
  <2>4. CASE k = "weekly" /\ n = 1
    <3>1. /\ skipped' = skipped \cup (digestRun["weekly"].owed \ Digest!Found("weekly"))
          /\ owed' = owed \ Digest!Found("weekly") /\ rolled' = 0
      BY <2>1, <2>4 DEF Digest!Mailed
    <3>2. skipped' = {} /\ \A c \in owed' : findings[c] # NoRow /\ findings[c].updated = 0
      BY <1>i, <2>1, <2>4, <3>1
    <3>3. digestRun'["weekly"].pc # "send"
      BY <2>1, <2>4, RunSet, NoDigestRuns
    <3> QED BY <2>1, <3>1, <3>2, <3>3 DEF OwedInv, Digest!WeekCovered
  <2> QED BY <2>3, <2>4, DigestFacts
<1>7. CASE Digest!NextDay
  <2>1. /\ findings' = [c \in DigestCVEs |-> IF findings[c] = NoRow THEN NoRow ELSE
                            [first |-> Digest!Older(findings[c].first),
                             updated |-> Digest!Older(findings[c].updated)]]
        /\ rolled' = Digest!Older(rolled) /\ UNCHANGED <<digestRun, owed, skipped>>
        /\ digestRun["weekly"].pc = "idle"
    BY <1>7, DigestFacts, Zenon DEF Digest!NextDay
  <2>2. /\ \A a \in 0 .. Digest!Old : Digest!Older(a) \in 0 .. Digest!Old /\ a <= Digest!Older(a)
        /\ \A a \in 0 .. Digest!Old : \A b \in 0 .. a : Digest!Older(b) <= Digest!Older(a)
    BY DigestFacts DEF Digest!Older
  <2>3. ASSUME NEW c \in owed
        PROVE  findings'[c] # NoRow /\ (rolled' <= Week => findings'[c].updated <= rolled')
    <3>1. findings[c] \in Rows /\ (rolled <= Week => findings[c].updated <= rolled)
      BY <1>0, <1>i, <2>3
    <3>2. /\ findings'[c] = [first |-> Digest!Older(findings[c].first),
                             updated |-> Digest!Older(findings[c].updated)]
          /\ findings[c].first \in 0 .. Digest!Old /\ findings[c].updated \in 0 .. Digest!Old
      BY <1>0, <1>i, <2>1, <2>3, <3>1, DigestFacts DEF Rows, Digest!Row
    <3>3. findings'[c] \in Digest!Row /\ findings'[c].updated = Digest!Older(findings[c].updated)
      BY <2>2, <3>2, DigestFacts DEF Digest!Row
    <3>4. rolled' <= Week => rolled <= Week /\ findings[c].updated \in 0 .. rolled
      BY <1>0, <2>1, <2>2, <3>1, <3>2, DigestFacts
    <3> QED BY <1>0, <2>1, <2>2, <3>3, <3>4, DigestFacts
  <2> QED BY <1>i, <2>1, <2>3 DEF OwedInv, Digest!WeekCovered
<1>8. ASSUME NEW c \in DigestCVEs, Digest!ListCVE(c) PROVE OwedInv'
  BY <1>0, <1>k, <1>8 DEF Digest!ListCVE, Digest!DBUnchanged, Digest!Observers, Digest!Weeklies
<1>10. CASE Digest!Noon
  BY <1>0, <1>k, <1>10 DEF Digest!Noon, Digest!DBUnchanged, Digest!Observers, Digest!Weeklies
<1>9. CASE UNCHANGED Digest!digestVars
  BY <1>0, <1>k, <1>9 DEF Digest!digestVars
<1> QED BY <1>1, <1>2, <1>3, <1>4, <1>5, <1>6, <1>7, <1>8, <1>9, <1>10 DEF Digest!DigestNext

\* What is cached is what was fetched, half a day or a day older.
LEMMA CatalogStep ==
    DigestTypeInv /\ CatalogInv /\ [Digest!DigestNext]_(Digest!digestVars) => CatalogInv'
<1> SUFFICES ASSUME DigestTypeInv, CatalogInv, [Digest!DigestNext]_(Digest!digestVars)
             PROVE  CatalogInv'
  OBVIOUS
<1>0. listed \in [DigestCVEs -> -1 .. 2] /\ kevCache \in Catalog /\ kevCache.age \in 0 .. 2
  BY DEF DigestTypeInv, Catalog
<1>1. CASE UNCHANGED <<listed, kevCache>>
  BY <1>1 DEF CatalogInv
<1>2. CASE Digest!Enrich
  <2>1. PICK r \in DigestRunRecord, catalog \in Catalog :
          /\ kevCache' = IF catalog.age = 0 THEN catalog ELSE kevCache
          /\ \/ kevCache.age <= 1 /\ catalog = kevCache
             \/ catalog \in {Digest!Feed, Digest!NoCatalog}
          /\ UNCHANGED listed
    BY <1>2, EnrichedRun, Zenon
  <2>2. CASE kevCache' = kevCache
    BY <1>1, <2>1, <2>2
  <2>3. CASE kevCache' = Digest!Feed
    BY <1>0, <2>1, <2>3 DEF CatalogInv, Digest!Feed
  <2>4. Digest!NoCatalog.age # 0
    BY DEF Digest!NoCatalog
  <2> QED BY <2>1, <2>2, <2>3, <2>4
<1>3. CASE Digest!NextDay \/ Digest!Noon
  <2>1. /\ listed' = [c \in DigestCVEs |-> IF listed[c] \in {0, 1} THEN listed[c] + 1
                                          ELSE listed[c]]
        /\ kevCache' = IF kevCache.age = 0 THEN [kevCache EXCEPT !.age = 1] ELSE Digest!NoCatalog
    BY <1>3 DEF Digest!NextDay, Digest!Noon, Digest!HalfDay, Digest!Later
  <2>2. kevCache'.age <= 1 =>
          kevCache.age = 0 /\ kevCache'.age = 1 /\ kevCache'.cves = kevCache.cves
    BY <1>0, <2>1 DEF Catalog, Digest!NoCatalog
  <2>3. ASSUME kevCache'.age <= 1, NEW c \in DigestCVEs, listed'[c] > kevCache'.age
        PROVE  c \in kevCache.cves
    <3>1. kevCache.age = 0 /\ kevCache'.age = 1
      BY <2>2, <2>3
    <3>2. listed[c] \in -1 .. 2 /\ listed'[c] = (IF listed[c] \in {0, 1} THEN listed[c] + 1
                                                ELSE listed[c])
      BY <1>0, <2>1
    <3>3. listed[c] > 0
      BY <2>3, <3>1, <3>2
    <3> QED BY <3>1, <3>3 DEF CatalogInv
  <2> QED BY <2>2, <2>3 DEF CatalogInv
<1>4. ASSUME NEW c \in DigestCVEs, Digest!ListCVE(c) PROVE CatalogInv'
  <2>1. listed' = [listed EXCEPT ![c] = 0] /\ UNCHANGED kevCache
    BY <1>4 DEF Digest!ListCVE
  <2>2. ASSUME NEW d \in DigestCVEs, listed'[d] > kevCache.age PROVE listed[d] > kevCache.age
    BY <1>0, <2>1, <2>2
  <2> QED BY <2>1, <2>2 DEF CatalogInv
<1>5. ASSUME NEW k \in Digest!Kinds,
             \/ Digest!StartRun(k) \/ Digest!SendMail(k) \/ Digest!SendUnanswered(k)
             \/ Digest!RecordSent(k) \/ Digest!EndUnsent(k)
      PROVE  CatalogInv'
  BY <1>1, <1>5 DEF Digest!StartRun, Digest!SendMail, Digest!SendUnanswered, Digest!RecordSent,
                    Digest!EndUnsent, Digest!World
<1>6. CASE Digest!Tickets \/ Digest!SendDry \/ Digest!Rollup \/ UNCHANGED Digest!digestVars
  BY <1>1, <1>6 DEF Digest!Tickets, Digest!SendDry, Digest!Rollup, Digest!World, Digest!digestVars
<1> QED BY <1>2, <1>3, <1>4, <1>5, <1>6 DEF Digest!DigestNext

\* A step that scores what the daily found is enrich.py's.
LEMMA ScoringStep ==
    ASSUME DigestTypeInv, [Digest!DigestNext]_(Digest!digestVars),
           digestRun["daily"].pc = "read", digestRun'["daily"].pc = "ticket"
    PROVE  Digest!Enrich
<1>1. ASSUME NEW k \in Digest!Kinds, NEW r \in DigestRunRecord, r.pc # "ticket",
             digestRun' = [digestRun EXCEPT ![k] = r]
      PROVE  FALSE
  <2>1. digestRun'["daily"] = digestRun["daily"] \/ digestRun'["daily"] = r
    BY <1>1, RunSet, DigestFacts
  <2> QED BY <1>1, <2>1
<1>2. ~\E k \in Digest!Kinds : Digest!StartRun(k)
  BY <1>1, StartedRun
<1>3. ~Digest!Tickets /\ ~Digest!Rollup
  BY <1>1, DigestFacts, TicketedRun, RolledUpRun
<1>4. ~\E k \in Digest!Kinds : Digest!SendMail(k) \/ Digest!SendUnanswered(k)
  <2> SUFFICES ASSUME NEW k \in Digest!Kinds, Digest!SendMail(k) \/ Digest!SendUnanswered(k)
               PROVE  FALSE
    OBVIOUS
  <2>1. PICK r \in {Digest!NotRunning, Digest!Recording} : digestRun' = [digestRun EXCEPT ![k] = r]
    BY SentRun, Zenon
  <2> QED BY <1>1, <2>1, NoDigestRuns
<1>5. ~(Digest!SendDry \/ (\E k \in Digest!Kinds : Digest!EndUnsent(k) \/ Digest!RecordSent(k)))
  <2> SUFFICES ASSUME \/ Digest!SendDry
                      \/ \E k \in Digest!Kinds : Digest!EndUnsent(k) \/ Digest!RecordSent(k)
               PROVE  FALSE
    OBVIOUS
  <2>1. PICK k \in Digest!Kinds : digestRun' = [digestRun EXCEPT ![k] = Digest!NotRunning]
    BY DigestFacts DEF Digest!SendDry, Digest!EndUnsent, Digest!RecordSent, Digest!Ends
  <2> QED BY <1>1, <2>1, NoDigestRuns
<1>6. ~UNCHANGED digestRun
  OBVIOUS
<1>7. ~(Digest!NextDay \/ Digest!Noon \/ (\E c \in DigestCVEs : Digest!ListCVE(c))
        \/ UNCHANGED Digest!digestVars)
  BY <1>6 DEF Digest!NextDay, Digest!Noon, Digest!ListCVE, Digest!digestVars
<1> QED BY <1>2, <1>3, <1>4, <1>5, <1>7 DEF Digest!DigestNext

LEMMA DigestInvHolds ==
    LanesSpec => [](DigestTypeInv /\ OneDigestInv /\ OwedInv /\ CatalogInv)
<1> DEFINE Inv == DigestTypeInv /\ OneDigestInv /\ OwedInv /\ CatalogInv
<1>1. Inv /\ [LanesNext]_lanesVars => Inv'
  BY DigestSteps, DigestTypeStep, OneDigestStep, OwedStep, CatalogStep
<1> QED BY <1>1, DigestInitial, PTL DEF LanesSpec

\* A digest is mailed again on its day only when the record of the first was not
\* made or not read, or the mailer had no answer (run-digest, was-sent).
THEOREM OneDigestHolds == LanesSpec => []Digest!OneDigest
<1>1. OneDigestInv => Digest!OneDigest
  BY DEF OneDigestInv
<1> QED BY <1>1, DigestInvHolds, PTL

\* What was stored after the roll-up of a weekly that was mailed is in the next
\* that is made within the window (fleet-db, rollup).
THEOREM WeekCoveredHolds == LanesSpec => []WeekCovered
<1>1. OwedInv => WeekCovered
  BY DEF OwedInv, WeekCovered
<1> QED BY <1>1, DigestInvHolds, PTL

\* What CISA listed KEV_TTL before a daily scores it is scored as exploited,
\* whatever was cached and whatever is down, or the digest names the catalog
\* (enrich.py, fetch_kev and its cache that may be of the night before).
THEOREM ExploitedIsSeenHolds == LanesSpec => ExploitedIsSeen
<1> DEFINE Seen == digestRun["daily"].pc = "read" /\ digestRun'["daily"].pc = "ticket" =>
                     \A f \in digestRun'["daily"].found :
                       listed[f.cve] = 2 /\ ~digestRun'["daily"].degraded => ScoredSeen(f)
<1>1. ASSUME DigestTypeInv, CatalogInv, [LanesNext]_lanesVars PROVE Seen
  <2> SUFFICES ASSUME digestRun["daily"].pc = "read", digestRun'["daily"].pc = "ticket",
                      NEW f \in digestRun'["daily"].found,
                      listed[f.cve] = 2, ~digestRun'["daily"].degraded
               PROVE  ScoredSeen(f)
    OBVIOUS
  <2>1. Digest!Enrich
    BY <1>1, DigestSteps, ScoringStep
  <2>2. PICK r \in DigestRunRecord, catalog \in Catalog :
          /\ digestRun' = [digestRun EXCEPT !["daily"] = r]
          /\ \/ kevCache.age <= 1 /\ catalog = kevCache
             \/ catalog \in {Digest!Feed, Digest!NoCatalog}
          /\ \A g \in r.found : g.cve \in catalog.cves => ScoredSeen(g)
          /\ ~r.degraded => catalog # Digest!NoCatalog
    BY <1>1, <2>1, EnrichedRun, Zenon
  <2>3. digestRun'["daily"] = r
    BY <1>1, <2>2, RunSet, DigestFacts
  <2>4. f.cve \in DigestCVEs
    BY <2>3 DEF DigestRunRecord, Finding
  <2>5. CASE kevCache.age <= 1 /\ catalog = kevCache
    <3>1. kevCache.age \in 0 .. 2
      BY <1>1 DEF DigestTypeInv, Catalog
    <3>2. listed[f.cve] > kevCache.age
      BY <2>5, <3>1
    <3> QED BY <1>1, <2>2, <2>3, <2>4, <2>5, <3>2 DEF CatalogInv
  <2>6. CASE catalog = Digest!Feed
    <3>1. f.cve \in Digest!Feed.cves
      BY <2>4 DEF Digest!Feed
    <3> QED BY <2>2, <2>3, <2>6, <3>1
  <2> QED BY <2>2, <2>3, <2>5, <2>6
<1>2. DigestTypeInv /\ CatalogInv /\ [LanesNext]_lanesVars => [Seen]_(Digest!digestVars)
  BY <1>1
<1> QED BY <1>2, DigestInvHolds, PTL
        DEF LanesSpec, ExploitedIsSeen, Digest!ExploitedIsSeen, ScoredSeen

-----------------------------------------------------------------------------
(* The scanner's cache.                                                    *)

\* A step of the lanes is one of the cache, or leaves it as it is.
LEMMA CacheSteps == [LanesNext]_lanesVars => [Scanner!KbNext]_(Scanner!kbVars)
BY DEF LanesNext, lanesVars, weeklyVars, dailyVars, kbVars, Scanner!kbVars, Appscan,
       DomainsActions, WeeklySurvey, QualysCalls, Synopses, SharedMailbox, WeeklyReport,
       OwnersMail, Digests, MessageBoard, Mailers, OwnersOnFile, ScannerCache

Qids == Scanner!KbQids
ClientRecord ==
    [pc : {"none", "refresh", "rebuild", "ready"}, cache : Scanner!KBCache, have : BOOLEAN,
     stale : BOOLEAN, since : Scanner!KbAges, next : 1 .. LastQid + 1, got : Scanner!KBCache,
     matched : BOOLEAN, late : BOOLEAN, changed : SUBSET Qids, missed : SUBSET Qids]

CacheTypeInv ==
    /\ kb \in [Qids -> [cves : SUBSET KbCVEs, age : Scanner!KbAges]]
    /\ kbFile = NoCache \/ kbFile \in Scanner!CacheFile
    /\ client \in ClientRecord

\* The file lacks what Qualys changed since, or on the day, it was stamped, and
\* what was missed when it was read.
FileInv ==
    kbFile # NoCache =>
        \A q \in Qids : \/ Scanner!Entries(q) \subseteq kbFile.cache
                        \/ kb[q].age <= kbFile.age \/ q \in kbFile.missed

\* A download has what it has read, but for what changed since, and what is still
\* to be read the cache has, or Qualys lists.
DownloadInv ==
    LET cl == client
    IN  /\ \A q \in cl.changed : kb[q].age = 0
        /\ Scanner!Downloading /\ ~cl.matched => cl.got = {}
        /\ cl.pc = "refresh" =>
              /\ \A q \in Qids : q >= cl.next => \/ Scanner!Entries(q) \subseteq cl.cache
                                                 \/ kb[q].age <= cl.since \/ q \in cl.missed
              /\ cl.matched =>
                    \A q \in Qids : q < cl.next => \/ Scanner!Entries(q) \subseteq cl.cache \cup cl.got
                                                   \/ q \in cl.changed \cup cl.missed
        /\ cl.pc = "rebuild" /\ cl.matched =>
              \A q \in Qids : q < cl.next => \/ Scanner!Entries(q) \subseteq cl.got
                                             \/ q \in cl.changed \cup cl.missed

CacheInv == CacheTypeInv /\ FileInv /\ DownloadInv /\ Scanner!MappingsAreRecent

LEMMA CacheFacts ==
    /\ LastQid \in Nat \ {0} /\ MaxAge \in Nat /\ Qids = 1 .. LastQid
    /\ Scanner!Cap = MaxAge + 2 /\ Scanner!KbAges = 0 .. MaxAge + 2
    /\ \A a \in Scanner!KbAges : /\ Scanner!Older(a) \in Scanner!KbAges
                                 /\ a <= Scanner!Older(a) /\ Scanner!Older(a) <= a + 1
    /\ \A a \in Scanner!KbAges, b \in Scanner!KbAges :
          a <= b => Scanner!Older(a) <= Scanner!Older(b)
BY LanesAssumption DEF Scanner!KbAssumption, Scanner!Cap, Scanner!KbAges, Scanner!Older,
                       Qids, Scanner!KbQids

LEMMA NoClientIs ==
    /\ Scanner!NoClient \in ClientRecord /\ Scanner!NoClient.pc = "none"
    /\ Scanner!NoClient.changed = {} /\ Scanner!NoClient.late = FALSE
    /\ Scanner!NoClient.got = {} /\ Scanner!NoClient.next = 1
BY CacheFacts DEF Scanner!NoClient, ClientRecord, Scanner!KBCache

LEMMA ReadyIs ==
    ASSUME NEW cl \in ClientRecord, NEW cache \in Scanner!KBCache, NEW stale \in BOOLEAN
    PROVE  LET r == Scanner!Ready(cl, cache, stale)
           IN  /\ r \in ClientRecord /\ r.pc = "ready" /\ r.cache = cache
               /\ r.stale <=> stale
               /\ r.late <=> cl.late
               /\ r.missed = cl.missed /\ r.changed = {}
BY NoClientIs DEF Scanner!Ready, ClientRecord

LEMMA DownloadIs ==
    ASSUME NEW cl \in ClientRecord, NEW step \in {"refresh", "rebuild"}, NEW ok \in BOOLEAN
    PROVE  LET r == Scanner!Download(step, cl, ok)
           IN  /\ r \in ClientRecord /\ r.pc = step /\ r.next = 1 /\ r.got = {}
               /\ r.matched <=> ok
               /\ r.changed = {} /\ r.cache = cl.cache /\ r.since = cl.since
               /\ step = "refresh" => r.missed = cl.missed
<1>1. {} \in Scanner!KBCache /\ 1 \in 1 .. LastQid + 1
  BY CacheFacts DEF Scanner!KBCache
<1>2. CASE step = "refresh"
  BY <1>1, <1>2 DEF Scanner!Download, ClientRecord
<1>3. CASE step = "rebuild"
  BY <1>1, <1>3 DEF Scanner!Download, ClientRecord
<1> QED BY <1>2, <1>3

LEMMA CacheInitial == LanesInit => CacheInv
<1> SUFFICES ASSUME LanesInit PROVE CacheInv
  OBVIOUS
<1>1. Scanner!KbInit
  BY DEF LanesInit
<1>2. CacheTypeInv
  BY <1>1, NoClientIs, CacheFacts DEF Scanner!KbInit, CacheTypeInv, Qids
<1>3. FileInv /\ DownloadInv /\ Scanner!MappingsAreRecent
  BY <1>1, NoClientIs DEF Scanner!KbInit, FileInv, DownloadInv, Scanner!MappingsAreRecent,
                          Scanner!Downloading
<1> QED BY <1>2, <1>3 DEF CacheInv

\* The KnowledgeBase stays, and the process goes on with what it has, or has none.
LEMMA ClientKept ==
    ASSUME CacheInv, UNCHANGED <<kb, kbFile>>, client' \in ClientRecord, DownloadInv',
           Scanner!MappingsAreRecent'
    PROVE  CacheInv'
BY DEF CacheInv, CacheTypeInv, FileInv, Scanner!Entries

\* A download from its first page on, after a cache of the age it asks for.
LEMMA DownloadBegun ==
    ASSUME CacheInv, UNCHANGED <<kb, kbFile>>,
           NEW cl \in ClientRecord, NEW step \in {"refresh", "rebuild"}, NEW ok \in BOOLEAN,
           client' = Scanner!Download(step, cl, ok),
           step = "refresh" => \A q \in Qids : \/ Scanner!Entries(q) \subseteq cl.cache
                                               \/ kb[q].age <= cl.since \/ q \in cl.missed
    PROVE  CacheInv'
<1>1. /\ client' \in ClientRecord /\ client'.pc = step /\ client'.next = 1 /\ client'.got = {}
      /\ client'.changed = {} /\ client'.cache = cl.cache /\ client'.since = cl.since
      /\ step = "refresh" => client'.missed = cl.missed
  BY DownloadIs
<1>2. \A q \in Qids : ~(q < 1)
  BY CacheFacts
<1>3. \A q \in Qids : Scanner!Entries(q)' = Scanner!Entries(q)
  BY DEF Scanner!Entries
<1>4. DownloadInv'
  BY <1>1, <1>2, <1>3 DEF DownloadInv
<1>5. Scanner!MappingsAreRecent'
  BY <1>1 DEF Scanner!MappingsAreRecent
<1> QED BY <1>1, <1>4, <1>5, ClientKept

\* A cache that the lookups go by, marked or of the age it should have, and
\* perhaps written.
LEMMA CacheReady ==
    ASSUME CacheInv, UNCHANGED kb, NEW cl \in ClientRecord, NEW cache \in Scanner!KBCache,
           NEW stale \in BOOLEAN, client' = Scanner!Ready(cl, cache, stale),
           ~stale => \A q \in Qids : \/ Scanner!Entries(q) \subseteq cache
                                     \/ kb[q].age <= MaxAge + (IF cl.late THEN 1 ELSE 0)
                                     \/ q \in cl.missed,
           \/ UNCHANGED kbFile
           \/ /\ kbFile' = [cache |-> cache, age |-> 0, missed |-> cl.missed]
              /\ \A q \in Qids : \/ Scanner!Entries(q) \subseteq cache
                                 \/ kb[q].age <= 0 \/ q \in cl.missed
    PROVE  CacheInv'
<1>1. /\ client' \in ClientRecord /\ client'.pc = "ready" /\ client'.cache = cache
      /\ client'.stale <=> stale
      /\ client'.late <=> cl.late
      /\ client'.missed = cl.missed /\ client'.changed = {}
  BY ReadyIs
<1>2. \A q \in Qids : Scanner!Entries(q)' = Scanner!Entries(q)
  BY DEF Scanner!Entries
<1>3. DownloadInv'
  BY <1>1 DEF DownloadInv, Scanner!Downloading
<1>4. Scanner!MappingsAreRecent'
  BY <1>1, <1>2 DEF Scanner!MappingsAreRecent, Qids
<1>5. kbFile' = NoCache \/ kbFile' \in Scanner!CacheFile
  <2>1. cl.missed \in SUBSET Qids /\ 0 \in Scanner!KbAges
    BY CacheFacts DEF ClientRecord
  <2> QED BY <2>1 DEF CacheInv, CacheTypeInv, Scanner!CacheFile, Qids
<1>6. FileInv'
  <2>1. CASE UNCHANGED kbFile
    BY <1>2, <2>1 DEF CacheInv, FileInv
  <2>2. CASE /\ kbFile' = [cache |-> cache, age |-> 0, missed |-> cl.missed]
             /\ \A q \in Qids : \/ Scanner!Entries(q) \subseteq cache
                                \/ kb[q].age <= 0 \/ q \in cl.missed
    BY <1>2, <2>2 DEF FileInv
  <2> QED BY <2>1, <2>2
<1> QED BY <1>1, <1>3, <1>4, <1>5, <1>6 DEF CacheInv, CacheTypeInv

\* Every page, every change and every midnight leaves the cache so.
LEMMA CacheStep == CacheInv /\ [Scanner!KbNext]_(Scanner!kbVars) => CacheInv'
<1> SUFFICES ASSUME CacheInv, [Scanner!KbNext]_(Scanner!kbVars) PROVE CacheInv'
  OBVIOUS
<1>0. /\ kb \in [Qids -> [cves : SUBSET KbCVEs, age : Scanner!KbAges]]
      /\ kbFile = NoCache \/ kbFile \in Scanner!CacheFile
      /\ client \in ClientRecord
  BY DEF CacheInv, CacheTypeInv
<1>f. ASSUME kbFile # NoCache
      PROVE  /\ kbFile.cache \in Scanner!KBCache /\ kbFile.age \in Scanner!KbAges
             /\ kbFile.missed \in SUBSET Qids
             /\ \A q \in Qids : \/ Scanner!Entries(q) \subseteq kbFile.cache
                                \/ kb[q].age <= kbFile.age \/ q \in kbFile.missed
  BY <1>0, <1>f DEF CacheInv, FileInv, Scanner!CacheFile, Qids
<1>c. /\ client.cache \in Scanner!KBCache /\ client.got \in Scanner!KBCache
      /\ client.missed \subseteq Qids /\ client.changed \subseteq Qids
      /\ client.next \in 1 .. LastQid + 1 /\ client.since \in Scanner!KbAges
      /\ client.late \in BOOLEAN /\ client.matched \in BOOLEAN /\ client.have \in BOOLEAN
  BY <1>0 DEF ClientRecord
<1>d. /\ \A q \in client.changed : kb[q].age = 0
      /\ Scanner!Downloading /\ ~client.matched => client.got = {}
      /\ client.pc = "refresh" =>
            /\ \A q \in Qids : q >= client.next => \/ Scanner!Entries(q) \subseteq client.cache
                                                   \/ kb[q].age <= client.since
                                                   \/ q \in client.missed
            /\ client.matched =>
                  \A q \in Qids : q < client.next =>
                      \/ Scanner!Entries(q) \subseteq client.cache \cup client.got
                      \/ q \in client.changed \cup client.missed
      /\ client.pc = "rebuild" /\ client.matched =>
            \A q \in Qids : q < client.next => \/ Scanner!Entries(q) \subseteq client.got
                                               \/ q \in client.changed \cup client.missed
  BY DEF CacheInv, DownloadInv
<1>z. \A a \in Scanner!KbAges : 0 <= a /\ (a <= MaxAge => Scanner!Older(a) <= MaxAge + 1)
  BY CacheFacts
<1>1. CASE Scanner!FreshCache
  <2> DEFINE cl == [Scanner!NoClient EXCEPT !.missed = kbFile.missed]
  <2>1. /\ kbFile # NoCache /\ kbFile.age <= MaxAge /\ UNCHANGED <<kb, kbFile>>
        /\ client' = Scanner!Ready(cl, kbFile.cache, FALSE)
    BY <1>1 DEF Scanner!FreshCache
  <2>2. cl \in ClientRecord /\ cl.missed = kbFile.missed /\ cl.late = FALSE
    BY <1>f, <2>1, NoClientIs DEF ClientRecord
  <2> HIDE DEF cl
  <2>3. \A q \in Qids : kb[q].age <= kbFile.age => kb[q].age <= MaxAge
    <3>1. \A a \in Scanner!KbAges, b \in Scanner!KbAges : a <= b /\ b <= MaxAge => a <= MaxAge
      BY CacheFacts
    <3>2. kbFile.age \in Scanner!KbAges /\ \A q \in Qids : kb[q].age \in Scanner!KbAges
      BY <1>0, <1>f, <2>1
    <3> QED BY <2>1, <3>1, <3>2
  <2>4. \A q \in Qids : \/ Scanner!Entries(q) \subseteq kbFile.cache
                        \/ kb[q].age <= MaxAge + (IF cl.late THEN 1 ELSE 0)
                        \/ q \in cl.missed
    <3>1. MaxAge + (IF cl.late THEN 1 ELSE 0) = MaxAge
      BY <2>2, CacheFacts
    <3> QED BY <1>f, <2>1, <2>2, <2>3, <3>1
  <2> QED BY <1>f, <2>1, <2>2, <2>4, CacheReady
<1>2. CASE Scanner!BeginRefresh
  <2> DEFINE cl == [Scanner!NoClient EXCEPT !.cache = kbFile.cache, !.have = TRUE,
                                            !.since = kbFile.age, !.missed = kbFile.missed]
  <2>1. PICK ok \in BOOLEAN : client' = Scanner!Download("refresh", cl, ok)
    BY <1>2, Zenon DEF Scanner!BeginRefresh
  <2>2. kbFile # NoCache /\ UNCHANGED <<kb, kbFile>>
    BY <1>2 DEF Scanner!BeginRefresh
  <2>3. /\ cl \in ClientRecord /\ cl.cache = kbFile.cache /\ cl.since = kbFile.age
        /\ cl.missed = kbFile.missed
    BY <1>f, <2>2, NoClientIs DEF ClientRecord
  <2> HIDE DEF cl
  <2> QED BY <1>f, <2>1, <2>2, <2>3, DownloadBegun
<1>3. CASE Scanner!FirstBuild
  BY <1>3, NoClientIs, DownloadBegun DEF Scanner!FirstBuild
<1>4. CASE Scanner!ReadPage
  <2> DEFINE at == client.next
             add == client.matched /\ (client.pc = "rebuild" \/ Scanner!Listed(at))
             page == IF add THEN client.got \cup Scanner!Entries(at) ELSE client.got
             cl == [client EXCEPT !.next = at + 1, !.got = page]
  <2>1. Scanner!Downloading /\ at <= LastQid /\ UNCHANGED <<kb, kbFile>> /\ client' = cl
    BY <1>4 DEF Scanner!ReadPage
  <2>2. at \in Qids /\ at + 1 \in 1 .. LastQid + 1
    BY <1>c, <2>1, CacheFacts
  <2>3. Scanner!Entries(at) \in Scanner!KBCache
    BY <1>0, <2>2 DEF Scanner!Entries, Scanner!KBCache, Qids
  <2>4. page \in Scanner!KBCache
    BY <1>c, <2>3 DEF Scanner!KBCache
  <2> HIDE DEF page
  <2>5. /\ cl \in ClientRecord /\ cl.next = at + 1 /\ cl.got = page /\ cl.pc = client.pc
        /\ cl.cache = client.cache /\ cl.since = client.since /\ cl.missed = client.missed
        /\ cl.changed = client.changed /\ cl.matched = client.matched
    BY <1>0, <2>2, <2>4 DEF ClientRecord
  <2> HIDE DEF cl
  <2>6. /\ ~client.matched => page = client.got
        /\ client.matched /\ (client.pc = "rebuild" \/ kb[at].age <= client.since) =>
              Scanner!Entries(at) \subseteq page
        /\ client.got \subseteq page
    BY DEF page, Scanner!Listed
  <2>7. \A q \in Qids : /\ q < at + 1 => q < at \/ q = at
                        /\ q >= at + 1 => q >= at
                        /\ Scanner!Entries(q)' = Scanner!Entries(q)
    <3>1. \A q \in Qids : Scanner!Entries(q)' = Scanner!Entries(q)
      BY <2>1 DEF Scanner!Entries
    <3>2. ASSUME NEW n \in Nat, NEW q \in Nat
          PROVE  (q < n + 1 => q < n \/ q = n) /\ (q >= n + 1 => q >= n)
      OBVIOUS
    <3>3. at \in Nat /\ Qids \subseteq Nat
      BY SMTT(30), <2>2, CacheFacts
    <3> QED BY <3>1, <3>2, <3>3
  <2>8. ASSUME client.pc = "refresh"
        PROVE  /\ \A q \in Qids : q >= cl.next => \/ Scanner!Entries(q) \subseteq cl.cache
                                                  \/ kb[q].age <= cl.since \/ q \in cl.missed
               /\ cl.matched =>
                     \A q \in Qids : q < cl.next => \/ Scanner!Entries(q) \subseteq cl.cache \cup cl.got
                                                    \/ q \in cl.changed \cup cl.missed
    <3>1. \A q \in Qids : q >= cl.next => \/ Scanner!Entries(q) \subseteq cl.cache
                                          \/ kb[q].age <= cl.since \/ q \in cl.missed
      BY <1>d, <2>5, <2>7, <2>8
    <3>2. ASSUME client.matched, NEW q \in Qids, q < at
          PROVE  \/ Scanner!Entries(q) \subseteq cl.cache \cup cl.got
                 \/ q \in cl.changed \cup cl.missed
      BY <1>d, <2>5, <2>6, <2>8, <3>2
    <3>3. ASSUME client.matched
          PROVE  \/ Scanner!Entries(at) \subseteq cl.cache \cup cl.got
                 \/ at \in cl.changed \cup cl.missed
      <4>1. at >= client.next
        BY <2>2, CacheFacts
      <4>2. \/ Scanner!Entries(at) \subseteq client.cache
            \/ kb[at].age <= client.since \/ at \in client.missed
        BY <1>d, <2>2, <2>8, <4>1
      <4> QED BY <2>5, <2>6, <3>3, <4>2
    <3> QED BY <2>5, <2>7, <3>1, <3>2, <3>3
  <2>9. ASSUME client.pc = "rebuild", client.matched, NEW q \in Qids, q < cl.next
        PROVE  \/ Scanner!Entries(q) \subseteq cl.got \/ q \in cl.changed \cup cl.missed
    BY <1>d, <2>5, <2>6, <2>7, <2>9
  <2>10. DownloadInv'
    <3>1. Scanner!Downloading' /\ ~cl.matched => cl.got = {}
      BY <1>d, <2>1, <2>5, <2>6
    <3> QED BY <1>d, <2>1, <2>5, <2>7, <2>8, <2>9, <3>1 DEF DownloadInv
  <2>11. Scanner!MappingsAreRecent'
    BY <2>1, <2>5 DEF Scanner!MappingsAreRecent, Scanner!Downloading
  <2> QED BY <2>1, <2>5, <2>10, <2>11, ClientKept
<1>g. ASSUME client' = Scanner!GiveUp(client), UNCHANGED <<kb, kbFile>> PROVE CacheInv'
  <2>1. CASE client' = Scanner!Ready(client, client.cache, TRUE)
    BY <1>0, <1>c, <1>g, <2>1, CacheReady
  <2>2. CASE client' = Scanner!NoClient
    BY <1>g, <2>2, NoClientIs, ClientKept DEF DownloadInv, Scanner!Downloading,
                                              Scanner!MappingsAreRecent
  <2> QED BY <1>g, <2>1, <2>2 DEF Scanner!GiveUp
<1>5. CASE Scanner!PageFails
  <2>1. UNCHANGED <<kb, kbFile>>
    BY <1>5 DEF Scanner!PageFails
  <2>2. \/ client' = Scanner!GiveUp(client)
        \/ \E ok \in BOOLEAN : client' = Scanner!Download("rebuild", client, ok)
    BY <1>5 DEF Scanner!PageFails
  <2> QED BY <1>0, <1>g, <2>1, <2>2, DownloadBegun
<1>6. CASE Scanner!RefreshDone
  <2> DEFINE merged == client.cache \cup client.got
  <2>1. client.pc = "refresh" /\ client.next > LastQid /\ UNCHANGED kb
    BY <1>6 DEF Scanner!RefreshDone
  <2>2. CASE client.got = {}
    BY <1>0, <1>6, <2>1, <2>2, DownloadBegun DEF Scanner!RefreshDone
  <2>3. CASE client.got # {}
    <3>1. /\ client' = Scanner!Ready(client, merged, FALSE)
          /\ \/ kbFile' = [cache |-> merged, age |-> 0, missed |-> client.missed]
             \/ UNCHANGED kbFile
      BY <1>6, <2>3 DEF Scanner!RefreshDone, Scanner!WriteCache
    <3>2. \A q \in Qids : q < client.next
      BY SMTT(30), <1>c, <2>1, CacheFacts
    <3>3. client.matched
      BY <1>d, <2>1, <2>3 DEF Scanner!Downloading
    <3>4. \A q \in Qids : Scanner!Entries(q) \subseteq merged \/ kb[q].age = 0 \/ q \in client.missed
      BY <1>d, <2>1, <3>2, <3>3
    <3>5. merged \in Scanner!KBCache
      BY <1>c DEF Scanner!KBCache
    <3>6. \A q \in Qids : kb[q].age = 0 =>
            kb[q].age <= 0 /\ kb[q].age <= MaxAge + (IF client.late THEN 1 ELSE 0)
      BY CacheFacts
    <3> HIDE DEF merged
    <3> QED BY <1>0, <2>1, <3>1, <3>4, <3>5, <3>6, CacheReady
  <2> QED BY <2>2, <2>3
<1>7. CASE Scanner!RebuildDone
  <2>1. client.pc = "rebuild" /\ client.next > LastQid /\ UNCHANGED kb
    BY <1>7 DEF Scanner!RebuildDone
  <2>2. CASE ~Scanner!checkPlausibleRebuild(client.cache, client.got)
    BY <1>7, <1>g, <2>1, <2>2 DEF Scanner!RebuildDone
  <2>3. CASE Scanner!checkPlausibleRebuild(client.cache, client.got)
    <3>1. \/ /\ client' = Scanner!Ready(client, client.got, FALSE)
             /\ \/ kbFile' = [cache |-> client.got, age |-> 0, missed |-> client.missed]
                \/ UNCHANGED kbFile
          \/ client' = Scanner!NoClient /\ UNCHANGED kbFile
      BY <1>7, <2>3 DEF Scanner!RebuildDone, Scanner!WriteCache
    <3>2. \A q \in Qids : q < client.next
      BY <1>c, <2>1, CacheFacts
    <3>3. client.matched
      BY <1>d, <2>1, <2>3 DEF Scanner!Downloading, Scanner!checkPlausibleRebuild
    <3>4. \A q \in Qids : Scanner!Entries(q) \subseteq client.got \/ kb[q].age = 0
                          \/ q \in client.missed
      BY <1>d, <2>1, <3>2, <3>3
    <3>5. \A q \in Qids : kb[q].age = 0 =>
            kb[q].age <= 0 /\ kb[q].age <= MaxAge + (IF client.late THEN 1 ELSE 0)
      BY CacheFacts
    <3>6. CASE client' = Scanner!NoClient /\ UNCHANGED kbFile
      BY <2>1, <3>6, NoClientIs, ClientKept DEF DownloadInv, Scanner!Downloading,
                                                Scanner!MappingsAreRecent
    <3>7. CASE /\ client' = Scanner!Ready(client, client.got, FALSE)
               /\ \/ kbFile' = [cache |-> client.got, age |-> 0, missed |-> client.missed]
                  \/ UNCHANGED kbFile
      BY <1>0, <1>c, <2>1, <3>4, <3>5, <3>7, CacheReady
    <3> QED BY <3>1, <3>6, <3>7
  <2> QED BY <2>2, <2>3
<1>8. CASE Scanner!EndProcess
  BY <1>8, NoClientIs, ClientKept DEF Scanner!EndProcess, DownloadInv, Scanner!Downloading,
                                      Scanner!MappingsAreRecent
<1>9. CASE Scanner!ChangeVuln
  <2>1. PICK q \in Qids, cs \in SUBSET KbCVEs :
          /\ kb' = [kb EXCEPT ![q] = [cves |-> cs, age |-> 0]] /\ UNCHANGED kbFile
          /\ client' = [client EXCEPT !.changed = IF Scanner!Downloading /\ q < client.next
                                                  THEN @ \cup {q} ELSE @]
    BY <1>9, Zenon DEF Scanner!ChangeVuln, Qids
  <2> DEFINE set == IF Scanner!Downloading /\ q < client.next
                    THEN client.changed \cup {q} ELSE client.changed
  <2>2. set \subseteq Qids /\ client.changed \subseteq set
        /\ (Scanner!Downloading /\ q < client.next => q \in set) /\ set \subseteq client.changed \cup {q}
    BY <1>c
  <2>3. client' = [client EXCEPT !.changed = set]
    BY <2>1
  <2> HIDE DEF set
  <2>4. /\ client' \in ClientRecord /\ client'.changed = set /\ client'.pc = client.pc
        /\ client'.cache = client.cache /\ client'.since = client.since
        /\ client'.missed = client.missed /\ client'.got = client.got
        /\ client'.next = client.next /\ client'.matched = client.matched
        /\ client'.late = client.late /\ client'.stale = client.stale
    BY <1>0, <2>2, <2>3 DEF ClientRecord
  <2>5. /\ kb' \in [Qids -> [cves : SUBSET KbCVEs, age : Scanner!KbAges]]
        /\ kb'[q].age = 0
        /\ \A p \in Qids : p # q => kb'[p] = kb[p] /\ Scanner!Entries(p)' = Scanner!Entries(p)
    BY <1>0, <2>1, CacheFacts DEF Scanner!Entries
  <2>6. FileInv'
    <3>1. kbFile # NoCache => kb'[q].age <= kbFile.age
      BY <1>f, <1>z, <2>5
    <3> QED BY <1>f, <2>1, <2>5, <3>1 DEF FileInv
  <2>7. DownloadInv'
    <3>1. \A p \in set : kb'[p].age = 0
      BY <1>c, <1>d, <2>2, <2>5
    <3>2. kb'[q].age <= client.since
      BY <1>c, <1>z, <2>5
    <3>3. ASSUME client.pc = "refresh"
          PROVE  /\ \A p \in Qids : p >= client.next => \/ Scanner!Entries(p)' \subseteq client.cache
                                                        \/ kb'[p].age <= client.since
                                                        \/ p \in client.missed
                 /\ client.matched =>
                       \A p \in Qids : p < client.next =>
                          \/ Scanner!Entries(p)' \subseteq client.cache \cup client.got
                          \/ p \in set \cup client.missed
      <4>1. Scanner!Downloading
        BY <3>3 DEF Scanner!Downloading
      <4> QED BY <1>d, <2>2, <2>5, <3>2, <3>3, <4>1
    <3>4. ASSUME client.pc = "rebuild", client.matched
          PROVE  \A p \in Qids : p < client.next => \/ Scanner!Entries(p)' \subseteq client.got
                                                    \/ p \in set \cup client.missed
      <4>1. Scanner!Downloading
        BY <3>4 DEF Scanner!Downloading
      <4> QED BY <1>d, <2>2, <2>5, <3>4, <4>1
    <3>5. Scanner!Downloading' /\ ~client'.matched => client'.got = {}
      BY <1>d, <2>4 DEF Scanner!Downloading
    <3> QED BY <2>4, <3>1, <3>3, <3>4, <3>5 DEF DownloadInv
  <2>8. Scanner!MappingsAreRecent'
    <3>1. kb'[q].age <= MaxAge + (IF client.late THEN 1 ELSE 0)
      BY <2>5, CacheFacts
    <3>2. client.pc = "ready" /\ ~client.stale =>
            \A p \in Qids : \/ Scanner!Entries(p) \subseteq client.cache
                            \/ kb[p].age <= MaxAge + (IF client.late THEN 1 ELSE 0)
                            \/ p \in client.missed
      BY DEF CacheInv, Scanner!MappingsAreRecent, Qids
    <3>3. client.pc = "ready" /\ ~client.stale =>
            \A p \in Qids : \/ Scanner!Entries(p)' \subseteq client.cache
                            \/ kb'[p].age <= MaxAge + (IF client.late THEN 1 ELSE 0)
                            \/ p \in client.missed
      BY <2>5, <3>1, <3>2
    <3> QED BY <2>4, <3>3 DEF Scanner!MappingsAreRecent, Qids
  <2> QED BY <1>0, <2>1, <2>4, <2>5, <2>6, <2>7, <2>8 DEF CacheInv, CacheTypeInv
<1>10. CASE Scanner!DeleteCache
  <2>1. kbFile' = NoCache /\ UNCHANGED <<kb, client>>
    BY <1>10 DEF Scanner!DeleteCache
  <2>2. FileInv' /\ CacheTypeInv'
    BY <1>0, <2>1 DEF FileInv, CacheTypeInv
  <2>3. DownloadInv' /\ Scanner!MappingsAreRecent'
    BY <2>1 DEF CacheInv, DownloadInv, Scanner!MappingsAreRecent, Scanner!Downloading,
                Scanner!Entries
  <2> QED BY <2>2, <2>3 DEF CacheInv
<1>11. CASE Scanner!NextDay
  <2> DEFINE late == (client.pc # "none")
             since == IF client.pc = "refresh" THEN Scanner!Older(client.since) ELSE client.since
             set == client.missed \cup client.changed
             none == {}
  <2>1. /\ ~client.late /\ kb' = [q \in Qids |-> [kb[q] EXCEPT !.age = Scanner!Older(@)]]
        /\ kbFile' = IF kbFile = NoCache THEN NoCache ELSE [kbFile EXCEPT !.age = Scanner!Older(@)]
        /\ client' = [client EXCEPT !.late = late, !.since = since, !.missed = set, !.changed = none]
    BY <1>11 DEF Scanner!NextDay, Qids
  <2>2. /\ since \in Scanner!KbAges /\ set \subseteq Qids /\ none \subseteq Qids /\ late \in BOOLEAN
        /\ client.pc = "refresh" => since = Scanner!Older(client.since)
        /\ late <=> client.pc # "none"
    BY <1>c, CacheFacts
  <2>3. set = client.missed \cup client.changed /\ none = {}
    OBVIOUS
  <2> HIDE DEF since, set, none, late
  <2>4. /\ client' \in ClientRecord /\ client'.changed = none /\ client'.pc = client.pc
        /\ client'.cache = client.cache /\ client'.since = since
        /\ client'.missed = set /\ client'.got = client.got
        /\ client'.next = client.next /\ client'.matched = client.matched
        /\ client'.late = late /\ client'.stale = client.stale
    BY <1>0, <2>1, <2>2 DEF ClientRecord
  <2>5. ASSUME NEW q \in Qids
        PROVE  /\ kb'[q] \in [cves : SUBSET KbCVEs, age : Scanner!KbAges]
               /\ kb'[q].age = Scanner!Older(kb[q].age) /\ kb'[q].cves = kb[q].cves
               /\ kb[q].age \in Scanner!KbAges
    BY <1>0, <2>1, CacheFacts
  <2>6. \A q \in Qids : Scanner!Entries(q)' = Scanner!Entries(q)
    BY <2>5 DEF Scanner!Entries
  <2>7. kbFile # NoCache => /\ kbFile' \in Scanner!CacheFile /\ kbFile'.cache = kbFile.cache
                            /\ kbFile'.age = Scanner!Older(kbFile.age)
                            /\ kbFile'.missed = kbFile.missed
    BY <1>0, <2>1, CacheFacts DEF Scanner!CacheFile
  <2>8. CacheTypeInv'
    BY <2>1, <2>4, <2>5, <2>7 DEF CacheTypeInv
  <2>9. FileInv'
    <3>1. \A q \in Qids : kbFile # NoCache /\ kb[q].age <= kbFile.age => kb'[q].age <= kbFile'.age
      BY ZenonT(60), <1>f, <2>5, <2>7, CacheFacts
    <3>2. kbFile' # NoCache => kbFile # NoCache
      BY <2>1
    <3> QED BY <1>f, <2>6, <2>7, <3>1, <3>2 DEF FileInv
  <2>10. DownloadInv'
    <3>1. ASSUME client.pc = "refresh", NEW q \in Qids, kb[q].age <= client.since
          PROVE  kb'[q].age <= since
      BY ZenonT(60), <1>c, <2>2, <2>5, <3>1, CacheFacts
    <3>2. Scanner!Downloading' <=> Scanner!Downloading
      BY <2>4 DEF Scanner!Downloading
    <3>3. ASSUME client.pc = "refresh"
          PROVE  /\ \A q \in Qids : q >= client.next => \/ Scanner!Entries(q)' \subseteq client.cache
                                                        \/ kb'[q].age <= since \/ q \in set
                 /\ client.matched =>
                       \A q \in Qids : q < client.next =>
                          \/ Scanner!Entries(q)' \subseteq client.cache \cup client.got
                          \/ q \in none \cup set
      BY <1>d, <2>3, <2>6, <3>1, <3>3
    <3>4. ASSUME client.pc = "rebuild", client.matched
          PROVE  \A q \in Qids : q < client.next => \/ Scanner!Entries(q)' \subseteq client.got
                                                    \/ q \in none \cup set
      BY <1>d, <2>3, <2>6, <3>4
    <3> QED BY <1>d, <2>3, <2>4, <3>2, <3>3, <3>4 DEF DownloadInv
  <2>11. Scanner!MappingsAreRecent'
    <3>1. client.pc = "ready" /\ ~client.stale =>
            \A q \in Qids : \/ Scanner!Entries(q) \subseteq client.cache
                            \/ kb[q].age <= MaxAge \/ q \in client.missed
      <4>1. MaxAge + (IF client.late THEN 1 ELSE 0) = MaxAge
        BY <2>1, CacheFacts
      <4> QED BY <4>1 DEF CacheInv, Scanner!MappingsAreRecent, Qids
    <3>2. client.pc = "ready" => MaxAge + (IF late THEN 1 ELSE 0) = MaxAge + 1
      BY <2>2
    <3>3. \A q \in Qids : kb[q].age <= MaxAge => kb'[q].age <= MaxAge + 1
      BY <1>z, <2>5
    <3>4. client.pc = "ready" /\ ~client.stale =>
            \A q \in Qids : \/ Scanner!Entries(q)' \subseteq client.cache
                            \/ kb'[q].age <= MaxAge + (IF late THEN 1 ELSE 0)
                            \/ q \in set
      BY <2>3, <2>6, <3>1, <3>2, <3>3
    <3> QED BY <2>4, <3>4 DEF Scanner!MappingsAreRecent, Qids
  <2> QED BY <2>8, <2>9, <2>10, <2>11 DEF CacheInv
<1>12. CASE UNCHANGED Scanner!kbVars
  BY <1>12 DEF Scanner!kbVars, CacheInv, CacheTypeInv, FileInv, DownloadInv,
               Scanner!MappingsAreRecent, Scanner!Entries, Scanner!Downloading
<1> QED BY <1>1, <1>2, <1>3, <1>4, <1>5, <1>6, <1>7, <1>8, <1>9, <1>10, <1>11, <1>12
        DEF Scanner!KbNext

LEMMA CacheInvHolds == LanesSpec => []CacheInv
<1>1. CacheInv /\ [LanesNext]_lanesVars => CacheInv'
  BY CacheSteps, CacheStep
<1> QED BY <1>1, CacheInitial, PTL DEF LanesSpec

\* A cache that is not marked stale lacks no mapping older than it may be, but for
\* one changed under a download that crossed a midnight (qualys/client.go,
\* LoadOrBuildKBCache).
THEOREM MappingsAreRecentHolds == LanesSpec => []MappingsAreRecent
<1>1. CacheInv => MappingsAreRecent
  BY DEF CacheInv, MappingsAreRecent
<1> QED BY <1>1, CacheInvHolds, PTL

-----------------------------------------------------------------------------
(* The database of owners.                                                 *)

\* A step of the lanes is one of the database, or leaves it as it is.
LEMMA OwnerSteps == [LanesNext]_lanesVars => [Owners!DbNext]_(Owners!dbVars)
BY DEF LanesNext, lanesVars, weeklyVars, dailyVars, ownerVars, Owners!dbVars, Appscan,
       DomainsActions, WeeklySurvey, QualysCalls, Synopses, SharedMailbox, WeeklyReport,
       OwnersMail, Digests, MessageBoard, Mailers, OwnersOnFile, ScannerCache

\* A database but for the number of its changes.
Sound(d) ==
    /\ d \in Owners!Db
    /\ \A a \in DOMAIN d.apps : Cardinality(d.apps[a].watchers) <= MaxWatchers
    /\ \A s \in DOMAIN d.sites : d.sites[s].owner # NoOwner

LEMMA OwnerFacts ==
    /\ IsFiniteSet(Editors) /\ IsFiniteSet(People) /\ MaxWatchers \in Nat /\ MaxChanges \in Nat
    /\ OldFile \in Seq(Owners!Line)
    /\ \A i \in DOMAIN OldFile : Cardinality(OldFile[i].watchers) <= MaxWatchers
    /\ NoOne \notin Editors /\ NoOwner \notin People /\ NoFile \notin Owners!Db
BY LanesAssumption DEF Owners!OwnersDbAssumption, Owners!IsFiniteSet, IsFiniteSet,
                       Owners!Cardinality, Cardinality

LEMMA EntriesAre ==
    ASSUME NEW K, NEW f
    PROVE  f \in Owners!Entries(K) <=> DOMAIN f \subseteq K /\ f \in [DOMAIN f -> Owners!Entry]
BY DEF Owners!Entries

LEMMA DbIs ==
    ASSUME NEW d \in Owners!Db
    PROVE  /\ d.ready \in BOOLEAN /\ d.change \in Nat /\ d.domains \subseteq MailDomains
           /\ d.apps \in Owners!Entries(OwnedApps) /\ d.sites \in Owners!Entries(Sites)
           /\ DOMAIN d.apps \subseteq OwnedApps /\ d.apps \in [DOMAIN d.apps -> Owners!Entry]
           /\ DOMAIN d.sites \subseteq Sites /\ d.sites \in [DOMAIN d.sites -> Owners!Entry]
BY EntriesAre DEF Owners!Db

LEMMA CountedIs ==
    ASSUME NEW d \in Owners!Db, NEW n \in Nat
    PROVE  LET m == [d EXCEPT !.change = n]
           IN  /\ m \in Owners!Db /\ m.change = n /\ m.ready = d.ready
               /\ m.apps = d.apps /\ m.sites = d.sites
BY DEF Owners!Db

LEMMA EmptyIs == <<>> \in Owners!Entries({}) /\ DOMAIN <<>> = {}
BY DEF Owners!Entries

\* What an entry that is set, or dropped, makes of the entries.
LEMMA SetIs ==
    ASSUME NEW K \in {OwnedApps, Sites}, NEW f \in Owners!Entries(K), NEW k \in K, NEW v \in Owners!Entry
    PROVE  LET g == Owners!Set(f, k, v)
           IN  /\ g \in Owners!Entries(K) /\ DOMAIN g = DOMAIN f \cup {k} /\ g[k] = v
               /\ \A x \in DOMAIN f : x # k => g[x] = f[x]
<1> DEFINE g == Owners!Set(f, k, v)
<1>1. DOMAIN f \subseteq K /\ f \in [DOMAIN f -> Owners!Entry]
  BY EntriesAre
<1>2. /\ DOMAIN g = DOMAIN f \cup {k} /\ g[k] = v
      /\ \A x \in DOMAIN f : x # k => g[x] = f[x]
      /\ g \in [DOMAIN f \cup {k} -> Owners!Entry]
  BY <1>1 DEF Owners!Set
<1>3. g \in Owners!Entries(K)
  BY <1>1, <1>2, EntriesAre
<1> QED BY <1>2, <1>3

LEMMA DropIs ==
    ASSUME NEW K \in {OwnedApps, Sites}, NEW f \in Owners!Entries(K), NEW k \in K
    PROVE  LET g == Owners!Drop(f, {k})
           IN  /\ g \in Owners!Entries(K) /\ DOMAIN g \subseteq DOMAIN f
               /\ \A x \in DOMAIN g : g[x] = f[x]
<1> DEFINE g == Owners!Drop(f, {k})
<1>1. DOMAIN f \subseteq K /\ f \in [DOMAIN f -> Owners!Entry]
  BY EntriesAre
<1>2. /\ DOMAIN g = DOMAIN f \ {k} /\ \A x \in DOMAIN g : g[x] = f[x]
      /\ g \in [DOMAIN f \ {k} -> Owners!Entry]
  BY <1>1 DEF Owners!Drop
<1>3. g \in Owners!Entries(K)
  BY <1>1, <1>2, EntriesAre
<1> QED BY <1>2, <1>3

\* A database with other applications, other sites or other domains.
LEMMA AppsSet ==
    ASSUME NEW d, Sound(d), NEW f \in Owners!Entries(OwnedApps),
           \A a \in DOMAIN f : Cardinality(f[a].watchers) <= MaxWatchers
    PROVE  LET n == [d EXCEPT !.apps = f]
           IN  Sound(n) /\ n.ready = d.ready /\ n.change = d.change
<1> DEFINE n == [d EXCEPT !.apps = f]
<1>1. /\ n \in Owners!Db /\ n.apps = f /\ n.sites = d.sites /\ n.ready = d.ready
      /\ n.change = d.change
  BY DEF Sound, Owners!Db
<1> HIDE DEF n
<1>2. Sound(n)
  BY <1>1 DEF Sound
<1> QED BY <1>1, <1>2 DEF n

LEMMA SitesSet ==
    ASSUME NEW d, Sound(d), NEW f \in Owners!Entries(Sites),
           \A s \in DOMAIN f : f[s].owner # NoOwner
    PROVE  LET n == [d EXCEPT !.sites = f]
           IN  Sound(n) /\ n.ready = d.ready /\ n.change = d.change
<1> DEFINE n == [d EXCEPT !.sites = f]
<1>1. /\ n \in Owners!Db /\ n.apps = d.apps /\ n.sites = f /\ n.ready = d.ready
      /\ n.change = d.change
  BY DEF Sound, Owners!Db
<1> HIDE DEF n
<1>2. Sound(n)
  BY <1>1 DEF Sound
<1> QED BY <1>1, <1>2 DEF n

LEMMA DomainsSet ==
    ASSUME NEW d, Sound(d), NEW X \in SUBSET MailDomains
    PROVE  LET n == [d EXCEPT !.domains = X]
           IN  Sound(n) /\ n.ready = d.ready /\ n.change = d.change
<1> DEFINE n == [d EXCEPT !.domains = X]
<1>1. /\ n \in Owners!Db /\ n.apps = d.apps /\ n.sites = d.sites /\ n.ready = d.ready
      /\ n.change = d.change
  BY DEF Sound, Owners!Db
<1> HIDE DEF n
<1>2. Sound(n)
  BY <1>1 DEF Sound
<1> QED BY <1>1, <1>2 DEF n

\* The later of two lines wins.
LEMMA LastLine ==
    ASSUME NEW L \in SUBSET DOMAIN OldFile, L # {}
    PROVE  (CHOOSE i \in L : \A j \in L : j <= i) \in L
<1> DEFINE far == {Len(OldFile) - i : i \in L}
<1>1. DOMAIN OldFile = 1 .. Len(OldFile) /\ Len(OldFile) \in Nat
  BY OwnerFacts
<1>2. far \subseteq Nat /\ far # {}
  BY <1>1
<1>3. PICK n \in far : \A m \in far : ~(<<m, n>> \in OpToRel(<, Nat))
  BY <1>2, NatLessThanWellFounded, WFMin
<1> HIDE DEF far
<1>4. ASSUME NEW m \in far PROVE n <= m
  <2>1. n \in Nat /\ m \in Nat
    BY <1>2
  <2>2. ~(m < n)
    BY <1>3, <2>1 DEF OpToRel
  <2> QED BY <2>1, <2>2
<1>5. PICK i \in L : n = Len(OldFile) - i
  BY <1>3 DEF far
<1>6. ASSUME NEW j \in L PROVE j <= i
  <2>1. Len(OldFile) - i <= Len(OldFile) - j
    BY <1>4, <1>5 DEF far
  <2> QED BY <1>1, <2>1
<1> QED BY <1>6

\* What the file says, of the applications and of the sites.
LEMMA FileIs ==
    /\ Owners!parse_owners_file.apps \in Owners!Entries(OwnedApps)
    /\ \A a \in DOMAIN Owners!parse_owners_file.apps :
          Cardinality(Owners!parse_owners_file.apps[a].watchers) <= MaxWatchers
    /\ Owners!parse_owners_file.sites \in Owners!Entries(Sites)
    /\ \A s \in DOMAIN Owners!parse_owners_file.sites :
          Owners!parse_owners_file.sites[s].owner # NoOwner
<1> DEFINE entry(l) == [owner |-> l.owner, watchers |-> l.watchers, covers |-> l.covers]
           last(L) == CHOOSE i \in L : \A j \in L : j <= i
<1>1. ASSUME NEW i \in DOMAIN OldFile
      PROVE  /\ entry(OldFile[i]) \in Owners!Entry
             /\ Cardinality(entry(OldFile[i]).watchers) <= MaxWatchers
             /\ entry(OldFile[i]).owner = OldFile[i].owner
  <2>1. OldFile[i] \in Owners!Line
    BY OwnerFacts
  <2> QED BY <2>1, OwnerFacts DEF Owners!Line, Owners!Entry
<1>2. ASSUME NEW L \in SUBSET DOMAIN OldFile, L # {} PROVE last(L) \in L
  BY <1>2, LastLine
<1> HIDE DEF entry, last
<1>3. ASSUME NEW K, NEW lines \in [K -> SUBSET DOMAIN OldFile], NEW f,
             f = [k \in {x \in K : lines[x] # {}} |-> entry(OldFile[last(lines[k])])]
      PROVE  /\ f \in Owners!Entries(K)
             /\ \A k \in DOMAIN f : \E i \in lines[k] : i \in DOMAIN OldFile /\ f[k] = entry(OldFile[i])
  <2>1. \A k \in K : lines[k] # {} => last(lines[k]) \in lines[k] /\ lines[k] \subseteq DOMAIN OldFile
    BY <1>2
  <2>2. \A k \in DOMAIN f : /\ k \in K /\ last(lines[k]) \in lines[k]
                            /\ f[k] = entry(OldFile[last(lines[k])])
                            /\ last(lines[k]) \in DOMAIN OldFile
    BY <1>3, <2>1
  <2>3. f \in [DOMAIN f -> Owners!Entry] /\ DOMAIN f \subseteq K
    BY <1>1, <1>3, <2>2
  <2> QED BY <2>2, <2>3, EntriesAre
<1> DEFINE A(k) == {i \in DOMAIN OldFile : OldFile[i].app = k /\ Owners!Kept(OldFile[i])}
           S(k) == {i \in DOMAIN OldFile : OldFile[i].app = k /\ Owners!HasOwner(OldFile[i])}
           apps == [k \in {x \in OwnedApps : A(x) # {}} |-> entry(OldFile[last(A(k))])]
           sites == [k \in {x \in Sites : S(x) # {}} |-> entry(OldFile[last(S(k))])]
<1>4. Owners!parse_owners_file = [apps |-> apps, sites |-> sites]
  BY Zenon DEF Owners!parse_owners_file, Owners!Read, entry, last
<1>5. /\ apps \in Owners!Entries(OwnedApps)
      /\ \A a \in DOMAIN apps : Cardinality(apps[a].watchers) <= MaxWatchers
  <2> DEFINE lines == [k \in OwnedApps |-> A(k)]
  <2>1. lines \in [OwnedApps -> SUBSET DOMAIN OldFile] /\ \A k \in OwnedApps : lines[k] = A(k)
    OBVIOUS
  <2> HIDE DEF lines, A
  <2>2. apps = [k \in {x \in OwnedApps : lines[x] # {}} |-> entry(OldFile[last(lines[k])])]
    BY <2>1
  <2> HIDE DEF apps
  <2>3. /\ apps \in Owners!Entries(OwnedApps)
        /\ \A k \in DOMAIN apps : \E i \in lines[k] : i \in DOMAIN OldFile /\ apps[k] = entry(OldFile[i])
    BY <1>3, <2>1, <2>2
  <2> QED BY <1>1, <2>3
<1>6. /\ sites \in Owners!Entries(Sites)
      /\ \A s \in DOMAIN sites : sites[s].owner # NoOwner
  <2> DEFINE lines == [k \in Sites |-> S(k)]
  <2>1. lines \in [Sites -> SUBSET DOMAIN OldFile] /\ \A k \in Sites : lines[k] = S(k)
    OBVIOUS
  <2>5. \A k \in Sites : \A i \in S(k) : OldFile[i].owner # NoOwner
    BY DEF Owners!HasOwner
  <2> HIDE DEF lines, S
  <2>2. sites = [k \in {x \in Sites : lines[x] # {}} |-> entry(OldFile[last(lines[k])])]
    BY <2>1
  <2>3. DOMAIN sites \subseteq Sites
    BY <2>2
  <2> HIDE DEF sites
  <2>4. /\ sites \in Owners!Entries(Sites)
        /\ \A k \in DOMAIN sites : \E i \in lines[k] : i \in DOMAIN OldFile /\ sites[k] = entry(OldFile[i])
    BY <1>3, <2>1, <2>2
  <2> QED BY <1>1, <2>1, <2>3, <2>4, <2>5
<1> QED BY <1>4, <1>5, <1>6

\* What a command makes of the database keeps it sound, ready and at its change.
LEMMA ApplyIs ==
    ASSUME NEW d, Sound(d), NEW c \in Owners!Commands, Owners!Apply(c, d) # Owners!Refused
    PROVE  LET n == Owners!Apply(c, d)
           IN  Sound(n) /\ n.ready = d.ready /\ n.change = d.change
<1> DEFINE n == Owners!Apply(c, d)
<1> SUFFICES Sound(n) /\ n.ready = d.ready /\ n.change = d.change
  OBVIOUS
<1>0. /\ d \in Owners!Db /\ d.apps \in Owners!Entries(OwnedApps) /\ d.sites \in Owners!Entries(Sites)
      /\ DOMAIN d.apps \subseteq OwnedApps /\ d.apps \in [DOMAIN d.apps -> Owners!Entry]
      /\ DOMAIN d.sites \subseteq Sites /\ d.sites \in [DOMAIN d.sites -> Owners!Entry]
      /\ d.domains \subseteq MailDomains
      /\ \A a \in DOMAIN d.apps : Cardinality(d.apps[a].watchers) <= MaxWatchers
      /\ \A s \in DOMAIN d.sites : d.sites[s].owner # NoOwner
  BY DbIs DEF Sound
<1>s. d.apps \in Owners!Entries(OwnedApps) /\ d.sites \in Owners!Entries(Sites)
  BY <1>0
\* An application's entry becomes another.
<1>e. ASSUME NEW a \in OwnedApps, NEW v \in Owners!Entry, Cardinality(v.watchers) <= MaxWatchers,
             n = [d EXCEPT !.apps = Owners!Set(d.apps, a, v)]
      PROVE  Sound(n) /\ n.ready = d.ready /\ n.change = d.change
  <2> DEFINE apps == d.apps
             f == Owners!Set(apps, a, v)
  <2>0. apps \in Owners!Entries(OwnedApps) /\ a \in OwnedApps /\ v \in Owners!Entry
    BY <1>s
  <2> HIDE DEF apps
  <2>4. /\ f \in Owners!Entries(OwnedApps) /\ DOMAIN f = DOMAIN apps \cup {a} /\ f[a] = v
        /\ \A x \in DOMAIN apps : x # a => f[x] = apps[x]
    BY ZenonT(60), <2>0, SetIs
  <2>1. /\ f \in Owners!Entries(OwnedApps) /\ DOMAIN f = DOMAIN d.apps \cup {a} /\ f[a] = v
        /\ \A x \in DOMAIN d.apps : x # a => f[x] = d.apps[x]
    BY <2>4 DEF apps
  <2> HIDE DEF f
  <2>2. \A x \in DOMAIN f : Cardinality(f[x].watchers) <= MaxWatchers
    BY <1>0, <1>e, <2>1
  <2>3. n = [d EXCEPT !.apps = f]
    BY <1>e DEF f, apps
  <2> DEFINE m == [d EXCEPT !.apps = f]
  <2>5. f \in Owners!Entries(OwnedApps)
    BY <2>1
  <2>6. Sound(m) /\ m.ready = d.ready /\ m.change = d.change
    BY <2>2, <2>5, AppsSet
  <2>7. n = m
    BY <2>3
  <2> HIDE DEF m, n
  <2> QED BY <2>6, <2>7
<1>n. ASSUME NEW p \in People
      PROVE  /\ [owner |-> p, watchers |-> {}, covers |-> FALSE] \in Owners!Entry
             /\ [owner |-> p, watchers |-> {}, covers |-> FALSE].owner = p
             /\ [owner |-> p, watchers |-> {}, covers |-> FALSE].watchers = {}
             /\ Cardinality({}) <= MaxWatchers
  BY FS_EmptySet, OwnerFacts DEF Owners!Entry
<1>1. ASSUME NEW a \in OwnedApps, NEW p \in People, c = <<"set", a, p>>
      PROVE  Sound(n) /\ n.ready = d.ready /\ n.change = d.change
  <2>1. n = Owners!SetOwner(d, a, p)
    BY <1>1 DEF Owners!Apply
  <2>2. CASE a \in DOMAIN d.apps
    <3> DEFINE v == [d.apps[a] EXCEPT !.owner = p]
    <3>1. n = [d EXCEPT !.apps = Owners!Set(d.apps, a, v)]
      BY <2>1, <2>2, Zenon DEF Owners!SetOwner
    <3>2. v \in Owners!Entry /\ v.watchers = d.apps[a].watchers
      BY <1>0, <2>2 DEF Owners!Entry
    <3> HIDE DEF v
    <3> QED BY <1>0, <1>e, <2>2, <3>1, <3>2
  <2>3. CASE a \notin DOMAIN d.apps
    <3>1. n = [d EXCEPT !.apps = Owners!Set(d.apps, a, [owner |-> p, watchers |-> {}, covers |-> FALSE])]
      BY <2>1, <2>3, Zenon DEF Owners!SetOwner
    <3> QED BY <1>e, <1>n, <3>1
  <2> QED BY <2>2, <2>3
<1>2. ASSUME NEW a \in OwnedApps, c = <<"rm", a>>
      PROVE  Sound(n) /\ n.ready = d.ready /\ n.change = d.change
  <2> DEFINE f == Owners!Drop(d.apps, {a})
  <2>1. n = Owners!RemoveApp(d, a)
    BY <1>2 DEF Owners!Apply
  <2>2. n = [d EXCEPT !.apps = f]
    BY <2>1, Zenon DEF Owners!RemoveApp
  <2>3. /\ f \in Owners!Entries(OwnedApps) /\ DOMAIN f \subseteq DOMAIN d.apps
        /\ \A x \in DOMAIN f : f[x] = d.apps[x]
    BY <1>s, DropIs
  <2> HIDE DEF f
  <2>4. \A x \in DOMAIN f : Cardinality(f[x].watchers) <= MaxWatchers
    BY <1>0, <2>3
  <2> QED BY <2>2, <2>3, <2>4, AppsSet
\* Another entry's value, at an application that has one.
<1>a. ASSUME NEW a \in DOMAIN d.apps, NEW v \in Owners!Entry, Cardinality(v.watchers) <= MaxWatchers,
             n = [d EXCEPT !.apps = [d.apps EXCEPT ![a] = v]]
      PROVE  Sound(n) /\ n.ready = d.ready /\ n.change = d.change
  <2> DEFINE f == [d.apps EXCEPT ![a] = v]
  <2>1. /\ DOMAIN f = DOMAIN d.apps /\ f[a] = v /\ f \in [DOMAIN d.apps -> Owners!Entry]
        /\ \A x \in DOMAIN d.apps : x # a => f[x] = d.apps[x]
    BY <1>0
  <2>2. n = [d EXCEPT !.apps = f]
    BY <1>a
  <2> HIDE DEF f
  <2>3. f \in Owners!Entries(OwnedApps)
    BY <1>0, <2>1, EntriesAre
  <2>4. \A x \in DOMAIN f : Cardinality(f[x].watchers) <= MaxWatchers
    BY <1>0, <1>a, <2>1
  <2> QED BY <2>2, <2>3, <2>4, AppsSet
<1>3. ASSUME NEW a \in OwnedApps, NEW p \in People, c = <<"watch", a, p>>
      PROVE  Sound(n) /\ n.ready = d.ready /\ n.change = d.change
  <2>1. n = Owners!AddWatcher(d, a, p)
    BY <1>3 DEF Owners!Apply
  <2> DEFINE w == d.apps[a].watchers \cup {p}
             v == [d.apps[a] EXCEPT !.watchers = w]
  <2>2. /\ a \in DOMAIN d.apps /\ Owners!Cardinality(w) <= MaxWatchers
        /\ n = [d EXCEPT !.apps[a].watchers = w]
    BY <2>1, Zenon DEF Owners!AddWatcher
  <2>3. Cardinality(w) <= MaxWatchers
    BY <2>2 DEF Owners!Cardinality, Cardinality
  <2>4. n = [d EXCEPT !.apps = [d.apps EXCEPT ![a] = v]]
    BY <2>2
  <2>5. w \subseteq People
    BY <1>0, <2>2 DEF Owners!Entry
  <2> HIDE DEF w
  <2>6. v \in Owners!Entry /\ v.watchers = w
    BY <1>0, <2>2, <2>5 DEF Owners!Entry
  <2> HIDE DEF v
  <2> QED BY <1>a, <2>2, <2>3, <2>4, <2>6
<1>4. ASSUME NEW a \in OwnedApps, NEW p \in People, c = <<"unwatch", a, p>>
      PROVE  Sound(n) /\ n.ready = d.ready /\ n.change = d.change
  <2>1. n = Owners!RemoveWatcher(d, a, p)
    BY <1>4 DEF Owners!Apply
  <2> DEFINE w == d.apps[a].watchers \ {p}
             v == [d.apps[a] EXCEPT !.watchers = w]
  <2>2. a \in DOMAIN d.apps /\ n = [d EXCEPT !.apps[a].watchers = w]
    BY <2>1, Zenon DEF Owners!RemoveWatcher
  <2>3. d.apps[a].watchers \subseteq People /\ Cardinality(d.apps[a].watchers) <= MaxWatchers
    BY <1>0, <2>2 DEF Owners!Entry
  <2>4. IsFiniteSet(d.apps[a].watchers)
    BY <2>3, OwnerFacts, FS_Subset
  <2>5. /\ Cardinality(w) <= Cardinality(d.apps[a].watchers)
        /\ Cardinality(w) \in Nat /\ Cardinality(d.apps[a].watchers) \in Nat
    BY <2>4, FS_Subset, FS_CardinalityType
  <2>6. Cardinality(w) <= MaxWatchers /\ w \subseteq People
    BY <2>3, <2>5, OwnerFacts
  <2>7. n = [d EXCEPT !.apps = [d.apps EXCEPT ![a] = v]]
    BY <2>2
  <2> HIDE DEF w
  <2>8. v \in Owners!Entry /\ v.watchers = w
    BY <1>0, <2>2, <2>6 DEF Owners!Entry
  <2> HIDE DEF v
  <2> QED BY <1>a, <2>2, <2>6, <2>7, <2>8
<1>5. ASSUME NEW a \in OwnedApps, NEW yes \in BOOLEAN, c = <<"covers", a, yes>>
      PROVE  Sound(n) /\ n.ready = d.ready /\ n.change = d.change
  <2>1. n = Owners!Covers(d, a, yes)
    BY <1>5 DEF Owners!Apply
  <2> DEFINE v == [d.apps[a] EXCEPT !.covers = yes]
  <2>2. a \in DOMAIN d.apps /\ n = [d EXCEPT !.apps[a].covers = yes]
    BY <2>1, Zenon DEF Owners!Covers
  <2>3. n = [d EXCEPT !.apps = [d.apps EXCEPT ![a] = v]]
    BY <2>2
  <2>4. v \in Owners!Entry /\ v.watchers = d.apps[a].watchers
    BY <1>0, <2>2 DEF Owners!Entry
  <2> HIDE DEF v
  <2> QED BY <1>0, <1>a, <2>2, <2>3, <2>4
<1>6. ASSUME NEW s \in Sites, NEW p \in People, c = <<"site", s, p>>
      PROVE  Sound(n) /\ n.ready = d.ready /\ n.change = d.change
  <2> DEFINE v == [owner |-> p, watchers |-> {}, covers |-> FALSE]
             f == Owners!Set(d.sites, s, v)
  <2>1. n = Owners!SetSite(d, s, p)
    BY <1>6 DEF Owners!Apply
  <2>2. n = [d EXCEPT !.sites = f]
    BY <2>1, Zenon DEF Owners!SetSite
  <2>3. v \in Owners!Entry /\ v.owner # NoOwner
    BY <1>n, OwnerFacts
  <2> HIDE DEF v
  <2>4. /\ f \in Owners!Entries(Sites) /\ DOMAIN f = DOMAIN d.sites \cup {s} /\ f[s] = v
        /\ \A x \in DOMAIN d.sites : x # s => f[x] = d.sites[x]
    BY ZenonT(60), <1>s, <2>3, SetIs
  <2> HIDE DEF f
  <2>5. \A x \in DOMAIN f : f[x].owner # NoOwner
    BY <1>0, <2>3, <2>4
  <2> QED BY <2>2, <2>4, <2>5, SitesSet
<1>7. ASSUME NEW s \in Sites, c = <<"rmsite", s>>
      PROVE  Sound(n) /\ n.ready = d.ready /\ n.change = d.change
  <2> DEFINE f == Owners!Drop(d.sites, {s})
  <2>1. n = Owners!RemoveSite(d, s)
    BY <1>7 DEF Owners!Apply
  <2>2. n = [d EXCEPT !.sites = f]
    BY <2>1, Zenon DEF Owners!RemoveSite
  <2>3. /\ f \in Owners!Entries(Sites) /\ DOMAIN f \subseteq DOMAIN d.sites
        /\ \A x \in DOMAIN f : f[x] = d.sites[x]
    BY <1>s, DropIs
  <2> HIDE DEF f
  <2>4. \A x \in DOMAIN f : f[x].owner # NoOwner
    BY <1>0, <2>3
  <2> QED BY <2>2, <2>3, <2>4, SitesSet
<1>8. ASSUME NEW x \in MailDomains, c \in {<<"allow", x>>, <<"disallow", x>>}
      PROVE  Sound(n) /\ n.ready = d.ready /\ n.change = d.change
  <2>1. n \in {Owners!Allow(d, x), Owners!Disallow(d, x)}
    BY <1>8 DEF Owners!Apply
  <2>2. n = [d EXCEPT !.domains = d.domains \cup {x}] \/ n = [d EXCEPT !.domains = d.domains \ {x}]
    BY <2>1, Zenon DEF Owners!Allow, Owners!Disallow
  <2>3. d.domains \cup {x} \in SUBSET MailDomains /\ d.domains \ {x} \in SUBSET MailDomains
    BY <1>0
  <2> QED BY ZenonT(60), <2>2, <2>3, DomainsSet
<1>9. ASSUME NEW replace \in BOOLEAN, NEW X \in SUBSET MailDomains, c = <<"import", replace, X>>
      PROVE  Sound(n) /\ n.ready = d.ready /\ n.change = d.change
  <2> DEFINE file == Owners!parse_owners_file
             D == d.domains \cup X
             apps == [a \in DOMAIN d.apps \cup DOMAIN file.apps |->
                        IF a \in DOMAIN file.apps THEN file.apps[a] ELSE d.apps[a]]
             sites == [s \in DOMAIN d.sites \cup DOMAIN file.sites |->
                        IF s \in DOMAIN file.sites THEN file.sites[s] ELSE d.sites[s]]
  <2>1. n = Owners!Import(d, replace, X)
    BY <1>9 DEF Owners!Apply
  <2>2. \/ n = [d EXCEPT !.apps = file.apps, !.sites = file.sites, !.domains = D]
        \/ n = [d EXCEPT !.apps = apps, !.sites = sites, !.domains = D]
    BY <2>1, Zenon DEF Owners!Import
  <2>3. ASSUME NEW f, f \in Owners!Entries(OwnedApps),
               \A a \in DOMAIN f : Cardinality(f[a].watchers) <= MaxWatchers,
               NEW g, g \in Owners!Entries(Sites), \A s \in DOMAIN g : g[s].owner # NoOwner,
               n = [d EXCEPT !.apps = f, !.sites = g, !.domains = D]
        PROVE  Sound(n) /\ n.ready = d.ready /\ n.change = d.change
    <3>1. D \subseteq MailDomains
      BY <1>0
    <3> HIDE DEF D
    <3>2. /\ n \in Owners!Db /\ n.apps = f /\ n.sites = g /\ n.ready = d.ready
          /\ n.change = d.change
      BY <1>0, <2>3, <3>1 DEF Owners!Db
    <3> HIDE DEF n
    <3> QED BY <2>3, <3>2 DEF Sound
  <2>4. /\ file.apps \in Owners!Entries(OwnedApps) /\ file.sites \in Owners!Entries(Sites)
        /\ \A a \in DOMAIN file.apps : Cardinality(file.apps[a].watchers) <= MaxWatchers
        /\ \A s \in DOMAIN file.sites : file.sites[s].owner # NoOwner
    BY FileIs
  <2> HIDE DEF file
  <2>5. /\ DOMAIN file.apps \subseteq OwnedApps /\ file.apps \in [DOMAIN file.apps -> Owners!Entry]
        /\ DOMAIN file.sites \subseteq Sites /\ file.sites \in [DOMAIN file.sites -> Owners!Entry]
    BY <2>4, EntriesAre
  <2>6. /\ apps \in Owners!Entries(OwnedApps)
        /\ \A a \in DOMAIN apps : Cardinality(apps[a].watchers) <= MaxWatchers
    <3>1. DOMAIN apps \subseteq OwnedApps /\ apps \in [DOMAIN apps -> Owners!Entry]
      BY <1>0, <2>5
    <3>2. \A a \in DOMAIN apps : Cardinality(apps[a].watchers) <= MaxWatchers
      BY <1>0, <2>4
    <3> HIDE DEF apps
    <3> QED BY <3>1, <3>2, EntriesAre
  <2>7. sites \in Owners!Entries(Sites) /\ \A s \in DOMAIN sites : sites[s].owner # NoOwner
    <3>1. DOMAIN sites \subseteq Sites /\ sites \in [DOMAIN sites -> Owners!Entry]
      BY <1>0, <2>5
    <3>2. \A s \in DOMAIN sites : sites[s].owner # NoOwner
      BY <1>0, <2>4
    <3> HIDE DEF sites
    <3> QED BY <3>1, <3>2, EntriesAre
  <2> HIDE DEF apps, sites, D, n
  <2> QED BY <2>2, <2>3, <2>4, <2>6, <2>7
<1>10. ASSUME c \in {<<"init">>, <<"snapshot">>}
       PROVE  Sound(n) /\ n.ready = d.ready /\ n.change = d.change
  <2>1. n = d
    BY <1>10 DEF Owners!Apply
  <2> QED BY <2>1
<1> HIDE DEF n
<1> QED BY <1>1, <1>2, <1>3, <1>4, <1>5, <1>6, <1>7, <1>8, <1>9, <1>10 DEF Owners!Commands

Steps == {"idle", "schema", "lock", "begin", "commit", "rename"}

OwnerTypeInv ==
    /\ db # NoFile => Sound(db)
    /\ snapshot # NoFile => Sound(snapshot)
    /\ flock \in Editors \cup {NoOne} /\ txn \in Editors \cup {NoOne} /\ behind \in BOOLEAN
    /\ editor \in [Editors -> Steps] /\ op \in [Editors -> Owners!Commands \cup {<<"none">>}]
    /\ tmp \in [Editors -> Owners!Db \cup {NoFile}]
    /\ \A p \in Editors : tmp[p] # NoFile => Sound(tmp[p]) /\ editor[p] \in {"commit", "rename"}

\* Where a command is, who has the lock, and what its snapshot is of.
CommandInv ==
    \A p \in Editors :
        /\ editor[p] \in {"begin", "commit", "rename"} => flock = p
        /\ editor[p] = "schema" => /\ db # NoFile /\ ~db.ready /\ op[p] = <<"init">>
                                   /\ \A q \in Editors : editor[q] = "schema" => q = p
        /\ editor[p] \in {"lock", "begin", "commit", "rename"} =>
              db # NoFile /\ db.ready /\ op[p] \in Owners!Commands
        /\ editor[p] = "idle" => op[p] = <<"none">>
        /\ editor[p] = "commit" => tmp[p] # NoFile /\ tmp[p].ready /\ tmp[p].change = db.change + 1
        /\ editor[p] = "rename" => tmp[p] = db

\* The snapshot is of the database as it is, or of an earlier one.
SnapshotInv ==
    /\ db # NoFile /\ ~db.ready => snapshot = NoFile /\ db.change = 0
    /\ snapshot # NoFile => /\ db # NoFile /\ snapshot.change <= db.change
                            /\ snapshot.change = db.change => snapshot = db
    /\ (/\ db # NoFile /\ db.ready /\ ~behind
        /\ \A p \in Editors : editor[p] # "rename" /\ op[p] # <<"init">>) => snapshot = db

\* Each command that has yet to commit may make one change.
Due == {p \in Editors : editor[p] \in {"schema", "lock", "begin", "commit"}}
ChangesInv ==
    /\ db # NoFile => db.change + Cardinality(Due) <= MaxChanges + Cardinality(Editors)
    /\ snapshot # NoFile => snapshot.change <= MaxChanges + Cardinality(Editors)

OwnersInv == OwnerTypeInv /\ CommandInv /\ SnapshotInv /\ ChangesInv

LEMMA NothingApplies ==
    /\ <<"init">> \in Owners!Commands /\ <<"none">> \notin Owners!Commands
    /\ <<"none">> # <<"init">>
    /\ \A d : Owners!Apply(<<"init">>, d) = d
    /\ \A d : Sound(d) => d # Owners!Refused
<1>1. /\ <<"init">> \in Owners!Commands /\ <<"none">> # <<"init">>
      /\ \A d : Owners!Apply(<<"init">>, d) = d
  BY DEF Owners!Commands, Owners!Apply
<1>2. <<"none">> \notin Owners!Commands
  BY DEF Owners!Commands
<1>3. ASSUME NEW d, Sound(d) PROVE d # Owners!Refused
  <2>1. DOMAIN d = {"ready", "change", "apps", "sites", "domains"}
    BY <1>3 DEF Sound, Owners!Db
  <2>2. DOMAIN Owners!Refused = {"refused"}
    BY DEF Owners!Refused
  <2>3. "ready" \in DOMAIN d /\ "ready" \notin DOMAIN Owners!Refused
    BY <2>1, <2>2
  <2> QED BY <2>3
<1> QED BY <1>1, <1>2, <1>3

LEMMA DueIs ==
    /\ IsFiniteSet(Due) /\ Cardinality(Due) \in Nat /\ Cardinality(Editors) \in Nat
    /\ Cardinality(Due) <= Cardinality(Editors)
    /\ \A p \in Due : IsFiniteSet(Due \ {p}) /\ Cardinality(Due \ {p}) = Cardinality(Due) - 1
<1>1. Due \subseteq Editors
  BY DEF Due
<1> HIDE DEF Due
<1>2. IsFiniteSet(Due) /\ Cardinality(Due) <= Cardinality(Editors)
  BY <1>1, OwnerFacts, FS_Subset
<1>3. Cardinality(Due) \in Nat /\ Cardinality(Editors) \in Nat
  BY <1>2, OwnerFacts, FS_CardinalityType
<1>4. \A p \in Due : IsFiniteSet(Due \ {p}) /\ Cardinality(Due \ {p}) = Cardinality(Due) - 1
  BY <1>2, FS_RemoveElement
<1> QED BY <1>2, <1>3, <1>4

LEMMA OwnersInitial == LanesInit => OwnersInv
<1> SUFFICES ASSUME LanesInit PROVE OwnersInv
  OBVIOUS
<1>1. Owners!DbInit
  BY DEF LanesInit
<1> QED BY <1>1 DEF Owners!DbInit, OwnersInv, OwnerTypeInv, CommandInv, SnapshotInv, ChangesInv,
                    Steps

\* A command that ends, of its own or by a kill, with nothing of it committed.
LEMMA CommandEnds ==
    ASSUME OwnersInv, NEW p \in Editors, Owners!End(p), Owners!Release(p),
           UNCHANGED <<db, snapshot>>, txn' \in Editors \cup {NoOne},
           \/ UNCHANGED tmp /\ tmp[p] = NoFile
           \/ tmp' = [tmp EXCEPT ![p] = NoFile],
           behind' \in BOOLEAN,
           behind \/ editor[p] = "rename" \/ op[p] = <<"init">> => behind'
    PROVE  OwnersInv'
<1>0. OwnerTypeInv /\ CommandInv /\ SnapshotInv /\ ChangesInv
  BY DEF OwnersInv
<1>1. /\ editor' \in [Editors -> Steps] /\ editor'[p] = "idle"
      /\ op' \in [Editors -> Owners!Commands \cup {<<"none">>}] /\ op'[p] = <<"none">>
      /\ \A q \in Editors : q # p => editor'[q] = editor[q] /\ op'[q] = op[q]
  BY <1>0 DEF Owners!End, OwnerTypeInv, Steps
<1>2. /\ tmp' \in [Editors -> Owners!Db \cup {NoFile}] /\ tmp'[p] = NoFile
      /\ \A q \in Editors : q # p => tmp'[q] = tmp[q]
  BY <1>0 DEF OwnerTypeInv
<1>3. flock' = IF flock = p THEN NoOne ELSE flock
  BY DEF Owners!Release
<1>4. OwnerTypeInv'
  BY <1>0, <1>1, <1>2, <1>3 DEF OwnerTypeInv
<1>5. CommandInv'
  BY <1>0, <1>1, <1>2, <1>3 DEF CommandInv
<1>6. SnapshotInv'
  BY <1>0, <1>1 DEF SnapshotInv, OwnerTypeInv
<1>7. ChangesInv'
  <2>1. Due' \subseteq Due
    BY <1>1 DEF Due
  <2>2. Cardinality(Due') <= Cardinality(Due) /\ Cardinality(Due') \in Nat
    BY <2>1, DueIs, FS_Subset, FS_CardinalityType
  <2>3. db # NoFile => db.change \in Nat
    BY <1>0, DbIs DEF OwnerTypeInv, Sound
  <2> QED BY <1>0, <2>2, <2>3, DueIs, OwnerFacts DEF ChangesInv
<1> QED BY <1>4, <1>5, <1>6, <1>7 DEF OwnersInv

\* A step of one command, that leaves the database and its snapshot.
LEMMA CommandMoves ==
    ASSUME OwnersInv, NEW p \in Editors, NEW step \in {"lock", "begin", "commit"},
           Owners!Goto(p, step), UNCHANGED <<db, snapshot, behind>>,
           flock' \in Editors \cup {NoOne}, txn' \in Editors \cup {NoOne},
           \A q \in Editors : q # p /\ flock = q => flock' = q,
           step \in {"begin", "commit"} => flock' = p,
           db # NoFile /\ db.ready /\ op'[p] \in Owners!Commands, editor[p] # "rename",
           op[p] = <<"init">> => op'[p] = <<"init">>,
           op' \in [Editors -> Owners!Commands \cup {<<"none">>}],
           \A q \in Editors : q # p => op'[q] = op[q] /\ tmp'[q] = tmp[q],
           tmp' \in [Editors -> Owners!Db \cup {NoFile}],
           tmp'[p] # NoFile => Sound(tmp'[p]) /\ step = "commit",
           step = "commit" => /\ tmp'[p] # NoFile /\ tmp'[p].ready
                              /\ tmp'[p].change = db.change + 1,
           editor[p] = "idle" => db.change < MaxChanges
    PROVE  OwnersInv'
<1>0. OwnerTypeInv /\ CommandInv /\ SnapshotInv /\ ChangesInv
  BY DEF OwnersInv
<1>1. /\ editor' \in [Editors -> Steps] /\ editor'[p] = step
      /\ \A q \in Editors : q # p => editor'[q] = editor[q]
  BY <1>0 DEF Owners!Goto, OwnerTypeInv, Steps
<1>2. OwnerTypeInv'
  BY <1>0, <1>1 DEF OwnerTypeInv
<1>3. CommandInv'
  BY <1>0, <1>1 DEF CommandInv
<1>4. SnapshotInv'
  BY <1>0, <1>1 DEF SnapshotInv
<1>5. db.change \in Nat
  BY <1>0, DbIs DEF OwnerTypeInv, Sound
<1>6. Due' \subseteq Editors /\ IsFiniteSet(Editors)
  BY OwnerFacts DEF Due
<1>7. Cardinality(Due') \in Nat /\ Cardinality(Due') <= Cardinality(Editors)
  BY <1>6, FS_Subset, FS_CardinalityType
<1>8. CASE editor[p] = "idle"
  <2>1. db.change + Cardinality(Due') <= MaxChanges + Cardinality(Editors)
    BY <1>5, <1>7, <1>8, DueIs, OwnerFacts
  <2> QED BY <1>0, <1>2, <1>3, <1>4, <2>1 DEF ChangesInv, OwnersInv
<1>9. CASE editor[p] # "idle"
  <2>1. editor[p] \in {"schema", "lock", "begin", "commit"}
    BY <1>0, <1>9 DEF OwnerTypeInv, Steps
  <2>2. Due' = Due
    BY <1>1, <2>1 DEF Due
  <2>3. ChangesInv'
    BY <1>0, <2>2 DEF ChangesInv
  <2> QED BY <1>2, <1>3, <1>4, <2>3 DEF OwnersInv
<1> QED BY <1>8, <1>9

LEMMA OwnersStep == OwnersInv /\ [Owners!DbNext]_(Owners!dbVars) => OwnersInv'
<1> SUFFICES ASSUME OwnersInv, [Owners!DbNext]_(Owners!dbVars) PROVE OwnersInv'
  OBVIOUS
<1>0. OwnerTypeInv /\ CommandInv /\ SnapshotInv /\ ChangesInv
  BY DEF OwnersInv
<1>t. /\ db # NoFile => Sound(db) /\ db \in Owners!Db /\ db.change \in Nat
      /\ snapshot # NoFile => Sound(snapshot) /\ snapshot.change \in Nat
      /\ flock \in Editors \cup {NoOne} /\ txn \in Editors \cup {NoOne} /\ behind \in BOOLEAN
      /\ editor \in [Editors -> Steps] /\ op \in [Editors -> Owners!Commands \cup {<<"none">>}]
      /\ tmp \in [Editors -> Owners!Db \cup {NoFile}]
      /\ \A p \in Editors : tmp[p] # NoFile => Sound(tmp[p]) /\ editor[p] \in {"commit", "rename"}
  <2>1. OwnerTypeInv
    BY <1>0
  <2>2. \A d : Sound(d) => d \in Owners!Db /\ d.change \in Nat
    BY DbIs DEF Sound
  <2> QED BY <2>1, <2>2 DEF OwnerTypeInv
<1>1. ASSUME NEW p \in Editors, Owners!CreateDb(p) PROVE OwnersInv'
  <2> DEFINE new == [ready |-> FALSE, change |-> 0, apps |-> <<>>, sites |-> <<>>, domains |-> {}]
  <2>1. /\ editor[p] = "idle" /\ db = NoFile /\ db' = new /\ UNCHANGED <<snapshot, flock, txn, tmp, behind>>
        /\ editor' = [editor EXCEPT ![p] = "schema"] /\ op' = [op EXCEPT ![p] = <<"init">>]
    BY <1>1 DEF Owners!CreateDb, Owners!At, Owners!Goto
  <2>2. Sound(new) /\ new.change = 0 /\ new.ready = FALSE
    <3>1. <<>> \in Owners!Entries(OwnedApps) /\ <<>> \in Owners!Entries(Sites)
      <4>1. DOMAIN <<>> = {} /\ <<>> \in [DOMAIN <<>> -> Owners!Entry]
        BY EmptyIs, EntriesAre
      <4> QED BY <4>1, EntriesAre
    <3> QED BY <3>1, EmptyIs DEF Sound, Owners!Db
  <2> HIDE DEF new
  <2>3. db' # NoFile
    BY <2>1, <2>2, OwnerFacts DEF Sound
  <2>4. /\ editor' \in [Editors -> Steps] /\ editor'[p] = "schema"
        /\ op' \in [Editors -> Owners!Commands \cup {<<"none">>}] /\ op'[p] = <<"init">>
        /\ \A q \in Editors : q # p => editor'[q] = editor[q] /\ op'[q] = op[q]
    BY <1>t, <2>1, NothingApplies DEF Steps
  <2>5. \A q \in Editors : editor[q] = "idle"
    BY <1>0, <1>t, <2>1 DEF CommandInv, Steps
  <2>6. snapshot = NoFile
    BY <1>0, <2>1 DEF SnapshotInv
  <2>7. OwnerTypeInv'
    BY <1>t, <2>1, <2>2, <2>4, <2>5 DEF OwnerTypeInv
  <2>8. CommandInv'
    BY <1>0, <2>1, <2>2, <2>3, <2>4, <2>5 DEF CommandInv
  <2>9. SnapshotInv'
    BY <2>1, <2>2, <2>6 DEF SnapshotInv
  <2>10. ChangesInv'
    <3>1. Due' \subseteq Editors /\ IsFiniteSet(Editors)
      BY OwnerFacts DEF Due
    <3>2. Cardinality(Due') \in Nat /\ Cardinality(Due') <= Cardinality(Editors)
      BY <3>1, FS_Subset, FS_CardinalityType
    <3> QED BY <2>1, <2>2, <2>6, <3>2, DueIs, OwnerFacts DEF ChangesInv
  <2> QED BY <2>7, <2>8, <2>9, <2>10 DEF OwnersInv
<1>2. ASSUME NEW p \in Editors, Owners!CreateTables(p) PROVE OwnersInv'
  <2>1. /\ editor[p] = "schema" /\ db' = [db EXCEPT !.ready = TRUE]
        /\ editor' = [editor EXCEPT ![p] = "lock"]
        /\ UNCHANGED <<snapshot, flock, txn, op, tmp, behind>>
    BY <1>2 DEF Owners!CreateTables, Owners!At, Owners!Goto
  <2>2. /\ db # NoFile /\ ~db.ready /\ op[p] = <<"init">> /\ snapshot = NoFile
        /\ \A q \in Editors : editor[q] \in {"idle", "schema"} /\ (editor[q] = "schema" => q = p)
    BY <1>0, <1>t, <2>1 DEF CommandInv, SnapshotInv, Steps
  <2>3. db' \in Owners!Db /\ db'.change = db.change /\ db'.ready /\ db'.apps = db.apps /\ db'.sites = db.sites
    BY <1>t, <2>1, <2>2 DEF Owners!Db
  <2>4. Sound(db') /\ db' # NoFile
    BY <1>t, <2>2, <2>3, OwnerFacts DEF Sound
  <2>5. /\ editor' \in [Editors -> Steps] /\ editor'[p] = "lock"
        /\ \A q \in Editors : q # p => editor'[q] = editor[q]
    BY <1>t, <2>1 DEF Steps
  <2>6. OwnerTypeInv'
    BY <1>t, <2>1, <2>2, <2>4, <2>5 DEF OwnerTypeInv
  <2>7. CommandInv'
    BY <1>0, <2>1, <2>2, <2>3, <2>4, <2>5, NothingApplies DEF CommandInv
  <2>8. SnapshotInv'
    BY <2>1, <2>2, <2>3, <2>5 DEF SnapshotInv
  <2>9. Due' = Due
    BY <2>1, <2>5 DEF Due
  <2>10. ChangesInv'
    BY <1>0, <2>1, <2>2, <2>3, <2>9 DEF ChangesInv
  <2> QED BY <2>6, <2>7, <2>8, <2>10 DEF OwnersInv
<1>3. ASSUME NEW p \in Editors, Owners!Call(p) PROVE OwnersInv'
  <2>1. /\ editor[p] = "idle" /\ db # NoFile /\ db.ready /\ db.change < MaxChanges
        /\ Owners!Goto(p, "lock") /\ UNCHANGED <<db, snapshot, flock, txn, tmp, behind>>
    BY <1>3 DEF Owners!Call, Owners!At
  <2>2. PICK c \in Owners!Commands : c # <<"init">> /\ op' = [op EXCEPT ![p] = c]
    BY <1>3 DEF Owners!Call
  <2>3. /\ op' \in [Editors -> Owners!Commands \cup {<<"none">>}] /\ op'[p] = c
        /\ \A q \in Editors : q # p => op'[q] = op[q]
    BY <1>t, <2>2
  <2>4. op[p] # <<"init">> /\ tmp[p] = NoFile
    BY <1>0, <1>t, <2>1, NothingApplies DEF CommandInv
  <2> QED BY <1>t, <2>1, <2>2, <2>3, <2>4, CommandMoves
<1>4. ASSUME NEW p \in Editors, Owners!TakeLock(p) PROVE OwnersInv'
  <2>1. /\ editor[p] = "lock" /\ flock = NoOne /\ flock' = p /\ Owners!Goto(p, "begin")
        /\ UNCHANGED <<db, snapshot, txn, op, tmp, behind>>
    BY <1>4 DEF Owners!TakeLock, Owners!At
  <2>2. db # NoFile /\ db.ready /\ op[p] \in Owners!Commands /\ tmp[p] = NoFile
    BY <1>0, <1>t, <2>1 DEF CommandInv
  <2> QED BY <1>t, <2>1, <2>2, OwnerFacts, CommandMoves
<1>5. ASSUME NEW p \in Editors, Owners!Change(p) PROVE OwnersInv'
  <2> DEFINE new == Owners!Apply(op[p], db)
  <2>1. /\ editor[p] = "begin" /\ UNCHANGED <<db, snapshot, behind>>
        /\ IF new = Owners!Refused
           THEN Owners!End(p) /\ Owners!Release(p) /\ UNCHANGED <<txn, tmp>>
           ELSE /\ tmp' = [tmp EXCEPT ![p] = [new EXCEPT !.change = @ + 1]]
                /\ txn' = p /\ Owners!Goto(p, "commit") /\ UNCHANGED <<flock, op>>
    BY <1>5, Zenon DEF Owners!Change, Owners!At
  <2>2. db # NoFile /\ db.ready /\ op[p] \in Owners!Commands /\ tmp[p] = NoFile /\ flock = p
    BY <1>0, <1>t, <2>1 DEF CommandInv
  <2>3. CASE new = Owners!Refused
    <3>1. op[p] # <<"init">>
      BY <1>t, <2>2, <2>3, NothingApplies
    <3> HIDE DEF new
    <3> QED BY <1>t, <2>1, <2>2, <2>3, <3>1, CommandEnds
  <2>4. CASE new # Owners!Refused
    <3>1. Sound(new) /\ new.ready = db.ready /\ new.change = db.change
      BY <1>t, <2>2, <2>4, ApplyIs
    <3> DEFINE made == [new EXCEPT !.change = db.change + 1]
    <3>2. tmp' = [tmp EXCEPT ![p] = made]
      BY <2>1, <2>4, <3>1
    <3> HIDE DEF new
    <3>3. /\ made \in Owners!Db /\ made.change = db.change + 1 /\ made.ready = new.ready
          /\ made.apps = new.apps /\ made.sites = new.sites
      <4>1. db \in Owners!Db /\ new \in Owners!Db /\ new.change = db.change
        BY <1>t, <2>2, <3>1 DEF Sound
      <4>2. db.change + 1 \in Nat
        BY <4>1, DbIs
      <4> QED BY <4>1, <4>2, CountedIs
    <3> HIDE DEF made
    <3>4. Sound(made) /\ made # NoFile /\ made.ready
      BY <2>2, <3>1, <3>3, OwnerFacts DEF Sound
    <3>5. /\ tmp' \in [Editors -> Owners!Db \cup {NoFile}] /\ tmp'[p] = made
          /\ \A q \in Editors : q # p => tmp'[q] = tmp[q]
      BY <1>t, <3>2, <3>3
    <3>6. txn' = p /\ Owners!Goto(p, "commit") /\ UNCHANGED <<flock, op>>
      BY <2>1, <2>4
    <3> QED BY <1>t, <2>1, <2>2, <3>3, <3>4, <3>5, <3>6, CommandMoves
  <2> QED BY <2>3, <2>4
<1>6. ASSUME NEW p \in Editors, Owners!Commit(p) PROVE OwnersInv'
  <2>1. editor[p] = "commit" /\ txn' = NoOne /\ UNCHANGED snapshot
    BY <1>6 DEF Owners!Commit, Owners!At
  <2>2. /\ db # NoFile /\ db.ready /\ flock = p /\ op[p] \in Owners!Commands
        /\ tmp[p] # NoFile /\ tmp[p].ready /\ tmp[p].change = db.change + 1 /\ Sound(tmp[p])
    BY <1>0, <1>t, <2>1 DEF CommandInv
  <2>3. CASE db' = tmp[p] /\ Owners!Goto(p, "rename") /\ UNCHANGED <<flock, op, tmp, behind>>
    <3>1. /\ editor' \in [Editors -> Steps] /\ editor'[p] = "rename"
          /\ \A q \in Editors : q # p => editor'[q] = editor[q]
      BY <1>t, <2>3 DEF Owners!Goto, Steps
    <3>2. \A q \in Editors : q # p => editor[q] \in {"idle", "lock"}
      BY <1>0, <1>t, <2>1, <2>2 DEF CommandInv, Steps
    <3>3. OwnerTypeInv'
      BY <1>t, <2>1, <2>2, <2>3, <3>1 DEF OwnerTypeInv
    <3>4. CommandInv'
      BY <1>0, <2>1, <2>2, <2>3, <3>1, <3>2 DEF CommandInv
    <3>5. SnapshotInv'
      <4>1. snapshot # NoFile => snapshot.change <= db'.change /\ snapshot.change # db'.change
        BY <1>0, <1>t, <2>2, <2>3 DEF SnapshotInv
      <4> QED BY <2>1, <2>2, <2>3, <3>1, <4>1 DEF SnapshotInv
    <3>6. ChangesInv'
      <4>1. Due' = Due \ {p} /\ p \in Due
        BY <2>1, <3>1 DEF Due
      <4>2. Cardinality(Due') = Cardinality(Due) - 1
        BY <4>1, DueIs
      <4>3. db'.change + Cardinality(Due') <= MaxChanges + Cardinality(Editors)
        BY <1>0, <1>t, <2>2, <2>3, <4>2, DueIs, OwnerFacts DEF ChangesInv
      <4> QED BY <1>0, <2>1, <4>3 DEF ChangesInv
    <3> QED BY <3>3, <3>4, <3>5, <3>6 DEF OwnersInv
  <2>4. CASE /\ UNCHANGED db /\ Owners!End(p) /\ Owners!Release(p)
             /\ tmp' = [tmp EXCEPT ![p] = NoFile]
             /\ behind' = (behind \/ op[p] = <<"init">>)
    BY <1>t, <2>1, <2>4, CommandEnds
  <2> QED BY <1>6, <2>3, <2>4 DEF Owners!Commit
<1>7. ASSUME NEW p \in Editors, Owners!Rename(p) PROVE OwnersInv'
  <2>1. /\ editor[p] = "rename" /\ Owners!End(p) /\ Owners!Release(p)
        /\ tmp' = [tmp EXCEPT ![p] = NoFile] /\ UNCHANGED <<db, txn>>
    BY <1>7 DEF Owners!Rename, Owners!At
  <2>2. db # NoFile /\ db.ready /\ flock = p /\ tmp[p] = db
    BY <1>0, <2>1 DEF CommandInv
  <2>3. CASE UNCHANGED snapshot /\ behind' = TRUE
    BY <1>t, <2>1, <2>3, CommandEnds
  <2>4. CASE snapshot' = tmp[p] /\ behind' = FALSE
    <3>1. /\ editor' \in [Editors -> Steps] /\ editor'[p] = "idle"
          /\ op' \in [Editors -> Owners!Commands \cup {<<"none">>}] /\ op'[p] = <<"none">>
          /\ tmp' \in [Editors -> Owners!Db \cup {NoFile}] /\ tmp'[p] = NoFile
          /\ \A q \in Editors : q # p => /\ editor'[q] = editor[q] /\ op'[q] = op[q]
                                         /\ tmp'[q] = tmp[q]
      BY <1>t, <2>1 DEF Owners!End, Steps
    <3>2. flock' = NoOne
      BY <2>1, <2>2 DEF Owners!Release
    <3>3. OwnerTypeInv'
      BY <1>t, <2>1, <2>2, <2>4, <3>1, <3>2 DEF OwnerTypeInv
    <3>4. CommandInv'
      BY <1>0, <2>1, <2>2, <3>1, <3>2 DEF CommandInv
    <3>5. SnapshotInv'
      BY <1>t, <2>1, <2>2, <2>4 DEF SnapshotInv
    <3>6. ChangesInv'
      <4>1. Due' = Due
        BY <2>1, <3>1 DEF Due
      <4> QED BY <1>0, <1>t, <2>1, <2>2, <2>4, <4>1, DueIs, OwnerFacts DEF ChangesInv
    <3> QED BY <3>3, <3>4, <3>5, <3>6 DEF OwnersInv
  <2> QED BY <1>7, <2>3, <2>4 DEF Owners!Rename
<1>8. ASSUME NEW p \in Editors, Owners!Kill(p) PROVE OwnersInv'
  <2>1. /\ Owners!End(p) /\ Owners!Release(p) /\ UNCHANGED <<db, snapshot>>
        /\ txn' = IF txn = p THEN NoOne ELSE txn
        /\ tmp' = [tmp EXCEPT ![p] = NoFile]
        /\ behind' = (behind \/ editor[p] = "rename" \/ op[p] = <<"init">>)
    BY <1>8 DEF Owners!Kill, Owners!At
  <2>2. behind' \in BOOLEAN /\ (behind \/ editor[p] = "rename" \/ op[p] = <<"init">> => behind')
    BY <2>1
  <2>3. txn' \in Editors \cup {NoOne}
    BY <1>t, <2>1
  <2> QED BY <2>1, <2>2, <2>3, CommandEnds
<1>9. CASE Owners!RemoveHalfMade
  <2>1. /\ db # NoFile /\ ~db.ready /\ db' = NoFile /\ behind' = FALSE
        /\ \A p \in Editors : editor[p] = "idle"
        /\ UNCHANGED <<snapshot, flock, txn, editor, op, tmp>>
    BY <1>9 DEF Owners!RemoveHalfMade, Owners!At
  <2>2. snapshot = NoFile
    BY <1>0, <2>1 DEF SnapshotInv
  <2>3. OwnerTypeInv'
    BY <1>t, <2>1 DEF OwnerTypeInv
  <2>4. CommandInv'
    BY <1>0, <2>1 DEF CommandInv
  <2>5. SnapshotInv' /\ ChangesInv'
    BY <2>1, <2>2 DEF SnapshotInv, ChangesInv
  <2> QED BY <2>3, <2>4, <2>5 DEF OwnersInv
<1>10. CASE UNCHANGED Owners!dbVars
  BY <1>10, <1>0 DEF Owners!dbVars, OwnersInv, OwnerTypeInv, CommandInv, SnapshotInv, ChangesInv, Due
<1>11. ASSUME NEW p \in Editors, Owners!ReadDb(p) PROVE OwnersInv'
  BY <1>10, <1>11 DEF Owners!ReadDb
<1> QED BY <1>1, <1>2, <1>3, <1>4, <1>5, <1>6, <1>7, <1>8, <1>9, <1>10, <1>11
        DEF Owners!DbNext, Owners!Work

LEMMA OwnersInvHolds == LanesSpec => []OwnersInv
<1>1. OwnersInv /\ [LanesNext]_lanesVars => OwnersInv'
  BY OwnerSteps, OwnersStep
<1> QED BY <1>1, OwnersInitial, PTL DEF LanesSpec

\* The lanes read what the last change came to, but between a commit and its
\* rename, or after one that ended there (fleet-owners, change).
THEOREM SnapshotFollowsHolds == LanesSpec => []SnapshotFollows
<1>1. OwnersInv => SnapshotFollows
  <2> SUFFICES ASSUME OwnersInv, db # NoFile PROVE Owners!SnapshotFollows
    BY DEF SnapshotFollows, Owners!SnapshotFollows
  <2>1. SnapshotInv /\ (snapshot # NoFile /\ snapshot.change = db.change => snapshot = db)
    BY DEF OwnersInv, SnapshotInv
  <2>2. db.ready /\ ~behind /\ (\A p \in Editors : editor[p] # "rename" /\ op[p] # <<"init">>)
          => Owners!LoadConfiguredOwners = db
    BY <2>1 DEF SnapshotInv, Owners!LoadConfiguredOwners
  <2> QED BY <2>1, <2>2 DEF Owners!SnapshotFollows
<1> QED BY <1>1, OwnersInvHolds, PTL

-----------------------------------------------------------------------------
(* The components whose proofs are of their module alone.                  *)

LimiterP == INSTANCE QualysLimiterProofs
LockdownP == INSTANCE DomainsTicketProofs WITH JiraFails <- CallsFail, Kills <- Crashes
PolicyP == INSTANCE MailPolicyProofs

-----------------------------------------------------------------------------
(* The calls of Qualys.                                                    *)

LEMMA LimiterIs ==
    /\ Limiter!LimiterAssumption <=> LimiterP!LimiterAssumption
    /\ Limiter!LimiterInit <=> LimiterP!LimiterInit
    /\ Limiter!LimiterNext <=> LimiterP!LimiterNext
    /\ Limiter!LimiterTypeOK <=> LimiterP!LimiterTypeOK
    /\ Limiter!ReserveKept <=> LimiterP!ReserveKept
    /\ Limiter!WaitBounded <=> LimiterP!WaitBounded
BY DEF Limiter!LimiterAssumption, LimiterP!LimiterAssumption, Limiter!limiterVars,
       LimiterP!limiterVars, Limiter!Waits, LimiterP!Waits, Limiter!NotSaid, LimiterP!NotSaid,
       Limiter!NothingSeen, LimiterP!NothingSeen, Limiter!NoCall, LimiterP!NoCall, Limiter!Ends,
       LimiterP!Ends, Limiter!Forget, LimiterP!Forget, Limiter!BeginCall, LimiterP!BeginCall,
       Limiter!Announced, LimiterP!Announced, Limiter!MaySpend, LimiterP!MaySpend, Limiter!Go,
       LimiterP!Go, Limiter!NothingKnown, LimiterP!NothingKnown, Limiter!Allowed, LimiterP!Allowed,
       Limiter!GivesWay, LimiterP!GivesWay, Limiter!WaitsFirst, LimiterP!WaitsFirst,
       Limiter!Resumes, LimiterP!Resumes, Limiter!GivesUp, LimiterP!GivesUp, Limiter!CannotResend,
       LimiterP!CannotResend, Limiter!Read, LimiterP!Read, Limiter!Spend, LimiterP!Spend,
       Limiter!Served, LimiterP!Served, Limiter!Says, LimiterP!Says,
       Limiter!SaysNothing, LimiterP!SaysNothing, Limiter!Unanswered, LimiterP!Unanswered, Limiter!Retries,
       LimiterP!Retries, Limiter!Refused, LimiterP!Refused, Limiter!OtherLanes,
       LimiterP!OtherLanes, Limiter!NewWindow, LimiterP!NewWindow, Limiter!LimiterInit,
       LimiterP!LimiterInit, Limiter!LimiterNext, LimiterP!LimiterNext, Limiter!LimiterTypeOK,
       LimiterP!LimiterTypeOK, Limiter!ReserveKept, LimiterP!ReserveKept, Limiter!WaitBounded,
       LimiterP!WaitBounded

LEMMA LimiterRuns == LanesSpec => LimiterP!LimiterSpec
<1>1. LanesInit => LimiterP!LimiterInit
  BY LimiterIs DEF LanesInit
<1>2. [LanesNext]_lanesVars => [LimiterP!LimiterNext]_(LimiterP!limiterVars)
  BY LimiterIs DEF LanesNext, lanesVars, weeklyVars, dailyVars, limiterVars,
       LimiterP!limiterVars, Appscan,
       DomainsActions, WeeklySurvey, QualysCalls, Synopses, SharedMailbox, WeeklyReport,
       OwnersMail, Digests, MessageBoard, Mailers, OwnersOnFile, ScannerCache
<1> QED BY <1>1, <1>2, PTL DEF LanesSpec, LimiterP!LimiterSpec

LEMMA LimiterTypesHold == LanesSpec => []Limiter!LimiterTypeOK
<1>1. LimiterP!LimiterAssumption
  BY LanesAssumption, LimiterIs
<1>2. LimiterP!LimiterSpec => []LimiterP!LimiterTypeOK
  BY <1>1, LimiterP!LimiterTypes
<1>3. LimiterP!LimiterTypeOK => Limiter!LimiterTypeOK
  BY LimiterIs
<1> QED BY <1>2, <1>3, LimiterRuns, PTL

\* Whatever the subscription announces and whichever answers are lost, a run
\* spends one call of a window past the reserve, and one more for each answer
\* that told it nothing (limiter.go, Reserve).
THEOREM ReserveKeptHolds == LanesSpec => []ReserveKept
<1>1. LimiterP!LimiterAssumption
  BY LanesAssumption, LimiterIs
<1>2. LimiterP!LimiterSpec => []LimiterP!ReserveKept
  BY <1>1, LimiterP!ReserveIsKept
<1>3. LimiterP!ReserveKept => ReserveKept
  BY LimiterIs DEF ReserveKept
<1> QED BY <1>2, <1>3, LimiterRuns, PTL

\* The longest one call can spend waiting, whatever it is answered (limiter.go,
\* WaitBudget).
THEOREM WaitBoundedHolds == LanesSpec => []WaitBounded
<1>1. LimiterP!LimiterAssumption
  BY LanesAssumption, LimiterIs
<1>2. LimiterP!LimiterSpec => []LimiterP!WaitBounded
  BY <1>1, LimiterP!WaitIsBounded
<1>3. LimiterP!WaitBounded => WaitBounded
  BY LimiterIs DEF WaitBounded
<1> QED BY <1>2, <1>3, LimiterRuns, PTL

-----------------------------------------------------------------------------
(* The lock-down ticket.                                                   *)

LEMMA LockdownIs ==
    /\ Lockdown!LockdownAssumption <=> LockdownP!LockdownAssumption
    /\ Lockdown!LockdownInit <=> LockdownP!LockdownInit
    /\ Lockdown!LockdownNext <=> LockdownP!LockdownNext
    /\ Lockdown!LockdownTypeOK <=> LockdownP!LockdownTypeOK
    /\ Lockdown!OneLockdownTicket <=> LockdownP!OneLockdownTicket
BY DEF Lockdown!lockdownVars, LockdownP!lockdownVars, Lockdown!Lists, LockdownP!Lists,
       Lockdown!DomainsState, LockdownP!DomainsState, Lockdown!ZeroState, LockdownP!ZeroState,
       Lockdown!LockdownAssumption, LockdownP!LockdownAssumption, Lockdown!Lockdown,
       LockdownP!Lockdown, Lockdown!NotFiling, LockdownP!NotFiling, Lockdown!Ids, LockdownP!Ids,
       Lockdown!Open, LockdownP!Open, Lockdown!Newest, LockdownP!Newest, Lockdown!Actions,
       LockdownP!Actions, Lockdown!ActionsFile, LockdownP!ActionsFile, Lockdown!planDomains,
       LockdownP!planDomains, Lockdown!JiraUnchanged, LockdownP!JiraUnchanged, Lockdown!Ends,
       LockdownP!Ends, Lockdown!SearchLockdown, LockdownP!SearchLockdown,
       Lockdown!GetLockdownProperty, LockdownP!GetLockdownProperty, Lockdown!CallFails,
       LockdownP!CallFails, Lockdown!Plan, LockdownP!Plan, Lockdown!CreateLockdown,
       LockdownP!CreateLockdown, Lockdown!CommentLockdown, LockdownP!CommentLockdown,
       Lockdown!RecordLockdown, LockdownP!RecordLockdown, Lockdown!RecordFails,
       LockdownP!RecordFails, Lockdown!Killed, LockdownP!Killed, Lockdown!MoveLockdown,
       LockdownP!MoveLockdown, Lockdown!LockdownInit, LockdownP!LockdownInit,
       Lockdown!LockdownNext, LockdownP!LockdownNext, Lockdown!LockdownTypeOK,
       LockdownP!LockdownTypeOK, Lockdown!OneLockdownTicket, LockdownP!OneLockdownTicket,
       Lockdown!RecordedFor, LockdownP!RecordedFor, Lockdown!IsFiniteSet, LockdownP!IsFiniteSet,
       Lockdown!Cardinality, LockdownP!Cardinality

LEMMA LockdownSaysThe ==
    /\ Lockdown!LockdownStanding!SayingsAssumption
         <=> LockdownP!LockdownStanding!SayingsAssumption
    /\ Lockdown!LockdownStanding!Init <=> LockdownP!LockdownStanding!Init
    /\ [Lockdown!LockdownStanding!Next]_(Lockdown!LockdownStanding!vars)
         <=> [LockdownP!LockdownStanding!Next]_(LockdownP!LockdownStanding!vars)
BY DEF Lockdown!LockdownStanding!SayingsAssumption, LockdownP!LockdownStanding!SayingsAssumption,
       Lockdown!LockdownStanding!vars, LockdownP!LockdownStanding!vars,
       Lockdown!LockdownStanding!Init, LockdownP!LockdownStanding!Init,
       Lockdown!LockdownStanding!File, LockdownP!LockdownStanding!File,
       Lockdown!LockdownStanding!Say, LockdownP!LockdownStanding!Say,
       Lockdown!LockdownStanding!Record, LockdownP!LockdownStanding!Record,
       Lockdown!LockdownStanding!Next, LockdownP!LockdownStanding!Next, Lockdown!Lists,
       LockdownP!Lists, Lockdown!RecordedFor, LockdownP!RecordedFor, Lockdown!Ids, LockdownP!Ids

LEMMA LockdownRuns == LanesSpec => LockdownP!LockdownSpec
<1>1. LanesInit => LockdownP!LockdownInit
  BY LockdownIs DEF LanesInit
<1>2. [LanesNext]_lanesVars => [LockdownP!LockdownNext]_(LockdownP!lockdownVars)
  BY LockdownIs DEF LanesNext, lanesVars, weeklyVars, dailyVars, ticketVars,
       LockdownP!lockdownVars, Appscan,
       DomainsActions, WeeklySurvey, QualysCalls, Synopses, SharedMailbox, WeeklyReport,
       OwnersMail, Digests, MessageBoard, Mailers, OwnersOnFile, ScannerCache
<1> QED BY <1>1, <1>2, PTL DEF LanesSpec, LockdownP!LockdownSpec

LEMMA LockdownTypesHold == LanesSpec => []Lockdown!LockdownTypeOK
<1>1. LockdownP!LockdownAssumption
  BY LanesAssumption, LockdownIs
<1>2. LockdownP!LockdownSpec => []LockdownP!LockdownTypeOK
  BY <1>1, LockdownP!DomainsTicketTypes
<1>3. LockdownP!LockdownTypeOK => Lockdown!LockdownTypeOK
  BY LockdownIs
<1> QED BY <1>2, <1>3, LockdownRuns, PTL

\* The lock-down ticket does what StandingTicket promises: it is told a list only
\* when it is not the one its readers have, and once that nothing is left
\* (domains.go).
THEOREM LockdownTellsNewsLanes == LanesSpec => LockdownTellsNews
<1>1. LockdownP!LockdownAssumption /\ LockdownP!LockdownStanding!SayingsAssumption
  BY LanesAssumption, LockdownIs, LockdownSaysThe
<1>2. LockdownP!LockdownSpec => LockdownP!LockdownTellsNews
  BY <1>1, LockdownP!LockdownTellsNewsHolds
<1>3. LockdownP!LockdownStanding!Init => Lockdown!LockdownStanding!Init
  BY LockdownSaysThe
<1>4. [LockdownP!LockdownStanding!Next]_(LockdownP!LockdownStanding!vars)
        => [Lockdown!LockdownStanding!Next]_(Lockdown!LockdownStanding!vars)
  BY LockdownSaysThe
<1> QED BY <1>2, <1>3, <1>4, LockdownRuns, PTL DEF LockdownTellsNews,
           Lockdown!LockdownTellsNews, LockdownP!LockdownTellsNews,
           Lockdown!LockdownStanding!Spec, LockdownP!LockdownStanding!Spec

LEMMA FinishedTicketIsTrue ==
    ASSUME ~LookupsFail, Finished # {}
    PROVE  LanesSpec => Lockdown!FinishedIsTrue
<1>1. LockdownP!LockdownAssumption
  BY LanesAssumption, LockdownIs
<1>2. Finished \notin LockdownP!Lists
  BY LanesAssumption DEF Lockdown!LockdownStanding!SayingsAssumption, Lockdown!Lists,
                         LockdownP!Lists
<1>3. LockdownP!LockdownSpec => LockdownP!FinishedIsTrue
  BY <1>1, <1>2, LockdownP!FinishedIsTrueHolds
<1>4. [\A i \in LockdownP!Ids : heard'[i] = Finished /\ heard[i] # Finished
                                    => filing.bad = {}]_(LockdownP!lockdownVars)
        => [\A i \in Lockdown!Ids : heard'[i] = Finished /\ heard[i] # Finished
                                    => filing.bad = {}]_(Lockdown!lockdownVars)
  BY DEF LockdownP!Ids, Lockdown!Ids, LockdownP!lockdownVars, Lockdown!lockdownVars
<1> QED BY <1>3, <1>4, LockdownRuns, PTL DEF Lockdown!FinishedIsTrue, LockdownP!FinishedIsTrue

-----------------------------------------------------------------------------
(* The applications' tickets.                                              *)

LEMMA AppscanRuns == LanesSpec => Spec
<1>1. LanesInit => Init
  BY DEF LanesInit
<1>2. [LanesNext]_lanesVars => [Next]_vars
  BY DEF LanesNext, lanesVars, weeklyVars, dailyVars, Appscan,
       DomainsActions, WeeklySurvey, QualysCalls, Synopses, SharedMailbox, WeeklyReport,
       OwnersMail, Digests, MessageBoard, Mailers, OwnersOnFile, ScannerCache
<1> QED BY <1>1, <1>2, PTL DEF LanesSpec, Spec

\* One ticket of an application, and one lock-down ticket, is open, whatever
\* answer was lost and wherever a run was cut off, but for what a person reopened
\* (appscan.go, domains.go).
THEOREM OneStandingTicketHolds == LanesSpec => []OneStandingTicket
<1>1. LockdownP!LockdownAssumption
  BY LanesAssumption, LockdownIs
<1>2. LockdownP!LockdownSpec => []LockdownP!OneLockdownTicket
  BY <1>1, LockdownP!OneLockdownTicketHolds
<1>3. LockdownP!OneLockdownTicket /\ OneOpenTicket => OneStandingTicket
  BY LockdownIs DEF OneStandingTicket
<1> QED BY <1>2, <1>3, LockdownRuns, AppscanRuns, OneOpenTicketHolds, PTL

\* What an application's ticket is told is news, and what was not recorded may be
\* told again: StandingTicket (tickets.go).
THEOREM TellsNewsLanes == LanesSpec => TellsNews
<1>1. Standing!SayingsAssumption
  BY LanesAssumption
<1>2. Spec => TellsNews
  BY <1>1, TellsNewsHolds
<1> QED BY <1>2, AppscanRuns, PTL

\* A ticket said to be up to date has told its readers the findings, and the
\* report says of a ticket what this run did (appscan.go, run-appscan).
THEOREM ToldAsDoneHolds == LanesSpec => []ToldAsDone
<1>1. UpToDate /\ Weekly!LineIsThisRuns => ToldAsDone
  BY DEF ToldAsDone
<1> QED BY <1>1, AppscanRuns, UpToDateHolds, LineIsThisRunsHolds, PTL

\* What is left of the queue of tickets to close outlives its failures.
THEOREM QueueSurvivesLanes == LanesSpec => []QueueSurvives
BY AppscanRuns, QueueSurvivesHolds, PTL

\* Closed for being gone is only a ticket whose application the list does not name.
THEOREM ClosesOnlyGoneLanes == LanesSpec => ClosesOnlyGone
BY AppscanRuns, ClosesOnlyGoneHolds, PTL

\* Told that nothing is left only when every domain matched its profile, where the
\* lookups answer; and a ticket is judged by the whole list of findings.  Where a
\* lookup may fail the first is not so.
THEOREM FinishedIsTrueLanes ==
    ASSUME ~LookupsFail, Finished # {}
    PROVE  LanesSpec => FinishedIsTrue
<1>1. LanesSpec => Lockdown!FinishedIsTrue
  BY FinishedTicketIsTrue
<1>2. LanesSpec => [][Weekly!ListIsWhole']_reportRunVars
  BY ListIsWholeHolds, PTL
<1> QED BY <1>1, <1>2, PTL DEF FinishedIsTrue

-----------------------------------------------------------------------------
(* Who is mailed.                                                          *)

LEMMA PolicyIs ==
    /\ Policy!PolicyAssumption <=> PolicyP!PolicyAssumption
    /\ Policy!PolicyInit <=> PolicyP!PolicyInit
    /\ Policy!PolicyNext <=> PolicyP!PolicyNext
    /\ Policy!PolicyTypeOK <=> PolicyP!PolicyTypeOK
    /\ Policy!OnlyAllowed <=> PolicyP!OnlyAllowed
BY DEF Policy!mailVars, PolicyP!mailVars, Policy!Refs, PolicyP!Refs, Policy!Tokens, PolicyP!Tokens,
       Policy!Digest, PolicyP!Digest, Policy!BaseKinds, PolicyP!BaseKinds, Policy!PolicyAssumption,
       PolicyP!PolicyAssumption, Policy!Entries, PolicyP!Entries, Policy!Refused, PolicyP!Refused,
       Policy!Granted, PolicyP!Granted, Policy!Valid, PolicyP!Valid, Policy!Operator,
       PolicyP!Operator, Policy!Key, PolicyP!Key, Policy!Pick, PolicyP!Pick, Policy!VMList,
       PolicyP!VMList, Policy!OldList, PolicyP!OldList, Policy!TwoLists, PolicyP!TwoLists,
       Policy!VMAllow, PolicyP!VMAllow, Policy!PyVMAllow, PolicyP!PyVMAllow, Policy!IsSet,
       PolicyP!IsSet, Policy!ListOf, PolicyP!ListOf, Policy!Bad, PolicyP!Bad, Policy!Expand,
       PolicyP!Expand, Policy!Level, PolicyP!Level, Policy!ExpandAllow, PolicyP!ExpandAllow,
       Policy!LaneResolve, PolicyP!LaneResolve, Policy!OwnerDomains, PolicyP!OwnerDomains,
       Policy!OwnerAudience, PolicyP!OwnerAudience, Policy!DigestTo, PolicyP!DigestTo,
       Policy!DigestCC, PolicyP!DigestCC, Policy!Allowed, PolicyP!Allowed, Policy!GoAudience,
       PolicyP!GoAudience, Policy!PyAudience, PolicyP!PyAudience, Policy!Audience,
       PolicyP!Audience, Policy!Requests, PolicyP!Requests, Policy!Send, PolicyP!Send,
       Policy!Delivered, PolicyP!Delivered, Policy!EditSetting, PolicyP!EditSetting,
       Policy!EditOwners, PolicyP!EditOwners, Policy!PolicyInit, PolicyP!PolicyInit,
       Policy!PolicyNext, PolicyP!PolicyNext, Policy!PolicyTypeOK, PolicyP!PolicyTypeOK,
       Policy!Closed, PolicyP!Closed, Policy!Named, PolicyP!Named, Policy!Standing,
       PolicyP!Standing, Policy!OnlyAllowed, PolicyP!OnlyAllowed, Policy!Walk, PolicyP!Walk,
       Policy!Cardinality, PolicyP!Cardinality, Policy!IsFiniteSet, PolicyP!IsFiniteSet

LEMMA PolicyRuns == LanesSpec => PolicyP!PolicySpec
<1>1. LanesInit => PolicyP!PolicyInit
  BY PolicyIs DEF LanesInit
<1>2. [LanesNext]_lanesVars => [PolicyP!PolicyNext]_(PolicyP!mailVars)
  BY PolicyIs DEF LanesNext, lanesVars, weeklyVars, dailyVars, policyVars, PolicyP!mailVars,
       Appscan,
       DomainsActions, WeeklySurvey, QualysCalls, Synopses, SharedMailbox, WeeklyReport,
       OwnersMail, Digests, MessageBoard, Mailers, OwnersOnFile, ScannerCache
<1> QED BY <1>1, <1>2, PTL DEF LanesSpec, PolicyP!PolicySpec

LEMMA PolicyTypesHold == LanesSpec => []Policy!PolicyTypeOK
<1>1. PolicyP!PolicyAssumption
  BY LanesAssumption, PolicyIs
<1>2. PolicyP!PolicySpec => []PolicyP!PolicyTypeOK
  BY <1>1, PolicyP!MailPolicyTypes
<1>3. PolicyP!PolicyTypeOK => Policy!PolicyTypeOK
  BY PolicyIs
<1> QED BY <1>2, <1>3, PolicyRuns, PTL

\* A mail reaches those alone whom the settings in force name for it, whatever a
\* lane's allowlist refers to and however the settings are edited (mailer.py,
\* lane.go, allowref.go).
THEOREM OnlyAllowedLanes == LanesSpec => []OnlyAllowed
<1>1. PolicyP!PolicyAssumption
  BY LanesAssumption, PolicyIs
<1>2. PolicyP!PolicySpec => []PolicyP!OnlyAllowed
  BY <1>1, PolicyP!OnlyAllowedHolds
<1>3. PolicyP!OnlyAllowed => OnlyAllowed
  BY PolicyIs DEF OnlyAllowed
<1> QED BY <1>2, <1>3, PolicyRuns, PTL

-----------------------------------------------------------------------------
(* The other lanes, under the names Lanes has for their properties.        *)

\* A digest, a release's synopsis and an application's report are mailed once,
\* but for the causes their modules name, as long as no synopsis is replayed by
\* hand (was-sent; appowners-sent.json).
THEOREM SentOnceHolds == ASSUME ~Replays PROVE LanesSpec => []SentOnce
<1>1. LanesSpec => []Release!OneSynopsis
  BY OneSynopsisHolds
<1>2. Digest!OneDigest /\ Release!OneSynopsis /\ Reports!MailedOnce => SentOnce
  BY DEF SentOnce
<1> QED BY <1>1, <1>2, OneDigestHolds, MailedOnceHolds, PTL

\* No report of a finished run stays in the scanner unsaid (qualys/report.go), nor
\* on this machine (run-appscan).
THEOREM NoReportStays == LanesSpec => []NoReportLeft
<1>1. Reports!NoReportLeft /\ Weekly!ReportsDeleted => NoReportLeft
  BY DEF NoReportLeft
<1> QED BY <1>1, NoReportLeftHolds, ReportsDeletedHolds, PTL
-----------------------------------------------------------------------------
(* The types of every lane.                                                *)

\* Each lane's type invariant is a part of the invariant its section proves, or
\* follows from it.
LEMMA MailTypes == MailInv => Mail!MailTypeOK
<1> SUFFICES ASSUME MailTypeInv PROVE Mail!MailTypeOK
  BY DEF MailInv
<1>1. mails \in [Mails -> [kind : Mail!Kind, at : Mail!Place, age : 0 .. Mail!Oldest]]
  BY DEF MailTypeInv, MailRecord
<1>2. digestLog \in LogType /\ scanLog \in LogType /\ cleanup.archive \cap cleanup.delete = {}
  BY DEF MailTypeInv
<1>3. /\ digest.pc \in {"idle", "report", "record"} /\ weekly.pc \in {"idle", "send", "commit"}
      /\ cleanup.pc \in {"idle", "list", "move"}
      /\ digest.read \subseteq Mails /\ weekly.read \subseteq Mails
      /\ reported \subseteq Mails /\ covered \subseteq Mails /\ recorded \subseteq Mails
  BY DEF MailTypeInv, DigestRecord, WeeklyRecord, CleanupRecord
<1> QED BY <1>1, <1>2, <1>3 DEF LogType, Mail!MailTypeOK

LEMMA ReportTypes == ReportInv => Reports!ReportTypeOK
<1> SUFFICES ASSUME ReportTypeInv, PlanInv PROVE Reports!ReportTypeOK
  BY DEF ReportInv
<1>1. fetch.todo \cup fetch.got \cup fetch.ready \cup fetch.done \subseteq fetch.plan
  BY DEF PlanInv, ToSend
<1>2. fetch.pc \in {"idle", "next", "wait", "delete", "failed", "send"}
  BY DEF ReportTypeInv, FetchRecord
<1> QED BY <1>1, <1>2 DEF ReportTypeInv, ScanRecord, Reports!ReportTypeOK

LEMMA DigestTypes == DigestTypeInv => Digest!DigestTypeOK
<1> SUFFICES ASSUME DigestTypeInv PROVE Digest!DigestTypeOK
  OBVIOUS
<1>1. ASSUME NEW c \in DigestCVEs
      PROVE  findings[c] = NoRow \/ findings[c].updated \in 0 .. findings[c].first
  <2>1. findings[c] \in Rows \cup {NoRow}
    BY DEF DigestTypeInv
  <2>2. ASSUME findings[c] \in Rows PROVE findings[c].updated \in 0 .. findings[c].first
    BY <2>2, DigestFacts DEF Rows, Digest!Row
  <2> QED BY <2>1, <2>2
<1>2. ASSUME NEW k \in Digest!Kinds
      PROVE  /\ digestRun[k].pc \in {"idle", "read", "ticket", "send", "record"}
             /\ \A f \in digestRun[k].found : f.priority \in Digest!Bands \cup {"stored"}
  <2>1. digestRun[k] \in DigestRunRecord
    BY DEF DigestTypeInv
  <2> QED BY <2>1 DEF DigestRunRecord, Finding
<1>3. kevCache.age \in 0 .. 2 /\ kevCache.cves \subseteq DigestCVEs
  BY DEF DigestTypeInv, Catalog
<1> QED BY <1>1, <1>2, <1>3 DEF DigestTypeInv, Digest!DigestTypeOK

LEMMA BoardTypes == BoardTypeInv => Board!BoardTypeOK
BY DEF BoardTypeInv, Places, Board!BoardTypeOK

\* What a command is about to commit is one of the changes still to come.
LEMMA OwnersTypes == OwnersInv => Owners!DbTypeOK
<1> SUFFICES ASSUME OwnersInv PROVE Owners!DbTypeOK
  OBVIOUS
<1>0. OwnerTypeInv /\ CommandInv /\ SnapshotInv /\ ChangesInv
  BY DEF OwnersInv
<1>1. ASSUME NEW d, Sound(d), d.change <= MaxChanges + Cardinality(Editors)
      PROVE  Owners!IsDb(d)
  BY <1>1 DEF Sound, Owners!IsDb, Owners!Cardinality, Cardinality
<1>2. ASSUME db # NoFile
      PROVE  db.change \in Nat /\ db.change + Cardinality(Due) <= MaxChanges + Cardinality(Editors)
  BY <1>0, <1>2, DbIs DEF OwnerTypeInv, Sound, ChangesInv
<1>3. db # NoFile => Owners!IsDb(db)
  <2>1. ASSUME db # NoFile PROVE db.change <= MaxChanges + Cardinality(Editors)
    BY <1>2, <2>1, DueIs, OwnerFacts
  <2> QED BY <1>0, <1>1, <2>1 DEF OwnerTypeInv
<1>4. snapshot # NoFile => Owners!IsDb(snapshot) /\ db # NoFile
  BY <1>0, <1>1 DEF OwnerTypeInv, SnapshotInv, ChangesInv
<1>5. ASSUME NEW p \in Editors
      PROVE  /\ editor[p] \in Steps
             /\ tmp[p] # NoFile => Owners!IsDb(tmp[p]) /\ editor[p] \in {"commit", "rename"}
  <2>1. editor[p] \in Steps
    BY <1>0 DEF OwnerTypeInv
  <2>2. ASSUME tmp[p] # NoFile PROVE Sound(tmp[p]) /\ editor[p] \in {"commit", "rename"}
    BY <1>0, <2>2 DEF OwnerTypeInv
  <2>3. ASSUME tmp[p] # NoFile, editor[p] = "rename" PROVE Owners!IsDb(tmp[p])
    BY <1>0, <1>3, <2>3 DEF CommandInv
  <2>4. ASSUME tmp[p] # NoFile, editor[p] = "commit" PROVE Owners!IsDb(tmp[p])
    <3>1. p \in Due /\ Cardinality(Due) - 1 \in Nat
      <4>1. p \in Due
        BY <2>4 DEF Due
      <4>2. Cardinality(Due \ {p}) = Cardinality(Due) - 1 /\ IsFiniteSet(Due \ {p})
        BY <4>1, DueIs
      <4>3. Cardinality(Due \ {p}) \in Nat
        BY <4>2, FS_CardinalityType
      <4> QED BY <4>1, <4>2, <4>3
    <3>2. db # NoFile /\ tmp[p].change = db.change + 1
      BY <1>0, <2>4 DEF CommandInv
    <3>3. tmp[p].change <= MaxChanges + Cardinality(Editors)
      BY <1>2, <3>1, <3>2, DueIs, OwnerFacts
    <3> QED BY <1>1, <2>2, <2>4, <3>3
  <2> QED BY <2>1, <2>2, <2>3, <2>4
<1>6. flock \in Editors \cup {NoOne} /\ txn \in Editors \cup {NoOne}
  BY <1>0 DEF OwnerTypeInv
<1> QED BY <1>3, <1>4, <1>5, <1>6 DEF Owners!DbTypeOK, Steps

LEMMA CacheTypes == CacheTypeInv => Scanner!KbTypeOK
BY DEF CacheTypeInv, ClientRecord, Qids, Scanner!KbTypeOK

\* Whatever lane is followed, its state keeps its types.
THEOREM LanesTypeOKHolds == LanesSpec => []LanesTypeOK
<1> DEFINE Types ==
      /\ TypeOK /\ Lockdown!LockdownTypeOK /\ Survey!SurveyTypeOK /\ Limiter!LimiterTypeOK
      /\ Release!ReleaseTypeOK /\ Mail!MailTypeOK /\ Reports!ReportTypeOK /\ Digest!DigestTypeOK
      /\ Board!BoardTypeOK /\ Policy!PolicyTypeOK /\ Owners!DbTypeOK /\ Weekly!RunTypeOK
      /\ Scanner!KbTypeOK
<1>1. SurveyInv => Survey!SurveyTypeOK
  BY DEF SurveyInv
<1>2. ReleaseTypeInv => Release!ReleaseTypeOK
  BY DEF ReleaseTypeInv
<1>3. RunInv => Weekly!RunTypeOK
  BY DEF RunInv, RunTypeInv
<1>4. CacheInv => CacheTypeInv
  BY DEF CacheInv
<1>5. LanesSpec => []TypeOK
  BY AppscanRuns, AppTicketsTypes, PTL
<1>6. Types => LanesTypeOK
  BY DEF LanesTypeOK
<1>7. LanesSpec => [](Survey!SurveyTypeOK /\ Release!ReleaseTypeOK /\ Weekly!RunTypeOK)
  BY <1>1, <1>2, <1>3, SurveyInvHolds, ReleaseTypeHolds, RunInvHolds, PTL
<1>8. LanesSpec => [](Mail!MailTypeOK /\ Reports!ReportTypeOK /\ Digest!DigestTypeOK)
  BY MailTypes, MailInvHolds, ReportTypes, ReportInvHolds, DigestTypes, DigestInvHolds, PTL
<1>9. LanesSpec => [](Board!BoardTypeOK /\ Owners!DbTypeOK /\ Scanner!KbTypeOK)
  BY BoardTypes, BoardInvHolds, OwnersTypes, OwnersInvHolds, CacheTypes, <1>4, CacheInvHolds, PTL
<1>10. LanesSpec => []Types
  BY <1>5, <1>7, <1>8, <1>9, PolicyTypesHold, LimiterTypesHold, LockdownTypesHold, PTL
<1> QED BY <1>6, <1>10, PTL
=============================================================================
