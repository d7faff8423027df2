----------------------------- MODULE Heartbeat ------------------------------
(***************************************************************************)
(* The heartbeat: fleet-kit/fleet/bin/run-checkin, started every two hours *)
(* by cti-agent-checkin.timer and now and then by hand, gated by           *)
(* cmd/cti-budget over the ledger of internal/budget.                      *)
(*                                                                         *)
(* A run takes a lock directory, asks cti-budget whether a beat may be     *)
(* spent, beats (one model session), tells cti-budget how the beat ended   *)
(* and removes the lock.  The lock is advisory and not atomic to take      *)
(* over: a run that finds it taken looks at its age, and one that finds it *)
(* stale, or gone by the time it looks, removes and retakes it in two      *)
(* steps, neither of which is checked.                                     *)
(*                                                                         *)
(* Time is counted in ticks.  Instants are held as ages, or as the time    *)
(* that is left until them, and capped where the program no longer tells   *)
(* them apart.  Shell and cti-budget steps take no time, a beat may.  One  *)
(* invocation of cti-budget is one step: OneBeat keeps the load and the    *)
(* save of another beat out of it, and `cti-budget status` saves nothing.  *)
(*                                                                         *)
(* Left out: the tools a beat is granted, the message board, wording.      *)
(***************************************************************************)
EXTENDS Integers, FiniteSets, SequencesExt

CONSTANTS
    Procs,          \* run-checkin processes: the timer's, an operator's
    Outcomes,       \* how a beat may end
    Window,         \* length of the rolling window (5 h)
    WindowBeats,    \* beats allowed in it (4)
    Day,            \* length of a day
    DailyBeats,     \* beats allowed in a day (14)
    BackoffBase,    \* wait after a first refusal (30 min)
    BackoffMax,     \* longest wait (6 h)
    BackoffFactor,  \* growth of the wait per further refusal (2)
    Keep,           \* how long Save keeps a beat (48 h)
    Stale,          \* age at which the lock is taken over, and at which
                    \* TimeoutStartSec ends a run (30 min)
    Cadence,        \* ticks from the end of a run to the next of its kind (2 h)
    MaxCrashes,     \* bound: crashes and refused runs in a behaviour
    LedgerFails,    \* the ledger may be unreadable, corrupt or unwritable
    MailFails       \* cti-alert may have nobody to mail, or its mail be refused

ASSUME ConstantsAssumption ==
    /\ Outcomes \subseteq {"ok", "ratelimit", "error", "exhausted"}
    /\ {Window, WindowBeats, Day, DailyBeats, BackoffBase, BackoffMax, BackoffFactor, Stale} \subseteq Nat \ {0}
    /\ {Keep, Cadence, MaxCrashes} \subseteq Nat
    /\ Window <= Keep /\ Day <= Keep /\ BackoffMax <= Keep
    /\ {LedgerFails, MailFails} \subseteq BOOLEAN

VARIABLES
    hour,       \* ticks since midnight
    lock,       \* the lock directory and the age of its mtime
    ledger,     \* the ledger file
    proc,       \* the runs
    crashes,    \* how many there have been
    calls,      \* observer: the beats that ended, whatever the ledger says
    alerts,     \* observer: how often a run was told to mail each pending instant as the end of a hold
    mailed      \* observer: how often it was mailed

vars == <<hour, lock, ledger, proc, crashes, calls, alerts, mailed>>

EmptyLedger == [beats |-> <<>>, cooldown |-> 0, alerted |-> 0]

(* Mutant of Charges: a failed beat is charged.                            *)
ChargesErrors(outcome) == outcome # "exhausted"

(* Whether a beat that ended so spent quota.                               *)
Charges(outcome) == outcome \in {"ok", "ratelimit"}

Free == [held |-> FALSE, age |-> 0]
Fresh == [held |-> TRUE, age |-> 0]

Times == 0..Max({Window, Day, BackoffMax})
Beats == [age : 0..Keep, outcome : Outcomes]
Pcs == {"idle", "stat", "break", "retake", "check", "beating", "record", "leaving"}

(* Every variable keeps its shape; ages, waits and mail counts stay within *)
(* their caps.                                                             *)
TypeOK ==
    /\ hour \in 0..(Day - 1)
    /\ lock \in [held : BOOLEAN, age : 0..Stale]
    /\ ledger \in [beats : Seq(Beats), cooldown : Times, alerted : Times]
    /\ proc \in [Procs -> [pc : Pcs, up : 0..Stale, rest : 0..Cadence, outcome : Outcomes \cup {"none"}]]
    /\ crashes \in 0..MaxCrashes
    /\ calls \in Seq(Beats)
    /\ {alerts, mailed} \subseteq [Times \ {0} -> 0..3]

Idle(rest) == [pc |-> "idle", up |-> 0, rest |-> rest, outcome |-> "none"]

Init ==
    /\ hour \in 0..(Day - 1)
    /\ lock = Free
    /\ ledger = EmptyLedger
    /\ proc = [p \in Procs |-> Idle(0)]
    /\ crashes = 0
    /\ calls = <<>>
    /\ alerts = [t \in Times \ {0} |-> 0]
    /\ mailed = [t \in Times \ {0} |-> 0]

-----------------------------------------------------------------------------
(* internal/budget: the ledger, and what Check and Record make of it.      *)

(* Beats that spent quota and are younger than span.  Instants are distinct *)
(* on the machine's clock, so no beat is exactly at midnight: today's beats *)
(* are those younger than hour + 1.                                        *)
countSince(beats, span) ==
    Cardinality({i \in DOMAIN beats : beats[i].age < span /\ Charges(beats[i].outcome)})

(* The charged beat of the window that leaves it first.                    *)
oldestInWindow(beats) ==
    Max({b.age : b \in {c \in ToSet(beats) : c.age < Window /\ Charges(c.outcome)}})

(* Mutant of consecutiveRateLimits: the history always counts as one.      *)
NeverGrows(beats) == 1

(* The number of refusals the history ends with.                           *)
consecutiveRateLimits(beats) ==
    Len(beats) - SelectLastInSeq(beats, LAMBDA b : b.outcome # "ratelimit")

(* Mutant of backoffFor: the maximum is not applied.                       *)
NoMaximum(beats) ==
    LET wait[n \in Nat] == IF n <= 1 THEN BackoffBase ELSE BackoffFactor * wait[n - 1]
    IN wait[consecutiveRateLimits(beats)]

(* Doubled for each further refusal, up to the maximum.                    *)
backoffFor(beats) ==
    LET wait[n \in 0..Len(beats)] == IF n <= 1 THEN Min({BackoffBase, BackoffMax})
                                     ELSE Min({BackoffFactor * wait[n - 1], BackoffMax})
    IN wait[consecutiveRateLimits(beats)]

(* Mutant of RetryAfter: the ceilings are compared with >.                 *)
OneTooMany(l) ==
    IF l.cooldown > 0 THEN l.cooldown
    ELSE IF countSince(l.beats, Window) > WindowBeats THEN Window - oldestInWindow(l.beats)
    ELSE IF countSince(l.beats, hour + 1) > DailyBeats THEN Day - hour
    ELSE 0

(* Ticks until a beat may be spent, 0 when it may be now: the cooldown is  *)
(* looked at first, then the window, then the day.                         *)
RetryAfter(l) ==
    IF l.cooldown > 0 THEN l.cooldown
    ELSE IF countSince(l.beats, Window) >= WindowBeats THEN Window - oldestInWindow(l.beats)
    ELSE IF countSince(l.beats, hour + 1) >= DailyBeats THEN Day - hour
    ELSE 0

(* Save drops the beats no limit reads any more, the others keep their     *)
(* order: the n-th is at the place that has n of them up to it.            *)
Kept(beats) == {i \in DOMAIN beats : beats[i].age < Keep}
Nth(S, n) == CHOOSE i \in S : Cardinality({j \in S : j <= i}) = n
prune(beats) == [n \in 1..Cardinality(Kept(beats)) |-> beats[Nth(Kept(beats), n)]]

Save(l) == [l EXCEPT !.beats = prune(@)]

(* A beat's outcome: refused and out of credit start a cooldown, only a    *)
(* clean beat clears it, an error leaves it alone.                         *)
Record(l, o) ==
    LET beats == Append(l.beats, [age |-> 0, outcome |-> o])
    IN [beats    |-> beats,
        cooldown |-> CASE o = "ratelimit" -> backoffFor(beats)
                       [] o = "exhausted" -> BackoffMax
                       [] o = "ok"        -> 0
                       [] o = "error"     -> l.cooldown,
        alerted  |-> IF o = "ok" THEN 0 ELSE l.alerted]

(* What loading the ledger may yield: a corrupt file reads as an empty one. *)
Loaded == {ledger} \cup (IF LedgerFails THEN {EmptyLedger} ELSE {})

-----------------------------------------------------------------------------
(* run-checkin.                                                            *)

Goto(p, pc) == proc' = [proc EXCEPT ![p].pc = pc]

Counted(f, t) == [f EXCEPT ![t] = Min({3, @ + 1})]

(* cti-alert is run, `|| true`, for a hold that ends in t ticks: it exits 0 *)
(* also when nobody is configured or the mail is refused.  What the ledger *)
(* was marked with before that stays, and nothing runs it again.           *)
Alert(t) ==
    /\ alerts' = Counted(alerts, t)
    /\ \/ mailed' = Counted(mailed, t)
       \/ MailFails /\ UNCHANGED mailed

(* What a run looks at before its lock: that its code and instructions are *)
(* root's alone, that nothing else steers the session, that there is one   *)
(* claude binary and one credential.                                       *)
Checks == {"code", "steering", "binary", "credential"}

(* A check that fails ends the run with exit 1, before the lock and the    *)
(* ledger; a person sees to it before the next.                            *)
Refuse(p) ==
    /\ proc[p].pc = "idle" /\ proc[p].rest = 0
    /\ crashes < MaxCrashes
    /\ \E failed \in SUBSET Checks :
          /\ failed # {}
          /\ proc' = [proc EXCEPT ![p] = Idle(Cadence)]
    /\ crashes' = crashes + 1
    /\ UNCHANGED <<hour, lock, ledger, calls, alerts, mailed>>

(* The timer fires, or an operator starts a beat: mkdir.                   *)
TryLock(p) ==
    /\ proc[p].pc = "idle" /\ proc[p].rest = 0
    /\ \/ ~lock.held /\ lock' = Fresh /\ Goto(p, "check")
       \/ lock.held /\ Goto(p, "stat") /\ UNCHANGED lock
    /\ UNCHANGED <<hour, ledger, crashes, calls, alerts, mailed>>

(* Mutants of StatLock: stat(1) never answers, every lock looks infinitely *)
(* old; no lock ever looks stale.                                          *)
MtimeFails(p) ==
    /\ proc[p].pc = "stat"
    /\ Goto(p, "break")
    /\ UNCHANGED <<hour, lock, ledger, crashes, calls, alerts, mailed>>
NeverStale(p) ==
    /\ proc[p].pc = "stat"
    /\ IF lock.held
         THEN proc' = [proc EXCEPT ![p] = Idle(Cadence)]
         ELSE Goto(p, "break")
    /\ UNCHANGED <<hour, lock, ledger, crashes, calls, alerts, mailed>>

(* The lock's age decides: skip, or take it over.  A lock that is gone by  *)
(* now has no mtime and looks infinitely old.                              *)
StatLock(p) ==
    /\ proc[p].pc = "stat"
    /\ IF lock.held /\ lock.age < Stale
         THEN proc' = [proc EXCEPT ![p] = Idle(Cadence)]
         ELSE Goto(p, "break")
    /\ UNCHANGED <<hour, lock, ledger, crashes, calls, alerts, mailed>>

(* rmdir, whoever's lock it is by now.                                     *)
BreakLock(p) ==
    /\ proc[p].pc = "break"
    /\ lock' = Free
    /\ Goto(p, "retake")
    /\ UNCHANGED <<hour, ledger, crashes, calls, alerts, mailed>>

(* mkdir again; the run goes on when this fails, too.                      *)
RetakeLock(p) ==
    /\ proc[p].pc = "retake"
    /\ lock' = IF lock.held THEN lock ELSE Fresh
    /\ Goto(p, "check")
    /\ UNCHANGED <<hour, ledger, crashes, calls, alerts, mailed>>

(* cti-budget check allows the beat, or cannot read its ledger: any exit   *)
(* but 3 lets the beat go ahead.                                           *)
Proceed(p) ==
    /\ proc[p].pc = "check"
    /\ LedgerFails \/ RetryAfter(ledger) = 0
    /\ Goto(p, "beating")
    /\ UNCHANGED <<hour, lock, ledger, crashes, calls, alerts, mailed>>

(* Mutant of Hold: the mark is not saved.                                  *)
ForgetsAlert(p) ==
    LET key == RetryAfter(ledger) IN
    /\ proc[p].pc = "check"
    /\ key > 0
    /\ IF ledger.alerted = key THEN UNCHANGED <<alerts, mailed>> ELSE Alert(key)
    /\ ledger' = Save(ledger)
    /\ Goto(p, "leaving")
    /\ UNCHANGED <<hour, lock, crashes, calls>>

(* cti-budget check denies it (exit 3).  The denial is marked as alerted   *)
(* and the ledger saved in any case; the operator is mailed when the mark  *)
(* was not there yet, if the mail goes out.                                *)
Hold(p) ==
    LET key == RetryAfter(ledger) IN
    /\ proc[p].pc = "check"
    /\ key > 0
    /\ IF ledger.alerted = key THEN UNCHANGED <<alerts, mailed>> ELSE Alert(key)
    /\ \/ ledger' = Save([ledger EXCEPT !.alerted = key])
       \/ LedgerFails /\ UNCHANGED ledger
    /\ Goto(p, "leaving")
    /\ UNCHANGED <<hour, lock, crashes, calls>>

(* How a session ended is read off its exit code and what its output       *)
(* mentions: being out of credit, being limited.                           *)
Classify(exit, mentions) ==
    CASE exit = 0 -> "ok"
      [] exit # 0 /\ "credit" \in mentions -> "exhausted"
      [] exit # 0 /\ "credit" \notin mentions /\ "limit" \in mentions -> "ratelimit"
      [] OTHER -> "error"

Endings == {Classify(exit, m) : exit \in 0..1, m \in SUBSET {"credit", "limit"}} \cap Outcomes

(* The model session ends.                                                 *)
EndBeat(p) ==
    /\ proc[p].pc = "beating"
    /\ \E o \in Endings :
        /\ proc' = [proc EXCEPT ![p].pc = "record", ![p].outcome = o]
        /\ calls' = Append(calls, [age |-> 0, outcome |-> o])
    /\ UNCHANGED <<hour, lock, ledger, crashes, alerts, mailed>>

(* cti-budget record.  Exit 4, out of credit, mails a hold as well; a      *)
(* ledger that cannot be read or written is exit 1 and nothing is said.    *)
RecordBeat(p) ==
    /\ proc[p].pc = "record"
    /\ \/ \E l \in Loaded :
            /\ ledger' = Save(Record(l, proc[p].outcome))
            /\ IF proc[p].outcome = "exhausted" THEN Alert(BackoffMax) ELSE UNCHANGED <<alerts, mailed>>
       \/ LedgerFails /\ UNCHANGED <<ledger, alerts, mailed>>
    /\ Goto(p, "leaving")
    /\ UNCHANGED <<hour, lock, crashes, calls>>

(* The EXIT trap: rmdir, whoever's lock it is.                             *)
Leave(p) ==
    /\ proc[p].pc = "leaving"
    /\ lock' = Free
    /\ proc' = [proc EXCEPT ![p] = Idle(Cadence)]
    /\ UNCHANGED <<hour, ledger, crashes, calls, alerts, mailed>>

(* TimeoutStartSec: systemd ends the run.  The trap frees the lock, nothing *)
(* is recorded.                                                            *)
TimeOut(p) ==
    /\ proc[p].pc = "beating" /\ proc[p].up + 1 = Stale
    /\ lock' = Free
    /\ proc' = [proc EXCEPT ![p] = Idle(Cadence)]
    /\ UNCHANGED <<hour, ledger, crashes, calls, alerts, mailed>>

(* The machine goes down: the lock stays, and OnBootSec starts the next    *)
(* run at once.                                                            *)
Crash(p) ==
    /\ proc[p].pc # "idle"
    /\ crashes < MaxCrashes
    /\ crashes' = crashes + 1
    /\ proc' = [proc EXCEPT ![p] = Idle(0)]
    /\ UNCHANGED <<hour, lock, ledger, calls, alerts, mailed>>

(* Time passes while runs wait or beat; no beat outlives Stale.            *)
Aged(beats) == [i \in DOMAIN beats |-> [beats[i] EXCEPT !.age = Min({@ + 1, Keep})]]
Less(t) == IF t = 0 THEN 0 ELSE t - 1
Sooner(f) == [t \in DOMAIN f |-> IF t + 1 \in DOMAIN f THEN f[t + 1] ELSE 0]

Tick ==
    /\ \A p \in Procs : proc[p].pc = "idle" \/ (proc[p].pc = "beating" /\ proc[p].up + 1 < Stale)
    /\ hour' = (hour + 1) % Day
    /\ lock' = IF lock.held THEN [lock EXCEPT !.age = Min({@ + 1, Stale})] ELSE lock
    /\ ledger' = [beats    |-> Aged(ledger.beats),
                  cooldown |-> Less(ledger.cooldown),
                  alerted  |-> Less(ledger.alerted)]
    /\ proc' = [p \in Procs |-> [proc[p] EXCEPT !.up = IF proc[p].pc = "beating" THEN @ + 1 ELSE @,
                                                !.rest = Less(@)]]
    /\ calls' = prune(Aged(calls))
    /\ alerts' = Sooner(alerts)
    /\ mailed' = Sooner(mailed)
    /\ UNCHANGED crashes

Step(p) ==
    \/ TryLock(p) \/ StatLock(p) \/ BreakLock(p) \/ RetakeLock(p)
    \/ Proceed(p) \/ Hold(p) \/ EndBeat(p) \/ RecordBeat(p) \/ Leave(p) \/ TimeOut(p)

Next == Tick \/ \E p \in Procs : Step(p) \/ Refuse(p) \/ Crash(p)

Spec == Init /\ [][Next]_vars

(* The timer goes on firing, every command a run starts ends, and time     *)
(* passes.  Crashes and refusals are few (MaxCrashes), owed to nobody.     *)
LiveSpec == Spec /\ WF_vars(Tick) /\ \A p \in Procs : WF_vars(Step(p))

-----------------------------------------------------------------------------
(* Properties.                                                             *)

(* The lock keeps the heartbeat from overlapping itself: at most one run   *)
(* is between taking the lock and giving it back.                          *)
OneBeat ==
    \A p, q \in Procs :
        {proc[p].pc, proc[q].pc} \subseteq {"check", "beating", "record", "leaving"} => p = q

(* The beats that really reached the model in the last span ticks.         *)
Spent(span) ==
    Cardinality({i \in DOMAIN calls : calls[i].age < span /\ calls[i].outcome \in {"ok", "ratelimit"}})

(* The ceilings hold of the quota really spent, not of the ledger: however *)
(* runs, refusals, midnights and pruning fall, no window has more than     *)
(* WindowBeats charged beats and no day more than DailyBeats.              *)
SpendBounded ==
    /\ Spent(Window) <= WindowBeats
    /\ Spent(hour + 1) <= DailyBeats

(* How long the beats up to the i-th have the fleet wait after it: the     *)
(* doubled base for the refusals in a row, the maximum when out of credit. *)
Wait(i) ==
    LET streak == Cardinality({j \in 1..i : \A k \in j..i : calls[k].outcome = "ratelimit"})
        doubled[n \in 0..i] == IF n <= 1 THEN BackoffBase ELSE BackoffFactor * doubled[n - 1]
    IN CASE calls[i].outcome = "ratelimit" -> Min({BackoffMax, doubled[streak]})
         [] calls[i].outcome = "exhausted" -> BackoffMax
         [] OTHER -> 0

(* After every refusal the model is left alone for as long as its place in *)
(* the row of refusals asks, whichever process is next to try.             *)
BacksOff ==
    [][\A p \in Procs : proc[p].pc = "check" /\ proc'[p].pc = "beating" =>
          \A i \in DOMAIN calls : calls[i].age >= Wait(i)]_vars

Denied(p) == proc[p].pc = "check" /\ proc'[p].pc = "leaving"

(* A beat is only held back for quota really spent or a refusal not lifted *)
(* by a clean beat since: a lane that merely breaks is never held, so a    *)
(* code fault is not reported as a budget hold.                            *)
HoldsForCause ==
    [][\A p \in Procs : Denied(p) =>
          \/ Spent(Window) >= WindowBeats
          \/ Spent(hour + 1) >= DailyBeats
          \/ \E i \in DOMAIN calls :
                /\ calls[i].outcome \in {"ratelimit", "exhausted"}
                /\ calls[i].age < BackoffMax
                /\ \A j \in (i + 1)..Len(calls) : calls[j].outcome # "ok"]_vars

(* The gate has every hold mailed, and once: by the time a beat has been   *)
(* denied a run was told to mail the hold's end exactly once, not counting *)
(* what recording an exhausted account had mailed already.  What is told   *)
(* is not what arrives: a mail that fails is not repeated, so the operator *)
(* gets at most that many.                                                 *)
GateTellsOnce ==
    [][\A p \in Procs : Denied(p) =>
          LET key == RetryAfter(ledger)
              exhausted == {i \in DOMAIN calls : /\ calls[i].outcome = "exhausted"
                                                /\ calls[i].age + key = BackoffMax}
              told == 1 + Cardinality(exhausted)
          IN alerts'[key] = told /\ mailed'[key] <= told]_vars

(* The operator gets one e-mail per distinct hold at most.                 *)
HoldToldOnce ==
    [][\A p \in Procs : Denied(p) => mailed'[RetryAfter(ledger)] <= 1]_vars

(* Whatever crashed, was refused or was lost, the fleet beats again: no    *)
(* lock left behind and no hold stops it for good.                         *)
BeatsAgain == []<>(\E p \in Procs : proc[p].pc = "beating")
=============================================================================
