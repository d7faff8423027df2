---------------------------- MODULE QualysLimiter ---------------------------
(***************************************************************************)
(* internal/qualysrl: the http.RoundTripper one process makes its Qualys   *)
(* calls through, one at a time (a mutex).  It knows of the subscription's *)
(* budget what the last answer said, and leaves Reserve calls of every     *)
(* window to the other lanes, which spend from the same budget meanwhile   *)
(* and are here an action of their own.                                    *)
(*                                                                         *)
(* The subscription (external): a number of calls per window; an announced *)
(* wait lasts until the window ends.  A refused call did nothing.  Waits   *)
(* are counted, not timed: a short one is within MaxWait.  Left out: the   *)
(* low-budget warning and the log lines.                                   *)
(***************************************************************************)
EXTENDS Integers

CONSTANTS
    Limit,          \* calls per window
    Reserve,        \* QUALYS_RL_RESERVE
    maxAttempts,    \* 4
    MaxBlind        \* bound: answers one window loses

LimiterAssumption ==
    /\ {Limit, Reserve, MaxBlind} \subseteq Nat
    /\ maxAttempts \in Nat \ {0}

VARIABLES
    left,       \* external: calls left in the window
    state,      \* Limiter.state, as of the last response
    call,       \* RoundTrip's local state
    past,       \* observer: calls of this window served past the reserve
    blind       \* observer: calls of this window that left no numbers behind

limiterVars == <<left, state, call, past, blind>>

Waits == {"none", "short", "long"}
NotSaid == -1
\* over: the window it describes has ended, by the server's clock.
NothingSeen == [seen |-> FALSE, remaining |-> NotSaid, toWait |-> "none", over |-> FALSE]
NoCall == [pc |-> "idle", attempt |-> 0, cleanup |-> FALSE, wait |-> "none", waited |-> 0]

-----------------------------------------------------------------------------
(* The limiter.                                                            *)

Ends == call' = NoCall
Forget(s) == [s EXCEPT !.remaining = NotSaid, !.toWait = "none"]

BeginCall ==
    /\ call.pc = "idle"
    /\ \E cleanup \in BOOLEAN :
         call' = [NoCall EXCEPT !.pc = "before", !.attempt = 1, !.cleanup = cleanup]
    /\ UNCHANGED <<left, state, past, blind>>

\* What is left of the announced wait by the limiter's clock.
Announced ==
    {state.toWait} \cup (IF state.toWait = "long" THEN {"short"} ELSE {})
                   \cup (IF state.over THEN {"none"} ELSE {})

MaySpend(s, cleanup) == cleanup \/ s.remaining = NotSaid \/ s.remaining > Reserve

Go == call' = [call EXCEPT !.pc = "call"]

\* beforeCall: no numbers yet, or older than a window, which has then ended.
\* Numbers of a window that has ended may still look current.
NothingKnown ==
    /\ call.pc = "before"
    /\ \/ ~state.seen /\ state' = state
       \/ state.over /\ state' = Forget(state)
    /\ Go /\ UNCHANGED <<left, past, blind>>

Allowed ==
    /\ call.pc = "before" /\ state.seen /\ "none" \in Announced
    /\ MaySpend(state, call.cleanup)
    /\ Go /\ UNCHANGED <<left, state, past, blind>>

\* ErrBudget: the call gives way, or the announced wait is too long.
GivesWay ==
    /\ call.pc = "before" /\ state.seen
    /\ \/ "long" \in Announced
       \/ "none" \in Announced /\ ~MaySpend(state, call.cleanup)
    /\ Ends /\ UNCHANGED <<left, state, past, blind>>

WaitsFirst ==
    /\ call.pc = "before" /\ state.seen /\ "short" \in Announced
    /\ call' = [call EXCEPT !.pc = "pause", !.wait = "short", !.waited = @ + 1]
    /\ UNCHANGED <<left, state, past, blind>>

\* The wait is over: an announced one lasts until the window has moved.
\* After a refusal (attempt counted up) beforeCall comes first.
Resumes ==
    /\ call.pc = "pause" /\ (call.wait = "short" => state.over)
    /\ state' = Forget(state)
    /\ call' = [call EXCEPT !.pc = IF call.attempt > 1 THEN "before" ELSE "call"]
    /\ UNCHANGED <<left, past, blind>>

\* The context ends during the wait.
GivesUp ==
    /\ call.pc = "pause"
    /\ Ends /\ UNCHANGED <<left, state, past, blind>>

\* A second attempt whose request body was consumed by the first.
CannotResend ==
    /\ call.pc = "before" /\ call.attempt > 1 /\ blind < MaxBlind
    /\ blind' = blind + 1
    /\ Ends /\ UNCHANGED <<left, state, past>>

-----------------------------------------------------------------------------
(* One call and its answer.                                                *)

\* read; the other headers only feed the log lines.  Mutant: refusals only.
ReadsRefusals(n, toWait, isRefusal) ==
    IF isRefusal THEN [seen |-> TRUE, remaining |-> n, toWait |-> toWait, over |-> FALSE]
    ELSE state
Read(n, toWait, isRefusal) ==
    [seen |-> TRUE, remaining |-> n, toWait |-> toWait, over |-> FALSE]

\* Qualys takes a call off the budget.
Spend ==
    /\ left > 0 /\ left' = left - 1
    /\ past' = past + (IF ~call.cleanup /\ left - 1 < Reserve THEN 1 ELSE 0)

\* Any answer that is no refusal, an error or a conflict included: the call
\* may have taken effect.  The wait it announces is until the window ends.
Served ==
    /\ call.pc = "call" /\ Spend
    /\ \E toWait \in IF left = 1 THEN Waits ELSE {"none"} :
         state' = Read(left - 1, toWait, FALSE)
    /\ Ends /\ UNCHANGED blind

\* Answered without the headers, or not at all.
Unanswered ==
    /\ call.pc = "call" /\ blind < MaxBlind
    /\ Spend \/ UNCHANGED <<left, past>>
    /\ blind' = blind + 1
    /\ Ends /\ UNCHANGED state

\* Mutant: a refused call is tried again for ever.
NeverGivesUp(toWait) == toWait # "long"
Retries(toWait) == call.attempt < maxAttempts /\ toWait # "long"

\* The budget is spent, or another limit is reached and the wait is a short default.
Says ==
    \E toWait \in IF left = 0 THEN {"short", "long"} ELSE {"none"} :
        state' = Read(left, toWait, TRUE)
\* Without the headers the wait is what an earlier answer announced.
SaysNothing == blind < MaxBlind /\ blind' = blind + 1 /\ UNCHANGED state

\* 429, or 409 with a wait or too many calls in flight.
Refused ==
    /\ call.pc = "call"
    /\ (Says /\ UNCHANGED blind) \/ SaysNothing
    /\ call' = LET toWait == state'.toWait
               IN  IF Retries(toWait)
                   THEN [call EXCEPT !.pc = "pause", !.attempt = @ + 1, !.waited = @ + 1,
                                     !.wait = IF toWait = "none" THEN "refused" ELSE toWait]
                   ELSE NoCall
    /\ UNCHANGED <<left, past>>

-----------------------------------------------------------------------------
(* The rest of the subscription.                                           *)

OtherLanes ==
    /\ left > 0 /\ left' = left - 1
    /\ UNCHANGED <<state, call, past, blind>>

NewWindow ==
    /\ left' = Limit /\ past' = 0 /\ blind' = 0
    /\ state' = [state EXCEPT !.over = state.seen]
    /\ UNCHANGED call

LimiterInit ==
    /\ left = Limit
    /\ state = NothingSeen
    /\ call = NoCall
    /\ past = 0 /\ blind = 0

LimiterNext ==
    \/ BeginCall \/ NothingKnown \/ Allowed \/ GivesWay \/ WaitsFirst \/ Resumes \/ GivesUp
    \/ CannotResend
    \/ Served \/ Unanswered \/ Refused
    \/ OtherLanes \/ NewWindow

LimiterSpec == LimiterInit /\ [][LimiterNext]_limiterVars

-----------------------------------------------------------------------------
LimiterTypeOK ==
    /\ left \in 0 .. Limit /\ past \in 0 .. Limit /\ blind \in 0 .. MaxBlind
    /\ state \in [seen : BOOLEAN, remaining : NotSaid .. Limit, toWait : Waits, over : BOOLEAN]
    /\ call.pc \in {"idle", "before", "pause", "call"} /\ call.attempt \in 0 .. maxAttempts

\* "Reserve is how many calls a run of THIS process leaves untouched": the
\* process spends one call of a window past it, the one that tells it so,
\* and one more for every call whose answer told it nothing.
ReserveKept == past <= 1 + blind

\* WaitBudget, "the longest one call can spend waiting": as many waits as it
\* has room for, before the call and after each refusal.
WaitBounded == call.waited <= maxAttempts + 1
=============================================================================
