------------------------- MODULE QualysLimiterProofs -------------------------
(***************************************************************************)
(* Theorems of QualysLimiter, for every budget, reserve and number of      *)
(* attempts.                                                               *)
(*                                                                         *)
(* The reserve is kept because of what the limiter knows at the moment it  *)
(* has spent one call too many (SpentInv): that call was answered, the     *)
(* answer said so, and until the window ends nothing but a cleanup call    *)
(* gets as far as being sent.  A cleanup call may forget the number while  *)
(* it waits out a refusal; it cannot end without having learnt it again,   *)
(* or an answer that told it nothing is counted.                           *)
(* The waits of one call are bounded by its attempts (WaitInv): it waits   *)
(* before the call at its first attempt alone, because a wait forgets what *)
(* was announced.                                                          *)
(***************************************************************************)
EXTENDS QualysLimiter, TLAPS

CallRecord == [pc : {"idle", "before", "pause", "call"}, attempt : 0 .. maxAttempts,
               cleanup : BOOLEAN, wait : Waits \cup {"refused"}, waited : Nat]

TypeInv == LimiterTypeOK /\ call \in CallRecord /\ past <= Limit - left

\* A wait is announced together with a number, and both are forgotten together;
\* a call that waits has one, or an answer that told nothing has been counted;
\* between two calls nothing of the last one is left.
KnownInv ==
    /\ call.pc = "idle" => call = NoCall
    /\ state.toWait # "none" => state.remaining # NotSaid
    /\ call.pc = "pause" /\ past > blind => state.remaining # NotSaid

SpentInv ==
    past > blind =>
        /\ past = blind + 1 /\ left < Reserve
        /\ state.seen /\ ~state.over /\ state.remaining <= Reserve
        /\ ~call.cleanup => /\ state.remaining # NotSaid /\ call.pc # "call"
                            /\ call.pc = "pause" => call.wait = "short"

LIInv == TypeInv /\ KnownInv /\ SpentInv

WaitInv ==
    /\ call.waited <= call.attempt
    /\ call.pc # "idle" => call.attempt # 0
    /\ call.pc = "before" /\ call.attempt = 1 => call.waited = 0
    /\ call.pc = "before" /\ call.attempt > 1 => state.toWait = "none"
    /\ call.pc = "pause" /\ call.attempt = 1 => call.waited = 1

-----------------------------------------------------------------------------
(* Types.                                                                  *)

LEMMA ConstantTypes ==
    ASSUME LimiterAssumption
    PROVE  Limit \in Nat /\ Reserve \in Nat /\ MaxBlind \in Nat /\ maxAttempts \in Nat \ {0}
BY DEF LimiterAssumption

LEMMA InitType ==
    ASSUME LimiterAssumption, LimiterInit
    PROVE  TypeInv
BY ConstantTypes DEF LimiterInit, TypeInv, LimiterTypeOK, CallRecord, NothingSeen, NoCall,
                     NotSaid, Waits

LEMMA TypeStep ==
    ASSUME LimiterAssumption, TypeInv, [LimiterNext]_limiterVars
    PROVE  TypeInv'
<1>1. call \in CallRecord /\ NoCall \in CallRecord
  BY ConstantTypes DEF TypeInv, NoCall, CallRecord, Waits
<1>2. call.waited + 1 \in Nat /\ call.attempt \in 0 .. maxAttempts /\ 1 \in 0 .. maxAttempts
  BY <1>1 DEF CallRecord, LimiterAssumption
<1>3. ASSUME call' \in CallRecord, UNCHANGED <<left, past, blind>>,
             state' \in [seen : BOOLEAN, remaining : NotSaid .. Limit, toWait : Waits,
                         over : BOOLEAN]
      PROVE  TypeInv'
  BY <1>3 DEF TypeInv, LimiterTypeOK, CallRecord
<1>4. /\ state \in [seen : BOOLEAN, remaining : NotSaid .. Limit, toWait : Waits, over : BOOLEAN]
      /\ Forget(state) \in [seen : BOOLEAN, remaining : NotSaid .. Limit, toWait : Waits,
                            over : BOOLEAN]
  <2>1. -1 \in NotSaid .. Limit /\ "none" \in Waits
    BY ConstantTypes DEF NotSaid, Waits
  <2> QED BY <2>1 DEF TypeInv, LimiterTypeOK, Forget, NotSaid
<1>5. CASE BeginCall
  <2>1. PICK cleanup \in BOOLEAN :
          call' = [NoCall EXCEPT !.pc = "before", !.attempt = 1, !.cleanup = cleanup]
    BY <1>5 DEF BeginCall
  <2>2. call' \in CallRecord
    BY <1>1, <1>2, <2>1 DEF CallRecord
  <2> QED BY <1>3, <1>4, <1>5, <2>2 DEF BeginCall
<1>6. CASE NothingKnown \/ Allowed
  <2>1. call' = [call EXCEPT !.pc = "call"]
    BY <1>6 DEF NothingKnown, Allowed, Go
  <2>2. call' \in CallRecord
    BY <1>1, <2>1 DEF CallRecord
  <2> QED BY <1>3, <1>4, <1>6, <2>2 DEF NothingKnown, Allowed
<1>7. CASE GivesWay \/ GivesUp
  BY <1>1, <1>3, <1>4, <1>7 DEF GivesWay, GivesUp, Ends
<1>8. CASE WaitsFirst
  <2>1. call' = [call EXCEPT !.pc = "pause", !.wait = "short", !.waited = @ + 1]
    BY <1>8 DEF WaitsFirst
  <2>2. call' \in CallRecord
    BY <1>1, <1>2, <2>1 DEF CallRecord, Waits
  <2> QED BY <1>3, <1>4, <1>8, <2>2 DEF WaitsFirst
<1>9. CASE Resumes
  <2>1. PICK pc \in {"before", "call"} : call' = [call EXCEPT !.pc = pc]
    BY <1>9 DEF Resumes
  <2>2. call' \in CallRecord
    BY <1>1, <2>1 DEF CallRecord
  <2> QED BY <1>3, <1>4, <1>9, <2>2 DEF Resumes
<1>10. CASE CannotResend
  BY <1>10, <1>1 DEF CannotResend, Ends, TypeInv, LimiterTypeOK, LimiterAssumption, NoCall
<1>11. CASE Served \/ Unanswered
  <2>1. left \in 0 .. Limit /\ past \in 0 .. Limit - left /\ blind \in 0 .. MaxBlind
    BY ConstantTypes DEF TypeInv, LimiterTypeOK
  <2>2. left' \in 0 .. Limit /\ past' \in 0 .. Limit - left' /\ blind' \in 0 .. MaxBlind
    <3>1. \/ left > 0 /\ left' = left - 1 /\ past' \in {past, past + 1}
          \/ left' = left /\ past' = past
      <4>1. ASSUME Spend PROVE left > 0 /\ left' = left - 1 /\ past' \in {past, past + 1}
        <5>1. past + 0 = past
          BY <2>1, ConstantTypes
        <5> QED BY <4>1, <5>1 DEF Spend
      <4> QED BY <1>11, <4>1 DEF Served, Unanswered
    <3>2. blind' = blind \/ (blind < MaxBlind /\ blind' = blind + 1)
      BY <1>11 DEF Served, Unanswered
    <3> QED BY <2>1, <3>1, <3>2, ConstantTypes
  <2>3. state' \in [seen : BOOLEAN, remaining : NotSaid .. Limit, toWait : Waits, over : BOOLEAN]
    <3>1. CASE Unanswered
      BY <1>4, <3>1 DEF Unanswered
    <3>2. CASE Served
      <4>1. left - 1 \in NotSaid .. Limit
        BY <2>1, <3>2, ConstantTypes DEF Served, Spend, NotSaid
      <4>2. PICK toWait \in Waits : state' = Read(left - 1, toWait, FALSE)
        BY <3>2 DEF Served, Waits
      <4> QED BY <4>1, <4>2 DEF Read
    <3> QED BY <1>11, <3>1, <3>2
  <2>4. call' = NoCall
    BY <1>11 DEF Served, Unanswered, Ends
  <2> QED BY <1>1, <2>2, <2>3, <2>4, ConstantTypes DEF TypeInv, LimiterTypeOK, CallRecord
<1>12. CASE Refused
  <2>0. /\ (Says /\ blind' = blind) \/ SaysNothing
        /\ UNCHANGED <<left, past>>
    BY <1>12 DEF Refused
  <2>2. state' \in [seen : BOOLEAN, remaining : NotSaid .. Limit, toWait : Waits, over : BOOLEAN]
    <3>1. CASE Says
      <4>1. PICK toWait \in Waits : state' = Read(left, toWait, TRUE)
        BY <3>1 DEF Says, Waits
      <4> QED BY <4>1 DEF Read, TypeInv, LimiterTypeOK, LimiterAssumption, NotSaid
    <3>2. CASE SaysNothing
      BY <1>4, <3>2 DEF SaysNothing
    <3> QED BY <2>0, <3>1, <3>2
  <2>b. blind' \in 0 .. MaxBlind
    BY <2>0, ConstantTypes DEF SaysNothing, TypeInv, LimiterTypeOK
  <2>1. PICK toWait \in Waits :
          call' = IF Retries(toWait)
                  THEN [call EXCEPT !.pc = "pause", !.attempt = @ + 1, !.waited = @ + 1,
                                    !.wait = IF toWait = "none" THEN "refused" ELSE toWait]
                  ELSE NoCall
    BY <1>12, <2>2 DEF Refused
  <2>3. ASSUME Retries(toWait) PROVE call' \in CallRecord
    <3>1. call.attempt + 1 \in 0 .. maxAttempts
      BY <1>2, <2>3 DEF Retries, LimiterAssumption
    <3> DEFINE w == IF toWait = "none" THEN "refused" ELSE toWait
    <3>2. w \in Waits \cup {"refused"}
      OBVIOUS
    <3>3. call' = [call EXCEPT !.pc = "pause", !.attempt = @ + 1, !.waited = @ + 1, !.wait = w]
      BY <2>1, <2>3
    <3> HIDE DEF w
    <3> QED BY <1>1, <1>2, <3>1, <3>2, <3>3 DEF CallRecord
  <2>4. call' \in CallRecord
    BY <1>1, <2>1, <2>3
  <2> QED BY <2>0, <2>2, <2>b, <2>4 DEF TypeInv, LimiterTypeOK, CallRecord
<1>13. CASE OtherLanes
  BY <1>13 DEF OtherLanes, TypeInv, LimiterTypeOK, LimiterAssumption
<1>14. CASE NewWindow
  BY <1>14 DEF NewWindow, TypeInv, LimiterTypeOK, LimiterAssumption
<1>15. CASE UNCHANGED limiterVars
  BY <1>1, <1>3, <1>4, <1>15 DEF limiterVars
<1> QED
  BY <1>5, <1>6, <1>7, <1>8, <1>9, <1>10, <1>11, <1>12, <1>13, <1>14, <1>15
     DEF LimiterNext

\* The limiter never counts a call twice, and never more than the window had.
THEOREM LimiterTypes == ASSUME LimiterAssumption PROVE LimiterSpec => []LimiterTypeOK
<1>1. LimiterInit => TypeInv
  BY InitType
<1>2. TypeInv /\ [LimiterNext]_limiterVars => TypeInv'
  BY TypeStep
<1>3. TypeInv => LimiterTypeOK
  BY DEF TypeInv
<1> QED
  BY <1>1, <1>2, <1>3, PTL DEF LimiterSpec
-----------------------------------------------------------------------------
(* The reserve.                                                            *)

LEMMA KnownStep ==
    ASSUME LimiterAssumption, TypeInv, TypeInv', KnownInv, SpentInv, [LimiterNext]_limiterVars
    PROVE  KnownInv'
<1>1. left \in Nat /\ call \in CallRecord
  BY ConstantTypes DEF TypeInv, LimiterTypeOK
<1>2. /\ state \in [seen : BOOLEAN, remaining : NotSaid .. Limit, toWait : Waits, over : BOOLEAN]
      /\ Forget(state).toWait = "none"
  BY DEF TypeInv, LimiterTypeOK, Forget
<1>s. past \in Nat /\ blind \in Nat
  BY ConstantTypes DEF TypeInv, LimiterTypeOK
<1>3. NoCall.pc = "idle"
  BY DEF NoCall
<1>4. CASE BeginCall
  <2>1. call'.pc = "before"
    BY <1>4 DEF BeginCall, NoCall
  <2> QED BY <1>4, <2>1 DEF BeginCall, KnownInv
<1>5. CASE NothingKnown \/ Allowed
  <2>1. call'.pc = "call"
    BY <1>1, <1>5 DEF NothingKnown, Allowed, Go, CallRecord
  <2> QED BY <1>2, <1>5, <2>1 DEF NothingKnown, Allowed, KnownInv
<1>6. CASE GivesWay \/ GivesUp \/ CannotResend
  BY <1>3, <1>6 DEF GivesWay, GivesUp, CannotResend, Ends, KnownInv
<1>7. CASE WaitsFirst
  <2>1. state.toWait # "none" /\ call'.pc = "pause"
    BY <1>1, <1>7 DEF WaitsFirst, Announced, CallRecord
  <2> QED BY <1>7, <2>1 DEF WaitsFirst, KnownInv
<1>8. CASE Resumes
  <2>1. call'.pc # "pause"
    BY <1>1, <1>8 DEF Resumes, CallRecord
  <2>2. call'.pc # "idle"
    BY <1>1, <1>8 DEF Resumes, CallRecord
  <2> QED BY <1>2, <1>8, <2>1, <2>2 DEF Resumes, KnownInv
<1>9. CASE Served
  <2>1. state'.remaining = left - 1 /\ left - 1 # NotSaid
    BY <1>1, <1>9 DEF Served, Spend, Read, NotSaid
  <2> QED BY <1>9, <2>1 DEF KnownInv, Served, Ends
<1>10. CASE Unanswered
  BY <1>3, <1>10 DEF Unanswered, Ends, KnownInv
<1>11. CASE Refused
  <2>2. call' = NoCall \/ call'.pc = "pause"
    BY <1>1, <1>11 DEF Refused, CallRecord
  <2>3. CASE Says
    <3>1. state'.remaining = left /\ left # NotSaid
      BY <1>1, <2>3 DEF Says, Read, NotSaid
    <3> QED BY <1>3, <2>2, <3>1 DEF KnownInv
  <2>4. CASE SaysNothing
    <3>1. state' = state /\ past' = past /\ blind' = blind + 1
      BY <1>11, <2>4 DEF SaysNothing, Refused
    <3>2. ~(past' > blind')
      BY <1>s, <3>1 DEF SpentInv
    <3> QED BY <1>3, <2>2, <3>1, <3>2 DEF KnownInv
  <2> QED BY <1>11, <2>3, <2>4 DEF Refused
<1>12. CASE OtherLanes
  BY <1>12 DEF OtherLanes, KnownInv
<1>13. CASE NewWindow
  <2>1. state'.toWait = state.toWait /\ state'.remaining = state.remaining
    BY <1>2, <1>13 DEF NewWindow
  <2> QED BY <1>13, <2>1 DEF NewWindow, KnownInv
<1>14. CASE UNCHANGED limiterVars
  BY <1>14 DEF limiterVars, KnownInv
<1> QED
  BY <1>4, <1>5, <1>6, <1>7, <1>8, <1>9, <1>10, <1>11, <1>12, <1>13, <1>14 DEF LimiterNext

LEMMA SpentStep ==
    ASSUME LimiterAssumption, TypeInv, TypeInv', KnownInv, SpentInv, [LimiterNext]_limiterVars
    PROVE  SpentInv'
<1>1. /\ {left, past, blind, left', past', blind'} \subseteq Nat /\ call \in CallRecord
      /\ state \in [seen : BOOLEAN, remaining : NotSaid .. Limit, toWait : Waits, over : BOOLEAN]
  BY ConstantTypes DEF TypeInv, LimiterTypeOK
<1>2. /\ Forget(state).remaining = NotSaid /\ NotSaid <= Reserve
      /\ Forget(state).seen = state.seen /\ Forget(state).over = state.over
  BY <1>1, ConstantTypes DEF Forget, NotSaid
<1>3. NoCall.pc = "idle" /\ ~NoCall.cleanup
  BY DEF NoCall
<1>4. call.cleanup \in BOOLEAN
  BY <1>1 DEF CallRecord
<1>5. CASE BeginCall
  <2>1. ~call.cleanup /\ call'.pc = "before" /\ UNCHANGED <<left, state, past, blind>>
    BY <1>3, <1>5 DEF BeginCall, NoCall, KnownInv
  <2> QED BY <2>1 DEF SpentInv
<1>6. CASE NothingKnown \/ Allowed
  <2>1. call'.pc = "call" /\ call'.cleanup = call.cleanup
    BY <1>1, <1>6 DEF NothingKnown, Allowed, Go, CallRecord
  <2>2. past > blind => call.cleanup /\ state' = state
    BY <1>6, <1>1, ConstantTypes DEF NothingKnown, Allowed, MaySpend, SpentInv
  <2> QED BY <1>6, <2>1, <2>2 DEF NothingKnown, Allowed, SpentInv
<1>7. CASE GivesWay
  <2>1. past > blind => state.remaining # NotSaid
    BY <1>7, <1>1 DEF GivesWay, Announced, MaySpend, KnownInv, SpentInv
  <2> QED BY <1>3, <1>7, <2>1 DEF GivesWay, Ends, SpentInv
<1>8. CASE GivesUp
  BY <1>3, <1>8 DEF GivesUp, Ends, KnownInv, SpentInv
<1>9. CASE WaitsFirst
  <2>1. call'.pc = "pause" /\ call'.wait = "short" /\ call'.cleanup = call.cleanup
    BY <1>1, <1>9 DEF WaitsFirst, CallRecord
  <2> QED BY <1>9, <2>1 DEF WaitsFirst, SpentInv
<1>10. CASE Resumes
  <2>1. call.pc = "pause" /\ call'.cleanup = call.cleanup /\ state' = Forget(state)
        /\ UNCHANGED <<left, past, blind>> /\ (call.wait = "short" => state.over)
    BY <1>1, <1>10 DEF Resumes, CallRecord
  <2>2. past > blind => call.cleanup
    BY <2>1 DEF SpentInv
  <2>3. past > blind => call'.cleanup
    BY <2>1, <2>2
  <2> QED BY <1>2, <2>1, <2>3 DEF SpentInv
<1>11. CASE CannotResend
  <2>1. past' = past /\ blind' = blind + 1
    BY <1>11 DEF CannotResend
  <2>2. ~(past' > blind')
    BY <1>1, <2>1 DEF SpentInv
  <2> QED BY <2>2 DEF SpentInv
<1>12. ASSUME Spend
       PROVE  /\ left > 0 /\ left' = left - 1
              /\ \/ past' = past + 1 /\ left - 1 < Reserve /\ ~call.cleanup
                 \/ past' = past
  <2>1. past + 0 = past
    BY <1>1
  <2> QED BY <1>12, <2>1 DEF Spend
<1>13. call.pc = "call" /\ ~call.cleanup => ~(past > blind)
  BY DEF SpentInv
<1>14. CASE Served
  <2>1. /\ state'.seen /\ ~state'.over /\ state'.remaining = left - 1
        /\ call' = NoCall /\ blind' = blind /\ call.pc = "call" /\ Spend
    BY <1>14 DEF Served, Ends, Read
  <2>2. left - 1 # NotSaid /\ left' = left - 1
    BY <1>1, <1>12, <2>1 DEF NotSaid
  <2>3. past' > blind' => past' = blind' + 1 /\ left - 1 < Reserve
    <3>1. CASE past' = past
      BY <1>1, <2>1, <3>1, ConstantTypes DEF SpentInv
    <3>2. CASE past' = past + 1 /\ left - 1 < Reserve /\ ~call.cleanup
      BY <1>1, <1>13, <2>1, <3>2
    <3> QED BY <1>12, <2>1, <3>1, <3>2
  <2> QED BY <1>1, <1>3, <2>1, <2>2, <2>3, ConstantTypes DEF SpentInv
<1>15. CASE Unanswered
  <2>1. blind' = blind + 1 /\ call.pc = "call" /\ (Spend \/ past' = past)
    BY <1>15 DEF Unanswered
  <2>2. ~(past' > blind')
    <3>1. CASE past' = past
      BY <1>1, <2>1, <3>1 DEF SpentInv
    <3>2. CASE past' = past + 1 /\ ~call.cleanup
      BY <1>1, <1>13, <2>1, <3>2
    <3> QED BY <1>12, <2>1, <3>1, <3>2
  <2> QED BY <2>2 DEF SpentInv
<1>16. CASE Refused
  <2>1. /\ UNCHANGED <<left, past>> /\ call.pc = "call" /\ ((Says /\ blind' = blind) \/ SaysNothing)
        /\ call'.cleanup = call.cleanup \/ call' = NoCall
    BY <1>1, <1>16 DEF Refused, CallRecord
  <2>2. CASE Says /\ blind' = blind
    <3>1. state'.seen /\ ~state'.over /\ state'.remaining = left /\ left # NotSaid
      BY <1>1, <2>2 DEF Says, Read, NotSaid
    <3>2. CASE past > blind
      BY <1>1, <1>3, <1>13, <2>1, <2>2, <3>1, <3>2, ConstantTypes DEF SpentInv
    <3> QED BY <2>1, <2>2, <3>2 DEF SpentInv
  <2>3. CASE SaysNothing
    <3>1. ~(past' > blind')
      BY <1>1, <2>1, <2>3 DEF SaysNothing, SpentInv
    <3> QED BY <3>1 DEF SpentInv
  <2> QED BY <2>1, <2>2, <2>3
<1>17. CASE OtherLanes
  BY <1>1, <1>17, ConstantTypes DEF OtherLanes, SpentInv
<1>18. CASE NewWindow
  BY <1>18 DEF NewWindow, SpentInv
<1>19. CASE UNCHANGED limiterVars
  BY <1>19 DEF limiterVars, SpentInv
<1> QED
  BY <1>5, <1>6, <1>7, <1>8, <1>9, <1>10, <1>11, <1>14, <1>15, <1>16, <1>17, <1>18, <1>19
     DEF LimiterNext

\* A run spends one call of a window past the reserve, whatever the other lanes
\* spend and however its answers come in, and one for each lost answer.
THEOREM ReserveIsKept == ASSUME LimiterAssumption PROVE LimiterSpec => []ReserveKept
<1>1. LimiterInit => LIInv
  BY InitType DEF LimiterInit, LIInv, KnownInv, SpentInv, NothingSeen, NoCall
<1>2. LIInv /\ [LimiterNext]_limiterVars => LIInv'
  BY TypeStep, KnownStep, SpentStep DEF LIInv
<1>3. LIInv => ReserveKept
  BY ConstantTypes DEF LIInv, TypeInv, LimiterTypeOK, SpentInv, ReserveKept
<1> QED
  BY <1>1, <1>2, <1>3, PTL DEF LimiterSpec

-----------------------------------------------------------------------------
(* The waits.                                                              *)

LEMMA WaitStep ==
    ASSUME LimiterAssumption, TypeInv, WaitInv, [LimiterNext]_limiterVars
    PROVE  WaitInv'
<1>1. call \in CallRecord /\ call.attempt \in Nat /\ call.waited \in Nat
  BY ConstantTypes DEF TypeInv, CallRecord
<1>2. /\ state \in [seen : BOOLEAN, remaining : NotSaid .. Limit, toWait : Waits, over : BOOLEAN]
      /\ Forget(state).toWait = "none"
  BY DEF TypeInv, LimiterTypeOK, Forget
<1>3. NoCall.pc = "idle" /\ NoCall.waited = 0 /\ NoCall.attempt = 0
  BY DEF NoCall
<1>4. CASE BeginCall
  <2>1. call'.waited = 0 /\ call'.attempt = 1 /\ call'.pc = "before"
    BY <1>4 DEF BeginCall, NoCall
  <2> QED BY <2>1 DEF WaitInv
<1>5. CASE NothingKnown \/ Allowed
  <2>1. call'.pc = "call" /\ UNCHANGED <<call.waited, call.attempt>> /\ call.pc = "before"
    BY <1>1, <1>5 DEF NothingKnown, Allowed, Go, CallRecord
  <2> QED BY <2>1 DEF WaitInv
<1>6. CASE call' = NoCall
  BY <1>3, <1>6 DEF WaitInv
<1>7. CASE WaitsFirst
  <2>1. call.pc = "before" /\ state.toWait # "none"
    BY <1>7 DEF WaitsFirst, Announced
  <2>2. call.attempt = 1 /\ call.waited = 0
    BY <1>1, <2>1 DEF WaitInv
  <2>3. call'.pc = "pause" /\ call'.attempt = call.attempt /\ call'.waited = call.waited + 1
    BY <1>1, <1>7 DEF WaitsFirst, CallRecord
  <2> QED BY <2>2, <2>3 DEF WaitInv
<1>8. CASE Resumes
  <2>1. /\ call.pc = "pause" /\ state'.toWait = "none"
        /\ UNCHANGED <<call.waited, call.attempt>>
        /\ call'.pc = IF call.attempt > 1 THEN "before" ELSE "call"
    BY <1>1, <1>2, <1>8 DEF Resumes, CallRecord
  <2> QED BY <1>1, <2>1 DEF WaitInv
<1>9. CASE Refused /\ call' # NoCall
  <2>1. /\ call.pc = "call" /\ call'.pc = "pause"
        /\ call'.attempt = call.attempt + 1 /\ call'.waited = call.waited + 1
    BY <1>1, <1>9 DEF Refused, CallRecord
  <2> QED BY <1>1, <2>1 DEF WaitInv
<1>10. CASE OtherLanes
  BY <1>10 DEF OtherLanes, WaitInv
<1>11. CASE NewWindow
  <2>1. state'.toWait = state.toWait /\ call' = call
    BY <1>2, <1>11 DEF NewWindow
  <2> QED BY <2>1 DEF WaitInv
<1>12. CASE UNCHANGED limiterVars
  BY <1>12 DEF limiterVars, WaitInv
<1>13. GivesWay \/ GivesUp \/ CannotResend \/ Served \/ Unanswered => call' = NoCall
  BY DEF GivesWay, GivesUp, CannotResend, Served, Unanswered, Ends
<1> QED
  BY <1>4, <1>5, <1>6, <1>7, <1>8, <1>9, <1>10, <1>11, <1>12, <1>13 DEF LimiterNext

\* One call waits once before it is made and once after each refusal, and ends
\* at its last attempt.
THEOREM WaitIsBounded == ASSUME LimiterAssumption PROVE LimiterSpec => []WaitBounded
<1>1. LimiterInit => TypeInv /\ WaitInv
  BY InitType DEF LimiterInit, WaitInv, NoCall
<1>2. TypeInv /\ WaitInv /\ [LimiterNext]_limiterVars => (TypeInv /\ WaitInv)'
  BY TypeStep, WaitStep
<1>3. TypeInv /\ WaitInv => WaitBounded
  BY ConstantTypes DEF TypeInv, CallRecord, WaitInv, WaitBounded
<1> QED
  BY <1>1, <1>2, <1>3, PTL DEF LimiterSpec
=============================================================================
