---------------------------- MODULE Fetch_proofs ----------------------------
(***************************************************************************)
(* Proofs about the connect phase and about fetch_by_term, which composes  *)
(* it.  Whatever the delays, the budget, the timeout and the number of     *)
(* attempts, the phase is bounded in time, stops at a deterministic        *)
(* failure and tells every failure; that it never gives up after one       *)
(* attempt needs the constants to leave room for a second one, as those of *)
(* db.rs do (RoomToRetry).  For any list of terms, any row window and      *)
(* whatever other runs do to the cache, a report is whole, and no          *)
(* statement is sent that need not be.                                     *)
(***************************************************************************)
EXTENDS Fetch, SequenceTheorems, TLAPS

-----------------------------------------------------------------------------
(* The connect phase                                                       *)

\* A first attempt, however it ends, and the longest wait fit in the budget.
RoomToRetry ==
  /\ Attempts > 1
  /\ Timeout + Lag + MaxDelay + MaxDelay \div 4 < Budget

\* Every shift the clamp lets through yields a natural number.
LEMMA ShiftIsNat == \A n \in 0..16 : 2^n \in Nat
<1>1. /\ 2^0 \in Nat  /\ 2^1 \in Nat  /\ 2^2 \in Nat  /\ 2^3 \in Nat
      /\ 2^4 \in Nat  /\ 2^5 \in Nat  /\ 2^6 \in Nat  /\ 2^7 \in Nat
      /\ 2^8 \in Nat  /\ 2^9 \in Nat  /\ 2^10 \in Nat /\ 2^11 \in Nat
      /\ 2^12 \in Nat /\ 2^13 \in Nat /\ 2^14 \in Nat /\ 2^15 \in Nat
      /\ 2^16 \in Nat
  BY SMT
<1>2. ASSUME NEW n \in 0..16
      PROVE  n \in {0, 1, 2, 3, 4, 5, 6, 7, 8, 9, 10, 11, 12, 13, 14, 15, 16}
  BY SMT
<1> QED BY <1>1, <1>2

\* A wait is never negative and never longer than MaxDelay.
LEMMA BackoffBounded ==
  ASSUME NEW attempt \in Nat \ {0}
  PROVE  Backoff(attempt) \in 0..MaxDelay
<1>1. Doublings(attempt) \in 0..16
  BY DEF Doublings
<1>2. 2^Doublings(attempt) \in Nat
  BY <1>1, ShiftIsNat
<1> DEFINE delay == FirstDelay * 2^Doublings(attempt)
<1>3. delay \in Nat
  BY <1>2, ConnectConstants
<1> HIDE DEF delay
<1>4. Backoff(attempt) = IF delay < MaxDelay THEN delay ELSE MaxDelay
  BY DEF Backoff, delay
<1> QED BY <1>3, <1>4, ConnectConstants

\* With its jitter a wait stays within a quarter over MaxDelay.
LEMMA JitterBounded ==
  ASSUME NEW attempt \in Nat \ {0}, NEW delay \in Jittered(Backoff(attempt))
  PROVE  delay \in 0..(MaxDelay + MaxDelay \div 4)
<1> DEFINE base == Backoff(attempt)
<1>1. base \in 0..MaxDelay
  BY BackoffBounded
<1>2. delay \in base .. (base + base \div 4)
  BY DEF Jittered
<1> HIDE DEF base
<1>3. base \div 4 <= MaxDelay \div 4 /\ base \div 4 \in Nat
  BY <1>1, ConnectConstants
<1> QED BY <1>1, <1>2, <1>3, ConnectConstants

\* made counts the attempts begun; one is under way only if it began inside
\* the budget, and a decision is at most one attempt later.
InTime ==
  /\ phase = "off" => elapsed = 0 /\ made = 0
  /\ phase # "off" => made > 0
  /\ phase = "dialling" => elapsed < Budget + Lag
  /\ PhaseBounded

\* A deterministic failure has not happened while the loop goes on.
Verdict ==
  /\ phase # "failed" => \A i \in DOMAIN causes : WorthRetrying(causes[i])
  /\ phase = "failed" => causes # <<>>
  /\ ending = "Fatal" => phase = "failed"
  /\ ending = "Exhausted" => phase = "failed"
  /\ phase = "failed" => ending # "none"

ConnectInv ==
  /\ ConnectTypeOK
  /\ InTime
  /\ EveryFailureTold
  /\ Verdict
  /\ FatalEndsTheRun

LEMMA InvInit == ASSUME ConnectInit PROVE ConnectInv
BY ConnectConstants
DEF ConnectInit, ConnectInv, ConnectTypeOK, InTime, PhaseBounded, Verdict,
    EveryFailureTold, FatalEndsTheRun

LEMMA InvNext ==
  ASSUME ConnectInv, [ConnectNext]_connectVars
  PROVE  ConnectInv'
<1> USE ConnectConstants
<1> USE DEF ConnectInv, ConnectTypeOK, InTime, PhaseBounded
<1>1. CASE Dial
  BY <1>1 DEF Dial, EveryFailureTold, FatalEndsTheRun, Verdict
<1>2. CASE AttemptConnects
  BY <1>2 DEF AttemptConnects, EveryFailureTold, FatalEndsTheRun, Verdict
<1>3. ASSUME NEW cause \in Deterministic \cup Transient, AttemptFails(cause)
      PROVE  ConnectInv'
  <2> cause \in Cause /\ causes' = Append(causes, cause)
    BY <1>3 DEF AttemptFails, Cause
  <2>1. /\ Len(causes') = Len(causes) + 1
        /\ causes'[Len(causes')] = cause
        /\ \A i \in DOMAIN causes : causes'[i] = causes[i]
        /\ \A i \in DOMAIN causes' : i = Len(causes') \/ i \in DOMAIN causes
        /\ causes' \in Seq(Cause)
    OBVIOUS
  <2> HIDE DEF Cause
  <2>2. ConnectTypeOK' /\ InTime'
    BY <1>3, <2>1 DEF AttemptFails
  <2>3. EveryFailureTold'
    BY <1>3, <2>1 DEF AttemptFails, EveryFailureTold
  <2>4. Verdict' /\ FatalEndsTheRun'
    BY <1>3, <2>1 DEF AttemptFails, Verdict, FatalEndsTheRun, WorthRetrying
  <2> QED BY <2>2, <2>3, <2>4
<1>4. CASE AttemptStalls
  <2> causes' = Append(causes, "stalled") /\ "stalled" \in Cause
    BY <1>4 DEF AttemptStalls, Cause
  <2>1. /\ Len(causes') = Len(causes) + 1
        /\ causes'[Len(causes')] = "stalled"
        /\ \A i \in DOMAIN causes : causes'[i] = causes[i]
        /\ \A i \in DOMAIN causes' : i = Len(causes') \/ i \in DOMAIN causes
        /\ causes' \in Seq(Cause)
    OBVIOUS
  <2>2. WorthRetrying("stalled")
    BY DEF WorthRetrying, Deterministic
  <2> HIDE DEF Cause
  <2>3. ConnectTypeOK' /\ InTime'
    BY <1>4, <2>1 DEF AttemptStalls
  <2>4. EveryFailureTold' /\ Verdict' /\ FatalEndsTheRun'
    BY <1>4, <2>1, <2>2 DEF AttemptStalls, EveryFailureTold, Verdict, FatalEndsTheRun, WorthRetrying
  <2> QED BY <2>3, <2>4
<1>5. CASE SleepAndRetry
  <2>1. PICK delay \in Jittered(Backoff(made)), late \in 0..Lag :
          MayRetry(delay) /\ elapsed' = elapsed + delay + late
    BY <1>5 DEF SleepAndRetry
  <2>2. delay \in Nat
    BY <1>5, <2>1, JitterBounded DEF SleepAndRetry
  <2>3. made < Attempts /\ elapsed' \in Nat /\ elapsed' < Budget + Lag
    BY <2>1, <2>2 DEF MayRetry
  <2>4. ConnectTypeOK' /\ InTime'
    BY <1>5, <2>3 DEF SleepAndRetry
  <2>5. EveryFailureTold' /\ Verdict' /\ FatalEndsTheRun'
    BY <1>5, <2>3 DEF SleepAndRetry, EveryFailureTold, Verdict, FatalEndsTheRun
  <2> QED BY <2>4, <2>5
<1>6. CASE GiveUp
  BY <1>6 DEF GiveUp, EveryFailureTold, FatalEndsTheRun, Verdict
<1>7. CASE UNCHANGED connectVars
  BY <1>7 DEF connectVars, EveryFailureTold, FatalEndsTheRun, Verdict
<1> QED BY <1>1, <1>2, <1>3, <1>4, <1>5, <1>6, <1>7 DEF ConnectNext, ConnectStep

LEMMA Invariance == ConnectSpec => []ConnectInv
BY InvInit, InvNext, PTL DEF ConnectSpec

\* Whatever the constants, the state of the connect loop keeps its shape.
THEOREM ConnectTypeCorrect == ConnectSpec => []ConnectTypeOK
BY Invariance, PTL DEF ConnectInv

\* The connect phase lasts at most the budget plus one attempt, and two late
\* timers, however many attempts there are and however long each takes.
THEOREM ConnectIsBounded == ConnectSpec => []PhaseBounded
BY Invariance, PTL DEF ConnectInv, InTime

\* Nothing is dialled after a failure that every attempt would repeat, the
\* closing advice is chosen by the failure it closes, and no failed attempt is
\* missing from the closing error.
THEOREM EndingIsHonest == ConnectSpec => []EndsHonestly
BY Invariance, PTL DEF ConnectInv, EndsHonestly

\* A step of the loop that takes time between two attempts is a wait.
LEMMA WaitIsForAnAttempt ==
  ASSUME ConnectInv, [ConnectNext]_connectVars, elapsed' > elapsed, phase = "deciding"
  PROVE  phase' = "dialling" /\ made' = made + 1 /\ elapsed' < Budget + Lag
<1> elapsed \in Nat /\ made \in Nat \ {0} /\ made < Attempts + 1
  BY ConnectConstants DEF ConnectInv, ConnectTypeOK, InTime
<1>1. SleepAndRetry
  BY DEF ConnectNext, ConnectStep, Dial, AttemptConnects, AttemptFails, AttemptStalls, GiveUp,
         connectVars
<1>2. PICK delay \in Jittered(Backoff(made)), late \in 0..Lag :
        MayRetry(delay) /\ elapsed' = elapsed + delay + late
  BY <1>1 DEF SleepAndRetry
<1>3. delay \in Nat
  BY <1>2, JitterBounded, ConnectConstants
<1> QED BY <1>1, <1>2, <1>3, ConnectConstants DEF SleepAndRetry, MayRetry

\* A step of the loop that waits ends in a further attempt begun in time.
THEOREM WaitsAreForAttempts == ConnectSpec => NoWaitInVain
BY WaitIsForAnAttempt, Invariance, PTL DEF ConnectSpec, NoWaitInVain

\* How long the first attempt may have taken when it is decided upon.
FirstAttempt ==
  /\ phase = "dialling" /\ made = 1 => elapsed = 0
  /\ phase = "deciding" /\ made = 1 => elapsed <= Timeout + Lag
  /\ GivesUpOnlyWhenSpent

LEMMA FirstAttemptNext ==
  ASSUME RoomToRetry, ConnectInv, FirstAttempt, [ConnectNext]_connectVars
  PROVE  FirstAttempt'
<1> USE ConnectConstants
<1> USE DEF FirstAttempt, GivesUpOnlyWhenSpent, ConnectInv, ConnectTypeOK, InTime,
            PhaseBounded, Verdict
<1>1. CASE Dial \/ AttemptConnects \/ UNCHANGED connectVars
  BY <1>1 DEF Dial, AttemptConnects, connectVars
<1>2. ASSUME NEW cause \in Deterministic \cup Transient, AttemptFails(cause)
      PROVE  FirstAttempt'
  BY <1>2 DEF AttemptFails
<1>3. CASE AttemptStalls
  BY <1>3 DEF AttemptStalls
<1>4. CASE SleepAndRetry
  BY <1>4 DEF SleepAndRetry
<1>5. CASE GiveUp
  <2>1. PICK delay \in Jittered(Backoff(made)) : ~MayRetry(delay)
    BY <1>5 DEF GiveUp
  <2>2. delay \in 0..(MaxDelay + MaxDelay \div 4)
    BY <1>5, <2>1, JitterBounded DEF GiveUp
  <2>3. MaxDelay \div 4 \in Nat
    OBVIOUS
  <2>4. made < Attempts => elapsed + MaxDelay + MaxDelay \div 4 >= Budget
    BY <2>1, <2>2, <2>3 DEF MayRetry
  <2>5. made < Attempts => made > 1
    BY <1>5, <2>3, <2>4 DEF GiveUp, RoomToRetry
  <2> QED BY <1>5, <2>4, <2>5 DEF GiveUp
<1> QED BY <1>1, <1>2, <1>3, <1>4, <1>5 DEF ConnectNext, ConnectStep

\* If the budget has room for a second attempt, a phase that ends exhausted
\* made one, and stopped short of the last attempt only with the budget spent.
THEOREM RetriesAreUsed ==
  ASSUME RoomToRetry
  PROVE  ConnectSpec => []GivesUpOnlyWhenSpent
<1>1. ConnectInit => FirstAttempt
  BY DEF ConnectInit, FirstAttempt, GivesUpOnlyWhenSpent
<1>2. ConnectInv /\ FirstAttempt /\ [ConnectNext]_connectVars => FirstAttempt'
  BY FirstAttemptNext
<1>3. FirstAttempt => GivesUpOnlyWhenSpent
  BY DEF FirstAttempt
<1> QED BY <1>1, <1>2, <1>3, Invariance, PTL DEF ConnectSpec

-----------------------------------------------------------------------------
(* The terms of a run                                                      *)

Answer == [term : Term, rows : Window, from : {"cache", "database"}]

Shape ==
  /\ run \in {"looking", "asking", "querying", "done", "failed"}
  /\ answers \in Seq(Answer)
  /\ asked \in Seq(Term)
  /\ cached \in [Term -> Window \cup {NoRows}]

\* The walk: the terms before next are answered, and nothing is asked past the
\* last.
InStep ==
  /\ next = Len(answers) + 1
  /\ next <= Len(Terms) + 1
  /\ run \in {"asking", "querying"} => next <= Len(Terms)
  /\ run = "done" => next = Len(Terms) + 1
  /\ \A i \in DOMAIN answers : answers[i].term = Terms[i]

Saturation ==
  saturated = {answers[i].term : i \in {n \in DOMAIN answers : answers[n].rows = Limit}}

\* A statement but the last has been answered; the last may be under way, for
\* the current term, or have failed.
FromDatabase(term) ==
  \E n \in DOMAIN answers : answers[n].term = term /\ answers[n].from = "database"

Answered ==
  \A i \in DOMAIN asked :
    \/ FromDatabase(asked[i])
    \/ i = Len(asked) /\ run \in {"querying", "failed"}

Once == \A i, j \in DOMAIN asked : asked[i] = asked[j] => i = j

Current ==
  run = "querying" => asked # <<>> /\ asked[Len(asked)] = Terms[next]

SlotIsNeeded ==
  phase # "off" =>
    \/ run \in {"asking", "querying", "failed"}
    \/ \E i \in DOMAIN answers : answers[i].from = "database"

FetchInv ==
  /\ Shape
  /\ InStep
  /\ Saturation
  /\ Answered
  /\ Once
  /\ Current
  /\ SlotIsNeeded

-----------------------------------------------------------------------------

LEMMA FetchInitInv == ASSUME FetchInit PROVE FetchInv
BY FetchConstants DEF FetchInit, FetchInv, ConnectInit, Shape, InStep, Saturation,
     Answered, Once, Current, SlotIsNeeded

\* What a row window adds to the answers, from the cache or the database.
LEMMA CollectKeeps ==
  ASSUME FetchInv, NEW rows \in Window, NEW from \in {"cache", "database"},
         next <= Len(Terms), Collect(rows, from)
  PROVE  /\ answers' \in Seq(Answer)
         /\ DOMAIN answers' = DOMAIN answers \cup {next}
         /\ next \notin DOMAIN answers
         /\ \A i \in DOMAIN answers : answers'[i] = answers[i]
         /\ answers'[next] = [term |-> Terms[next], rows |-> rows, from |-> from]
         /\ run' = "looking"
         /\ InStep'
         /\ Saturation'
<1> DEFINE new == [term |-> Terms[next], rows |-> rows, from |-> from]
<1>1. /\ answers \in Seq(Answer)
      /\ next = Len(answers) + 1
      /\ \A i \in DOMAIN answers : answers[i].term = Terms[i]
  BY DEF FetchInv, Shape, InStep
<1>2. Terms[next] \in Term
  BY <1>1, FetchConstants
<1>3. new \in Answer
  BY <1>2 DEF Answer
<1>4. answers' = Append(answers, new)
  BY DEF Collect
<1>5. /\ answers' \in Seq(Answer)
      /\ Len(answers') = Len(answers) + 1
      /\ \A i \in 1..Len(answers) : answers'[i] = answers[i]
      /\ answers'[Len(answers) + 1] = new
  BY <1>1, <1>3, <1>4
<1>6. /\ DOMAIN answers = 1..Len(answers)
      /\ DOMAIN answers' = 1..(Len(answers) + 1)
      /\ Len(answers) \in Nat
  BY <1>1, <1>5
<1>7. /\ DOMAIN answers' = DOMAIN answers \cup {next}
      /\ next \notin DOMAIN answers
      /\ \A i \in DOMAIN answers : answers'[i] = answers[i]
      /\ answers'[next] = new
  BY <1>1, <1>5, <1>6
<1>8. InStep'
  <2>1. \A i \in DOMAIN answers' : answers'[i].term = Terms[i]
    BY <1>1, <1>7
  <2> QED BY <1>1, <1>5, <1>6, <2>1, FetchConstants DEF InStep, Collect
<1>9. Saturation'
  <2>1. Fills(rows) <=> rows = Limit
    BY FetchConstants DEF Fills, Window
  <2>2. saturated = {answers[i].term : i \in {n \in DOMAIN answers : answers[n].rows = Limit}}
    BY DEF FetchInv, Saturation
  <2>3. saturated' = saturated \cup {answers'[i].term : i \in {n \in {next} : answers'[n].rows = Limit}}
    BY <1>7, <2>1 DEF Collect
  <2>4. saturated = {answers'[i].term : i \in {n \in DOMAIN answers : answers'[n].rows = Limit}}
    BY <1>7, <2>2
  <2> QED BY <1>7, <2>3, <2>4 DEF Saturation
<1> QED BY <1>5, <1>7, <1>8, <1>9 DEF Collect

LEMMA HitKeepsInv == ASSUME FetchInv, Hit PROVE FetchInv'
<1>1. next <= Len(Terms) /\ cached[Terms[next]] # NoRows /\ Terms[next] \in Term
  BY FetchConstants DEF Hit, FetchInv, InStep, Shape
<1>2. cached[Terms[next]] \in Window
  BY <1>1 DEF FetchInv, Shape
<1>3. Collect(cached[Terms[next]], "cache")
  BY DEF Hit
<1> DEFINE rows == cached[Terms[next]]
<1> HIDE DEF rows
<1>4. /\ answers' \in Seq(Answer)
      /\ DOMAIN answers' = DOMAIN answers \cup {next}
      /\ \A i \in DOMAIN answers : answers'[i] = answers[i]
      /\ run' = "looking"
      /\ InStep'
      /\ Saturation'
  BY <1>1, <1>2, <1>3, CollectKeeps DEF rows
<1>5. run = "looking" /\ UNCHANGED <<connectVars, asked, cached>>
  BY DEF Hit
<1>6. Shape'
  BY <1>4, <1>5 DEF FetchInv, Shape
<1>7. Answered' /\ Once'
  BY <1>4, <1>5 DEF FetchInv, Answered, Once, FromDatabase
<1>8. SlotIsNeeded' /\ Current'
  BY <1>4, <1>5 DEF FetchInv, SlotIsNeeded, Current, connectVars
<1> QED BY <1>4, <1>6, <1>7, <1>8 DEF FetchInv

LEMMA QueryAnswersKeepsInv == ASSUME FetchInv, QueryAnswers PROVE FetchInv'
<1>1. PICK rows \in Window : Put(Terms[next], rows) /\ Collect(rows, "database")
  BY DEF QueryAnswers
<1>2. run = "querying" /\ next <= Len(Terms) /\ UNCHANGED <<connectVars, asked>>
  BY DEF QueryAnswers, FetchInv, InStep
<1>3. /\ answers' \in Seq(Answer)
      /\ DOMAIN answers' = DOMAIN answers \cup {next}
      /\ \A i \in DOMAIN answers : answers'[i] = answers[i]
      /\ answers'[next] = [term |-> Terms[next], rows |-> rows, from |-> "database"]
      /\ run' = "looking"
      /\ InStep'
      /\ Saturation'
  BY <1>1, <1>2, CollectKeeps
<1>4. Shape'
  BY <1>1, <1>2, <1>3 DEF FetchInv, Shape, Put
<1>5. Answered'
  <2> SUFFICES ASSUME NEW i \in DOMAIN asked PROVE FromDatabase(asked[i])'
    BY <1>2, <1>3 DEF Answered
  <2>1. CASE FromDatabase(asked[i])
    BY <1>2, <1>3, <2>1 DEF FromDatabase
  <2>2. CASE ~FromDatabase(asked[i])
    <3>1. asked[i] = Terms[next]
      BY <1>2, <2>2 DEF FetchInv, Answered, Current
    <3> QED BY <1>2, <1>3, <3>1 DEF FromDatabase
  <2> QED BY <2>1, <2>2
<1>6. Once' /\ Current' /\ SlotIsNeeded'
  BY <1>2, <1>3 DEF FetchInv, Once, Current, SlotIsNeeded
<1> QED BY <1>3, <1>4, <1>5, <1>6 DEF FetchInv

LEMMA SendQueryKeepsInv == ASSUME FetchInv, SendQuery PROVE FetchInv'
<1>1. /\ run = "asking"
      /\ run' = "querying"
      /\ asked' = Append(asked, Terms[next])
      /\ UNCHANGED <<phase, next, answers, saturated, cached>>
  BY DEF SendQuery, connectVars
<1>2. /\ asked \in Seq(Term)
      /\ next = Len(answers) + 1
      /\ next <= Len(Terms)
      /\ answers \in Seq(Answer)
      /\ \A i \in DOMAIN answers : answers[i].term = Terms[i]
      /\ \A i \in DOMAIN asked : FromDatabase(asked[i])
  BY <1>1 DEF FetchInv, Shape, InStep, Answered
<1>3. Terms[next] \in Term /\ next \in DOMAIN Terms
  BY <1>2, FetchConstants
<1>4. /\ asked' \in Seq(Term)
      /\ Len(asked') = Len(asked) + 1
      /\ DOMAIN asked = 1..Len(asked)
      /\ DOMAIN asked' = 1..(Len(asked) + 1)
      /\ Len(asked) \in Nat
      /\ \A i \in 1..Len(asked) : asked'[i] = asked[i]
      /\ asked'[Len(asked) + 1] = Terms[next]
  BY <1>1, <1>2, <1>3
<1>5. \A i \in DOMAIN asked : asked[i] # Terms[next]
  <2> SUFFICES ASSUME NEW i \in DOMAIN asked PROVE asked[i] # Terms[next]
    OBVIOUS
  <2>1. PICK n \in DOMAIN answers : answers[n].term = asked[i]
    BY <1>2 DEF FromDatabase
  <2>2. asked[i] = Terms[n] /\ n # next /\ n \in DOMAIN Terms
    BY <1>2, <2>1, FetchConstants
  <2> QED BY <1>3, <2>2, FetchConstants
<1>6. Once'
  BY <1>4, <1>5 DEF FetchInv, Once
<1>7. Answered'
  BY <1>1, <1>2, <1>4 DEF Answered, FromDatabase
<1>8. Current'
  BY <1>1, <1>4 DEF Current
<1>9. Shape' /\ InStep' /\ Saturation' /\ SlotIsNeeded'
  BY <1>1, <1>2, <1>4 DEF FetchInv, Shape, InStep, Saturation, SlotIsNeeded
<1> QED BY <1>6, <1>7, <1>8, <1>9 DEF FetchInv

LEMMA FetchStepKeepsInv == ASSUME FetchInv, [FetchNext]_runVars PROVE FetchInv'
<1> USE DEF FetchInv, Shape, InStep, Saturation, Answered, Once, Current, SlotIsNeeded,
            FromDatabase
<1>1. CASE Hit
  BY <1>1, HitKeepsInv
<1>2. CASE Miss
  BY <1>2 DEF Miss, connectVars
<1>3. CASE NeedsConnection
  BY <1>3 DEF NeedsConnection, Dial, fetchVars
<1>4. CASE Connecting
  <2>1. phase # "off"
    BY <1>4 DEF Connecting, ConnectStep, AttemptConnects, AttemptFails, AttemptStalls,
                SleepAndRetry, GiveUp
  <2> QED BY <1>4, <2>1 DEF Connecting, fetchVars
<1>5. CASE DialFailed
  <2>1. /\ run = "asking" /\ run' = "failed"
        /\ UNCHANGED <<phase, next, answers, saturated, asked, cached>>
    BY <1>5 DEF DialFailed, connectVars
  <2>2. Shape' /\ InStep' /\ Saturation' /\ Once'
    BY <2>1
  <2>3. Answered' /\ Current' /\ SlotIsNeeded'
    BY <2>1
  <2> QED BY <2>2, <2>3
<1>6. CASE SendQuery
  BY <1>6, SendQueryKeepsInv
<1>7. CASE QueryAnswers
  BY <1>7, QueryAnswersKeepsInv
<1>8. CASE QueryFails
  BY <1>8 DEF QueryFails, connectVars
<1>9. CASE Finish
  <2>1. next = Len(Terms) + 1
    BY <1>9, FetchConstants DEF Finish
  <2> QED BY <1>9, <2>1 DEF Finish, connectVars
<1>10. CASE ConnectionDies
  BY <1>10 DEF ConnectionDies, connectVars
<1>11. CASE OthersUseCache
  BY <1>11 DEF OthersUseCache, connectVars
<1>12. CASE UNCHANGED runVars
  BY <1>12 DEF runVars, connectVars, fetchVars
<1> QED BY <1>1, <1>2, <1>3, <1>4, <1>5, <1>6, <1>7, <1>8, <1>9, <1>10, <1>11, <1>12
        DEF FetchNext, RunStep

LEMMA FetchInvHolds == FetchSpec => []FetchInv
BY FetchInitInv, FetchStepKeepsInv, PTL DEF FetchSpec

-----------------------------------------------------------------------------

\* A report of search or expiring is one answer for each term in order, or there
\* is none, and the terms named under --limit are those whose window is full
\* (fetch_by_term of queries/mod.rs).
THEOREM ReportsAreWhole == FetchSpec => []ReportIsWhole
<1>1. FetchInv => ReportIsWhole
  BY FetchConstants DEF FetchInv, Shape, InStep, Saturation, ReportIsWhole
<1> QED BY <1>1, FetchInvHolds, PTL

\* No statement is sent twice, nor after a failure, nor for a term the cache
\* answered, and no client slot is taken without one (fetch_by_term, Source::db).
THEOREM StatementsAreSentOnce == FetchSpec => []OneStatementPerTerm
<1>1. ASSUME FetchInv PROVE OneStatementPerTerm
  <2>1. \A n \in DOMAIN answers : answers[n] \in Answer
    BY <1>1, ElementOfSeq DEF FetchInv, Shape
  <2>2. ASSUME NEW i \in DOMAIN asked, FromDatabase(asked[i])
        PROVE  \E n \in DOMAIN answers :
                 answers[n] = [term |-> asked[i], rows |-> answers[n].rows, from |-> "database"]
    BY <2>1, <2>2 DEF FromDatabase, Answer
  <2> QED BY <1>1, <2>2 DEF FetchInv, Once, Answered, SlotIsNeeded, OneStatementPerTerm
<1> QED BY <1>1, FetchInvHolds, PTL

-----------------------------------------------------------------------------

\* Inside a run of queries the connect phase is still the one of Connect: each
\* step of the run is a step of the phase or leaves it alone, so that what it
\* promises of its length, its waits and its ending holds there too (Source::db
\* dials at most once, and nothing but the loop touches its state).
THEOREM RunsConnectAsTold ==
  FetchSpec =>
    /\ ConnectInit /\ [][ConnectNext]_connectVars
    /\ [](PhaseBounded /\ EndsHonestly)
    /\ NoWaitInVain
<1>1. FetchInit => ConnectInit
  BY DEF FetchInit
<1>2. [FetchNext]_runVars => [ConnectNext]_connectVars
  BY DEF FetchNext, RunStep, Hit, Miss, NeedsConnection, Connecting, DialFailed, SendQuery,
         QueryAnswers, QueryFails, Finish, ConnectionDies, OthersUseCache, ConnectNext, runVars
<1>3. ConnectInit => ConnectInv
  BY InvInit
<1>4. ConnectInv /\ [ConnectNext]_connectVars => ConnectInv'
  BY InvNext
<1>5. ConnectInv => PhaseBounded /\ EndsHonestly
  BY DEF ConnectInv, InTime, EndsHonestly
<1> QED BY <1>1, <1>2, <1>3, <1>4, <1>5, WaitIsForAnAttempt, PTL DEF FetchSpec, NoWaitInVain
=============================================================================
