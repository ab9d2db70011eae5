------------------------------ MODULE Connect ------------------------------
(***************************************************************************)
(* The connect phase of src/src/db.rs: dial, and dial again after a        *)
(* failure that another attempt might not meet, until an attempt succeeds, *)
(* the attempts are used up, the wall-clock budget is spent, or a failure  *)
(* is one that every further attempt would repeat.                         *)
(*                                                                         *)
(* Time is counted in one unit for all the durations.  An attempt may end  *)
(* after any time up to Timeout, where tokio abandons it; Lag is how late  *)
(* a timer (an abandoned attempt, a sleep) may fire.                       *)
(***************************************************************************)
EXTENDS Integers, Sequences

CONSTANTS
  Attempts,    \* CONNECT_ATTEMPTS
  FirstDelay,  \* FIRST_RETRY_DELAY
  MaxDelay,    \* MAX_RETRY_DELAY
  Budget,      \* CONNECT_BUDGET
  Timeout,     \* CONNECT_TIMEOUT
  Lag          \* how late a timer may fire

ASSUME ConnectConstants ==
  /\ Attempts \in Nat \ {0}
  /\ FirstDelay \in Nat
  /\ MaxDelay \in Nat
  /\ Budget \in Nat \ {0}
  /\ Timeout \in Nat
  /\ Lag \in Nat

VARIABLES
  phase,    \* "off", "dialling", "deciding", "connected" or "failed"
  made,     \* the number of the current attempt
  elapsed,  \* time since the phase started
  causes,   \* what each failed attempt failed of
  ending    \* why the loop stopped

connectVars == <<phase, made, elapsed, causes, ending>>

\* The shapes of failure the verdict tells apart: a class 28 SQLSTATE, an
\* unknown database, any other SQLSTATE, a client-side configuration error,
\* any other error without SQLSTATE, and an attempt abandoned at its timeout.
Deterministic == {"auth", "no_database", "bad_config"}
Transient == {"server_busy", "transport"}
Cause == Deterministic \cup Transient \cup {"stalled"}

\* Mutant of WorthRetrying: no SQLSTATE is taken for load.
WorthRetrying_NoCode(cause) == cause \notin {"auth", "no_database"}

WorthRetrying(cause) == cause \notin Deterministic

\* The wait doubles from FirstDelay up to MaxDelay; the shift is clamped.
Doublings(attempt) == IF attempt - 1 < 16 THEN attempt - 1 ELSE 16

Backoff(attempt) ==
  LET delay == FirstDelay * 2^Doublings(attempt)
  IN  IF delay < MaxDelay THEN delay ELSE MaxDelay

\* The clock's nanoseconds add up to a quarter.
Jittered(base) == base .. (base + base \div 4)

ConnectInit ==
  /\ phase = "off"
  /\ made = 0
  /\ elapsed = 0
  /\ causes = <<>>
  /\ ending = "none"

Dial ==
  /\ phase = "off"
  /\ phase' = "dialling"
  /\ made' = 1
  /\ UNCHANGED <<elapsed, causes, ending>>

AttemptConnects ==
  /\ phase = "dialling"
  /\ \E took \in 0..Timeout : elapsed' = elapsed + took
  /\ phase' = "connected"
  /\ UNCHANGED <<made, causes, ending>>

\* A deterministic failure ends the loop at once, any other is to be decided.
AttemptFails(cause) ==
  /\ phase = "dialling"
  /\ \E took \in 0..Timeout : elapsed' = elapsed + took
  /\ causes' = Append(causes, cause)
  /\ IF WorthRetrying(cause)
       THEN /\ phase' = "deciding"
            /\ UNCHANGED ending
       ELSE /\ phase' = "failed"
            /\ ending' = "Fatal"
  /\ UNCHANGED made

AttemptStalls ==
  /\ phase = "dialling"
  /\ \E late \in 0..Lag : elapsed' = elapsed + Timeout + late
  /\ causes' = Append(causes, "stalled")
  /\ phase' = "deciding"
  /\ UNCHANGED <<made, ending>>

\* Mutants of MayRetry: the clock is not looked at; the wait to come is not
\* counted; a whole attempt must fit into the budget.
MayRetry_NoBudget(delay) == made < Attempts
MayRetry_NoDelay(delay) == made < Attempts /\ elapsed < Budget
MayRetry_WholeAttempt(delay) == made < Attempts /\ elapsed + delay + Timeout < Budget

\* There is another attempt to make, and its wait ends inside the budget.
MayRetry(delay) == made < Attempts /\ elapsed + delay < Budget

SleepAndRetry ==
  /\ phase = "deciding"
  /\ \E delay \in Jittered(Backoff(made)), late \in 0..Lag :
       /\ MayRetry(delay)
       /\ elapsed' = elapsed + delay + late
  /\ made' = made + 1
  /\ phase' = "dialling"
  /\ UNCHANGED <<causes, ending>>

\* Mutant of GiveUp: only the attempts end the loop.
GiveUp_AttemptsOnly ==
  /\ phase = "deciding"
  /\ made = Attempts
  /\ phase' = "failed"
  /\ ending' = "Exhausted"
  /\ UNCHANGED <<made, elapsed, causes>>

GiveUp ==
  /\ phase = "deciding"
  /\ \E delay \in Jittered(Backoff(made)) : ~MayRetry(delay)
  /\ phase' = "failed"
  /\ ending' = "Exhausted"
  /\ UNCHANGED <<made, elapsed, causes>>

ConnectStep ==
  \/ AttemptConnects
  \/ \E cause \in Deterministic \cup Transient : AttemptFails(cause)
  \/ AttemptStalls
  \/ SleepAndRetry
  \/ GiveUp

ConnectNext == Dial \/ ConnectStep

\* tokio's timers fire, so a phase under way takes its next step.
ConnectSpec == ConnectInit /\ [][ConnectNext]_connectVars /\ WF_connectVars(ConnectStep)

-----------------------------------------------------------------------------
(* Properties                                                              *)

ConnectTypeOK ==
  /\ phase \in {"off", "dialling", "deciding", "connected", "failed"}
  /\ made \in 0..Attempts
  /\ elapsed \in Nat
  /\ causes \in Seq(Cause)
  /\ ending \in {"none", "Exhausted", "Fatal"}

\* The whole phase is bounded by the budget plus one attempt in flight, "45s"
\* (db.rs on CONNECT_BUDGET), stretched only by timers that fire late: one
\* late wake-up and one late abandonment, not one per attempt.
PhaseBounded == elapsed < Budget + Timeout + 2 * Lag

\* A failure every attempt would repeat is met once: nothing is dialled after
\* it, it is the error shown, and only it is answered without the advice to
\* wait and retry.
FatalEndsTheRun ==
  /\ \A i \in DOMAIN causes :
       causes[i] \in Deterministic => i = Len(causes) /\ phase = "failed"
  /\ phase = "failed" =>
       (ending = "Fatal" <=> causes[Len(causes)] \in Deterministic)

\* Every attempt that failed left its cause for the closing error, and the
\* number of attempts it states is the number made.
EveryFailureTold ==
  Len(causes) = IF phase \in {"dialling", "connected"} THEN made - 1 ELSE made

\* What the run says at its end is what happened: both of the above.
EndsHonestly == FatalEndsTheRun /\ EveryFailureTold

\* Giving up takes more than one attempt, and before the attempts are used up
\* it takes a budget so far spent that not even a retry after the longest wait
\* would have started inside it.
GivesUpOnlyWhenSpent ==
  ending = "Exhausted" /\ made < Attempts =>
    /\ made > 1
    /\ elapsed + MaxDelay + MaxDelay \div 4 >= Budget

\* A wait is never for nothing: it ends in an attempt, at most Lag past the
\* budget (wait_before_retry: "rather than sleeping for a retry it will never
\* make").
NoWaitInVain ==
  [][elapsed' > elapsed /\ phase = "deciding" =>
       /\ phase' = "dialling"
       /\ made' = made + 1
       /\ elapsed' < Budget + Lag]_connectVars

\* A phase that has begun ends, connected or with an error.
ConnectEnds == phase = "dialling" ~> phase \in {"connected", "failed"}
=============================================================================
