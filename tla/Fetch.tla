------------------------------- MODULE Fetch -------------------------------
(***************************************************************************)
(* One search or expiring run: fetch_by_term of src/src/queries/mod.rs     *)
(* walks the terms in order, answers each from the cache or by one         *)
(* statement, and dials (Connect) at the first term the cache does not     *)
(* answer.  Other runs store and prune the same cache entries meanwhile,   *)
(* and the connection may die at any time, noticed by its own task.        *)
(***************************************************************************)
EXTENDS Connect

CONSTANTS
  Term,     \* what can be asked for
  Terms,    \* the terms of this run, in order and each once
  Limit,    \* --limit, the row window of one statement
  Mode,     \* "enabled", "refresh" or "disabled"
  NoRows    \* no cache entry

ASSUME FetchConstants ==
  /\ Terms \in Seq(Term)
  /\ \A i, j \in DOMAIN Terms : Terms[i] = Terms[j] => i = j
  /\ Limit \in Nat \ {0}
  /\ Mode \in {"enabled", "refresh", "disabled"}
  /\ NoRows \notin Nat

VARIABLES
  run,        \* "looking", "asking", "querying", "done" or "failed"
  next,       \* the position of the term being answered
  answers,    \* the rows collected: how many for each term, and from where
  saturated,  \* the terms whose window came back full
  asked,      \* the statements sent, in order
  cached,     \* the usable cache entry of each term: its number of rows
  lost        \* the connection has died

fetchVars == <<run, next, answers, saturated, asked, cached, lost>>
runVars == <<connectVars, fetchVars>>

Window == 0..Limit
Fills(rows) == rows >= Limit

FetchInit ==
  /\ ConnectInit
  /\ run = "looking"
  /\ next = 1
  /\ answers = <<>>
  /\ saturated = {}
  /\ asked = <<>>
  /\ cached \in [Term -> Window \cup {NoRows}]
  /\ lost = FALSE

\* What is done with the rows of the current term, wherever they come from.
Collect(rows, from) ==
  /\ answers' = Append(answers, [term |-> Terms[next], rows |-> rows, from |-> from])
  /\ saturated' = IF Fills(rows) THEN saturated \cup {Terms[next]} ELSE saturated
  /\ next' = next + 1
  /\ run' = "looking"

Hit ==
  /\ run = "looking"
  /\ next <= Len(Terms)
  /\ Mode = "enabled"
  /\ cached[Terms[next]] # NoRows
  /\ Collect(cached[Terms[next]], "cache")
  /\ UNCHANGED <<connectVars, asked, cached, lost>>

\* Mutant of Miss: the cache is not consulted.
Miss_Always ==
  /\ run = "looking"
  /\ next <= Len(Terms)
  /\ run' = "asking"
  /\ UNCHANGED <<connectVars, next, answers, saturated, asked, cached, lost>>

Miss ==
  /\ run = "looking"
  /\ next <= Len(Terms)
  /\ Mode # "enabled" \/ cached[Terms[next]] = NoRows
  /\ run' = "asking"
  /\ UNCHANGED <<connectVars, next, answers, saturated, asked, cached, lost>>

\* Source::db dials when it holds no connection yet.
NeedsConnection ==
  /\ run = "asking"
  /\ Dial
  /\ UNCHANGED fetchVars

Connecting ==
  /\ ConnectStep
  /\ UNCHANGED fetchVars

\* Mutants of DialFailed: the run reports what it has; it waits for good.
DialFailed_Partial ==
  /\ run = "asking"
  /\ phase = "failed"
  /\ run' = "done"
  /\ UNCHANGED <<connectVars, next, answers, saturated, asked, cached, lost>>

DialFailed_Waits ==
  /\ run = "asking"
  /\ phase = "failed"
  /\ UNCHANGED runVars

DialFailed ==
  /\ run = "asking"
  /\ phase = "failed"
  /\ run' = "failed"
  /\ UNCHANGED <<connectVars, next, answers, saturated, asked, cached, lost>>

\* A connection held is used as it is, dead or alive.
SendQuery ==
  /\ run = "asking"
  /\ phase = "connected"
  /\ asked' = Append(asked, Terms[next])
  /\ run' = "querying"
  /\ UNCHANGED <<connectVars, next, answers, saturated, cached, lost>>

\* cache.put: stored or, if the write fails, not; its prune may drop others.
Put(term, rows) ==
  cached' \in [Term -> Window \cup {NoRows}] /\
  IF Mode = "disabled" THEN cached' = cached
  ELSE \A t \in Term :
         cached'[t] \in IF t = term THEN {cached[t], rows} ELSE {cached[t], NoRows}

QueryAnswers ==
  /\ run = "querying"
  /\ ~lost
  /\ \E rows \in Window :
       /\ Put(Terms[next], rows)
       /\ Collect(rows, "database")
  /\ UNCHANGED <<connectVars, asked, lost>>

\* Mutant of QueryFails: the statement is sent again.
QueryFails_Retries ==
  /\ run = "querying"
  /\ run' = "asking"
  /\ UNCHANGED <<connectVars, next, answers, saturated, asked, cached, lost>>

\* A SQLSTATE, a dead connection, a row that does not decode, or QUERY_TIMEOUT:
\* no query is retried, and the run returns nothing of what it collected.
QueryFails ==
  /\ run = "querying"
  /\ run' = "failed"
  /\ UNCHANGED <<connectVars, next, answers, saturated, asked, cached, lost>>

Finish ==
  /\ run = "looking"
  /\ next > Len(Terms)
  /\ run' = "done"
  /\ UNCHANGED <<connectVars, next, answers, saturated, asked, cached, lost>>

ConnectionDies ==
  /\ phase = "connected"
  /\ ~lost
  /\ lost' = TRUE
  /\ UNCHANGED <<connectVars, run, next, answers, saturated, asked, cached>>

\* Another run stores or prunes an entry, or one ages past its lifetime.
OthersUseCache ==
  /\ \E t \in Term, entry \in Window \cup {NoRows} :
       cached' = [cached EXCEPT ![t] = entry]
  /\ UNCHANGED <<connectVars, run, next, answers, saturated, asked, lost>>

RunStep ==
  \/ Hit \/ Miss \/ NeedsConnection \/ Connecting \/ DialFailed
  \/ SendQuery \/ QueryAnswers \/ QueryFails \/ Finish

FetchNext == RunStep \/ ConnectionDies \/ OthersUseCache

\* The run is one thread that nothing but bounded waits holds up: an attempt
\* ends by CONNECT_TIMEOUT and a statement by QUERY_TIMEOUT.
FetchSpec == FetchInit /\ [][FetchNext]_runVars /\ WF_runVars(RunStep)

-----------------------------------------------------------------------------
(* Properties                                                              *)

\* A run reports all of its terms or fails: what a report holds is one answer
\* for each term, in order, no failure part-way leaves a shorter one, and the
\* terms named under --limit are exactly those that filled their window, cached
\* or not; so an empty report has none to name (main.rs: "an empty result is a
\* window that never filled").
ReportIsWhole ==
  /\ \A i \in DOMAIN answers : answers[i].term = Terms[i]
  /\ run = "done" => Len(answers) = Len(Terms)
  /\ saturated = {answers[i].term : i \in {n \in DOMAIN answers : answers[n].rows = Limit}}

\* One statement per unanswered term: a statement is sent only for a term the
\* cache did not answer, never twice for one term, and never again after it
\* failed or its connection died.  Nor is a client slot spent otherwise: a run
\* all of whose terms hit finishes without touching crt.sh.
OneStatementPerTerm ==
  /\ \A i, j \in DOMAIN asked :
       /\ asked[i] = asked[j] => i = j
       /\ \/ \E n \in DOMAIN answers : answers[n] = [term |-> asked[i],
                                                     rows |-> answers[n].rows,
                                                     from |-> "database"]
          \/ i = Len(asked) /\ run \in {"querying", "failed"}
  /\ phase # "off" =>
       \/ run \in {"asking", "querying", "failed"}
       \/ \E i \in DOMAIN answers : answers[i].from = "database"

\* A run whose entries stay usable survives an outage: it completes whatever
\* the network does.
CachedRunSurvives ==
  Mode = "enabled" /\ [](\A t \in Term : cached[t] # NoRows) => <>(run = "done")

\* Every run ends, with its report or with an error.
RunEnds == <>(run \in {"done", "failed"})
=============================================================================
