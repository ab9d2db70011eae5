------------------------------- MODULE Report -------------------------------
(***************************************************************************)
(* What a run leaves behind: its CSV report and its exit status            *)
(* (src/src/output.rs and the arms of run in src/src/main.rs that end in   *)
(* an emitter).  Several scheduled runs write one --csv destination, which *)
(* is a link that a rotation may point elsewhere at any time.  A run       *)
(* checks the destination before it queries, replaces the report through a *)
(* scratch file of its own, then writes to standard output, whose reader   *)
(* may be gone; it may be killed at any step.                              *)
(***************************************************************************)
EXTENDS Integers

CONSTANTS
  Run,      \* the runs
  Target,   \* the files the destination may lead to
  Json,     \* the runs given --json
  None

\* The report of an earlier run.
Earlier == [of |-> None, text |-> "whole"]

\* fail_on_expiring is expiring with that flag; cert asks for one certificate.
Command == {"search", "expiring", "fail_on_expiring", "cert", "check-update"}
Outcome == {"found", "none"}

EXIT_OK == 0
EXIT_ERROR == 1
EXIT_NOT_FOUND == 3
EXIT_EXPIRING == 4

ASSUME ReportConstants ==
  /\ Json \subseteq Run
  /\ None \notin Run \cup Target
  /\ None \notin Outcome \cup {"partial", "whole"}
  /\ None \notin 0..4

VARIABLES
  link,      \* where the destination leads
  command,   \* what each run was started as
  files,     \* the report in each target: whose it is and whether it is whole
  stage,     \* where each run is
  outcome,   \* what its query came to
  resolved,  \* the target it is replacing
  scratch,   \* its scratch file: None, "partial" or "whole"
  exit       \* its exit status

vars == <<link, command, files, stage, outcome, resolved, scratch, exit>>

Init ==
  /\ link \in Target
  /\ command \in [Run -> Command]
  /\ files \in [Target -> {None, Earlier}]
  /\ stage = [r \in Run |-> "start"]
  /\ outcome = [r \in Run |-> None]
  /\ resolved = [r \in Run |-> None]
  /\ scratch = [r \in Run |-> None]
  /\ exit = [r \in Run |-> None]

Found(r) == outcome[r] = "found"

\* check-update has something to report unless it fails.
MayCome(r) == IF command[r] = "check-update" THEN {"found"} ELSE Outcome

\* Mutant of Emitter: the expiring arm calls emit.
Emitter_Plain(r) ==
  CASE command[r] = "cert"         -> IF Found(r) THEN "emit_detail" ELSE "emit_missing"
    [] command[r] = "check-update" -> "emit_update_status"
    [] OTHER                       -> "emit"

\* The emitter that the arm of each command calls.
Emitter(r) ==
  CASE command[r] = "search"       -> "emit"
    [] command[r] = "cert"         -> IF Found(r) THEN "emit_detail" ELSE "emit_missing"
    [] command[r] = "check-update" -> "emit_update_status"
    [] OTHER                       -> "emit_exiting"

\* What the expiring arm decides on before it writes anything.
Code(r) ==
  IF command[r] = "fail_on_expiring" /\ Found(r) THEN EXIT_EXPIRING ELSE EXIT_OK

\* What the arm returns once its emitter has.
Returned(r) ==
  CASE command[r] \in {"search", "check-update"} -> EXIT_OK
    [] command[r] = "cert" -> IF Found(r) THEN EXIT_OK ELSE EXIT_NOT_FOUND
    [] OTHER               -> Code(r)

\* broken_pipe_exit: what the emitter exits with if the reader has gone.  The arms
\* pass theirs to emit_exiting and emit_missing; the others have their own.
BrokenPipeExit(r) ==
  CASE Emitter(r) = "emit"               -> EXIT_OK
    [] Emitter(r) = "emit_exiting"       -> Code(r)
    [] Emitter(r) = "emit_detail"        -> EXIT_OK
    [] Emitter(r) = "emit_missing"       -> EXIT_NOT_FOUND
    [] Emitter(r) = "emit_update_status" -> EXIT_OK

\* An empty result or a missing certificate prints nothing but JSON.
Prints(r) == Found(r) \/ r \in Json

Exits(r, status) ==
  /\ stage' = [stage EXCEPT ![r] = "over"]
  /\ exit' = [exit EXCEPT ![r] = status]

\* precheck_csv: the probe beside the destination is gone again at once.
Precheck(r) ==
  /\ stage[r] = "start"
  /\ \/ stage' = [stage EXCEPT ![r] = "querying"] /\ UNCHANGED exit
     \/ Exits(r, EXIT_ERROR)
  /\ UNCHANGED <<link, command, files, outcome, resolved, scratch>>

\* Mutant of Query: nothing found, nothing written.
Query_EmptySkips(r) ==
  /\ stage[r] = "querying"
  /\ \/ \E o \in MayCome(r) :
          /\ outcome' = [outcome EXCEPT ![r] = o]
          /\ stage' = [stage EXCEPT ![r] = IF o = "none" THEN "print" ELSE "report"]
          /\ UNCHANGED exit
     \/ Exits(r, EXIT_ERROR) /\ UNCHANGED outcome
  /\ UNCHANGED <<link, command, files, resolved, scratch>>

Query(r) ==
  /\ stage[r] = "querying"
  /\ \/ /\ \E o \in MayCome(r) : outcome' = [outcome EXCEPT ![r] = o]
        /\ stage' = [stage EXCEPT ![r] = "report"]
        /\ UNCHANGED exit
     \/ Exits(r, EXIT_ERROR) /\ UNCHANGED outcome
  /\ UNCHANGED <<link, command, files, resolved, scratch>>

\* replace_file follows the link, then works beside its target.
CreateScratch(r) ==
  /\ stage[r] = "report"
  /\ resolved' = [resolved EXCEPT ![r] = link]
  /\ scratch' = [scratch EXCEPT ![r] = "partial"]
  /\ stage' = [stage EXCEPT ![r] = "write"]
  /\ UNCHANGED <<link, command, files, outcome, exit>>

\* write_csv, sync_all and set_permissions.
WriteScratch(r) ==
  /\ stage[r] = "write"
  /\ scratch' = [scratch EXCEPT ![r] = "whole"]
  /\ stage' = [stage EXCEPT ![r] = "rename"]
  /\ UNCHANGED <<link, command, files, outcome, resolved, exit>>

\* Mutant of Rename: the link is followed again.
Rename_ToLink(r) ==
  /\ stage[r] = "rename"
  /\ files' = [files EXCEPT ![link] = [of |-> r, text |-> scratch[r]]]
  /\ scratch' = [scratch EXCEPT ![r] = None]
  /\ stage' = [stage EXCEPT ![r] = "print"]
  /\ UNCHANGED <<link, command, outcome, resolved, exit>>

Rename(r) ==
  /\ stage[r] = "rename"
  /\ files' = [files EXCEPT ![resolved[r]] = [of |-> r, text |-> scratch[r]]]
  /\ scratch' = [scratch EXCEPT ![r] = None]
  /\ stage' = [stage EXCEPT ![r] = "print"]
  /\ UNCHANGED <<link, command, outcome, resolved, exit>>

\* Mutant of FailReplace: the scratch file stays.
FailReplace_Leaves(r) ==
  /\ stage[r] \in {"report", "write", "rename"}
  /\ Exits(r, EXIT_ERROR)
  /\ UNCHANGED <<link, command, files, outcome, resolved, scratch>>

FailReplace(r) ==
  /\ stage[r] \in {"report", "write", "rename"}
  /\ scratch' = [scratch EXCEPT ![r] = None]
  /\ Exits(r, EXIT_ERROR)
  /\ UNCHANGED <<link, command, files, outcome, resolved>>

PrintsAll(r) ==
  /\ stage[r] = "print"
  /\ Exits(r, Returned(r))
  /\ UNCHANGED <<link, command, files, outcome, resolved, scratch>>

ReaderGone(r) ==
  /\ stage[r] = "print"
  /\ Prints(r)
  /\ Exits(r, BrokenPipeExit(r))
  /\ UNCHANGED <<link, command, files, outcome, resolved, scratch>>

PrintFails(r) ==
  /\ stage[r] = "print"
  /\ Prints(r)
  /\ Exits(r, EXIT_ERROR)
  /\ UNCHANGED <<link, command, files, outcome, resolved, scratch>>

Kill(r) ==
  /\ stage[r] \notin {"over", "killed"}
  /\ stage' = [stage EXCEPT ![r] = "killed"]
  /\ UNCHANGED <<link, command, files, outcome, resolved, scratch, exit>>

\* latest.csv is pointed at another file.
Rotate ==
  /\ \E t \in Target : link' = t
  /\ UNCHANGED <<command, files, stage, outcome, resolved, scratch, exit>>

Next ==
  \/ \E r \in Run :
       \/ Precheck(r) \/ Query(r)
       \/ CreateScratch(r) \/ WriteScratch(r) \/ Rename(r) \/ FailReplace(r)
       \/ PrintsAll(r) \/ ReaderGone(r) \/ PrintFails(r)
       \/ Kill(r)
  \/ Rotate

Spec == Init /\ [][Next]_vars

-----------------------------------------------------------------------------
(* Properties                                                              *)

\* "A reader sees the old report or the new one, never a mixture": no report is
\* ever partial, and one changes only into the report of the run that had
\* resolved the destination to it, wherever a rotation points meanwhile.
ReportsReplacedWhole ==
  [][\A t \in Target : files'[t] # files[t] =>
       \E r \in Run : /\ resolved[r] = t /\ stage[r] = "rename"
                      /\ files'[t] = [of |-> r, text |-> "whole"]]_vars

\* "0 completed, even with no results; 3 no certificate with that crt.sh ID; 4
\* expiring --fail-on-expiring found certificates to report" (README, Output):
\* whichever emitter was called and whether its reader stayed or not, the status
\* tells those apart, so neither an alert nor a missing certificate ever passes
\* for success, and nothing else for one of them.
ExitIsDecided ==
  \A r \in Run : exit[r] \notin {None, 1} =>
    /\ outcome[r] # None
    /\ exit[r] = 3 <=> command[r] = "cert" /\ outcome[r] = "none"
    /\ exit[r] = 4 <=> command[r] = "fail_on_expiring" /\ outcome[r] = "found"
    /\ exit[r] \in {0, 3, 4}

\* A status other than 1 promises the report: the file that the run resolved
\* holds what it wrote, or what another run has since written there, so a
\* scheduled job never takes the report of an earlier run for a new one.
ExitPromisesReport ==
  \A r \in Run : exit[r] \in {0, 3, 4} =>
    \E q \in Run : /\ resolved[r] # None
                  /\ files[resolved[r]] = [of |-> q, text |-> "whole"]
                  /\ resolved[q] = resolved[r]
                  /\ stage[q] \in {"print", "over", "killed"}

\* Whatever its fate short of being killed, a run leaves no scratch file beside
\* the report.
NoLitter == \A r \in Run : exit[r] \in {0, 1, 3, 4} => scratch[r] = None

\* "a run that fails at any point ... leaves the previous report untouched"
\* (README, Output).
FailedRunKeepsReport ==
  \A r \in Run, t \in Target : exit[r] = 1 /\ files[t] # None => files[t].of # r
=============================================================================
