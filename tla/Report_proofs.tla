--------------------------- MODULE Report_proofs ---------------------------
(***************************************************************************)
(* Proofs about the reports and the exit statuses of any number of runs    *)
(* that write any number of files, however their steps interleave, fail or *)
(* are cut off.                                                            *)
(***************************************************************************)
EXTENDS Report, TLAPS

-----------------------------------------------------------------------------
(* The inductive invariant                                                 *)

Stage == {"start", "querying", "report", "write", "rename", "print", "over", "killed"}

\* A report is never anything but whole.
Shape ==
  /\ link \in Target
  /\ command \in [Run -> Command]
  /\ files \in [Target -> {None} \cup [of : Run \cup {None}, text : {"whole"}]]
  /\ stage \in [Run -> Stage]
  /\ outcome \in [Run -> Outcome \cup {None}]
  /\ resolved \in [Run -> Target \cup {None}]
  /\ scratch \in [Run -> {None, "partial", "whole"}]
  /\ exit \in [Run -> {None, 0, 1, 3, 4}]

\* What the outcome of its query calls for.
Due(r) ==
  IF Found(r)
  THEN IF command[r] = "fail_on_expiring" THEN EXIT_EXPIRING ELSE EXIT_OK
  ELSE IF command[r] = "cert" THEN EXIT_NOT_FOUND ELSE EXIT_OK

\* What a run holds at each stage, and what its exit status says of it.
Holds(r) ==
  /\ stage[r] \in {"report", "write", "rename", "print"} => outcome[r] \in Outcome
  /\ stage[r] \in {"write", "rename", "print"} => resolved[r] \in Target
  /\ stage[r] = "rename" => scratch[r] = "whole"
  /\ stage[r] \notin {"write", "rename", "killed"} => scratch[r] = None
  /\ exit[r] # None => stage[r] = "over"
  /\ exit[r] \in {0, 3, 4} => outcome[r] \in Outcome /\ exit[r] = Due(r)

\* The report of a run that is past its rename is there, or one renamed to the
\* same file since.
Replaced(r) == stage[r] = "print" \/ exit[r] \in {0, 3, 4}

SuppliedBy(q, r) ==
  /\ files[resolved[r]] = [of |-> q, text |-> "whole"]
  /\ resolved[q] = resolved[r]
  /\ stage[q] \in {"print", "over", "killed"}

Supplied(r) == Replaced(r) => resolved[r] \in Target /\ \E q \in Run : SuppliedBy(q, r)

ReportInv == Shape /\ \A r \in Run : Holds(r) /\ Supplied(r)

LEMMA InvInitially == ASSUME ReportConstants, Init PROVE ReportInv
BY DEF Init, ReportConstants, ReportInv, Shape, Stage, Earlier, Holds, Supplied, Replaced

\* An arm and the emitter it calls agree, on what the outcome calls for.
LEMMA StatusIsDue ==
  ASSUME Shape, NEW r \in Run
  PROVE  /\ Returned(r) = Due(r)
         /\ BrokenPipeExit(r) = Due(r)
         /\ Due(r) \in {0, 3, 4}
<1>1. command[r] \in Command
  BY DEF Shape
<1> QED BY <1>1 DEF Command, Due, Found, Returned, Code, BrokenPipeExit, Emitter,
                    EXIT_OK, EXIT_NOT_FOUND, EXIT_EXPIRING

\* The steps of r leave the others as they were, up to the report of the file
\* that r renames to.
OnlyMoves(r) ==
  /\ command' = command
  /\ \A x \in Run \ {r} :
       /\ stage'[x] = stage[x]
       /\ outcome'[x] = outcome[x]
       /\ resolved'[x] = resolved[x]
       /\ scratch'[x] = scratch[x]
       /\ exit'[x] = exit[x]

LEMMA OthersHold ==
  ASSUME ReportInv, NEW r \in Run, OnlyMoves(r), NEW x \in Run \ {r}
  PROVE  Holds(x)'
BY DEF ReportInv, OnlyMoves, Holds, Due, Found

\* Whoever has supplied a file goes on doing so as long as the file stays.
LEMMA OthersSupplied ==
  ASSUME ReportInv, NEW r \in Run, OnlyMoves(r),
         files' = files,
         stage[r] \in {"print", "over", "killed"} =>
           /\ stage'[r] \in {"print", "over", "killed"}
           /\ resolved'[r] = resolved[r],
         NEW x \in Run \ {r}
  PROVE  Supplied(x)'
<1> SUFFICES ASSUME Replaced(x)'
             PROVE  resolved'[x] \in Target /\ \E q \in Run : SuppliedBy(q, x)'
  BY DEF Supplied
<1>1. Replaced(x) /\ resolved'[x] = resolved[x]
  BY DEF Replaced, OnlyMoves
<1>2. resolved[x] \in Target
  BY <1>1 DEF ReportInv, Supplied
<1>3. PICK q \in Run : SuppliedBy(q, x)
  BY <1>1 DEF ReportInv, Supplied
<1>4. SuppliedBy(q, x)'
  BY <1>1, <1>3 DEF SuppliedBy, OnlyMoves
<1> QED BY <1>1, <1>2, <1>4

LEMMA ExitsMoves ==
  ASSUME Shape, NEW r \in Run, NEW status, Exits(r, status)
  PROVE  /\ stage'[r] = "over" /\ exit'[r] = status
         /\ \A x \in Run \ {r} : stage'[x] = stage[x] /\ exit'[x] = exit[x]
BY DEF Shape, Exits

\* What a step of r has to show for the invariant, unless it is a rename.
Keeps(r) ==
  /\ Shape'
  /\ OnlyMoves(r)
  /\ Holds(r)'
  /\ Supplied(r)'
  /\ files' = files
  /\ stage[r] \in {"print", "over", "killed"} =>
       /\ stage'[r] \in {"print", "over", "killed"}
       /\ resolved'[r] = resolved[r]

LEMMA KeepsInv == ASSUME ReportInv, NEW r \in Run, Keeps(r) PROVE ReportInv'
BY OthersHold, OthersSupplied DEF Keeps, ReportInv

LEMMA BeforeReportKeeps ==
  ASSUME ReportConstants, ReportInv, NEW r \in Run, Precheck(r) \/ Query(r)
  PROVE  Keeps(r)
<1>1. Shape /\ Holds(r)
  BY DEF ReportInv
<1>2. CASE Precheck(r)
  <2>1. stage'[r] \in {"querying", "over"} /\ exit'[r] \in {None, 1}
    BY <1>1, <1>2, ReportConstants DEF Precheck, Exits, EXIT_ERROR, Shape, Holds
  <2>2. Shape' /\ OnlyMoves(r)
    BY <1>1, <1>2 DEF Precheck, Exits, EXIT_ERROR, Shape, Stage, OnlyMoves
  <2>3. Holds(r)'
    BY <1>1, <1>2, <2>1, ReportConstants DEF Precheck, Exits, EXIT_ERROR, Shape, Holds
  <2>4. Supplied(r)'
    BY <2>1, ReportConstants DEF Supplied, Replaced
  <2> QED BY <1>2, <2>2, <2>3, <2>4 DEF Precheck, Keeps
<1>3. CASE Query(r)
  <2>1. \/ stage'[r] = "report" /\ exit'[r] = None /\ outcome'[r] \in Outcome
        \/ stage'[r] = "over" /\ exit'[r] = 1 /\ outcome'[r] = outcome[r]
    BY <1>1, <1>3, ReportConstants DEF Query, MayCome, Outcome, Exits, EXIT_ERROR, Shape, Holds
  <2>2. Shape' /\ OnlyMoves(r)
    BY <1>1, <1>3 DEF Query, MayCome, Outcome, Exits, EXIT_ERROR, Shape, Stage, OnlyMoves
  <2>3. Holds(r)'
    BY <1>1, <1>3, <2>1, ReportConstants DEF Query, Shape, Holds
  <2>4. Supplied(r)'
    BY <2>1, ReportConstants DEF Supplied, Replaced
  <2> QED BY <1>3, <2>2, <2>3, <2>4 DEF Query, Keeps
<1> QED BY <1>2, <1>3

LEMMA ScratchKeeps ==
  ASSUME ReportConstants, ReportInv, NEW r \in Run,
         CreateScratch(r) \/ WriteScratch(r) \/ FailReplace(r)
  PROVE  Keeps(r)
<1>1. Shape /\ Holds(r)
  BY DEF ReportInv
<1>2. CASE CreateScratch(r)
  <2>1. stage'[r] = "write" /\ exit'[r] = None /\ resolved'[r] = link
    BY <1>1, <1>2 DEF CreateScratch, Shape, Holds
  <2>2. Shape' /\ OnlyMoves(r)
    BY <1>1, <1>2 DEF CreateScratch, Shape, Stage, OnlyMoves
  <2>3. Holds(r)'
    BY <1>1, <1>2, <2>1, ReportConstants DEF CreateScratch, Shape, Holds
  <2>4. Supplied(r)'
    BY <2>1, ReportConstants DEF Supplied, Replaced
  <2> QED BY <1>2, <2>2, <2>3, <2>4 DEF CreateScratch, Keeps
<1>3. CASE WriteScratch(r)
  <2>1. stage'[r] = "rename" /\ exit'[r] = None /\ scratch'[r] = "whole"
    BY <1>1, <1>3 DEF WriteScratch, Shape, Holds
  <2>2. Shape' /\ OnlyMoves(r)
    BY <1>1, <1>3 DEF WriteScratch, Shape, Stage, OnlyMoves
  <2>3. Holds(r)'
    BY <1>1, <1>3, <2>1, ReportConstants DEF WriteScratch, Shape, Holds
  <2>4. Supplied(r)'
    BY <2>1, ReportConstants DEF Supplied, Replaced
  <2> QED BY <1>3, <2>2, <2>3, <2>4 DEF WriteScratch, Keeps
<1>4. CASE FailReplace(r)
  <2>1. stage'[r] = "over" /\ exit'[r] = 1 /\ scratch'[r] = None
    BY <1>1, <1>4 DEF FailReplace, Exits, EXIT_ERROR, Shape, Holds
  <2>2. Shape' /\ OnlyMoves(r)
    BY <1>1, <1>4 DEF FailReplace, Exits, EXIT_ERROR, Shape, Stage, OnlyMoves
  <2>3. Holds(r)'
    BY <1>1, <1>4, <2>1, ReportConstants DEF FailReplace, Shape, Holds
  <2>4. Supplied(r)'
    BY <2>1, ReportConstants DEF Supplied, Replaced
  <2> QED BY <1>4, <2>2, <2>3, <2>4 DEF FailReplace, Keeps
<1> QED BY <1>2, <1>3, <1>4

\* Whatever becomes of standard output, the report is in place by then.
LEMMA EndKeeps ==
  ASSUME ReportConstants, ReportInv, NEW r \in Run,
         PrintsAll(r) \/ ReaderGone(r) \/ PrintFails(r) \/ Kill(r)
  PROVE  Keeps(r)
<1>1. Shape /\ Holds(r) /\ Supplied(r)
  BY DEF ReportInv
<1>2. UNCHANGED <<link, command, files, outcome, resolved, scratch>>
  BY DEF PrintsAll, ReaderGone, PrintFails, Kill
<1>3. CASE PrintsAll(r) \/ ReaderGone(r) \/ PrintFails(r)
  <2>1. PICK status \in {1, Due(r)} : Exits(r, status)
    BY <1>1, <1>3, StatusIsDue DEF PrintsAll, ReaderGone, PrintFails, EXIT_ERROR
  <2>2. stage[r] = "print"
    BY <1>3 DEF PrintsAll, ReaderGone, PrintFails
  <2>3. stage'[r] = "over" /\ exit'[r] = status /\ status \in {0, 1, 3, 4}
    BY <1>1, <2>1, ExitsMoves, StatusIsDue
  <2>4. Due(r)' = Due(r)
    BY <1>2 DEF Due, Found
  <2>5. Shape' /\ OnlyMoves(r)
    BY <1>1, <1>2, <2>1, <2>3, StatusIsDue DEF Exits, Shape, Stage, OnlyMoves
  <2>6. Holds(r)'
    BY <1>1, <1>2, <2>1, <2>2, <2>3, <2>4 DEF Holds
  <2>7. Supplied(r)'
    <3>1. resolved[r] \in Target /\ \E q \in Run : SuppliedBy(q, r)
      BY <1>1, <2>2 DEF Supplied, Replaced
    <3>2. PICK q \in Run : SuppliedBy(q, r)
      BY <3>1
    <3>3. SuppliedBy(q, r)'
      BY <1>2, <2>3, <2>5, <3>2 DEF SuppliedBy, OnlyMoves
    <3> QED BY <1>2, <3>1, <3>3 DEF Supplied
  <2> QED BY <1>2, <2>3, <2>5, <2>6, <2>7 DEF Keeps
<1>4. CASE Kill(r)
  <2>1. stage'[r] = "killed" /\ exit' = exit /\ stage[r] # "over" /\ exit[r] = None
    BY <1>1, <1>4 DEF Kill, Shape, Holds
  <2>2. Shape' /\ OnlyMoves(r)
    BY <1>1, <1>4 DEF Kill, Shape, Stage, OnlyMoves
  <2>3. Holds(r)'
    BY <1>1, <1>2, <2>1, ReportConstants DEF Holds
  <2>4. Supplied(r)'
    BY <2>1, ReportConstants DEF Supplied, Replaced
  <2> QED BY <1>2, <2>1, <2>2, <2>3, <2>4 DEF Keeps
<1> QED BY <1>3, <1>4

\* A rename supplies its file to every run that had renamed to it before.
LEMMA RenameKeepsInv ==
  ASSUME ReportConstants, ReportInv, NEW r \in Run, Rename(r)
  PROVE  ReportInv'
<1>1. Shape /\ Holds(r)
  BY DEF ReportInv
<1>2. /\ stage[r] = "rename" /\ scratch[r] = "whole" /\ resolved[r] \in Target
      /\ exit[r] = None
  BY <1>1 DEF Rename, Holds
<1>3. /\ files' = [files EXCEPT ![resolved[r]] = [of |-> r, text |-> "whole"]]
      /\ stage'[r] = "print" /\ scratch'[r] = None
      /\ UNCHANGED <<link, command, outcome, resolved, exit>>
  BY <1>1, <1>2 DEF Rename, Shape
<1>4. Shape' /\ OnlyMoves(r)
  BY <1>1, <1>2, <1>3 DEF Rename, Shape, Stage, OnlyMoves
<1>5. Holds(r)'
  BY <1>1, <1>2, <1>3, ReportConstants DEF Holds
<1>6. ASSUME NEW x \in Run, resolved[x] = resolved[r]
      PROVE  SuppliedBy(r, x)'
  BY <1>1, <1>2, <1>3, <1>6 DEF SuppliedBy, Shape
<1>7. ASSUME NEW x \in Run
      PROVE  Supplied(x)'
  <2>1. CASE resolved[x] = resolved[r]
    BY <1>2, <1>3, <1>6, <2>1 DEF Supplied
  <2>2. CASE resolved[x] # resolved[r]
    <3> SUFFICES ASSUME Replaced(x)'
                 PROVE  resolved'[x] \in Target /\ \E q \in Run : SuppliedBy(q, x)'
      BY DEF Supplied
    <3>1. x # r /\ Replaced(x)
      BY <1>4, <2>2 DEF Replaced, OnlyMoves
    <3>2. resolved[x] \in Target
      BY <3>1 DEF ReportInv, Supplied
    <3>3. PICK q \in Run : SuppliedBy(q, x)
      BY <3>1 DEF ReportInv, Supplied
    <3>4. SuppliedBy(q, x)'
      BY <1>1, <1>3, <1>4, <2>2, <3>2, <3>3 DEF SuppliedBy, OnlyMoves, Shape
    <3> QED BY <1>3, <3>2, <3>4
  <2> QED BY <2>1, <2>2
<1> QED BY <1>4, <1>5, <1>7, OthersHold DEF ReportInv

LEMMA InvStep == ReportConstants /\ ReportInv /\ [Next]_vars => ReportInv'
<1> SUFFICES ASSUME ReportConstants, ReportInv, [Next]_vars
             PROVE  ReportInv'
  OBVIOUS
<1>1. ASSUME NEW r \in Run,
             Precheck(r) \/ Query(r) \/ CreateScratch(r) \/ WriteScratch(r) \/ FailReplace(r)
      PROVE  ReportInv'
  BY <1>1, BeforeReportKeeps, ScratchKeeps, KeepsInv
<1>2. ASSUME NEW r \in Run, PrintsAll(r) \/ ReaderGone(r) \/ PrintFails(r) \/ Kill(r)
      PROVE  ReportInv'
  BY <1>2, EndKeeps, KeepsInv
<1>3. ASSUME NEW r \in Run, Rename(r)
      PROVE  ReportInv'
  BY <1>3, RenameKeepsInv
<1>4. CASE Rotate
  <2>1. link' \in Target /\ UNCHANGED <<command, files, stage, outcome, resolved, scratch, exit>>
    BY <1>4 DEF Rotate
  <2> QED BY <2>1 DEF ReportInv, Shape, Holds, Due, Found, Supplied, Replaced, SuppliedBy
<1>5. CASE UNCHANGED vars
  BY <1>5 DEF vars, ReportInv, Shape, Holds, Due, Found, Supplied, Replaced, SuppliedBy
<1> QED BY <1>1, <1>2, <1>3, <1>4, <1>5 DEF Next

LEMMA InvHolds == Spec => []ReportInv
<1>1. Init => ReportInv
  BY ReportConstants, InvInitially
<1>2. ReportInv /\ [Next]_vars => ReportInv'
  BY ReportConstants, InvStep
<1> QED BY <1>1, <1>2, PTL DEF Spec

-----------------------------------------------------------------------------
(* What a scheduled job may rely on                                        *)

\* Whichever emitter the arm of its command calls, and whether its reader stays or
\* goes, a run that does not fail returns the status that its outcome calls for: an
\* alert or a missing certificate is never reported as success, and nothing else as
\* one of them (run of main.rs, the emitters of output.rs).
THEOREM ExitsAreDecided == Spec => []ExitIsDecided
<1>1. ReportInv => ExitIsDecided
  <2> SUFFICES ASSUME ReportInv, NEW r \in Run, exit[r] \notin {None, 1}
               PROVE  /\ outcome[r] # None
                      /\ exit[r] = 3 <=> command[r] = "cert" /\ outcome[r] = "none"
                      /\ exit[r] = 4 <=> command[r] = "fail_on_expiring" /\ outcome[r] = "found"
                      /\ exit[r] \in {0, 3, 4}
    BY DEF ExitIsDecided
  <2>1. exit[r] \in {0, 3, 4} /\ outcome[r] \in Outcome /\ exit[r] = Due(r)
    BY DEF ReportInv, Shape, Holds
  <2> QED BY <2>1, ReportConstants DEF Due, Found, Outcome, EXIT_OK, EXIT_NOT_FOUND, EXIT_EXPIRING
<1> QED BY <1>1, InvHolds, PTL

\* A run that exits with a status other than 1 has its report, or a later one,
\* in the file that it resolved (replace_file of output.rs).
THEOREM StatusPromisesReport == Spec => []ExitPromisesReport
<1>1. ReportInv => ExitPromisesReport
  <2> SUFFICES ASSUME ReportInv, NEW r \in Run, exit[r] \in {0, 3, 4}
               PROVE  resolved[r] # None /\ \E q \in Run : SuppliedBy(q, r)
    BY DEF ExitPromisesReport, SuppliedBy
  <2>1. Supplied(r) /\ Replaced(r)
    BY DEF ReportInv, Replaced
  <2> QED BY <2>1, ReportConstants DEF Supplied
<1> QED BY <1>1, InvHolds, PTL

\* A run that ends by itself leaves no scratch file.
THEOREM NoScratchIsLeft == Spec => []NoLitter
<1>1. ReportInv => NoLitter
  BY ReportConstants DEF ReportInv, Holds, NoLitter
<1> QED BY <1>1, InvHolds, PTL

\* Only a rename touches a report, and it puts a whole one in its place.
LEMMA OnlyRenameWrites ==
  ASSUME ReportInv, Next, NEW t \in Target, files'[t] # files[t]
  PROVE  \E r \in Run : /\ resolved[r] = t /\ stage[r] = "rename"
                        /\ files'[t] = [of |-> r, text |-> "whole"]
<1>1. files' # files
  OBVIOUS
<1>2. PICK r \in Run : Rename(r)
  BY <1>1 DEF Next, Precheck, Query, CreateScratch, WriteScratch, FailReplace, PrintsAll,
              ReaderGone, PrintFails, Kill, Rotate
<1>3. stage[r] = "rename" /\ scratch[r] = "whole"
  BY <1>2 DEF Rename, ReportInv, Holds
<1>4. resolved[r] = t /\ files'[t] = [of |-> r, text |-> "whole"]
  BY <1>2, <1>3 DEF Rename, ReportInv, Shape
<1> QED BY <1>3, <1>4

\* A reader sees the old report or the new one, whole, wherever the destination
\* is pointed meanwhile (replace_file of output.rs).
THEOREM ReportsAreReplacedWhole == Spec => ReportsReplacedWhole
<1> DEFINE Whole == \A t \in Target : files'[t] # files[t] =>
                      \E r \in Run : /\ resolved[r] = t /\ stage[r] = "rename"
                                     /\ files'[t] = [of |-> r, text |-> "whole"]
<1>1. ReportInv /\ [Next]_vars => [Whole]_vars
  BY OnlyRenameWrites
<1>2. Spec => [][Whole]_vars
  BY <1>1, InvHolds, PTL DEF Spec
<1> QED BY <1>2 DEF ReportsReplacedWhole
============================================================================
