--------------------------- MODULE Install_proofs ---------------------------
(***************************************************************************)
(* Proofs about install.sh, for any number of installers in one directory, *)
(* any releases and any of them pinned, whatever step fails and whenever a *)
(* signal or a kill arrives.                                               *)
(***************************************************************************)
EXTENDS Install, TLAPS

-----------------------------------------------------------------------------
(* The inductive invariant                                                 *)

Step == Steps \cup {"fail", "exit", "installed", "failed", "killed"}

Shape ==
  /\ newest \in Release
  /\ step \in [Proc -> Step]
  /\ tmp \in [Proc -> BOOLEAN]
  /\ archive \in [Proc -> Archive \cup {None}]
  /\ staged \in [Proc -> Archive \cup {None}]
  /\ ready \in [Proc -> BOOLEAN]
  /\ signalled \in [Proc -> BOOLEAN]

\* What is unpacked was verified, and what is staged until it is tried is that.
Verified(p) ==
  /\ step[p] = "verify" => archive[p] \in Archive
  /\ step[p] \in {"unpack", "stage"} => archive[p] \in Archive /\ archive[p].whole
  /\ step[p] \in {"try", "rename"} /\ staged[p] # None => staged[p] \in Archive /\ staged[p].whole
  /\ step[p] = "rename" /\ staged[p] # None => staged[p].of \in RunsHere

\* The clean-up knows of whatever is staged.
Tidy(p) ==
  /\ staged[p] # None => ready[p]
  /\ step[p] = "exit" => staged[p] = None
  /\ step[p] \in {"installed", "failed"} => ~tmp[p] /\ staged[p] = None

\* A signal takes what the next step needs, and nothing brings it back.
Stopped(p) == signalled[p] => ~tmp[p] /\ staged[p] = None

InstallInv ==
  /\ Shape
  /\ \A p \in Proc : Verified(p) /\ Tidy(p) /\ Stopped(p)
  /\ InstalledRuns

LEMMA InvInitially == Init => InstallInv
BY InstallConstants
   DEF Init, InstallInv, Shape, Step, Steps, Verified, Tidy, Stopped, InstalledRuns

\* The steps of p leave the other installers as they were.
OnlyMoves(p) ==
  \A x \in Proc \ {p} :
    /\ step'[x] = step[x] /\ tmp'[x] = tmp[x] /\ archive'[x] = archive[x]
    /\ staged'[x] = staged[x] /\ ready'[x] = ready[x] /\ signalled'[x] = signalled[x]

\* What a step of p has to show for the invariant.
Keeps(p) ==
  /\ Shape'
  /\ OnlyMoves(p)
  /\ Verified(p)' /\ Tidy(p)' /\ Stopped(p)'
  /\ InstalledRuns'

LEMMA KeepsInv == ASSUME InstallInv, NEW p \in Proc, Keeps(p) PROVE InstallInv'
<1>1. ASSUME NEW x \in Proc \ {p}
      PROVE  Verified(x)' /\ Tidy(x)' /\ Stopped(x)'
  BY <1>1 DEF InstallInv, Keeps, OnlyMoves, Verified, Tidy, Stopped
<1> QED BY <1>1 DEF Keeps, InstallInv

LEMMA GoesMoves ==
  ASSUME Shape, NEW p \in Proc, NEW from, NEW to, Goes(p, from, to)
  PROVE  /\ step[p] = from /\ step'[p] = to
         /\ \A x \in Proc \ {p} : step'[x] = step[x]
BY DEF Shape, Goes

\* Nothing is staged yet, and what is unpacked in the end has been verified.
LEMMA DownloadKeeps ==
  ASSUME InstallInv, NEW p \in Proc,
         FetchSums(p) \/ FetchArchive(p) \/ Verify(p) \/ Unpack(p)
  PROVE  Keeps(p)
<1>1. Shape /\ Verified(p) /\ Tidy(p) /\ Stopped(p) /\ InstalledRuns
  BY DEF InstallInv
<1>2. Source(p) \in Release
  BY <1>1, InstallConstants DEF Source, Shape
<1>3. UNCHANGED <<newest, bin, tmp, staged, ready, signalled>> /\ InstalledRuns'
  BY <1>1 DEF FetchSums, FetchArchive, Verify, Unpack, InstalledRuns
<1>4. CASE FetchSums(p)
  <2>1. step'[p] = "archive" /\ archive' = archive
    BY <1>1, <1>4 DEF FetchSums, Goes, Shape
  <2>2. Shape' /\ OnlyMoves(p)
    BY <1>1, <1>3, <1>4 DEF FetchSums, Goes, Shape, Step, Steps, OnlyMoves
  <2>3. Verified(p)' /\ Tidy(p)' /\ Stopped(p)'
    BY <1>1, <1>3, <2>1 DEF Verified, Tidy, Stopped
  <2> QED BY <1>3, <2>2, <2>3 DEF Keeps
<1>5. CASE FetchArchive(p)
  <2>1. step'[p] = "verify" /\ archive'[p] \in Archive
    BY <1>1, <1>2, <1>5 DEF FetchArchive, Goes, Shape, Archive
  <2>2. Shape' /\ OnlyMoves(p)
    BY <1>1, <1>2, <1>3, <1>5 DEF FetchArchive, Goes, Shape, Step, Steps, Archive, OnlyMoves
  <2>3. Verified(p)' /\ Tidy(p)' /\ Stopped(p)'
    BY <1>1, <1>3, <2>1 DEF Verified, Tidy, Stopped
  <2> QED BY <1>3, <2>2, <2>3 DEF Keeps
<1>6. CASE Verify(p)
  <2>1. /\ step[p] = "verify" /\ step'[p] = "unpack"
        /\ archive' = archive /\ archive[p].whole
    BY <1>1, <1>6 DEF Verify, Goes, Shape
  <2>2. Shape' /\ OnlyMoves(p)
    BY <1>1, <1>3, <1>6 DEF Verify, Goes, Shape, Step, Steps, OnlyMoves
  <2>3. Verified(p)' /\ Tidy(p)' /\ Stopped(p)'
    BY <1>1, <1>3, <2>1 DEF Verified, Tidy, Stopped
  <2> QED BY <1>3, <2>2, <2>3 DEF Keeps
<1>7. CASE Unpack(p)
  <2>1. step[p] = "unpack" /\ step'[p] = "stage" /\ archive' = archive
    BY <1>1, <1>7 DEF Unpack, Goes, Shape
  <2>2. Shape' /\ OnlyMoves(p)
    BY <1>1, <1>3, <1>7 DEF Unpack, Goes, Shape, Step, Steps, OnlyMoves
  <2>3. Verified(p)' /\ Tidy(p)' /\ Stopped(p)'
    BY <1>1, <1>3, <2>1 DEF Verified, Tidy, Stopped
  <2> QED BY <1>3, <2>2, <2>3 DEF Keeps
<1> QED BY <1>4, <1>5, <1>6, <1>7

\* Only an installer that has had no signal stages, since it needs its files.
LEMMA StageKeeps ==
  ASSUME InstallInv, NEW p \in Proc, Stage(p) \/ StageFails(p)
  PROVE  Keeps(p)
<1>1. Shape /\ Verified(p) /\ Tidy(p) /\ Stopped(p) /\ InstalledRuns
  BY DEF InstallInv
<1>2. UNCHANGED <<newest, bin, tmp, archive, signalled>> /\ InstalledRuns'
  BY <1>1 DEF Stage, StageFails, InstalledRuns
<1>3. step[p] = "stage" /\ tmp[p] /\ ~signalled[p] /\ archive[p] \in Archive /\ archive[p].whole
  BY <1>1 DEF Stage, StageFails, Goes, Verified, Stopped
<1>4. CASE Stage(p)
  <2>1. step'[p] = "try" /\ staged'[p] = archive[p] /\ ready'[p] = TRUE
    BY <1>1, <1>4 DEF Stage, Goes, Shape
  <2>2. Shape' /\ OnlyMoves(p)
    BY <1>1, <1>2, <1>4 DEF Stage, Goes, Shape, Step, Steps, OnlyMoves
  <2>3. Verified(p)' /\ Tidy(p)' /\ Stopped(p)'
    BY <1>2, <1>3, <2>1 DEF Verified, Tidy, Stopped
  <2> QED BY <1>2, <2>2, <2>3 DEF Keeps
<1>5. CASE StageFails(p)
  <2>1. step'[p] = "fail" /\ ready'[p] = TRUE
    BY <1>1, <1>5 DEF StageFails, Goes, Shape
  <2>2. [archive[p] EXCEPT !.whole = FALSE] \in Archive
    BY <1>3 DEF Archive
  <2>3. Shape' /\ OnlyMoves(p)
    BY <1>1, <1>2, <1>5, <2>2 DEF StageFails, Goes, Shape, Step, Steps, OnlyMoves
  <2>4. Verified(p)' /\ Tidy(p)' /\ Stopped(p)'
    BY <1>2, <1>3, <2>1 DEF Verified, Tidy, Stopped
  <2> QED BY <1>2, <2>3, <2>4 DEF Keeps
<1> QED BY <1>4, <1>5

\* What is renamed into place was whole when it was staged, and has run.
LEMMA SwapKeeps ==
  ASSUME InstallInv, NEW p \in Proc, TryRun(p) \/ TryFails(p) \/ Rename(p)
  PROVE  Keeps(p)
<1>1. Shape /\ Verified(p) /\ Tidy(p) /\ Stopped(p) /\ InstalledRuns
  BY DEF InstallInv
<1>2. CASE TryRun(p)
  <2>1. /\ step[p] = "try" /\ step'[p] = "rename" /\ staged[p].of \in RunsHere
        /\ UNCHANGED <<newest, bin, tmp, archive, staged, ready, signalled>>
    BY <1>1, <1>2 DEF TryRun, Goes, Shape
  <2>2. Shape' /\ OnlyMoves(p) /\ InstalledRuns'
    BY <1>1, <1>2 DEF TryRun, Goes, Shape, Step, Steps, OnlyMoves, InstalledRuns
  <2>3. Verified(p)' /\ Tidy(p)' /\ Stopped(p)'
    BY <1>1, <2>1 DEF Verified, Tidy, Stopped
  <2> QED BY <2>2, <2>3 DEF Keeps
<1>3. CASE TryFails(p)
  <2>1. /\ step'[p] = "fail" /\ staged'[p] = None
        /\ UNCHANGED <<newest, bin, tmp, archive, signalled>>
    BY <1>1, <1>3 DEF TryFails, Goes, Shape
  <2>2. Shape' /\ OnlyMoves(p) /\ InstalledRuns'
    BY <1>1, <1>3 DEF TryFails, Goes, Shape, Step, Steps, OnlyMoves, InstalledRuns
  <2>3. Verified(p)' /\ Tidy(p)' /\ Stopped(p)'
    BY <1>1, <2>1 DEF Verified, Tidy, Stopped
  <2> QED BY <2>2, <2>3 DEF Keeps
<1>4. CASE Rename(p)
  <2>1. /\ step[p] = "rename" /\ step'[p] = "exit" /\ staged'[p] = None
        /\ staged[p] # None /\ bin' = staged[p]
        /\ UNCHANGED <<newest, tmp, archive, signalled>>
    BY <1>1, <1>4 DEF Rename, Goes, Shape
  <2>2. Shape' /\ OnlyMoves(p)
    BY <1>1, <1>4 DEF Rename, Goes, Shape, Step, Steps, OnlyMoves
  <2>3. InstalledRuns'
    BY <1>1, <2>1 DEF Verified, InstalledRuns
  <2>4. Verified(p)' /\ Tidy(p)' /\ Stopped(p)'
    BY <1>1, <2>1 DEF Verified, Tidy, Stopped
  <2> QED BY <2>2, <2>3, <2>4 DEF Keeps
<1> QED BY <1>2, <1>3, <1>4

LEMMA CleanUpTakesAll ==
  ASSUME Shape, NEW p \in Proc, Tidy(p), CleanUp(p)
  PROVE  /\ ~tmp'[p] /\ staged'[p] = None
         /\ tmp' \in [Proc -> BOOLEAN] /\ staged' \in [Proc -> Archive \cup {None}]
         /\ \A x \in Proc \ {p} : tmp'[x] = tmp[x] /\ staged'[x] = staged[x]
BY DEF Shape, Tidy, CleanUp

\* However an installer ends, and whenever it is told to.
LEMMA EndKeeps ==
  ASSUME InstallInv, NEW p \in Proc, StepFails(p) \/ Exit(p) \/ Signal(p) \/ Kill(p)
  PROVE  Keeps(p)
<1>1. Shape /\ Verified(p) /\ Tidy(p) /\ Stopped(p) /\ InstalledRuns
  BY DEF InstallInv
<1>2. UNCHANGED <<newest, bin, archive>> /\ InstalledRuns'
  BY <1>1 DEF StepFails, Exit, Signal, Kill, InstalledRuns
<1>3. CASE StepFails(p)
  <2>1. /\ step'[p] = "fail" /\ ready'[p] \in {ready[p], TRUE}
        /\ UNCHANGED <<tmp, staged, signalled>>
    BY <1>1, <1>3 DEF StepFails, Shape
  <2>2. Shape' /\ OnlyMoves(p)
    BY <1>1, <1>2, <1>3 DEF StepFails, Shape, Step, OnlyMoves
  <2>3. Verified(p)' /\ Tidy(p)' /\ Stopped(p)'
    BY <1>1, <1>2, <2>1 DEF Verified, Tidy, Stopped
  <2> QED BY <1>2, <2>2, <2>3 DEF Keeps
<1>4. CASE Exit(p)
  <2>1. /\ step'[p] \in {"failed", "installed"} /\ CleanUp(p)
        /\ UNCHANGED <<ready, signalled>>
    BY <1>1, <1>4 DEF Exit, Shape
  <2>2. Shape' /\ OnlyMoves(p)
    BY <1>1, <1>2, <1>4, <2>1, CleanUpTakesAll DEF Exit, Shape, Step, OnlyMoves
  <2>3. Verified(p)' /\ Tidy(p)' /\ Stopped(p)'
    BY <1>1, <2>1, CleanUpTakesAll DEF Verified, Tidy, Stopped
  <2> QED BY <1>2, <2>2, <2>3 DEF Keeps
<1>5. CASE Signal(p)
  <2>1. CleanUp(p) /\ UNCHANGED <<step, ready>>
    BY <1>5 DEF Signal
  <2>2. step[p] \notin {"installed", "failed"}
    BY <1>5 DEF Signal, Steps
  <2>3. Shape' /\ OnlyMoves(p)
    BY <1>1, <1>2, <1>5, <2>1, CleanUpTakesAll DEF Signal, Shape, OnlyMoves
  <2>4. Verified(p)' /\ Tidy(p)' /\ Stopped(p)'
    BY <1>1, <1>2, <2>1, <2>2, CleanUpTakesAll DEF Verified, Tidy, Stopped
  <2> QED BY <1>2, <2>3, <2>4 DEF Keeps
<1>6. CASE Kill(p)
  <2>1. step'[p] = "killed" /\ UNCHANGED <<tmp, staged, ready, signalled>>
    BY <1>1, <1>6 DEF Kill, Shape
  <2>2. Shape' /\ OnlyMoves(p)
    BY <1>1, <1>2, <1>6 DEF Kill, Shape, Step, OnlyMoves
  <2>3. Verified(p)' /\ Tidy(p)' /\ Stopped(p)'
    BY <1>1, <1>2, <2>1 DEF Verified, Tidy, Stopped
  <2> QED BY <1>2, <2>2, <2>3 DEF Keeps
<1> QED BY <1>3, <1>4, <1>5, <1>6

LEMMA InvStep == InstallInv /\ [Next]_vars => InstallInv'
<1> SUFFICES ASSUME InstallInv, [Next]_vars
             PROVE  InstallInv'
  OBVIOUS
<1>1. ASSUME NEW p \in Proc, FetchSums(p) \/ FetchArchive(p) \/ Verify(p) \/ Unpack(p)
      PROVE  InstallInv'
  BY <1>1, DownloadKeeps, KeepsInv
<1>2. ASSUME NEW p \in Proc, Stage(p) \/ StageFails(p)
      PROVE  InstallInv'
  BY <1>2, StageKeeps, KeepsInv
<1>3. ASSUME NEW p \in Proc, TryRun(p) \/ TryFails(p) \/ Rename(p)
      PROVE  InstallInv'
  BY <1>3, SwapKeeps, KeepsInv
<1>4. ASSUME NEW p \in Proc, StepFails(p) \/ Exit(p) \/ Signal(p) \/ Kill(p)
      PROVE  InstallInv'
  BY <1>4, EndKeeps, KeepsInv
<1>5. CASE Publish
  <2>1. newest' \in Release /\ UNCHANGED <<bin, step, tmp, archive, staged, ready, signalled>>
    BY <1>5 DEF Publish
  <2> QED BY <2>1 DEF InstallInv, Shape, Verified, Tidy, Stopped, InstalledRuns
<1>6. CASE UNCHANGED vars
  BY <1>6 DEF vars, InstallInv, Shape, Verified, Tidy, Stopped, InstalledRuns
<1> QED BY <1>1, <1>2, <1>3, <1>4, <1>5, <1>6 DEF Next

LEMMA InvHolds == Spec => []InstallInv
BY InvInitially, InvStep, PTL DEF Spec

-----------------------------------------------------------------------------
(* What an upgrade promises                                                *)

\* The installed binary is the one there before or a whole one seen to run, at
\* every moment (install.sh, from the staging to the rename).
THEOREM InstalledAlwaysRuns == Spec => []InstalledRuns
<1>1. InstallInv => InstalledRuns
  BY DEF InstallInv
<1> QED BY <1>1, InvHolds, PTL

\* An installer that has ended has left nothing behind (cleanup of install.sh).
THEOREM NothingIsLeftOver == Spec => []NoLeftovers
<1>1. InstallInv => NoLeftovers
  BY DEF InstallInv, Tidy, NoLeftovers
<1> QED BY <1>1, InvHolds, PTL

\* A signal before the rename is as good as an exit: the trap does not stop the
\* script, but what it removed does (install.sh).
THEOREM StopsAreKept == Spec => StoppedInstallsNothing
<1> DEFINE Unsignalled == \A p \in Proc :
                            step[p] = "rename" /\ step'[p] = "exit" => ~signalled[p]
<1>1. InstallInv /\ [Next]_vars => [Unsignalled]_vars
  <2> SUFFICES ASSUME InstallInv, Next, NEW p \in Proc,
                      step[p] = "rename", step'[p] = "exit"
               PROVE  ~signalled[p]
    OBVIOUS
  <2>1. PICK x \in Proc : Goes(x, "rename", "exit") /\ staged[x] # None
    <3>1. step' # step
      OBVIOUS
    <3>2. PICK x \in Proc :
            \/ FetchSums(x) \/ FetchArchive(x) \/ Verify(x) \/ Unpack(x)
            \/ Stage(x) \/ StageFails(x) \/ TryRun(x) \/ TryFails(x) \/ Rename(x)
            \/ StepFails(x) \/ Exit(x) \/ Kill(x)
      BY <3>1 DEF Next, Signal, Publish
    <3>3. x = p /\ Shape
      BY <3>2 DEF InstallInv, Shape, FetchSums, FetchArchive, Verify, Unpack, Stage, StageFails,
                  TryRun, TryFails, Rename, StepFails, Exit, Kill, Goes
    <3>4. Rename(p)
      BY <3>2, <3>3 DEF Shape, FetchSums, FetchArchive, Verify, Unpack, Stage, StageFails,
                        TryRun, TryFails, StepFails, Exit, Kill, Goes
    <3> QED BY <3>4 DEF Rename
  <2>2. x = p
    BY <2>1 DEF InstallInv, Shape, Goes
  <2> QED BY <2>1, <2>2 DEF InstallInv, Stopped
<1>2. Spec => [][Unsignalled]_vars
  BY <1>1, InvHolds, PTL DEF Spec
<1> QED BY <1>2 DEF StoppedInstallsNothing
============================================================================
