------------------------------ MODULE Install ------------------------------
(***************************************************************************)
(* src/install.sh: fetch the checksums and the archive of a release,       *)
(* verify, unpack, stage the binary beside the installed one, run it, and  *)
(* only then rename it into place.                                         *)
(*                                                                         *)
(* Several installers may share a directory; releases may be published     *)
(* between two downloads; any step may fail; and a signal may arrive at    *)
(* any moment.  The trap for a signal cleans up but does not exit: the     *)
(* script goes on with its next step, without its files.                   *)
(***************************************************************************)
EXTENDS Integers

CONSTANTS
  Proc,      \* the installers
  Release,   \* the releases that have a build for this target, in order
  Pinned,    \* Pinned[p]: the release given by --version, None for the newest
  RunsHere,  \* the releases whose binary starts on this system
  Before,    \* a binary that was there before the first run
  None

ASSUME InstallConstants ==
  /\ Release \subseteq Nat
  /\ Pinned \in [Proc -> Release \cup {None}]
  /\ RunsHere \subseteq Release
  /\ None \notin Release

Archive == [of : Release, whole : BOOLEAN]

VARIABLES
  newest,    \* the release that releases/latest leads to
  bin,       \* $dir/crt-query: None, Before, or an archive's
  step,      \* the next step of each installer
  tmp,       \* whether its temporary directory exists
  sums,      \* the release of the SHA256SUMS it fetched
  archive,   \* the archive it fetched
  staged,    \* its staged binary in $dir
  ready,     \* $staged: whether the clean-up has a staged binary to remove
  signalled  \* whether it got a signal before its rename (history)

vars == <<newest, bin, step, tmp, sums, archive, staged, ready, signalled>>

Steps == {"sums", "archive", "verify", "unpack", "stage", "try", "rename"}

Init ==
  /\ newest \in Release
  /\ bin \in {None, Before}
  /\ step = [p \in Proc |-> "sums"]
  /\ tmp = [p \in Proc |-> TRUE]
  /\ sums = [p \in Proc |-> None]
  /\ archive = [p \in Proc |-> None]
  /\ staged = [p \in Proc |-> None]
  /\ ready = [p \in Proc |-> FALSE]
  /\ signalled = [p \in Proc |-> FALSE]

Goes(p, from, to) ==
  /\ step[p] = from
  /\ step' = [step EXCEPT ![p] = to]

\* $base: where p downloads from at this moment.
Source(p) == IF Pinned[p] = None THEN newest ELSE Pinned[p]

FetchSums(p) ==
  /\ Goes(p, "sums", "archive")
  /\ tmp[p]
  /\ sums' = [sums EXCEPT ![p] = Source(p)]
  /\ UNCHANGED <<newest, bin, tmp, archive, staged, ready, signalled>>

\* The archive is asked for by a name that carries the release of the sums:
\* another release has none of that name.
FetchArchive(p) ==
  /\ Goes(p, "archive", "verify")
  /\ tmp[p]
  /\ Source(p) = sums[p]
  /\ \E whole \in BOOLEAN :
       archive' = [archive EXCEPT ![p] = [of |-> Source(p), whole |-> whole]]
  /\ UNCHANGED <<newest, bin, tmp, sums, staged, ready, signalled>>

\* The one line of the sums for this archive is what it must match.
Verify(p) ==
  /\ Goes(p, "verify", "unpack")
  /\ tmp[p]
  /\ archive[p] = [of |-> sums[p], whole |-> TRUE]
  /\ UNCHANGED <<newest, bin, tmp, sums, archive, staged, ready, signalled>>

Unpack(p) ==
  /\ Goes(p, "unpack", "stage")
  /\ tmp[p]
  /\ UNCHANGED <<newest, bin, tmp, sums, archive, staged, ready, signalled>>

\* Mutant of Stage: the binary is installed at once.
Stage_InPlace(p) ==
  /\ Goes(p, "stage", "try")
  /\ tmp[p]
  /\ bin' = archive[p]
  /\ staged' = [staged EXCEPT ![p] = archive[p]]
  /\ ready' = [ready EXCEPT ![p] = TRUE]
  /\ UNCHANGED <<newest, tmp, sums, archive, signalled>>

\* $staged is set, then install copies the binary.
Stage(p) ==
  /\ Goes(p, "stage", "try")
  /\ tmp[p]
  /\ staged' = [staged EXCEPT ![p] = archive[p]]
  /\ ready' = [ready EXCEPT ![p] = TRUE]
  /\ UNCHANGED <<newest, bin, tmp, sums, archive, signalled>>

\* The copy breaks off; the clean-up knows of it.
StageFails(p) ==
  /\ Goes(p, "stage", "fail")
  /\ tmp[p]
  /\ staged' = [staged EXCEPT ![p] = [archive[p] EXCEPT !.whole = FALSE]]
  /\ ready' = [ready EXCEPT ![p] = TRUE]
  /\ UNCHANGED <<newest, bin, tmp, sums, archive, signalled>>

\* The staged binary prints its version; its stderr goes to a file in $tmp.
TryRun(p) ==
  /\ Goes(p, "try", "rename")
  /\ tmp[p]
  /\ staged[p] # None
  /\ staged[p].of \in RunsHere
  /\ UNCHANGED <<newest, bin, tmp, sums, archive, staged, ready, signalled>>

\* It does not start, or prints nothing: it is removed before the script dies.
TryFails(p) ==
  /\ Goes(p, "try", "fail")
  /\ staged' = [staged EXCEPT ![p] = None]
  /\ ready' = [ready EXCEPT ![p] = FALSE]
  /\ UNCHANGED <<newest, bin, tmp, sums, archive, signalled>>

Rename(p) ==
  /\ Goes(p, "rename", "exit")
  /\ staged[p] # None
  /\ bin' = staged[p]
  /\ staged' = [staged EXCEPT ![p] = None]
  /\ ready' = [ready EXCEPT ![p] = FALSE]
  /\ UNCHANGED <<newest, tmp, sums, archive, signalled>>

\* Any step may fail, and does if its files are gone: the script exits.
StepFails(p) ==
  /\ step[p] \in Steps \ {"stage", "try"} \/ (step[p] = "stage" /\ ~tmp[p])
  /\ step' = [step EXCEPT ![p] = "fail"]
  /\ ready' = [ready EXCEPT ![p] = IF step[p] = "stage" THEN TRUE ELSE @]
  /\ UNCHANGED <<newest, bin, tmp, sums, archive, staged, signalled>>

\* Mutant of CleanUp: the staged binary is not known to it.
CleanUp_TmpOnly(p) ==
  /\ tmp' = [tmp EXCEPT ![p] = FALSE]
  /\ UNCHANGED staged

CleanUp(p) ==
  /\ tmp' = [tmp EXCEPT ![p] = FALSE]
  /\ staged' = [staged EXCEPT ![p] = IF ready[p] THEN None ELSE @]

\* The trap at exit, whether the script has failed or not.
Exit(p) ==
  /\ step[p] \in {"fail", "exit"}
  /\ step' = [step EXCEPT ![p] = IF step[p] = "fail" THEN "failed" ELSE "installed"]
  /\ CleanUp(p)
  /\ UNCHANGED <<newest, bin, sums, archive, ready, signalled>>

\* HUP, INT or TERM, dealt with between two steps.
Signal(p) ==
  /\ step[p] \in Steps \cup {"fail", "exit"}
  /\ CleanUp(p)
  /\ signalled' = [signalled EXCEPT ![p] = @ \/ step[p] # "exit"]
  /\ UNCHANGED <<newest, bin, step, sums, archive, ready>>

Kill(p) ==
  /\ step[p] \notin {"installed", "failed", "killed"}
  /\ step' = [step EXCEPT ![p] = "killed"]
  /\ UNCHANGED <<newest, bin, tmp, sums, archive, staged, ready, signalled>>

Publish ==
  /\ \E r \in Release : r > newest /\ newest' = r
  /\ UNCHANGED <<bin, step, tmp, sums, archive, staged, ready, signalled>>

Next ==
  \/ \E p \in Proc :
       \/ FetchSums(p) \/ FetchArchive(p) \/ Verify(p) \/ Unpack(p)
       \/ Stage(p) \/ StageFails(p) \/ TryRun(p) \/ TryFails(p) \/ Rename(p)
       \/ StepFails(p) \/ Exit(p) \/ Signal(p) \/ Kill(p)
  \/ Publish

Spec == Init /\ [][Next]_vars

-----------------------------------------------------------------------------
(* Properties                                                              *)

\* "A binary that cannot run here had already replaced a working one": at no
\* moment, whatever fails or is killed, is the installed binary anything but
\* the one there before or a whole one that has been seen to run.
InstalledRuns ==
  bin \in {None, Before} \/ (bin.whole /\ bin.of \in RunsHere)

\* An installer told to stop before its rename installs nothing, though its
\* trap lets it run on: what the clean-up took is what the next step needs.
StoppedInstallsNothing ==
  [][\A p \in Proc : step[p] = "rename" /\ step'[p] = "exit" => ~signalled[p]]_vars

\* "does not leave a dotfile behind": an installer that ended by itself, or was
\* stopped by a signal, has left neither its temporary directory nor a staged
\* binary.
NoLeftovers ==
  \A p \in Proc : step[p] \in {"installed", "failed"} => ~tmp[p] /\ staged[p] = None
=============================================================================
