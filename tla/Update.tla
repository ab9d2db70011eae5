------------------------------- MODULE Update -------------------------------
(***************************************************************************)
(* crt-query check-update (src/src/update.rs): the newest release is read  *)
(* from where GitHub redirects, and compared with the running build.       *)
(*                                                                         *)
(* A redirect is [to, tag]: whether it leads to the releases/tag/ page of  *)
(* this repository, and what follows.  A tag is [readable, version]:       *)
(* whether it has only the characters of a version, and what they say once *)
(* the "v" in front is dropped.  A version is [core, pre, build]: the      *)
(* fields before the first "-", Junk where they are no numbers, the        *)
(* prerelease and the build metadata.                                      *)
(***************************************************************************)
EXTENDS Integers, Sequences

CONSTANTS
  NoAnswer,  \* curl is missing, fails or times out
  Junk,      \* a field that is not a number of 64 bits
  Release,   \* no prerelease
  Current    \* the version of the running build

\* The position of a prerelease text in the order of texts is a number.
IsVersion(version) ==
  /\ version.core \in Seq({Junk} \cup Nat)
  /\ version.pre \in {Release} \cup Nat

ASSUME CurrentIsVersion == IsVersion(Current)

\* The tag's characters are the last of three conditions on the answer.
NamesRelease(redirect) ==
  /\ redirect # NoAnswer
  /\ redirect.to = "tag"
  /\ redirect.tag.readable

Parses(version) ==
  Len(version.core) = 3 /\ \A i \in 1..3 : version.core[i] # Junk

\* A release outranks its prereleases, which go by their text: its position in
\* the order of texts stands for it.
Rank(version) ==
  version.core \o IF version.pre = Release THEN <<1, 0>> ELSE <<0, version.pre>>

\* Mutant of Above: some field is above, whatever comes before it.
Above_AnyField(a, b) == \E i \in DOMAIN a : a[i] > b[i]

Above(a, b) ==
  \E i \in DOMAIN a : a[i] > b[i] /\ \A j \in 1..(i - 1) : a[j] = b[j]

\* Where a version cannot be read, any difference is an update.
IsNewer(latest, current) ==
  IF Parses(latest) /\ Parses(current) THEN Above(Rank(latest), Rank(current))
  ELSE latest # current

Summary(latest, current) ==
  IF IsNewer(latest, current) THEN "available"
  ELSE IF latest = current THEN "latest" ELSE "ahead"
=============================================================================
