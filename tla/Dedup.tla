------------------------------- MODULE Dedup -------------------------------
(***************************************************************************)
(* to_rows of src/src/queries/mod.rs: the identity rows of all statements  *)
(* of a run, in the order they arrived, become one row per certificate.    *)
(*                                                                         *)
(* A certificate may have several crt.sh IDs: its precertificate and its   *)
(* leaf share issuer, serial and validity.  Rows are grouped by ID first,  *)
(* then, in the order of the IDs, by issuer, serial and validity.          *)
(*                                                                         *)
(* Left out: the order of the identities in a row, and that of the rows    *)
(* before the caller sorts them.                                           *)
(***************************************************************************)
EXTENDS Integers, Sequences

CONSTANTS
  Id,        \* crt.sh IDs
  Identity,  \* what a certificate may be matched by
  Facts,     \* what is known of a certificate: issuer, serial, validity
  MaxRows,   \* bound: raw rows of a run
  None       \* no serial

ASSUME DedupConstants ==
  /\ Id \subseteq Nat
  /\ MaxRows \in Nat
  /\ \A f, g \in Facts :
       f.issuer = g.issuer /\ f.serial = g.serial /\ f.valid = g.valid => f = g

RawRow == [id : Id, identity : Identity]
Row == [id : Id, identities : (SUBSET Identity) \ {{}}]

VARIABLES
  facts,   \* the facts about each certificate, the same in all its rows
  dedupe,  \* whether the run collapses, that is, has no --no-dedupe
  raw,     \* the raw rows, in the order they arrived
  seen,    \* how many of them are grouped
  byId,    \* the identities collected for each ID; none: no entry
  kept,    \* by_serial and no_serial: the rows of the groups made so far
  phase,   \* "grouping", "pairing" or "done"
  out      \* the rows returned

vars == <<facts, dedupe, raw, seen, byId, kept, phase, out>>

Init ==
  /\ facts \in [Id -> Facts]
  /\ dedupe \in BOOLEAN
  /\ raw \in UNION {[1..n -> RawRow] : n \in 0..MaxRows}
  /\ seen = 0
  /\ byId = [i \in Id |-> {}]
  /\ kept = <<>>
  /\ phase = "grouping"
  /\ out = <<>>

Expand ==
  /\ phase = "grouping"
  /\ ~dedupe
  /\ out' = [n \in DOMAIN raw |-> [id |-> raw[n].id, identities |-> {raw[n].identity}]]
  /\ phase' = "done"
  /\ UNCHANGED <<facts, dedupe, raw, seen, byId, kept>>

GroupRow ==
  /\ phase = "grouping"
  /\ dedupe
  /\ seen < Len(raw)
  /\ LET row == raw[seen + 1]
     IN  byId' = [byId EXCEPT ![row.id] = @ \cup {row.identity}]
  /\ seen' = seen + 1
  /\ UNCHANGED <<facts, dedupe, raw, kept, phase, out>>

Regroup ==
  /\ phase = "grouping"
  /\ dedupe
  /\ seen = Len(raw)
  /\ phase' = "pairing"
  /\ UNCHANGED <<facts, dedupe, raw, seen, byId, kept, out>>

Present == {i \in Id : byId[i] # {}}

\* i comes next in ascending order of the IDs.
IsNext(i) == i \in Present /\ \A j \in Present : i <= j

InGroup(i, j) ==
  /\ facts[i].serial # None
  /\ facts[i].serial = facts[j].serial
  /\ facts[i].issuer = facts[j].issuer

\* Mutants of Matches: the validity is ignored; only the first row that a
\* serial brought is compared with.
Matches_AnyValidity(n, i) == InGroup(kept[n].id, i)
Matches_OneSlot(n, i) ==
  /\ InGroup(kept[n].id, i)
  /\ facts[kept[n].id].valid = facts[i].valid
  /\ \A m \in 1..(n - 1) : ~InGroup(kept[m].id, i)

\* is_same_cert_as, among the rows of i's issuer and serial.
Matches(n, i) ==
  /\ InGroup(kept[n].id, i)
  /\ facts[kept[n].id].valid = facts[i].valid

\* Mutant of Pair: the pair's identities are dropped.
Pair_Drops(i) ==
  /\ phase = "pairing"
  /\ IsNext(i)
  /\ \E n \in DOMAIN kept : Matches(n, i)
  /\ byId' = [byId EXCEPT ![i] = {}]
  /\ UNCHANGED <<facts, dedupe, raw, seen, kept, phase, out>>

\* The other half of a pair gives its identities to the row kept.
Pair(i) ==
  /\ phase = "pairing"
  /\ IsNext(i)
  /\ \E n \in DOMAIN kept :
       /\ Matches(n, i)
       /\ \A m \in 1..(n - 1) : ~Matches(m, i)
       /\ kept' = [kept EXCEPT ![n].identities = @ \cup byId[i]]
  /\ byId' = [byId EXCEPT ![i] = {}]
  /\ UNCHANGED <<facts, dedupe, raw, seen, phase, out>>

Keep(i) ==
  /\ phase = "pairing"
  /\ IsNext(i)
  /\ \A n \in DOMAIN kept : ~Matches(n, i)
  /\ kept' = Append(kept, [id |-> i, identities |-> byId[i]])
  /\ byId' = [byId EXCEPT ![i] = {}]
  /\ UNCHANGED <<facts, dedupe, raw, seen, phase, out>>

Return ==
  /\ phase = "pairing"
  /\ Present = {}
  /\ out' = kept
  /\ phase' = "done"
  /\ UNCHANGED <<facts, dedupe, raw, seen, byId, kept>>

Next ==
  \/ Expand
  \/ GroupRow
  \/ Regroup
  \/ \E i \in Id : Pair(i) \/ Keep(i)
  \/ Return

Spec == Init /\ [][Next]_vars

-----------------------------------------------------------------------------
(* Properties                                                              *)

TypeOK ==
  /\ facts \in [Id -> Facts]
  /\ dedupe \in BOOLEAN
  /\ raw \in Seq(RawRow)
  /\ seen \in 0..Len(raw)
  /\ byId \in [Id -> SUBSET Identity]
  /\ kept \in Seq(Row)
  /\ phase \in {"grouping", "pairing", "done"}
  /\ out \in Seq(Row)

\* What to_rows is to decide: whether two IDs are one certificate.
SameCertificate(i, j) ==
  \/ i = j
  \/ /\ facts[i].serial # None
     /\ facts[i] = facts[j]

\* The raw rows of i's certificate, under whichever of its IDs.
RowsOf(i) == {n \in DOMAIN raw : SameCertificate(raw[n].id, i)}

\* No certificate is reported twice, in whatever order its rows and those of
\* certificates that collide with its serial arrived.
OneRowPerCertificate ==
  phase = "done" /\ dedupe =>
    \A m, n \in DOMAIN out : SameCertificate(out[m].id, out[n].id) => m = n

\* A reported row is its certificate's, whole: it has the identities of all the
\* rows of its certificate and of no other, and goes by its lowest ID ("merging
\* those would drop one certificate entirely and leave the survivor advertising
\* identities it does not carry").
IdentitiesAreItsOwn ==
  phase = "done" /\ dedupe =>
    \A n \in DOMAIN out :
      /\ out[n].identities = {raw[m].identity : m \in RowsOf(out[n].id)}
      /\ \A m \in RowsOf(out[n].id) : out[n].id <= raw[m].id

\* Nothing that was fetched goes missing.
NothingLost ==
  phase = "done" =>
    \A m \in DOMAIN raw : \E n \in DOMAIN out :
      /\ SameCertificate(raw[m].id, out[n].id)
      /\ raw[m].identity \in out[n].identities
=============================================================================
