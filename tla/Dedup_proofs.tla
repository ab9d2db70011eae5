---------------------------- MODULE Dedup_proofs ----------------------------
(***************************************************************************)
(* to_rows for any number of rows, IDs and identities, in any order: one   *)
(* row per certificate, whole, under its lowest ID, and nothing lost.      *)
(***************************************************************************)
EXTENDS Dedup, TLAPS

\* The identities that arrived for an ID, among the first n raw rows.
Among(n, i) == {raw[m].identity : m \in {k \in 1..n : raw[k].id = i}}
Arrived(i) == Among(Len(raw), i)

\* The IDs that the second pass has dealt with.
Taken(i) == i \in Id /\ Arrived(i) # {} /\ byId[i] = {}

Grouping ==
  phase = "grouping" =>
    /\ kept = <<>>
    /\ \A i \in Id : byId[i] = Among(seen, i)

\* The second pass goes by ascending ID, and each ID still present is complete.
Ascending ==
  /\ \A i \in Id : byId[i] # {} => byId[i] = Arrived(i)
  /\ \A i, j \in Id : Taken(i) /\ byId[j] # {} => i < j

\* A kept row stands for what has been taken of its certificate, so far.
StandsFor(row) ==
  /\ Taken(row.id)
  /\ \A i \in Id : Taken(i) /\ SameCertificate(i, row.id) => row.id <= i
  /\ \A x : x \in row.identities <=>
       \E i \in Id : Taken(i) /\ SameCertificate(i, row.id) /\ x \in Arrived(i)

Apart(rows) ==
  \A m, n \in DOMAIN rows : SameCertificate(rows[m].id, rows[n].id) => m = n

Covered ==
  \A i \in Id : Taken(i) => \E n \in DOMAIN kept : SameCertificate(i, kept[n].id)

Pairing ==
  phase = "pairing" =>
    /\ dedupe
    /\ Ascending
    /\ \A n \in DOMAIN kept : StandsFor(kept[n])
    /\ Apart(kept)
    /\ Covered

Done ==
  /\ OneRowPerCertificate
  /\ IdentitiesAreItsOwn
  /\ NothingLost

DedupInv == TypeOK /\ Grouping /\ Pairing /\ Done

\* Being one certificate is an equivalence.
LEMMA SameIsEquivalence ==
  /\ \A i : SameCertificate(i, i)
  /\ \A i, j : SameCertificate(i, j) => SameCertificate(j, i)
  /\ \A i, j, k : SameCertificate(i, j) /\ SameCertificate(j, k) => SameCertificate(i, k)
BY DEF SameCertificate

\* Raw rows and kept rows are rows.
LEMMA RowsAreRows ==
  ASSUME TypeOK
  PROVE  /\ DOMAIN raw = 1..Len(raw) /\ Len(raw) \in Nat
         /\ \A m \in DOMAIN raw : raw[m].id \in Id /\ raw[m].identity \in Identity
         /\ DOMAIN kept = 1..Len(kept) /\ Len(kept) \in Nat
         /\ \A n \in DOMAIN kept :
              /\ kept[n] \in Row
              /\ kept[n].id \in Id
              /\ kept[n].identities \subseteq Identity
              /\ kept[n].identities # {}
<1>1. raw \in Seq(RawRow) /\ kept \in Seq(Row)
  BY DEF TypeOK
<1>2. /\ DOMAIN raw = 1..Len(raw) /\ Len(raw) \in Nat
      /\ \A m \in DOMAIN raw : raw[m] \in RawRow
  BY <1>1
<1>3. /\ DOMAIN kept = 1..Len(kept) /\ Len(kept) \in Nat
      /\ \A n \in DOMAIN kept : kept[n] \in Row
  BY <1>1
<1>4. \A r \in RawRow : r.id \in Id /\ r.identity \in Identity
  BY DEF RawRow
<1>5. \A r \in Row : r.id \in Id /\ r.identities \subseteq Identity /\ r.identities # {}
  BY DEF Row
<1> QED BY <1>2, <1>3, <1>4, <1>5

\* is_same_cert_as, asked within an issuer and serial, decides just that.
LEMMA MatchesIsSame ==
  ASSUME DedupConstants, TypeOK, NEW n \in DOMAIN kept, NEW i \in Id, kept[n].id # i
  PROVE  Matches(n, i) <=> SameCertificate(kept[n].id, i)
<1>1. kept[n].id \in Id
  BY RowsAreRows
<1>2. facts[kept[n].id] \in Facts /\ facts[i] \in Facts
  BY <1>1 DEF TypeOK
<1>3. /\ facts[kept[n].id].issuer = facts[i].issuer
      /\ facts[kept[n].id].serial = facts[i].serial
      /\ facts[kept[n].id].valid = facts[i].valid
      => facts[kept[n].id] = facts[i]
  BY <1>2 DEF DedupConstants
<1> QED BY <1>3 DEF Matches, InGroup, SameCertificate

\* An identity that arrived for an ID is in one of its raw rows.
LEMMA ArrivedRows ==
  ASSUME TypeOK
  PROVE  /\ \A i \in Id : Arrived(i) \subseteq Identity
         /\ \A i, x : x \in Arrived(i) <=>
              \E m \in DOMAIN raw : raw[m].id = i /\ raw[m].identity = x
BY RowsAreRows DEF Arrived, Among

-----------------------------------------------------------------------------
LEMMA TypeInit == ASSUME DedupConstants, Init PROVE TypeOK
<1>1. raw \in Seq(RawRow)
  <2>1. PICK n \in 0..MaxRows : raw \in [1..n -> RawRow]
    BY DEF Init
  <2> QED BY <2>1, DedupConstants DEF DedupConstants
<1> QED BY <1>1 DEF Init, TypeOK

LEMMA TypeNext == ASSUME TypeOK, [Next]_vars PROVE TypeOK'
<1>1. CASE UNCHANGED vars
  BY <1>1 DEF TypeOK, vars
<1>2. CASE Expand
  <2>1. \A m \in DOMAIN raw : [id |-> raw[m].id, identities |-> {raw[m].identity}] \in Row
    BY RowsAreRows DEF Row
  <2>2. out' \in [1..Len(raw) -> Row]
    BY <1>2, <2>1, RowsAreRows DEF Expand
  <2>3. out' \in Seq(Row)
    BY <2>2, RowsAreRows
  <2> QED BY <1>2, <2>3 DEF Expand, TypeOK
<1>3. CASE GroupRow
  <2>1. seen + 1 \in DOMAIN raw
    BY <1>3, RowsAreRows DEF GroupRow, TypeOK
  <2>2. raw[seen + 1].id \in Id /\ raw[seen + 1].identity \in Identity
    BY <2>1, RowsAreRows
  <2>3. byId' \in [Id -> SUBSET Identity]
    BY <1>3, <2>2 DEF GroupRow, TypeOK
  <2>4. seen' \in 0..Len(raw')
    BY <1>3, <2>1, RowsAreRows DEF GroupRow, TypeOK
  <2> QED BY <1>3, <2>3, <2>4 DEF GroupRow, TypeOK
<1>4. CASE Regroup
  BY <1>4 DEF Regroup, TypeOK
<1>5. ASSUME NEW i \in Id, Pair(i) PROVE TypeOK'
  <2>1. PICK n \in DOMAIN kept : kept' = [kept EXCEPT ![n].identities = @ \cup byId[i]]
    BY <1>5 DEF Pair
  <2>2. /\ kept[n].id \in Id
        /\ kept[n].identities \cup byId[i] \in (SUBSET Identity) \ {{}}
    BY RowsAreRows DEF TypeOK
  <2>3. [kept[n] EXCEPT !.identities = @ \cup byId[i]] \in Row
    BY <2>2, RowsAreRows DEF Row
  <2>4. kept' \in Seq(Row)
    BY <2>1, <2>3, RowsAreRows DEF TypeOK
  <2> QED BY <1>5, <2>4 DEF Pair, TypeOK
<1>6. ASSUME NEW i \in Id, Keep(i) PROVE TypeOK'
  <2>1. byId[i] \in (SUBSET Identity) \ {{}}
    BY <1>6 DEF Keep, IsNext, Present, TypeOK
  <2>2. [id |-> i, identities |-> byId[i]] \in Row
    BY <2>1 DEF Row
  <2>3. kept' \in Seq(Row)
    BY <1>6, <2>2 DEF Keep, TypeOK
  <2> QED BY <1>6, <2>3 DEF Keep, TypeOK
<1>7. CASE Return
  BY <1>7 DEF Return, TypeOK
<1> QED BY <1>1, <1>2, <1>3, <1>4, <1>5, <1>6, <1>7 DEF Next

\* The state of the collapse keeps its shape.
THEOREM TypeCorrect == Spec => []TypeOK
<1>1. Init => TypeOK
  BY TypeInit, DedupConstants
<1>2. TypeOK /\ [Next]_vars => TypeOK'
  BY TypeNext
<1> QED BY <1>1, <1>2, PTL DEF Spec

-----------------------------------------------------------------------------
LEMMA InvInit == ASSUME DedupConstants, Init PROVE DedupInv
<1>1. TypeOK
  BY TypeInit
<1>2. 1..seen = {}
  BY DEF Init
<1>3. \A i \in Id : Among(seen, i) = {}
  BY <1>2 DEF Among
<1>4. Grouping
  BY <1>3 DEF Init, Grouping
<1> QED
  BY <1>1, <1>4
  DEF Init, DedupInv, Pairing, Done, OneRowPerCertificate, IdentitiesAreItsOwn, NothingLost

\* A run with --no-dedupe loses nothing either.
LEMMA ExpandInv == ASSUME DedupInv, Expand PROVE Grouping' /\ Pairing' /\ Done'
<1>1. TypeOK
  BY DEF DedupInv
<1>2. NothingLost'
  BY <1>1, RowsAreRows DEF Expand, NothingLost, SameCertificate
<1> QED
  BY <1>2 DEF Expand, Grouping, Pairing, Done, OneRowPerCertificate, IdentitiesAreItsOwn

LEMMA GroupRowInv == ASSUME DedupInv, GroupRow PROVE Grouping' /\ Pairing' /\ Done'
<1>1. TypeOK /\ Grouping
  BY DEF DedupInv
<1>2. seen + 1 \in DOMAIN raw /\ seen \in Nat
  BY <1>1, RowsAreRows DEF GroupRow, TypeOK
<1>3. ASSUME NEW i \in Id PROVE byId'[i] = Among(seen + 1, i)
  <2>1. byId[i] = Among(seen, i)
    BY <1>1 DEF GroupRow, Grouping
  <2>2. byId'[i] = IF raw[seen + 1].id = i THEN byId[i] \cup {raw[seen + 1].identity}
                                           ELSE byId[i]
    BY <1>1 DEF GroupRow, TypeOK
  <2>3. 1..(seen + 1) = (1..seen) \cup {seen + 1}
    BY <1>2
  <2> QED BY <2>1, <2>2, <2>3 DEF Among
<1>4. Grouping'
  BY <1>1, <1>3 DEF GroupRow, Grouping, Among
<1> QED
  BY <1>4
  DEF GroupRow, Pairing, Done, OneRowPerCertificate, IdentitiesAreItsOwn, NothingLost

LEMMA RegroupInv == ASSUME DedupInv, Regroup PROVE Grouping' /\ Pairing' /\ Done'
<1>1. TypeOK /\ kept' = <<>> /\ \A i \in Id : byId'[i] = Arrived(i)'
  BY DEF DedupInv, Regroup, Grouping, Arrived, Among
<1>2. \A i \in Id : ~Taken(i)'
  BY <1>1 DEF Taken
<1>3. Ascending' /\ Covered'
  BY <1>1, <1>2 DEF Ascending, Covered
<1>4. DOMAIN kept' = {}
  BY <1>1
<1>5. Pairing'
  BY <1>3, <1>4 DEF Regroup, Pairing, Apart
<1> QED
  BY <1>5 DEF Regroup, Grouping, Done, OneRowPerCertificate, IdentitiesAreItsOwn, NothingLost

\* What dealing with one ID leaves as it was.
LEMMA TakingOne ==
  ASSUME DedupInv, NEW i \in Id, Pair(i) \/ Keep(i)
  PROVE  /\ TypeOK /\ Pairing /\ phase = "pairing" /\ phase' = "pairing" /\ dedupe /\ dedupe'
         /\ facts' = facts /\ raw' = raw
         /\ Arrived(i) # {} /\ byId[i] = Arrived(i)
         /\ \A k : Arrived(k)' = Arrived(k)
         /\ \A k : Taken(k)' <=> Taken(k) \/ k = i
         /\ ~Taken(i)
         /\ \A k : Taken(k) => k < i
         /\ \A j, k : SameCertificate(j, k)' <=> SameCertificate(j, k)
         /\ Ascending'
<1>1. /\ TypeOK /\ Pairing /\ phase = "pairing" /\ phase' = "pairing"
      /\ facts' = facts /\ raw' = raw /\ dedupe' = dedupe
      /\ i \in Present /\ \A j \in Present : i <= j
      /\ byId' = [byId EXCEPT ![i] = {}]
  BY DEF DedupInv, Pair, Keep, IsNext
<1>2. dedupe /\ Ascending
  BY <1>1 DEF Pairing
<1>3. byId[i] # {} /\ byId[i] = Arrived(i)
  BY <1>1, <1>2 DEF Present, Ascending
<1>4. \A k : Arrived(k)' = Arrived(k)
  BY <1>1 DEF Arrived, Among
<1>5. \A k \in Id : byId'[k] = IF k = i THEN {} ELSE byId[k]
  BY <1>1 DEF TypeOK
<1>6. \A k : Taken(k)' <=> Taken(k) \/ k = i
  BY <1>3, <1>4, <1>5 DEF Taken
<1>7. \A k : Taken(k) => k < i
  BY <1>2, <1>3 DEF Ascending, Taken
<1>8. \A j, k : SameCertificate(j, k)' <=> SameCertificate(j, k)
  BY <1>1 DEF SameCertificate
<1>9. Ascending'
  <2>1. \A k \in Id : byId'[k] # {} => byId'[k] = Arrived(k)'
    BY <1>2, <1>4, <1>5 DEF Ascending
  <2>2. ASSUME NEW k \in Id, NEW j \in Id, Taken(k)', byId'[j] # {} PROVE k < j
    <3>1. j # i /\ byId[j] # {}
      BY <1>5, <2>2
    <3>2. CASE Taken(k)
      BY <1>2, <3>1, <3>2 DEF Ascending
    <3>3. CASE k = i
      <4>1. i <= j /\ i \in Nat /\ j \in Nat
        BY <1>1, <3>1, DedupConstants DEF Present, DedupConstants
      <4> QED BY <4>1, <3>1, <3>3
    <3> QED BY <2>2, <1>6, <3>2, <3>3
  <2> QED BY <2>1, <2>2 DEF Ascending
<1>10. ~Taken(i)
  BY <1>3 DEF Taken
<1> QED BY <1>1, <1>2, <1>3, <1>4, <1>6, <1>7, <1>8, <1>9, <1>10

LEMMA PairInv ==
  ASSUME DedupConstants, DedupInv, NEW i \in Id, Pair(i)
  PROVE  Grouping' /\ Pairing' /\ Done'
<1>1. PICK n \in DOMAIN kept : /\ Matches(n, i)
                              /\ kept' = [kept EXCEPT ![n].identities = @ \cup byId[i]]
  BY DEF Pair
<1>2. /\ TypeOK /\ Pairing /\ phase = "pairing" /\ phase' = "pairing" /\ dedupe'
      /\ byId[i] = Arrived(i) /\ Ascending'
  BY TakingOne
<1>3. /\ \A k : Taken(k)' <=> Taken(k) \/ k = i
      /\ \A k : Arrived(k)' = Arrived(k)
      /\ \A k : Taken(k) => k < i
      /\ ~Taken(i)
      /\ \A j, k : SameCertificate(j, k)' <=> SameCertificate(j, k)
  BY TakingOne
<1>4. /\ \A m \in DOMAIN kept : StandsFor(kept[m])
      /\ Apart(kept)
      /\ Covered
  BY <1>2 DEF Pairing
<1>5. SameCertificate(kept[n].id, i)
  BY <1>1, <1>2, <1>3, <1>4, MatchesIsSame DEF StandsFor
<1>6. /\ DOMAIN kept' = DOMAIN kept
      /\ \A m \in DOMAIN kept : kept'[m].id = kept[m].id
      /\ \A m \in DOMAIN kept : m # n => kept'[m] = kept[m]
      /\ kept'[n].identities = kept[n].identities \cup byId[i]
  <2>1. kept \in Seq(Row) /\ kept[n] \in Row
    BY <1>2, RowsAreRows DEF TypeOK
  <2>2. kept' = [kept EXCEPT ![n] = [kept[n] EXCEPT !.identities = kept[n].identities \cup byId[i]]]
    BY <1>1
  <2>3. kept'[n] = [kept[n] EXCEPT !.identities = kept[n].identities \cup byId[i]]
    BY <2>1, <2>2
  <2>4. DOMAIN kept' = DOMAIN kept /\ \A m \in DOMAIN kept : m # n => kept'[m] = kept[m]
    BY <2>1, <2>2
  <2>5. kept'[n].id = kept[n].id /\ kept'[n].identities = kept[n].identities \cup byId[i]
    BY <2>1, <2>3 DEF Row
  <2> QED BY <2>4, <2>5
<1>7. Apart(kept)'
  BY <1>3, <1>4, <1>6 DEF Apart
<1>8. Covered'
  BY <1>3, <1>4, <1>5, <1>6, SameIsEquivalence DEF Covered
<1>9. ASSUME NEW m \in DOMAIN kept, m # n PROVE StandsFor(kept[m])'
  <2>1. ~SameCertificate(i, kept[m].id)
    BY <1>4, <1>5, <1>9, SameIsEquivalence DEF Apart
  <2>2. kept'[m] = kept[m]
    BY <1>6, <1>9
  <2>3. \A k : Taken(k)' /\ SameCertificate(k, kept[m].id) => Taken(k)
    BY <1>3, <2>1
  <2> QED BY <1>3, <1>4, <2>2, <2>3 DEF StandsFor
<1>10. StandsFor(kept[n])'
  <2>1. StandsFor(kept[n])
    BY <1>4
  <2>2. Taken(kept[n].id)'
    BY <1>3, <1>6, <2>1 DEF StandsFor
  <2>3. ASSUME NEW k \in Id, Taken(k)', SameCertificate(k, kept[n].id) PROVE kept[n].id <= k
    <3>1. CASE Taken(k)
      BY <2>1, <2>3, <3>1 DEF StandsFor
    <3>2. CASE k = i
      <4>1. kept[n].id < i /\ kept[n].id \in Nat /\ i \in Nat
        BY <1>2, <1>3, <2>1, RowsAreRows, DedupConstants DEF StandsFor, DedupConstants
      <4> QED BY <4>1, <3>2
    <3> QED BY <1>3, <2>3, <3>1, <3>2
  <2>4. ASSUME NEW x
        PROVE  x \in kept'[n].identities <=>
                 \E k \in Id : Taken(k)' /\ SameCertificate(k, kept[n].id) /\ x \in Arrived(k)
    <3>1. x \in kept'[n].identities <=> x \in kept[n].identities \/ x \in Arrived(i)
      BY <1>2, <1>6
    <3>2. x \in kept[n].identities <=>
            \E k \in Id : Taken(k) /\ SameCertificate(k, kept[n].id) /\ x \in Arrived(k)
      BY <2>1 DEF StandsFor
    <3> QED BY <1>3, <1>5, <3>1, <3>2, SameIsEquivalence
  <2>5. kept'[n].id = kept[n].id
    BY <1>6
  <2> QED BY <1>3, <2>2, <2>3, <2>4, <2>5 DEF StandsFor
<1>11. Pairing'
  BY <1>2, <1>6, <1>7, <1>8, <1>9, <1>10 DEF Pairing
<1> QED
  BY <1>2, <1>11 DEF Grouping, Done, OneRowPerCertificate, IdentitiesAreItsOwn, NothingLost

LEMMA KeepInv ==
  ASSUME DedupConstants, DedupInv, NEW i \in Id, Keep(i)
  PROVE  Grouping' /\ Pairing' /\ Done'
<1> DEFINE row == [id |-> i, identities |-> byId[i]]
<1>1. kept' = Append(kept, row) /\ \A n \in DOMAIN kept : ~Matches(n, i)
  BY DEF Keep
<1>2. /\ TypeOK /\ Pairing /\ phase = "pairing" /\ phase' = "pairing" /\ dedupe'
      /\ byId[i] = Arrived(i) /\ Ascending'
  BY TakingOne
<1>3. /\ \A k : Taken(k)' <=> Taken(k) \/ k = i
      /\ \A k : Arrived(k)' = Arrived(k)
      /\ ~Taken(i)
      /\ \A j, k : SameCertificate(j, k)' <=> SameCertificate(j, k)
  BY TakingOne
<1>4. /\ \A m \in DOMAIN kept : StandsFor(kept[m])
      /\ Apart(kept)
      /\ Covered
  BY <1>2 DEF Pairing
<1>5. \A n \in DOMAIN kept : ~SameCertificate(kept[n].id, i)
  BY <1>1, <1>2, <1>3, <1>4, MatchesIsSame DEF StandsFor
<1>6. PICK last : /\ DOMAIN kept' = DOMAIN kept \cup {last}
                  /\ last \notin DOMAIN kept
                  /\ \A m \in DOMAIN kept : kept'[m] = kept[m]
                  /\ kept'[last].id = i
                  /\ kept'[last].identities = Arrived(i)
  <2>1. kept \in Seq(Row) /\ Len(kept) \in Nat /\ DOMAIN kept = 1..Len(kept)
    BY <1>2, RowsAreRows DEF TypeOK
  <2>2. row.id = i /\ row.identities = Arrived(i)
    BY <1>2
  <2> HIDE DEF row
  <2>3. /\ DOMAIN kept' = DOMAIN kept \cup {Len(kept) + 1}
        /\ Len(kept) + 1 \notin DOMAIN kept
        /\ \A m \in DOMAIN kept : kept'[m] = kept[m]
        /\ kept'[Len(kept) + 1] = row
    BY <1>1, <2>1
  <2> QED BY <2>2, <2>3
<1>7. Apart(kept)'
  BY <1>3, <1>4, <1>5, <1>6, SameIsEquivalence DEF Apart
<1>8. Covered'
  BY <1>3, <1>4, <1>6, SameIsEquivalence DEF Covered
<1>9. ASSUME NEW m \in DOMAIN kept PROVE StandsFor(kept[m])'
  <2>1. ~SameCertificate(i, kept[m].id)
    BY <1>5, SameIsEquivalence
  <2>2. \A k : Taken(k)' /\ SameCertificate(k, kept[m].id) => Taken(k)
    BY <1>3, <2>1
  <2> QED BY <1>3, <1>4, <1>6, <2>2 DEF StandsFor
<1>10. StandsFor(kept[last])'
  <2>1. ASSUME NEW k, Taken(k)', SameCertificate(k, i) PROVE k = i
    <3>1. SUFFICES ASSUME Taken(k) PROVE FALSE
      BY <1>3, <2>1
    <3>2. PICK n \in DOMAIN kept : SameCertificate(k, kept[n].id)
      BY <1>4, <3>1 DEF Covered, Taken
    <3> QED BY <1>5, <2>1, <3>2, SameIsEquivalence
  <2>2. i \in Nat /\ i <= i
    BY DedupConstants DEF DedupConstants
  <2> QED BY <1>2, <1>3, <1>6, <2>1, <2>2, SameIsEquivalence DEF StandsFor
<1>11. Pairing'
  BY <1>2, <1>6, <1>7, <1>8, <1>9, <1>10 DEF Pairing
<1> QED
  BY <1>2, <1>11 DEF Grouping, Done, OneRowPerCertificate, IdentitiesAreItsOwn, NothingLost

\* What has been taken when no ID is left is what has arrived.
LEMMA ReturnInv ==
  ASSUME DedupConstants, DedupInv, Return
  PROVE  Grouping' /\ Pairing' /\ Done'
<1>1. /\ TypeOK /\ dedupe
      /\ \A n \in DOMAIN kept : StandsFor(kept[n])
      /\ Apart(kept)
      /\ Covered
  BY DEF Return, DedupInv, Pairing
<1>2. /\ out' = kept /\ facts' = facts /\ raw' = raw /\ dedupe' = dedupe /\ phase' = "done"
      /\ \A j, k : SameCertificate(j, k)' <=> SameCertificate(j, k)
  BY DEF Return, SameCertificate
<1>3. \A m \in DOMAIN raw : Taken(raw[m].id) /\ raw[m].identity \in Arrived(raw[m].id)
  BY <1>1, RowsAreRows, ArrivedRows DEF Return, Present, Taken
<1>4. OneRowPerCertificate'
  BY <1>1, <1>2 DEF OneRowPerCertificate, Apart
<1>5. ASSUME NEW n \in DOMAIN kept
      PROVE  /\ kept[n].identities = {raw[m].identity : m \in RowsOf(kept[n].id)}
             /\ \A m \in RowsOf(kept[n].id) : kept[n].id <= raw[m].id
  <2>1. StandsFor(kept[n])
    BY <1>1
  <2>2. \A m \in RowsOf(kept[n].id) :
          /\ m \in DOMAIN raw /\ SameCertificate(raw[m].id, kept[n].id)
          /\ raw[m].id \in Id /\ Taken(raw[m].id)
          /\ raw[m].identity \in Arrived(raw[m].id)
    BY <1>1, <1>3, RowsAreRows DEF RowsOf
  <2>3. ASSUME NEW x \in kept[n].identities
        PROVE  \E m \in RowsOf(kept[n].id) : raw[m].identity = x
    <3>1. PICK k \in Id : Taken(k) /\ SameCertificate(k, kept[n].id) /\ x \in Arrived(k)
      BY <2>1 DEF StandsFor
    <3>2. PICK m \in DOMAIN raw : raw[m].id = k /\ raw[m].identity = x
      BY <1>1, <3>1, ArrivedRows
    <3> QED BY <3>1, <3>2 DEF RowsOf
  <2>4. \A m \in RowsOf(kept[n].id) : raw[m].identity \in kept[n].identities
    BY <2>1, <2>2 DEF StandsFor
  <2>5. \A m \in RowsOf(kept[n].id) : kept[n].id <= raw[m].id
    BY <2>1, <2>2 DEF StandsFor
  <2> QED BY <2>3, <2>4, <2>5
<1>6. IdentitiesAreItsOwn'
  BY <1>2, <1>5 DEF IdentitiesAreItsOwn, RowsOf
<1>7. NothingLost'
  <2>1. ASSUME NEW m \in DOMAIN raw
        PROVE  \E n \in DOMAIN kept : /\ SameCertificate(raw[m].id, kept[n].id)
                                     /\ raw[m].identity \in kept[n].identities
    <3>1. Taken(raw[m].id) /\ raw[m].id \in Id /\ raw[m].identity \in Arrived(raw[m].id)
      BY <1>1, <1>3, RowsAreRows
    <3>2. PICK n \in DOMAIN kept : SameCertificate(raw[m].id, kept[n].id)
      BY <1>1, <3>1 DEF Covered
    <3>3. raw[m].identity \in kept[n].identities
      BY <1>1, <3>1, <3>2 DEF StandsFor
    <3> QED BY <3>2, <3>3
  <2> QED BY <1>2, <2>1 DEF NothingLost
<1> QED
  BY <1>2, <1>4, <1>6, <1>7 DEF Grouping, Pairing, Done

-----------------------------------------------------------------------------
LEMMA InvNext == ASSUME DedupConstants, DedupInv, [Next]_vars PROVE DedupInv'
<1>1. TypeOK'
  BY TypeNext DEF DedupInv
<1>2. CASE UNCHANGED vars
  <2>1. Grouping'
    BY <1>2 DEF DedupInv, vars, Grouping, Among
  <2>2. Pairing'
    <3>1. /\ \A k : Taken(k)' <=> Taken(k)
          /\ \A k : Arrived(k)' = Arrived(k)
          /\ \A j, k : SameCertificate(j, k)' <=> SameCertificate(j, k)
          /\ byId' = byId /\ kept' = kept /\ phase' = phase /\ dedupe' = dedupe
      BY <1>2 DEF vars, Taken, Arrived, Among, SameCertificate
    <3>2. /\ Ascending => Ascending'
          /\ Apart(kept) => Apart(kept)'
          /\ Covered => Covered'
      BY <3>1 DEF Ascending, Apart, Covered
    <3>3. ASSUME NEW n \in DOMAIN kept, StandsFor(kept[n]) PROVE StandsFor(kept[n])'
      BY <3>1, <3>3 DEF StandsFor
    <3> QED BY <3>1, <3>2, <3>3 DEF DedupInv, Pairing
  <2>3. Done'
    BY <1>2 DEF DedupInv, vars, Done, OneRowPerCertificate, IdentitiesAreItsOwn, NothingLost,
                RowsOf, SameCertificate
  <2> QED BY <1>1, <2>1, <2>2, <2>3 DEF DedupInv
<1>3. CASE Next
  <2>1. CASE Expand
    BY <2>1, ExpandInv, <1>1 DEF DedupInv
  <2>2. CASE GroupRow
    BY <2>2, GroupRowInv, <1>1 DEF DedupInv
  <2>3. CASE Regroup
    BY <2>3, RegroupInv, <1>1 DEF DedupInv
  <2>4. ASSUME NEW i \in Id, Pair(i) PROVE DedupInv'
    BY <2>4, PairInv, <1>1 DEF DedupInv
  <2>5. ASSUME NEW i \in Id, Keep(i) PROVE DedupInv'
    BY <2>5, KeepInv, <1>1 DEF DedupInv
  <2>6. CASE Return
    BY <2>6, ReturnInv, <1>1 DEF DedupInv
  <2> QED BY <1>3, <2>1, <2>2, <2>3, <2>4, <2>5, <2>6 DEF Next
<1> QED BY <1>2, <1>3

\* The invariant of the two passes, from which the promises of to_rows follow.
THEOREM InvCorrect == Spec => []DedupInv
<1>1. Init => DedupInv
  BY InvInit, DedupConstants
<1>2. DedupInv /\ [Next]_vars => DedupInv'
  BY InvNext, DedupConstants
<1> QED BY <1>1, <1>2, PTL DEF Spec

\* No certificate is reported twice, for any rows in any order.
THEOREM CertificatesOnce == Spec => []OneRowPerCertificate
<1>1. DedupInv => OneRowPerCertificate
  BY DEF DedupInv, Done
<1> QED BY <1>1, InvCorrect, PTL

\* A reported row has its certificate's identities, all of them and no other,
\* and its lowest ID.
THEOREM RowsAreTheirOwn == Spec => []IdentitiesAreItsOwn
<1>1. DedupInv => IdentitiesAreItsOwn
  BY DEF DedupInv, Done
<1> QED BY <1>1, InvCorrect, PTL

\* Every raw row is in a reported one, collapsed or not.
THEOREM NothingGoesMissing == Spec => []NothingLost
<1>1. DedupInv => NothingLost
  BY DEF DedupInv, Done
<1> QED BY <1>1, InvCorrect, PTL
=============================================================================
