-------------------------- MODULE CacheRefinement --------------------------
(***************************************************************************)
(* CacheStore implements CacheMap: the directory of files is the map whose *)
(* answer for a key is the entry its file holds, if the file holds one and *)
(* the entry carries that very key.                                        *)
(***************************************************************************)
EXTENDS CacheStore

ASSUME NoneIsNoSighting == None \notin [view : View, entry : Entry]

EntryFor(v, k) ==
  LET f == files[Path(v, k)]
  IN  IF f # None /\ f.entry # None /\ f.entry.key = k THEN f.entry ELSE None

KnownFiles == [v \in View |-> [k \in Key |-> EntryFor(v, k)]]

SeenBy(p) ==
  IF pc[p] = "judge" /\ held[p] # None /\ held[p].key = asked[p].key
    THEN [view |-> asked[p].view, entry |-> held[p]]
    ELSE None

Map == INSTANCE CacheMap WITH
         known <- KnownFiles,
         seen <- [p \in Proc |-> SeenBy(p)]

\* Every behaviour of the directory is a behaviour of the map: no interleaving,
\* crash, failed write, collision, prune or clear makes a lookup return what
\* an atomic forgetful map could not have returned.
ImplementsMap == Map!Spec
=============================================================================
