------------------------------ MODULE CacheMap ------------------------------
(***************************************************************************)
(* What the cache promises its callers (the module comment of cache.rs):   *)
(* a map from keys to answers that may forget anything at any moment, but  *)
(* never changes an answer, never mixes keys, and never answers past the   *)
(* lifetime.  There are no files here, no names, no hashes, no scratch     *)
(* files, no prune: CacheStore implements this map, and the modules that   *)
(* use the cache rely on no more than this.                                *)
(***************************************************************************)
EXTENDS Integers

CONSTANTS Proc, Key, Payload, AnswerTo, ShortTTL, CertTTL, None

View == {"plain", "cert"}

Entry == [key : Key, at : Nat, payload : Payload]

VARIABLES
  now,    \* the client's wall clock, which may step either way
  known,  \* known[v][k]: the entry for k in view v, None if there is none
  seen,   \* the entry a lookup in progress has found, with what was asked
  reply   \* the hit the last lookup returned, None for a miss

mapVars == <<now, known, seen, reply>>

Lifetime(p, v) == IF v = "cert" THEN CertTTL ELSE ShortTTL[p]

Init ==
  /\ now = 0
  /\ known = [v \in View |-> [k \in Key |-> None]]
  /\ seen = [p \in Proc |-> None]
  /\ reply = [p \in Proc |-> None]

\* The entry becomes the answer for its own key and no other; storing it may
\* cost any other key its entry.
Learn(v, e) ==
  /\ AnswerTo[e.payload] = e.key
  /\ known'[v][e.key] = e
  /\ \A w \in View, k \in Key :
       <<w, k>> # <<v, e.key>> => known'[w][k] \in {known[w][k], None}
  /\ UNCHANGED <<now, seen, reply>>

Forget ==
  /\ \A v \in View, k \in Key : known'[v][k] \in {known[v][k], None}
  /\ UNCHANGED <<now, seen, reply>>

Look(p, v, k) ==
  /\ seen' = [seen EXCEPT ![p] =
                IF known[v][k] = None THEN None ELSE [view |-> v, entry |-> known[v][k]]]
  /\ reply' = [reply EXCEPT ![p] = None]
  /\ UNCHANGED <<now, known>>

\* The entry found is judged by the clock at the moment of answering.
Hit(p) ==
  /\ seen[p] # None
  /\ LET e == seen[p].entry
         age == now - e.at
     IN  /\ age \in 0..Lifetime(p, seen[p].view)
         /\ reply' = [reply EXCEPT ![p] = [view |-> seen[p].view, key |-> e.key,
                                           payload |-> e.payload, age |-> age]]
  /\ seen' = [seen EXCEPT ![p] = None]
  /\ UNCHANGED <<now, known>>

\* A lookup ends without an answer, or its caller is done with the answer.
Miss(p) ==
  /\ seen' = [seen EXCEPT ![p] = None]
  /\ reply' = [reply EXCEPT ![p] = None]
  /\ UNCHANGED <<now, known>>

ClockMoves ==
  /\ now' \in Nat
  /\ UNCHANGED <<known, seen, reply>>

Next ==
  \/ \E p \in Proc : Miss(p) \/ Hit(p)
  \/ \E p \in Proc, v \in View, k \in Key : Look(p, v, k)
  \/ \E v \in View, k \in Key : known'[v][k] # None /\ Learn(v, known'[v][k])
  \/ Forget
  \/ ClockMoves

Spec == Init /\ [][Next]_mapVars
=============================================================================
