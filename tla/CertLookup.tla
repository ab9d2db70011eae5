----------------------------- MODULE CertLookup -----------------------------
(***************************************************************************)
(* crt-query cert: run_cert, recall and remember of                        *)
(* src/src/queries/cert.rs, by several runs at once, over the map that the *)
(* cache implements (CacheMap).  The database is a replica that runs       *)
(* behind: a certificate is missing from it until it arrives, and stays.   *)
(*                                                                         *)
(* A run asks the long-lived view, then the short-lived one, then the      *)
(* database, and remembers a certificate in the first and its absence in   *)
(* the second.  Between any two of these steps other runs take theirs.     *)
(***************************************************************************)
EXTENDS Integers

CONSTANTS
  Proc, Key,
  Mode,        \* Mode[p]: "enabled", "refresh" or "disabled"
  ShortTTL,    \* ShortTTL[p]: how long run p trusts a remembered absence
  CertTTL,     \* how long a certificate is trusted
  StoreDelay,  \* the longest time from a database's answer to its being stored
  MaxTime,     \* bound: the largest clock reading
  None

ASSUME LookupConstants ==
  /\ Mode \in [Proc -> {"enabled", "refresh", "disabled"}]
  /\ ShortTTL \in [Proc -> Nat]
  /\ CertTTL \in Nat
  /\ StoreDelay \in Nat
  /\ MaxTime \in Nat

\* An answer for a key: the certificate, or null.
Detail == Key \X {"found", "null"}

VARIABLES
  now, known, seen, reply,  \* the cache (see CacheMap)
  arrived,  \* when the certificate of each key reached the replica
  stage,    \* where each run is
  wanted,   \* the key it looks up
  got,      \* the database's answer to be remembered, and when it came
  verdict,  \* what the run has answered: "found", "null" or "failed"
  expiry    \* until when the certificate found in the cache was good, if it
            \* was there when the lookup began

Map == INSTANCE CacheMap WITH
         Payload <- Detail,
         AnswerTo <- [d \in Detail |-> d[1]]

\* None is no clock reading, no answer, no entry and nothing a lookup has found.
ASSUME NoneIsApart ==
  /\ None \notin Nat
  /\ None \notin {"found", "null", "failed"}
  /\ None \notin Map!Entry
  /\ None \notin [view : Map!View, entry : Map!Entry]

lookupVars == <<arrived, stage, wanted, got, verdict, expiry>>
vars == <<now, known, seen, reply, lookupVars>>

Init ==
  /\ Map!Init
  /\ arrived = [k \in Key |-> None]
  /\ stage = [p \in Proc |-> "idle"]
  /\ wanted = [p \in Proc |-> None]
  /\ got = [p \in Proc |-> None]
  /\ verdict = [p \in Proc |-> None]
  /\ expiry = [p \in Proc |-> None]

HoldsCert(e) == e # None /\ e.payload[2] = "found"

\* Mutant of Begin: the short-lived view is asked first.
Begin_ShortFirst(p, k) ==
  /\ stage[p] = "idle"
  /\ wanted' = [wanted EXCEPT ![p] = k]
  /\ expiry' = [expiry EXCEPT ![p] =
                  IF HoldsCert(known["cert"][k]) THEN known["cert"][k].at + CertTTL ELSE None]
  /\ stage' = [stage EXCEPT ![p] = IF Mode[p] = "enabled" THEN "short" ELSE "ask"]
  /\ Map!Look(p, "plain", k)
  /\ UNCHANGED <<arrived, got, verdict>>

\* Only the enabled mode reads; the others go straight to the database.
Begin(p, k) ==
  /\ stage[p] = "idle"
  /\ wanted' = [wanted EXCEPT ![p] = k]
  /\ expiry' = [expiry EXCEPT ![p] =
                  IF HoldsCert(known["cert"][k]) THEN known["cert"][k].at + CertTTL ELSE None]
  /\ IF Mode[p] = "enabled"
       THEN /\ stage' = [stage EXCEPT ![p] = "long"]
            /\ Map!Look(p, "cert", k)
       ELSE /\ stage' = [stage EXCEPT ![p] = "ask"]
            /\ UNCHANGED <<now, known, seen, reply>>
  /\ UNCHANGED <<arrived, got, verdict>>

\* get hits if the entry it read is of an age within the view's lifetime.
Usable(p) ==
  /\ seen[p] # None
  /\ now - seen[p].entry.at \in 0..Map!Lifetime(p, seen[p].view)

Got(p, content) ==
  /\ Map!Hit(p)
  /\ reply'[p].payload[2] = content

GotNothing(p) == Map!Miss(p) /\ ~Usable(p)

Decide(p, answer) ==
  /\ stage' = [stage EXCEPT ![p] = "over"]
  /\ verdict' = [verdict EXCEPT ![p] = answer]

\* Mutant of RecallLong: a null in the long-lived view answers too.
RecallLong_Null(p) ==
  /\ stage[p] = "long"
  /\ \/ Got(p, "found") /\ Decide(p, "found")
     \/ Got(p, "null") /\ Decide(p, "null")
     \/ /\ GotNothing(p)
        /\ stage' = [stage EXCEPT ![p] = "turn"]
        /\ UNCHANGED verdict
  /\ UNCHANGED <<arrived, wanted, got, expiry>>

\* recall: a certificate in the long-lived view answers; a null there is
\* passed over.
RecallLong(p) ==
  /\ stage[p] = "long"
  /\ \/ Got(p, "found") /\ Decide(p, "found")
     \/ /\ Got(p, "null") \/ GotNothing(p)
        /\ stage' = [stage EXCEPT ![p] = "turn"]
        /\ UNCHANGED verdict
  /\ UNCHANGED <<arrived, wanted, got, expiry>>

TurnToShort(p) ==
  /\ stage[p] = "turn"
  /\ Map!Look(p, "plain", wanted[p])
  /\ stage' = [stage EXCEPT ![p] = "short"]
  /\ UNCHANGED <<arrived, wanted, got, verdict, expiry>>

\* A null in the short-lived view answers; a certificate there does not.
RecallShort(p) ==
  /\ stage[p] = "short"
  /\ \/ Got(p, "null") /\ Decide(p, "null")
     \/ /\ Got(p, "found") \/ GotNothing(p)
        /\ stage' = [stage EXCEPT ![p] = "ask"]
        /\ UNCHANGED verdict
  /\ UNCHANGED <<arrived, wanted, got, expiry>>

Ask(p) ==
  /\ stage[p] = "ask"
  /\ got' = [got EXCEPT ![p] =
               [answer |-> IF arrived[wanted[p]] = None THEN "null" ELSE "found", at |-> now]]
  /\ stage' = [stage EXCEPT ![p] = "remember"]
  /\ UNCHANGED <<now, known, seen, reply, arrived, wanted, verdict, expiry>>

\* No connection, no answer, or one that does not decode.
AskFails(p) ==
  /\ stage[p] = "ask"
  /\ Decide(p, "failed")
  /\ UNCHANGED <<now, known, seen, reply, arrived, wanted, got, expiry>>

\* The view an answer is remembered in.
ViewFor(answer) == IF answer = "found" THEN "cert" ELSE "plain"

\* The entry is stored, others may be pruned.
Stores(v, e) ==
  \E pruned \in SUBSET (Map!View \X Key) :
    /\ known' = [w \in Map!View |-> [k \in Key |->
                  IF w = v /\ k = e.key THEN e
                  ELSE IF <<w, k>> \in pruned THEN None ELSE known[w][k]]]
    /\ Map!Learn(v, e)

Remember(p) ==
  /\ stage[p] = "remember"
  /\ \/ /\ Mode[p] # "disabled"
        /\ Stores(ViewFor(got[p].answer),
                  [key |-> wanted[p], at |-> now, payload |-> <<wanted[p], got[p].answer>>])
     \/ UNCHANGED <<now, known, seen, reply>>  \* disabled, or the write failed
  /\ Decide(p, got[p].answer)
  /\ UNCHANGED <<arrived, wanted, got, expiry>>

\* The caller has printed the answer and exited; a new run takes its place.
Leave(p) ==
  /\ stage[p] = "over"
  /\ stage' = [stage EXCEPT ![p] = "idle"]
  /\ wanted' = [wanted EXCEPT ![p] = None]
  /\ got' = [got EXCEPT ![p] = None]
  /\ verdict' = [verdict EXCEPT ![p] = None]
  /\ expiry' = [expiry EXCEPT ![p] = None]
  /\ Map!Miss(p)
  /\ UNCHANGED arrived

-----------------------------------------------------------------------------
(* The environment                                                         *)

Arrives(k) ==
  /\ arrived[k] = None
  /\ arrived' = [arrived EXCEPT ![k] = now]
  /\ UNCHANGED <<now, known, seen, reply, stage, wanted, got, verdict, expiry>>

\* v0.5.x kept its misses in the long-lived view.
OldVersionMisses(k) ==
  /\ arrived[k] = None
  /\ Stores("cert", [key |-> k, at |-> now, payload |-> <<k, "null">>])
  /\ UNCHANGED lookupVars

Forgets ==
  /\ \E v \in Map!View, k \in Key : known' = [known EXCEPT ![v][k] = None]
  /\ Map!Forget
  /\ UNCHANGED lookupVars

\* An answer read is answered, and one asked for is stored, without delay.
Tick ==
  /\ now < MaxTime
  /\ \A p \in Proc :
       /\ stage[p] # "over"
       /\ stage[p] = "remember" => now - got[p].at < StoreDelay
  /\ now' = now + 1
  /\ UNCHANGED <<known, seen, reply, lookupVars>>

RunStep(p) ==
  \/ RecallLong(p) \/ TurnToShort(p) \/ RecallShort(p)
  \/ Ask(p) \/ AskFails(p) \/ Remember(p)

Next ==
  \/ \E p \in Proc : RunStep(p) \/ Leave(p) \/ \E k \in Key : Begin(p, k)
  \/ \E k \in Key : Arrives(k) \/ OldVersionMisses(k)
  \/ Forgets
  \/ Tick

Spec == Init /\ [][Next]_vars

-----------------------------------------------------------------------------
(* Properties                                                              *)

\* "No such certificate" never outlives the short lifetime: when a run answers
\* it, the certificate has been in the replica no longer than this run's
\* cache_ttl_secs and the delay of one store, whatever v0.5.x left behind and
\* whichever runs remembered what.
MissingIsRecent ==
  \A p \in Proc : verdict[p] = "null" =>
    \/ arrived[wanted[p]] = None
    \/ now - arrived[wanted[p]] <= ShortTTL[p] + StoreDelay

\* "A certificate a --refresh run found wins over the miss still sitting in
\* the short-lived view": while a lookup starts with a certificate in the cache,
\* it answers "no such certificate" only after that certificate ran out.
FoundWins ==
  \A p \in Proc : verdict[p] = "null" => expiry[p] = None \/ now > expiry[p]
=============================================================================
