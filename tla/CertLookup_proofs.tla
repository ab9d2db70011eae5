-------------------------- MODULE CertLookup_proofs --------------------------
(***************************************************************************)
(* Proofs about crt-query cert, for any runs, keys and lifetimes and       *)
(* whatever v0.5.x left in the cache: absence is recent, and a certificate *)
(* that was found wins.                                                    *)
(***************************************************************************)
EXTENDS CertLookup, TLAPS

Stage == {"idle", "long", "turn", "short", "ask", "remember", "over"}
Answers == {"found", "null"}
Found == [view : Map!View, entry : Map!Entry]

Shape ==
  /\ now \in Nat
  /\ known \in [Map!View -> [Key -> Map!Entry \cup {None}]]
  /\ seen \in [Proc -> Found \cup {None}]
  /\ DOMAIN reply = Proc
  /\ arrived \in [Key -> Nat \cup {None}]
  /\ stage \in [Proc -> Stage]
  /\ DOMAIN wanted = Proc
  /\ got \in [Proc -> [answer : Answers, at : Nat] \cup {None}]
  /\ verdict \in [Proc -> Answers \cup {"failed", None}]
  /\ expiry \in [Proc -> Nat \cup {None}]

-----------------------------------------------------------------------------
(* What entries, answers and runs say of the replica                       *)

\* A certificate in an entry had arrived; where there is none, it had not
\* arrived StoreDelay before the entry was stored.
Truthful(e) ==
  /\ e.at <= now
  /\ e.payload[2] = "found" => arrived[e.key] # None
  /\ e.payload[2] = "null" => arrived[e.key] = None \/ e.at <= arrived[e.key] + StoreDelay

CacheTells ==
  \A v \in Map!View, k \in Key : known[v][k] # None =>
    known[v][k].key = k /\ Truthful(known[v][k])

\* What a lookup has read is about what it wants, in the view of its stage.
ReadsRight(p) ==
  stage[p] \in {"long", "short"} /\ seen[p] # None =>
    /\ seen[p].entry.key = wanted[p]
    /\ seen[p].view = IF stage[p] = "long" THEN "cert" ELSE "plain"
    /\ Truthful(seen[p].entry)

\* The database's answer is fresh, and was right when it came.
AskedLately(p) ==
  stage[p] = "remember" =>
    /\ got[p] \in [answer : Answers, at : Nat]
    /\ got[p].at <= now
    /\ now <= got[p].at + StoreDelay
    /\ got[p].answer = "found" => arrived[wanted[p]] # None
    /\ got[p].answer = "null" => arrived[wanted[p]] = None \/ got[p].at <= arrived[wanted[p]]

\* A lookup that began with a certificate in the cache reads it first, and goes
\* on only after it ran out; the replica has it, so a miss cannot come of it.
HasCert(p) ==
  stage[p] # "idle" /\ expiry[p] # None =>
    /\ arrived[wanted[p]] # None
    /\ stage[p] = "long" => /\ seen[p] # None
                            /\ seen[p].entry.payload[2] = "found"
                            /\ expiry[p] = seen[p].entry.at + CertTTL
    /\ stage[p] \in {"turn", "short"} => now > expiry[p]
    /\ stage[p] = "remember" => got[p].answer = "found"

\* "No such certificate", while it is the answer.
NullIsRight(p) ==
  verdict[p] = "null" =>
    /\ stage[p] = "over"
    /\ \/ arrived[wanted[p]] = None
       \/ now - arrived[wanted[p]] <= ShortTTL[p] + StoreDelay
    /\ expiry[p] = None \/ now > expiry[p]

RunOK(p) ==
  /\ stage[p] # "idle" => wanted[p] \in Key
  /\ ReadsRight(p)
  /\ AskedLately(p)
  /\ HasCert(p)
  /\ NullIsRight(p)

LookupInv ==
  /\ Shape
  /\ \A k \in Key : arrived[k] # None => arrived[k] <= now
  /\ CacheTells
  /\ \A p \in Proc : RunOK(p)

-----------------------------------------------------------------------------
(* What stays true of what is left alone                                   *)

\* Certificates only arrive, and the clock only advances.
Onward ==
  /\ now' \in Nat
  /\ now <= now'
  /\ arrived' \in [Key -> Nat \cup {None}]
  /\ \A k \in Key : arrived'[k] = arrived[k] \/ (arrived[k] = None /\ arrived'[k] = now)

LEMMA TruthLasts ==
  ASSUME LookupInv, Onward, NEW e \in Map!Entry, Truthful(e)
  PROVE  Truthful(e)'
<1>1. e.key \in Key /\ e.at \in Nat
  BY DEF Map!Entry
<1>2. now \in Nat /\ arrived \in [Key -> Nat \cup {None}] /\ StoreDelay \in Nat
  BY LookupConstants DEF LookupInv, Shape
<1> QED BY <1>1, <1>2, NoneIsApart DEF Onward, Truthful

\* A cache that learnt nothing tells what it told.
LEMMA CacheStillTells ==
  ASSUME LookupInv, Onward,
         \A v \in Map!View, k \in Key : known'[v][k] \in {known[v][k], None}
  PROVE  CacheTells'
<1> SUFFICES ASSUME NEW v \in Map!View, NEW k \in Key, known'[v][k] # None
             PROVE  known'[v][k].key = k /\ Truthful(known[v][k])'
  BY DEF CacheTells
<1> DEFINE e == known[v][k]
<1>1. known'[v][k] = e /\ e \in Map!Entry /\ e.key = k /\ Truthful(e)
  BY DEF LookupInv, Shape, CacheTells
<1> HIDE DEF e
<1>2. Truthful(known[v][k])'
  <2>1. \A d \in Map!Entry : Truthful(d) => Truthful(d)'
    BY TruthLasts
  <2> QED BY <1>1, <2>1 DEF Truthful
<1> QED BY <1>1, <1>2

\* A run is not disturbed by what others do, nor by time unless it is over.
LEMMA RunStays ==
  ASSUME LookupInv, Onward, NEW p \in Proc,
         stage'[p] = stage[p], wanted'[p] = wanted[p], got'[p] = got[p],
         verdict'[p] = verdict[p], expiry'[p] = expiry[p], seen'[p] = seen[p],
         \/ now' = now
         \/ /\ stage[p] # "over"
            /\ stage[p] = "remember" => now' <= got[p].at + StoreDelay
  PROVE  RunOK(p)'
<1>1. RunOK(p) /\ now \in Nat /\ now' \in Nat /\ now <= now'
  BY DEF LookupInv, Shape, Onward
<1>2. ReadsRight(p)'
  <2> SUFFICES ASSUME stage[p] \in {"long", "short"}, seen[p] # None
               PROVE  Truthful(seen[p].entry)'
    BY <1>1 DEF RunOK, ReadsRight
  <2>1. seen[p].entry \in Map!Entry /\ Truthful(seen[p].entry)
    BY <1>1 DEF LookupInv, Shape, Found, RunOK, ReadsRight
  <2>2. \A d \in Map!Entry : Truthful(d) => Truthful(d)'
    BY TruthLasts
  <2> QED BY <2>1, <2>2
<1>3. stage[p] # "idle" =>
        /\ wanted[p] \in Key
        /\ arrived[wanted[p]] \in Nat \cup {None}
        /\ arrived[wanted[p]] # None => arrived[wanted[p]] <= now
        /\ \/ arrived'[wanted[p]] = arrived[wanted[p]]
           \/ arrived[wanted[p]] = None /\ arrived'[wanted[p]] = now
  BY <1>1 DEF LookupInv, Shape, Onward, RunOK
<1>4. AskedLately(p)'
  <2>1. stage[p] = "remember" => got[p].at \in Nat /\ got[p].at <= now
    BY <1>1 DEF LookupInv, Shape, RunOK, AskedLately
  <2> QED BY <1>1, <1>3, <2>1, NoneIsApart, LookupConstants DEF RunOK, AskedLately
<1>5. HasCert(p)'
  <2>1. expiry[p] \in Nat \cup {None}
    BY DEF LookupInv, Shape
  <2> QED BY <1>1, <1>3, <2>1, NoneIsApart DEF RunOK, HasCert
<1>6. NullIsRight(p)'
  <2>1. ShortTTL[p] \in Nat /\ StoreDelay \in Nat
    BY LookupConstants
  <2> QED BY <1>1, <1>3, <2>1, NoneIsApart DEF RunOK, NullIsRight
<1> QED BY <1>1, <1>2, <1>4, <1>5, <1>6 DEF RunOK

-----------------------------------------------------------------------------
(* The steps                                                               *)

LEMMA InitInv == ASSUME Init PROVE LookupInv
<1>1. Shape
  BY NoneIsApart DEF Init, Map!Init, Shape, Stage
<1>2. CacheTells
  BY DEF Init, Map!Init, CacheTells
<1>3. \A p \in Proc : RunOK(p)
  BY NoneIsApart DEF Init, Map!Init, RunOK, ReadsRight, AskedLately, HasCert, NullIsRight
<1> QED BY <1>1, <1>2, <1>3 DEF LookupInv, Init

\* A step of one run: the others keep what they had.
LEMMA OneRunMoves ==
  ASSUME LookupInv, NEW p \in Proc, now' = now, arrived' = arrived,
         Shape', CacheTells', RunOK(p)',
         \A q \in Proc \ {p} :
           /\ stage'[q] = stage[q] /\ wanted'[q] = wanted[q] /\ got'[q] = got[q]
           /\ verdict'[q] = verdict[q] /\ expiry'[q] = expiry[q] /\ seen'[q] = seen[q]
  PROVE  LookupInv'
<1>1. Onward
  BY DEF Onward, LookupInv, Shape
<1>2. ASSUME NEW q \in Proc PROVE RunOK(q)'
  <2>1. CASE q = p
    BY <2>1
  <2>2. CASE q # p
    BY <1>1, <2>2, RunStays
  <2> QED BY <2>1, <2>2
<1>3. \A k \in Key : arrived'[k] # None => arrived'[k] <= now'
  BY DEF LookupInv
<1> QED BY <1>2, <1>3 DEF LookupInv

\* Nothing learnt: the cache tells what it told.
LEMMA SameCache ==
  ASSUME LookupInv, UNCHANGED <<now, known, arrived>>
  PROVE  CacheTells'
<1>1. Onward
  BY DEF Onward, LookupInv, Shape
<1> QED BY <1>1, CacheStillTells

LEMMA BeginKeepsInv ==
  ASSUME LookupInv, NEW p \in Proc, NEW k \in Key, Begin(p, k)
  PROVE  LookupInv'
<1> DEFINE e == known["cert"][k]
<1>1. /\ stage[p] = "idle"
      /\ wanted' = [wanted EXCEPT ![p] = k]
      /\ expiry' = [expiry EXCEPT ![p] = IF HoldsCert(e) THEN e.at + CertTTL ELSE None]
      /\ UNCHANGED <<now, known, arrived, got, verdict>>
  BY DEF Begin, Map!Look
<1>2. \/ /\ stage' = [stage EXCEPT ![p] = "long"]
         /\ seen' = [seen EXCEPT ![p] = IF e = None THEN None
                                        ELSE [view |-> "cert", entry |-> e]]
         /\ reply' = [reply EXCEPT ![p] = None]
      \/ /\ stage' = [stage EXCEPT ![p] = "ask"]
         /\ UNCHANGED <<seen, reply>>
  BY DEF Begin, Map!Look
<1>3. /\ e \in Map!Entry \cup {None}
      /\ e # None => e.key = k /\ e.at \in Nat /\ Truthful(e)
  BY DEF LookupInv, Shape, CacheTells, Map!View, Map!Entry
<1>4. Shape'
  <2>1. (IF HoldsCert(e) THEN e.at + CertTTL ELSE None) \in Nat \cup {None}
    BY <1>3, LookupConstants DEF HoldsCert
  <2>2. (IF e = None THEN None ELSE [view |-> "cert", entry |-> e]) \in Found \cup {None}
    BY <1>3 DEF Found, Map!View
  <2> DEFINE f == IF e = None THEN None ELSE [view |-> "cert", entry |-> e]
  <2> HIDE DEF e, f
  <2>3. /\ stage' \in [Proc -> Stage]
        /\ seen' = [seen EXCEPT ![p] = f] \/ seen' = seen
        /\ DOMAIN reply' = Proc
    BY <1>2 DEF LookupInv, Shape, Stage, f
  <2>5. seen' \in [Proc -> Found \cup {None}]
    BY <2>2, <2>3 DEF LookupInv, Shape, f
  <2>4. expiry' \in [Proc -> Nat \cup {None}] /\ DOMAIN wanted' = Proc
    BY <1>1, <2>1 DEF LookupInv, Shape
  <2> QED BY <1>1, <2>3, <2>4, <2>5 DEF LookupInv, Shape
<1>5. RunOK(p)'
  <2>1. stage[p] = "idle" => verdict[p] # "null"
    BY DEF LookupInv, RunOK, NullIsRight
  <2>2. wanted'[p] = k /\ verdict'[p] = verdict[p]
    BY <1>1 DEF LookupInv, Shape
  <2>3. expiry'[p] # None => HoldsCert(e) /\ expiry'[p] = e.at + CertTTL
    BY <1>1 DEF LookupInv, Shape
  <2>4. HoldsCert(e) => e # None /\ e.payload[2] = "found" /\ arrived'[k] # None
    BY <1>1, <1>3 DEF HoldsCert, Truthful
  <2>5. CASE stage' = [stage EXCEPT ![p] = "long"]
    <3>1. stage'[p] = "long"
      BY <2>5 DEF LookupInv, Shape
    <3>2. seen'[p] = IF e = None THEN None ELSE [view |-> "cert", entry |-> e]
      BY <1>2, <3>1 DEF LookupInv, Shape
    <3>3. ReadsRight(p)'
      BY <1>1, <1>3, <2>2, <3>1, <3>2 DEF ReadsRight, Truthful
    <3>4. HasCert(p)'
      <4>1. e # None => seen'[p] # None
        BY <1>3, <3>2, NoneIsApart DEF Map!View
      <4> QED BY <2>2, <2>3, <2>4, <3>1, <3>2, <4>1 DEF HasCert
    <3> QED BY <1>1, <2>1, <2>2, <3>1, <3>3, <3>4 DEF RunOK, AskedLately, NullIsRight
  <2>6. CASE stage' = [stage EXCEPT ![p] = "ask"]
    <3>1. stage'[p] = "ask"
      BY <2>6 DEF LookupInv, Shape
    <3> QED BY <1>1, <2>1, <2>2, <2>3, <2>4, <3>1
            DEF RunOK, ReadsRight, AskedLately, HasCert, NullIsRight
  <2> QED BY <1>2, <2>5, <2>6
<1>6. \A q \in Proc \ {p} :
        /\ stage'[q] = stage[q] /\ wanted'[q] = wanted[q] /\ got'[q] = got[q]
        /\ verdict'[q] = verdict[q] /\ expiry'[q] = expiry[q] /\ seen'[q] = seen[q]
  BY <1>1, <1>2 DEF LookupInv, Shape
<1> QED BY <1>1, <1>4, <1>5, <1>6, SameCache, OneRunMoves

\* The end of a lookup: what was read is let go, and a hit is what was read.
LEMMA LookupEnds ==
  ASSUME LookupInv, NEW p \in Proc, Map!Hit(p) \/ Map!Miss(p)
  PROVE  /\ UNCHANGED <<now, known>>
         /\ seen' = [seen EXCEPT ![p] = None]
         /\ DOMAIN reply' = Proc
         /\ Map!Hit(p) => seen[p] # None /\ reply'[p].payload = seen[p].entry.payload
BY DEF Map!Hit, Map!Miss, LookupInv, Shape

LEMMA RecallLongKeepsInv ==
  ASSUME LookupInv, NEW p \in Proc, RecallLong(p)
  PROVE  LookupInv'
<1>1. /\ stage[p] = "long"
      /\ UNCHANGED <<arrived, wanted, got, expiry>>
      /\ Map!Hit(p) \/ Map!Miss(p)
  BY DEF RecallLong, Got, GotNothing
<1>2. /\ UNCHANGED <<now, known>>
      /\ seen' = [seen EXCEPT ![p] = None]
      /\ DOMAIN reply' = Proc
      /\ Map!Hit(p) => seen[p] # None /\ reply'[p].payload = seen[p].entry.payload
  BY <1>1, LookupEnds
<1>3. \/ /\ stage' = [stage EXCEPT ![p] = "over"]
         /\ verdict' = [verdict EXCEPT ![p] = "found"]
      \/ /\ stage' = [stage EXCEPT ![p] = "turn"]
         /\ verdict' = verdict
         /\ \/ seen[p] # None /\ seen[p].entry.payload[2] = "null"
            \/ ~Usable(p)
  BY <1>2 DEF RecallLong, Got, GotNothing, Decide
<1>4. Shape'
  BY <1>1, <1>2, <1>3 DEF LookupInv, Shape, Stage, Answers
<1>5. RunOK(p)'
  <2>1. RunOK(p) /\ seen[p] \in Found \cup {None} /\ expiry[p] \in Nat \cup {None} /\ now \in Nat
    BY DEF LookupInv, Shape
  <2>2. verdict[p] # "null"
    BY <1>1, <2>1 DEF RunOK, NullIsRight
  <2>3. CASE stage' = [stage EXCEPT ![p] = "over"]
    <3>1. stage'[p] = "over" /\ verdict'[p] = "found"
      <4>1. stage'[p] = "over"
        BY <2>3 DEF LookupInv, Shape
      <4> QED BY <1>3, <4>1 DEF LookupInv, Shape
    <3> QED BY <1>1, <1>2, <2>1, <3>1
            DEF RunOK, ReadsRight, AskedLately, HasCert, NullIsRight
  <2>4. CASE stage' = [stage EXCEPT ![p] = "turn"]
    <3>1. /\ stage'[p] = "turn" /\ verdict'[p] # "null"
          /\ \/ seen[p] # None /\ seen[p].entry.payload[2] = "null"
             \/ ~Usable(p)
      <4>1. stage'[p] = "turn"
        BY <2>4 DEF LookupInv, Shape
      <4> QED BY <1>3, <2>2, <4>1 DEF LookupInv, Shape
    <3>2. expiry[p] # None => now > expiry[p]
      <4> SUFFICES ASSUME expiry[p] # None PROVE now > expiry[p]
        OBVIOUS
      <4>1. /\ seen[p] # None /\ seen[p].entry.payload[2] = "found"
            /\ expiry[p] = seen[p].entry.at + CertTTL
            /\ seen[p].view = "cert"
            /\ seen[p].entry.at <= now
        BY <1>1, <2>1 DEF RunOK, HasCert, ReadsRight, Truthful
      <4>2. seen[p].entry.at \in Nat /\ CertTTL \in Nat
        BY <2>1, <4>1, LookupConstants DEF Found, Map!Entry
      <4>3. ~(now - seen[p].entry.at \in 0..CertTTL)
        BY <3>1, <4>1 DEF Usable, Map!Lifetime
      <4> QED BY <2>1, <4>1, <4>2, <4>3
    <3> QED BY <1>1, <1>2, <2>1, <3>1, <3>2
            DEF RunOK, ReadsRight, AskedLately, HasCert, NullIsRight
  <2> QED BY <1>3, <2>3, <2>4
<1>6. \A q \in Proc \ {p} :
        /\ stage'[q] = stage[q] /\ wanted'[q] = wanted[q] /\ got'[q] = got[q]
        /\ verdict'[q] = verdict[q] /\ expiry'[q] = expiry[q] /\ seen'[q] = seen[q]
  BY <1>1, <1>2, <1>3 DEF LookupInv, Shape
<1> QED BY <1>1, <1>2, <1>4, <1>5, <1>6, SameCache, OneRunMoves

LEMMA TurnKeepsInv ==
  ASSUME LookupInv, NEW p \in Proc, TurnToShort(p)
  PROVE  LookupInv'
<1> DEFINE e == known["plain"][wanted[p]]
           f == IF e = None THEN None ELSE [view |-> "plain", entry |-> e]
<1>1. /\ stage[p] = "turn"
      /\ stage' = [stage EXCEPT ![p] = "short"]
      /\ seen' = [seen EXCEPT ![p] = f]
      /\ reply' = [reply EXCEPT ![p] = None]
      /\ UNCHANGED <<now, known, arrived, wanted, got, verdict, expiry>>
  BY DEF TurnToShort, Map!Look
<1>2. /\ RunOK(p) /\ wanted[p] \in Key
      /\ e \in Map!Entry \cup {None}
      /\ e # None => e.key = wanted[p] /\ Truthful(e)
  BY <1>1 DEF LookupInv, Shape, RunOK, CacheTells, Map!View
<1>3. f \in Found \cup {None}
  BY <1>2 DEF Found, Map!View
<1>4. Shape'
  <2> HIDE DEF f
  <2> QED BY <1>1, <1>3 DEF LookupInv, Shape, Stage
<1>5. RunOK(p)'
  <2>1. stage'[p] = "short" /\ seen'[p] = f
    <3> HIDE DEF f
    <3> QED BY <1>1 DEF LookupInv, Shape
  <2>2. ReadsRight(p)'
    BY <1>1, <1>2, <2>1 DEF ReadsRight, Truthful
  <2> QED BY <1>1, <1>2, <2>1, <2>2 DEF RunOK, AskedLately, HasCert, NullIsRight
<1>6. \A q \in Proc \ {p} :
        /\ stage'[q] = stage[q] /\ wanted'[q] = wanted[q] /\ got'[q] = got[q]
        /\ verdict'[q] = verdict[q] /\ expiry'[q] = expiry[q] /\ seen'[q] = seen[q]
  BY <1>1 DEF LookupInv, Shape
<1> QED BY <1>1, <1>4, <1>5, <1>6, SameCache, OneRunMoves

LEMMA RecallShortKeepsInv ==
  ASSUME LookupInv, NEW p \in Proc, RecallShort(p)
  PROVE  LookupInv'
<1>1. /\ stage[p] = "short"
      /\ UNCHANGED <<arrived, wanted, got, expiry>>
      /\ Map!Hit(p) \/ Map!Miss(p)
  BY DEF RecallShort, Got, GotNothing
<1>2. /\ UNCHANGED <<now, known>>
      /\ seen' = [seen EXCEPT ![p] = None]
      /\ DOMAIN reply' = Proc
      /\ Map!Hit(p) => seen[p] # None /\ reply'[p].payload = seen[p].entry.payload
  BY <1>1, LookupEnds
<1>3. \/ /\ stage' = [stage EXCEPT ![p] = "over"]
         /\ verdict' = [verdict EXCEPT ![p] = "null"]
         /\ Map!Hit(p) /\ seen[p].entry.payload[2] = "null"
      \/ /\ stage' = [stage EXCEPT ![p] = "ask"]
         /\ verdict' = verdict
  BY <1>2 DEF RecallShort, Got, GotNothing, Decide
<1>4. Shape'
  BY <1>1, <1>2, <1>3 DEF LookupInv, Shape, Stage, Answers
<1>5. RunOK(p)'
  <2>1. /\ RunOK(p) /\ seen[p] \in Found \cup {None} /\ wanted[p] \in Key
        /\ expiry[p] \in Nat \cup {None} /\ now \in Nat
        /\ arrived[wanted[p]] \in Nat \cup {None}
    BY <1>1 DEF LookupInv, Shape, RunOK
  <2>2. verdict[p] # "null"
    BY <1>1, <2>1 DEF RunOK, NullIsRight
  <2>3. CASE stage' = [stage EXCEPT ![p] = "over"]
    <3>1. stage'[p] = "over"
      BY <2>3 DEF LookupInv, Shape
    <3>2. Map!Hit(p) /\ seen[p].entry.payload[2] = "null"
      BY <1>3, <3>1 DEF LookupInv, Shape
    <3>3. /\ seen[p] # None
          /\ seen[p].view = "plain"
          /\ seen[p].entry.key = wanted[p]
          /\ Truthful(seen[p].entry)
          /\ expiry[p] # None => now > expiry[p]
      BY <1>1, <1>2, <2>1, <3>2 DEF RunOK, ReadsRight, HasCert
    <3>4. now - seen[p].entry.at <= ShortTTL[p]
      BY <3>2, <3>3 DEF Map!Hit, Map!Lifetime
    <3>5. seen[p].entry.at \in Nat /\ ShortTTL[p] \in Nat /\ StoreDelay \in Nat
      BY <2>1, <3>3, LookupConstants DEF Found, Map!Entry
    <3>6. \/ arrived[wanted[p]] = None
          \/ now - arrived[wanted[p]] <= ShortTTL[p] + StoreDelay
      BY <2>1, <3>2, <3>3, <3>4, <3>5 DEF Truthful
    <3> QED BY <1>1, <1>2, <2>1, <3>1, <3>3, <3>6
            DEF RunOK, ReadsRight, AskedLately, HasCert, NullIsRight
  <2>4. CASE stage' = [stage EXCEPT ![p] = "ask"]
    <3>1. stage'[p] = "ask" /\ verdict'[p] # "null"
      <4>1. stage'[p] = "ask"
        BY <2>4 DEF LookupInv, Shape
      <4> QED BY <1>3, <2>2, <4>1 DEF LookupInv, Shape
    <3> QED BY <1>1, <1>2, <2>1, <3>1
            DEF RunOK, ReadsRight, AskedLately, HasCert, NullIsRight
  <2> QED BY <1>3, <2>3, <2>4
<1>6. \A q \in Proc \ {p} :
        /\ stage'[q] = stage[q] /\ wanted'[q] = wanted[q] /\ got'[q] = got[q]
        /\ verdict'[q] = verdict[q] /\ expiry'[q] = expiry[q] /\ seen'[q] = seen[q]
  BY <1>1, <1>2, <1>3 DEF LookupInv, Shape
<1> QED BY <1>1, <1>2, <1>4, <1>5, <1>6, SameCache, OneRunMoves

LEMMA AskKeepsInv ==
  ASSUME LookupInv, NEW p \in Proc, Ask(p)
  PROVE  LookupInv'
<1> DEFINE answer == IF arrived[wanted[p]] = None THEN "null" ELSE "found"
<1>1. /\ stage[p] = "ask"
      /\ stage' = [stage EXCEPT ![p] = "remember"]
      /\ got' = [got EXCEPT ![p] = [answer |-> answer, at |-> now]]
      /\ UNCHANGED <<now, known, seen, reply, arrived, wanted, verdict, expiry>>
  BY DEF Ask
<1>2. RunOK(p) /\ wanted[p] \in Key /\ now \in Nat /\ StoreDelay \in Nat
  BY <1>1, LookupConstants DEF LookupInv, Shape, RunOK
<1>3. answer \in Answers
  BY DEF Answers
<1>4. /\ stage'[p] = "remember" /\ got'[p] = [answer |-> answer, at |-> now]
      /\ Shape'
  <2> HIDE DEF answer
  <2>1. stage'[p] = "remember" /\ got'[p] = [answer |-> answer, at |-> now]
    BY <1>1 DEF LookupInv, Shape
  <2>2. got' \in [Proc -> [answer : Answers, at : Nat] \cup {None}]
    BY <1>1, <1>2, <1>3 DEF LookupInv, Shape
  <2> QED BY <1>1, <2>1, <2>2 DEF LookupInv, Shape, Stage
<1>5. RunOK(p)'
  <2>1. got'[p] \in [answer : Answers, at : Nat]
    BY <1>2, <1>3, <1>4
  <2> HIDE DEF answer
  <2>2. AskedLately(p)'
    BY <1>1, <1>2, <1>4, <2>1 DEF AskedLately, answer
  <2> QED BY <1>1, <1>2, <1>4, <2>2 DEF RunOK, ReadsRight, HasCert, NullIsRight, answer
<1>6. \A q \in Proc \ {p} :
        /\ stage'[q] = stage[q] /\ wanted'[q] = wanted[q] /\ got'[q] = got[q]
        /\ verdict'[q] = verdict[q] /\ expiry'[q] = expiry[q] /\ seen'[q] = seen[q]
  BY <1>1 DEF LookupInv, Shape
<1> QED BY <1>1, <1>4, <1>5, <1>6, SameCache, OneRunMoves

LEMMA AskFailsKeepsInv ==
  ASSUME LookupInv, NEW p \in Proc, AskFails(p)
  PROVE  LookupInv'
<1>1. /\ stage[p] = "ask"
      /\ stage' = [stage EXCEPT ![p] = "over"]
      /\ verdict' = [verdict EXCEPT ![p] = "failed"]
      /\ UNCHANGED <<now, known, seen, reply, arrived, wanted, got, expiry>>
  BY DEF AskFails, Decide
<1>2. Shape'
  BY <1>1 DEF LookupInv, Shape, Stage
<1>3. RunOK(p)'
  <2>1. stage'[p] = "over" /\ verdict'[p] = "failed" /\ RunOK(p)
    BY <1>1 DEF LookupInv, Shape
  <2> QED BY <1>1, <2>1 DEF RunOK, ReadsRight, AskedLately, HasCert, NullIsRight
<1>4. \A q \in Proc \ {p} :
        /\ stage'[q] = stage[q] /\ wanted'[q] = wanted[q] /\ got'[q] = got[q]
        /\ verdict'[q] = verdict[q] /\ expiry'[q] = expiry[q] /\ seen'[q] = seen[q]
  BY <1>1 DEF LookupInv, Shape
<1> QED BY <1>1, <1>2, <1>3, <1>4, SameCache, OneRunMoves

\* What is stored is true: so the cache still tells the truth.
LEMMA StoringTells ==
  ASSUME LookupInv, arrived' = arrived, NEW v \in Map!View, NEW e \in Map!Entry,
         Truthful(e), Stores(v, e)
  PROVE  /\ CacheTells'
         /\ known' \in [Map!View -> [Key -> Map!Entry \cup {None}]]
         /\ UNCHANGED <<now, seen, reply>>
<1>1. UNCHANGED <<now, seen, reply>>
  BY DEF Stores, Map!Learn
<1>2. PICK pruned \in SUBSET (Map!View \X Key) :
        known' = [w \in Map!View |-> [k \in Key |->
                    IF w = v /\ k = e.key THEN e
                    ELSE IF <<w, k>> \in pruned THEN None ELSE known[w][k]]]
  BY DEF Stores
<1>3. known' \in [Map!View -> [Key -> Map!Entry \cup {None}]]
  BY <1>2 DEF LookupInv, Shape
<1>4. ASSUME NEW w \in Map!View, NEW k \in Key
      PROVE  known'[w][k] \in {known[w][k], None} \/ (known'[w][k] = e /\ k = e.key)
  BY <1>2
<1>5. \A w \in Map!View, k \in Key : known'[w][k] # None =>
        known'[w][k].key = k /\ (Truthful(known[w][k]))'
  BY <1>1, <1>4 DEF LookupInv, CacheTells, Truthful
<1> QED BY <1>1, <1>3, <1>5 DEF CacheTells

LEMMA RememberKeepsInv ==
  ASSUME LookupInv, NEW p \in Proc, Remember(p)
  PROVE  LookupInv'
<1> DEFINE e == [key |-> wanted[p], at |-> now, payload |-> <<wanted[p], got[p].answer>>]
<1>1. /\ stage[p] = "remember"
      /\ stage' = [stage EXCEPT ![p] = "over"]
      /\ verdict' = [verdict EXCEPT ![p] = got[p].answer]
      /\ UNCHANGED <<arrived, wanted, got, expiry>>
      /\ Stores(ViewFor(got[p].answer), e) \/ UNCHANGED <<now, known, seen, reply>>
  BY DEF Remember, Decide
<1>2. /\ RunOK(p) /\ wanted[p] \in Key
      /\ got[p] \in [answer : Answers, at : Nat]
      /\ got[p].at <= now /\ now <= got[p].at + StoreDelay
      /\ got[p].answer = "found" => arrived[wanted[p]] # None
      /\ got[p].answer = "null" => arrived[wanted[p]] = None \/ got[p].at <= arrived[wanted[p]]
      /\ now \in Nat /\ StoreDelay \in Nat /\ ShortTTL[p] \in Nat
      /\ arrived[wanted[p]] \in Nat \cup {None}
  BY <1>1, LookupConstants DEF LookupInv, Shape, RunOK, AskedLately
<1>3. got[p].answer \in {"found", "null"} /\ got[p].at \in Nat
  BY <1>2 DEF Answers
<1>4. e \in Map!Entry /\ Truthful(e)
  <2>1. <<wanted[p], got[p].answer>> \in Detail
    BY <1>2, <1>3 DEF Detail
  <2>2. e \in Map!Entry
    BY <1>2, <2>1 DEF Map!Entry
  <2>3. Truthful(e)
    BY <1>2, <1>3 DEF Truthful
  <2> QED BY <2>2, <2>3
<1>5. /\ CacheTells'
      /\ known' \in [Map!View -> [Key -> Map!Entry \cup {None}]]
      /\ UNCHANGED <<now, seen, reply>>
  <2>1. CASE Stores(ViewFor(got[p].answer), e)
    <3>1. ViewFor(got[p].answer) \in Map!View
      BY DEF ViewFor, Map!View
    <3> HIDE DEF e
    <3> QED BY <1>1, <1>4, <2>1, <3>1, StoringTells
  <2>2. CASE UNCHANGED <<now, known, seen, reply>>
    BY <1>1, <2>2, SameCache DEF LookupInv, Shape
  <2> QED BY <1>1, <2>1, <2>2
<1>6. Shape'
  BY <1>1, <1>3, <1>5 DEF LookupInv, Shape, Stage, Answers
<1>7. RunOK(p)'
  <2>1. stage'[p] = "over" /\ verdict'[p] = got[p].answer
    BY <1>1 DEF LookupInv, Shape
  <2>2. \/ got[p].answer # "null"
        \/ /\ expiry[p] = None
           /\ \/ arrived[wanted[p]] = None
              \/ now - arrived[wanted[p]] <= ShortTTL[p] + StoreDelay
    BY <1>1, <1>2, <1>3 DEF RunOK, HasCert
  <2> QED BY <1>1, <1>2, <1>5, <2>1, <2>2
          DEF RunOK, ReadsRight, AskedLately, HasCert, NullIsRight
<1>8. \A q \in Proc \ {p} :
        /\ stage'[q] = stage[q] /\ wanted'[q] = wanted[q] /\ got'[q] = got[q]
        /\ verdict'[q] = verdict[q] /\ expiry'[q] = expiry[q] /\ seen'[q] = seen[q]
  BY <1>1, <1>5 DEF LookupInv, Shape
<1> QED BY <1>1, <1>5, <1>6, <1>7, <1>8, OneRunMoves

LEMMA LeaveKeepsInv ==
  ASSUME LookupInv, NEW p \in Proc, Leave(p)
  PROVE  LookupInv'
<1>1. /\ stage' = [stage EXCEPT ![p] = "idle"]
      /\ wanted' = [wanted EXCEPT ![p] = None]
      /\ got' = [got EXCEPT ![p] = None]
      /\ verdict' = [verdict EXCEPT ![p] = None]
      /\ expiry' = [expiry EXCEPT ![p] = None]
      /\ arrived' = arrived
      /\ UNCHANGED <<now, known>>
      /\ seen' = [seen EXCEPT ![p] = None]
      /\ DOMAIN reply' = Proc
  BY LookupEnds DEF Leave
<1>2. Shape'
  BY <1>1 DEF LookupInv, Shape, Stage
<1>3. RunOK(p)'
  <2>1. stage'[p] = "idle" /\ verdict'[p] = None
    BY <1>1 DEF LookupInv, Shape
  <2> QED BY <2>1, NoneIsApart DEF RunOK, ReadsRight, AskedLately, HasCert, NullIsRight
<1>4. \A q \in Proc \ {p} :
        /\ stage'[q] = stage[q] /\ wanted'[q] = wanted[q] /\ got'[q] = got[q]
        /\ verdict'[q] = verdict[q] /\ expiry'[q] = expiry[q] /\ seen'[q] = seen[q]
  BY <1>1 DEF LookupInv, Shape
<1> QED BY <1>1, <1>2, <1>3, <1>4, SameCache, OneRunMoves

-----------------------------------------------------------------------------
(* The environment                                                         *)

\* No run takes a step, and time passes only while none is over.
LEMMA EnvironmentKeepsInv ==
  ASSUME LookupInv, Onward, CacheTells',
         known' \in [Map!View -> [Key -> Map!Entry \cup {None}]],
         UNCHANGED <<seen, reply, stage, wanted, got, verdict, expiry>>,
         \/ now' = now
         \/ \A p \in Proc :
              /\ stage[p] # "over"
              /\ stage[p] = "remember" => now' <= got[p].at + StoreDelay
  PROVE  LookupInv'
<1>1. Shape'
  BY DEF Onward, LookupInv, Shape
<1>2. \A k \in Key : arrived'[k] # None => arrived'[k] <= now'
  BY NoneIsApart DEF Onward, LookupInv, Shape
<1>3. \A p \in Proc : RunOK(p)'
  BY RunStays
<1> QED BY <1>1, <1>2, <1>3 DEF LookupInv

LEMMA ArrivesKeepsInv ==
  ASSUME LookupInv, NEW k \in Key, Arrives(k)
  PROVE  LookupInv'
<1>1. /\ arrived[k] = None
      /\ arrived' = [arrived EXCEPT ![k] = now]
      /\ UNCHANGED <<now, known, seen, reply, stage, wanted, got, verdict, expiry>>
  BY DEF Arrives
<1>2. Onward
  BY <1>1 DEF Onward, LookupInv, Shape
<1>3. CacheTells'
  BY <1>1, <1>2, CacheStillTells
<1> QED BY <1>1, <1>2, <1>3, EnvironmentKeepsInv DEF LookupInv, Shape

LEMMA OldMissKeepsInv ==
  ASSUME LookupInv, NEW k \in Key, OldVersionMisses(k)
  PROVE  LookupInv'
<1> DEFINE e == [key |-> k, at |-> now, payload |-> <<k, "null">>]
<1>1. arrived[k] = None /\ Stores("cert", e) /\ UNCHANGED lookupVars
  BY DEF OldVersionMisses
<1>2. e \in Map!Entry /\ Truthful(e)
  <2>1. now \in Nat /\ <<k, "null">> \in Detail
    BY DEF LookupInv, Shape, Detail
  <2> QED BY <1>1, <2>1 DEF Map!Entry, Truthful
<1>3. /\ CacheTells'
      /\ known' \in [Map!View -> [Key -> Map!Entry \cup {None}]]
      /\ UNCHANGED <<now, seen, reply>>
  <2>1. arrived' = arrived /\ "cert" \in Map!View
    BY <1>1 DEF lookupVars, Map!View
  <2> HIDE DEF e
  <2> QED BY <1>1, <1>2, <2>1, StoringTells
<1>4. Onward
  BY <1>1, <1>3 DEF Onward, LookupInv, Shape, lookupVars
<1> QED BY <1>1, <1>3, <1>4, EnvironmentKeepsInv DEF lookupVars

LEMMA ForgetsKeepsInv ==
  ASSUME LookupInv, Forgets
  PROVE  LookupInv'
<1>1. PICK v \in Map!View, k \in Key : known' = [known EXCEPT ![v][k] = None]
  BY DEF Forgets
<1>2. UNCHANGED <<now, seen, reply, arrived, stage, wanted, got, verdict, expiry>>
  BY DEF Forgets, Map!Forget, lookupVars
<1>3. /\ known' \in [Map!View -> [Key -> Map!Entry \cup {None}]]
      /\ \A w \in Map!View, j \in Key : known'[w][j] \in {known[w][j], None}
  BY <1>1 DEF LookupInv, Shape
<1>4. Onward
  BY <1>2 DEF Onward, LookupInv, Shape
<1> QED BY <1>2, <1>3, <1>4, CacheStillTells, EnvironmentKeepsInv

LEMMA TickKeepsInv ==
  ASSUME LookupInv, Tick
  PROVE  LookupInv'
<1>1. /\ now' = now + 1
      /\ UNCHANGED <<known, seen, reply, arrived, stage, wanted, got, verdict, expiry>>
      /\ \A p \in Proc : /\ stage[p] # "over"
                         /\ stage[p] = "remember" => now - got[p].at < StoreDelay
  BY DEF Tick, lookupVars
<1>2. Onward /\ now \in Nat
  BY <1>1 DEF Onward, LookupInv, Shape
<1>3. ASSUME NEW p \in Proc, stage[p] = "remember"
      PROVE  now' <= got[p].at + StoreDelay
  <2>1. got[p].at \in Nat
    BY <1>3 DEF LookupInv, RunOK, AskedLately
  <2> QED BY <1>1, <1>2, <1>3, <2>1, LookupConstants
<1>4. CacheTells'
  BY <1>1, <1>2, CacheStillTells
<1> QED BY <1>1, <1>2, <1>3, <1>4, EnvironmentKeepsInv DEF LookupInv, Shape

LEMMA StutterKeepsInv ==
  ASSUME LookupInv, UNCHANGED vars
  PROVE  LookupInv'
<1>1. UNCHANGED <<now, known, seen, reply, arrived, stage, wanted, got, verdict, expiry>>
  BY DEF vars, lookupVars
<1>2. Onward
  BY <1>1 DEF Onward, LookupInv, Shape
<1> QED BY <1>1, <1>2, SameCache, EnvironmentKeepsInv DEF LookupInv, Shape

-----------------------------------------------------------------------------

LEMMA LookupInvHolds == Spec => []LookupInv
<1>1. ASSUME LookupInv, [Next]_vars PROVE LookupInv'
  <2>1. ASSUME NEW p \in Proc, RunStep(p) PROVE LookupInv'
    BY <1>1, <2>1, RecallLongKeepsInv, TurnKeepsInv, RecallShortKeepsInv, AskKeepsInv,
       AskFailsKeepsInv, RememberKeepsInv DEF RunStep
  <2> QED BY <1>1, <2>1, BeginKeepsInv, LeaveKeepsInv, ArrivesKeepsInv, OldMissKeepsInv,
             ForgetsKeepsInv, TickKeepsInv, StutterKeepsInv DEF Next
<1> QED BY <1>1, InitInv, PTL DEF Spec

\* An answer that there is no such certificate is never older than the run's
\* cache_ttl_secs and one store, for any runs and whatever older versions left
\* (recall and remember of queries/cert.rs).
THEOREM AbsenceIsRecent == Spec => []MissingIsRecent
<1>1. LookupInv => MissingIsRecent
  BY DEF LookupInv, RunOK, NullIsRight, MissingIsRecent
<1> QED BY <1>1, LookupInvHolds, PTL

\* A certificate in the cache when a lookup begins is not denied by that lookup
\* before it runs out (recall of queries/cert.rs).
THEOREM CertificatesWin == Spec => []FoundWins
<1>1. LookupInv => FoundWins
  BY DEF LookupInv, RunOK, NullIsRight, FoundWins
<1> QED BY <1>1, LookupInvHolds, PTL
=============================================================================
