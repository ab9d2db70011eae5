--------------------------- MODULE Expiring_proofs ---------------------------
(***************************************************************************)
(* Proofs about the clocks of an expiring report, for any certificates and *)
(* domains, any window and lifetime, any number of runs and any mixture of *)
(* fresh and replayed answers.                                             *)
(***************************************************************************)
EXTENDS Expiring, WellFoundedInduction, TLAPS

-----------------------------------------------------------------------------
(* Facts about the operators                                               *)

\* Stamps have an earliest one.
LEMMA EarliestIsOne ==
  ASSUME NEW T \in SUBSET Nat, T # {}
  PROVE  Min(T) \in T /\ \A y \in T : Min(T) <= y
<1> DEFINE Less == OpToRel(<, Nat)
<1>1. IsWellFoundedOn(Less, Nat)
  BY NatLessThanWellFounded
<1>2. \A i, j \in Nat : i < j => <<i, j>> \in Less
  BY DEF OpToRel
<1> HIDE DEF Less
<1>3. PICK x \in T : \A y \in T : ~ (<<y, x>> \in Less)
  BY <1>1, WFMin
<1>4. ASSUME NEW y \in T
      PROVE  x <= y
  <2>1. x \in Nat /\ y \in Nat
    OBVIOUS
  <2>2. ~ (y < x)
    BY <1>2, <1>3, <2>1
  <2> QED BY <2>1, <2>2
<1> QED BY <1>4 DEF Min

LEMMA QuotientFloors ==
  ASSUME NEW a \in Int, NEW b \in Nat \ {0}
  PROVE  /\ a \div b \in Int
         /\ a < 0 => a \div b < 0
         /\ 0 <= a /\ a < b => a \div b = 0
         /\ b <= a => a \div b >= 1
OBVIOUS

\* Milliseconds are truncated, so that a certificate is not late before the first
\* whole one.
LEMMA MillisTruncate ==
  ASSUME NEW span \in Int
  PROVE  /\ WholeMillis(span) \in Int
         /\ WholeMillis(span) < 0 <=> span <= -TicksPerMilli
<1>1. TicksPerMilli \in Nat \ {0}
  BY ExpiringConstants
<1>2. CASE span >= 0
  BY <1>1, <1>2, QuotientFloors DEF WholeMillis
<1>3. CASE span < 0
  <2> DEFINE late == (-span) \div TicksPerMilli
  <2>1. -span \in Nat
    BY <1>3
  <2>2. late \in Int /\ (late >= 1 <=> -span >= TicksPerMilli) /\ late >= 0
    BY <1>1, <2>1, QuotientFloors
  <2>3. WholeMillis(span) = -late
    BY <1>3 DEF WholeMillis
  <2> QED BY <1>1, <1>3, <2>2, <2>3
<1> QED BY <1>2, <1>3

\* A quotient is 0 only below its divisor.
LEMMA QuotientBounds ==
  ASSUME NEW a \in Nat, NEW b \in Nat \ {0}, NEW n \in Nat, a \div b < n
  PROVE  a < b * n
<1> DEFINE q == a \div b
<1>1. q \in Nat /\ a < b * q + b
  OBVIOUS
<1>2. q + 1 <= n
  BY <1>1
<1> HIDE DEF q
<1>3. b * (q + 1) <= b * n
  BY <1>1, <1>2
<1>4. b * (q + 1) = b * q + b
  BY <1>1
<1> QED BY <1>1, <1>3, <1>4

\* Days are floored.
LEMMA DaysFloor ==
  ASSUME NEW c \in Cert, NEW now \in Nat
  PROVE  /\ DaysLeft(c, now) < 0 <=> NotAfter[c] <= now - TicksPerMilli
         /\ DaysLeft(c, now) = 0 => NotAfter[c] - now < TicksPerMilli * MillisPerDay
<1>1. /\ MillisPerDay \in Nat \ {0} /\ TicksPerMilli \in Nat \ {0}
      /\ NotAfter[c] \in Nat
  BY ExpiringConstants
<1> DEFINE span == NotAfter[c] - now
           millis == WholeMillis(span)
<1>2. span \in Int /\ millis \in Int /\ (millis < 0 <=> span <= -TicksPerMilli)
  BY <1>1, MillisTruncate
<1>3. millis \div MillisPerDay < 0 <=> millis < 0
  BY <1>1, <1>2, QuotientFloors
<1>4. ASSUME millis \div MillisPerDay = 0
      PROVE  span < TicksPerMilli * MillisPerDay
  <2>1. millis < MillisPerDay
    <3> HIDE DEF millis
    <3> QED BY <1>1, <1>2, <1>4, QuotientFloors
  <2>2. CASE span >= 0
    <3>1. span \in Nat /\ span \div TicksPerMilli < MillisPerDay
      BY <1>2, <2>1, <2>2 DEF WholeMillis
    <3> QED BY <1>1, <3>1, QuotientBounds
  <2>3. CASE span < 0
    <3>1. TicksPerMilli * MillisPerDay \in Nat
      BY <1>1
    <3> QED BY <1>2, <2>3, <3>1
  <2> QED BY <1>2, <2>2, <2>3
<1> QED BY <1>1, <1>2, <1>3, <1>4 DEF DaysLeft

-----------------------------------------------------------------------------
(* The inductive invariant                                                 *)

Entry == [certs : SUBSET Cert, server : Nat, at : Nat]

Shape ==
  /\ clock \in Nat /\ began \in Nat
  /\ left \subseteq Term
  /\ cache \in [Term -> Entry \cup {None}]
  /\ rows \subseteq [cert : Cert, server_now : Nat]

\* A run is never older than Slowest, and has collected nothing before it
\* begins and after it reports.
Running ==
  /\ began <= clock /\ clock <= began + Slowest
  /\ left = Term => rows = {} /\ (pending = None => began = clock)
  /\ report # None => rows = {}

Excluded(c, now) == NotAfter[c] + LookBack < now

\* A fresh answer is from this run, and every certificate in it was in the
\* window by its own stamp.
Asked ==
  pending # None =>
    /\ report = None
    /\ pending.term \in left
    /\ pending.certs \subseteq Cert
    /\ pending.server \in began..clock
    /\ \A c \in pending.certs : ~Excluded(c, pending.server)

\* An entry was stored soon after its stamp.
Cached(t) ==
  cache[t] # None =>
    /\ cache[t].at \in cache[t].server..clock
    /\ cache[t].at <= cache[t].server + Slowest
    /\ \A c \in cache[t].certs : ~Excluded(c, cache[t].server)

\* A stamp, replayed or not, is neither ahead of the clock nor far behind the
\* run; a replayed one has moved no further than an entry may be old.
Collected(r) ==
  /\ r.server_now <= clock
  /\ began <= r.server_now + Slowest
  /\ NotAfter[r.cert] + LookBack + Lifetime >= r.server_now
  /\ ~replayed => ~Excluded(r.cert, r.server_now)

Labelled(r) ==
  /\ r.cert \in Cert
  /\ r.status = Status(r.cert, report.now)
  /\ r.days_left = DaysLeft(r.cert, report.now)
  /\ NotAfter[r.cert] + LookBack + Lifetime + Slowest >= began
  /\ ~replayed => ~Excluded(r.cert, report.now)

Reported ==
  report # None =>
    /\ report.now \in Nat
    /\ report.now <= clock
    /\ began <= report.now + Slowest
    /\ \A r \in report.rows : Labelled(r)

ExpiringInv ==
  /\ Shape
  /\ Running
  /\ Asked
  /\ \A t \in Term : Cached(t)
  /\ \A r \in rows : Collected(r)
  /\ Reported

LEMMA InvInitially == ASSUME Init PROVE ExpiringInv
<1>1. Shape /\ Asked /\ Reported /\ rows = {}
  BY DEF Init, Shape, Asked, Reported
<1>2. Running
  BY ExpiringConstants DEF Init, Running
<1>3. \A t \in Term : Cached(t)
  BY DEF Init, Cached
<1> QED BY <1>1, <1>2, <1>3 DEF ExpiringInv

LEMMA QueryKeepsInv ==
  ASSUME ExpiringInv, NEW t \in Term, Query(t)
  PROVE  ExpiringInv'
<1>1. PICK certs \in SUBSET {c \in Cert : InWindow(c, clock)} :
        pending' = [term |-> t, certs |-> certs, server |-> clock]
  BY DEF Query
<1>2. /\ UNCHANGED <<clock, cache, began, left, rows, replayed, report>>
      /\ report = None /\ pending = None /\ t \in left
  BY DEF Query
<1>3. Shape' /\ Running'
  BY <1>2 DEF ExpiringInv, Shape, Running
<1>4. Asked'
  <2>1. \A c \in certs : c \in Cert /\ ~Excluded(c, clock)
    BY ExpiringConstants DEF InWindow, Excluded, ExpiringInv, Shape
  <2>2. clock \in began..clock
    BY DEF ExpiringInv, Shape, Running
  <2> QED BY <1>1, <1>2, <2>1, <2>2 DEF Asked, Excluded
<1> QED BY <1>2, <1>3, <1>4
        DEF ExpiringInv, Cached, Collected, Reported, Labelled, Excluded, Status, DaysLeft, WholeMillis

LEMMA CollectKeepsInv ==
  ASSUME ExpiringInv, Collect
  PROVE  ExpiringInv'
<1> DEFINE entry == [certs |-> pending.certs, server |-> pending.server, at |-> clock]
<1>1. /\ pending # None /\ pending' = None
      /\ cache' = cache \/ cache' = [cache EXCEPT ![pending.term] = entry]
      /\ rows' = rows \cup Stamped(pending.certs, pending.server)
      /\ left' = left \ {pending.term}
      /\ UNCHANGED <<clock, began, replayed, report>>
  BY DEF Collect
<1>2. /\ report = None /\ pending.term \in left /\ pending.term \in Term
      /\ pending.certs \subseteq Cert
      /\ pending.server \in Nat /\ began <= pending.server /\ pending.server <= clock
      /\ \A c \in pending.certs : ~Excluded(c, pending.server)
  BY <1>1 DEF ExpiringInv, Asked, Shape
<1>3. entry \in Entry
  BY <1>2 DEF Entry, ExpiringInv, Shape
<1>4. ASSUME NEW r \in Stamped(pending.certs, pending.server)
      PROVE  /\ r \in [cert : Cert, server_now : Nat]
             /\ r.cert \in pending.certs /\ r.server_now = pending.server
  BY <1>2 DEF Stamped
<1>5. Shape'
  <2>1. cache' \in [Term -> Entry \cup {None}]
    BY <1>1, <1>2, <1>3 DEF ExpiringInv, Shape
  <2> QED BY <1>1, <1>4, <2>1 DEF ExpiringInv, Shape
<1>6. Running' /\ Asked'
  BY <1>1, <1>2 DEF ExpiringInv, Shape, Running, Asked
<1>7. ASSUME NEW t \in Term
      PROVE  Cached(t)'
  <2>1. CASE cache'[t] = cache[t]
    BY <1>1, <2>1 DEF ExpiringInv, Cached, Excluded
  <2>2. CASE cache'[t] = entry
    <3>1. clock \in pending.server..clock /\ clock <= pending.server + Slowest
      BY <1>2, ExpiringConstants DEF ExpiringInv, Shape, Running
    <3> QED BY <1>1, <1>2, <2>2, <3>1 DEF Cached, Excluded
  <2> QED BY <1>1, <1>2, <2>1, <2>2 DEF ExpiringInv, Shape
<1>8. ASSUME NEW r \in rows'
      PROVE  Collected(r)'
  <2>1. CASE r \in rows
    BY <1>1, <2>1 DEF ExpiringInv, Collected, Excluded
  <2>2. CASE r \in Stamped(pending.certs, pending.server)
    <3>1. r.cert \in Cert /\ ~Excluded(r.cert, r.server_now) /\ r.server_now = pending.server
      BY <1>2, <1>4, <2>2
    <3>2. NotAfter[r.cert] + LookBack >= r.server_now
      BY <1>2, <3>1, ExpiringConstants DEF Excluded
    <3> QED BY <1>1, <1>2, <3>1, <3>2, ExpiringConstants
            DEF Collected, Excluded, ExpiringInv, Shape
  <2> QED BY <1>1, <2>1, <2>2
<1>9. Reported'
  BY <1>1, <1>2 DEF Reported
<1> QED BY <1>5, <1>6, <1>7, <1>8, <1>9 DEF ExpiringInv

LEMMA ReplayKeepsInv ==
  ASSUME ExpiringInv, NEW t \in Term, Replay(t)
  PROVE  ExpiringInv'
<1>1. /\ report = None /\ pending = None /\ t \in left
      /\ cache[t] # None /\ Age(t) <= Lifetime
      /\ rows' = rows \cup Stamped(cache[t].certs, ReplayedClock(t))
      /\ left' = left \ {t} /\ replayed' = TRUE
      /\ UNCHANGED <<clock, cache, pending, began, report>>
  BY DEF Replay
<1>2. /\ cache[t] \in Entry
      /\ cache[t].server <= cache[t].at /\ cache[t].at <= clock
      /\ cache[t].at <= cache[t].server + Slowest
      /\ \A c \in cache[t].certs : ~Excluded(c, cache[t].server)
  BY <1>1 DEF ExpiringInv, Shape, Cached
<1>3. /\ cache[t].certs \subseteq Cert /\ cache[t].server \in Nat /\ cache[t].at \in Nat
  BY <1>2 DEF Entry
<1>4. /\ ReplayedClock(t) \in Nat
      /\ ReplayedClock(t) <= clock
      /\ ReplayedClock(t) <= cache[t].server + Lifetime
      /\ began <= ReplayedClock(t) + Slowest
  BY <1>1, <1>2, <1>3, ExpiringConstants DEF ReplayedClock, Age, ExpiringInv, Shape, Running
<1>5. ASSUME NEW r \in Stamped(cache[t].certs, ReplayedClock(t))
      PROVE  /\ r \in [cert : Cert, server_now : Nat]
             /\ r.cert \in cache[t].certs /\ r.server_now = ReplayedClock(t)
  BY <1>3, <1>4 DEF Stamped
<1>6. Shape'
  BY <1>1, <1>5 DEF ExpiringInv, Shape
<1>7. Running' /\ Asked'
  BY <1>1 DEF ExpiringInv, Shape, Running, Asked
<1>8. ASSUME NEW u \in Term
      PROVE  Cached(u)'
  BY <1>1 DEF ExpiringInv, Cached, Excluded
<1>9. ASSUME NEW r \in rows'
      PROVE  Collected(r)'
  <2>1. CASE r \in rows
    BY <1>1, <2>1 DEF ExpiringInv, Collected, Excluded
  <2>2. CASE r \in Stamped(cache[t].certs, ReplayedClock(t))
    <3>1. r.cert \in Cert /\ ~Excluded(r.cert, cache[t].server) /\ r.server_now = ReplayedClock(t)
      BY <1>2, <1>5, <2>2
    <3>2. NotAfter[r.cert] + LookBack + Lifetime >= r.server_now
      BY <1>3, <1>4, <3>1, ExpiringConstants DEF Excluded
    <3> QED BY <1>1, <1>4, <3>1, <3>2 DEF Collected
  <2> QED BY <1>1, <2>1, <2>2
<1>10. Reported'
  BY <1>1 DEF Reported
<1> QED BY <1>6, <1>7, <1>8, <1>9, <1>10 DEF ExpiringInv

\* The labels go by a clock that no row's own is earlier than.
LEMMA LabelClockIsEarliest ==
  ASSUME ExpiringInv
  PROVE  /\ LabelClock \in Nat
         /\ LabelClock <= clock
         /\ began <= LabelClock + Slowest
         /\ \A r \in rows : LabelClock <= r.server_now
<1> DEFINE stamps == {r.server_now : r \in rows}
<1>1. CASE rows = {}
  <2>1. LabelClock = clock
    BY <1>1 DEF LabelClock
  <2> QED BY <1>1, <2>1, ExpiringConstants DEF ExpiringInv, Shape, Running
<1>2. CASE rows # {}
  <2>1. stamps \in SUBSET Nat /\ stamps # {}
    BY <1>2 DEF ExpiringInv, Shape
  <2>2. LabelClock = Min(stamps)
    BY <1>2 DEF LabelClock
  <2> HIDE DEF stamps
  <2>3. LabelClock \in stamps /\ \A y \in stamps : LabelClock <= y
    BY <2>1, <2>2, EarliestIsOne
  <2>4. PICK r \in rows : r.server_now = LabelClock
    BY <2>3 DEF stamps
  <2>5. LabelClock <= clock /\ began <= LabelClock + Slowest
    BY <2>4 DEF ExpiringInv, Collected
  <2> QED BY <2>1, <2>3, <2>5 DEF stamps
<1> QED BY <1>1, <1>2

LEMMA AssembleKeepsInv ==
  ASSUME ExpiringInv, Assemble
  PROVE  ExpiringInv'
<1> DEFINE now == LabelClock
<1>1. /\ report = None /\ left = {} /\ rows' = {}
      /\ report' = [now |-> now,
                    rows |-> {[cert |-> r.cert, days_left |-> DaysLeft(r.cert, now),
                               status |-> Status(r.cert, now)] : r \in rows}]
      /\ UNCHANGED <<clock, cache, pending, began, left, replayed>>
  BY DEF Assemble
<1>2. /\ now \in Nat /\ now <= clock /\ began <= now + Slowest
      /\ \A r \in rows : now <= r.server_now
  BY LabelClockIsEarliest
<1> HIDE DEF now
<1>3. pending = None
  BY <1>1 DEF ExpiringInv, Asked
<1>4. Shape' /\ Running' /\ Asked'
  BY <1>1, <1>3 DEF ExpiringInv, Shape, Running, Asked
<1>5. ASSUME NEW t \in Term
      PROVE  Cached(t)'
  BY <1>1 DEF ExpiringInv, Cached, Excluded
<1>6. ASSUME NEW x \in report'.rows
      PROVE  Labelled(x)'
  <2>1. PICK r \in rows : x = [cert |-> r.cert, days_left |-> DaysLeft(r.cert, now),
                               status |-> Status(r.cert, now)]
    BY <1>1
  <2>2. /\ x.cert = r.cert /\ x.days_left = DaysLeft(x.cert, now)
        /\ x.status = Status(x.cert, now) /\ report'.now = now
    BY <1>1, <2>1
  <2>3. r.cert \in Cert /\ r.server_now \in Nat /\ NotAfter[r.cert] \in Nat
    BY ExpiringConstants DEF ExpiringInv, Shape
  <2>4. Collected(r) /\ now <= r.server_now
    BY <1>2 DEF ExpiringInv
  <2>5. NotAfter[x.cert] + LookBack + Lifetime + Slowest >= began
    BY <2>2, <2>3, <2>4, ExpiringConstants DEF Collected, ExpiringInv, Shape
  <2>6. ~replayed => ~Excluded(x.cert, now)
    BY <1>2, <2>2, <2>3, <2>4, ExpiringConstants DEF Collected, Excluded
  <2> QED BY <1>1, <2>2, <2>3, <2>5, <2>6
          DEF Labelled, Status, DaysLeft, WholeMillis, Excluded
<1>7. Reported'
  <2>1. report'.now = now
    BY <1>1
  <2> QED BY <1>1, <1>2, <1>6, <2>1 DEF Reported
<1> QED BY <1>1, <1>4, <1>5, <1>7 DEF ExpiringInv

LEMMA NextRunKeepsInv ==
  ASSUME ExpiringInv, NextRun
  PROVE  ExpiringInv'
<1>1. /\ report # None /\ report' = None /\ began' = clock /\ left' = Term /\ replayed' = FALSE
      /\ UNCHANGED <<clock, cache, pending, rows>>
  BY DEF NextRun
<1>2. rows = {} /\ pending = None
  BY <1>1 DEF ExpiringInv, Running, Asked
<1>3. Shape' /\ Running' /\ Asked' /\ Reported'
  BY <1>1, <1>2, ExpiringConstants DEF ExpiringInv, Shape, Running, Asked, Reported
<1>4. ASSUME NEW t \in Term
      PROVE  Cached(t)'
  BY <1>1 DEF ExpiringInv, Cached, Excluded
<1> QED BY <1>1, <1>2, <1>3, <1>4 DEF ExpiringInv

LEMMA TickKeepsInv ==
  ASSUME ExpiringInv, Tick
  PROVE  ExpiringInv'
<1>1. /\ report = None /\ clock' = clock + 1
      /\ left # Term \/ pending # None => clock - began < Slowest
      /\ began' = IF left = Term /\ pending = None THEN clock + 1 ELSE began
      /\ UNCHANGED <<cache, pending, left, rows, replayed, report>>
  BY DEF Tick
<1>2. Shape
  BY DEF ExpiringInv
<1>3. Shape' /\ Reported'
  BY <1>1, <1>2 DEF Shape, Reported
<1>4. Running'
  BY <1>1, <1>2, ExpiringConstants DEF ExpiringInv, Shape, Running
<1>5. Asked'
  <2>1. pending # None => began' = began
    BY <1>1
  <2> QED BY <1>1, <1>2, <2>1 DEF ExpiringInv, Shape, Asked, Excluded
<1>6. ASSUME NEW t \in Term
      PROVE  Cached(t)'
  <2> SUFFICES ASSUME cache[t] # None
               PROVE  cache[t].at \in cache[t].server..(clock + 1)
    BY <1>1 DEF ExpiringInv, Cached, Excluded
  <2>1. cache[t].at \in Nat /\ cache[t].server \in Nat
    BY <1>2 DEF Shape, Entry
  <2> QED BY <1>2, <2>1 DEF ExpiringInv, Cached, Shape
<1>7. ASSUME NEW r \in rows
      PROVE  Collected(r)'
  <2>1. began' = began
    BY <1>1, <1>7 DEF ExpiringInv, Running
  <2>2. r.server_now \in Nat
    BY <1>2 DEF Shape
  <2> QED BY <1>1, <1>2, <2>1, <2>2 DEF ExpiringInv, Shape, Collected, Excluded
<1> QED BY <1>1, <1>3, <1>4, <1>5, <1>6, <1>7 DEF ExpiringInv

LEMMA InvStep == ExpiringInv /\ [Next]_vars => ExpiringInv'
<1> SUFFICES ASSUME ExpiringInv, [Next]_vars
             PROVE  ExpiringInv'
  OBVIOUS
<1>1. CASE UNCHANGED vars
  BY <1>1 DEF vars, ExpiringInv, Shape, Running, Asked, Cached, Collected, Reported, Labelled,
              Excluded, Status, DaysLeft, WholeMillis
<1> QED BY <1>1, QueryKeepsInv, ReplayKeepsInv, CollectKeepsInv, AssembleKeepsInv,
           NextRunKeepsInv, TickKeepsInv DEF Next

LEMMA InvHolds == Spec => []ExpiringInv
BY InvInitially, InvStep, PTL DEF Spec

-----------------------------------------------------------------------------
(* What a report says of time                                              *)

\* What is called EXPIRED has expired, however its answer was replayed.
THEOREM ExpiredLabelsAreTrue == Spec => []ExpiredIsTrue
<1>1. ExpiringInv => ExpiredIsTrue
  <2> SUFFICES ASSUME ExpiringInv, report # None, NEW r \in report.rows, r.status = "EXPIRED"
               PROVE  NotAfter[r.cert] < clock
    BY DEF ExpiredIsTrue
  <2>1. Labelled(r) /\ report.now \in Nat /\ report.now <= clock
    BY DEF ExpiringInv, Reported
  <2>2. NotAfter[r.cert] < report.now
    BY <2>1 DEF Labelled, Status
  <2> QED BY <2>1, <2>2, ExpiringConstants DEF Labelled, ExpiringInv, Shape
<1> QED BY <1>1, InvHolds, PTL

\* What is called live was so when the run began, or one query before.
THEOREM LiveLabelsAreRecent == Spec => []LiveIsRecent
<1>1. ExpiringInv => LiveIsRecent
  <2> SUFFICES ASSUME ExpiringInv, report # None, NEW r \in report.rows, r.status # "EXPIRED"
               PROVE  NotAfter[r.cert] >= began - Slowest
    BY DEF LiveIsRecent
  <2>1. Labelled(r) /\ report.now \in Nat /\ began <= report.now + Slowest
    BY DEF ExpiringInv, Reported
  <2>2. ~ (NotAfter[r.cert] < report.now)
    BY <2>1 DEF Labelled, Status
  <2> QED BY <2>1, <2>2, ExpiringConstants DEF Labelled, ExpiringInv, Shape
<1> QED BY <1>1, InvHolds, PTL

\* A run that replays nothing shows nothing that its look-back excludes.
THEOREM FreshRunsHonourTheWindow == Spec => []FreshRunHonoursWindow
<1>1. ExpiringInv => FreshRunHonoursWindow
  <2> SUFFICES ASSUME ExpiringInv, report # None, ~replayed, LookBack = 0, NEW r \in report.rows
               PROVE  r.status # "EXPIRED"
    BY DEF FreshRunHonoursWindow
  <2>1. Labelled(r) /\ report.now \in Nat
    BY DEF ExpiringInv, Reported
  <2>2. NotAfter[r.cert] \in Nat /\ ~ (NotAfter[r.cert] + LookBack < report.now)
    BY <2>1, ExpiringConstants DEF Labelled, Excluded
  <2>3. ~ (NotAfter[r.cert] < report.now)
    BY <2>1, <2>2
  <2> QED BY <2>1, <2>3 DEF Labelled, Status
<1> QED BY <1>1, InvHolds, PTL

\* The window of a report has drifted by no more than an answer may be old, its
\* query and its run may take.
THEOREM DriftStaysBounded == Spec => []DriftIsBounded
<1>1. ExpiringInv => DriftIsBounded
  <2> SUFFICES ASSUME ExpiringInv, report # None, NEW r \in report.rows
               PROVE  NotAfter[r.cert] >= clock - LookBack - Lifetime - 2 * Slowest
    BY DEF DriftIsBounded
  <2>1. Labelled(r)
    BY DEF ExpiringInv, Reported
  <2> QED BY <2>1, ExpiringConstants DEF Labelled, ExpiringInv, Shape, Running
<1> QED BY <1>1, InvHolds, PTL

\* days_left is negative from the first whole millisecond after notAfter on and only
\* on rows shown as EXPIRED, and not 0 with a whole day left, for any lengths of a
\* millisecond and a day (ExpiringRow::new of expiring.rs).
THEOREM DaysAreFloored == Spec => []DaysLeftFloored
<1>1. ExpiringInv => DaysLeftFloored
  <2> SUFFICES ASSUME ExpiringInv, report # None, NEW r \in report.rows
               PROVE  /\ NotAfter[r.cert] <= report.now - TicksPerMilli => r.days_left < 0
                      /\ r.days_left < 0 => r.status = "EXPIRED"
                      /\ r.days_left = 0 =>
                           NotAfter[r.cert] - report.now < TicksPerMilli * MillisPerDay
    BY DEF DaysLeftFloored
  <2>1. report.now \in Nat /\ Labelled(r) /\ r.cert \in Cert
    BY DEF ExpiringInv, Reported, Labelled
  <2>2. /\ r.days_left < 0 <=> NotAfter[r.cert] <= report.now - TicksPerMilli
        /\ r.days_left = 0 => NotAfter[r.cert] - report.now < TicksPerMilli * MillisPerDay
    BY <2>1, DaysFloor DEF Labelled
  <2>3. ASSUME r.days_left < 0
        PROVE  r.status = "EXPIRED"
    <3>1. NotAfter[r.cert] < report.now
      BY <2>1, <2>2, <2>3, ExpiringConstants
    <3> QED BY <2>1, <3>1 DEF Labelled, Status
  <2> QED BY <2>2, <2>3
<1> QED BY <1>1, InvHolds, PTL
==============================================================================
