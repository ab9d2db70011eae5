------------------------------ MODULE Expiring ------------------------------
(***************************************************************************)
(* crt-query expiring: which clock decides what a report calls EXPIRED     *)
(* (src/src/queries/expiring.rs), when every statement of a run stamps its *)
(* rows with the server's clock and the cache replays earlier answers with *)
(* that stamp advanced by their age (get_rows of cache.rs).                *)
(*                                                                         *)
(* Client and server clocks run at one rate; only differences of readings  *)
(* of one clock are ever taken, so one variable stands for both.  Time is  *)
(* counted in ticks smaller than the millisecond the code truncates to.    *)
(***************************************************************************)
EXTENDS Integers, FiniteSetsExt

CONSTANTS
  Term,         \* the domains of the run
  Cert,         \* the certificates in the database
  NotAfter,     \* NotAfter[c]: when c expires
  Within,       \* --within
  LookBack,     \* --since-expired; 0 under --skip-expired
  Lifetime,     \* how long a cached answer is usable
  Slowest,      \* bound: the longest a run may take, and a query
  TicksPerMilli,
  MillisPerDay,
  MaxTime,      \* bound: the largest clock reading
  None

ASSUME ExpiringConstants ==
  /\ NotAfter \in [Cert -> Nat]
  /\ {Within, LookBack, Lifetime, Slowest, MaxTime} \subseteq Nat
  /\ {TicksPerMilli, MillisPerDay} \subseteq Nat \ {0}

VARIABLES
  clock,
  cache,    \* what the cache holds for each term: its rows' certificates, the
            \* server's stamp on them and the time of the put
  pending,  \* an answer that has arrived and is not yet collected
  began,    \* when the current run began
  left,     \* its terms still to be answered
  rows,     \* the rows collected: certificate and server clock; assembled into the report
  replayed, \* whether some of them came from the cache
  report    \* the finished report and the clock of its labels, None before

vars == <<clock, cache, pending, began, left, rows, replayed, report>>

Init ==
  /\ clock = 0
  /\ cache = [t \in Term |-> None]
  /\ pending = None
  /\ began = 0
  /\ left = Term
  /\ rows = {}
  /\ replayed = FALSE
  /\ report = None

\* EXPIRING_SQL: the window is cut by the clock that the rows are stamped with.
InWindow(c, server) ==
  /\ NotAfter[c] <= server + Within
  /\ NotAfter[c] >= server - LookBack

Stamped(certs, server) == [cert : certs, server_now : {server}]

\* The statement is executed; LIMIT may cut its window short.
Query(t) ==
  /\ report = None
  /\ pending = None
  /\ t \in left
  /\ \E certs \in SUBSET {c \in Cert : InWindow(c, clock)} :
       pending' = [term |-> t, certs |-> certs, server |-> clock]
  /\ UNCHANGED <<clock, cache, began, left, rows, replayed, report>>

\* Mutant of Collect: the entry is stamped with the start of the run.
Collect_StampedEarly ==
  /\ pending # None
  /\ cache' = [cache EXCEPT ![pending.term] =
                 [certs |-> pending.certs, server |-> pending.server, at |-> began]]
  /\ rows' = rows \cup Stamped(pending.certs, pending.server)
  /\ left' = left \ {pending.term}
  /\ pending' = None
  /\ UNCHANGED <<clock, began, replayed, report>>

\* Its last row has arrived: the answer is cached, stamped by the client, and
\* collected.  The put may fail or be disabled.
Collect ==
  /\ pending # None
  /\ \/ cache' = [cache EXCEPT ![pending.term] =
                    [certs |-> pending.certs, server |-> pending.server, at |-> clock]]
     \/ UNCHANGED cache
  /\ rows' = rows \cup Stamped(pending.certs, pending.server)
  /\ left' = left \ {pending.term}
  /\ pending' = None
  /\ UNCHANGED <<clock, began, replayed, report>>

Age(t) == clock - cache[t].at

\* Mutant of ReplayedClock: the stamp is not advanced.
ReplayedClock_Stale(t) == cache[t].server

\* The server's clock as it would read now: its stamp plus the entry's age.
ReplayedClock(t) == cache[t].server + Age(t)

\* Mutant of Replay: an entry of any age is replayed.
Replay_AnyAge(t) ==
  /\ report = None
  /\ pending = None
  /\ t \in left
  /\ cache[t] # None
  /\ rows' = rows \cup Stamped(cache[t].certs, ReplayedClock(t))
  /\ left' = left \ {t}
  /\ replayed' = TRUE
  /\ UNCHANGED <<clock, cache, pending, began, report>>

Replay(t) ==
  /\ report = None
  /\ pending = None
  /\ t \in left
  /\ cache[t] # None
  /\ Age(t) <= Lifetime
  /\ rows' = rows \cup Stamped(cache[t].certs, ReplayedClock(t))
  /\ left' = left \ {t}
  /\ replayed' = TRUE
  /\ UNCHANGED <<clock, cache, pending, began, report>>

\* num_milliseconds truncates towards zero, div_euclid floors.
WholeMillis(span) ==
  IF span >= 0 THEN span \div TicksPerMilli ELSE -((-span) \div TicksPerMilli)

\* Mutant of DaysLeft: the quotient is truncated too.
DaysLeft_Truncated(c, now) ==
  LET millis == WholeMillis(NotAfter[c] - now)
  IN  IF millis >= 0 THEN millis \div MillisPerDay ELSE -((-millis) \div MillisPerDay)

DaysLeft(c, now) == WholeMillis(NotAfter[c] - now) \div MillisPerDay

Status(c, now) ==
  IF NotAfter[c] < now THEN "EXPIRED"
  ELSE IF DaysLeft(c, now) = 0 THEN "EXPIRES TODAY" ELSE "EXPIRES IN"

\* Mutant of LabelClock: the latest clock.
LabelClock_Latest == IF rows = {} THEN clock ELSE Max({r.server_now : r \in rows})

\* The labels of a whole report go by the earliest clock among its rows.
LabelClock == IF rows = {} THEN clock ELSE Min({r.server_now : r \in rows})

Assemble ==
  /\ report = None
  /\ left = {}
  /\ report' = [now |-> LabelClock,
                rows |-> {[cert |-> r.cert, days_left |-> DaysLeft(r.cert, LabelClock),
                           status |-> Status(r.cert, LabelClock)] : r \in rows}]
  /\ rows' = {}
  /\ UNCHANGED <<clock, cache, pending, began, left, replayed>>

NextRun ==
  /\ report # None
  /\ began' = clock
  /\ left' = Term
  /\ replayed' = FALSE
  /\ report' = None
  /\ UNCHANGED <<clock, cache, pending, rows>>

\* A report shows the moment it was assembled; before it a run takes its time.
Tick ==
  /\ clock < MaxTime
  /\ report = None
  /\ left # Term \/ pending # None => clock - began < Slowest
  /\ clock' = clock + 1
  /\ began' = IF left = Term /\ pending = None THEN clock + 1 ELSE began
  /\ UNCHANGED <<cache, pending, left, rows, replayed, report>>

Next ==
  \/ \E t \in Term : Query(t) \/ Replay(t)
  \/ Collect \/ Assemble \/ NextRun \/ Tick

Spec == Init /\ [][Next]_vars

-----------------------------------------------------------------------------
(* Properties                                                              *)

\* What a report calls EXPIRED has expired: no label runs ahead of the server,
\* however an answer was replayed.
ExpiredIsTrue ==
  report # None => \A r \in report.rows : r.status = "EXPIRED" => NotAfter[r.cert] < clock

\* What a report calls live was live when its run began, or at worst as long
\* before as one query takes, though it may come from an answer cached long
\* ago: the replayed stamp keeps up with the clock.
LiveIsRecent ==
  report # None => \A r \in report.rows :
    r.status # "EXPIRED" => NotAfter[r.cert] >= began - Slowest

\* "The same clock the server used to choose the window decides the labels":
\* a run that asks the database for everything shows nothing as EXPIRED that
\* its look-back excludes, though its statements ran at different times.
FreshRunHonoursWindow ==
  report # None /\ ~replayed /\ LookBack = 0 => \A r \in report.rows : r.status # "EXPIRED"

\* "The drift is bounded by the lifetime" (README, Caching): a certificate in a
\* report is outside its look-back by no more than a cached answer may be old,
\* the time of its query and that of the run.
DriftIsBounded ==
  report # None => \A r \in report.rows :
    NotAfter[r.cert] >= clock - LookBack - Lifetime - 2 * Slowest

\* "so --skip-expired can never surface a row marked EXPIRED" (expiring.rs).
SkipExpiredShowsNone ==
  report # None /\ LookBack = 0 => \A r \in report.rows : r.status # "EXPIRED"

\* "Floored: negative once expired, 0 only within the last 24 hours before expiry"
\* (README, Output), so that days_left is usable on its own: it is negative from the
\* first whole millisecond after notAfter on, on no row that is not EXPIRED, and 0
\* on none that has a whole day left.  Of the fraction of a millisecond right after
\* notAfter nothing is said: an EXPIRED row has 0 there.
DaysLeftFloored ==
  report # None => \A r \in report.rows :
    /\ NotAfter[r.cert] <= report.now - TicksPerMilli => r.days_left < 0
    /\ r.days_left < 0 => r.status = "EXPIRED"
    /\ r.days_left = 0 => NotAfter[r.cert] - report.now < TicksPerMilli * MillisPerDay
=============================================================================
