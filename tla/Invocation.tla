----------------------------- MODULE Invocation -----------------------------
(***************************************************************************)
(* Runs of crt-query, one after another, by accounts that may share a      *)
(* cache directory and each with its own command line, environment and     *)
(* config file: run and open_source of src/src/main.rs put together what   *)
(* CommandLine, Config, Cells and Update say.                              *)
(*                                                                         *)
(* An invocation is [account, flags, env, dirs, disk, args]: disk maps the *)
(* directories that hold a config file to what it says.  How the cache     *)
(* keeps its entries is in CacheStore, how long in Expiring and CertLookup *)
(* (here an entry may be gone at any time), how a statement is sent in     *)
(* Fetch, and how a report reaches its file in Report.                     *)
(***************************************************************************)
EXTENDS CommandLine, Cells, Update

CONSTANTS
  Invocations,
  Held,       \* what databases hold: [db, subject, cert, identity, left], with
              \* left the days until notAfter, Unset where there is none
  Redirects,  \* how GitHub may answer
  Texts(_),   \* the texts that the certificates an invocation finds may carry
  Digits, Word, \* a number, and text of no consequence
  MaxRuns     \* bound: runs

\* A directory that holds a config file is one.
ASSUME DirectoriesAreGiven == \A i \in Invocations : Unset \notin DOMAIN i.disk

\* What check-update prints is something.
ASSUME RedirectsAreVersions ==
  \A redirect \in Redirects \ {NoAnswer} :
    /\ IsVersion(redirect.tag.version)
    /\ \A summary \in {"available", "latest", "ahead"} :
         Unset # [release |-> redirect.tag, summary |-> summary]

\* Whatever a certificate says of itself is a text; a number is one, and a
\* finite one after a minus sign.
ASSUME TextsAreTexts ==
  /\ \A i \in Invocations : \A text \in Texts(i) : text \in Seq(ToSet(text))
  /\ Digits \in Finite
  /\ Digits \notin FormulaLead \cup Format \cup {Minus}

\* Databases hold so many rows, and their identities differ in what is plain.
ASSUME HeldIsFinite ==
  /\ IsFiniteSet(Held)
  /\ \A r \in Held : r.identity \notin Format

VARIABLES
  runs,     \* how many have ended
  run,      \* the current invocation, Unset between two
  stage,    \* "idle", "opening", "asking", "emitting" or "over"
  answers,  \* one for each subject so far: its rows, whence, and the question
            \* that the rows answer
  told,     \* the notices on stderr, but for the progress of the run
  emitted,  \* what is printed, and written to the CSV file
  status,   \* the exit status, Unset before it is decided
  error,    \* what went wrong, "none" if nothing did
  cache     \* entries: directory, view, key, rows, and the question they answer

vars == <<runs, run, stage, answers, told, emitted, status, error, cache>>

Init ==
  /\ runs = 0
  /\ run = Unset
  /\ stage = "idle"
  /\ answers = <<>>
  /\ told = {}
  /\ emitted = Unset
  /\ status = Unset
  /\ error = "none"
  /\ cache = {}

-----------------------------------------------------------------------------
(* What an invocation comes to                                             *)

File(i) == FileConfig(i.dirs, i.disk)
LayersOf(i) == Layers(i.flags, i.env, File(i))
ConfigOf(i) == BuildConfig(Conn(LayersOf(i)))
ModeOf(i) == CacheMode(i.args.no_cache, i.args.refresh, File(i))
CacheDir(i) == CacheRoot(i.dirs)

\* What stops a run before it asks anything, in the order it is met; the last
\* when cache_identity parses the db_url.
OpenError(i) ==
  IF File(i) = Broken THEN "config file"
  ELSE IF EnvFails(i.env) THEN "environment"
  ELSE IF Conflicts(LayersOf(i)) THEN "conflict"
  ELSE IF UrlFails(Conn(LayersOf(i))) THEN "db_url"
  ELSE "none"

\* What is asked of a database about one subject, and what the answer is
\* cached under: the subject verbatim, though the server ignores its case.
Question(i, subject) ==
  [db |-> Reached(ConfigOf(i), i.account), statement |-> Statement(i.args),
   subject |-> IF i.args.command = "cert" THEN subject ELSE Lower[subject],
   parameters |-> Parameters(i.args)]

Key(i, subject) ==
  [target |-> CacheIdentity(ConfigOf(i), i.account), sql |-> Statement(i.args),
   term |-> subject, params |-> Parameters(i.args)]

\* SEARCH_SQL: a floor unless the look-back is 0, and that of --skip-expired; a
\* certificate without notAfter passes both.
InSearchWindow(left, p) ==
  left = Unset \/ ((p[1] = AllHistory \/ left >= -p[1]) /\ (p[2] = Flag(FALSE) \/ left >= 0))

InExpiringWindow(left, p) == left # Unset /\ left <= p[1] /\ left >= -p[2]

Matching(q) ==
  {r \in Held :
     /\ r.db = q.db
     /\ r.subject = q.subject
     /\ q.statement = "search" => InSearchWindow(r.left, q.parameters)
     /\ q.statement = "expiring" => InExpiringWindow(r.left, q.parameters)}

\* No ORDER BY: a LIMIT leaves any slice of the rows that match.
Slices(q) ==
  IF q.statement \notin Reports THEN {Matching(q)}
  ELSE LET limit == q.parameters[3]
       IN  IF Cardinality(Matching(q)) <= limit THEN {Matching(q)}
           ELSE {s \in SUBSET Matching(q) : Cardinality(s) = limit}

-----------------------------------------------------------------------------
(* Commands that need no database                                          *)

Begin(i) ==
  /\ stage = "idle"
  /\ runs < MaxRuns
  /\ run' = i

Ends(code, why) ==
  /\ stage' = "over"
  /\ status' = code
  /\ error' = why

Tells(notices) == told' = IF run'.args.quiet THEN {} ELSE notices

UsageFails(i) ==
  /\ Begin(i)
  /\ UsageError(i.args, i.flags)
  /\ Ends(2, "usage")
  /\ UNCHANGED <<runs, answers, told, emitted, cache>>

Completions(i) ==
  /\ Begin(i)
  /\ ~UsageError(i.args, i.flags)
  /\ i.args.command = "completions"
  /\ Ends(0, "none")
  /\ UNCHANGED <<runs, answers, told, emitted, cache>>

CheckUpdate(i) ==
  /\ Begin(i)
  /\ ~UsageError(i.args, i.flags)
  /\ i.args.command = "check-update"
  /\ \E redirect \in Redirects :
       IF NamesRelease(redirect)
         THEN /\ emitted' = [release |-> redirect.tag,
                             summary |-> Summary(redirect.tag.version, Current)]
              /\ Tells(IF IsNewer(redirect.tag.version, Current) THEN {"upgrade"} ELSE {})
              /\ Ends(0, "none")
         ELSE UNCHANGED <<told, emitted>> /\ Ends(1, "github")
  /\ UNCHANGED <<runs, answers, cache>>

\* Mutant of CacheCommand: it opens a source, as the queries do.
CacheCommand_Opens(i) ==
  /\ Begin(i)
  /\ ~UsageError(i.args, i.flags)
  /\ i.args.command \in {"cache path", "cache clear"}
  /\ Ends(IF OpenError(i) = "none" THEN 0 ELSE 1, OpenError(i))
  /\ UNCHANGED <<runs, answers, told, emitted, cache>>

\* Cache::clear: a file that cannot be removed stays, a directory that cannot be
\* read is an error.
Clear(i) ==
  \/ /\ \E kept \in SUBSET {e \in cache : e.dir = CacheDir(i)} :
          cache' = {e \in cache : e.dir # CacheDir(i)} \cup kept
     /\ Tells({"cleared"})
     /\ Ends(0, "none")
  \/ Ends(1, "clearing") /\ UNCHANGED <<told, cache>>

\* The cache is built enabled, whatever --no-cache says.
CacheCommand(i) ==
  /\ Begin(i)
  /\ ~UsageError(i.args, i.flags)
  /\ i.args.command \in {"cache path", "cache clear"}
  /\ IF File(i) = Broken THEN Ends(1, "config file") /\ UNCHANGED <<told, cache>>
     ELSE IF CacheDir(i) # Unset
       THEN IF i.args.command = "cache path"
              THEN Ends(0, "none") /\ UNCHANGED <<told, cache>>
              ELSE Clear(i)
     ELSE IF i.args.command = "cache path"
       THEN Ends(1, "no directory") /\ UNCHANGED <<told, cache>>
     ELSE Ends(0, "none") /\ Tells({"nothing to clear"}) /\ UNCHANGED cache
  /\ UNCHANGED <<runs, answers, emitted>>

-----------------------------------------------------------------------------
(* search, expiring and cert                                               *)

Open(i) ==
  /\ Begin(i)
  /\ ~UsageError(i.args, i.flags)
  /\ i.args.command \in Asks
  /\ IF OpenError(i) = "none" THEN stage' = "asking" /\ UNCHANGED <<status, error>>
     ELSE Ends(1, OpenError(i))
  /\ UNCHANGED <<runs, answers, told, emitted, cache>>

Subject == Subjects(run.args)[Len(answers) + 1]

Asking == stage = "asking" /\ Len(answers) < Len(Subjects(run.args))

\* A certificate that was found is kept apart from a miss, and looked at first.
View(sql, rows) == IF sql \notin Reports /\ rows # {} THEN "certificates" ELSE "ordinary"

Entries(i, subject) ==
  {e \in cache : e.dir = CacheDir(i) /\ e.key = Key(i, subject)}

Hits(i, subject) ==
  {e \in Entries(i, subject) :
     e.view = "ordinary" => \A f \in Entries(i, subject) : f.view = "ordinary"}

AnswerFromCache ==
  /\ Asking
  /\ ModeOf(run) = "enabled"
  /\ \E e \in Hits(run, Subject) :
       answers' = Append(answers, [rows |-> e.rows, from |-> "cache", question |-> e.question])
  /\ UNCHANGED <<runs, run, stage, told, emitted, status, error, cache>>

\* The rows are stored as well, unless the cache is disabled, has no directory
\* or cannot be written.
AnswerFromDatabase ==
  /\ Asking
  /\ LET question == Question(run, Subject)
         key == Key(run, Subject)
     IN  \E rows \in Slices(question) :
           LET view == View(key.sql, rows)
               entry == [dir |-> CacheDir(run), view |-> view, key |-> key,
                         rows |-> rows, question |-> question]
           IN  /\ answers' = Append(answers, [rows |-> rows, from |-> "database",
                                              question |-> question])
               /\ cache' \in {cache} \cup
                    IF ModeOf(run) = "disabled" \/ CacheDir(run) = Unset THEN {}
                    ELSE {{e \in cache : e \notin Entries(run, Subject) \/ e.view # view}
                            \cup {entry}}
  /\ UNCHANGED <<runs, run, stage, told, emitted, status, error>>

AskFails ==
  /\ Asking
  /\ Ends(1, "database")
  /\ UNCHANGED <<runs, run, answers, told, emitted, cache>>

-----------------------------------------------------------------------------
(* The report                                                              *)

\* The subjects whose answers filled their row window.
Saturated ==
  {Subjects(run.args)[n] : n \in {m \in DOMAIN answers :
                                    Cardinality(answers[m].rows) >= Limit(run.args)}}

RawRows ==
  UNION {{[term |-> n, row |-> r] : r \in answers[n].rows} : n \in DOMAIN answers}

\* Dedup says how; a certificate here has one ID.
Collapsed ==
  {[cert |-> w.row.cert, left |-> w.row.left,
    identities |-> {v.row.identity : v \in {u \in RawRows : u.row.cert = w.row.cert}}]
     : w \in RawRows}

Expanded ==
  {[cert |-> w.row.cert, left |-> w.row.left, identities |-> {w.row.identity},
    term |-> w.term] : w \in RawRows}

ReportRows == IF run.args.command \in Reports /\ run.args.no_dedupe THEN Expanded ELSE Collapsed

\* Mutant of WindowFilled: a full window that collapsed nothing is an answer.
WindowFilled_Collapsed == Saturated # {} /\ Cardinality(ReportRows) < Cardinality(RawRows)

WindowFilled == Saturated # {}

WindowCollapsed == Cardinality(ReportRows) < Cardinality(RawRows)

SaturationNote ==
  [note |-> IF WindowCollapsed THEN "collapsed" ELSE "arbitrary slice", terms |-> Saturated]

EmptyNote ==
  [note |-> "none found", terms |-> ToSet(Subjects(run.args))]

Notices ==
  IF RawRows = {} THEN {EmptyNote}
  ELSE IF WindowFilled /\ run.args.command \in Reports THEN {SaturationNote}
  ELSE {}

ExitCode ==
  IF run.args.command = "cert" /\ RawRows = {} THEN 3
  ELSE IF run.args.command = "expiring" /\ run.args.fail_on_expiring /\ RawRows # {} THEN 4
  ELSE 0

\* The status is decided before anything is written.
Assemble ==
  /\ stage = "asking"
  /\ Len(answers) = Len(Subjects(run.args))
  /\ told' = IF run.args.quiet THEN {} ELSE Notices
  /\ status' = ExitCode
  /\ stage' = "emitting"
  /\ UNCHANGED <<runs, run, answers, emitted, error, cache>>

\* The row of a report, with what its certificate says of itself.
Fields(r, text) ==
  LET spelled == [n \in 1..Cardinality(r.identities) |-> text \o <<SetToSeq(r.identities)[n]>>]
      number == <<Digits>>
  IN  [id |-> number, issuer_ca_id |-> number, issuer_name |-> Null, subject |-> text,
       identities |-> spelled, sans |-> spelled, common_name |-> text, serial |-> number,
       sha256_fingerprint |-> number, not_before |-> Timestamp(number, number),
       not_after |-> IF r.left = Unset THEN Null ELSE Timestamp(number, number),
       days_left |-> IF r.left = Unset THEN Null
                     ELSE IF r.left < 0 THEN <<Minus>> \o number ELSE number,
       status |-> <<Word>>]

Record(r, text) ==
  CASE run.args.command = "search" -> SearchRecord(Fields(r, text))
    [] run.args.command = "expiring" -> ExpiringRecord(Fields(r, text))
    [] run.args.command = "cert" -> CertRecord(Fields(r, text))

\* Report says what happens when this fails or is cut short.
Emit ==
  /\ stage = "emitting"
  /\ \E text \in Texts(run) :
       LET records == {Record(r, text) : r \in ReportRows}
           filed == IF run.args.csv THEN records ELSE {}
       IN  emitted' = [rows |-> ReportRows,
                       table |-> {TableRow(record) : record \in records},
                       csv |-> [record \in filed |-> CsvRows(record)]]
  /\ stage' = "over"
  /\ UNCHANGED <<runs, run, answers, told, status, error, cache>>

-----------------------------------------------------------------------------

\* The next run; the entries may have been pruned, or have expired, before it.
End ==
  /\ stage = "over"
  /\ runs' = runs + 1
  /\ run' = Unset
  /\ stage' = "idle"
  /\ answers' = <<>>
  /\ told' = {}
  /\ emitted' = Unset
  /\ status' = Unset
  /\ error' = "none"
  /\ UNCHANGED cache

Next ==
  \/ \E i \in Invocations :
       UsageFails(i) \/ Completions(i) \/ CheckUpdate(i) \/ CacheCommand(i) \/ Open(i)
  \/ AnswerFromCache \/ AnswerFromDatabase \/ AskFails
  \/ Assemble \/ Emit \/ End

Spec == Init /\ [][Next]_vars

-----------------------------------------------------------------------------
(* Properties                                                              *)

\* The database is named by the entry ("the cache must name the database the
\* rows came from", db.rs) and --refresh and --no-cache ask it: whatever ran
\* before, under whichever account, flags, variables and file, a hit is the
\* answer of the database that this run would ask, to what it would ask.
HitAnswersTheQuestion ==
  \A n \in DOMAIN answers :
    /\ answers[n].question = Question(run, Subjects(run.args)[n])
    /\ answers[n].from = "cache" => ~run.args.no_cache /\ ~run.args.refresh

\* Which database a run asks was never guessed: a setting that is given is the
\* one used, unless a higher layer gives it too or a db_url that no lower layer
\* holds replaces it; and what lies under a relative directory decides nothing.
CallerDecides ==
  stage \in {"asking", "emitting"} =>
    /\ \A n \in 1..3, s \in Single :
         LayersOf(run)[n][s] # Unset =>
           \/ ConfigOf(run)[s] = LayersOf(run)[n][s]
           \/ \E m \in 1..(n - 1) : LayersOf(run)[m][s] # Unset
           \/ \E m \in 1..n : LayersOf(run)[m].db_url # Unset
    /\ LET chosen == {dir \in DOMAIN run.disk : dir[1] \in Absolute}
       IN  File(run) = FileConfig(run.dirs, [dir \in chosen |-> run.disk[dir]])

\* What the database holds for each subject, and what of it a report shows.
Wanted(n) == Matching(Question(run, Subjects(run.args)[n]))

AllWanted == UNION {Wanted(n) : n \in DOMAIN answers}

Shown(w) == \E r \in emitted.rows : r.cert = w.cert /\ w.identity \in r.identities

\* No report passes for more than it is: each row answers one of the terms asked
\* for, and a term of which rows are missing is named on stderr unless --quiet;
\* so an "all clear", status 0 under --fail-on-expiring or an empty report, is
\* never the work of --limit.
ReportIsHonest ==
  stage = "over" /\ error = "none" /\ run.args.command \in Reports =>
    /\ \A r \in emitted.rows : \A identity \in r.identities :
         \E w \in AllWanted : w.cert = r.cert /\ w.identity = identity
    /\ \A n \in DOMAIN answers :
         \/ \A w \in Wanted(n) : Shown(w)
         \/ run.args.quiet
         \/ \E note \in told : Subjects(run.args)[n] \in note.terms
    /\ emitted.rows = {} => AllWanted = {}
    /\ run.args.command = "expiring" /\ run.args.fail_on_expiring =>
         (status = 0 <=> AllWanted = {})

\* Broken settings stop the commands that use them, before they ask or keep
\* anything, and no others: clap's own variables once "made even completions
\* exit 2" (config.rs), and a file that does not parse must not keep anyone from
\* looking for an update.
BrokenSettingsSpare ==
  error \in {"config file", "environment", "conflict", "db_url"} =>
    /\ answers = <<>>
    /\ \/ run.args.command \in Asks
       \/ run.args.command \in {"cache path", "cache clear"} /\ error = "config file"

\* The lines of the file for a record: no field is evaluated, each value has a
\* line, a column that is NULL is an empty field, and days_left is as it is.
InertLines(lines, record) ==
  LET daysAt == Len(record.columns) + Len(record.times) + 1
  IN  /\ \A n \in DOMAIN lines : \A i \in DOMAIN lines[n] : ~MisleadsSpreadsheet(lines[n][i])
      /\ Cardinality({lines[n][record.valuesAt] : n \in DOMAIN lines}) =
           Cardinality(ToSet(record.values))
      /\ \A n \in DOMAIN lines, i \in DOMAIN record.columns :
           record.columns[i] = Null => lines[n][i] = <<>>
      /\ record.last # <<>> => \A n \in DOMAIN lines :
           lines[n][daysAt] = IF record.last[1] = Null THEN <<>> ELSE record.last[1]

\* Whatever a certificate says of itself, the terminal is not made to do or show
\* what the table does not hold, and a spreadsheet evaluates no field of the
\* file; yet a negative days_left stays a number, NULL is an empty field and
\* each identity has a line of its own.
CellsAreInert ==
  stage = "over" /\ error = "none" /\ run.args.command \in Asks =>
    /\ \A row \in emitted.table : \A i \in DOMAIN row : ~MisleadsTerminal(row[i])
    /\ \A record \in DOMAIN emitted.csv : InertLines(emitted.csv[record], record)

\* The fields of a version as the digits of one number, in a base above them all.
AboveFields(v, w) == 1 + v[1] + v[2] + v[3] + w[1] + w[2] + w[3]
Number(core, base) == (core[1] * base + core[2]) * base + core[3]

\* check-update tells an update if and only if there is one: the release that
\* GitHub names has the greater number, field by field as one number, or is the
\* release of what this build is a prerelease of, or cannot be compared and is
\* another ("rather than silently claiming the build is current"); and an answer
\* that names no release is an error, never a version.
UpdateIsReal ==
  stage = "over" /\ run.args.command = "check-update" /\ error # "usage" =>
    IF emitted = Unset THEN error = "github"
    ELSE LET latest == emitted.release.version
             base == AboveFields(latest.core, Current.core)
             newer == \/ Number(latest.core, base) > Number(Current.core, base)
                      \/ /\ Number(latest.core, base) = Number(Current.core, base)
                         /\ Current.pre # Release
                         /\ \/ latest.pre = Release
                            \/ latest.pre # Release /\ latest.pre > Current.pre
         IN  /\ emitted.release.readable
             /\ emitted.summary = "available" <=>
                  IF Parses(latest) /\ Parses(Current) THEN newer ELSE latest # Current
=============================================================================
