# crt-query: a verification project

`crt-query` is a command-line client of the public PostgreSQL service of crt.sh.
One invocation (a *run*) connects, sends a few read-only statements, prints a
report and exits. Runs are scheduled by cron, typed by hand and started side by
side; what they share is a directory of cached answers, the CSV report they
replace, and a scarce number of client slots on a database they do not own. So
the hard part is not in any one function but in what runs do to each other and
to themselves when a clock is set, a write fails, a connection stalls or a
process is killed; and, since every run resolves its own flags, variables and
config file, in what one account's run leaves for another's. That is what these
modules are about.

Paths are relative to the directory that holds the repository: `src/src/cache.rs` is the
repository's `src/cache.rs`.

## 1. Inventory

| Component | Code | State | Operations | Status |
|---|---|---|---|---|
| Result cache | `cache.rs` | files in one directory, shared without a lock | `get`, `put`, `prune`, `clear` | `CacheStore`, `CacheMap`, `CacheRefinement`, proofs |
| Connect phase | `db.rs` 268–498 | attempt number, time spent, collected causes | attempt, classify, back off, give up | `Connect`, proofs |
| Term fetch, lazy connection | `queries/mod.rs` 98–227, `db.rs` 74–175, 500–531 | terms answered so far, the connection | cache or query per term, dial once | `Fetch`, proofs |
| `cert` lookup | `queries/cert.rs` 195–300 | two views of the cache | recall, ask, remember | `CertLookup`, proofs |
| `expiring` labels | `queries/expiring.rs`, `cache.rs` 278–292 | rows with server clocks, cached and fresh | query, replay, label | `Expiring` |
| Report, exit status | `output.rs` 145–386, 478–512, `main.rs` 18–183 | destination, scratch file, status | precheck, replace, print | `Report` |
| Row collapse | `queries/mod.rs` 52–85, 129–145, 229–285, `search.rs` 40–80 | rows grouped by ID, then by certificate | group, pair, keep | `Dedup`, proofs |
| Configuration | `config.rs`, `db.rs` 177–254 | none of its own: three layers of settings | layer, resolve, refuse conflicts, name the database | `Config`, checked and proved about in `Invocation` |
| Update check | `update.rs` | none | read the redirect, order versions, tell | `Update`, checked in `Invocation` |
| Installers | `install.sh`, `install.ps1` | binary, staging files | download, verify, stage, try, swap, clean up | `Install` (`install.sh` from its first download on) |
| Sanitising of cells | `output/sanitise.rs`, the records of `search.rs`, `expiring.rs`, `cert.rs` | none | cells, fields, escapes | `Cells`, proofs; checked in `Invocation` |
| Table layout | `output.rs` | none | widths, wrapping | not modelled: presentation |
| Command line, notices | `cli.rs`, `notice.rs`, `cert.rs` 59–110 | a process-wide quiet flag | refuse, translate into statements, tell | `CommandLine`, checked in `Invocation` |
| The run as a whole | `main.rs` | the cache directory it shares with other runs | one per command | `Invocation`, proofs |
| Release, packaging | workflows, `packaging/` | GitHub's | build, sign, publish | not modelled: runs in an external service |

How they interact: `main.rs` resolves the configuration (which decides the database, and
with it the keys of the cache), prechecks the CSV
destination, and calls one query function. `search` and `expiring` go through
`fetch_by_term`, which asks the cache for each term and asks `Source::db` for a
connection at the first miss; `Source` dials through the connect phase and keeps
the connection for the rest of the run. What it returns goes through `to_rows`, which
makes one row of all that belongs to one certificate. `cert` asks the cache twice, under two
lifetimes. `cache::get_rows` moves the server clock of replayed `expiring` rows
forward by the entry's age, and `assemble` labels all rows by the earliest clock. `output.rs`
replaces the CSV, then prints; `main.rs` turns the outcome into a status.

### What is hard, and what makes each component correct

* **Cache.** Any two processes interleave between file system calls; a killed
  process leaves its scratch file; the wall clock steps; two keys may share a
  64-bit file name; processes may run with different `cache_ttl_secs`. Correct
  means: a hit is the answer to exactly the key asked, no older than its
  lifetime; entries appear whole; a prune does not take a write in flight nor
  an entry `get` would still use; abandoned files are swept; nothing blocks.
* **Connect.** Two limits (attempts, budget), a timeout per attempt, jitter,
  timers that fire late, and verdicts by SQLSTATE. Correct means: bounded, a
  deterministic failure ends it, every failure is told, the budget is neither
  overrun nor so tight that a stall is never retried.
* **Fetch.** A later term may fail after earlier ones were answered, and the
  connection may die while a run is served from the cache. Correct means: all or
  nothing, no dial without a miss, one statement per unanswered term, truncation
  noticed.
* **cert.** Absence is trusted briefly, presence for a month; v0.5.x kept both
  for a month; the replica lags. Correct means: "no such certificate" is never
  older than its lifetime allows, and a found certificate wins.
* **expiring.** Several clocks in one report, some reconstructed. Correct means:
  EXPIRED is never said of a live certificate, a fresh report agrees with its
  window, and drift is bounded.
* **Report.** The destination may be a link rotated under a run; standard
  output's reader may leave; a process may be killed. Correct means: no partial
  report, no lost alert, and no litter unless the run is killed.
* **Row collapse.** A certificate comes under two IDs (precertificate and leaf), in
  rows of several terms, in any order, and shares its serial with others if its
  issuer is careless. Correct means: each certificate once, with all of its
  identities and no other's, and nothing lost.
* **Installer.** A release may be published between two downloads; any step may
  fail; the trap for a signal cleans up and lets the script run on. Correct
  means: the installed binary is the old one or a whole one that has been seen to
  run, a stopped installer installs nothing, and nothing is left behind.

* **Configuration.** Three layers, a `db_url` that sets everything at once, a directory
  found through variables, and a cache shared by whoever uses it. Correct means: what is
  given is used or refused, never guessed; an entry answers for the database it came
  from and no other; broken settings stop what uses them and nothing else.
* **The run as a whole.** A report may be cut short by its row window, be emptied, or
  be made of cached rows, and its exit status is read by cron. Correct means: a report
  that lacks rows says so, and an all-clear is one.
* **Sanitising.** The owner of a certificate chose its text. Correct means: a terminal
  and a spreadsheet do nothing at its bidding, and honest values, negative numbers
  among them, come through.
* **Update check.** Correct means: an update is told if and only if there is one, and an
  answer that names no release is an error.

`PROJECT.json` lists the hazards line by line with the properties that cover them.

## 2. The modules

```
  CacheMap <---- CacheRefinement ----> CacheStore
     ^                   ^---- CacheStore_proofs
     |
  CertLookup <---- CertLookup_proofs          Dedup <---- Dedup_proofs

  Connect                                  Expiring <---- Expiring_proofs
     ^
     |                                       Report <---- Report_proofs
   Fetch <---- Fetch_proofs
                                            Install <---- Install_proofs

  Config <---- CommandLine <---+
                     Cells <---+---- Invocation <---- Invocation_proofs
                    Update <---+
```

`Invocation` is the composition: it puts whole runs one after another and takes from
the other models what they promise. Its cache may lose an entry at any time (`CacheMap`),
its statement succeeds or fails (`Fetch`), its rows collapse by certificate (`Dedup`),
and its report reaches the file or not (`Report`).

### CacheStore — the directory of files

`files` maps every name to a file or to `None`; `now` is the wall clock. Each
process has a program counter and the local variables of its operation: `asked`
and `held` (the request; the entry read or to be written), `began` (when its
scratch file was created, or the `now` of its prune), `todo` (the listing),
`condemned` (the file that `stat` judged stale), `reply` (the last hit). One
action is one file system call:

| Code | Actions |
|---|---|
| `get` | `BeginGet` (`read_to_string`), `EndGet` (parse, compare the key, judge the age) |
| `put`, `write_atomic` | `BeginPut` (`fetched_at`), `CreateScratch`, `WriteScratch`, `Rename`, `FailPut` (any call fails; the scratch file is removed) |
| `prune`, at the end of every `put` | `ListForPrune`, `StatFresh`, `StatStale`, `RemoveStale`, `EndListing` |
| `clear` | `BeginClear`, `ClearOne`, `EndListing` |
| environment | `Crash`, `Tick`, `SetClockBack` |

The digest is an arbitrary function, so collisions are included. A scratch tag is
(process, number of the put), as `<pid>-<nanos>` is meant to be.

### CacheMap, CacheRefinement — what the cache promises

`CacheMap` has no files: a map from (view, key) to the last answer, which may
forget anything at any time but never mixes keys and never answers past the
lifetime. `CacheRefinement` maps the directory to it: the entry known for a key
is the one its file holds, *if the entry carries that key*; a reader's `seen` is
the entry it holds under the same condition. A colliding `Rename` is therefore a
`Learn` for one key and a forgetting for the other, as is a prune. `CertLookup` is
built on `CacheMap`, so the interleavings of the directory need not be repeated there.

### Connect — `db::connect`

`Dial`, then per attempt `AttemptConnects`, `AttemptFails(cause)` or
`AttemptStalls`, then `SleepAndRetry` or `GiveUp`. Time is a counter in one unit;
an attempt may take any time up to `Timeout`, and a timer may be late by up to
`Lag`. Backoff, clamp, jitter and the budget test (`MayRetry`) are those of the code,
and the causes are the classes the verdict `worth_retrying` distinguishes.

### Fetch — `fetch_by_term`, `Source`, `Db::query`

Extends `Connect`. `cached` is the number of rows of the usable entry for each
term; other runs change it at will (`OthersUseCache`). `Hit`, `Miss`,
`NeedsConnection`, `SendQuery`, `QueryAnswers` (which stores and collects),
`QueryFails`, `DialFailed`, `Finish`; `ConnectionDies` is noticed by nobody until a
statement is sent. A row's content is abstracted to the number of rows in the window,
which is all that saturation depends on.

### CertLookup — `run_cert`, `recall`, `remember`

Several runs over `CacheMap`. The certificate reaches the replica at some time
(`Arrives`) and stays. `OldVersionMisses` leaves the month-long misses of v0.5.x.
`got.at` and `expiry` are history variables used only by the properties and by
the bound on `Tick`.

### Expiring — clocks and labels

One clock stands for client and server (see bounds). `Query` cuts and stamps a
window; `Collect` caches it, later; `Replay` takes a cached answer with its stamp
advanced by its age; `Assemble` labels by the earliest clock; `NextRun` starts the
next run over what the previous one cached. Durations are in ticks finer than a
millisecond because the code's truncation to milliseconds matters (`WholeMillis`).

### Report — `output.rs` and the end of `main.rs`

Several runs with one destination link, each started as any `command` that ends in an
emitter. `Precheck`, `Query`, `CreateScratch` (which follows the link), `WriteScratch`,
`Rename`, `FailReplace`, `PrintsAll`, `ReaderGone`, `PrintFails`, `Kill`; `Rotate` points
the link elsewhere. An exit status comes from one of three places, as in the code: 1 from an
error, `Returned` from the arm of `run` once its emitter is through, `BrokenPipeExit`
from inside the emitter (`Emitter`) when the reader has gone: a status of its own in
`emit`, `emit_detail` and `emit_update_status`, the argument of the arm in `emit_exiting` and
`emit_missing`. `ExitIsDecided` states the documented exit codes from the command and the
outcome of its query alone.

### Dedup — `to_rows`

The two passes, one row or one ID per step: `GroupRow` collects the identities that
arrive for an ID (`by_id`), `Regroup` turns to the second pass, and for the lowest ID
left either `Pair` gives its identities to the row of the same certificate or `Keep`
adds a row; `Return` hands over the rows, `Expand` those of `--no-dedupe`. `kept` stands for
`by_serial` and `no_serial` together: `InGroup` is the look-up by issuer and serial,
`Matches` the scan with `is_same_cert_as` inside it. The properties compare the result
with `SameCertificate`, a definition of what one certificate is that knows
nothing of groups. The callers' sort and the order of the identities are left out.

### Config — `config.rs`, and what `db.rs` and `main.rs` make of it

Pure operators. A layer maps each setting to a text or to `Unset`; `EnvLayer` drops
exported empty variables, `EnvFails` refuses what is no UTF-8 or no port, `FileConfig` looks
in the directory that `Root` allows. `Conflicts` is the rule of `resolve` that a single setting
above a `db_url` is an error; `Given` and `Conn` resolve the rest. `CacheIdentity` is what
the cache calls the database; `Reached`, external, is the database that the client library and
the server make of the same settings. `CacheMode` is `build_cache`.

### CommandLine — `cli.rs`, and the argument of `cert`

A command line is a record of flags. `UsageError` collects clap's ranges, conflicts and value
parsers; `Subjects`, `Statement` and `Parameters` are what the others ask. A `cert` argument
is a form, a number of digits and what they spell.

### Cells — `sanitise.rs` and the records

A text is a sequence of characters, a run of digits being one. `TableRow` and `CsvRows`
take a record through `fmt_opt`, `csv_opt`, `expand_column` and the sanitisers.
`MisleadsTerminal` and `MisleadsSpreadsheet` say what a terminal and a spreadsheet do.

### Update — `update.rs`

A redirect leads to a tag or elsewhere; a tag is readable or not. `Rank` and `Above` order
versions as the code does, `IsNewer` falls back on inequality.

### Invocation — `main.rs`

`runs` counts the runs that ended, `run` is the current invocation (account, flags,
variables, directories, files on disk, arguments), `answers` has one answer per subject with the
question it answers, and `cache` the entries, each with the question its rows answer
(a history variable: the program knows only the key). `UsageFails`, `Completions`, `CheckUpdate`,
`CacheCommand` and `Open` begin a run; `AnswerFromCache`, `AnswerFromDatabase` and `AskFails`
are `fetch_by_term` and `recall` for one subject; `Assemble` decides notices and status, `Emit`
makes rows, cells and fields, `End` lets the next run begin. Pruning and expiry need no
action: `AnswerFromDatabase` is always possible where `AnswerFromCache` is. `Clear` leaves what
`cache clear` cannot remove, and fails where it cannot read the directory. A database that
holds more matching rows than the limit answers with any of them, since the statements have no
`ORDER BY`.

### Install — `install.sh`

Several installers and one directory, one command of the script per action; `Goes` is
`set -e`: what cannot be done leads to `StepFails` and `Exit`. `ready` is `$staged`, all that
the clean-up knows of the staged binary. `Signal` runs the clean-up and changes no step,
as the trap does not exit. `Source` is `$base`, looked up at each download, so that
`Publish` may come between the checksums and the archive.

Mutated operators (`X_Something`) stand beside the operator they distort and are
used by no specification.

## 3. The runs

| Run | Properties | What it shows |
|---|---|---|
| `cache` | `HitIsSound`, `ScratchIsPrivate`, `PublishedWhole`, `ImplementsMap` | two keys on one file name, an ordinary and a `--refresh` run, clock set back, kills: hits are sound, entries appear whole, and the directory implements `CacheMap` |
| `cache_prune` | `InFlightScratchKept`, `CondemnedIsOutlived`, `PruneSweeps`, `OperationsEnd` | a run that keeps nothing prunes beside one that writes: no write in flight is taken, nothing usable condemned, nothing overdue left, everything ends |
| `connect` | `PhaseBounded`, `EndsHonestly`, `GivesUpOnlyWhenSpent`, `NoWaitInVain`, `ConnectEnds` | with the real constants in units of 250 ms |
| `fetch` | `ReportIsWhole`, `OneStatementPerTerm`, `CachedRunSurvives`, `RunEnds` | three terms, cached or not at any moment, a database that may fail anywhere |
| `cert_lookup` | `MissingIsRecent`, `FoundWins` | an ordinary and a `--refresh` run, a certificate that arrives late, an old version's miss |
| `expiring` | `ExpiredIsTrue`, `LiveIsRecent`, `FreshRunHonoursWindow`, `DriftIsBounded`, `DaysLeftFloored` | fresh and replayed answers mixed in one report |
| `expiring_replay` | `SkipExpiredShowsNone` **violated** | a replayed `--skip-expired` report shows EXPIRED |
| `report` | `ExitIsDecided`, `ExitPromisesReport`, `NoLitter`, `ReportsReplacedWhole` | two runs of any commands, one rotating destination, readers that go away, failures and kills |
| `report_failed` | `FailedRunKeepsReport` **violated** | standard output fails after the CSV was replaced |
| `dedup` | `OneRowPerCertificate`, `IdentitiesAreItsOwn`, `NothingLost` | every order in which up to three rows of up to three IDs may arrive, with IDs that pair up, collide in their serial or have none |
| `invocation` | `HitAnswersTheQuestion`, `CallerDecides`, `ReportIsHonest`, `BrokenSettingsSpare`, `CellsAreInert`, `UpdateIsReal` | any run after any other, out of some 240: what one account's run leaves in the cache never misleads another's, no setting is guessed, no report passes for more than it is, its cells are inert, and updates are told truly |
| `install` | `InstalledRuns`, `NoLeftovers`, `StoppedInstallsNothing` | two installers, one pinned to a release, while releases appear, steps fail, signals arrive and processes are killed |

### Findings

1. `expiring.rs:161` — labels follow a clock reconstructed for replayed rows, so
   a `--skip-expired` run served from the cache can show EXPIRED, which the
   comment above it (156) rules out. `DriftIsBounded` says by how much.
2. `output.rs:274` — the CSV is replaced before standard output is written; a run
   that then fails has replaced the previous report (`README.md:261` says otherwise).

A rounding without a run: `status` compares instants, `days_left` whole milliseconds, and
`num_milliseconds` truncates towards zero before the flooring division
(`expiring.rs:57`). So for less than a millisecond after `notAfter` a row is EXPIRED with
`days_left` 0, though `README.md:264` says "negative once expired, `0` only within the last 24
hours before expiry", the comment at `expiring.rs:49` chose milliseconds so that the two would
not contradict each other, and the test at `expiring.rs:378`, which tries half a second, says
"EXPIRED must never report a non-negative days_left". `DaysLeftFloored` states what does
hold: negative from the first whole millisecond after `notAfter` on, negative only on EXPIRED
rows, and 0 on none with a whole day left.

A race without a finding: `prune` judges by `stat` and removes by name in two calls
(`cache.rs:355`), so it may take an entry renamed into place between them. That
costs a query and never an answer: `ImplementsMap` allows it, since the map may forget.

### Bounds, and why they are enough

* Cache: two processes, one put each. `cache` has two keys under one digest (the
  worst hashing), one payload, an ordinary run and a `--refresh` one, and a clock of
  0–1 with a step back; `cache_prune` has one key, `CertTTL` 1 and a clock of 0–2
  that only advances. Every race in the code is between one operation and one
  other process's; a third process adds no new pair. The readings reach every side
  of every comparison, with `SCRATCH_GRACE` and the lifetimes at 0 or 1. A `put`
  contains a prune, so a prune runs beside a write, a read, a clear and another prune.
  The theorems lift all these bounds.
* `Lag` = 1 unit and time in 250 ms units: the delays of `db.rs` (0.25, 0.5, 1, 2 s,
  budget 30 s, timeout 15 s) are then exact integers: 1, …, 8, 120, 60.
* Fetch: three terms give a hit before, between and after misses; a window of one
  row separates empty, full and below-full; two attempts give a failed and a
  repeated dial. The connect timings are scaled down, since `connect` covers them.
* CertLookup: `CertTTL` 3, `ShortTTL` 1, `StoreDelay` 1, clock 0–4: the short
  lifetime ends before the long one and both end inside the run. The theorems lift all of
  them but `StoreDelay`, which is
  a bound on the environment: the time from a database's answer to its being
  stored; without one, no bound on a remembered absence could hold.
* Expiring: two certificates, one that expires early and one late, so that one enters the
  window and one leaves it; two terms; `Lifetime` 2, `Within` 3, queries of at
  most 1 tick and a clock of 0–6, so that a run, its replay and the end of the
  entry's lifetime all fit; two ticks to the millisecond and two milliseconds to the day.
* Report: two runs of any two of the five commands, one of them with `--json`, and two targets:
  each emitter meets each outcome, with JSON and without. The theorems lift these bounds.
* Dedup: three IDs, two identities and three rows suffice for a pair around an
  ID that collides with it in issuer and serial only; the facts of an ID are one of
  four: two validities of one serial, the same serial of another issuer, no
  serial. The theorems lift these bounds.
* Install: two installers in one directory; three releases, so that one may be
  published between two downloads and again; the second does not start here.
* Invocation: two runs in a row, since what a run can do to another goes through one
  entry of the cache. One family of invocations combines two accounts, four sets of
  flags, five environments and five config files (host, port, database and user given,
  left out, blank, garbled; a `db_url` in each layer, parsing or not); the other varies the
  command line around each limit and conflict, with limits below, at and above the number
  of rows, and row sets that share a certificate between terms; a few have no
  directories or relative ones. Every database holds the same rows: the property
  compares questions, not rows. Texts of up to two characters reach the leading
  character, the number after a minus, and what an escape may uncover.
  The theorems lift the first four properties from these bounds.

### Fairness

* `CacheStore!FairSpec`: weak fairness of `Progress(p)` per process: a process that
  has begun an operation is scheduled. None for starting operations, the clock, or
  surviving (`Crash` may happen at any time and is not required).
* `ConnectSpec`: weak fairness of `ConnectStep`: `tokio::time::timeout` bounds every
  attempt and `sleep` returns.
* `FetchSpec`: weak fairness of `RunStep`: nothing in a run waits without a
  timeout (`CONNECT_TIMEOUT`, `QUERY_TIMEOUT`). None for `OthersUseCache` or `ConnectionDies`.

`CHECK_DEADLOCK FALSE` is set in each run because the systems may stop: a run ends
(`Connect`, `Fetch`, `Report`, `Dedup`, `Install`; in `Invocation`, the last of `MaxRuns`),
or every process is dead or idle and the clock has reached its bound (`CacheStore`,
`CertLookup`, `Expiring`).

## 4. What is proved

For every value of the constants, under the assumptions the modules name.

**CacheStore_proofs.** `Shape` (`TypeOK` plus what each point of an operation relies
on: a process about to write holds an entry for the key it was asked to store) is
inductive, hence `TypeCorrect`. `ScratchIsPrivate` needs in addition that a name is
used by its owner only, which the tag gives; `ScratchStaysPrivate` and
`EntriesAppearWhole` follow. `HitsAreSound` rests on every entry's payload being
the answer to the entry's own key, in files, in hands and in replies, so the comparison
of full keys in `Usable` is all that stands between a collision and a wrong
answer. Three theorems, `CondemnedAreOutlived`, `PrunesSweep` and
`InFlightScratchSurvives`, assume `ClockSteps = {}`: they are about prune's judgement by mtime,
and the code makes no promise if the clock is set back.

Its last part is the refinement, `DirectoryImplementsMap`: initial states map to
initial states, and each action maps to `Look`, `Hit`, `Miss`, `Learn`, `Forget`,
`ClockMoves` or a stutter. It uses the invariants above; the important case is
`Rename`, where the entry learnt is the writer's own because scratch files are private.

**Dedup_proofs.** The second pass keeps four facts: IDs are taken in ascending order
and each is complete when taken (`Ascending`); every kept row stands for what has been
taken of its certificate so far, under the lowest of those IDs (`StandsFor`); no two kept
rows are of one certificate (`Apart`); and every ID taken has its row (`Covered`).
`MatchesIsSame` ties them to the code: asked within an issuer and serial, `is_same_cert_as`
decides just whether two IDs are one certificate, which is an equivalence. When no ID is
left, what was taken is what arrived, and `CertificatesOnce`, `RowsAreTheirOwn` and
`NothingGoesMissing` follow, for any number of rows, IDs and identities in any order.
The only assumptions are that IDs are numbers and that facts are what issuer, serial and
validity make them.

**Fetch_proofs.** The first part is the connect phase. `ConnectInv` conjoins the type,
`InTime` (an attempt is under way only if it began less than `Budget + Lag` after the start), `Verdict` (no
deterministic failure while the loop goes on) and `EndsHonestly`, which is not inductive
without `Verdict`. `ConnectIsBounded`, `EndingIsHonest` and `WaitsAreForAttempts` hold
whatever the delays, attempts and budget. `RetriesAreUsed`
assumes `RoomToRetry`: a stalled first attempt and the longest wait fit
in the budget. The constants of `db.rs` satisfy it; a budget no larger than the timeout would not.

The second part is the run of queries. `FetchInv` walks with `next`: what is before it is
answered, in order (`InStep`), each statement but the last has its answer (`Answered`), the one under
way is for the current term (`Current`), and a phase that has begun was needed
(`SlotIsNeeded`). A new statement is then for a term that none was sent for, since the
terms of a run are each given once. `ReportsAreWhole` and `StatementsAreSentOnce` hold
for any terms, window and mode, and whatever the connect phase does.
`RunsConnectAsTold` composes the two: every step of a run is a step of the phase or
leaves its state alone, so the phase's promises hold inside a run as they do on their own.

**CertLookup_proofs.** `LookupInv` says what every entry tells of the replica, in either
view (`Truthful`: a certificate had arrived; an absence was at most `StoreDelay` old when it was
stored), and what each run holds at each stage: it reads what it wants (`ReadsRight`), its
answer from the database is fresh (`AskedLately`), and if it began with a certificate in
the cache it goes on only once that ran out (`HasCert`). `AbsenceIsRecent` and
`CertificatesWin` hold for any number of runs, keys and lifetimes. They assume
`StoreDelay`, a bound on the environment, and that `None` is nothing else
(`NoneIsApart`).

**Invocation_proofs.** `RunInv` is the strengthening. Its core is `EntriesAnswer`: the
rows of every entry are what its question allows, and that question is the one of every
run that would look the entry up, whoever wrote it. It is about entries only, so
`AnswersFit` carries it to the answers of the current run, `AskersAreOpen` says
that a run that asks was let through by clap and by its settings, `ReportFollows` ties
what is told, emitted and returned to the answers, and `AnswersInOrder` that there are as
many answers as steps taken. `HitsAnswerTheQuestion` rests on `KeyNamesTheQuestion`: two
runs with a cache key in common ask one question, although the key names the account only
where the database depends on it. `CallersDecide` rests on `SettingIsUsed` and
`FileIsChosen`, about `resolve` and `config_path` for any three layers.
`ReportsAreHonest` rests on `AnswerIsWholeOrFull` (a window that is not full holds all
that matches) and `RowsAreReported` (the collapse loses no pair of certificate and
identity). The invocations, what the databases hold, the order of terms and the number of
runs are arbitrary.

`CellsStayInert` needs no strengthening of `RunInv`, but a walk through `Cells`. A record
of a report is eight or ten cells (`CellsAreTexts`); the file has one line for each value,
with the other cells repeated (`LinesOfRecord`); and a record is inert (`RecordIsInert`) if
its values stay apart once they are made safe, none of them lands on a NULL column or on
`days_left`, and `days_left` is safe as it is. `ReportedRowIsInert` shows the three kinds
of record to be like that. Values stay apart because a field ends as its text does,
whatever is put in front of it (`EndIsKept`); a row has an identity, and finitely many,
because of how the collapse makes it (`RowHasIdentities`). That a single text is harmless
is stated for every text, where the run has texts of two characters: `TableTextIsInert`
and `CsvFieldIsInert`. In the second the order matters: format characters are
escaped first, so that what they hid is judged, and what is judged is what is written.

`UpdatesAreReal` is about all version numbers, where the run has seven. `NumbersCompare` shows
that numbers in a base above all of the fields compare as the fields do one by one,
`AboveIsLexicographic` unfolds the comparison of ranks, and `NewerIsGreater` puts them
together with the rule for prereleases. `ReleaseIsNamed`, inductive beside `RunInv`, says that
a check-update prints what a redirect names, or nothing.

The assumptions are about what the constants stand for. `DirectoriesAreGiven`: a directory that
holds a file is one. `TextsAreTexts`: what a certificate says is a sequence of characters,
and a number is written in digits. `HeldIsFinite`: databases are finite, and what
tells two identities apart is not a format character (those are escaped, and an
identity that held the escape itself could then not be told from one that held the
character). `RedirectsAreVersions` and `CurrentIsVersion`: the fields of a version are
numbers or cannot be read. `MarksArePlain` and `NullIsNoText`: an escape is not itself a
control or format character, neither the apostrophe nor the minus sign is one of the
characters that always start a formula, and NULL is not the empty text.

**Expiring_proofs.** `ExpiringInv` follows a server's stamp from the statement that returned
it to the label. By its own stamp no fresh certificate is outside the look-back (`Asked`);
an entry was stored within `Slowest` of its stamp (`Cached`); so a collected row, replayed
or not, has a stamp that is not ahead of the clock, no more than `Slowest` before the run
began, and past the look-back by no more than the lifetime (`Collected`). The report is
labelled with the earliest of its stamps, which is one of them (`LabelClockIsEarliest`), and
`Reported` carries that to the later runs. `ExpiredLabelsAreTrue`, `LiveLabelsAreRecent`,
`FreshRunsHonourTheWindow` and `DriftStaysBounded` follow for any certificates, domains, window and
lifetime. `DaysAreFloored` rests on `DaysFloor`, about `\div` on negative numbers in two
steps, and on `QuotientBounds`, for any lengths of a millisecond and a day. The bound on a run's length, `Slowest`, is
the model's guard on time, and stands for the timeouts in the code.

**Report_proofs.** `ReportInv` says what a run holds at each stage (`Holds`: it renames only
a scratch file that is whole, has one only while it writes, and its exit status is the one
due), and that the report of a run past its rename is there or was replaced, in the
same file, by that of a run past its own (`Supplied`). The second is what makes it
inductive: `StatusPromisesReport` names the run that came after, and a rename by one run must
keep the promise of every other. `StatusIsDue` compares the status each arm returns with the
one its emitter exits with, both with what the outcome calls for (`Due`): the two are
written in different places of the code. `ExitsAreDecided`, `NoScratchIsLeft` and
`ReportsAreReplacedWhole` follow for any number of runs and files, wherever the destination
leads at each of their steps. It assumes that `None` is nothing else (`ReportConstants`).

**Install_proofs.** `InstallInv` adds to `InstalledRuns` what an installer holds
before its rename (`Verified`: what is unpacked is whole, and what is about to be renamed
was seen to run), that its clean-up knows of whatever is staged (`Tidy`), and that a signal has
taken away what the next step needs (`Stopped`). The last is why the script is safe
although its trap does not exit: `StopsAreKept`. `InstalledAlwaysRuns` and `NothingIsLeftOver`
hold for any number of installers, releases and pins.

Only model-checked are the liveness properties (`OperationsEnd`, `ConnectEnds`,
`CachedRunSurvives`, `RunEnds`): fairness and ENABLED are out of the prover's reach. Every other
property of a run has its theorem. What the recursive functions of the model return
(`UniqueTerms` and `Joined`, which are folds) is used in the theorems only as it is, whatever
it is: to prove something of it would take induction over sequences.

## 5. What is not modelled

* Power loss (the code does not `fsync` cache entries) and file systems on which
  rename is not atomic.
* `read_dir` is taken as a snapshot, a removal by path as successful, and the
  directory as holding no names but the program's own.
* Two writers with the *same* scratch tag (same pid in two namespaces and the same
  nanosecond): `create_new` makes two of them safe.
* Client and server clocks of different rate, or a client clock set during an
  `expiring` run: `Expiring` lets one clock stand for both, since the code only
  takes differences of readings of one of them.
* Copying permissions to the new report; the text of every message; how clap splits a
  command line, its help and the completion scripts; parsing of rows and certificates.
* JSON output and the layout of tables (widths, wrapping); the sort of a report; the order of
  identities in a row; progress notices.
* A `db_url` of several hosts or with a `hostaddr`: which of them answers is the client
  library's choice at each attempt, and the cache names the first.
* Windows' directories and the path of its `curl`.
* Two versions that differ in their build metadata only: neither is newer, and the
  summary's wording for the pair is not compared with anything.
* The table of format characters (`Format` is any set) and `f64` parsing (`Finite` says
  what is a number).
* The release workflow and the Homebrew formula, which run in GitHub's service.
* `install.sh` before its first download (options, the choice of the target triple) and
  its use of `sudo`; `install.ps1`, which takes the same steps on Windows.

## 6. Plan

Written in this order, most important first: cache and its abstract map; connect;
fetch; cert; expiring; report; collapse; installer; then the settings, the command
line, cells, updates, and the run that composes them. Next:

1. `Invocation` refined by `Fetch` and `Report` step by step, so that concurrent runs,
   not only runs in a row, share its cache and its report.
