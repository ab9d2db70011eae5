-------------------------- MODULE Invocation_proofs --------------------------
(***************************************************************************)
(* Proofs about runs of crt-query: that a hit answers the question of the  *)
(* run that meets it, that no setting is guessed, that a report says when  *)
(* it is cut short, that broken settings stop only what uses them, that    *)
(* whatever a certificate says of itself no cell of a report is acted on,  *)
(* and that check-update tells an update if and only if there is one.      *)
(***************************************************************************)
EXTENDS Invocation, FiniteSetTheorems, SequenceTheorems, TLAPS

-----------------------------------------------------------------------------
(* The key of an entry                                                     *)

\* Two runs that have a key in common ask one question: what the key leaves
\* out (the user, when a database is named) and what it adds (the spelling of
\* the term) makes no difference to what is asked.
LEMMA KeyNamesTheQuestion ==
  ASSUME NEW i, NEW j, NEW s, NEW t,
         i.args.command \in Asks, j.args.command \in Asks,
         Key(i, s) = Key(j, t)
  PROVE  Question(i, s) = Question(j, t)
<1> DEFINE c == ConfigOf(i)
           d == ConfigOf(j)
<1>1. /\ CacheIdentity(c, i.account) = CacheIdentity(d, j.account)
      /\ Statement(i.args) = Statement(j.args)
      /\ s = t
      /\ Parameters(i.args) = Parameters(j.args)
  BY Zenon DEF Key
<1>2. Reached(c, i.account) = Reached(d, j.account)
  <2>1. /\ c.host = d.host
        /\ OrElse(c.port, DefaultPort) = OrElse(d.port, DefaultPort)
        /\ OrElse(c.dbname, OrElse(c.user, i.account))
             = OrElse(d.dbname, OrElse(d.user, j.account))
    BY <1>1 DEF CacheIdentity
  <2> QED BY <2>1 DEF Reached
<1>3. i.args.command = "cert" <=> j.args.command = "cert"
  BY <1>1 DEF Statement, Asks, Reports
<1> QED BY <1>1, <1>2, <1>3, Zenon DEF Question

-----------------------------------------------------------------------------
(* Resolving the settings                                                  *)

\* The highest layer that gives a setting is the only one.
LEMMA HighestIsOne ==
  ASSUME NEW layers, NEW s, NEW n \in Highest(layers, s)
  PROVE  Highest(layers, s) = {n}
<1>1. ASSUME NEW m \in Highest(layers, s) PROVE m = n
  <2>1. m \in 1..3 /\ n \in 1..3
    BY DEF Highest
  <2>2. ~(m < n) /\ ~(n < m)
    BY <2>1 DEF Highest
  <2> QED BY <2>1, <2>2
<1> QED BY <1>1

\* Without a conflict, a setting that a layer gives is used, unless a higher
\* layer gives it or a db_url replaces it.
LEMMA SettingIsUsed ==
  ASSUME NEW layers, ~Conflicts(layers), NEW n \in 1..3, NEW s \in Single,
         layers[n][s] # Unset
  PROVE  \/ BuildConfig(Conn(layers))[s] = layers[n][s]
         \/ \E m \in 1..(n - 1) : layers[m][s] # Unset
         \/ \E m \in 1..n : layers[m]["db_url"] # Unset
<1> SUFFICES ASSUME \A m \in 1..(n - 1) : layers[m][s] = Unset,
                    \A m \in 1..n : layers[m]["db_url"] = Unset
             PROVE  BuildConfig(Conn(layers))[s] = layers[n][s]
  OBVIOUS
<1>1. Highest(layers, "db_url") = {}
  <2> SUFFICES ASSUME NEW k \in Highest(layers, "db_url") PROVE FALSE
    OBVIOUS
  <2>1. k \in 1..3 /\ layers[k]["db_url"] # Unset
    BY DEF Highest
  <2>2. n \in 1..(k - 1)
    BY <2>1
  <2> QED BY <2>2 DEF Conflicts, SettingAbove
<1>2. Conn(layers).db_url = Unset
  BY <1>1 DEF Conn, Given
<1>3. n \in Highest(layers, s)
  BY DEF Highest
<1>4. Highest(layers, s) = {n}
  BY <1>3, HighestIsOne, Zenon
<1>5. Given(layers, s, Default[s]) = layers[n][s]
  BY <1>4 DEF Given
<1> QED BY <1>2, <1>5 DEF BuildConfig, Conn

\* A config file is found only under an absolute directory.
LEMMA FileIsChosen ==
  ASSUME NEW dirs, NEW disk, Unset \notin DOMAIN disk
  PROVE  LET chosen == {dir \in DOMAIN disk : dir[1] \in Absolute}
         IN  FileConfig(dirs, disk) = FileConfig(dirs, [dir \in chosen |-> disk[dir]])
<1> DEFINE chosen == {dir \in DOMAIN disk : dir[1] \in Absolute}
<1>1. ConfigRoot(dirs) # Unset => ConfigRoot(dirs)[1] \in Absolute
  BY DEF ConfigRoot, Root
<1>2. ConfigRoot(dirs) \in DOMAIN disk <=> ConfigRoot(dirs) \in chosen
  BY <1>1
<1> QED BY <1>2 DEF FileConfig

-----------------------------------------------------------------------------
(* The inductive invariant                                                 *)

\* Answers are a sequence, empty between two runs.
AnswersInOrder ==
  /\ \E S : answers \in Seq(S)
  /\ stage = "idle" => answers = <<>>

\* A run that asks is one that clap let through and whose settings opened, and
\* nothing has gone wrong in it yet.
AskersAreOpen ==
  /\ stage = "idle" => error = "none"
  /\ stage \in {"asking", "emitting"} =>
       /\ run \in Invocations
       /\ run.args.command \in Asks
       /\ ~UsageError(run.args, run.flags)
       /\ OpenError(run) = "none"
       /\ error = "none"

\* An entry answers the question of every run that would look it up.
EntriesAnswer ==
  \A e \in cache :
    /\ e.rows \in Slices(e.question)
    /\ \A i \in Invocations :
         i.args.command \in Asks /\ e.key = Key(i, e.key.term) =>
           e.question = Question(i, e.key.term)

\* What a run has been told so far is an answer to what it asks.
AnswersFit ==
  \A n \in DOMAIN answers :
    /\ answers[n].question = Question(run, Subjects(run.args)[n])
    /\ answers[n].rows \in Slices(answers[n].question)
    /\ answers[n].from = "cache" => ModeOf(run) = "enabled"

\* What follows from the answers is what is told, returned and emitted.
Reported == stage = "over" /\ error = "none" /\ run.args.command \in Asks

ReportFollows ==
  /\ stage = "emitting" \/ Reported =>
       /\ ~UsageError(run.args, run.flags)
       /\ told = IF run.args.quiet THEN {} ELSE Notices
       /\ status = ExitCode
  /\ Reported => emitted.rows = ReportRows

RunInv ==
  /\ AnswersInOrder
  /\ AskersAreOpen
  /\ EntriesAnswer
  /\ AnswersFit
  /\ ReportFollows
  /\ BrokenSettingsSpare

LEMMA InitInv == Init => RunInv
<1> SUFFICES ASSUME Init PROVE RunInv
  OBVIOUS
<1>1. answers \in Seq({}) /\ DOMAIN answers = {}
  BY DEF Init
<1> QED BY <1>1 DEF Init, RunInv, AnswersInOrder, AskersAreOpen, EntriesAnswer, AnswersFit,
             ReportFollows, Reported, BrokenSettingsSpare

\* No answers fit whatever is asked.
LEMMA NoAnswersFit ==
  ASSUME answers' = <<>>
  PROVE  AnswersInOrder' /\ AnswersFit'
<1>1. answers' \in Seq({}) /\ DOMAIN answers' = {}
  OBVIOUS
<1> QED BY <1>1 DEF AnswersInOrder, AnswersFit

\* The steps that begin and end a run at once.
ShortRun(i) == UsageFails(i) \/ Completions(i) \/ CheckUpdate(i) \/ CacheCommand(i)

LEMMA ShortRunKeepsInv ==
  ASSUME RunInv, NEW i \in Invocations, ShortRun(i)
  PROVE  RunInv'
<1>1. /\ answers = <<>> /\ answers' = <<>>
      /\ stage' = "over" /\ run' = i
      /\ cache' \subseteq cache
      /\ ~(i.args.command \in Asks /\ error' = "none")
      /\ error' \in {"config file", "environment", "conflict", "db_url"} =>
           error' = "config file" /\ i.args.command \in {"cache path", "cache clear"}
  BY DEF ShortRun, UsageFails, Completions, CheckUpdate, CacheCommand, Clear, Begin, Ends, Tells,
         Asks, Reports, RunInv, AnswersInOrder
<1>2. AnswersInOrder' /\ AnswersFit'
  <2>1. answers' = <<>>
    BY <1>1, Zenon
  <2> QED BY <2>1, NoAnswersFit, Zenon
<1>3. AskersAreOpen' /\ ReportFollows' /\ BrokenSettingsSpare'
  BY <1>1 DEF AskersAreOpen, ReportFollows, Reported, BrokenSettingsSpare
<1>4. EntriesAnswer'
  BY <1>1 DEF RunInv, EntriesAnswer
<1> QED BY <1>2, <1>3, <1>4 DEF RunInv

LEMMA OpenKeepsInv ==
  ASSUME RunInv, NEW i \in Invocations, Open(i)
  PROVE  RunInv'
<1>1. /\ answers = <<>> /\ answers' = <<>>
      /\ run' = i /\ cache' = cache
      /\ i.args.command \in Asks /\ ~UsageError(i.args, i.flags)
      /\ error' = OpenError(i)
      /\ stage' = IF OpenError(i) = "none" THEN "asking" ELSE "over"
  BY DEF Open, Begin, Ends, RunInv, AnswersInOrder, AskersAreOpen
<1>2. AnswersInOrder' /\ AnswersFit'
  <2>1. answers' = <<>>
    BY <1>1, Zenon
  <2> QED BY <2>1, NoAnswersFit, Zenon
<1>3. AskersAreOpen' /\ BrokenSettingsSpare'
  BY <1>1 DEF AskersAreOpen, BrokenSettingsSpare
<1>4. EntriesAnswer'
  BY <1>1 DEF RunInv, EntriesAnswer
<1>5. ReportFollows'
  BY <1>1 DEF ReportFollows, Reported
<1> QED BY <1>2, <1>3, <1>4, <1>5 DEF RunInv

\* An answer that fits, put after those there are, leaves them fitting.
LEMMA AnswerIsAppended ==
  ASSUME AnswersInOrder, AnswersFit, Asking,
         NEW a, answers' = Append(answers, a), run' = run, stage' = stage,
         a.question = Question(run, Subject),
         a.rows \in Slices(a.question),
         a.from = "cache" => ModeOf(run) = "enabled"
  PROVE  AnswersInOrder' /\ AnswersFit'
<1>1. PICK S : answers \in Seq(S)
  BY DEF AnswersInOrder
<1> DEFINE T == S \cup {a}
<1>2. answers \in Seq(T)
  BY <1>1, SeqMonotonic, Zenon
<1>3. /\ answers' \in Seq(T)
      /\ DOMAIN answers = 1..Len(answers)
      /\ Len(answers) \in Nat
      /\ DOMAIN answers' = 1..(Len(answers) + 1)
      /\ answers'[Len(answers) + 1] = a
      /\ \A n \in 1..Len(answers) : answers'[n] = answers[n]
  BY <1>2, AppendProperties, LenProperties
<1>4. AnswersInOrder'
  BY <1>3 DEF AnswersInOrder, Asking
<1>5. ASSUME NEW n \in DOMAIN answers'
      PROVE  /\ answers'[n].question = Question(run, Subjects(run.args)[n])
             /\ answers'[n].rows \in Slices(answers'[n].question)
             /\ answers'[n].from = "cache" => ModeOf(run) = "enabled"
  <2>1. CASE n = Len(answers) + 1
    BY <1>3, <2>1, Zenon DEF Subject
  <2>2. CASE n # Len(answers) + 1
    <3>1. n \in DOMAIN answers /\ answers'[n] = answers[n]
      BY <1>3, <2>2
    <3> QED BY <3>1, Zenon DEF AnswersFit
  <2> QED BY <2>1, <2>2
<1>6. AnswersFit'
  BY <1>5, Zenon DEF AnswersFit
<1> QED BY <1>4, <1>6

LEMMA CacheAnswerKeepsInv ==
  ASSUME RunInv, AnswerFromCache
  PROVE  RunInv'
<1>1. PICK e \in Hits(run, Subject) :
        answers' = Append(answers, [rows |-> e.rows, from |-> "cache", question |-> e.question])
  BY DEF AnswerFromCache
<1>2. e \in cache /\ e.key = Key(run, Subject)
  BY DEF Hits, Entries
<1>3. e.key.term = Subject
  BY <1>2 DEF Key
<1>4. run \in Invocations /\ run.args.command \in Asks
  BY DEF RunInv, AskersAreOpen, AnswerFromCache, Asking
<1>5. e.question = Question(run, Subject) /\ e.rows \in Slices(e.question)
  BY <1>2, <1>3, <1>4 DEF RunInv, EntriesAnswer
<1>6. AnswersInOrder' /\ AnswersFit'
  BY <1>1, <1>5, AnswerIsAppended DEF AnswerFromCache, RunInv
<1>7. AskersAreOpen' /\ EntriesAnswer' /\ ReportFollows' /\ BrokenSettingsSpare'
  BY DEF RunInv, AnswerFromCache, Asking, AskersAreOpen, EntriesAnswer, ReportFollows, Reported,
         BrokenSettingsSpare
<1> QED BY <1>6, <1>7 DEF RunInv

LEMMA DatabaseAnswerKeepsInv ==
  ASSUME RunInv, AnswerFromDatabase
  PROVE  RunInv'
<1> DEFINE question == Question(run, Subject)
           key == Key(run, Subject)
           entry(rows) == [dir |-> CacheDir(run), view |-> View(key.sql, rows), key |-> key,
                           rows |-> rows, question |-> question]
<1>1. PICK rows \in Slices(question) :
        /\ answers' = Append(answers, [rows |-> rows, from |-> "database",
                                       question |-> question])
        /\ cache' \subseteq cache \cup {entry(rows)}
  BY DEF AnswerFromDatabase
<1>2. run \in Invocations /\ run.args.command \in Asks
  BY DEF RunInv, AskersAreOpen, AnswerFromDatabase, Asking
<1>3. AnswersInOrder' /\ AnswersFit'
  BY <1>1, AnswerIsAppended DEF AnswerFromDatabase, RunInv
<1>4. ASSUME NEW i \in Invocations, i.args.command \in Asks, key = Key(i, key.term)
      PROVE  question = Question(i, key.term)
  <2> DEFINE t == key.term
  <2>1. Key(run, Subject) = Key(i, t)
    BY <1>4, Zenon
  <2> HIDE DEF t
  <2>2. Question(run, Subject) = Question(i, t)
    BY <1>2, <1>4, <2>1, KeyNamesTheQuestion
  <2> QED BY <2>2, Zenon DEF t
<1>5. EntriesAnswer'
  <2> SUFFICES ASSUME NEW e \in cache'
               PROVE  /\ e.rows \in Slices(e.question)
                      /\ \A i \in Invocations :
                           i.args.command \in Asks /\ e.key = Key(i, e.key.term) =>
                             e.question = Question(i, e.key.term)
    BY Zenon DEF EntriesAnswer
  <2>1. CASE e \in cache
    BY <2>1 DEF RunInv, EntriesAnswer
  <2>2. CASE e = entry(rows)
    <3>1. e.rows = rows /\ e.question = question /\ e.key = key
      BY <2>2
    <3> QED BY <1>4, <3>1, Zenon
  <2> QED BY <1>1, <2>1, <2>2
<1>6. AskersAreOpen' /\ ReportFollows' /\ BrokenSettingsSpare'
  BY DEF RunInv, AnswerFromDatabase, Asking, AskersAreOpen, ReportFollows, Reported,
         BrokenSettingsSpare
<1> QED BY <1>3, <1>5, <1>6 DEF RunInv

LEMMA AskFailsKeepsInv ==
  ASSUME RunInv, AskFails
  PROVE  RunInv'
<1>1. /\ answers' = answers /\ run' = run /\ cache' = cache
      /\ stage' = "over" /\ error' = "database"
  BY DEF AskFails, Ends
<1>2. AnswersInOrder' /\ AnswersFit' /\ EntriesAnswer'
  BY <1>1 DEF RunInv, AnswersInOrder, AnswersFit, EntriesAnswer
<1>3. AskersAreOpen' /\ ReportFollows' /\ BrokenSettingsSpare'
  BY <1>1 DEF AskersAreOpen, ReportFollows, Reported, BrokenSettingsSpare
<1> QED BY <1>2, <1>3 DEF RunInv

LEMMA AssembleKeepsInv ==
  ASSUME RunInv, Assemble
  PROVE  RunInv'
<1>1. /\ stage = "asking" /\ stage' = "emitting"
      /\ run' = run /\ answers' = answers /\ error' = error /\ cache' = cache
  BY DEF Assemble
<1>2. AnswersInOrder' /\ AnswersFit' /\ EntriesAnswer'
  BY <1>1 DEF RunInv, AnswersInOrder, AnswersFit, EntriesAnswer
<1>3. AskersAreOpen' /\ BrokenSettingsSpare'
  BY <1>1 DEF RunInv, AskersAreOpen, BrokenSettingsSpare
<1>4. Notices' = Notices /\ ExitCode' = ExitCode
  BY <1>1 DEF Notices, ExitCode, SaturationNote, EmptyNote, WindowFilled, WindowCollapsed,
              Saturated, RawRows, ReportRows, Expanded, Collapsed
<1>5. ReportFollows'
  <2>1. told' = (IF run'.args.quiet THEN {} ELSE Notices') /\ status' = ExitCode'
    BY <1>1, <1>4 DEF Assemble
  <2>2. ~UsageError(run'.args, run'.flags)
    BY <1>1 DEF RunInv, AskersAreOpen
  <2>3. ~Reported'
    BY <1>1 DEF Reported
  <2> QED BY <2>1, <2>2, <2>3, Zenon DEF ReportFollows
<1> QED BY <1>2, <1>3, <1>5 DEF RunInv

LEMMA EmitKeepsInv ==
  ASSUME RunInv, Emit
  PROVE  RunInv'
<1>1. /\ stage = "emitting" /\ stage' = "over"
      /\ run' = run /\ answers' = answers /\ error' = error /\ cache' = cache
      /\ told' = told /\ status' = status
      /\ emitted'.rows = ReportRows
  BY DEF Emit
<1>2. AnswersInOrder' /\ AnswersFit' /\ EntriesAnswer'
  BY <1>1 DEF RunInv, AnswersInOrder, AnswersFit, EntriesAnswer
<1>3. AskersAreOpen' /\ BrokenSettingsSpare'
  BY <1>1 DEF RunInv, AskersAreOpen, BrokenSettingsSpare
<1>4. Notices' = Notices /\ ExitCode' = ExitCode /\ ReportRows' = ReportRows
  BY <1>1 DEF Notices, ExitCode, SaturationNote, EmptyNote, WindowFilled, WindowCollapsed,
              Saturated, RawRows, ReportRows, Expanded, Collapsed
<1>5. ReportFollows'
  <2>1. /\ ~UsageError(run.args, run.flags)
        /\ told = IF run.args.quiet THEN {} ELSE Notices
        /\ status = ExitCode
    BY <1>1, Zenon DEF RunInv, ReportFollows
  <2> QED BY <1>1, <1>4, <2>1, Zenon DEF ReportFollows
<1> QED BY <1>2, <1>3, <1>5 DEF RunInv

LEMMA EndKeepsInv ==
  ASSUME RunInv, End
  PROVE  RunInv'
<1>1. /\ answers' = <<>> /\ stage' = "idle" /\ error' = "none" /\ cache' = cache
  BY DEF End
<1>2. AnswersInOrder' /\ AnswersFit'
  BY <1>1, NoAnswersFit, Zenon
<1>3. EntriesAnswer'
  BY <1>1 DEF RunInv, EntriesAnswer
<1>4. AskersAreOpen' /\ ReportFollows' /\ BrokenSettingsSpare'
  BY <1>1 DEF AskersAreOpen, ReportFollows, Reported, BrokenSettingsSpare
<1> QED BY <1>2, <1>3, <1>4 DEF RunInv

LEMMA StutterKeepsInv ==
  ASSUME RunInv, UNCHANGED vars
  PROVE  RunInv'
<1>1. Notices' = Notices /\ ExitCode' = ExitCode /\ ReportRows' = ReportRows
  BY DEF vars, Notices, ExitCode, SaturationNote, EmptyNote, WindowFilled, WindowCollapsed,
         Saturated, RawRows, ReportRows, Expanded, Collapsed
<1>2. AnswersInOrder' /\ AnswersFit' /\ EntriesAnswer'
  BY DEF vars, RunInv, AnswersInOrder, AnswersFit, EntriesAnswer
<1>3. AskersAreOpen' /\ BrokenSettingsSpare'
  BY DEF vars, RunInv, AskersAreOpen, BrokenSettingsSpare
<1>4. ReportFollows'
  <2>1. /\ run' = run /\ stage' = stage /\ error' = error /\ told' = told
        /\ status' = status /\ emitted' = emitted
    BY DEF vars
  <2>2. ReportFollows
    BY DEF RunInv
  <2> QED BY <1>1, <2>1, <2>2, Zenon DEF ReportFollows, Reported
<1> QED BY <1>2, <1>3, <1>4 DEF RunInv

\* The invariant holds of every state of every run.
LEMMA RunInvHolds == Spec => []RunInv
<1>1. RunInv /\ [Next]_vars => RunInv'
  <2> SUFFICES ASSUME RunInv, [Next]_vars PROVE RunInv'
    OBVIOUS
  <2>1. ASSUME NEW i \in Invocations, ShortRun(i) \/ Open(i) PROVE RunInv'
    BY <2>1, ShortRunKeepsInv, OpenKeepsInv
  <2>2. CASE AnswerFromCache
    BY <2>2, CacheAnswerKeepsInv
  <2>3. CASE AnswerFromDatabase
    BY <2>3, DatabaseAnswerKeepsInv
  <2>4. CASE AskFails
    BY <2>4, AskFailsKeepsInv
  <2>5. CASE Assemble
    BY <2>5, AssembleKeepsInv
  <2>6. CASE Emit
    BY <2>6, EmitKeepsInv
  <2>7. CASE End
    BY <2>7, EndKeepsInv
  <2>8. CASE UNCHANGED vars
    BY <2>8, StutterKeepsInv
  <2> QED BY <2>1, <2>2, <2>3, <2>4, <2>5, <2>6, <2>7, <2>8 DEF Next, ShortRun
<1> QED BY InitInv, <1>1, PTL DEF Spec

-----------------------------------------------------------------------------
(* The theorems                                                            *)

\* A hit is the answer of the database that the run would ask, to what it
\* would ask, and only a run that neither refreshes nor shuns the cache has one:
\* for any accounts, command lines, variables and files (db.rs, main.rs).
THEOREM HitsAnswerTheQuestion == Spec => []HitAnswersTheQuestion
<1>1. RunInv => HitAnswersTheQuestion
  <2> SUFFICES ASSUME RunInv, NEW n \in DOMAIN answers
               PROVE  /\ answers[n].question = Question(run, Subjects(run.args)[n])
                      /\ answers[n].from = "cache" => ~run.args.no_cache /\ ~run.args.refresh
    BY Zenon DEF HitAnswersTheQuestion
  <2>1. /\ answers[n].question = Question(run, Subjects(run.args)[n])
        /\ answers[n].from = "cache" => ModeOf(run) = "enabled"
    BY Zenon DEF RunInv, AnswersFit
  <2> QED BY <2>1 DEF ModeOf, CacheMode
<1> QED BY <1>1, RunInvHolds, PTL

\* No setting is guessed and no relative directory is looked into, for any
\* layers of settings (config.rs).
THEOREM CallersDecide == Spec => []CallerDecides
<1>1. RunInv => CallerDecides
  <2> SUFFICES ASSUME RunInv, stage \in {"asking", "emitting"}
               PROVE  /\ \A n \in 1..3, s \in Single :
                           LayersOf(run)[n][s] # Unset =>
                             \/ ConfigOf(run)[s] = LayersOf(run)[n][s]
                             \/ \E m \in 1..(n - 1) : LayersOf(run)[m][s] # Unset
                             \/ \E m \in 1..n : LayersOf(run)[m].db_url # Unset
                      /\ LET chosen == {dir \in DOMAIN run.disk : dir[1] \in Absolute}
                         IN  File(run) = FileConfig(run.dirs, [dir \in chosen |-> run.disk[dir]])
    BY Zenon DEF CallerDecides
  <2>1. run \in Invocations /\ OpenError(run) = "none"
    BY DEF RunInv, AskersAreOpen
  <2>2. ~Conflicts(LayersOf(run))
    BY <2>1 DEF OpenError
  <2>3. Unset \notin DOMAIN run.disk
    BY <2>1, DirectoriesAreGiven
  <2> QED BY <2>2, <2>3, SettingIsUsed, FileIsChosen DEF ConfigOf, File
<1> QED BY <1>1, RunInvHolds, PTL

\* Broken settings stop nothing that does not use them (config.rs, main.rs).
THEOREM BrokenSettingsSpareOthers == Spec => []BrokenSettingsSpare
<1>1. RunInv => BrokenSettingsSpare
  BY DEF RunInv
<1> QED BY <1>1, RunInvHolds, PTL

\* clap lets no empty row window through.
LEMMA WindowIsOpen ==
  ASSUME NEW args, NEW flags, args.command \in Reports, ~UsageError(args, flags)
  PROVE  Limit(args) \in Nat \ {0}
<1>1. args.limit = Unset \/ args.limit \in 1..MaxLimit
  <2>1. ~TermsError(args)
    BY Zenon DEF UsageError
  <2>2. InRange(args.limit, 1, MaxLimit)
    BY <2>1, Zenon DEF TermsError
  <2> QED BY <2>2, Zenon DEF InRange
<1> DEFINE default == IF args.command = "search" THEN 100 ELSE 500
<1>2. default \in Nat \ {0}
  OBVIOUS
<1>3. CASE args.limit = Unset
  <2>1. Limit(args) = default
    BY <1>3, Zenon DEF Limit, OrElse
  <2> QED BY <1>2, <2>1
<1>4. CASE args.limit # Unset
  <2>1. Limit(args) = args.limit
    BY <1>4, Zenon DEF Limit, OrElse
  <2>2. MaxLimit \in Int
    BY DEF MaxLimit
  <2>3. args.limit \in 1..MaxLimit
    BY <1>1, <1>4, Zenon
  <2> QED BY <2>1, <2>2, <2>3
<1> QED BY <1>3, <1>4

\* What a term was answered is all there is, or fills its window.
LEMMA AnswerIsWholeOrFull ==
  ASSUME AnswersFit, run.args.command \in Reports, NEW n \in DOMAIN answers
  PROVE  /\ answers[n].rows \subseteq Wanted(n)
         /\ answers[n].rows = Wanted(n) \/ Cardinality(answers[n].rows) = Limit(run.args)
<1> DEFINE q == Question(run, Subjects(run.args)[n])
<1>1. answers[n].rows \in Slices(q)
  BY Zenon DEF AnswersFit
<1>2. q.statement \in Reports /\ q.parameters = Parameters(run.args)
  BY DEF Question, Statement, Reports
<1>3. q.parameters[3] = Limit(run.args)
  BY <1>2 DEF Parameters, Reports
<1>4. Matching(q) = Wanted(n)
  BY DEF Wanted
<1> HIDE DEF q
<1> QED BY <1>1, <1>2, <1>3, <1>4 DEF Slices

\* Each row of an answer is in a row of the report, and each identity of the
\* report is from a row of an answer, collapsed or not.
LEMMA RowsAreReported ==
  /\ \A w \in RawRows : \E r \in ReportRows : r.cert = w.row.cert /\ w.row.identity \in r.identities
  /\ \A r \in ReportRows : \A identity \in r.identities :
       \E w \in RawRows : w.row.cert = r.cert /\ w.row.identity = identity
  /\ ReportRows = {} <=> RawRows = {}
<1> DEFINE identities(w) == {v.row.identity : v \in {u \in RawRows : u.row.cert = w.row.cert}}
           merged(w) == [cert |-> w.row.cert, left |-> w.row.left, identities |-> identities(w)]
           single(w) == [cert |-> w.row.cert, left |-> w.row.left,
                         identities |-> {w.row.identity}, term |-> w.term]
<1>1. ASSUME ReportRows = {merged(w) : w \in RawRows}
      PROVE  /\ \A w \in RawRows : \E r \in ReportRows : r.cert = w.row.cert /\ w.row.identity \in r.identities
             /\ \A r \in ReportRows : \A identity \in r.identities :
                  \E w \in RawRows : w.row.cert = r.cert /\ w.row.identity = identity
             /\ ReportRows = {} <=> RawRows = {}
  <2>1. ASSUME NEW w \in RawRows
        PROVE  /\ merged(w) \in ReportRows
               /\ merged(w).cert = w.row.cert
               /\ w.row.identity \in merged(w).identities
    BY <1>1, <2>1
  <2>2. ASSUME NEW r \in ReportRows, NEW identity \in r.identities
        PROVE  \E w \in RawRows : w.row.cert = r.cert /\ w.row.identity = identity
    BY <1>1, <2>2
  <2> QED BY <1>1, <2>1, <2>2
<1>2. ASSUME ReportRows = {single(w) : w \in RawRows}
      PROVE  /\ \A w \in RawRows : \E r \in ReportRows : r.cert = w.row.cert /\ w.row.identity \in r.identities
             /\ \A r \in ReportRows : \A identity \in r.identities :
                  \E w \in RawRows : w.row.cert = r.cert /\ w.row.identity = identity
             /\ ReportRows = {} <=> RawRows = {}
  <2>1. ASSUME NEW w \in RawRows
        PROVE  /\ single(w) \in ReportRows
               /\ single(w).cert = w.row.cert
               /\ w.row.identity \in single(w).identities
    BY <1>2, <2>1
  <2>2. ASSUME NEW r \in ReportRows, NEW identity \in r.identities
        PROVE  \E w \in RawRows : w.row.cert = r.cert /\ w.row.identity = identity
    BY <1>2, <2>2
  <2> QED BY <1>2, <2>1, <2>2
<1>3. CASE run.args.command \in Reports /\ run.args.no_dedupe
  BY <1>2, <1>3, Zenon DEF ReportRows, Expanded
<1>4. CASE ~(run.args.command \in Reports /\ run.args.no_dedupe)
  BY <1>1, <1>4, Zenon DEF ReportRows, Collapsed
<1> QED BY <1>3, <1>4

\* A report never passes for more than it is, whatever the database holds and
\* whichever rows a window leaves (main.rs, queries/mod.rs).
THEOREM ReportsAreHonest == Spec => []ReportIsHonest
<1>1. RunInv => ReportIsHonest
  <2> SUFFICES ASSUME RunInv, stage = "over", error = "none", run.args.command \in Reports
               PROVE  /\ \A r \in emitted.rows : \A identity \in r.identities :
                           \E w \in AllWanted : w.cert = r.cert /\ w.identity = identity
                      /\ \A n \in DOMAIN answers :
                           \/ \A w \in Wanted(n) : Shown(w)
                           \/ run.args.quiet
                           \/ \E note \in told : Subjects(run.args)[n] \in note.terms
                      /\ emitted.rows = {} => AllWanted = {}
                      /\ run.args.command = "expiring" /\ run.args.fail_on_expiring =>
                           (status = 0 <=> AllWanted = {})
    BY Zenon DEF ReportIsHonest
  <2>1. /\ emitted.rows = ReportRows
        /\ told = IF run.args.quiet THEN {} ELSE Notices
        /\ status = ExitCode
        /\ ~UsageError(run.args, run.flags)
        /\ AnswersFit
    BY DEF RunInv, ReportFollows, Reported, Asks
  <2>2. Limit(run.args) \in Nat \ {0}
    BY <2>1, WindowIsOpen
  <2>3. \A n \in DOMAIN answers :
          /\ answers[n].rows \subseteq Wanted(n)
          /\ answers[n].rows = Wanted(n) \/ Cardinality(answers[n].rows) = Limit(run.args)
    BY <2>1, AnswerIsWholeOrFull
  <2>4. \A w \in RawRows : w.term \in DOMAIN answers /\ w.row \in answers[w.term].rows
    BY DEF RawRows
  <2>5. \A n \in DOMAIN answers : \A r \in answers[n].rows : [term |-> n, row |-> r] \in RawRows
    BY DEF RawRows
  <2>6. RawRows = {} <=> AllWanted = {}
    <3>1. ASSUME RawRows = {}, NEW n \in DOMAIN answers PROVE Wanted(n) = {}
      <4>1. answers[n].rows = {}
        BY <2>5, <3>1
      <4>2. Cardinality(answers[n].rows) # Limit(run.args)
        BY <2>2, <4>1, FS_EmptySet
      <4> QED BY <2>3, <4>1, <4>2
    <3>2. RawRows = {} => AllWanted = {}
      BY <3>1 DEF AllWanted
    <3>3. AllWanted = {} => RawRows = {}
      BY <2>3, <2>4 DEF AllWanted
    <3> QED BY <3>2, <3>3
  <2>7. \A r \in emitted.rows : \A identity \in r.identities :
          \E w \in AllWanted : w.cert = r.cert /\ w.identity = identity
    <3> SUFFICES ASSUME NEW r \in ReportRows, NEW identity \in r.identities
                 PROVE  \E w \in AllWanted : w.cert = r.cert /\ w.identity = identity
      BY <2>1
    <3>1. PICK w \in RawRows : w.row.cert = r.cert /\ w.row.identity = identity
      BY RowsAreReported
    <3>2. w.row \in AllWanted
      BY <2>3, <2>4 DEF AllWanted
    <3> QED BY <3>1, <3>2
  <2>8. ASSUME NEW n \in DOMAIN answers, ~run.args.quiet,
               answers[n].rows # Wanted(n)
        PROVE  \E note \in told : Subjects(run.args)[n] \in note.terms
    <3>1. Cardinality(answers[n].rows) = Limit(run.args)
      BY <2>3, <2>8
    <3>2. Subjects(run.args)[n] \in Saturated
      <4>1. Cardinality(answers[n].rows) >= Limit(run.args)
        BY <2>2, <3>1
      <4> QED BY <4>1 DEF Saturated
    <3>3. RawRows # {}
      BY <2>2, <2>5, <3>1, FS_EmptySet
    <3>4. Notices = {SaturationNote}
      BY <3>2, <3>3 DEF Notices, WindowFilled
    <3>5. SaturationNote.terms = Saturated
      BY DEF SaturationNote
    <3> QED BY <2>1, <2>8, <3>2, <3>4, <3>5
  <2>9. ASSUME NEW n \in DOMAIN answers, answers[n].rows = Wanted(n), NEW w \in Wanted(n)
        PROVE  Shown(w)
    <3>1. [term |-> n, row |-> w] \in RawRows
      BY <2>5, <2>9
    <3>2. \E r \in ReportRows : r.cert = w.cert /\ w.identity \in r.identities
      BY <3>1, RowsAreReported
    <3> QED BY <2>1, <3>2 DEF Shown
  <2>10. run.args.command = "expiring" /\ run.args.fail_on_expiring =>
           (status = 0 <=> AllWanted = {})
    BY <2>1, <2>6 DEF ExitCode
  <2>11. emitted.rows = {} => AllWanted = {}
    BY <2>1, <2>6, RowsAreReported
  <2> QED BY <2>7, <2>8, <2>9, <2>10, <2>11
<1> QED BY <1>1, RunInvHolds, PTL

-----------------------------------------------------------------------------
(* What a cell may do                                                      *)

\* A row of the table does nothing to the terminal, for any text (display_safe
\* of output/sanitise.rs).
THEOREM TableTextIsInert ==
  ASSUME NEW text
  PROVE  ~MisleadsTerminal(DisplaySafe(text))
<1>1. DOMAIN DisplaySafe(text) = DOMAIN text
  BY DEF DisplaySafe, Escaped
<1>2. ASSUME NEW i \in DOMAIN text
      PROVE  DisplaySafe(text)[i] \notin Control \cup Format
  BY <1>2, MarksArePlain DEF DisplaySafe, Escaped, NeedsEscaping
<1> QED BY <1>1, <1>2 DEF MisleadsTerminal

\* Escaping leaves no format character, and a sequence as long as it was.
LEMMA FormatIsEscaped ==
  ASSUME NEW S, NEW text \in Seq(S)
  PROVE  \E T : /\ FormatControlSafe(text) \in Seq(T)
                /\ T \cap Format = {}
<1> DEFINE safe == FormatControlSafe(text)
           T == {safe[i] : i \in DOMAIN text}
<1>1. /\ safe = [i \in DOMAIN text |-> IF text[i] \in Format THEN Escape(text[i]) ELSE text[i]]
      /\ DOMAIN text = 1..Len(text) /\ Len(text) \in Nat
  BY DEF FormatControlSafe, Escaped
<1>2. \A i \in DOMAIN text : safe[i] \notin Format
  BY <1>1, MarksArePlain
<1>3. safe \in [1..Len(text) -> T]
  BY <1>1
<1>4. safe \in Seq(T)
  BY <1>1, <1>3, SeqDef
<1>5. T \cap Format = {}
  BY <1>2
<1> QED BY <1>4, <1>5

\* A spreadsheet evaluates no field of the file and shows what it holds, for any
\* text (csv_safe of output/sanitise.rs).
THEOREM CsvFieldIsInert ==
  ASSUME NEW S, NEW text \in Seq(S)
  PROVE  ~MisleadsSpreadsheet(CsvSafe(text))
<1> DEFINE safe == FormatControlSafe(text)
<1>1. PICK T : safe \in Seq(T) /\ T \cap Format = {}
  BY FormatIsEscaped
<1> HIDE DEF safe
<1>2. CASE LeadsAFormula(safe)
  <2> DEFINE field == <<Apostrophe>> \o safe
             U == T \cup {Apostrophe}
  <2>1. <<Apostrophe>> \in Seq(U) /\ safe \in Seq(U)
    BY <1>1
  <2>2. field \in Seq(U) /\ field # <<>> /\ field[1] = Apostrophe
    BY <2>1, ConcatProperties
  <2>3. \A i \in DOMAIN field : field[i] \notin Format
    <3>1. U \cap Format = {}
      BY <1>1, MarksArePlain
    <3> QED BY <2>2, <3>1, ElementOfSeq
  <2>4. ~MisleadsSpreadsheet(field)
    BY <2>2, <2>3, MarksArePlain DEF MisleadsSpreadsheet, Evaluates
  <2>5. CsvSafe(text) = field
    BY <1>2 DEF CsvSafe, safe
  <2> QED BY <2>4, <2>5
<1>3. CASE ~LeadsAFormula(safe)
  <2>1. \A i \in DOMAIN safe : safe[i] \notin Format
    BY <1>1, ElementOfSeq
  <2>2. ~Evaluates(safe)
    BY <1>3 DEF Evaluates, LeadsAFormula, FiniteNumber
  <2>3. CsvSafe(text) = safe
    BY <1>3 DEF CsvSafe, safe
  <2> QED BY <2>1, <2>2, <2>3 DEF MisleadsSpreadsheet
<1> QED BY <1>2, <1>3

-----------------------------------------------------------------------------
(* The cells of a report                                                   *)

LEMMA OptionalCells ==
  ASSUME NEW C, NEW columns \in Seq({Null} \cup Seq(C))
  PROVE  /\ ApplyTo(CsvOpt, columns) \in Seq(Seq(C))
         /\ Len(ApplyTo(CsvOpt, columns)) = Len(columns)
         /\ \A i \in 1..Len(columns) : ApplyTo(CsvOpt, columns)[i] = CsvOpt(columns[i])
<1> DEFINE cells == ApplyTo(CsvOpt, columns)
           n == Len(columns)
<1>1. n \in Nat /\ DOMAIN columns = 1..n
  BY LenProperties
<1>2. cells = [i \in 1..n |-> CsvOpt(columns[i])]
  BY <1>1 DEF ApplyTo
<1>3. ASSUME NEW i \in 1..n PROVE CsvOpt(columns[i]) \in Seq(C)
  <2>1. columns[i] \in {Null} \cup Seq(C)
    BY ElementOfSeq
  <2>2. <<>> \in Seq(C)
    BY EmptySeq
  <2> QED BY <2>1, <2>2 DEF CsvOpt
<1> HIDE DEF cells, n
<1>4. cells \in [1..n -> Seq(C)]
  BY <1>2, <1>3
<1>5. cells \in Seq(Seq(C)) /\ Len(cells) = n
  BY <1>1, <1>4, SeqDef, LenProperties
<1> QED BY <1>2, <1>5 DEF cells, n

LEMMA TimeCells ==
  ASSUME NEW C, NEW times \in Seq({Null} \cup [minutes : Seq(C), seconds : Seq(C)])
  PROVE  /\ ApplyTo(CsvTs, times) \in Seq(Seq(C))
         /\ Len(ApplyTo(CsvTs, times)) = Len(times)
<1> DEFINE cells == ApplyTo(CsvTs, times)
           n == Len(times)
           Times == {Null} \cup [minutes : Seq(C), seconds : Seq(C)]
<1>1. n \in Nat /\ DOMAIN times = 1..n
  BY LenProperties
<1>2. cells = [i \in 1..n |-> CsvTs(times[i])]
  BY <1>1 DEF ApplyTo
<1>3. ASSUME NEW i \in 1..n PROVE CsvTs(times[i]) \in Seq(C)
  <2>1. times[i] \in Times
    BY ElementOfSeq
  <2>2. <<>> \in Seq(C)
    BY EmptySeq
  <2>3. ASSUME times[i] # Null
        PROVE  times[i].minutes \o times[i].seconds \in Seq(C)
    <3>1. times[i].minutes \in Seq(C) /\ times[i].seconds \in Seq(C)
      BY <2>1, <2>3
    <3> QED BY <3>1, ConcatProperties
  <2> QED BY <2>2, <2>3 DEF CsvTs
<1> HIDE DEF cells, n
<1>4. cells \in [1..n -> Seq(C)]
  BY <1>2, <1>3
<1>5. cells \in Seq(Seq(C)) /\ Len(cells) = n
  BY <1>1, <1>4, SeqDef, LenProperties
<1> QED BY <1>5 DEF cells, n

\* A record of texts over C, with values in one of its cells.
IsRecord(record, C) ==
  /\ record.columns \in Seq({Null} \cup Seq(C))
  /\ record.times \in Seq({Null} \cup [minutes : Seq(C), seconds : Seq(C)])
  /\ record.last \in Seq({Null} \cup Seq(C))
  /\ record.values \in Seq(Seq(C)) \ {<<>>}
  /\ record.valuesAt \in 1..(Len(record.columns) + Len(record.times) + Len(record.last))

\* Its cells are texts over C, the columns first and the last columns last.
CellsInOrder(cells, record, C) ==
  LET width == Len(record.columns) + Len(record.times)
  IN  /\ cells \in Seq(Seq(C))
      /\ Len(cells) = width + Len(record.last)
      /\ \A i \in 1..Len(record.columns) : cells[i] = CsvOpt(record.columns[i])
      /\ \A i \in 1..Len(record.last) : cells[width + i] = CsvOpt(record.last[i])

LEMMA CellsAreTexts ==
  ASSUME NEW C, NEW record, IsRecord(record, C)
  PROVE  CellsInOrder(CsvCells(record), record, C)
<1> DEFINE T == Seq(C)
           a == ApplyTo(CsvOpt, record.columns)
           b == ApplyTo(CsvTs, record.times)
           c == ApplyTo(CsvOpt, record.last)
           l == Len(record.columns)
           m == Len(record.times)
           n == Len(record.last)
<1>1. /\ a \in Seq(T) /\ Len(a) = l
      /\ \A i \in 1..l : a[i] = CsvOpt(record.columns[i])
  BY OptionalCells DEF IsRecord
<1>2. b \in Seq(T) /\ Len(b) = m
  BY TimeCells DEF IsRecord
<1>3. /\ c \in Seq(T) /\ Len(c) = n
      /\ \A i \in 1..n : c[i] = CsvOpt(record.last[i])
  BY OptionalCells DEF IsRecord
<1>4. CsvCells(record) = (a \o b) \o c
  BY DEF CsvCells
<1> HIDE DEF T, a, b, c
<1>5. l \in Nat /\ m \in Nat /\ n \in Nat
  BY <1>1, <1>2, <1>3, LenProperties
<1> HIDE DEF l, m, n
<1>6. /\ a \o b \in Seq(T) /\ Len(a \o b) = l + m
      /\ \A i \in 1..(l + m) : (a \o b)[i] = IF i <= l THEN a[i] ELSE b[i - l]
  BY <1>1, <1>2, ConcatProperties
<1> DEFINE ab == a \o b
<1> HIDE DEF ab
<1>7. /\ ab \o c \in Seq(T) /\ Len(ab \o c) = (l + m) + n
      /\ \A i \in 1..((l + m) + n) : (ab \o c)[i] = IF i <= l + m THEN ab[i] ELSE c[i - (l + m)]
  <2>1. ab \in Seq(T) /\ Len(ab) = l + m
    BY <1>6 DEF ab
  <2>2. /\ ab \o c \in Seq(T) /\ Len(ab \o c) = Len(ab) + Len(c)
        /\ \A i \in 1..(Len(ab) + Len(c)) :
             (ab \o c)[i] = IF i <= Len(ab) THEN ab[i] ELSE c[i - Len(ab)]
    BY <1>3, <2>1, ConcatProperties
  <2> QED BY <1>3, <2>1, <2>2
<1>8. ASSUME NEW i \in 1..l PROVE (ab \o c)[i] = CsvOpt(record.columns[i])
  <2>1. i \in 1..((l + m) + n) /\ i \in 1..(l + m) /\ i <= l + m /\ i <= l
    BY <1>5
  <2> QED BY <1>1, <1>6, <1>7, <2>1 DEF ab
<1>9. ASSUME NEW i \in 1..n PROVE (ab \o c)[(l + m) + i] = CsvOpt(record.last[i])
  <2>1. (l + m) + i \in 1..((l + m) + n) /\ ~((l + m) + i <= l + m) /\ ((l + m) + i) - (l + m) = i
    BY <1>5
  <2> QED BY <1>3, <1>7, <2>1
<1> QED BY <1>4, <1>7, <1>8, <1>9 DEF ab, T, l, m, n, CellsInOrder

\* Each value has a line of its own, and every line the other cells.
LEMMA LinesOfRecord ==
  ASSUME NEW C, NEW record, IsRecord(record, C)
  PROVE  LET cells == CsvCells(record)
         IN  /\ DOMAIN CsvRows(record) = DOMAIN record.values
             /\ \A n \in DOMAIN record.values :
                  /\ DOMAIN CsvRows(record)[n] = 1..Len(cells)
                  /\ CsvRows(record)[n][record.valuesAt] = CsvSafe(record.values[n])
                  /\ \A i \in 1..Len(cells) :
                       i # record.valuesAt => CsvRows(record)[n][i] = CsvSafe(cells[i])
<1> DEFINE cells == CsvCells(record)
           at == record.valuesAt
           values == record.values
           line(n) == [cells EXCEPT ![at] = values[n]]
<1>1. cells \in Seq(Seq(C)) /\ at \in 1..Len(cells) /\ DOMAIN cells = 1..Len(cells)
  <2>1. cells \in Seq(Seq(C)) /\ at \in 1..Len(cells)
    BY CellsAreTexts DEF IsRecord, CellsInOrder
  <2> QED BY <2>1, LenProperties
<1>2. values # <<>>
  BY DEF IsRecord
<1>3. CsvRows(record) = [n \in DOMAIN values |-> ApplyTo(CsvSafe, line(n))]
  <2>1. ExpandColumn(cells, at, values) = [n \in DOMAIN values |-> line(n)]
    BY <1>2 DEF ExpandColumn
  <2> HIDE DEF cells, at, values
  <2>2. CsvRows(record) =
          LET rows == ExpandColumn(cells, at, values)
          IN  [n \in DOMAIN rows |-> ApplyTo(CsvSafe, rows[n])]
    BY DEF CsvRows, cells, at, values
  <2> QED BY <2>1, <2>2
<1> HIDE DEF cells, at, values
<1>4. ASSUME NEW n \in DOMAIN values
      PROVE  /\ DOMAIN CsvRows(record)[n] = 1..Len(cells)
             /\ CsvRows(record)[n][at] = CsvSafe(values[n])
             /\ \A i \in 1..Len(cells) :
                  i # at => CsvRows(record)[n][i] = CsvSafe(cells[i])
  <2>1. CsvRows(record)[n] = [i \in 1..Len(cells) |-> CsvSafe(line(n)[i])]
    BY <1>1, <1>3 DEF ApplyTo
  <2>2. line(n)[at] = values[n] /\ \A i \in 1..Len(cells) : i # at => line(n)[i] = cells[i]
    BY <1>1
  <2> HIDE DEF line
  <2> QED BY <1>1, <2>1, <2>2
<1> QED BY <1>3, <1>4 DEF cells, at, values

LEMMA NothingIsSafe == CsvSafe(<<>>) = <<>>
<1>1. FormatControlSafe(<<>>) = <<>>
  BY DEF FormatControlSafe, Escaped
<1> QED BY <1>1 DEF CsvSafe, LeadsAFormula

\* Sets of as many elements: f is one to one.
LEMMA SameCardinality ==
  ASSUME NEW S, IsFiniteSet(S), NEW f, DOMAIN f = S,
         \A x, y \in S : f[x] = f[y] => x = y
  PROVE  Cardinality({f[x] : x \in S}) = Cardinality(S)
<1> DEFINE T == {f[x] : x \in S}
           g == [x \in S |-> f[x]]
<1>1. g \in Bijection(S, T)
  BY DEF Bijection, Injection, Surjection, IsInjective
<1> HIDE DEF T, g
<1>2. ExistsBijection(S, T)
  BY <1>1 DEF ExistsBijection
<1> QED BY <1>2, FS_Bijection DEF T

LEMMA SequencesAreFinite ==
  ASSUME NEW S, NEW s \in Seq(S)
  PROVE  IsFiniteSet(ToSet(s))
<1> DEFINE n == Len(s)
           T == ToSet(s)
           g == [i \in 1..n |-> s[i]]
<1>1. n \in Nat /\ DOMAIN s = 1..n
  BY LenProperties
<1>2. g \in Surjection(1..n, T)
  BY <1>1 DEF Surjection, ToSet
<1>3. IsFiniteSet(1..n)
  BY <1>1, FS_Interval
<1> HIDE DEF g, T
<1> QED BY <1>2, <1>3, FS_Surjection DEF T

\* A record is inert if its values stay apart, none of them takes the place of
\* a NULL or of the first of the last columns, and that is safe as it is.
LEMMA RecordIsInert ==
  ASSUME NEW C, NEW record, IsRecord(record, C),
         \A v, w \in ToSet(record.values) : CsvSafe(v) = CsvSafe(w) => v = w,
         record.valuesAt \in DOMAIN record.columns => record.columns[record.valuesAt] # Null,
         record.last # <<>> =>
           /\ record.valuesAt # Len(record.columns) + Len(record.times) + 1
           /\ record.last[1] # Null => CsvSafe(record.last[1]) = record.last[1]
  PROVE  InertLines(CsvRows(record), record)
<1> DEFINE cells == CsvCells(record)
           at == record.valuesAt
           values == record.values
           lines == CsvRows(record)
           l == Len(record.columns)
           m == Len(record.times)
           k == Len(record.last)
<1>1. /\ values \in Seq(Seq(C)) /\ values # <<>>
      /\ record.columns \in Seq({Null} \cup Seq(C))
      /\ record.last \in Seq({Null} \cup Seq(C))
  BY DEF IsRecord
<1>2. /\ cells \in Seq(Seq(C))
      /\ Len(cells) = (l + m) + k
      /\ \A i \in 1..l : cells[i] = CsvOpt(record.columns[i])
      /\ \A i \in 1..k : cells[(l + m) + i] = CsvOpt(record.last[i])
  <2>1. CellsInOrder(cells, record, C)
    BY CellsAreTexts, Zenon
  <2> HIDE DEF cells
  <2> QED BY <2>1, Zenon DEF CellsInOrder
<1>3. /\ DOMAIN lines = DOMAIN values
      /\ \A n \in DOMAIN values :
           /\ DOMAIN lines[n] = 1..Len(cells)
           /\ lines[n][at] = CsvSafe(values[n])
           /\ \A i \in 1..Len(cells) : i # at => lines[n][i] = CsvSafe(cells[i])
  BY LinesOfRecord
<1>4. /\ DOMAIN values = 1..Len(values)
      /\ DOMAIN record.columns = 1..l
      /\ l \in Nat /\ m \in Nat /\ k \in Nat
  <2>1. record.times \in Seq({Null} \cup [minutes : Seq(C), seconds : Seq(C)])
    BY DEF IsRecord
  <2>2. m \in Nat
    BY <2>1, LenProperties
  <2> QED BY <1>1, <2>2, LenProperties
<1>A. k = 0 => record.last = <<>>
  BY <1>1, EmptySeq
<1>B. /\ at \in DOMAIN record.columns => record.columns[at] # Null
      /\ record.last # <<>> =>
           /\ at # (l + m) + 1
           /\ record.last[1] # Null => CsvSafe(record.last[1]) = record.last[1]
      /\ \A v, w \in ToSet(values) : CsvSafe(v) = CsvSafe(w) => v = w
  OBVIOUS
<1> HIDE DEF cells, values, lines, at, l, m, k
<1>5. ASSUME NEW n \in DOMAIN lines, NEW i \in DOMAIN lines[n]
      PROVE  ~MisleadsSpreadsheet(lines[n][i])
  <2>1. CASE i = at
    <3>1. values[n] \in Seq(C) /\ lines[n][i] = CsvSafe(values[n])
      BY <1>1, <1>3, <1>4, <2>1, ElementOfSeq
    <3> QED BY <3>1, CsvFieldIsInert
  <2>2. CASE i # at
    <3>1. cells[i] \in Seq(C) /\ lines[n][i] = CsvSafe(cells[i])
      BY <1>2, <1>3, <2>2, ElementOfSeq
    <3> QED BY <3>1, CsvFieldIsInert
  <2> QED BY <2>1, <2>2
<1>6. Cardinality({lines[n][at] : n \in DOMAIN lines}) = Cardinality(ToSet(values))
  <2> DEFINE V == ToSet(values)
             f == [v \in V |-> CsvSafe(v)]
  <2>1. {lines[n][at] : n \in DOMAIN lines} = {f[v] : v \in V}
    <3>1. \A n \in DOMAIN values : values[n] \in V /\ lines[n][at] = f[values[n]]
      BY <1>3 DEF ToSet
    <3>2. \A v \in V : \E n \in DOMAIN values : v = values[n]
      BY DEF ToSet
    <3> HIDE DEF V, f
    <3> QED BY <1>3, <3>1, <3>2
  <2>2. IsFiniteSet(V)
    BY <1>1, SequencesAreFinite
  <2>3. \A v, w \in V : f[v] = f[w] => v = w
    BY <1>B
  <2>4. DOMAIN f = V
    OBVIOUS
  <2> HIDE DEF V, f
  <2>5. Cardinality({f[v] : v \in V}) = Cardinality(V)
    BY <2>2, <2>3, <2>4, SameCardinality
  <2> QED BY <2>1, <2>5 DEF V
<1>7. ASSUME NEW n \in DOMAIN lines, NEW i \in DOMAIN record.columns, record.columns[i] = Null
      PROVE  lines[n][i] = <<>>
  <2>1. i # at /\ i \in 1..l
    BY <1>4, <1>7, <1>B, Zenon
  <2>2. i \in 1..Len(cells)
    BY <1>2, <1>4, <2>1
  <2>3. cells[i] = <<>>
    BY <1>2, <1>7, <2>1, Zenon DEF CsvOpt
  <2>4. n \in DOMAIN values
    BY <1>3, Zenon
  <2>5. lines[n][i] = CsvSafe(cells[i])
    BY <1>3, <2>1, <2>2, <2>4, Zenon
  <2> QED BY <2>3, <2>5, NothingIsSafe, Zenon
<1>8. ASSUME record.last # <<>>, NEW n \in DOMAIN lines
      PROVE  lines[n][(l + m) + 1] = IF record.last[1] = Null THEN <<>> ELSE record.last[1]
  <2>1. 1 \in 1..k
    BY <1>4, <1>8, <1>A
  <2>2. (l + m) + 1 \in 1..Len(cells)
    BY <1>2, <1>4, <2>1
  <2>3. (l + m) + 1 # at
    BY <1>8, <1>B, Zenon
  <2>4. cells[(l + m) + 1] = CsvOpt(record.last[1])
    BY <1>2, <2>1, Zenon
  <2>5. lines[n][(l + m) + 1] = CsvSafe(CsvOpt(record.last[1]))
    BY <1>3, <2>2, <2>3, <2>4, Zenon
  <2> QED BY <1>8, <1>B, <2>5, NothingIsSafe, Zenon DEF CsvOpt
<1> QED BY <1>5, <1>6, <1>7, <1>8, Zenon DEF InertLines, lines, at, values, l, m

\* The elements of a finite set in some order, each once.
LEMMA SetInOrder ==
  ASSUME NEW S, IsFiniteSet(S)
  PROVE  /\ SetToSeq(S) \in [1..Cardinality(S) -> S]
         /\ IsInjective(SetToSeq(S))
<1>1. ExistsBijection(1..Cardinality(S), S)
  BY FS_CardinalityType
<1>2. PICK f : f \in Bijection(1..Cardinality(S), S)
  BY <1>1 DEF ExistsBijection
<1>3. f \in [1..Cardinality(S) -> S] /\ IsInjective(f)
  BY <1>2 DEF Bijection, Injection
<1> QED BY <1>3 DEF SetToSeq

\* What a value ends in is what its field ends in, with or without a mark.
LEMMA EndIsKept ==
  ASSUME NEW S, NEW text \in Seq(S), NEW a, a \notin Format
  PROVE  LET field == CsvSafe(text \o <<a>>) IN field[Len(field)] = a
<1> DEFINE T == S \cup {a}
           t == text \o <<a>>
           n == Len(text) + 1
           safe == FormatControlSafe(t)
           U == {safe[i] : i \in 1..n} \cup {Apostrophe}
<1>1. n \in Nat \ {0}
  BY LenProperties
<1>2. t \in Seq(T) /\ Len(t) = n /\ t[n] = a
  <2>1. text \in Seq(T) /\ <<a>> \in Seq(T) /\ Len(<<a>>) = 1 /\ <<a>>[1] = a
    BY SeqMonotonic
  <2> HIDE DEF T
  <2> QED BY <2>1, ConcatProperties, LenProperties
<1> HIDE DEF t, n
<1>3. safe = [i \in 1..n |-> IF t[i] \in Format THEN Escape(t[i]) ELSE t[i]]
  BY <1>1, <1>2, LenProperties DEF FormatControlSafe, Escaped
<1> HIDE DEF safe
<1>4. safe[n] = a
  BY <1>1, <1>2, <1>3
<1>5. safe \in Seq(U) /\ Len(safe) = n
  <2>1. safe \in [1..n -> U]
    BY <1>3
  <2> HIDE DEF U
  <2> QED BY <1>1, <2>1, SeqDef, LenProperties
<1>6. <<Apostrophe>> \in Seq(U)
  OBVIOUS
<1> HIDE DEF U
<1>7. Len(<<Apostrophe>> \o safe) = n + 1 /\ (<<Apostrophe>> \o safe)[n + 1] = a
  <2>1. Len(<<Apostrophe>>) = 1
    OBVIOUS
  <2> QED BY <1>1, <1>4, <1>5, <1>6, <2>1, ConcatProperties
<1>8. CsvSafe(t) = safe \/ CsvSafe(t) = <<Apostrophe>> \o safe
  BY DEF CsvSafe, safe
<1>9. CsvSafe(t)[Len(CsvSafe(t))] = a
  BY <1>4, <1>5, <1>7, <1>8
<1> QED BY <1>9 DEF t

\* A number is a field as it is, negative or not.
LEMMA NumbersAreSafe ==
  /\ CsvSafe(<<Digits>>) = <<Digits>>
  /\ CsvSafe(<<Minus>> \o <<Digits>>) = <<Minus>> \o <<Digits>>
<1>1. /\ Digits \in Finite /\ Digits \notin FormulaLead \cup Format \cup {Minus}
      /\ Minus \notin FormulaLead \cup Format
  BY TextsAreTexts, MarksArePlain, Zenon
<1>2. FormatControlSafe(<<Digits>>) = <<Digits>>
  BY <1>1 DEF FormatControlSafe, Escaped
<1>3. ~LeadsAFormula(<<Digits>>)
  BY <1>1 DEF LeadsAFormula
<1>4. <<Minus>> \o <<Digits>> = <<Minus, Digits>>
  <2> DEFINE T == {Minus, Digits}
  <2>1. /\ <<Minus>> \in Seq(T) /\ <<Digits>> \in Seq(T) /\ <<Minus, Digits>> \in Seq(T)
        /\ Len(<<Minus>>) = 1 /\ Len(<<Digits>>) = 1 /\ Len(<<Minus, Digits>>) = 2
    OBVIOUS
  <2> HIDE DEF T
  <2>2. /\ <<Minus>> \o <<Digits>> \in Seq(T) /\ Len(<<Minus>> \o <<Digits>>) = 2
        /\ (<<Minus>> \o <<Digits>>)[1] = Minus /\ (<<Minus>> \o <<Digits>>)[2] = Digits
    BY <2>1, ConcatProperties
  <2>3. \A i \in 1..2 : (<<Minus>> \o <<Digits>>)[i] = <<Minus, Digits>>[i]
    BY <2>2
  <2> DEFINE t == <<Minus>> \o <<Digits>>
             u == <<Minus, Digits>>
  <2> HIDE DEF t, u
  <2>4. t \in Seq(T) /\ u \in Seq(T) /\ Len(t) = 2 /\ Len(u) = 2 /\ \A i \in 1..2 : t[i] = u[i]
    BY <2>1, <2>2, <2>3 DEF t, u
  <2>5. t = u
    BY <2>4, SeqEqual
  <2> QED BY <2>5 DEF t, u
<1>5. FormatControlSafe(<<Minus, Digits>>) = <<Minus, Digits>>
  BY <1>1 DEF FormatControlSafe, Escaped
<1>6. ~LeadsAFormula(<<Minus, Digits>>)
  BY <1>1 DEF LeadsAFormula, FiniteNumber
<1> QED BY <1>2, <1>3, <1>4, <1>5, <1>6 DEF CsvSafe

\* The identities of a row, each after what the certificate says of itself.
Spelled(identities, text) ==
  [n \in 1..Cardinality(identities) |-> text \o <<SetToSeq(identities)[n]>>]

SpelledApart(values, C) ==
  /\ values \in Seq(Seq(C)) \ {<<>>}
  /\ \A v, w \in ToSet(values) : CsvSafe(v) = CsvSafe(w) => v = w

LEMMA IdentitiesAreSpelled ==
  ASSUME NEW S, NEW text \in Seq(S), NEW C, S \subseteq C,
         NEW identities \in SUBSET C, IsFiniteSet(identities), identities # {},
         identities \cap Format = {}
  PROVE  SpelledApart(Spelled(identities, text), C)
<1> DEFINE n == Cardinality(identities)
           order == SetToSeq(identities)
           spelled == [i \in 1..n |-> text \o <<order[i]>>]
<1>1. n \in Nat \ {0}
  BY FS_CardinalityType, FS_EmptySet
<1>2. order \in [1..n -> identities]
  BY SetInOrder
<1> HIDE DEF n, order
<1>3. ASSUME NEW i \in 1..n PROVE spelled[i] \in Seq(C)
  <2>1. text \in Seq(C) /\ <<order[i]>> \in Seq(C)
    BY <1>2, SeqMonotonic
  <2> QED BY <2>1, ConcatProperties
<1>4. spelled \in Seq(Seq(C)) /\ Len(spelled) = n /\ DOMAIN spelled = 1..n
  <2> HIDE DEF spelled
  <2>1. spelled \in [1..n -> Seq(C)]
    BY <1>3 DEF spelled
  <2> QED BY <1>1, <2>1, SeqDef, LenProperties
<1>5. spelled # <<>>
  BY <1>1, <1>4, EmptySeq
<1>6. ASSUME NEW i \in 1..n, NEW j \in 1..n, CsvSafe(spelled[i]) = CsvSafe(spelled[j])
      PROVE  spelled[i] = spelled[j]
  <2>1. order[i] \notin Format /\ order[j] \notin Format
    BY <1>2
  <2>2. order[i] = order[j]
    BY <1>6, <2>1, EndIsKept
  <2> QED BY <2>2
<1>7. \A v, w \in ToSet(spelled) : CsvSafe(v) = CsvSafe(w) => v = w
  <2> HIDE DEF spelled
  <2> QED BY <1>4, <1>6 DEF ToSet
<1>8. Spelled(identities, text) = spelled
  BY DEF Spelled, n, order
<1> HIDE DEF spelled
<1> QED BY <1>4, <1>5, <1>7, <1>8 DEF SpelledApart

\* What a report says of a row of it is inert, whatever the certificate says.
LEMMA ReportedRowIsInert ==
  ASSUME NEW S, NEW text \in Seq(S), NEW r, run.args.command \in Asks,
         IsFiniteSet(r.identities), r.identities # {}, r.identities \cap Format = {}
  PROVE  InertLines(CsvRows(Record(r, text)), Record(r, text))
<1> DEFINE C == S \cup r.identities \cup {Digits, Minus, Word}
           row == Fields(r, text)
           Cell == {Null} \cup Seq(C)
           Time == {Null} \cup [minutes : Seq(C), seconds : Seq(C)]
           record == Record(r, text)
<1>1. /\ text \in Seq(C) /\ <<>> \in Seq(C) /\ <<Digits>> \in Seq(C) /\ <<Word>> \in Seq(C)
      /\ <<Minus>> \o <<Digits>> \in Seq(C)
  <2>1. <<Digits>> \in Seq(C) /\ <<Word>> \in Seq(C) /\ <<Minus>> \in Seq(C) /\ <<>> \in Seq(C)
    OBVIOUS
  <2>2. text \in Seq(C)
    BY SeqMonotonic
  <2> HIDE DEF C
  <2> QED BY <2>1, <2>2, ConcatProperties
<1>2. /\ row.identities \in Seq(Seq(C)) \ {<<>>}
      /\ \A v, w \in ToSet(row.identities) : CsvSafe(v) = CsvSafe(w) => v = w
      /\ row.sans = row.identities
  <2> DEFINE spelled == Spelled(r.identities, text)
  <2>1. row.identities = spelled /\ row.sans = spelled
    BY DEF Fields, Spelled
  <2>2. S \subseteq C /\ r.identities \in SUBSET C
    OBVIOUS
  <2> HIDE DEF C
  <2>3. /\ spelled \in Seq(Seq(C)) \ {<<>>}
        /\ \A v, w \in ToSet(spelled) : CsvSafe(v) = CsvSafe(w) => v = w
    <3>1. SpelledApart(Spelled(r.identities, text), C)
      BY <2>2, IdentitiesAreSpelled, Zenon
    <3> QED BY <3>1, Zenon DEF SpelledApart
  <2> HIDE DEF spelled, row
  <2> QED BY <2>1, <2>3
<1> HIDE DEF C
<1>3. /\ row.id \in Cell /\ row.issuer_ca_id \in Cell /\ row.issuer_name \in Cell
      /\ row.subject \in Cell /\ row.common_name \in Cell /\ row.serial \in Cell
      /\ row.status \in Cell
      /\ row.sha256_fingerprint = <<Digits>>
      /\ row.days_left \in {Null, <<Digits>>, <<Minus>> \o <<Digits>>}
  BY <1>1 DEF Fields
<1>4. row.not_before \in Time /\ row.not_after \in Time
  <2>1. /\ row.not_before = Timestamp(<<Digits>>, <<Digits>>)
        /\ row.not_after \in {Null, Timestamp(<<Digits>>, <<Digits>>)}
    BY DEF Fields
  <2> DEFINE T == Seq(C)
             number == <<Digits>>
  <2>2. number \in T /\ Time = {Null} \cup [minutes : T, seconds : T]
    BY <1>1
  <2> HIDE DEF row, T, Time
  <2>3. Timestamp(number, number) \in Time
    <3> HIDE DEF number
    <3> QED BY <2>2 DEF Timestamp
  <2>4. Null \in Time
    BY <2>2
  <2> QED BY <2>1, <2>3, <2>4
<1>5. /\ row.sha256_fingerprint \in Cell /\ row.days_left \in Cell /\ <<>> \in Cell
      /\ row.days_left # Null => CsvSafe(row.days_left) = row.days_left
      /\ CsvSafe(row.sha256_fingerprint) = row.sha256_fingerprint
  BY <1>1, <1>3, NumbersAreSafe
<1>6. Null # <<>>
  BY NullIsNoText
<1> HIDE DEF row, Cell, Time
<1>7. CASE run.args.command = "search"
  <2> DEFINE columns == <<row.id, row.issuer_ca_id, row.issuer_name, <<>>, row.common_name,
                          row.serial>>
             times == <<row.not_before, row.not_after>>
  <2>1. record = SearchRecord(row)
    BY <1>7 DEF Record, row
  <2>2. /\ record.columns = columns /\ record.times = times /\ record.last = <<>>
        /\ record.values = row.identities /\ record.valuesAt = 4
    BY <2>1 DEF SearchRecord
  <2>3. /\ columns \in Seq(Cell) /\ Len(columns) = 6 /\ columns[4] = <<>>
        /\ times \in Seq(Time) /\ Len(times) = 2
        /\ <<>> \in Seq(Cell) /\ Len(<<>>) = 0
    BY <1>3, <1>4, <1>5
  <2> HIDE DEF columns, times, record
  <2>4. IsRecord(record, C)
    BY <1>2, <2>2, <2>3 DEF IsRecord, Cell, Time
  <2>5. record.valuesAt \in DOMAIN record.columns => record.columns[record.valuesAt] # Null
    BY <1>6, <2>2, <2>3
  <2>6. record.last # <<>> =>
          /\ record.valuesAt # Len(record.columns) + Len(record.times) + 1
          /\ record.last[1] # Null => CsvSafe(record.last[1]) = record.last[1]
    BY <2>2
  <2>7. \A v, w \in ToSet(record.values) : CsvSafe(v) = CsvSafe(w) => v = w
    BY <1>2, <2>2, Zenon
  <2>8. InertLines(CsvRows(record), record)
    BY <2>4, <2>5, <2>6, <2>7, RecordIsInert, Zenon
  <2> QED BY <2>8 DEF record
<1>8. CASE run.args.command = "expiring"
  <2> DEFINE columns == <<row.id, row.issuer_ca_id, row.issuer_name, <<>>, row.common_name,
                          row.serial>>
             times == <<row.not_before, row.not_after>>
             last == <<row.days_left, row.status>>
  <2>1. record = ExpiringRecord(row)
    BY <1>8 DEF Record, row
  <2>2. /\ record.columns = columns /\ record.times = times /\ record.last = last
        /\ record.values = row.identities /\ record.valuesAt = 4
    BY <2>1 DEF SearchRecord, ExpiringRecord
  <2>3. /\ columns \in Seq(Cell) /\ Len(columns) = 6 /\ columns[4] = <<>>
        /\ times \in Seq(Time) /\ Len(times) = 2
        /\ last \in Seq(Cell) /\ Len(last) = 2 /\ last[1] = row.days_left
    BY <1>3, <1>4, <1>5
  <2> HIDE DEF columns, times, last, record
  <2>4. IsRecord(record, C)
    BY <1>2, <2>2, <2>3 DEF IsRecord, Cell, Time
  <2>5. record.valuesAt \in DOMAIN record.columns => record.columns[record.valuesAt] # Null
    BY <1>6, <2>2, <2>3
  <2>6. record.last # <<>> =>
          /\ record.valuesAt # Len(record.columns) + Len(record.times) + 1
          /\ record.last[1] # Null => CsvSafe(record.last[1]) = record.last[1]
    BY <1>5, <2>2, <2>3
  <2>7. \A v, w \in ToSet(record.values) : CsvSafe(v) = CsvSafe(w) => v = w
    BY <1>2, <2>2, Zenon
  <2>8. InertLines(CsvRows(record), record)
    BY <2>4, <2>5, <2>6, <2>7, RecordIsInert, Zenon
  <2> QED BY <2>8 DEF record
<1>9. CASE run.args.command = "cert"
  <2> DEFINE columns == <<row.id, row.issuer_ca_id, row.issuer_name, row.subject,
                          row.common_name, row.serial>>
             times == <<row.not_before, row.not_after>>
             last == <<row.sha256_fingerprint, <<>> >>
  <2>1. record = CertRecord(row)
    BY <1>9 DEF Record, row
  <2>2. /\ record.columns = columns /\ record.times = times /\ record.last = last
        /\ record.values = row.identities /\ record.valuesAt = 10
    BY <1>2, <2>1 DEF CertRecord
  <2>3. /\ columns \in Seq(Cell) /\ Len(columns) = 6 /\ DOMAIN columns = 1..6
        /\ times \in Seq(Time) /\ Len(times) = 2
        /\ last \in Seq(Cell) /\ Len(last) = 2 /\ last[1] = row.sha256_fingerprint
    BY <1>3, <1>4, <1>5
  <2> HIDE DEF columns, times, last, record
  <2>4. IsRecord(record, C)
    BY <1>2, <2>2, <2>3 DEF IsRecord, Cell, Time
  <2>5. record.valuesAt \in DOMAIN record.columns => record.columns[record.valuesAt] # Null
    BY <2>2, <2>3
  <2>6. record.last # <<>> =>
          /\ record.valuesAt # Len(record.columns) + Len(record.times) + 1
          /\ record.last[1] # Null => CsvSafe(record.last[1]) = record.last[1]
    BY <1>5, <2>2, <2>3
  <2>7. \A v, w \in ToSet(record.values) : CsvSafe(v) = CsvSafe(w) => v = w
    BY <1>2, <2>2, Zenon
  <2>8. InertLines(CsvRows(record), record)
    BY <2>4, <2>5, <2>6, <2>7, RecordIsInert, Zenon
  <2> QED BY <2>8 DEF record
<1> QED BY <1>7, <1>8, <1>9 DEF Asks, Reports

LEMMA SlicesAreHeld ==
  ASSUME NEW q, NEW rows \in Slices(q)
  PROVE  rows \subseteq Held
<1>1. Matching(q) \subseteq Held
  BY DEF Matching
<1> QED BY <1>1 DEF Slices

\* A row of a report has an identity, and finitely many, of the database's.
LEMMA RowHasIdentities ==
  ASSUME AnswersFit, NEW r \in ReportRows
  PROVE  IsFiniteSet(r.identities) /\ r.identities # {} /\ r.identities \cap Format = {}
<1> DEFINE Identities == {h.identity : h \in Held}
<1>1. \A w \in RawRows : w.row \in Held
  BY SlicesAreHeld DEF AnswersFit, RawRows
<1>2. r.identities \subseteq Identities
  <2>1. \A identity \in r.identities : \E w \in RawRows : w.row.identity = identity
    BY RowsAreReported
  <2> QED BY <1>1, <2>1
<1>3. IsFiniteSet(Identities)
  <2> DEFINE f == [h \in Held |-> h.identity]
  <2>1. f \in Surjection(Held, Identities)
    BY DEF Surjection
  <2> HIDE DEF f, Identities
  <2> QED BY <2>1, HeldIsFinite, FS_Surjection
<1>4. Identities \cap Format = {}
  BY HeldIsFinite
<1>5. r.identities # {}
  <2>1. CASE run.args.command \in Reports /\ run.args.no_dedupe
    <3>1. \A x \in Expanded : x.identities # {}
      BY DEF Expanded
    <3> QED BY <2>1, <3>1, Zenon DEF ReportRows
  <2>2. CASE ~(run.args.command \in Reports /\ run.args.no_dedupe)
    <3> DEFINE merged(w) == {v.row.identity : v \in {u \in RawRows : u.row.cert = w.row.cert}}
    <3>1. r \in Collapsed
      BY <2>2, Zenon DEF ReportRows
    <3>2. PICK w \in RawRows : r.identities = merged(w)
      BY <3>1 DEF Collapsed
    <3>3. w.row.identity \in merged(w)
      OBVIOUS
    <3> QED BY <3>2, <3>3, Zenon
  <2> QED BY <2>1, <2>2
<1> HIDE DEF Identities
<1> QED BY <1>2, <1>3, <1>4, <1>5, FS_Subset

\* What is emitted is inert.
LEMMA EmitIsInert ==
  ASSUME RunInv, Emit
  PROVE  CellsAreInert'
<1>1. PICK text \in Texts(run) :
        LET records == {Record(r, text) : r \in ReportRows}
            filed == IF run.args.csv THEN records ELSE {}
        IN  emitted' = [rows |-> ReportRows,
                        table |-> {TableRow(record) : record \in records},
                        csv |-> [record \in filed |-> CsvRows(record)]]
  BY Zenon DEF Emit
<1> DEFINE records == {Record(r, text) : r \in ReportRows}
           filed == IF run.args.csv THEN records ELSE {}
<1>2. run' = run /\ run \in Invocations /\ run.args.command \in Asks /\ AnswersFit
  BY DEF Emit, RunInv, AskersAreOpen
<1>3. ASSUME NEW row \in emitted'.table, NEW i \in DOMAIN row
      PROVE  ~MisleadsTerminal(row[i])
  <2>1. PICK record \in records : row = TableRow(record)
    BY <1>1
  <2> HIDE DEF records
  <2>2. row[i] = DisplaySafe(TableCells(record)[i])
    BY <2>1 DEF TableRow, ApplyTo
  <2> QED BY <2>2, TableTextIsInert
<1>4. ASSUME NEW record \in DOMAIN emitted'.csv
      PROVE  InertLines(emitted'.csv[record], record)
  <2>1. emitted'.csv = [x \in filed |-> CsvRows(x)]
    BY <1>1
  <2>2. record \in filed /\ emitted'.csv[record] = CsvRows(record)
    BY <1>4, <2>1
  <2>3. PICK r \in ReportRows : record = Record(r, text)
    BY <2>2
  <2>4. text \in Seq(ToSet(text))
    BY <1>2, TextsAreTexts
  <2>5. IsFiniteSet(r.identities) /\ r.identities # {} /\ r.identities \cap Format = {}
    BY <1>2, RowHasIdentities, Zenon
  <2> QED BY <1>2, <2>2, <2>3, <2>4, <2>5, ReportedRowIsInert
<1> QED BY <1>3, <1>4, Zenon DEF CellsAreInert

\* Whatever a certificate says of itself, no run puts anything into a table that
\* a terminal acts on, or into a file that a spreadsheet evaluates (output.rs,
\* output/sanitise.rs).
THEOREM CellsStayInert == Spec => []CellsAreInert
<1>1. Init => CellsAreInert
  BY DEF Init, CellsAreInert
<1>2. RunInv /\ CellsAreInert /\ [Next]_vars => CellsAreInert'
  <2> SUFFICES ASSUME RunInv, CellsAreInert, [Next]_vars
               PROVE  CellsAreInert'
    OBVIOUS
  <2>1. CASE Emit
    BY <2>1, EmitIsInert
  <2>2. CASE UNCHANGED <<stage, run, emitted, error>>
    BY <2>2, Zenon DEF CellsAreInert
  <2>3. CASE ~(stage' = "over" /\ error' = "none" /\ run'.args.command \in Asks)
    BY <2>3, Zenon DEF CellsAreInert
  <2>4. ASSUME NEW i \in Invocations, ShortRun(i)
        PROVE  ~(error' = "none" /\ run'.args.command \in Asks)
    BY <2>4 DEF ShortRun, UsageFails, Completions, CheckUpdate, CacheCommand, Clear, Begin, Ends, Asks,
                Reports
  <2>5. ASSUME NEW i \in Invocations, Open(i)
        PROVE  ~(stage' = "over" /\ error' = "none")
    BY <2>5 DEF Open, Begin, Ends
  <2>6. AnswerFromCache \/ AnswerFromDatabase \/ UNCHANGED vars =>
          UNCHANGED <<stage, run, emitted, error>>
    BY DEF AnswerFromCache, AnswerFromDatabase, vars
  <2>7. AskFails \/ Assemble \/ End => ~(stage' = "over" /\ error' = "none")
    BY DEF AskFails, Ends, Assemble, End
  <2> QED BY <2>1, <2>2, <2>3, <2>4, <2>5, <2>6, <2>7 DEF Next, ShortRun
<1> QED BY <1>1, <1>2, RunInvHolds, PTL DEF Spec

-----------------------------------------------------------------------------
(* What check-update says                                                  *)

LEMMA LeadingDecides ==
  ASSUME NEW b \in Nat, NEW x \in Nat, NEW y \in Nat,
         NEW u \in 0..(b - 1), NEW v \in 0..(b - 1), x > y
  PROVE  x * b + u > y * b + v
<1>1. x * b >= (y + 1) * b
  OBVIOUS
<1>2. x * b \in Nat /\ y * b \in Nat /\ (y + 1) * b = y * b + b
  OBVIOUS
<1> QED BY <1>1, <1>2

LEMMA DigitsCompare ==
  ASSUME NEW b \in Nat, NEW x \in Nat, NEW y \in Nat,
         NEW u \in 0..(b - 1), NEW v \in 0..(b - 1)
  PROVE  /\ x * b + u > y * b + v <=> x > y \/ (x = y /\ u > v)
         /\ x * b + u = y * b + v <=> x = y /\ u = v
<1>1. x * b \in Nat /\ y * b \in Nat
  OBVIOUS
<1>2. x > y => x * b + u > y * b + v
  BY LeadingDecides
<1>3. x < y => x * b + u < y * b + v
  BY LeadingDecides
<1>4. x = y => x * b = y * b
  OBVIOUS
<1> QED BY <1>1, <1>2, <1>3, <1>4

\* One number in a large enough base orders versions as their fields do.
LEMMA NumbersCompare ==
  ASSUME NEW v, NEW w,
         \A i \in 1..3 : v[i] \in Nat /\ w[i] \in Nat
  PROVE  LET base == AboveFields(v, w)
         IN  /\ Number(v, base) > Number(w, base) <=>
                  \/ v[1] > w[1]
                  \/ v[1] = w[1] /\ v[2] > w[2]
                  \/ v[1] = w[1] /\ v[2] = w[2] /\ v[3] > w[3]
             /\ Number(v, base) = Number(w, base) <=>
                  v[1] = w[1] /\ v[2] = w[2] /\ v[3] = w[3]
<1> DEFINE base == AboveFields(v, w)
           high(n) == n[1] * base + n[2]
<1>1. /\ v[1] \in Nat /\ v[2] \in Nat /\ v[3] \in Nat
      /\ w[1] \in Nat /\ w[2] \in Nat /\ w[3] \in Nat
  OBVIOUS
<1>2. /\ base \in Nat
      /\ v[2] \in 0..(base - 1) /\ w[2] \in 0..(base - 1)
      /\ v[3] \in 0..(base - 1) /\ w[3] \in 0..(base - 1)
  BY <1>1 DEF AboveFields
<1> HIDE DEF base
<1>3. /\ high(v) \in Nat /\ high(w) \in Nat
      /\ high(v) > high(w) <=> v[1] > w[1] \/ (v[1] = w[1] /\ v[2] > w[2])
      /\ high(v) = high(w) <=> v[1] = w[1] /\ v[2] = w[2]
  <2>1. /\ v[1] * base + v[2] > w[1] * base + w[2] <=> v[1] > w[1] \/ (v[1] = w[1] /\ v[2] > w[2])
        /\ v[1] * base + v[2] = w[1] * base + w[2] <=> v[1] = w[1] /\ v[2] = w[2]
    <3>1. /\ base \in Nat /\ v[1] \in Nat /\ w[1] \in Nat
          /\ v[2] \in 0..(base - 1) /\ w[2] \in 0..(base - 1)
      BY <1>1, <1>2
    <3> QED BY ONLY <3>1, DigitsCompare
  <2>2. v[1] * base \in Nat /\ w[1] * base \in Nat
    BY <1>1, <1>2
  <2> QED BY <1>1, <2>1, <2>2
<1> HIDE DEF high
<1>4. /\ high(v) * base + v[3] > high(w) * base + w[3] <=>
           high(v) > high(w) \/ (high(v) = high(w) /\ v[3] > w[3])
      /\ high(v) * base + v[3] = high(w) * base + w[3] <=>
           high(v) = high(w) /\ v[3] = w[3]
  BY <1>1, <1>2, <1>3, DigitsCompare
<1>5. /\ Number(v, base) = high(v) * base + v[3]
      /\ Number(w, base) = high(w) * base + w[3]
  BY DEF Number, high
<1>6. /\ Number(v, base) > Number(w, base) <=>
           \/ v[1] > w[1]
           \/ v[1] = w[1] /\ v[2] > w[2]
           \/ v[1] = w[1] /\ v[2] = w[2] /\ v[3] > w[3]
      /\ Number(v, base) = Number(w, base) <=>
           v[1] = w[1] /\ v[2] = w[2] /\ v[3] = w[3]
  BY <1>3, <1>4, <1>5
<1> QED BY <1>6 DEF base

\* A rank is its version's fields and two more, for the prerelease.
LEMMA RankIsFields ==
  ASSUME NEW v, IsVersion(v), Parses(v)
  PROVE  /\ DOMAIN Rank(v) = 1..5
         /\ \A i \in 1..3 : Rank(v)[i] = v.core[i] /\ v.core[i] \in Nat
         /\ v.pre = Release => Rank(v)[4] = 1 /\ Rank(v)[5] = 0
         /\ v.pre # Release => Rank(v)[4] = 0 /\ Rank(v)[5] = v.pre /\ v.pre \in Nat
<1> DEFINE S == {Junk} \cup Nat
           tail == IF v.pre = Release THEN <<1, 0>> ELSE <<0, v.pre>>
<1>1. v.core \in Seq(S) /\ Len(v.core) = 3 /\ DOMAIN v.core = 1..3
  BY DEF IsVersion, Parses
<1>2. \A i \in 1..3 : v.core[i] \in Nat
  BY <1>1, ElementOfSeq DEF Parses
<1>3. tail \in Seq(S) /\ Len(tail) = 2
  <2>1. 0 \in S /\ 1 \in S /\ (v.pre # Release => v.pre \in S)
    BY DEF IsVersion
  <2> HIDE DEF S
  <2> QED BY <2>1
<1>4. /\ v.pre = Release => tail[1] = 1 /\ tail[2] = 0
      /\ v.pre # Release => tail[1] = 0 /\ tail[2] = v.pre /\ v.pre \in Nat
  BY DEF IsVersion
<1> HIDE DEF tail
<1>5. Rank(v) = v.core \o tail
  BY DEF Rank, tail
<1>6. /\ Len(v.core \o tail) = 5 /\ DOMAIN (v.core \o tail) = 1..5
      /\ \A i \in 1..3 : (v.core \o tail)[i] = v.core[i]
      /\ (v.core \o tail)[4] = tail[1] /\ (v.core \o tail)[5] = tail[2]
  <2> HIDE DEF S
  <2>1. /\ v.core \o tail \in Seq(S) /\ Len(v.core \o tail) = 5
        /\ \A i \in 1..5 : (v.core \o tail)[i] = IF i <= 3 THEN v.core[i] ELSE tail[i - 3]
    <3>1. v.core \in Seq(S) /\ tail \in Seq(S) /\ Len(v.core) = 3 /\ Len(tail) = 2
      BY <1>1, <1>3
    <3> DEFINE core == v.core
    <3> HIDE DEF core
    <3>2. core \in Seq(S) /\ Len(core) = 3
      BY <3>1 DEF core
    <3>3. /\ core \o tail \in Seq(S) /\ Len(core \o tail) = Len(core) + Len(tail)
          /\ \A i \in 1..(Len(core) + Len(tail)) :
               (core \o tail)[i] = IF i <= Len(core) THEN core[i] ELSE tail[i - Len(core)]
      BY <3>1, <3>2, ConcatProperties
    <3> QED BY <3>1, <3>2, <3>3 DEF core
  <2> QED BY <1>1, <2>1
<1> QED BY <1>2, <1>4, <1>5, <1>6

LEMMA AboveIsLexicographic ==
  ASSUME NEW a, NEW b, DOMAIN a = 1..5
  PROVE  Above(a, b) <=>
           \/ a[1] > b[1]
           \/ a[1] = b[1] /\ a[2] > b[2]
           \/ a[1] = b[1] /\ a[2] = b[2] /\ a[3] > b[3]
           \/ a[1] = b[1] /\ a[2] = b[2] /\ a[3] = b[3] /\ a[4] > b[4]
           \/ a[1] = b[1] /\ a[2] = b[2] /\ a[3] = b[3] /\ a[4] = b[4] /\ a[5] > b[5]
<1>1. /\ 1..0 = {} /\ 1..1 = {1} /\ 1..2 = {1, 2} /\ 1..3 = {1, 2, 3}
      /\ 1..4 = {1, 2, 3, 4} /\ 1..5 = {1, 2, 3, 4, 5}
  OBVIOUS
<1>2. ASSUME NEW i \in 1..5
      PROVE  i \in {1, 2, 3, 4, 5}
  OBVIOUS
<1>3. Above(a, b) <=> \E i \in {1, 2, 3, 4, 5} :
                        a[i] > b[i] /\ \A j \in 1..(i - 1) : a[j] = b[j]
  BY <1>1 DEF Above
<1>4. /\ (\A j \in 1..(1 - 1) : a[j] = b[j]) <=> TRUE
      /\ (\A j \in 1..(2 - 1) : a[j] = b[j]) <=> a[1] = b[1]
      /\ (\A j \in 1..(3 - 1) : a[j] = b[j]) <=> a[1] = b[1] /\ a[2] = b[2]
      /\ (\A j \in 1..(4 - 1) : a[j] = b[j]) <=> a[1] = b[1] /\ a[2] = b[2] /\ a[3] = b[3]
      /\ (\A j \in 1..(5 - 1) : a[j] = b[j]) <=>
           a[1] = b[1] /\ a[2] = b[2] /\ a[3] = b[3] /\ a[4] = b[4]
  BY <1>1
<1> QED BY <1>3, <1>4

\* The newer of two versions that can be read has the greater number, or is the
\* later of two that come before one release.
LEMMA NewerIsGreater ==
  ASSUME NEW v, NEW w, IsVersion(v), IsVersion(w), Parses(v), Parses(w)
  PROVE  LET base == AboveFields(v.core, w.core)
         IN  IsNewer(v, w) <=>
               \/ Number(v.core, base) > Number(w.core, base)
               \/ /\ Number(v.core, base) = Number(w.core, base)
                  /\ w.pre # Release
                  /\ v.pre = Release \/ (v.pre # Release /\ v.pre > w.pre)
<1> DEFINE a == Rank(v)
           b == Rank(w)
           m == v.core
           n == w.core
           base == AboveFields(m, n)
<1>1. /\ DOMAIN a = 1..5
      /\ \A i \in 1..3 : a[i] = m[i] /\ m[i] \in Nat
      /\ v.pre = Release => a[4] = 1 /\ a[5] = 0
      /\ v.pre # Release => a[4] = 0 /\ a[5] = v.pre /\ v.pre \in Nat
  BY RankIsFields, Zenon
<1>2. /\ \A i \in 1..3 : b[i] = n[i] /\ n[i] \in Nat
      /\ w.pre = Release => b[4] = 1 /\ b[5] = 0
      /\ w.pre # Release => b[4] = 0 /\ b[5] = w.pre /\ w.pre \in Nat
  BY RankIsFields, Zenon
<1>3. IsNewer(v, w) <=> Above(a, b)
  BY DEF IsNewer
<1> HIDE DEF a, b, m, n
<1>4. /\ Number(m, base) > Number(n, base) <=>
           \/ m[1] > n[1]
           \/ m[1] = n[1] /\ m[2] > n[2]
           \/ m[1] = n[1] /\ m[2] = n[2] /\ m[3] > n[3]
      /\ Number(m, base) = Number(n, base) <=> m[1] = n[1] /\ m[2] = n[2] /\ m[3] = n[3]
  BY <1>1, <1>2, NumbersCompare
<1> HIDE DEF base
<1>5. Above(a, b) <=>
        \/ a[1] > b[1]
        \/ a[1] = b[1] /\ a[2] > b[2]
        \/ a[1] = b[1] /\ a[2] = b[2] /\ a[3] > b[3]
        \/ a[1] = b[1] /\ a[2] = b[2] /\ a[3] = b[3] /\ a[4] > b[4]
        \/ a[1] = b[1] /\ a[2] = b[2] /\ a[3] = b[3] /\ a[4] = b[4] /\ a[5] > b[5]
  BY <1>1, AboveIsLexicographic
<1>6. /\ a[1] = m[1] /\ a[2] = m[2] /\ a[3] = m[3]
      /\ b[1] = n[1] /\ b[2] = n[2] /\ b[3] = n[3]
  BY <1>1, <1>2
<1>7. (a[4] > b[4] \/ (a[4] = b[4] /\ a[5] > b[5])) <=>
        /\ w.pre # Release
        /\ v.pre = Release \/ (v.pre # Release /\ v.pre > w.pre)
  BY <1>1, <1>2
<1>8. IsNewer(v, w) <=>
        \/ Number(m, base) > Number(n, base)
        \/ /\ Number(m, base) = Number(n, base)
           /\ w.pre # Release
           /\ v.pre = Release \/ (v.pre # Release /\ v.pre > w.pre)
  BY <1>3, <1>4, <1>5, <1>6, <1>7
<1> QED BY <1>8 DEF m, n, base

\* Nothing is printed before a run begins, and by a check-update only the
\* release that a redirect names.
ReleaseIsNamed ==
  /\ stage = "idle" => emitted = Unset
  /\ stage = "over" /\ run.args.command = "check-update" /\ error # "usage" =>
       \/ emitted = Unset /\ error = "github"
       \/ \E redirect \in Redirects :
            /\ NamesRelease(redirect)
            /\ emitted = [release |-> redirect.tag,
                          summary |-> Summary(redirect.tag.version, Current)]

LEMMA ReleaseIsNamedHolds == Spec => []ReleaseIsNamed
<1>1. Init => ReleaseIsNamed
  BY DEF Init, ReleaseIsNamed
<1>2. RunInv /\ ReleaseIsNamed /\ [Next]_vars => ReleaseIsNamed'
  <2> SUFFICES ASSUME RunInv, ReleaseIsNamed, [Next]_vars
               PROVE  ReleaseIsNamed'
    OBVIOUS
  <2>1. ASSUME NEW i \in Invocations, UsageFails(i)
        PROVE  ReleaseIsNamed'
    BY <2>1 DEF UsageFails, Begin, Ends, ReleaseIsNamed
  <2>2. ASSUME NEW i \in Invocations, Completions(i)
        PROVE  ReleaseIsNamed'
    BY <2>2 DEF Completions, Begin, Ends, ReleaseIsNamed
  <2>3. ASSUME NEW i \in Invocations, CheckUpdate(i)
        PROVE  ReleaseIsNamed'
    <3>1. PICK redirect \in Redirects :
            IF NamesRelease(redirect)
              THEN emitted' = [release |-> redirect.tag,
                               summary |-> Summary(redirect.tag.version, Current)]
              ELSE emitted' = emitted /\ error' = "github"
      BY <2>3 DEF CheckUpdate, Ends
    <3>2. emitted = Unset /\ stage' = "over"
      BY <2>3 DEF CheckUpdate, Begin, Ends, ReleaseIsNamed
    <3> QED BY <3>1, <3>2, Zenon DEF ReleaseIsNamed
  <2>4. ASSUME NEW i \in Invocations, CacheCommand(i)
        PROVE  ReleaseIsNamed'
    BY <2>4 DEF CacheCommand, Clear, Begin, Ends, ReleaseIsNamed
  <2>5. ASSUME NEW i \in Invocations, Open(i)
        PROVE  ReleaseIsNamed'
    BY <2>5 DEF Open, Begin, Ends, Asks, Reports, ReleaseIsNamed
  <2>6. CASE AnswerFromCache
    BY <2>6 DEF AnswerFromCache, Asking, ReleaseIsNamed
  <2>7. CASE AnswerFromDatabase
    BY <2>7 DEF AnswerFromDatabase, Asking, ReleaseIsNamed
  <2>8. CASE AskFails
    BY <2>8 DEF AskFails, Asking, Ends, RunInv, AskersAreOpen, Asks, Reports, ReleaseIsNamed
  <2>9. CASE Assemble
    BY <2>9 DEF Assemble, ReleaseIsNamed
  <2>10. CASE Emit
    BY <2>10 DEF Emit, RunInv, AskersAreOpen, Asks, Reports, ReleaseIsNamed
  <2>11. CASE End
    BY <2>11 DEF End, ReleaseIsNamed
  <2>12. CASE UNCHANGED vars
    BY <2>12 DEF vars, ReleaseIsNamed
  <2> QED BY <2>1, <2>2, <2>3, <2>4, <2>5, <2>6, <2>7, <2>8, <2>9, <2>10, <2>11, <2>12
          DEF Next
<1> QED BY <1>1, <1>2, RunInvHolds, PTL DEF Spec

\* check-update tells an update if and only if there is one, for any version
\* numbers (is_newer and fetch_latest_tag of update.rs).
THEOREM UpdatesAreReal == Spec => []UpdateIsReal
<1>1. ReleaseIsNamed => UpdateIsReal
  <2> SUFFICES ASSUME ReleaseIsNamed, stage = "over", run.args.command = "check-update",
                      error # "usage", emitted # Unset
               PROVE  UpdateIsReal
    <3>1. emitted = Unset /\ ReleaseIsNamed => UpdateIsReal
      <4> SUFFICES ASSUME emitted = Unset, ReleaseIsNamed, stage = "over",
                          run.args.command = "check-update", error # "usage"
                   PROVE  error = "github"
        BY DEF UpdateIsReal
      <4>1. ASSUME NEW redirect \in Redirects, NamesRelease(redirect)
            PROVE  emitted # [release |-> redirect.tag,
                              summary |-> Summary(redirect.tag.version, Current)]
        BY <4>1, RedirectsAreVersions DEF NamesRelease, Summary
      <4> QED BY <4>1, Zenon DEF ReleaseIsNamed
    <3> QED BY <3>1, Zenon DEF UpdateIsReal
  <2>1. PICK redirect \in Redirects :
          /\ NamesRelease(redirect)
          /\ emitted = [release |-> redirect.tag,
                        summary |-> Summary(redirect.tag.version, Current)]
    BY DEF ReleaseIsNamed
  <2> DEFINE latest == emitted.release.version
             base == AboveFields(latest.core, Current.core)
             newer == \/ Number(latest.core, base) > Number(Current.core, base)
                      \/ /\ Number(latest.core, base) = Number(Current.core, base)
                         /\ Current.pre # Release
                         /\ \/ latest.pre = Release
                            \/ latest.pre # Release /\ latest.pre > Current.pre
  <2>2. /\ emitted.release = redirect.tag
        /\ emitted.summary = Summary(latest, Current)
        /\ emitted.release.readable
    BY <2>1 DEF NamesRelease
  <2>3. IsVersion(latest) /\ IsVersion(Current)
    BY <2>1, <2>2, RedirectsAreVersions, CurrentIsVersion DEF NamesRelease
  <2>4. emitted.summary = "available" <=> IsNewer(latest, Current)
    BY <2>2 DEF Summary
  <2>5. Parses(latest) /\ Parses(Current) => (IsNewer(latest, Current) <=> newer)
    BY <2>3, NewerIsGreater, Zenon
  <2>6. ~(Parses(latest) /\ Parses(Current)) => (IsNewer(latest, Current) <=> latest # Current)
    BY DEF IsNewer
  <2> QED BY <2>2, <2>4, <2>5, <2>6, Zenon DEF UpdateIsReal
<1> QED BY <1>1, ReleaseIsNamedHolds, PTL

==============================================================================
