---------------------------- MODULE MCInvocation ----------------------------
(* Two runs, each any of some 240 invocations: one family varies accounts, *)
(* flags, variables and config files, the other the command line.          *)
EXTENDS Invocation

CONSTANTS alice, bob

-----------------------------------------------------------------------------
(* Texts                                                                   *)

MCEscape(c) == "escaped"
MCCharacters == {"=", "+", "@", "tab", "cr", "-", "lf", "esc", "zw", "30", "inf", "x"}
MCTexts(i) ==
  IF ~i.args.csv THEN {<<"x">>}
  ELSE {<<>>} \cup {<<c>> : c \in MCCharacters}
         \cup {<<c, d>> : c \in {"-", "=", "zw", "x"}, d \in {"30", "inf", "=", "esc", "zw"}}

-----------------------------------------------------------------------------
(* Releases                                                                *)

Version(core, pre, build) == [core |-> core, pre |-> pre, build |-> build]
MCCurrent == Version(<<0, 9, 1>>, Release, "")
MCVersions ==
  {Version(core, pre, build) :
     core \in {<<0, 9, 1>>, <<0, 9, 2>>, <<0, 10, 0>>, <<0, 8, 7>>, <<1, 0, 0>>, <<0, 9>>, <<0, 9, Junk>>},
     pre \in {Release, 1, 2}, build \in {"", "1"}}
MCRedirects ==
  {NoAnswer} \cup
  {[to |-> to, tag |-> [readable |-> readable, version |-> version]] :
     to \in {"tag", "elsewhere"}, readable \in BOOLEAN, version \in MCVersions}

-----------------------------------------------------------------------------
(* Settings                                                                *)

Layer(given) == [s \in Setting |-> IF s \in DOMAIN given THEN given[s] ELSE Unset]

Url(dbname, user) == [host |-> "h1", port |-> Unset, dbname |-> dbname, user |-> user]

Flags == {NoLayer, Layer([host |-> "h2"]),
          Layer([db_url |-> Url(Unset, Unset)]), Layer([db_url |-> Url(alice, bob)])}
Envs == {NoLayer, Layer([host |-> "h2", dbname |-> Blank]),
         Layer([db_url |-> Url(Unset, bob)]), Layer([user |-> Garbled]), Layer([port |-> "no port"])}
Files == {NoFile, [layer |-> Layer([db_url |-> Url(Unset, Unset)]), cache |-> Unset],
          [layer |-> Layer([db_url |-> BadUrl, host |-> "h2"]), cache |-> Unset],
          [layer |-> Layer([host |-> "h2", port |-> "5433"]), cache |-> FALSE], Broken}

\* Everyone shares a cache directory; a tree one may stand in holds a config file.
Dirs(xdg_config) == [xdg_config |-> xdg_config, xdg_cache |-> "/shared", home |-> "/home"]
NoDirs == [xdg_config |-> Unset, xdg_cache |-> "here", home |-> Unset]
Stray == [layer |-> Layer([db_url |-> Url(alice, Unset)]), cache |-> Unset]
Disk(file) == <<"/home", ".config">> :> file @@ <<"here">> :> Stray @@ <<"here", ".config">> :> Stray

Plain ==
  [command |-> "search", terms |-> <<"a">>, valid_since |-> Unset, all_history |-> FALSE,
   within |-> Unset, since_expired |-> Unset, skip_expired |-> FALSE, limit |-> Unset,
   no_dedupe |-> FALSE, fail_on_expiring |-> FALSE, lookup |-> Unset,
   no_cache |-> FALSE, refresh |-> FALSE, quiet |-> FALSE, csv |-> FALSE,
   width |-> Unset]

Invoke(account, flags, env, dirs, file, args) ==
  [account |-> account, flags |-> flags, env |-> env, dirs |-> dirs, disk |-> Disk(file),
   args |-> args]

MCConfigured ==
  {Invoke(account, flags, env, Dirs(Unset), file, Plain) :
     account \in {alice, bob}, flags \in Flags, env \in Envs, file \in Files}
  \cup {Invoke(alice, NoLayer, env, Dirs("here"), NoFile, Plain) : env \in Envs}

-----------------------------------------------------------------------------
(* Command lines                                                           *)

Searches ==
  {[Plain EXCEPT !.terms = terms, !.limit = limit, !.no_dedupe = raw, !.quiet = raw] :
     terms \in {<<"a">>, <<"A", "b", "a">>}, limit \in {Unset, 1, 2}, raw \in BOOLEAN}
  \cup {[Plain EXCEPT !.all_history = TRUE, !.skip_expired = skip] : skip \in BOOLEAN}
  \cup {[Plain EXCEPT !.valid_since = 1, !.skip_expired = skip] : skip \in BOOLEAN}
  \cup {[Plain EXCEPT !.no_dedupe = TRUE, !.limit = 2]}

Expirings ==
  {[Plain EXCEPT !.command = "expiring", !.terms = terms, !.fail_on_expiring = TRUE,
                 !.skip_expired = skip, !.limit = limit, !.within = within] :
     terms \in {<<"b">>, <<"b", "a">>}, skip \in BOOLEAN, limit \in {Unset, 1}, within \in {Unset, 1}}

Lookup(form, digits, value) ==
  [Plain EXCEPT !.command = "cert", !.lookup = [form |-> form, digits |-> digits, value |-> value]]
Certs == {Lookup("decimal", 2, "c1"), Lookup("decimal", 2, "c9"), Lookup("decimal", 64, "f1"),
          Lookup("hex", 64, "f2"), Lookup("decimal", 19, "f1"), Lookup("hex", 40, "f1")}

Modes == {[Plain EXCEPT !.refresh = refresh, !.no_cache = no_cache] :
            refresh, no_cache \in BOOLEAN}

Mistakes ==
  {[Plain EXCEPT !.terms = <<"a", " ">>], [Plain EXCEPT !.limit = 0],
   [Plain EXCEPT !.width = 39], [Plain EXCEPT !.valid_since = 0],
   [Plain EXCEPT !.all_history = TRUE, !.valid_since = 365],
   [Plain EXCEPT !.command = "expiring", !.skip_expired = TRUE, !.since_expired = 0]}

Filed == {[Plain EXCEPT !.csv = TRUE], [Plain EXCEPT !.csv = TRUE, !.command = "expiring"],
          [Lookup("hex", 64, "f2") EXCEPT !.csv = TRUE]}

MCAsked ==
  {Invoke(alice, NoLayer, NoLayer, Dirs(Unset), NoFile, args) :
     args \in Searches \cup Expirings \cup Certs \cup Mistakes \cup Filed}
  \cup {Invoke(alice, NoLayer, NoLayer, Dirs(Unset), file, args) :
          args \in Modes, file \in {NoFile, [NoFile EXCEPT !.cache = FALSE]}}
  \cup {Invoke(alice, NoLayer, NoLayer, NoDirs, NoFile, Plain)}

MCOther ==
  {Invoke(bob, NoLayer, Layer([port |-> "no port"]), dirs, file, [Plain EXCEPT !.command = command]) :
     command \in {"completions", "check-update", "cache path", "cache clear"},
     dirs \in {Dirs(Unset), NoDirs}, file \in {NoFile, Broken}}

MCInvocations == MCConfigured \cup MCAsked \cup MCOther

-----------------------------------------------------------------------------
(* Databases: the same in each                                             *)

MCLower == [t \in {"a", "b", "A"} |-> IF t = "A" THEN "a" ELSE t]

Databases ==
  {Reached(ConfigOf(i), i.account) : i \in {j \in MCConfigured : OpenError(j) = "none"}}

Row(db, subject, cert, identity, left) ==
  [db |-> db, subject |-> subject, cert |-> cert, identity |-> identity, left |-> left]

MCHeld ==
  UNION {{Row(db, "a", 1, "a1", 3), Row(db, "a", 1, "a2", 3), Row(db, "a", 2, "a1", -2),
          Row(db, "b", 2, "b1", -2), Row(db, "b", 3, "b1", Unset),
          Row(db, "c1", 1, "a1", 3), Row(db, "f2", 2, "a1", -2)} : db \in Databases}
=============================================================================
