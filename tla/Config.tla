------------------------------- MODULE Config -------------------------------
(***************************************************************************)
(* Which database a run of crt-query talks to, and whether it may use the  *)
(* cache: src/src/config.rs, the end of main.rs, and what db.rs makes of   *)
(* the result.  Flags, CRT_QUERY_* variables and the config file are three *)
(* layers, highest first; a db_url sets the whole connection.              *)
(***************************************************************************)
EXTENDS Naturals

CONSTANTS
  Unset,     \* what nobody gave
  Blank,     \* a variable that is exported and empty
  Garbled,   \* a variable that is not UTF-8
  BadUrl,    \* a db_url that does not parse
  Broken,    \* a config file that cannot be read or parsed
  Port,      \* the texts that are port numbers
  Absolute,  \* the directories that are absolute paths
  DefaultHost, DefaultPort, DefaultDbname, DefaultUser

Single == {"host", "port", "dbname", "user"}
Setting == Single \cup {"db_url"}

NoLayer == [s \in Setting |-> Unset]

-----------------------------------------------------------------------------
(* The environment                                                         *)

FromVariable(raw) == IF raw = Blank THEN Unset ELSE raw

EnvFails(env) ==
  \/ \E s \in Setting : env[s] = Garbled
  \/ FromVariable(env["port"]) \notin Port \cup {Unset}

EnvLayer(env) == [s \in Setting |-> FromVariable(env[s])]

-----------------------------------------------------------------------------
(* The config file and the cache directory                                 *)

\* Only an absolute directory is one, an XDG variable before HOME.
Root(xdg, home, below) ==
  IF xdg \in Absolute THEN <<xdg>>
  ELSE IF home \in Absolute THEN <<home, below>> ELSE Unset

ConfigRoot(dirs) == Root(dirs.xdg_config, dirs.home, ".config")
CacheRoot(dirs) == Root(dirs.xdg_cache, dirs.home, ".cache")

NoFile == [layer |-> NoLayer, cache |-> Unset]

\* disk maps the directories under which a config file lies to its contents.
FileConfig(dirs, disk) ==
  IF ConfigRoot(dirs) \in DOMAIN disk THEN disk[ConfigRoot(dirs)] ELSE NoFile

-----------------------------------------------------------------------------
(* resolve                                                                 *)

Layers(flags, env, file) == <<flags, EnvLayer(env), file.layer>>

\* The highest layer that gives s: a set of one layer, or of none.
Highest(layers, s) ==
  {n \in 1..3 : layers[n][s] # Unset /\ \A m \in 1..(n - 1) : layers[m][s] = Unset}

\* Mutant of SettingAbove: the variables above a file's db_url are not looked at.
SettingAbove_Flags(layers, n) == n > 1 /\ \E s \in Single : layers[1][s] # Unset

SettingAbove(layers, n) == \E m \in 1..(n - 1), s \in Single : layers[m][s] # Unset

\* A single setting above the db_url is an error, not a choice.
Conflicts(layers) == \E n \in Highest(layers, "db_url") : SettingAbove(layers, n)

Default == [host |-> DefaultHost, port |-> DefaultPort,
            dbname |-> DefaultDbname, user |-> DefaultUser]

Given(layers, s, default) ==
  IF Highest(layers, s) = {} THEN default
  ELSE layers[CHOOSE n \in Highest(layers, s) : TRUE][s]

Conn(layers) ==
  [single |-> [s \in Single |-> Given(layers, s, Default[s])],
   db_url |-> Given(layers, "db_url", Unset)]

-----------------------------------------------------------------------------
(* db.rs: build_config and cache_identity                                  *)

UrlFails(conn) == conn.db_url = BadUrl

\* A db_url may leave out the port, the database and the user.
BuildConfig(conn) == IF conn.db_url = Unset THEN conn.single ELSE conn.db_url

OrElse(value, other) == IF value # Unset THEN value ELSE other

\* Mutant of CacheIdentity: host and port alone, as it once was.
CacheIdentity_Target(config, account) == <<config.host, OrElse(config.port, DefaultPort)>>

CacheIdentity(config, account) ==
  <<config.host, OrElse(config.port, DefaultPort),
    OrElse(config.dbname, OrElse(config.user, account))>>

\* The database that tokio-postgres and the server make of a config of one host:
\* the client's defaults are 5432 and the account's name, and a server that is
\* told no database opens the one named after the user.
Reached(config, account) ==
  LET user == OrElse(config.user, account)
  IN  [host |-> config.host, port |-> OrElse(config.port, DefaultPort),
       dbname |-> OrElse(config.dbname, user)]

-----------------------------------------------------------------------------
(* main.rs: build_cache                                                    *)

CacheMode(no_cache, refresh, file) ==
  IF no_cache THEN "disabled"
  ELSE IF refresh THEN "refresh"
  ELSE IF file.cache = FALSE THEN "disabled" ELSE "enabled"
=============================================================================
