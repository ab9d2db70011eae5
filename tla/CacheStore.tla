----------------------------- MODULE CacheStore -----------------------------
(***************************************************************************)
(* The on-disk result cache of src/src/cache.rs: one directory of small    *)
(* files shared, without any lock, by every crt-query process of a user.   *)
(*                                                                         *)
(* A process performs one operation at a time (a run is sequential), but   *)
(* the file system calls an operation makes interleave with those of the   *)
(* other processes:                                                        *)
(*                                                                         *)
(*   get    read the entry file; then look at the clock and judge it       *)
(*   put    take fetched_at; create a private scratch file; write it;      *)
(*          rename it over the entry; then prune                           *)
(*   prune  list the directory; for each file: stat it, then remove it     *)
(*   clear  list the directory; remove every entry, leave scratch files    *)
(*                                                                         *)
(* A process may be killed between any two calls and any call of a put may *)
(* fail.  The client clock advances and may also be set back.              *)
(***************************************************************************)
EXTENDS Integers

CONSTANTS
  Proc,          \* the processes that share the directory
  Key,           \* cache keys: (target, sql, term, params), compared exactly
  Hash,          \* the 64-bit digests that name entry files
  Digest,        \* Digest[k]: the digest of key k; it need not be injective
  Payload,       \* what the database answers
  AnswerTo,      \* AnswerTo[a]: the key that payload a was fetched for
  Mode,          \* Mode[p]: "enabled", "refresh" or "disabled"
  ShortTTL,      \* ShortTTL[p]: the cache_ttl_secs of process p
  CertTTL,       \* lifetime of a found certificate
  ScratchGrace,  \* youngest age at which a scratch file may be pruned
  ClockSteps,    \* the amounts by which the clock may be set back
  MaxPuts,       \* bound: puts per process
  MaxTime,       \* bound: the largest clock reading
  None           \* no file, no entry, no answer

ASSUME CacheConstants ==
  /\ Digest \in [Key -> Hash]
  /\ AnswerTo \in [Payload -> Key]
  /\ Mode \in [Proc -> {"enabled", "refresh", "disabled"}]
  /\ ShortTTL \in [Proc -> Nat]
  /\ CertTTL \in Nat
  /\ ScratchGrace \in Nat
  /\ ClockSteps \subseteq Nat
  /\ MaxPuts \in Nat
  /\ MaxTime \in Nat

View == {"plain", "cert"}

\* Entries are named [cert-]<digest>.json, scratch files
\* [cert-]<digest>.<pid>-<nanos>.tmp: the tag makes one put's file its own.
EntryName == {"json"} \X View \X Hash
ScratchName == {"tmp"} \X Proc \X (1..MaxPuts)
Name == EntryName \cup ScratchName

Entry == [key : Key, at : Nat, payload : Payload]


\* entry = None: the text does not parse, or is of another FORMAT_VERSION.
File == [entry : Entry \cup {None}, mtime : Nat]

\* A request in progress, and what a hit returns.
Request == [view : View, key : Key]

Reply == [view : View, key : Key, payload : Payload, age : Int]

\* A file sentenced by a prune, with what stat saw.
Sentence == [name : Name, file : File]

ASSUME NoneIsNothing ==
  /\ None \notin Entry
  /\ None \notin File
  /\ None \notin Request
  /\ None \notin Reply
  /\ None \notin Sentence

VARIABLES
  now,     \* the client's wall clock
  files,   \* the directory: the file under each name, None where there is none
  pc,      \* where each process is in its operation
  puts,    \* how many puts each process has begun (the nanos of its tag)
  asked,   \* the view and key of the operation in progress
  held,    \* get: the file as read; put: the entry to be written
  began,   \* put: when its scratch file was created; prune: its now
  todo,    \* prune, clear: the listed names not yet dealt with
  condemned, \* prune: the file found stale, about to be removed by its name
  reply    \* the hit the last get returned, None for a miss

vars == <<now, files, pc, puts, asked, held, began, todo, condemned, reply>>

procVars == <<puts, asked, held, began, todo, condemned, reply>>

Reads(p) == Mode[p] = "enabled"
Writes(p) == Mode[p] \in {"enabled", "refresh"}

Path(v, k) == <<"json", v, Digest[k]>>
Scratch(p) == <<"tmp", p, puts[p]>>

\* How long an entry of view v stays usable to process p.
Lifetime(p, v) == IF v = "cert" THEN CertTTL ELSE ShortTTL[p]

\* Mutant of PruneAge: a scratch file is pruned by the short lifetime alone.
PruneAge_NoGrace(p, n) == IF n[1] = "tmp" THEN ShortTTL[p] ELSE Lifetime(p, n[2])

\* Mutant of PruneAge: every entry is pruned by the short lifetime.
PruneAge_Short(p, n) ==
  IF n[1] = "tmp" /\ ScratchGrace > ShortTTL[p] THEN ScratchGrace ELSE ShortTTL[p]

\* The age past which p's prune removes the file called n.
PruneAge(p, n) ==
  IF n[1] = "tmp"
    THEN IF ShortTTL[p] > ScratchGrace THEN ShortTTL[p] ELSE ScratchGrace
    ELSE Lifetime(p, n[2])

Listing(S) == {n \in S : files[n] # None}

-----------------------------------------------------------------------------
(* Looking up                                                              *)

\* read_to_string: the whole file or nothing, since entries appear by rename.
BeginGet(p, v, k) ==
  /\ pc[p] = "idle"
  /\ Reads(p)
  /\ reply' = [reply EXCEPT ![p] = None]
  /\ \/ /\ files[Path(v, k)] = None
        /\ UNCHANGED <<pc, asked, held>>
     \/ /\ files[Path(v, k)] # None
        /\ pc' = [pc EXCEPT ![p] = "judge"]
        /\ asked' = [asked EXCEPT ![p] = [view |-> v, key |-> k]]
        /\ held' = [held EXCEPT ![p] = files[Path(v, k)].entry]
  /\ UNCHANGED <<now, files, puts, began, todo, condemned>>

\* Mutant of Usable: the file name is taken for the key.
Usable_ByName(p) ==
  /\ held[p] # None
  /\ now - held[p].at >= 0
  /\ now - held[p].at <= Lifetime(p, asked[p].view)

\* Mutant of Usable: an entry from the future is not refused.
Usable_FromFuture(p) ==
  /\ held[p] # None
  /\ held[p].key = asked[p].key
  /\ now - held[p].at <= Lifetime(p, asked[p].view)

\* The full key decides, then the age: negative or past the lifetime is a miss.
Usable(p) ==
  /\ held[p] # None
  /\ held[p].key = asked[p].key
  /\ now - held[p].at >= 0
  /\ now - held[p].at <= Lifetime(p, asked[p].view)

Answer(p) == [view |-> asked[p].view, key |-> asked[p].key,
              payload |-> held[p].payload, age |-> now - held[p].at]

EndGet(p) ==
  /\ pc[p] = "judge"
  /\ reply' = [reply EXCEPT ![p] = IF Usable(p) THEN Answer(p) ELSE None]
  /\ pc' = [pc EXCEPT ![p] = "idle"]
  /\ held' = [held EXCEPT ![p] = None]
  /\ asked' = [asked EXCEPT ![p] = None]
  /\ UNCHANGED <<now, files, puts, began, todo, condemned>>

-----------------------------------------------------------------------------
(* Storing                                                                 *)

BeginPut(p, v, a) ==
  /\ pc[p] = "idle"
  /\ Writes(p)
  /\ puts[p] < MaxPuts
  /\ pc' = [pc EXCEPT ![p] = "open"]
  /\ puts' = [puts EXCEPT ![p] = @ + 1]
  /\ asked' = [asked EXCEPT ![p] = [view |-> v, key |-> AnswerTo[a]]]
  /\ held' = [held EXCEPT ![p] =
                [key |-> AnswerTo[a], at |-> now, payload |-> a]]
  /\ reply' = [reply EXCEPT ![p] = None]
  /\ UNCHANGED <<now, files, began, todo, condemned>>

\* Mutant of CreateScratch: the content is never written.
CreateScratch_Empty(p) ==
  /\ pc[p] = "open"
  /\ files[Scratch(p)] = None
  /\ files' = [files EXCEPT ![Scratch(p)] = [entry |-> None, mtime |-> now]]
  /\ began' = [began EXCEPT ![p] = now]
  /\ pc' = [pc EXCEPT ![p] = "rename"]
  /\ UNCHANGED <<now, puts, asked, held, todo, condemned, reply>>

\* create_new: only a name that is free.
CreateScratch(p) ==
  /\ pc[p] = "open"
  /\ files[Scratch(p)] = None
  /\ files' = [files EXCEPT ![Scratch(p)] = [entry |-> None, mtime |-> now]]
  /\ began' = [began EXCEPT ![p] = now]
  /\ pc' = [pc EXCEPT ![p] = "write"]
  /\ UNCHANGED <<now, puts, asked, held, todo, condemned, reply>>

\* Mutant of WriteScratch: the entry file is written in place.
WriteScratch_InPlace(p) ==
  /\ pc[p] = "write"
  /\ files' = [files EXCEPT ![Path(asked[p].view, asked[p].key)] =
                 [entry |-> held[p], mtime |-> now]]
  /\ pc' = [pc EXCEPT ![p] = "rename"]
  /\ UNCHANGED <<now, procVars>>

\* A scratch file pruned meanwhile is unlinked: the write succeeds unseen.
WriteScratch(p) ==
  /\ pc[p] = "write"
  /\ files' = [files EXCEPT ![Scratch(p)] =
                 IF @ = None THEN None ELSE [entry |-> held[p], mtime |-> now]]
  /\ pc' = [pc EXCEPT ![p] = "rename"]
  /\ UNCHANGED <<now, procVars>>

Rename(p) ==
  /\ pc[p] = "rename"
  /\ files[Scratch(p)] # None
  /\ files' = [files EXCEPT ![Path(asked[p].view, asked[p].key)] = files[Scratch(p)],
                            ![Scratch(p)] = None]
  /\ pc' = [pc EXCEPT ![p] = "list"]
  /\ held' = [held EXCEPT ![p] = None]
  /\ asked' = [asked EXCEPT ![p] = None]
  /\ began' = [began EXCEPT ![p] = 0]
  /\ UNCHANGED <<now, puts, todo, condemned, reply>>

\* Any call of the write fails, the rename of a vanished scratch file included:
\* the scratch file goes, and there is no prune.
FailPut(p) ==
  /\ pc[p] \in {"open", "write", "rename"}
  /\ files' = [files EXCEPT ![Scratch(p)] = None]
  /\ pc' = [pc EXCEPT ![p] = "idle"]
  /\ held' = [held EXCEPT ![p] = None]
  /\ asked' = [asked EXCEPT ![p] = None]
  /\ began' = [began EXCEPT ![p] = 0]
  /\ UNCHANGED <<now, puts, todo, condemned, reply>>

-----------------------------------------------------------------------------
(* Pruning and clearing                                                    *)

\* Mutant of ListForPrune: scratch files are passed over.
ListForPrune_Entries(p) ==
  /\ pc[p] = "list"
  /\ todo' = [todo EXCEPT ![p] = Listing(EntryName)]
  /\ began' = [began EXCEPT ![p] = now]
  /\ pc' = [pc EXCEPT ![p] = "stat"]
  /\ UNCHANGED <<now, files, puts, asked, held, condemned, reply>>

\* read_dir, then the clock every file of this prune is judged by.
ListForPrune(p) ==
  /\ pc[p] = "list"
  /\ todo' = [todo EXCEPT ![p] = Listing(Name)]
  /\ began' = [began EXCEPT ![p] = now]
  /\ pc' = [pc EXCEPT ![p] = "stat"]
  /\ UNCHANGED <<now, files, puts, asked, held, condemned, reply>>

Stale(p, n) == files[n] # None /\ began[p] - files[n].mtime > PruneAge(p, n)

\* Mutant of StatFresh: the walk does not move on.
StatFresh_Stays(p, n) ==
  /\ pc[p] = "stat"
  /\ n \in todo[p]
  /\ ~Stale(p, n)
  /\ UNCHANGED vars

StatFresh(p, n) ==
  /\ pc[p] = "stat"
  /\ n \in todo[p]
  /\ ~Stale(p, n)
  /\ todo' = [todo EXCEPT ![p] = @ \ {n}]
  /\ UNCHANGED <<now, files, pc, puts, asked, held, began, condemned, reply>>

StatStale(p, n) ==
  /\ pc[p] = "stat"
  /\ n \in todo[p]
  /\ Stale(p, n)
  /\ todo' = [todo EXCEPT ![p] = @ \ {n}]
  /\ condemned' = [condemned EXCEPT ![p] = [name |-> n, file |-> files[n]]]
  /\ pc' = [pc EXCEPT ![p] = "remove"]
  /\ UNCHANGED <<now, files, puts, asked, held, began, reply>>

\* remove_file goes by name: whatever the name leads to by now.
RemoveStale(p) ==
  /\ pc[p] = "remove"
  /\ files' = [files EXCEPT ![condemned[p].name] = None]
  /\ condemned' = [condemned EXCEPT ![p] = None]
  /\ pc' = [pc EXCEPT ![p] = "stat"]
  /\ UNCHANGED <<now, puts, asked, held, began, todo, reply>>

BeginClear(p) ==
  /\ pc[p] = "idle"
  /\ todo' = [todo EXCEPT ![p] = Listing(EntryName)]
  /\ pc' = [pc EXCEPT ![p] = "clear"]
  /\ reply' = [reply EXCEPT ![p] = None]
  /\ UNCHANGED <<now, files, puts, asked, held, began, condemned>>

ClearOne(p, n) ==
  /\ pc[p] = "clear"
  /\ n \in todo[p]
  /\ files' = [files EXCEPT ![n] = None]
  /\ todo' = [todo EXCEPT ![p] = @ \ {n}]
  /\ UNCHANGED <<now, pc, puts, asked, held, began, condemned, reply>>

EndListing(p) ==
  /\ pc[p] \in {"stat", "clear"}
  /\ todo[p] = {}
  /\ pc' = [pc EXCEPT ![p] = "idle"]
  /\ began' = [began EXCEPT ![p] = 0]
  /\ UNCHANGED <<now, files, puts, asked, held, todo, condemned, reply>>

-----------------------------------------------------------------------------
(* The environment                                                         *)

\* Killed, or finished: either way its files stay as they are.
Crash(p) ==
  /\ pc[p] # "dead"
  /\ pc' = [pc EXCEPT ![p] = "dead"]
  /\ held' = [held EXCEPT ![p] = None]
  /\ asked' = [asked EXCEPT ![p] = None]
  /\ began' = [began EXCEPT ![p] = 0]
  /\ todo' = [todo EXCEPT ![p] = {}]
  /\ condemned' = [condemned EXCEPT ![p] = None]
  /\ reply' = [reply EXCEPT ![p] = None]
  /\ UNCHANGED <<now, files, puts>>

Tick ==
  /\ now < MaxTime
  /\ now' = now + 1
  /\ UNCHANGED <<files, pc, procVars>>

SetClockBack ==
  /\ \E d \in ClockSteps : now >= d /\ now' = now - d
  /\ UNCHANGED <<files, pc, procVars>>

-----------------------------------------------------------------------------
\* The directory may hold entries of another version, or corrupt ones.
Init ==
  /\ now = 0
  /\ files \in [Name -> {None, [entry |-> None, mtime |-> 0]}]
  /\ \A n \in ScratchName : files[n] = None
  /\ pc = [p \in Proc |-> "idle"]
  /\ puts = [p \in Proc |-> 0]
  /\ asked = [p \in Proc |-> None]
  /\ held = [p \in Proc |-> None]
  /\ began = [p \in Proc |-> 0]
  /\ todo = [p \in Proc |-> {}]
  /\ condemned = [p \in Proc |-> None]
  /\ reply = [p \in Proc |-> None]

\* The calls that bring the operation in progress nearer its end.
Progress(p) ==
  \/ EndGet(p)
  \/ CreateScratch(p)
  \/ WriteScratch(p)
  \/ Rename(p)
  \/ FailPut(p)
  \/ ListForPrune(p)
  \/ \E n \in Name : StatFresh(p, n) \/ StatStale(p, n) \/ ClearOne(p, n)
  \/ RemoveStale(p)
  \/ EndListing(p)

Start(p) ==
  \/ \E v \in View, k \in Key : BeginGet(p, v, k)
  \/ \E v \in View, a \in Payload : BeginPut(p, v, a)
  \/ BeginClear(p)

Next ==
  \/ \E p \in Proc : Start(p) \/ Progress(p) \/ Crash(p)
  \/ Tick
  \/ SetClockBack

Spec == Init /\ [][Next]_vars

\* A process that has begun an operation keeps being scheduled.
FairSpec == Spec /\ \A p \in Proc : WF_vars(Progress(p))

-----------------------------------------------------------------------------
(* Properties                                                              *)

PC == {"idle", "judge", "open", "write", "rename", "list", "stat", "remove",
       "clear", "dead"}

\* The shape of the state; in particular every name the code condemns or lists
\* is one that this module writes, so prune and clear touch nothing else.
TypeOK ==
  /\ now \in Nat
  /\ files \in [Name -> File \cup {None}]
  /\ pc \in [Proc -> PC]
  /\ puts \in [Proc -> 0..MaxPuts]
  /\ asked \in [Proc -> Request \cup {None}]
  /\ held \in [Proc -> Entry \cup {None}]
  /\ began \in [Proc -> Nat]
  /\ todo \in [Proc -> SUBSET Name]
  /\ condemned \in [Proc -> Sentence \cup {None}]
  /\ reply \in [Proc -> Reply \cup {None}]

\* A hit is what was fetched for exactly the key asked, whichever key last
\* wrote the file and whatever happened to it meanwhile, and its age runs
\* neither backwards nor past the lifetime even if the clock is set
\* (cache.rs: "a collision is a miss, never a wrong answer").
HitIsSound ==
  \A p \in Proc : reply[p] # None =>
    /\ AnswerTo[reply[p].payload] = reply[p].key
    /\ reply[p].age \in 0..Lifetime(p, reply[p].view)

\* An entry file changes in one of two ways only: it goes, or one process
\* replaces it by the complete entry that this very process is storing there.
\* So a reader sees no partial entry, an interrupted or failed write leaves
\* the previous entry intact, and no run publishes another run's write.
PublishedWhole ==
  [][\A n \in EntryName : files'[n] # files[n] =>
       \/ files'[n] = None
       \/ \E p \in Proc : /\ pc[p] = "rename"
                          /\ n = Path(asked[p].view, asked[p].key)
                          /\ files'[n].entry = held[p]
                          /\ held[p] # None]_vars

\* What makes PublishedWhole so: a finished scratch file holds its own
\* writer's entry, nobody else's and nothing partial.
ScratchIsPrivate ==
  \A p \in Proc : pc[p] = "rename" /\ files[Scratch(p)] # None =>
    files[Scratch(p)].entry = held[p]

\* No prune, by whatever cache_ttl_secs, takes the scratch file of a write
\* that has been under way for no longer than SCRATCH_GRACE.
InFlightScratchKept ==
  \A p \in Proc :
    pc[p] \in {"write", "rename"} /\ files[Scratch(p)] = None =>
      now - began[p] > ScratchGrace

\* Prune judges by mtime, get by fetched_at: what prune condemns is an entry
\* that get would refuse under the same lifetime.
CondemnedIsOutlived ==
  \A p \in Proc : condemned[p] # None =>
    LET n == condemned[p].name
        e == condemned[p].file.entry
    IN  n[1] = "json" /\ e # None => began[p] - e.at > Lifetime(p, n[2])

\* What a prune has dealt with is swept: no abandoned scratch file and no
\* corrupt entry that had outlived its age is left behind it.
PruneSweeps ==
  \A p \in Proc : pc[p] = "stat" =>
    \A n \in Name \ todo[p] :
      (files[n] # None /\ (n[1] = "tmp" \/ files[n].entry = None)) => ~Stale(p, n)

\* No operation is kept waiting by the others: there is no lock to wait for,
\* and a prune or clear deals with a list that only gets shorter.
OperationsEnd == \A p \in Proc : pc[p] # "idle" ~> pc[p] \in {"idle", "dead"}
=============================================================================
