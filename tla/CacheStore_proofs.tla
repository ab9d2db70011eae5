------------------------- MODULE CacheStore_proofs -------------------------
(***************************************************************************)
(* Theorems about CacheStore, for every number of processes, keys, hashes  *)
(* and payloads, every digest function and every setting of the lifetimes; *)
(* last, that it implements CacheMap: every initial state of the directory *)
(* is an initial state of the map, and every step of a process is a step   *)
(* of the map or a stutter.                                                *)
(***************************************************************************)
EXTENDS CacheRefinement, TLAPS

\* Scratch files and entry files never share a name.
LEMMA NamesApart ==
  /\ \A n \in EntryName : n[1] = "json" /\ n[2] \in View
  /\ \A n \in ScratchName : n[1] = "tmp"
  /\ \A n \in EntryName, m \in ScratchName : n # m
BY DEF EntryName, ScratchName

\* Every name a process computes is the name of a file it may use.
LEMMA PathsAreNames ==
  ASSUME CacheConstants
  PROVE  /\ \A v \in View, k \in Key : Path(v, k) \in EntryName
         /\ \A p \in Proc, i \in 1..MaxPuts : <<"tmp", p, i>> \in ScratchName
BY DEF CacheConstants, Path, EntryName, ScratchName

\* What each point of an operation can rely on: the strengthening without
\* which TypeOK is not inductive.
InPhase ==
  \A p \in Proc :
    /\ pc[p] = "judge" => asked[p] # None
    /\ pc[p] \in {"open", "write", "rename"} =>
         /\ asked[p] # None
         /\ held[p] # None
         /\ held[p].key = asked[p].key
         /\ puts[p] \in 1..MaxPuts
    /\ pc[p] = "remove" => condemned[p] # None
    /\ pc[p] = "clear" => todo[p] \subseteq EntryName

Shape == TypeOK /\ InPhase

\* The scratch name of a write under way is a scratch name.
LEMMA ScratchIsName ==
  ASSUME NEW p \in Proc, puts[p] \in 1..MaxPuts
  PROVE  Scratch(p) \in ScratchName /\ Scratch(p) \in Name
BY DEF Scratch, ScratchName, Name

\* Looking up keeps the shape of the state.
LEMMA GetShape ==
  ASSUME CacheConstants, Shape, NEW p \in Proc,
         \/ \E v \in View, k \in Key : BeginGet(p, v, k)
         \/ EndGet(p)
  PROVE  Shape'
<1> USE NoneIsNothing
<1>1. ASSUME NEW v \in View, NEW k \in Key, BeginGet(p, v, k) PROVE Shape'
  <2>1. Path(v, k) \in Name
    BY PathsAreNames DEF Name
  <2>2. files[Path(v, k)] # None => files[Path(v, k)].entry \in Entry \cup {None}
    BY <2>1 DEF Shape, TypeOK, File
  <2>3. [view |-> v, key |-> k] \in Request
    BY DEF Request
  <2>4. TypeOK'
    BY <1>1, <2>1, <2>2, <2>3 DEF BeginGet, Shape, TypeOK, PC
  <2>5. [view |-> v, key |-> k] # None
    BY <2>3
  <2>6. InPhase'
    BY <1>1, <2>3, <2>5 DEF BeginGet, Shape, InPhase, TypeOK
  <2> QED BY <2>4, <2>6 DEF Shape
<1>2. ASSUME EndGet(p) PROVE Shape'
  <2>1. Usable(p) => Answer(p) \in Reply
    BY <1>2 DEF EndGet, Usable, Shape, InPhase, TypeOK, Answer, Reply, Request, Entry
  <2>2. TypeOK'
    BY <1>2, <2>1 DEF EndGet, Shape, TypeOK, PC
  <2>3. InPhase'
    BY <1>2 DEF EndGet, Shape, InPhase, TypeOK
  <2> QED BY <2>2, <2>3 DEF Shape
<1> QED
  BY <1>1, <1>2

\* Storing keeps the shape of the state.
LEMMA PutShape ==
  ASSUME CacheConstants, Shape, NEW p \in Proc,
         \/ \E v \in View, a \in Payload : BeginPut(p, v, a)
         \/ CreateScratch(p) \/ WriteScratch(p) \/ Rename(p) \/ FailPut(p)
  PROVE  Shape'
<1> USE NoneIsNothing
<1>1. ASSUME NEW v \in View, NEW a \in Payload, BeginPut(p, v, a) PROVE Shape'
  <2>1. AnswerTo[a] \in Key
    BY DEF CacheConstants
  <2>2. [view |-> v, key |-> AnswerTo[a]] \in Request
    BY <2>1 DEF Request
  <2>3. [key |-> AnswerTo[a], at |-> now, payload |-> a] \in Entry
    BY <2>1 DEF Entry, Shape, TypeOK
  <2>4. puts[p] + 1 \in 1..MaxPuts
    BY <1>1 DEF BeginPut, Shape, TypeOK, CacheConstants
  <2>5. TypeOK'
    BY <1>1, <2>2, <2>3, <2>4 DEF BeginPut, Shape, TypeOK, PC
  <2>6. InPhase'
    BY <1>1, <2>2, <2>3, <2>4 DEF BeginPut, Shape, InPhase, TypeOK
  <2> QED BY <2>5, <2>6 DEF Shape
<1>2. ASSUME pc[p] \in {"open", "write", "rename"}
      PROVE  Scratch(p) \in Name /\ held[p] \in Entry /\ asked[p] \in Request
  BY <1>2, ScratchIsName DEF Shape, InPhase, TypeOK
<1>3. ASSUME CreateScratch(p) PROVE Shape'
  <2>1. [entry |-> None, mtime |-> now] \in File
    BY DEF File, Shape, TypeOK
  <2>2. TypeOK'
    BY <1>2, <1>3, <2>1 DEF CreateScratch, Shape, TypeOK, PC
  <2>3. InPhase'
    BY <1>3 DEF CreateScratch, Shape, InPhase, TypeOK
  <2> QED BY <2>2, <2>3 DEF Shape
<1>4. ASSUME WriteScratch(p) PROVE Shape'
  <2>1. [entry |-> held[p], mtime |-> now] \in File
    BY <1>2, <1>4 DEF WriteScratch, File, Shape, TypeOK
  <2>2. TypeOK'
    BY <1>2, <1>4, <2>1 DEF WriteScratch, procVars, Shape, TypeOK, PC
  <2>3. InPhase'
    BY <1>4 DEF WriteScratch, procVars, Shape, InPhase, TypeOK
  <2> QED BY <2>2, <2>3 DEF Shape
<1>5. ASSUME Rename(p) PROVE Shape'
  <2>1. Path(asked[p].view, asked[p].key) \in Name
    BY <1>2, <1>5, PathsAreNames DEF Rename, Request, Name
  <2>2. files[Scratch(p)] \in File
    BY <1>2, <1>5 DEF Rename, Shape, TypeOK
  <2>3. TypeOK'
    BY <1>2, <1>5, <2>1, <2>2 DEF Rename, Shape, TypeOK, PC
  <2>4. InPhase'
    BY <1>5 DEF Rename, Shape, InPhase, TypeOK
  <2> QED BY <2>3, <2>4 DEF Shape
<1>6. ASSUME FailPut(p) PROVE Shape'
  <2>1. TypeOK'
    BY <1>2, <1>6 DEF FailPut, Shape, TypeOK, PC
  <2>2. InPhase'
    BY <1>6 DEF FailPut, Shape, InPhase, TypeOK
  <2> QED BY <2>1, <2>2 DEF Shape
<1> QED
  BY <1>1, <1>3, <1>4, <1>5, <1>6

\* Pruning and clearing keep the shape of the state.
LEMMA SweepShape ==
  ASSUME Shape, NEW p \in Proc,
         \/ ListForPrune(p)
         \/ \E n \in Name : StatFresh(p, n) \/ StatStale(p, n) \/ ClearOne(p, n)
         \/ RemoveStale(p) \/ BeginClear(p) \/ EndListing(p)
  PROVE  Shape'
<1> USE NoneIsNothing
<1>1. /\ Listing(Name) \subseteq Name /\ Listing(EntryName) \subseteq Name
      /\ Listing(EntryName) \subseteq EntryName
  BY DEF Listing, Name
<1>2. CASE ListForPrune(p) \/ BeginClear(p)
  BY <1>1, <1>2 DEF ListForPrune, BeginClear, Shape, InPhase, TypeOK, PC
<1>3. ASSUME NEW n \in Name, StatFresh(p, n) PROVE Shape'
  BY <1>3 DEF StatFresh, Shape, InPhase, TypeOK, PC
<1>4. ASSUME NEW n \in Name, StatStale(p, n) PROVE Shape'
  <2>1. [name |-> n, file |-> files[n]] \in Sentence
    BY <1>4 DEF StatStale, Stale, Sentence, Shape, TypeOK
  <2> QED
    BY <1>4, <2>1 DEF StatStale, Shape, InPhase, TypeOK, PC
<1>5. ASSUME NEW n \in Name, ClearOne(p, n) PROVE Shape'
  BY <1>5 DEF ClearOne, Shape, InPhase, TypeOK, PC
<1>6. CASE RemoveStale(p)
  BY <1>6 DEF RemoveStale, Shape, InPhase, TypeOK, PC, Sentence
<1>7. CASE EndListing(p)
  BY <1>7 DEF EndListing, Shape, InPhase, TypeOK, PC
<1> QED
  BY <1>2, <1>3, <1>4, <1>5, <1>6, <1>7

LEMMA ShapeInductive == CacheConstants /\ Shape /\ [Next]_vars => Shape'
<1> SUFFICES ASSUME CacheConstants, Shape, [Next]_vars PROVE Shape'
  OBVIOUS
<1>1. ASSUME NEW p \in Proc, Start(p) \/ Progress(p) PROVE Shape'
  BY <1>1, GetShape, PutShape, SweepShape DEF Start, Progress
<1>2. ASSUME NEW p \in Proc, Crash(p) PROVE Shape'
  BY <1>2 DEF Crash, Shape, InPhase, TypeOK, PC
<1>3. CASE Tick \/ SetClockBack
  <2>1. now' \in Nat
    BY <1>3 DEF Tick, SetClockBack, CacheConstants, Shape, TypeOK
  <2> QED
    BY <1>3, <2>1 DEF Tick, SetClockBack, procVars, Shape, InPhase, TypeOK, Scratch
<1>4. CASE UNCHANGED vars
  BY <1>4 DEF vars, Shape, InPhase, TypeOK
<1> QED
  BY <1>1, <1>2, <1>3, <1>4 DEF Next

LEMMA ShapeInitially == CacheConstants /\ Init => Shape
BY NoneIsNothing DEF Init, Shape, InPhase, TypeOK, PC, File, CacheConstants

LEMMA ShapeAlways == Spec => []Shape
BY CacheConstants, ShapeInitially, ShapeInductive, PTL DEF Spec

\* The state keeps its shape in every behaviour (TypeOK).
THEOREM TypeCorrect == Spec => []TypeOK
<1>1. Shape => TypeOK
  BY DEF Shape
<1> QED
  BY <1>1, ShapeAlways, PTL

-----------------------------------------------------------------------------
(* Hits are right                                                          *)

\* Entries are true: wherever an entry is (in a file, half way to one, or in a
\* reader's hands) its payload was fetched for the key it carries, and a reply
\* is right.  HitIsSound alone is not inductive: the lookup that produces the
\* reply relies on the file it read, and the file on the put that wrote it.
TrueEntries ==
  /\ \A n \in Name : files[n] # None /\ files[n].entry # None =>
       AnswerTo[files[n].entry.payload] = files[n].entry.key
  /\ \A p \in Proc : held[p] # None => AnswerTo[held[p].payload] = held[p].key

HitInv == Shape /\ TrueEntries /\ HitIsSound

LEMMA TrueEntriesStep == CacheConstants /\ Shape /\ TrueEntries /\ [Next]_vars => TrueEntries'
<1> SUFFICES ASSUME CacheConstants, Shape, TrueEntries, [Next]_vars
             PROVE  TrueEntries'
  OBVIOUS
<1> USE NoneIsNothing DEF Shape, TypeOK, TrueEntries
<1>1. ASSUME NEW p \in Proc, NEW v \in View, NEW k \in Key, BeginGet(p, v, k)
      PROVE  TrueEntries'
  <2>1. Path(v, k) \in Name
    BY PathsAreNames DEF Name
  <2> QED
    BY <1>1, <2>1 DEF BeginGet
<1>2. ASSUME NEW p \in Proc, EndGet(p) PROVE TrueEntries'
  BY <1>2 DEF EndGet
<1>3. ASSUME NEW p \in Proc, NEW v \in View, NEW a \in Payload, BeginPut(p, v, a)
      PROVE  TrueEntries'
  BY <1>3 DEF BeginPut
<1>4. ASSUME NEW p \in Proc, pc[p] \in {"open", "write", "rename"}
      PROVE  Scratch(p) \in Name /\ asked[p] \in Request
  BY <1>4, ScratchIsName DEF InPhase
<1>5. ASSUME NEW p \in Proc, CreateScratch(p) PROVE TrueEntries'
  BY <1>5, <1>4 DEF CreateScratch
<1>6. ASSUME NEW p \in Proc, WriteScratch(p) PROVE TrueEntries'
  BY <1>6, <1>4 DEF WriteScratch, procVars
<1>7. ASSUME NEW p \in Proc, Rename(p) PROVE TrueEntries'
  <2>1. Path(asked[p].view, asked[p].key) \in Name
    BY <1>7, <1>4, PathsAreNames DEF Rename, Request, Name
  <2> QED
    BY <1>7, <1>4, <2>1 DEF Rename
<1>8. ASSUME NEW p \in Proc, FailPut(p) PROVE TrueEntries'
  BY <1>8, <1>4 DEF FailPut
<1>9. ASSUME NEW p \in Proc, RemoveStale(p) PROVE TrueEntries'
  BY <1>9 DEF RemoveStale
<1>10. ASSUME NEW p \in Proc, NEW n \in Name, ClearOne(p, n) PROVE TrueEntries'
  BY <1>10 DEF ClearOne
<1>11. ASSUME NEW p \in Proc, ListForPrune(p) \/ BeginClear(p) \/ EndListing(p)
       PROVE  TrueEntries'
  BY <1>11 DEF ListForPrune, BeginClear, EndListing
<1>12. ASSUME NEW p \in Proc, NEW n \in Name, StatFresh(p, n) \/ StatStale(p, n)
       PROVE  TrueEntries'
  BY <1>12 DEF StatFresh, StatStale
<1>13. ASSUME NEW p \in Proc, Crash(p) PROVE TrueEntries'
  BY <1>13 DEF Crash
<1>14. CASE Tick \/ SetClockBack \/ UNCHANGED vars
  BY <1>14 DEF Tick, SetClockBack, procVars, vars
<1> QED
  BY <1>1, <1>2, <1>3, <1>5, <1>6, <1>7, <1>8, <1>9, <1>10, <1>11, <1>12, <1>13,
     <1>14 DEF Next, Start, Progress

LEMMA HitStep == CacheConstants /\ HitInv /\ [Next]_vars => HitIsSound'
<1> SUFFICES ASSUME CacheConstants, HitInv, [Next]_vars PROVE HitIsSound'
  OBVIOUS
<1> USE NoneIsNothing
<1>1. ASSUME NEW p \in Proc, EndGet(p) PROVE HitIsSound'
  <2>1. Usable(p) => /\ AnswerTo[Answer(p).payload] = Answer(p).key
                     /\ Answer(p).age \in 0..Lifetime(p, Answer(p).view)
    <3> SUFFICES ASSUME Usable(p)
                 PROVE  /\ AnswerTo[Answer(p).payload] = Answer(p).key
                        /\ Answer(p).age \in 0..Lifetime(p, Answer(p).view)
      OBVIOUS
    <3>1. held[p] \in Entry /\ asked[p] \in Request /\ now \in Nat
      BY <1>1 DEF Usable, EndGet, HitInv, Shape, InPhase, TypeOK
    <3>2. AnswerTo[held[p].payload] = asked[p].key
      BY DEF Usable, HitInv, TrueEntries
    <3>3. Lifetime(p, asked[p].view) \in Nat
      BY DEF Lifetime, CacheConstants
    <3>4. now - held[p].at \in 0..Lifetime(p, asked[p].view)
      BY <3>1, <3>3 DEF Usable, Entry
    <3> QED
      BY <3>2, <3>4 DEF Answer
  <2> QED
    BY <1>1, <2>1 DEF EndGet, HitInv, Shape, TypeOK, HitIsSound
<1>2. ASSUME NEW p \in Proc,
             \/ reply' = [reply EXCEPT ![p] = None]
             \/ UNCHANGED reply
      PROVE  HitIsSound'
  BY <1>2 DEF HitIsSound, HitInv, Shape, TypeOK
<1>3. ASSUME NEW p \in Proc, Start(p) PROVE HitIsSound'
  BY <1>2, <1>3 DEF Start, BeginGet, BeginPut, BeginClear
<1>4. ASSUME NEW p \in Proc, Progress(p), ~EndGet(p) PROVE HitIsSound'
  <2>1. UNCHANGED reply
    BY <1>4 DEF Progress, CreateScratch, WriteScratch, Rename, FailPut, procVars,
       ListForPrune, StatFresh, StatStale, ClearOne, RemoveStale, EndListing
  <2> QED BY <1>2, <2>1
<1>5. ASSUME NEW p \in Proc, Crash(p) PROVE HitIsSound'
  BY <1>2, <1>5 DEF Crash
<1>6. CASE Tick \/ SetClockBack \/ UNCHANGED vars
  BY <1>6 DEF Tick, SetClockBack, procVars, vars, HitIsSound, HitInv
<1> QED
  BY <1>1, <1>3, <1>4, <1>5, <1>6 DEF Next

\* Whatever collides, crashes, races or is set back: a hit carries what was
\* fetched for the very key asked, at an age between zero and the lifetime.
THEOREM HitsAreSound == Spec => []HitIsSound
<1>1. Init => HitInv
  BY CacheConstants, ShapeInitially
     DEF Init, HitInv, TrueEntries, HitIsSound
<1>2. HitInv /\ [Next]_vars => HitInv'
  BY CacheConstants, ShapeInductive, TrueEntriesStep, HitStep DEF HitInv
<1>3. HitInv => HitIsSound
  BY DEF HitInv
<1> QED
  BY <1>1, <1>2, <1>3, PTL DEF Spec

-----------------------------------------------------------------------------
(* Entries appear whole                                                    *)

PrivateInv == Shape /\ ScratchIsPrivate

\* Scratch names of different processes differ, and none is an entry's name.
LEMMA ScratchNamesDiffer ==
  ASSUME NEW p \in Proc, NEW q \in Proc, p # q
  PROVE  Scratch(p) # Scratch(q)
BY DEF Scratch

LEMMA PrivateStep == CacheConstants /\ PrivateInv /\ [Next]_vars => ScratchIsPrivate'
<1> SUFFICES ASSUME CacheConstants, PrivateInv, [Next]_vars,
                    NEW p \in Proc, pc'[p] = "rename",
                    files'[Scratch(p)'] # None
             PROVE  files'[Scratch(p)'].entry = held'[p]
  BY DEF ScratchIsPrivate
<1> USE NoneIsNothing DEF PrivateInv, Shape, TypeOK
\* Steps of anybody that leave p's operation alone and may only remove files.
<1>1. ASSUME pc[p] = "rename", UNCHANGED <<puts[p], held[p]>>,
             files'[Scratch(p)] \in {files[Scratch(p)], None}
      PROVE  files'[Scratch(p)'].entry = held'[p]
  BY <1>1 DEF ScratchIsPrivate, Scratch
<1>2. pc[p] = "rename" => Scratch(p) \in ScratchName /\ Scratch(p) \in Name
  BY ScratchIsName DEF InPhase
<1>3. ASSUME NEW q \in Proc, Start(q) PROVE files'[Scratch(p)'].entry = held'[p]
  BY <1>1, <1>3 DEF Start, BeginGet, BeginPut, BeginClear
<1>4. ASSUME NEW q \in Proc, pc[q] \in {"open", "write", "rename"}
      PROVE  Scratch(q) \in Name /\ Scratch(q) \in ScratchName /\ asked[q] \in Request
  BY <1>4, ScratchIsName DEF InPhase
<1>5. ASSUME NEW q \in Proc, CreateScratch(q) \/ FailPut(q)
      PROVE  files'[Scratch(p)'].entry = held'[p]
  BY <1>1, <1>2, <1>4, <1>5, ScratchNamesDiffer DEF CreateScratch, FailPut
<1>6. ASSUME NEW q \in Proc, WriteScratch(q) PROVE files'[Scratch(p)'].entry = held'[p]
  <2>1. CASE p = q
    BY <1>6, <1>4, <2>1 DEF WriteScratch, procVars, Scratch
  <2>2. CASE p # q
    BY <1>1, <1>2, <1>4, <1>6, <2>2, ScratchNamesDiffer DEF WriteScratch, procVars
  <2> QED BY <2>1, <2>2
<1>7. ASSUME NEW q \in Proc, Rename(q) PROVE files'[Scratch(p)'].entry = held'[p]
  <2>1. p # q
    BY <1>7 DEF Rename
  <2>2. Path(asked[q].view, asked[q].key) \in EntryName
    BY <1>4, <1>7, PathsAreNames DEF Rename, Request
  <2>3. Path(asked[q].view, asked[q].key) # Scratch(p)
    BY <1>2, <1>7, <2>1, <2>2, NamesApart DEF Rename
  <2> QED
    BY <1>1, <1>2, <1>4, <1>7, <2>1, <2>3 DEF Rename
<1>8. ASSUME NEW q \in Proc, NEW n \in Name,
             ClearOne(q, n) \/ StatFresh(q, n) \/ StatStale(q, n)
      PROVE  files'[Scratch(p)'].entry = held'[p]
  BY <1>1, <1>2, <1>8 DEF ClearOne, StatFresh, StatStale
<1>9. ASSUME NEW q \in Proc, RemoveStale(q) \/ ListForPrune(q) \/ EndListing(q)
      PROVE  files'[Scratch(p)'].entry = held'[p]
  BY <1>1, <1>2, <1>9 DEF RemoveStale, ListForPrune, EndListing
<1>10. ASSUME NEW q \in Proc, EndGet(q) \/ Crash(q)
       PROVE  files'[Scratch(p)'].entry = held'[p]
  BY <1>1, <1>10 DEF EndGet, Crash
<1>11. CASE Tick \/ SetClockBack \/ UNCHANGED vars
  BY <1>1, <1>11 DEF Tick, SetClockBack, procVars, vars
<1> QED
  BY <1>3, <1>5, <1>6, <1>7, <1>8, <1>9, <1>10, <1>11 DEF Next, Progress

\* A finished scratch file holds its own writer's entry, whole.
THEOREM ScratchStaysPrivate == Spec => []ScratchIsPrivate
<1>1. Init => PrivateInv
  BY CacheConstants, ShapeInitially DEF Init, PrivateInv, ScratchIsPrivate
<1>2. PrivateInv /\ [Next]_vars => PrivateInv'
  BY CacheConstants, ShapeInductive, PrivateStep DEF PrivateInv
<1>3. PrivateInv => ScratchIsPrivate
  BY DEF PrivateInv
<1> QED
  BY <1>1, <1>2, <1>3, PTL DEF Spec

\* The step formula of PublishedWhole.
WholeStep ==
  \A n \in EntryName : files'[n] # files[n] =>
    \/ files'[n] = None
    \/ \E p \in Proc : /\ pc[p] = "rename"
                       /\ n = Path(asked[p].view, asked[p].key)
                       /\ files'[n].entry = held[p]
                       /\ held[p] # None

LEMMA StepPublishesWhole ==
  ASSUME CacheConstants, PrivateInv, Next PROVE WholeStep
<1> SUFFICES ASSUME NEW n \in EntryName, files'[n] # files[n], files'[n] # None
             PROVE  \E p \in Proc : /\ pc[p] = "rename"
                                    /\ n = Path(asked[p].view, asked[p].key)
                                    /\ files'[n].entry = held[p]
                                    /\ held[p] # None
  BY DEF WholeStep
<1> USE NoneIsNothing DEF PrivateInv, Shape, TypeOK
<1>1. n \in Name
  BY DEF Name
<1>2. ASSUME NEW p \in Proc, pc[p] \in {"open", "write", "rename"}
      PROVE  Scratch(p) \in Name /\ Scratch(p) # n
  BY <1>2, ScratchIsName, NamesApart DEF InPhase
<1>3. PICK p \in Proc : Start(p) \/ Progress(p) \/ Crash(p)
  BY DEF Next, Tick, SetClockBack
<1>4. ~Start(p) /\ ~Crash(p)
  BY DEF Start, BeginGet, BeginPut, BeginClear, Crash
<1>5. ~CreateScratch(p) /\ ~WriteScratch(p) /\ ~FailPut(p)
  BY <1>1, <1>2 DEF CreateScratch, WriteScratch, FailPut
<1>6. ~RemoveStale(p) /\ ~\E m \in Name : ClearOne(p, m)
  BY <1>1 DEF RemoveStale, ClearOne
<1>7. Rename(p)
  BY <1>3, <1>4, <1>5, <1>6 DEF Progress, EndGet, ListForPrune, StatFresh,
     StatStale, EndListing
<1>8. n = Path(asked[p].view, asked[p].key) /\ files'[n] = files[Scratch(p)]
  BY <1>1, <1>2, <1>7 DEF Rename
<1> QED
  BY <1>7, <1>8 DEF Rename, ScratchIsPrivate, InPhase

\* Entry files go, or are replaced by one process's own complete entry.
THEOREM EntriesAppearWhole == Spec => PublishedWhole
<1>1. Init => PrivateInv
  BY CacheConstants, ShapeInitially DEF Init, PrivateInv, ScratchIsPrivate
<1>2. PrivateInv /\ [Next]_vars => PrivateInv'
  BY CacheConstants, ShapeInductive, PrivateStep DEF PrivateInv
<1>3. PrivateInv /\ [Next]_vars => [WholeStep]_vars
  BY CacheConstants, StepPublishesWhole
<1>4. Spec => [][WholeStep]_vars
  BY <1>1, <1>2, <1>3, PTL DEF Spec
<1> QED
  BY <1>4 DEF PublishedWhole, WholeStep

-----------------------------------------------------------------------------
(* Pruning, while the clock is not set back                                *)

\* Stamps are in order: nothing is stamped later than the clock, an entry is
\* not younger than its file, and a sentence stands for a file that had
\* outlived its age when it was seen.
StampsInOrder ==
  /\ \A p \in Proc : began[p] <= now
  /\ \A p \in Proc : held[p] # None => held[p].at <= now
  /\ \A n \in Name : files[n] # None =>
       /\ files[n].mtime <= now
       /\ files[n].entry # None => files[n].entry.at <= files[n].mtime
  /\ \A p \in Proc : condemned[p] # None =>
       LET c == condemned[p]
       IN  /\ pc[p] = "remove"
           /\ began[p] - c.file.mtime > PruneAge(p, c.name)
           /\ c.file.entry # None => c.file.entry.at <= c.file.mtime

StampInv == Shape /\ StampsInOrder

LEMMA PruneAgeBounds ==
  ASSUME CacheConstants, NEW p \in Proc, NEW n \in Name
  PROVE  /\ PruneAge(p, n) \in Nat
         /\ n[1] = "tmp" => PruneAge(p, n) >= ScratchGrace
         /\ n[1] = "json" => PruneAge(p, n) = Lifetime(p, n[2])
BY DEF CacheConstants, PruneAge, Lifetime, Name, EntryName, ScratchName

LEMMA StampsStep ==
  ClockSteps = {} /\ CacheConstants /\ StampInv /\ [Next]_vars => StampsInOrder'
<1> SUFFICES ASSUME ClockSteps = {}, CacheConstants, StampInv, [Next]_vars
             PROVE  StampsInOrder'
  OBVIOUS
<1> USE NoneIsNothing DEF StampInv, Shape, TypeOK, StampsInOrder
<1>1. ASSUME NEW p \in Proc, NEW v \in View, NEW k \in Key, BeginGet(p, v, k)
      PROVE  StampsInOrder'
  <2>1. Path(v, k) \in Name
    BY PathsAreNames DEF Name
  <2>2. held'[p] # None => held'[p].at <= now
    BY <1>1, <2>1 DEF BeginGet, File, Entry
  <2> QED
    BY <1>1, <2>2 DEF BeginGet
<1>2. ASSUME NEW p \in Proc, NEW v \in View, NEW a \in Payload, BeginPut(p, v, a)
      PROVE  StampsInOrder'
  BY <1>2 DEF BeginPut
<1>3. ASSUME NEW p \in Proc, pc[p] \in {"open", "write", "rename"}
      PROVE  Scratch(p) \in Name /\ asked[p] \in Request /\ held[p] \in Entry
  BY <1>3, ScratchIsName DEF InPhase
<1>4. ASSUME NEW p \in Proc, CreateScratch(p) PROVE StampsInOrder'
  BY <1>3, <1>4 DEF CreateScratch
<1>5. ASSUME NEW p \in Proc, WriteScratch(p) PROVE StampsInOrder'
  BY <1>3, <1>5 DEF WriteScratch, procVars
<1>6. ASSUME NEW p \in Proc, Rename(p) PROVE StampsInOrder'
  <2>1. Path(asked[p].view, asked[p].key) \in Name
    BY <1>3, <1>6, PathsAreNames DEF Rename, Request, Name
  <2> QED
    BY <1>3, <1>6, <2>1 DEF Rename
<1>7. ASSUME NEW p \in Proc, FailPut(p) PROVE StampsInOrder'
  BY <1>3, <1>7 DEF FailPut
<1>8. ASSUME NEW p \in Proc, NEW n \in Name, StatStale(p, n) PROVE StampsInOrder'
  BY <1>8 DEF StatStale, Stale, File
<1>9. ASSUME NEW p \in Proc, NEW n \in Name, StatFresh(p, n) \/ ClearOne(p, n)
      PROVE  StampsInOrder'
  BY <1>9 DEF StatFresh, ClearOne
<1>10. ASSUME NEW p \in Proc,
              EndGet(p) \/ ListForPrune(p) \/ BeginClear(p) \/ EndListing(p)
       PROVE  StampsInOrder'
  BY <1>10 DEF EndGet, ListForPrune, BeginClear, EndListing
<1>11. ASSUME NEW p \in Proc, RemoveStale(p) PROVE StampsInOrder'
  BY <1>11 DEF RemoveStale
<1>12. ASSUME NEW p \in Proc, Crash(p) PROVE StampsInOrder'
  <2>1. /\ UNCHANGED <<now, files>>
        /\ began' = [began EXCEPT ![p] = 0]
        /\ held' = [held EXCEPT ![p] = None]
        /\ condemned' = [condemned EXCEPT ![p] = None]
        /\ pc' = [pc EXCEPT ![p] = "dead"]
    BY <1>12 DEF Crash
  <2> QED
    BY <2>1
<1>13. CASE Tick
  <2>1. now' = now + 1 /\ UNCHANGED <<files, pc, procVars>>
    BY <1>13 DEF Tick
  <2>2. \A i \in Nat : i <= now => i <= now'
    BY <2>1
  <2>3. \A n \in Name : files[n] # None => files[n].mtime \in Nat
    BY DEF File
  <2>4. \A p \in Proc : held[p] # None => held[p].at \in Nat
    BY DEF Entry
  <2> QED
    BY <2>1, <2>2, <2>3, <2>4 DEF procVars, PruneAge
<1>14. CASE SetClockBack \/ UNCHANGED vars
  BY <1>14 DEF SetClockBack, vars
<1> QED
  BY <1>1, <1>2, <1>4, <1>5, <1>6, <1>7, <1>8, <1>9, <1>10, <1>11, <1>12, <1>13,
     <1>14 DEF Next, Start, Progress

LEMMA StampsInitially == CacheConstants /\ Init => StampInv
BY ShapeInitially, NoneIsNothing DEF Init, StampInv, StampsInOrder

\* With a clock that is never set back, prune condemns no entry that get would
\* still serve under the same lifetime.
THEOREM CondemnedAreOutlived ==
  ASSUME ClockSteps = {}
  PROVE  Spec => []CondemnedIsOutlived
<1>1. StampInv => CondemnedIsOutlived
  <2> SUFFICES ASSUME StampInv, NEW p \in Proc, condemned[p] # None,
                      condemned[p].name[1] = "json", condemned[p].file.entry # None
               PROVE  began[p] - condemned[p].file.entry.at
                        > Lifetime(p, condemned[p].name[2])
    BY DEF CondemnedIsOutlived
  <2>1. condemned[p] \in Sentence
    BY DEF StampInv, Shape, TypeOK
  <2>2. /\ condemned[p].file.mtime \in Nat /\ condemned[p].file.entry.at \in Nat
        /\ condemned[p].name \in Name /\ began[p] \in Nat
    BY <2>1, NoneIsNothing DEF Sentence, File, Entry, StampInv, Shape, TypeOK
  <2>3. PruneAge(p, condemned[p].name) = Lifetime(p, condemned[p].name[2])
        /\ PruneAge(p, condemned[p].name) \in Nat
    BY <2>2, CacheConstants, PruneAgeBounds
  <2> QED
    BY <2>2, <2>3 DEF StampInv, StampsInOrder
<1>2. StampInv /\ [Next]_vars => StampInv'
  BY ClockSteps = {}, CacheConstants, ShapeInductive, StampsStep DEF StampInv
<1>3. Init => StampInv
  BY CacheConstants, StampsInitially
<1> QED
  BY <1>1, <1>2, <1>3, PTL DEF Spec

\* What a prune has passed over is swept.  The invariant beside it: a finished
\* scratch file holds an entry (ScratchIsPrivate), so a rename leaves no
\* corrupt entry behind the prune.
Swept ==
  \A p \in Proc : pc[p] \in {"stat", "remove"} =>
    \A n \in Name \ todo[p] :
      /\ files[n] # None
      /\ n[1] = "tmp" \/ files[n].entry = None
      /\ pc[p] = "remove" => n # condemned[p].name
      => ~Stale(p, n)

SweepInv == StampInv /\ ScratchIsPrivate /\ Swept

LEMMA SweepStep ==
  ClockSteps = {} /\ CacheConstants /\ SweepInv /\ [Next]_vars => Swept'
<1> SUFFICES ASSUME ClockSteps = {}, CacheConstants, SweepInv, [Next]_vars
             PROVE  Swept'
  OBVIOUS
<1>15. ASSUME NEW q \in Proc, NEW m \in Name, files'[m] # None
      PROVE  began'[q] \in Nat /\ files'[m].mtime \in Nat /\ PruneAge(q, m) \in Nat
  <2>1. Shape'
    BY ShapeInductive DEF SweepInv, StampInv
  <2> QED
    BY <1>15, <2>1, PruneAgeBounds, NoneIsNothing DEF Shape, TypeOK, File
<1> SUFFICES ASSUME NEW p \in Proc, pc'[p] \in {"stat", "remove"},
                    NEW n \in Name, n \notin todo'[p], files'[n] # None,
                    n[1] = "tmp" \/ files'[n].entry = None,
                    pc'[p] = "remove" => n # condemned'[p].name
             PROVE  began'[p] - files'[n].mtime <= PruneAge(p, n)
  BY <1>15 DEF Swept, Stale
<1> USE NoneIsNothing DEF SweepInv, StampInv, Shape, TypeOK
<1>0. PruneAge(p, n) \in Nat /\ began[p] \in Nat /\ began[p] <= now /\ now \in Nat
  BY PruneAgeBounds DEF StampsInOrder
\* Steps that leave the prune's clock and the file alone, or stamp it now.
<1>1. ASSUME pc[p] \in {"stat", "remove"}, pc[p] = "remove" => n # condemned[p].name,
             began'[p] = began[p], n \notin todo[p],
             files'[n] = files[n]
      PROVE  began'[p] - files'[n].mtime <= PruneAge(p, n)
  <2>1. ~(began[p] - files[n].mtime > PruneAge(p, n))
    BY <1>1 DEF Swept, Stale
  <2>2. files[n].mtime \in Nat
    BY <1>1 DEF File
  <2> QED
    BY <1>0, <1>1, <2>1, <2>2
<1>2. ASSUME began'[p] = began[p], files'[n].mtime = now
      PROVE  began'[p] - files'[n].mtime <= PruneAge(p, n)
  BY <1>0, <1>2
<1>3. ASSUME NEW q \in Proc, Start(q)
      PROVE  began'[p] - files'[n].mtime <= PruneAge(p, n)
  BY <1>1, <1>3 DEF Start, BeginGet, BeginPut, BeginClear
<1>4. ASSUME NEW q \in Proc, pc[q] \in {"open", "write", "rename"}
      PROVE  Scratch(q) \in Name /\ asked[q] \in Request /\ held[q] # None
  BY <1>4, ScratchIsName DEF InPhase
<1>5. ASSUME NEW q \in Proc, CreateScratch(q)
      PROVE  began'[p] - files'[n].mtime <= PruneAge(p, n)
  <2>1. /\ pc[p] \in {"stat", "remove"} /\ began'[p] = began[p] /\ n \notin todo[p]
        /\ pc[p] = "remove" => n # condemned[p].name
    BY <1>5 DEF CreateScratch
  <2>2. CASE n = Scratch(q)
    BY <1>2, <1>4, <1>5, <2>1, <2>2 DEF CreateScratch
  <2>3. CASE n # Scratch(q)
    BY <1>1, <1>4, <1>5, <2>1, <2>3 DEF CreateScratch
  <2> QED BY <2>2, <2>3
<1>6. ASSUME NEW q \in Proc, WriteScratch(q)
      PROVE  began'[p] - files'[n].mtime <= PruneAge(p, n)
  <2>1. /\ pc[p] \in {"stat", "remove"} /\ began'[p] = began[p] /\ n \notin todo[p]
        /\ pc[p] = "remove" => n # condemned[p].name
    BY <1>6 DEF WriteScratch, procVars
  <2>2. CASE n = Scratch(q)
    BY <1>2, <1>4, <1>6, <2>1, <2>2 DEF WriteScratch
  <2>3. CASE n # Scratch(q)
    BY <1>1, <1>4, <1>6, <2>1, <2>3 DEF WriteScratch
  <2> QED BY <2>2, <2>3
<1>7. ASSUME NEW q \in Proc, Rename(q)
      PROVE  began'[p] - files'[n].mtime <= PruneAge(p, n)
  <2>1. /\ pc[p] \in {"stat", "remove"} /\ began'[p] = began[p] /\ n \notin todo[p]
        /\ pc[p] = "remove" => n # condemned[p].name
    BY <1>7 DEF Rename
  <2>2. Path(asked[q].view, asked[q].key) \in EntryName
    BY <1>4, <1>7, PathsAreNames DEF Rename, Request
  <2>3. n # Scratch(q)
    BY <1>4, <1>7 DEF Rename
  <2>4. CASE n = Path(asked[q].view, asked[q].key)
    <3>1. files'[n].entry = held[q]
      BY <1>4, <1>7, <2>3, <2>4 DEF Rename, ScratchIsPrivate
    <3>2. n[1] = "json"
      BY <2>2, <2>4, NamesApart
    <3> QED
      BY <1>4, <1>7, <3>1, <3>2 DEF Rename
  <2>5. CASE n # Path(asked[q].view, asked[q].key)
    BY <1>1, <1>4, <1>7, <2>1, <2>3, <2>5 DEF Rename
  <2> QED BY <2>4, <2>5
<1>8. ASSUME NEW q \in Proc, FailPut(q)
      PROVE  began'[p] - files'[n].mtime <= PruneAge(p, n)
  BY <1>1, <1>4, <1>8 DEF FailPut
<1>9. ASSUME NEW q \in Proc, NEW m \in Name, StatFresh(q, m)
      PROVE  began'[p] - files'[n].mtime <= PruneAge(p, n)
  <2>1. CASE p = q /\ m = n
    <3>1. ~(began[p] - files[n].mtime > PruneAge(p, n))
      BY <1>9, <2>1 DEF StatFresh, Stale
    <3>2. files[n].mtime \in Nat
      BY <1>9 DEF StatFresh, File
    <3> QED
      BY <1>0, <1>9, <3>1, <3>2 DEF StatFresh
  <2>2. CASE ~(p = q /\ m = n)
    BY <1>1, <1>9, <2>2 DEF StatFresh
  <2> QED BY <2>1, <2>2
<1>10. ASSUME NEW q \in Proc, NEW m \in Name, StatStale(q, m) \/ ClearOne(q, m)
       PROVE  began'[p] - files'[n].mtime <= PruneAge(p, n)
  BY <1>1, <1>10 DEF StatStale, ClearOne
<1>11. ASSUME NEW q \in Proc, RemoveStale(q)
       PROVE  began'[p] - files'[n].mtime <= PruneAge(p, n)
  <2>1. CASE p = q
    BY <1>1, <1>11, <2>1 DEF RemoveStale
  <2>2. CASE p # q
    BY <1>1, <1>11, <2>2 DEF RemoveStale
  <2> QED BY <2>1, <2>2
<1>12. ASSUME NEW q \in Proc, ListForPrune(q)
       PROVE  began'[p] - files'[n].mtime <= PruneAge(p, n)
  <2>1. CASE p = q
    BY <1>12, <2>1 DEF ListForPrune, Listing
  <2>2. CASE p # q
    BY <1>1, <1>12, <2>2 DEF ListForPrune
  <2> QED BY <2>1, <2>2
<1>13. ASSUME NEW q \in Proc, EndGet(q) \/ EndListing(q) \/ Crash(q)
       PROVE  began'[p] - files'[n].mtime <= PruneAge(p, n)
  BY <1>1, <1>13 DEF EndGet, EndListing, Crash
<1>14. CASE Tick \/ SetClockBack \/ UNCHANGED vars
  BY <1>1, <1>14 DEF Tick, SetClockBack, procVars, vars
<1> QED
  BY <1>3, <1>5, <1>6, <1>7, <1>8, <1>9, <1>10, <1>11, <1>12, <1>13, <1>14
     DEF Next, Progress

\* With a clock that is never set back, no abandoned scratch file and no
\* corrupt entry outlives the next prune that comes past it.
THEOREM PrunesSweep ==
  ASSUME ClockSteps = {}
  PROVE  Spec => []PruneSweeps
<1>1. Init => SweepInv
  BY CacheConstants, StampsInitially
     DEF Init, SweepInv, ScratchIsPrivate, Swept
<1>2. SweepInv /\ [Next]_vars => SweepInv'
  BY ClockSteps = {}, CacheConstants, ShapeInductive, StampsStep, PrivateStep, SweepStep
     DEF SweepInv, StampInv, PrivateInv
<1>3. SweepInv => PruneSweeps
  BY DEF SweepInv, Swept, PruneSweeps
<1> QED
  BY <1>1, <1>2, <1>3, PTL DEF Spec

\* A tag is new when its put begins: no file has carried it, no prune has
\* sentenced it.
Unseen(p, i) ==
  /\ files[<<"tmp", p, i>>] = None
  /\ \A q \in Proc : condemned[q] # None => condemned[q].name # <<"tmp", p, i>>

TagsAreFresh ==
  \A p \in Proc, i \in 1..MaxPuts :
    (i > puts[p] \/ (i = puts[p] /\ pc[p] = "open")) => Unseen(p, i)

\* While a write is within the grace, its file is there and nobody has
\* sentenced it.
InFlight ==
  \A p \in Proc : pc[p] \in {"write", "rename"} =>
    /\ files[Scratch(p)] # None => files[Scratch(p)].mtime >= began[p]
    /\ files[Scratch(p)] = None => now - began[p] > ScratchGrace
    /\ \A q \in Proc : condemned[q] # None /\ condemned[q].name = Scratch(p) =>
         now - began[p] > ScratchGrace

FlightInv == StampInv /\ TagsAreFresh /\ InFlight

LEMMA TagsStep == CacheConstants /\ Shape /\ TagsAreFresh /\ [Next]_vars => TagsAreFresh'
<1> SUFFICES ASSUME CacheConstants, Shape, TagsAreFresh, [Next]_vars,
                    NEW p \in Proc, NEW i \in 1..MaxPuts,
                    i > puts'[p] \/ (i = puts'[p] /\ pc'[p] = "open")
             PROVE  Unseen(p, i)'
  BY DEF TagsAreFresh
<1> DEFINE tag == <<"tmp", p, i>>
<1> USE NoneIsNothing DEF Shape, TypeOK
<1>1. tag \in ScratchName /\ tag \in Name
  BY PathsAreNames DEF Name
\* Steps that bring no file and no sentence under the tag.
<1>2. ASSUME Unseen(p, i), files'[tag] \in {files[tag], None},
             \A q \in Proc : condemned'[q] \in {condemned[q], None}
      PROVE  Unseen(p, i)'
  BY <1>2 DEF Unseen
<1>3. ASSUME NEW q \in Proc, NEW v \in View, NEW a \in Payload, BeginPut(q, v, a)
      PROVE  Unseen(p, i)'
  <2>1. puts[p] \in Nat /\ puts'[p] \in {puts[p], puts[p] + 1} /\ i \in Nat
    BY <1>3 DEF BeginPut
  <2>2. i > puts[p] \/ (i = puts[p] /\ pc[p] = "open")
    BY <1>3, <2>1 DEF BeginPut
  <2> QED
    BY <1>2, <1>3, <2>2 DEF BeginPut, TagsAreFresh
<1>4. ASSUME puts' = puts, pc'[p] = "open" => pc[p] = "open" PROVE Unseen(p, i)
  BY <1>4 DEF TagsAreFresh
<1>5. ASSUME NEW q \in Proc, BeginClear(q) \/ \E v \in View, k \in Key : BeginGet(q, v, k)
      PROVE  Unseen(p, i)'
  BY <1>2, <1>4, <1>5 DEF BeginClear, BeginGet
<1>6. ASSUME NEW q \in Proc, pc[q] \in {"open", "write", "rename"}
      PROVE  Scratch(q) \in Name /\ Scratch(q) \in ScratchName /\ asked[q] \in Request
  BY <1>6, ScratchIsName DEF InPhase
<1>7. ASSUME NEW q \in Proc, CreateScratch(q) PROVE Unseen(p, i)'
  <2>1. tag # Scratch(q)
    BY <1>7 DEF CreateScratch, Scratch
  <2> QED
    BY <1>2, <1>4, <1>6, <1>7, <2>1 DEF CreateScratch
<1>8. ASSUME NEW q \in Proc, WriteScratch(q) PROVE Unseen(p, i)'
  <2>1. Unseen(p, i)
    BY <1>4, <1>8 DEF WriteScratch, procVars
  <2>2. files'[tag] \in {files[tag], None}
    BY <1>1, <1>6, <1>8, <2>1 DEF WriteScratch, Unseen
  <2> QED
    BY <1>2, <1>8, <2>1, <2>2 DEF WriteScratch, procVars
<1>9. ASSUME NEW q \in Proc, Rename(q) PROVE Unseen(p, i)'
  <2>1. Path(asked[q].view, asked[q].key) \in EntryName
    BY <1>6, <1>9, PathsAreNames DEF Rename, Request
  <2>2. tag # Path(asked[q].view, asked[q].key)
    BY <1>1, <2>1, NamesApart
  <2> QED
    BY <1>1, <1>2, <1>4, <1>6, <1>9, <2>2 DEF Rename
<1>10. ASSUME NEW q \in Proc, FailPut(q) PROVE Unseen(p, i)'
  BY <1>1, <1>2, <1>4, <1>6, <1>10 DEF FailPut
<1>11. ASSUME NEW q \in Proc, NEW n \in Name, StatStale(q, n) PROVE Unseen(p, i)'
  BY <1>4, <1>11 DEF StatStale, Stale, Unseen
<1>12. ASSUME NEW q \in Proc, NEW n \in Name, StatFresh(q, n) \/ ClearOne(q, n)
       PROVE  Unseen(p, i)'
  BY <1>1, <1>2, <1>4, <1>12 DEF StatFresh, ClearOne
<1>13. ASSUME NEW q \in Proc, RemoveStale(q) \/ Crash(q) PROVE Unseen(p, i)'
  BY <1>1, <1>2, <1>4, <1>13 DEF RemoveStale, Crash
<1>14. ASSUME NEW q \in Proc, EndGet(q) \/ ListForPrune(q) \/ EndListing(q)
       PROVE  Unseen(p, i)'
  BY <1>2, <1>4, <1>14 DEF EndGet, ListForPrune, EndListing
<1>15. CASE Tick \/ SetClockBack \/ UNCHANGED vars
  BY <1>2, <1>4, <1>15 DEF Tick, SetClockBack, procVars, vars
<1> QED
  BY <1>3, <1>5, <1>7, <1>8, <1>9, <1>10, <1>11, <1>12, <1>13, <1>14, <1>15
     DEF Next, Start, Progress

LEMMA FlightStep ==
  ClockSteps = {} /\ CacheConstants /\ FlightInv /\ [Next]_vars => InFlight'
<1> SUFFICES ASSUME ClockSteps = {}, CacheConstants, FlightInv, [Next]_vars,
                    NEW p \in Proc, pc'[p] \in {"write", "rename"}
             PROVE  /\ files'[Scratch(p)'] # None =>
                         files'[Scratch(p)'].mtime >= began'[p]
                    /\ files'[Scratch(p)'] = None => now' - began'[p] > ScratchGrace
                    /\ \A q \in Proc :
                         condemned'[q] # None /\ condemned'[q].name = Scratch(p)' =>
                           now' - began'[p] > ScratchGrace
  BY DEF InFlight
<1> DEFINE Goal == /\ files'[Scratch(p)'] # None =>
                         files'[Scratch(p)'].mtime >= began'[p]
                   /\ files'[Scratch(p)'] = None => now' - began'[p] > ScratchGrace
                   /\ \A q \in Proc :
                        condemned'[q] # None /\ condemned'[q].name = Scratch(p)' =>
                          now' - began'[p] > ScratchGrace
<1> USE NoneIsNothing DEF FlightInv, StampInv, Shape, TypeOK
<1>1. now \in Nat /\ began[p] \in Nat /\ began[p] <= now /\ ScratchGrace \in Nat
  BY DEF StampsInOrder, CacheConstants
<1>2. pc[p] \in {"open", "write", "rename"} =>
        Scratch(p) \in Name /\ Scratch(p) \in ScratchName
  BY ScratchIsName DEF InPhase
\* Steps that leave p's write, its file and the sentences alone.
<1>3. ASSUME pc[p] \in {"write", "rename"}, UNCHANGED <<puts[p], began[p], now>>,
             files'[Scratch(p)] = files[Scratch(p)],
             \A q \in Proc : condemned'[q] \in {condemned[q], None}
      PROVE  Goal
  <2>1. Scratch(p)' = Scratch(p)
    BY <1>3 DEF Scratch
  <2> QED
    BY <1>3, <2>1 DEF InFlight
<1>4. ASSUME NEW q \in Proc, Start(q) PROVE Goal
  BY <1>3, <1>4 DEF Start, BeginGet, BeginPut, BeginClear
<1>5. ASSUME NEW q \in Proc, pc[q] \in {"open", "write", "rename"}
      PROVE  Scratch(q) \in Name /\ Scratch(q) \in ScratchName /\ asked[q] \in Request
  BY <1>5, ScratchIsName DEF InPhase
<1>6. ASSUME NEW q \in Proc, CreateScratch(q) PROVE Goal
  <2>1. CASE p = q
    <3>1. Scratch(p)' = Scratch(p) /\ Scratch(p) = <<"tmp", p, puts[p]>>
      BY <1>6 DEF CreateScratch, Scratch
    <3>2. puts[p] \in 1..MaxPuts
      BY <1>6, <2>1 DEF CreateScratch, InPhase
    <3>3. Unseen(p, puts[p])
      BY <1>6, <2>1, <3>2 DEF CreateScratch, TagsAreFresh
    <3>4. files'[Scratch(p)] = [entry |-> None, mtime |-> now] /\ began'[p] = now
      BY <1>5, <1>6, <2>1 DEF CreateScratch
    <3>5. [entry |-> None, mtime |-> now] \in File
      BY DEF File
    <3> QED
      BY <1>1, <1>6, <3>1, <3>3, <3>4, <3>5 DEF CreateScratch, Unseen
  <2>2. CASE p # q
    <3>1. Scratch(p) # Scratch(q)
      BY <2>2, ScratchNamesDiffer
    <3> QED
      BY <1>2, <1>3, <1>5, <1>6, <2>2, <3>1 DEF CreateScratch
  <2> QED BY <2>1, <2>2
<1>7. ASSUME NEW q \in Proc, WriteScratch(q) PROVE Goal
  <2>1. CASE p = q
    <3>1. Scratch(p)' = Scratch(p) /\ UNCHANGED <<now, began, condemned>>
      BY <1>7 DEF WriteScratch, procVars, Scratch
    <3>2. \/ files[Scratch(p)] = None /\ files'[Scratch(p)] = None
          \/ /\ files[Scratch(p)] # None
             /\ files'[Scratch(p)] = [entry |-> held[p], mtime |-> now]
      BY <1>5, <1>7, <2>1 DEF WriteScratch
    <3>3. pc[p] = "write"
      BY <1>7, <2>1 DEF WriteScratch
    <3>4. [entry |-> held[p], mtime |-> now] \in File
      BY DEF File
    <3> QED
      BY <1>1, <3>1, <3>2, <3>3, <3>4 DEF InFlight
  <2>2. CASE p # q
    <3>1. Scratch(p) # Scratch(q)
      BY <2>2, ScratchNamesDiffer
    <3> QED
      BY <1>2, <1>3, <1>5, <1>7, <2>2, <3>1 DEF WriteScratch, procVars
  <2> QED BY <2>1, <2>2
<1>8. ASSUME NEW q \in Proc, Rename(q) PROVE Goal
  <2>1. p # q /\ pc[p] \in {"write", "rename"}
    BY <1>8 DEF Rename
  <2>2. Path(asked[q].view, asked[q].key) \in EntryName
    BY <1>5, <1>8, PathsAreNames DEF Rename, Request
  <2>3. Path(asked[q].view, asked[q].key) # Scratch(p) /\ Scratch(p) # Scratch(q)
    BY <1>2, <2>1, <2>2, NamesApart, ScratchNamesDiffer
  <2> QED
    BY <1>2, <1>3, <1>5, <1>8, <2>1, <2>3 DEF Rename
<1>9. ASSUME NEW q \in Proc, FailPut(q) PROVE Goal
  <2>1. p # q /\ pc[p] \in {"write", "rename"}
    BY <1>9 DEF FailPut
  <2> QED
    BY <1>2, <1>3, <1>5, <1>9, <2>1, ScratchNamesDiffer DEF FailPut
<1>10. ASSUME NEW q \in Proc, NEW n \in Name, StatStale(q, n) PROVE Goal
  <2>1. /\ pc[p] \in {"write", "rename"} /\ Scratch(p)' = Scratch(p)
        /\ UNCHANGED <<now, began, files>>
    BY <1>10 DEF StatStale, Scratch
  <2>2. ASSUME n = Scratch(p) PROVE now - began[p] > ScratchGrace
    <3>1. files[n] # None /\ began[q] - files[n].mtime > PruneAge(q, n)
      BY <1>10 DEF StatStale, Stale
    <3>2. files[n].mtime >= began[p] /\ files[n].mtime \in Nat
      BY <2>1, <2>2, <3>1 DEF InFlight, File
    <3>3. n[1] = "tmp"
      BY <1>2, <2>1, <2>2, NamesApart
    <3>4. PruneAge(q, n) \in Nat /\ PruneAge(q, n) >= ScratchGrace
      BY <3>3, PruneAgeBounds
    <3>5. began[q] <= now /\ began[q] \in Nat
      BY DEF StampsInOrder
    <3> QED
      BY <1>1, <3>1, <3>2, <3>4, <3>5
  <2>3. \A r \in Proc : condemned'[r] \in {condemned[r], [name |-> n, file |-> files[n]]}
    BY <1>10 DEF StatStale
  <2> QED
    BY <2>1, <2>2, <2>3 DEF InFlight
<1>11. ASSUME NEW q \in Proc, RemoveStale(q) PROVE Goal
  <2>1. /\ pc[p] \in {"write", "rename"} /\ Scratch(p)' = Scratch(p)
        /\ UNCHANGED <<now, began>> /\ condemned[q] # None
    BY <1>11 DEF RemoveStale, Scratch, InPhase
  <2>2. CASE condemned[q].name = Scratch(p)
    BY <1>2, <1>11, <2>1, <2>2 DEF RemoveStale, InFlight
  <2>3. CASE condemned[q].name # Scratch(p)
    BY <1>2, <1>3, <1>11, <2>1, <2>3 DEF RemoveStale
  <2> QED BY <2>2, <2>3
<1>12. ASSUME NEW q \in Proc, NEW n \in Name, ClearOne(q, n) PROVE Goal
  <2>1. pc[p] \in {"write", "rename"} /\ UNCHANGED <<puts, began, now, condemned>>
    BY <1>12 DEF ClearOne
  <2>2. n \in EntryName
    BY <1>12 DEF ClearOne, InPhase
  <2>3. n # Scratch(p)
    BY <1>2, <2>1, <2>2, NamesApart
  <2> QED
    BY <1>2, <1>3, <1>12, <2>1, <2>3 DEF ClearOne
<1>13. ASSUME NEW q \in Proc, NEW n \in Name, StatFresh(q, n) PROVE Goal
  BY <1>3, <1>13 DEF StatFresh
<1>14. ASSUME NEW q \in Proc,
              EndGet(q) \/ ListForPrune(q) \/ EndListing(q) \/ Crash(q)
       PROVE  Goal
  BY <1>3, <1>14 DEF EndGet, ListForPrune, EndListing, Crash
<1>15. CASE Tick
  <2>1. /\ pc[p] \in {"write", "rename"} /\ Scratch(p)' = Scratch(p)
        /\ UNCHANGED <<files, began, condemned>> /\ now' = now + 1
    BY <1>15 DEF Tick, procVars, Scratch
  <2> QED
    BY <1>1, <2>1 DEF InFlight
<1>16. CASE SetClockBack \/ UNCHANGED vars
  BY <1>3, <1>16 DEF SetClockBack, vars
<1> QED
  BY <1>4, <1>6, <1>7, <1>8, <1>9, <1>10, <1>11, <1>12, <1>13, <1>14, <1>15, <1>16
     DEF Next, Progress

\* With a clock that is never set back, no prune, whatever its cache_ttl_secs,
\* takes the scratch file of a write no older than SCRATCH_GRACE.
THEOREM InFlightScratchSurvives ==
  ASSUME ClockSteps = {}
  PROVE  Spec => []InFlightScratchKept
<1>1. Init => FlightInv
  BY CacheConstants, StampsInitially, PathsAreNames, NoneIsNothing
     DEF Init, FlightInv, TagsAreFresh, Unseen, InFlight
<1>2. FlightInv /\ [Next]_vars => FlightInv'
  BY ClockSteps = {}, CacheConstants, ShapeInductive, StampsStep, TagsStep, FlightStep
     DEF FlightInv, StampInv
<1>3. FlightInv => InFlightScratchKept
  BY DEF FlightInv, InFlight, InFlightScratchKept
<1> QED
  BY <1>1, <1>2, <1>3, PTL DEF Spec

-----------------------------------------------------------------------------
(* The directory implements the map                                        *)

Seen == [p \in Proc |-> SeenBy(p)]

\* What the map sees of the state.
MapState == <<now, KnownFiles, Seen, reply>>

\* The directory and the invariants the simulation relies on.
RefInv == Shape /\ TrueEntries /\ ScratchIsPrivate

LEMMA RefInvAlways == Spec => []RefInv
<1>1. Init => RefInv
  BY CacheConstants, ShapeInitially DEF Init, RefInv, TrueEntries, ScratchIsPrivate
<1>2. RefInv /\ [Next]_vars => RefInv'
  BY CacheConstants, ShapeInductive, TrueEntriesStep, PrivateStep DEF RefInv, PrivateInv
<1> QED
  BY <1>1, <1>2, PTL DEF Spec

\* The map sees entry files only, and of a process only a lookup in progress.
LEMMA SameKnown ==
  ASSUME \A n \in EntryName : files'[n] = files[n], CacheConstants
  PROVE  UNCHANGED KnownFiles
<1>1. \A v \in View, k \in Key : Path(v, k) \in EntryName
  BY PathsAreNames
<1>2. \A v \in View, k \in Key : EntryFor(v, k)' = EntryFor(v, k)
  BY <1>1 DEF EntryFor, Path
<1> QED
  BY <1>2 DEF KnownFiles

\* A lookup that is not in progress before or after a step shows nothing.
LEMMA SameSeen ==
  ASSUME \A q \in Proc :
           \/ pc[q] # "judge" /\ pc'[q] # "judge"
           \/ UNCHANGED <<pc[q], held[q], asked[q]>>
  PROVE  UNCHANGED Seen
<1>1. \A q \in Proc : SeenBy(q)' = SeenBy(q)
  BY DEF SeenBy
<1> QED
  BY <1>1 DEF Seen

\* Files only go: the map forgets.
LEMMA RemovalForgets ==
  ASSUME \A n \in EntryName : files'[n] \in {files[n], None}, CacheConstants
  PROVE  \A v \in View, k \in Key : KnownFiles'[v][k] \in {KnownFiles[v][k], None}
<1>1. \A v \in View, k \in Key : Path(v, k) \in EntryName
  BY PathsAreNames
<1>2. \A v \in View, k \in Key : EntryFor(v, k)' \in {EntryFor(v, k), None}
  BY <1>1 DEF EntryFor, Path
<1> QED
  BY <1>2 DEF KnownFiles

\* Looking in the directory is looking in the map.
LEMMA BeginGetIsLook ==
  ASSUME CacheConstants, RefInv, NEW p \in Proc, NEW v \in View, NEW k \in Key,
         BeginGet(p, v, k)
  PROVE  Map!Look(p, v, k)
<1> USE NoneIsNothing DEF RefInv, Shape, TypeOK
<1>1. UNCHANGED KnownFiles /\ UNCHANGED now
  BY SameKnown DEF BeginGet
<1>2. KnownFiles[v][k] = EntryFor(v, k)
  BY DEF KnownFiles
<1>3. \A q \in Proc \ {p} : SeenBy(q)' = SeenBy(q)
  BY DEF BeginGet, SeenBy
<1>4. SeenBy(p)' = IF EntryFor(v, k) = None THEN None
                   ELSE [view |-> v, entry |-> EntryFor(v, k)]
  <2>1. CASE files[Path(v, k)] = None
    BY <2>1 DEF BeginGet, SeenBy, EntryFor
  <2>2. CASE files[Path(v, k)] # None
    <3>1. /\ pc'[p] = "judge" /\ held'[p] = files[Path(v, k)].entry
          /\ asked'[p] = [view |-> v, key |-> k]
      BY <2>2 DEF BeginGet
    <3> QED
      BY <2>2, <3>1 DEF SeenBy, EntryFor
  <2> QED BY <2>1, <2>2
<1>5. Seen' = [Seen EXCEPT ![p] = IF EntryFor(v, k) = None THEN None
                                 ELSE [view |-> v, entry |-> EntryFor(v, k)]]
  BY <1>3, <1>4 DEF Seen
<1> QED
  BY <1>1, <1>2, <1>5 DEF BeginGet, Map!Look, Seen

\* Judging the file that was read is answering from the entry that was seen.
LEMMA EndGetAnswers ==
  ASSUME CacheConstants, RefInv, NEW p \in Proc, EndGet(p)
  PROVE  Map!Hit(p) \/ Map!Miss(p)
<1> USE NoneIsNothing DEF RefInv, Shape, TypeOK
<1>1. UNCHANGED KnownFiles /\ UNCHANGED now
  BY SameKnown DEF EndGet
<1>2. Seen' = [Seen EXCEPT ![p] = None]
  <2>1. \A q \in Proc \ {p} : SeenBy(q)' = SeenBy(q)
    BY DEF EndGet, SeenBy
  <2>2. SeenBy(p)' = None
    BY DEF EndGet, SeenBy
  <2> QED
    BY <2>1, <2>2 DEF Seen
<1>3. CASE ~Usable(p)
  BY <1>1, <1>2, <1>3 DEF EndGet, Map!Miss, Seen
<1>4. CASE Usable(p)
  <2>1. /\ held[p] \in Entry /\ asked[p] \in Request /\ held[p].key = asked[p].key
        /\ SeenBy(p) = [view |-> asked[p].view, entry |-> held[p]]
    BY <1>4 DEF Usable, EndGet, SeenBy, InPhase
  <2>2. /\ Seen[p] # None /\ Seen[p].entry = held[p] /\ Seen[p].view = asked[p].view
    BY <2>1, NoneIsNoSighting DEF Request, Seen
  <2>3. now - held[p].at \in 0..Lifetime(p, asked[p].view)
    BY <1>4, <2>1 DEF Usable, Entry, Lifetime, CacheConstants, Request
  <2>4. Lifetime(p, asked[p].view) = Map!Lifetime(p, asked[p].view)
    BY DEF Lifetime, Map!Lifetime
  <2>5. reply' = [reply EXCEPT ![p] = [view |-> asked[p].view, key |-> held[p].key,
                     payload |-> held[p].payload, age |-> now - held[p].at]]
    BY <1>4, <2>1 DEF EndGet, Answer
  <2> HIDE DEF RefInv, Shape, TypeOK
  <2> QED
    BY <1>1, <1>2, <2>2, <2>3, <2>4, <2>5 DEF Map!Hit, Seen
<1> QED
  BY <1>3, <1>4

\* The rename is the moment at which the map learns the answer.
LEMMA RenameIsLearn ==
  ASSUME CacheConstants, RefInv, NEW p \in Proc, NEW v \in View, NEW k \in Key,
         v = asked[p].view, k = asked[p].key, Rename(p)
  PROVE  KnownFiles'[v][k] # None /\ Map!Learn(v, KnownFiles'[v][k])
<1> USE NoneIsNothing DEF RefInv, Shape, TypeOK
<1>1. /\ asked[p] \in Request /\ held[p] \in Entry /\ held[p].key = k
      /\ Scratch(p) \in ScratchName /\ Scratch(p) \in Name
      /\ AnswerTo[held[p].payload] = k
  BY ScratchIsName DEF Rename, InPhase, TrueEntries
<1>2. /\ Path(v, k) \in EntryName /\ Path(v, k) \in Name
      /\ Path(v, k) # Scratch(p)
  BY <1>1, PathsAreNames, NamesApart DEF Name
<1>3. files[Scratch(p)] \in File /\ files[Scratch(p)].entry = held[p]
  BY <1>1 DEF Rename, ScratchIsPrivate
<1>4. \A n \in EntryName : files'[n] = IF n = Path(v, k) THEN files[Scratch(p)] ELSE files[n]
  BY <1>1, <1>2, NamesApart DEF Rename, Name
<1>5. EntryFor(v, k)' = held[p]
  <2>1. files'[Path(v, k)] = files[Scratch(p)]
    BY <1>2, <1>4
  <2> QED
    BY <1>1, <1>3, <2>1 DEF EntryFor, Path
<1>6. ASSUME NEW w \in View, NEW l \in Key, <<w, l>> # <<v, k>>
      PROVE  EntryFor(w, l)' \in {EntryFor(w, l), None}
  <2>1. Path(w, l) \in EntryName
    BY PathsAreNames
  <2>2. CASE Path(w, l) = Path(v, k)
    <3>1. w = v
      BY <2>2 DEF Path
    <3>2. held[p].key # l
      BY <1>1, <1>6, <3>1
    <3>3. files'[Path(w, l)] = files[Scratch(p)]
      BY <1>2, <1>4, <2>2
    <3> QED
      BY <1>3, <3>2, <3>3 DEF EntryFor, Path
  <2>3. CASE Path(w, l) # Path(v, k)
    <3>1. files'[Path(w, l)] = files[Path(w, l)]
      BY <1>4, <2>1, <2>3
    <3> QED
      BY <3>1 DEF EntryFor, Path
  <2> QED BY <2>2, <2>3
<1>7. UNCHANGED <<now, reply>>
  BY DEF Rename
<1>8. UNCHANGED Seen
  BY SameSeen DEF Rename
<1>9. KnownFiles'[v][k] = held[p]
  BY <1>5 DEF KnownFiles
<1>10. \A w \in View, l \in Key :
         <<w, l>> # <<v, k>> => KnownFiles'[w][l] \in {KnownFiles[w][l], None}
  BY <1>6 DEF KnownFiles
<1>11. Map!Learn(v, held[p])
  BY <1>1, <1>7, <1>8, <1>9, <1>10 DEF Map!Learn, Map!View, View, Seen
<1> QED
  BY <1>1, <1>9, <1>11

LEMMA StepSimulates ==
  CacheConstants /\ RefInv /\ [Next]_vars => [Map!Next]_(Map!mapVars)
<1> SUFFICES ASSUME CacheConstants, RefInv, [Next]_vars
             PROVE  Map!Next \/ UNCHANGED MapState
  BY DEF MapState, Map!mapVars, Seen
<1> USE NoneIsNothing DEF RefInv, Shape, TypeOK
<1>1. ASSUME NEW p \in Proc, NEW v \in View, NEW k \in Key, BeginGet(p, v, k)
      PROVE  Map!Next
  BY <1>1, BeginGetIsLook DEF Map!Next, Map!View, View
<1>2. ASSUME NEW p \in Proc, EndGet(p) PROVE Map!Next
  BY <1>2, EndGetAnswers DEF Map!Next
<1>3. ASSUME NEW p \in Proc, Rename(p) PROVE Map!Next
  <2>1. asked[p].view \in View /\ asked[p].key \in Key
    BY <1>3 DEF Rename, InPhase, Request
  <2> QED
    BY <1>3, <2>1, RenameIsLearn DEF Map!Next, Map!View, View
\* The caller lets go of the answer it had.
<1>4. ASSUME NEW p \in Proc, reply' = [reply EXCEPT ![p] = None], UNCHANGED <<now, files>>,
             \A q \in Proc \ {p} : UNCHANGED <<pc[q], held[q], asked[q]>>,
             pc'[p] # "judge"
      PROVE  Map!Miss(p)
  <2>1. UNCHANGED KnownFiles
    BY <1>4, SameKnown
  <2>2. Seen' = [Seen EXCEPT ![p] = None]
    BY <1>4 DEF Seen, SeenBy
  <2> QED
    BY <1>4, <2>1, <2>2 DEF Map!Miss, Seen
<1>5. ASSUME NEW p \in Proc,
             \/ BeginClear(p) \/ Crash(p)
             \/ \E v \in View, a \in Payload : BeginPut(p, v, a)
      PROVE  Map!Next
  <2>1. Map!Miss(p)
    BY <1>4, <1>5 DEF BeginClear, Crash, BeginPut
  <2> QED BY <2>1 DEF Map!Next
\* Scratch files and bookkeeping are invisible.
<1>6. ASSUME NEW p \in Proc, CreateScratch(p) \/ WriteScratch(p) \/ FailPut(p)
      PROVE  UNCHANGED MapState
  <2>1. pc[p] \in {"open", "write", "rename"} /\ pc'[p] # "judge" /\ UNCHANGED <<now, reply>>
    BY <1>6 DEF CreateScratch, WriteScratch, FailPut, procVars
  <2>2. Scratch(p) \in ScratchName
    BY <2>1, ScratchIsName DEF InPhase
  <2>3. \A n \in EntryName : files'[n] = files[n]
    BY <1>6, <2>2, NamesApart DEF CreateScratch, WriteScratch, FailPut, Name
  <2>4. UNCHANGED Seen
    BY <1>6, <2>1, SameSeen DEF CreateScratch, WriteScratch, FailPut, procVars
  <2> QED
    BY <2>1, <2>3, <2>4, SameKnown DEF MapState
<1>7. ASSUME NEW p \in Proc,
             \/ ListForPrune(p) \/ EndListing(p)
             \/ \E n \in Name : StatFresh(p, n) \/ StatStale(p, n)
      PROVE  UNCHANGED MapState
  <2>1. UNCHANGED <<now, reply, files>>
    BY <1>7 DEF ListForPrune, EndListing, StatFresh, StatStale
  <2>2. UNCHANGED Seen
    BY <1>7, SameSeen DEF ListForPrune, EndListing, StatFresh, StatStale
  <2> QED
    BY <2>1, <2>2, SameKnown DEF MapState
<1>8. ASSUME NEW p \in Proc, RemoveStale(p) \/ \E n \in Name : ClearOne(p, n)
      PROVE  Map!Next
  <2>1. \A n \in EntryName : files'[n] \in {files[n], None}
    BY <1>8 DEF RemoveStale, ClearOne, Name
  <2>2. UNCHANGED Seen /\ UNCHANGED <<now, reply>>
    BY <1>8, SameSeen DEF RemoveStale, ClearOne
  <2>3. Map!Forget
    BY <2>1, <2>2, RemovalForgets DEF Map!Forget, Map!View, View, Seen
  <2> QED BY <2>3 DEF Map!Next
<1>9. CASE Tick \/ SetClockBack
  <2>1. now' \in Nat /\ UNCHANGED <<files, pc, procVars>>
    BY <1>9 DEF Tick, SetClockBack, CacheConstants
  <2>2. UNCHANGED Seen /\ UNCHANGED KnownFiles
    BY <2>1, SameSeen, SameKnown DEF procVars
  <2>3. Map!ClockMoves
    BY <2>1, <2>2 DEF Map!ClockMoves, Seen, procVars
  <2> QED BY <2>3 DEF Map!Next
<1>10. CASE UNCHANGED vars
  BY <1>10, SameSeen, SameKnown DEF vars, MapState
<1> QED
  BY <1>1, <1>2, <1>3, <1>5, <1>6, <1>7, <1>8, <1>9, <1>10 DEF Next, Start, Progress

\* The directory of files, with every interleaving, crash, failed write,
\* collision, prune and clear, implements the forgetful map.
THEOREM DirectoryImplementsMap == Spec => ImplementsMap
<1>1. Init => Map!Init
  <2> SUFFICES ASSUME Init PROVE Map!Init
    OBVIOUS
  <2>1. \A v \in View, k \in Key : EntryFor(v, k) = None
    <3>1. \A n \in EntryName : files[n] # None => files[n].entry = None
      BY DEF Init, Name
    <3>2. \A v \in View, k \in Key : Path(v, k) \in EntryName
      BY CacheConstants, PathsAreNames
    <3> QED
      BY <3>1, <3>2 DEF EntryFor
  <2>2. \A p \in Proc : SeenBy(p) = None
    BY DEF Init, SeenBy
  <2> QED
    BY <2>1, <2>2 DEF Init, Map!Init, KnownFiles, Map!View, View
<1>2. RefInv /\ [Next]_vars => [Map!Next]_(Map!mapVars)
  BY CacheConstants, StepSimulates
<1>3. Spec => Map!Spec
  BY <1>1, <1>2, RefInvAlways, PTL DEF Spec, Map!Spec
<1> QED
  BY <1>3 DEF ImplementsMap
============================================================================
