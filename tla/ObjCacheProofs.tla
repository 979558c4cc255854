---------------------------- MODULE ObjCacheProofs ----------------------------
(***************************************************************************)
(* Theorems about ObjCache, for any number of builds and keys.             *)
(***************************************************************************)
EXTENDS ObjCache, CacheDirProofs

ObjCore == DirCore /\ obj \in [Builds -> Searches]

\* A search that has not begun has its type.
LEMMA IdleType == Idle \in Searches
BY SomeKeyType DEF Idle, Searches, FileContents

\* A build that moves on changes its own search alone.
LEMMA SetObjFrame ==
    ASSUME ObjCore, NEW b \in Builds, NEW r \in Searches, SetObj(b, r)
    PROVE  /\ obj' \in [Builds -> Searches] /\ obj'[b] = r
           /\ \A c \in Builds \ {b} : obj'[c] = obj[c]
BY DEF ObjCore, SetObj

\* What a build knows of its binary once it has one.
Served(b) == obj[b].pc \in {"touch", "put", "done"} => obj[b].dest = obj[b].key

\* Every step of a build keeps the searches' invariant.
LEMMA BuildStepObj ==
    ASSUME SameFs, ObjCore, ObjInv, NEW b \in Builds,
           (\E k \in Keys : Begin(b, k)) \/ BuildStep(b) \/ Crash(b)
    PROVE  ObjCore' /\ ObjInv'
<1>0. /\ DirCore /\ obj[b] \in Searches /\ obj[b].key \in Keys
      /\ EntriesWhole /\ PutsOwn /\ \A c \in Builds : Served(c)
      /\ entry \in [Keys -> Entries]
  BY DEF ObjCore, ObjInv, Searches, Served, DirCore
<1>1. ASSUME NEW r \in Searches, SetObj(b, r), UNCHANGED <<entry, put>>,
             r.pc \in {"touch", "put", "done"} => r.dest = r.key
      PROVE  ObjCore' /\ ObjInv'
  <2>1. DirCore' /\ EntriesWhole' /\ PutsOwn'
    BY <1>0, <1>1 DEF DirCore, EntriesWhole, PutsOwn
  <2> QED
    BY <1>0, <1>1, <2>1, SetObjFrame DEF ObjCore, ObjInv, Served
<1>2. ASSUME NEW k \in Keys, Begin(b, k) PROVE ObjCore' /\ ObjInv'
  <2>1. [Idle EXCEPT !.pc = "test", !.key = k] \in Searches
    BY IdleType DEF Searches
  <2>2. [Idle EXCEPT !.pc = "test", !.key = k].pc = "test"
    BY DEF Idle
  <2> QED
    BY <1>1, <1>2, <2>1, <2>2 DEF Begin, dirVars
<1>3. CASE GetTest(b)
  <2> DEFINE pc == IF entry[obj[b].key].file["bin"] = Gone THEN "compile" ELSE "copy"
             r == [obj[b] EXCEPT !.pc = pc]
  <2>1. r \in Searches /\ r.pc \in {"compile", "copy"}
    BY <1>0 DEF Searches
  <2>2. SetObj(b, r) /\ UNCHANGED <<entry, put>>
    BY <1>3 DEF GetTest, dirVars
  <2> HIDE DEF r
  <2> QED
    BY <2>1, <2>2, <1>1
<1>4. CASE GetCopy(b)
  <2> DEFINE c == entry[obj[b].key].file["bin"]
             miss == [obj[b] EXCEPT !.pc = "compile"]
             hit == [obj[b] EXCEPT !.pc = "touch", !.dest = c]
  <2>1. c \in {Gone, obj[b].key}
    BY <1>0, ObjAssumption DEF EntriesWhole
  <2>2. miss \in Searches /\ miss.pc = "compile"
    BY <1>0 DEF Searches
  <2>3. hit \in Searches /\ hit.dest = c /\ hit.key = obj[b].key
    BY <1>0, <2>1 DEF Searches, FileContents
  <2>4. UNCHANGED <<entry, put>>
    BY <1>4 DEF GetCopy, dirVars
  <2>5. (c = Gone /\ SetObj(b, miss)) \/ (c # Gone /\ SetObj(b, hit))
    BY <1>4 DEF GetCopy
  <2> HIDE DEF c, miss, hit
  <2> QED
    BY <2>1, <2>2, <2>3, <2>4, <2>5, <1>1
<1>10. CASE GetTouch(b)
  <2> DEFINE r == [obj[b] EXCEPT !.pc = "done"]
  <2>1. r \in Searches /\ r.dest = r.key
    BY <1>0, <1>10 DEF Searches, GetTouch, Served
  <2>2. SetObj(b, r) /\ Touch(obj[b].key) /\ put' = put
    BY <1>10 DEF GetTouch
  <2>3. DirCore' /\ EntriesWhole' /\ PutsOwn'
    BY <1>0, <2>2, TouchFrame DEF DirCore, EntriesWhole, PutsOwn
  <2> HIDE DEF r
  <2> QED
    BY <2>1, <2>2, <2>3, <1>0, SetObjFrame DEF ObjCore, ObjInv, Served
<1>5. CASE Compile(b)
  <2> DEFINE r == [obj[b] EXCEPT !.pc = "put", !.dest = obj[b].key]
  <2>1. r \in Searches /\ r.dest = r.key
    BY <1>0 DEF Searches, FileContents
  <2>2. SetObj(b, r) /\ BeginPut(b, obj[b].key, obj[b].key)
    BY <1>5 DEF Compile
  <2>3. /\ DirCore' /\ entry' = entry
        /\ put'[b].pc = "rm" /\ put'[b].key = obj[b].key /\ put'[b].out = obj[b].key
        /\ \A x \in Builds \ {b} : put'[x] = put[x]
    BY <2>2, <1>0, BeginPutFrame DEF FileContents
  <2>4. EntriesWhole' /\ PutsOwn'
    BY <2>3, <1>0 DEF EntriesWhole, PutsOwn
  <2> HIDE DEF r
  <2> QED
    BY <2>1, <2>2, <2>3, <2>4, <1>0, SetObjFrame DEF ObjCore, ObjInv, Served
<1>6. CASE EndPut(b)
  <2> DEFINE r == [obj[b] EXCEPT !.pc = "done"]
  <2>1. r \in Searches /\ r.dest = obj[b].dest /\ r.key = obj[b].key /\ obj[b].pc = "put"
    BY <1>0, <1>6 DEF Searches, EndPut
  <2>2. SetObj(b, r) /\ UNCHANGED <<entry, put>>
    BY <1>6 DEF EndPut, dirVars
  <2> HIDE DEF r
  <2> QED
    BY <2>1, <2>2, <1>0, <1>1 DEF Served
<1>7. CASE Finish(b)
  <2>1. Idle.pc = "idle"
    BY DEF Idle
  <2> QED
    BY <1>7, <2>1, <1>1, IdleType DEF Finish, dirVars
<1>8. CASE PutStep(b) /\ UNCHANGED obj
  <2>1. DirCore' /\ PutsOwn' /\ EntriesWhole'
    <3>1. EntriesOwn
      BY <1>0 DEF EntriesWhole, EntriesOwn
    <3> QED
      BY <1>0, <1>8, <3>1, PutStepFrame, PutStepOwn, PutStepWhole
  <2> QED
    BY <2>1, <1>0, <1>8 DEF ObjCore, ObjInv, Served
<1>9. CASE Crash(b)
  <2>1. /\ DirCore' /\ entry' = entry /\ put'[b].pc = "idle"
        /\ \A c \in Builds \ {b} : put'[c] = put[c]
    BY <1>0, <1>9, CrashPutFrame DEF Crash
  <2>2. EntriesWhole' /\ PutsOwn'
    BY <2>1, <1>0 DEF EntriesWhole, PutsOwn
  <2>3. Idle.pc = "idle" /\ SetObj(b, Idle)
    BY <1>9 DEF Idle, Crash
  <2> QED
    BY <2>1, <2>2, <2>3, <1>0, IdleType, SetObjFrame DEF ObjCore, ObjInv, Served
<1> QED
  BY <1>2, <1>3, <1>4, <1>5, <1>6, <1>7, <1>8, <1>9, <1>10 DEF BuildStep

(***************************************************************************)
(* When $WORK and the cache are on one file system, every build ends with  *)
(* the whole binary of its own key, whatever the other builds, the prunes  *)
(* and the crashes do.                                                     *)
(***************************************************************************)
THEOREM ObjServedWhole == ASSUME SameFs PROVE Spec => []ServedWhole
<1>1. Init => ObjCore /\ ObjInv
  <2> SUFFICES ASSUME Init PROVE ObjCore /\ ObjInv
    OBVIOUS
  <2>1. \A b \in Builds : obj[b].pc = "idle"
    BY DEF Init, Idle
  <2> QED
    BY <2>1, DirInitCore, IdleType DEF Init, ObjCore, ObjInv
<1>2. ObjCore /\ ObjInv /\ [Next]_objVars => ObjCore' /\ ObjInv'
  <2> SUFFICES ASSUME ObjCore, ObjInv, [Next]_objVars PROVE ObjCore' /\ ObjInv'
    OBVIOUS
  <2>1. CASE Next
    BY <2>1, BuildStepObj DEF Next
  <2>2. CASE UNCHANGED objVars
    BY <2>2 DEF objVars, dirVars, ObjCore, ObjInv, DirCore, EntriesWhole, PutsOwn
  <2> QED
    BY <2>1, <2>2
<1>3. ObjInv => ServedWhole
  BY DEF ObjInv, ServedWhole
<1> QED
  BY <1>1, <1>2, <1>3, PTL DEF Spec

-----------------------------------------------------------------------------
(***************************************************************************)
(* The object cache is bounded, however many builds share it.              *)
(***************************************************************************)
ObjBound ==
    /\ ObjCore /\ DirBound
    /\ \A b \in Builds : put[b].pc # "idle" => obj[b].pc = "put"

\* Every step of a build keeps the types and the bound.
LEMMA BuildStepBound ==
    ASSUME ObjBound, NEW b \in Builds, (\E k \in Keys : Begin(b, k)) \/ BuildStep(b) \/ Crash(b)
    PROVE  ObjBound'
<1> DEFINE q == obj[b]
<1>0. /\ DirCore /\ ObjCore /\ DirBound /\ q \in Searches /\ q.key \in Keys
      /\ \A c \in Builds : put[c].pc # "idle" => obj[c].pc = "put"
  BY DEF ObjBound, ObjCore, Searches
<1>1. ASSUME NEW r \in Searches, SetObj(b, r), DirCore', DirBound', put'[b].pc # "idle" => r.pc = "put",
             \A c \in Builds \ {b} : put'[c] = put[c]
      PROVE  ObjBound'
  <2>1. obj' \in [Builds -> Searches] /\ obj'[b] = r /\ \A c \in Builds \ {b} : obj'[c] = obj[c]
    BY <1>0, <1>1, SetObjFrame
  <2> QED
    BY <1>0, <1>1, <2>1 DEF ObjBound, ObjCore
<1>2. ASSUME NEW r \in Searches, SetObj(b, r), UNCHANGED dirVars, put[b].pc = "idle"
      PROVE  ObjBound'
  <2>1. DirCore' /\ DirBound' /\ put' = put
    BY <1>0, <1>2 DEF dirVars, DirCore, DirBound, Held, Listed
  <2> QED
    BY <1>1, <1>2, <2>1
<1>3. ASSUME NEW k \in Keys, Begin(b, k) PROVE ObjBound'
  <2> DEFINE r == [Idle EXCEPT !.pc = "test", !.key = k]
  <2>1. r \in Searches
    BY IdleType DEF Searches
  <2>2. SetObj(b, r) /\ UNCHANGED dirVars /\ put[b].pc = "idle"
    BY <1>0, <1>3 DEF Begin
  <2> HIDE DEF r
  <2> QED
    BY <1>2, <2>1, <2>2
<1>4. CASE GetTest(b)
  <2> DEFINE pc == IF entry[q.key].file["bin"] = Gone THEN "compile" ELSE "copy"
             r == [q EXCEPT !.pc = pc]
  <2>1. r \in Searches
    BY <1>0 DEF Searches
  <2>2. SetObj(b, r) /\ UNCHANGED dirVars /\ put[b].pc = "idle"
    BY <1>0, <1>4 DEF GetTest
  <2> HIDE DEF r
  <2> QED
    BY <1>2, <2>1, <2>2
<1>5. CASE GetCopy(b)
  <2> DEFINE c == entry[q.key].file["bin"]
             miss == [q EXCEPT !.pc = "compile"]
             hit == [q EXCEPT !.pc = "touch", !.dest = c]
  <2>1. c \in FileContents
    BY <1>0, ObjAssumption DEF DirCore, Entries
  <2>2. miss \in Searches
    BY <1>0 DEF Searches
  <2>3. hit \in Searches
    BY <1>0, <2>1 DEF Searches
  <2>4. (SetObj(b, miss) \/ SetObj(b, hit)) /\ UNCHANGED dirVars /\ put[b].pc = "idle"
    BY <1>0, <1>5 DEF GetCopy
  <2> HIDE DEF c, miss, hit
  <2> QED
    BY <1>2, <2>2, <2>3, <2>4
<1>6. CASE GetTouch(b)
  <2> DEFINE r == [q EXCEPT !.pc = "done"]
  <2>1. r \in Searches
    BY <1>0 DEF Searches
  <2>2. SetObj(b, r) /\ Touch(q.key) /\ put' = put /\ crashes' = crashes /\ put[b].pc = "idle"
    BY <1>0, <1>6 DEF GetTouch
  <2> HIDE DEF r
  <2>3. DirCore' /\ DirBound'
    BY <1>0, <2>2, TouchFrame, TouchBound DEF DirCore
  <2> QED
    BY <1>1, <2>1, <2>2, <2>3
<1>7. CASE Compile(b)
  <2> DEFINE r == [q EXCEPT !.pc = "put", !.dest = q.key]
  <2>1. r \in Searches /\ r.pc = "put"
    BY <1>0 DEF Searches, FileContents
  <2>2. SetObj(b, r) /\ BeginPut(b, q.key, q.key) /\ put[b].pc = "idle"
    BY <1>0, <1>7 DEF Compile
  <2> HIDE DEF r
  <2>3. DirCore' /\ DirBound' /\ \A c \in Builds \ {b} : put'[c] = put[c]
    BY <1>0, <2>2, BeginPutFrame, BeginPutBound DEF FileContents
  <2> QED
    BY <1>1, <2>1, <2>2, <2>3
<1>8. CASE EndPut(b)
  <2> DEFINE r == [q EXCEPT !.pc = "done"]
  <2>1. r \in Searches
    BY <1>0 DEF Searches
  <2>2. SetObj(b, r) /\ UNCHANGED dirVars /\ put[b].pc = "idle"
    BY <1>8 DEF EndPut
  <2> HIDE DEF r
  <2> QED
    BY <1>2, <2>1, <2>2
<1>9. CASE Finish(b)
  BY <1>0, <1>2, <1>9, IdleType DEF Finish
<1>10. CASE PutStep(b) /\ UNCHANGED obj
  <2>1. DirCore' /\ DirBound' /\ put[b].pc # "idle" /\ \A c \in Builds \ {b} : put'[c] = put[c]
    BY <1>0, <1>10, PutStepFrame, PutStepBound DEF OwnStep
  <2> QED
    BY <1>0, <1>10, <2>1 DEF ObjBound, ObjCore
<1>11. CASE Crash(b)
  <2>1. DirCore' /\ DirBound' /\ put'[b].pc = "idle" /\ \A c \in Builds \ {b} : put'[c] = put[c]
    BY <1>0, <1>11, CrashPutFrame, CrashPutBound DEF Crash
  <2> QED
    BY <1>1, <1>11, <2>1, IdleType DEF Crash
<1> QED
  BY <1>3, <1>4, <1>5, <1>6, <1>7, <1>8, <1>9, <1>10, <1>11 DEF BuildStep

\* The invariant of the bound holds in every state.
LEMMA ObjBoundHolds == Spec => []ObjBound
<1>1. Init => ObjBound
  <2> SUFFICES ASSUME Init PROVE ObjBound
    OBVIOUS
  <2>1. ObjCore /\ DirBound
    BY DirInitCore, DirInitBound, IdleType DEF Init, ObjCore
  <2>2. \A b \in Builds : put[b].pc = "idle"
    BY DEF Init, DirInit, NoPut
  <2> QED
    BY <2>1, <2>2 DEF ObjBound
<1>2. ObjBound /\ [Next]_objVars => ObjBound'
  <2> SUFFICES ASSUME ObjBound, [Next]_objVars PROVE ObjBound'
    OBVIOUS
  <2>1. CASE Next
    BY <2>1, BuildStepBound DEF Next
  <2>2. CASE UNCHANGED objVars
    BY <2>2 DEF objVars, dirVars, ObjBound, ObjCore, DirCore, DirBound, Held, Listed
  <2> QED
    BY <2>1, <2>2
<1> QED
  BY <1>1, <1>2, PTL DEF Spec

(***************************************************************************)
(* Every variable of the object cache keeps its type, through every race   *)
(* and crash of any number of builds.                                      *)
(***************************************************************************)
THEOREM ObjTypes == Spec => []TypeOK
<1>1. ObjBound /\ cut \in SUBSET Keys => TypeOK
  BY DEF ObjBound, ObjCore, DirBound, TypeOK, DirTypeOK
<1>2. Init => cut \in SUBSET Keys
  BY DEF Init, DirInit
<1>3. ObjBound /\ cut \in SUBSET Keys /\ [Next]_objVars => (cut \in SUBSET Keys)'
  <2> SUFFICES ASSUME ObjBound, cut \in SUBSET Keys, [Next]_objVars PROVE cut' \in SUBSET Keys
    OBVIOUS
  <2>1. \A b \in Builds : put[b].key \in Keys /\ put[b].victims \in SUBSET Keys
    BY DEF ObjBound, ObjCore, DirCore, Puts
  <2>2. ASSUME NEW b \in Builds, PutStep(b) PROVE cut' \in SUBSET Keys
    BY <2>1, <2>2 DEF PutStep, RmFile, RmEnd, MvInto, MvRefused, MvRename, MvCopy, CopyOpen, CopyClose,
                      CopyEnd, PruneList, PruneFile, PruneRmdir, PruneEnd, Rmdir, CutUnder
  <2>3. ASSUME NEW b \in Builds, CrashPut(b) PROVE cut' \in SUBSET Keys
    BY <2>1, <2>3 DEF CrashPut, Removing, Copying
  <2>4. CASE \E b \in Builds : GetTest(b) \/ GetCopy(b) \/ GetTouch(b) \/ Compile(b) \/ EndPut(b) \/ Finish(b)
    BY <2>4 DEF GetTest, GetCopy, GetTouch, Compile, EndPut, Finish, BeginPut, dirVars
  <2>5. CASE (\E b \in Builds, k \in Keys : Begin(b, k)) \/ UNCHANGED objVars
    BY <2>5 DEF Begin, objVars, dirVars
  <2> QED
    BY <2>2, <2>3, <2>4, <2>5 DEF Next, BuildStep, Crash
<1> QED
  BY <1>1, <1>2, <1>3, ObjBoundHolds, PTL DEF Spec

(***************************************************************************)
(* "so neither cache below can grow without bound": the object cache holds *)
(* at most CacheMax binaries beyond the ones of builds that have published *)
(* and not finished pruning, and one for each build that was killed,       *)
(* whether entries are renamed or copied into the cache.                   *)
(***************************************************************************)
THEOREM ObjCacheBounded == Spec => []CacheBounded
<1>1. ObjBound => CacheBounded
  BY DirBounded DEF ObjBound, ObjCore
<1> QED
  BY <1>1, ObjBoundHolds, PTL
===============================================================================
