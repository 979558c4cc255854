---------------------------- MODULE CacheDirProofs ----------------------------
(***************************************************************************)
(* Lemmas about the publication protocol of CacheDir, for any number of    *)
(* builds, keys and files.                                                 *)
(***************************************************************************)
EXTENDS CacheDir, FiniteSetTheorems, TLAPS

\* The key of a publication that has not begun is a key.
LEMMA SomeKeyType == SomeKey \in Keys
BY CacheAssumption DEF SomeKey

\* A publication that has not begun is a publication.
LEMMA NoPutType == NoPut \in Puts
<1>1. (CHOOSE f \in EntryFiles : TRUE) \in EntryFiles
  BY CacheAssumption
<1> QED
  BY <1>1, SomeKeyType DEF NoPut, Puts, PutPcs, FileContents

\* An absent entry is an entry.
LEMMA NoEntryType == NoEntry \in Entries
BY DEF NoEntry, Entries, NoFiles, FileContents

\* A plain file is an entry that holds no files.
LEMMA PlainFileType ==
    /\ PlainFile \in Entries /\ PlainFile.exists /\ PlainFile.file = NoFiles /\ ~PlainFile.nested
BY NoEntryType DEF PlainFile, NoEntry, Entries, NoFiles, FileContents

\* What one write to a file of an entry changes, and what it does not.
LEMMA SetFileFrame ==
    ASSUME DirCore, NEW k \in Keys, NEW g \in EntryFiles, NEW c \in FileContents, SetFile(k, g, c)
    PROVE  /\ entry' \in [Keys -> Entries]
           /\ \A x \in Keys : /\ entry'[x].exists = entry[x].exists
                               /\ entry'[x].plain = entry[x].plain
                               /\ entry'[x].nested = entry[x].nested
           /\ \A x \in Keys, f \in EntryFiles :
                 entry'[x].file[f] = IF x = k /\ f = g THEN c ELSE entry[x].file[f]
<1>1. entry \in [Keys -> Entries] /\ entry[k] \in Entries
  BY DEF DirCore
<1>2. [entry[k] EXCEPT !.file[g] = c] \in Entries
  BY <1>1 DEF Entries
<1>3. entry' = [entry EXCEPT ![k] = [entry[k] EXCEPT !.file[g] = c]]
  BY <1>1 DEF SetFile, Entries
<1>4. entry'[k].file = [entry[k].file EXCEPT ![g] = c]
  BY <1>1, <1>3 DEF Entries
<1> QED
  BY <1>1, <1>2, <1>3, <1>4 DEF Entries

\* Removing an empty entry changes no file of any entry.
LEMMA RmdirFrame ==
    ASSUME DirCore, NEW k \in Keys, Rmdir(k)
    PROVE  /\ entry' \in [Keys -> Entries]
           /\ \A x \in Keys, f \in EntryFiles : entry'[x].file[f] = entry[x].file[f]
<1>1. entry \in [Keys -> Entries]
  BY DEF DirCore
<1>2. entry'[k].file = NoFiles \/ entry' = entry
  BY <1>1 DEF Rmdir, NoEntry
<1> QED
  BY <1>1, <1>2, NoEntryType DEF Rmdir, NoFiles

(***************************************************************************)
(* What a step of build b's publication may do: to a file, to its own      *)
(* record, and to nobody else's.                                           *)
(***************************************************************************)
FileStep(b, k, f) ==
    \/ entry'[k].file[f] = entry[k].file[f]
    \/ entry'[k].file[f] = Gone
    \/ entry'[k].file[f] = Torn /\ (~SameFs \/ put[b].pc \in {"copy", "write"})
    \/ k = put[b].key /\ entry'[k].file[f] = put[b].out /\ put[b].pc # "idle"

OwnStep(b) ==
    /\ put[b].pc # "idle"
    /\ put'[b].pc # "idle" => put'[b].key = put[b].key /\ put'[b].out = put[b].out
    /\ put'[b].pc \in {"copy", "write"} => ~SameFs \/ put[b].pc \in {"copy", "write"}

\* A step of a publication writes only its own key, and only what it publishes.
LEMMA PutStepFrame ==
    ASSUME DirCore, NEW b \in Builds, PutStep(b)
    PROVE  /\ DirCore'
           /\ OwnStep(b)
           /\ \A c \in Builds \ {b} : put'[c] = put[c]
           /\ \A k \in Keys, f \in EntryFiles : FileStep(b, k, f)
<1>0. /\ entry \in [Keys -> Entries] /\ put \in [Builds -> Puts]
      /\ put[b] \in Puts /\ put[b].key \in Keys /\ put[b].cur \in EntryFiles
      /\ put[b].out \in FileContents /\ put[b].victims \in SUBSET Keys
  BY DEF DirCore, Puts
<1>1. ASSUME NEW r \in Puts, SetPut(b, r)
      PROVE  put' \in [Builds -> Puts] /\ put'[b] = r /\ \A c \in Builds \ {b} : put'[c] = put[c]
  BY <1>0, <1>1 DEF SetPut
<1>2. ASSUME UNCHANGED entry
      PROVE  entry' \in [Keys -> Entries] /\ \A k \in Keys, f \in EntryFiles : FileStep(b, k, f)
  BY <1>0, <1>2 DEF FileStep
<1>3. ASSUME NEW pc \in PutPcs
      PROVE  /\ [put[b] EXCEPT !.pc = pc] \in Puts
             /\ [put[b] EXCEPT !.pc = pc].key = put[b].key
             /\ [put[b] EXCEPT !.pc = pc].out = put[b].out
             /\ [put[b] EXCEPT !.pc = pc].pc = pc
  BY <1>0 DEF Puts
<1>4. Gone \in FileContents /\ Torn \in FileContents
  BY DEF FileContents
<1>5. CASE RmFile(b)
  <2>1. PICK f \in EntryFiles : SetFile(put[b].key, f, Gone)
    BY <1>5 DEF RmFile, UnlinkFile
  <2>2. /\ entry' \in [Keys -> Entries]
        /\ \A x \in Keys, g \in EntryFiles :
              entry'[x].file[g] = IF x = put[b].key /\ g = f THEN Gone ELSE entry[x].file[g]
    BY <2>1, <1>0, <1>4, SetFileFrame
  <2>3. put' = put /\ put[b].pc = "rm"
    BY <1>5 DEF RmFile
  <2> QED
    BY <2>2, <2>3, <1>0 DEF FileStep, OwnStep, DirCore
<1>6. CASE RmEnd(b)
  <2>1. Rmdir(put[b].key) /\ SetPut(b, [put[b] EXCEPT !.pc = "mv"]) /\ put[b].pc = "rm"
    BY <1>6 DEF RmEnd
  <2>2. /\ entry' \in [Keys -> Entries]
        /\ \A x \in Keys, f \in EntryFiles : entry'[x].file[f] = entry[x].file[f]
    BY <2>1, <1>0, RmdirFrame
  <2> QED
    BY <2>1, <2>2, <1>1, <1>3 DEF FileStep, OwnStep, DirCore, PutPcs
<1>7. CASE MvInto(b)
  <2>1. /\ entry' = [entry EXCEPT ![put[b].key] = [entry[put[b].key] EXCEPT !.nested = TRUE]]
        /\ SetPut(b, [put[b] EXCEPT !.pc = "list"]) /\ put[b].pc = "mv"
    BY <1>7 DEF MvInto
  <2>2. /\ [entry[put[b].key] EXCEPT !.nested = TRUE] \in Entries
        /\ [entry[put[b].key] EXCEPT !.nested = TRUE].file = entry[put[b].key].file
    BY <1>0 DEF Entries
  <2>3. /\ entry' \in [Keys -> Entries]
        /\ \A x \in Keys, f \in EntryFiles : entry'[x].file[f] = entry[x].file[f]
    BY <2>1, <2>2, <1>0
  <2> QED
    BY <2>1, <2>3, <1>1, <1>3 DEF FileStep, OwnStep, DirCore, PutPcs
<1>17. CASE MvRefused(b)
  BY <1>17, <1>1, <1>2, <1>3 DEF MvRefused, OwnStep, DirCore, PutPcs
<1>8. CASE MvRename(b)
  <2> DEFINE e == [NoEntry EXCEPT !.exists = TRUE, !.file = [f \in EntryFiles |-> put[b].out]]
  <2>1. /\ entry' = [entry EXCEPT ![put[b].key] = e]
        /\ SetPut(b, [put[b] EXCEPT !.pc = "list"]) /\ put[b].pc = "mv"
    BY <1>8 DEF MvRename
  <2>2. e \in Entries /\ \A f \in EntryFiles : e.file[f] = put[b].out
    BY <1>0, NoEntryType DEF Entries
  <2>3. /\ entry' \in [Keys -> Entries]
        /\ \A x \in Keys, f \in EntryFiles :
              entry'[x].file[f] = IF x = put[b].key THEN put[b].out ELSE entry[x].file[f]
    <3> HIDE DEF e
    <3> QED
      BY <2>1, <2>2, <1>0
  <2> HIDE DEF e
  <2> QED
    BY <2>1, <2>3, <1>1, <1>3 DEF FileStep, OwnStep, DirCore, PutPcs
<1>9. CASE MvCopy(b)
  <2>1. /\ entry' = [entry EXCEPT ![put[b].key] = [entry[put[b].key] EXCEPT !.exists = TRUE]]
        /\ SetPut(b, [put[b] EXCEPT !.pc = "copy", !.left = EntryFiles])
        /\ put[b].pc = "mv" /\ ~SameFs
    BY <1>9 DEF MvCopy
  <2>2. /\ [entry[put[b].key] EXCEPT !.exists = TRUE] \in Entries
        /\ [entry[put[b].key] EXCEPT !.exists = TRUE].file = entry[put[b].key].file
    BY <1>0 DEF Entries
  <2>3. /\ entry' \in [Keys -> Entries]
        /\ \A x \in Keys, f \in EntryFiles : entry'[x].file[f] = entry[x].file[f]
    BY <2>1, <2>2, <1>0
  <2>4. /\ [put[b] EXCEPT !.pc = "copy", !.left = EntryFiles] \in Puts
        /\ [put[b] EXCEPT !.pc = "copy", !.left = EntryFiles].key = put[b].key
        /\ [put[b] EXCEPT !.pc = "copy", !.left = EntryFiles].out = put[b].out
    BY <1>0 DEF Puts, PutPcs
  <2> QED
    BY <2>1, <2>3, <2>4, <1>1 DEF FileStep, OwnStep, DirCore
<1>10. ASSUME NEW g \in EntryFiles, CopyOpen(b, g)
       PROVE  /\ DirCore' /\ OwnStep(b)
              /\ \A c \in Builds \ {b} : put'[c] = put[c]
              /\ \A k \in Keys, f \in EntryFiles : FileStep(b, k, f)
  <2> DEFINE open == [put[b] EXCEPT !.pc = "write", !.cur = g, !.left = @ \ {g}]
             skip == [put[b] EXCEPT !.left = @ \ {g}]
  <2>0. put[b].pc = "copy"
    BY <1>10 DEF CopyOpen
  <2>1. /\ open \in Puts /\ open.key = put[b].key /\ open.out = put[b].out
        /\ skip \in Puts /\ skip.key = put[b].key /\ skip.out = put[b].out
    BY <1>0 DEF Puts, PutPcs
  <2>2. CASE SetFile(put[b].key, g, Torn) /\ SetPut(b, open)
    <3>1. /\ entry' \in [Keys -> Entries]
          /\ \A x \in Keys, f \in EntryFiles :
                entry'[x].file[f] = IF x = put[b].key /\ f = g THEN Torn ELSE entry[x].file[f]
      BY <2>2, <1>0, <1>4, SetFileFrame
    <3> HIDE DEF open, skip
    <3> QED
      BY <2>0, <2>1, <2>2, <3>1, <1>1 DEF FileStep, OwnStep, DirCore
  <2>3. CASE UNCHANGED entry /\ SetPut(b, skip)
    <3> HIDE DEF open, skip
    <3> QED
      BY <2>0, <2>1, <2>3, <1>1, <1>2 DEF OwnStep, DirCore
  <2> QED
    BY <1>10, <2>2, <2>3 DEF CopyOpen
<1>11. CASE CopyClose(b)
  <2>0. put[b].pc = "write" /\ SetPut(b, [put[b] EXCEPT !.pc = "copy"])
    BY <1>11 DEF CopyClose
  <2>1. CASE SetFile(put[b].key, put[b].cur, put[b].out)
    <3>1. /\ entry' \in [Keys -> Entries]
          /\ \A x \in Keys, f \in EntryFiles :
                entry'[x].file[f] = IF x = put[b].key /\ f = put[b].cur THEN put[b].out
                                    ELSE entry[x].file[f]
      BY <2>1, <1>0, SetFileFrame
    <3> QED
      BY <2>0, <3>1, <1>1, <1>3 DEF FileStep, OwnStep, DirCore, PutPcs
  <2>2. CASE UNCHANGED entry
    BY <2>0, <2>2, <1>1, <1>2, <1>3 DEF OwnStep, DirCore, PutPcs
  <2> QED
    BY <1>11, <2>1, <2>2 DEF CopyClose
<1>12. CASE CopyEnd(b)
  BY <1>12, <1>1, <1>2, <1>3 DEF CopyEnd, OwnStep, DirCore, PutPcs
<1>13. CASE PruneList(b)
  <2>1. Oldest \in SUBSET Keys
    BY DEF Oldest, Listed
  <2> DEFINE r == [put[b] EXCEPT !.pc = "prune", !.victims = Oldest]
  <2>2. r \in Puts /\ r.pc = "prune" /\ r.key = put[b].key /\ r.out = put[b].out
    BY <2>1, <1>0 DEF Puts, PutPcs
  <2>3. SetPut(b, r) /\ UNCHANGED entry /\ put[b].pc = "list"
    BY <1>13 DEF PruneList
  <2> HIDE DEF r
  <2> QED
    BY <2>2, <2>3, <1>1, <1>2 DEF OwnStep, DirCore
<1>14. CASE PruneFile(b)
  <2>1. PICK k \in Keys, f \in EntryFiles : SetFile(k, f, Gone)
    BY <1>14, <1>0 DEF PruneFile, UnlinkFile
  <2>2. /\ entry' \in [Keys -> Entries]
        /\ \A x \in Keys, g \in EntryFiles :
              entry'[x].file[g] = IF x = k /\ g = f THEN Gone ELSE entry[x].file[g]
    BY <2>1, <1>4, SetFileFrame
  <2>3. put' = put /\ put[b].pc = "prune"
    BY <1>14 DEF PruneFile
  <2> QED
    BY <2>2, <2>3, <1>0 DEF FileStep, OwnStep, DirCore
<1>15. CASE PruneRmdir(b)
  <2>1. PICK k \in Keys : Rmdir(k) /\ SetPut(b, [put[b] EXCEPT !.victims = @ \ {k}])
    BY <1>15, <1>0 DEF PruneRmdir
  <2>2. /\ entry' \in [Keys -> Entries]
        /\ \A x \in Keys, f \in EntryFiles : entry'[x].file[f] = entry[x].file[f]
    BY <2>1, RmdirFrame
  <2> DEFINE r == [put[b] EXCEPT !.victims = @ \ {k}]
  <2>3. r \in Puts /\ r.pc = put[b].pc /\ r.key = put[b].key /\ r.out = put[b].out
    BY <1>0 DEF Puts
  <2>4. SetPut(b, r) /\ put[b].pc = "prune"
    BY <2>1, <1>15 DEF PruneRmdir
  <2> HIDE DEF r
  <2> QED
    BY <2>2, <2>3, <2>4, <1>1 DEF FileStep, OwnStep, DirCore
<1>16. CASE PruneEnd(b)
  <2>1. SetPut(b, NoPut) /\ UNCHANGED entry /\ put[b].pc = "prune" /\ NoPut.pc = "idle"
    BY <1>16 DEF PruneEnd, NoPut
  <2> QED
    BY <2>1, <1>1, <1>2, NoPutType DEF OwnStep, DirCore
<1> QED
  BY <1>5, <1>6, <1>7, <1>8, <1>9, <1>10, <1>11, <1>12, <1>13, <1>14, <1>15, <1>16, <1>17 DEF PutStep

(***************************************************************************)
(* Whatever the builds do to each other's entries, a file stays a file of  *)
(* its entry's key; where publishing is a rename it also stays whole.      *)
(***************************************************************************)
LEMMA PutStepOwn ==
    ASSUME DirCore, PutsOwn, EntriesOwn, NEW b \in Builds, PutStep(b)
    PROVE  PutsOwn' /\ EntriesOwn'
BY PutStepFrame DEF PutsOwn, EntriesOwn, FileStep, OwnStep

\* On one file system no step of a publication leaves a file half written.
LEMMA PutStepWhole ==
    ASSUME SameFs, DirCore, PutsOwn, EntriesWhole, NEW b \in Builds, PutStep(b)
    PROVE  EntriesWhole'
BY PutStepFrame DEF PutsOwn, EntriesWhole, FileStep, OwnStep

\* The start of a publication touches no entry.
LEMMA BeginPutFrame ==
    ASSUME DirCore, NEW b \in Builds, NEW k \in Keys, NEW out \in FileContents, BeginPut(b, k, out)
    PROVE  /\ DirCore' /\ entry' = entry
           /\ put'[b].pc = "rm" /\ put'[b].key = k /\ put'[b].out = out
           /\ \A c \in Builds \ {b} : put'[c] = put[c]
<1>1. [NoPut EXCEPT !.pc = "rm", !.key = k, !.out = out] \in Puts
  BY NoPutType DEF Puts, PutPcs
<1> QED
  BY <1>1, NoPutType DEF BeginPut, SetPut, DirCore, Puts

\* The end of a build's process touches no entry.
LEMMA CrashPutFrame ==
    ASSUME DirCore, NEW b \in Builds, CrashPut(b)
    PROVE  /\ DirCore' /\ entry' = entry /\ put'[b].pc = "idle"
           /\ \A c \in Builds \ {b} : put'[c] = put[c]
<1>1. NoPut.pc = "idle"
  BY DEF NoPut
<1> QED
  BY <1>1, NoPutType DEF CrashPut, SetPut, DirCore

\* An empty directory keeps the invariant's parts.
LEMMA DirInitCore == DirInit => DirCore /\ PutsOwn /\ EntriesOwn /\ EntriesWhole
<1> SUFFICES ASSUME DirInit PROVE DirCore /\ PutsOwn /\ EntriesOwn /\ EntriesWhole
  OBVIOUS
<1>1. DirCore
  BY NoEntryType, NoPutType DEF DirInit, DirCore
<1>2. /\ \A b \in Builds : put[b].pc = "idle"
      /\ \A k \in Keys, f \in EntryFiles : entry[k].file[f] = Gone
  BY DEF DirInit, NoPut, NoEntry, NoFiles
<1> QED
  BY <1>1, <1>2 DEF PutsOwn, EntriesOwn, EntriesWhole

\* A touch changes no file of an entry.
LEMMA TouchFrame ==
    ASSUME DirCore, NEW k \in Keys, Touch(k)
    PROVE  /\ entry' \in [Keys -> Entries]
           /\ \A x \in Keys, f \in EntryFiles : entry'[x].file[f] = entry[x].file[f] \/ entry'[x].file[f] = Gone
<1>1. entry \in [Keys -> Entries]
  BY DEF DirCore
<1>2. entry' = [entry EXCEPT ![k] = IF entry[k].exists THEN entry[k] ELSE PlainFile]
  BY DEF Touch
<1>3. \A f \in EntryFiles : PlainFile.file[f] = Gone
  BY PlainFileType DEF NoFiles
<1> QED
  BY <1>1, <1>2, <1>3, PlainFileType

-----------------------------------------------------------------------------
(***************************************************************************)
(* The caches are bounded, for any number of builds.  A build that prunes  *)
(* removes all but CacheMax of the entries it listed, so what is held      *)
(* beyond them when it ends was written since: by builds that had not      *)
(* listed yet, or that listed after it.  The inductive invariant says so   *)
(* of every pruning build b, with since[b] the builds that still publish   *)
(* or prune and did not list before b did.  The program keeps no such      *)
(* record, so the invariant asserts that one exists.                       *)
(***************************************************************************)
Publishing(P) == {b \in Builds : P[b].pc \in {"copy", "write", "list", "prune"}}
Unlisted(P) == {b \in Builds : P[b].pc \in {"copy", "write", "list"}}
KeysIn(P, S) == {P[b].key : b \in S}
AtMost(S, n) == Cardinality(S) <= n

SinceOf(H, P, n, since, b) ==
    /\ since[b] \subseteq Publishing(P) \ {b}
    /\ Unlisted(P) \subseteq since[b]
    /\ \A c \in since[b] : P[c].pc = "prune" => since[c] \subseteq since[b]
    /\ AtMost(H \ (P[b].victims \cup KeysIn(P, since[b])), n)

BoundOK(H, P, n) ==
    /\ AtMost(H \ KeysIn(P, Publishing(P)), n)
    /\ \E since \in [Builds -> SUBSET Builds] :
          \A b \in Builds : P[b].pc = "prune" => SinceOf(H, P, n, since, b)

\* A set of keys within one of at most n has at most n.
LEMMA FewerKeys ==
    ASSUME NEW T \in SUBSET Keys, NEW S \in SUBSET T, NEW n \in Nat, AtMost(T, n)
    PROVE  AtMost(S, n)
<1>1. IsFiniteSet(T) /\ IsFiniteSet(S)
  BY CacheAssumption, FS_Subset
<1>2. Cardinality(S) \in Nat /\ Cardinality(T) \in Nat /\ Cardinality(S) <= Cardinality(T)
  BY <1>1, FS_Subset, FS_CardinalityType
<1> QED
  BY <1>2 DEF AtMost

\* One key more.
LEMMA OneKeyMore ==
    ASSUME NEW T \in SUBSET Keys, NEW k, NEW S \in SUBSET (T \cup {k}), NEW n \in Nat, AtMost(T, n)
    PROVE  AtMost(S, n + 1)
<1>1. IsFiniteSet(T) /\ Cardinality(T) \in Nat
  BY CacheAssumption, FS_Subset, FS_CardinalityType
<1>2. IsFiniteSet(T \cup {k}) /\ Cardinality(T \cup {k}) \in Nat /\ Cardinality(T \cup {k}) <= Cardinality(T) + 1
  BY <1>1, FS_AddElement, FS_CardinalityType
<1>3. Cardinality(S) \in Nat /\ Cardinality(S) <= Cardinality(T \cup {k})
  BY <1>2, FS_Subset, FS_CardinalityType
<1> QED
  BY <1>1, <1>2, <1>3 DEF AtMost

\* A step that neither joins nor leaves the publications, and that holds
\* nothing new but the keys of builds that have not listed.
LEMMA BoundStays ==
    ASSUME NEW H \in SUBSET Keys, NEW G \in SUBSET Keys, NEW P, NEW Q, NEW n \in Nat,
           BoundOK(H, P, n),
           Publishing(Q) = Publishing(P), Unlisted(Q) = Unlisted(P),
           \A b \in Publishing(P) : Q[b].key = P[b].key,
           \A b \in Builds : Q[b].pc = "prune" => P[b].pc = "prune" /\ P[b].victims \cap G \subseteq Q[b].victims,
           G \subseteq H \cup KeysIn(P, Unlisted(P))
    PROVE  BoundOK(G, Q, n)
<1>1. \A S \in SUBSET Publishing(P) : KeysIn(Q, S) = KeysIn(P, S)
  BY DEF KeysIn
<1>2. Unlisted(P) \subseteq Publishing(P)
  BY DEF Unlisted, Publishing
<1>3. AtMost(G \ KeysIn(Q, Publishing(Q)), n)
  <2>1. G \ KeysIn(Q, Publishing(Q)) \subseteq H \ KeysIn(P, Publishing(P))
    BY <1>1, <1>2 DEF KeysIn
  <2> QED
    BY <2>1, FewerKeys DEF BoundOK
<1>4. PICK since \in [Builds -> SUBSET Builds] :
         \A b \in Builds : P[b].pc = "prune" => SinceOf(H, P, n, since, b)
  BY DEF BoundOK
<1>5. ASSUME NEW b \in Builds, Q[b].pc = "prune" PROVE SinceOf(G, Q, n, since, b)
  <2>1. P[b].pc = "prune" /\ P[b].victims \cap G \subseteq Q[b].victims
    BY <1>5
  <2>2. SinceOf(H, P, n, since, b)
    BY <1>4, <2>1
  <2>3. since[b] \subseteq Publishing(Q) \ {b} /\ Unlisted(Q) \subseteq since[b]
    BY <2>2 DEF SinceOf
  <2>4. \A c \in since[b] : Q[c].pc = "prune" => since[c] \subseteq since[b]
    BY <1>4, <2>2 DEF SinceOf
  <2>5. G \ (Q[b].victims \cup KeysIn(Q, since[b])) \subseteq H \ (P[b].victims \cup KeysIn(P, since[b]))
    <3>1. KeysIn(Q, since[b]) = KeysIn(P, since[b])
      BY <1>1, <2>2 DEF SinceOf
    <3>2. KeysIn(P, Unlisted(P)) \subseteq KeysIn(P, since[b])
      BY <2>2 DEF SinceOf, KeysIn
    <3> QED
      BY <2>1, <3>1, <3>2
  <2>6. AtMost(G \ (Q[b].victims \cup KeysIn(Q, since[b])), n)
    BY <2>2, <2>5, FewerKeys DEF SinceOf
  <2> QED
    BY <2>3, <2>4, <2>6 DEF SinceOf
<1> QED
  BY <1>3, <1>4, <1>5 DEF BoundOK

\* Build b's entry arrives in the cache.
LEMMA BoundEnters ==
    ASSUME NEW H \in SUBSET Keys, NEW G \in SUBSET Keys, NEW P, NEW Q, NEW n \in Nat, NEW b \in Builds,
           BoundOK(H, P, n),
           P[b].pc = "mv", Q[b].pc \in {"copy", "list"}, Q[b].key = P[b].key,
           \A c \in Builds \ {b} : Q[c] = P[c],
           G \subseteq H \cup {P[b].key}
    PROVE  BoundOK(G, Q, n)
<1>1. /\ Publishing(Q) = Publishing(P) \cup {b} /\ Unlisted(Q) = Unlisted(P) \cup {b}
      /\ b \notin Publishing(P)
  BY DEF Publishing, Unlisted
<1>2. \A S \in SUBSET Builds : KeysIn(Q, S) = KeysIn(P, S)
  BY DEF KeysIn
<1>3. Publishing(P) \in SUBSET Builds
  BY DEF Publishing
<1>4. AtMost(G \ KeysIn(Q, Publishing(Q)), n)
  <2>1. G \ KeysIn(Q, Publishing(Q)) \subseteq H \ KeysIn(P, Publishing(P))
    BY <1>1, <1>2, <1>3 DEF KeysIn
  <2> QED
    BY <2>1, FewerKeys DEF BoundOK
<1>5. PICK since \in [Builds -> SUBSET Builds] :
         \A c \in Builds : P[c].pc = "prune" => SinceOf(H, P, n, since, c)
  BY DEF BoundOK
<1> DEFINE then == [c \in Builds |-> since[c] \cup {b}]
<1>7. then \in [Builds -> SUBSET Builds] /\ \A c \in Builds : then[c] = since[c] \cup {b}
  BY <1>5
<1> HIDE DEF then
<1>6. ASSUME NEW c \in Builds, Q[c].pc = "prune" PROVE SinceOf(G, Q, n, then, c)
  <2>1. c # b /\ P[c].pc = "prune" /\ Q[c].victims = P[c].victims
    BY <1>6
  <2>2. SinceOf(H, P, n, since, c) /\ then[c] = since[c] \cup {b} /\ then[c] \subseteq Builds
    BY <1>5, <1>7, <2>1
  <2>3. then[c] \subseteq Publishing(Q) \ {c} /\ Unlisted(Q) \subseteq then[c]
    BY <1>1, <2>1, <2>2 DEF SinceOf
  <2>4. \A d \in then[c] : Q[d].pc = "prune" => then[d] \subseteq then[c]
    BY <1>7, <2>2 DEF SinceOf
  <2>5. G \ (Q[c].victims \cup KeysIn(Q, then[c])) \subseteq H \ (P[c].victims \cup KeysIn(P, since[c]))
    <3>1. KeysIn(Q, then[c]) = KeysIn(P, since[c]) \cup {P[b].key}
      BY <1>2, <2>2 DEF KeysIn
    <3> QED
      BY <2>1, <3>1
  <2>6. AtMost(G \ (Q[c].victims \cup KeysIn(Q, then[c])), n)
    <3>1. AtMost(H \ (P[c].victims \cup KeysIn(P, since[c])), n)
      BY <2>2 DEF SinceOf
    <3> QED
      BY <2>5, <3>1, FewerKeys
  <2> QED
    BY <2>3, <2>4, <2>6 DEF SinceOf
<1> QED
  BY <1>4, <1>6, <1>7 DEF BoundOK

\* Build b lists the entries and keeps at most n of the held ones.
LEMMA BoundLists ==
    ASSUME NEW H \in SUBSET Keys, NEW P, NEW Q, NEW n \in Nat, NEW b \in Builds,
           BoundOK(H, P, n),
           P[b].pc = "list", Q[b].pc = "prune", Q[b].key = P[b].key,
           \A c \in Builds \ {b} : Q[c] = P[c],
           AtMost(H \ Q[b].victims, n)
    PROVE  BoundOK(H, Q, n)
<1>1. /\ Publishing(Q) = Publishing(P) /\ Unlisted(Q) = Unlisted(P) \ {b}
      /\ Unlisted(P) \subseteq Publishing(P) /\ b \in Unlisted(P) /\ Unlisted(P) \in SUBSET Builds
      /\ Publishing(P) \in SUBSET Builds
  BY DEF Publishing, Unlisted
<1>2. \A S \in SUBSET Builds : KeysIn(Q, S) = KeysIn(P, S)
  BY DEF KeysIn
<1>3. AtMost(H \ KeysIn(Q, Publishing(Q)), n)
  BY <1>1, <1>2 DEF BoundOK
<1>4. PICK since \in [Builds -> SUBSET Builds] :
         \A c \in Builds : P[c].pc = "prune" => SinceOf(H, P, n, since, c)
  BY DEF BoundOK
<1> DEFINE then == [since EXCEPT ![b] = Unlisted(P) \ {b}]
<1>5. then \in [Builds -> SUBSET Builds] /\ then[b] = Unlisted(P) \ {b} /\ \A c \in Builds \ {b} : then[c] = since[c]
  BY <1>1, <1>4
<1> HIDE DEF then
<1>6. SinceOf(H, Q, n, then, b)
  <2>1. then[b] \subseteq Publishing(Q) \ {b} /\ Unlisted(Q) \subseteq then[b]
    BY <1>1, <1>5
  <2>2. \A c \in then[b] : Q[c].pc # "prune"
    BY <1>5 DEF Unlisted
  <2>3. AtMost(H \ (Q[b].victims \cup KeysIn(Q, then[b])), n)
    <3>1. H \ (Q[b].victims \cup KeysIn(Q, then[b])) \subseteq H \ Q[b].victims
      OBVIOUS
    <3> QED
      BY <3>1, FewerKeys
  <2> QED
    BY <2>1, <2>2, <2>3 DEF SinceOf
<1>7. ASSUME NEW c \in Builds \ {b}, Q[c].pc = "prune" PROVE SinceOf(H, Q, n, then, c)
  <2>1. P[c].pc = "prune" /\ Q[c] = P[c] /\ SinceOf(H, P, n, since, c) /\ then[c] = since[c] /\ since[c] \in SUBSET Builds
    BY <1>4, <1>5, <1>7
  <2>2. then[c] \subseteq Publishing(Q) \ {c} /\ Unlisted(Q) \subseteq then[c]
    BY <1>1, <2>1 DEF SinceOf
  <2>3. \A d \in then[c] : Q[d].pc = "prune" => then[d] \subseteq then[c]
    <3> SUFFICES ASSUME NEW d \in then[c], Q[d].pc = "prune" PROVE then[d] \subseteq then[c]
      OBVIOUS
    <3>1. CASE d = b
      BY <1>5, <2>1, <3>1 DEF SinceOf
    <3>2. CASE d # b
      BY <1>5, <2>1, <3>2 DEF SinceOf
    <3> QED
      BY <3>1, <3>2
  <2>4. AtMost(H \ (Q[c].victims \cup KeysIn(Q, then[c])), n)
    BY <1>2, <2>1 DEF SinceOf
  <2> QED
    BY <2>2, <2>3, <2>4 DEF SinceOf
<1>8. \A c \in Builds : Q[c].pc = "prune" => SinceOf(H, Q, n, then, c)
  BY <1>6, <1>7
<1> QED
  BY <1>3, <1>5, <1>8 DEF BoundOK

\* Build b has removed all it listed.
LEMMA BoundLeaves ==
    ASSUME NEW H \in SUBSET Keys, NEW P, NEW Q, NEW n \in Nat, NEW b \in Builds,
           BoundOK(H, P, n),
           P[b].pc = "prune", P[b].victims = {}, Q[b].pc = "idle",
           \A c \in Builds \ {b} : Q[c] = P[c]
    PROVE  BoundOK(H, Q, n)
<1>1. /\ Publishing(Q) = Publishing(P) \ {b} /\ Unlisted(Q) = Unlisted(P) /\ b \notin Unlisted(P)
      /\ Publishing(P) \in SUBSET Builds
  BY DEF Publishing, Unlisted
<1>2. \A S \in SUBSET (Builds \ {b}) : KeysIn(Q, S) = KeysIn(P, S)
  BY DEF KeysIn
<1>3. PICK since \in [Builds -> SUBSET Builds] :
         \A c \in Builds : P[c].pc = "prune" => SinceOf(H, P, n, since, c)
  BY DEF BoundOK
<1>4. SinceOf(H, P, n, since, b)
  BY <1>3
<1>5. \A S \in SUBSET (Builds \ {b}) : since[b] \subseteq S =>
         /\ H \ KeysIn(Q, S) \subseteq H \ KeysIn(P, since[b])
         /\ AtMost(H \ KeysIn(Q, S), n)
  <2> SUFFICES ASSUME NEW S \in SUBSET (Builds \ {b}), since[b] \subseteq S
               PROVE  /\ H \ KeysIn(Q, S) \subseteq H \ KeysIn(P, since[b])
                      /\ AtMost(H \ KeysIn(Q, S), n)
    OBVIOUS
  <2>1. H \ KeysIn(Q, S) \subseteq H \ KeysIn(P, since[b])
    BY <1>2 DEF KeysIn
  <2>2. AtMost(H \ KeysIn(P, since[b]), n)
    BY <1>4 DEF SinceOf
  <2> QED
    BY <2>1, <2>2, FewerKeys
<1>6. AtMost(H \ KeysIn(Q, Publishing(Q)), n)
  BY <1>1, <1>4, <1>5 DEF SinceOf
<1> DEFINE then == [c \in Builds |-> since[c] \ {b}]
<1>7. then \in [Builds -> SUBSET Builds] /\ \A c \in Builds : then[c] = since[c] \ {b}
  BY <1>3
<1> HIDE DEF then
<1>8. ASSUME NEW c \in Builds, Q[c].pc = "prune" PROVE SinceOf(H, Q, n, then, c)
  <2>1. c # b /\ P[c].pc = "prune" /\ Q[c] = P[c] /\ SinceOf(H, P, n, since, c) /\ since[c] \in SUBSET Builds
    BY <1>3, <1>8
  <2>2. then[c] \subseteq Publishing(Q) \ {c} /\ Unlisted(Q) \subseteq then[c]
    BY <1>1, <1>7, <2>1 DEF SinceOf
  <2>3. \A d \in then[c] : Q[d].pc = "prune" => then[d] \subseteq then[c]
    BY <1>7, <2>1 DEF SinceOf
  <2>4. AtMost(H \ (Q[c].victims \cup KeysIn(Q, then[c])), n)
    <3>1. CASE b \in since[c]
      <4>1. since[b] \subseteq then[c]
        BY <1>4, <1>7, <2>1, <3>1 DEF SinceOf
      <4>2. then[c] \in SUBSET (Builds \ {b})
        BY <1>7, <2>1
      <4>3. AtMost(H \ KeysIn(Q, then[c]), n)
        BY <1>5, <4>1, <4>2
      <4>4. H \ (Q[c].victims \cup KeysIn(Q, then[c])) \subseteq H \ KeysIn(Q, then[c])
        OBVIOUS
      <4> QED
        BY <4>3, <4>4, FewerKeys
    <3>2. CASE b \notin since[c]
      <4>0. since[c] \in SUBSET (Builds \ {b})
        BY <2>1, <3>2
      <4>1. then[c] = since[c] /\ KeysIn(Q, since[c]) = KeysIn(P, since[c])
        <5>0. then[c] = since[c] \ {b}
          BY <1>7
        <5>1. then[c] = since[c]
          BY <3>2, <5>0, Zenon
        <5>2. KeysIn(Q, since[c]) = KeysIn(P, since[c])
          BY <1>2, <4>0
        <5> QED
          BY <5>1, <5>2
      <4> QED
        BY <2>1, <4>1 DEF SinceOf
    <3> QED
      BY <3>1, <3>2
  <2> QED
    BY <2>2, <2>3, <2>4 DEF SinceOf
<1> QED
  BY <1>6, <1>7, <1>8 DEF BoundOK

\* Build b is killed: what it held of the cache stays.
LEMMA BoundCrash ==
    ASSUME NEW H \in SUBSET Keys, NEW P, NEW Q, NEW n \in Nat, NEW b \in Builds,
           BoundOK(H, P, n), Q[b].pc = "idle", \A c \in Builds \ {b} : Q[c] = P[c]
    PROVE  BoundOK(H, Q, n + 1)
<1>1. /\ Publishing(Q) = Publishing(P) \ {b} /\ Unlisted(Q) = Unlisted(P) \ {b}
      /\ Publishing(P) \in SUBSET Builds
  BY DEF Publishing, Unlisted
<1>2. ASSUME NEW S \in SUBSET Builds, NEW V, AtMost(H \ (V \cup KeysIn(P, S)), n)
      PROVE  AtMost(H \ (V \cup KeysIn(Q, S \ {b})), n + 1)
  <2>1. KeysIn(P, S) \subseteq KeysIn(Q, S \ {b}) \cup {P[b].key}
    BY DEF KeysIn
  <2>2. H \ (V \cup KeysIn(Q, S \ {b})) \subseteq (H \ (V \cup KeysIn(P, S))) \cup {P[b].key}
    BY <2>1
  <2> QED
    BY <1>2, <2>2, OneKeyMore
<1>3. AtMost(H \ KeysIn(Q, Publishing(Q)), n + 1)
  <2>1. H \ ({} \cup KeysIn(P, Publishing(P))) = H \ KeysIn(P, Publishing(P))
    OBVIOUS
  <2>2. AtMost(H \ ({} \cup KeysIn(Q, Publishing(P) \ {b})), n + 1)
    BY <1>1, <1>2, <2>1 DEF BoundOK
  <2>3. H \ ({} \cup KeysIn(Q, Publishing(P) \ {b})) = H \ KeysIn(Q, Publishing(Q))
    BY <1>1
  <2> QED
    BY <2>2, <2>3
<1>4. PICK since \in [Builds -> SUBSET Builds] :
         \A c \in Builds : P[c].pc = "prune" => SinceOf(H, P, n, since, c)
  BY DEF BoundOK
<1> DEFINE then == [c \in Builds |-> since[c] \ {b}]
<1>5. then \in [Builds -> SUBSET Builds] /\ \A c \in Builds : then[c] = since[c] \ {b}
  BY <1>4
<1> HIDE DEF then
<1>6. ASSUME NEW c \in Builds, Q[c].pc = "prune" PROVE SinceOf(H, Q, n + 1, then, c)
  <2>1. c # b /\ P[c].pc = "prune" /\ Q[c] = P[c] /\ SinceOf(H, P, n, since, c) /\ since[c] \in SUBSET Builds
    BY <1>4, <1>6
  <2>2. then[c] \subseteq Publishing(Q) \ {c} /\ Unlisted(Q) \subseteq then[c]
    BY <1>1, <1>5, <2>1 DEF SinceOf
  <2>3. \A d \in then[c] : Q[d].pc = "prune" => then[d] \subseteq then[c]
    BY <1>5, <2>1 DEF SinceOf
  <2>4. AtMost(H \ (Q[c].victims \cup KeysIn(Q, then[c])), n + 1)
    BY <1>2, <1>5, <2>1 DEF SinceOf
  <2> QED
    BY <2>2, <2>3, <2>4 DEF SinceOf
<1> QED
  BY <1>3, <1>5, <1>6 DEF BoundOK

(***************************************************************************)
(* The order of the touches: a strict order in which every key of X, an    *)
(* entry that is there or is about to be, is before or after every other.  *)
(***************************************************************************)
RankOK(N, X) ==
    /\ \A x \in Keys : x \notin N[x]
    /\ \A x, y \in Keys : x \in N[y] => N[x] \subseteq N[y]
    /\ \A x \in X, y \in Keys : x # y => x \in N[y] \/ y \in N[x]

Ranked(E, P) == {k \in Keys : E[k].exists} \cup {P[b].key : b \in {c \in Builds : P[c].pc # "idle"}}

\* A touch keeps the order and puts its key in it.
LEMMA BumpRank ==
    ASSUME NEW N \in [Keys -> SUBSET Keys], NEW X \in SUBSET Keys, RankOK(N, X), NEW k \in Keys,
           NEW M, M = [x \in Keys |-> IF x = k THEN {} ELSE N[x] \cup {k}],
           NEW Y \in SUBSET (X \cup {k})
    PROVE  M \in [Keys -> SUBSET Keys] /\ RankOK(M, Y)
<1>1. M[k] = {} /\ \A x \in Keys \ {k} : M[x] = N[x] \cup {k}
  OBVIOUS
<1>2. M \in [Keys -> SUBSET Keys]
  OBVIOUS
<1>3. \A x \in Keys : x \notin M[x]
  BY <1>1 DEF RankOK
<1>4. ASSUME NEW x \in Keys, NEW y \in Keys, x \in M[y] PROVE M[x] \subseteq M[y]
  BY <1>1, <1>4 DEF RankOK
<1>5. ASSUME NEW x \in Y, NEW y \in Keys, x # y PROVE x \in M[y] \/ y \in M[x]
  BY <1>1, <1>5 DEF RankOK
<1> QED
  BY <1>2, <1>3, <1>4, <1>5 DEF RankOK

\* Fewer keys are in the order as well.
LEMMA SubRank ==
    ASSUME NEW N, NEW X, RankOK(N, X), NEW Y \in SUBSET X
    PROVE  RankOK(N, Y)
BY DEF RankOK

(***************************************************************************)
(* tail -n +(max + 1): the entries that have fewer than CacheMax newer     *)
(* ones are at most CacheMax, for the oldest of them has all the others    *)
(* among its newer ones.                                                   *)
(***************************************************************************)
LEMMA NewestFew ==
    ASSUME NEW N \in [Keys -> SUBSET Keys], NEW L \in SUBSET Keys, RankOK(N, L)
    PROVE  AtMost({k \in L : ~(Cardinality(N[k] \cap L) >= CacheMax)}, CacheMax)
<1> DEFINE kept == {k \in L : ~(Cardinality(N[k] \cap L) >= CacheMax)}
           older == {Keys \ N[k] : k \in kept}
<1>0. kept \in SUBSET L /\ kept \in SUBSET Keys /\ CacheMax \in Nat
  BY CacheAssumption
<1>1. CASE kept = {}
  <2> HIDE DEF kept
  <2>1. Cardinality(kept) = 0
    BY <1>1, FS_EmptySet
  <2>2. Cardinality(kept) <= CacheMax
    BY <1>0, <2>1
  <2> QED
    BY <2>2 DEF AtMost, kept
<1>2. CASE kept # {}
  <2>1. older \subseteq SUBSET Keys /\ older # {}
    BY <1>2
  <2>2. IsWellFoundedOn(StrictSubsetOrdering(Keys), SUBSET Keys)
    BY CacheAssumption, FS_StrictSubsetOrderingWellFounded, FS_FiniteSubsetsOfFinite
  <2>3. PICK x \in older : \A y \in older : ~(<<y, x>> \in StrictSubsetOrdering(Keys))
    BY <2>1, <2>2, WFMin
  <2>4. PICK k \in kept : x = Keys \ N[k]
    OBVIOUS
  <2>5. ASSUME NEW y \in kept, y # k PROVE y \in N[k]
    <3>1. SUFFICES ASSUME y \notin N[k] PROVE FALSE
      OBVIOUS
    <3>2. k \in N[y] /\ k \notin N[k] /\ N[k] \subseteq N[y] /\ k \in Keys /\ y \in Keys
      BY <1>0, <2>5, <3>1 DEF RankOK
    <3>3. Keys \ N[y] \in older /\ Keys \ N[y] \in SUBSET Keys /\ Keys \ N[k] \in SUBSET Keys
      OBVIOUS
    <3>4. Keys \ N[y] \subseteq Keys \ N[k] /\ Keys \ N[y] # Keys \ N[k]
      BY <3>2
    <3>5. <<Keys \ N[y], Keys \ N[k]>> \in StrictSubsetOrdering(Keys)
      <4>1. \A A, B \in SUBSET Keys : A \subseteq B /\ A # B => <<A, B>> \in StrictSubsetOrdering(Keys)
        BY DEF StrictSubsetOrdering
      <4> QED
        BY <3>3, <3>4, <4>1
    <3> QED
      BY <2>3, <2>4, <3>3, <3>5
  <2>6. kept \ {k} \subseteq N[k] \cap L
    BY <1>0, <2>5
  <2>7. IsFiniteSet(N[k] \cap L) /\ IsFiniteSet(kept)
    <3>1. N[k] \cap L \in SUBSET Keys
      BY <1>0
    <3> QED
      BY <1>0, <3>1, CacheAssumption, FS_Subset
  <2>8. /\ Cardinality(kept \ {k}) <= Cardinality(N[k] \cap L)
        /\ Cardinality(N[k] \cap L) \in Nat /\ Cardinality(kept) \in Nat
        /\ Cardinality(kept \ {k}) = Cardinality(kept) - 1
    <3> HIDE DEF kept
    <3>1. kept \ {k} \in SUBSET (N[k] \cap L) /\ k \in kept
      BY <2>4, <2>6
    <3> QED
      BY <2>7, <3>1, FS_Subset, FS_CardinalityType, FS_RemoveElement
  <2>9. ~(Cardinality(N[k] \cap L) >= CacheMax)
    BY <2>4
  <2> HIDE DEF kept
  <2>10. Cardinality(kept) <= CacheMax
    BY <1>0, <2>8, <2>9
  <2> QED
    BY <2>10 DEF AtMost, kept
<1> QED
  BY <1>1, <1>2

\* The parts of a client's invariant that bound the cache.
DirBound ==
    /\ newer \in [Keys -> SUBSET Keys] /\ crashes \in Nat
    /\ Held \subseteq Listed
    /\ RankOK(newer, Ranked(entry, put))
    /\ BoundOK(Held, put, CacheMax + crashes)

\* An entry's file is held, and an entry that holds none is not.
LEMMA HeldType ==
    ASSUME DirCore, DirBound
    PROVE  /\ Held \in SUBSET Keys /\ Listed \in SUBSET Keys /\ Listed \subseteq Ranked(entry, put)
           /\ Ranked(entry, put) \in SUBSET Keys /\ CacheMax + crashes \in Nat
           /\ \A b \in Builds : put[b].pc # "idle" => put[b].key \in Ranked(entry, put)
<1>1. Held \in SUBSET Keys /\ Listed \in SUBSET Keys /\ Listed \subseteq Ranked(entry, put)
  BY DEF Held, Listed, Ranked
<1>2. Ranked(entry, put) \in SUBSET Keys
  BY DEF Ranked, DirCore, Puts
<1>3. CacheMax + crashes \in Nat
  BY CacheAssumption DEF DirBound
<1>4. \A b \in Builds : put[b].pc # "idle" => put[b].key \in Ranked(entry, put)
  BY DEF Ranked
<1> QED
  BY <1>1, <1>2, <1>3, <1>4

(***************************************************************************)
(* What the steps do to the entries held and listed.                       *)
(***************************************************************************)
LEMMA SetFileHeld ==
    ASSUME DirCore, NEW k \in Keys, NEW f \in EntryFiles, NEW c \in FileContents, SetFile(k, f, c)
    PROVE  /\ Listed' = Listed /\ Held' \subseteq Held \cup {k}
           /\ c = Gone => Held' \subseteq Held
<1>1. /\ \A x \in Keys : entry'[x].exists = entry[x].exists
      /\ \A x \in Keys, g \in EntryFiles :
            entry'[x].file[g] = IF x = k /\ g = f THEN c ELSE entry[x].file[g]
  BY SetFileFrame
<1>2. Listed' = Listed
  BY <1>1 DEF Listed
<1>3. Held' \subseteq Held \cup {k} /\ (c = Gone => Held' \subseteq Held)
  BY <1>1 DEF Held
<1> QED
  BY <1>2, <1>3

\* An entry is removed once it holds nothing.
LEMMA RmdirHeld ==
    ASSUME DirCore, NEW k \in Keys, Rmdir(k), Held \subseteq Listed
    PROVE  Listed' \subseteq Listed /\ Held' = Held /\ k \notin Held /\ Held' \subseteq Listed'
<1>1. \A x \in Keys, f \in EntryFiles : entry'[x].file[f] = entry[x].file[f]
  BY RmdirFrame
<1>2. Held' = Held
  BY <1>1 DEF Held
<1>3. k \notin Held
  BY DEF Rmdir, Held
<1>4. entry' = entry \/ entry' = [entry EXCEPT ![k] = NoEntry]
  BY DEF Rmdir
<1>5. ~NoEntry.exists /\ entry \in [Keys -> Entries]
  BY DEF NoEntry, DirCore
<1>6. \A x \in Keys \ {k} : entry'[x].exists = entry[x].exists
  BY <1>4, <1>5
<1>7. entry'[k].exists => entry[k].exists
  BY <1>4, <1>5
<1>8. Listed' \subseteq Listed /\ Listed \ {k} \subseteq Listed'
  BY <1>6, <1>7 DEF Listed
<1> QED
  BY <1>2, <1>3, <1>8

\* A touch may list a key, and holds nothing new.
LEMMA TouchBound ==
    ASSUME DirCore, DirBound, NEW k \in Keys, Touch(k), put' = put, crashes' = crashes
    PROVE  DirBound'
<1>0. entry \in [Keys -> Entries]
  BY DEF DirCore
<1>1. entry' = [entry EXCEPT ![k] = IF entry[k].exists THEN entry[k] ELSE PlainFile]
  BY DEF Touch
<1>2. PlainFile.exists /\ \A f \in EntryFiles : PlainFile.file[f] = Gone
  BY PlainFileType DEF NoFiles
<1>3. /\ \A x \in Keys \ {k} : entry'[x] = entry[x]
      /\ entry'[k] = IF entry[k].exists THEN entry[k] ELSE PlainFile
  BY <1>0, <1>1
<1>4. Listed' = Listed \cup {k}
  BY <1>2, <1>3 DEF Listed
<1>5. Held' \subseteq Held
  BY <1>2, <1>3 DEF Held
<1>6. Ranked(entry', put') \in SUBSET (Ranked(entry, put) \cup {k})
  BY <1>3 DEF Ranked
<1>7. newer' \in [Keys -> SUBSET Keys] /\ RankOK(newer', Ranked(entry', put'))
  <2>1. newer \in [Keys -> SUBSET Keys] /\ RankOK(newer, Ranked(entry, put))
    BY DEF DirBound
  <2>2. Ranked(entry, put) \in SUBSET Keys
    BY HeldType
  <2>3. newer' = [x \in Keys |-> IF x = k THEN {} ELSE newer[x] \cup {k}]
    BY DEF Touch, Bump
  <2> QED
    BY <1>6, <2>1, <2>2, <2>3, BumpRank
<1>8. BoundOK(Held', put, CacheMax + crashes)
  <2>1. /\ BoundOK(Held, put, CacheMax + crashes) /\ Held \in SUBSET Keys /\ CacheMax + crashes \in Nat
        /\ Held' \in SUBSET Keys
    BY <1>5, HeldType DEF DirBound
  <2> QED
    BY <1>5, <2>1, BoundStays
<1> QED
  BY <1>4, <1>5, <1>7, <1>8 DEF DirBound

\* The start of a publication by a build that publishes nothing.
LEMMA BeginPutBound ==
    ASSUME DirCore, DirBound, NEW b \in Builds, NEW k \in Keys, NEW out \in FileContents,
           BeginPut(b, k, out), put[b].pc = "idle"
    PROVE  DirBound'
<1>1. /\ entry' = entry /\ crashes' = crashes
      /\ put'[b].pc = "rm" /\ put'[b].key = k /\ \A c \in Builds \ {b} : put'[c] = put[c]
  BY BeginPutFrame DEF BeginPut
<1>2. Ranked(entry', put') \in SUBSET (Ranked(entry, put) \cup {k})
  BY <1>1 DEF Ranked
<1>3. newer' \in [Keys -> SUBSET Keys] /\ RankOK(newer', Ranked(entry', put'))
  <2>1. newer \in [Keys -> SUBSET Keys] /\ RankOK(newer, Ranked(entry, put))
    BY DEF DirBound
  <2>2. Ranked(entry, put) \in SUBSET Keys
    BY HeldType
  <2>3. newer' = [x \in Keys |-> IF x = k THEN {} ELSE newer[x] \cup {k}]
    BY DEF BeginPut, Bump
  <2> QED
    BY <1>2, <2>1, <2>2, <2>3, BumpRank
<1>4. Held' = Held /\ Listed' = Listed
  BY <1>1 DEF Held, Listed
<1>5. Publishing(put') = Publishing(put) /\ Unlisted(put') = Unlisted(put) /\ b \notin Publishing(put)
  BY <1>1 DEF Publishing, Unlisted
<1>6. \A c \in Publishing(put) : put'[c].key = put[c].key
  BY <1>1, <1>5 DEF Publishing
<1>7. \A c \in Builds : put'[c].pc = "prune" => put[c].pc = "prune" /\ put[c].victims \cap Held \subseteq put'[c].victims
  BY <1>1
<1>8. BoundOK(Held, put', CacheMax + crashes)
  <2>1. BoundOK(Held, put, CacheMax + crashes) /\ Held \in SUBSET Keys /\ CacheMax + crashes \in Nat
    BY HeldType DEF DirBound
  <2> QED
    BY <1>5, <1>6, <1>7, <2>1, BoundStays
<1> QED
  BY <1>1, <1>3, <1>4, <1>8 DEF DirBound

\* A build that is killed.
LEMMA CrashPutBound ==
    ASSUME DirCore, DirBound, NEW b \in Builds, CrashPut(b)
    PROVE  DirBound'
<1>1. /\ entry' = entry /\ newer' = newer /\ crashes' = crashes + 1
      /\ put'[b].pc = "idle" /\ \A c \in Builds \ {b} : put'[c] = put[c]
  BY CrashPutFrame DEF CrashPut
<1>2. Ranked(entry', put') \in SUBSET Ranked(entry, put)
  BY <1>1 DEF Ranked
<1>3. RankOK(newer', Ranked(entry', put'))
  BY <1>1, <1>2, SubRank DEF DirBound
<1>4. Held' = Held /\ Listed' = Listed
  BY <1>1 DEF Held, Listed
<1>5. BoundOK(Held, put', (CacheMax + crashes) + 1)
  <2>1. BoundOK(Held, put, CacheMax + crashes) /\ Held \in SUBSET Keys /\ CacheMax + crashes \in Nat
    BY HeldType DEF DirBound
  <2> QED
    BY <1>1, <2>1, BoundCrash
<1>6. crashes' \in Nat /\ CacheMax + crashes' = (CacheMax + crashes) + 1
  BY <1>1, CacheAssumption DEF DirBound
<1> QED
  BY <1>1, <1>3, <1>4, <1>5, <1>6 DEF DirBound

(***************************************************************************)
(* A step that holds and lists what the step's facts say: the order of the *)
(* touches is as before, or one key of an entry that is there was touched. *)
(***************************************************************************)
LEMMA BoundFrom ==
    ASSUME DirCore, DirBound, BoundOK(Held', put', CacheMax + crashes), Held' \subseteq Listed',
           crashes' = crashes, Ranked(entry', put') \in SUBSET Ranked(entry, put),
           newer' = newer \/ \E k \in Keys : Bump(k)
    PROVE  DirBound'
<1>1. newer' \in [Keys -> SUBSET Keys] /\ RankOK(newer', Ranked(entry', put'))
  <2>1. CASE newer' = newer
    BY <2>1, SubRank DEF DirBound
  <2>2. ASSUME NEW k \in Keys, Bump(k) PROVE newer' \in [Keys -> SUBSET Keys] /\ RankOK(newer', Ranked(entry', put'))
    <3>1. Ranked(entry', put') \in SUBSET (Ranked(entry, put) \cup {k})
      OBVIOUS
    <3> QED
      BY <2>2, <3>1, BumpRank, HeldType DEF Bump, DirBound
  <2> QED
    BY <2>1, <2>2
<1> QED
  BY <1>1 DEF DirBound

\* Every step of a publication keeps the bound.
LEMMA PutStepBound ==
    ASSUME DirCore, DirBound, NEW b \in Builds, PutStep(b)
    PROVE  DirBound'
<1> DEFINE p == put[b]
           n == CacheMax + crashes
<1>0. /\ entry \in [Keys -> Entries] /\ put \in [Builds -> Puts]
      /\ p \in Puts /\ p.key \in Keys /\ p.cur \in EntryFiles /\ p.out \in FileContents
      /\ p.victims \in SUBSET Keys /\ Gone \in FileContents /\ Torn \in FileContents
      /\ Held \in SUBSET Keys /\ n \in Nat /\ BoundOK(Held, put, n) /\ Held \subseteq Listed
  BY HeldType DEF DirCore, Puts, FileContents, DirBound
<1>c. crashes' = crashes /\ (newer' = newer \/ \E k \in Keys : Bump(k))
  BY <1>0 DEF PutStep, RmFile, RmEnd, MvInto, MvRefused, MvRename, MvCopy, CopyOpen, CopyClose, CopyEnd,
         PruneList, PruneFile, PruneRmdir, PruneEnd, UnlinkFile
<1>f. /\ DirCore' /\ p.pc # "idle" /\ (put'[b].pc # "idle" => put'[b].key = p.key)
      /\ \A c \in Builds \ {b} : put'[c] = put[c]
  BY PutStepFrame DEF OwnStep
<1>r. ASSUME Listed' \subseteq Listed \cup {p.key} PROVE Ranked(entry', put') \in SUBSET Ranked(entry, put)
  <2>1. p.key \in Ranked(entry, put) /\ Listed \subseteq Ranked(entry, put)
    BY <1>0, <1>f, HeldType
  <2>2. \A c \in Builds : put'[c].pc # "idle" => put'[c].key \in Ranked(entry, put)
    BY <1>f, <2>1, HeldType
  <2>3. {k \in Keys : entry'[k].exists} = Listed'
    BY DEF Listed
  <2> QED
    BY <1>r, <2>1, <2>2, <2>3 DEF Ranked
<1>t. Held' \in SUBSET Keys
  BY DEF Held
<1>s. \A x : SetPut(b, x) => put'[b] = x
  BY <1>0 DEF SetPut
<1>1. ASSUME Listed' \subseteq Listed \cup {p.key}, Held' \subseteq Listed', BoundOK(Held', put', n)
      PROVE  DirBound'
  BY <1>1, <1>c, <1>r, BoundFrom
<1> HIDE DEF n
\* The steps that neither join nor leave the publications.
<1>2. ASSUME Publishing(put') = Publishing(put), Unlisted(put') = Unlisted(put),
             put'[b].pc = "prune" => p.pc = "prune" /\ p.victims \cap Held' \subseteq put'[b].victims,
             Held' \subseteq Held \cup KeysIn(put, Unlisted(put)), put'[b].pc # "idle"
      PROVE  BoundOK(Held', put', n)
  <2>1. \A c \in Publishing(put) : put'[c].key = put[c].key
    BY <1>2, <1>f DEF Publishing
  <2>2. \A c \in Builds : put'[c].pc = "prune" => put[c].pc = "prune" /\ put[c].victims \cap Held' \subseteq put'[c].victims
    BY <1>2, <1>f
  <2> QED
    BY <1>0, <1>2, <1>t, <2>1, <2>2, BoundStays
<1>3. ASSUME put' = put, NEW k \in Keys, NEW f \in EntryFiles, SetFile(k, f, Gone) PROVE DirBound'
  <2>1. Listed' = Listed /\ Held' \subseteq Held
    BY <1>0, <1>3, SetFileHeld
  <2>2. BoundOK(Held', put', n)
    BY <1>2, <1>3, <1>f, <2>1
  <2> QED
    BY <1>0, <1>1, <2>1, <2>2
<1>4. CASE RmFile(b)
  BY <1>0, <1>3, <1>4 DEF RmFile, UnlinkFile
<1>5. CASE PruneFile(b)
  BY <1>0, <1>3, <1>5 DEF PruneFile, UnlinkFile
<1>6. CASE RmEnd(b)
  <2>1. Rmdir(p.key) /\ p.pc = "rm" /\ put'[b].pc = "mv"
    BY <1>0, <1>6 DEF RmEnd, SetPut, Puts
  <2>2. Listed' \subseteq Listed /\ Held' = Held /\ Held' \subseteq Listed'
    BY <1>0, <2>1, RmdirHeld
  <2>3. Publishing(put') = Publishing(put) /\ Unlisted(put') = Unlisted(put)
    BY <1>f, <2>1 DEF Publishing, Unlisted
  <2>4. BoundOK(Held', put', n)
    BY <1>2, <2>1, <2>2, <2>3
  <2> QED
    BY <1>1, <2>2, <2>4
<1>7. CASE MvInto(b) \/ MvRefused(b) \/ MvRename(b) \/ MvCopy(b)
  <2> DEFINE list == [p EXCEPT !.pc = "list"]
             copy == [p EXCEPT !.pc = "copy", !.left = EntryFiles]
  <2>0. list.pc = "list" /\ copy.pc = "copy"
    BY <1>0 DEF Puts
  <2> HIDE DEF list, copy
  <2>1. p.pc = "mv" /\ put'[b].pc \in {"copy", "list"}
    <3>1. p.pc = "mv" /\ (SetPut(b, list) \/ SetPut(b, copy))
      BY <1>7 DEF MvInto, MvRefused, MvRename, MvCopy, list, copy
    <3> QED
      BY <1>s, <2>0, <3>1
  <2>2. \A x \in Keys \ {p.key} : entry'[x] = entry[x]
    BY <1>0, <1>7 DEF MvInto, MvRefused, MvRename, MvCopy
  <2>3. Held' \subseteq Held \cup {p.key} /\ Listed' \subseteq Listed \cup {p.key} /\ Listed \ {p.key} \subseteq Listed'
    BY <2>2 DEF Held, Listed
  <2>4. p.key \in Held' => p.key \in Listed'
    <3>1. CASE MvRefused(b)
      BY <1>0, <3>1 DEF MvRefused, Held, Listed
    <3>2. CASE MvInto(b)
      <4>1. entry' = [entry EXCEPT ![p.key] = [entry[p.key] EXCEPT !.nested = TRUE]] /\ entry[p.key].exists
        BY <3>2 DEF MvInto
      <4>2. entry'[p.key] = [entry[p.key] EXCEPT !.nested = TRUE] /\ entry[p.key] \in Entries
        BY <1>0, <4>1
      <4>3. entry'[p.key].exists
        BY <4>1, <4>2 DEF Entries
      <4> QED
        BY <1>0, <4>3 DEF Listed
    <3>3. CASE MvRename(b)
      <4>1. entry'[p.key] = [NoEntry EXCEPT !.exists = TRUE, !.file = [f \in EntryFiles |-> p.out]]
        BY <1>0, <3>3 DEF MvRename
      <4>2. entry'[p.key].exists
        BY <4>1 DEF NoEntry
      <4> QED
        BY <1>0, <4>2 DEF Listed
    <3>4. CASE MvCopy(b)
      <4>1. entry' = [entry EXCEPT ![p.key] = [entry[p.key] EXCEPT !.exists = TRUE]]
        BY <3>4 DEF MvCopy
      <4>2. entry'[p.key] = [entry[p.key] EXCEPT !.exists = TRUE] /\ entry[p.key] \in Entries
        BY <1>0, <4>1
      <4>3. entry'[p.key].exists
        BY <4>2 DEF Entries
      <4> QED
        BY <1>0, <4>3 DEF Listed
    <3> QED
      BY <1>7, <3>1, <3>2, <3>3, <3>4
  <2>5. Held' \subseteq Listed'
    BY <1>0, <2>3, <2>4
  <2>6. put'[b].key = p.key
    BY <1>f, <2>1
  <2>7. BoundOK(Held', put', n)
    BY <1>0, <1>f, <1>t, <2>1, <2>3, <2>6, BoundEnters
  <2> QED
    BY <1>1, <2>3, <2>5, <2>7
<1>8. ASSUME p.pc \in {"copy", "write"}, put'[b].pc \in {"copy", "write", "list"},
             Held' \subseteq Held \cup {p.key}, Listed' = Listed, p.key \in Held' => p.key \in Listed
      PROVE  DirBound'
  <2>1. Publishing(put') = Publishing(put) /\ Unlisted(put') = Unlisted(put) /\ b \in Unlisted(put)
    BY <1>f, <1>8 DEF Publishing, Unlisted
  <2>2. p.key \in KeysIn(put, Unlisted(put))
    BY <2>1 DEF KeysIn
  <2>3. BoundOK(Held', put', n)
    BY <1>2, <1>8, <2>1, <2>2
  <2> QED
    BY <1>0, <1>1, <1>8, <2>3
<1>9. ASSUME NEW f \in EntryFiles, CopyOpen(b, f) PROVE DirBound'
  <2> DEFINE open == [p EXCEPT !.pc = "write", !.cur = f, !.left = @ \ {f}]
             skip == [p EXCEPT !.left = @ \ {f}]
  <2>0. open.pc = "write" /\ skip.pc = p.pc
    BY <1>0 DEF Puts
  <2>1. p.pc = "copy" /\ put'[b].pc \in {"copy", "write"}
    <3>1. p.pc = "copy" /\ (SetPut(b, open) \/ SetPut(b, skip))
      BY <1>9 DEF CopyOpen
    <3> HIDE DEF open, skip
    <3> QED
      BY <1>s, <2>0, <3>1
  <2>2. CASE entry[p.key].exists /\ ~entry[p.key].plain
    <3>1. SetFile(p.key, f, Torn)
      BY <1>9, <2>2 DEF CopyOpen
    <3>2. Listed' = Listed /\ Held' \subseteq Held \cup {p.key} /\ p.key \in Listed
      BY <1>0, <2>2, <3>1, SetFileHeld DEF Listed
    <3> QED
      BY <1>8, <2>1, <3>2
  <2>3. CASE ~(entry[p.key].exists /\ ~entry[p.key].plain)
    <3>1. entry' = entry
      BY <1>9, <2>3 DEF CopyOpen
    <3>2. Listed' = Listed /\ Held' = Held
      BY <3>1 DEF Listed, Held
    <3> QED
      BY <1>0, <1>8, <2>1, <3>2
  <2> QED
    BY <2>2, <2>3
<1>10. CASE CopyClose(b)
  <2>1. p.pc = "write" /\ put'[b].pc = "copy"
    BY <1>0, <1>10 DEF CopyClose, SetPut, Puts
  <2>2. CASE entry[p.key].file[p.cur] = Torn
    <3>1. SetFile(p.key, p.cur, p.out)
      BY <1>10, <2>2 DEF CopyClose
    <3>2. p.key \in Held
      BY <1>0, <2>2, CacheAssumption DEF Held
    <3>3. Listed' = Listed /\ Held' \subseteq Held \cup {p.key} /\ p.key \in Listed
      BY <1>0, <3>1, <3>2, SetFileHeld
    <3> QED
      BY <1>8, <2>1, <3>3
  <2>3. CASE entry[p.key].file[p.cur] # Torn
    <3>1. entry' = entry
      BY <1>10, <2>3 DEF CopyClose
    <3>2. Listed' = Listed /\ Held' = Held
      BY <3>1 DEF Listed, Held
    <3> QED
      BY <1>0, <1>8, <2>1, <3>2
  <2> QED
    BY <2>2, <2>3
<1>11. CASE CopyEnd(b)
  <2>1. p.pc = "copy" /\ put'[b].pc = "list" /\ entry' = entry
    BY <1>0, <1>11 DEF CopyEnd, SetPut, Puts
  <2>2. Listed' = Listed /\ Held' = Held
    BY <2>1 DEF Listed, Held
  <2> QED
    BY <1>0, <1>8, <2>1, <2>2
<1>12. CASE PruneList(b)
  <2>1. p.pc = "list" /\ put'[b].pc = "prune" /\ put'[b].victims = Oldest /\ entry' = entry
    <3>1. put'[b] = [p EXCEPT !.pc = "prune", !.victims = Oldest]
      BY <1>0, <1>12 DEF PruneList, SetPut
    <3>2. p.pc = "list" /\ entry' = entry
      BY <1>12 DEF PruneList
    <3> QED
      BY <1>0, <3>1, <3>2 DEF Puts
  <2>2. Listed' = Listed /\ Held' = Held
    BY <2>1 DEF Listed, Held
  <2>3. AtMost({k \in Listed : ~(Cardinality(newer[k] \cap Listed) >= CacheMax)}, CacheMax)
    <3>1. newer \in [Keys -> SUBSET Keys] /\ Listed \in SUBSET Keys /\ RankOK(newer, Listed)
      BY HeldType, SubRank DEF DirBound
    <3> QED
      BY <3>1, NewestFew
  <2>4. Held \ Oldest \subseteq {k \in Listed : ~(Cardinality(newer[k] \cap Listed) >= CacheMax)}
    BY <1>0 DEF Oldest
  <2>5. AtMost(Held \ Oldest, CacheMax)
    <3>1. {k \in Listed : ~(Cardinality(newer[k] \cap Listed) >= CacheMax)} \in SUBSET Keys
      BY DEF Listed
    <3>2. CacheMax \in Nat
      BY CacheAssumption
    <3> QED
      BY <2>3, <2>4, <3>1, <3>2, FewerKeys
  <2>6. AtMost(Held \ Oldest, n)
    <3>1. Cardinality(Held \ Oldest) \in Nat
      <4>1. Held \ Oldest \in SUBSET Keys
        BY <1>0
      <4> QED
        BY <4>1, CacheAssumption, FS_Subset, FS_CardinalityType
    <3>2. Cardinality(Held \ Oldest) <= CacheMax /\ CacheMax \in Nat /\ crashes \in Nat
      BY <2>5, CacheAssumption DEF AtMost, DirBound
    <3>3. Cardinality(Held \ Oldest) <= CacheMax + crashes
      BY <3>1, <3>2
    <3> QED
      BY <3>3 DEF AtMost, n
  <2>7. put'[b].key = p.key
    BY <1>f, <2>1
  <2>8. BoundOK(Held, put', n)
    BY <1>0, <1>f, <2>1, <2>6, <2>7, BoundLists
  <2> QED
    BY <1>0, <1>1, <2>2, <2>8
<1>13. CASE PruneRmdir(b)
  <2>1. PICK k \in Keys : Rmdir(k) /\ SetPut(b, [put[b] EXCEPT !.victims = @ \ {k}])
    BY <1>0, <1>13 DEF PruneRmdir
  <2>2. p.pc = "prune" /\ put'[b].pc = "prune" /\ put'[b].victims = p.victims \ {k}
    <3>1. put'[b] = [p EXCEPT !.victims = p.victims \ {k}] /\ p.pc = "prune"
      BY <1>0, <1>13, <2>1 DEF PruneRmdir, SetPut, Puts
    <3> QED
      BY <1>0, <3>1 DEF Puts
  <2>3. Listed' \subseteq Listed /\ Held' = Held /\ k \notin Held /\ Held' \subseteq Listed'
    BY <1>0, <2>1, RmdirHeld
  <2>4. Publishing(put') = Publishing(put) /\ Unlisted(put') = Unlisted(put)
    BY <1>f, <2>2 DEF Publishing, Unlisted
  <2>5. BoundOK(Held', put', n)
    BY <1>2, <2>2, <2>3, <2>4
  <2> QED
    BY <1>1, <2>3, <2>5
<1>14. CASE PruneEnd(b)
  <2>1. p.pc = "prune" /\ p.victims = {} /\ put'[b] = NoPut /\ NoPut.pc = "idle" /\ entry' = entry
    BY <1>0, <1>14 DEF PruneEnd, SetPut, NoPut
  <2>2. Listed' = Listed /\ Held' = Held
    BY <2>1 DEF Listed, Held
  <2>3. BoundOK(Held, put', n)
    BY <1>0, <1>f, <2>1, BoundLeaves
  <2> QED
    BY <1>0, <1>1, <2>2, <2>3
<1> QED
  BY <1>4, <1>5, <1>6, <1>7, <1>9, <1>10, <1>11, <1>12, <1>13, <1>14 DEF PutStep

\* An empty cache is bounded.
LEMMA DirInitBound == DirInit => DirBound
<1> SUFFICES ASSUME DirInit PROVE DirBound
  OBVIOUS
<1>1. newer = [k \in Keys |-> {}] /\ crashes = 0 /\ entry = [k \in Keys |-> NoEntry] /\ put = [b \in Builds |-> NoPut]
  BY DEF DirInit
<1>2. ~NoEntry.exists /\ NoPut.pc = "idle" /\ \A f \in EntryFiles : NoEntry.file[f] = Gone
  BY DEF NoEntry, NoPut, NoFiles
<1>3. Held = {} /\ Ranked(entry, put) = {}
  BY <1>1, <1>2 DEF Held, Ranked
<1>4. RankOK(newer, {}) /\ newer \in [Keys -> SUBSET Keys]
  BY <1>1 DEF RankOK
<1>5. CacheMax + crashes \in Nat
  BY <1>1, CacheAssumption
<1>6. BoundOK({}, put, CacheMax + crashes)
  <2>1. {} \ KeysIn(put, Publishing(put)) = {}
    OBVIOUS
  <2>2. Cardinality({}) <= CacheMax + crashes
    BY <1>5, FS_EmptySet
  <2>3. AtMost({} \ KeysIn(put, Publishing(put)), CacheMax + crashes)
    BY <2>1, <2>2 DEF AtMost
  <2>4. [b \in Builds |-> {}] \in [Builds -> SUBSET Builds]
    OBVIOUS
  <2>5. \A b \in Builds : put[b].pc # "prune"
    BY <1>1, <1>2
  <2> QED
    BY <2>3, <2>4, <2>5 DEF BoundOK
<1> QED
  BY <1>1, <1>3, <1>4, <1>6 DEF DirBound

\* The invariant bounds the cache.
LEMMA DirBounded == DirCore /\ DirBound => CacheBounded
<1> SUFFICES ASSUME DirCore, DirBound PROVE CacheBounded
  OBVIOUS
<1> DEFINE K == KeysIn(put, Pruning)
           named == [b \in Pruning |-> put[b].key]
<1>1. Pruning = Publishing(put) /\ IsFiniteSet(Pruning)
  <2>1. Pruning = Publishing(put) /\ Pruning \in SUBSET Builds
    BY DEF Pruning, Publishing
  <2> QED
    BY <2>1, CacheAssumption, FS_Subset
<1>2. named \in Surjection(Pruning, K)
  BY DEF Surjection, KeysIn
<1>3. IsFiniteSet(K) /\ Cardinality(K) <= Cardinality(Pruning)
  <2> HIDE DEF K, named
  <2> QED
    BY <1>1, <1>2, FS_Surjection
<1> HIDE DEF K, named
<1>4. Held \in SUBSET Keys /\ Held \ K \in SUBSET Keys
  BY HeldType
<1>5. IsFiniteSet(Held \ K) /\ IsFiniteSet(Held)
  BY <1>4, CacheAssumption, FS_Subset
<1>6. Held \in SUBSET ((Held \ K) \cup K)
  OBVIOUS
<1>7. /\ IsFiniteSet((Held \ K) \cup K)
      /\ Cardinality((Held \ K) \cup K) = Cardinality(Held \ K) + Cardinality(K) - Cardinality((Held \ K) \cap K)
  BY <1>3, <1>5, FS_Union
<1>8. (Held \ K) \cap K = {}
  OBVIOUS
<1>9. Cardinality(Held) <= Cardinality((Held \ K) \cup K) /\ Cardinality((Held \ K) \cap K) = 0
  BY <1>6, <1>7, <1>8, FS_Subset, FS_EmptySet
<1>10. Cardinality(Held \ K) <= CacheMax + crashes
  BY <1>1 DEF DirBound, BoundOK, AtMost, K
<1>11. /\ Cardinality(Held) \in Nat /\ Cardinality(K) \in Nat /\ Cardinality(Held \ K) \in Nat
       /\ Cardinality(Pruning) \in Nat /\ Cardinality((Held \ K) \cup K) \in Nat
       /\ CacheMax \in Nat /\ crashes \in Nat
  BY <1>1, <1>3, <1>5, <1>7, FS_CardinalityType, CacheAssumption DEF DirBound
<1>12. Cardinality(Held) <= CacheMax + Cardinality(Pruning) + crashes
  BY <1>3, <1>7, <1>9, <1>10, <1>11
<1> QED
  BY <1>12 DEF CacheBounded

-----------------------------------------------------------------------------
(***************************************************************************)
(* An entry with some of its files has a cause.  While nobody removes      *)
(* entry k and no kill has cut it, every build that copies into it finds   *)
(* the directory there and all the files it has copied so far, so it       *)
(* leaves a whole entry behind; a file is torn only while it is written.   *)
(***************************************************************************)
Busy(P, C, k) == k \in C \/ \E b \in Builds : k \in Removing(P[b])

SoundCopies(E, P, k) == \A c \in Builds : k \in Copying(P[c]) =>
    E[k].exists /\ ~E[k].plain /\ \A f \in EntryFiles \ P[c].left : E[k].file[f] # Gone
TornIsWritten(E, P, k) == \A f \in EntryFiles : E[k].file[f] = Torn =>
    \E c \in Builds : P[c].pc = "write" /\ P[c].key = k /\ P[c].cur = f
PartIsCopied(E, P, k) ==
    \/ EmptyEntry(E[k]) \/ \A f \in EntryFiles : E[k].file[f] # Gone
    \/ \E c \in Builds : k \in Copying(P[c])

KeyOK(E, P, C, k) ==
    /\ ~E[k].exists => ~E[k].plain
    /\ Busy(P, C, k) \/ (SoundCopies(E, P, k) /\ TornIsWritten(E, P, k) /\ PartIsCopied(E, P, k))

CutInv ==
    /\ cut \in SUBSET Keys
    /\ \A b \in Builds : put[b].pc # "idle" => put[b].out \in Keys
    /\ SameFs => \A b \in Builds : put[b].pc \notin {"copy", "write"}
    /\ \A k \in Keys : KeyOK(entry, put, cut, k)

\* The invariant gives every partial entry its cause.
LEMMA CutCause == CutInv => PartialHasCause
BY DEF CutInv, KeyOK, Busy, TornIsWritten, PartIsCopied, PartialHasCause, WholeEntry, EmptyEntry, Copying

\* An entry that nobody touched, while a build that does not copy into it moved on.
LEMMA KeySame ==
    ASSUME NEW E, NEW F, NEW P, NEW Q, NEW C, NEW D, NEW k, NEW b \in Builds,
           KeyOK(E, P, C, k), F[k].exists = E[k].exists, F[k].plain = E[k].plain, F[k].file = E[k].file,
           \A c \in Builds \ {b} : Q[c] = P[c],
           k \notin Copying(P[b]), k \notin Copying(Q[b]),
           k \in C \cup Removing(P[b]) => k \in D \cup Removing(Q[b])
    PROVE  KeyOK(F, Q, D, k)
<1>1. Busy(P, C, k) => Busy(Q, D, k)
  BY DEF Busy
<1>2. SoundCopies(E, P, k) => SoundCopies(F, Q, k)
  BY DEF SoundCopies
<1>3. TornIsWritten(E, P, k) => TornIsWritten(F, Q, k)
  BY DEF TornIsWritten, Copying
<1>4. PartIsCopied(E, P, k) => PartIsCopied(F, Q, k)
  BY DEF PartIsCopied, EmptyEntry
<1> QED
  BY <1>1, <1>2, <1>3, <1>4 DEF KeyOK

\* The same when no publication moved.
LEMMA KeyKept ==
    ASSUME NEW E, NEW F, NEW P, NEW C, NEW k, KeyOK(E, P, C, k), F[k] = E[k]
    PROVE  KeyOK(F, P, C, k)
BY DEF KeyOK, SoundCopies, TornIsWritten, PartIsCopied

\* An entry that somebody is removing needs nothing more.
LEMMA KeyBusy ==
    ASSUME NEW E, NEW P, NEW C, NEW k, Busy(P, C, k), ~E[k].exists => ~E[k].plain
    PROVE  KeyOK(E, P, C, k)
BY DEF KeyOK

\* An entry without files that nobody copies into is as it should be.
LEMMA KeyEmpty ==
    ASSUME NEW E, NEW P, NEW C, NEW k, EmptyEntry(E[k]), ~E[k].exists => ~E[k].plain,
           \A c \in Builds : k \notin Copying(P[c])
    PROVE  KeyOK(E, P, C, k)
BY CacheAssumption DEF KeyOK, SoundCopies, TornIsWritten, PartIsCopied, EmptyEntry

\* Every step of a publication keeps every entry's cause.
LEMMA PutStepCut ==
    ASSUME DirCore, CutInv, NEW b \in Builds, PutStep(b)
    PROVE  CutInv'
<1> DEFINE p == put[b]
           k == p.key
<1>0. /\ entry \in [Keys -> Entries] /\ put \in [Builds -> Puts] /\ p \in Puts /\ k \in Keys
      /\ p.cur \in EntryFiles /\ p.out \in FileContents /\ p.victims \in SUBSET Keys
      /\ p.left \in SUBSET EntryFiles
  BY DEF DirCore, Puts
<1>k. cut \in SUBSET Keys /\ \A x \in Keys : KeyOK(entry, put, cut, x)
  BY DEF CutInv
<1>p. \A x \in Keys : ~entry[x].exists => ~entry[x].plain
  BY <1>k DEF KeyOK
<1>f. /\ p.pc # "idle" /\ OwnStep(b) /\ p.out \in Keys /\ p.out # Gone /\ p.out # Torn
      /\ \A c \in Builds \ {b} : put'[c] = put[c]
  BY PutStepFrame, CacheAssumption DEF OwnStep, CutInv
<1>s. \A r : SetPut(b, r) => put'[b] = r
  BY <1>0 DEF SetPut
<1>t. \A c \in Builds : put'[c].pc # "idle" => put'[c].out \in Keys
  BY <1>f DEF OwnStep, CutInv
<1>u. SameFs => \A c \in Builds : put'[c].pc \notin {"copy", "write"}
  BY <1>f DEF OwnStep, CutInv
<1>1. ASSUME cut' \in SUBSET Keys, \A x \in Keys : KeyOK(entry', put', cut', x) PROVE CutInv'
  BY <1>1, <1>t, <1>u DEF CutInv
\* The entries other than k, when b works on k alone.
<1>2. ASSUME NEW x \in Keys, x # k, entry'[x] = entry[x], x \notin Removing(p), x \in cut => x \in cut',
             put'[b].key = k
      PROVE  KeyOK(entry', put', cut', x)
  <2>1. x \notin Copying(p) /\ x \notin Copying(put'[b])
    BY <1>2 DEF Copying
  <2> QED
    BY <1>2, <1>f, <1>k, <2>1, KeySame
\* A file of an entry that b is removing goes.
<1>3. ASSUME NEW x \in Keys, NEW f \in EntryFiles, SetFile(x, f, Gone), x \in Removing(p), put' = put, cut' = cut
      PROVE  CutInv'
  <2>1. /\ entry'[x].exists = entry[x].exists /\ entry'[x].plain = entry[x].plain
        /\ \A y \in Keys \ {x} : entry'[y] = entry[y]
    <3>1. \A y \in Keys \ {x} : entry'[y] = entry[y]
      BY <1>0, <1>3 DEF SetFile
    <3> QED
      BY <1>3, <3>1, SetFileFrame DEF FileContents
  <2>2. Busy(put, cut, x)
    BY <1>3 DEF Busy
  <2>3. KeyOK(entry', put, cut, x)
    BY <1>p, <2>1, <2>2, KeyBusy
  <2>4. \A y \in Keys \ {x} : KeyOK(entry', put, cut, y)
    BY <1>k, <2>1, KeyKept
  <2> QED
    BY <1>1, <1>3, <1>k, <2>3, <2>4
<1>4. CASE RmFile(b)
  BY <1>0, <1>3, <1>4 DEF RmFile, UnlinkFile, Removing
<1>5. CASE PruneFile(b)
  BY <1>0, <1>3, <1>5 DEF PruneFile, UnlinkFile, Removing
\* An emptied entry goes, and nobody copies into it unless it is cut.
<1>6. ASSUME NEW x \in Keys, Rmdir(x), Copying(p) = {}, Copying(put'[b]) = {},
             Removing(p) \ {x} \subseteq Removing(put'[b])
      PROVE  CutInv'
  <2>1. cut' = (cut \ {x}) \cup CutUnder(x) /\ CutUnder(x) \subseteq {x}
    BY <1>6 DEF Rmdir, CutUnder
  <2>2. \A y \in Keys \ {x} : entry'[y] = entry[y]
    BY <1>0, <1>6 DEF Rmdir
  <2>3. EmptyEntry(entry'[x]) /\ (~entry'[x].exists => ~entry'[x].plain)
    <3>1. EmptyEntry(NoEntry) /\ ~NoEntry.plain
      BY DEF EmptyEntry, NoEntry, NoFiles
    <3>2. entry'[x] = NoEntry \/ (entry'[x] = entry[x] /\ EmptyEntry(entry[x]))
      BY <1>0, <1>6 DEF Rmdir, EmptyEntry
    <3> QED
      BY <1>p, <3>1, <3>2
  <2>4. ASSUME NEW y \in Keys \ {x} PROVE KeyOK(entry', put', cut', y)
    BY <1>6, <1>f, <1>k, <2>1, <2>2, KeySame
  <2>5. CASE \E c \in Builds : x \in Copying(put[c])
    <3>1. x \in cut'
      BY <2>1, <2>5 DEF CutUnder
    <3>2. Busy(put', cut', x)
      BY <3>1 DEF Busy
    <3>3. KeyOK(entry', put', cut', x)
      BY <2>3, <3>2, KeyBusy
    <3> QED
      BY <1>1, <1>k, <2>1, <2>4, <3>3
  <2>6. CASE \A c \in Builds : x \notin Copying(put[c])
    <3>1. \A c \in Builds : x \notin Copying(put'[c])
      BY <1>6, <1>f, <2>6
    <3>2. KeyOK(entry', put', cut', x)
      BY <2>3, <3>1, KeyEmpty
    <3> QED
      BY <1>1, <1>k, <2>1, <2>4, <3>2
  <2> QED
    BY <2>5, <2>6
<1>7. CASE RmEnd(b)
  <2>1. put'[b] = [p EXCEPT !.pc = "mv"] /\ p.pc = "rm" /\ Rmdir(k)
    BY <1>7, <1>s DEF RmEnd
  <2>2. put'[b].pc = "mv"
    BY <1>0, <2>1 DEF Puts
  <2> QED
    BY <1>0, <1>6, <2>1, <2>2 DEF Copying, Removing
<1>8. CASE PruneRmdir(b)
  <2>1. PICK x \in p.victims : Rmdir(x) /\ SetPut(b, [p EXCEPT !.victims = @ \ {x}])
    BY <1>8 DEF PruneRmdir
  <2>2. put'[b] = [p EXCEPT !.victims = p.victims \ {x}] /\ p.pc = "prune"
    BY <1>0, <1>8, <1>s, <2>1 DEF PruneRmdir, Puts
  <2>3. put'[b].pc = "prune" /\ put'[b].victims = p.victims \ {x}
    BY <1>0, <2>2 DEF Puts
  <2>4. Copying(p) = {} /\ Copying(put'[b]) = {} /\ Removing(p) \ {x} \subseteq Removing(put'[b])
    BY <2>2, <2>3 DEF Copying, Removing
  <2> QED
    BY <1>0, <1>6, <2>1, <2>4
\* Steps that change no file and no copy.
<1>9. ASSUME cut' = cut, Copying(p) = {}, Copying(put'[b]) = {}, Removing(p) \subseteq Removing(put'[b]),
             \A x \in Keys : /\ entry'[x].exists = entry[x].exists /\ entry'[x].plain = entry[x].plain
                             /\ entry'[x].file = entry[x].file
      PROVE  CutInv'
  <2>1. \A x \in Keys : KeyOK(entry', put', cut', x)
    BY <1>9, <1>f, <1>k, KeySame
  <2> QED
    BY <1>1, <1>9, <1>k, <2>1
<1>10. CASE MvInto(b) \/ MvRefused(b)
  <2>1. put'[b] = [p EXCEPT !.pc = "list"] /\ p.pc = "mv" /\ cut' = cut
    BY <1>10, <1>s DEF MvInto, MvRefused
  <2>2. put'[b].pc = "list"
    BY <1>0, <2>1 DEF Puts
  <2>3. \A x \in Keys : /\ entry'[x].exists = entry[x].exists /\ entry'[x].plain = entry[x].plain
                        /\ entry'[x].file = entry[x].file
    <3>1. CASE MvRefused(b)
      BY <3>1 DEF MvRefused
    <3>2. CASE MvInto(b)
      <4>1. entry' = [entry EXCEPT ![k] = [entry[k] EXCEPT !.nested = TRUE]]
        BY <3>2 DEF MvInto
      <4> QED
        BY <1>0, <4>1 DEF Entries
    <3> QED
      BY <1>10, <3>1, <3>2
  <2> QED
    BY <1>9, <2>1, <2>2, <2>3 DEF Copying, Removing
<1>11. CASE PruneList(b)
  <2>1. put'[b] = [p EXCEPT !.pc = "prune", !.victims = Oldest] /\ p.pc = "list" /\ cut' = cut /\ entry' = entry
    BY <1>11, <1>s DEF PruneList
  <2>2. put'[b].pc = "prune"
    BY <1>0, <2>1 DEF Puts
  <2> QED
    BY <1>9, <2>1, <2>2 DEF Copying, Removing
<1>12. CASE PruneEnd(b)
  <2>1. put'[b] = NoPut /\ NoPut.pc = "idle" /\ p.pc = "prune" /\ p.victims = {} /\ cut' = cut /\ entry' = entry
    BY <1>12, <1>s DEF PruneEnd, NoPut
  <2> QED
    BY <1>9, <2>1 DEF Copying, Removing
<1>13. CASE MvRename(b)
  <2> DEFINE e == [NoEntry EXCEPT !.exists = TRUE, !.file = [f \in EntryFiles |-> p.out]]
  <2>1. /\ put'[b] = [p EXCEPT !.pc = "list"] /\ p.pc = "mv" /\ cut' = cut \ {k} /\ SameFs
        /\ entry' = [entry EXCEPT ![k] = e]
    BY <1>13, <1>s DEF MvRename
  <2>2. put'[b].pc = "list" /\ put'[b].key = k
    BY <1>0, <2>1 DEF Puts
  <2>3. e.exists /\ \A f \in EntryFiles : e.file[f] # Gone /\ e.file[f] # Torn
    BY <1>f DEF NoEntry
  <2> HIDE DEF e
  <2>4. entry'[k] = e /\ \A x \in Keys \ {k} : entry'[x] = entry[x]
    BY <1>0, <2>1
  <2>5. \A x \in Keys \ {k} : KeyOK(entry', put', cut', x)
    BY <1>2, <2>1, <2>2, <2>4 DEF Removing
  <2>6. \A c \in Builds : k \notin Copying(put'[c])
    BY <1>u, <2>1 DEF Copying
  <2>7. KeyOK(entry', put', cut', k)
    BY <2>3, <2>4, <2>6 DEF KeyOK, SoundCopies, TornIsWritten, PartIsCopied
  <2> QED
    BY <1>0, <1>1, <1>k, <2>1, <2>5, <2>7
\* The steps of a copy: k is busy already, or its copies are sound.
<1>14. ASSUME cut' = cut, Removing(p) = {}, put'[b].key = k, \A x \in Keys \ {k} : entry'[x] = entry[x],
              ~entry'[k].exists => ~entry'[k].plain,
              SoundCopies(entry, put, k) /\ TornIsWritten(entry, put, k) /\ PartIsCopied(entry, put, k)
              => SoundCopies(entry', put', k) /\ TornIsWritten(entry', put', k) /\ PartIsCopied(entry', put', k)
       PROVE  CutInv'
  <2>1. \A x \in Keys \ {k} : KeyOK(entry', put', cut', x)
    BY <1>2, <1>14
  <2>2. Busy(put, cut, k) => Busy(put', cut', k)
    BY <1>14, <1>f DEF Busy
  <2>3. KeyOK(entry', put', cut', k)
    BY <1>0, <1>14, <1>k, <2>2 DEF KeyOK
  <2> QED
    BY <1>0, <1>1, <1>14, <1>k, <2>1, <2>3

<1>15. CASE MvCopy(b)
  <2> DEFINE e == [entry[k] EXCEPT !.exists = TRUE]
  <2>1. /\ put'[b] = [p EXCEPT !.pc = "copy", !.left = EntryFiles] /\ p.pc = "mv" /\ cut' = cut
        /\ entry' = [entry EXCEPT ![k] = e] /\ ~entry[k].exists
    BY <1>15, <1>s DEF MvCopy
  <2>2. put'[b].pc = "copy" /\ put'[b].key = k /\ put'[b].left = EntryFiles
    BY <1>0, <2>1 DEF Puts
  <2>3. e.exists /\ e.plain = entry[k].plain /\ e.file = entry[k].file
    BY <1>0 DEF Entries
  <2> HIDE DEF e
  <2>4. entry'[k] = e /\ \A x \in Keys \ {k} : entry'[x] = entry[x]
    BY <1>0, <2>1
  <2>5. ~entry[k].plain
    BY <1>0, <1>p, <2>1
  <2>6. SoundCopies(entry, put, k) => SoundCopies(entry', put', k)
    BY <1>f, <2>1, <2>2, <2>3, <2>4, <2>5 DEF SoundCopies
  <2>7. TornIsWritten(entry, put, k) => TornIsWritten(entry', put', k)
    BY <1>f, <2>1, <2>3, <2>4 DEF TornIsWritten
  <2>8. PartIsCopied(entry', put', k)
    BY <2>2 DEF PartIsCopied, Copying
  <2> QED
    BY <1>14, <2>1, <2>2, <2>3, <2>4, <2>6, <2>7, <2>8 DEF Removing
<1>16. ASSUME NEW g \in EntryFiles, CopyOpen(b, g) PROVE CutInv'
  <2> DEFINE open == [p EXCEPT !.pc = "write", !.cur = g, !.left = @ \ {g}]
             skip == [p EXCEPT !.left = @ \ {g}]
  <2>0. p.pc = "copy" /\ cut' = cut /\ k \in Copying(p)
    BY <1>16 DEF CopyOpen, Copying
  <2>1. /\ open.pc = "write" /\ open.key = k /\ open.cur = g /\ open.left = p.left \ {g}
        /\ skip.key = k
    BY <1>0 DEF Puts
  <2>2. CASE entry[k].exists /\ ~entry[k].plain
    <3>1. SetFile(k, g, Torn) /\ put'[b] = open
      BY <1>16, <1>s, <2>2 DEF CopyOpen
    <3> HIDE DEF open, skip
    <3>2. /\ entry'[k].exists = entry[k].exists /\ entry'[k].plain = entry[k].plain
          /\ \A f \in EntryFiles : entry'[k].file[f] = IF f = g THEN Torn ELSE entry[k].file[f]
      BY <1>0, <3>1, SetFileFrame DEF FileContents
    <3>3. \A x \in Keys \ {k} : entry'[x] = entry[x]
      BY <1>0, <3>1 DEF SetFile
    <3>4. Torn # Gone
      BY CacheAssumption
    <3>5. SoundCopies(entry, put, k) => SoundCopies(entry', put', k)
      <4> SUFFICES ASSUME SoundCopies(entry, put, k), NEW c \in Builds, k \in Copying(put'[c])
                   PROVE  \A f \in EntryFiles \ put'[c].left : entry'[k].file[f] # Gone
        BY <2>2, <3>2 DEF SoundCopies
      <4>1. CASE c = b
        BY <2>0, <2>1, <3>1, <3>2, <3>4, <4>1 DEF SoundCopies
      <4>2. CASE c # b
        BY <1>f, <3>2, <3>4, <4>2 DEF SoundCopies
      <4> QED
        BY <4>1, <4>2
    <3>6. TornIsWritten(entry, put, k) => TornIsWritten(entry', put', k)
      <4> SUFFICES ASSUME TornIsWritten(entry, put, k), NEW f \in EntryFiles, entry'[k].file[f] = Torn
                   PROVE  \E c \in Builds : put'[c].pc = "write" /\ put'[c].key = k /\ put'[c].cur = f
        BY DEF TornIsWritten
      <4>1. CASE f = g
        BY <2>1, <3>1, <4>1
      <4>2. CASE f # g
        <5>1. PICK c \in Builds : put[c].pc = "write" /\ put[c].key = k /\ put[c].cur = f
          BY <3>2, <4>2 DEF TornIsWritten
        <5>2. c # b
          BY <2>0, <5>1
        <5> QED
          BY <1>f, <5>1, <5>2
      <4> QED
        BY <4>1, <4>2
    <3>7. PartIsCopied(entry', put', k)
      BY <2>1, <3>1 DEF PartIsCopied, Copying
    <3>8. Removing(p) = {} /\ put'[b].key = k /\ (~entry'[k].exists => ~entry'[k].plain)
      BY <2>0, <2>1, <2>2, <3>1, <3>2 DEF Removing
    <3> QED
      BY <1>14, <2>0, <3>3, <3>5, <3>6, <3>7, <3>8
  <2>3. CASE ~(entry[k].exists /\ ~entry[k].plain)
    <3>1. entry' = entry /\ put'[b] = skip
      BY <1>16, <1>s, <2>3 DEF CopyOpen
    <3> HIDE DEF open, skip
    <3>2. ~SoundCopies(entry, put, k)
      BY <2>0, <2>3 DEF SoundCopies
    <3>3. Removing(p) = {} /\ put'[b].key = k
      BY <2>0, <2>1, <3>1 DEF Removing
    <3> QED
      BY <1>0, <1>14, <1>p, <2>0, <3>1, <3>2, <3>3
  <2> QED
    BY <2>2, <2>3
<1>17. CASE CopyClose(b)
  <2>1. put'[b] = [p EXCEPT !.pc = "copy"] /\ p.pc = "write" /\ cut' = cut
    BY <1>17, <1>s DEF CopyClose
  <2>2. put'[b].pc = "copy" /\ put'[b].key = k /\ put'[b].left = p.left
    BY <1>0, <2>1 DEF Puts
  <2>3. /\ entry'[k].exists = entry[k].exists /\ entry'[k].plain = entry[k].plain
        /\ \A f \in EntryFiles : entry'[k].file[f] =
              IF f = p.cur /\ entry[k].file[f] = Torn THEN p.out ELSE entry[k].file[f]
        /\ \A x \in Keys \ {k} : entry'[x] = entry[x]
    <3>1. CASE entry[k].file[p.cur] = Torn
      <4>1. SetFile(k, p.cur, p.out)
        BY <1>17, <3>1 DEF CopyClose
      <4>2. \A x \in Keys \ {k} : entry'[x] = entry[x]
        BY <1>0, <4>1 DEF SetFile
      <4>3. /\ entry'[k].exists = entry[k].exists /\ entry'[k].plain = entry[k].plain
            /\ \A f \in EntryFiles : entry'[k].file[f] = IF f = p.cur THEN p.out ELSE entry[k].file[f]
        BY <1>0, <4>1, SetFileFrame
      <4> QED
        BY <3>1, <4>2, <4>3
    <3>2. CASE entry[k].file[p.cur] # Torn
      BY <1>17, <3>2 DEF CopyClose
    <3> QED
      BY <3>1, <3>2
  <2>4. SoundCopies(entry, put, k) => SoundCopies(entry', put', k)
    <3> SUFFICES ASSUME SoundCopies(entry, put, k), NEW c \in Builds, k \in Copying(put'[c])
                 PROVE  /\ entry'[k].exists /\ ~entry'[k].plain
                        /\ \A f \in EntryFiles \ put'[c].left : entry'[k].file[f] # Gone
      BY DEF SoundCopies
    <3>1. k \in Copying(put[c]) /\ put'[c].left = put[c].left
      BY <1>f, <2>1, <2>2 DEF Copying
    <3> QED
      BY <1>f, <2>3, <3>1 DEF SoundCopies
  <2>5. TornIsWritten(entry, put, k) => TornIsWritten(entry', put', k)
    <3> SUFFICES ASSUME TornIsWritten(entry, put, k), NEW f \in EntryFiles, entry'[k].file[f] = Torn
                 PROVE  \E c \in Builds : put'[c].pc = "write" /\ put'[c].key = k /\ put'[c].cur = f
      BY DEF TornIsWritten
    <3>1. entry[k].file[f] = Torn /\ f # p.cur
      BY <1>f, <2>3
    <3>2. PICK c \in Builds : put[c].pc = "write" /\ put[c].key = k /\ put[c].cur = f
      BY <3>1 DEF TornIsWritten
    <3> QED
      BY <1>f, <3>1, <3>2
  <2>6. PartIsCopied(entry', put', k)
    BY <2>2 DEF PartIsCopied, Copying
  <2>7. Removing(p) = {} /\ (~entry'[k].exists => ~entry'[k].plain)
    BY <1>0, <1>p, <2>1, <2>3 DEF Removing
  <2> QED
    BY <1>14, <2>1, <2>2, <2>3, <2>4, <2>5, <2>6, <2>7
<1>18. CASE CopyEnd(b)
  <2>1. put'[b] = [p EXCEPT !.pc = "list"] /\ p.pc = "copy" /\ p.left = {} /\ cut' = cut /\ entry' = entry
    BY <1>18, <1>s DEF CopyEnd
  <2>2. put'[b].pc = "list" /\ put'[b].key = k
    BY <1>0, <2>1 DEF Puts
  <2>3. SoundCopies(entry, put, k) => SoundCopies(entry', put', k)
    BY <1>f, <2>1, <2>2 DEF SoundCopies, Copying
  <2>4. TornIsWritten(entry, put, k) => TornIsWritten(entry', put', k)
    BY <1>f, <2>1 DEF TornIsWritten
  <2>5. SoundCopies(entry, put, k) => PartIsCopied(entry', put', k)
    BY <2>1 DEF SoundCopies, PartIsCopied, Copying
  <2>6. Removing(p) = {} /\ (~entry'[k].exists => ~entry'[k].plain)
    BY <1>0, <1>p, <2>1 DEF Removing
  <2> QED
    BY <1>14, <2>1, <2>2, <2>3, <2>4, <2>5, <2>6
<1> QED
  BY <1>4, <1>5, <1>7, <1>8, <1>10, <1>11, <1>12, <1>13, <1>15, <1>16, <1>17, <1>18 DEF PutStep

\* A publication that begins, or that is killed, keeps every entry's cause.
LEMMA OtherStepsCut ==
    ASSUME DirCore, CutInv, NEW b \in Builds,
           \/ CrashPut(b)
           \/ put[b].pc = "idle" /\ \E k \in Keys, out \in Keys : BeginPut(b, k, out)
    PROVE  CutInv'
<1> DEFINE p == put[b]
<1>0. put \in [Builds -> Puts] /\ p \in Puts /\ p.key \in Keys /\ p.victims \in SUBSET Keys
  BY DEF DirCore, Puts
<1>k. cut \in SUBSET Keys /\ \A x \in Keys : KeyOK(entry, put, cut, x)
  BY DEF CutInv
<1>1. CASE CrashPut(b)
  <2>1. /\ put'[b] = NoPut /\ entry' = entry /\ cut' = cut \cup Removing(p) \cup Copying(p)
        /\ \A c \in Builds \ {b} : put'[c] = put[c]
    BY <1>0, <1>1 DEF CrashPut, SetPut
  <2>2. NoPut.pc = "idle" /\ Removing(NoPut) = {} /\ Copying(NoPut) = {}
    BY DEF NoPut, Removing, Copying
  <2>3. cut' \in SUBSET Keys
    BY <1>0, <1>k, <2>1 DEF Removing, Copying
  <2>4. ASSUME NEW x \in Keys PROVE KeyOK(entry', put', cut', x)
    <3>1. CASE x \in Copying(p)
      <4>1. Busy(put', cut', x)
        BY <2>1, <3>1 DEF Busy
      <4> QED
        BY <1>k, <2>1, <4>1 DEF KeyOK
    <3>2. CASE x \notin Copying(p)
      <4>1. x \notin Copying(put'[b]) /\ (x \in cut \cup Removing(p) => x \in cut' \cup Removing(put'[b]))
        BY <2>1, <2>2
      <4>2. entry'[x] = entry[x] /\ KeyOK(entry, put, cut, x) /\ \A c \in Builds \ {b} : put'[c] = put[c]
        BY <1>k, <2>1
      <4> QED
        BY <3>2, <4>1, <4>2, KeySame
    <3> QED
      BY <3>1, <3>2
  <2>5. \A c \in Builds : put'[c].pc # "idle" => put'[c] = put[c]
    BY <2>1, <2>2
  <2> QED
    BY <2>3, <2>4, <2>5 DEF CutInv
<1>2. ASSUME p.pc = "idle", NEW k \in Keys, NEW out \in Keys, BeginPut(b, k, out) PROVE CutInv'
  <2>1. /\ entry' = entry /\ put'[b].pc = "rm" /\ put'[b].out = out
        /\ \A c \in Builds \ {b} : put'[c] = put[c]
    BY <1>2, BeginPutFrame DEF FileContents
  <2>2. cut' = cut
    BY <1>2 DEF BeginPut
  <2>3. Removing(p) = {} /\ Copying(p) = {} /\ Copying(put'[b]) = {}
    BY <1>2, <2>1 DEF Removing, Copying
  <2>4. \A x \in Keys : KeyOK(entry', put', cut', x)
    BY <1>k, <2>1, <2>2, <2>3, KeySame
  <2>5. \A c \in Builds : put'[c].pc # "idle" => put'[c].out \in Keys
    BY <2>1 DEF CutInv
  <2>6. SameFs => \A c \in Builds : put'[c].pc \notin {"copy", "write"}
    BY <2>1 DEF CutInv
  <2> QED
    BY <1>k, <2>2, <2>4, <2>5, <2>6 DEF CutInv
<1> QED
  BY <1>1, <1>2

\* A touch keeps every entry's cause.
LEMMA TouchCut ==
    ASSUME DirCore, CutInv, NEW k \in Keys, Touch(k), put' = put, cut' = cut
    PROVE  CutInv'
<1>k. \A x \in Keys : KeyOK(entry, put, cut, x)
  BY DEF CutInv
<1>1. /\ \A x \in Keys \ {k} : entry'[x] = entry[x]
      /\ entry'[k] = IF entry[k].exists THEN entry[k] ELSE PlainFile
  BY DEF Touch, DirCore
<1>2. \A x \in Keys \ {k} : KeyOK(entry', put, cut, x)
  BY <1>1, <1>k, KeyKept
<1>3. KeyOK(entry', put, cut, k)
  <2>1. CASE entry[k].exists
    BY <1>1, <1>k, <2>1, KeyKept
  <2>2. CASE ~entry[k].exists
    <3>1. entry'[k] = PlainFile /\ entry'[k].exists /\ EmptyEntry(entry'[k])
      BY <1>1, <2>2, PlainFileType DEF EmptyEntry, NoFiles
    <3>2. CASE Busy(put, cut, k)
      BY <3>1, <3>2, KeyBusy
    <3>3. CASE ~Busy(put, cut, k)
      <4>1. \A c \in Builds : k \notin Copying(put[c])
        BY <1>k, <2>2, <3>3 DEF KeyOK, SoundCopies
      <4> QED
        BY <3>1, <4>1, KeyEmpty
    <3> QED
      BY <3>2, <3>3
  <2> QED
    BY <2>1, <2>2
<1> QED
  BY <1>2, <1>3 DEF CutInv

\* A cache without entries has no partial one.
LEMMA DirInitCut == DirInit => CutInv
<1> SUFFICES ASSUME DirInit PROVE CutInv
  OBVIOUS
<1>1. /\ entry = [k \in Keys |-> NoEntry] /\ put = [b \in Builds |-> NoPut] /\ cut = {}
  BY DEF DirInit
<1>2. EmptyEntry(NoEntry) /\ ~NoEntry.plain /\ NoPut.pc = "idle" /\ Copying(NoPut) = {}
  BY DEF EmptyEntry, NoEntry, NoFiles, NoPut, Copying
<1>3. \A k \in Keys : KeyOK(entry, put, cut, k)
  BY <1>1, <1>2, KeyEmpty
<1> QED
  BY <1>1, <1>2, <1>3 DEF CutInv
===============================================================================
