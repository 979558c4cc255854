------------------------------- MODULE CacheDir -------------------------------
(***************************************************************************)
(* A directory of cache entries shared by builds that run at once, as the  *)
(* driver's front-end and object caches use it.  An entry is a directory   *)
(* named by a key and holding the files EntryFiles.  A build fills a       *)
(* private entry under its own $WORK and publishes it:                     *)
(*                                                                         *)
(*     rm -rf "$entry"; mv -f "$WORK/entry" "$entry"; cache_prune          *)
(*                                                                         *)
(* rm -rf unlinks the files one by one, in any order.  mv renames when     *)
(* $WORK (mktemp -d) and the cache are on one file system, and otherwise   *)
(* copies file by file; onto a directory that exists it moves INTO it, and *)
(* a plain file it does not replace.  A hit touches the entry it copied.   *)
(* Nothing is locked, and a build may be killed between any two steps.     *)
(***************************************************************************)
EXTENDS Integers, FiniteSets

CONSTANTS
    Builds,      \* builds that may run at once
    Keys,        \* hashes of what an entry was made from
    EntryFiles,  \* the names of the files of an entry
    Gone,        \* the content of a file that is not there
    Torn,        \* the content of a file that is still being written
    SameFs,      \* are $WORK and the cache on one file system?
    CacheMax,    \* IDC_CACHE_ENTRIES, the entries a prune keeps
    MaxCrashes   \* bound on killed builds

ASSUME CacheAssumption ==
    /\ IsFiniteSet(Builds) /\ IsFiniteSet(Keys) /\ Keys # {} /\ EntryFiles # {}
    /\ Gone \notin Keys /\ Torn \notin Keys /\ Gone # Torn
    /\ SameFs \in BOOLEAN /\ CacheMax \in Nat /\ MaxCrashes \in Nat

VARIABLES
    entry,   \* entry[k]: is it there, as a plain file, what junk and files it holds
    newer,   \* newer[k]: the keys touched since k last was
    put,     \* put[b]: how far build b's publication has come
    crashes,
    cut      \* ghost: the entries a killed build was removing or copying, or that
             \* were removed under a copy, and not yet removed or replaced since

dirVars == <<entry, newer, put, crashes, cut>>

\* A file's content is the key of the inputs it was computed from.
FileContents == Keys \cup {Gone, Torn}
NoFiles == [f \in EntryFiles |-> Gone]
NoEntry == [exists |-> FALSE, plain |-> FALSE, nested |-> FALSE, file |-> NoFiles]
PlainFile == [NoEntry EXCEPT !.exists = TRUE, !.plain = TRUE]
Entries == [exists: BOOLEAN, plain: BOOLEAN, nested: BOOLEAN, file: [EntryFiles -> FileContents]]

PutPcs == {"idle", "rm", "mv", "copy", "write", "list", "prune"}
Puts == [pc: PutPcs, key: Keys, out: FileContents, cur: EntryFiles,
         left: SUBSET EntryFiles, victims: SUBSET Keys]
SomeKey == CHOOSE k \in Keys : TRUE
NoPut == [pc |-> "idle", key |-> SomeKey, out |-> Gone,
          cur |-> CHOOSE f \in EntryFiles : TRUE, left |-> {}, victims |-> {}]

DirInit ==
    /\ entry = [k \in Keys |-> NoEntry]
    /\ newer = [k \in Keys |-> {}]
    /\ put = [b \in Builds |-> NoPut]
    /\ crashes = 0
    /\ cut = {}

\* k becomes the most recently touched entry.
Bump(k) == newer' = [x \in Keys |-> IF x = k THEN {} ELSE newer[x] \cup {k}]

\* touch "$entry": a path at which nothing is becomes an empty plain file.
Touch(k) ==
    /\ Bump(k)
    /\ entry' = [entry EXCEPT ![k] = IF entry[k].exists THEN entry[k] ELSE PlainFile]

SetPut(b, r) == put' = [put EXCEPT ![b] = r]
SetFile(k, f, c) == entry' = [entry EXCEPT ![k].file[f] = c]

-----------------------------------------------------------------------------
(***************************************************************************)
(* Publication.  BeginPut is the client's step: its private entry for key  *)
(* k is full, and every file of it was computed from inputs out.  The time *)
(* of the private directory, which a rename keeps, is that of its filling; *)
(* one rank per key stands for it and for the old entry, whose own time    *)
(* rm -rf renews as soon as it unlinks a file of it.                       *)
(***************************************************************************)
BeginPut(b, k, out) ==
    /\ SetPut(b, [NoPut EXCEPT !.pc = "rm", !.key = k, !.out = out])
    /\ Bump(k)
    /\ UNCHANGED <<entry, crashes, cut>>

\* The entries that publication p is removing, and copying, file by file.
Removing(p) == IF p.pc = "rm" THEN {p.key} ELSE IF p.pc = "prune" THEN p.victims ELSE {}
Copying(p) == IF p.pc \in {"copy", "write"} THEN {p.key} ELSE {}

\* Is k the directory that some build is copying into?
CutUnder(k) == {x \in {k} : \E c \in Builds : k \in Copying(put[c])}

\* rm -rf of entry k: a file, and in the end the directory, unless another
\* build has meanwhile moved its own entry into it.
UnlinkFile(k, f) == entry[k].file[f] # Gone /\ SetFile(k, f, Gone) /\ Bump(k)
RmdirEarly(k) ==
    /\ \E f \in EntryFiles : entry[k].file[f] = Gone
    /\ UNCHANGED entry
    /\ cut' = (cut \ {k}) \cup CutUnder(k)

Rmdir(k) ==
    /\ \A f \in EntryFiles : entry[k].file[f] = Gone
    /\ \/ entry' = [entry EXCEPT ![k] = NoEntry]
       \/ entry[k].nested /\ UNCHANGED entry
    /\ cut' = (cut \ {k}) \cup CutUnder(k)

RmFile(b) ==
    /\ put[b].pc = "rm"
    /\ \E f \in EntryFiles : UnlinkFile(put[b].key, f)
    /\ UNCHANGED <<put, crashes, cut>>

RmEnd(b) ==
    /\ put[b].pc = "rm"
    /\ Rmdir(put[b].key)
    /\ SetPut(b, [put[b] EXCEPT !.pc = "mv"])
    /\ UNCHANGED <<newer, crashes>>

\* A new name in a directory changes the directory's time.
MvInto(b) ==
    /\ put[b].pc = "mv" /\ entry[put[b].key].exists /\ ~entry[put[b].key].plain
    /\ entry' = [entry EXCEPT ![put[b].key].nested = TRUE]
    /\ SetPut(b, [put[b] EXCEPT !.pc = "list"])
    /\ Bump(put[b].key)
    /\ UNCHANGED <<crashes, cut>>

\* A directory does not replace a plain file.
MvRefused(b) ==
    /\ put[b].pc = "mv" /\ entry[put[b].key].plain
    /\ SetPut(b, [put[b] EXCEPT !.pc = "list"])
    /\ UNCHANGED <<entry, newer, crashes, cut>>

MvRename(b) ==
    /\ put[b].pc = "mv" /\ ~entry[put[b].key].exists /\ SameFs
    /\ entry' = [entry EXCEPT ![put[b].key] =
                    [NoEntry EXCEPT !.exists = TRUE, !.file = [f \in EntryFiles |-> put[b].out]]]
    /\ SetPut(b, [put[b] EXCEPT !.pc = "list"])
    /\ cut' = cut \ {put[b].key}
    /\ UNCHANGED <<newer, crashes>>

MvCopy(b) ==
    /\ put[b].pc = "mv" /\ ~entry[put[b].key].exists /\ ~SameFs
    /\ entry' = [entry EXCEPT ![put[b].key].exists = TRUE]
    /\ SetPut(b, [put[b] EXCEPT !.pc = "copy", !.left = EntryFiles])
    /\ UNCHANGED <<newer, crashes, cut>>

\* A file is created, which fails when the directory has gone, and then filled.
CopyOpen(b, f) ==
    /\ put[b].pc = "copy" /\ f \in put[b].left
    /\ IF entry[put[b].key].exists /\ ~entry[put[b].key].plain
       THEN /\ SetFile(put[b].key, f, Torn)
            /\ SetPut(b, [put[b] EXCEPT !.pc = "write", !.cur = f, !.left = @ \ {f}])
       ELSE /\ UNCHANGED entry
            /\ SetPut(b, [put[b] EXCEPT !.left = @ \ {f}])
    /\ UNCHANGED <<newer, crashes, cut>>

CopyClose(b) ==
    /\ put[b].pc = "write"
    /\ IF entry[put[b].key].file[put[b].cur] = Torn
       THEN SetFile(put[b].key, put[b].cur, put[b].out)
       ELSE UNCHANGED entry
    /\ SetPut(b, [put[b] EXCEPT !.pc = "copy"])
    /\ UNCHANGED <<newer, crashes, cut>>

CopyEnd(b) ==
    /\ put[b].pc = "copy" /\ put[b].left = {}
    /\ SetPut(b, [put[b] EXCEPT !.pc = "list"])
    /\ UNCHANGED <<entry, newer, crashes, cut>>

(***************************************************************************)
(* cache_prune: the entries are listed once, newest first; the ones past   *)
(* the first CacheMax are then removed one by one, whatever became of them *)
(* in between.                                                             *)
(***************************************************************************)
Listed == {k \in Keys : entry[k].exists}
OldestPastOneMore == {k \in Listed : Cardinality(newer[k] \cap Listed) > CacheMax}

Oldest == {k \in Listed : Cardinality(newer[k] \cap Listed) >= CacheMax}

PruneList(b) ==
    /\ put[b].pc = "list"
    /\ SetPut(b, [put[b] EXCEPT !.pc = "prune", !.victims = Oldest])
    /\ UNCHANGED <<entry, newer, crashes, cut>>

PruneFile(b) ==
    /\ put[b].pc = "prune"
    /\ \E k \in put[b].victims, f \in EntryFiles : UnlinkFile(k, f)
    /\ UNCHANGED <<put, crashes, cut>>

PruneRmdir(b) ==
    /\ put[b].pc = "prune"
    /\ \E k \in put[b].victims :
          /\ Rmdir(k)
          /\ SetPut(b, [put[b] EXCEPT !.victims = @ \ {k}])
    /\ UNCHANGED <<newer, crashes>>

PruneEnd(b) ==
    /\ put[b].pc = "prune" /\ put[b].victims = {}
    /\ SetPut(b, NoPut)
    /\ UNCHANGED <<entry, newer, crashes, cut>>

PutStep(b) ==
    \/ RmFile(b) \/ RmEnd(b)
    \/ MvInto(b) \/ MvRefused(b) \/ MvRename(b) \/ MvCopy(b)
    \/ (\E f \in EntryFiles : CopyOpen(b, f)) \/ CopyClose(b) \/ CopyEnd(b)
    \/ PruneList(b) \/ PruneFile(b) \/ PruneRmdir(b) \/ PruneEnd(b)

\* Build b is killed: $WORK and what b was doing are lost, the cache stays.
CrashPut(b) ==
    /\ crashes < MaxCrashes
    /\ SetPut(b, NoPut)
    /\ crashes' = crashes + 1
    /\ cut' = cut \cup Removing(put[b]) \cup Copying(put[b])
    /\ UNCHANGED <<entry, newer>>

-----------------------------------------------------------------------------
\* The part of a client's type invariant that is about the directory.
DirCore == entry \in [Keys -> Entries] /\ put \in [Builds -> Puts]
DirTypeOK == DirCore /\ newer \in [Keys -> SUBSET Keys] /\ crashes \in Nat /\ cut \in SUBSET Keys

\* What a publication carries was computed from the inputs that its key names,
PutsOwn == \A b \in Builds : put[b].pc # "idle" => put[b].out = put[b].key

\* so every file of an entry belongs to the entry's key,
EntriesOwn == \A k \in Keys, f \in EntryFiles : entry[k].file[f] \in {Gone, Torn, k}

\* and on one file system it is there whole or not at all.
EntriesWhole ==
    /\ \A k \in Keys, f \in EntryFiles : entry[k].file[f] \in {Gone, k}
    /\ \A b \in Builds : put[b].pc \notin {"copy", "write"}

(***************************************************************************)
(* "so neither cache below can grow without bound": beyond CacheMax        *)
(* entries that hold anything there is, for each, a build that has         *)
(* published and not yet pruned, or one that was killed there.             *)
(***************************************************************************)
Pruning == {b \in Builds : put[b].pc \in {"copy", "write", "list", "prune"}}
Held == {k \in Keys : \E f \in EntryFiles : entry[k].file[f] # Gone}
CacheBounded == Cardinality(Held) <= CacheMax + Cardinality(Pruning) + crashes

(***************************************************************************)
(* A hit is decided on one file, "if [ -f "$FE_ENTRY/rc" ]", so an entry    *)
(* that has only some of its files gives a hit without the others.  Such   *)
(* an entry has a cause: a live build is removing it (rm -rf before its    *)
(* own mv, or cache_prune) or copying into it, or one was killed while it  *)
(* did, or an entry was removed under another build's copy, and nobody has *)
(* removed or replaced the entry since.                                    *)
(***************************************************************************)
WholeEntry(e) == \A f \in EntryFiles : e.file[f] \notin {Gone, Torn}
EmptyEntry(e) == \A f \in EntryFiles : e.file[f] = Gone
PartialHasCause == \A k \in Keys :
    \/ WholeEntry(entry[k]) \/ EmptyEntry(entry[k])
    \/ k \in cut \/ \E b \in Builds : k \in Removing(put[b]) \cup Copying(put[b])
===============================================================================
