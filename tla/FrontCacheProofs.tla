--------------------------- MODULE FrontCacheProofs ---------------------------
(***************************************************************************)
(* Theorems about FrontCache, for any number of builds, keys and edits.    *)
(***************************************************************************)
EXTENDS FrontCache, CacheDirProofs

FeCore == DirCore /\ fe \in [Builds -> FrontEnds] /\ src \in Keys /\ raced \in [Keys -> SUBSET Keys]

\* The streams whose output key k may hold: its own, and the ones an edit
\* made of the sources between a hash of k and the collection after it.
May(R, k) == {k} \cup R[k]

\* A front end r parses such a stream, and has copied the output of such
\* streams; before a lazy build collects, the sources are one of them.
MayOutput(R, t, r) ==
    /\ r.pc = "emit" => StdLazy
    /\ StdLazy /\ r.pc \in {"test", "emit"} => t \in May(R, r.key)
    /\ r.stream \in May(R, r.key)
    /\ \A f \in EntryFiles : r.out[f] \in {Gone, Torn} \cup May(R, r.key)

EntriesMay == \A k \in Keys, f \in EntryFiles : entry[k].file[f] \in {Gone, Torn} \cup May(raced, k)
PutsMay == \A b \in Builds : put[b].pc # "idle" => put[b].out \in May(raced, put[b].key)
FeInv == EntriesMay /\ PutsMay /\ \A b \in Builds : MayOutput(raced, src, fe[b])

\* A front end that has not begun has its type and no output.
LEMMA IdleFe == Idle \in FrontEnds /\ Idle.pc = "idle" /\ Idle.out = NoFiles /\ Idle.stream = Idle.key
<1>1. Idle \in FrontEnds
  BY SomeKeyType DEF Idle, FrontEnds, FileContents, NoFiles
<1>2. Idle.pc = "idle" /\ Idle.out = NoFiles /\ Idle.stream = Idle.key
  BY DEF Idle
<1> QED
  BY <1>1, <1>2

\* It may have been given what it has.
LEMMA IdleMay == ASSUME NEW R, NEW t PROVE MayOutput(R, t, Idle)
BY IdleFe DEF MayOutput, May, NoFiles

\* A build that moves on changes its own front end alone.
LEMMA SetFeFrame ==
    ASSUME FeCore, NEW b \in Builds, NEW r \in FrontEnds, SetFe(b, r)
    PROVE  /\ fe' \in [Builds -> FrontEnds] /\ fe'[b] = r
           /\ \A c \in Builds \ {b} : fe'[c] = fe[c]
BY DEF FeCore, SetFe

\* Every step of a build keeps the front ends' invariant.
LEMMA BuildStepFe ==
    ASSUME FeCore, FeInv, NEW b \in Builds, Begin(b) \/ BuildStep(b) \/ Crash(b)
    PROVE  FeCore' /\ FeInv'
<1>0. /\ DirCore /\ fe[b] \in FrontEnds /\ fe[b].key \in Keys /\ fe[b].stream \in Keys
      /\ EntriesMay /\ PutsMay /\ \A c \in Builds : MayOutput(raced, src, fe[c])
      /\ raced \in [Keys -> SUBSET Keys]
  BY DEF FeCore, FeInv, FrontEnds
<1>s. src' = src /\ raced' = raced
  BY DEF Begin, BuildStep, HitTest, HitCopy, HitEnd, EmitSources, Parse, EndPut, Finish, Crash
<1>1. ASSUME NEW r \in FrontEnds, SetFe(b, r), UNCHANGED <<entry, put>>, MayOutput(raced, src, r)
      PROVE  FeCore' /\ FeInv'
  <2>1. DirCore' /\ EntriesMay' /\ PutsMay'
    BY <1>0, <1>1, <1>s DEF DirCore, EntriesMay, PutsMay
  <2> QED
    BY <1>0, <1>1, <1>s, <2>1, SetFeFrame DEF FeCore, FeInv
<1>2. CASE Begin(b)
  <2> DEFINE r == [Idle EXCEPT !.pc = "test", !.key = src, !.stream = src]
  <2>1. r \in FrontEnds
    BY IdleFe DEF FrontEnds, FeCore
  <2>2. r.pc = "test" /\ r.key = src /\ r.stream = src /\ r.out = NoFiles
    BY IdleFe DEF FrontEnds
  <2>3. SetFe(b, r) /\ UNCHANGED <<entry, put>>
    BY <1>2 DEF Begin, dirVars
  <2> HIDE DEF r
  <2>4. MayOutput(raced, src, r)
    BY <2>2 DEF MayOutput, May, NoFiles
  <2> QED
    BY <2>1, <2>3, <2>4, <1>1
<1>3. CASE HitTest(b)
  <2> DEFINE pc == IF entry[fe[b].key].file["rc"] # Gone THEN "hit" ELSE IF StdLazy THEN "emit" ELSE "parse"
             r == [fe[b] EXCEPT !.pc = pc]
  <2>1. pc \in {"hit", "emit", "parse"} /\ (pc = "emit" => StdLazy) /\ fe[b].pc = "test"
    BY <1>3 DEF HitTest
  <2>2. r \in FrontEnds /\ r.pc = pc /\ r.key = fe[b].key /\ r.stream = fe[b].stream /\ r.out = fe[b].out
    BY <1>0, <2>1 DEF FrontEnds
  <2>3. SetFe(b, r) /\ UNCHANGED <<entry, put>>
    BY <1>3 DEF HitTest, dirVars
  <2> HIDE DEF r, pc
  <2>4. MayOutput(raced, src, r)
    BY <2>1, <2>2, <1>0 DEF MayOutput
  <2> QED
    BY <2>2, <2>3, <2>4, <1>1
<1>4. CASE HitCopy(b)
  <2> DEFINE g == CopyOrder[fe[b].at]
             c == entry[fe[b].key].file[g]
             out == [fe[b].out EXCEPT ![g] = c]
             r == [fe[b] EXCEPT !.out[g] = c, !.at = @ + 1]
  <2>1. g \in EntryFiles /\ fe[b].at \in 1..4
    <3>1. fe[b].at \in 1..4
      BY <1>0, <1>4 DEF HitCopy, FrontEnds
    <3> QED
      BY <3>1, FrontAssumption DEF CopyOrder
  <2>2. c \in {Gone, Torn} \cup May(raced, fe[b].key) /\ c \in FileContents
    <3>1. entry[fe[b].key] \in Entries
      BY <1>0 DEF DirCore
    <3> QED
      BY <2>1, <1>0, <3>1 DEF EntriesMay, Entries
  <2>3. /\ out \in [EntryFiles -> FileContents]
        /\ \A f \in EntryFiles : out[f] \in {Gone, Torn} \cup May(raced, fe[b].key)
    <3> HIDE DEF c, g
    <3> QED
      BY <2>1, <2>2, <1>0 DEF FrontEnds, MayOutput
  <2>4. r = [fe[b] EXCEPT !.out = out, !.at = fe[b].at + 1]
    BY <1>0 DEF FrontEnds
  <2>5. r \in FrontEnds /\ r.pc = fe[b].pc /\ r.key = fe[b].key /\ r.stream = fe[b].stream /\ r.out = out
    <3> HIDE DEF r, out, g, c
    <3>1. \A n \in 1..5 : \A o \in [EntryFiles -> FileContents] :
             [fe[b] EXCEPT !.out = o, !.at = n] \in FrontEnds
      BY <1>0 DEF FrontEnds
    <3>2. fe[b].at + 1 \in 1..5 /\ out \in [EntryFiles -> FileContents]
      BY <2>1, <2>3
    <3>3. r \in FrontEnds
      BY <2>4, <3>1, <3>2
    <3> QED
      BY <1>0, <2>4, <3>3 DEF FrontEnds
  <2>6. SetFe(b, r) /\ UNCHANGED <<entry, put>>
    BY <1>4 DEF HitCopy, dirVars
  <2> HIDE DEF r, out, g, c
  <2>7. MayOutput(raced, src, r)
    BY <2>3, <2>5, <1>0 DEF MayOutput
  <2> QED
    BY <2>5, <2>6, <2>7, <1>1
<1>5. CASE HitEnd(b)
  <2> DEFINE r == [fe[b] EXCEPT !.pc = "done", !.hit = TRUE]
  <2>1. /\ r \in FrontEnds /\ r.pc = "done" /\ r.key = fe[b].key
        /\ r.stream = fe[b].stream /\ r.out = fe[b].out
    BY <1>0 DEF FrontEnds
  <2>2. SetFe(b, r) /\ Touch(fe[b].key) /\ put' = put
    BY <1>5 DEF HitEnd
  <2> HIDE DEF r
  <2>3. MayOutput(raced, src, r)
    BY <2>1, <1>0 DEF MayOutput
  <2>4. DirCore' /\ EntriesMay' /\ PutsMay'
    <3>1. DirCore' /\ PutsMay'
      BY <1>0, <1>s, <2>2, TouchFrame DEF DirCore, PutsMay
    <3>2. EntriesMay'
      BY <1>0, <1>s, <2>2, TouchFrame DEF EntriesMay
    <3> QED
      BY <3>1, <3>2
  <2> QED
    BY <2>1, <2>2, <2>3, <2>4, <1>0, <1>s, SetFeFrame DEF FeCore, FeInv
<1>6. CASE EmitSources(b)
  <2> DEFINE r == [fe[b] EXCEPT !.pc = "parse", !.stream = src]
  <2>1. r \in FrontEnds /\ r.pc = "parse" /\ r.key = fe[b].key /\ r.stream = src /\ r.out = fe[b].out
    BY <1>0 DEF FrontEnds, FeCore
  <2>2. SetFe(b, r) /\ UNCHANGED <<entry, put>> /\ fe[b].pc = "emit"
    BY <1>6 DEF EmitSources, dirVars
  <2> HIDE DEF r
  <2>3. src \in May(raced, fe[b].key)
    BY <1>0, <2>2 DEF MayOutput
  <2>4. MayOutput(raced, src, r)
    BY <1>0, <2>1, <2>3 DEF MayOutput
  <2> QED
    BY <2>1, <2>2, <2>4, <1>1
<1>7. CASE Parse(b)
  <2> DEFINE out == [f \in EntryFiles |-> fe[b].stream]
             r == [fe[b] EXCEPT !.pc = "put", !.out = out]
  <2>1. /\ out \in [EntryFiles -> FileContents] /\ \A f \in EntryFiles : out[f] = fe[b].stream
        /\ fe[b].stream \in May(raced, fe[b].key)
    BY <1>0 DEF FileContents, MayOutput
  <2>2. r \in FrontEnds /\ r.pc = "put" /\ r.key = fe[b].key /\ r.stream = fe[b].stream /\ r.out = out
    <3> HIDE DEF out
    <3> QED
      BY <1>0, <2>1 DEF FrontEnds
  <2>3. SetFe(b, r) /\ BeginPut(b, fe[b].key, fe[b].stream)
    BY <1>0, <1>7 DEF Parse
  <2> HIDE DEF r, out
  <2>4. MayOutput(raced, src, r)
    BY <2>1, <2>2, <1>0 DEF MayOutput
  <2>5. /\ DirCore' /\ entry' = entry
        /\ put'[b].pc = "rm" /\ put'[b].key = fe[b].key /\ put'[b].out = fe[b].stream
        /\ \A x \in Builds \ {b} : put'[x] = put[x]
    BY <2>3, <1>0, BeginPutFrame DEF FileContents
  <2>6. EntriesMay' /\ PutsMay'
    BY <2>1, <2>5, <1>0, <1>s DEF EntriesMay, PutsMay
  <2> QED
    BY <2>2, <2>3, <2>4, <2>5, <2>6, <1>0, <1>s, SetFeFrame DEF FeCore, FeInv
<1>8. CASE EndPut(b)
  <2> DEFINE r == [fe[b] EXCEPT !.pc = "done"]
  <2>1. /\ r \in FrontEnds /\ r.pc = "done" /\ r.key = fe[b].key
        /\ r.stream = fe[b].stream /\ r.out = fe[b].out
    BY <1>0 DEF FrontEnds
  <2>2. SetFe(b, r) /\ UNCHANGED <<entry, put>>
    BY <1>8 DEF EndPut, dirVars
  <2> HIDE DEF r
  <2>3. MayOutput(raced, src, r)
    BY <2>1, <1>0 DEF MayOutput
  <2> QED
    BY <2>1, <2>2, <2>3, <1>1
<1>9. CASE Finish(b)
  BY <1>9, <1>1, IdleFe, IdleMay DEF Finish, dirVars
<1>10. CASE PutStep(b) /\ UNCHANGED <<src, edits, fe, raced>>
  <2>0. /\ DirCore' /\ OwnStep(b) /\ \A c \in Builds \ {b} : put'[c] = put[c]
        /\ \A k \in Keys, f \in EntryFiles : FileStep(b, k, f)
    BY <1>0, <1>10, PutStepFrame
  <2>p. PutsMay'
    BY <1>0, <1>s, <2>0 DEF PutsMay, OwnStep
  <2>e. EntriesMay'
    BY <1>0, <1>s, <2>0 DEF EntriesMay, PutsMay, FileStep
  <2>1. DirCore' /\ PutsMay' /\ EntriesMay'
    BY <2>0, <2>p, <2>e
  <2> QED
    BY <2>1, <1>0, <1>10 DEF FeCore, FeInv
<1>11. CASE Crash(b)
  <2>1. /\ DirCore' /\ entry' = entry /\ put'[b].pc = "idle"
        /\ \A c \in Builds \ {b} : put'[c] = put[c]
    BY <1>0, <1>11, CrashPutFrame DEF Crash
  <2>2. EntriesMay' /\ PutsMay'
    BY <2>1, <1>0, <1>s DEF EntriesMay, PutsMay
  <2>3. SetFe(b, Idle)
    BY <1>11 DEF Crash
  <2> QED
    BY <2>1, <2>2, <2>3, <1>0, <1>s, IdleFe, IdleMay, SetFeFrame DEF FeCore, FeInv
<1> QED
  BY <1>2, <1>3, <1>4, <1>5, <1>6, <1>7, <1>8, <1>9, <1>10, <1>11 DEF BuildStep

\* An edit leaves the builds that have not collected yet their licence.
LEMMA EditFe ==
    ASSUME FeCore, FeInv, NEW s \in Keys, Edit(s)
    PROVE  FeCore' /\ FeInv'
<1>0. /\ raced \in [Keys -> SUBSET Keys] /\ fe \in [Builds -> FrontEnds] /\ UNCHANGED <<entry, put, fe>> /\ src' = s
      /\ raced' = [k \in Keys |-> raced[k] \cup {t \in {s} : k \in BeforeCollection}]
  BY DEF Edit, dirVars, FeCore
<1>1. raced' \in [Keys -> SUBSET Keys]
  BY <1>0
<1>2. \A k \in Keys : May(raced, k) \subseteq May(raced', k)
  BY <1>0 DEF May
<1>3. EntriesMay' /\ PutsMay'
  <2>1. \A b \in Builds : put[b].key \in Keys
    BY DEF FeCore, DirCore, Puts
  <2> QED
    BY <1>0, <1>2, <2>1 DEF FeInv, EntriesMay, PutsMay
<1>4. ASSUME NEW b \in Builds PROVE MayOutput(raced', s, fe[b])
  <2>1. MayOutput(raced, src, fe[b]) /\ fe[b].key \in Keys
    BY <1>0 DEF FeInv, FrontEnds
  <2>2. StdLazy /\ fe[b].pc \in {"test", "emit"} => s \in May(raced', fe[b].key)
    BY <1>0, <2>1 DEF May, BeforeCollection
  <2> QED
    BY <1>2, <2>1, <2>2 DEF MayOutput
<1> QED
  BY <1>0, <1>1, <1>3, <1>4 DEF FeCore, FeInv, DirCore

(***************************************************************************)
(* For any number of builds, edits and kills, with the library loaded      *)
(* lazily (the default) or not: a hit gives a build the output of the      *)
(* stream it hashed, or of one that an edit made of the sources while a    *)
(* lazy build was between its hash of that key and its collection.  So     *)
(* that window is the only one: with the library loaded at once raced      *)
(* stays empty, and the comment in the driver is right.                    *)
(***************************************************************************)
THEOREM FrontNeverAnothers == Spec => []NeverAnothersOutput
<1>1. Init => FeCore /\ FeInv
  <2> SUFFICES ASSUME Init PROVE FeCore /\ FeInv
    OBVIOUS
  <2>1. /\ DirCore /\ src \in Keys /\ fe = [b \in Builds |-> Idle] /\ raced = [k \in Keys |-> {}]
        /\ \A b \in Builds : put[b].pc = "idle"
        /\ \A k \in Keys, f \in EntryFiles : entry[k].file[f] = Gone
    BY DirInitCore DEF Init, DirInit, NoPut, NoEntry, NoFiles
  <2> QED
    BY <2>1, IdleFe, IdleMay DEF FeCore, FeInv, EntriesMay, PutsMay
<1>2. FeCore /\ FeInv /\ [Next]_feVars => FeCore' /\ FeInv'
  <2> SUFFICES ASSUME FeCore, FeInv, [Next]_feVars PROVE FeCore' /\ FeInv'
    OBVIOUS
  <2>1. CASE \E b \in Builds : Begin(b) \/ BuildStep(b) \/ Crash(b)
    BY <2>1, BuildStepFe
  <2>2. ASSUME NEW s \in Keys, Edit(s) PROVE FeCore' /\ FeInv'
    BY <2>2, EditFe
  <2>3. CASE UNCHANGED feVars
    BY <2>3 DEF feVars, dirVars, FeCore, FeInv, DirCore, EntriesMay, PutsMay
  <2> QED
    BY <2>1, <2>2, <2>3 DEF Next
<1>3. FeInv => NeverAnothersOutput
  BY DEF FeInv, NeverAnothersOutput, MayOutput, May
<1> QED
  BY <1>1, <1>2, <1>3, PTL DEF Spec

-----------------------------------------------------------------------------
(***************************************************************************)
(* The front-end cache is bounded, however many builds share it.           *)
(***************************************************************************)
FeBound ==
    /\ FeCore /\ edits \in Nat /\ DirBound
    /\ \A b \in Builds : put[b].pc # "idle" => fe[b].pc = "put"

\* Every step of a build keeps the types and the bound.
LEMMA BuildStepBound ==
    ASSUME FeBound, NEW b \in Builds, Begin(b) \/ BuildStep(b) \/ Crash(b)
    PROVE  FeBound'
<1> DEFINE q == fe[b]
<1>0. /\ DirCore /\ FeCore /\ DirBound /\ q \in FrontEnds /\ q.key \in Keys /\ q.stream \in Keys
      /\ src \in Keys /\ edits \in Nat
      /\ \A c \in Builds : put[c].pc # "idle" => fe[c].pc = "put"
  BY DEF FeBound, FeCore, FrontEnds
<1>s. src' = src /\ edits' = edits /\ raced' = raced
  BY DEF Begin, BuildStep, HitTest, HitCopy, HitEnd, EmitSources, Parse, EndPut, Finish, Crash
<1>1. ASSUME NEW r \in FrontEnds, SetFe(b, r), DirCore', DirBound', put'[b].pc # "idle" => r.pc = "put",
             \A c \in Builds \ {b} : put'[c] = put[c]
      PROVE  FeBound'
  <2>1. fe' \in [Builds -> FrontEnds] /\ fe'[b] = r /\ \A c \in Builds \ {b} : fe'[c] = fe[c]
    BY <1>0, <1>1, SetFeFrame
  <2> QED
    BY <1>0, <1>1, <1>s, <2>1 DEF FeBound, FeCore
<1>2. ASSUME NEW r \in FrontEnds, SetFe(b, r), UNCHANGED dirVars, put[b].pc = "idle"
      PROVE  FeBound'
  <2>1. DirCore' /\ DirBound' /\ put' = put
    BY <1>0, <1>2 DEF dirVars, DirCore, DirBound, Held, Listed
  <2> QED
    BY <1>1, <1>2, <2>1
<1>3. CASE Begin(b)
  <2> DEFINE r == [Idle EXCEPT !.pc = "test", !.key = src, !.stream = src]
  <2>1. r \in FrontEnds
    BY <1>0, IdleFe DEF FrontEnds
  <2>2. SetFe(b, r) /\ UNCHANGED dirVars /\ put[b].pc = "idle"
    BY <1>0, <1>3 DEF Begin
  <2> HIDE DEF r
  <2> QED
    BY <1>2, <2>1, <2>2
<1>4. CASE HitTest(b)
  <2> DEFINE pc == IF entry[q.key].file["rc"] # Gone THEN "hit" ELSE IF StdLazy THEN "emit" ELSE "parse"
             r == [q EXCEPT !.pc = pc]
  <2>1. pc \in {"hit", "emit", "parse"}
    OBVIOUS
  <2>2. r \in FrontEnds
    BY <1>0, <2>1 DEF FrontEnds
  <2>3. SetFe(b, r) /\ UNCHANGED dirVars /\ put[b].pc = "idle"
    BY <1>0, <1>4 DEF HitTest
  <2> HIDE DEF r
  <2> QED
    BY <1>2, <2>2, <2>3
<1>5. CASE HitCopy(b)
  <2> DEFINE g == CopyOrder[q.at]
             out == [q.out EXCEPT ![g] = entry[q.key].file[g]]
             r == [q EXCEPT !.out[g] = entry[q.key].file[g], !.at = @ + 1]
  <2>1. q.at \in 1..4 /\ q.at + 1 \in 1..5
    BY <1>0, <1>5 DEF HitCopy, FrontEnds
  <2>2. g \in EntryFiles
    BY <2>1, FrontAssumption DEF CopyOrder
  <2>3. entry[q.key] \in Entries
    BY <1>0 DEF DirCore
  <2>4. out \in [EntryFiles -> FileContents]
    BY <1>0, <2>2, <2>3 DEF FrontEnds, Entries
  <2>5. r = [q EXCEPT !.out = out, !.at = q.at + 1]
    BY <1>0 DEF FrontEnds
  <2>6. SetFe(b, r) /\ UNCHANGED dirVars /\ put[b].pc = "idle"
    BY <1>0, <1>5 DEF HitCopy
  <2> HIDE DEF r, out
  <2>7. r \in FrontEnds
    <3>1. \A n \in 1..5 : \A o \in [EntryFiles -> FileContents] : [q EXCEPT !.out = o, !.at = n] \in FrontEnds
      BY <1>0 DEF FrontEnds
    <3> QED
      BY <2>1, <2>4, <2>5, <3>1
  <2> QED
    BY <1>2, <2>6, <2>7
<1>6. CASE HitEnd(b)
  <2> DEFINE r == [q EXCEPT !.pc = "done", !.hit = TRUE]
  <2>1. r \in FrontEnds
    BY <1>0 DEF FrontEnds
  <2>2. SetFe(b, r) /\ Touch(q.key) /\ put' = put /\ crashes' = crashes /\ put[b].pc = "idle"
    BY <1>0, <1>6 DEF HitEnd
  <2> HIDE DEF r
  <2>3. DirCore' /\ DirBound'
    BY <1>0, <2>2, TouchFrame, TouchBound DEF DirCore
  <2> QED
    BY <1>1, <2>1, <2>2, <2>3
<1>7. CASE EmitSources(b)
  <2> DEFINE r == [q EXCEPT !.pc = "parse", !.stream = src]
  <2>1. r \in FrontEnds
    BY <1>0 DEF FrontEnds
  <2>2. SetFe(b, r) /\ UNCHANGED dirVars /\ put[b].pc = "idle"
    BY <1>0, <1>7 DEF EmitSources
  <2> HIDE DEF r
  <2> QED
    BY <1>2, <2>1, <2>2
<1>8. CASE Parse(b)
  <2> DEFINE out == [f \in EntryFiles |-> q.stream]
             r == [q EXCEPT !.pc = "put", !.out = out]
  <2>1. out \in [EntryFiles -> FileContents]
    BY <1>0 DEF FileContents
  <2>2. r \in FrontEnds /\ r.pc = "put"
    <3> HIDE DEF out
    <3> QED
      BY <1>0, <2>1 DEF FrontEnds
  <2>3. SetFe(b, r) /\ BeginPut(b, q.key, q.stream) /\ put[b].pc = "idle"
    BY <1>0, <1>8 DEF Parse
  <2> HIDE DEF r, out
  <2>4. DirCore' /\ DirBound' /\ \A c \in Builds \ {b} : put'[c] = put[c]
    BY <1>0, <2>3, BeginPutFrame, BeginPutBound DEF FileContents
  <2> QED
    BY <1>1, <2>2, <2>3, <2>4
<1>9. CASE EndPut(b)
  <2> DEFINE r == [q EXCEPT !.pc = "done"]
  <2>1. r \in FrontEnds
    BY <1>0 DEF FrontEnds
  <2>2. SetFe(b, r) /\ UNCHANGED dirVars /\ put[b].pc = "idle"
    BY <1>9 DEF EndPut
  <2> HIDE DEF r
  <2> QED
    BY <1>2, <2>1, <2>2
<1>10. CASE Finish(b)
  BY <1>0, <1>2, <1>10, IdleFe DEF Finish
<1>11. CASE PutStep(b) /\ UNCHANGED <<src, edits, fe, raced>>
  <2>1. DirCore' /\ DirBound' /\ put[b].pc # "idle" /\ \A c \in Builds \ {b} : put'[c] = put[c]
    BY <1>0, <1>11, PutStepFrame, PutStepBound DEF OwnStep
  <2> QED
    BY <1>0, <1>11, <2>1 DEF FeBound, FeCore
<1>12. CASE Crash(b)
  <2>1. DirCore' /\ DirBound' /\ put'[b].pc = "idle" /\ \A c \in Builds \ {b} : put'[c] = put[c]
    BY <1>0, <1>12, CrashPutFrame, CrashPutBound DEF Crash
  <2> QED
    BY <1>1, <1>12, <2>1, IdleFe DEF Crash
<1> QED
  BY <1>3, <1>4, <1>5, <1>6, <1>7, <1>8, <1>9, <1>10, <1>11, <1>12 DEF BuildStep

\* The invariant of the bound holds in every state.
LEMMA FeBoundHolds == Spec => []FeBound
<1>1. Init => FeBound
  <2> SUFFICES ASSUME Init PROVE FeBound
    OBVIOUS
  <2>1. FeCore /\ DirBound /\ edits = 0
    BY DirInitCore, DirInitBound, IdleFe DEF Init, FeCore
  <2>2. \A b \in Builds : put[b].pc = "idle"
    BY DEF Init, DirInit, NoPut
  <2> QED
    BY <2>1, <2>2 DEF FeBound
<1>2. FeBound /\ [Next]_feVars => FeBound'
  <2> SUFFICES ASSUME FeBound, [Next]_feVars PROVE FeBound'
    OBVIOUS
  <2>1. CASE \E b \in Builds : Begin(b) \/ BuildStep(b) \/ Crash(b)
    BY <2>1, BuildStepBound
  <2>2. ASSUME NEW s \in Keys, Edit(s) PROVE FeBound'
    BY <2>2 DEF Edit, dirVars, FeBound, FeCore, DirCore, DirBound, Held, Listed
  <2>3. CASE UNCHANGED feVars
    BY <2>3 DEF feVars, dirVars, FeBound, FeCore, DirCore, DirBound, Held, Listed
  <2> QED
    BY <2>1, <2>2, <2>3 DEF Next
<1> QED
  BY <1>1, <1>2, PTL DEF Spec

\* Every step of the system keeps every entry's cause.
LEMMA CutHolds == Spec => []CutInv
<1>1. Init => CutInv
  BY DirInitCut DEF Init
<1>2. FeBound /\ CutInv /\ [Next]_feVars => CutInv'
  <2> SUFFICES ASSUME FeBound, CutInv, [Next]_feVars PROVE CutInv'
    OBVIOUS
  <2>0. DirCore /\ fe \in [Builds -> FrontEnds] /\ \A b \in Builds : put[b].pc # "idle" => fe[b].pc = "put"
    BY DEF FeBound, FeCore
  <2>1. ASSUME UNCHANGED dirVars PROVE CutInv'
    BY <2>1 DEF dirVars, CutInv
  <2>2. ASSUME NEW b \in Builds, BuildStep(b) PROVE CutInv'
    <3>0. fe[b].key \in Keys /\ fe[b].stream \in Keys
      BY <2>0 DEF FrontEnds
    <3>1. CASE HitEnd(b)
      BY <2>0, <3>0, <3>1, TouchCut DEF HitEnd
    <3>2. CASE Parse(b)
      <4>1. BeginPut(b, fe[b].key, fe[b].stream) /\ put[b].pc = "idle"
        BY <2>0, <3>2 DEF Parse
      <4> QED
        BY <2>0, <3>0, <4>1, OtherStepsCut
    <3>3. CASE PutStep(b)
      BY <2>0, <3>3, PutStepCut
    <3>4. CASE HitTest(b) \/ HitCopy(b) \/ EmitSources(b) \/ EndPut(b) \/ Finish(b)
      BY <2>1, <3>4 DEF HitTest, HitCopy, EmitSources, EndPut, Finish
    <3> QED
      BY <2>2, <3>1, <3>2, <3>3, <3>4 DEF BuildStep
  <2>3. ASSUME NEW b \in Builds, Crash(b) PROVE CutInv'
    BY <2>0, <2>3, OtherStepsCut DEF Crash
  <2>4. CASE (\E s \in Keys : Edit(s)) \/ (\E b \in Builds : Begin(b)) \/ UNCHANGED feVars
    BY <2>1, <2>4 DEF Edit, Begin, feVars
  <2> QED
    BY <2>2, <2>3, <2>4 DEF Next
<1> QED
  BY <1>1, <1>2, FeBoundHolds, PTL DEF Spec

(***************************************************************************)
(* For any number of builds, keys, edits and kills, whether entries are    *)
(* renamed or copied into the cache: an entry that has some of its files   *)
(* and not others, on which a build's test of rc would hit, is just being  *)
(* removed or copied by a live build, or was left so by a killed one or by *)
(* a removal under a copy.                                                 *)
(***************************************************************************)
THEOREM FrontPartialHasCause == Spec => []PartialHasCause
BY CutHolds, CutCause, PTL

(***************************************************************************)
(* Every variable of the front-end cache keeps its type, through every     *)
(* race and crash of any number of builds.                                 *)
(***************************************************************************)
THEOREM FrontTypes == Spec => []TypeOK
<1>1. FeBound /\ CutInv => TypeOK
  BY DEF FeBound, FeCore, DirBound, CutInv, TypeOK, DirTypeOK
<1> QED
  BY <1>1, FeBoundHolds, CutHolds, PTL

(***************************************************************************)
(* "so neither cache below can grow without bound": for any number of      *)
(* builds that publish and prune at once, in any order and killed anywhere, *)
(* the front-end cache holds at most CacheMax entries beyond the ones of   *)
(* builds that have published and not finished pruning, and one more for   *)
(* each build that was killed.                                             *)
(***************************************************************************)
THEOREM FrontCacheBounded == Spec => []CacheBounded
<1>1. FeBound => CacheBounded
  BY DirBounded DEF FeBound, FeCore
<1> QED
  BY <1>1, FeBoundHolds, PTL
===============================================================================
