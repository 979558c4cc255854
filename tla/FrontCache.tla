------------------------------ MODULE FrontCache ------------------------------
(***************************************************************************)
(* The front-end cache: the outputs and exit codes of idlex|idparse, kept  *)
(* under the hash of what they are computed from.  The key stands for the  *)
(* source stream; the compiler, its flags and the environment, which are   *)
(* hashed with it, do not change here.                                     *)
(*                                                                         *)
(* Without the standard library's lazy loading the stream is written once, *)
(* hashed and parsed.  With it (StdLazy, the default for a program) the    *)
(* key holds the hash of the stream the PLAN was made from, and the stream *)
(* that is parsed is collected again after the key has missed, so an edit  *)
(* between the two puts the output of one stream under the key of another. *)
(* Sources may change at any moment.                                       *)
(***************************************************************************)
EXTENDS CacheDir

CONSTANTS StdLazy, MaxEdits

ASSUME FrontAssumption ==
    /\ EntryFiles = {"raw.out", "lex.err", "parse.err", "rc"}
    /\ StdLazy \in BOOLEAN /\ MaxEdits \in Nat

VARIABLES
    src,    \* the source stream as the files on disk would give it now
    edits,
    fe,     \* fe[b]: build b's front end
    raced   \* ghost: raced[k], the streams the sources became while a lazy build
            \* had hashed k and not yet collected what it parses

feVars == <<dirVars, src, edits, fe, raced>>

\* The order in which a hit copies the entry's files.
CopyOrder == <<"raw.out", "lex.err", "parse.err", "rc">>

FrontEnds == [pc: {"idle", "test", "hit", "emit", "parse", "put", "done"}, key: Keys, stream: Keys,
              at: 1..5, out: [EntryFiles -> FileContents], hit: BOOLEAN]
Idle == [pc |-> "idle", key |-> SomeKey, stream |-> SomeKey, at |-> 1, out |-> NoFiles, hit |-> FALSE]

Init ==
    /\ DirInit
    /\ src \in Keys
    /\ edits = 0
    /\ fe = [b \in Builds |-> Idle]
    /\ raced = [k \in Keys |-> {}]

SetFe(b, r) == fe' = [fe EXCEPT ![b] = r]

\* The keys of the builds between their hash and their second collection.
BeforeCollection == {fe[b].key : b \in {c \in Builds : StdLazy /\ fe[c].pc \in {"test", "emit"}}}

Edit(s) ==
    /\ edits < MaxEdits /\ s # src
    /\ src' = s
    /\ edits' = edits + 1
    /\ raced' = [k \in Keys |-> raced[k] \cup {t \in {s} : k \in BeforeCollection}]
    /\ UNCHANGED <<dirVars, fe>>

\* The stream (or, lazily, the plan's copy of the program's own part of it)
\* is collected and hashed.
Begin(b) ==
    /\ fe[b].pc = "idle"
    /\ SetFe(b, [Idle EXCEPT !.pc = "test", !.key = src, !.stream = src])
    /\ UNCHANGED <<dirVars, src, edits, raced>>

\* if [ -f "$FE_ENTRY/rc" ]
HitTest(b) ==
    /\ fe[b].pc = "test"
    /\ SetFe(b, [fe[b] EXCEPT !.pc = IF entry[fe[b].key].file["rc"] # Gone THEN "hit"
                                     ELSE IF StdLazy THEN "emit" ELSE "parse"])
    /\ UNCHANGED <<dirVars, src, edits, raced>>

\* Three copies and a read, none of them checked.
HitCopy(b) ==
    /\ fe[b].pc = "hit" /\ fe[b].at <= 4
    /\ LET f == CopyOrder[fe[b].at]
       IN SetFe(b, [fe[b] EXCEPT !.out[f] = entry[fe[b].key].file[f], !.at = @ + 1])
    /\ UNCHANGED <<dirVars, src, edits, raced>>

\* touch "$FE_ENTRY"; FE_HIT=1
HitEnd(b) ==
    /\ fe[b].pc = "hit" /\ fe[b].at = 5
    /\ SetFe(b, [fe[b] EXCEPT !.pc = "done", !.hit = TRUE])
    /\ Touch(fe[b].key)
    /\ UNCHANGED <<put, crashes, cut, src, edits, raced>>

\* A miss of a lazy build collects the sources again.
EmitSources(b) ==
    /\ fe[b].pc = "emit"
    /\ SetFe(b, [fe[b] EXCEPT !.pc = "parse", !.stream = src])
    /\ UNCHANGED <<dirVars, src, edits, raced>>

\* run_lex_parse, and the private entry filled with what it gave.
ParseRekeyed(b) ==
    /\ fe[b].pc = "parse"
    /\ SetFe(b, [fe[b] EXCEPT !.pc = "put", !.out = [f \in EntryFiles |-> fe[b].stream]])
    /\ BeginPut(b, src, fe[b].stream)
    /\ UNCHANGED <<src, edits, raced>>

Parse(b) ==
    /\ fe[b].pc = "parse"
    /\ SetFe(b, [fe[b] EXCEPT !.pc = "put", !.out = [f \in EntryFiles |-> fe[b].stream]])
    /\ BeginPut(b, fe[b].key, fe[b].stream)
    /\ UNCHANGED <<src, edits, raced>>

EndPut(b) ==
    /\ fe[b].pc = "put" /\ put[b].pc = "idle"
    /\ SetFe(b, [fe[b] EXCEPT !.pc = "done"])
    /\ UNCHANGED <<dirVars, src, edits, raced>>

Finish(b) ==
    /\ fe[b].pc = "done"
    /\ SetFe(b, Idle)
    /\ UNCHANGED <<dirVars, src, edits, raced>>

Crash(b) ==
    /\ fe[b].pc # "idle"
    /\ CrashPut(b)
    /\ SetFe(b, Idle)
    /\ UNCHANGED <<src, edits, raced>>

BuildStep(b) ==
    \/ HitTest(b) \/ HitCopy(b) \/ HitEnd(b) \/ EmitSources(b) \/ Parse(b) \/ EndPut(b) \/ Finish(b)
    \/ PutStep(b) /\ UNCHANGED <<src, edits, fe, raced>>

Next ==
    \/ \E s \in Keys : Edit(s)
    \/ \E b \in Builds : Begin(b) \/ BuildStep(b) \/ Crash(b)

Spec == Init /\ [][Next]_feVars

-----------------------------------------------------------------------------
\* Every variable keeps its type.
TypeOK ==
    /\ DirTypeOK
    /\ src \in Keys /\ edits \in Nat
    /\ fe \in [Builds -> FrontEnds]
    /\ raced \in [Keys -> SUBSET Keys]

(***************************************************************************)
(* "it is a pure function of the exact source stream ... When none of that *)
(* has changed since a previous build, its output is reused": a hit gives  *)
(* a build output of the stream it hashed, and of another one only where   *)
(* the comment is wrong: an edit made the sources that other stream while  *)
(* a lazy build was between its hash of this key and its collection.  No   *)
(* edit at another moment, and no race of publications, prunes and kills,  *)
(* mixes the outputs of two streams.                                       *)
(***************************************************************************)
NeverAnothersOutput ==
    \A b \in Builds : fe[b].pc = "done" /\ fe[b].hit =>
        \A f \in EntryFiles : fe[b].out[f] \in {fe[b].key, Gone, Torn} \cup raced[fe[b].key]
===============================================================================
