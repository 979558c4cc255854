------------------------------- MODULE ObjCache -------------------------------
(***************************************************************************)
(* The object cache: obj_cache_get, obj_cache_put and the compile between  *)
(* them, for the test harness, the final program and backend objects.  The *)
(* key hashes the compiler, the flags and every input file, so here it     *)
(* stands for them, and a build compiles key k to a binary of content k.   *)
(***************************************************************************)
EXTENDS CacheDir

ASSUME ObjAssumption == EntryFiles = {"bin"}

VARIABLE obj   \* obj[b]: build b's search for, and copy of, one binary

objVars == <<dirVars, obj>>

Searches == [pc: {"idle", "test", "copy", "touch", "compile", "put", "done"}, key: Keys,
             dest: FileContents]
Idle == [pc |-> "idle", key |-> SomeKey, dest |-> Gone]

Init == DirInit /\ obj = [b \in Builds |-> Idle]

SetObj(b, r) == obj' = [obj EXCEPT ![b] = r]

Begin(b, k) ==
    /\ obj[b].pc = "idle"
    /\ SetObj(b, [Idle EXCEPT !.pc = "test", !.key = k])
    /\ UNCHANGED dirVars

\* [ -f "$entry/bin" ] || return 1
GetTest(b) ==
    /\ obj[b].pc = "test"
    /\ SetObj(b, [obj[b] EXCEPT !.pc = IF entry[obj[b].key].file["bin"] = Gone
                                       THEN "compile" ELSE "copy"])
    /\ UNCHANGED dirVars

\* cp "$entry/bin" "$2" && chmod +x "$2": a copy that fails because the entry
\* has gone is a miss.
GetCopyUnchecked(b) ==
    /\ obj[b].pc = "copy"
    /\ SetObj(b, [obj[b] EXCEPT !.pc = "touch", !.dest = entry[obj[b].key].file["bin"]])
    /\ UNCHANGED dirVars

GetCopy(b) ==
    /\ obj[b].pc = "copy"
    /\ SetObj(b, IF entry[obj[b].key].file["bin"] = Gone
                 THEN [obj[b] EXCEPT !.pc = "compile"]
                 ELSE [obj[b] EXCEPT !.pc = "touch", !.dest = entry[obj[b].key].file["bin"]])
    /\ UNCHANGED dirVars

\* && touch "$entry"
GetTouch(b) ==
    /\ obj[b].pc = "touch"
    /\ SetObj(b, [obj[b] EXCEPT !.pc = "done"])
    /\ Touch(obj[b].key)
    /\ UNCHANGED <<put, crashes, cut>>

\* The compile, and obj_cache_put's private copy of what it made.
Compile(b) ==
    /\ obj[b].pc = "compile"
    /\ SetObj(b, [obj[b] EXCEPT !.pc = "put", !.dest = obj[b].key])
    /\ BeginPut(b, obj[b].key, obj[b].key)

EndPut(b) ==
    /\ obj[b].pc = "put" /\ put[b].pc = "idle"
    /\ SetObj(b, [obj[b] EXCEPT !.pc = "done"])
    /\ UNCHANGED dirVars

Finish(b) ==
    /\ obj[b].pc = "done"
    /\ SetObj(b, Idle)
    /\ UNCHANGED dirVars

Crash(b) ==
    /\ obj[b].pc # "idle"
    /\ CrashPut(b)
    /\ SetObj(b, Idle)

BuildStep(b) ==
    \/ GetTest(b) \/ GetCopy(b) \/ GetTouch(b) \/ Compile(b) \/ EndPut(b) \/ Finish(b)
    \/ PutStep(b) /\ UNCHANGED obj

Next == \E b \in Builds :
    \/ \E k \in Keys : Begin(b, k)
    \/ BuildStep(b)
    \/ Crash(b)

Spec == Init /\ [][Next]_objVars

-----------------------------------------------------------------------------
\* Every variable keeps its type.
TypeOK == DirTypeOK /\ obj \in [Builds -> Searches]

(***************************************************************************)
(* "Best-effort: a failure here loses nothing but the chance to skip this  *)
(* compile next time": whatever races and crashes went before, a build     *)
(* ends with the whole binary of its own key.                              *)
(***************************************************************************)
ServedWhole == \A b \in Builds : obj[b].pc = "done" => obj[b].dest = obj[b].key

\* The inductive invariant behind ObjCacheProofs.
ObjInv ==
    /\ EntriesWhole /\ PutsOwn
    /\ \A b \in Builds : obj[b].pc \in {"touch", "put", "done"} => obj[b].dest = obj[b].key
===============================================================================
