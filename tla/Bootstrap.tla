------------------------------ MODULE Bootstrap ------------------------------
(***************************************************************************)
(* How bin/idc keeps the two compiler programs, idlex and idparse, built.  *)
(*                                                                         *)
(* Stage 0 is bootstrap/NAME.c compiled by cc; stage 1 is compiler/lex and *)
(* compiler/parse compiled by the two stage-0 binaries and the standard    *)
(* library.  Beside every binary lies a stamp of two lines: the hash of    *)
(* the binary's inputs, and a signature of their sizes and times.  A       *)
(* driver judges the two stage-0 binaries one after the other, rebuilds    *)
(* the stale ones as background jobs, waits for both, and does the same    *)
(* for stage 1.                                                            *)
(*                                                                         *)
(* A driver may be killed at any step (its jobs with it: an interrupt goes *)
(* to the process group, a power cut to everyone), a compile may fail, and *)
(* the sources may be edited, touched, or restored with an older content   *)
(* AND its older time (cp -p, tar, git).  What a binary was really made of *)
(* is ghost state: bin[s][p] carries the contents that went into it.       *)
(***************************************************************************)
EXTENDS Integers, FiniteSets

CONSTANTS
    Contents,          \* what a source file or tree may hold
    Absent,            \* the hash of a binary that is not whole
    EditsDuringBuild,  \* may sources change while a driver is at work?
    MaxEdits,          \* bound on changes to the sources
    MaxFaults          \* bound on crashes and failed compiles

ASSUME ContentsAssumption == Contents # {} /\ Absent \notin Contents
ASSUME EditsAssumption == EditsDuringBuild \in BOOLEAN
ASSUME BoundsAssumption == MaxEdits \in Nat /\ MaxFaults \in Nat

Programs == {"lex", "parse"}
Stages == {0, 1}

(***************************************************************************)
(* The files a developer changes: bootstrap/NAME.c, the source tree        *)
(* compiler/NAME (whose .id files are hashed together, so it is one file   *)
(* here), and the standard library.                                        *)
(***************************************************************************)
StdLib == <<"idstd", "idstd">>
Files == ({"bootstrap", "compiler"} \X Programs) \cup {StdLib}
Source(s, p) == IF s = 0 THEN <<"bootstrap", p>> ELSE <<"compiler", p>>

Versions == [ver: Contents, time: Nat]
Hashes == Contents \cup {Absent}
Inputs == [src: Contents, via: [Programs -> Hashes], std: Contents]
ValueLines == [src: Hashes, extra: Hashes]
SigLines == [src: Nat, extra: Nat]

VARIABLES
    file,     \* file[f]: the content and time of f now
    history,  \* history[f]: every content and time f has had
    bin,      \* bin[s][p]: the cached binary; "partial" while a linker writes it
    stamp,    \* bin[s][p]'s stamp: "none", "torn" (truncated, empty) or "written"
    driver,   \* "off", "run", "ready" (both stages hold) or "failed"
    stage,    \* the stage the driver is at
    job,      \* job[p]: the check and rebuild of program p at this stage
    clock,    \* clock[f]: the last new time given to f
    edits,
    faults

vars == <<file, history, clock, edits, bin, stamp, driver, stage, job, faults>>
sources == <<file, history, clock, edits>>
cache == <<bin, stamp>>

(***************************************************************************)
(* stamp_value and stamp_sig.  The hash stands for the content; sizes are  *)
(* left out of the signature, the worst case being that they agree.        *)
(* EXTRA is the program's OWN stage-0 binary.                              *)
(***************************************************************************)
BinHash(b) == IF b.st = "built" THEN b.made.src ELSE Absent

stamp_value(s, p) ==
    [src |-> file[Source(s, p)].ver,
     extra |-> IF s = 0 THEN Absent ELSE BinHash(bin[0][p])]

stamp_sig(s, p) ==
    [src |-> file[Source(s, p)].time,
     extra |-> IF s = 0 THEN 0 ELSE bin[0][p].time]

\* stamp_value as it was of the inputs that a binary was made of.
ValueOf(s, p, made) ==
    [src |-> made.src, extra |-> IF s = 0 THEN Absent ELSE made.via[p]]

(***************************************************************************)
(* Everything a build of stage s, program p reads.  Stage 1 runs BOTH      *)
(* stage-0 binaries (IDC_STAGE_LEX, IDC_STAGE_PARSE) and merges idstd.     *)
(***************************************************************************)
InputsNow(s, p) ==
    [src |-> file[Source(s, p)].ver,
     via |-> [q \in Programs |-> IF s = 0 THEN Absent ELSE BinHash(bin[0][q])],
     std |-> file[StdLib].ver]

SomeContent == CHOOSE c \in Contents : TRUE
NoInputs == [src |-> SomeContent, via |-> [q \in Programs |-> Absent], std |-> SomeContent]
NoValue == [src |-> Absent, extra |-> Absent]
NoSig == [src |-> 0, extra |-> 0]
NoBin == [st |-> "missing", made |-> NoInputs, time |-> 0]
NoStamp == [st |-> "none", value |-> NoValue, sig |-> NoSig]
TornStamp == [NoStamp EXCEPT !.st = "torn"]
IdleJob == [pc |-> "queued", read |-> NoInputs, value |-> NoValue, sig |-> NoSig]

Init ==
    /\ file = [f \in Files |-> [ver |-> SomeContent, time |-> 1]]
    /\ history = [f \in Files |-> {file[f]}]
    /\ bin = [s \in Stages |-> [p \in Programs |-> NoBin]]
    /\ stamp = [s \in Stages |-> [p \in Programs |-> NoStamp]]
    /\ driver = "off"
    /\ stage = 0
    /\ job = [p \in Programs |-> IdleJob]
    /\ clock = [f \in Files |-> 1]
    /\ edits = 0
    /\ faults = 0

-----------------------------------------------------------------------------
(***************************************************************************)
(* The developer.                                                          *)
(***************************************************************************)
MayEdit == (driver = "off" \/ EditsDuringBuild) /\ edits < MaxEdits

\* A file is written: a new time, and the old content (touch, an unpacked
\* archive) or another one.
Save(f, c) ==
    /\ MayEdit
    /\ file' = [file EXCEPT ![f] = [ver |-> c, time |-> clock[f] + 1]]
    /\ history' = [history EXCEPT ![f] = @ \cup {[ver |-> c, time |-> clock[f] + 1]}]
    /\ clock' = [clock EXCEPT ![f] = @ + 1]
    /\ edits' = edits + 1
    /\ UNCHANGED <<cache, driver, stage, job, faults>>

\* A file is put back as it was, its time included.
Restore(f, v) ==
    /\ MayEdit
    /\ v \in history[f] /\ v # file[f]
    /\ file' = [file EXCEPT ![f] = v]
    /\ edits' = edits + 1
    /\ UNCHANGED <<history, clock, cache, driver, stage, job, faults>>

-----------------------------------------------------------------------------
(***************************************************************************)
(* The driver: stamp_stale.  A driver checks lex, then parse; the job it   *)
(* may have started for lex runs meanwhile.                                *)
(***************************************************************************)
Checking == {"queued", "hash", "refresh"}
MyTurn(p) == driver = "run" /\ (p = "parse" => job["lex"].pc \notin Checking)

SetJob(p, j) == job' = [job EXCEPT ![p] = j]
SetPc(p, pc) == SetJob(p, [job[p] EXCEPT !.pc = pc])
EndJob(p, pc) == SetJob(p, [IdleJob EXCEPT !.pc = pc])
SetStamp(p, st) == stamp' = [stamp EXCEPT ![stage][p] = st]
SetBin(p, b) == bin' = [bin EXCEPT ![stage][p] = b]

Start ==
    /\ driver = "off"
    /\ driver' = "run"
    /\ stage' = 0
    /\ job' = [p \in Programs |-> IdleJob]
    /\ UNCHANGED <<sources, cache, faults>>

\* No binary or no stamp: stale.  An equal signature: fresh, unhashed.
SigFreshByNewer(p) ==
    /\ stamp[stage][p].st = "written"
    /\ stamp[stage][p].sig.src >= stamp_sig(stage, p).src
    /\ stamp[stage][p].sig.extra >= stamp_sig(stage, p).extra

SigFresh(p) == stamp[stage][p].st = "written" /\ stamp[stage][p].sig = stamp_sig(stage, p)

CheckSig(p) ==
    /\ MyTurn(p) /\ job[p].pc = "queued"
    /\ LET unbuilt == bin[stage][p].st = "missing" \/ stamp[stage][p].st = "none"
       IN \/ unbuilt /\ SetPc(p, "stale")
          \/ ~unbuilt /\ SigFresh(p) /\ SetPc(p, "done")
          \/ /\ ~unbuilt /\ ~SigFresh(p)
             /\ SetJob(p, [job[p] EXCEPT !.pc = "hash", !.sig = stamp_sig(stage, p)])
    /\ UNCHANGED <<sources, cache, driver, stage, faults>>

\* The signature differs but the hash does not: fresh, and the stamp is
\* rewritten with the signature taken before the hash.  Opening it empties it.
HashFreshNever(p) == FALSE

HashFresh(p) == stamp[stage][p].st = "written" /\ stamp[stage][p].value = stamp_value(stage, p)

CheckHash(p) ==
    /\ driver = "run" /\ job[p].pc = "hash"
    /\ IF HashFresh(p)
       THEN /\ SetJob(p, [job[p] EXCEPT !.pc = "refresh", !.value = stamp[stage][p].value])
            /\ SetStamp(p, TornStamp)
       ELSE /\ SetJob(p, [job[p] EXCEPT !.pc = "stale", !.sig = NoSig])
            /\ UNCHANGED stamp
    /\ UNCHANGED <<sources, bin, driver, stage, faults>>

JobStamp(p) == [st |-> "written", value |-> job[p].value, sig |-> job[p].sig]

RefreshForgetsSig(p) ==
    /\ driver = "run" /\ job[p].pc = "refresh"
    /\ SetStamp(p, [JobStamp(p) EXCEPT !.sig = NoSig])
    /\ EndJob(p, "done")
    /\ UNCHANGED <<sources, bin, driver, stage, faults>>

Refresh(p) ==
    /\ driver = "run" /\ job[p].pc = "refresh"
    /\ SetStamp(p, JobStamp(p))
    /\ EndJob(p, "done")
    /\ UNCHANGED <<sources, bin, driver, stage, faults>>

-----------------------------------------------------------------------------
(***************************************************************************)
(* boot_stage0 and boot_stage1, the background jobs.                       *)
(***************************************************************************)
RemoveStampNot(p) ==
    /\ driver = "run" /\ job[p].pc = "stale"
    /\ SetPc(p, "compile")
    /\ UNCHANGED <<sources, cache, driver, stage, faults>>

RemoveStamp(p) ==
    /\ driver = "run" /\ job[p].pc = "stale"
    /\ SetStamp(p, NoStamp)
    /\ SetPc(p, "compile")
    /\ UNCHANGED <<sources, bin, driver, stage, faults>>

ReadInputs(p) ==
    /\ driver = "run" /\ job[p].pc = "compile"
    /\ SetJob(p, [job[p] EXCEPT !.pc = "link", !.read = InputsNow(stage, p)])
    /\ UNCHANGED <<sources, cache, driver, stage, faults>>

OpenBinary(p) ==
    /\ driver = "run" /\ job[p].pc = "link"
    /\ SetBin(p, [st |-> "partial", made |-> NoInputs, time |-> bin[stage][p].time + 1])
    /\ SetPc(p, "write")
    /\ UNCHANGED <<sources, stamp, driver, stage, faults>>

CloseBinary(p) ==
    /\ driver = "run" /\ job[p].pc = "write"
    /\ SetBin(p, [st |-> "built", made |-> job[p].read, time |-> bin[stage][p].time + 1])
    /\ SetJob(p, [job[p] EXCEPT !.pc = "value", !.read = NoInputs])
    /\ UNCHANGED <<sources, stamp, driver, stage, faults>>

\* The compiler exits nonzero; a linker that had opened the output may or
\* may not remove it.
Fail(p) ==
    /\ driver = "run" /\ faults < MaxFaults
    /\ job[p].pc \in {"compile", "link", "write"}
    /\ \/ UNCHANGED bin
       \/ job[p].pc = "write" /\ bin' = [bin EXCEPT ![stage][p].st = "missing"]
    /\ EndJob(p, "failed")
    /\ faults' = faults + 1
    /\ UNCHANGED <<sources, stamp, driver, stage>>

\* stamp_write: the hash, then the signature, then the file, in two steps of
\* which the first empties it.
StampValue(p) ==
    /\ driver = "run" /\ job[p].pc = "value"
    /\ SetJob(p, [job[p] EXCEPT !.pc = "sig", !.value = stamp_value(stage, p)])
    /\ UNCHANGED <<sources, cache, driver, stage, faults>>

StampSig(p) ==
    /\ driver = "run" /\ job[p].pc = "sig"
    /\ SetJob(p, [job[p] EXCEPT !.pc = "stamp", !.sig = stamp_sig(stage, p)])
    /\ SetStamp(p, TornStamp)
    /\ UNCHANGED <<sources, bin, driver, stage, faults>>

StampFile(p) ==
    /\ driver = "run" /\ job[p].pc = "stamp"
    /\ SetStamp(p, JobStamp(p))
    /\ EndJob(p, "done")
    /\ UNCHANGED <<sources, bin, driver, stage, faults>>

-----------------------------------------------------------------------------
(***************************************************************************)
(* The driver waits for both jobs.  A failed one ends it; otherwise it     *)
(* goes on to stage 1, and after stage 1 to the build it was asked for.    *)
(***************************************************************************)
Waited == \A p \in Programs : job[p].pc \in {"done", "failed"}
Failed == \E p \in Programs : job[p].pc = "failed"

NextStage ==
    /\ driver = "run" /\ Waited
    /\ driver' = IF Failed THEN "failed" ELSE IF stage = 0 THEN "run" ELSE "ready"
    /\ stage' = IF Failed THEN stage ELSE 1
    /\ job' = [p \in Programs |-> IdleJob]
    /\ UNCHANGED <<sources, cache, faults>>

Exit ==
    /\ driver \in {"ready", "failed"}
    /\ driver' = "off"
    /\ UNCHANGED <<sources, cache, stage, job, faults>>

Crash ==
    /\ driver = "run" /\ faults < MaxFaults
    /\ driver' = "off"
    /\ job' = [p \in Programs |-> IdleJob]
    /\ faults' = faults + 1
    /\ UNCHANGED <<sources, cache, stage>>

JobStep(p) ==
    \/ CheckSig(p) \/ CheckHash(p) \/ Refresh(p)
    \/ RemoveStamp(p) \/ ReadInputs(p) \/ OpenBinary(p) \/ CloseBinary(p)
    \/ StampValue(p) \/ StampSig(p) \/ StampFile(p)

DriverStep == Start \/ NextStage \/ Exit \/ \E p \in Programs : JobStep(p)

Next ==
    \/ DriverStep
    \/ Crash
    \/ \E p \in Programs : Fail(p)
    \/ \E f \in Files, c \in Contents : Save(f, c)
    \/ \E f \in Files : \E v \in history[f] : Restore(f, v)

Spec == Init /\ [][Next]_vars

(***************************************************************************)
(* Fairness: a running shell and its children make progress, and a build   *)
(* is asked for again.  Nothing makes an edit, a crash or a failure happen.*)
(***************************************************************************)
FairSpec ==
    /\ Spec
    /\ WF_vars(Start) /\ WF_vars(NextStage) /\ WF_vars(Exit)
    /\ \A p \in Programs : WF_vars(JobStep(p))

-----------------------------------------------------------------------------
(***************************************************************************)
(* Properties.                                                             *)
(***************************************************************************)
BinType == [st: {"missing", "partial", "built"}, made: Inputs, time: Nat]
StampType == [st: {"none", "torn", "written"}, value: ValueLines, sig: SigLines]
JobPcs == Checking \cup {"stale", "compile", "link", "write", "value", "sig", "stamp",
                         "done", "failed"}
JobType == [pc: JobPcs, read: Inputs, value: ValueLines, sig: SigLines]

\* Every variable keeps its type.
TypeOK ==
    /\ file \in [Files -> Versions]
    /\ history \in [Files -> SUBSET Versions]
    /\ bin \in [Stages -> [Programs -> BinType]]
    /\ stamp \in [Stages -> [Programs -> StampType]]
    /\ driver \in {"off", "run", "ready", "failed"}
    /\ stage \in Stages
    /\ job \in [Programs -> JobType]
    /\ clock \in [Files -> Nat]
    /\ edits \in Nat /\ faults \in Nat

(***************************************************************************)
(* "The bootstrap binaries are judged by what went into them": a written   *)
(* stamp lies beside a whole binary and its first line is the hash of the  *)
(* inputs that binary was made of, whatever crash or failure came before.  *)
(***************************************************************************)
HonestStamp(s, p) ==
    stamp[s][p].st = "written" =>
        /\ bin[s][p].st = "built"
        /\ stamp[s][p].value = ValueOf(s, p, bin[s][p].made)

StampHonest == \A s \in Stages, p \in Programs : HonestStamp(s, p)

\* A written stamp never vouches for a half-written binary, even when the
\* sources change under a running build.
StampedIsWhole ==
    \A s \in Stages, p \in Programs : stamp[s][p].st = "written" => bin[s][p].st = "built"

\* A driver that goes on to compile holds four binaries made of the sources
\* as they are, and each stage-1 binary was made by its own stage-0 one.
ReadyIsCurrent ==
    driver = "ready" =>
        \A s \in Stages, p \in Programs :
            bin[s][p].st = "built" /\ ValueOf(s, p, bin[s][p].made) = stamp_value(s, p)

(***************************************************************************)
(* "so a workspace refreshed by unpacking identical sources rebuilds       *)
(* nothing": a stamp is removed only when it, or its binary, is not there  *)
(* or was not made of what the inputs are.                                 *)
(***************************************************************************)
UpToDate(s, p) ==
    /\ bin[s][p].st = "built" /\ stamp[s][p].st = "written"
    /\ ValueOf(s, p, bin[s][p].made) = stamp_value(s, p)

NoNeedlessRebuild ==
    [][\A s \in Stages, p \in Programs :
          UpToDate(s, p) => stamp'[s][p].st # "none"]_vars

\* Once crashes, failures and edits have ended, the cache settles on binaries
\* made of the sources as they are, and no rebuild loop goes on for ever.
Settles == <>[](\A s \in Stages, p \in Programs : UpToDate(s, p))

(***************************************************************************)
(* What makes StampHonest, ReadyIsCurrent and NoNeedlessRebuild inductive  *)
(* when no source changes under a running driver.                          *)
(***************************************************************************)
Current(s, p) == bin[s][p].st = "built" /\ ValueOf(s, p, bin[s][p].made) = stamp_value(s, p)

\* A file's time tells its content, the reason the signature may be trusted.
HistoryInv ==
    \A f \in Files :
        /\ file[f] \in history[f]
        /\ \A v \in history[f] : v.time <= clock[f]
        /\ \A v, w \in history[f] : v.time = w.time => v.ver = w.ver

\* A stamp's second line speaks of the content that its first line hashes.
HonestSig(s, p) ==
    stamp[s][p].st = "written" =>
        /\ stamp[s][p].sig.src <= clock[Source(s, p)]
        /\ \A v \in history[Source(s, p)] :
              v.time = stamp[s][p].sig.src => v.ver = stamp[s][p].value.src
        /\ s = 0 => stamp[s][p].value.extra = Absent
        /\ s = 1 => /\ stamp[s][p].sig.extra <= bin[0][p].time
                    /\ stamp[s][p].sig.extra = bin[0][p].time =>
                          stamp[s][p].value.extra = BinHash(bin[0][p])

SigHonest == \A s \in Stages, p \in Programs : HonestSig(s, p)

\* What a job knows at each of its steps.
JobKnows(p) ==
    /\ job[p].pc \in {"compile", "link", "write"} => stamp[stage][p].st # "written"
    /\ job[p].pc \in {"hash", "refresh", "stamp"} => job[p].sig = stamp_sig(stage, p)
    /\ job[p].pc \in {"refresh", "sig", "stamp"} => job[p].value = stamp_value(stage, p)
    /\ job[p].pc \in {"refresh", "value", "sig", "stamp", "done"} => Current(stage, p)
    /\ job[p].pc \in {"link", "write"} => ValueOf(stage, p, job[p].read) = stamp_value(stage, p)
    /\ job[p].pc = "stale" => ~UpToDate(stage, p)
    /\ job[p].pc = "write" => bin[stage][p].st = "partial"

JobInv == driver = "run" => \A p \in Programs : JobKnows(p)

StageInv ==
    /\ driver = "run" /\ stage = 1 => \A p \in Programs : Current(0, p)
    /\ driver = "ready" => \A s \in Stages, p \in Programs : Current(s, p)

\* The inductive invariant behind the theorems of BootstrapProofs.
HonestInv == StampHonest /\ HistoryInv /\ SigHonest /\ JobInv /\ StageInv

(***************************************************************************)
(* "The bootstrap binaries are judged by what went into them", and "The    *)
(* bootstrap stages are built WITH the standard library": a driver that    *)
(* goes on holds stage-1 binaries made of everything as it is, both        *)
(* stage-0 binaries and the standard library included.  It does not hold:  *)
(* stamp_stale is given one stage-0 binary and no library (idc 1182, 1185),*)
(* so no run checks it; the README has the behaviour that refutes it.      *)
(***************************************************************************)
ReadyMadeOfEverything ==
    driver = "ready" => \A p \in Programs : bin[1][p].made = InputsNow(1, p)
=============================================================================
