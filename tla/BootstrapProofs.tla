--------------------------- MODULE BootstrapProofs ---------------------------
(***************************************************************************)
(* Theorems about Bootstrap, for every set of contents and every bound.    *)
(***************************************************************************)
EXTENDS Bootstrap, TLAPS

JobAction(p) == JobStep(p) \/ Fail(p)

(***************************************************************************)
(* What the operators of the model return.                                 *)
(***************************************************************************)
LEMMA SomeContentType == SomeContent \in Contents
BY ContentsAssumption DEF SomeContent

\* The values of files that were never written have the types of written ones.
LEMMA DefaultTypes ==
    /\ NoInputs \in Inputs
    /\ NoValue \in ValueLines
    /\ NoSig \in SigLines
    /\ NoBin \in BinType
    /\ NoStamp \in StampType
    /\ TornStamp \in StampType
    /\ IdleJob \in JobType
<1>1. NoInputs \in Inputs
  BY SomeContentType DEF NoInputs, Inputs, Hashes
<1>2. NoValue \in ValueLines /\ NoSig \in SigLines
  BY DEF NoValue, ValueLines, Hashes, NoSig, SigLines
<1>3. NoBin \in BinType
  BY <1>1 DEF NoBin, BinType
<1>4. NoStamp \in StampType /\ TornStamp \in StampType
  BY <1>2 DEF NoStamp, TornStamp, StampType
<1>5. IdleJob \in JobType
  BY <1>1, <1>2 DEF IdleJob, JobType, JobPcs, Checking
<1> QED
  BY <1>1, <1>2, <1>3, <1>4, <1>5

\* What build_stage compiles is one of the source files.
LEMMA SourceType == \A s \in Stages, p \in Programs : Source(s, p) \in Files
BY DEF Stages, Programs, Source, Files

\* sha256sum of a stage binary is one of the hashes.
LEMMA BinHashType == \A b \in BinType : BinHash(b) \in Hashes
BY DEF BinType, BinHash, Hashes, Inputs

\* What a stamp records of the inputs has the type of a stamp's lines.
LEMMA StampTypes ==
    ASSUME TypeOK, NEW s \in Stages, NEW p \in Programs
    PROVE  /\ stamp_value(s, p) \in ValueLines
           /\ stamp_sig(s, p) \in SigLines
           /\ InputsNow(s, p) \in Inputs
<1>1. file[Source(s, p)] \in Versions /\ file[StdLib] \in Versions
  BY SourceType DEF TypeOK, Files
<1>2. \A q \in Programs : bin[0][q] \in BinType
  BY DEF TypeOK, Stages
<1>3. \A q \in Programs : BinHash(bin[0][q]) \in Hashes
  BY <1>2, BinHashType
<1>4. stamp_value(s, p) \in ValueLines
  BY <1>1, <1>3 DEF stamp_value, ValueLines, Hashes, Versions
<1>5. stamp_sig(s, p) \in SigLines
  BY <1>1, <1>2 DEF stamp_sig, SigLines, Versions, BinType
<1>6. InputsNow(s, p) \in Inputs
  <2>1. [q \in Programs |-> IF s = 0 THEN Absent ELSE BinHash(bin[0][q])] \in [Programs -> Hashes]
    BY <1>3 DEF Hashes
  <2> QED
    BY <2>1, <1>1 DEF InputsNow, Inputs, Versions
<1> QED
  BY <1>4, <1>5, <1>6

(***************************************************************************)
(* Every step keeps every variable in its type.                            *)
(***************************************************************************)
LEMMA JobStepType ==
    ASSUME TypeOK, NEW p \in Programs, JobAction(p)
    PROVE  TypeOK'
<1> USE DefaultTypes
<1>1. /\ stamp_value(stage, p) \in ValueLines
      /\ stamp_sig(stage, p) \in SigLines
      /\ InputsNow(stage, p) \in Inputs
  BY StampTypes DEF TypeOK
<1>2. job[p] \in JobType /\ stamp[stage][p] \in StampType /\ bin[stage][p] \in BinType
  BY DEF TypeOK
<1>3. JobStamp(p) \in StampType
  BY <1>2 DEF JobStamp, StampType, JobType
<1>a. UNCHANGED <<file, history, clock, edits, driver, stage>>
  BY DEF JobAction, JobStep, CheckSig, CheckHash, Refresh, RemoveStamp, ReadInputs, OpenBinary,
         CloseBinary, StampValue, StampSig, StampFile, Fail, sources
<1>b. faults' \in Nat
  BY DEF JobAction, JobStep, CheckSig, CheckHash, Refresh, RemoveStamp, ReadInputs, OpenBinary,
         CloseBinary, StampValue, StampSig, StampFile, Fail, TypeOK
<1>c. job' \in [Programs -> JobType]
  <2>1. \A pc \in JobPcs : [job[p] EXCEPT !.pc = pc] \in JobType /\ [IdleJob EXCEPT !.pc = pc] \in JobType
    BY <1>2 DEF JobType
  <2>2. \A pc \in JobPcs, x \in SigLines : [job[p] EXCEPT !.pc = pc, !.sig = x] \in JobType
    BY <1>2 DEF JobType
  <2>3. \A pc \in JobPcs, x \in ValueLines : [job[p] EXCEPT !.pc = pc, !.value = x] \in JobType
    BY <1>2 DEF JobType
  <2>4. \A pc \in JobPcs, x \in Inputs : [job[p] EXCEPT !.pc = pc, !.read = x] \in JobType
    BY <1>2 DEF JobType
  <2>5. stamp[stage][p].value \in ValueLines
    BY <1>2 DEF StampType
  <2>6. \E j \in JobType : SetJob(p, j)
    BY <2>1, <2>2, <2>3, <2>4, <2>5, <1>1
       DEF JobAction, JobStep, CheckSig, CheckHash, Refresh, RemoveStamp, ReadInputs,
           OpenBinary, CloseBinary, StampValue, StampSig, StampFile, Fail, SetPc, EndJob,
           JobPcs, Checking
  <2>7. job \in [Programs -> JobType]
    BY DEF TypeOK
  <2> QED
    BY <2>6, <2>7 DEF SetJob
<1>d. stamp' \in [Stages -> [Programs -> StampType]]
  <2>1. stamp' = stamp \/ \E st \in StampType : SetStamp(p, st)
    BY <1>3 DEF JobAction, JobStep, CheckSig, CheckHash, Refresh, RemoveStamp, ReadInputs,
           OpenBinary, CloseBinary, StampValue, StampSig, StampFile, Fail, cache
  <2>2. ASSUME NEW st \in StampType, SetStamp(p, st)
        PROVE  stamp' \in [Stages -> [Programs -> StampType]]
    <3>1. stamp \in [Stages -> [Programs -> StampType]] /\ stage \in Stages
      BY DEF TypeOK
    <3>2. [stamp[stage] EXCEPT ![p] = st] \in [Programs -> StampType]
      BY <3>1
    <3> QED
      BY <3>1, <3>2, <2>2 DEF SetStamp
  <2> QED
    BY <2>1, <2>2 DEF TypeOK
<1>e. bin' \in [Stages -> [Programs -> BinType]]
  <2>1. bin' = bin \/ \E b \in BinType : SetBin(p, b)
    <3>1. CASE OpenBinary(p)
      BY <3>1, <1>2 DEF OpenBinary, BinType
    <3>2. CASE CloseBinary(p)
      BY <3>2, <1>2 DEF CloseBinary, BinType, JobType
    <3>3. CASE Fail(p)
      <4>1. [bin[stage][p] EXCEPT !.st = "missing"] \in BinType
        BY <1>2 DEF BinType
      <4> QED
        BY <3>3, <4>1 DEF Fail, SetBin
    <3> QED
      BY <3>1, <3>2, <3>3 DEF JobAction, JobStep, CheckSig, CheckHash, Refresh, RemoveStamp,
             ReadInputs, StampValue, StampSig, StampFile, cache
  <2>2. ASSUME NEW b \in BinType, SetBin(p, b) PROVE bin' \in [Stages -> [Programs -> BinType]]
    <3>1. bin \in [Stages -> [Programs -> BinType]] /\ stage \in Stages
      BY DEF TypeOK
    <3>2. [bin[stage] EXCEPT ![p] = b] \in [Programs -> BinType]
      BY <3>1
    <3> QED
      BY <3>1, <3>2, <2>2 DEF SetBin
  <2> QED
    BY <2>1, <2>2 DEF TypeOK
<1> QED
  BY <1>a, <1>b, <1>c, <1>d, <1>e DEF TypeOK

\* No step of the driver, of a job or of an editor leaves the types.
LEMMA TypeStep == TypeOK /\ [Next]_vars => TypeOK'
<1> SUFFICES ASSUME TypeOK, [Next]_vars PROVE TypeOK'
  OBVIOUS
<1> USE DefaultTypes
<1>1. CASE Start
  BY <1>1 DEF Start, TypeOK, sources, cache, Stages
<1>2. CASE NextStage
  BY <1>2 DEF NextStage, TypeOK, sources, cache, Stages
<1>3. CASE Exit
  BY <1>3 DEF Exit, TypeOK, sources, cache
<1>4. CASE Crash
  BY <1>4 DEF Crash, TypeOK, sources, cache
<1>5. CASE \E p \in Programs : JobStep(p) \/ Fail(p)
  BY <1>5, JobStepType DEF JobAction
<1>6. ASSUME NEW f \in Files, NEW c \in Contents, Save(f, c) PROVE TypeOK'
  <2>1. [ver |-> c, time |-> clock[f] + 1] \in Versions
    BY DEF TypeOK, Versions
  <2>2. file' \in [Files -> Versions] /\ history' \in [Files -> SUBSET Versions]
    BY <1>6, <2>1 DEF Save, TypeOK
  <2>3. clock' \in [Files -> Nat] /\ edits' \in Nat
    BY <1>6 DEF Save, TypeOK
  <2> QED
    BY <1>6, <2>2, <2>3 DEF Save, TypeOK, cache
<1>7. ASSUME NEW f \in Files, NEW v \in history[f], Restore(f, v) PROVE TypeOK'
  BY <1>7 DEF Restore, TypeOK, cache
<1>8. CASE UNCHANGED vars
  BY <1>8 DEF TypeOK, vars
<1> QED
  BY <1>1, <1>2, <1>3, <1>4, <1>5, <1>6, <1>7, <1>8 DEF Next, DriverStep

\* An empty cache has the types.
LEMMA TypeInit == Init => TypeOK
<1> SUFFICES ASSUME Init PROVE TypeOK
  OBVIOUS
<1>1. file \in [Files -> Versions]
  BY SomeContentType DEF Init, Versions
<1> QED
  BY <1>1, DefaultTypes DEF Init, TypeOK, Stages

(***************************************************************************)
(* Whatever the driver, its jobs and the developer do, every variable      *)
(* keeps its type.                                                         *)
(***************************************************************************)
THEOREM TypeCorrect == Spec => []TypeOK
BY TypeInit, TypeStep, PTL DEF Spec

-----------------------------------------------------------------------------
(***************************************************************************)
(* A job touches its own binary and stamp, of the stage its driver is at,  *)
(* and so nothing that the inputs of that stage are judged by.             *)
(***************************************************************************)
LEMMA JobFrame ==
    ASSUME TypeOK, NEW p \in Programs, JobAction(p)
    PROVE  /\ UNCHANGED <<file, history, clock, driver, stage>>
           /\ driver = "run"
           /\ \A q \in Programs \ {p} : job'[q] = job[q]
           /\ \A s \in Stages, q \in Programs : (s # stage \/ q # p) =>
                 stamp'[s][q] = stamp[s][q] /\ bin'[s][q] = bin[s][q]
<1>1. UNCHANGED <<file, history, clock, driver, stage>> /\ driver = "run"
  BY DEF JobAction, JobStep, CheckSig, CheckHash, Refresh, RemoveStamp, ReadInputs, OpenBinary,
         CloseBinary, StampValue, StampSig, StampFile, Fail, sources, MyTurn
<1>2. \E j : SetJob(p, j)
  BY DEF JobAction, JobStep, CheckSig, CheckHash, Refresh, RemoveStamp, ReadInputs, OpenBinary,
         CloseBinary, StampValue, StampSig, StampFile, Fail, SetPc, EndJob
<1>3. stamp' = stamp \/ \E st : SetStamp(p, st)
  BY DEF JobAction, JobStep, CheckSig, CheckHash, Refresh, RemoveStamp, ReadInputs, OpenBinary,
         CloseBinary, StampValue, StampSig, StampFile, Fail, cache
<1>4. bin' = bin \/ \E b : SetBin(p, b)
  BY DEF JobAction, JobStep, CheckSig, CheckHash, Refresh, RemoveStamp, ReadInputs, OpenBinary,
         CloseBinary, StampValue, StampSig, StampFile, Fail, cache, SetBin
<1>5. \A q \in Programs \ {p} : job'[q] = job[q]
  BY <1>2 DEF SetJob, TypeOK
<1>6. ASSUME NEW s \in Stages, NEW q \in Programs, s # stage \/ q # p
      PROVE  stamp'[s][q] = stamp[s][q] /\ bin'[s][q] = bin[s][q]
  BY <1>3, <1>4, <1>6 DEF SetStamp, SetBin, TypeOK
<1> QED
  BY <1>1, <1>5, <1>6

\* A job changes no input of its own stage or of an earlier one.
LEMMA JobKeepsInputs ==
    ASSUME TypeOK, NEW p \in Programs, JobAction(p), NEW s \in Stages, NEW q \in Programs,
           s <= stage
    PROVE  stamp_value(s, q)' = stamp_value(s, q) /\ stamp_sig(s, q)' = stamp_sig(s, q)
<1>1. s # 0 => bin'[0][q] = bin[0][q]
  BY JobFrame DEF Stages, TypeOK
<1> QED
  BY <1>1, JobFrame DEF stamp_value, stamp_sig, Stages

(***************************************************************************)
(* What a job leaves behind: its own stamp and its own knowledge hold.     *)
(***************************************************************************)
LEMMA JobLocal ==
    ASSUME TypeOK, HonestInv, NEW p \in Programs, JobAction(p)
    PROVE  HonestStamp(stage, p)' /\ HonestSig(stage, p)' /\ JobKnows(p)'
<1> DEFINE s == stage
<1>0. s \in Stages /\ s \in {0, 1}
  BY DEF TypeOK, Stages
<1>1. /\ stamp_value(s, p)' = stamp_value(s, p)
      /\ stamp_sig(s, p)' = stamp_sig(s, p)
      /\ driver = "run" /\ stage' = s
      /\ file' = file /\ history' = history /\ clock' = clock
  BY <1>0, JobKeepsInputs, JobFrame DEF Stages
<1>2. HonestStamp(s, p) /\ HonestSig(s, p) /\ JobKnows(p)
  BY <1>0, <1>1 DEF HonestInv, StampHonest, SigHonest, JobInv
<1>3. s = 1 => bin'[0][p] = bin[0][p]
  BY <1>0, JobFrame DEF Stages
<1>4. job[p] \in JobType /\ stamp[s][p] \in StampType /\ bin[s][p] \in BinType
      /\ file[Source(s, p)] \in history[Source(s, p)]
  BY <1>0, SourceType DEF TypeOK, HonestInv, HistoryInv
<1>5. ASSUME NEW j, SetJob(p, j) PROVE job'[p] = j
  BY <1>5 DEF SetJob, TypeOK
<1>6. ASSUME NEW st, SetStamp(p, st) PROVE stamp'[s][p] = st
  BY <1>6, <1>0 DEF SetStamp, TypeOK
<1>7. ASSUME NEW b, SetBin(p, b) PROVE bin'[s][p] = b
  BY <1>7, <1>0 DEF SetBin, TypeOK
<1>8. ASSUME stamp'[s][p] = stamp[s][p], bin'[s][p] = bin[s][p]
      PROVE  HonestStamp(stage, p)' /\ HonestSig(stage, p)'
  BY <1>8, <1>1, <1>2, <1>3, <1>0 DEF HonestStamp, HonestSig, ValueOf
<1>9. ASSUME stamp'[s][p].st # "written"
      PROVE  HonestStamp(stage, p)' /\ HonestSig(stage, p)'
  BY <1>9, <1>1 DEF HonestStamp, HonestSig
<1>10. ASSUME stamp'[s][p] = [st |-> "written", value |-> stamp_value(s, p), sig |-> stamp_sig(s, p)]
       PROVE  HonestSig(stage, p)'
  <2>1. file[Source(s, p)].time <= clock[Source(s, p)]
    BY <1>4, <1>0, SourceType DEF HonestInv, HistoryInv
  <2>2. \A v \in history[Source(s, p)] :
           v.time = file[Source(s, p)].time => v.ver = file[Source(s, p)].ver
    BY <1>4, <1>0, SourceType DEF HonestInv, HistoryInv
  <2>3. bin[0][p].time \in Nat
    BY DEF TypeOK, BinType, Stages
  <2> QED
    BY <1>10, <1>1, <1>3, <1>0, <2>1, <2>2, <2>3 DEF HonestSig, stamp_value, stamp_sig
<1>11. CASE CheckSig(p)
  <2>1. stamp'[s][p] = stamp[s][p] /\ bin'[s][p] = bin[s][p]
    BY <1>11 DEF CheckSig, cache
  <2>2. HonestStamp(stage, p)' /\ HonestSig(stage, p)'
    BY <2>1, <1>8
  <2>3. CASE (bin[s][p].st = "missing" \/ stamp[s][p].st = "none") /\ job'[p].pc = "stale"
    BY <2>2, <2>3, <2>1, <1>1 DEF JobKnows, UpToDate
  <2>4. CASE SigFresh(p) /\ job'[p].pc = "done"
    <3>1. stamp[s][p].value = stamp_value(s, p)
      <4>1. stamp[s][p].value \in ValueLines
        BY <1>4 DEF StampType
      <4>2. stamp[s][p].value.src = file[Source(s, p)].ver
        BY <2>4, <1>2, <1>4 DEF SigFresh, HonestSig, stamp_sig
      <4>3. stamp[s][p].value.extra = IF s = 0 THEN Absent ELSE BinHash(bin[0][p])
        BY <2>4, <1>2, <1>0 DEF SigFresh, HonestSig, stamp_sig
      <4> QED
        BY <4>1, <4>2, <4>3 DEF ValueLines, stamp_value
    <3>2. Current(s, p)
      BY <3>1, <2>4, <1>2 DEF SigFresh, HonestStamp, Current
    <3>3. Current(stage, p)'
      BY <3>2, <2>1, <1>1 DEF Current
    <3> QED
      BY <2>2, <2>4, <3>3 DEF JobKnows
  <2>5. CASE job'[p].pc = "hash" /\ job'[p].sig = stamp_sig(s, p)
    BY <2>2, <2>5, <1>1 DEF JobKnows
  <2>6. \/ (bin[s][p].st = "missing" \/ stamp[s][p].st = "none") /\ job'[p].pc = "stale"
        \/ SigFresh(p) /\ job'[p].pc = "done"
        \/ job'[p].pc = "hash" /\ job'[p].sig = stamp_sig(s, p)
    BY <1>11, <1>5, <1>4 DEF CheckSig, SetPc, JobType
  <2> QED
    BY <2>2, <2>3, <2>4, <2>5, <2>6
<1>12. CASE CheckHash(p)
  <2>0. bin'[s][p] = bin[s][p] /\ job[p].sig = stamp_sig(s, p)
    BY <1>12, <1>2 DEF CheckHash, JobKnows
  <2>1. CASE HashFresh(p)
    <3>1. /\ stamp'[s][p].st # "written"
          /\ job'[p] = [job[p] EXCEPT !.pc = "refresh", !.value = stamp[s][p].value]
      BY <1>12, <2>1, <1>5, <1>6 DEF CheckHash, TornStamp, NoStamp
    <3>2. job'[p].pc = "refresh" /\ job'[p].sig = stamp_sig(s, p) /\ job'[p].value = stamp_value(s, p)
      BY <3>1, <2>0, <2>1, <1>4 DEF JobType, HashFresh
    <3>3. Current(stage, p)'
      BY <2>0, <2>1, <1>1, <1>2 DEF HashFresh, HonestStamp, Current
    <3> QED
      BY <3>1, <3>2, <3>3, <1>1, <1>9 DEF JobKnows
  <2>2. CASE ~HashFresh(p)
    <3>1. stamp' = stamp /\ job'[p] = [job[p] EXCEPT !.pc = "stale", !.sig = NoSig]
      BY <1>12, <2>2, <1>5 DEF CheckHash
    <3>2. job'[p].pc = "stale"
      BY <3>1, <1>4 DEF JobType
    <3>3. ~UpToDate(s, p)
      BY <2>2, <1>2 DEF HashFresh, HonestStamp, UpToDate
    <3>4. ~UpToDate(stage, p)'
      BY <3>1, <3>3, <2>0, <1>1 DEF UpToDate
    <3> QED
      BY <3>1, <3>2, <3>4, <2>0, <1>1, <1>8 DEF JobKnows
  <2> QED
    BY <2>1, <2>2
<1>13. CASE Refresh(p) \/ StampFile(p)
  <2>1. /\ stamp'[s][p] = [st |-> "written", value |-> stamp_value(s, p), sig |-> stamp_sig(s, p)]
        /\ bin'[s][p] = bin[s][p]
        /\ Current(s, p)
    BY <1>13, <1>2, <1>6 DEF Refresh, StampFile, JobStamp, JobKnows
  <2>2. job'[p].pc = "done"
    BY <1>13, <1>5, DefaultTypes DEF Refresh, StampFile, EndJob, JobType
  <2>3. Current(stage, p)'
    BY <2>1, <1>1 DEF Current
  <2>4. HonestStamp(stage, p)'
    BY <2>1, <1>1 DEF HonestStamp, Current
  <2> QED
    BY <2>1, <2>2, <2>3, <2>4, <1>10 DEF JobKnows
<1>14. CASE RemoveStamp(p)
  <2>1. stamp'[s][p].st # "written" /\ job'[p].pc = "compile"
    BY <1>14, <1>4, <1>5, <1>6 DEF RemoveStamp, NoStamp, SetPc, JobType
  <2> QED
    BY <2>1, <1>1, <1>9 DEF JobKnows
<1>15. CASE ReadInputs(p)
  <2>1. /\ stamp'[s][p] = stamp[s][p] /\ bin'[s][p] = bin[s][p] /\ stamp[s][p].st # "written"
        /\ job'[p].pc = "link" /\ job'[p].read = InputsNow(s, p)
    BY <1>15, <1>2, <1>4, <1>5 DEF ReadInputs, JobKnows, JobType, cache
  <2>2. ValueOf(s, p, InputsNow(s, p)) = stamp_value(s, p)
    BY <1>0 DEF ValueOf, InputsNow, stamp_value
  <2> QED
    BY <2>1, <2>2, <1>1, <1>8 DEF JobKnows, ValueOf
<1>16. CASE OpenBinary(p)
  <2>1. /\ stamp'[s][p] = stamp[s][p] /\ stamp[s][p].st # "written"
        /\ job'[p].pc = "write" /\ job'[p].read = job[p].read
        /\ ValueOf(s, p, job[p].read) = stamp_value(s, p)
    BY <1>16, <1>2, <1>4, <1>5 DEF OpenBinary, JobKnows, JobType, SetPc
  <2>2. bin'[s][p].st = "partial"
    BY <1>16, <1>7 DEF OpenBinary
  <2> QED
    BY <2>1, <2>2, <1>1, <1>9 DEF JobKnows, ValueOf
<1>17. CASE CloseBinary(p)
  <2>1. /\ stamp'[s][p] = stamp[s][p] /\ stamp[s][p].st # "written"
        /\ job'[p].pc = "value"
        /\ ValueOf(s, p, job[p].read) = stamp_value(s, p)
        /\ bin'[s][p].st = "built" /\ bin'[s][p].made = job[p].read
    <3>1. job'[p] = [job[p] EXCEPT !.pc = "value", !.read = NoInputs]
      BY <1>17, <1>5 DEF CloseBinary
    <3>2. bin'[s][p] = [st |-> "built", made |-> job[p].read, time |-> bin[s][p].time + 1]
      BY <1>17, <1>7 DEF CloseBinary
    <3> QED
      BY <1>17, <1>2, <1>4, <3>1, <3>2 DEF CloseBinary, JobKnows, JobType
  <2>2. Current(stage, p)'
    BY <2>1, <1>1 DEF Current, ValueOf
  <2> QED
    BY <2>1, <2>2, <1>1, <1>9 DEF JobKnows
<1>18. CASE StampValue(p)
  <2>1. /\ stamp'[s][p] = stamp[s][p] /\ bin'[s][p] = bin[s][p] /\ Current(s, p)
        /\ job'[p].pc = "sig" /\ job'[p].value = stamp_value(s, p)
    BY <1>18, <1>2, <1>4, <1>5 DEF StampValue, JobKnows, JobType, cache
  <2>2. Current(stage, p)'
    BY <2>1, <1>1 DEF Current
  <2> QED
    BY <2>1, <2>2, <1>1, <1>8 DEF JobKnows
<1>19. CASE StampSig(p)
  <2>1. /\ stamp'[s][p].st # "written" /\ bin'[s][p] = bin[s][p] /\ Current(s, p)
        /\ job'[p].pc = "stamp" /\ job'[p].sig = stamp_sig(s, p) /\ job'[p].value = stamp_value(s, p)
    BY <1>19, <1>2, <1>4, <1>5, <1>6 DEF StampSig, JobKnows, JobType, TornStamp, NoStamp
  <2>2. Current(stage, p)'
    BY <2>1, <1>1 DEF Current
  <2> QED
    BY <2>1, <2>2, <1>1, <1>9 DEF JobKnows
<1>20. CASE Fail(p)
  <2>1. stamp'[s][p] = stamp[s][p] /\ stamp[s][p].st # "written"
    BY <1>20, <1>2 DEF Fail, JobKnows
  <2>2. job'[p].pc = "failed"
    BY <1>20, <1>5, DefaultTypes DEF Fail, EndJob, JobType
  <2> QED
    BY <2>1, <2>2, <1>9 DEF JobKnows
<1> QED
  BY <1>11, <1>12, <1>13, <1>14, <1>15, <1>16, <1>17, <1>18, <1>19, <1>20 DEF JobAction, JobStep

\* A step of a stage's job keeps every stamp honest.
LEMMA JobHonest ==
    ASSUME TypeOK, HonestInv, NEW p \in Programs, JobAction(p)
    PROVE  HonestInv'
<1>0. stage \in Stages /\ stage \in {0, 1} /\ stage' = stage /\ driver = "run" /\ driver' = "run"
  BY JobFrame DEF TypeOK, Stages
<1>1. HonestStamp(stage, p)' /\ HonestSig(stage, p)' /\ JobKnows(p)'
  BY JobLocal
<1>2. StampHonest'
  <2>1. ASSUME NEW s \in Stages, NEW q \in Programs, s # stage \/ q # p
        PROVE  HonestStamp(s, q)'
    <3>1. stamp'[s][q] = stamp[s][q] /\ bin'[s][q] = bin[s][q] /\ HonestStamp(s, q)
      BY <2>1, JobFrame DEF HonestInv, StampHonest
    <3> QED
      BY <3>1 DEF HonestStamp, ValueOf
  <2>2. HonestStamp(stage, p)' => \A s \in Stages, q \in Programs : s = stage /\ q = p => HonestStamp(s, q)'
    BY <1>0 DEF HonestStamp, ValueOf
  <2> QED
    BY <1>1, <2>1, <2>2 DEF StampHonest
<1>3. HistoryInv'
  BY JobFrame DEF HonestInv, HistoryInv
<1>4. SigHonest'
  <2>1. ASSUME NEW s \in Stages, NEW q \in Programs, s # stage \/ q # p
        PROVE  HonestSig(s, q)'
    <3>1. /\ stamp'[s][q] = stamp[s][q] /\ HonestSig(s, q)
          /\ history' = history /\ clock' = clock
      BY <2>1, JobFrame DEF HonestInv, SigHonest
    <3>2. CASE bin'[0][q] = bin[0][q]
      BY <3>1, <3>2 DEF HonestSig
    <3>3. CASE bin'[0][q] # bin[0][q]
      <4>1. stage = 0 /\ q = p
        BY <3>3, <1>0, JobFrame DEF Stages
      <4>2. bin[0][q] \in BinType /\ bin'[0][q] \in BinType /\ stamp[s][q] \in StampType
        <5>1. TypeOK'
          BY JobStepType
        <5> QED
          BY <5>1 DEF TypeOK, Stages
      <4>3. CASE bin'[0][q].time > bin[0][q].time
        BY <3>1, <4>2, <4>3 DEF HonestSig, BinType, StampType, SigLines
      <4>4. CASE Fail(p)
        <5>1. job[p].pc = "write" /\ bin' = [bin EXCEPT ![stage][p].st = "missing"]
          BY <4>1, <4>4, <3>3 DEF Fail
        <5>2. bin'[0][p] = [bin[0][p] EXCEPT !.st = "missing"]
          BY <4>1, <5>1 DEF TypeOK, Stages
        <5>3. bin'[0][q].time = bin[0][q].time /\ bin'[0][q].st = "missing"
          BY <4>1, <4>2, <5>2 DEF BinType
        <5>4. bin[0][q].st = "partial"
          BY <4>1, <5>1, <1>0 DEF HonestInv, JobInv, JobKnows
        <5>5. BinHash(bin'[0][q]) = BinHash(bin[0][q])
          BY <5>3, <5>4 DEF BinHash
        <5> QED
          BY <3>1, <5>3, <5>5 DEF HonestSig, BinHash
      <4>5. CASE JobStep(p)
        <5>1. \E b : SetBin(p, b) /\ b.time = bin[stage][p].time + 1
          BY <4>5, <4>1, <3>3 DEF JobStep, CheckSig, CheckHash, Refresh, RemoveStamp, ReadInputs,
               OpenBinary, CloseBinary, StampValue, StampSig, StampFile, cache
        <5>2. bin'[0][q].time = bin[0][q].time + 1
          BY <5>1, <4>1 DEF SetBin, TypeOK, Stages
        <5> QED
          BY <5>2, <4>2, <4>3 DEF BinType
      <4> QED
        BY <4>4, <4>5 DEF JobAction
    <3> QED
      BY <3>2, <3>3
  <2>2. HonestSig(stage, p)' => \A s \in Stages, q \in Programs : s = stage /\ q = p => HonestSig(s, q)'
    BY <1>0 DEF HonestSig
  <2> QED
    BY <1>1, <2>1, <2>2 DEF SigHonest
<1>5. JobInv'
  <2>1. ASSUME NEW q \in Programs \ {p} PROVE JobKnows(q)'
    <3>1. /\ job'[q] = job[q] /\ stamp'[stage][q] = stamp[stage][q] /\ bin'[stage][q] = bin[stage][q]
          /\ stamp_value(stage, q)' = stamp_value(stage, q)
          /\ stamp_sig(stage, q)' = stamp_sig(stage, q)
      BY <2>1, <1>0, JobFrame, JobKeepsInputs DEF Stages
    <3>2. JobKnows(q)
      BY <2>1, <1>0 DEF HonestInv, JobInv
    <3> QED
      BY <3>1, <3>2, <1>0 DEF JobKnows, Current, UpToDate, ValueOf
  <2> QED
    BY <1>1, <2>1 DEF JobInv
<1>6. StageInv'
  <2>1. ASSUME stage = 1, NEW q \in Programs PROVE Current(0, q)'
    <3>1. bin'[0][q] = bin[0][q] /\ stamp_value(0, q)' = stamp_value(0, q)
      BY <2>1, <1>0, JobFrame, JobKeepsInputs DEF Stages
    <3>2. Current(0, q)
      BY <2>1, <1>0 DEF HonestInv, StageInv
    <3> QED
      BY <3>1, <3>2 DEF Current, ValueOf
  <2> QED
    BY <1>0, <2>1 DEF StageInv
<1> QED
  BY <1>2, <1>3, <1>4, <1>5, <1>6 DEF HonestInv

(***************************************************************************)
(* The steps of the driver, of a crash, and of a developer who edits       *)
(* between builds only.                                                    *)
(***************************************************************************)
LEMMA CacheKept ==
    ASSUME UNCHANGED <<file, history, clock, cache>>
    PROVE  /\ \A s \in Stages, p \in Programs :
                 /\ HonestStamp(s, p)' <=> HonestStamp(s, p)
                 /\ HonestSig(s, p)' <=> HonestSig(s, p)
                 /\ Current(s, p)' <=> Current(s, p)
           /\ HistoryInv' <=> HistoryInv
<1>1. file' = file /\ history' = history /\ clock' = clock /\ bin' = bin /\ stamp' = stamp
  BY DEF cache
<1> QED
  BY <1>1 DEF HonestStamp, HonestSig, Current, HistoryInv, stamp_value, ValueOf

\* A step of the driver, a crash among them, keeps every stamp honest.
LEMMA DriverHonest ==
    ASSUME TypeOK, HonestInv, Start \/ NextStage \/ Exit \/ Crash
    PROVE  HonestInv'
<1>1. UNCHANGED <<file, history, clock, cache>>
  BY DEF Start, NextStage, Exit, Crash, sources
<1>2. StampHonest' /\ SigHonest' /\ HistoryInv'
  BY <1>1, CacheKept DEF HonestInv, StampHonest, SigHonest
<1>3. driver' = "run" => job' = [p \in Programs |-> IdleJob]
  BY DEF Start, NextStage, Exit, Crash
<1>4. JobInv'
  BY <1>3 DEF JobInv, JobKnows, IdleJob
<1>5. StageInv'
  <2>1. CASE NextStage /\ ~Failed
    <3>1. \A p \in Programs : Current(stage, p)
      BY <2>1 DEF NextStage, Waited, Failed, HonestInv, JobInv, JobKnows
    <3>2. stage = 1 => \A p \in Programs : Current(0, p)
      BY <2>1 DEF NextStage, HonestInv, StageInv
    <3>3. stage \in {0, 1}
      BY DEF TypeOK, Stages
    <3>4. /\ stage = 0 => \A p \in Programs : Current(0, p)'
          /\ stage = 1 => \A s \in Stages, p \in Programs : Current(s, p)'
      BY <3>1, <3>2, <1>1, CacheKept DEF Stages
    <3> QED
      BY <2>1, <3>3, <3>4 DEF NextStage, StageInv
  <2>2. CASE ~(NextStage /\ ~Failed)
    <3>1. driver' # "ready" /\ (driver' = "run" => stage' = 0)
      BY <2>2 DEF Start, NextStage, Exit, Crash
    <3> QED
      BY <3>1 DEF StageInv
  <2> QED
    BY <2>1, <2>2
<1> QED
  BY <1>2, <1>4, <1>5 DEF HonestInv

\* An edit between two builds keeps every stamp honest: new content has a new time.
LEMMA EditHonest ==
    ASSUME TypeOK, HonestInv, NEW f \in Files, NEW v \in Versions, driver = "off", driver' = "off",
           UNCHANGED cache, file' = [file EXCEPT ![f] = v],
           \/ v \in history[f] /\ UNCHANGED <<history, clock>>
           \/ /\ v.time = clock[f] + 1
              /\ history' = [history EXCEPT ![f] = @ \cup {v}]
              /\ clock' = [clock EXCEPT ![f] = @ + 1]
    PROVE  HonestInv'
<1>1. bin' = bin /\ stamp' = stamp
  BY DEF cache
<1>2. \A g \in Files : clock[g] \in Nat /\ clock'[g] >= clock[g]
  BY DEF TypeOK
<1>3. \A g \in Files : \A w \in history'[g] : w \in history[g] \/ (w = v /\ w.time > clock[g] /\ w.time = clock'[g])
  BY DEF TypeOK
<1>4. HistoryInv'
  <2>1. ASSUME NEW g \in Files PROVE file'[g] \in history'[g]
    BY DEF HonestInv, HistoryInv, TypeOK
  <2>2. ASSUME NEW g \in Files, NEW w \in history'[g] PROVE w.time <= clock'[g]
    <3>1. CASE w \in history[g]
      BY <3>1, <1>2 DEF HonestInv, HistoryInv, TypeOK, Versions
    <3>2. CASE w.time = clock'[g]
      BY <3>2, <1>2 DEF TypeOK
    <3> QED
      BY <3>1, <3>2, <1>3, <2>2
  <2>3. ASSUME NEW g \in Files, NEW w \in history'[g], NEW x \in history'[g], w.time = x.time
        PROVE  w.ver = x.ver
    BY <1>2, <1>3, <2>3 DEF HonestInv, HistoryInv, TypeOK, Versions
  <2> QED
    BY <2>1, <2>2, <2>3 DEF HistoryInv
<1>5. StampHonest'
  BY <1>1 DEF HonestInv, StampHonest, HonestStamp, ValueOf
<1>6. SigHonest'
  <2>1. SUFFICES ASSUME NEW s \in Stages, NEW p \in Programs, stamp[s][p].st = "written"
                 PROVE  HonestSig(s, p)'
    BY <1>1 DEF SigHonest, HonestSig
  <2>2. HonestSig(s, p) /\ Source(s, p) \in Files
    BY SourceType DEF HonestInv, SigHonest
  <2>3. stamp[s][p].sig.src \in Nat
    BY DEF TypeOK, StampType, SigLines
  <2>4. stamp[s][p].sig.src <= clock'[Source(s, p)]
    BY <2>1, <2>2, <2>3, <1>2 DEF HonestSig, TypeOK
  <2>5. ASSUME NEW w \in history'[Source(s, p)], w.time = stamp[s][p].sig.src
        PROVE  w.ver = stamp[s][p].value.src
    BY <2>1, <2>2, <2>3, <2>5, <1>2, <1>3 DEF HonestSig
  <2> QED
    BY <2>1, <2>2, <2>4, <2>5, <1>1 DEF HonestSig, BinHash
<1>7. JobInv' /\ StageInv'
  BY DEF JobInv, StageInv
<1> QED
  BY <1>4, <1>5, <1>6, <1>7 DEF HonestInv

\* Every step keeps every stamp honest when nobody edits during a build.
LEMMA HonestStep ==
    ASSUME ~EditsDuringBuild, TypeOK, HonestInv, [Next]_vars
    PROVE  HonestInv'
<1>1. CASE Start \/ NextStage \/ Exit \/ Crash
  BY <1>1, DriverHonest
<1>2. CASE \E p \in Programs : JobStep(p) \/ Fail(p)
  BY <1>2, JobHonest DEF JobAction
<1>3. ASSUME NEW f \in Files, NEW c \in Contents, Save(f, c) PROVE HonestInv'
  <2>1. [ver |-> c, time |-> clock[f] + 1] \in Versions
    BY DEF TypeOK, Versions
  <2> QED
    BY <1>3, <2>1, EditHonest DEF Save, MayEdit
<1>4. ASSUME NEW f \in Files, NEW v \in history[f], Restore(f, v) PROVE HonestInv'
  <2>1. v \in Versions
    BY DEF TypeOK
  <2> QED
    BY <1>4, <2>1, EditHonest DEF Restore, MayEdit
<1>5. CASE UNCHANGED vars
  <2>1. UNCHANGED <<file, history, clock, cache>> /\ driver' = driver /\ stage' = stage /\ job' = job
        /\ bin' = bin /\ stamp' = stamp /\ file' = file
    BY <1>5 DEF vars, cache
  <2>2. StampHonest' /\ SigHonest' /\ HistoryInv' /\ StageInv'
    BY <2>1, CacheKept DEF HonestInv, StampHonest, SigHonest, StageInv, Stages
  <2>3. JobInv'
    BY <2>1 DEF HonestInv, JobInv, JobKnows, Current, UpToDate, ValueOf, stamp_value, stamp_sig
  <2> QED
    BY <2>2, <2>3 DEF HonestInv
<1> QED
  BY <1>1, <1>2, <1>3, <1>4, <1>5 DEF Next, DriverStep

\* There is no stamp in an empty cache.
LEMMA HonestInit == Init => HonestInv
<1> SUFFICES ASSUME Init PROVE HonestInv
  OBVIOUS
<1>1. \A s \in Stages, p \in Programs : stamp[s][p].st = "none"
  BY DEF Init, NoStamp
<1>2. StampHonest /\ SigHonest
  BY <1>1 DEF StampHonest, HonestStamp, SigHonest, HonestSig
<1>3. HistoryInv
  BY DEF Init, HistoryInv
<1>4. JobInv /\ StageInv
  BY DEF Init, JobInv, StageInv
<1> QED
  BY <1>2, <1>3, <1>4 DEF HonestInv

(***************************************************************************)
(* The inductive invariant: while the sources stand still under a running  *)
(* driver, stamps, signatures, jobs and stages keep telling the truth.     *)
(***************************************************************************)
THEOREM HonestInvariant ==
    ASSUME ~EditsDuringBuild PROVE Spec => []HonestInv
<1>1. Init => TypeOK /\ HonestInv
  BY TypeInit, HonestInit
<1>2. TypeOK /\ HonestInv /\ [Next]_vars => TypeOK' /\ HonestInv'
  BY TypeStep, HonestStep
<1> QED
  BY <1>1, <1>2, PTL DEF Spec

(***************************************************************************)
(* When the sources stand still under a running driver, a written stamp    *)
(* names exactly what its binary was made of, after any crash or failure.  *)
(***************************************************************************)
THEOREM StampsAreHonest ==
    ASSUME ~EditsDuringBuild PROVE Spec => []StampHonest
<1>1. HonestInv => StampHonest
  BY DEF HonestInv
<1> QED
  BY <1>1, HonestInvariant, PTL

(***************************************************************************)
(* ... a driver that goes on to compile holds binaries made of the sources *)
(* as they are, although it may have judged them by times alone.           *)
(***************************************************************************)
THEOREM ReadyDriverIsCurrent ==
    ASSUME ~EditsDuringBuild PROVE Spec => []ReadyIsCurrent
<1>1. HonestInv => ReadyIsCurrent
  BY DEF HonestInv, StageInv, ReadyIsCurrent, Current
<1> QED
  BY <1>1, HonestInvariant, PTL

(***************************************************************************)
(* ... and no stamp of an up-to-date binary is ever removed, that is,      *)
(* identical sources with new times rebuild nothing.                       *)
(***************************************************************************)
THEOREM NothingRebuiltNeedlessly ==
    ASSUME ~EditsDuringBuild PROVE Spec => NoNeedlessRebuild
<1>1. ASSUME TypeOK, HonestInv, [Next]_vars, NEW s \in Stages, NEW p \in Programs, UpToDate(s, p)
      PROVE  stamp'[s][p].st # "none"
  <2>1. stamp[s][p].st = "written"
    BY <1>1 DEF UpToDate
  <2>2. CASE stamp' = stamp
    BY <2>1, <2>2
  <2>3. ASSUME NEW q \in Programs, JobAction(q), s # stage \/ p # q PROVE stamp'[s][p].st # "none"
    BY <2>1, <2>3, <1>1, JobFrame
  <2>4. ASSUME JobAction(p), s = stage PROVE stamp'[s][p].st # "none"
    <3>1. ~RemoveStamp(p)
      BY <1>1, <2>4 DEF RemoveStamp, HonestInv, JobInv, JobKnows
    <3>2. stamp' = stamp \/ SetStamp(p, TornStamp) \/ SetStamp(p, JobStamp(p))
      BY <3>1, <2>4 DEF JobAction, JobStep, CheckSig, CheckHash, Refresh, ReadInputs, OpenBinary,
           CloseBinary, StampValue, StampSig, StampFile, Fail, cache
    <3>3. SetStamp(p, TornStamp) \/ SetStamp(p, JobStamp(p)) => stamp'[s][p].st \in {"torn", "written"}
      BY <1>1, <2>4 DEF SetStamp, TornStamp, NoStamp, JobStamp, TypeOK
    <3> QED
      BY <3>2, <3>3, <2>1
  <2> QED
    BY <1>1, <2>2, <2>3, <2>4 DEF Next, DriverStep, Start, NextStage, Exit, Crash, Save, Restore, vars,
         cache, JobAction
<1>2. TypeOK /\ HonestInv /\ [Next]_vars =>
        [\A s \in Stages, p \in Programs : UpToDate(s, p) => stamp'[s][p].st # "none"]_vars
  BY <1>1
<1> QED
  BY <1>2, HonestInvariant, TypeCorrect, PTL DEF Spec, NoNeedlessRebuild

-----------------------------------------------------------------------------
(***************************************************************************)
(* Without the assumption: sources may change at any moment.               *)
(***************************************************************************)
WholeJob(p) ==
    /\ job[p].pc \in {"compile", "link", "write"} => stamp[stage][p].st # "written"
    /\ job[p].pc \in {"refresh", "value", "sig", "stamp"} => bin[stage][p].st = "built"

WholeInv == StampedIsWhole /\ (driver = "run" => \A p \in Programs : WholeJob(p))

\* A step of a job keeps the binaries it names made by a whole compilation.
LEMMA JobWhole ==
    ASSUME TypeOK, WholeInv, NEW p \in Programs, JobAction(p)
    PROVE  WholeInv'
<1> DEFINE s == stage
<1>0. s \in Stages /\ stage' = s /\ driver = "run" /\ driver' = "run"
  BY JobFrame DEF TypeOK
<1>1. WholeJob(p) /\ (stamp[s][p].st = "written" => bin[s][p].st = "built")
  BY <1>0 DEF WholeInv, StampedIsWhole
<1>2. job[p] \in JobType /\ IdleJob \in JobType
  BY DefaultTypes DEF TypeOK
<1>5. ASSUME NEW j, SetJob(p, j) PROVE job'[p] = j
  BY <1>5 DEF SetJob, TypeOK
<1>6. ASSUME NEW st, SetStamp(p, st) PROVE stamp'[s][p] = st
  BY <1>6, <1>0 DEF SetStamp, TypeOK
<1>7. ASSUME NEW b, SetBin(p, b) PROVE bin'[s][p] = b
  BY <1>7, <1>0 DEF SetBin, TypeOK
<1>8. WholeJob(p)' /\ (stamp'[s][p].st = "written" => bin'[s][p].st = "built")
  <2>1. CASE CheckSig(p)
    <3>1. job'[p].pc \in {"stale", "done", "hash"}
      BY <2>1, <1>2, <1>5 DEF CheckSig, SetPc, JobType
    <3> QED
      BY <2>1, <3>1, <1>1 DEF CheckSig, WholeJob, cache
  <2>2. CASE CheckHash(p) /\ HashFresh(p)
    <3>1. stamp'[s][p].st = "torn" /\ bin'[s][p] = bin[s][p]
      BY <2>2, <1>6 DEF CheckHash, TornStamp, NoStamp
    <3>2. bin[s][p].st = "built"
      BY <2>2, <1>1 DEF HashFresh
    <3> QED
      BY <3>1, <3>2, <1>0 DEF WholeJob
  <2>3. CASE CheckHash(p) /\ ~HashFresh(p)
    <3>1. job'[p].pc = "stale" /\ stamp' = stamp /\ bin' = bin
      BY <2>3, <1>2, <1>5 DEF CheckHash, JobType
    <3> QED
      BY <3>1, <1>1 DEF WholeJob
  <2>4. CASE Refresh(p) \/ StampFile(p)
    <3>1. job'[p].pc = "done" /\ bin' = bin
      BY <2>4, <1>2, <1>5 DEF Refresh, StampFile, EndJob, JobType
    <3> QED
      BY <2>4, <3>1, <1>1 DEF Refresh, StampFile, WholeJob
  <2>5. CASE RemoveStamp(p)
    <3>1. job'[p].pc = "compile" /\ stamp'[s][p].st = "none"
      BY <2>5, <1>2, <1>5, <1>6 DEF RemoveStamp, NoStamp, SetPc, JobType
    <3> QED
      BY <3>1, <1>0 DEF WholeJob
  <2>6. CASE ReadInputs(p) \/ OpenBinary(p)
    <3>1. job'[p].pc \in {"link", "write"} /\ stamp' = stamp
      BY <2>6, <1>2, <1>5 DEF ReadInputs, OpenBinary, SetPc, JobType, cache
    <3> QED
      BY <2>6, <3>1, <1>0, <1>1 DEF ReadInputs, OpenBinary, WholeJob
  <2>7. CASE CloseBinary(p)
    <3>1. bin'[s][p] = [st |-> "built", made |-> job[p].read, time |-> bin[s][p].time + 1]
      BY <2>7, <1>7 DEF CloseBinary
    <3>2. job'[p] = [job[p] EXCEPT !.pc = "value", !.read = NoInputs]
      BY <2>7, <1>5 DEF CloseBinary
    <3> QED
      BY <3>1, <3>2, <1>0, <1>2 DEF WholeJob, JobType
  <2>8. CASE StampValue(p) \/ StampSig(p)
    <3>1. bin' = bin /\ bin[s][p].st = "built"
      BY <2>8, <1>1 DEF StampValue, StampSig, WholeJob, cache
    <3>2. job'[p].pc \in {"sig", "stamp"}
      BY <2>8, <1>2, <1>5 DEF StampValue, StampSig, JobType
    <3> QED
      BY <3>1, <3>2, <1>0 DEF WholeJob
  <2>9. CASE Fail(p)
    <3>1. job'[p].pc = "failed" /\ stamp' = stamp
      BY <2>9, <1>2, <1>5 DEF Fail, EndJob, JobType
    <3> QED
      BY <2>9, <3>1, <1>0, <1>1 DEF Fail, WholeJob
  <2> QED
    BY <2>1, <2>2, <2>3, <2>4, <2>5, <2>6, <2>7, <2>8, <2>9 DEF JobAction, JobStep
<1>9. StampedIsWhole'
  BY <1>0, <1>8, JobFrame DEF WholeInv, StampedIsWhole
<1>10. \A q \in Programs \ {p} : WholeJob(q)'
  BY <1>0, JobFrame DEF WholeInv, WholeJob
<1> QED
  BY <1>8, <1>9, <1>10 DEF WholeInv

(***************************************************************************)
(* A stamp never vouches for a binary that is missing or half written,     *)
(* whenever a crash, a failed compile or an edit comes.                    *)
(***************************************************************************)
THEOREM StampedBinaryIsWhole == Spec => []StampedIsWhole
<1>1. Init => WholeInv
  BY DEF Init, WholeInv, StampedIsWhole, NoStamp
<1>2. ASSUME TypeOK, WholeInv, [Next]_vars PROVE WholeInv'
  <2>1. CASE \E p \in Programs : JobStep(p) \/ Fail(p)
    BY <1>2, <2>1, JobWhole DEF JobAction
  <2>2. CASE Start \/ NextStage \/ Exit \/ Crash
    <3>1. bin' = bin /\ stamp' = stamp /\ (driver' = "run" => job' = [p \in Programs |-> IdleJob])
      BY <2>2 DEF Start, NextStage, Exit, Crash, cache
    <3> QED
      BY <1>2, <3>1 DEF WholeInv, WholeJob, StampedIsWhole, IdleJob
  <2>3. CASE UNCHANGED <<bin, stamp, driver, stage, job>>
    BY <1>2, <2>3 DEF WholeInv, WholeJob, StampedIsWhole
  <2>4. ASSUME NEW f \in Files, NEW c, Save(f, c) PROVE UNCHANGED <<bin, stamp, driver, stage, job>>
    BY <2>4 DEF Save, cache
  <2>5. ASSUME NEW f \in Files, NEW v, Restore(f, v) PROVE UNCHANGED <<bin, stamp, driver, stage, job>>
    BY <2>5 DEF Restore, cache
  <2> QED
    BY <1>2, <2>1, <2>2, <2>3, <2>4, <2>5 DEF Next, DriverStep, vars
<1>3. TypeOK /\ WholeInv /\ [Next]_vars => WholeInv'
  BY <1>2
<1>4. WholeInv => StampedIsWhole
  BY DEF WholeInv
<1> QED
  BY <1>1, <1>3, <1>4, TypeCorrect, PTL DEF Spec
=============================================================================
