--------------------------- MODULE CaseCacheProofs ---------------------------
(***************************************************************************)
(* The cases of a scaling claim are skipped together or run together, and  *)
(* what a build skips was earned, for any cases, claims, programs, files   *)
(* and number of builds.                                                   *)
(***************************************************************************)
EXTENDS CaseCache, FiniteSetTheorems, SequenceTheorems, TLAPS

(***************************************************************************)
(* Types of the parts of a build.                                          *)
(***************************************************************************)
LEMMA IdleType == Idle \in BuildType
  BY DEF Idle, BuildType, Pcs, Hashes, Unread, Stamps, NoStamps

\* A step of build b replaces its record by r, and nothing else of build.
LEMMA SetBuildType ==
    ASSUME CoreOK, NEW b \in Builds, NEW r \in BuildType, SetBuild(b, r), disk' = disk
    PROVE  CoreOK'
  BY DEF CoreOK, SetBuild

\* What a probe of the files gives.
LEMMA ProbeTypes ==
    ASSUME CoreOK
    PROVE  /\ \A S : [p \in Paths |-> IF p \in S THEN disk[p].stamp ELSE 0] \in Stamps
           /\ [p \in Paths |-> disk[p].stamp] \in Stamps
           /\ \A h \in Stamps : [p \in Paths |-> IF h[p] # 0 THEN disk[p].ver ELSE NotRead] \in Hashes
  BY DEF CoreOK, Stamps, Hashes

\* A hit is a case of the program.
LEMMA HitsType ==
    ASSUME CoreOK, NEW b \in Builds, NEW have
    PROVE  Hits(b, have) \subseteq Cases
  BY DEF Hits, Listed, CoreOK, BuildType

(***************************************************************************)
(* Every step of a build but Begin, Finish, Crash and the plan keeps the   *)
(* program and the hits; the loop over the groups ends only when no group  *)
(* is split.                                                               *)
(***************************************************************************)
GoodRecord(r) == r \in BuildType /\ (r.pc \notin Planning => Together(r))

\* A build whose new record is good keeps its claims together.
LEMMA GoodStep ==
    ASSUME CoreOK, ClaimsTogether, NEW b \in Builds, NEW r, GoodRecord(r),
           SetBuild(b, r), disk' = disk
    PROVE  CoreOK' /\ ClaimsTogether'
  <1>1. CoreOK'
    BY SetBuildType DEF GoodRecord
  <1>2. ASSUME NEW c \in Builds, build[c]'.pc \notin Planning PROVE Together(build[c]')
    BY <1>2 DEF SetBuild, CoreOK, ClaimsTogether, GoodRecord
  <1> QED BY <1>1, <1>2 DEF ClaimsTogether, Together

\* A record that differs from a good one in neither program nor hits.
LEMMA GoodSame ==
    ASSUME NEW s, GoodRecord(s), s.pc \notin Planning,
           NEW r \in BuildType, r.prog = s.prog, r.hits = s.hits
    PROVE  GoodRecord(r)
  BY DEF GoodRecord, Together

\* The steps that plan keep the claims together.
LEMMA PlanSteps ==
    ASSUME CoreOK, ClaimsTogether, NEW b \in Builds,
           \/ \E prog \in Programs, fresh \in FreshSets : Begin(b, prog, fresh)
           \/ Plan(b) \/ PlanHash(b) \/ PlanAgain(b) \/ GroupRound(b)
    PROVE  CoreOK' /\ ClaimsTogether'
  <1>0. build[b] \in BuildType
    BY DEF CoreOK
  <1>1. CASE \E prog \in Programs, fresh \in FreshSets : Begin(b, prog, fresh)
    <2> PICK prog \in Programs, fresh \in FreshSets : Begin(b, prog, fresh)
      BY <1>1
    <2> DEFINE r == [Idle EXCEPT !.pc = "plan", !.prog = prog, !.fresh = fresh]
    <2>1. GoodRecord(r)
      BY IdleType, CasesAssumption DEF GoodRecord, BuildType, Pcs, Planning
    <2> QED BY <2>1, GoodStep DEF Begin, world
  <1>2. CASE Plan(b)
    <2> DEFINE r1 == [build[b] EXCEPT !.pc = "groups", !.hits = Hits(b, Unread)]
               r2 == [build[b] EXCEPT !.pc = "stat",
                         !.haveAt = [p \in Paths |-> IF p \in Asked(b) THEN disk[p].stamp ELSE 0]]
    <2>1. GoodRecord(r1)
      BY <1>0, HitsType DEF GoodRecord, BuildType, Pcs, Planning
    <2>2. GoodRecord(r2)
      BY <1>0, ProbeTypes DEF GoodRecord, BuildType, Pcs, Planning
    <2>3. (SetBuild(b, r1) \/ SetBuild(b, r2)) /\ disk' = disk
      BY <1>2 DEF Plan, world
    <2> QED BY <2>1, <2>2, <2>3, GoodStep
  <1>3. CASE PlanHash(b)
    <2> DEFINE r == [build[b] EXCEPT !.pc = "again",
                        !.have = [p \in Paths |-> IF build[b].haveAt[p] # 0 THEN disk[p].ver ELSE NotRead]]
    <2>1. GoodRecord(r)
      BY <1>0, ProbeTypes DEF GoodRecord, BuildType, Pcs, Planning
    <2> QED BY <1>3, <2>1, GoodStep DEF PlanHash, world
  <1>4. CASE PlanAgain(b)
    <2> DEFINE r == [build[b] EXCEPT !.pc = "groups", !.hits = Hits(b, build[b].have)]
    <2>1. GoodRecord(r)
      BY <1>0, HitsType DEF GoodRecord, BuildType, Pcs, Planning
    <2> QED BY <1>4, <2>1, GoodStep DEF PlanAgain, world
  <1>5. CASE GroupRound(b)
    <2> DEFINE h == build[b].hits \ UNION Broken(b)
               r == [build[b] EXCEPT !.hits = h, !.pc = IF h = build[b].hits THEN "planned" ELSE "groups"]
    <2>1. r \in BuildType /\ r.prog = build[b].prog /\ r.hits = h
      BY <1>0 DEF BuildType, Pcs
    <2>2. ASSUME r.pc \notin Planning PROVE Together(r)
      <3>1. h = build[b].hits
        BY <2>2, <1>0 DEF Planning, BuildType
      <3>2. ASSUME NEW G \in Groups(build[b].prog), ~(G \subseteq build[b].hits)
            PROVE  G \cap build[b].hits = {}
        <4>1. G \in Broken(b)
          BY <3>2 DEF Broken
        <4> QED BY <4>1, <3>1
      <3> QED BY <2>1, <3>1, <3>2 DEF Together
    <2>3. GoodRecord(r)
      BY <2>1, <2>2 DEF GoodRecord
    <2> QED BY <1>5, <2>3, GoodStep DEF GroupRound, world
  <1> QED BY <1>1, <1>2, <1>3, <1>4, <1>5

\* The steps that run and judge cases keep the claims together.
LEMMA RunSteps ==
    ASSUME CoreOK, ClaimsTogether, NEW b \in Builds,
           \/ \E whole \in BOOLEAN : StartHarness(b, whole)
           \/ \E c \in Cases, ok \in BOOLEAN : RunCase(b, c, ok)
           \/ \E held \in SUBSET Groups(build[b].prog) : Judge(b, held)
    PROVE  CoreOK' /\ ClaimsTogether'
  <1>0. build[b] \in BuildType /\ (build[b].pc \notin Planning => GoodRecord(build[b]))
    BY DEF CoreOK, ClaimsTogether, GoodRecord
  <1>1. CASE \E whole \in BOOLEAN : StartHarness(b, whole)
    <2> PICK whole \in BOOLEAN : StartHarness(b, whole)
      BY <1>1
    <2> DEFINE r1 == [build[b] EXCEPT !.pc = "done"]
               r2 == [build[b] EXCEPT !.pc = "run", !.whole = whole]
    <2>1. GoodRecord(build[b]) /\ build[b].pc \notin Planning
      BY <1>0 DEF StartHarness, Planning
    <2>2. r1 \in BuildType /\ r1.prog = build[b].prog /\ r1.hits = build[b].hits
      BY <1>0 DEF BuildType, Pcs
    <2>3. r2 \in BuildType /\ r2.prog = build[b].prog /\ r2.hits = build[b].hits
      BY <1>0 DEF BuildType, Pcs
    <2>4. GoodRecord(r1) /\ GoodRecord(r2)
      BY <2>1, <2>2, <2>3, GoodSame
    <2>5. (SetBuild(b, r1) \/ SetBuild(b, r2)) /\ disk' = disk
      BY DEF StartHarness, world
    <2> QED BY <2>4, <2>5, GoodStep
  <1>2. CASE \E c \in Cases, ok \in BOOLEAN : RunCase(b, c, ok)
    <2> PICK c \in Cases, ok \in BOOLEAN : RunCase(b, c, ok)
      BY <1>2
    <2> DEFINE stamps == [p \in Paths |-> IF ok /\ p \in Reads[c] THEN disk[p].stamp ELSE 0]
               r == [build[b] EXCEPT
                        !.ran = @ \cup {c},
                        !.passed = IF ok THEN @ \cup {c} ELSE @,
                        !.log[c] = stamps]
    <2>1. GoodRecord(build[b]) /\ build[b].pc \notin Planning
      BY <1>0 DEF RunCase, Planning
    <2>2. stamps \in Stamps
      BY DEF CoreOK, Stamps
    <2>3. r \in BuildType /\ r.prog = build[b].prog /\ r.hits = build[b].hits
      BY <1>0, <2>2 DEF BuildType, Pcs
    <2>4. GoodRecord(r)
      BY <2>1, <2>3, GoodSame
    <2> QED BY <2>4, GoodStep DEF RunCase, world
  <1>3. CASE \E held \in SUBSET Groups(build[b].prog) : Judge(b, held)
    <2> PICK held \in SUBSET Groups(build[b].prog) : Judge(b, held)
      BY <1>3
    <2> DEFINE r1 == [build[b] EXCEPT !.pc = "record", !.whole = TRUE, !.ran = {}]
               r2 == [build[b] EXCEPT !.pc = "record", !.ran = {}, !.rc = 1]
               r3 == [build[b] EXCEPT !.whole = TRUE, !.ran = {}, !.passed = {}, !.log = Idle.log]
    <2>1. GoodRecord(build[b]) /\ build[b].pc \notin Planning
      BY <1>0 DEF Judge, Planning
    <2>2. r1 \in BuildType /\ r1.prog = build[b].prog /\ r1.hits = build[b].hits
      BY <1>0 DEF BuildType, Pcs
    <2>3. r2 \in BuildType /\ r2.prog = build[b].prog /\ r2.hits = build[b].hits
      BY <1>0 DEF BuildType, Pcs
    <2>4. r3 \in BuildType /\ r3.prog = build[b].prog /\ r3.hits = build[b].hits
      <3>1. Idle.log \in [Cases -> Stamps]
        BY IdleType DEF BuildType
      <3> QED BY <1>0, <3>1 DEF BuildType, Pcs
    <2>5. GoodRecord(r1) /\ GoodRecord(r2) /\ GoodRecord(r3)
      BY <2>1, <2>2, <2>3, <2>4, GoodSame
    <2>6. (SetBuild(b, r1) \/ SetBuild(b, r2) \/ SetBuild(b, r3)) /\ disk' = disk
      BY DEF Judge, world
    <2> QED BY <2>5, <2>6, GoodStep
  <1> QED BY <1>1, <1>2, <1>3

\* The steps that record results keep the claims together.
LEMMA RecordSteps ==
    ASSUME CoreOK, ClaimsTogether, NEW b \in Builds,
           RecordRead(b) \/ RecordHash(b) \/ RecordMv(b) \/ Finish(b) \/ Crash(b)
    PROVE  CoreOK' /\ ClaimsTogether'
  <1>0. build[b] \in BuildType /\ (build[b].pc \notin Planning => GoodRecord(build[b]))
    BY DEF CoreOK, ClaimsTogether, GoodRecord
  <1> DEFINE done == [build[b] EXCEPT !.pc = "done"]
  <1>1. ASSUME build[b].pc \notin Planning PROVE GoodRecord(done)
    <2>1. done \in BuildType /\ done.prog = build[b].prog /\ done.hits = build[b].hits
      BY <1>0 DEF BuildType, Pcs
    <2> QED BY <1>0, <1>1, <2>1, GoodSame
  <1>2. CASE RecordRead(b)
    <2> DEFINE r == [build[b] EXCEPT !.pc = "sha", !.passed = Kept(b),
                        !.probeAt = [p \in Paths |-> disk[p].stamp]]
    <2>1. GoodRecord(build[b]) /\ build[b].pc \notin Planning
      BY <1>0, <1>2 DEF RecordRead, Planning
    <2>2. Kept(b) \subseteq Cases
      BY <1>0 DEF Kept, BuildType
    <2>3. r \in BuildType /\ r.prog = build[b].prog /\ r.hits = build[b].hits
      BY <1>0, <2>2, ProbeTypes DEF BuildType, Pcs
    <2>4. GoodRecord(r) /\ GoodRecord(done)
      BY <1>1, <2>1, <2>3, GoodSame
    <2>5. (SetBuild(b, done) \/ SetBuild(b, r)) /\ disk' = disk
      BY <1>2 DEF RecordRead, world
    <2> QED BY <2>4, <2>5, GoodStep
  <1>3. CASE RecordHash(b)
    <2> DEFINE r == [build[b] EXCEPT !.pc = "mv", !.passed = {}, !.log = Idle.log, !.probeAt = NoStamps]
    <2>1. GoodRecord(build[b]) /\ build[b].pc \notin Planning
      BY <1>0, <1>3 DEF RecordHash, Planning
    <2>2. Idle.log \in [Cases -> Stamps] /\ NoStamps \in Stamps
      BY IdleType DEF BuildType, NoStamps, Stamps
    <2>3. r \in BuildType /\ r.prog = build[b].prog /\ r.hits = build[b].hits
      BY <1>0, <2>2 DEF BuildType, Pcs
    <2>4. GoodRecord(r)
      BY <2>1, <2>3, GoodSame
    <2>5. SetBuild(b, r) /\ disk' = disk
      BY <1>3 DEF RecordHash, world
    <2> QED BY <2>4, <2>5, GoodStep
  <1>4. CASE RecordMv(b)
    <2>1. build[b].pc \notin Planning
      BY <1>4 DEF RecordMv, Planning
    <2> QED BY <1>1, <1>4, <2>1, GoodStep DEF RecordMv, world
  <1>5. CASE Finish(b) \/ Crash(b)
    <2>1. GoodRecord(Idle)
      BY IdleType DEF GoodRecord, Idle, Planning
    <2>2. SetBuild(b, Idle) /\ disk' = disk
      BY <1>5 DEF Finish, Crash, world
    <2> QED BY <2>1, <2>2, GoodStep
  <1> QED BY <1>2, <1>3, <1>4, <1>5

LEMMA InitCore == Init => CoreOK /\ ClaimsTogether
  <1> SUFFICES ASSUME Init PROVE CoreOK /\ ClaimsTogether
    OBVIOUS
  <1>1. disk \in [Paths -> [ver: Contents, stamp: Nat]]
    BY CasesAssumption DEF Init
  <1>2. build \in [Builds -> BuildType]
    BY IdleType DEF Init
  <1>3. ClaimsTogether
    BY DEF Init, ClaimsTogether, Idle, Planning
  <1> QED BY <1>1, <1>2, <1>3 DEF CoreOK

LEMMA NextCore == CoreOK /\ ClaimsTogether /\ [Next]_vars => CoreOK' /\ ClaimsTogether'
  <1> SUFFICES ASSUME CoreOK, ClaimsTogether, [Next]_vars PROVE CoreOK' /\ ClaimsTogether'
    OBVIOUS
  <1>1. CASE \E p \in Paths, v \in Contents : Edit(p, v)
    BY <1>1 DEF Edit, CoreOK, ClaimsTogether
  <1>2. CASE Age
    BY <1>2 DEF Age, world, CoreOK, ClaimsTogether
  <1>3. CASE UNCHANGED vars
    BY <1>3 DEF vars, CoreOK, ClaimsTogether
  <1>4. ASSUME NEW b \in Builds,
               \/ \E prog \in Programs, fresh \in FreshSets : Begin(b, prog, fresh)
               \/ BuildStep(b)
        PROVE  CoreOK' /\ ClaimsTogether'
    BY <1>4, PlanSteps, RunSteps, RecordSteps DEF BuildStep
  <1> QED BY <1>1, <1>2, <1>3, <1>4 DEF Next

(***************************************************************************)
(* After the plan, whatever other builds record and whatever files change, *)
(* no claim is left with some of its cases skipped and others run, however *)
(* the claims overlap.                                                     *)
(***************************************************************************)
THEOREM ClaimsStayTogether == Spec => []ClaimsTogether
  BY InitCore, NextCore, PTL DEF Spec

(***************************************************************************)
(* The inductive invariant for what is skipped.  d, E and J stand for the  *)
(* files, what was earned and what was judged.                             *)
(***************************************************************************)
ClaimsOk(J, c) == \A C \in Claims : c \in C => \E G \in J : G \subseteq C /\ c \in G

EntryOk(E, J, e) ==
    /\ e \in ListEntries
    /\ e.case \notin Writers => /\ [case |-> e.case, saw |-> e.reads] \in E
                                /\ \A p \in Paths : e.reads[p] = NotRead <=> p \notin Reads[e.case]
    /\ ClaimsOk(J, e.case)

ListOk(E, J, s) == s \in Seq(ListEntries) /\ \A i \in DOMAIN s : EntryOk(E, J, s[i])

\* Where a case's log has the stamp a file has now, the file holds what the case saw.
LogOk(d, E, l, c) ==
    \E w \in Hashes :
        /\ [case |-> c, saw |-> w] \in E
        /\ \A p \in Paths :
              /\ p \in Reads[c] => /\ l[p] # 0 /\ l[p] <= d[p].stamp
                                   /\ l[p] = d[p].stamp => w[p] = d[p].ver
              /\ p \notin Reads[c] => w[p] = NotRead /\ l[p] = 0

\* The plan's hashes: as a log, and none before the files are probed.
HaveOk(d, r) ==
    /\ r.pc \in {"idle", "plan"} => r.have = Unread /\ r.haveAt = NoStamps
    /\ \A p \in Paths : r.haveAt[p] <= d[p].stamp
    /\ r.pc # "stat" => \A p \in Paths : r.haveAt[p] # 0 /\ r.haveAt[p] = d[p].stamp => r.have[p] = d[p].ver

\* What has passed and will be recorded.
PassedOk(d, E, r) ==
    /\ r.pc \notin {"run", "record", "sha"} => r.passed = {}
    /\ r.passed \subseteq r.prog \ r.hits /\ IsFiniteSet(r.passed)
    /\ r.pc = "run" => r.passed \subseteq r.ran
    /\ \A c \in r.passed : LogOk(d, E, r.log[c], c)

RecordOk(d, J, r) ==
    /\ r.pc \in {"record", "sha"} /\ r.rc = 0 => \A G \in Groups(r.prog) : G \cap r.hits = {} => G \in J
    /\ r.pc = "sha" => /\ r.rc # 0 => \A G \in Groups(r.prog) : r.passed \cap G = {}
                       /\ \A p \in Paths : r.probeAt[p] = d[p].stamp

SawAt(c, have) == [p \in Paths |-> IF p \in Reads[c] THEN have[p] ELSE NotRead]

HitsOk(E, J, r) ==
    /\ r.pc \in {"idle", "plan", "stat", "again"} => r.hits = {}
    /\ \A c \in r.hits \ Writers : [case |-> c, saw |-> SawAt(c, r.have)] \in E
    /\ \A c \in r.hits : ClaimsOk(J, c)

BuildOk(d, E, J, r) == HaveOk(d, r) /\ PassedOk(d, E, r) /\ RecordOk(d, J, r) /\ HitsOk(E, J, r)

Inv ==
    /\ CoreOK /\ ClaimsTogether
    /\ \A p \in Paths : disk[p].stamp # 0
    /\ ListOk(earned, judged, list)
    /\ tmp \in [Builds -> Seq(ListEntries)] /\ \A b \in Builds : ListOk(earned, judged, tmp[b])
    /\ \A b \in Builds : BuildOk(disk, earned, judged, build[b])

(***************************************************************************)
(* Passes and judgements are never taken back.                             *)
(***************************************************************************)
LEMMA MoreList ==
    ASSUME NEW E, NEW J, NEW E2, NEW J2, E \subseteq E2, J \subseteq J2, NEW s, ListOk(E, J, s)
    PROVE  ListOk(E2, J2, s)
  <1>1. \A e : EntryOk(E, J, e) => EntryOk(E2, J2, e)
    BY DEF EntryOk, ClaimsOk
  <1> QED BY <1>1 DEF ListOk

LEMMA MoreBuild ==
    ASSUME NEW d, NEW E, NEW J, NEW E2, NEW J2, E \subseteq E2, J \subseteq J2, NEW r, BuildOk(d, E, J, r)
    PROVE  BuildOk(d, E2, J2, r)
  <1>1. HaveOk(d, r)
    BY DEF BuildOk
  <1>2. \A l, c : LogOk(d, E, l, c) => LogOk(d, E2, l, c)
    BY DEF LogOk
  <1>3. PassedOk(d, E2, r)
    BY <1>2 DEF BuildOk, PassedOk
  <1>4. RecordOk(d, J2, r)
    BY DEF BuildOk, RecordOk
  <1>5. HitsOk(E2, J2, r)
    BY DEF BuildOk, HitsOk, ClaimsOk
  <1> QED BY <1>1, <1>3, <1>4, <1>5 DEF BuildOk

\* A step of build b that replaces its record by r.
LEMMA BuildOkStep ==
    ASSUME Inv, [Next]_vars, NEW b \in Builds, NEW r, SetBuild(b, r), disk' = disk,
           earned \subseteq earned', judged \subseteq judged',
           BuildOk(disk, earned', judged', r), ListOk(earned', judged', list'),
           NEW s, ListOk(earned', judged', s), tmp' = tmp \/ tmp' = [tmp EXCEPT ![b] = s]
    PROVE  Inv'
  <1>1. CoreOK' /\ ClaimsTogether'
    BY NextCore DEF Inv
  <1>2. \A c \in Builds : build'[c] = IF c = b THEN r ELSE build[c]
    BY DEF Inv, CoreOK, SetBuild
  <1>3. \A c \in Builds : BuildOk(disk, earned', judged', build'[c])
    <2> SUFFICES ASSUME NEW c \in Builds PROVE BuildOk(disk, earned', judged', build'[c])
      OBVIOUS
    <2>1. CASE c = b
      BY <2>1, <1>2
    <2>2. CASE c # b
      <3>1. BuildOk(disk, earned, judged, build[c])
        BY DEF Inv
      <3> QED BY <2>2, <3>1, <1>2, MoreBuild
    <2> QED BY <2>1, <2>2
  <1>4. s \in Seq(ListEntries)
    BY DEF ListOk
  <1>5. tmp' \in [Builds -> Seq(ListEntries)] /\ \A c \in Builds : tmp'[c] = tmp[c] \/ tmp'[c] = s
    BY <1>4 DEF Inv
  <1>6. \A c \in Builds : ListOk(earned', judged', tmp'[c])
    BY <1>5, MoreList DEF Inv
  <1>7. \A p \in Paths : disk'[p].stamp # 0
    BY DEF Inv
  <1> QED BY <1>1, <1>3, <1>5, <1>6, <1>7 DEF Inv

\* What Inv says of the build that takes a step.
LEMMA BuildFacts ==
    ASSUME Inv, NEW b \in Builds
    PROVE  /\ build[b] \in BuildType /\ disk \in [Paths -> [ver: Contents, stamp: Nat]]
           /\ BuildOk(disk, earned, judged, build[b]) /\ ListOk(earned, judged, list) /\ ListOk(earned, judged, << >>)
           /\ ListOk(earned, judged, tmp[b])
  <1>1. ListOk(earned, judged, << >>)
    BY DEF ListOk
  <1> QED BY <1>1 DEF Inv, CoreOK

\* A step that changes nothing but b's record.
LEMMA OwnStep ==
    ASSUME Inv, [Next]_vars, NEW b \in Builds, NEW r, SetBuild(b, r), BuildOk(disk, earned, judged, r),
           UNCHANGED <<world, list, tmp, earned, judged>>
    PROVE  Inv'
  <1>1. ListOk(earned, judged, list) /\ ListOk(earned, judged, << >>)
    BY BuildFacts
  <1>2. disk' = disk /\ list' = list /\ tmp' = tmp /\ earned' = earned /\ judged' = judged
    BY DEF world
  <1> QED BY <1>1, <1>2, BuildOkStep

\* A hit has an entry whose paths hash as they did.
LEMMA HitsEarned ==
    ASSUME Inv, NEW b \in Builds, NEW have, NEW c \in Hits(b, have)
    PROVE  ClaimsOk(judged, c) /\ (c \notin Writers => [case |-> c, saw |-> SawAt(c, have)] \in earned)
  <1>1. PICK i \in DOMAIN list : c = list[i].case /\ GoodReads(list[i], have)
    BY DEF Hits, Listed
  <1>2. EntryOk(earned, judged, list[i])
    BY DEF Inv, ListOk
  <1>3. ASSUME c \notin Writers PROVE SawAt(c, have) = list[i].reads
    <2>1. list[i].reads \in Hashes /\ \A p \in Paths : list[i].reads[p] = NotRead <=> p \notin Reads[c]
      BY <1>1, <1>2, <1>3 DEF EntryOk, ListEntries
    <2>2. \A p \in Paths : list[i].reads[p] = IF p \in Reads[c] THEN have[p] ELSE NotRead
      BY <2>1, <1>1 DEF GoodReads
    <2> QED BY <2>1, <2>2 DEF SawAt, Hashes
  <1> QED BY <1>1, <1>2, <1>3 DEF EntryOk

LEMMA IdleOk ==
    ASSUME Inv, NEW r, r.pc \in {"idle", "plan"}, r.hits = {}, r.have = Unread, r.haveAt = NoStamps, r.passed = {}
    PROVE  BuildOk(disk, earned, judged, r)
  <1>1. HaveOk(disk, r)
    BY DEF HaveOk, NoStamps, Inv, CoreOK
  <1>2. PassedOk(disk, earned, r)
    BY FS_EmptySet DEF PassedOk
  <1> QED BY <1>1, <1>2 DEF BuildOk, RecordOk, HitsOk

\* The steps that plan.
LEMMA InvPlan ==
    ASSUME Inv, [Next]_vars, NEW b \in Builds,
           \/ \E prog \in Programs, fresh \in FreshSets : Begin(b, prog, fresh)
           \/ Plan(b) \/ PlanHash(b) \/ PlanAgain(b) \/ GroupRound(b)
    PROVE  Inv'
  <1>0. build[b] \in BuildType /\ disk \in [Paths -> [ver: Contents, stamp: Nat]] /\ BuildOk(disk, earned, judged, build[b])
    BY BuildFacts
  <1>1. CASE \E prog \in Programs, fresh \in FreshSets : Begin(b, prog, fresh)
    <2> PICK prog \in Programs, fresh \in FreshSets : Begin(b, prog, fresh)
      BY <1>1
    <2> DEFINE r == [Idle EXCEPT !.pc = "plan", !.prog = prog, !.fresh = fresh]
    <2>1. r.pc = "plan" /\ r.hits = {} /\ r.have = Unread /\ r.haveAt = NoStamps /\ r.passed = {}
      BY DEF Idle
    <2>2. SetBuild(b, r) /\ UNCHANGED <<world, list, tmp, earned, judged>>
      BY DEF Begin
    <2> HIDE DEF r
    <2>3. BuildOk(disk, earned, judged, r)
      BY <2>1, IdleOk
    <2> QED BY <2>2, <2>3, OwnStep
  <1>2. CASE Plan(b)
    <2>0. build[b].pc = "plan" /\ build[b].have = Unread /\ build[b].haveAt = NoStamps /\ build[b].hits = {} /\ build[b].passed = {}
      BY <1>0, <1>2 DEF Plan, BuildOk, HaveOk, HitsOk, PassedOk
    <2>1. CASE Asked(b) = {}
      <3> DEFINE r == [build[b] EXCEPT !.pc = "groups", !.hits = Hits(b, Unread)]
      <3>1. /\ r.pc = "groups" /\ r.hits = Hits(b, Unread) /\ r.have = Unread /\ r.haveAt = NoStamps /\ r.passed = {}
        BY <1>0, <2>0 DEF BuildType
      <3>2. SetBuild(b, r) /\ UNCHANGED <<world, list, tmp, earned, judged>>
        BY <1>2, <2>1 DEF Plan
      <3> HIDE DEF r
      <3>3. HaveOk(disk, r)
        BY <3>1, <1>0 DEF HaveOk, NoStamps
      <3>4. PassedOk(disk, earned, r)
        BY <3>1, FS_EmptySet DEF PassedOk
      <3>5. HitsOk(earned, judged, r)
        BY <3>1, HitsEarned DEF HitsOk
      <3>6. BuildOk(disk, earned, judged, r)
        BY <3>1, <3>3, <3>4, <3>5 DEF BuildOk, RecordOk
      <3> QED BY <3>2, <3>6, OwnStep
    <2>2. CASE Asked(b) # {}
      <3> DEFINE at == [p \in Paths |-> IF p \in Asked(b) THEN disk[p].stamp ELSE 0]
                 r == [build[b] EXCEPT !.pc = "stat", !.haveAt = at]
      <3>1. r.pc = "stat" /\ r.hits = {} /\ r.haveAt = at /\ r.passed = {}
        BY <1>0, <2>0 DEF BuildType
      <3>2. SetBuild(b, r) /\ UNCHANGED <<world, list, tmp, earned, judged>>
        BY <1>2, <2>2 DEF Plan
      <3> HIDE DEF r
      <3>3. HaveOk(disk, r)
        BY <3>1, <1>0 DEF HaveOk
      <3>4. PassedOk(disk, earned, r)
        BY <3>1, FS_EmptySet DEF PassedOk
      <3>5. BuildOk(disk, earned, judged, r)
        BY <3>1, <3>3, <3>4 DEF BuildOk, RecordOk, HitsOk
      <3> QED BY <3>2, <3>5, OwnStep
    <2> QED BY <2>1, <2>2
  <1>3. CASE PlanHash(b)
    <2> DEFINE got == [p \in Paths |-> IF build[b].haveAt[p] # 0 THEN disk[p].ver ELSE NotRead]
               r == [build[b] EXCEPT !.pc = "again", !.have = got]
    <2>0. build[b].pc = "stat" /\ build[b].hits = {} /\ build[b].passed = {} /\ \A p \in Paths : build[b].haveAt[p] <= disk[p].stamp
      BY <1>0, <1>3 DEF PlanHash, BuildOk, HaveOk, HitsOk, PassedOk
    <2>1. r.pc = "again" /\ r.hits = {} /\ r.haveAt = build[b].haveAt /\ r.have = got /\ r.passed = {}
      BY <1>0, <2>0 DEF BuildType
    <2>2. SetBuild(b, r) /\ UNCHANGED <<world, list, tmp, earned, judged>>
      BY <1>3 DEF PlanHash
    <2> HIDE DEF r
    <2>3. HaveOk(disk, r)
      BY <2>0, <2>1 DEF HaveOk
    <2>4. PassedOk(disk, earned, r)
      BY <2>1, FS_EmptySet DEF PassedOk
    <2>5. BuildOk(disk, earned, judged, r)
      BY <2>1, <2>3, <2>4 DEF BuildOk, RecordOk, HitsOk
    <2> QED BY <2>2, <2>5, OwnStep
  <1>4. CASE PlanAgain(b)
    <2> DEFINE r == [build[b] EXCEPT !.pc = "groups", !.hits = Hits(b, build[b].have)]
    <2>0. build[b].pc = "again" /\ build[b].passed = {} /\ HaveOk(disk, build[b])
      BY <1>0, <1>4 DEF PlanAgain, BuildOk, PassedOk
    <2>1. /\ r.pc = "groups" /\ r.hits = Hits(b, build[b].have) /\ r.haveAt = build[b].haveAt /\ r.have = build[b].have
          /\ r.passed = {}
      BY <1>0, <2>0 DEF BuildType
    <2>2. SetBuild(b, r) /\ UNCHANGED <<world, list, tmp, earned, judged>>
      BY <1>4 DEF PlanAgain
    <2> HIDE DEF r
    <2>3. HaveOk(disk, r)
      BY <2>0, <2>1 DEF HaveOk
    <2>4. PassedOk(disk, earned, r)
      BY <2>1, FS_EmptySet DEF PassedOk
    <2>5. HitsOk(earned, judged, r)
      BY <2>1, HitsEarned DEF HitsOk
    <2>6. BuildOk(disk, earned, judged, r)
      BY <2>1, <2>3, <2>4, <2>5 DEF BuildOk, RecordOk
    <2> QED BY <2>2, <2>6, OwnStep
  <1>5. CASE GroupRound(b)
    <2> DEFINE h == build[b].hits \ UNION Broken(b)
               r == [build[b] EXCEPT !.hits = h, !.pc = IF h = build[b].hits THEN "planned" ELSE "groups"]
    <2>0. build[b].pc = "groups" /\ build[b].passed = {} /\ HaveOk(disk, build[b])
      BY <1>0, <1>5 DEF GroupRound, BuildOk, PassedOk
    <2>1. /\ r.pc \in {"planned", "groups"} /\ r.hits = h /\ r.haveAt = build[b].haveAt /\ r.have = build[b].have /\ r.passed = {}
      BY <1>0, <2>0 DEF BuildType
    <2>2. SetBuild(b, r) /\ UNCHANGED <<world, list, tmp, earned, judged>>
      BY <1>5 DEF GroupRound
    <2> HIDE DEF r
    <2>3. HaveOk(disk, r)
      BY <2>0, <2>1 DEF HaveOk
    <2>4. PassedOk(disk, earned, r)
      BY <2>1, FS_EmptySet DEF PassedOk
    <2>5. HitsOk(earned, judged, r)
      BY <2>1, <1>0 DEF HitsOk, BuildOk
    <2>6. BuildOk(disk, earned, judged, r)
      BY <2>1, <2>3, <2>4, <2>5 DEF BuildOk, RecordOk
    <2> QED BY <2>2, <2>6, OwnStep
  <1> QED BY <1>1, <1>2, <1>3, <1>4, <1>5

\* A record that differs in neither the plan's hashes nor the hits.
LEMMA SamePlan ==
    ASSUME NEW d, NEW E, NEW J, NEW s, NEW r, BuildOk(d, E, J, s), s.pc \notin {"idle", "plan", "stat", "again"},
           r.pc \notin {"idle", "plan", "stat", "again"}, r.have = s.have, r.haveAt = s.haveAt, r.hits = s.hits
    PROVE  HaveOk(d, r) /\ HitsOk(E, J, r)
  BY DEF BuildOk, HaveOk, HitsOk

LEMMA InvStart ==
    ASSUME Inv, [Next]_vars, NEW b \in Builds, NEW whole \in BOOLEAN, StartHarness(b, whole)
    PROVE  Inv'
  <1> DEFINE r == IF Todo(b) = {} THEN [build[b] EXCEPT !.pc = "done"] ELSE [build[b] EXCEPT !.pc = "run", !.whole = whole]
  <1>0. build[b] \in BuildType /\ BuildOk(disk, earned, judged, build[b])
    BY BuildFacts
  <1>1. build[b].pc = "planned" /\ build[b].passed = {}
    BY <1>0 DEF StartHarness, BuildOk, PassedOk
  <1>2. /\ r.pc \in {"done", "run"} /\ r.have = build[b].have /\ r.haveAt = build[b].haveAt /\ r.hits = build[b].hits
        /\ r.passed = {}
    BY <1>0, <1>1 DEF BuildType
  <1>3. SetBuild(b, r) /\ UNCHANGED <<world, list, tmp, earned, judged>>
    BY DEF StartHarness
  <1> HIDE DEF r
  <1>4. HaveOk(disk, r) /\ HitsOk(earned, judged, r)
    BY <1>0, <1>1, <1>2, SamePlan
  <1>5. PassedOk(disk, earned, r)
    BY <1>2, FS_EmptySet DEF PassedOk
  <1>6. BuildOk(disk, earned, judged, r)
    BY <1>2, <1>4, <1>5 DEF BuildOk, RecordOk
  <1> QED BY <1>3, <1>6, OwnStep

\* A case that passes is logged with the stamps of what it read.
LEMMA InvRun ==
    ASSUME Inv, [Next]_vars, NEW b \in Builds, NEW c \in Cases, NEW ok \in BOOLEAN, RunCase(b, c, ok)
    PROVE  Inv'
  <1> DEFINE s == build[b]
             stamps == [p \in Paths |-> IF ok /\ p \in Reads[c] THEN disk[p].stamp ELSE 0]
             r == [s EXCEPT !.ran = s.ran \cup {c}, !.passed = IF ok THEN s.passed \cup {c} ELSE s.passed, !.log[c] = stamps]
  <1>0. /\ s \in BuildType /\ BuildOk(disk, earned, judged, s) /\ disk \in [Paths -> [ver: Contents, stamp: Nat]]
        /\ ListOk(earned, judged, list) /\ ListOk(earned, judged, << >>)
    BY BuildFacts
  <1>1. s.pc = "run" /\ c \in s.prog \ s.hits /\ c \notin s.ran /\ c \notin s.passed
    BY <1>0 DEF RunCase, Todo, BuildOk, PassedOk
  <1>2. /\ r.pc = "run" /\ r.have = s.have /\ r.haveAt = s.haveAt /\ r.hits = s.hits /\ r.prog = s.prog
        /\ r.ran = s.ran \cup {c} /\ r.passed = IF ok THEN s.passed \cup {c} ELSE s.passed
        /\ r.log[c] = stamps /\ \A x \in Cases : x # c => r.log[x] = s.log[x]
    BY <1>0, <1>1 DEF BuildType
  <1>3. SetBuild(b, r) /\ disk' = disk /\ list' = list /\ tmp' = tmp /\ judged' = judged
    BY DEF RunCase, world
  <1>4. earned' = IF ok THEN earned \cup {[case |-> c, saw |-> Seen(c)]} ELSE earned
    BY DEF RunCase
  <1>5. earned \subseteq earned'
    BY <1>4
  <1>6. BuildOk(disk, earned', judged, s)
    BY <1>0, <1>5, MoreBuild
  <1>7. ASSUME ok PROVE LogOk(disk, earned', stamps, c)
    <2>1. Seen(c) \in Hashes
      BY <1>0 DEF Seen, Hashes
    <2>2. [case |-> c, saw |-> Seen(c)] \in earned'
      BY <1>4, <1>7
    <2>3. \A p \in Paths : /\ p \in Reads[c] => /\ stamps[p] # 0 /\ stamps[p] <= disk[p].stamp
                                                /\ stamps[p] = disk[p].stamp => Seen(c)[p] = disk[p].ver
                           /\ p \notin Reads[c] => Seen(c)[p] = NotRead /\ stamps[p] = 0
      BY <1>0, <1>7 DEF Seen, Inv
    <2> QED BY <2>1, <2>2, <2>3 DEF LogOk
  <1> HIDE DEF r, stamps
  <1>8. HaveOk(disk, r) /\ HitsOk(earned', judged, r)
    BY <1>1, <1>2, <1>6, SamePlan
  <1>9. PassedOk(disk, earned', r)
    <2>1. r.passed \subseteq r.prog \ r.hits /\ r.passed \subseteq r.ran /\ r.passed \subseteq Cases
      BY <1>0, <1>1, <1>2, <1>6 DEF BuildOk, PassedOk, BuildType
    <2>2. IsFiniteSet(r.passed)
      BY <1>2, <1>6, FS_AddElement DEF BuildOk, PassedOk
    <2>3. \A x \in r.passed : LogOk(disk, earned', r.log[x], x)
      <3> SUFFICES ASSUME NEW x \in r.passed PROVE LogOk(disk, earned', r.log[x], x)
        OBVIOUS
      <3>1. CASE x = c
        <4>1. ok
          BY <3>1, <1>1, <1>2
        <4> QED BY <3>1, <4>1, <1>2, <1>7
      <3>2. CASE x # c
        <4>1. x \in s.passed /\ r.log[x] = s.log[x]
          BY <3>2, <2>1, <1>2
        <4> QED BY <4>1, <1>6 DEF BuildOk, PassedOk
      <3> QED BY <3>1, <3>2
    <2> QED BY <2>1, <2>2, <2>3, <1>2 DEF PassedOk
  <1>10. BuildOk(disk, earned', judged', r)
    BY <1>2, <1>3, <1>8, <1>9 DEF BuildOk, RecordOk
  <1>11. ListOk(earned', judged', list') /\ ListOk(earned', judged', << >>)
    BY <1>0, <1>3, <1>5, MoreList
  <1> QED BY <1>3, <1>5, <1>10, <1>11, BuildOkStep

\* A build that is green has the claims of all it ran judged.
LEMMA InvJudge ==
    ASSUME Inv, [Next]_vars, NEW b \in Builds, NEW held \in SUBSET Groups(build[b].prog), Judge(b, held)
    PROVE  Inv'
  <1> DEFINE s == build[b]
             passed == s.passed = s.ran
             ok == passed /\ RanGroups(b) \subseteq held /\ \A G \in Groups(s.prog) : ~Lone(G)
             r1 == [s EXCEPT !.pc = "record", !.whole = TRUE, !.ran = {}]
             r2 == [s EXCEPT !.pc = "record", !.ran = {}, !.rc = 1]
             r3 == [s EXCEPT !.whole = TRUE, !.ran = {}, !.passed = {}, !.log = Idle.log]
             r == IF ok THEN r1 ELSE IF s.whole THEN r2 ELSE r3
  <1>0. /\ s \in BuildType /\ BuildOk(disk, earned, judged, s)
        /\ ListOk(earned, judged, list) /\ ListOk(earned, judged, << >>)
    BY BuildFacts
  <1>1. s.pc = "run"
    BY DEF Judge
  <1>2. SetBuild(b, r) /\ disk' = disk /\ list' = list /\ tmp' = tmp /\ earned' = earned
    BY DEF Judge, world
  <1>3. judged' = IF passed THEN judged \cup held ELSE judged
    BY DEF Judge
  <1>4. judged \subseteq judged' /\ BuildOk(disk, earned, judged', s)
    BY <1>0, <1>3, MoreBuild
  <1>5. /\ r.pc \in {"record", "run"} /\ r.have = s.have /\ r.haveAt = s.haveAt /\ r.hits = s.hits /\ r.prog = s.prog
        /\ r.passed = {} \/ (r.passed = s.passed /\ r.log = s.log /\ r.pc = "record")
        /\ r.pc = "record" /\ r.rc = 0 => ok
    <2>1. r1.pc = "record" /\ r1.have = s.have /\ r1.haveAt = s.haveAt /\ r1.hits = s.hits /\ r1.prog = s.prog /\ r1.passed = s.passed /\ r1.log = s.log
      BY <1>0 DEF BuildType
    <2>2. /\ r2.pc = "record" /\ r2.have = s.have /\ r2.haveAt = s.haveAt /\ r2.hits = s.hits /\ r2.prog = s.prog /\ r2.passed = s.passed /\ r2.log = s.log
          /\ r2.rc = 1
      BY <1>0 DEF BuildType
    <2>3. r3.pc = "run" /\ r3.have = s.have /\ r3.haveAt = s.haveAt /\ r3.hits = s.hits /\ r3.prog = s.prog /\ r3.passed = {}
      BY <1>0, <1>1 DEF BuildType
    <2> HIDE DEF r1, r2, r3, ok
    <2> QED BY <2>1, <2>2, <2>3
  <1>6. ok => \A G \in Groups(s.prog) : G \cap s.hits = {} => G \in judged'
    BY <1>3 DEF RanGroups
  <1> HIDE DEF r, ok
  <1>7. HaveOk(disk, r) /\ HitsOk(earned, judged', r)
    BY <1>1, <1>4, <1>5, SamePlan
  <1>8. PassedOk(disk, earned, r)
    <2>1. CASE r.passed = {}
      BY <2>1, <1>5, FS_EmptySet DEF PassedOk
    <2>2. CASE r.passed = s.passed /\ r.log = s.log /\ r.pc = "record"
      BY <2>2, <1>4, <1>5 DEF PassedOk, BuildOk
    <2> QED BY <2>1, <2>2, <1>5
  <1>9. RecordOk(disk, judged', r)
    BY <1>5, <1>6 DEF RecordOk
  <1>10. BuildOk(disk, earned', judged', r)
    BY <1>2, <1>7, <1>8, <1>9 DEF BuildOk
  <1>11. ListOk(earned', judged', list') /\ ListOk(earned', judged', << >>)
    BY <1>0, <1>2, <1>4, MoreList
  <1> QED BY <1>2, <1>4, <1>10, <1>11, BuildOkStep

LEMMA InvRead ==
    ASSUME Inv, [Next]_vars, NEW b \in Builds, RecordRead(b)
    PROVE  Inv'
  <1>0. /\ build[b] \in BuildType /\ BuildOk(disk, earned, judged, build[b])
        /\ ListOk(earned, judged, list) /\ ListOk(earned, judged, << >>)
    BY BuildFacts
  <1>1. build[b].pc = "record" /\ disk' = disk /\ list' = list /\ earned' = earned /\ judged' = judged
    BY DEF RecordRead, world
  <1>2. CASE build[b].passed = {}
    <2> DEFINE r == [build[b] EXCEPT !.pc = "done"]
    <2>1. r.pc = "done" /\ r.have = build[b].have /\ r.haveAt = build[b].haveAt /\ r.hits = build[b].hits /\ r.passed = {}
      BY <1>0, <1>2 DEF BuildType
    <2>2. SetBuild(b, r) /\ tmp' = tmp
      BY <1>2 DEF RecordRead
    <2> HIDE DEF r
    <2>3. HaveOk(disk, r) /\ HitsOk(earned, judged, r)
      BY <1>0, <1>1, <2>1, SamePlan
    <2>4. PassedOk(disk, earned, r)
      BY <2>1, FS_EmptySet DEF PassedOk
    <2>5. BuildOk(disk, earned, judged, r)
      BY <2>1, <2>3, <2>4 DEF BuildOk, RecordOk
    <2> QED BY <1>0, <1>1, <2>2, <2>5, BuildOkStep
  <1>3. CASE build[b].passed # {}
    <2> DEFINE at == [p \in Paths |-> disk[p].stamp]
               r == [build[b] EXCEPT !.pc = "sha", !.passed = Kept(b), !.probeAt = at]
    <2>1. /\ r.pc = "sha" /\ r.have = build[b].have /\ r.haveAt = build[b].haveAt /\ r.hits = build[b].hits /\ r.prog = build[b].prog
          /\ r.passed = Kept(b) /\ r.log = build[b].log /\ r.rc = build[b].rc /\ r.probeAt = at
      BY <1>0 DEF BuildType
    <2>2. SetBuild(b, r) /\ tmp' = [tmp EXCEPT ![b] = list]
      BY <1>3 DEF RecordRead
    <2> HIDE DEF r
    <2>3. Kept(b) \subseteq build[b].passed /\ (build[b].rc # 0 => \A G \in Groups(build[b].prog) : Kept(b) \cap G = {})
      BY DEF Kept
    <2>4. HaveOk(disk, r) /\ HitsOk(earned, judged, r)
      BY <1>0, <1>1, <2>1, SamePlan
    <2>5. IsFiniteSet(r.passed)
      BY <1>0, <2>1, <2>3, FS_Subset DEF BuildOk, PassedOk
    <2>6. PassedOk(disk, earned, r)
      BY <1>0, <2>1, <2>3, <2>5 DEF BuildOk, PassedOk
    <2>7. RecordOk(disk, judged, r)
      BY <1>0, <1>1, <2>1, <2>3 DEF BuildOk, RecordOk
    <2>8. BuildOk(disk, earned, judged, r)
      BY <2>4, <2>6, <2>7 DEF BuildOk
    <2> QED BY <1>0, <1>1, <2>2, <2>8, BuildOkStep
  <1> QED BY <1>2, <1>3

(***************************************************************************)
(* What is recorded was earned: the stamp of every path a case read is the *)
(* one in its log, so the hash taken now, or by the plan at that stamp, is *)
(* of what the case saw.                                                   *)
(***************************************************************************)
LEMMA NewEntryOk ==
    ASSUME Inv, NEW b \in Builds, build[b].pc = "sha", NEW c \in Recordable(b)
    PROVE  EntryOk(earned, judged, NewEntry(b, c))
  <1> DEFINE s == build[b]
             e == NewEntry(b, c)
  <1>0. s \in BuildType /\ BuildOk(disk, earned, judged, s) /\ disk \in [Paths -> [ver: Contents, stamp: Nat]]
    BY BuildFacts
  <1>1. c \in s.passed /\ c \in s.prog \ s.hits /\ c \in Cases /\ LogOk(disk, earned, s.log[c], c) /\ Together(s)
    BY <1>0 DEF Recordable, BuildOk, PassedOk, BuildType, Inv, ClaimsTogether, Planning
  <1>2. \A p \in Paths : s.probeAt[p] = disk[p].stamp /\ disk[p].stamp # 0
    BY <1>0 DEF BuildOk, RecordOk, Inv
  <1>3. \A p \in Paths : Rehash(b)[p] = disk[p].ver
    BY <1>0, <1>2 DEF Rehash, BuildOk, HaveOk
  <1>4. /\ e.case = c /\ e.old = FALSE
        /\ e.reads = [p \in Paths |-> IF s.log[c][p] # 0 /\ p \notin Changed(b, c) THEN Rehash(b)[p] ELSE NotRead]
    BY DEF NewEntry
  <1>5. e.reads \in Hashes
    BY <1>0, <1>3, <1>4 DEF Hashes
  <1>6. e \in ListEntries
    BY <1>1, <1>5 DEF ListEntries, NewEntry
  <1>7. ClaimsOk(judged, c)
    <2> SUFFICES ASSUME NEW C \in Claims, c \in C PROVE \E G \in judged : G \subseteq C /\ c \in G
      BY DEF ClaimsOk
    <2> DEFINE G == C \cap s.prog
    <2>1. G \in Groups(s.prog) /\ c \in G /\ G \subseteq C
      BY <1>1 DEF Groups
    <2> HIDE DEF G
    <2>2. G \cap s.hits = {}
      BY <1>1, <2>1 DEF Together
    <2>3. s.rc = 0
      BY <1>0, <1>1, <2>1 DEF BuildOk, RecordOk
    <2>4. G \in judged
      BY <1>0, <2>1, <2>2, <2>3 DEF BuildOk, RecordOk
    <2> QED BY <2>1, <2>4
  <1>8. ASSUME c \notin Writers
        PROVE  [case |-> c, saw |-> e.reads] \in earned /\ \A p \in Paths : e.reads[p] = NotRead <=> p \notin Reads[c]
    <2>1. Changed(b, c) = {}
      BY <1>8 DEF Recordable
    <2>2. PICK w \in Hashes :
             /\ [case |-> c, saw |-> w] \in earned
             /\ \A p \in Paths :
                   /\ p \in Reads[c] => /\ s.log[c][p] # 0 /\ s.log[c][p] <= disk[p].stamp
                                        /\ s.log[c][p] = disk[p].stamp => w[p] = disk[p].ver
                   /\ p \notin Reads[c] => w[p] = NotRead /\ s.log[c][p] = 0
      BY <1>1 DEF LogOk
    <2>3. \A p \in Paths : p \in Reads[c] => s.log[c][p] = disk[p].stamp /\ p \notin Changed(b, c)
      BY <1>2, <2>1, <2>2 DEF Changed
    <2>4. \A p \in Paths : e.reads[p] = w[p]
      BY <1>3, <1>4, <2>2, <2>3
    <2>5. e.reads = w
      BY <1>5, <2>4 DEF Hashes
    <2>6. \A p \in Paths : p \in Reads[c] => w[p] \in Contents
      BY <1>0, <2>2, <2>3
    <2> QED BY <2>2, <2>5, <2>6, CasesAssumption
  <1> HIDE DEF e
  <1> QED BY <1>4, <1>6, <1>7, <1>8 DEF EntryOk, e

LEMMA InOrderOf ==
    ASSUME NEW S, IsFiniteSet(S)
    PROVE  Cardinality(S) \in Nat /\ InOrder(S) \in [1..Cardinality(S) -> S]
  <1>1. Cardinality(S) \in Nat /\ ExistsBijection(1..Cardinality(S), S)
    BY FS_CardinalityType
  <1>2. PICK f \in [1..Cardinality(S) -> S] : \A x \in S : \E i \in 1..Cardinality(S) : f[i] = x
    BY <1>1 DEF ExistsBijection, Bijection, Surjection
  <1>3. {f[i] : i \in DOMAIN f} = S
    BY <1>2
  <1> QED BY <1>1, <1>3 DEF InOrder

\* The new list has entries of the old one and new entries only.
LEMMA NewListOk ==
    ASSUME NEW E, NEW J, NEW old, ListOk(E, J, old), NEW S, NEW kept \in Others(old, S),
           NEW add, ListOk(E, J, add)
    PROVE  ListOk(E, J, Last(kept \o add, CaseKeep))
  <1> DEFINE K == {i \in DOMAIN old : old[i].case \notin S}
  <1>1. PICK f \in [1..Cardinality(K) -> K] : kept = [n \in DOMAIN f |-> old[f[n]]]
    BY DEF Others, Rising
  <1>2. old \in Seq(ListEntries) /\ Len(old) \in Nat /\ DOMAIN old = 1..Len(old)
    BY DEF ListOk
  <1>3. Cardinality(K) \in Nat
    <2>1. IsFiniteSet(1..Len(old)) /\ K \in SUBSET (1..Len(old))
      BY <1>2, FS_Interval
    <2>2. IsFiniteSet(K)
      BY <2>1, FS_Subset
    <2> QED BY <2>2, FS_CardinalityType
  <1>4. \A n \in 1..Cardinality(K) : kept[n] \in ListEntries /\ EntryOk(E, J, kept[n])
    BY <1>1, <1>2 DEF ListOk
  <1> HIDE DEF K
  <1>5. kept \in Seq(ListEntries) /\ Len(kept) = Cardinality(K)
    BY <1>1, <1>3, <1>4, IsASeq
  <1>6. /\ add \in Seq(ListEntries) /\ Len(add) \in Nat /\ DOMAIN add = 1..Len(add)
    BY DEF ListOk
  <1> DEFINE t == kept \o add
  <1>7. /\ t \in Seq(ListEntries) /\ Len(t) = Len(kept) + Len(add)
        /\ \A i \in 1..Len(kept) + Len(add) : t[i] = IF i <= Len(kept) THEN kept[i] ELSE add[i - Len(kept)]
    BY <1>5, <1>6, ConcatProperties
  <1>8. \A i \in 1..Len(t) : t[i] \in ListEntries /\ EntryOk(E, J, t[i])
    <2> SUFFICES ASSUME NEW i \in 1..Len(t) PROVE t[i] \in ListEntries /\ EntryOk(E, J, t[i])
      OBVIOUS
    <2>1. CASE i <= Len(kept)
      <3>1. i \in 1..Cardinality(K) /\ t[i] = kept[i]
        BY <2>1, <1>3, <1>5, <1>6, <1>7
      <3> QED BY <3>1, <1>4
    <2>2. CASE ~(i <= Len(kept))
      <3>1. i - Len(kept) \in 1..Len(add) /\ t[i] = add[i - Len(kept)]
        BY <2>2, <1>3, <1>5, <1>6, <1>7
      <3>2. EntryOk(E, J, t[i])
        BY <3>1, <1>6 DEF ListOk
      <3> QED BY <3>2 DEF EntryOk
    <2> QED BY <2>1, <2>2
  <1> HIDE DEF t
  <1> DEFINE m == IF Len(t) > CaseKeep THEN Len(t) - CaseKeep + 1 ELSE 1
             u == SubSeq(t, m, Len(t))
  <1>9. Len(t) \in Nat /\ m \in Int /\ m >= 1
    BY <1>3, <1>5, <1>6, <1>7, CasesAssumption
  <1> HIDE DEF m
  <1>10. \A i \in m..Len(t) : t[i] \in ListEntries /\ EntryOk(E, J, t[i])
    BY <1>8, <1>9
  <1>11. /\ u \in Seq(ListEntries) /\ Len(u) = IF m <= Len(t) THEN Len(t) - m + 1 ELSE 0
         /\ \A i \in 1..Len(t) - m + 1 : u[i] = t[m + i - 1]
    BY <1>9, <1>10, SubSeqProperties
  <1> HIDE DEF u
  <1>12. \A i \in DOMAIN u : EntryOk(E, J, u[i])
    <2> SUFFICES ASSUME NEW i \in DOMAIN u PROVE EntryOk(E, J, u[i])
      OBVIOUS
    <2>1. i \in 1..Len(u)
      BY <1>11
    <2>2. i \in 1..Len(t) - m + 1 /\ m + i - 1 \in m..Len(t)
      BY <2>1, <1>9, <1>11
    <2> QED BY <2>2, <1>10, <1>11
  <1>13. Last(kept \o add, CaseKeep) = u
    BY DEF Last, u, m, t
  <1> QED BY <1>11, <1>12, <1>13 DEF ListOk

LEMMA InvHash ==
    ASSUME Inv, [Next]_vars, NEW b \in Builds, RecordHash(b)
    PROVE  Inv'
  <1> DEFINE r == [build[b] EXCEPT !.pc = "mv", !.passed = {}, !.log = Idle.log, !.probeAt = NoStamps]
             S == Recordable(b)
             order == InOrder(S)
             add == [i \in DOMAIN order |-> NewEntry(b, order[i])]
  <1>0. /\ build[b] \in BuildType /\ BuildOk(disk, earned, judged, build[b])
        /\ ListOk(earned, judged, list) /\ ListOk(earned, judged, tmp[b])
    BY BuildFacts
  <1>1. build[b].pc = "sha" /\ disk' = disk /\ list' = list /\ earned' = earned /\ judged' = judged
    BY DEF RecordHash, world
  <1>2. PICK kept \in Others(tmp[b], S) : tmp' = [tmp EXCEPT ![b] = Last(kept \o add, CaseKeep)]
    BY DEF RecordHash
  <1>3. r.pc = "mv" /\ r.have = build[b].have /\ r.haveAt = build[b].haveAt /\ r.hits = build[b].hits /\ r.passed = {}
    BY <1>0 DEF BuildType
  <1>4. SetBuild(b, r)
    BY DEF RecordHash
  <1> HIDE DEF r
  <1>5. IsFiniteSet(S)
    BY <1>0, FS_Subset DEF BuildOk, PassedOk, Recordable
  <1>6. Cardinality(S) \in Nat /\ order \in [1..Cardinality(S) -> S]
    BY <1>5, InOrderOf
  <1>7. \A c \in S : EntryOk(earned, judged, NewEntry(b, c)) /\ NewEntry(b, c) \in ListEntries
    BY <1>1, NewEntryOk DEF EntryOk
  <1> HIDE DEF S, order
  <1>8. \A i \in 1..Cardinality(S) : add[i] \in ListEntries /\ EntryOk(earned, judged, add[i])
    BY <1>6, <1>7
  <1>9. DOMAIN add = 1..Cardinality(S) /\ add = [i \in 1..Cardinality(S) |-> add[i]]
    BY <1>6
  <1> HIDE DEF add
  <1>10. add \in Seq(ListEntries)
    BY <1>6, <1>8, <1>9, IsASeq
  <1>11. ListOk(earned, judged, add)
    BY <1>8, <1>9, <1>10 DEF ListOk
  <1>12. ListOk(earned, judged, Last(kept \o add, CaseKeep))
    BY <1>0, <1>11, NewListOk
  <1>13. HaveOk(disk, r) /\ HitsOk(earned, judged, r)
    BY <1>0, <1>1, <1>3, SamePlan
  <1>14. PassedOk(disk, earned, r)
    BY <1>3, FS_EmptySet DEF PassedOk
  <1>15. BuildOk(disk, earned, judged, r)
    BY <1>3, <1>13, <1>14 DEF BuildOk, RecordOk
  <1> QED BY <1>0, <1>1, <1>2, <1>4, <1>12, <1>15, BuildOkStep

LEMMA InvEnd ==
    ASSUME Inv, [Next]_vars, NEW b \in Builds, RecordMv(b) \/ Finish(b) \/ Crash(b)
    PROVE  Inv'
  <1>0. /\ build[b] \in BuildType /\ BuildOk(disk, earned, judged, build[b])
        /\ ListOk(earned, judged, list) /\ ListOk(earned, judged, << >>) /\ ListOk(earned, judged, tmp[b])
    BY BuildFacts
  <1>1. CASE RecordMv(b)
    <2> DEFINE r == [build[b] EXCEPT !.pc = "done"]
    <2>1. /\ build[b].pc = "mv" /\ disk' = disk /\ list' = tmp[b] /\ earned' = earned /\ judged' = judged
          /\ tmp' = [tmp EXCEPT ![b] = << >>] /\ SetBuild(b, r) /\ build[b].passed = {}
      BY <1>0, <1>1 DEF RecordMv, world, BuildOk, PassedOk
    <2>2. r.pc = "done" /\ r.have = build[b].have /\ r.haveAt = build[b].haveAt /\ r.hits = build[b].hits /\ r.passed = {}
      BY <1>0, <2>1 DEF BuildType
    <2> HIDE DEF r
    <2>3. HaveOk(disk, r) /\ HitsOk(earned, judged, r)
      BY <1>0, <2>1, <2>2, SamePlan
    <2>4. PassedOk(disk, earned, r)
      BY <2>2, FS_EmptySet DEF PassedOk
    <2>5. BuildOk(disk, earned, judged, r)
      BY <2>2, <2>3, <2>4 DEF BuildOk, RecordOk
    <2> QED BY <1>0, <2>1, <2>5, BuildOkStep
  <1>2. CASE Finish(b) \/ Crash(b)
    <2>1. /\ SetBuild(b, Idle) /\ disk' = disk /\ list' = list /\ earned' = earned /\ judged' = judged
          /\ tmp' = tmp \/ tmp' = [tmp EXCEPT ![b] = << >>]
      BY <1>2 DEF Finish, Crash, world
    <2>2. Idle.pc = "idle" /\ Idle.hits = {} /\ Idle.have = Unread /\ Idle.haveAt = NoStamps /\ Idle.passed = {}
      BY DEF Idle
    <2>3. BuildOk(disk, earned, judged, Idle)
      BY <2>2, IdleOk
    <2> QED BY <1>0, <2>1, <2>3, BuildOkStep
  <1> QED BY <1>1, <1>2

(***************************************************************************)
(* A file that changes has a stamp it never had.                           *)
(***************************************************************************)
LEMMA EditBuild ==
    ASSUME NEW d \in [Paths -> [ver: Contents, stamp: Nat]], NEW f \in [Paths -> [ver: Contents, stamp: Nat]],
           \A p \in Paths : f[p] = d[p] \/ f[p].stamp > d[p].stamp,
           NEW E, NEW J, NEW r \in BuildType, BuildOk(d, E, J, r), r.pc # "sha"
    PROVE  BuildOk(f, E, J, r)
  <1>0. /\ \A p \in Paths : d[p].stamp \in Nat /\ f[p].stamp \in Nat /\ r.haveAt[p] \in Nat
        /\ \A c \in Cases, p \in Paths : r.log[c][p] \in Nat
    BY DEF BuildType, Stamps
  <1>1. HaveOk(f, r)
    <2>1. HaveOk(d, r)
      BY DEF BuildOk
    <2>2. \A p \in Paths : r.haveAt[p] <= f[p].stamp /\ (r.haveAt[p] = f[p].stamp => f[p] = d[p])
      BY <1>0, <2>1 DEF HaveOk
    <2> QED BY <2>1, <2>2 DEF HaveOk
  <1>2. ASSUME NEW c \in Cases, LogOk(d, E, r.log[c], c) PROVE LogOk(f, E, r.log[c], c)
    <2>1. PICK w \in Hashes :
             /\ [case |-> c, saw |-> w] \in E
             /\ \A p \in Paths :
                   /\ p \in Reads[c] => /\ r.log[c][p] # 0 /\ r.log[c][p] <= d[p].stamp
                                        /\ r.log[c][p] = d[p].stamp => w[p] = d[p].ver
                   /\ p \notin Reads[c] => w[p] = NotRead /\ r.log[c][p] = 0
      BY <1>2 DEF LogOk
    <2>2. \A p \in Paths : p \in Reads[c] => /\ r.log[c][p] <= f[p].stamp
                                             /\ r.log[c][p] = f[p].stamp => f[p] = d[p]
      BY <1>0, <2>1
    <2> QED BY <2>1, <2>2 DEF LogOk
  <1>3. PassedOk(f, E, r)
    BY <1>2 DEF BuildOk, PassedOk, BuildType
  <1>4. RecordOk(f, J, r)
    BY DEF BuildOk, RecordOk
  <1> QED BY <1>1, <1>3, <1>4 DEF BuildOk

LEMMA InvEdit ==
    ASSUME Inv, [Next]_vars, ~EditsWhileHashing, NEW p \in Paths, NEW v \in Contents, Edit(p, v)
    PROVE  Inv'
  <1>1. CoreOK' /\ ClaimsTogether'
    BY NextCore DEF Inv
  <1>2. list' = list /\ tmp' = tmp /\ build' = build /\ earned' = earned /\ judged' = judged /\ ~Hashing
    BY DEF Edit
  <1>3. disk' = [disk EXCEPT ![p] = [ver |-> v, stamp |-> disk[p].stamp + 1]]
    BY DEF Edit
  <1>4. disk \in [Paths -> [ver: Contents, stamp: Nat]] /\ disk' \in [Paths -> [ver: Contents, stamp: Nat]]
    BY <1>1 DEF Inv, CoreOK
  <1>5. \A q \in Paths : disk'[q] = disk[q] \/ disk'[q].stamp > disk[q].stamp
    <2> SUFFICES ASSUME NEW q \in Paths PROVE disk'[q] = disk[q] \/ disk'[q].stamp > disk[q].stamp
      OBVIOUS
    <2>1. CASE q = p
      <3>1. disk'[q].stamp = disk[q].stamp + 1 /\ disk[q].stamp \in Nat
        BY <2>1, <1>3, <1>4
      <3> QED BY <3>1
    <2>2. CASE q # p
      BY <2>2, <1>3, <1>4
    <2> QED BY <2>1, <2>2
  <1>6. \A q \in Paths : disk'[q].stamp # 0
    <2>1. \A q \in Paths : disk[q].stamp \in Nat /\ disk[q].stamp # 0 /\ disk'[q].stamp \in Nat
      BY <1>4 DEF Inv
    <2> QED BY <1>5, <2>1
  <1>7. \A b \in Builds : BuildOk(disk', earned, judged, build[b])
    <2> SUFFICES ASSUME NEW b \in Builds PROVE BuildOk(disk', earned, judged, build[b])
      OBVIOUS
    <2>1. build[b] \in BuildType /\ BuildOk(disk, earned, judged, build[b]) /\ build[b].pc # "sha"
      BY <1>2 DEF Inv, CoreOK, Hashing
    <2> QED BY <2>1, <1>4, <1>5, EditBuild
  <1> QED BY <1>1, <1>2, <1>6, <1>7 DEF Inv

LEMMA InvAge ==
    ASSUME Inv, [Next]_vars, Age
    PROVE  Inv'
  <1>1. CoreOK' /\ ClaimsTogether'
    BY NextCore DEF Inv
  <1>2. /\ disk' = disk /\ tmp' = tmp /\ build' = build /\ earned' = earned /\ judged' = judged
        /\ list' = [i \in DOMAIN list |-> [list[i] EXCEPT !.old = TRUE]]
    BY DEF Age, world
  <1>3. list \in Seq(ListEntries) /\ Len(list) \in Nat /\ DOMAIN list = 1..Len(list)
    BY DEF Inv, ListOk
  <1>4. ASSUME NEW i \in 1..Len(list)
        PROVE  [list[i] EXCEPT !.old = TRUE] \in ListEntries /\ EntryOk(earned, judged, [list[i] EXCEPT !.old = TRUE])
    <2> DEFINE e == [list[i] EXCEPT !.old = TRUE]
    <2>1. EntryOk(earned, judged, list[i]) /\ list[i] \in ListEntries
      BY <1>3 DEF Inv, ListOk
    <2>2. e \in ListEntries /\ e.case = list[i].case /\ e.reads = list[i].reads
      BY <2>1 DEF ListEntries
    <2> HIDE DEF e
    <2>3. EntryOk(earned, judged, e)
      BY <2>1, <2>2 DEF EntryOk
    <2> QED BY <2>2, <2>3 DEF e
  <1>5. \A i \in 1..Len(list) : list'[i] \in ListEntries /\ EntryOk(earned, judged, list'[i])
    BY <1>2, <1>3, <1>4
  <1>6. DOMAIN list' = 1..Len(list) /\ list' = [i \in 1..Len(list) |-> list'[i]]
    BY <1>2, <1>3
  <1>7. list' \in Seq(ListEntries)
    BY <1>3, <1>5, <1>6, IsASeq
  <1>8. ListOk(earned, judged, list')
    BY <1>5, <1>6, <1>7 DEF ListOk
  <1> QED BY <1>1, <1>2, <1>8 DEF Inv

LEMMA InitInv == Init => Inv
  <1> SUFFICES ASSUME Init PROVE Inv
    OBVIOUS
  <1>1. CoreOK /\ ClaimsTogether
    BY InitCore
  <1>2. \A p \in Paths : disk[p].stamp = 1 /\ disk[p].stamp # 0
    BY DEF Init
  <1>3. ListOk(earned, judged, << >>)
    BY DEF ListOk
  <1>4. list = << >> /\ tmp = [b \in Builds |-> << >>] /\ << >> \in Seq(ListEntries)
    BY DEF Init
  <1>5. tmp \in [Builds -> Seq(ListEntries)] /\ \A b \in Builds : tmp[b] = << >>
    BY <1>4
  <1>6. HaveOk(disk, Idle)
    BY <1>2 DEF HaveOk, Idle, NoStamps, Unread
  <1>7. PassedOk(disk, earned, Idle)
    BY FS_EmptySet DEF PassedOk, Idle
  <1>8. RecordOk(disk, judged, Idle) /\ HitsOk(earned, judged, Idle)
    BY DEF RecordOk, HitsOk, Idle
  <1>9. \A b \in Builds : build[b] = Idle
    BY DEF Init
  <1>10. \A b \in Builds : BuildOk(disk, earned, judged, build[b])
    BY <1>6, <1>7, <1>8, <1>9 DEF BuildOk
  <1> QED BY <1>1, <1>2, <1>3, <1>4, <1>5, <1>10 DEF Inv

LEMMA NextInv == ~EditsWhileHashing /\ Inv /\ [Next]_vars => Inv'
  <1> SUFFICES ASSUME ~EditsWhileHashing, Inv, [Next]_vars PROVE Inv'
    OBVIOUS
  <1>1. ASSUME NEW p \in Paths, NEW v \in Contents, Edit(p, v) PROVE Inv'
    BY <1>1, InvEdit
  <1>2. CASE Age
    BY <1>2, InvAge
  <1>3. CASE UNCHANGED vars
    <2>1. CoreOK' /\ ClaimsTogether'
      BY NextCore DEF Inv
    <2> QED BY <1>3, <2>1 DEF vars, Inv
  <1>4. ASSUME NEW b \in Builds,
               \/ \E prog \in Programs, fresh \in FreshSets : Begin(b, prog, fresh)
               \/ BuildStep(b)
        PROVE  Inv'
    BY <1>4, InvPlan, InvStart, InvRun, InvJudge, InvRead, InvHash, InvEnd DEF BuildStep
  <1> QED BY <1>1, <1>2, <1>3, <1>4 DEF Next

(***************************************************************************)
(* What case_plan skips has passed on what the files it read held at the   *)
(* plan's probe, and was part of a group whose claim held, for every claim *)
(* it carries: with builds that run at once, overwrite each other's list   *)
(* and are killed, and with files edited at any moment except between a    *)
(* case_record's stat and its sha (README, section 4: there it is false).  *)
(***************************************************************************)
THEOREM SkipsStayEarned == ASSUME ~EditsWhileHashing PROVE Spec => []SkipsAreEarned
  <1>1. Init => Inv
    BY InitInv
  <1>2. Inv /\ [Next]_vars => Inv'
    BY NextInv
  <1>3. Inv => SkipsAreEarned
    <2> SUFFICES ASSUME Inv, NEW b \in Builds
                 PROVE  /\ \A c \in build[b].hits \ Writers : [case |-> c, saw |-> Probed(b, c)] \in earned
                        /\ \A c \in build[b].hits, C \in Claims : c \in C => \E G \in judged : G \subseteq C /\ c \in G
      BY DEF SkipsAreEarned
    <2>1. HitsOk(earned, judged, build[b])
      BY DEF Inv, BuildOk
    <2>2. \A c \in Cases : Probed(b, c) = SawAt(c, build[b].have)
      BY DEF Probed, SawAt
    <2>3. build[b].hits \subseteq Cases
      BY DEF Inv, CoreOK, BuildType
    <2> QED BY <2>1, <2>2, <2>3 DEF HitsOk, ClaimsOk
  <1> QED BY <1>1, <1>2, <1>3, PTL DEF Spec
=============================================================================
