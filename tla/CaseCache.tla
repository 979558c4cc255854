------------------------------ MODULE CaseCache ------------------------------
(***************************************************************************)
(* The case-result cache: case_plan, the run of the harness and            *)
(* case_record.  A case is known by its key, a hash of its tokens and of   *)
(* every function it reaches.  A key on the pass list is not run again,    *)
(* unless its entry is too old, the build asks for it, a file the case     *)
(* read has changed, or a case that shares a scaling claim with it runs.   *)
(*                                                                         *)
(* The pass list is one file: read whole, written beside itself and        *)
(* renamed, without a lock, by builds that run at once.  Files are edited  *)
(* at any moment; a case may pass or fail as it likes (a clock, a device). *)
(* What really passed, and which claims were really judged to hold, are    *)
(* the ghost variables earned and judged.                                  *)
(***************************************************************************)
EXTENDS Integers, Sequences, FiniteSets

CONSTANTS
    Builds,
    Cases,              \* keys of cases, in any version of the program
    Programs,           \* the sets of cases a build may be asked to check
    Claims,             \* for each scaling claim, the cases that carry it
    Reads,              \* Reads[c]: the paths that case c reads
    Writers,            \* cases that write files (a T line in the log)
    Paths, Contents,
    NotRead,            \* no hash for a path
    FreshSets,          \* what IDC_FRESH_CASES may name
    CaseKeep,           \* IDC_CASE_KEYS, the entries that are kept
    EditsWhileHashing,  \* may a file change between case_record's stat and sha?
    MaxEdits            \* bound on changed files

ASSUME CasesAssumption ==
    /\ Programs \subseteq SUBSET Cases /\ Claims \subseteq SUBSET Cases
    /\ Reads \in [Cases -> SUBSET Paths] /\ FreshSets \subseteq SUBSET Cases
    /\ Contents # {} /\ NotRead \notin Contents
    /\ EditsWhileHashing \in BOOLEAN /\ CaseKeep \in Nat

VARIABLES
    disk,     \* disk[p]: content, and the stamp (size:mtime) that goes with it
    list,     \* CASE_FILE, the newest entry last
    tmp,      \* tmp[b]: what build b has read of it, and then its new version
    build,
    earned,   \* the case and what its files held, for every pass a harness reported
    judged,   \* groups of cases whose claim was judged, and held
    edits

vars == <<disk, list, tmp, build, earned, judged, edits>>
world == <<disk, edits>>

Hashes == [Paths -> Contents \cup {NotRead}]
Unread == [p \in Paths |-> NotRead]
ListEntries == [case: Cases, old: BOOLEAN, reads: Hashes]
Stamps == [Paths -> Nat]
NoStamps == [p \in Paths |-> 0]

(***************************************************************************)
(* One build.  have and haveAt are rd.have, the hashes and stamps of the   *)
(* plan's probe (0: not probed); log[c] is c's read log.                   *)
(***************************************************************************)
Idle == [pc |-> "idle", prog |-> {}, fresh |-> {}, hits |-> {},
         have |-> Unread, haveAt |-> NoStamps, whole |-> TRUE, ran |-> {}, passed |-> {},
         log |-> [c \in Cases |-> NoStamps], rc |-> 0,
         probeAt |-> NoStamps]

Init ==
    /\ disk = [p \in Paths |-> [ver |-> CHOOSE v \in Contents : TRUE, stamp |-> 1]]
    /\ list = << >>
    /\ tmp = [b \in Builds |-> << >>]
    /\ build = [b \in Builds |-> Idle]
    /\ earned = {} /\ judged = {}
    /\ edits = 0

SetBuild(b, r) == build' = [build EXCEPT ![b] = r]

-----------------------------------------------------------------------------
(***************************************************************************)
(* The world: files are edited, and entries pass IDC_CASE_MAX_AGE_DAYS.    *)
(***************************************************************************)
Hashing == \E b \in Builds : build[b].pc = "sha"

Edit(p, v) ==
    /\ edits < MaxEdits /\ v # disk[p].ver
    /\ Hashing => EditsWhileHashing
    /\ disk' = [disk EXCEPT ![p] = [ver |-> v, stamp |-> @.stamp + 1]]
    /\ edits' = edits + 1
    /\ UNCHANGED <<list, tmp, build, earned, judged>>

Age ==
    /\ list # << >>
    /\ list' = [i \in DOMAIN list |-> [list[i] EXCEPT !.old = TRUE]]
    /\ UNCHANGED <<world, tmp, build, earned, judged>>

-----------------------------------------------------------------------------
(***************************************************************************)
(* case_plan.  A case with recorded reads cannot be judged in the first    *)
(* reading of the list; its paths are probed, and the list is read again.  *)
(***************************************************************************)
Begin(b, prog, fresh) ==
    /\ build[b].pc = "idle"
    /\ SetBuild(b, [Idle EXCEPT !.pc = "plan", !.prog = prog, !.fresh = fresh])
    /\ UNCHANGED <<world, list, tmp, earned, judged>>

Listed(b) == {e \in {list[i] : i \in DOMAIN list} :
                 e.case \in build[b].prog \ build[b].fresh /\ ~e.old}
Asked(b) == {p \in Paths : \E e \in Listed(b) : e.reads[p] # NotRead}

GoodReadsAny(e, have) == TRUE

GoodReads(e, have) == \A p \in Paths : e.reads[p] # NotRead => have[p] = e.reads[p]

Hits(b, have) == {e.case : e \in {x \in Listed(b) : GoodReads(x, have)}}

Plan(b) ==
    /\ build[b].pc = "plan"
    /\ SetBuild(b, IF Asked(b) = {}
                   THEN [build[b] EXCEPT !.pc = "groups", !.hits = Hits(b, Unread)]
                   ELSE [build[b] EXCEPT !.pc = "stat",
                            !.haveAt = [p \in Paths |-> IF p \in Asked(b) THEN disk[p].stamp ELSE 0]])
    /\ UNCHANGED <<world, list, tmp, earned, judged>>

PlanHash(b) ==
    /\ build[b].pc = "stat"
    /\ SetBuild(b, [build[b] EXCEPT !.pc = "again",
                       !.have = [p \in Paths |-> IF build[b].haveAt[p] # 0 THEN disk[p].ver ELSE NotRead]])
    /\ UNCHANGED <<world, list, tmp, earned, judged>>

PlanAgain(b) ==
    /\ build[b].pc = "again"
    /\ SetBuild(b, [build[b] EXCEPT !.pc = "groups", !.hits = Hits(b, build[b].have)])
    /\ UNCHANGED <<world, list, tmp, earned, judged>>

\* The groups of a program: for each claim, the cases that carry it.
Groups(prog) == {G \cap prog : G \in Claims} \ {{}}

(***************************************************************************)
(* One turn of the loop over the groups: a group that is not skipped as a  *)
(* whole runs as a whole.  It is repeated until nothing changes.           *)
(***************************************************************************)
Broken(b) == {G \in Groups(build[b].prog) : ~(G \subseteq build[b].hits)}

GroupRoundNone(b) ==
    /\ build[b].pc = "groups"
    /\ SetBuild(b, [build[b] EXCEPT !.pc = "planned"])
    /\ UNCHANGED <<world, list, tmp, earned, judged>>

GroupRound(b) ==
    /\ build[b].pc = "groups"
    /\ LET hits == build[b].hits \ UNION Broken(b)
       IN SetBuild(b, [build[b] EXCEPT !.hits = hits,
                          !.pc = IF hits = build[b].hits THEN "planned" ELSE "groups"])
    /\ UNCHANGED <<world, list, tmp, earned, judged>>

-----------------------------------------------------------------------------
(***************************************************************************)
(* run_cases.  Nothing left to run: the harness is not even built.  Else   *)
(* it runs as a whole, or first in shards (whole = FALSE) if the cases do  *)
(* not all go to one: a claim's cases stay together, and so do the cases   *)
(* that read no files and carry no claim.                                  *)
(***************************************************************************)
Todo(b) == build[b].prog \ build[b].hits
Plain(b) == {c \in Todo(b) : Reads[c] = {}} \ UNION Groups(build[b].prog)

Shardable(b) ==
    \E S \in (SUBSET Todo(b)) \ {{}, Todo(b)} :
        \A G \in Groups(build[b].prog) \cup {Plain(b)} :
            G \cap Todo(b) \subseteq S \/ G \cap S = {}

StartHarness(b, whole) ==
    /\ build[b].pc = "planned"
    /\ whole \/ Shardable(b)
    /\ SetBuild(b, IF Todo(b) = {} THEN [build[b] EXCEPT !.pc = "done"]
                   ELSE [build[b] EXCEPT !.pc = "run", !.whole = whole])
    /\ UNCHANGED <<world, list, tmp, earned, judged>>

\* One case, in a process of its own: it reads its files, and the fs backend
\* logs each path with the stamp it had.
Seen(c) == [p \in Paths |-> IF p \in Reads[c] THEN disk[p].ver ELSE NotRead]

RunCase(b, c, ok) ==
    /\ build[b].pc = "run" /\ c \in Todo(b) \ build[b].ran
    /\ SetBuild(b, [build[b] EXCEPT
          !.ran = @ \cup {c},
          !.passed = IF ok THEN @ \cup {c} ELSE @,
          !.log[c] = [p \in Paths |-> IF ok /\ p \in Reads[c] THEN disk[p].stamp ELSE 0]])
    /\ earned' = IF ok THEN earned \cup {[case |-> c, saw |-> Seen(c)]} ELSE earned
    /\ UNCHANGED <<world, list, tmp, judged>>

(***************************************************************************)
(* When every case has run and passed the claims are judged.  A claim of   *)
(* one case never holds; one whose cases were skipped is judged on counts  *)
(* of zero, and holds.  held is what the counts of the others say.         *)
(***************************************************************************)
RanGroups(b) == {G \in Groups(build[b].prog) : G \cap build[b].hits = {}}
Lone(G) == Cardinality(G) = 1

Judge(b, held) ==
    /\ build[b].pc = "run" /\ build[b].ran = Todo(b)
    /\ held \subseteq {G \in RanGroups(b) : ~Lone(G)}
    /\ LET passed == build[b].passed = build[b].ran
           ok == /\ passed /\ RanGroups(b) \subseteq held
                 /\ \A G \in Groups(build[b].prog) : ~Lone(G)
       IN /\ judged' = IF passed THEN judged \cup held ELSE judged
          /\ SetBuild(b,
                IF ok THEN [build[b] EXCEPT !.pc = "record", !.whole = TRUE, !.ran = {}]
                ELSE IF build[b].whole THEN [build[b] EXCEPT !.pc = "record", !.ran = {}, !.rc = 1]
                ELSE [build[b] EXCEPT !.whole = TRUE, !.ran = {}, !.passed = {}, !.log = Idle.log])
    /\ UNCHANGED <<world, list, tmp, earned>>

-----------------------------------------------------------------------------
(***************************************************************************)
(* case_record.  A build that failed does not record the cases of claims.  *)
(* The list is read, the logged paths are stat'ed and hashed, and the new  *)
(* list is renamed over whatever is there by then.                         *)
(***************************************************************************)
Kept(b) ==
    IF build[b].rc = 0 THEN build[b].passed
    ELSE build[b].passed \ UNION Groups(build[b].prog)

RecordRead(b) ==
    /\ build[b].pc = "record"
    /\ SetBuild(b, IF build[b].passed = {} THEN [build[b] EXCEPT !.pc = "done"]
                   ELSE [build[b] EXCEPT !.pc = "sha", !.passed = Kept(b),
                            !.probeAt = [p \in Paths |-> disk[p].stamp]])
    /\ tmp' = IF build[b].passed = {} THEN tmp ELSE [tmp EXCEPT ![b] = list]
    /\ UNCHANGED <<world, list, earned, judged>>

\* A hash taken by the plan is used again when the stamp is the same.
Rehash(b) == [p \in Paths |-> IF build[b].haveAt[p] = build[b].probeAt[p] THEN build[b].have[p]
                              ELSE disk[p].ver]

\* What a case read and has changed since: a reason not to record the case,
\* or, if the case writes files itself, not to record the path.
Changed(b, c) == {p \in Paths : build[b].log[c][p] \notin {0, build[b].probeAt[p]}}

RecordableAll(b) == build[b].passed

Recordable(b) == {c \in build[b].passed : c \in Writers \/ Changed(b, c) = {}}

NewEntry(b, c) ==
    [case |-> c, old |-> FALSE,
     reads |-> [p \in Paths |-> IF build[b].log[c][p] # 0 /\ p \notin Changed(b, c)
                                THEN Rehash(b)[p] ELSE NotRead]]

\* The entries of a set of cases, in the harness's order.
InOrder(S) == CHOOSE s \in [1..Cardinality(S) -> S] : {s[i] : i \in DOMAIN s} = S
Last(s, n) == SubSeq(s, IF Len(s) > n THEN Len(s) - n + 1 ELSE 1, Len(s))

\* The entries of a list that are not of cases in S, in their order (a set of
\* one sequence).
Rising(K) == {f \in [1..Cardinality(K) -> K] : \A i, j \in DOMAIN f : i < j => f[i] < f[j]}
Others(s, S) == {[n \in DOMAIN f |-> s[f[n]]] : f \in Rising({i \in DOMAIN s : s[i].case \notin S})}

RecordHash(b) ==
    /\ build[b].pc = "sha"
    /\ LET add == InOrder(Recordable(b)) IN
       \E kept \in Others(tmp[b], Recordable(b)) :
          tmp' = [tmp EXCEPT ![b] = Last(kept \o [i \in DOMAIN add |-> NewEntry(b, add[i])], CaseKeep)]
    /\ SetBuild(b, [build[b] EXCEPT !.pc = "mv", !.passed = {}, !.log = Idle.log, !.probeAt = NoStamps])
    /\ UNCHANGED <<world, list, earned, judged>>

RecordMv(b) ==
    /\ build[b].pc = "mv"
    /\ list' = tmp[b]
    /\ tmp' = [tmp EXCEPT ![b] = << >>]
    /\ SetBuild(b, [build[b] EXCEPT !.pc = "done"])
    /\ UNCHANGED <<world, earned, judged>>

Finish(b) ==
    /\ build[b].pc = "done"
    /\ SetBuild(b, Idle)
    /\ UNCHANGED <<world, list, tmp, earned, judged>>

\* A build is killed; what it wrote beside the list stays there unread.
Crash(b) ==
    /\ build[b].pc # "idle"
    /\ SetBuild(b, Idle)
    /\ tmp' = [tmp EXCEPT ![b] = << >>]
    /\ UNCHANGED <<world, list, earned, judged>>

BuildStep(b) ==
    \/ Plan(b) \/ PlanHash(b) \/ PlanAgain(b) \/ GroupRound(b)
    \/ \E whole \in BOOLEAN : StartHarness(b, whole)
    \/ \E c \in Cases, ok \in BOOLEAN : RunCase(b, c, ok)
    \/ \E held \in SUBSET Groups(build[b].prog) : Judge(b, held)
    \/ RecordRead(b) \/ RecordHash(b) \/ RecordMv(b) \/ Finish(b) \/ Crash(b)

Next ==
    \/ \E p \in Paths, v \in Contents : Edit(p, v)
    \/ Age
    \/ \E b \in Builds :
          \/ \E prog \in Programs, fresh \in FreshSets : Begin(b, prog, fresh)
          \/ BuildStep(b)

Spec == Init /\ [][Next]_vars

-----------------------------------------------------------------------------
Pcs == {"idle", "plan", "stat", "again", "groups", "planned", "run", "record", "sha", "mv", "done"}
BuildType == [pc: Pcs, prog: SUBSET Cases, fresh: SUBSET Cases, hits: SUBSET Cases,
              have: Hashes, haveAt: Stamps, whole: BOOLEAN, ran: SUBSET Cases,
              passed: SUBSET Cases, log: [Cases -> Stamps], rc: {0, 1},
              probeAt: Stamps]

CoreOK == disk \in [Paths -> [ver: Contents, stamp: Nat]] /\ build \in [Builds -> BuildType]

\* Every variable keeps its type, and the pass list its bound.
TypeOK ==
    /\ CoreOK
    /\ list \in Seq(ListEntries) /\ Len(list) <= CaseKeep
    /\ tmp \in [Builds -> Seq(ListEntries)]

(***************************************************************************)
(* "A key joins the list only when the harness itself reports its case as  *)
(* passed, so a failing case is never taken for a pass", and "case_plan    *)
(* skips the case only when ... every path still hashes as recorded": what *)
(* a build skips has passed on what the files it read held at the probe.   *)
(* (The paths a case changes itself are left to the weekly expiry.)        *)
(*                                                                         *)
(* "A claim that does not hold must not be cached as a pass: its cases     *)
(* pass one by one, and only the judging of the group says otherwise"      *)
(* (tests/cache_reach.sh): a case that is skipped was once part of a group *)
(* whose claim held, for every claim that it carries.                      *)
(***************************************************************************)
Probed(b, c) == [p \in Paths |-> IF p \in Reads[c] THEN build[b].have[p] ELSE NotRead]

SkipsAreEarned ==
    \A b \in Builds :
        /\ \A c \in build[b].hits \ Writers : [case |-> c, saw |-> Probed(b, c)] \in earned
        /\ \A c \in build[b].hits, C \in Claims :
              c \in C => \E G \in judged : G \subseteq C /\ c \in G

(***************************************************************************)
(* "The cases of a scaling claim are skipped together or run together,     *)
(* since the claim compares their counts."                                 *)
(***************************************************************************)
Planning == {"idle", "plan", "stat", "again", "groups"}
Together(r) == \A G \in Groups(r.prog) : G \subseteq r.hits \/ G \cap r.hits = {}

ClaimsTogether == \A b \in Builds : build[b].pc \notin Planning => Together(build[b])

(***************************************************************************)
(* "claims are counted exactly and judged after every case has passed": a  *)
(* build that succeeds has every claim of its program judged, by itself or *)
(* by an earlier build, on the cases the program has.  It does not hold    *)
(* once a program loses one of a claim's cases (idc 4134: nothing is left  *)
(* to run, so nobody judges), and no run checks it; see the README.        *)
(***************************************************************************)
GreenClaimsJudged ==
    \A b \in Builds : build[b].pc = "done" /\ build[b].rc = 0 => Groups(build[b].prog) \subseteq judged
=============================================================================
