------------------------------- MODULE Reach -------------------------------
(***************************************************************************)
(* Which functions a program needs: the names main reaches are marked, in  *)
(* passes over the functions until one adds none (reach_mark), and before  *)
(* anything is emitted the other functions are dropped (dce_prune).  One   *)
(* hash map says where a name is in rfn and which names are no functions.  *)
(*                                                                         *)
(* What a function mentions, the calls and variables of its body, is all   *)
(* that the marking reads of it.  A step is one name of one function, or   *)
(* one step of a put into the map.                                         *)
(***************************************************************************)
EXTENDS HashMap, Functions

VARIABLES mentions, \* the names each function mentions, in their order
          order,    \* the functions in the order of the program
          rfn,      \* the names that are reached, as they were found
          found,    \* how many there were when the pass began
          fun, pos, \* the function the pass is at, and how many of its names it has read
          phase     \* "check", then "mark", "prune" and "emit", or "refused"

markvars == <<mentions, order, rfn, found, fun, pos>>
reachvars == <<markvars, phase, mapvars>>

Defined == DOMAIN mentions
Roots == <<"main", "conf.id">>
ASSUME RootsAssumption == Range(Roots) \subseteq DOMAIN Hash

\* init_reach, rfx_init, rfn_reindex: the roots are put into the empty map;
\* places in rfn count from 0
RootSlots == Placed(Placed(Filled(8), Roots[1], 0), Roots[2], 1)
ReachInit ==
    /\ mentions = <<>> /\ order = <<>>
    /\ rfn = Roots
    /\ slots = RootSlots /\ count = 2 /\ old = <<>> /\ moved = 0 /\ adding = {}
    /\ found = 2 /\ fun = 1 /\ pos = 0
    /\ phase = "check"

\* rfx_fn: what the map holds for a name that was looked for among the functions in vain
NoFunction == 0 - 2 - Len(order)

\* is_reach
IsReach(name) == LET at == HashGet(name, 0 - 1) IN at \in 0 .. Len(rfn) - 1 /\ rfn[at + 1] = name
\* The program behind the checks, whose functions stand in the order o
StartMarking(m, o) ==
    /\ phase = "check"
    /\ phase' \in {"mark", "refused"}
    /\ mentions' = m /\ order' = o
    /\ UNCHANGED <<rfn, found, fun, pos, mapvars>>

Marks == phase = "mark" /\ Quiet
\* reach_func: a function that is not reached when the pass comes to it is skipped
EnterFunction ==
    /\ Marks /\ fun <= Len(order) /\ pos = 0
    /\ IF IsReach(order[fun]) THEN pos' = 1 /\ fun' = fun ELSE pos' = 0 /\ fun' = fun + 1
    /\ UNCHANGED <<mentions, order, rfn, found, phase, mapvars>>

\* reach_add, rfx_fn, rfx_scan
ReachAdd(name) ==
    IF IsReach(name) \/ HashGet(name, 0 - 1) = NoFunction THEN UNCHANGED <<rfn, mapvars>>
    ELSE IF name \in Defined THEN rfn' = Append(rfn, name) /\ BeginPut(name, Len(rfn))
    ELSE BeginPut(name, NoFunction) /\ UNCHANGED rfn
\* reach_range, scan_reach: the next name of the function
ScanName ==
    /\ Marks /\ fun <= Len(order) /\ pos > 0 /\ pos <= Len(mentions[order[fun]])
    /\ ReachAdd(mentions[order[fun]][pos])
    /\ pos' = pos + 1
    /\ UNCHANGED <<mentions, order, found, fun, phase>>
LeaveFunction ==
    /\ Marks /\ fun <= Len(order) /\ pos > Len(mentions[order[fun]])
    /\ fun' = fun + 1 /\ pos' = 0
    /\ UNCHANGED <<mentions, order, rfn, found, phase, mapvars>>

\* reach_mark, reach_pass: the last pass is the one that added nothing
EndRound ==
    /\ Marks /\ fun > Len(order)
    /\ phase' = IF Len(rfn) = found THEN "prune" ELSE "mark"
    /\ found' = Len(rfn) /\ fun' = 1 /\ pos' = 0
    /\ UNCHANGED <<mentions, order, rfn, mapvars>>

PutStep == phase = "mark" /\ (Rehash \/ EndPut) /\ UNCHANGED <<markvars, phase>>
Mark == EnterFunction \/ ScanName \/ LeaveFunction \/ EndRound \/ PutStep

\* dce_prune, dce_pack, dce_keep
Kept == {f \in Defined : IsReach(f)}
Pruned == IF "main" \in Defined THEN Kept ELSE Defined
\* Behind it nothing reads the marks or the order any more.
Prune ==
    /\ phase = "prune" /\ phase' = "emit"
    /\ mentions' = <<>> /\ order' = <<>> /\ rfn' = <<>>
    /\ found' = 0 /\ fun' = 0 /\ pos' = 0
    /\ slots' = <<>> /\ count' = 0 /\ old' = <<>> /\ moved' = 0 /\ adding' = {}

\* Every program: its functions, what they mention, and their order
Mentioned == DOMAIN Hash
Tables == UNION {[F -> Seq(Mentioned)] : F \in SUBSET Mentioned}
OrdersOf(m) == {o \in Seq(DOMAIN m) : Range(o) = DOMAIN m}
ReachNext == (\E m \in Tables : \E o \in OrdersOf(m) : StartMarking(m, o)) \/ Mark \/ Prune
ReachSpec == ReachInit /\ [][ReachNext]_reachvars
-----------------------------------------------------------------------------
ClosedSet(S) == \A f \in S : \A name \in Range(mentions[f]) : name \in Defined => name \in S
\* The marking ends with the functions main reaches through any chain of calls
\* or mentions, and no others, however the map grew and whatever keys collided
\* in it while the passes were reading it.
KeptIsReached ==
    phase = "prune" =>
        /\ Range(Roots) \cap Defined \subseteq Kept /\ ClosedSet(Kept)
        /\ \A S \in SUBSET Defined : Range(Roots) \cap Defined \subseteq S /\ ClosedSet(S) => Kept \subseteq S

(***************************************************************************)
(* The inductive invariant behind FrontEndProofs: the map says of a name   *)
(* where it is in rfn or that it is no function; what is in rfn is needed; *)
(* and the pass has found what the functions behind it mention.            *)
(***************************************************************************)
Reached == Range(rfn)
Needs(f, last) == \A p \in 1 .. last : mentions[f][p] \in Defined => mentions[f][p] \in Reached

ReachType ==
    /\ rfn \in Seq(DOMAIN Hash) /\ Len(rfn) >= 2 /\ rfn[1] = Roots[1] /\ rfn[2] = Roots[2]
    /\ mentions \in Tables /\ order \in OrdersOf(mentions)
    /\ found \in 0 .. Len(rfn) /\ fun \in 1 .. Len(order) + 1
    /\ pos \in Nat /\ (pos > 0 => fun <= Len(order) /\ pos <= Len(mentions[order[fun]]) + 1)
MapSays ==
    /\ MapOK
    /\ \A name \in DOMAIN Hash : \A v \in Int : MapHolds(name, v) =>
          \/ v \in 0 .. Len(rfn) - 1 /\ rfn[v + 1] = name
          \/ v = NoFunction /\ name \notin Defined
    /\ \A i \in 1 .. Len(rfn) : MapHolds(rfn[i], i - 1)
OnlyNeeded ==
    \A S \in SUBSET Defined : Range(Roots) \cap Defined \subseteq S /\ ClosedSet(S) => Reached \cap Defined \subseteq S
PassFound ==
    /\ \A j \in 1 .. fun - 1 : \A i \in 1 .. found : rfn[i] = order[j] => Needs(order[j], Len(mentions[order[j]]))
    /\ pos > 0 => order[fun] \in Reached /\ Needs(order[fun], pos - 1)
ReachInv ==
    /\ phase \in {"check", "mark", "prune", "emit", "refused"}
    /\ phase \in {"check", "mark", "prune"} => ReachType /\ MapSays
    /\ phase = "check" => /\ Quiet /\ Len(rfn) = 2 /\ found = 2 /\ fun = 1 /\ pos = 0
                          /\ \A name \in DOMAIN Hash : \A v \in Int : MapHolds(name, v) => v >= 0
    /\ phase = "mark" => OnlyNeeded /\ PassFound
    /\ phase = "prune" => Quiet /\ OnlyNeeded /\ ClosedSet(Reached \cap Defined)
=============================================================================
