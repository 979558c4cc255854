------------------------------ MODULE StdClosure ------------------------------
(***************************************************************************)
(* std_closure: which functions and constants of the standard library a    *)
(* build loads, given the names its program mentions (roots) and the       *)
(* library's index.  Mode A follows what the bodies of functions mention,  *)
(* mode B also what their cases mention.  A name is a function, or a       *)
(* variable exported by one (its owner), or a constant of conf.id, looked  *)
(* up in that order, or none of the library's.                             *)
(*                                                                         *)
(* Two work lists are emptied in turn, functions before constants.  The    *)
(* order inside a list does not matter to what is proved, so it is any.    *)
(***************************************************************************)
EXTENDS FiniteSets

CONSTANTS
    Fns,        \* BYNAME: the names of the library's functions
    Consts,     \* KT: the names of its constants
    Owner,      \* OWNER: an exported variable's name to a function's
    RootNames,  \* what a program may mention
    BodyNames,  \* what the body of a function may mention
    CaseNames,  \* what its cases may mention
    InitNames   \* what the initialiser of a constant may mention

Exports == DOMAIN Owner
Names == Fns \cup Consts \cup Exports

ASSUME NamesAssumption == RootNames \cup BodyNames \cup CaseNames \cup InitNames \subseteq Names

Nodes == ({"fn"} \X Fns) \cup ({"const"} \X Consts)

VARIABLES
    body,   \* DE: what each function's body mentions
    cases,  \* CE: what its cases mention
    init,   \* KE: what each constant's initialiser mentions
    mode, roots,
    vis,    \* VIS and CVIS
    todo,   \* the part of Q and CQ that is not yet taken
    pc

index == <<body, cases, init, mode, roots>>
vars == <<index, vis, todo, pc>>

(***************************************************************************)
(* want: the nodes that a name stands for (one or none), and push/pushc.   *)
(***************************************************************************)
want(n) ==
    IF n \in Fns THEN {<<"fn", n>>}
    ELSE IF n \in Exports THEN {<<"fn", f>> : f \in {Owner[n]} \cap Fns}
    ELSE {<<"const", c>> : c \in {n} \cap Consts}

Wanted(S) == UNION {want(n) : n \in S}

Mentions(x) ==
    IF x[1] = "const" THEN init[x[2]]
    ELSE body[x[2]] \cup IF mode = "B" THEN cases[x[2]] ELSE {}

Push(S) == vis' = vis \cup S /\ todo' = todo \cup (S \ vis)

Init ==
    /\ mode \in {"A", "B"}
    /\ roots \in SUBSET RootNames
    /\ body \in [Fns -> SUBSET BodyNames]
    /\ cases \in [Fns -> SUBSET CaseNames]
    /\ init \in [Consts -> SUBSET InitNames]
    /\ vis = {} /\ todo = {}
    /\ pc = "roots"

TakeRootsAll ==
    /\ pc = "roots"
    /\ Push(Wanted(Names))
    /\ pc' = "loop"
    /\ UNCHANGED index

TakeRoots ==
    /\ pc = "roots"
    /\ Push(Wanted(roots))
    /\ pc' = "loop"
    /\ UNCHANGED index

Functions == {x \in todo : x[1] = "fn"}

\* A node leaves its list and what it mentions is pushed.
TakeWithoutMissed(x) ==
    /\ vis' = vis \cup Wanted(Mentions(x))
    /\ todo' = todo \ {x}

TakeAgain(x) ==
    /\ vis' = vis \cup Wanted(Mentions(x))
    /\ todo' = (todo \ {x}) \cup Wanted(Mentions(x))

Take(x) ==
    /\ vis' = vis \cup Wanted(Mentions(x))
    /\ todo' = (todo \ {x}) \cup (Wanted(Mentions(x)) \ vis)

TakeFunction ==
    /\ pc = "loop"
    /\ \E x \in Functions : Take(x)
    /\ UNCHANGED <<index, pc>>

TakeConst ==
    /\ pc = "loop" /\ Functions = {}
    /\ \E x \in todo : Take(x)
    /\ UNCHANGED <<index, pc>>

EmitPlan ==
    /\ pc = "loop" /\ todo = {}
    /\ pc' = "done"
    /\ UNCHANGED <<index, vis, todo>>

Next == TakeRoots \/ TakeFunction \/ TakeConst \/ EmitPlan

Spec == Init /\ [][Next]_vars
FairSpec == Spec /\ WF_vars(Next)

-----------------------------------------------------------------------------
\* Every variable keeps its type.
TypeOK ==
    /\ mode \in {"A", "B"} /\ roots \in SUBSET Names
    /\ body \in [Fns -> SUBSET Names] /\ cases \in [Fns -> SUBSET Names]
    /\ init \in [Consts -> SUBSET Names]
    /\ vis \in SUBSET Nodes /\ todo \in SUBSET vis
    /\ pc \in {"roots", "loop", "done"}

\* S has every node that the roots, or a node of S, mention.
Closed(S) == Wanted(roots) \subseteq S /\ \A x \in S : Wanted(Mentions(x)) \subseteq S

\* What is loaded is closed: no program is parsed with a name missing that
\* the library has.
PlanComplete == pc = "done" => Closed(vis)

\* What is loaded is the least such set: nothing is merged that no chain of
\* mentions reaches.
PlanMinimal == \A S \in SUBSET Nodes : Closed(S) => vis \subseteq S

\* The inductive invariant behind FrontEndProofs: nothing is visited before
\* the roots, and what a node mentions is pushed when the node is taken.
Pending ==
    /\ pc = "roots" => vis = {}
    /\ pc = "done" => todo = {}
    /\ pc # "roots" =>
          /\ Wanted(roots) \subseteq vis
          /\ \A x \in vis \ todo : Wanted(Mentions(x)) \subseteq vis

\* The search ends, on cyclic indexes too.
Terminates == <>(pc = "done")
===============================================================================
