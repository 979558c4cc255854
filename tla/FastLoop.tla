------------------------------ MODULE FastLoop ------------------------------
(***************************************************************************)
(* The versioned loop.  A while loop is compiled twice: behind a guard a   *)
(* copy whose covered list and string accesses are not checked against     *)
(* the bounds, and the loop as it is written.  The plan (lp_plan) picks    *)
(* the accesses from the shape of the loop, the guard (lpg, a program for  *)
(* a stack machine) is run once before the loop.                           *)
(*                                                                         *)
(* A loop is [cond, body, fnok, harn]: the conjuncts of its condition, its *)
(* statements, whether its function may be called in it, and whether it is *)
(* compiled for the test harness.  The statements are                      *)
(*   <<"acc", x, e, write, string>>    x[e], read or written               *)
(*   <<"step", v>>  <<"set", v, e>>  <<"decl", v, e>>  <<"export", v, e>>  *)
(*   <<"if", a, b>>  <<"break">>  <<"while">>  <<"call", f>>               *)
(* where f says what is called.  A node's number is its place in Nodes:    *)
(* the parser numbers nodes in the order it reads them.  What an if tests  *)
(* the plan never looks at, so an arm is chosen freely.                    *)
(***************************************************************************)
EXTENDS Integers, Sequences, SequencesExt, FiniteSets, FiniteSetsExt

CONSTANTS IntBits, WordBits,     \* the width of an int and of a word
          Cases,                 \* the loops, each with its variables at the start
          Lists, Lens,           \* the lists and the lengths they may have
          WordVars,              \* the variables that are words
          MaxPushes              \* bounds how often a body may push

VARIABLES loop, env, list, fast, held, at, bad,
          exact                  \* ghost: no operation of the guard overflowed

vars == <<loop, env, list, fast, held, at, bad, exact>>

Wrap(n, bits) == ((n + 2 ^ (bits - 1)) % (2 ^ bits)) - 2 ^ (bits - 1)
BitsOf(x) == IF x \in WordVars THEN WordBits ELSE IntBits

(***************************************************************************)
(* The nodes of a body                                                     *)
(***************************************************************************)
RECURSIVE Nodes(_), Paths(_)
Nodes(b) == FlattenSeq([i \in 1 .. Len(b) |-> IF b[i][1] = "if" THEN Nodes(b[i][2]) \o Nodes(b[i][3]) \o <<b[i]>>
                                              ELSE <<b[i]>>])
\* Where the statements of the body itself end, as node numbers
TopPlaces(b) == {Len(Nodes(SubSeq(b, 1, i))) : i \in 1 .. Len(b)}

\* lp_wname: what a node writes
Writes(n, x) == n[1] \in {"step", "set", "decl", "export"} /\ n[2] = x
\* lp_cnt, lp_w, lp_pick, lp_isinc, lp_step
WriteCount(ns, x) == Cardinality({i \in DOMAIN ns : Writes(ns[i], x)})
OtherWrites(ns, x) == Cardinality({i \in DOMAIN ns : Writes(ns[i], x) /\ ns[i][1] # "step"})
\* lp_first
FirstWrite(ns, x) == Min({i \in DOMAIN ns : Writes(ns[i], x)} \cup {Len(ns) + 1})

(***************************************************************************)
(* The bounds: lp_cond, lp_bin, lp_cmp, lp_bound, lp_limit, lp_lenarg      *)
(***************************************************************************)
IsBound(c) == c[1] = "<" /\ c[3][1] \in {"var", "int", "len"}
CondIsPlain(l) == \A i \in DOMAIN l.cond : IsBound(l.cond[i])
Counters(l) == {l.cond[i][2] : i \in DOMAIN l.cond}
\* find_str(lpj, name): the first bound of a counter
BoundOf(l, x) == l.cond[Min({i \in DOMAIN l.cond : l.cond[i][2] = x})][3]
\* lp_lim, lp_lname: the limit is not written in the body
LimitHeld(l, lim) == lim[1] = "int" \/ WriteCount(Nodes(l.body), lim[2]) = 0

\* lp_steps: the counter is only stepped, and behind the access
MutStepsAfter(l, p, x) == OtherWrites(Nodes(l.body), x) = 0    \* Mutant: wherever it is stepped
StepsAfter(l, p, x) == LET ns == Nodes(l.body) IN OtherWrites(ns, x) = 0 /\ p < FirstWrite(ns, x)
\* lx_ctr
CounterOk(l, p, x) == LimitHeld(l, BoundOf(l, x)) /\ StepsAfter(l, p, x)

(***************************************************************************)
(* The accesses the first shapes cover: a[j] and a[j + k]                  *)
(***************************************************************************)
\* lp_lit: a literal that an int holds
MutLiteral(e) == e[2] >= 0       \* Mutant: one of any size
Literal(e) == e[2] \in 0 .. 2 ^ (IntBits - 1) - 1
\* lp_ixnode, lp_ixoff, lp_plus, lp_tail, lp_vlit
IsPlus(e) == e[1] = "bin" /\ e[2] = "+" /\ e[3][1] = "var" /\ e[4][1] = "int" /\ Literal(e[4])
IxVar(e) == IF e[1] = "var" THEN e[2] ELSE IF IsPlus(e) THEN e[3][2] ELSE "none"
IxOff(e) == IF IsPlus(e) THEN e[4][2] ELSE 0

\* lp_ok, lp_stable, lp_held
FirstShape(l, p) ==
    LET n == Nodes(l.body)[p]
    IN /\ IxVar(n[3]) \in Counters(l)
       /\ WriteCount(Nodes(l.body), n[2]) = 0
       /\ CounterOk(l, p, IxVar(n[3]))

(***************************************************************************)
(* The accesses of a sum of terms                                          *)
(***************************************************************************)
UserCalls == {"leaf", "deep", "native"}
\* lp_uany, lp_ucall
CallsUser(ns) == \E i \in DOMAIN ns : ns[i][1] = "call" /\ ns[i][2] \in UserCalls

RECURSIVE AlwaysSteps(_, _)
\* lx_prog, lx_pstmt, lx_pboth: a step of a counter on every path
AlwaysSteps(l, b) ==
    \E i \in DOMAIN b : \/ b[i][1] = "step" /\ b[i][2] \in Counters(l)
                        \/ b[i][1] = "if" /\ AlwaysSteps(l, b[i][2]) /\ AlwaysSteps(l, b[i][3])

\* lx_psec, lx_pure, lx_pone: every counter is stepped once
CountersStepOnce(l) ==
    /\ \A i \in DOMAIN l.cond : LET c == l.cond[i] IN
          /\ LimitHeld(l, c[3])
          /\ OtherWrites(Nodes(l.body), c[2]) = 0 /\ WriteCount(Nodes(l.body), c[2]) = 1
    /\ AlwaysSteps(l, l.body)

\* lx_kind, lx_inv, lx_var, lx_wr, lx_one, lx_sec, lx_dec: what a leaf of an
\* index is; deep says it is in the definition of a local, which is an int that
\* is not exported.  What it is made of may be words.
Kind(l, p, e, deep) ==
    LET ns == Nodes(l.body)
        x == e[2]
        f == FirstWrite(ns, x)
    IN CASE e[1] = "int" /\ Literal(e) -> "lit"
         [] e[1] = "import" /\ ~l.harn /\ ~CallsUser(ns) /\ WriteCount(ns, x) = 0 -> "still"
         [] e[1] = "var" /\ x \in Counters(l) /\ CounterOk(l, p, x) -> "counter"
         [] e[1] = "var" /\ x \notin Counters(l) /\ WriteCount(ns, x) = 0 -> "still"
         [] e[1] = "var" /\ x \notin Counters(l) /\ WriteCount(ns, x) = 1 /\ ~deep /\ ns[f][1] = "step"
              /\ p < f /\ CountersStepOnce(l) -> "second"
         [] e[1] = "var" /\ x \notin Counters(l) /\ WriteCount(ns, x) = 1 /\ ~deep /\ ns[f][1] = "decl"
              /\ f < p /\ x \notin WordVars /\ f \in TopPlaces(l.body) -> "local"
         [] OTHER -> "none"
\* lx_def
Definition(l, e) == LET ns == Nodes(l.body) IN ns[FirstWrite(ns, e[2])][3]

RECURSIVE Products(_, _, _, _)
\* lx_ok, lx_leaf, lx_sum, lx_mul, lx_plain: the products in an index, or -1
\* if a term of it has no bound
Products(l, p, e, deep) ==
    LET k == Kind(l, p, e, deep)
        a == Products(l, p, e[3], deep)
        b == Products(l, p, e[4], deep)
        plain(x) == Kind(l, p, x, deep) \in {"lit", "still", "counter"}
    IN CASE e[1] = "bin" /\ e[2] = "+" -> IF a >= 0 /\ b >= 0 THEN a + b ELSE 0 - 1
         [] e[1] = "bin" /\ e[2] = "*" -> IF plain(e[3]) /\ plain(e[4]) THEN 1 ELSE 0 - 1
         [] e[1] # "bin" /\ k = "local" -> Products(l, p, Definition(l, e), TRUE)
         [] e[1] # "bin" /\ k \notin {"local", "none"} -> 0
         [] OTHER -> 0 - 1

\* lx_cover, lx_base: no more than one product
SumShape(l, p) ==
    LET n == Nodes(l.body)[p]
    IN /\ WriteCount(Nodes(l.body), n[2]) = 0
       /\ Products(l, p, n[3], FALSE) \in {0, 1}

(***************************************************************************)
(* The plan                                                                *)
(***************************************************************************)
\* lp_clean, lp_clear, lp_cls, lp_known, lp_unleaf: no inner loop, and no call
\* that can change a list's length or that is not seen into
MutClean(l) == \A i \in DOMAIN Nodes(l.body) : Nodes(l.body)[i] # <<"while">>   \* Mutant: whatever it calls
Clean(l) ==
    \A i \in DOMAIN Nodes(l.body) :
        LET n == Nodes(l.body)[i]
        IN n[1] # "while" /\ (n[1] = "call" => n[2] \in {"builtin", "leaf"})

\* lp_plan, lp_scan, lp_node, lp_acc, lp_sacc, lp_guard, lp_calls_ok, lp_fnok:
\* the nodes that go unchecked
Covered(l) ==
    LET ns == Nodes(l.body)
        good == Clean(l) /\ CondIsPlain(l) /\ (CallsUser(ns) => l.fnok)
    IN {p \in DOMAIN ns : good /\ ns[p][1] = "acc" /\ (FirstShape(l, p) \/ (~ns[p][5] /\ SumShape(l, p)))}

(***************************************************************************)
(* The guard, as tokens for a stack machine                                *)
(***************************************************************************)
Name(x) == <<"v", x>>
Num(k) == <<"k", k>>
Arith(op, n) == <<"op", op, n>>
\* lp_leaf
Leaf(e) == IF e[1] = "int" THEN Num(e[2]) ELSE Name(e[2])
\* lp_lenw, lp_lenop, lp_ntok
LenToks(x) == <<Name(x), <<"len">>, <<"wide">>>>
LimToks(lim) == IF lim[1] = "len" THEN LenToks(lim[2]) ELSE <<Leaf(lim)>>
\* lp_rel, lp_nul, lp_capok
NotNull(x) == <<Name(x), <<"null">>, <<"!=">>>>
NotBelow0(e) == <<Leaf(e), Num(0), <<">=">>>>
CapOk(x) == <<Name(x), <<"cap">>, Num(0), <<">=">>>>
LimExists(lim) == IF lim[1] = "len" THEN {NotNull(lim[2])} ELSE {}

\* lp_take, lp_len, lp_low, lp_fit: the clauses of a first shape
FirstClauses(l, n) ==
    LET lim == BoundOf(l, IxVar(n[3]))
    IN {NotNull(n[2]), NotBelow0(<<"var", IxVar(n[3])>>),
        LimToks(lim) \o LenToks(n[2]) \o <<Num(IxOff(n[3])), Arith("-", 2), <<"<=">>>>}
       \cup LimExists(lim) \cup (IF n[4] THEN {CapOk(n[2])} ELSE {})

\* lx_hone, lx_hlim: the room the counters have left, added to what is below
Room(l) == FlattenSeq([i \in DOMAIN l.cond |->
               LimToks(l.cond[i][3]) \o <<<<"wide">>, Name(l.cond[i][2]), <<"wide">>, Num(1), Arith("-", 3)>>])
           \o <<Arith("+", Len(l.cond) + 1)>>

RECURSIVE Largest(_, _, _, _), TermClauses(_, _, _, _)
\* lx_hi, lx_hbin, lx_hleaf, lx_hctr, lx_hsec: the largest value of an index
Largest(l, p, e, deep) ==
    LET k == Kind(l, p, e, deep)
    IN CASE e[1] = "bin" -> Largest(l, p, e[3], deep) \o Largest(l, p, e[4], deep) \o <<Arith(e[2], 2)>>
         [] e[1] # "bin" /\ k = "counter" -> LimToks(BoundOf(l, e[2])) \o <<<<"wide">>, Num(1), Arith("-", 2)>>
         [] e[1] # "bin" /\ k = "second" -> <<Leaf(e), <<"wide">>>> \o Room(l)
         [] e[1] # "bin" /\ k = "local" -> Largest(l, p, Definition(l, e), TRUE)
         [] OTHER -> <<Leaf(e), <<"wide">>>>
\* lx_hcl, and the clauses that a limit exists
TermClauses(l, p, e, deep) ==
    LET k == Kind(l, p, e, deep)
        below == IF k \in {"still", "counter", "second"} THEN {NotBelow0(e)} ELSE {}
        limits == CASE k = "counter" -> LimExists(BoundOf(l, e[2]))
                    [] k = "second" -> UNION {LimExists(l.cond[i][3]) : i \in DOMAIN l.cond}
                    [] OTHER -> {}
    IN CASE e[1] = "bin" -> TermClauses(l, p, e[3], deep) \cup TermClauses(l, p, e[4], deep)
         [] e[1] # "bin" /\ k = "local" -> TermClauses(l, p, Definition(l, e), TRUE)
         [] OTHER -> below \cup limits
\* lx_take, lx_cap
SumClauses(l, p, n) ==
    {NotNull(n[2]), Largest(l, p, n[3], FALSE) \o LenToks(n[2]) \o <<<<"<">>>>}
    \cup TermClauses(l, p, n[3], FALSE) \cup (IF n[4] THEN {CapOk(n[2])} ELSE {})

\* lp_add, lp_put: the clauses of the guard, each once
Clauses(l) ==
    UNION {LET n == Nodes(l.body)[p] IN IF FirstShape(l, p) THEN FirstClauses(l, n) ELSE SumClauses(l, p, n)
             : p \in Covered(l)}

(***************************************************************************)
(* The stack machine: gd_item, gd_op, gd_un, gd_bin, gd_fold, gd_cmp.  A   *)
(* name pushes its value, or the list it names; len and cap of a list that *)
(* is not there are -1 (list_len_raw), and != asks just that (gd_nn).      *)
(***************************************************************************)
FoldArith(op, xs) ==
    FoldLeft(LAMBDA a, x : Wrap(CASE op = "+" -> a + x [] op = "-" -> a - x [] OTHER -> a * x, WordBits),
             xs[1], Tail(xs))
Holds(op, a, b) == CASE op = "<=" -> a <= b [] op = "<" -> a < b [] OTHER -> a >= b
Push(st, x) == Append(st, x)
Item(st, t) ==
    LET top == st[Len(st)]
        rest == SubSeq(st, 1, Len(st) - 1)
    IN CASE t[1] = "v" -> Push(st, IF t[2] \in Lists THEN list[t[2]] ELSE env[t[2]])
         [] t[1] = "k" -> Push(st, t[2])
         [] t[1] = "null" -> Push(st, 0 - 1)
         [] t[1] = "wide" -> st
         [] t[1] = "len" -> Push(rest, top.len)
         [] t[1] = "cap" -> Push(rest, IF top.len < 0 \/ top.const THEN 0 - 1 ELSE top.len)
         [] t[1] = "op" -> Push(SubSeq(st, 1, Len(st) - t[3]), FoldArith(t[2], SubSeq(st, Len(st) - t[3] + 1, Len(st))))
         [] t[1] = "!=" -> Push(SubSeq(st, 1, Len(st) - 2), st[Len(st) - 1].len >= 0)
         [] OTHER -> Push(SubSeq(st, 1, Len(st) - 2), Holds(t[1], st[Len(st) - 1], top))
\* gd_guard, gd_and, gd_close
ClauseHolds(c) == FoldLeft(Item, <<>>, c)[1]
Guard(l) == \A c \in Clauses(l) : ClauseHolds(c)

\* Does the machine, whose words wrap, compute a clause as whole numbers would?
ExactArith(op, xs) == FoldLeft(LAMBDA a, x : CASE op = "+" -> a + x [] op = "-" -> a - x [] OTHER -> a * x, xs[1], Tail(xs))
IsExact(c) == \A i \in DOMAIN c : c[i][1] = "op" =>
    LET st == FoldLeft(Item, <<>>, SubSeq(c, 1, i - 1))
        xs == SubSeq(st, Len(st) - c[i][3] + 1, Len(st))
    IN FoldArith(c[i][2], xs) = ExactArith(c[i][2], xs)

(***************************************************************************)
(* The loop as it runs                                                     *)
(***************************************************************************)
\* What the statements of a body may do: the node numbers of one path
Shift(path, by) == [i \in DOMAIN path |-> path[i] + by]
Paths(b) ==
    IF b = <<>> THEN {<<>>}
    ELSE LET front == SubSeq(b, 1, Len(b) - 1)
             last == b[Len(b)]
             n == Len(Nodes(front))
             arms == IF last[1] = "if"
                     THEN {Shift(p, n) : p \in Paths(last[2])} \cup {Shift(p, n + Len(Nodes(last[2]))) : p \in Paths(last[3])}
                     ELSE {<<n + 1>>}
         IN {f \o a : f \in Paths(front), a \in arms}

RECURSIVE Value(_, _), IsWord(_)
\* An int expression computes in an int, one with a word in it in a word
IsWord(e) == IF e[1] = "bin" THEN IsWord(e[3]) \/ IsWord(e[4]) ELSE e[1] # "int" /\ e[2] \in WordVars
Value(ev, e) ==
    CASE e[1] = "bin" -> LET a == Value(ev, e[3])
                             b == Value(ev, e[4])
                         IN Wrap(IF e[2] = "+" THEN a + b ELSE a * b, IF IsWord(e) THEN WordBits ELSE IntBits)
      [] e[1] = "int" -> e[2]
      [] OTHER -> ev[e[2]]

\* The state of a run: variables, lists, whether it goes on, and whether an
\* unchecked access missed
RunOf == [env |-> env, list |-> list, on |-> TRUE, bad |-> FALSE]
InList(r, n) == Value(r.env, n[3]) \in 0 .. r.list[n[2]].len - 1 /\ ~(n[4] /\ r.list[n[2]].const)
\* One node; a checked access outside its list traps
StepNode(r, p) ==
    LET n == Nodes(loop.body)[p]
        set(x, v) == [r EXCEPT !.env[x] = Wrap(v, BitsOf(x))]
    IN CASE ~r.on -> r
         [] r.on /\ n[1] = "acc" -> IF InList(r, n) THEN r
                                    ELSE [r EXCEPT !.on = FALSE, !.bad = fast /\ p \in Covered(loop)]
         [] r.on /\ n[1] = "step" -> set(n[2], r.env[n[2]] + 1)
         [] r.on /\ n[1] \in {"set", "decl", "export"} -> set(n[2], Value(r.env, n[3]))
         [] r.on /\ n[1] = "break" -> [r EXCEPT !.on = FALSE]
         [] r.on /\ n = <<"call", "push">> -> [r EXCEPT !.list = [x \in Lists |-> [r.list[x] EXCEPT !.len =
                                                  IF @ < 0 \/ r.list[x].const THEN @ ELSE @ + 1]]]
         [] r.on /\ n = <<"call", "pop">> -> [r EXCEPT !.list = [x \in Lists |-> [r.list[x] EXCEPT !.len =
                                                  IF @ < 1 \/ r.list[x].const THEN @ ELSE @ - 1]]]
         [] OTHER -> r

\* lp_hoist, lp_hbases, lh_hoist: what the fast copy keeps of the lists it reads
Hoist == held' = list
\* lp_hlen: the fast copy compares with the length it kept
LimValue(lim) == IF lim[1] = "len" THEN (IF fast THEN held ELSE list)[lim[2]].len ELSE Value(env, lim)
\* len of a list that is not there traps
CondTraps == \E i \in DOMAIN loop.cond : loop.cond[i][3][1] = "len" /\ list[loop.cond[i][3][2]].len < 0
CondHolds == \A i \in DOMAIN loop.cond : IsBound(loop.cond[i]) => env[loop.cond[i][2]] < LimValue(loop.cond[i][3])

Init ==
    /\ \E c \in Cases : loop = c[1] /\ env = c[2]
    /\ list \in [Lists -> [len : Lens, const : BOOLEAN]]
    /\ fast = FALSE /\ held = list /\ at = "entry" /\ bad = FALSE
    /\ exact = FALSE

\* lw_loop, lw_versioned, lv_plan, emit_loop, emit_loop_fast
Enter ==
    /\ at = "entry"
    /\ at' = "head"
    /\ fast' = (Covered(loop) # {} /\ Guard(loop))
    /\ Hoist
    /\ exact' = \A c \in Clauses(loop) : IsExact(c)
    /\ UNCHANGED <<loop, env, list, bad>>

\* emit_while, lw_while3: one round of either copy
Iterate ==
    /\ at = "head" /\ ~CondTraps /\ CondHolds
    /\ \A x \in Lists : list[x].len <= held[x].len + MaxPushes
    /\ \E path \in Paths(loop.body) :
          LET r == FoldLeft(StepNode, RunOf, path)
          IN /\ env' = r.env /\ list' = r.list /\ bad' = r.bad
             /\ at' = IF r.on THEN "head" ELSE "out"
    /\ UNCHANGED <<loop, fast, held, exact>>

Leave ==
    /\ at = "head" /\ (CondTraps \/ ~CondHolds)
    /\ at' = "out"
    /\ UNCHANGED <<loop, env, list, fast, held, bad, exact>>

Next == Enter \/ Iterate \/ Leave
Spec == Init /\ [][Next]_vars

-----------------------------------------------------------------------------
\* Every access the fast copy makes without a check is inside its list, and
\* none writes a constant one, whatever the loop's shape, the values at its
\* start and the arms it takes (lp_ok: "the guard's one comparison of the limit
\* with the list's length covers every iteration"), provided the guard did not
\* overflow.  Nothing in the code checks that last premise: GuardIsExact says
\* when it can fail, and then an unchecked access can miss its list.
UncheckedInBounds == exact => ~bad

\* The lengths the fast copy reads once, before the loop (lp_hoist, lh_hoist),
\* are the lengths its lists have in every round.
HoistedLengthsHold == fast => \A x \in Lists : list[x].len = held[x].len

\* idx/take.id: "no term is wider than 31 bits and at most one is a product, so
\* the sum cannot overflow".  A clause made of ints, in any sum with one product
\* and with the room of any counters, never overflows; lx_dec also takes a local
\* int computed from words, a term of such a clause is wider than the comment
\* says, and only there the guard may overflow.
ReadsWord(c) == \E i \in DOMAIN c : c[i][1] = "v" /\ c[i][2] \in WordVars
GuardIsExact == at = "entry" => \A c \in Clauses(loop) : IsExact(c) \/ ReadsWord(c)
=============================================================================
