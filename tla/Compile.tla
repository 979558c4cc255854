------------------------------- MODULE Compile -------------------------------
(***************************************************************************)
(* From the tree to optimised intermediate code: the types and the checks  *)
(* (Types), the functions main does not reach (Reach), then the escape     *)
(* analysis (Summaries), the lowering that frees what it says is owned     *)
(* (IR), and the passes of -O1 (IROpt), a function at a time in opt_round. *)
(* did is what the code of the moment does when it is run, meant what the  *)
(* tree does.                                                              *)
(***************************************************************************)
EXTENDS Reach, Summaries, IRSem

CONSTANTS Inputs      \* the arguments main is run with

VARIABLES code,       \* the functions, lowered
          passes,     \* the passes the functions have still to go through, in order
          did, meant

cvars == <<code, passes, did, meant>>
vars == <<sumvars, reachvars, cvars>>

Seen(w) == [st |-> w.st, out |-> w.out, v |-> IF w.st = "run" THEN w.v ELSE 0]
Runs(c) == [a \in Inputs |-> Seen(RunCode(c, a))]

\* ir_opt, opt_func, opt_round at level 1
Round == <<"mem2reg", "fold", "dce", "fold", "dce">>
AllPasses == LET fs == SetToSeq(DOMAIN prog)
             IN FlattenSeq([i \in DOMAIN fs |-> [j \in DOMAIN Round |-> <<fs[i], Round[j]>>]])

RECURSIVE NamesIn(_), NamesOf(_)
\* scan_reach: the calls and variables of an expression and of a block
NamesIn(e) == FlattenSeq([i \in DOMAIN Parts(e) |-> NamesIn(Parts(e)[i])])
              \o (IF e[1] \in {"call", "var"} THEN <<e[3]>> ELSE <<>>)
NamesOf(b) == FlattenSeq([i \in DOMAIN b |->
                  FlattenSeq([j \in DOMAIN ExprsOf(b[i]) |-> NamesIn(ExprsOf(b[i])[j])])
                  \o FlattenSeq([j \in DOMAIN BlocksOf(b[i]) |-> NamesOf(BlocksOf(b[i])[j])])])
\* reach_func, reach_range
MentionsOf(p) == [f \in DOMAIN p |-> NamesOf(p[f].body) \o NamesIn(p[f].value)]

Init == SumInit /\ ReachInit /\ code = <<>> /\ passes = <<>> /\ did = <<>> /\ meant = <<>>

\* check_rest: the types of the whole program, and the checks
Checking == /\ phase = "check"
            /\ prog' = TypedProgram(prog)
            /\ \E o \in SetToSeqs(DOMAIN prog) : StartMarking(MentionsOf(prog'), o)
            /\ phase' = IF Accepted(prog') THEN "mark" ELSE "refused"
            /\ UNCHANGED <<pe, st, dp, mem, fx, stack, cvars>>
Refused == phase = "refused" /\ UNCHANGED vars
Marking == Mark /\ UNCHANGED <<sumvars, cvars>>
\* natives_then_prune; what the program is to do is what it did before
\* The tables of the functions are cut to those that are kept.
Pruning == /\ Prune
           /\ prog' = [f \in Pruned |-> prog[f]]
           /\ pe' = [f \in Pruned |-> pe[f]] /\ st' = [f \in Pruned |-> st[f]] /\ dp' = [f \in Pruned |-> dp[f]]
           /\ UNCHANGED <<mem, fx, stack>>
           /\ meant' = [a \in Inputs |-> Seen(RunTree(prog, a))]
           /\ UNCHANGED <<code, passes, did>>
Analyse == /\ code = <<>> /\ phase = "emit"
           /\ \/ \E f \in DOMAIN prog : Ask(f)
              \/ Query
              \/ EndPass
           /\ UNCHANGED <<reachvars, cvars>>
CodeOf(l) == [ins |-> l.ins, blk |-> l.blk]
\* lw_program: every function.  Nothing reads the bookkeeping of the analysis any more.
LowerAll ==
    /\ code = <<>> /\ phase = "emit" /\ Summarised
    /\ code' = [f \in DOMAIN prog |-> CodeOf(Lower(Known, prog[f]))]
    /\ did' = Runs(code')
    /\ passes' = AllPasses
    /\ dp' = [f \in DOMAIN prog |-> 0] /\ fx' = [d |-> 0, low |-> Far, grown |-> 0]
    /\ UNCHANGED <<prog, pe, st, mem, stack, reachvars, meant>>
\* op_mem2reg
Cleaned(w) == DropAllocas([w EXCEPT !.g = Clean(@)])
Mem2reg(g) == With(With(PutPhis(Collect(g)), Walk), LAMBDA w : Cleaned(Fill(w)))
\* op_preds and op_mem2reg, op_fold, op_dce
Pass(name, by(_)) ==
    /\ passes # <<>> /\ Head(passes)[2] = name
    /\ code' = [code EXCEPT ![Head(passes)[1]] = by(@)] /\ did' = Runs(code')
    /\ passes' = Tail(passes)
    /\ UNCHANGED <<sumvars, reachvars, meant>>
ToValues == Pass("mem2reg", Mem2reg)
FoldPass == Pass("fold", Fold)
DcePass == Pass("dce", Dce)
Finished == code # <<>> /\ passes = <<>> /\ UNCHANGED vars

Next == Checking \/ Refused \/ Marking \/ Pruning \/ Analyse \/ LowerAll \/ ToValues \/ FoldPass \/ DcePass \/ Finished
Spec == Init /\ [][Next]_vars

-----------------------------------------------------------------------------
\* Whatever the analysis decided about who owns what, and however the functions
\* hand strings and lists to each other, the code frees no block twice, frees no
\* literal, and touches no block it has freed; and no pass makes it read a slot
\* that holds nothing yet.
MemorySafe == code # <<>> => \A a \in Inputs : did[a].st # "bad"

\* After the lowering and after every pass the code prints, traps and returns
\* what the tree does, on every path and width.
SameResult == code # <<>> => \A a \in Inputs : did[a].st # "bad" => did[a] = meant[a]

Terminators == {"br", "cbr", "ret"}
\* A block is left by its last instruction and by no other: the passes look for
\* its successors there, whatever break and return cut off before.
BlocksEndOnce ==
    code # <<>> => \A f \in DOMAIN code : \A b \in DOMAIN code[f].blk :
        {k \in DOMAIN Body(code[f], b) : code[f].ins[Body(code[f], b)[k]].op \in Terminators} = {Len(Body(code[f], b))}

PhisOf(g, b) == {id \in Range(Body(g, b)) : g.ins[id].op = "phi"}
\* A phi that is left has one value for every edge into its block and none besides.
PhisMatchPreds ==
    code # <<>> => \A f \in DOMAIN code : \A b \in DOMAIN code[f].blk :
        \A id \in PhisOf(code[f], b) : code[f].ins[id].bl = Preds(code[f], b)

\* The code is well formed after the lowering and after every pass.
WellFormed == BlocksEndOnce /\ PhisMatchPreds

(***************************************************************************)
(* The classes of values a target has: a register of 1, 32, 64 or 128      *)
(* bits, or a pointer                                                      *)
(***************************************************************************)
Class(t) == CASE t \in {"int", "bool"} -> "i32" [] t = "word" -> "i64" [] t \in {"", "void"} -> "none" [] t \in {"i1", "wide"} -> t [] OTHER -> "ptr"
\* What the runtime's functions take
RuntimeTakes(f, ty, n) ==
    CASE f = "list_get" -> <<"ptr", "i32">>
      [] f = "list_set" -> <<"ptr", "i32", "i64">>
      [] f = "list_push" -> <<"ptr", "i64">>
      [] f = "list_lit" -> [i \in 1 .. n |-> IF i = 1 THEN "i32" ELSE "i64"]
      [] f = "str_sub" -> <<"ptr", "i32", "i32">>
      [] f \in {"idiv", "imod"} -> <<"i32", "i32">>
      [] f \in {"sdiv", "smod", "shl", "sar", "udiv", "umod"} -> <<"i64", "i64">>
      [] f = "fshl" -> [i \in 1 .. 3 |-> Class(ty)]
      [] OTHER -> [i \in 1 .. n |-> "ptr"]
Takes(i, n) == IF i.s \in DOMAIN prog THEN [k \in DOMAIN prog[i.s].params |-> Class(prog[i.s].params[k][1])] ELSE RuntimeTakes(i.s, i.ty, n)
Alike(g, ids, class) == \A id \in ids : g.ins[id].op = "undef" \/ Class(g.ins[id].ty) = class
\* What an instruction of function f does with its operands fits their classes
InsTyped(f, g, i) ==
    LET of(id) == Class(g.ins[id].ty)
        class == Class(i.ty)
    IN CASE i.op = "load" -> of(i.a) = class
         [] i.op = "store" -> Alike(g, {i.b}, of(i.a))
         [] i.op \in {"add", "sub", "mul", "and", "or", "xor", "lshr"} -> Alike(g, {i.a, i.b}, class)
         [] i.op \in {"neg", "not"} -> of(i.a) = class
         [] i.op = "icmp" -> of(i.a) = of(i.b) /\ class = "i1"
         [] i.op = "trunc" -> <<of(i.a), class>> \in {<<"i64", "i32">>, <<"wide", "i64">>}
         [] i.op \in {"zext", "sext"} -> <<of(i.a), class>> \in {<<"i1", "i32">>, <<"i1", "i64">>, <<"i32", "i64">>, <<"i64", "wide">>}
         [] i.op = "ptrtoint" -> <<of(i.a), class>> = <<"ptr", "i64">>
         [] i.op = "inttoptr" -> <<of(i.a), class>> = <<"i64", "ptr">>
         [] i.op = "phi" -> Alike(g, Range(i.l), class)
         [] i.op = "cbr" -> of(i.a) = "i1"
         [] i.op = "ret" -> IF i.a = 0 THEN Class(prog[f].ret) = "none" ELSE Alike(g, {i.a}, Class(prog[f].ret))
         [] i.op = "call" /\ i.s = "str_of" -> of(i.l[1]) \in {"i32", "i64"}
         [] i.op = "call" /\ i.s # "str_of" ->
              LET takes == Takes(i, Len(i.l)) IN Len(takes) = Len(i.l) /\ \A k \in DOMAIN takes : Alike(g, {i.l[k]}, takes[k])
         [] OTHER -> TRUE
RECURSIVE OddIn(_), OddOf(_)
\* Arithmetic on what is no number, in an expression and in a block: arith_result
\* gives it the type int, and chk_bin looks at no operand of it.
Odd(e) == /\ e[1] = "bin" /\ e[3] \in ArithOps /\ ~(e[3] = "+" /\ "string" \in {e[4][2], e[5][2]})
          /\ ~(Numeric(e[4][2]) /\ Numeric(e[5][2]))
OddIn(e) == Odd(e) \/ \E i \in DOMAIN Parts(e) : OddIn(Parts(e)[i])
OddOf(b) == \E i \in DOMAIN b : \/ \E j \in DOMAIN ExprsOf(b[i]) : OddIn(ExprsOf(b[i])[j])
                                \/ \E j \in DOMAIN BlocksOf(b[i]) : OddOf(BlocksOf(b[i])[j])
OddFn(f) == OddOf(prog[f].body) \/ OddIn(prog[f].value)
\* The instructions such an expression is lowered to
OddIns(i) == i.op \in {"add", "sub", "mul"} \/ (i.op = "call" /\ i.s \in {"idiv", "imod"})

\* Every phi has an edge, so every block with a phi can be entered.  It does
\* not hold: the block behind a break or a return (lw_dead) is entered from
\* nowhere and mem2reg gives it phis all the same.  See the README.
PhiHasEdge ==
    code # <<>> => \A f \in DOMAIN code : \A b \in DOMAIN code[f].blk :
        \A id \in PhisOf(code[f], b) : code[f].ins[id].bl # <<>>
=============================================================================
