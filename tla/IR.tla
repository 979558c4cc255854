---------------------------------- MODULE IR ----------------------------------
(***************************************************************************)
(* The intermediate code: instructions, blocks, and the lowering of a      *)
(* function into them.  A function being lowered is a record l,            *)
(*   ins   the instructions [op, ty, a, b, s, l, bl]; 0 is no operand      *)
(*   blk   the blocks [lbl, body], a body being instruction numbers        *)
(*   cur   the block that is filled; entry and body are blocks 1 and 2     *)
(*   slot  the names and their allocas; loop the exits of the open loops   *)
(*   on    the string that x = x + ... builds on (esc_cons), "" if none    *)
(*   vs    the values that were lowered and not yet used, the last on top  *)
(* Every operator takes an l and gives the next.  The program, the         *)
(* summaries and the function are c = [m, f].                              *)
(***************************************************************************)
EXTENDS Types

CONSTANTS WordWidth      \* the bits of a word, which a shift compares with

\* What the code keeps in local variables: values that are used later
Use(l, v) == [l EXCEPT !.vs = Append(@, v)]
Pop(l, k) == [l EXCEPT !.vs = SubSeq(@, 1, Len(@) - k)]
TopN(l, k) == SubSeq(l.vs, Len(l.vs) - k + 1, Len(l.vs))
OnTop(l) == Last(l.vs)
Flip(l) == [l EXCEPT !.vs = SubSeq(@, 1, Len(@) - 2) \o <<@[Len(@)], @[Len(@) - 1]>>]
OnBoth(l, each(_)) == each(Flip(each(Flip(l))))

\* ir_insn, ir_func, ir_block
NewIns(op, ty, a, b, s) == [op |-> op, ty |-> ty, a |-> a, b |-> b, s |-> s, l |-> <<>>, bl |-> <<>>]
\* ir_leaf: an instruction in no block
Leaf(l, i) == [l EXCEPT !.ins = Append(@, i), !.vs = Append(@, Len(l.ins) + 1)]
Place(l, b) == [l EXCEPT !.blk[b].body = Append(@, OnTop(l))]
\* lw_emit, ir_add
Emit(l, i) == Place(Leaf(l, i), l.cur)
\* lw_op: an instruction on values that are named, on the top one, on the top two
Op(l, op, ty, a, b, s) == Emit(l, NewIns(op, ty, a, b, s))
Op1(l, op, ty) == Op(Pop(l, 1), op, ty, OnTop(l), 0, "")
Op2(l, op, ty, s) == Op(Pop(l, 2), op, ty, TopN(l, 2)[1], OnTop(l), s)
\* lw_callf: a call of the top k values
Call(l, f, ty, k) == Emit(Pop(l, k), [NewIns("call", ty, 0, 0, f) EXCEPT !.l = TopN(l, k)])
\* a call of a freeing function carries the type it frees
CallFree(l, f) == Pop(Call(l, f[1], f[2], 1), 1)
\* lw_term, lw_brto: a block is left, on the top value if two ways lead from it
Jump(l, b) == Pop(Emit(l, [NewIns("br", "", 0, 0, "") EXCEPT !.bl = <<b>>]), 1)
Branch(l, targets) == Pop(Emit(l, [NewIns("cbr", "", OnTop(l), 0, "") EXCEPT !.bl = targets]), 2)
\* lw_const; the text of a constant is its value here
Const(l, ty, k) == Leaf(l, NewIns("const", ty, 0, 0, k))
\* lw_go
Block(l, lbl) == [l EXCEPT !.blk = Append(@, [lbl |-> lbl, body |-> <<>>])]
Go(l, b) == [l EXCEPT !.cur = b]

(***************************************************************************)
(* Conversions: lw_conv, lw_cast, lw_cast2, lw_castop2, lw_narrow          *)
(***************************************************************************)
Narrow(t, want) == IF t = "word" THEN "trunc" ELSE "sext"
Conv(l, t, want) ==
    CASE t = want \/ {t, want} = {"bool", "int"} -> l
      [] t # want /\ t = "i1" -> Op1(l, "zext", want)
      [] t # "i1" /\ t # want /\ {t, want} # {"bool", "int"} /\ {t, want} \subseteq Whole -> Op1(l, Narrow(t, want), want)
      [] OTHER -> l
\* lw_box, lw_unbox: a value as the word of a list's cell
Box(l, t) == IF t \in Whole THEN Conv(l, t, "word") ELSE Op1(l, "ptrtoint", "word")
Unbox(l, t) == IF t \in Whole THEN Conv(l, "word", t) ELSE Op1(l, "inttoptr", t)

\* lw_slot, lw_load_at, lw_tmp
SlotOf(l, x) == LET i == SelectInSeq(l.slot, LAMBDA p : p[1] = x) IN IF i = 0 THEN 0 ELSE l.slot[i][2]
LoadAt(l, addr, ty) == Op(l, "load", ty, addr, 0, "")
Tmp(l, ty) == Pop(Place(Leaf(l, NewIns("alloca", ty, 0, 0, "")), 1), 1)

\* lw_old: the value a store into an owned slot replaces, 0 if it is not to be freed
HoldsOwn(c, l, i, addr) == i.op = "alloca" /\ i.s # "" /\ SlotOf(l, i.s) = addr /\ Own(c.m, c.f, i.s) /\ l.on = ""
OldOf(c, l, addr) == IF HoldsOwn(c, l, l.ins[addr], addr) THEN LoadAt(l, addr, l.ins[addr].ty) ELSE Use(l, 0)
\* lw_drop
Drop(c, l, x) == IF OnTop(l) = 0 THEN Pop(l, 1) ELSE CallFree(l, FreeFn(c.m, c.f, x))
\* lw_store_at: the top value goes to addr, and what was there is dropped
Store(l, addr) == Pop(Op(l, "store", "", addr, TopN(l, 2)[1], ""), 1)
StoreAt(c, l, addr) == Pop(Drop(c, Store(OldOf(c, l, addr), addr), l.ins[addr].s), 1)

\* lw_store_at into a slot of no name, which never owns what it holds
StoreTmp(l, addr) == Pop(Store(Use(l, 0), addr), 2)

(***************************************************************************)
(* Expressions                                                             *)
(***************************************************************************)
RelOps == {"==", "!=", "<", ">", "<=", ">="}
RECURSIVE LwExpr(_, _, _)
\* lw_as
As(c, l, e, want) == Conv(LwExpr(c, l, e), e[2], want)
\* lw_cond, lw_truth
Cond(c, l, e) == Op2(Const(LwExpr(c, l, e), e[2], 0), "icmp", "i1", "!=")

\* lw_tostr_bool: the part of falsetrue from 5 b on that is 5 - b long
BoolPart(l, b) == Op2(Use(Const(Op2(Const(Use(l, b), "int", 5), "mul", "int", ""), "int", 5), b), "sub", "int", "")
BoolText(l, b) == Call(BoolPart(Const(Pop(l, 1), "string", <<"f", "a", "l", "s", "e", "t", "r", "u", "e">>), b), "str_sub", "string", 3)
\* lw_tostr, lw_tostr_at
ToStrAt(l, t) ==
    CASE t = "string" -> l
      [] t = "bool" -> BoolText(l, OnTop(l))
      [] t \in {"int", "word"} -> Call(l, "str_of", "string", 1)
ToStr(c, l, e) == ToStrAt(LwExpr(c, l, e), e[2])
\* lw_concat, str_mask, esc_cons_bit
ConcatFn(c, on, e) ==
    LET frees(i) == StrFresh(c.m, e[3 + i]) \/ (i = 1 /\ on # "" /\ IsVar(e[4], on))
    IN CASE frees(1) /\ frees(2) -> "concat_f3" [] frees(1) /\ ~frees(2) -> "concat_f1"
         [] ~frees(1) /\ frees(2) -> "concat_f2" [] OTHER -> "concat"
Concat(c, l, e) == Call(ToStr(c, ToStr(c, l, e[4]), e[5]), ConcatFn(c, l.on, e), "string", 2)

\* lw_cmp, lw_cmp_wide, lw_ncmp, lw_scmp
NumCmp(c, l, e) ==
    LET t == Wider(e[4][2], e[5][2]) IN Op2(As(c, As(c, l, e[4], t), e[5], t), "icmp", "i1", e[3])
TextCmp(c, l, e) ==
    Op2(Const(Call(LwExpr(c, LwExpr(c, l, e[4]), e[5]), "strcmp", "int", 2), "int", 0), "icmp", "i1", e[3])
Cmp(c, l, e) == Conv(IF e[4][2] = "string" THEN TextCmp(c, l, e) ELSE NumCmp(c, l, e), "i1", "int")

\* lw_logic .. lw_rhs_store: && and || by two blocks and a slot
LogicLhs(c, l, e, to) == Branch(Cond(c, Block(Block(l, "rhs"), "join"), e[4]), to)
LogicRhs(c, l, e, slot) == StoreTmp(Conv(Cond(c, l, e[5]), "i1", "int"), slot)
Logic(c, l, e) ==
    LET slot == Len(l.ins) + 1
        rhs == Len(l.blk) + 1
        join == rhs + 1
        to == IF e[3] = "||" THEN <<join, rhs>> ELSE <<rhs, join>>
        seeded == StoreTmp(Const(Tmp(l, "int"), "int", IF e[3] = "||" THEN 1 ELSE 0), slot)
    IN LoadAt(Go(Jump(LogicRhs(c, Go(LogicLhs(c, seeded, e, to), rhs), e, slot), join), join), slot, "int")

\* lw_irop, lw_helper, lw_divfn, lw_hty, lw_hcall
IrOp(op) == CASE op = "+" -> "add" [] op = "-" -> "sub" [] op = "*" -> "mul" [] op = "|" -> "or" [] op = "^" -> "xor" [] OTHER -> "and"
HelperOf(op, t) ==
    CASE op = "/" -> IF t = "word" THEN "sdiv" ELSE "idiv"
      [] op = "%" -> IF t = "word" THEN "smod" ELSE "imod"
      [] op = "<<" -> "shl" [] OTHER -> "sar"
Helper(l, op, t) ==
    LET hty == IF op \in {"/", "%"} /\ t # "word" THEN "int" ELSE "word"
    IN Conv(Call(OnBoth(l, LAMBDA x : Conv(x, t, hty)), HelperOf(op, t), hty, 2), hty, t)
Apply(l, op, t) == IF op \in {"/", "%", "<<", ">>"} THEN Helper(l, op, t) ELSE Op2(l, IrOp(op), t, "")
Arith(c, l, e) == Apply(As(c, As(c, l, e[4], e[2]), e[5], e[2]), e[3], e[2])

\* lw_un, lw_not, lw_iszero
IsZero(l, t) == Op2(Const(l, t, 0), "icmp", "i1", "==")
Unary(c, l, e) ==
    IF e[3] = "!" THEN Conv(IsZero(LwExpr(c, l, e[4]), e[4][2]), "i1", "int")
    ELSE Op1(As(c, l, e[4], e[2]), IF e[3] = "-" THEN "neg" ELSE "not", e[2])

\* lw_args and its like: the values of a list of expressions, lowered from left to right
Args(l, es, each(_, _)) == FoldLeft(each, l, [i \in DOMAIN es |-> i])

\* lw_arr, lw_arr_lit, lw_arr_cells, lw_ctor, lw_ctor_cells: a list or a struct from its cells
Dup(l, yes) == IF yes THEN Call(l, "str_dup", "string", 1) ELSE l
ListLit(c, l, ty, es, tys, dups) ==
    Call(Args(Const(l, "int", Len(es)), es, LAMBDA l0, i : Box(Dup(As(c, l0, es[i], tys[i]), i \in dups), tys[i])),
         "list_lit", ty, Len(es) + 1)
Arr(c, l, e) == IF e[3] = <<>> THEN Call(l, "list_new", e[2], 0)
                ELSE ListLit(c, l, e[2], e[3], [i \in DOMAIN e[3] |-> ElemType[e[2]]], {})
Ctor(c, l, e) == ListLit(c, l, e[2], e[4], Fields[e[3]], {i \in DOMAIN e[4] : DupsField(c.m, e, i)})

\* lw_index, lw_index2
Index(c, l, e) == Unbox(Call(As(c, LwExpr(c, l, e[3]), e[4], "int"), "list_get", "word", 2), e[2])

(***************************************************************************)
(* The builtins that are expanded in place: lw_expand and what it picks    *)
(***************************************************************************)
\* lw_guard: a trap if the top value holds
Guard(l) ==
    LET trap == Len(l.blk) + 1
        ok == trap + 1
        failed == Call(Go(Branch(Block(Block(l, "trap"), "ok"), <<trap, ok>>), trap), "fail", "", 0)
    IN Go(Jump(Pop(failed, 1), ok), ok)
\* lw_inline_ushr: 0 if the count n is the width or more
ShiftChecked(l, n) == Guard(Op2(Const(Use(l, n), "word", 0), "icmp", "i1", "<"))
ShiftMask(l, n) == Op1(Op2(Const(Use(l, n), "word", WordWidth), "icmp", "i1", "u<"), "sext", "word")
Shifted(l, x, n) == Op2(Op2(Const(Use(Use(l, x), n), "word", WordWidth - 1), "and", "word", ""), "lshr", "word", "")
InlineUshr(l, x, n) == Op2(Flip(Shifted(ShiftMask(ShiftChecked(l, n), n), x, n)), "and", "word", "")
\* lw_expand_turn, lw_inline_turn32
Turn(l, ty) == Call(Flip(Use(l, TopN(l, 2)[1])), "fshl", ty, 3)
\* lw_inline_high
HighOf(l) == Op1(Op2(Const(Op2(l, "mul", "wide", ""), "wide", WordWidth), "lshr", "wide", ""), "trunc", "word")
\* lw_inline_ult, lw_inline_uword
Expand(l, f) ==
    CASE f = "ult" -> Op1(Op2(l, "icmp", "i1", "u<"), "zext", "word")
      [] f = "uword_of_int" -> Op1(Op1(l, "trunc", "int"), "zext", "word")
      [] f = "rotl" -> Turn(l, "word")
      [] f = "rotl32" -> Op1(Turn(OnBoth(l, LAMBDA x : Op1(x, "trunc", "int")), "int"), "sext", "word")
      [] f = "umul_hi" -> HighOf(OnBoth(l, LAMBDA x : Op1(x, "zext", "wide")))
      [] f = "ushr" -> InlineUshr(Pop(l, 2), TopN(l, 2)[1], OnTop(l))
      [] OTHER -> Call(l, f, "word", 2)
WordFns == {"ult", "uword_of_int", "rotl", "umul_hi", "ushr", "udiv", "umod"}
\* sys_helper_at: an int is turned within its own width
SysHelper(e) == IF e[3] = "rotl" /\ e[4][1][2] = "int" THEN "rotl32" ELSE e[3]
\* lw_plain, lw_as_arg: an int argument of the unsigned ones is not sign extended
Unsigned == {"udiv", "umod", "ult", "ushr"}
\* lw_bargs, lw_barg_val, lw_as_arg
PlainArg(c, l, f, e) == IF f \in Unsigned /\ e[2] = "int" THEN Op1(LwExpr(c, l, e), "zext", "word") ELSE As(c, l, e, "word")
Plain(c, l, e) == Conv(Expand(Args(l, e[4], LAMBDA l0, i : PlainArg(c, l0, e[3], e[4][i])), SysHelper(e)), "word", e[2])

\* lb_b1 .. lb_b5: print, len, push, pop and the rest
Builtin(c, l, e) ==
    LET arg == e[4][1]
        t == ElemType[arg[2]]
    IN CASE e[3] = "print" -> Call(ToStr(c, l, arg), "print", "", 1)
         [] e[3] = "len" -> Call(LwExpr(c, l, arg), "len", "int", 1)
         [] e[3] = "push" -> Call(Box(As(c, LwExpr(c, l, arg), e[4][2], t), t), "list_push", "", 2)
         [] e[3] = "pop" -> Unbox(Call(LwExpr(c, l, arg), "list_pop", "word", 1), t)
         [] OTHER -> Plain(c, l, e)

\* lw_tmp_free: the temporaries are freed behind the call
FreeWith(l, f, v) == IF f = <<>> THEN l ELSE CallFree(Use(l, v), f)
FreeArgs(c, l, e, vals) == Args(l, e[4], LAMBDA l0, i : FreeWith(l0, TmpFree(c.m, e, i), vals[i]))
Called(c, l, e) == FreeArgs(c, Call(l, e[3], e[2], Len(e[4])), e, TopN(l, Len(e[4])))
\* lw_ucall_rest, lw_arg_val
UserCall(c, l, e) == Called(c, Args(l, e[4], LAMBDA l0, i : As(c, l0, e[4][i], c.m.p[e[3]].params[i][1])), e)

\* lw_expr, le2 .. le6, lw_name, lw_lit, lw_bin, lw_call, lw_call_dispatch
LwExpr(c, l, e) ==
    CASE e[1] = "var" -> LoadAt(l, SlotOf(l, e[3]), e[2])
      [] e[1] \in {"int", "str", "fld"} -> Const(l, e[2], e[3])
      [] e[1] = "bin" -> (CASE e[3] \in RelOps -> Cmp(c, l, e)
                            [] e[3] = "+" /\ e[2] = "string" -> Concat(c, l, e)
                            [] e[3] \in {"&&", "||"} -> Logic(c, l, e)
                            [] OTHER -> Arith(c, l, e))
      [] e[1] = "un" -> Unary(c, l, e)
      [] e[1] = "call" -> (CASE IsStruct(e[3]) -> Ctor(c, l, e)
                             [] e[3] \in Builtins -> Builtin(c, l, e)
                             [] OTHER -> UserCall(c, l, e))
      [] e[1] = "index" -> Index(c, l, e)
      [] e[1] = "arr" -> Arr(c, l, e)

(***************************************************************************)
(* Statements                                                              *)
(***************************************************************************)
\* lw_decl, lw_assign, lw_store_own, lw_dup, esc_pick_set
On(l, x) == [l EXCEPT !.on = x]
Assign(c, l, x, e) ==
    LET addr == SlotOf(l, x)
        val == As(c, On(l, IF BuildsOn(c.m, c.f, x, e) THEN x ELSE ""), e, l.ins[addr].ty)
    IN On(StoreAt(c, Dup(val, e[1] = "str" /\ Own(c.m, c.f, x)), addr), "")

\* lw_iset, lw_slot_old, lw_slot_free: list, index and value v go to the cell, and
\* what was there is freed
SetCell(l, v) == Pop(Call(Use(Use(Use(l, v[1]), v[2]), v[3]), "list_set", "", 3), 1)
SwapCell(l, v, t, free) ==
    IF free = <<>> THEN SetCell(l, v)
    ELSE CallFree(SetCell(Unbox(Call(Use(Use(l, v[1]), v[2]), "list_get", "word", 2), t), v), free)
IntoCell(c, l, s, t) == SwapCell(Pop(l, 3), TopN(l, 3), t, SlotFree(c.m, c.f, s[2]))
\* lw_iassign
IAssign(c, l, s) ==
    LET t == IndexType(s[2][2], s[3])
    IN IntoCell(c, Box(As(c, As(c, LwExpr(c, l, s[2]), s[3], "int"), s[4], t), t), s, t)

\* lw_free_all
FreeAll(c, l) ==
    FoldLeft(LAMBDA l0, p : IF FreedAtExit(c.m, c.f, p[1]) THEN Drop(c, OldOf(c, l0, p[2]), p[1]) ELSE l0, l, l.slot)
\* lw_ret_val
RetOf(c, l, e) == IF e[1] = "none" THEN Op(l, "ret", "", 0, 0, "") ELSE Op1(As(c, l, e, c.f.ret), "ret", c.f.ret)
RetVal(c, l, e) == Pop(RetOf(c, FreeAll(c, l), e), 1)
\* lw_dead: what follows a break or a return goes to a block nothing leads to
Dead(l) == Go(Block(l, "dead"), Len(l.blk) + 1)

RECURSIVE LwStmts(_, _, _)
\* lw_arm
Arm(c, l, b, stmts, join) == Jump(LwStmts(c, Go(l, b), stmts), join)
\* lw_if .. lw_if_arms2
IfArms(c, l, s) ==
    LET thn == Len(l.blk) + 1
        alt == thn + 1
        join == thn + 2
        split == Branch(Block(Block(Block(l, "then"), "else"), "join"), <<thn, alt>>)
    IN Go(Arm(c, Arm(c, split, thn, s[3], join), alt, s[4], join), join)
If(c, l, s) == IfArms(c, Cond(c, l, s[2]), s)
\* lw_while .. lw_while_body, lw_head
Loops(l, exits) == [l EXCEPT !.loop = exits]
While(c, l, s) ==
    LET head == Len(l.blk) + 1
        body == head + 1
        exit == head + 2
        entered == Go(Block(Block(Jump(Block(l, "head"), head), "body"), "exit"), head)
        split == Loops(Branch(Cond(c, entered, s[2]), <<body, exit>>), Append(l.loop, exit))
    IN Go(Loops(Arm(c, split, body, s[3], head), l.loop), exit)
\* lw_discard
Discard(c, l, e) == IF FreshCall(c.m, e) THEN CallFree(l, FreeOf(c.m, e)) ELSE Pop(l, 1)

\* lw_flow, lw_break
LwBreak(l) == Dead(Jump(l, l.loop[Len(l.loop)]))
\* lw_stmt, ls2 .. ls5, lw_early_ret
LwStmt(c, l, s) ==
    CASE s[1] \in {"decl", "assign"} -> Assign(c, l, Target(s), Stored(s))
      [] s[1] = "exprstmt" -> Discard(c, LwExpr(c, l, s[2]), s[2])
      [] s[1] = "iassign" -> IAssign(c, l, s)
      [] s[1] = "if" -> If(c, l, s)
      [] s[1] = "while" -> While(c, l, s)
      [] s[1] = "break" -> LwBreak(l)
      [] s[1] = "ret" -> Dead(RetVal(c, l, s[2]))
\* lw_stmts; reading l.cur here lets TLC evaluate l statement by statement
LwStmts(c, l, stmts) == IF stmts = <<>> \/ l.cur = 0 THEN l ELSE LwStmts(c, LwStmt(c, l, Head(stmts)), Tail(stmts))

(***************************************************************************)
(* A function                                                              *)
(***************************************************************************)
\* lw_own_init: an owned slot starts as null
OwnInit(l, slot) == Pop(Place(Leaf(Const(l, "ptr", 0), NewIns("store", "", slot, Len(l.ins) + 1, "")), 1), 2)
\* lw_alloca, lw_alloca_tail, lw_bind
Bind(l, x) == Pop([l EXCEPT !.slot = Append(@, <<x, OnTop(l)>>)], 1)
InitOwn(c, l, x) == IF Own(c.m, c.f, x) THEN OwnInit(l, SlotOf(l, x)) ELSE l
Alloca(c, l, ty, x) == InitOwn(c, Bind(Place(Leaf(l, NewIns("alloca", ty, 0, 0, x)), 1), x), x)
RECURSIVE Locals(_)
\* lw_locals, lw_loc_list .. lw_loc_branch
Locals(b) == FlattenSeq([i \in DOMAIN b |-> IF b[i][1] = "decl" THEN <<<<b[i][2], b[i][3]>>>>
                                            ELSE FlattenSeq([j \in DOMAIN BlocksOf(b[i]) |-> Locals(BlocksOf(b[i])[j])])])
AllLocals(c, l) == FoldLeft(LAMBDA l0, d : Alloca(c, l0, d[1], d[2]), l, Locals(c.f.body))
\* lw_param .. lw_pslot_tail
Param(c, l, i) ==
    LET p == c.f.params[i]
    IN StoreAt(c, Alloca(c, Leaf(l, NewIns("param", p[1], i, 0, p[2])), p[1], p[2]), Len(l.ins) + 2)
AllParams(c, l) == Args(l, c.f.params, LAMBDA l0, i : Param(c, l0, i))

\* lw_func, lw_open, lw_func_tail, lw_fin, lw_ret, lw_ret_tail
EmptyFn == [ins |-> <<>>, blk |-> <<[lbl |-> "entry", body |-> <<>>], [lbl |-> "body", body |-> <<>>]>>,
            cur |-> 2, slot |-> <<>>, loop |-> <<>>, on |-> "", vs |-> <<>>]
Entered(l) == Pop(Place(Leaf(l, [NewIns("br", "", 0, 0, "") EXCEPT !.bl = <<2>>]), 1), 1)
LwFunc(c) == RetVal(c, Entered(LwStmts(c, AllParams(c, AllLocals(c, EmptyFn)), c.f.body)), c.f.value)
Lower(m, f) == LwFunc([m |-> m, f |-> f])
=============================================================================
