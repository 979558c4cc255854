-------------------------------- MODULE IRSem --------------------------------
(***************************************************************************)
(* What a program does, twice: lowered code run over the runtime's heap,   *)
(* and the tree evaluated over the same heap with nothing ever freed.      *)
(*                                                                         *)
(* A world w = [heap, out, st, v] is the blocks [k, v, live], what was     *)
(* printed, how the run stands ("run", "trap" for the runtime's own        *)
(* traps, "bad" for an access to a block that is gone) and a value.  An    *)
(* address is the number of a block and 0 is null; the first blocks are    *)
(* the literals, which are static.                                         *)
(***************************************************************************)
EXTENDS IROpt

CONSTANTS Texts,         \* the string literals
          Fuel           \* bound: blocks a run may enter

Undef == -100000
Bits(t) == CASE t = "word" -> WordWidth [] t = "wide" -> 2 * WordWidth [] t = "i1" -> 1 [] OTHER -> IntWidth
Uns(x, t) == x % 2^Bits(t)
Fit(x, t) == LET u == Uns(x, t) IN IF u >= 2^(Bits(t) - 1) THEN u - 2^Bits(t) ELSE u
AsType(x, t) == IF t \in Whole THEN Fit(x, t) ELSE x

Lits == SetToSeq(Texts)
LitAt(text) == SelectInSeq(Lits, LAMBDA s : s = text)
World0 == [heap |-> [i \in DOMAIN Lits |-> [k |-> "str", v |-> Lits[i], live |-> TRUE]], out |-> <<>>, st |-> "run", v |-> 0]

Stop(w, how) == [w EXCEPT !.st = how, !.v = 0]
Give(w, x) == [w EXCEPT !.v = x]
\* id_list_make, id_str_from
Make(w, k, x) == [w EXCEPT !.heap = Append(@, [k |-> k, v |-> x, live |-> TRUE]), !.v = Len(w.heap) + 1]
Alive(w, x, k) == x \in DOMAIN w.heap /\ w.heap[x].live /\ w.heap[x].k = k
Cells(w, x) == w.heap[x].v

RECURSIVE DigitsOf(_), FreeAs(_, _, _)
DigitNames == <<"0", "1", "2", "3", "4", "5", "6", "7", "8", "9">>
DigitsOf(n) == (IF n < 10 THEN <<>> ELSE DigitsOf(n \div 10)) \o <<DigitNames[(n % 10) + 1]>>
\* id_str_of_word
TextOf(n) == IF n < 0 THEN <<"-">> \o DigitsOf(0 - n) ELSE DigitsOf(n)

\* id_str_free, id_list_free: a block is given back once, and a literal is none
FreeBlock(w, x, k) == IF w.st # "run" \/ x = 0 THEN w
                      ELSE IF Alive(w, x, k) /\ x > Len(Lits) THEN [w EXCEPT !.heap[x].live = FALSE] ELSE Stop(w, "bad")
FreeCells(w, x, each(_, _)) ==
    IF x = 0 \/ ~Alive(w, x, "list") THEN FreeBlock(w, x, "list")
    ELSE FreeBlock(FoldLeft(LAMBDA w1, i : IF w1.st = "run" THEN each(w1, i) ELSE w1, w, [i \in DOMAIN Cells(w, x) |-> i]), x, "list")
\* id_free_walk, by the description of a type (esc_desc)
FreeAs(w, x, t) ==
    CASE t = "string" -> FreeBlock(w, x, "str")
      [] IsListTy(t) -> FreeCells(w, x, LAMBDA w1, i : FreeAs(w1, Cells(w, x)[i], ElemType[t]))
      [] IsStruct(t) -> FreeCells(w, x, LAMBDA w1, i : FreeAs(w1, Cells(w, x)[i], Fields[t][i]))
      [] OTHER -> w
\* id_str_free, id_list_free, id_list_free_deep, id_list_free_strs, id_free_walk
FreeBy(w, f, x, t) ==
    CASE f = "str_free" -> FreeBlock(w, x, "str")
      [] f = "list_free" -> FreeBlock(w, x, "list")
      [] f = "list_free_deep" -> FreeCells(w, x, LAMBDA w1, i : FreeBlock(w1, Cells(w, x)[i], "list"))
      [] f = "list_free_strs" -> FreeCells(w, x, LAMBDA w1, i : FreeBlock(w1, Cells(w, x)[i], "str"))
      [] f = "idfr" -> FreeAs(w, x, t)

\* id_sdiv, id_idiv, id_smod, id_imod: towards zero
Size(a) == IF a < 0 THEN 0 - a ELSE a
Quotient(a, b) == LET q == Size(a) \div Size(b) IN IF (a < 0) = (b < 0) THEN q ELSE 0 - q
Divide(w, op, t, a, b) ==
    CASE b = 0 -> Stop(w, "trap")
      [] b # 0 /\ op = "/" -> IF Fit(Quotient(a, b), t) = Quotient(a, b) THEN Give(w, Quotient(a, b)) ELSE Stop(w, "trap")
      [] b # 0 /\ op = "%" -> Give(w, a - (b * Quotient(a, b)))
\* id_shl, id_sar
Shift(w, f, a, n) ==
    CASE n < 0 -> Stop(w, "trap")
      [] n >= 0 /\ f = "shl" -> Give(w, IF n >= WordWidth THEN 0 ELSE Fit(a * 2^n, "word"))
      [] n >= 0 /\ f = "sar" -> Give(w, IF n >= WordWidth THEN (IF a < 0 THEN -1 ELSE 0) ELSE a \div 2^n)

ListFns == {"list_get", "list_set", "list_push", "list_pop"}
StrFns == {"concat", "strcmp", "str_dup", "str_sub", "print"}
\* The runtime's list functions
ListCall(w, f, a) ==
    LET x == a[1]
        cells == Cells(w, x)
        set(s) == [w EXCEPT !.heap[x].v = s]
    IN CASE f = "list_push" -> set(Append(cells, a[2]))
         [] f = "list_pop" -> IF cells = <<>> THEN Stop(w, "trap") ELSE Give(set(Front(cells)), Last(cells))
         [] f = "list_get" -> IF a[2] \in 0 .. Len(cells) - 1 THEN Give(w, cells[a[2] + 1]) ELSE Stop(w, "trap")
         [] f = "list_set" -> IF a[2] \in 0 .. Len(cells) - 1 THEN set([cells EXCEPT ![a[2] + 1] = a[3]]) ELSE Stop(w, "trap")
\* Its string functions; of strcmp only equality is told apart
StrCall(w, f, a) ==
    CASE f = "concat" -> Make(w, "str", Cells(w, a[1]) \o Cells(w, a[2]))
      [] f = "strcmp" -> Give(w, IF Cells(w, a[1]) = Cells(w, a[2]) THEN 0 ELSE 1)
      [] f = "str_dup" -> Make(w, "str", Cells(w, a[1]))
      [] f = "str_sub" -> Make(w, "str", SubSeq(Cells(w, a[1]), a[2] + 1, a[2] + a[3]))
      [] f = "print" -> [w EXCEPT !.out = Append(@, Cells(w, a[1]))]
\* id_udiv, id_umod, the funnel shift, and the functions that take or make no block
WordCall(w, f, a, t) ==
    LET turn == a[3] % Bits(t)
        both == (Uns(a[1], t) * 2^Bits(t)) + Uns(a[2], t)
    IN CASE f \in {"shl", "sar"} -> Shift(w, f, a[1], a[2])
         [] f \in {"udiv", "umod"} -> IF a[2] = 0 THEN Stop(w, "trap")
                                      ELSE LET n == Uns(a[1], "word")
                                               d == Uns(a[2], "word")
                                           IN Give(w, Fit(IF f = "udiv" THEN n \div d ELSE n % d, "word"))
         [] f = "fshl" -> Give(w, Fit((both * 2^turn) \div 2^Bits(t), t))
         [] f = "str_of" -> Make(w, "str", TextOf(a[1]))
         [] f = "fail" -> Stop(w, "trap")
         [] f = "list_new" -> Make(w, "list", <<>>)
         [] f = "list_lit" -> Make(w, "list", Tail(a))
         [] f = "len" -> IF Alive(w, a[1], "str") \/ Alive(w, a[1], "list") THEN Give(w, Len(Cells(w, a[1]))) ELSE Stop(w, "bad")

\* id_concat_f: the left block is taken over, the right one given back
ConcatF(w, mask, a) ==
    LET made == StrCall(w, "concat", a)
        left == IF 1 \in mask THEN FreeBlock(made, a[1], "str") ELSE made
        right == IF 2 \in mask THEN FreeBlock(left, a[2], "str") ELSE left
    IN IF \A i \in 1 .. 2 : Alive(w, a[i], "str") THEN right ELSE Stop(w, "bad")

\* A call of the runtime with result type t
RtCall(w, f, a, t) ==
    CASE \E i \in DOMAIN a : a[i] = Undef -> Stop(w, "bad")
      [] OTHER ->
         IF f \in ListFns THEN (IF Alive(w, a[1], "list") THEN ListCall(w, f, a) ELSE Stop(w, "bad"))
         ELSE IF f \in StrFns THEN (IF \A i \in 1 .. (IF f \in {"concat", "strcmp"} THEN 2 ELSE 1) : Alive(w, a[i], "str")
                                    THEN StrCall(w, f, a) ELSE Stop(w, "bad"))
         ELSE IF f \in {"shl", "sar", "udiv", "umod", "fshl", "str_of", "fail", "list_new", "list_lit", "len"} THEN WordCall(w, f, a, t)
         ELSE IF f \in {"idiv", "imod", "sdiv", "smod"}
              THEN Divide(w, IF f \in {"idiv", "sdiv"} THEN "/" ELSE "%", IF f \in {"idiv", "imod"} THEN "int" ELSE "word", a[1], a[2])
         ELSE IF f \in {"concat_f1", "concat_f2", "concat_f3"}
              THEN ConcatF(w, CASE f = "concat_f1" -> {1} [] f = "concat_f2" -> {2} [] OTHER -> {1, 2}, a)
         ELSE FreeBy(w, f, a[1], t)

(***************************************************************************)
(* The lowered code.  A frame is [g, args, env, mem]: the values of the    *)
(* instructions and what the allocas hold.                                 *)
(***************************************************************************)
Val(fr, id) == LET i == fr.g.ins[id]
               IN CASE i.op = "const" -> (IF i.ty = "string" THEN LitAt(i.s) ELSE i.s)
                    [] i.op = "undef" -> Undef
                    [] i.op = "param" -> fr.args[i.a]
                    [] OTHER -> fr.env[id]
RECURSIVE BitOp(_, _, _)
BitOp(op, a, b) == IF a = 0 /\ b = 0 THEN 0
                   ELSE LET x == a % 2
                            y == b % 2
                        IN (CASE op = "and" -> x * y [] op = "or" -> (x + y) - (x * y) [] op = "xor" -> (x + y) % 2)
                           + (2 * BitOp(op, a \div 2, b \div 2))
Bitwise2(op, t, a, b) == Fit(BitOp(op, Uns(a, t), Uns(b, t)), t)
Holds(rel, a, b) == CASE rel = "==" -> a = b [] rel = "!=" -> a # b [] rel = "<" -> a < b [] rel = ">" -> a > b
                      [] rel = "<=" -> a <= b [] rel = ">=" -> a >= b
                      [] rel = "u<" -> Uns(a, "word") < Uns(b, "word")
Flag(b) == IF b THEN 1 ELSE 0
\* The value of an instruction that only computes
Pure(fr, i) ==
    LET a == Val(fr, i.a)
        b == Val(fr, i.b)
        from == fr.g.ins[i.a].ty
    IN CASE i.op = "icmp" -> Flag(Holds(i.s, a, b))
         [] i.op = "zext" -> Uns(a, from)
         [] i.op = "sext" -> IF from = "i1" THEN 0 - a ELSE a
         [] i.op = "trunc" -> Fit(a, i.ty)
         [] i.op \in {"ptrtoint", "inttoptr"} -> a
         [] i.op = "neg" -> Fit(0 - a, i.ty)
         [] i.op = "not" -> Fit(0 - a - 1, i.ty)
         [] i.op = "lshr" -> IF i.ty = "wide" THEN a \div 2^b ELSE Fit(Uns(a, i.ty) \div 2^b, i.ty)
         [] i.op = "mul" /\ i.ty = "wide" -> a * b
         [] i.op = "add" -> Fit(a + b, i.ty)
         [] i.op = "sub" -> Fit(a - b, i.ty)
         [] i.op = "mul" -> Fit(a * b, i.ty)
         [] i.op \in {"and", "or", "xor"} -> Bitwise2(i.op, i.ty, a, b)
Unaries == {"zext", "sext", "trunc", "ptrtoint", "inttoptr", "neg", "not"}

RECURSIVE RunSteps(_, _, _), RunFn(_, _, _, _)
\* All phis of a block read the values of the block control came from
Phis(fr, b, from) ==
    LET at(id) == SelectInSeq(fr.g.ins[id].bl, LAMBDA p : p = from)
        isPhi(id) == fr.g.ins[id].op = "phi" /\ id \in Range(Body(fr.g, b))
    IN [fr EXCEPT !.env = [id \in DOMAIN @ |-> IF isPhi(id) THEN (IF at(id) = 0 THEN Undef ELSE Val(fr, fr.g.ins[id].l[at(id)])) ELSE @[id]]]
CallOf(w, code, i, args) == IF i.s \in DOMAIN code THEN RunFn(w, code, i.s, args) ELSE RtCall(w, i.s, args, i.ty)
Took(w, fr, id) == <<w, [fr EXCEPT !.env[id] = w.v]>>
\* An instruction that is no terminator gives the next world and frame
Does(w, code, fr, id) ==
    LET i == fr.g.ins[id]
        with(x) == [fr EXCEPT !.env[id] = x]
        unknown == Val(fr, i.a) = Undef \/ (i.op \notin Unaries /\ Val(fr, i.b) = Undef)
    IN CASE i.op \in {"nop", "alloca", "phi", "param"} -> <<w, fr>>
         [] i.op = "load" -> <<w, with(fr.mem[i.a])>>
         [] i.op = "store" -> <<w, [fr EXCEPT !.mem[i.a] = Val(fr, i.b)]>>
         [] i.op = "call" -> Took(CallOf(w, code, i, [j \in DOMAIN i.l |-> Val(fr, i.l[j])]), fr, id)
         [] OTHER -> IF unknown THEN <<Stop(w, "bad"), fr>> ELSE <<w, with(Pure(fr, i))>>
\* Where a run stands: [w, fr, b, k], the k-th instruction of block b next; b = 0 if it is over
Over(s, w) == [s EXCEPT !.w = w, !.b = 0]
Enter(s, to) == IF s.w.fuel = 0 THEN Over(s, Stop(s.w, "fuel"))
                ELSE [s EXCEPT !.w.fuel = @ - 1, !.fr = Phis(@, to, s.b), !.b = to, !.k = 1]
Next1(s, r) == IF r[1].st = "run" THEN [s EXCEPT !.w = r[1], !.fr = r[2], !.k = @ + 1] ELSE Over(s, r[1])
RunIns(code, s, id) ==
    LET i == s.fr.g.ins[id]
    IN CASE i.op = "ret" -> Over(s, IF i.a = 0 THEN s.w ELSE Give(s.w, Val(s.fr, i.a)))
         [] i.op = "br" -> Enter(s, i.bl[1])
         [] i.op = "cbr" -> IF Val(s.fr, i.a) = Undef THEN Over(s, Stop(s.w, "bad"))
                            ELSE Enter(s, IF Val(s.fr, i.a) # 0 THEN i.bl[1] ELSE i.bl[2])
         [] OTHER -> Next1(s, Does(s.w, code, s.fr, id))
RunStep(code, s) == IF s.k > Len(Body(s.fr.g, s.b)) THEN Over(s, Stop(s.w, "bad"))
                    ELSE RunIns(code, s, Body(s.fr.g, s.b)[s.k])
\* One instruction after the other, at most 2^n of them
RunSteps(code, s, n) ==
    IF s.b = 0 THEN s
    ELSE IF n = 0 THEN RunStep(code, s) ELSE RunSteps(code, RunSteps(code, s, n - 1), n - 1)
EnoughSteps(g) == CHOOSE n \in 0 .. Fuel : 2^n > (Fuel + 1) * (Len(g.ins) + 1)
RunFn(w, code, f, args) ==
    LET g == code[f]
        blank == [id \in DOMAIN g.ins |-> Undef]
        start == [w |-> w, fr |-> [g |-> g, args |-> args, env |-> blank, mem |-> blank], b |-> 0, k |-> 0]
    IN IF \E k \in DOMAIN args : args[k] = Undef THEN Stop(w, "bad") ELSE RunSteps(code, Enter(start, 1), EnoughSteps(g)).w
\* What main does with these arguments: how it ends, what it prints, what it returns, what is left
RunCode(code, args) == RunFn([fuel |-> Fuel] @@ World0, code, "main", args)

(***************************************************************************)
(* The tree: the meaning of the language.  An environment e maps names to  *)
(* types and values.                                                       *)
(***************************************************************************)
\* The unsigned functions by their definition on natural numbers
WordFn(w, f, a, n) ==
    LET x == Uns(a, "word")
        y == Uns(n, "word")
        turn(t) == LET s == n % Bits(t) IN ((Uns(a, t) * 2^s) % 2^Bits(t)) + (Uns(a, t) \div 2^(Bits(t) - s))
        is(r) == Give(w, Fit(r, "word"))
    IN CASE f = "ult" -> is(Flag(x < y))
         [] f = "udiv" -> IF y = 0 THEN Stop(w, "trap") ELSE is(x \div y)
         [] f = "umod" -> IF y = 0 THEN Stop(w, "trap") ELSE is(x % y)
         [] f = "ushr" -> IF n < 0 THEN Stop(w, "trap") ELSE is(IF n >= WordWidth THEN 0 ELSE x \div 2^n)
         [] f = "umul_hi" -> is((x * y) \div 2^WordWidth)
         [] f = "rotl" -> is(turn("word"))
         [] f = "rotl32" -> is(Fit(turn("int"), "int"))
         [] f = "uword_of_int" -> is(Uns(a, "int"))

\* A step that is taken only if the run still stands
Then(w, next(_)) == IF w.st = "run" THEN next(w) ELSE w
Fitted(w, t) == Give(w, AsType(w.v, t))

RECURSIVE EvalExpr(_, _, _, _), EvalArgs(_, _, _, _, _), EvalBlock(_, _, _, _)
\* The text of a value that is printed or joined to a string
AsText(w, t) == CASE t = "string" -> w
                  [] t = "bool" -> Make(w, "str", IF w.v = 0 THEN <<"f", "a", "l", "s", "e">> ELSE <<"t", "r", "u", "e">>)
                  [] OTHER -> Make(w, "str", TextOf(w.v))
EvalText(p, w, e, x) == Then(EvalExpr(p, w, e, x), LAMBDA r : AsText(r, x[2]))
\* Expressions from left to right, each made of its type; the values in w.v
EvalArgs(p, w, e, es, ts) ==
    FoldLeft(LAMBDA w1, i : Then(w1, LAMBDA w2 : Then(EvalExpr(p, Give(w2, 0), e, es[i]),
                                                      LAMBDA w3 : Give(w3, Append(w2.v, AsType(w3.v, ts[i]))))),
             Give(w, <<>>), [i \in DOMAIN es |-> i])
Result(p, r, f) == IF r.w.st # "run" \/ f.value[1] = "none" \/ r.sig = "ret" THEN r.w ELSE EvalExpr(p, r.w, r.env, f.value)
ResultOf(p, w, f, vals) ==
    LET env == [x \in {q[2] : q \in Range(f.params)} |-> <<f.params[ParamNo(f, x)][1], vals[ParamNo(f, x)]>>]
    IN Fitted(Result(p, EvalBlock(p, [w |-> Give(w, 0), sig |-> "go"], env, f.body), f), f.ret)
\* An operator on two values of one type
Computed(w, op, t, a, b) ==
    CASE op \in RelOps -> Give(w, Flag(IF t = "string" THEN (Cells(w, a) = Cells(w, b)) = (op = "==") ELSE Holds(op, a, b)))
      [] op \in {"/", "%"} -> Divide(w, op, t, a, b)
      [] op \in {"<<", ">>"} -> Fitted(Shift(w, IF op = "<<" THEN "shl" ELSE "sar", a, b), t)
      [] op \in {"|", "&", "^"} -> Give(w, Bitwise2(IrOp(op), t, a, b))
      [] OTHER -> Give(w, Fit(CASE op = "+" -> a + b [] op = "-" -> a - b [] op = "*" -> a * b, t))
OpType(x) == IF x[3] \in RelOps THEN (IF x[4][2] = "string" THEN "string" ELSE Wider(x[4][2], x[5][2])) ELSE x[2]
Truth(w) == Give(w, Flag(w.v # 0))
EvalBin(p, w, e, x) ==
    CASE x[3] \in {"&&", "||"} ->
           Then(EvalExpr(p, w, e, x[4]),
                LAMBDA l : Truth(IF (l.v # 0) = (x[3] = "||") THEN l ELSE EvalExpr(p, l, e, x[5])))
      [] x[3] = "+" /\ x[2] = "string" ->
           Then(EvalText(p, w, e, x[4]),
                LAMBDA l : Then(EvalText(p, l, e, x[5]), LAMBDA r : StrCall(r, "concat", <<l.v, r.v>>)))
      [] OTHER -> Then(EvalArgs(p, w, e, <<x[4], x[5]>>, <<OpType(x), OpType(x)>>),
                       LAMBDA r : Computed(r, x[3], OpType(x), r.v[1], r.v[2]))
\* The types a call's arguments are made of
ArgTypes(p, x) ==
    CASE IsStruct(x[3]) -> Fields[x[3]]
      [] x[3] \in DOMAIN p -> [i \in DOMAIN x[4] |-> p[x[3]].params[i][1]]
      [] x[3] \in WordFns -> [i \in DOMAIN x[4] |-> "word"]
      [] x[3] = "push" -> <<x[4][1][2], ElemType[x[4][1][2]]>>
      [] OTHER -> [i \in DOMAIN x[4] |-> x[4][i][2]]
Unsignedly(x, i, v) == IF x[3] \in Unsigned /\ x[4][i][2] = "int" THEN Uns(v, "int") ELSE v
CallWith(p, r, x) ==
    CASE IsStruct(x[3]) -> Make(r, "list", r.v)
      [] x[3] \in DOMAIN p -> ResultOf(p, r, p[x[3]], r.v)
      [] x[3] \in WordFns -> Fitted(WordFn(r, SysHelper(x), Unsignedly(x, 1, r.v[1]), IF Len(r.v) > 1 THEN Unsignedly(x, 2, r.v[2]) ELSE 0), x[2])
      [] x[3] = "print" -> LET shown(w) == StrCall(w, "print", <<w.v>>) IN shown(AsText(Give(r, r.v[1]), x[4][1][2]))
      [] x[3] = "len" -> Give(r, Len(Cells(r, r.v[1])))
      [] x[3] \in {"push", "pop"} -> Fitted(ListCall(r, IF x[3] = "push" THEN "list_push" ELSE "list_pop", r.v), x[2])
UnaryOf(w, op, t) == Give(w, CASE op = "!" -> Flag(w.v = 0) [] op = "-" -> Fit(0 - w.v, t) [] op = "~" -> Fit(0 - w.v - 1, t))
EvalExpr(p, w, e, x) ==
    CASE x[1] = "var" -> Give(w, e[x[3]][2])
      [] x[1] \in {"int", "fld"} -> Give(w, x[3])
      [] x[1] = "str" -> Give(w, LitAt(x[3]))
      [] x[1] = "none" -> w
      [] x[1] = "bin" -> EvalBin(p, w, e, x)
      [] x[1] = "un" -> Then(EvalExpr(p, w, e, x[4]), LAMBDA r : UnaryOf(r, x[3], x[2]))
      [] x[1] = "index" -> Then(EvalArgs(p, w, e, <<x[3], x[4]>>, <<x[3][2], "int">>),
                                LAMBDA r : Fitted(ListCall(r, "list_get", r.v), x[2]))
      [] x[1] = "arr" -> Then(EvalArgs(p, w, e, x[3], [i \in DOMAIN x[3] |-> ElemType[x[2]]]), LAMBDA r : Make(r, "list", r.v))
      [] x[1] = "call" -> Then(EvalArgs(p, w, e, x[4], ArgTypes(p, x)), LAMBDA r : CallWith(p, r, x))

RECURSIVE EvalLoop(_, _, _, _)
\* A statement gives [w, sig, env]; sig is "go", "break" or "ret"
Going(w) == [w |-> w, sig |-> "go"]
Looped(p, r, s) == IF r.w.st # "run" \/ r.sig = "ret" THEN r
                  ELSE IF r.sig = "break" THEN [r EXCEPT !.sig = "go"] ELSE EvalLoop(p, r.w, r.env, s)
Turned(p, c, e, s) == IF c.st # "run" \/ c.v = 0 THEN [w |-> c, sig |-> "go", env |-> e]
                      ELSE Looped(p, EvalBlock(p, Going(c), e, s[3]), s)
EvalLoop(p, w, e, s) == Turned(p, EvalExpr(p, w, e, s[2]), e, s)
Branched(p, c, r, s) == IF c.st # "run" THEN [r EXCEPT !.w = c] ELSE EvalBlock(p, Going(c), r.env, IF c.v # 0 THEN s[3] ELSE s[4])
Assigned(r, w, x, t) == [r EXCEPT !.w = w, !.env = (x :> <<t, AsType(w.v, t)>>) @@ @]
EvalStmt(p, r, s) ==
    CASE s[1] \in {"decl", "assign"} ->
           Assigned(r, EvalExpr(p, r.w, r.env, Stored(s)), Target(s), IF s[1] = "decl" THEN s[2] ELSE r.env[Target(s)][1])
      [] s[1] \in {"exprstmt", "ret"} -> [r EXCEPT !.w = EvalExpr(p, @, r.env, s[2]), !.sig = IF s[1] = "ret" THEN "ret" ELSE @]
      [] s[1] = "iassign" -> [r EXCEPT !.w = Then(EvalArgs(p, @, r.env, <<s[2], s[3], s[4]>>, <<s[2][2], "int", IndexType(s[2][2], s[3])>>),
                                                  LAMBDA w : ListCall(w, "list_set", w.v))]
      [] s[1] = "if" -> Branched(p, EvalExpr(p, r.w, r.env, s[2]), r, s)
      [] s[1] = "while" -> EvalLoop(p, r.w, r.env, s)
      [] s[1] = "break" -> [r EXCEPT !.sig = "break"]
EvalBlock(p, r0, e, b) ==
    FoldLeft(LAMBDA r, s : IF r.w.st # "run" \/ r.sig # "go" THEN r ELSE EvalStmt(p, r, s),
             [w |-> r0.w, sig |-> r0.sig, env |-> e], b)
RunTree(p, args) == ResultOf(p, World0, p["main"], args)
=============================================================================
