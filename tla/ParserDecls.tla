---------------------------- MODULE ParserDecls -----------------------------
(***************************************************************************)
(* The parser above statements: functions, natives, assembly, structs and  *)
(* constants, and the test cases that follow a function.  A case is a line *)
(* of its own; a block "given SETUP {" ... "}" of case lines is rewritten  *)
(* in the token list, its setup copied in front of every line, before the  *)
(* cases are parsed (the gblk functions), so tokens carry their line.      *)
(***************************************************************************)
EXTENDS Parser, FiniteSetsExt

Void == <<"t", "void">>

(***************************************************************************)
(* Parameters and signatures                                               *)
(***************************************************************************)
\* pure_mark_param, borrow_mark, borrow_bad: pure goes with a function type,
\* borrows with a heap value a native is given
MarksOk(s, kind) ==
    LET type == Top(s)[2]
    IN Check(Check(s, ~Top(s)[4] \/ type[1] = "fn", "E0807"),
             ~Top(s)[5] \/ (kind = "nparam" /\ type \notin {<<"t", "int">>, <<"t", "float">>}), "E0808")

\* one_param
Mark(s, word) == SkipText(Push(s, Txt(s) = word), word)
ParamNode(s) == Build(s, 4, LAMBDA x : <<"param", x[3], x[4], x[1], x[2]>>)
OneParam(s, kind) == MarksOk(ParamNode(ReadName(ParseType(Mark(Mark(s, "pure"), "borrows")))), kind)

\* parse_params, scan_params, fill_params
RECURSIVE FillParams(_, _)
FillParams(s, kind) ==
    IF Txt(s) \in {")", "{"} \/ AtEnd(s) THEN s ELSE FillParams(SkipText(Into(OneParam(s, kind)), ","), kind)
ParseParams(s, kind) == CloseBracket(FillParams(Push(Advance(s), <<>>), kind), ")")

\* parse_segments, take_chain, chain_same, chain_add: a chain restates the
\* parameters' types and names, and its block is added behind a mark
RECURSIVE ChainLoop(_)
Restated(ps) == [i \in 1 .. Len(ps) |-> <<ps[i][2], ps[i][3]>>]
SameParams(s) == Pop(Check(s, Restated(Top(s)) = Restated(s.ns[Len(s.ns) - 2]), "chain"))
ChainAdd(s) == Build(s, 2, LAMBDA x : Append(x[1], <<"chain">>) \o x[2])
ChainLoop(s) ==
    IF Txt(s) # "chain" THEN s
    ELSE ChainLoop(ChainAdd(ParseBlock(SameParams(ParseParams(Advance(s), "param")))))
ParseSegments(s) == ChainLoop(ParseBlock(s))

\* void_close, paren_end: behind the bracket that closes the one at i
ParenEnd(s, i) ==
    LET depth[j \in Nat] == IF j < i THEN 0
                            ELSE depth[j - 1] + (CASE TokAt(s, j).t = "(" -> 1
                                                   [] TokAt(s, j).t = ")" -> 0 - 1
                                                   [] OTHER -> 0)
    IN Min({j \in i .. Len(s.toks) : depth[j] <= 0} \cup {Len(s.toks)}) + 1

\* void_tail, void_call, void_export: a void clause may name the one export
\* the function initialises, and takes no call
VoidCall(s) == Kind(s) = "ident" /\ PeekTxt(s, 1) = "(" /\ TokAt(s, ParenEnd(s, s.p + 1)).t = ";"
OneExport(s) == Check(s, Txt(s) # ",", "one export")
VoidExport(s) == IF Txt(s) = "export" THEN OneExport(Node(ReadName(Advance(s)), 1, "export")) ELSE Push(s, <<>>)
VoidTail(s) == VoidExport(Check(s, ~VoidCall(s), "void call"))

\* ret_expr, non_void_export
RetExpr(s) == IF Top(s) # Void THEN ParseExpr(s) ELSE VoidTail(s)
NonVoidExport(s) ==
    IF s.ns[Len(s.ns) - 1] # Void /\ Txt(s) = "export" THEN Advance(Advance(Err(s, "export"))) ELSE s
\* func_ret, func_done: the token that should be return is taken as it is
FuncRet(s) == Node(NonVoidExport(SkipText(RetExpr(ParseType(Advance(s))), ";")), 5, "func")

\* parse_func, func_sig
ParseFunc(s) == FuncRet(ParseSegments(ParseParams(ReadName(s), "param")))

\* parse_native, native_sig, native_ret, native_type, native_node
NativeRet(s) == ParseType(Eat(s, "return"))
ParseNative(s) ==
    SkipText(Expect(Node(NativeRet(ParseParams(Word(Advance(s)), "nparam")), 3, "native"), ";"), ";")

\* parse_fn, parse_fn_kind, pure_mark_fn
ParseFnKind(s) == IF Txt(s) = "native" THEN ParseNative(s) ELSE ParseFunc(s)
ParseFn(s) == Into(Push(ParseFnKind(SkipText(s, "pure")), Txt(s) = "pure"))

\* parse_asm, asm_lines, scan_asm, asm_tail: triple, name, parameters, lines,
\* return type and return name, none of the tokens between them checked
RECURSIVE FillAsm(_)
FillAsm(s) == IF Kind(s) = "str" THEN FillAsm(Into(Word(s))) ELSE s
AsmLines(s) == FillAsm(Push(Advance(s), <<>>))
AsmTail(s) == Word(ParseType(Advance(Advance(s))))
AsmNode(s) == Build(s, 6, LAMBDA x : <<"asm", x[2], x[1]>> \o SubSeq(x, 3, 6))
ParseAsm(s) == SkipText(AsmNode(AsmTail(AsmLines(ParseParams(Word(Word(Advance(s))), "param")))), ";")

\* parse_struct, sd_fields, sd_field
RECURSIVE Fields(_)
Fields(s) == IF Txt(s) = "}" \/ AtEnd(s) THEN s ELSE Fields(Eat(Into(Tuple(ReadName(ParseType(s)), 2)), ";"))
ParseStruct(s) == Eat(Node(Fields(Push(Eat(ReadName(Advance(s)), "{"), <<>>)), 2, "struct"), "}")

\* take_const, fold_const, const_find: a constant set to another is set to
\* that one's value, unless that is a list
FoldConst(prog, d) ==
    LET same == {i \in 1 .. Len(prog) : prog[i][1] = "const" /\ d[4] = <<"import", prog[i][3]>>
                                         /\ prog[i][2][1] # "list"}
    IN IF same = {} THEN d ELSE [d EXCEPT ![4] = prog[Max(same)][4], ![5] = TRUE]
ConstNode(s, prog) == Build(s, 1, LAMBDA x : <<"const">> \o Tail(FoldConst(prog, x[1])))
TakeConst(s, prog) == ConstNode(ParseDecl(Advance(s)), prog)

(***************************************************************************)
(* Given blocks                                                            *)
(***************************************************************************)
\* gblk_line_end: the first token of the next line
LineEnd(s, i) == Min({j \in i + 1 .. Len(s.toks) + 1 : TokAt(s, j).ln # TokAt(s, i).ln})
Is(s, i, k, t) == TokAt(s, i).k = k /\ TokAt(s, i).t = t

\* gblk_is_open, gblk_ends_brace
IsOpen(s, i) ==
    /\ i + 2 <= Len(s.toks) /\ Is(s, i, "kw", "given")
    /\ LineEnd(s, i) - i > 2 /\ Is(s, LineEnd(s, i) - 1, "op", "{")

\* gblk_lone, gblk_caseish
Lone(s, i) == Is(s, i, "op", "}") /\ LineEnd(s, i) = i + 1
Caseish(s, i) == \/ Is(s, i, "op", "(") \/ Lone(s, i)
                 \/ \E w \in {"given", "stdin", "timeout"} : Is(s, i, "kw", w)

\* gblk_starts: where the lines from i to before k begin
RECURSIVE Starts(_, _, _)
Starts(s, i, k) == IF i >= k THEN <<>> ELSE <<i>> \o Starts(s, LineEnd(s, i), k)

\* gblk_close: the line } that ends the case lines from i on, or 0
Close(s, i) ==
    LET ls == Starts(s, i, Len(s.toks) + 1)
        ends == {k \in 1 .. Len(ls) : Lone(s, ls[k]) /\ \A j \in 1 .. k : Caseish(s, ls[j])}
    IN IF ends = {} THEN 0 ELSE ls[Min(ends)]

\* gblk_cut
Cut(s, lo, hi) == [s EXCEPT !.toks = SubSeq(@, 1, lo - 1) \o SubSeq(@, hi, Len(@))]

\* gblk_unclosed, gblk_empty, gblk_inner, gblk_block_end
BlockEnd(s, k) == IF Close(s, k + 1) = 0 THEN k + 1 ELSE Close(s, k + 1) + 1
BlockFault(s, e, k) ==
    CASE k = 0 -> Cut(Err(s, "E0522"), s.p, e)
      [] k = e -> Cut(Err(s, "E0521"), s.p, k + 1)
      [] OTHER -> Cut(Err(s, "E0520"), s.p, BlockEnd(s, k))

\* gblk_apply, gblk_ins_all, gblk_ins: from the last line to the first the
\* setup is copied in front, then the opening line goes
RECURSIVE InsAll(_, _, _)
\* Mutant: from the first line to the last, which moves the lines behind
MutInsAll(toks, prefix, starts) ==
    IF starts = <<>> THEN toks
    ELSE LET i == starts[1] IN InsAll(SubSeq(toks, 1, i - 1) \o prefix \o SubSeq(toks, i, Len(toks)), prefix, Tail(starts))
InsAll(toks, prefix, starts) ==
    IF starts = <<>> THEN toks
    ELSE LET i == starts[Len(starts)]
             copy == [j \in 1 .. Len(prefix) |-> [prefix[j] EXCEPT !.ln = toks[i].ln]]
         IN InsAll(SubSeq(toks, 1, i - 1) \o copy \o SubSeq(toks, i, Len(toks)),
                   prefix, SubSeq(starts, 1, Len(starts) - 1))
ApplyBlock(s, e, k) ==
    LET prefix == SubSeq(s.toks, s.p, e - 2)
        opened == Cut(s, k, k + 1)
    IN Cut([opened EXCEPT !.toks = InsAll(@, prefix, Starts(s, e, k))], s.p, e)

\* gblk_nested, gblk_fault, gblk_try
HasNested(s, e, k) == k > 0 /\ \E i \in Range(Starts(s, e, k)) : IsOpen(s, i)
GblkTry(s, e, k) ==
    IF k = 0 \/ k = e \/ HasNested(s, e, k) THEN Push(BlockFault(s, e, k), TRUE)
    ELSE Push(ApplyBlock(s, e, k), FALSE)
GblkClose(s, e) == GblkTry(s, e, Close(s, e))
\* gblk_open: leaves on ns whether the block is refused
GblkOpen(s) == IF IsOpen(s, s.p) THEN GblkClose(s, LineEnd(s, s.p)) ELSE Push(s, FALSE)

(***************************************************************************)
(* Cases                                                                   *)
(***************************************************************************)
EatColon(s) == SkipText(Expect(s, ":"), ":")

\* is_lit, leaf_lit, neg_lit
IsLit(e) == \/ e[1] \in {"int", "float", "str", "bool"}
            \/ e[1] = "un" /\ e[2] = "-" /\ e[3][1] \in {"int", "float", "bool"}
CheckLit(s) == Check(s, IsLit(Top(s)), "E0506")

\* case_import, import_rest
CaseImport(s) == Eat(Node(ReadName(Advance(Advance(s))), 1, "cimport"), ")")
AtCaseImport(s) == Txt(s) = "(" /\ PeekTxt(s, 1) = "import"

RECURSIVE CaseItem(_), CaseList(_), FillTuple(_), SkipIndex(_)

\* skip_index
SkipIndex(s) == IF Txt(s) = "]" \/ AtEnd(s) THEN SkipText(s, "]") ELSE SkipIndex(Advance(s))

\* index_take, import_index: only an argument of a then check may be one
\* element of an export
ImportIndex(s) ==
    CASE Txt(s) # "[" -> s
      [] Txt(s) = "[" /\ s.ixargs -> Eat(Into(CaseItem(Advance(s))), "]")
      [] OTHER -> SkipIndex(Err(s, "indexed export"))

\* case_tuple, scan_tuple, fill_tuple
CaseTuple(s) == IF Txt(s) = "(" THEN FillTuple(Push(Advance(s), <<>>)) ELSE Push(Expect(s, "("), <<>>)
FillTuple(s) ==
    IF Txt(s) \in {")", ":"} \/ AtEnd(s) THEN CloseBracket(s, ")")
    ELSE FillTuple(SkipText(Into(CaseItem(s)), ","))

\* case_list
CaseList(s) ==
    IF Txt(s) = "]" \/ AtEnd(s) THEN Node(Eat(s, "]"), 1, "arr")
    ELSE CaseList(SkipText(Into(CaseItem(s)), ","))
\* case_value, case_fn, case_scalar, case_ctor, check_lit
CaseValue(s) ==
    CASE IdentThen(s, {",", ")"}) -> Node(ReadName(s), 1, "cfn")
      [] Txt(s) = "[" -> CaseList(Push(Advance(s), <<>>))
      [] IdentThen(s, {"("}) -> Node(CaseTuple(Word(s)), 2, "cctor")
      [] OTHER -> CheckLit(ParseExpr(s))
\* case_item
CaseItem(s) == IF AtCaseImport(s) THEN ImportIndex(CaseImport(s)) ELSE CaseValue(s)

\* case_fn_name
CaseFnName(s) == IF Kind(s) = "ident" THEN ReadName(s) ELSE Push(Err(s, "function name"), "")

\* given_call, given_has_args: a bracket behind the setup is its arguments
\* unless a colon follows it
GivenHasArgs(s) ==
    LET e == ParenEnd(s, s.p) IN Txt(s) = "(" /\ e <= Len(s.toks) /\ TokAt(s, e).t # ":"
GivenCall(s) == IF GivenHasArgs(s) THEN CaseTuple(s) ELSE Push(s, <<>>)
\* case_given (its setups), given_name
RECURSIVE Givens(_)
Givens(s) == IF Txt(s) # "given" THEN s ELSE Givens(Into(Tuple(GivenCall(CaseFnName(Advance(s))), 2)))

\* case_given (stdin): one string literal
StdinText(s) ==
    CASE Txt(s) # "stdin" -> Push(s, <<>>)
      [] Txt(s) = "stdin" /\ PeekKind(s) = "str" -> Tuple(Word(Advance(s)), 1)
      [] OTHER -> Push(Err(Advance(s), "E0509"), <<>>)
OneStdin(s) == Check(s, Txt(s) # "stdin", "E0510")
CaseStdin(s) == OneStdin(StdinText(s))

\* case_given (timeout): a positive number of seconds, last before the tuple
TimeoutLast(s, good) ==
    Check(Check(Check(s, Txt(s) # "timeout", "E0510"), Txt(s) \notin {"given", "stdin"}, "E0512"),
          ~good \/ Kind(s) = "kw" \/ Txt(s) = "(", "E0513")
Seconds(s) ==
    IF Kind(s) = "int" /\ Txt(s) # "0" THEN TimeoutLast(Word(s), TRUE)
    ELSE TimeoutLast(Push(Err(s, "E0511"), "0"), FALSE)
CaseTimeout(s) == IF Txt(s) = "timeout" THEN Seconds(Advance(s)) ELSE Push(s, "0")

\* then_imp_item, then_imp_clause: an export, a field or an element of it, or
\* its length
RECURSIVE ImpPath(_)
ImpPath(s) == IF Txt(s) # "." THEN s ELSE ImpPath(Into(ReadName(Advance(s))))
ImpIndex(s) == IF Txt(s) = "[" THEN Expect(Tuple(CaseItem(Advance(s)), 1), "]") ELSE Push(s, <<>>)
ImpEnd(s) == IF Top(s) # <<>> THEN SkipText(s, "]") ELSE s
ImpItem(s) == ImpIndex(ImpPath(Push(CaseImport(s), <<>>)))
ImpCheck(s, kind) == Node(CaseTuple(EatColon(ImpEnd(s))), 4, kind)
ThenImp(s) ==
    IF Txt(s) = "len" THEN ImpCheck(Eat(ImpItem(Advance(Advance(s))), ")"), "thenlen")
    ELSE ImpCheck(ImpItem(s), "thenimp")

\* then_calls_clause, then_calls_count, then_calls_args
CallsWant(s) ==
    IF Txt(s) = "[" THEN Node(Eat(CaseValue(Advance(s)), "]"), 2, "thencallsn")
    ELSE Node(CaseTuple(s), 2, "thencalls")
ThenCalls(s) == CallsWant(EatColon(CaseFnName(Advance(s))))

\* then_value, then_args, then_push
ThenArgs(s) == IF Txt(s) = "(" THEN CaseTuple([s EXCEPT !.ixargs = TRUE]) ELSE Push(s, <<>>)
NoIndex(s) == [s EXCEPT !.ixargs = FALSE]
ThenValue(s) == Node(CaseTuple(EatColon(NoIndex(ThenArgs(CaseFnName(s))))), 3, "then")

\* then_dispatch, then_print_clause, then_traps_clause, then_check_clause
ThenItems(s) == Node(CaseTuple(EatColon(Advance(s))), 1, Txt(s))
OneTrap(s, thens) == Check(s, \A i \in 1 .. Len(thens) : thens[i][1] # "traps", "two traps")
ThenClause(s) ==
    CASE Txt(s) \in {"prints", "eprints"} -> ThenItems(s)
      [] Txt(s) = "traps" -> OneTrap(ThenItems(s), Top(s))
      [] Txt(s) = "calls" -> ThenCalls(s)
      [] AtCaseImport(s) \/ Txt(s) = "len" -> ThenImp(s)
      [] OTHER -> ThenValue(s)
RECURSIVE Thens(_)
Thens(s) == IF Txt(s) # "then" THEN s ELSE Thens(Into(ThenClause(Advance(s))))

\* big_o, bound_parts, bound_check
Bounds == {<<"1">>, <<"log", "n">>, <<"n">>, <<"n", "log", "n">>, <<"n", "^", "2">>}
BoundEnd(s) == Min({j \in s.p .. Len(s.toks) + 1 : TokAt(s, j).t = ")" \/ j > Len(s.toks)})
BoundParts(s, o, e) ==
    LET parts == [j \in 1 .. e - s.p - 1 |-> TokAt(s, s.p + j).t]
    IN Push(Check(Eat([s EXCEPT !.p = e], ")"), o = "O" /\ parts \in Bounds, "E0507"), parts)
BigO(s, o) == IF Txt(s) = "(" THEN BoundParts(s, o, BoundEnd(s)) ELSE Push(Expect(s, "("), <<>>)
\* cons_list, cons_one, cons_kind
ConsKind(s) == Word(Check(s, Kind(s) = "ident" /\ Txt(s) \in {"time", "mem"}, "E0508"))
ConsBound(s) == BigO(Advance(s), Txt(s))
ConsOne(s) == Tuple(ConsBound(EatColon(ConsKind(s))), 2)
RECURSIVE ConsList(_)
ConsRest(s) == IF Txt(s) = "," THEN ConsList(Advance(s)) ELSE Expect(s, "]")
ConsList(s) == ConsRest(Into(ConsOne(s)))

\* parse_case, parse_case_args, parse_case_rhs, case_tail, case_rest
CaseSetup(s) == CaseTimeout(CaseStdin(Givens(Push(s, <<>>))))
CaseWant(s) == CaseTuple(EatColon(CaseTuple(s)))
CaseTail(s) == IF Txt(s) = "[" THEN Advance(ConsList(Push(Advance(s), <<>>))) ELSE Push(s, <<>>)
ParseCase(s) == Node(CaseTail(Thens(Push(CaseWant(CaseSetup(s)), <<>>))), 7, "case")

\* take_cases, push_case
RECURSIVE TakeCases(_)
AtCase(s) == Is(s, s.p, "op", "(") \/ \E w \in {"given", "stdin", "timeout"} : Is(s, s.p, "kw", w)
CaseUnlessRefused(s) == IF Top(s) THEN Pop(s) ELSE Into(ParseCase(Pop(s)))
TakeCases(s) == IF AtCase(s) THEN TakeCases(CaseUnlessRefused(GblkOpen(s))) ELSE s

(***************************************************************************)
(* The program                                                             *)
(***************************************************************************)
\* parse_top, parse_decl_top: an operator that begins a declaration is
\* reported, and read as the name of a function
NoOperator(s) == Check(s, Kind(s) # "op", "E0102")

\* push_func, take_cases: a function and the cases behind it
FuncAndCases(s) == Into(TakeCases(Push(ParseFn(s), <<>>)))
=============================================================================
