------------------------------- MODULE Parser -------------------------------
(***************************************************************************)
(* The parser's cursor, expressions and statements: recursive descent over *)
(* the tokens the lexer printed.  A parse operator takes the parser's      *)
(* state and gives the state behind what it read, with the node it built   *)
(* on top of ns.  A syntax error is noted and parsing goes on: the program *)
(* is refused at the end (synfail).  A node is a tuple whose first element *)
(* is its kind; the columns that record where a node came from are left    *)
(* out, as is the wording of the errors (E marks that one was reported).   *)
(***************************************************************************)
EXTENDS Integers, Sequences, SequencesExt

\* toks: [k, t, ln]; p: the cursor; loopd: the loops around it; ixargs: an
\* index may follow an import in a case; errs: the errors reported so far;
\* ns: the nodes, names and lists that are not yet part of another node
Start(toks) == [toks |-> toks, p |-> 1, loopd |-> 0, ixargs |-> FALSE, errs |-> {}, ns |-> <<>>]

Push(s, n) == [s EXCEPT !.ns = Append(@, n)]
Pop(s) == [s EXCEPT !.ns = Front(@)]
Top(s) == Last(s.ns)
\* The top k of ns become one
Build(s, k, of(_)) ==
    [s EXCEPT !.ns = Append(SubSeq(@, 1, Len(@) - k), of(SubSeq(@, Len(@) - k + 1, Len(@))))]
Tuple(s, k) == Build(s, k, LAMBDA x : x)
Node(s, k, kind) == Build(s, k, LAMBDA x : <<kind>> \o x)
Into(s) == Build(s, 2, LAMBDA x : Append(x[1], x[2]))

(***************************************************************************)
(* The cursor                                                              *)
(***************************************************************************)
TokAt(s, i) == IF i \in 1 .. Len(s.toks) THEN s.toks[i] ELSE [k |-> "eof", t |-> "", ln |-> 0]
Kind(s) == TokAt(s, s.p).k
Txt(s) == TokAt(s, s.p).t
PeekKind(s) == TokAt(s, s.p + 1).k
PeekTxt(s, n) == TokAt(s, s.p + n).t
AtEnd(s) == Kind(s) = "eof"
Advance(s) == [s EXCEPT !.p = @ + 1]

Err(s, code) == [s EXCEPT !.errs = @ \cup {code}]
Check(s, ok, code) == IF ok THEN s ELSE Err(s, code)
Expect(s, want) == Check(s, Txt(s) = want, "E0101")
Eat(s, want) == Advance(Expect(s, want))
SkipText(s, t) == IF Txt(s) = t THEN Advance(s) ELSE s
CloseBracket(s, close) == IF Txt(s) = close THEN Advance(s) ELSE Err(s, "E0105")
IdentThen(s, nexts) == Kind(s) = "ident" /\ PeekTxt(s, 1) \in nexts

\* The token's text, whatever it is
Word(s) == Advance(Push(s, Txt(s)))
\* read_name, no_case_word, ..., no_keyword_word: any word that is a keyword
\* is reported, and taken
NoKeyword(s) == Check(s, Kind(s) # "kw", "E0312")
ReadName(s) == Word(NoKeyword(s))

(***************************************************************************)
(* Expressions                                                             *)
(***************************************************************************)
\* The binary operators from the loosest level to the tightest.
Ladder == << {"||"}, {"&&"}, {"==", "!=", "<", ">", "<=", ">=", "="}, {"|"}, {"^"}, {"&"},
             {"<<", ">>"}, {"+", "-"}, {"*", "/", "%"} >>
Unops == {"-", "!", "~"}

RECURSIVE ParseLevel(_, _), FoldLevel(_, _), ParseUnary(_), ParsePostfix(_), FoldPost(_), FillList(_, _)

ParseExpr(s) == ParseLevel(1, s)

\* parse_expr, parse_and, ..., parse_mul: the operators of a level associate
\* to the left, and their operands are of the next level
ParseLevel(level, s) ==
    IF level > Len(Ladder) THEN ParseUnary(s) ELSE FoldLevel(level, ParseLevel(level + 1, s))

\* rel_op: a bare = compares, and is reported
ReadOp(s) == Advance(Push(Check(s, Txt(s) # "=", "E0313"), IF Txt(s) = "=" THEN "==" ELSE Txt(s)))
BinNode(s) == Build(s, 3, LAMBDA x : <<"bin", x[2], x[1], x[3]>>)
\* Mutant: the right operand is read at the operator's own level
MutFoldLevel(level, s) ==
    IF Txt(s) \notin Ladder[level] THEN s ELSE FoldLevel(level, BinNode(ParseLevel(level, ReadOp(s))))
FoldLevel(level, s) ==
    IF Txt(s) \notin Ladder[level] THEN s ELSE FoldLevel(level, BinNode(ParseLevel(level + 1, ReadOp(s))))

\* parse_unary, unary_or_postfix, fold_unary
ParseUnary(s) == IF Txt(s) \in Unops THEN Node(ParseUnary(Word(s)), 2, "un") ELSE ParsePostfix(s)

\* fill_list: the comma between two items may be missing, and a semicolon
\* ends the list too
FillList(s, close) ==
    IF Txt(s) \in {close, ";"} \/ AtEnd(s) THEN s
    ELSE FillList(SkipText(Into(ParseExpr(s)), ","), close)

\* scan_list, parse_call, parse_arr
ScanList(s, close) == CloseBracket(FillList(Push(Advance(s), <<>>), close), close)

\* parse_ident_or_call, finish_atom: a name, or a call if ( follows
FinishAtom(s) == IF Txt(s) = "(" THEN Node(ScanList(s, ")"), 2, "call") ELSE Node(s, 1, "var")
IdentOrCall(s) == FinishAtom(ReadName(Check(s, Kind(s) # "op", "E0102")))

\* parse_atom ... parse_atom3
ParseImport(s) == Node(ReadName(Advance(s)), 1, "import")
ParseAtom(s) ==
    CASE Kind(s) \in {"int", "str", "float"} -> Node(Word(s), 1, Kind(s))
      [] Kind(s) = "kw" /\ Txt(s) \in {"true", "false"} -> Node(Word(s), 1, "bool")
      [] Kind(s) = "kw" /\ Txt(s) = "import" -> ParseImport(s)
      [] OTHER -> IdentOrCall(s)

\* parse_paren
ParseParen(s) == CloseBracket(ParseExpr(Advance(s)), ")")

\* parse_primary, pp2
ParsePrimary(s) ==
    CASE Txt(s) = "(" -> ParseParen(s)
      [] Txt(s) = "[" -> Node(ScanList(s, "]"), 1, "arr")
      [] OTHER -> ParseAtom(s)

\* parse_postfix, fold_post, fold_index, fold_field
ParsePostfix(s) == FoldPost(ParsePrimary(s))
FoldPost(s) ==
    CASE Txt(s) = "[" -> FoldPost(Node(CloseBracket(ParseExpr(Advance(s)), "]"), 2, "index"))
      [] Txt(s) = "." -> FoldPost(Node(Node(ReadName(Advance(s)), 1, "fld"), 2, "index"))
      [] OTHER -> s

(***************************************************************************)
(* Types: the text of one token, a list [] of a type, a channel end or a   *)
(* function type                                                           *)
(***************************************************************************)
RECURSIVE ParseType(_), AddBrackets(_), FnTypeParams(_)

\* add_brackets: the token behind [ is taken for ]
AddBrackets(s) == IF Txt(s) = "[" THEN AddBrackets(Node(Advance(Advance(s)), 1, "list")) ELSE s

\* end_msg_ok: a channel carries no word, function or void
EndMsgOk(s) == Check(s, Top(s) \notin {<<"t", "word">>, <<"t", "void">>} /\ Top(s)[1] # "fn", "E0809")
\* parse_end_type
ParseEndType(s) == Node(Eat(EndMsgOk(ParseType(Eat(Word(s), "("))), ")"), 2, "end")

\* no_param_name
NoParamName(s) == IF Kind(s) = "ident" THEN Advance(Err(s, "name in type")) ELSE s
\* fn_type_params, fn_type_param
FnTypeParams(s) ==
    IF Txt(s) = ")" \/ AtEnd(s) THEN Advance(s)
    ELSE FnTypeParams(SkipText(NoParamName(Into(ParseType(s))), ","))

\* no_void_list, no_fn_ret
NoVoidList(s, word) == Check(s, word # "void" \/ Top(s) = <<"t", "void">>, "list of void")
FnTypeRet(s) == NoVoidList(ParseType(Check(s, Txt(s) # "func", "returns a function")), Txt(s))
\* parse_fn_type
ParseFnType(s) == Node(FnTypeRet(Eat(FnTypeParams(Push(Eat(s, "("), <<>>)), "return")), 2, "fn")

\* parse_type, type_tail, end_or_brackets
ParseType(s) ==
    CASE Txt(s) = "func" -> ParseFnType(Advance(s))
      [] Txt(s) \in {"sender", "receiver"} -> ParseEndType(s)
      [] OTHER -> AddBrackets(Node(Word(s), 1, "t"))

(***************************************************************************)
(* Statements                                                              *)
(***************************************************************************)
Typewords == {"int", "float", "string", "void", "word", "export", "func", "bytes", "sender",
              "receiver", "bool"}

\* is_decl_start, is_named_type_start
IsDeclStart(s) ==
    \/ Txt(s) \in Typewords
    \/ Kind(s) = "ident" /\ (PeekKind(s) = "ident" \/ (PeekTxt(s, 1) = "[" /\ PeekTxt(s, 2) = "]"))

\* A statement's node, and the semicolon behind it that may be missing
Stmt(s, k, kind) == SkipText(Node(s, k, kind), ";")

\* parse_decl, take_export, finish_decl, decl_rhs
DeclName(s) == ReadName(ParseType(SkipText(s, "export")))
ParseDecl(s) == Stmt(Push(ParseExpr(Eat(DeclName(s), "=")), Txt(s) = "export"), 4, "decl")

\* parse_assign, assign_rhs
ParseAssign(s) == Stmt(ParseExpr(Advance(Word(s))), 2, "assign")

\* parse_iassign, node_iassign: the token behind the target is taken for =
ParseIassign(s) == Stmt(ParseExpr(Advance(ParsePostfix(s))), 2, "iassign")

\* parse_exprstmt
ParseExprStmt(s) == Stmt(ParseExpr(s), 1, "exprstmt")

\* parse_blank: break needs a loop around it
ParseBlank(s) == Stmt(Advance(Check(s, Txt(s) # "break" \/ s.loopd > 0, "E0109")), 0, Txt(s))

\* parse_ret
ParseRet(s) ==
    IF PeekTxt(s, 1) = ";" THEN Stmt(Advance(s), 0, "ret") ELSE Stmt(ParseExpr(Advance(s)), 1, "ret")

\* parse_stmt3, parse_blank_or, parse_ret_or, parse_stmt4, parse_stmt5: the
\* statements that hold no block
ParseSimple(s) ==
    CASE IsDeclStart(s) -> ParseDecl(s)
      [] ~IsDeclStart(s) /\ Txt(s) \in {"blank", "break"} -> ParseBlank(s)
      [] Txt(s) = "return" -> ParseRet(s)
      [] ~IsDeclStart(s) /\ IdentThen(s, {"="}) -> ParseAssign(s)
      [] ~IsDeclStart(s) /\ IdentThen(s, {"[", "."}) -> ParseIassign(s)
      [] OTHER -> ParseExprStmt(s)

RECURSIVE ParseBlock(_), FillBlock(_), ParseStmts(_), ParseIf(_)

InLoop(s) == [s EXCEPT !.loopd = @ + 1]
OutOfLoop(s) == [s EXCEPT !.loopd = @ - 1]

\* parse_block, scan_block: the opening brace is expected, the closing one is
\* taken, whatever stands there
ParseBlock(s) == Advance(FillBlock(Push(Eat(s, "{"), <<>>)))
FillBlock(s) == IF Txt(s) = "}" \/ AtEnd(s) THEN s ELSE FillBlock(ParseStmts(s))

\* parse_else, else_body: an else if is an if of its own
ElseBody(s) == IF Txt(s) = "if" THEN Tuple(ParseIf(s), 1) ELSE ParseBlock(s)
ParseElse(s) == IF Txt(s) = "else" THEN ElseBody(Advance(s)) ELSE Push(s, <<>>)
\* parse_if, if_body
ParseIf(s) == Node(ParseElse(ParseBlock(ParseParen(Advance(s)))), 3, "if")

\* parse_while
ParseWhile(s) == Node(OutOfLoop(ParseBlock(InLoop(ParseParen(Advance(s))))), 2, "while")

\* parse_for_step: two tokens are taken for the name and its =
ParseForStep(s) == SkipText(Node(ParseExpr(Advance(Word(s))), 2, "assign"), ")")

\* parse_for, parse_for_init, parse_for_loop: the while it abbreviates, with
\* its first statement in front and its step last in the body
ForInit(s) == SkipText(ParseExpr(Into(ParseSimple(SkipText(Advance(s), "(")))), ";")
ForNode(s) == Build(s, 3, LAMBDA x : <<"while", x[1], Append(x[3], x[2])>>)
ParseFor(s) == ForNode(OutOfLoop(ParseBlock(InLoop(ParseForStep(ForInit(s))))))

\* parse_stmt, parse_stmt2
ParseStmt(s) ==
    CASE Txt(s) = "for" -> ParseFor(s)
      [] Txt(s) = "if" -> ParseIf(s)
      [] Txt(s) = "while" -> ParseWhile(s)
      [] OTHER -> ParseSimple(s)
\* fill_stmt: the statement goes into the block that is on top
ParseStmts(s) == Into(ParseStmt(s))
=============================================================================
