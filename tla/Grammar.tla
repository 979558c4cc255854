------------------------------ MODULE Grammar -------------------------------
(***************************************************************************)
(* The language's grammar read the other way: the tokens of a tree, with a *)
(* bracket only where the precedence ladder of compiler/parse/README.md    *)
(* asks for one.  What the parser is checked against; it models no code.   *)
(***************************************************************************)
EXTENDS Integers, Sequences, SequencesExt

Keywords == {"int", "word", "void", "export", "if", "else", "while", "for", "break", "blank", "return",
             "import", "true", "given", "then", "prints", "traps", "stdin", "timeout", "calls", "chain",
             "pure", "struct", "native", "asm", "string", "float", "func", "bytes", "sender", "receiver",
             "bool", "false", "borrows", "eprints"}
Names == {"a", "b", "f", "g", "i", "s", "p", "len", "time", "O", "n"}
Numbers == {"0", "1", "2", "7"}
KindOf(t) == CASE t \in Keywords -> "kw" [] t \in Names -> "ident" [] t \in Numbers -> "int"
               [] t \in {"hi", "mov"} -> "str" [] t = "const" -> "const" [] t = "file" -> "file" [] OTHER -> "op"
OnLine(ln, ts) == [i \in 1 .. Len(ts) |-> [k |-> KindOf(ts[i]), t |-> ts[i], ln |-> ln]]

\* From the loosest level to the tightest
LevelOf(op) ==
    CASE op = "||" -> 1 [] op = "&&" -> 2 [] op \in {"==", "!=", "<", ">", "<=", ">="} -> 3
      [] op = "|" -> 4 [] op = "^" -> 5 [] op = "&" -> 6 [] op \in {"<<", ">>"} -> 7
      [] op \in {"+", "-"} -> 8 [] OTHER -> 9
Unary == 10
Postfix == 11

Join(parts, sep) ==
    FoldLeft(LAMBDA acc, x : IF acc = <<>> THEN x ELSE acc \o sep \o x, <<>>, parts)

RECURSIVE PrintExpr(_, _)
\* The tokens of e where an expression of at least this level may stand
PrintExpr(e, level) ==
    LET in(own, ts) == IF own < level THEN <<"(">> \o ts \o <<")">> ELSE ts
        list(es) == Join([i \in 1 .. Len(es) |-> PrintExpr(es[i], 1)], <<",">>)
    IN CASE e[1] = "bin" -> in(LevelOf(e[2]), PrintExpr(e[3], LevelOf(e[2])) \o <<e[2]>>
                                              \o PrintExpr(e[4], LevelOf(e[2]) + 1))
         [] e[1] = "un" -> in(Unary, <<e[2]>> \o PrintExpr(e[3], Unary))
         [] e[1] = "index" /\ e[3][1] = "fld" -> PrintExpr(e[2], Postfix) \o <<".", e[3][2]>>
         [] e[1] = "index" /\ e[3][1] # "fld" -> PrintExpr(e[2], Postfix) \o <<"[">> \o PrintExpr(e[3], 1) \o <<"]">>
         [] e[1] = "call" -> <<e[2], "(">> \o list(e[3]) \o <<")">>
         [] e[1] = "arr" -> <<"[">> \o list(e[2]) \o <<"]">>
         [] e[1] = "import" -> in(Postfix, <<"import", e[2]>>)
         [] OTHER -> <<e[2]>>

RECURSIVE PrintType(_)
PrintType(t) ==
    CASE t[1] = "list" -> PrintType(t[2]) \o <<"[", "]">>
      [] t[1] = "end" -> <<t[2], "(">> \o PrintType(t[3]) \o <<")">>
      [] t[1] = "fn" -> <<"func", "(">> \o Join([i \in 1 .. Len(t[2]) |-> PrintType(t[2][i])], <<",">>)
                        \o <<")", "return">> \o PrintType(t[3])
      [] OTHER -> <<t[2]>>

RECURSIVE PrintStmt(_), PrintBlock(_)
PrintBlock(b) == <<"{">> \o FlattenSeq([i \in 1 .. Len(b) |-> PrintStmt(b[i])]) \o <<"}">>
PrintStmt(x) ==
    LET ex(e) == PrintExpr(e, 1)
    IN CASE x[1] = "decl" -> (IF x[5] THEN <<"export">> ELSE <<>>) \o PrintType(x[2]) \o <<x[3], "=">> \o ex(x[4]) \o <<";">>
         [] x[1] = "assign" -> <<x[2], "=">> \o ex(x[3]) \o <<";">>
         [] x[1] = "iassign" -> PrintExpr(x[2], Postfix) \o <<"=">> \o ex(x[3]) \o <<";">>
         [] x[1] = "exprstmt" -> ex(x[2]) \o <<";">>
         [] x[1] = "if" -> <<"if", "(">> \o ex(x[2]) \o <<")">> \o PrintBlock(x[3])
                           \o (CASE x[4] = <<>> -> <<>>
                                 [] Len(x[4]) = 1 /\ x[4][1][1] = "if" -> <<"else">> \o PrintStmt(x[4][1])
                                 [] OTHER -> <<"else">> \o PrintBlock(x[4]))
         [] x[1] = "while" -> <<"while", "(">> \o ex(x[2]) \o <<")">> \o PrintBlock(x[3])
         [] x[1] = "for" -> <<"for", "(">> \o PrintStmt(x[2]) \o ex(x[3]) \o <<";", x[4][2], "=">>
                            \o ex(x[4][3]) \o <<")">> \o PrintBlock(x[5])
         [] x[1] = "ret" /\ Len(x) = 2 -> <<"return">> \o ex(x[2]) \o <<";">>
         [] x[1] = "ret" /\ Len(x) = 1 -> <<"return", ";">>
         [] OTHER -> <<x[1], ";">>

\* What a for loop abbreviates: its first statement, and a while whose body
\* ends in the step
RECURSIVE Meant(_)
Meant(b) ==
    FlattenSeq([i \in 1 .. Len(b) |->
        LET x == b[i]
        IN CASE x[1] = "for" -> <<x[2], <<"while", x[3], Append(Meant(x[5]), x[4])>>>>
             [] x[1] = "while" -> <<<<"while", x[2], Meant(x[3])>>>>
             [] x[1] = "if" -> <<<<"if", x[2], Meant(x[3]), Meant(x[4])>>>>
             [] OTHER -> <<x>>])

PrintFunc(name, params, body, rt, e) ==
    <<name, "(">> \o Join([i \in 1 .. Len(params) |-> PrintType(params[i][2]) \o <<params[i][3]>>], <<",">>)
    \o <<")">> \o PrintBlock(body) \o <<"return">> \o PrintType(rt) \o PrintExpr(e, 1) \o <<";">>

\* A case: its setups, what it is given and what it wants
PrintItems(es) == <<"(">> \o Join([i \in 1 .. Len(es) |-> PrintExpr(es[i], 1)], <<",">>) \o <<")">>
PrintGiven(g) == <<"given", g[1]>> \o (IF g[2] = <<>> THEN <<>> ELSE PrintItems(g[2]))
PrintCase(c) ==
    FlattenSeq([i \in 1 .. Len(c[2]) |-> PrintGiven(c[2][i])])
    \o (IF c[3] = <<>> THEN <<>> ELSE <<"stdin", c[3][1]>>)
    \o (IF c[4] = "0" THEN <<>> ELSE <<"timeout", c[4]>>)
    \o PrintItems(c[5]) \o <<":">> \o PrintItems(c[6])
    \o FlattenSeq([i \in 1 .. Len(c[7]) |->
          LET t == c[7][i]
          IN <<"then">> \o (CASE t[1] = "then" -> <<t[2]>> \o (IF t[3] = <<>> THEN <<>> ELSE PrintItems(t[3]))
                                                  \o <<":">> \o PrintItems(t[4])
                              [] OTHER -> <<t[1], ":">> \o PrintItems(t[2]))])
=============================================================================
