------------------------------ MODULE MCParser ------------------------------
(***************************************************************************)
(* Small sources for the parser: trees printed by the grammar, given       *)
(* blocks, and bodies put together from pieces that need not fit.          *)
(***************************************************************************)
EXTENDS ParseRun, Grammar

Num(t) == <<"int", t>>
Var(t) == <<"var", t>>
Ty == <<"t", "int">>

\* One operator of every level, two of the one that divides
Ops == {"||", "&&", "<=", "|", "^", "&", "<<", "-", "/", "%"}
Atoms == {Var("a"), Num("1"), <<"bool", "true">>, <<"import", "b">>, <<"str", "hi">>, <<"call", "f", <<Var("a"), Num("1")>>>>,
          <<"index", Var("a"), Num("0")>>, <<"index", Var("a"), <<"fld", "b">>>>, <<"arr", <<Num("1"), Var("b")>>>>,
          <<"un", "-", Var("a")>>, <<"un", "!", <<"index", <<"un", "-", Var("b")>>, Num("0")>>>>}
Two(x, y) == {<<"bin", o, x, y>> : o \in Ops}
Deep == UNION {Two(e, Var("b")) \cup Two(Var("b"), e) : e \in Two(Var("a"), Num("1"))}
Exprs == Atoms \cup Deep \cup UNION {Two(Var("a"), e) : e \in Atoms}
         \cup {<<"un", "-", e>> : e \in Two(Var("a"), Num("1"))}
         \cup {<<"index", e, Num("0")>> : e \in Two(Var("a"), Num("1"))}

Types == {Ty, <<"list", Ty>>, <<"list", <<"list", <<"t", "p">>>>>>, <<"end", "sender", Ty>>,
          <<"fn", <<Ty, <<"list", Ty>>>>, <<"t", "void">>>>}
Leaves == {<<"break">>, <<"blank">>, <<"ret">>, <<"ret", Var("a")>>, <<"assign", "a", Num("1")>>, <<"exprstmt", <<"call", "f", <<>>>>>>,
           <<"iassign", <<"index", Var("a"), Var("i")>>, Num("7")>>,
           <<"iassign", <<"index", <<"index", Var("a"), <<"fld", "b">>>>, Num("0")>>, Num("7")>>}
          \cup {<<"decl", t, "a", Num("1"), x>> : t \in Types, x \in BOOLEAN}
Step == <<"assign", "i", <<"bin", "+", Var("i"), Num("1")>>>>
For(b) == <<"for", <<"decl", Ty, "i", Num("0"), FALSE>>, <<"bin", "<", Var("i"), Num("7")>>, Step, b>>
Around(x, y) == {<<"if", Var("a"), <<x>>, <<y>>>>, <<"if", Var("a"), <<x, y>>, <<>>>>,
                 <<"while", Var("a"), <<x, y>>>>, For(<<x, y>>)}
Some == {<<"break">>, <<"assign", "a", Num("1")>>, <<"iassign", <<"index", Var("a"), Var("i")>>, Num("7")>>}
Nested == UNION {Around(x, y) : x \in Some, y \in Some}
\* In a loop, so that a break is allowed
Bodies == {<<<<"while", Var("a"), <<x>>>>>> : x \in Leaves \cup Nested \cup UNION {Around(x, <<"break">>) : x \in Nested}}

Func(body, e, cases) == <<"func", "f", <<<<"param", Ty, "a", FALSE, FALSE>>>>, body, Ty, e, FALSE, cases>>
Text(body, e) == PrintFunc("f", <<<<"param", Ty, "a", FALSE, FALSE>>>>, body, Ty, e)
Source(ts, tree, block) == [toks |-> ts, tree |-> tree, block |-> block]

FromExpr(e) == LET b == <<<<"assign", "a", e>>>> IN Source(OnLine(1, Text(b, Var("a"))), <<Func(b, Var("a"), <<>>)>>, FALSE)
FromBody(b) == Source(OnLine(1, Text(b, Var("a"))), <<Func(Meant(b), Var("a"), <<>>)>>, FALSE)

\* Case lines, in a block with a setup in front, behind one line and before
\* another function
Case(gs, input, secs, args, want, thens) == <<"case", gs, input, secs, args, want, thens, <<>>>>
Setups == {<<"s", <<>>>>, <<"s", <<Num("1")>>>>}
Thens3 == {<<>>, <<<<"then", "g", <<Num("1")>>, <<Num("2")>>>>>>, <<<<"prints", <<<<"str", "hi">>>>>>, <<"then", "g", <<>>, <<>>>>>>}
Lines == {Case(gs, input, secs, <<Num("1")>>, want, t) :
             gs \in {<<>>, <<<<"g", <<>>>>>>}, input \in {<<>>, <<"hi">>}, secs \in {"0", "2"},
             want \in {<<>>, <<Num("2")>>}, t \in Thens3}
FewLines == {Case(gs, <<>>, secs, <<Num("1")>>, <<>>, <<>>) : gs \in {<<>>, <<<<"g", <<>>>>>>}, secs \in {"0", "2"}}
With(g, c) == [c EXCEPT ![2] = <<g>> \o @]
Block(first, g, lines, last) ==
    LET head == OnLine(1, Text(<<>>, Var("a"))) \o OnLine(2, PrintCase(first)) \o OnLine(3, PrintGiven(g) \o <<"{">>)
        body == FlattenSeq([i \in 1 .. Len(lines) |-> OnLine(3 + i, PrintCase(lines[i]))])
        foot == OnLine(9, <<"}">>) \o OnLine(10, PrintCase(last)) \o OnLine(11, Text(<<>>, Var("b")))
        inner == [i \in 1 .. Len(lines) |-> With(g, lines[i])]
    IN Source(head \o body \o foot,
              <<Func(<<>>, Var("a"), <<first>> \o inner \o <<last>>), Func(<<>>, Var("b"), <<>>)>>, TRUE)
Plain == Case(<<>>, <<>>, "0", <<Num("7")>>, <<Num("7")>>, <<>>)
Blocks == {Block(Plain, g, <<c, d>>, Plain) : g \in Setups, c \in Lines, d \in FewLines}
          \cup {Block(c, g, <<d>>, c) : g \in Setups, c \in FewLines, d \in FewLines}

\* Bodies of pieces
Pieces == {<<"while", "(", "a", ")", "{">>, <<"for", "(", "a", "=", "1", ";", "a", ";", "a", "=", "1", ")", "{">>,
           <<"if", "(", "a", ")", "{">>, <<"}">>, <<"break", ";">>, <<"else", "{">>}
Soup(n) == {FlattenSeq(x) : x \in [1 .. n -> Pieces]}
Raw(ts) == Source(OnLine(1, <<"f", "(", ")", "{">> \o ts \o <<"}", "return", "void", ";">>), NoTree, FALSE)

\* Blocks whose lines need not be cases: a stray token, a brace at the end, a
\* block inside, no closing line
BlockLines == {<<"(", ")", ":", "(", ")">>, <<"(", ")", ":", "(", ")", "a">>, <<"(", ")", ":", "(", ")", "{">>,
               <<"given", "s", "{">>, <<"(">>}
Faulty(g, lines, closing) ==
    Source(OnLine(1, <<"f", "(", ")", "{", "}", "return", "void", ";">>) \o OnLine(2, <<"given">> \o g \o <<"{">>)
           \o FlattenSeq([i \in 1 .. Len(lines) |-> OnLine(2 + i, lines[i])]) \o OnLine(8, closing), NoTree, FALSE)
Stray == <<"(", ")", ":", "(", ")", "a">>
FaultyBlocks ==
    {Faulty(g, lines, closing) : g \in {<<"g">>, <<"g", "(", "1", ",", "2", ",", "7", ")">>},
                                 lines \in UNION {[1 .. n -> BlockLines] : n \in 1 .. 3}, closing \in {<<>>, <<"}">>}}
    \cup {Faulty(<<"g", "(", "1", ",", "2", ",", "7", ")">>, <<Stray>> \o [i \in 1 .. 3 |-> <<"(", ")", ":", "(", ")">>], <<"}">>)}

\* Stores and steps with every operator where the = belongs
StoreOps == {"=", "!=", "==", "+", "<", ","}
Stored == {Raw(<<"a", "[", "0", "]", o, "7", ";">>) : o \in StoreOps}
          \cup {Raw(<<"for", "(", "int", "i", "=", "0", ";", "i", "<", "2", ";", "i", o, "1", ")", "{", "}">>) : o \in StoreOps}

Others == {Source(OnLine(1, <<"file", "const", "int", "n", "=", "1", ";", "struct", "p", "{", "int", "a", ";", "}",
                              "asm", "hi", "g", "(", "int", "a", ")", "{", "mov", "}", "return", "int", "a", ";",
                              "native", "g", "(", "int", "b", ")", "return", "int", ";"
                              >>),
                  <<<<"file", "file">>, <<"const", Ty, "n", Num("1"), FALSE>>, <<"struct", "p", <<<<Ty, "a">>>>>>,
                    <<"asm", "g", "hi", <<<<"param", Ty, "a", FALSE, FALSE>>>>, <<"mov">>, Ty, "a">>,
                    <<"native", "g", <<<<"param", Ty, "b", FALSE, FALSE>>>>, Ty, FALSE, <<>>>>>>, FALSE)}

MCSources == {FromExpr(e) : e \in Exprs} \cup {FromBody(b) : b \in Bodies} \cup Blocks \cup FaultyBlocks \cup Others
             \cup {Raw(ts) : ts \in UNION {Soup(n) : n \in 1 .. 4}}
MCStores == MCSources \cup Stored
=============================================================================
