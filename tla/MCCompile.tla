------------------------------ MODULE MCCompile ------------------------------
(***************************************************************************)
(* The programs, as the parser leaves them, without types: for strings,    *)
(* lists, lists of lists, lists of strings and structs, each caller with   *)
(* each callee; the arithmetic; and programs the checks refuse.            *)
(***************************************************************************)
EXTENDS Compile

MCElemType == ("int[]" :> "int") @@ ("string[]" :> "string") @@ ("int[][]" :> "int[]")
MCFields == "S" :> <<"string", "int[]">>
MCBuiltins == {"print", "len", "push", "pop"} \cup WordFns
MCTexts == {<<"f", "a", "l", "s", "e", "t", "r", "u", "e">>, <<"a">>, <<"b">>, <<>>}
MCInputs == {<<0>>, <<1>>, <<3>>}

K(k) == <<"int", "?", k>>
T(c) == <<"str", "?", <<c>>>>
A == T("a")
B == T("b")
V(x) == <<"var", "?", x>>
N == V("n")
X == V("x")
Y == V("y")
Q == V("q")
Bin(op, d, e) == <<"bin", "?", op, d, e>>
Cat(d, e) == Bin("+", d, e)
Un(op, e) == <<"un", "?", op, e>>
Do(f, args) == <<"call", "?", f, args>>
At(l, i) == <<"index", "?", l, i>>
Field(s, k) == At(s, <<"fld", "int", k>>)
List(els) == <<"arr", "?", els>>
Decl(t, x, e) == <<"decl", t, x, e>>
Set(x, e) == <<"assign", x, e>>
SetAt(l, i, e) == <<"iassign", l, i, e>>
Stmt(e) == <<"exprstmt", e>>
Say(e) == Stmt(Do("print", <<e>>))
LenOf(l) == Do("len", <<l>>)
SayLen(l) == Say(LenOf(l))
Put(l, v) == Stmt(Do("push", <<l, v>>))
Ret(e) == <<"ret", e>>
Break == <<"break">>
OnN(k) == Bin("==", N, K(k))
When(c, s, t) == <<"if", c, s, t>>
Loop(c, s) == <<"while", c, s>>
Fn(params, ret, body, value) == [params |-> params, ret |-> ret, body |-> body, value |-> value, native |-> FALSE, borrows |-> {}]
Main(body) == Fn(<<<<"int", "n">>>>, "int", body, N)
NMinus == Bin("-", N, K(1))
More == Bin(">", N, K(0))
I == V("i")
J == V("j")
StepI == Set("i", Bin("+", I, K(1)))
Both(caller, name, callee) == ("main" :> Main(caller)) @@ (name :> callee)

(***************************************************************************)
(* Strings: string f(string x, int n)                                      *)
(***************************************************************************)
StrFn(body, value) == Fn(<<<<"string", "x">>, <<"int", "n">>>>, "string", body, value)
F(x, n) == Do("f", <<x, n>>)
StrCallees ==
    {StrFn(<<Decl("string", "y", Cat(X, B))>>, Y),
     StrFn(<<>>, X),
     StrFn(<<Decl("string", "y", A), When(OnN(1), <<Set("y", Cat(X, Y))>>, <<>>)>>, Y),
     StrFn(<<Decl("string", "y", Cat(A, N)), When(OnN(1), <<Set("y", X)>>, <<>>)>>, Y),
     StrFn(<<When(OnN(1), <<Ret(X)>>, <<>>), Decl("string", "y", Cat(X, B))>>, Y),
     StrFn(<<Decl("string", "y", Cat(X, B)), When(OnN(0), <<Ret(A)>>, <<>>), Say(Y)>>, A),
     StrFn(<<Decl("string", "y", Cat(A, X)), When(More, <<Set("y", F(Y, NMinus))>>, <<>>)>>, Y),
     StrFn(<<Decl("string", "y", X), When(More, <<Set("y", F(Cat(X, A), NMinus))>>, <<>>)>>, Y)}
NativeStr == [StrFn(<<>>, X) EXCEPT !.native = TRUE]
Grow == Set("x", Cat(X, B))
StrCallers ==
    {<<Decl("string", "x", F(A, N)), Say(X)>>,
     <<Decl("string", "x", Cat(A, N)), Decl("string", "y", F(X, N)), Say(Y), Say(X)>>,
     <<Decl("string", "x", Cat(A, N)), Set("x", F(X, N)), Say(X)>>,
     <<Decl("string", "x", F(A, N)), Set("x", Cat(X, F(X, N))), Say(X)>>,
     <<Decl("string", "x", F(A, K(1))), Decl("string", "y", X), Set("x", Cat(B, N)), Say(Y)>>,
     <<Say(F(Cat(A, N), N)), Decl("string", "y", F(F(A, N), N)), Say(Y)>>,
     <<Stmt(F(Cat(A, B), N)), Say(Cat(F(A, N), F(B, N)))>>,
     <<Decl("string", "x", A), Decl("int", "i", K(0)),
       Loop(Bin("&&", Bin("<", I, K(3)), Bin("!=", LenOf(X), K(4))),
            <<Grow, When(Bin("==", I, N), <<Set("x", F(X, N)), Break>>, <<>>), StepI>>),
       Say(X)>>,
     <<Decl("string", "x", Cat(F(A, N), B)), When(Bin("==", X, F(X, N)), <<Ret(K(6))>>, <<Grow, Say(X)>>), Say(X)>>}
StringPrograms == {Both(m, "f", f) : m \in StrCallers, f \in StrCallees \cup {NativeStr}}

(***************************************************************************)
(* Lists: int[] g(int[] l), and lists of lists: void p(int[][] r, int[] l) *)
(***************************************************************************)
L == V("l")
M == V("m")
R == V("r")
GFn(body, value) == Fn(<<<<"int[]", "l">>>>, "int[]", body, value)
G(e) == Do("g", <<e>>)
ListCallees ==
    {GFn(<<Put(L, K(1))>>, L),
     GFn(<<Decl("int[]", "m", List(<<At(L, K(0))>>))>>, M),
     GFn(<<Decl("int[]", "m", L), Put(M, K(2))>>, M),
     GFn(<<Decl("int[]", "m", List(<<>>)), When(Bin(">", LenOf(L), K(1)), <<Ret(L)>>, <<>>), Put(M, K(5))>>, M),
     GFn(<<Decl("int[]", "m", List(<<K(4)>>)), When(Bin("<", LenOf(L), K(3)), <<Put(L, K(0)), Set("m", G(L))>>, <<>>)>>, M)}
ListCallers ==
    {<<Decl("int[]", "l", List(<<N>>)), Decl("int[]", "m", G(L)), SayLen(M), Say(At(L, K(0)))>>,
     <<Decl("int[]", "l", G(List(<<N>>))), Set("l", G(L)), SayLen(L)>>,
     <<Decl("int[]", "l", List(<<N>>)), Decl("int", "i", K(0)), Loop(Bin("<", I, N), <<Put(L, K(2)), Set("l", G(L)), StepI>>), SayLen(L)>>,
     <<Stmt(G(List(<<N>>))), Decl("int", "i", LenOf(G(List(<<K(1)>>)))), Decl("int[]", "l", G(G(List(<<I>>)))), SayLen(L), Say(At(G(List(<<N>>)), K(0)))>>,
     <<Decl("int[]", "l", List(<<N>>)), Decl("int[][]", "r", List(<<>>)), Put(R, G(L)), Say(At(At(R, K(0)), K(0))), SayLen(L)>>}
PFn(body) == Fn(<<<<"int[][]", "r">>, <<"int[]", "l">>>>, "void", body, None)
P(r, l) == Stmt(Do("p", <<r, l>>))
RowCallees == {PFn(<<Put(R, L)>>), PFn(<<Put(L, K(1)), Put(R, L)>>), PFn(<<Put(R, List(<<K(6)>>))>>), PFn(<<SayLen(L)>>),
               PFn(<<SetAt(R, K(0), L)>>), PFn(<<When(Bin("==", LenOf(L), K(1)), <<Ret(None)>>, <<>>), Put(R, L)>>)}
NativeRow == [PFn(<<SayLen(L)>>) EXCEPT !.native = TRUE, !.borrows = {1, 2}]
Rows == Decl("int[][]", "r", List(<<List(<<K(3)>>)>>))
FirstOf(r) == Say(At(At(r, K(0)), K(0)))
RowCallers ==
    {<<Rows, Decl("int[]", "l", List(<<N>>)), P(R, L), FirstOf(R), SayLen(R)>>,
     <<Rows, Decl("int[]", "l", List(<<N>>)), P(R, L), FirstOf(R), Say(At(L, K(0)))>>,
     <<Rows, Decl("int[]", "l", List(<<N>>)), P(R, L), P(R, L), SayLen(R)>>,
     <<Rows, P(R, List(<<N>>)), SetAt(R, K(0), List(<<K(5)>>)), FirstOf(R)>>,
     <<Rows, Decl("int[]", "l", List(<<N>>)), Decl("int[]", "m", At(R, K(0))), P(R, L), SetAt(R, K(0), L), Say(At(M, K(0)))>>,
     <<Rows, Decl("int[]", "l", List(<<N>>)), Put(R, L), P(R, List(<<K(2)>>)), Decl("int[]", "m", Do("pop", <<R>>)), SayLen(M), FirstOf(R)>>}
ListPrograms == {Both(m, "g", f) : m \in ListCallers, f \in ListCallees} \cup {Both(m, "p", f) : m \in RowCallers, f \in RowCallees \cup {NativeRow}}

(***************************************************************************)
(* Lists of strings and structs: string[] h(string[] s, string x)          *)
(***************************************************************************)
Sv == V("s")
HFn(body, value) == Fn(<<<<"string[]", "s">>, <<"string", "x">>>>, "string[]", body, value)
H(s, x) == Do("h", <<s, x>>)
StrsCallees == {HFn(<<Put(Sv, X)>>, Sv), HFn(<<Put(Sv, Cat(X, A))>>, Sv), HFn(<<Decl("string[]", "q", List(<<Cat(X, A)>>))>>, Q),
                HFn(<<Decl("string[]", "q", List(<<X>>))>>, Q), HFn(<<SetAt(Sv, K(0), Cat(X, B))>>, Sv)}
StrsCallers ==
    {<<Decl("string[]", "s", List(<<Cat(A, N)>>)), Decl("string", "x", Cat(B, N)), Stmt(H(Sv, X)), Say(At(Sv, K(0)))>>,
     <<Decl("string[]", "s", H(List(<<Cat(A, N)>>), B)), Decl("string", "y", At(Sv, K(0))), SetAt(Sv, K(0), Cat(B, N)), Say(Y)>>,
     <<Decl("string[]", "s", H(List(<<Cat(A, N)>>), Cat(A, B))), SetAt(Sv, K(0), Cat(B, N)), Say(At(Sv, K(0)))>>,
     <<Decl("string[]", "s", List(<<Cat(A, N)>>)), Decl("string", "x", Cat(B, N)), Put(Sv, X), Decl("int", "i", LenOf(H(Sv, A))), Say(I), Say(X)>>,
     <<Decl("string[]", "s", List(<<>>)), Decl("string", "x", Cat(B, N)), Put(Sv, X), Say(At(Sv, K(0)))>>,
     <<Decl("string[]", "s", List(<<Cat(A, N)>>)), Decl("string", "x", Do("pop", <<Sv>>)), Say(X), Stmt(H(Sv, X)), SayLen(Sv)>>}
Mk(x, l) == Do("S", <<x, l>>)
SFn(body, value) == Fn(<<<<"S", "s">>, <<"string", "x">>>>, "S", body, value)
St(s, x) == Do("t", <<s, x>>)
Name(s) == Field(s, 0)
Nums(s) == Field(s, 1)
StructCallees == {SFn(<<Decl("S", "q", Mk(Cat(X, A), List(<<K(1)>>)))>>, Q), SFn(<<>>, Sv),
                  SFn(<<Decl("S", "q", Mk(X, Nums(Sv)))>>, Q), SFn(<<Put(Nums(Sv), K(2)), Decl("S", "q", Mk(A, List(<<K(1)>>)))>>, Q),
                  SFn(<<Decl("int[]", "l", List(<<K(2)>>)), Decl("S", "q", Mk(Cat(Name(Sv), A), L))>>, Q),
                  SFn(<<Decl("S", "q", Mk(X, List(<<K(1)>>))), SetAt(Sv, <<"fld", "int", 0>>, Cat(X, B))>>, Q)}
StructCallers ==
    {<<Decl("S", "s", Mk(Cat(A, N), List(<<N>>))), Decl("S", "q", St(Sv, B)), Say(Name(Q)), Say(Name(Sv))>>,
     <<Decl("string", "x", Cat(A, N)), Decl("int[]", "l", List(<<N>>)), Decl("S", "s", Mk(X, L)), Set("s", St(Sv, X)), Say(Name(Sv)), SayLen(Nums(Sv))>>,
     <<Decl("S", "s", Mk(B, List(<<N>>))), Decl("int[]", "l", Nums(Sv)), Set("s", St(Sv, Cat(B, N))), SayLen(L)>>,
     <<Decl("S", "s", Mk(B, List(<<N>>))), Decl("S", "q", St(St(Sv, A), Cat(A, N))), Say(Name(Q)), Stmt(St(Sv, B)), Say(Name(Sv))>>,
     <<Decl("int[]", "l", List(<<N>>)), Decl("S", "s", Mk(Cat(A, N), L)), Say(At(Nums(Sv), K(0)))>>}
HeldPrograms == {Both(m, "h", f) : m \in StrsCallers, f \in StrsCallees} \cup {Both(m, "t", f) : m \in StructCallers, f \in StructCallees}

(***************************************************************************)
(* Cycles of calls, and control flow with dead ends                        *)
(***************************************************************************)
Hop(name, x) == Do(name, <<x, NMinus>>)
CycleFns(last) ==
    ("a" :> StrFn(<<Decl("string", "y", Cat(X, A)), When(More, <<Set("y", Hop("b", Y))>>, <<>>)>>, Y))
    @@ ("b" :> StrFn(<<Decl("string", "y", Cat(A, N)), When(More, <<Set("y", Hop("c", X))>>, <<>>)>>, Y))
    @@ ("c" :> last)
CyclePrograms ==
    {("main" :> Main(<<Decl("string", "x", Cat(A, B)), Decl("string", "y", Do("a", <<X, N>>)), Say(Y), Say(X)>>)) @@ CycleFns(last) :
        last \in {StrFn(<<Decl("string", "y", X), When(More, <<Set("y", Hop("a", X))>>, <<>>)>>, Y),
                  StrFn(<<Decl("string", "y", Cat(X, B)), When(More, <<Set("y", Hop("b", Hop("a", X)))>>, <<>>)>>, Y)}}
\* More parameters than a summary has bits for
WidePrograms == {Both(<<Decl("string", "x", Cat(A, N)), Decl("string", "y", Do("u", <<X, N, K(1)>>)), Say(Y), Say(X)>>, "u",
                      Fn(<<<<"string", "x">>, <<"int", "n">>, <<"int", "k">>>>, "string", <<Decl("string", "y", e)>>, Y)) : e \in {Cat(X, B), X}}
FlowPrograms ==
    {"main" :> Main(b) : b \in
        {<<Decl("int", "i", K(0)), Loop(Bin("<", I, N), <<StepI, When(Bin("==", I, K(2)), <<Break, StepI>>, <<>>)>>), Say(I)>>,
         <<Decl("int", "i", N), Loop(K(1), <<When(Bin(">", I, K(5)), <<Ret(I), Say(I)>>, <<StepI>>)>>)>>,
         <<Decl("int", "i", K(0)), Loop(Bin("||", Bin("<", I, N), Un("!", I)),
            <<Decl("int", "j", K(0)), Loop(Bin("<", J, I), <<Set("j", Bin("+", J, K(1))), When(OnN(3), <<Break>>, <<>>)>>), StepI, Say(J)>>)>>,
         <<Decl("bool", "t", Bin("<", N, K(2))), Decl("string", "x", Cat(A, V("t"))), Say(X), Say(V("t")), When(V("t"), <<Ret(K(4))>>, <<>>)>>}}

(***************************************************************************)
(* Arithmetic: int and word, signed and unsigned, at the edges             *)
(***************************************************************************)
Word == V("w")
Least == V("k")
Edges == <<Decl("word", "w", Bin("-", K(1), Bin("*", N, K(3)))), Decl("int", "k", Un("-", K(8))), Decl("word", "v", Bin("-", Un("-", K(127)), K(1)))>>
Ops == {Bin(op, d, e) : op \in {"+", "*", "/", "%", "<<", ">>", "^"}, d \in {N, Word, Least, V("v")}, e \in {Word, Un("-", K(1)), K(13)}}
       \cup {Bin(op, d, e) : op \in {"<", ">="}, d \in {N, Word}, e \in {Un("-", K(1)), K(13)}}
       \cup {Do(f, <<d, e>>) : f \in WordFns \ {"uword_of_int"}, d \in {N, Word, Least}, e \in {N, Un("-", K(1)), V("v")}}
       \cup {Do("umul_hi", <<Word, V("v")>>), Do("uword_of_int", <<N>>), Do("uword_of_int", <<Least>>)}
       \cup {Un(op, d) : op \in {"-", "~", "!"}, d \in {N, Word, Least, Bin("<", N, K(2))}}
NumPrograms == {"main" :> Main(Edges \o <<Decl("word", "r", e), Say(R), Decl("int", "i", e), Say(Cat(A, I))>>) : e \in Ops}

(***************************************************************************)
(* Functions nothing reaches, and names that collide in the table          *)
(***************************************************************************)
Calls(name) == <<Stmt(Do(name, <<A, N>>))>>
UnusedPrograms ==
    {("main" :> Main(Calls("a"))) @@ ("a" :> StrFn(Calls("b"), X)) @@ ("b" :> StrFn(<<Decl("string", "y", Cat(X, A))>>, Y))
        @@ ("c" :> StrFn(Calls("b"), X)) @@ ("f" :> last) : last \in {StrFn(Calls("c"), X), StrFn(Calls("f"), X)}}
NameSeq == <<"main", "conf.id", "a", "b", "c", "f", "g", "h", "p", "t", "u", "S", "x", "y", "n", "i", "j", "k", "l", "m", "q", "r", "s", "v", "w",
             "print", "len", "push", "pop", "ult", "uword_of_int", "rotl", "umul_hi", "ushr", "udiv", "umod">>
\* Some keys collide at any size, some only while there are eight slots
MCHash == [name \in Range(NameSeq) |-> 7 + (8 * (SelectInSeq(NameSeq, LAMBDA x : x = name) % 3))]

(***************************************************************************)
(* Programs that are wrong, one way each                                   *)
(***************************************************************************)
IntoString == <<Decl("string", "x", N)>>
IntoList == <<Decl("int[]", "l", List(<<A>>))>>
WrongBodies ==
    {IntoString, IntoList,
     <<Decl("int", "i", K(8))>>, <<Decl("int", "i", List(<<>>))>>, <<Decl("word", "w", N), Stmt(F(A, Word))>>,
     <<Stmt(F(N, A))>>, <<Stmt(F(A, A))>>, <<Stmt(Do("f", <<A>>))>>, <<Say(F(F(A, N), N))>>,
     <<Decl("int[]", "l", List(<<N>>)), Put(L, A)>>, <<Decl("int[]", "l", List(<<N>>)), SetAt(L, K(0), A)>>,
     <<Decl("int[]", "l", List(<<N>>)), Say(L)>>, <<Decl("int[]", "l", List(<<N>>)), Say(At(L, A))>>, <<Say(At(A, K(0)))>>,
     <<Decl("bool", "t", Bin("<", A, B))>>, <<Decl("int", "i", Bin("&", A, N))>>, <<Decl("int", "i", Un("-", A))>>,
     <<Decl("S", "s", Mk(A, A))>>, <<Decl("S", "s", Mk(A, List(<<N>>))), Say(Field(Sv, 2))>>, <<Decl("S", "s", Mk(A, List(<<N>>))), Say(Sv)>>,
     <<Say(Name(Mk(A, List(<<N>>))))>>, <<When(Do("print", <<A>>), <<>>, <<>>)>>, <<Ret(A)>>, <<Ret(Bin("+", N, K(1)))>>, <<Ret(None)>>}
WrongPrograms == {Both(m, "f", StrFn(<<>>, X)) : m \in WrongBodies} \cup {Both(<<>>, "f", StrFn(<<>>, v)) : v \in {N, None, Cat(X, A)}}
\* Arithmetic on strings and lists, which no check refuses
OddBodies ==
    {<<Decl("int", "i", Bin(op, d, e)), Say(N)>> : op \in {"-", "*", "/", "%"}, d \in {A, Cat(A, N), N}, e \in {A, K(2)}}
    \cup {<<Decl("int[]", "l", List(<<N>>)), Decl("int", "i", Bin(op, L, e)), Say(At(L, K(0)))>> : op \in {"+", "*"}, e \in {L, K(2)}}
    \cup {<<Decl("word", "w", N), Decl("int", "i", Bin("*", A, Word)), When(Bin("*", A, K(2)), <<Say(A)>>, <<>>)>>}
OddPrograms == {"main" :> Main(b) : b \in OddBodies}

MCPrograms == UnusedPrograms \cup StringPrograms \cup ListPrograms \cup HeldPrograms \cup CyclePrograms \cup WidePrograms \cup FlowPrograms
              \cup NumPrograms \cup WrongPrograms \cup OddPrograms
=============================================================================
