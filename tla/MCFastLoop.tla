----------------------------- MODULE MCFastLoop -----------------------------
(***************************************************************************)
(* The loops, and the values their variables and lists start with.  A     *)
(* loop is a condition and a body of an access and up to two other         *)
(* statements, in every order.                                             *)
(***************************************************************************)
EXTENDS FastLoop

Var(x) == <<"var", x>>
K(n) == <<"int", n>>
Plus(d, e) == <<"bin", "+", d, e>>
Times(d, e) == <<"bin", "*", d, e>>
Acc(e) == <<"acc", "a", e, FALSE, FALSE>>
Store(e) == <<"acc", "a", e, TRUE, FALSE>>
Byte(e) == <<"acc", "a", e, FALSE, TRUE>>

I == Var("i")
J == Var("j")
N == Var("n")
Below(x, lim) == <<"<", x, lim>>
OverN == <<Below("i", N)>>
OverLen == <<Below("i", <<"len", "a">>)>>
OverBoth == <<Below("i", N), Below("j", K(2))>>
Until == <<<<"!=", "i", N>>>>

StepI == <<"step", "i">>
StepJ == <<"step", "j">>

\* An access, and two statements around it
Orders(acc, s, t) == {<<acc, s, t>>, <<s, acc, t>>, <<s, t, acc>>}
Bodies(accs, ss, ts) == UNION {Orders(acc, s, t) : acc \in accs, s \in ss, t \in ts}
LoopsOf(conds, bodies) == [cond : conds, body : bodies, fnok : {TRUE}, harn : {FALSE}]

\* a[i] and a[i + k], and everything that can be done between
Others == {StepI, <<"set", "i", K(0)>>, <<"set", "n", K(3)>>, <<"break">>, <<"while">>,
           <<"call", "push">>, <<"call", "pop">>, <<"call", "leaf">>, <<"call", "deep">>, <<"call", "builtin">>,
           <<"if", <<StepI>>, <<>>>>, <<"if", <<<<"call", "pop">>>>, <<<<"break">>>>>>}
FirstLoops == LoopsOf({OverN, OverLen, Until}, Bodies({Acc(I), Store(I), Acc(Plus(I, K(1))), Byte(I)}, {StepI}, Others))
              \cup [cond : {OverN}, body : {<<Acc(I), StepI, <<"call", "leaf">>>>}, fnok : {FALSE}, harn : {FALSE}]

\* A sum of terms: counters, variables that stand still, a second counter, a local
DeclQ == <<"decl", "q", Plus(I, K(1))>>
Sums == {Plus(I, J), Plus(Times(I, N), J), Var("q"), Plus(Times(J, K(2)), K(1)), Plus(Times(I, J), Times(J, N)),
         Plus(<<"import", "n">>, I), Plus(Plus(I, J), K(127))}
SumLoops == LoopsOf({OverN, OverBoth, OverLen},
                    Bodies({Acc(e) : e \in Sums} \cup {Store(Plus(I, J)), Byte(Plus(I, J))}, {StepI},
                           {StepJ, DeclQ, <<"if", <<StepJ>>, <<StepJ>>>>, <<"if", <<StepJ>>, <<>>>>, <<"call", "leaf">>}))
            \cup [cond : {OverN}, body : {<<Acc(Plus(<<"import", "n">>, I)), StepI>>}, fnok : {TRUE}, harn : {TRUE}]
            \cup LoopsOf({OverN}, {<<<<"export", "q", Plus(I, K(1))>>, Acc(Var("q")), StepI>>})
            \cup LoopsOf({OverBoth}, {<<Acc(Plus(I, J)), <<"if", <<StepI>>, <<StepJ>>>>>>,
                                       <<Acc(Plus(Var("k"), I)), <<"if", <<StepI>>, <<StepJ>>>>, <<"step", "k">>>>})

MCEntries == [i : {0 - 1, 0, 1}, j : {0, 1}, n : {1, 3}, k : {0}, q : {0}, w : {0}, v : {0}, u : {0}]

\* Locals made of words, int q = w * v + i and int q = w + v, and a word of its own
W == Var("w")
WordDecl(x, e) == <<<<"decl", x, e>>, Acc(Var(x)), StepI>>
WordLoops == LoopsOf({OverN}, {WordDecl("q", Plus(Times(W, Var("v")), I)), WordDecl("q", Plus(W, Plus(Var("v"), I))),
                               WordDecl("u", Plus(W, I))})
WordEntries == [i : {0 - 1, 0}, j : {0}, n : {1, 2}, k : {0}, q : {0}, w : {0 - 1, 0, 1, 2, 65, 127}, v : {0, 1, 2, 15, 126}, u : {0}]
MCWordVars == {"w", "v", "u"}

MCCases == ((FirstLoops \cup SumLoops) \X MCEntries) \cup (WordLoops \X WordEntries)
MCLens == {0 - 1, 0, 2, 3}
=============================================================================
