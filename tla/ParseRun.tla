------------------------------ MODULE ParseRun ------------------------------
(***************************************************************************)
(* The parser at work: it takes one declaration after the other from the   *)
(* tokens until none is left.  A source is a list of tokens and, where it  *)
(* was printed from a tree, that tree.                                     *)
(***************************************************************************)
EXTENDS ParserDecls

CONSTANTS Sources, NoTree
VARIABLES source, st, prog

vars == <<source, st, prog>>

Init ==
    /\ source \in Sources
    /\ st = Start(source.toks)
    /\ prog = <<>>

\* parse_program: what one round of its loop takes, to the state s
Take(here, s) ==
    /\ ~AtEnd(st) /\ here
    /\ st' = Pop(s)
    /\ prog' = Append(prog, Top(s))
    /\ UNCHANGED source

Marked == Kind(st) \in {"file", "const"}
\* Mutant: the marker is read and not passed
MutTakeFile == Take(Kind(st) = "file", Push(st, <<"file", Txt(st)>>))
TakeFile == Take(Kind(st) = "file", Node(Word(st), 1, "file"))
TakeConstant == Take(Kind(st) = "const", TakeConst(st, prog))
TakeStruct == Take(~Marked /\ Txt(st) = "struct", ParseStruct(NoOperator(st)))
TakeAsm == Take(~Marked /\ Txt(st) = "asm", ParseAsm(NoOperator(st)))
TakeFunction == Take(~Marked /\ Txt(st) \notin {"struct", "asm"}, FuncAndCases(NoOperator(st)))

Next == TakeFile \/ TakeConstant \/ TakeStruct \/ TakeAsm \/ TakeFunction
Spec == Init /\ [][Next]_vars

-----------------------------------------------------------------------------
Parsed == AtEnd(st)
Accepted == Parsed /\ st.errs = {}

\* Printing a tree with the brackets the ladder asks for and no more, and
\* parsing it, gives the tree back: no level of parse_expr ... parse_mul has
\* the wrong operand, side or operator, no else, index or step is tied to
\* another statement than the one it was written for.
TreeKept ==
    Parsed /\ source.tree # NoTree /\ ~source.block => st.errs = {} /\ prog = source.tree

\* A given block is its setup written on every line of it (gblk_apply moves
\* tokens by position while the positions shift): the cases it parses to are
\* the cases of the tree, whatever stands before and behind the block.
BlockKept ==
    Parsed /\ source.tree # NoTree /\ source.block => st.errs = {} /\ prog = source.tree

RECURSIVE Stores(_)
Stores(b) ==
    FoldLeft(LAMBDA n, x : n + (CASE x[1] \in {"decl", "assign", "iassign"} -> 1
                                  [] x[1] = "if" -> Stores(x[3]) + Stores(x[4])
                                  [] x[1] = "while" -> Stores(x[3])
                                  [] OTHER -> 0), 0, b)
\* Every store of an accepted program was written with an = (index_assign.id:
\* the lvalue, "then `=`, then the value").  It does not hold: the parser skips
\* the token without looking at it.  See the README.
StoresHaveEqual ==
    Accepted => \A i \in 1 .. Len(prog) : prog[i][1] = "func" =>
        Stores(prog[i][4]) <= Cardinality({j \in 1 .. Len(source.toks) : source.toks[j].t = "="})

\* The lines still to be read that end in a brace: all that gblk_is_open can
\* ever take for the opening of a block, now or when a setup stands in front.
Openings == Cardinality({j \in st.p .. Len(st.toks) : Is(st, j, "op", "{") /\ LineEnd(st, j) = j + 1})
Unread == Len(st.toks) - st.p
\* Whatever the tokens, the parser ends.  A round that applies a block may
\* leave more tokens than it found (gblk_apply copies the setup to every line,
\* and a faulty line stops the round before its copies are read), and a copy in
\* front of a line that ends in a brace opens a block of its own; but no round
\* adds such a line, every block uses one up, and a round without a block
\* leaves fewer tokens.
RoundsConsume == [][Openings' < Openings \/ (Openings' = Openings /\ Unread' < Unread)]_vars
=============================================================================
