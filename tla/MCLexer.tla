------------------------------ MODULE MCLexer -------------------------------
(***************************************************************************)
(* Small texts for the lexer: an alphabet for each thing it reads.         *)
(***************************************************************************)
EXTENDS Lexer

Texts(A, n) == UNION {[1 .. k -> A] : k \in 0 .. n}
After(prefix, T) == {prefix \o t : t \in T}

MCSources ==
    Texts({"a", " ", Newline, "\"", "/", "#", "!", "="}, 4)   \* lines, comments, strings
    \cup Texts({"a", Newline, "/", "*"}, 6)                  \* block comments
    \cup Texts({"0", "1", "2", "5", "6", "8"}, 4)            \* decimal literals
    \cup After(<<"0", "x">>, Texts({"0", "1", "f", "A"}, 4)) \* hexadecimal
    \cup After(<<"0", "b">>, Texts({"0", "1"}, 9))           \* binary
    \cup Texts({"0", "1", "9", ".", "e", "-"}, 5)            \* floats
    \cup After(<<"\"">>, Texts({"\\", "0", "4", "x", "\""}, 5)) \* escapes

MCMaxWord == <<"2", "5", "5">>
MCMaxInt == <<"1", "2", "7">>
MCInfDigits == <<"1", "9">>
=============================================================================
