------------------------------- MODULE Lexer --------------------------------
(***************************************************************************)
(* The lexer (idlex): one pass over the source, scan_one after scan_one.   *)
(* Its output is a line per token and, for every newline it consumes, a    *)
(* marker with the number of the line that begins; the parser gives a      *)
(* token the line of the last marker before it (src_line).  A line that    *)
(* begins with # is one the driver writes in front of a file: its text is  *)
(* passed on as it is, and the lines count from 1 again.                   *)
(*                                                                         *)
(* A token of the output is its kind, the characters of the source it was  *)
(* made from and, for a number, the text that is printed for it: a         *)
(* hexadecimal or binary literal is printed in decimal, computed in words  *)
(* of WordBits bits (64 in the code), unless it has too many digits.       *)
(***************************************************************************)
EXTENDS Literals

CONSTANTS
    Sources,    \* the texts to scan
    WordBits,   \* bits of a word, 64 in the code
    PadDigits   \* udec prints a word in two parts, the lower of PadDigits = 10 digits

\* "end" is no character: it is what Ch gives past the end
ASSUME SourcesAssumption == Sources \subseteq Seq(STRING \ {"end"})

VARIABLES
    src, at,    \* the source and the cursor
    lexline,    \* the line the next newline ends
    lexbol,     \* where that line begins
    out,        \* the lines printed
    trapped     \* a slice past the end of the source ended the process

lexvars == <<src, at, lexline, lexbol, out, trapped>>

Letters == {"a", "b", "e", "f", "x"}
Newline == "\n"
Spaces == {" ", "\t", "\r", Newline}
Word == 2 ^ WordBits

\* The two-character operators (is_two_op).
TwoOps == {<<"=", "=">>, <<"!", "=">>, <<"<", "=">>, <<">", "=">>, <<"&", "&">>,
           <<"|", "|">>, <<"<", "<">>, <<">", ">">>}

Ch(i) == At(src, i)
NameStart(c) == c \in Letters \cup {"_"}
NamePart(c) == NameStart(c) \/ IsDigit(c)
\* mutant: a comment or a # line does not move the cursor
MutEndOfLine(i) == i
EndOfLine(i) == SkipUntil(src, i, {Newline})
RunEnd(i, P(_)) == Min({j \in i .. Len(src) + 1 : ~P(Ch(j))})

Tok(k, from, to) == [k |-> k, from |-> from, to |-> to, text |-> <<>>]
NumTok(k, from, to, text) == [Tok(k, from, to) EXCEPT !.text = text]
Marker(n) == [k |-> "line", n |-> n]

LexInit == /\ src \in Sources
        /\ at = 1 /\ lexline = 1 /\ lexbol = 1
        /\ out = <<>> /\ trapped = FALSE

\* mutant: the cursor goes one character past the token
MutEmit(tok, next) == /\ out' = Append(out, tok)
                      /\ at' = next + 1
                      /\ UNCHANGED <<src, lexline, lexbol, trapped>>

\* print a token and go on behind it, on the same line
Emit(tok, next) == /\ out' = Append(out, tok)
                   /\ at' = next
                   /\ UNCHANGED <<src, lexline, lexbol, trapped>>

\* The source is not exhausted and a token, no space, begins here.
Scanning == at <= Len(src) /\ ~trapped
Token == Scanning /\ Ch(at) \notin Spaces

\* eat_space, bump_line over the positions of S: every newline among them is
\* announced, with the number of the line that it begins.
Newlines(S) == {j \in S : Ch(j) = Newline}
\* mutant: the counter of lines stays behind
MutEatSpaces(S) ==
    LET N == Newlines(S)
    IN /\ lexline' = lexline
       /\ lexbol' = IF N = {} THEN lexbol ELSE Max(N) + 1
EatSpaces(S) ==
    LET N == Newlines(S)
    IN /\ lexline' = lexline + Cardinality(N)
       /\ lexbol' = IF N = {} THEN lexbol ELSE Max(N) + 1

Space == /\ Scanning /\ Ch(at) \in Spaces
         /\ EatSpaces({at})
         /\ out' = IF Ch(at) = Newline THEN Append(out, Marker(lexline + 1)) ELSE out
         /\ at' = at + 1
         /\ UNCHANGED <<src, trapped>>

\* scan_word: a comment ends before its newline
LineComment == /\ Token /\ Ch(at) = "/" /\ Ch(at + 1) = "/"
               /\ at' = EndOfLine(at)
               /\ UNCHANGED <<src, lexline, lexbol, out, trapped>>

\* block_tok, skip_block: a block comment is passed on as an operator, which
\* the parser refuses, and skipped up to */ or the end of the source
BlockEnd == Min({j \in at + 2 .. Len(src) + 1 :
                    j = Len(src) + 1 \/ (Ch(j) = "*" /\ Ch(j + 1) = "/")})
BlockComment ==
    /\ Token /\ Ch(at) = "/" /\ Ch(at + 1) = "*"
    /\ LET e == BlockEnd
           n == Cardinality(Newlines(at + 2 .. e - 1))
       IN /\ EatSpaces(at + 2 .. e - 1)
          /\ out' = Append(out, Tok("op", at, e + 2))
                       \o [k \in 1 .. n |-> Marker(lexline + k)]
          /\ at' = e + 2
    /\ UNCHANGED <<src, trapped>>

\* scan_shebang, is_shebang: #! is skipped on the first line and is an
\* operator, which the parser refuses, anywhere else
Bang == /\ Token /\ Ch(at) = "#" /\ Ch(at + 1) = "!"
        /\ out' = IF at = lexbol /\ lexline = 1 THEN out
                  ELSE Append(out, Tok("op", at, EndOfLine(at)))
        /\ at' = EndOfLine(at)
        /\ UNCHANGED <<src, lexline, lexbol, trapped>>

\* scan_hash
HashLine == /\ Token /\ Ch(at) = "#" /\ Ch(at + 1) # "!"
        /\ out' = Append(out, Tok("raw", at, EndOfLine(at)))
        /\ at' = EndOfLine(at)
        /\ lexline' = 0
        /\ UNCHANGED <<src, lexbol, trapped>>

\* scan_ident
Ident == /\ Token /\ NameStart(Ch(at))
         /\ LET e == RunEnd(at, NamePart) IN Emit(Tok("ident", at, e), e)

\* udec: a word is printed as a signed number, so one of more than PadDigits
\* digits is printed in two parts
DecText(n) == LET ds[k \in Nat] == IF k < 10 THEN <<k>> ELSE Append(ds[k \div 10], k % 10)
              IN [j \in 1 .. Len(ds[n]) |-> ToString(ds[n][j])]
\* mutant: the lower part is printed without its zeros
MutPad(text) == text
Pad(text) == [j \in 1 .. PadDigits - Len(text) |-> "0"] \o text
UDec(v) == LET chunk == 10 ^ PadDigits
           IN IF v \div chunk = 0 THEN DecText(v)
              ELSE DecText(v \div chunk) \o Pad(DecText(v % chunk))

\* hex_val, bin_val: the value wraps at the word
Value(i, e, base) == FoldLeft(LAMBDA v, c : (base * v + HexDigit(c)) % Word, 0, SubSeq(src, i, e - 1))

\* print_number: a literal of more than limit digits is left in its source form
Based(base, limit, P(_)) ==
    LET e == RunEnd(at + 2, P)
        first == Min({j \in at + 2 .. e : j = e \/ Ch(j) # "0"})
        text == IF e - first > limit THEN SubSeq(src, at, e - 1) ELSE UDec(Value(at + 2, e, base))
    IN Emit(NumTok("int", at, e, text), e)

IsBin(c) == c \in {"0", "1"}
HexStart == Ch(at) = "0" /\ Ch(at + 1) \in {"x", "X"} /\ IsHex(Ch(at + 2))
BinStart == Ch(at) = "0" /\ Ch(at + 1) \in {"b", "B"} /\ IsBin(Ch(at + 2))
ScanHex == Token /\ HexStart /\ Based(16, WordBits \div 4, IsHex)
ScanBin == Token /\ ~HexStart /\ BinStart /\ Based(2, WordBits, IsBin)

\* scan_number, num_end, has_frac, exp_end: a fraction needs a digit after its
\* point, an exponent is taken with its sign and whatever digits follow
NumEnd(e) == IF Ch(e) = "." /\ IsDigit(Ch(e + 1)) THEN RunEnd(e + 1, IsDigit) ELSE e
ExpEnd(e) == IF Ch(e) \notin {"e", "E"} THEN e
             ELSE RunEnd(IF Signed(src, e + 1) THEN e + 2 ELSE e + 1, IsDigit)
ScanNumber ==
    /\ Token /\ IsDigit(Ch(at)) /\ ~HexStart /\ ~BinStart
    /\ LET e == RunEnd(at, IsDigit)
           fe == ExpEnd(NumEnd(e))
           kind == IF fe > e THEN "float" ELSE "int"
       IN Emit(NumTok(kind, at, fe, SubSeq(src, at, fe - 1)), fe)

\* scan_string, str_end, adv_str: a backslash takes the next character along,
\* and the end of the source ends a string too.  A backslash that is the last
\* character takes the scan one further, and the slice of the text traps.
Body == SubSeq(src, at + 1, Len(src))
Quotes == {k \in Stops(Body) : Body[k] = "\""}
CutAtBackslash == Quotes = {} /\ Body # <<>> /\ Len(Body) \in Stops(Body) /\ Body[Len(Body)] = "\\"
StrStart == Token /\ Ch(at) = "\""
ScanString ==
    /\ StrStart /\ ~CutAtBackslash
    /\ LET e == Min(Quotes \cup {Len(Body) + 1})
       IN Emit(NumTok("str", at, at + e + 1, SubSeq(Body, 1, e - 1)), at + e + 1)
StringTrap ==
    /\ StrStart /\ CutAtBackslash
    /\ trapped' = TRUE
    /\ UNCHANGED <<src, at, lexline, lexbol, out>>

\* scan_op, oplen
ScanOp == /\ Token
          /\ ~NameStart(Ch(at)) /\ ~IsDigit(Ch(at)) /\ Ch(at) \notin {"\"", "#"}
          /\ ~(Ch(at) = "/" /\ Ch(at + 1) \in {"/", "*"})
          /\ LET n == IF <<Ch(at), Ch(at + 1)>> \in TwoOps THEN 2 ELSE 1
             IN Emit(Tok("op", at, at + n), at + n)

LexNext == \/ Space \/ LineComment \/ BlockComment \/ Bang \/ HashLine
        \/ Ident \/ ScanHex \/ ScanBin \/ ScanNumber \/ ScanString \/ StringTrap \/ ScanOp

LexSpec == LexInit /\ [][LexNext]_lexvars /\ WF_lexvars(LexNext)

(***************************************************************************)
(* Properties                                                              *)
(***************************************************************************)
Done == ~Scanning
TokenAt == {k \in 1 .. Len(out) : out[k].k \notin {"line", "raw"}}
Raws == {k \in 1 .. Len(out) : out[k].k = "raw"}

\* src_line of the parser: the last marker printed before a token
LineGiven(k) ==
    LET M == {j \in 1 .. k - 1 : out[j].k = "line"} IN IF M = {} THEN 1 ELSE out[Max(M)].n

\* The line of the file position i is on, behind the lines printed before the
\* k-th: the lines of a file that a # line introduces begin behind it.
RawsBefore(k) == {j \in Raws : j < k}
FileBegin(k) == IF RawsBefore(k) = {} THEN 1 ELSE out[Max(RawsBefore(k))].to
LineAt(k, i) ==
    (IF RawsBefore(k) = {} THEN 1 ELSE 0) + Cardinality(Newlines(FileBegin(k) .. i - 1))
LineOf(k) == LineAt(k, out[k].from)

HoldsNewline(k) == out[k].k = "str" /\ \E i \in 1 .. Len(out[k].text) : out[k].text[i] = Newline

\* Every token is given the line it stands on, also behind comments of several
\* lines and behind the lines the driver puts in front of a file, as long as no
\* string before it holds a newline (eat_space, bump_line, scan_hash, src_line).
LinesRight ==
    \A k \in TokenAt : (\A j \in TokenAt : j < k => ~HoldsNewline(j)) => LineGiven(k) = LineOf(k)

\* What the comment of eat_space says: every token behind a newline, whatever
\* consumed it, belongs to the line that newline begins.  It does not hold
\* behind a string that holds one, hence the condition of LinesRight.
EveryTokenOnItsLine == \A k \in TokenAt : LineGiven(k) = LineOf(k)

\* A gap between two tokens holds spaces, and one comment or first line.
Opens(j) == (Ch(j) = "/" /\ Ch(j + 1) = "/") \/ (Ch(j) = "#" /\ Ch(j + 1) = "!")
Skipped(from, to) ==
    \A i \in from .. to - 1 :
        \/ Ch(i) \in Spaces
        \/ \E j \in from .. i : Opens(j) /\ \A m \in j .. i : Ch(m) # Newline
\* A marker is of no piece of the source.
Pieces == {k \in 1 .. Len(out) : out[k].k # "line"}
\* Where the last piece ends of those printed before the k-th line
EndBefore(k) ==
    LET B == {j \in Pieces : j < k} IN IF B = {} THEN 1 ELSE out[Max(B)].to

\* The tokens are the source: they stand in the order of the source, none
\* overlaps the next, and nothing but space and comments is between them, in
\* front of the first or behind the last (scan_one and the scan_* chain).
NothingLost ==
    /\ \A k \in Pieces : /\ EndBefore(k) <= out[k].from /\ out[k].from < out[k].to
                         /\ Skipped(EndBefore(k), out[k].from)
    /\ LET last == EndBefore(Len(out) + 1)
       IN last <= at /\ Skipped(last, Min({at, Len(src) + 1}))

\* What FrontEndProofs needs beside these: the counter is the line the cursor
\* is on, and so is the last marker, but right behind a # line.
PlainSoFar == \A j \in TokenAt : ~HoldsNewline(j)
CursorOK ==
    /\ src \in Seq(STRING \ {"end"})
    /\ at \in Nat \ {0} /\ lexline \in Nat
    /\ EndBefore(Len(out) + 1) \in Nat
    /\ FileBegin(Len(out) + 1) \in Nat \ {0} /\ FileBegin(Len(out) + 1) <= at
    /\ PlainSoFar => /\ lexline = LineAt(Len(out) + 1, at)
                     /\ LineGiven(Len(out) + 1) = lexline \/ Ch(at) \in {Newline, "end"}

\* What the digits of a literal mean, without a bound on the width.
Base(k) == CASE Ch(out[k].from + 1) \in {"x", "X"} -> 16
             [] Ch(out[k].from + 1) \in {"b", "B"} -> 2
             [] OTHER -> 10
Meaning(k) ==
    LET from == IF out[k].to > out[k].from + 1 /\ Base(k) # 10 THEN out[k].from + 2 ELSE out[k].from
    IN FoldLeft(LAMBDA v, c : Base(k) * v + HexDigit(c), 0, SubSeq(src, from, out[k].to - 1))

\* An int literal reaches the tree with the value its source digits spell, or
\* is refused because no word holds it (print_number, udec, exceeds_word); it
\* is marked wide exactly when no int holds it (is_bigdec).
IntKept ==
    \A k \in 1 .. Len(out) : out[k].k = "int" =>
        IF Meaning(k) >= Word THEN ExceedsWord(out[k].text)
        ELSE /\ ~ExceedsWord(out[k].text) /\ DecVal(out[k].text) = Meaning(k)
             /\ IsBigdec(out[k].text) = (Meaning(k) > DecVal(MaxInt))

\* The value of a float literal is m * 10^e, with m its digits.
LOCAL Pow(n) == 10 ^ Min({n, 6})
AtLeastInf(text) ==
    LET k == EAt(text)
        exp == IF k > Len(text) THEN 0
               ELSE LET v == DecVal(SelectSeq(SubSeq(text, k + 1, Len(text)), IsDigit))
                    IN IF At(text, k + 1) = "-" THEN 0 - v ELSE v
        m == DecVal(LitMant(text))
        e == exp - (Len(LitMant(text)) - ILen(text))
    IN IF e >= 0 THEN m * Pow(e) >= DecVal(InfDigits)
       ELSE m >= DecVal(InfDigits) * Pow(0 - e)

\* A float literal is refused as too large exactly when its value reaches the
\* least number that rounds to infinity (flt_over: scale, lstrip, head, clamp).
FloatOverflow ==
    \A k \in 1 .. Len(out) : out[k].k = "float" /\ ExpOk(out[k].text) =>
        (FltOver(out[k].text) <=> AtLeastInf(out[k].text))

\* A number reaches the tree with its value, or is refused just when it is out
\* of range: IntKept for the ints, FloatOverflow for the floats.
NumbersKept == IntKept /\ FloatOverflow

\* The bytes the escapes of a string literal denote.
EscapeBytes(text) ==
    {OctalByte(text, k) : k \in {j \in Stops(text) : OctalLength(text, j) > 0}}
    \cup {HexEscapeByte(text, k) : k \in {j \in Stops(text) : HexEscapeAt(text, j)}}
Accepted(text) == ~StrHasNul(text) /\ ~StrBadHex(text)

\* What the message of parse_str says: a string literal that is accepted holds
\* no NUL byte.  It does not hold: str_has_nul looks for zeros, and the byte of
\* \400 is 0 all the same.  See the README.
NoNulByte ==
    \A k \in 1 .. Len(out) : out[k].k = "str" /\ Accepted(out[k].text) => 0 \notin EscapeBytes(out[k].text)

\* No string literal is refused for a NUL byte it does not hold (str_has_nul,
\* nul_tail): \01 and \0x are not NULs, and a backslash that another one
\* escapes begins nothing.  The other half of the claim is NoNulByte.
RefusedHasNul ==
    \A k \in 1 .. Len(out) : out[k].k = "str" /\ StrHasNul(out[k].text) => 0 \in EscapeBytes(out[k].text)

\* Every source is scanned to its end, or to the trap of a string it cuts off
\* behind a backslash (lex).
Ends == <>[]Done
=============================================================================
