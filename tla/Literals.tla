------------------------------ MODULE Literals ------------------------------
(***************************************************************************)
(* What the parser decides about the text of a number or string token:     *)
(* whether an int literal fits a word (int_check), whether it is wider     *)
(* than an int (is_bigdec), whether a float literal has an exponent and    *)
(* overflows (flt_check), and which bytes a string's escapes denote.  The  *)
(* text is a sequence of characters.  The code's limits are constants:     *)
(* MaxWord is 18446744073709551615, MaxInt 2147483647, InfDigits the 309   *)
(* digits of the least integer that rounds to infinity, and an exponent    *)
(* of more than ExpDigits = 6 digits counts as 10^ExpDigits.               *)
(***************************************************************************)
EXTENDS Integers, Sequences, FiniteSetsExt, SequencesExt

CONSTANTS
    MaxWord, MaxInt,   \* the greatest word and the greatest int, as digit sequences
    InfDigits,         \* flt_inf_digits; flt_inf_pt is their number
    ExpDigits          \* digits of an exponent that are still read

Numerals == <<"0", "1", "2", "3", "4", "5", "6", "7", "8", "9">>
IsDigit(c) == \E k \in 1 .. 10 : Numerals[k] = c
Digit(c) == (CHOOSE k \in 1 .. 10 : Numerals[k] = c) - 1

\* The character at i, or the one no text holds past either end.
At(text, i) == IF i \in 1 .. Len(text) THEN text[i] ELSE "end"

\* The first position from i on that holds no character of S.
SkipAll(text, i, S) == Min({j \in i .. Len(text) + 1 : At(text, j) \notin S})
\* The first position from i on that holds a character of S.
SkipUntil(text, i, S) == Min({j \in i .. Len(text) + 1 : At(text, j) \in S \cup {"end"}})

\* dec_val: the number a run of digits spells
DecVal(ds) == FoldLeft(LAMBDA v, c : 10 * v + Digit(c), 0, ds)

(***************************************************************************)
(* Integer literals                                                        *)
(***************************************************************************)
\* strip_zeros keeps the last digit
StripZeros(text) == SubSeq(text, Min({SkipAll(text, 1, {"0"}), Len(text)}), Len(text))

\* first_difference, digits_exceed: of two runs of one length
DigitsExceed(ds, limit) ==
    LET D == {k \in 1 .. Len(ds) : ds[k] # limit[k]}
    IN D # {} /\ Digit(ds[Min(D)]) > Digit(limit[Min(D)])

\* exceeds_word.  The lexer leaves a hexadecimal or binary literal that is
\* too wide in its source form, whose second character is no digit.
ExceedsWord(text) ==
    LET s == StripZeros(text)
    IN IF Len(s) = Len(MaxWord) /\ IsDigit(s[1])
       THEN DigitsExceed(s, MaxWord)
       ELSE Len(s) > Len(MaxWord) \/ (Len(text) > 1 /\ ~IsDigit(text[2]))

\* is_bigdec, wide_dec, over_max: a literal of more digits than MaxInt is wide,
\* any other one is compared
IsBigdec(text) ==
    LET s == StripZeros(text)
    IN Len(s) > Len(MaxInt) \/ DecVal(s) > DecVal(MaxInt)

(***************************************************************************)
(* Float literals                                                          *)
(***************************************************************************)
\* flt_e_at
EAt(text) == SkipUntil(text, 1, {"e", "E"})

\* flt_exp_has, flt_exp_ok: an exponent has a digit after its sign
Signed(text, i) == At(text, i) \in {"+", "-"}
ExpOk(text) ==
    LET k == EAt(text)
    IN k > Len(text) \/ IsDigit(At(text, IF Signed(text, k + 1) THEN k + 2 ELSE k + 1))

\* flt_lit_exp, flt_exp_of, flt_clamp
LitExp(text) ==
    LET k == EAt(text)
        ds == SubSeq(text, IF Signed(text, k + 1) THEN k + 2 ELSE k + 1, Len(text))
        z == StripZeros(ds)
        v == IF Len(z) <= ExpDigits THEN DecVal(z) ELSE 10 ^ ExpDigits
    IN IF k > Len(text) THEN 0 ELSE IF At(text, k + 1) = "-" THEN 0 - v ELSE v

\* flt_lit_mant: the digits before the exponent, without the point
LitMant(text) == SelectSeq(SubSeq(text, 1, EAt(text) - 1), IsDigit)
\* flt_ilen: the number of digits before the point
ILen(text) == SkipUntil(text, 1, {".", "e", "E"}) - 1
\* flt_lstrip
LStrip(raw) == SubSeq(raw, SkipAll(raw, 1, {"0"}), Len(raw))

\* flt_scale: the literal is 0.DS * 10^scale
\* mutant: zeros in front count as digits of the value
MutScale(text) == ILen(text) + LitExp(text)
Scale(text) ==
    ILen(text) + LitExp(text) - Len(LitMant(text)) + Len(LStrip(LitMant(text)))

\* flt_head: the first w digits, filled up with zeros
HeadDigits(ds, w) == [k \in 1 .. w |-> IF k <= Len(ds) THEN ds[k] ELSE "0"]

\* flt_over, flt_over_at, flt_ge_max
FltOver(text) ==
    LET ds == LStrip(LitMant(text))
        pt == Len(InfDigits)
        p == Scale(text)
        h == HeadDigits(ds, pt)
    IN /\ ds # <<>>
       /\ (p > pt) \/ (p = pt /\ (h = InfDigits \/ DigitsExceed(h, InfDigits)))

(***************************************************************************)
(* String literals: text is what stands between the quotes                 *)
(***************************************************************************)
Hex == <<"0", "1", "2", "3", "4", "5", "6", "7", "8", "9",
         "a", "b", "c", "d", "e", "f", "A", "B", "C", "D", "E", "F">>
IsHex(c) == \E k \in 1 .. 22 : Hex[k] = c
HexDigit(c) == LET k == CHOOSE k \in 1 .. 22 : Hex[k] = c IN IF k > 16 THEN k - 7 ELSE k - 1

\* hex_escape_at, hex_escape_byte: \xHH at a
HexEscapeAt(text, a) ==
    /\ At(text, a) = "\\" /\ At(text, a + 1) = "x"
    /\ IsHex(At(text, a + 2)) /\ IsHex(At(text, a + 3))
HexEscapeByte(text, a) == 16 * HexDigit(text[a + 2]) + HexDigit(text[a + 3])

\* The positions where the loops of str_bad_hex and str_has_nul stop: a
\* backslash takes the character after it along.
Stops(text) ==
    LET stop[k \in Nat] == IF k <= 1 THEN k = 1
                           ELSE \/ stop[k - 1] /\ At(text, k - 1) # "\\"
                                \/ k > 2 /\ stop[k - 2] /\ At(text, k - 2) = "\\"
    IN {k \in 1 .. Len(text) : stop[k]}

\* str_bad_hex
StrBadHex(text) ==
    \E k \in Stops(text) : /\ At(text, k) = "\\" /\ At(text, k + 1) = "x"
                           /\ ~HexEscapeAt(text, k)

\* octal_escape_length, octal_escape_byte: up to three octal digits
IsOctal(c) == IsDigit(c) /\ Digit(c) < 8
OctalLength(text, a) ==
    Cardinality({n \in 1 .. 3 : At(text, a) = "\\" /\ \A k \in 1 .. n : IsOctal(At(text, a + k))})
OctalByte(text, a) ==
    LET d(k) == Digit(text[a + k])
        n == OctalLength(text, a)
    IN IF n = 1 THEN d(1) ELSE IF n = 2 THEN 8 * d(1) + d(2) ELSE (64 * d(1) + 8 * d(2) + d(3)) % 256

\* nul_tail: after \0 at most zeros stand in the two octal places left
\* mutant: \0 is a NUL byte whatever digits follow
MutNulTail(text, a) == TRUE
NulTail(text, a) ==
    ~ \/ IsOctal(At(text, a)) /\ At(text, a) # "0"
      \/ At(text, a) = "0" /\ IsOctal(At(text, a + 1)) /\ At(text, a + 1) # "0"

\* str_has_nul
StrHasNul(text) ==
    \E k \in Stops(text) :
        /\ At(text, k) = "\\"
        /\ \/ At(text, k + 1) = "0" /\ NulTail(text, k + 2)
           \/ HexEscapeAt(text, k) /\ HexEscapeByte(text, k) = 0
=============================================================================
