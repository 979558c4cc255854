-------------------------------- MODULE Types --------------------------------
(***************************************************************************)
(* The types of expressions (type_of) and the checks every node of a       *)
(* program goes through before anything is emitted (check_shape, tc_all).  *)
(* The tree is the one of Ownership; Typed fills in the types, and what    *)
(* comes after reads them from there, as the compiler does from tcache.    *)
(* The index of a field access is <<"fld", "int", k>>, the field's place.  *)
(*                                                                         *)
(* A type nobody knows is "?": most checks let it pass, since something    *)
(* else has been reported then.                                            *)
(***************************************************************************)
EXTENDS Ownership

CONSTANTS IntWidth      \* the bits of an int

(***************************************************************************)
(* The registry of types                                                   *)
(***************************************************************************)
Whole == {"int", "word", "bool"}
\* init_ty_rows, ty_kind, ty_row_kind, ty_num, ty_kind_is
KindOf(t) == CASE IsListTy(t) -> "list" [] IsStruct(t) -> "struct" [] t \in Whole -> "int" [] t = "float" -> "float"
               [] t \in {"string", "bytes"} -> "ref" [] t = "void" -> "unit" [] OTHER -> "?"
Numeric(t) == KindOf(t) \in {"int", "float"}
\* ty_known, ty_pair_known
KnownTy(t) == KindOf(BaseType(t)) # "?"
BothKnown(t, u) == KnownTy(t) /\ KnownTy(u)
\* ty_width, ty_rank: a float outranks a word of the same width
Rank(t) == CASE t \in {"int", "bool"} -> 8 [] t = "word" -> 16 [] t = "float" -> 17
\* ty_compat, ty_narrows
Compatible(want, got) == want = got \/ (Numeric(want) /\ Numeric(got))
Narrows(want, got) == Numeric(want) /\ Numeric(got) /\ Rank(want) < Rank(got)
\* ty_wider, arith_result
Wider(t, u) == IF Rank(t) >= Rank(u) THEN t ELSE u
ArithResult(t, u) == IF Numeric(t) /\ Numeric(u) THEN Wider(t, u) ELSE "int"
\* ty_is_list, elem_type, list_elem_type; bytes has elements too
Indexable(t) == IsListTy(t) \/ t = "bytes"
ElemOf(t) == IF t = "bytes" THEN "int" ELSE IF IsListTy(t) THEN ElemType[t] ELSE "?"
ListOf(t) == IF \E u \in DOMAIN ElemType : ElemType[u] = t THEN CHOOSE u \in DOMAIN ElemType : ElemType[u] = t ELSE "?"

(***************************************************************************)
(* Operators and builtins                                                  *)
(***************************************************************************)
EqOps == {"==", "!=", "="}
OrdOps == {"<", ">", "<=", ">="}
LogOps == {"&&", "||"}
BitOps == {"&", "|", "^", "<<", ">>"}
ArithOps == {"+", "-", "*", "/", "%"} \cup BitOps
PokeFns == {"poke8", "poke16", "poke32", "poke64"}
PeekFns == {"peek8", "peek16", "peek32", "peek64", "peek8s", "peek16s", "peek32s", "peek8u", "peek16u", "peek32u"}
CheckedFns == {"add_checked", "sub_checked", "mul_checked"}
\* is_wordfn, is_sysbi
WordBuiltins == {"alloc", "store_size", "udiv", "umod", "ushr", "rotl", "umul_hi", "uword_of_int"} \cup PeekFns \cup CheckedFns
SysBuiltins == WordBuiltins \cup PokeFns \cup {"ult"}
\* builtin_type, bt2 .. bt6
BuiltinType(name) ==
    CASE name \in {"print", "eprint", "fail", "bytes_append"} \cup PokeFns -> "void"
      [] name \in {"input", "read_all", "chr", "str_of_mem", "str_sub", "string_of_bytes"} -> "string"
      [] name \in {"to_int", "len", "character_code_at", "ult", "ticks", "getkey"} -> "int"
      [] name \in WordBuiltins \cup {"mem_of_str", "bits_of_float", "bits32_of_float", "memory_of_bytes"} -> "word"
      [] name \in {"float_of_bits", "float_of_bits32"} -> "float"
      [] name \in {"bytes_new", "bytes_sub", "bytes_of_string", "bytes_of_memory"} -> "bytes"
      [] OTHER -> "?"
\* bi_arity, bi_zero, bi_one
Arity(name) ==
    CASE name \in {"input", "read_all", "flush", "getkey", "ticks", "store_size"} -> 0
      [] name \in {"print", "eprint", "len", "pop", "to_int", "chr", "put", "sleep_ms", "mem_of_str", "alloc", "fail", "bits_of_float",
                   "float_of_bits", "bits32_of_float", "float_of_bits32", "bytes_new", "string_of_bytes", "bytes_of_string",
                   "memory_of_bytes", "uword_of_int"} \cup PeekFns -> 1
      [] name \in {"str_sub", "bytes_sub"} -> 3
      [] OTHER -> 2
\* bi_wants_bytes: what the i-th argument of a builtin on bytes has to be
WantsBytes(name, i) ==
    CASE name \in {"bytes_append", "string_of_bytes", "memory_of_bytes"} \/ (name = "bytes_sub" /\ i = 1) -> "bytes"
      [] name = "bytes_of_memory" /\ i = 1 -> "addr"
      [] name = "bytes_of_string" -> "string"
      [] name \in {"bytes_new", "bytes_of_memory"} \/ (name = "bytes_sub" /\ i > 1) -> "int"
      [] OTHER -> ""
\* bi_wants .. bi_wants5: of any other builtin; "" if anything will do
Wants(name, i) ==
    CASE name \in {"to_int", "mem_of_str", "fail"} \/ (name \in {"character_code_at", "str_sub"} /\ i = 1) -> "string"
      [] name = "umul_hi" -> "uword"
      [] name \in {"uword_of_int", "chr", "sleep_ms"} \/ (name = "str_sub" /\ i > 1) -> "int"
      [] name = "character_code_at" /\ i > 1 -> "index"
      [] name \in {"bits_of_float", "bits32_of_float"} -> "float"
      [] name = "pop" \/ (name = "push" /\ i = 1) -> "list"
      [] name = "len" -> "strlist"
      [] name \in (SysBuiltins \ {"umul_hi", "uword_of_int"}) \cup {"float_of_bits", "float_of_bits32"} -> "word"
      [] name = "str_of_mem" -> "addr"
      [] OTHER -> WantsBytes(name, i)
\* bi_ok, bi_ok2, bi_ok3, bi_strlist
Meets(want, t) ==
    CASE want \in {"string", "int", "float", "bytes"} -> t = want
      [] want = "index" -> t = "int"
      [] want = "uword" -> t = "word"
      [] want = "list" -> Indexable(t)
      [] want = "strlist" -> t = "string" \/ Indexable(t)
      [] want \in {"word", "addr"} -> KindOf(t) = "int"

(***************************************************************************)
(* type_of.  c = [p, f] is the program and the function.                   *)
(***************************************************************************)
\* name_type, lookup_var
VarType(f, x) == IF ParamNo(f, x) > 0 THEN f.params[ParamNo(f, x)][1] ELSE DeclType(f.body, x)
\* lit_type: a literal that is no int is a word
LitType(e) == IF e[2] = "bool" THEN "bool" ELSE IF e[3] < 2^(IntWidth - 1) THEN "int" ELSE "word"
\* type_bin, is_concat, one_is_str, is_str_pair, tb2, tb2_arith
BinType(op, t, u) == CASE op = "+" /\ "string" \in {t, u} -> "string"
                       [] op \in ArithOps /\ ~(op = "+" /\ "string" \in {t, u}) -> ArithResult(t, u)
                       [] OTHER -> "bool"
\* rotl_type, checked_type
TypeByArgs(ts) == IF "word" \in Range(ts) THEN "word" ELSE "int"
\* call_type, call_ret, call_shaped, pop_elem, type_call, sd_named
CallType(p, name, ts) ==
    CASE name = "pop" -> ElemOf(ts[1])
      [] name = "rotl" -> TypeByArgs(SubSeq(ts, 1, 1))
      [] name \in CheckedFns -> TypeByArgs(ts)
      [] name \notin CheckedFns \cup {"pop", "rotl"} /\ BuiltinType(name) # "?" -> BuiltinType(name)
      [] name \in DOMAIN p -> p[name].ret
      [] IsStruct(name) -> name
      [] OTHER -> "?"
\* sd_fpos, sd_cell
FieldAt(t, i) == i[1] = "fld" /\ i[3] + 1 \in DOMAIN Fields[t]
\* type_index, idx_elem
IndexType(t, i) == IF IsStruct(t) THEN (IF FieldAt(t, i) THEN Fields[t][i[3] + 1] ELSE "?") ELSE ElemOf(t)
\* type_arr: by the first element; bytes_slot
ArrType(els, want) == CASE want = "bytes" -> "bytes" [] want # "bytes" /\ els = <<>> -> "int[]" [] OTHER -> ListOf(els[1][2])

RECURSIVE Typed(_, _, _)
\* bytes_mark_args, bytes_param_type, bytes_push_elem: what a literal is stored as that is an argument
ArgWant(c, e, i) ==
    CASE e[3] = "push" /\ i = 2 -> ElemOf(Typed(c, e[4][1], "")[2])
      [] e[3] \in DOMAIN c.p /\ i <= Len(c.p[e[3]].params) -> c.p[e[3]].params[i][1]
      [] IsStruct(e[3]) /\ i <= Len(Fields[e[3]]) -> Fields[e[3]][i]
      [] OTHER -> ""
\* bytes_mark_to, bytes_mark_each: what its elements are stored as
ElemWant(want) == IF IsListTy(want) THEN ElemType[want] ELSE ""
TypedCall(c, e, args) == <<"call", CallType(c.p, e[3], [i \in DOMAIN args |-> args[i][2]]), e[3], args>>
TypedBin(op, a, b) == <<"bin", BinType(op, a[2], b[2]), op, a, b>>
\* type_un
TypedUn(op, a) == <<"un", IF op = "!" THEN "bool" ELSE a[2], op, a>>
TypedIndex(a, i) == <<"index", IndexType(a[2], i), a, i>>
TypedArr(els, want) == <<"arr", ArrType(els, want), els>>
\* type_of, type_of_miss, type_of2 .. type_of7, type_of_float, tcache_set
Typed(c, e, want) ==
    CASE e[1] = "int" -> <<"int", LitType(e), e[3]>>
      [] e[1] = "str" -> <<"str", "string", e[3]>>
      [] e[1] = "float" -> <<"float", "float", e[3]>>
      [] e[1] = "var" -> <<"var", VarType(c.f, e[3]), e[3]>>
      [] e[1] = "bin" -> TypedBin(e[3], Typed(c, e[4], ""), Typed(c, e[5], ""))
      [] e[1] = "un" -> TypedUn(e[3], Typed(c, e[4], ""))
      [] e[1] = "call" -> TypedCall(c, e, [i \in DOMAIN e[4] |-> Typed(c, e[4][i], ArgWant(c, e, i))])
      [] e[1] = "index" -> TypedIndex(Typed(c, e[3], ""), Typed(c, e[4], ""))
      [] e[1] = "arr" -> TypedArr([i \in DOMAIN e[3] |-> Typed(c, e[3][i], ElemWant(want))], want)
      [] e[1] \in {"fld", "none"} -> e

RECURSIVE TypedBlock(_, _)
\* bytes_marks, bytes_mark_at, bytes_mark_store, bytes_store_type, var_type_at
TypedSet(c, b, i, v) == <<"iassign", b, i, Typed(c, v, ElemOf(b[2]))>>
TypedStmt(c, s) ==
    CASE s[1] = "decl" -> <<"decl", s[2], s[3], Typed(c, s[4], s[2])>>
      [] s[1] = "assign" -> <<"assign", s[2], Typed(c, s[3], VarType(c.f, s[2]))>>
      [] s[1] = "iassign" -> TypedSet(c, Typed(c, s[2], ""), Typed(c, s[3], ""), s[4])
      [] s[1] \in {"exprstmt", "ret"} -> <<s[1], Typed(c, s[2], "")>>
      [] s[1] = "if" -> <<"if", Typed(c, s[2], ""), TypedBlock(c, s[3]), TypedBlock(c, s[4])>>
      [] s[1] = "while" -> <<"while", Typed(c, s[2], ""), TypedBlock(c, s[3])>>
      [] s[1] = "break" -> s
TypedBlock(c, b) == [i \in DOMAIN b |-> TypedStmt(c, b[i])]
TypedFn(c) == [c.f EXCEPT !.body = TypedBlock(c, @), !.value = Typed(c, @, "")]
TypedProgram(p) == [f \in DOMAIN p |-> TypedFn([p |-> p, f |-> p[f]])]

(***************************************************************************)
(* The checks, on a tree with its types                                    *)
(***************************************************************************)
\* minus_operand, int_too_wide, chk_literal_fit: an int takes no literal it would cut off
MinusOperand(e) == IF e[1] = "un" /\ e[3] = "-" THEN e[4] ELSE e
TooWide(e) == LET o == MinusOperand(e) IN o[1] = "int" /\ o[2] = "word" /\ ~(e[1] = "un" /\ o[3] = 2^(IntWidth - 1))
LiteralFits(want, e) == want = "int" => ~TooWide(e)
\* chk_byte_fit
ByteFits(want, e) == want = "bytes" /\ MinusOperand(e)[1] = "int" => e[1] = "int" /\ e[3] <= 255

RECURSIVE Storable(_, _)
\* arr_els, arr_el_at, arr_el_check
ElementFits(want, v) == Storable(ElemOf(want), v) /\ LiteralFits(ElemOf(want), v) /\ ByteFits(want, v)
Storable(want, e) ==
    IF e[1] = "arr" THEN (IF Indexable(want) THEN \A i \in DOMAIN e[3] : ElementFits(want, e[3][i]) ELSE ~KnownTy(want))
    ELSE BothKnown(want, e[2]) => Compatible(want, e[2])
\* chk_arg_typecheck, chk_narrow; chk_ret2, chk_ret_narrow; ctor_fit: nor is a wider number squeezed in
Passable(want, e) == Storable(want, e) /\ ~Narrows(want, e[2])
\* chk_float_elem
KeepsFraction(t, v) == ~(Indexable(t) /\ ElemOf(t) = "int" /\ v[2] = "float")
\* chk_push, chk_push2, chk_push_float; chk_iassign3: a value becomes an element
ElementOk(t, v) == (Indexable(t) => Storable(ElemOf(t), v)) /\ LiteralFits(ElemOf(t), v) /\ KeepsFraction(t, v)

\* chk_access, chk_field, chk_field_at
FieldOk(t, i) == KnownTy(t) => IsStruct(t) /\ FieldAt(t, i)
\* chk_index, chk_index2
PlaceOk(t, i) == (KnownTy(t) => Indexable(t)) /\ (KnownTy(i[2]) => i[2] \in {"int", "bool"})
AccessOk(t, i) == IF i[1] = "fld" THEN FieldOk(t, i) ELSE PlaceOk(t, i)

\* chk_bin, fv_bin, fv_side
SidesOk(op, t, u) == ~IsStruct(t) /\ ~IsStruct(u) /\ (op = "+" => "bytes" \notin {t, u})
\* cmp_bad, eq_ok, ord_ok
TextPair(t, u) == t = u /\ t \in {"string", "bytes"}
\* chk_eq, eq_types, eq_report; chk_ord, chk_ord2, ord_types, ord_report
EqualOk(t, u) == BothKnown(t, u) => TextPair(t, u) \/ (Numeric(t) /\ Numeric(u))
OrderOk(t, u) == BothKnown(t, u) => Numeric(t) /\ Numeric(u)
\* chk_bits, chk_bits2, bits_types
BitsOk(t, u) == BothKnown(t, u) => KindOf(t) = "int" /\ KindOf(u) = "int"
\* chk_mod, mod_types
ModOk(t, u) == Numeric(t) /\ Numeric(u) => "float" \notin {t, u}
BinOk(op, t, u) ==
    /\ SidesOk(op, t, u)
    /\ op \in EqOps => EqualOk(t, u)
    /\ op \in OrdOps => OrderOk(t, u)
    /\ op \in LogOps \cup BitOps => BitsOk(t, u)
    /\ op = "%" => ModOk(t, u)
\* chk_un, chk_un2
UnOk(op, t) == KnownTy(t) => IF op = "-" THEN Numeric(t) ELSE KindOf(t) = "int"
\* chk_cond, cond_kind
CondOk(t) == KindOf(t) \notin {"unit", "struct"}

\* chk_bi_arg: and what has no text form is not printed
Shown(name, t) == CASE name \in {"print", "eprint"} -> ~Indexable(t) [] name = "put" -> KnownTy(t) => t = "string" [] OTHER -> TRUE
\* sd_bi_args, sd_bi_arg: no builtin takes a struct but push
StructArgOk(name, i, t) == (IsStruct(t) /\ Wants(name, i) = "") => name = "push" /\ i = 2
\* chk_bi_args, arg_type_at, bi_want_for
BuiltinArgOk(name, i, t) ==
    /\ (KnownTy(t) /\ Wants(name, i) # "") => Meets(Wants(name, i), t)
    /\ Shown(name, t) /\ StructArgOk(name, i, t)
\* chk_bi, chk_bi_arity, bi_arity_err
BuiltinOk(name, args) == Len(args) = Arity(name) /\ \A i \in DOMAIN args : BuiltinArgOk(name, i, args[i][2])
RECURSIVE CallDepth(_)
\* has_call, hc_kids, hc_list, hc_at
CallDepth(e) == (IF e[1] = "call" THEN 1 ELSE 0) + Max({0} \cup {CallDepth(Parts(e)[i]) : i \in DOMAIN Parts(e)})
\* chk_flat_args, chk_flat_at
FlatArgs(args) == \A i \in DOMAIN args : CallDepth(args[i]) <= 1
\* chk_arity, arity_mismatch, arity_err
ArityOk(f, args) == Len(args) = Len(f.params)
\* chk_argtypes, chk_arg_at, arg_err_msg
ArgsOk(f, args) == \A i \in DOMAIN args : Passable(f.params[i][1], args[i])
\* ctor_fit, ctor_arity_err, ctor_args, ctor_arg, ctor_nested
CtorOk(name, args) ==
    Len(args) = Len(Fields[name]) /\ \A i \in DOMAIN args : Passable(Fields[name][i], args[i]) /\ CallDepth(args[i]) = 0
\* chk_ctor, chk_ctor_at, ctor_place: first is whether the call initialises a declaration
CtorCallOk(e, first) == IsStruct(e[3]) => first /\ CtorOk(e[3], e[4])
\* chk_callsite, func_node, chk_site_at
CallSiteOk(p, e, first) == (e[3] \in DOMAIN p => ArityOk(p[e[3]], e[4]) /\ ArgsOk(p[e[3]], e[4])) /\ CtorCallOk(e, first)
\* chk_call, chk_call2, is_push2, chk_push
CallOk(p, e, first) ==
    /\ FlatArgs(e[4]) /\ CallSiteOk(p, e, first)
    /\ (e[3] = "push" /\ Len(e[4]) = 2) => ElementOk(e[4][1][2], e[4][2])
    /\ e[3] \in Builtins => BuiltinOk(e[3], e[4])

\* want_elem, want_elem_ok2, want_push: a slot that takes an empty literal
TakesEmpty(t) == Indexable(t)
RECURSIVE ExprOk(_, _, _), BlockOk(_, _)
\* Which operands an empty literal may be: arr_marks, arr_mark_at, want_push_ok
PartPlace(e, i) == IF e[1] = "call" /\ e[3] = "push" /\ i = 2 /\ TakesEmpty(ElemOf(e[4][1][2])) THEN {"empty"} ELSE {}
\* tc_node, tc_g3, tc_g4, tc_g5: place says what the expression may be where it stands
ExprOk(p, e, place) ==
    /\ \A i \in DOMAIN Parts(e) : ExprOk(p, Parts(e)[i], PartPlace(e, i))
    /\ CASE e[1] = "bin" -> BinOk(e[3], e[4][2], e[5][2])
         [] e[1] = "un" -> UnOk(e[3], e[4][2])
         [] e[1] = "call" -> CallOk(p, e, "first" \in place)
         [] e[1] = "index" -> AccessOk(e[3][2], e[4])
         [] e[1] = "arr" -> e[3] # <<>> \/ "empty" \in place
         [] OTHER -> TRUE
\* want_decl, want_asg, want_elem, is_initialiser
StoredPlace(t) == IF TakesEmpty(t) THEN {"empty"} ELSE {}

\* chk_voidarr, voarr_type
NoVoidList(t) == ~(IsListTy(t) /\ BaseType(t) = "void")
\* chk_declared_type, chk_type_known
DeclaredOk(t) == KnownTy(t) /\ NoVoidList(t)
\* chk_decl; chk_assign
StoreOk(p, t, e, place) == ExprOk(p, e, place \cup StoredPlace(t)) /\ Storable(t, e) /\ LiteralFits(t, e)
\* chk_iasg, chk_fstore, chk_fstore_at, chk_fvalue, chk_iassign, chk_iassign2
ElementStoreOk(p, b, i, v) ==
    /\ ExprOk(p, b, {}) /\ ExprOk(p, i, {}) /\ ExprOk(p, v, StoredPlace(ElemOf(b[2]))) /\ AccessOk(b[2], i)
    /\ IF i[1] = "fld" THEN Storable(IndexType(b[2], i), v) ELSE ElementOk(b[2], v)
\* chk_ret_name, is_plain: a return clause is a name or a literal
PlainValue(e) == e[1] \in {"var", "int", "float", "str", "none"}
\* chk_retexpr, chk_ret2: and a value is returned just where one is due
ReturnOk(f, e) == PlainValue(e) /\ IF f.ret = "void" THEN e[1] = "none" ELSE e[1] # "none" /\ Passable(f.ret, e)
\* chk_exprstmt: a statement that compares was meant to assign
NoLostCompare(e) == ~(e[1] = "bin" /\ e[3] \in {"=", "=="})
\* tc_node, tc_g1, tc_g2
StmtOk(c, s) ==
    CASE s[1] = "decl" -> DeclaredOk(s[2]) /\ StoreOk(c.p, s[2], s[4], {"first"})
      [] s[1] = "assign" -> StoreOk(c.p, VarType(c.f, s[2]), s[3], {})
      [] s[1] = "iassign" -> ElementStoreOk(c.p, s[2], s[3], s[4])
      [] s[1] = "exprstmt" -> ExprOk(c.p, s[2], {}) /\ NoLostCompare(s[2])
      [] s[1] \in {"if", "while"} -> ExprOk(c.p, s[2], {}) /\ CondOk(s[2][2]) /\ \A i \in DOMAIN BlocksOf(s) : BlockOk(c, BlocksOf(s)[i])
      [] s[1] = "break" -> TRUE
      [] s[1] = "ret" -> ExprOk(c.p, s[2], {}) /\ ReturnOk(c.f, s[2])
BlockOk(c, b) == \A i \in DOMAIN b : StmtOk(c, b[i])
FnOk(c) ==
    /\ \A i \in DOMAIN c.f.params : DeclaredOk(c.f.params[i][1])
    /\ KnownTy(c.f.ret) /\ BlockOk(c, c.f.body) /\ ExprOk(c.p, c.f.value, {}) /\ ReturnOk(c.f, c.f.value)
\* check_rest, tc_all, tc_nodes, tc_node_at: every function, whether or not it is used
Accepted(p) == \A f \in DOMAIN p : FnOk([p |-> p, f |-> p[f]])
==============================================================================
