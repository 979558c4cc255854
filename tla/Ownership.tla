------------------------------ MODULE Ownership ------------------------------
(***************************************************************************)
(* Which local owns what it holds: the escape analysis that decides where  *)
(* the compiler frees a string, a list or a struct.                        *)
(*                                                                         *)
(* A program p is a function from names to functions                       *)
(*   [params, ret, body, value, native, borrows]                           *)
(* where value is what the return clause names.  Expressions carry their   *)
(* type:                                                                   *)
(*   <<"int", t, k>> <<"str", t, text>> <<"var", t, x>> <<"none", t>>      *)
(*   <<"bin", t, op, a, b>> <<"un", t, op, a>> <<"call", t, f, args>>      *)
(*   <<"index", t, a, i>> <<"arr", t, els>>                                *)
(* and statements are                                                      *)
(*   <<"decl", t, x, e>> <<"assign", x, e>> <<"iassign", a, i, e>>         *)
(*   <<"exprstmt", e>> <<"if", c, A, B>> <<"while", c, A>> <<"break">>     *)
(*   <<"ret", e>>                                                          *)
(* What is known while the analysis runs is m = [p, pe]: the program and   *)
(* the summary of each function, [out, deep, stale, shallow]: the          *)
(* parameters it keeps, those whose elements it disturbs, and whether what *)
(* it returns is not fresh, or fresh at the top only.                      *)
(* Programs without closures only: the rules for bind are left out.        *)
(***************************************************************************)
EXTENDS Integers, Sequences, SequencesExt, FiniteSets

CONSTANTS ElemType,     \* the list types, each with the type of its elements
          Fields,       \* the struct types, each with the types of its fields
          FreshFns,     \* the builtins that return a new string
          Builtins,     \* every builtin
          MaxParams     \* how many parameters a summary has bits for

Everything == [out |-> 1 .. MaxParams, deep |-> 1 .. MaxParams, stale |-> TRUE, shallow |-> TRUE]
Nothing == [out |-> {}, deep |-> {}, stale |-> FALSE, shallow |-> FALSE]
\* esc_bit, esc_dbit
Keeps(k, i) == i > MaxParams \/ i \in k.out
Disturbs(k, i) == i > MaxParams \/ i \in k.deep
\* esc_mask, as far as it is known
MaskOf(m, f) == IF f \in DOMAIN m.p THEN m.pe[f] ELSE Everything

(***************************************************************************)
(* Types                                                                   *)
(***************************************************************************)
IsListTy(t) == t \in DOMAIN ElemType
IsStruct(t) == t \in DOMAIN Fields
\* esc_heap_list, esc_heap_ty
HeapList(t) == IsListTy(t) \/ IsStruct(t) \/ t = "bytes"
Heap(t) == HeapList(t) \/ t = "string"
\* esc_list_of
ListOfLists(t) == IsListTy(t) /\ IsListTy(ElemType[t])
FlatList(t) == IsListTy(t) /\ ~IsListTy(ElemType[t])
RECURSIVE BaseType(_)
\* esc_sbear, esc_strong, esc_sheap, esc_hfields
BaseType(t) == IF IsListTy(t) THEN BaseType(ElemType[t]) ELSE t
BearsStruct(t) == IsStruct(BaseType(t))
Strong(t) == t = "string[]" \/ BearsStruct(t)
\* esc_dkind, esc_dkind2: how a type is freed with what it holds
DeepKind(t) == CASE ListOfLists(t) -> "lists"
                 [] t = "string[]" -> "strings"
                 [] IsStruct(t) /\ (\E i \in DOMAIN Fields[t] : Heap(Fields[t][i])) -> "struct"
                 [] OTHER -> "none"

(***************************************************************************)
(* Expressions                                                             *)
(***************************************************************************)
Kind(e) == e[1]
TypeOf(e) == e[2]
IsVar(e, x) == e[1] = "var" /\ e[3] = x
None == <<"none", "void">>
RECURSIVE Root(_), Count(_, _), CountIn(_, _)
\* imp_root, esc_chain
Root(e) == IF e[1] = "index" THEN Root(e[3]) ELSE e
Chain(e, x) == e[1] = "index" /\ IsVar(Root(e), x)
\* The operands of an expression
Parts(e) == CASE e[1] = "bin" -> <<e[4], e[5]>> [] e[1] = "un" -> <<e[4]>> [] e[1] = "index" -> <<e[3], e[4]>>
              [] e[1] = "call" -> e[4] [] e[1] = "arr" -> e[3] [] OTHER -> <<>>
Sum(s) == FoldLeft(LAMBDA a, b : a + b, 0, s)
\* esc_cnt, esc_cnt2, esc_cnt3, esc_cntl: how often a name is read
Count(e, x) == IF e[1] = "var" THEN (IF e[3] = x THEN 1 ELSE 0)
               ELSE Sum([i \in DOMAIN Parts(e) |-> Count(Parts(e)[i], x)])
\* The expressions of a statement itself, and the statements in it
ExprsOf(s) == CASE s[1] = "decl" -> <<s[4]>> [] s[1] = "assign" -> <<s[3]>> [] s[1] = "iassign" -> <<s[2], s[3], s[4]>>
                [] s[1] \in {"exprstmt", "if", "while", "ret"} -> <<s[2]>> [] OTHER -> <<>>
BlocksOf(s) == CASE s[1] = "if" -> <<s[3], s[4]>> [] s[1] = "while" -> <<s[3]>> [] OTHER -> <<>>
\* esc_stgt
Target(s) == CASE s[1] = "decl" -> s[3] [] s[1] = "assign" -> s[2] [] OTHER -> "none"
Stored(s) == CASE s[1] = "decl" -> s[4] [] s[1] = "assign" -> s[3] [] OTHER -> None
\* esc_cnt1, esc_cnt2s, esc_cnt3s, esc_cnts, esc_cntr, esc_cntf
CountStmt(s, x) == (IF Target(s) = x THEN 1 ELSE 0)
                   + Sum([i \in DOMAIN ExprsOf(s) |-> Count(ExprsOf(s)[i], x)])
                   + Sum([i \in DOMAIN BlocksOf(s) |-> CountIn(BlocksOf(s)[i], x)])
CountIn(b, x) == Sum([i \in DOMAIN b |-> CountStmt(b[i], x)])
CountFn(f, x) == CountIn(f.body, x) + Count(f.value, x)

\* esc_ctor, esc_fresh_call, esc_fresh_name, esc_fresh_node, esc_ndf
IsCtor(e) == e[1] = "call" /\ IsStruct(e[3])
FreshCall(m, e) == e[1] = "call" /\ e[3] \notin Builtins /\ Heap(e[2]) /\ ~MaskOf(m, e[3]).stale
FreshNode(m, e) == FreshCall(m, e) \/ IsCtor(e)
NotDeep(m, e) == IsCtor(e) \/ MaskOf(m, e[3]).shallow
\* str_fresh_node, str_fresh_call, str_fresh
StrFreshNode(m, e) == \/ e[1] = "bin" /\ e[2] # "bool"
                      \/ e[1] = "call" /\ (IF e[3] \in Builtins THEN e[3] \in FreshFns ELSE FreshCall(m, e))
StrFresh(m, e) == StrFreshNode(m, e) \/ e[2] \in {"int", "word"}

RECURSIVE OwnedValue(_, _)
\* esc_ownv, esc_ownc, esc_okl, esc_okc: nothing else holds the value or a part of it
OwnedValue(m, e) ==
    LET parts(ok(_)) == \A i \in DOMAIN Parts(e) : Heap(TypeOf(Parts(e)[i])) => ok(Parts(e)[i])
    IN CASE e[1] = "arr" -> parts(LAMBDA v : OwnedValue(m, v))
         [] IsCtor(e) -> parts(LAMBDA v : OwnedValue(m, v) \/ v[1] = "str")
         [] e[1] # "arr" /\ ~IsCtor(e) /\ FreshCall(m, e) -> ~NotDeep(m, e)
         [] OTHER -> StrFreshNode(m, e)
\* esc_abad, esc_abads, esc_cbad: an argument a struct would share
BadArg(m, v) == Heap(v[2]) /\ ~OwnedValue(m, v) /\ v[1] # "str" /\ (v[1] # "var" \/ ~FlatList(v[2]))
BadCtor(m, e) == \E i \in DOMAIN e[4] : BadArg(m, e[4][i])
\* esc_cdup
DupsField(m, e, i) == e[4][i][1] = "str" /\ DeepKind(e[3]) = "struct" /\ ~BadCtor(m, e)

(***************************************************************************)
(* Elements: esc_elbad, esc_elbad2, esc_tdep, esc_vbad, esc_pushel,        *)
(* esc_setel, esc_mvel, esc_mvsame                                         *)
(***************************************************************************)
BadElement(m, b, v, x) ==
    /\ IsVar(b, x) \/ Chain(b, x)
    /\ IF Strong(TypeOf(Root(b))) THEN Heap(v[2]) /\ ~OwnedValue(m, v) ELSE IsVar(b, x) /\ v[1] # "arr"
MovesInto(b, v) ==
    LET t == TypeOf(Root(b))
    IN /\ v[1] = "var"
       /\ \/ IsListTy(v[2]) /\ ~Strong(t)
          \/ IsListTy(t) /\ ElemType[t] = v[2] /\ (v[2] = "string" \/ IsStruct(v[2]))
PushFlags(m, e, x) ==
    IF e[3] = "push" /\ BadElement(m, e[4][1], e[4][2], x)
    THEN (IF MovesInto(e[4][1], e[4][2]) THEN {"moved"} ELSE {"mixed"})
    ELSE {}

(***************************************************************************)
(* A callee that pushes one parameter into another: esc_cmvto,             *)
(* esc_cmvscan, esc_cmvstmts, esc_cmvat, esc_cmvcall, esc_cmvtgt,          *)
(* esc_cmvpix; 0 if it does not                                            *)
(***************************************************************************)
ParamNo(f, x) == SelectInSeq(f.params, LAMBDA q : q[2] = x)
PushesTo(f, s, x) ==
    IF s[1] = "exprstmt" /\ s[2][1] = "call" /\ s[2][3] = "push" /\ IsVar(s[2][4][2], x)
       /\ s[2][4][1][1] = "var" /\ CountFn(f, s[2][4][1][3]) = 1
    THEN ParamNo(f, s[2][4][1][3]) ELSE 0
MovesTo(m, name, k) ==
    IF name \in DOMAIN m.p /\ ~m.p[name].native
    THEN LET f == m.p[name]
         IN IF k <= Len(f.params) /\ CountFn(f, f.params[k][2]) = 1
            THEN Sum([i \in DOMAIN f.body |-> PushesTo(f, f.body[i], f.params[k][2])]) ELSE 0
    ELSE 0
\* esc_cmsrc: the argument that is moved into argument i
MovedInto(m, name, args, i) == {k \in DOMAIN args : MovesTo(m, name, k) = i /\ MovesInto(args[i], args[k])}

\* esc_actx, arg_ctx, arg_ctx_b, arg_ctx_u, esc_mvbit, esc_cmctx: what a call does with an argument
SummaryContext(k, i) == (IF Keeps(k, i) THEN {"out"} ELSE {}) \cup (IF Disturbs(k, i) THEN {"mixed"} ELSE {})
Relaxed(m, name, args, i, c) ==
    CASE c = {"out"} /\ args[i][1] = "var" /\ MovesTo(m, name, i) > 0 -> {"pushed"}
      [] c = {"mixed"} /\ MovedInto(m, name, args, i) # {} -> {"moved"}
      [] OTHER -> c
ArgContext(m, name, args, i) ==
    CASE args[i][1] = "var" /\ IsStruct(name) -> {"ctor"}
      [] args[i][1] = "var" /\ name = "push" /\ i = 2 -> {"pushed"}
      [] OTHER -> Relaxed(m, name, args, i, IF name \in Builtins THEN (IF name = "push" /\ i = 2 THEN {"out"} ELSE {})
                                            ELSE SummaryContext(MaskOf(m, name), i))

(***************************************************************************)
(* What happens to the value of x: the flags of an expression whose value  *)
(* goes to ctx, of a statement and of a block                              *)
(***************************************************************************)
RECURSIVE ExprFlags(_, _, _, _), StmtFlags(_, _, _)
\* esc_expr, esc_node, esc_call, esc_args, esc_list, esc_two, esc_elem
\* What is done with an element of x
ElemFlags(e, x, ctx) ==
    IF Chain(e, x) /\ Heap(e[2])
    THEN (IF BearsStruct(TypeOf(Root(e))) /\ ctx \cap {"out", "mixed"} # {} THEN {"field"} ELSE {})
         \cup (IF e[3][1] = "var" /\ "out" \in ctx THEN {"taken"} ELSE {})
    ELSE {}
PartContext(m, e, i) == CASE e[1] = "call" -> ArgContext(m, e[3], e[4], i) [] e[1] = "arr" -> {"out"} [] OTHER -> {}
ExprFlags(m, e, x, ctx) ==
    IF e[1] = "var" THEN (IF e[3] = x THEN ctx ELSE {})
    ELSE UNION {ExprFlags(m, Parts(e)[i], x, PartContext(m, e, i)) : i \in DOMAIN Parts(e)}
         \cup ElemFlags(e, x, ctx) \cup (IF e[1] = "call" THEN PushFlags(m, e, x) ELSE {})

\* esc_fresh, esc_nonlit, esc_fbad, esc_arrbad, esc_litels: what a store into x says
StoreFlags(m, e) ==
    CASE e[1] = "str" -> {}
      [] e[1] = "arr" -> IF Strong(e[2]) THEN (IF OwnedValue(m, e) THEN {} ELSE {"mixed"})
                         ELSE (IF \A i \in DOMAIN e[3] : e[3][i][1] = "arr" THEN {} ELSE {"mixed"})
      [] IsCtor(e) -> {"fresh"} \cup (IF BadCtor(m, e) THEN {"badctor"} ELSE {})
      [] ~IsCtor(e) /\ FreshCall(m, e) -> {"fresh"} \cup (IF NotDeep(m, e) THEN {"mixed"} ELSE {})
      [] e[1] \notin {"str", "arr"} /\ ~FreshNode(m, e) /\ StrFreshNode(m, e) -> {"fresh"}
      [] OTHER -> {"stale"}

MutBlockFlags(m, b, x) ==    \* Mutant: a value given to another name is still the first one's
    UNION {StmtFlags(m, b[i], x) : i \in DOMAIN b} \ {"out"}
BlockFlags(m, b, x) == UNION {StmtFlags(m, b[i], x) : i \in DOMAIN b}
\* esc_stmt .. esc_stmt5, esc_store, esc_put, esc_iassign, esc_if, esc_while, esc_ret
ValueContext(s, i) == IF s[1] \in {"decl", "assign", "ret"} \/ (s[1] = "iassign" /\ i = 3) THEN {"out"} ELSE {}
StmtFlags(m, s, x) ==
    UNION {ExprFlags(m, ExprsOf(s)[i], x, ValueContext(s, i)) : i \in DOMAIN ExprsOf(s)}
    \cup UNION {BlockFlags(m, BlocksOf(s)[i], x) : i \in DOMAIN BlocksOf(s)}
    \cup (IF Target(s) = x THEN StoreFlags(m, Stored(s)) ELSE {})
    \cup (IF s[1] = "iassign" /\ BadElement(m, s[2], s[4], x) THEN {"mixed"} ELSE {})
\* esc_func
FnFlags(m, f, x) == BlockFlags(m, Append(f.body, <<"ret", f.value>>), x)

(***************************************************************************)
(* Ownership                                                               *)
(***************************************************************************)
RECURSIVE DeclType(_, _)
\* esc_decl_type, esc_type_of, esc_type_nest: the type a local is declared with, "" if none
FirstType(ts) == LET at == SelectInSeq(ts, LAMBDA t : t # "") IN IF at = 0 THEN "" ELSE ts[at]
DeclType(b, x) ==
    FirstType([i \in DOMAIN b |-> IF b[i][1] = "decl" THEN (IF b[i][3] = x THEN b[i][2] ELSE "")
                                ELSE FirstType([j \in DOMAIN BlocksOf(b[i]) |-> DeclType(BlocksOf(b[i])[j], x)])])

\* esc_own, esc_own2, esc_sown, esc_sflags
Owns(t, flags) == Heap(t) /\ flags \cap {"out", "stale", "ctor", "pushed"} = {} /\ (t = "string" => "fresh" \in flags)
Own(m, f, x) == Owns(DeclType(f.body, x), BlockFlags(m, f.body, x))
\* esc_exit, esc_retvar: freed when the function returns
FreedAtExit(m, f, x) == Own(m, f, x) /\ ~IsVar(f.value, x)

RECURSIVE MovesOk(_, _, _, _)
\* esc_movable, esc_declat, esc_mvmask: the k-th statement gives away a name that
\* only the statements since its declaration (the d-th) in the same block use
DeclAt(b, k, y) == SelectInSeq(SubSeq(b, 1, k - 1), LAMBDA s : s[1] = "decl" /\ s[3] = y)
Given(s) == IF s[1] = "exprstmt" THEN s[2] ELSE Stored(s)
MoveMask(s) == IF s[1] = "exprstmt" \/ (Stored(s)[1] = "call" /\ ~IsCtor(Stored(s))) THEN {"out", "stale", "ctor"}
               ELSE {"out", "stale", "taken", "mixed", "field", "pushed"}
Movable(f, b, k, y, d, flags) ==
    /\ d > 0 /\ Count(Given(b[k]), y) = 1
    /\ CountIn(SubSeq(b, d, k), y) = CountFn(f, y)
    /\ flags \cap MoveMask(b[k]) = {}
\* esc_mvarg, esc_mvstr, esc_mvsd, esc_mvrow
MayMove(m, f, b, k, v, d, flags) ==
    /\ Movable(f, b, k, v[3], d, flags)
    /\ (v[2] = "string" /\ d > 0) => StrFreshNode(m, Stored(b[d])) /\ CountIn(SubSeq(b, d, k), v[3]) = 2
    /\ (b[k][1] = "exprstmt" /\ IsStruct(v[2])) => flags \cap {"taken", "mixed", "field", "badctor"} = {}
    /\ \/ b[k][1] = "exprstmt" /\ IsStruct(v[2])
       \/ IsListTy(v[2]) /\ "moved" \in flags
       => MovesOk(m, f, f.body, v[3])
ArgMoves(m, f, b, k, v) ==
    (v[1] = "var" /\ Heap(v[2])) => MayMove(m, f, b, k, v, DeclAt(b, k, v[3]), BlockFlags(m, f.body, v[3]))
\* esc_pushof, esc_pushto, esc_cmarg, esc_cmcall, esc_cmfind, esc_cmpick: what a statement moves into x
MovesArg(m, e, k, x) ==
    LET j == MovesTo(m, e[3], k) IN j \in DOMAIN e[4] /\ IsVar(e[4][j], x) /\ e[4][k][1] = "var"
FirstArg(e, ks) == {e[4][k] : k \in {i \in ks : \A j \in ks : i <= j}}
PushedInto(m, s, e, x) ==
    CASE s[1] = "exprstmt" /\ e[1] = "call" /\ e[3] = "push" /\ IsVar(e[4][1], x) -> {e[4][2]}
      [] e[1] = "call" /\ e[3] # "push" /\ Count(e, x) = 1 -> FirstArg(e, {k \in DOMAIN e[4] : MovesArg(m, e, k, x)})
      [] OTHER -> {}
\* esc_mvok, esc_mvin, esc_mvone, esc_mvnest, esc_mvctor, esc_pushat
MovedBy(m, s, x) == IF Target(s) = x /\ IsCtor(Stored(s)) THEN Range(Stored(s)[4]) ELSE PushedInto(m, s, Given(s), x)
MovesOk(m, f, b, x) ==
    \A k \in DOMAIN b :
        /\ \A i \in DOMAIN BlocksOf(b[k]) : MovesOk(m, f, BlocksOf(b[k])[i], x)
        /\ \A v \in MovedBy(m, b[k], x) : ArgMoves(m, f, b, k, v)

\* esc_deep, esc_deepk: what the local holds is its own as well
DeepBy(m, f, x, kind, flags) ==
    /\ kind # "none" /\ flags \cap {"taken", "mixed"} = {} /\ (kind = "struct" => flags \cap {"field", "badctor"} = {})
    /\ (kind = "struct" \/ "moved" \in flags) => MovesOk(m, f, f.body, x)
Deep(m, f, x) == Own(m, f, x) /\ DeepBy(m, f, x, DeepKind(DeclType(f.body, x)), FnFlags(m, f, x))

(***************************************************************************)
(* Which function frees                                                    *)
(***************************************************************************)
\* esc_dfn, esc_free_sh
DeepFree(t) == CASE DeepKind(t) = "lists" -> <<"list_free_deep", t>> [] DeepKind(t) = "strings" -> <<"list_free_strs", t>>
                 [] OTHER -> <<"idfr", t>>
ShallowFree(t) == IF t = "string" THEN <<"str_free", t>> ELSE <<"list_free", t>>
\* esc_free_fn, esc_free_base
FreeFn(m, f, x) == IF Deep(m, f, x) THEN DeepFree(DeclType(f.body, x)) ELSE ShallowFree(DeclType(f.body, x))
\* esc_free_of, esc_deepcall
FreeOf(m, e) == IF ~IsCtor(e) /\ FreshCall(m, e) /\ DeepKind(e[2]) # "none" /\ ~NotDeep(m, e) THEN DeepFree(e[2]) ELSE ShallowFree(e[2])
\* esc_slot_fn, esc_slot_deep, esc_slot_of: what replacing an element frees
SlotFree(m, f, b) ==
    IF b[1] = "var" /\ Deep(m, f, b[3])
    THEN CASE DeepKind(DeclType(f.body, b[3])) = "lists" -> <<"list_free", b[2]>>
           [] DeepKind(DeclType(f.body, b[3])) = "strings" -> <<"str_free", b[2]>>
           [] OTHER -> <<>>
    ELSE <<>>
\* esc_tmp_free, esc_tmp_arg, esc_tmp_bin, esc_tmp_fn: a temporary argument nobody keeps
TmpFree(m, e, i) ==
    LET v == e[4][i]
    IN IF ~Keeps(MaskOf(m, e[3]), i) /\ (FreshNode(m, v) \/ StrFreshNode(m, v)) /\ Heap(v[2])
       THEN (IF Disturbs(MaskOf(m, e[3]), i) THEN ShallowFree(v[2]) ELSE FreeOf(m, v))
       ELSE <<>>
\* esc_pick, esc_pickok, esc_leaf: x = x + ... builds on the old string
RECURSIVE LeftLeaf(_)
LeftLeaf(e) == IF e[1] = "bin" /\ e[3] = "+" THEN LeftLeaf(e[4]) ELSE e
BuildsOn(m, f, x, e) == e[1] = "bin" /\ IsVar(LeftLeaf(e), x) /\ Own(m, f, x) /\ Count(e, x) = 1

(***************************************************************************)
(* The summary of a function                                               *)
(***************************************************************************)
RECURSIVE EarlyValue(_)
\* esc_early, esc_early_in, esc_early_one, esc_early_nest, esc_early_val
EarlyValue(b) == \E i \in DOMAIN b : \/ b[i][1] = "ret" /\ b[i][2][1] \notin {"none", "arr"}
                                     \/ \E j \in DOMAIN BlocksOf(b[i]) : EarlyValue(BlocksOf(b[i])[j])
\* esc_alias, esc_ro, esc_pstmts, esc_pflags: another name for x that is only read does not count
OnlyReads(m, f, x, s) ==
    /\ s[1] = "decl" /\ s[3] # x /\ IsVar(Root(s[4]), x)
    /\ FnFlags(m, f, s[3]) \cap {"out", "taken", "mixed", "field", "ctor", "pushed"} = {}
ParamFlags(m, f, x) == FnFlags(m, [f EXCEPT !.body = SelectSeq(@, LAMBDA s : ~OnlyReads(m, f, x, s))], x)
\* esc_fresh_ret, esc_fresh_val, esc_deep_ret, esc_deep_val, esc_deep_ok
FreshReturn(m, f) == ~EarlyValue(f.body) /\ (f.value[1] = "arr" \/ (f.value[1] = "var" /\ Own(m, f, f.value[3])))
DeepReturn(m, f) == \/ DeepKind(f.ret) = "none"
                    \/ f.value[1] = "arr" /\ StoreFlags(m, f.value) = {}
                    \/ f.value[1] = "var" /\ Deep(m, f, f.value[3])
\* esc_summary, esc_params, esc_bits, esc_pbit, esc_nf, esc_nf_bits; esc_native_mask, esc_borrow_one
SummaryBy(flags, heap, fresh, deep) ==
    [out |-> {i \in DOMAIN flags : flags[i] \cap {"out", "ctor", "pushed"} # {}},
     deep |-> {i \in DOMAIN flags : flags[i] \cap {"taken", "mixed", "field", "moved"} # {}},
     stale |-> heap /\ ~fresh,
     shallow |-> heap /\ ~(fresh /\ deep)]
Summary(m, f) ==
    CASE f.native -> [Everything EXCEPT !.out = @ \ f.borrows, !.deep = @ \ f.borrows]
      [] ~f.native /\ Len(f.params) > MaxParams -> Everything
      [] OTHER -> SummaryBy([i \in DOMAIN f.params |-> ParamFlags(m, f, f.params[i][2])],
                            Heap(f.ret), FreshReturn(m, f), DeepReturn(m, f))
Joined(a, b) == [out |-> a.out \cup b.out, deep |-> a.deep \cup b.deep, stale |-> a.stale \/ b.stale, shallow |-> a.shallow \/ b.shallow]
=============================================================================
