--------------------------------- MODULE IROpt ---------------------------------
(***************************************************************************)
(* The passes over a lowered function g = [ins, blk]: predecessors,        *)
(* allocas to values (op_mem2reg), the fold of a comparison with zero, and *)
(* the removal of dead instructions.                                       *)
(***************************************************************************)
EXTENDS IR

\* op(x), with x worked out first: TLC would keep it unevaluated until op needs it
With(x, op(_)) == CHOOSE r \in {op(y) : y \in {x}} : TRUE
\* FoldLeft half by half, so that a long sequence is no deep evaluation
InTurn(op(_, _), base, s) ==
    LET RECURSIVE part(_, _, _)
        part(x, i, j) == IF i > j THEN x ELSE IF i = j THEN op(x, s[i])
                         ELSE LET mid == (i + j) \div 2 IN With(part(x, i, mid), LAMBDA y : part(y, mid + 1, j))
    IN part(base, 1, Len(s))

Body(g, b) == g.blk[b].body
\* The instructions in blocks, in the order every pass reads them
InOrder(g) == FlattenSeq([b \in DOMAIN g.blk |-> Body(g, b)])
LastOf(g, b) == Body(g, b)[Len(Body(g, b))]

\* ir_kill
Kill(g, id) == [g EXCEPT !.ins[id].op = "nop", !.ins[id].ty = ""]
\* op_rauw, op_rauw_b, ir_rauw_at, ir_rauw_l, ir_rauw_one: in the instructions that are in a block
Swap(x, old, new) == IF x = old THEN new ELSE x
Replace(g, old, new) ==
    LET swapped(i) == [i EXCEPT !.a = Swap(i.a, old, new), !.b = Swap(i.b, old, new),
                                !.l = SubSeq([j \in DOMAIN i.l |-> Swap(i.l[j], old, new)], 1, Len(i.l))]
        there == Range(InOrder(g))
    IN [g EXCEPT !.ins = SubSeq([id \in DOMAIN g.ins |-> IF id \in there THEN swapped(g.ins[id]) ELSE g.ins[id]], 1, Len(g.ins))]
\* m2r_drop, fold_kill
DropFor(g, id, new) == Kill(Replace(g, id, new), id)

\* op_preds, pred_scan, pred_of, pred_succ, pred_succ_at: an entry for every edge, in the order of the blocks
Preds(g, b) ==
    FlattenSeq([p \in DOMAIN g.blk |-> LET to == SelectSeq(g.ins[LastOf(g, p)].bl, LAMBDA t : t = b)
                                       IN [i \in DOMAIN to |-> p]])

(***************************************************************************)
(* op_mem2reg.  w = [g, pra, phi, out]: the allocas of the entry block,    *)
(* their phis in each block, and their values at its end.                  *)
(***************************************************************************)
New(g, i) == [g EXCEPT !.ins = Append(@, i)]
\* m2r_init, m2r_collect, m2r_row
Collect(g) ==
    LET pra == SelectSeq(Body(g, 1), LAMBDA id : g.ins[id].op = "alloca")
        row == [j \in DOMAIN pra |-> 0]
    IN [g |-> g, pra |-> pra, phi |-> [b \in DOMAIN g.blk |-> row], out |-> [b \in DOMAIN g.blk |-> row]]
\* m2r_phi_one, m2r_phi_make, m2r_phi_place, m2r_shift: at the front of its block
PutPhi(w, b, j) ==
    LET g1 == New(w.g, NewIns("phi", w.g.ins[w.pra[j]].ty, 0, 0, ""))
        ph == Len(g1.ins)
    IN [w EXCEPT !.g = [g1 EXCEPT !.blk[b].body = <<ph>> \o @], !.phi[b][j] = ph]
\* m2r_phis, m2r_phi_blk: in every block but the entry
PutPhis(w) ==
    InTurn(LAMBDA w1, b : InTurn(LAMBDA w2, j : PutPhi(w2, b, j), w1, [j \in DOMAIN w.pra |-> j]),
             w, [i \in 1 .. Len(w.g.blk) - 1 |-> i + 1])

\* m2r_seed1, m2r_in
Seed(w, b, j) ==
    LET g1 == New(w.g, NewIns("undef", w.g.ins[w.pra[j]].ty, 0, 0, ""))
    IN IF b = 1 THEN [w EXCEPT !.g = g1, !.out[b][j] = Len(g1.ins)] ELSE [w EXCEPT !.out[b][j] = w.phi[b][j]]
\* m2r_step, m2r_load, m2r_store, m2r_kept
Step(w, b, id) ==
    LET i == w.g.ins[id]
        j == SelectInSeq(w.pra, LAMBDA a : a = i.a)
    IN CASE i.op = "load" /\ j > 0 -> [w EXCEPT !.g = DropFor(w.g, id, w.out[b][j])]
         [] i.op = "store" /\ j > 0 -> [w EXCEPT !.out[b][j] = i.b, !.g = Kill(w.g, id)]
         [] OTHER -> w
\* m2r_walk, m2r_blk, m2r_seed: the blocks in their order, not along the edges
Walk(w) ==
    InTurn(LAMBDA w1, b : With(InTurn(LAMBDA w2, j : Seed(w2, b, j), w1, [j \in DOMAIN w.pra |-> j]),
                               LAMBDA w0 : InTurn(LAMBDA w2, id : Step(w2, b, id), w0, Body(w.g, b))),
             w, [b \in DOMAIN w.g.blk |-> b])

\* m2r_fill .. m2r_inc_val: an edge of a phi for every predecessor
MutFill(w) ==            \* Mutant: one for every block before
    [w EXCEPT !.g.ins = InTurn(LAMBDA is, b : InTurn(LAMBDA is2, j :
            [is2 EXCEPT ![w.phi[b][j]].l = [p \in 1 .. b - 1 |-> w.out[p][j]], ![w.phi[b][j]].bl = [p \in 1 .. b - 1 |-> p]],
            is, [j \in DOMAIN w.pra |-> j]), @, [i \in 1 .. Len(w.g.blk) - 1 |-> i + 1])]
Fill(w) ==
    LET edges(b) == Preds(w.g, b)
    IN [w EXCEPT !.g.ins = InTurn(LAMBDA is, b : InTurn(LAMBDA is2, j :
            [is2 EXCEPT ![w.phi[b][j]].l = [p \in DOMAIN edges(b) |-> w.out[edges(b)[p]][j]], ![w.phi[b][j]].bl = edges(b)],
            is, [j \in DOMAIN w.pra |-> j]), @, [i \in 1 .. Len(w.g.blk) - 1 |-> i + 1])]

\* m2r_same, m2r_pick: the one value of a phi besides itself, 0 if it has none or more
OneValue(g, id) == LET vs == Range(g.ins[id].l) \ {id} IN IF Cardinality(vs) = 1 THEN CHOOSE v \in vs : TRUE ELSE 0
\* m2r_sweep, m2r_sweep_b, m2r_try
Sweep(g) == InTurn(LAMBDA h, id : IF h.ins[id].op = "phi" /\ OneValue(h, id) # 0 THEN DropFor(h, id, OneValue(h, id)) ELSE h,
                     g, InOrder(g))
RECURSIVE Clean(_), Dce(_)
\* m2r_clean
Clean(g) == LET h == Sweep(g) IN IF h = g THEN g ELSE Clean(h)
\* the end of op_mem2reg
DropAllocas(w) == InTurn(Kill, w.g, w.pra)

(***************************************************************************)
(* op_fold: zext of a flag != 0 is the flag                                *)
(***************************************************************************)
\* fold_iszext, fold_isbool, fold_zero_of
MutFoldable(g, id) ==    \* Mutant: == 0 counts as well
    LET i == g.ins[id]
    IN /\ i.op = "icmp" /\ i.s \in {"==", "!="}
       /\ g.ins[i.a].op = "zext" /\ g.ins[g.ins[i.a].a].ty = "i1"
       /\ g.ins[i.b].op = "const" /\ g.ins[i.b].s = 0
Foldable(g, id) ==
    LET i == g.ins[id]
    IN /\ i.op = "icmp" /\ i.s = "!="
       /\ g.ins[i.a].op = "zext" /\ g.ins[g.ins[i.a].a].ty = "i1"
       /\ g.ins[i.b].op = "const" /\ g.ins[i.b].s = 0
\* op_fold, fold_blk, fold_one, fold_cmp
Fold(g) == InTurn(LAMBDA h, id : IF Foldable(h, id) THEN DropFor(h, id, h.ins[h.ins[id].a].a) ELSE h, g, InOrder(g))

(***************************************************************************)
(* op_dce                                                                  *)
(***************************************************************************)
\* irnoeff
NeverDead == {"store", "call", "ret", "br", "cbr", "nop", "param"}
\* dce_used, dce_used_b, dce_refs, dce_names, dce_lists
Used(g, id) == \E k \in DOMAIN InOrder(g) :
                   LET at == InOrder(g)[k]
                       i == g.ins[at]
                   IN at # id /\ i.op # "nop" /\ (i.a = id \/ i.b = id \/ id \in Range(i.l))
\* dce_sweep, dce_blk, dce_one
DceSweep(g) == InTurn(LAMBDA h, id : IF h.ins[id].op \notin NeverDead /\ ~Used(h, id) THEN Kill(h, id) ELSE h, g, InOrder(g))
Dce(g) == LET h == DceSweep(g) IN IF h = g THEN g ELSE Dce(h)
=============================================================================
