------------------------------- MODULE LibCalls -------------------------------
(***************************************************************************)
(* Calls of host threads into an id library (interop/idl.c) and the heap   *)
(* the library's program works on.  A call takes the lock, makes the       *)
(* constants once, in a scoped library opens a frame, runs, and is left by *)
(* idl_done, with a result or by the longjmp of a trap; idl_done closes    *)
(* the frame.  While it runs, the program makes, grows, freezes and frees  *)
(* strings, lists and bytes, and allocates from the flat store.            *)
(*                                                                         *)
(* A value o has the block p it was made in and, once a list or bytes has  *)
(* outgrown it, the block d of its cells and in ic the capacity it started *)
(* with; a frozen one has its capacity negated.  While a line or all of    *)
(* the input is read, its block is a value of kind "line" or "all".        *)
(***************************************************************************)
EXTENDS Pool

CONSTANTS
    Hosts,        \* host threads
    ScopedSet,    \* IDL_SCOPED: which of TRUE, FALSE are tried
    Lens,         \* lengths of new strings, lists and bytes, and of the input
    LitLens,      \* lengths of list literals
    ReadAllCap,   \* the first block of id_read_all, 4096 in the code
    StoreSizes,   \* sizes of store allocations
    StoreCaps,    \* the capacities of the store: 65536 and its doublings in the code
    Exporting,    \* whether the program has an exported variable
    MaxValues, MaxOps, MaxCalls   \* bounds: live values, steps of the program, calls

\* The store is a large block from the start; the constants are small ones.
ASSUME LibAssumption ==
    /\ Lens \subseteq Nat /\ LitLens \subseteq Nat /\ StoreSizes \subseteq Nat /\ ReadAllCap \in Nat
    /\ StoreCaps \subseteq Nat /\ \A c \in StoreCaps : c > PoolMax
    /\ PoolMax >= 48
    /\ ScopedSet \subseteq BOOLEAN /\ Exporting \in BOOLEAN

VARIABLES
    h,        \* the pool and the arena
    vals,     \* the values of the program: number -> value
    store,    \* id_store, id_store_used, id_store_cap and the words written
    lib,      \* idl_lock, idl_inited, idl_framed, the marks of the frame, and how
              \* many constants idc_const_init has made
    export,   \* the value an exported variable holds, or 0
    pc, code, \* of each host thread
    scoped, ops, calls

vars == <<h, vals, store, lib, export, pc, code, scoped, ops, calls>>

NoStore == [p |-> NoBlock, used |-> 1, cap |-> 0, dirty |-> {}]

Init ==
    /\ h = EmptyHeap
    /\ vals = [i \in {} |-> 0]
    /\ store = NoStore
    /\ lib = [owner |-> {}, inited |-> 0, made |-> 0, framed |-> FALSE, poolMark |-> {}, storeMark |-> 1]
    /\ export = 0
    /\ pc = [t \in Hosts |-> "host"]
    /\ code = [t \in Hosts |-> 0]
    /\ scoped \in ScopedSet
    /\ ops = 0 /\ calls = 0

(***************************************************************************)
(* Values on the heap: every operation gives the new heap and the value.   *)
(***************************************************************************)
Max2(a, b) == IF a < b THEN b ELSE a
Abs(n) == IF n < 0 THEN 0 - n ELSE n

\* The bytes of a string, and of the header block and the cells of the rest.
Cell(kind) == IF kind = "list" THEN 8 ELSE 1
BlockBytes(kind, n) == IF kind = "str" THEN n + 9 ELSE 16 + Cell(kind) * n
LeastCap(kind) == IF kind = "list" THEN 4 ELSE 8
Inline(o) == o.d.m = 0

\* id_str_new, id_list_make, id_bytes_make; a list literal has no room to spare.
MakeCap(kind, n) == IF kind = "str" THEN n ELSE Max2(n, LeastCap(kind))
LitCap(n) == IF n < 1 THEN 4 ELSE n
Made(kind, p, cap, n, own) == [kind |-> kind, p |-> p, d |-> NoBlock, cap |-> cap, ic |-> 0, len |-> n, own |-> own]
Make(g, kind, cap, n, own, m) ==
    LET r == pool_get(g, BlockBytes(kind, cap), m)
    IN [h |-> r.h, v |-> Made(kind, r.p, cap, n, own)]

\* The sizes id_str_free, id_list_free and id_bytes_free tell the pool, from
\* what the value says of itself.
FreedCap(o) == Abs(o.cap)
CellBytes(o) == Cell(o.kind) * FreedCap(o)
HeadBytes(o) ==
    CASE o.kind = "str" -> o.len + 9
      [] o.kind \in {"line", "all"} -> o.cap
      [] OTHER -> 16 + Cell(o.kind) * (IF Inline(o) THEN FreedCap(o) ELSE o.ic)

\* id_list_grow and id_bytes_reserve, for one more cell.
GrownCap(o) == IF o.kind = "list" /\ o.cap < 2 THEN 4 ELSE 2 * o.cap
GrownBytes(o) == Cell(o.kind) * GrownCap(o)
GrowIc(o) == IF Inline(o) THEN o.cap ELSE o.ic   \* kept in the first inline cell
GrowAt(o) == IF Inline(o) THEN Malloc(h) ELSE Realloc(h, o.d, CellBytes(o), GrownBytes(o))

Grow(g, o, m) ==
    LET r == IF Inline(o) THEN pool_get(g, GrownBytes(o), m)
             ELSE id_realloc(g, o.d, CellBytes(o), GrownBytes(o), m)
    IN [h |-> r.h, v |-> [o EXCEPT !.d = r.p, !.cap = GrownCap(o), !.ic = GrowIc(o)]]

\* The pushes that fill a list and the one that makes it grow.
Push(g, o, m) == LET r == Grow(g, o, m) IN [h |-> r.h, v |-> [r.v EXCEPT !.len = o.cap + 1]]

Free(g, o) ==
    pool_free(IF Inline(o) THEN g ELSE pool_free(g, o.d, CellBytes(o)), o.p, HeadBytes(o))

\* id_concat_f: the result is built in a's block, and b is given back.
ConcatInto(g, a, b, m) ==
    LET n == a.len + b.len
        r == id_realloc(g, a.p, a.len + 9, n + 9, m)
    IN [h |-> Free(r.h, b), v |-> [a EXCEPT !.p = r.p, !.len = n, !.cap = n]]

\* id_input and id_read_all: a block that doubles, cut to the length read.
FirstRead(kind) == IF kind = "line" THEN 64 ELSE ReadAllCap
ReadStart(g, kind, n, own, m) ==
    LET r == pool_get(g, FirstRead(kind), m)
    IN [h |-> r.h, v |-> Made(kind, r.p, FirstRead(kind), n, own)]
ReadFull(o) == 8 + o.len + (IF o.kind = "all" THEN 1 ELSE 0) >= o.cap
ReadGrown(g, o, m) ==
    LET r == id_realloc(g, o.p, o.cap, 2 * o.cap, m)
    IN [h |-> r.h, v |-> [o EXCEPT !.p = r.p, !.cap = 2 * o.cap]]
ReadCut(g, o, m) ==
    LET r == id_realloc(g, o.p, o.cap, o.len + 9, m)
    IN [h |-> r.h, v |-> [o EXCEPT !.p = r.p, !.kind = "str", !.cap = o.len]]

With(f, i, v) == [j \in DOMAIN f \cup {i} |-> IF j = i THEN v ELSE f[j]]
Keeping(S) == [i \in S |-> vals[i]]

(***************************************************************************)
(* idl_begin: the constants, outside every frame, then the frame.          *)
(***************************************************************************)
\* IDL_BEGIN: the lock, the error of this call, setjmp.
Enter(t) ==
    /\ pc[t] = "host" /\ lib.owner = {} /\ calls < MaxCalls
    /\ lib' = [lib EXCEPT !.owner = {t}, !.made = 0]
    /\ pc' = [pc EXCEPT ![t] = "init"]
    /\ code' = [code EXCEPT ![t] = 1]
    /\ calls' = calls + 1
    /\ UNCHANGED <<h, vals, store, export, scoped, ops>>

\* idc_const_init makes a string and a frozen list, and keeps them in globals;
\* after a trap it starts again and what it made before is lost.
ConstString(m) == Make(h, "str", 8, 8, "const", m)
ConstList(m) == LET r == Make(h, "list", 4, 4, "const", m) IN [h |-> r.h, v |-> [r.v EXCEPT !.cap = 0 - @]]

const_init(t) ==
    /\ pc[t] = "init" /\ lib.inited # 2 /\ lib.made < 2
    /\ \E m \in Malloc(h) : LET r == IF lib.made = 0 THEN ConstString(m) ELSE ConstList(m) IN
          h' = r.h /\ vals' = With(vals, 0 - 1 - lib.made, r.v)
    /\ lib' = [lib EXCEPT !.inited = 1, !.made = @ + 1]
    /\ UNCHANGED <<store, export, pc, code, scoped, ops, calls>>

OpenFrame(g) == [g EXCEPT !.under = @ \cup g.arena, !.fl = NoFree, !.cur = 0, !.at = 0, !.left = 0]

idl_begin(t) ==
    /\ pc[t] = "init" /\ (lib.inited = 2 \/ lib.made = 2)
    /\ IF scoped
       THEN /\ h' = OpenFrame(h)
            /\ lib' = [lib EXCEPT !.inited = 2, !.framed = TRUE, !.poolMark = h.chunks, !.storeMark = store.used]
       ELSE /\ lib' = [lib EXCEPT !.inited = 2]
            /\ UNCHANGED h
    /\ pc' = [pc EXCEPT ![t] = "run"]
    /\ UNCHANGED <<vals, store, export, code, scoped, ops, calls>>

(***************************************************************************)
(* idl_release and idl_done.                                               *)
(***************************************************************************)
MutStoreFreed(g) == g.under
MutLargeKept(g) == g.arena
KeptArena(g) == g.under \cup (g.arena \cap {store.p.m})

CloseFrame(g) ==
    [g EXCEPT !.arena = KeptArena(g), !.under = {}, !.chunks = @ \cap lib.poolMark,
              !.fl = NoFree, !.cur = 0, !.at = 0, !.left = 0]

MutNotZeroed(st) == [st EXCEPT !.used = lib.storeMark]
ResetStore(st) == [st EXCEPT !.used = lib.storeMark, !.dirty = {a \in @ : a < lib.storeMark}]

\* g is the heap the call leaves.
idl_done(t, c, g) ==
    /\ h' = IF lib.framed THEN CloseFrame(g) ELSE g
    /\ store' = IF lib.framed THEN ResetStore(store) ELSE store
    /\ vals' = Keeping({i \in DOMAIN vals : vals[i].own = "const" \/ (~scoped /\ i = export)})
    /\ lib' = [lib EXCEPT !.owner = {}, !.framed = FALSE]
    /\ pc' = [pc EXCEPT ![t] = "host"]
    /\ code' = [code EXCEPT ![t] = c]
    /\ UNCHANGED <<export, scoped, ops, calls>>

(***************************************************************************)
(* What the id program does between.                                       *)
(***************************************************************************)
Reading == {i \in DOMAIN vals : vals[i].kind \in {"line", "all"}}
Running(t) == pc[t] = "run" /\ ops < MaxOps /\ Reading = {}
Own == IF scoped THEN "frame" ELSE "keep"
Mine == {i \in DOMAIN vals : i > 0}
NewNumbers == {i \in 1 .. MaxValues : i \notin DOMAIN vals /\ \A j \in 1 .. i - 1 : j \in DOMAIN vals}
Stepped == ops' = ops + 1 /\ UNCHANGED <<store, lib, export, pc, code, scoped, calls>>

NewValue(t, kind, n) ==
    /\ Running(t)
    /\ \E i \in NewNumbers, m \in Malloc(h) :
          LET r == Make(h, kind, MakeCap(kind, n), n, Own, m) IN h' = r.h /\ vals' = With(vals, i, r.v)
    /\ Stepped

list_lit(t, n) ==
    /\ Running(t)
    /\ \E i \in NewNumbers, m \in Malloc(h) :
          LET r == Make(h, "list", LitCap(n), n, Own, m) IN h' = r.h /\ vals' = With(vals, i, r.v)
    /\ Stepped

ReadInput(t, kind, n) ==
    /\ Running(t)
    /\ \E i \in NewNumbers, m \in Malloc(h) :
          LET r == ReadStart(h, kind, n, Own, m) IN h' = r.h /\ vals' = With(vals, i, r.v)
    /\ Stepped

ReadMore(t, i) ==
    /\ pc[t] = "run" /\ ReadFull(vals[i])
    /\ \E m \in Realloc(h, vals[i].p, vals[i].cap, 2 * vals[i].cap) :
          LET r == ReadGrown(h, vals[i], m) IN h' = r.h /\ vals' = With(vals, i, r.v)
    /\ UNCHANGED <<store, lib, export, pc, code, scoped, ops, calls>>

ReadEnd(t, i) ==
    /\ pc[t] = "run" /\ ~ReadFull(vals[i])
    /\ \E m \in Realloc(h, vals[i].p, vals[i].cap, vals[i].len + 9) :
          LET r == ReadCut(h, vals[i], m) IN h' = r.h /\ vals' = With(vals, i, r.v)
    /\ UNCHANGED <<store, lib, export, pc, code, scoped, ops, calls>>

CanPush(i) == vals[i].kind # "str" /\ vals[i].cap > 0
PushCell(t, i) ==
    /\ Running(t) /\ CanPush(i)
    /\ \E m \in GrowAt(vals[i]) :
          LET r == Push(h, vals[i], m) IN h' = r.h /\ vals' = With(vals, i, r.v)
    /\ Stepped

\* id_list_lock, by id_clo_copy for a list a closure captures.
Freeze(t, i) ==
    /\ Running(t) /\ vals[i].kind = "list" /\ vals[i].cap > 0
    /\ vals' = With(vals, i, [vals[i] EXCEPT !.cap = 0 - @])
    /\ UNCHANGED h /\ Stepped

FreeValue(t, i) ==
    /\ Running(t) /\ i # export
    /\ h' = Free(h, vals[i]) /\ vals' = Keeping(DOMAIN vals \ {i})
    /\ Stepped

CanConcat(i, j) == i # j /\ export \notin {i, j} /\ vals[i].kind = "str" /\ vals[j].kind = "str"
Concat(t, i, j) ==
    /\ Running(t) /\ CanConcat(i, j)
    /\ \E m \in Realloc(h, vals[i].p, vals[i].len + 9, vals[i].len + vals[j].len + 9) :
          LET r == ConcatInto(h, vals[i], vals[j], m) IN
          h' = r.h /\ vals' = With(Keeping(DOMAIN vals \ {j}), i, r.v)
    /\ Stepped

Export(t, i) ==
    /\ Running(t) /\ Exporting /\ ~scoped
    /\ export' = i /\ ops' = ops + 1
    /\ UNCHANGED <<h, vals, store, lib, pc, code, scoped, calls>>

(***************************************************************************)
(* The flat store: id_mem_alloc, id_store_grow, id_poke_n.  The words are  *)
(* zero where they are not in dirty.                                       *)
(***************************************************************************)
Base == ((store.used + 7) \div 8) * 8
\* The loop of id_store_grow: the first capacity that is enough.
NewCap(end) == Lowest({c \in StoreCaps : c >= end})

mem_alloc(t, n) ==
    /\ Running(t)
    /\ \/ /\ Base + n <= store.cap
          /\ store' = [store EXCEPT !.used = Base + n] /\ UNCHANGED h
       \/ /\ Base + n > store.cap
          /\ \E c \in NewCap(Base + n) : \E m \in Realloc(h, store.p, store.cap, c) :
                LET r == id_realloc(h, store.p, store.cap, c, m) IN
                h' = r.h /\ store' = [store EXCEPT !.p = r.p, !.used = Base + n, !.cap = c]
    /\ ops' = ops + 1
    /\ UNCHANGED <<vals, lib, export, pc, code, scoped, calls>>

Poke(t) ==
    /\ Running(t) /\ store.used > 8
    /\ store' = [store EXCEPT !.dirty = @ \cup {store.used - 8}]
    /\ ops' = ops + 1
    /\ UNCHANGED <<h, vals, lib, export, pc, code, scoped, calls>>

(***************************************************************************)
(* Leaving: the result (0), a trap of the program or out of memory (1), a  *)
(* bad argument (2); a trap in idc_const_init leaves before the frame.     *)
(***************************************************************************)
Leave(t) == pc[t] = "run" /\ \E c \in {0, 1, 2} : (c = 0 => Reading = {}) /\ idl_done(t, c, h)

\* What the program may ask id_realloc for next: <<block, its size, the new size>>.
Resizes(t) ==
    {<<vals[i].p, vals[i].cap, IF ReadFull(vals[i]) THEN 2 * vals[i].cap ELSE vals[i].len + 9>> : i \in Reading}
    \cup (IF ~Running(t) THEN {} ELSE
          {<<vals[i].d, CellBytes(vals[i]), GrownBytes(vals[i])>> : i \in {j \in Mine : CanPush(j)}}
          \cup {<<vals[x[1]].p, vals[x[1]].len + 9, vals[x[1]].len + vals[x[2]].len + 9>> :
                  x \in {y \in Mine \X Mine : CanConcat(y[1], y[2])}}
          \cup {<<store.p, store.cap, c>> : c \in UNION {NewCap(Base + n) : n \in {a \in StoreSizes : Base + a > store.cap}}})

\* realloc fails after id_arena_unlink, and id_pool_oom leaves the call by longjmp.
ReallocFails(t) ==
    /\ pc[t] = "run"
    /\ \E r \in Resizes(t) : /\ Moves(r[1], r[2], r[3]) /\ r[1].m \notin h.lost
                            /\ idl_done(t, 1, realloc_fails(h, r[1].m))

\* To unlink a block that is in no list writes through the links it had when it
\* was in one.  Either they happen to fit, as the steps above assume, or the
\* list is destroyed, and nothing is said of what comes then.
UnlinksLost(t) ==
    \/ \E r \in Resizes(t) : r[1].m \in h.lost /\ r[2] > PoolMax
    \/ \E i \in Mine \ {export} : {vals[i].p.m, vals[i].d.m} \cap h.lost # {}

ListDestroyed(t) ==
    /\ Running(t) /\ UnlinksLost(t)
    /\ pc' = [pc EXCEPT ![t] = "broken"]
    /\ UNCHANGED <<h, vals, store, lib, export, code, scoped, ops, calls>>

InitTrap(t) ==
    /\ pc[t] = "init" /\ lib.inited # 2
    /\ lib' = [lib EXCEPT !.owner = {}, !.inited = 1]
    /\ pc' = [pc EXCEPT ![t] = "host"]
    /\ code' = [code EXCEPT ![t] = 1]
    /\ UNCHANGED <<h, vals, store, export, scoped, ops, calls>>

idl_shutdown ==
    /\ lib.owner = {} /\ lib.inited # 0
    /\ h' = arena_free_all(h)
    /\ vals' = Keeping({})
    /\ store' = NoStore
    /\ lib' = [lib EXCEPT !.inited = 0]
    /\ UNCHANGED <<export, pc, code, scoped, ops, calls>>

Work(t) ==
    \/ \E kind \in {"str", "list", "bytes"}, n \in Lens : NewValue(t, kind, n)
    \/ \E n \in LitLens : list_lit(t, n)
    \/ \E kind \in {"line", "all"}, n \in Lens : ReadInput(t, kind, n)
    \/ \E i \in Reading : ReadMore(t, i) \/ ReadEnd(t, i)
    \/ \E i \in Mine : PushCell(t, i) \/ Freeze(t, i) \/ FreeValue(t, i) \/ Export(t, i)
    \/ \E i, j \in Mine : Concat(t, i, j)
    \/ \E n \in StoreSizes : mem_alloc(t, n)
    \/ Poke(t)

Next ==
    \/ \E t \in Hosts : Enter(t) \/ const_init(t) \/ InitTrap(t) \/ idl_begin(t) \/ Work(t) \/ Leave(t)
                      \/ ReallocFails(t) \/ ListDestroyed(t)
    \/ idl_shutdown

Spec == Init /\ [][Next]_vars

-------------------------------------------------------------------------------
(***************************************************************************)
(* Properties.                                                             *)
(***************************************************************************)
\* The blocks in hands: of a value, of all of them and the store; on free lists.
HeldBy(v) == {v.p} \cup (IF Inline(v) THEN {} ELSE {v.d})
InUse(f, st) == (UNION {HeldBy(f[i]) : i \in DOMAIN f}) \cup (IF st.p.m = 0 THEN {} ELSE {st.p})
Listed(g) == UNION {{g.fl[k][x] : x \in DOMAIN g.fl[k]} : k \in DOMAIN g.fl}

\* Two blocks have no byte in common.
Apart(b, c) ==
    \/ b.m # c.m
    \/ /\ b.k # 0 /\ c.k # 0
       /\ b.at + class_bytes(b.k) <= c.at \/ c.at + class_bytes(c.k) <= b.at

\* No memory is in two hands: no two values share a block, none that a value or
\* the store holds is on a free list, no free list has a block twice or one
\* that was carved for another class, and different blocks have no byte in
\* common.  Growth in place, freezing and the sizes recomputed at each free
\* must all agree for that.
NoBlockTwice ==
    /\ \A i, j \in DOMAIN vals : i # j => HeldBy(vals[i]) \cap HeldBy(vals[j]) = {}
    /\ \A i \in DOMAIN vals : store.p \notin HeldBy(vals[i])
    /\ InUse(vals, store) \cap Listed(h) = {}
    /\ \A k \in DOMAIN h.fl : \A x, y \in DOMAIN h.fl[k] : h.fl[k][x].k = k /\ (x # y => h.fl[k][x] # h.fl[k][y])
    /\ \A b, c \in InUse(vals, store) \cup Listed(h) : b # c => Apart(b, c)

\* What a value or the store holds has not been given back to malloc, whatever
\* way calls were left: closing a frame leaves the constants and the store,
\* also a store that id_store_grow could not enlarge.  A large block is in the
\* list that is swept at exit, unless a realloc of it failed: such a block is
\* held, and in no list.
Allocated(g, b) == b.m \in (IF b.k = 0 THEN g.arena \cup g.lost ELSE g.chunks)
HeldIsAllocated == \A b \in InUse(vals, store) : Allocated(h, b)

\* A scoped library keeps nothing in its lists between calls but its constants
\* and the store's memory, whatever way the calls before were left.  (A block
\* that a failed realloc took out of the list is leaked.)
ScopedKeepsNothing ==
    (scoped /\ lib.owner = {}) =>
        /\ \A i \in DOMAIN vals : vals[i].own = "const"
        /\ h.arena \subseteq {b.m : b \in InUse(vals, store)}
        /\ store.used = 1

\* The store's memory is zero when it is allocated, as id_mem_alloc promises
\* a program, although earlier calls wrote to the same addresses.
FreshStoreIsZero == \A a \in store.dirty : a < store.used
===============================================================================
