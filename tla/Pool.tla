--------------------------------- MODULE Pool ---------------------------------
(***************************************************************************)
(* The runtime's allocator as functions of its state.  A heap h has the    *)
(* chunks, the bump pointer (offset at in chunk cur) and the bytes left    *)
(* behind it, a free list per size class, and in arena the large blocks,   *)
(* each with a header in a list.  The order of that list is seen in one    *)
(* place only: under are the blocks behind the header idl_frame.  A block  *)
(* whose realloc failed is in lost: still malloc's, and in no list.        *)
(*                                                                         *)
(* A block is [m, at, k]: the malloc it lies in, its offset there, and the *)
(* class it was carved for, 0 for a large block.  A block does not carry   *)
(* its size: who frees one says how large it is.  An operation is given m, *)
(* the address malloc or realloc would return if it has to ask.            *)
(***************************************************************************)
EXTENDS Integers, Sequences

CONSTANTS
    PoolMax,     \* ID_POOL_MAX, 16384 in the code
    ChunkBytes,  \* ID_CHUNK, 262144 in the code
    Mallocs      \* the addresses malloc may return

POOL_SMALL == 512
NCLASS == 53
CHUNK_HDR == 16

(***************************************************************************)
(* id_pool_class, id_pool_class_bytes: multiples of 16 up to 512, then     *)
(* four classes for each power of two.                                     *)
(***************************************************************************)
Exponent(m) == CHOOSE e \in 9 .. 13 : 2 ^ e <= m /\ m < 2 ^ (e + 1)

pool_class(n) ==
    IF n <= POOL_SMALL THEN IF n = 0 THEN 1 ELSE (n + 15) \div 16
    ELSE LET m == n - 1  e == Exponent(m) IN
         33 + (e - 9) * 4 + ((m \div 2 ^ (e - 2)) % 4)

class_bytes(k) ==
    IF k <= 32 THEN k * 16
    ELSE LET j == k - 33  e == 9 + (j \div 4) IN
         2 ^ e + ((j % 4) + 1) * 2 ^ (e - 2)

Classes == 1 .. pool_class(PoolMax)

\* The classes are entries of id_pool_fl and hold what is put in them, and the
\* largest fits in a new chunk: id_pool_carve does not look again after taking one.
ASSUME PoolAssumption ==
    /\ PoolMax \in 1 .. 16384 /\ ChunkBytes \in Nat
    /\ Mallocs \subseteq Nat \ {0}
    /\ pool_class(PoolMax) < NCLASS
    /\ \A n \in 0 .. PoolMax : pool_class(n) \in Classes /\ n <= class_bytes(pool_class(n))
    /\ \A k \in Classes : class_bytes(k) \in 1 .. ChunkBytes - CHUNK_HDR

NoBlock == [m |-> 0, at |-> 0, k |-> 0]

NoFree == [k \in Classes |-> <<>>]

EmptyHeap == [chunks |-> {}, cur |-> 0, at |-> 0, left |-> 0, fl |-> NoFree, arena |-> {}, under |-> {}, lost |-> {}]

(***************************************************************************)
(* malloc returns an address that is not in use, and none if there is none *)
(* left; the lowest will do.  realloc may leave a block where it is.       *)
(***************************************************************************)
Unused(h) == Mallocs \ (h.chunks \cup h.arena \cup h.lost)
Lowest(S) == {a \in S : \A o \in S : a <= o}
Malloc(h) == Lowest(Unused(h))
Realloc(h, p, old, n) ==
    IF old > PoolMax /\ n > PoolMax THEN Lowest(Unused(h) \cup {p.m}) ELSE Malloc(h)

arena_unlink(h, m) == [h EXCEPT !.arena = @ \ {m}, !.under = @ \ {m}, !.lost = @ \ {m}]
arena_link(h, m) == [h EXCEPT !.arena = @ \cup {m}]

NewChunk(h, m) == [h EXCEPT !.chunks = @ \cup {m}, !.cur = m, !.at = CHUNK_HDR, !.left = ChunkBytes - CHUNK_HDR]
Carved(h, k) == [h |-> [h EXCEPT !.at = @ + class_bytes(k), !.left = @ - class_bytes(k)],
                 p |-> [m |-> h.cur, at |-> h.at, k |-> k]]
pool_carve(h, k, m) == Carved(IF h.left < class_bytes(k) THEN NewChunk(h, m) ELSE h, k)

MutTaken(h, k) == h
Taken(h, k) == [h EXCEPT !.fl = [h.fl EXCEPT ![k] = Tail(@)]]

pool_large_alloc(h, m) == [h |-> arena_link(h, m), p |-> [m |-> m, at |-> 0, k |-> 0]]

pool_get(h, n, m) ==
    IF n > PoolMax THEN pool_large_alloc(h, m)
    ELSE LET k == pool_class(n) IN
         IF h.fl[k] = <<>> THEN pool_carve(h, k, m)
         ELSE [h |-> Taken(h, k), p |-> Head(h.fl[k])]

pool_free(h, p, n) ==
    IF p.m = 0 THEN h
    ELSE IF n > PoolMax THEN arena_unlink(h, p.m)
    ELSE [h EXCEPT !.fl = [h.fl EXCEPT ![pool_class(n)] = <<p>> \o @]]

id_realloc(h, p, old, n, m) ==
    IF p.m = 0 THEN pool_get(h, n, m)
    ELSE IF old > PoolMax /\ n > PoolMax THEN pool_large_alloc(arena_unlink(h, p.m), m)
    ELSE IF old <= PoolMax /\ n <= PoolMax /\ pool_class(old) = pool_class(n) THEN [h |-> h, p |-> p]
    ELSE LET r == pool_get(h, n, m) IN [h |-> pool_free(r.h, p, old), p |-> r.p]

\* id_realloc asks realloc for a large block that stays large after it has taken
\* the header out of the list; when realloc fails, id_pool_oom leaves it there.
Moves(p, old, n) == p.m # 0 /\ old > PoolMax /\ n > PoolMax
realloc_fails(h, m) == [arena_unlink(h, m) EXCEPT !.lost = @ \cup {m}]

\* id_pool_drop and id_arena_free_all: what is in no list is never freed.
pool_drop(h) == [h EXCEPT !.chunks = {}, !.cur = 0, !.at = 0, !.left = 0, !.fl = NoFree]
arena_free_all(h) == [pool_drop(h) EXCEPT !.arena = {}, !.under = {}]
===============================================================================
