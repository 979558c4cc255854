--------------------------- MODULE LibCallsProofs ---------------------------
(***************************************************************************)
(* Proofs about the runtime's allocator and the calls into a library: no   *)
(* memory in two hands, nothing given back to malloc while it is held, and *)
(* nothing kept between the calls of a scoped library, for any size        *)
(* classes, chunks, addresses, hosts and number of operations.             *)
(***************************************************************************)
EXTENDS LibCalls, TLAPS

(***************************************************************************)
(* The heap.  U are the blocks in use.                                     *)
(***************************************************************************)
Block == [m : Nat, at : Nat, k : Nat]

Heap == [chunks : SUBSET Mallocs, cur : Nat, at : Nat, left : Int, fl : [Classes -> Seq(Block)],
         arena : SUBSET Mallocs, under : SUBSET Mallocs, lost : SUBSET Mallocs]

\* A block is where malloc has given memory, and behind the bump pointer.
BlockOk(g, b) ==
    /\ b \in Block /\ b.m # 0
    /\ b.k = 0 => b.at = 0 /\ b.m \in g.arena \cup g.lost
    /\ b.k # 0 => /\ b.k \in Classes /\ b.m \in g.chunks
                  /\ b.m = g.cur => b.at + class_bytes(b.k) <= g.at

HeapOk(g) ==
    /\ g \in Heap
    /\ g.chunks \cap g.arena = {} /\ g.chunks \cap g.lost = {} /\ g.arena \cap g.lost = {}
    /\ IF g.cur = 0 THEN g.left = 0 ELSE g.cur \in g.chunks
    /\ g.under \subseteq g.arena

ListsOk(g) == \A k \in Classes : \A x, y \in DOMAIN g.fl[k] :
                 g.fl[k][x].k = k /\ (x # y => g.fl[k][x] # g.fl[k][y])

HeapInv(g, U) ==
    /\ HeapOk(g)
    /\ ListsOk(g)
    /\ \A b \in U \cup Listed(g) : BlockOk(g, b)
    /\ \A b, c \in U \cup Listed(g) : b # c => Apart(b, c)
    /\ U \cap Listed(g) = {}

\* A request that was answered by r: the heap with one more block in use, of class k.
Got(g, U, r, k) ==
    /\ HeapInv(r.h, U \cup {r.p}) /\ r.p \notin U /\ r.p.m # 0 /\ r.p \in Block /\ r.p.k = k
    /\ g.chunks \subseteq r.h.chunks /\ r.h.under \subseteq g.under
    /\ k # 0 => r.h.arena = g.arena

\* The class pool_get gives a block of n bytes.
ClassOf(n) == IF n > PoolMax THEN 0 ELSE pool_class(n)

LEMMA Sizes ==
    /\ PoolMax \in Nat /\ PoolMax >= 48 /\ Mallocs \subseteq Nat \ {0}
    /\ \A n \in Nat : n <= PoolMax => pool_class(n) \in Classes
    /\ \A k \in Classes : k \in Nat /\ k # 0 /\ class_bytes(k) \in Nat /\ class_bytes(k) > 0 /\ class_bytes(k) <= ChunkBytes - CHUNK_HDR
    /\ ChunkBytes \in Nat /\ CHUNK_HDR \in Nat /\ CHUNK_HDR > 0
PROOF
<1>1. PoolMax \in Nat /\ Mallocs \subseteq Nat \ {0} /\ ChunkBytes \in Nat
  BY PoolAssumption
<1>2. PoolMax >= 48
  BY LibAssumption
<1>3. \A n \in Nat : n <= PoolMax => pool_class(n) \in Classes
  <2> SUFFICES ASSUME NEW n \in Nat, n <= PoolMax PROVE pool_class(n) \in Classes
    OBVIOUS
  <2>1. n \in 0 .. PoolMax
    BY <1>1
  <2> QED
    BY <2>1, PoolAssumption
<1>4. \A k \in Classes : k \in Nat /\ k # 0 /\ class_bytes(k) \in Nat /\ class_bytes(k) > 0 /\ class_bytes(k) <= ChunkBytes - CHUNK_HDR
  <2> SUFFICES ASSUME NEW k \in Classes PROVE k \in Nat /\ k # 0 /\ class_bytes(k) \in Nat /\ class_bytes(k) > 0 /\ class_bytes(k) <= ChunkBytes - CHUNK_HDR
    OBVIOUS
  <2>1. pool_class(PoolMax) \in Int
    <3>1. pool_class(PoolMax) \in Classes
      BY <1>1, <1>3
    <3> QED
      BY <3>1 DEF Classes
  <2>2. k \in Nat /\ k # 0
    BY <2>1 DEF Classes
  <2>3. class_bytes(k) \in 1 .. ChunkBytes - CHUNK_HDR
    BY PoolAssumption
  <2> QED
    BY <2>2, <2>3, <1>1 DEF CHUNK_HDR
<1> QED
  BY <1>1, <1>2, <1>3, <1>4 DEF CHUNK_HDR

\* What is on the free lists.
LEMMA ListedIs ==
  ASSUME NEW g, NEW b, DOMAIN g.fl = Classes
  PROVE  b \in Listed(g) <=> \E k \in Classes : \E x \in DOMAIN g.fl[k] : b = g.fl[k][x]
PROOF BY DEF Listed

\* Blocks that go out of use, as in a call that is left by a trap, do no harm.
LEMMA Fewer ==
  ASSUME NEW g, NEW U, NEW V, HeapInv(g, U), V \subseteq U
  PROVE  HeapInv(g, V)
PROOF BY DEF HeapInv

(***************************************************************************)
(* id_pool_large_alloc                                                     *)
(***************************************************************************)
LEMMA LargeAlloc ==
  ASSUME NEW g, NEW U, NEW m \in Unused(g), HeapInv(g, U)
  PROVE  Got(g, U, pool_large_alloc(g, m), 0)
PROOF
<1> DEFINE q == [m |-> m, at |-> 0, k |-> 0]
           f == [g EXCEPT !.arena = g.arena \cup {m}]
<1>1. g \in Heap /\ m \in Mallocs /\ m \in Nat /\ m # 0 /\ m \notin g.chunks /\ m \notin g.arena /\ m \notin g.lost
  BY Sizes DEF Unused, HeapInv, HeapOk
<1>2. pool_large_alloc(g, m) = [h |-> f, p |-> q]
  BY DEF pool_large_alloc, arena_link
<1>3. /\ f \in Heap /\ f.fl = g.fl /\ f.chunks = g.chunks /\ f.cur = g.cur /\ f.at = g.at /\ f.left = g.left
      /\ f.under = g.under /\ f.arena = g.arena \cup {m} /\ f.lost = g.lost
  BY <1>1 DEF Heap
<1>4. Listed(f) = Listed(g)
  BY <1>3 DEF Listed
<1>5. q \in Block /\ q.m = m /\ q.at = 0 /\ q.k = 0
  BY <1>1 DEF Block
<1> HIDE DEF q, f
<1>6. HeapOk(f) /\ ListsOk(f)
  BY <1>1, <1>3 DEF HeapInv, HeapOk, ListsOk
<1>7. \A b \in U \cup Listed(g) : BlockOk(f, b)
  BY <1>3 DEF HeapInv, BlockOk
<1>8. BlockOk(f, q)
  BY <1>1, <1>3, <1>5 DEF BlockOk
<1>9. \A b \in U \cup Listed(g) : b.m # m
  BY <1>1 DEF HeapInv, BlockOk
<1>10. q \notin U /\ q \notin Listed(g)
  BY <1>9, <1>5
<1>11. \A b, c \in U \cup {q} \cup Listed(g) : b # c => Apart(b, c)
  BY <1>9, <1>5 DEF HeapInv, Apart
<1>12. HeapInv(f, U \cup {q})
  BY <1>4, <1>6, <1>7, <1>8, <1>10, <1>11 DEF HeapInv
<1> QED
  BY <1>1, <1>2, <1>3, <1>5, <1>10, <1>12 DEF Got

(***************************************************************************)
(* id_pool_carve                                                           *)
(***************************************************************************)
LEMMA ChunkAdded ==
  ASSUME NEW g, NEW U, NEW m \in Unused(g), HeapInv(g, U)
  PROVE  LET f == NewChunk(g, m) IN
         /\ HeapInv(f, U) /\ f.cur = m /\ f.left = ChunkBytes - CHUNK_HDR
         /\ f.under = g.under /\ f.arena = g.arena /\ g.chunks \subseteq f.chunks /\ f.fl = g.fl
PROOF
<1> DEFINE f == NewChunk(g, m)
<1>1. g \in Heap /\ m \in Mallocs /\ m \in Nat /\ m # 0 /\ m \notin g.chunks /\ m \notin g.arena /\ m \notin g.lost
  BY Sizes DEF Unused, HeapInv, HeapOk
<1>2. /\ f \in Heap /\ f.fl = g.fl /\ f.chunks = g.chunks \cup {m} /\ f.cur = m /\ f.at = CHUNK_HDR
      /\ f.left = ChunkBytes - CHUNK_HDR /\ f.under = g.under /\ f.arena = g.arena /\ f.lost = g.lost
  <2>1. CHUNK_HDR \in Nat /\ ChunkBytes - CHUNK_HDR \in Int /\ g.chunks \cup {m} \in SUBSET Mallocs
    BY <1>1, Sizes DEF Heap
  <2> QED
    BY <1>1, <2>1 DEF Heap, NewChunk
<1> HIDE DEF f
<1>3. Listed(f) = Listed(g)
  BY <1>2 DEF Listed
<1>4. HeapOk(f) /\ ListsOk(f)
  BY <1>1, <1>2 DEF HeapInv, HeapOk, ListsOk
<1>5. \A b \in U \cup Listed(g) : BlockOk(f, b)
  BY <1>1, <1>2 DEF HeapInv, BlockOk
<1>6. HeapInv(f, U)
  BY <1>3, <1>4, <1>5 DEF HeapInv
<1> QED
  BY <1>2, <1>6 DEF f

LEMMA CarvedOk ==
  ASSUME NEW g, NEW U, NEW k \in Classes, HeapInv(g, U), g.left >= class_bytes(k)
  PROVE  Got(g, U, Carved(g, k), k)
PROOF
<1> DEFINE q == [m |-> g.cur, at |-> g.at, k |-> k]
           f == [g EXCEPT !.at = g.at + class_bytes(k), !.left = g.left - class_bytes(k)]
<1>1. g \in Heap /\ k \in Nat /\ k # 0 /\ class_bytes(k) \in Nat /\ class_bytes(k) > 0
  BY Sizes DEF HeapInv, HeapOk
<1>2. g.cur \in Nat /\ g.at \in Nat /\ g.left \in Int
  BY <1>1 DEF Heap
<1>a. g.at + class_bytes(k) \in Nat /\ g.left - class_bytes(k) \in Int
  BY <1>1, <1>2
<1>3. g.cur # 0 /\ g.cur \in g.chunks
  BY <1>1, <1>2 DEF HeapInv, HeapOk
<1>4. Carved(g, k) = [h |-> f, p |-> q]
  BY DEF Carved
<1>5. /\ f \in Heap /\ f.fl = g.fl /\ f.chunks = g.chunks /\ f.cur = g.cur /\ f.at = g.at + class_bytes(k)
      /\ f.under = g.under /\ f.arena = g.arena /\ f.lost = g.lost
  BY <1>1, <1>2, <1>a DEF Heap
<1>6. q \in Block /\ q.m = g.cur /\ q.at = g.at /\ q.k = k
  BY <1>1, <1>2 DEF Block
<1>7. Listed(f) = Listed(g)
  BY <1>5 DEF Listed
<1> HIDE DEF q, f
<1>8. HeapOk(f) /\ ListsOk(f)
  BY <1>3, <1>5 DEF HeapInv, HeapOk, ListsOk
<1>9. \A b \in U \cup Listed(g) : BlockOk(f, b)
  <2> SUFFICES ASSUME NEW b \in U \cup Listed(g) PROVE BlockOk(f, b)
    OBVIOUS
  <2>1. BlockOk(g, b)
    BY DEF HeapInv
  <2>2. b.k # 0 => class_bytes(b.k) \in Nat /\ b.at \in Nat
    BY <2>1, Sizes DEF BlockOk, Block
  <2> QED
    BY <2>1, <2>2, <1>1, <1>2, <1>5 DEF BlockOk
<1>10. BlockOk(f, q)
  BY <1>1, <1>2, <1>3, <1>5, <1>6 DEF BlockOk
<1>11. \A b \in U \cup Listed(g) : Apart(b, q) /\ Apart(q, b) /\ b # q
  <2> SUFFICES ASSUME NEW b \in U \cup Listed(g) PROVE Apart(b, q) /\ Apart(q, b) /\ b # q
    OBVIOUS
  <2>1. BlockOk(g, b) /\ g.chunks \cap g.arena = {} /\ g.chunks \cap g.lost = {}
    BY DEF HeapInv, HeapOk
  <2>2. b.m = g.cur => b.k # 0 /\ b.at + class_bytes(b.k) <= g.at /\ class_bytes(b.k) \in Nat /\ class_bytes(b.k) > 0 /\ b.at \in Nat
    BY <2>1, <1>3, Sizes DEF BlockOk, Block
  <2>3. b.m = g.cur => b.at # g.at
    BY <2>2, <1>2
  <2> QED
    BY <2>2, <2>3, <1>1, <1>6 DEF Apart
<1>12. \A b, c \in U \cup {q} \cup Listed(g) : b # c => Apart(b, c)
  BY <1>11 DEF HeapInv
<1>13. HeapInv(f, U \cup {q})
  BY <1>7, <1>8, <1>9, <1>10, <1>11, <1>12 DEF HeapInv
<1> QED
  BY <1>3, <1>4, <1>5, <1>6, <1>11, <1>13 DEF Got

LEMMA Carve ==
  ASSUME NEW g, NEW U, NEW m \in Unused(g), NEW k \in Classes, HeapInv(g, U)
  PROVE  Got(g, U, pool_carve(g, k, m), k)
PROOF
<1>1. class_bytes(k) \in Nat /\ class_bytes(k) <= ChunkBytes - CHUNK_HDR /\ ChunkBytes - CHUNK_HDR \in Int
  BY Sizes
<1>2. CASE g.left < class_bytes(k)
  <2>1. pool_carve(g, k, m) = Carved(NewChunk(g, m), k)
    BY <1>2 DEF pool_carve
  <2>2. HeapInv(NewChunk(g, m), U) /\ NewChunk(g, m).left >= class_bytes(k)
    BY <1>1, ChunkAdded
  <2>3. Got(NewChunk(g, m), U, Carved(NewChunk(g, m), k), k)
    BY <2>2, CarvedOk
  <2>4. /\ g.chunks \subseteq NewChunk(g, m).chunks /\ NewChunk(g, m).under = g.under
        /\ NewChunk(g, m).arena = g.arena
    BY ChunkAdded
  <2> QED
    BY <2>1, <2>3, <2>4 DEF Got
<1>3. CASE ~(g.left < class_bytes(k))
  <2>1. pool_carve(g, k, m) = Carved(g, k)
    BY <1>3 DEF pool_carve
  <2>2. g.left >= class_bytes(k)
    BY <1>1, <1>3 DEF HeapInv, HeapOk, Heap
  <2> QED
    BY <2>1, <2>2, CarvedOk
<1> QED
  BY <1>2, <1>3

(***************************************************************************)
(* id_pool_get: a block from a free list, carved, or large                 *)
(***************************************************************************)
LEMMA HeadTail ==
  ASSUME NEW S, NEW s \in Seq(S), s # <<>>
  PROVE  /\ 1 \in DOMAIN s /\ Head(s) = s[1] /\ Head(s) \in S /\ Tail(s) \in Seq(S)
         /\ \A x \in DOMAIN Tail(s) : x + 1 \in DOMAIN s /\ Tail(s)[x] = s[x + 1] /\ x + 1 # 1
         /\ \A x \in DOMAIN s : x = 1 \/ (x - 1 \in DOMAIN Tail(s) /\ Tail(s)[x - 1] = s[x])
         /\ \A x, y \in DOMAIN Tail(s) : x # y => x + 1 # y + 1
PROOF
<1>1. Len(s) \in Nat /\ Len(s) >= 1 /\ DOMAIN s = 1 .. Len(s)
  OBVIOUS
<1>2. Tail(s) \in Seq(S) /\ DOMAIN Tail(s) = 1 .. Len(s) - 1 /\ Head(s) = s[1] /\ s[1] \in S
  BY <1>1
<1>3. \A x \in 1 .. Len(s) - 1 : Tail(s)[x] = s[x + 1]
  BY <1>1
<1> QED
  BY <1>1, <1>2, <1>3

LEMMA Take ==
  ASSUME NEW g, NEW U, NEW k \in Classes, HeapInv(g, U), g.fl[k] # <<>>
  PROVE  Got(g, U, [h |-> Taken(g, k), p |-> Head(g.fl[k])], k)
PROOF
<1> DEFINE f == Taken(g, k)
           s == g.fl[k]
           p == Head(s)
<1>1. g \in Heap /\ s \in Seq(Block) /\ DOMAIN g.fl = Classes /\ g.fl \in [Classes -> Seq(Block)]
  BY DEF HeapInv, HeapOk, Heap
<1>2. /\ 1 \in DOMAIN s /\ p = s[1] /\ p \in Block /\ Tail(s) \in Seq(Block)
      /\ \A x \in DOMAIN Tail(s) : x + 1 \in DOMAIN s /\ Tail(s)[x] = s[x + 1] /\ x + 1 # 1
      /\ \A x \in DOMAIN s : x = 1 \/ (x - 1 \in DOMAIN Tail(s) /\ Tail(s)[x - 1] = s[x])
      /\ \A x, y \in DOMAIN Tail(s) : x # y => x + 1 # y + 1
  BY <1>1, HeadTail
<1> DEFINE fl2 == [g.fl EXCEPT ![k] = Tail(s)]
<1>3. fl2 \in [Classes -> Seq(Block)] /\ fl2[k] = Tail(s) /\ \A l \in Classes : l # k => fl2[l] = g.fl[l]
  BY <1>1, <1>2
<1>4. f = [g EXCEPT !.fl = fl2]
  BY Zenon DEF Taken
<1> HIDE DEF fl2
<1>5. /\ f \in Heap /\ f.fl = fl2 /\ f.chunks = g.chunks /\ f.cur = g.cur /\ f.at = g.at /\ f.left = g.left
      /\ f.under = g.under /\ f.arena = g.arena /\ f.lost = g.lost /\ DOMAIN f.fl = Classes
  BY <1>1, <1>3, <1>4 DEF Heap
<1> HIDE DEF f, s, p
<1>6. p \in Listed(g)
  BY <1>1, <1>2, ListedIs DEF s
<1>7. \A b \in Listed(f) : b \in Listed(g) /\ b # p
  <2> SUFFICES ASSUME NEW b \in Listed(f) PROVE b \in Listed(g) /\ b # p
    OBVIOUS
  <2>1. PICK l \in Classes : \E x \in DOMAIN f.fl[l] : b = f.fl[l][x]
    BY <1>5, ListedIs
  <2>2. PICK x \in DOMAIN f.fl[l] : b = f.fl[l][x]
    BY <2>1
  <2>3. CASE l = k
    <3>1. x + 1 \in DOMAIN g.fl[k] /\ b = g.fl[k][x + 1] /\ x + 1 # 1 /\ p = g.fl[k][1] /\ 1 \in DOMAIN g.fl[k]
      BY <2>2, <2>3, <1>2, <1>3, <1>5 DEF s
    <3>2. b # p
      BY <3>1 DEF HeapInv, ListsOk
    <3> QED
      BY <3>1, <3>2, <1>1, ListedIs
  <2>4. CASE l # k
    <3>1. x \in DOMAIN g.fl[l] /\ b = g.fl[l][x]
      BY <2>2, <2>4, <1>3, <1>5
    <3>2. b.k = l /\ p.k = k
      BY <3>1, <1>2 DEF HeapInv, ListsOk, s
    <3> QED
      BY <3>1, <3>2, <2>4, <1>1, ListedIs
  <2> QED
    BY <2>3, <2>4
<1>8. ListsOk(f)
  <2> SUFFICES ASSUME NEW l \in Classes, NEW x \in DOMAIN f.fl[l], NEW y \in DOMAIN f.fl[l]
               PROVE  f.fl[l][x].k = l /\ (x # y => f.fl[l][x] # f.fl[l][y])
    BY DEF ListsOk
  <2>1. CASE l = k
    <3>1. x \in DOMAIN Tail(s) /\ y \in DOMAIN Tail(s) /\ f.fl[l] = Tail(s)
      BY <2>1, <1>3, <1>5
    <3>2. x + 1 \in DOMAIN g.fl[k] /\ y + 1 \in DOMAIN g.fl[k] /\ f.fl[l][x] = g.fl[k][x + 1] /\ f.fl[l][y] = g.fl[k][y + 1] /\ (x # y => x + 1 # y + 1)
      BY <3>1, <1>2 DEF s
    <3> QED
      BY <3>2, <2>1 DEF HeapInv, ListsOk
  <2>2. CASE l # k
    BY <2>2, <1>3, <1>5 DEF HeapInv, ListsOk
  <2> QED
    BY <2>1, <2>2
<1>9. HeapOk(f)
  BY <1>5 DEF HeapInv, HeapOk
<1>10. p \notin U /\ p \notin Listed(f) /\ BlockOk(g, p)
  BY <1>6, <1>7 DEF HeapInv
<1>11. \A b \in U \cup {p} \cup Listed(f) : b \in U \cup Listed(g) /\ BlockOk(f, b)
  BY <1>5, <1>6, <1>7 DEF HeapInv, BlockOk
<1>12. HeapInv(f, U \cup {p})
  BY <1>7, <1>8, <1>9, <1>10, <1>11 DEF HeapInv
<1>13. p.m # 0 /\ p.k = k
  BY <1>10, <1>2 DEF BlockOk, HeapInv, ListsOk, s
<1>14. Got(g, U, [h |-> f, p |-> p], k)
  BY <1>2, <1>5, <1>10, <1>12, <1>13 DEF Got
<1> QED
  BY <1>14 DEF f, s, p

LEMMA Get ==
  ASSUME NEW g, NEW U, NEW m \in Unused(g), NEW n \in Nat, HeapInv(g, U)
  PROVE  Got(g, U, pool_get(g, n, m), ClassOf(n))
PROOF
<1>1. PoolMax \in Nat /\ (n <= PoolMax => pool_class(n) \in Classes)
  BY Sizes
<1>2. CASE n > PoolMax
  <2>1. pool_get(g, n, m) = pool_large_alloc(g, m) /\ ClassOf(n) = 0
    BY <1>1, <1>2 DEF pool_get, ClassOf
  <2> QED
    BY <2>1, LargeAlloc
<1>3. CASE ~(n > PoolMax)
  <2> DEFINE k == pool_class(n)
  <2>1. k \in Classes /\ ClassOf(n) = k
    BY <1>1, <1>3 DEF ClassOf
  <2>2. CASE g.fl[k] = <<>>
    <3>1. pool_get(g, n, m) = pool_carve(g, k, m)
      BY <1>3, <2>2 DEF pool_get
    <3> HIDE DEF k
    <3> QED
      BY <2>1, <3>1, Carve
  <2>3. CASE g.fl[k] # <<>>
    <3>1. pool_get(g, n, m) = [h |-> Taken(g, k), p |-> Head(g.fl[k])]
      BY <1>3, <2>3 DEF pool_get
    <3> HIDE DEF k
    <3> QED
      BY <2>1, <2>3, <3>1, Take
  <2> QED
    BY <2>2, <2>3
<1> QED
  BY <1>2, <1>3

(***************************************************************************)
(* id_pool_free, told the right size                                       *)
(***************************************************************************)
\* A heap in which p is not in use any more.
Gone(g, U, f, p) ==
    /\ HeapInv(f, U \ {p})
    /\ f.chunks = g.chunks /\ f.under \subseteq g.under

LEMMA Cons ==
  ASSUME NEW S, NEW s \in Seq(S), NEW p \in S
  PROVE  /\ <<p>> \o s \in Seq(S)
         /\ 1 \in DOMAIN (<<p>> \o s) /\ (<<p>> \o s)[1] = p
         /\ \A x \in DOMAIN (<<p>> \o s) : x = 1 \/ (x - 1 \in DOMAIN s /\ (<<p>> \o s)[x] = s[x - 1])
         /\ \A x \in DOMAIN s : x + 1 \in DOMAIN (<<p>> \o s) /\ (<<p>> \o s)[x + 1] = s[x]
         /\ \A x, y \in DOMAIN (<<p>> \o s) : x # y => x - 1 # y - 1
PROOF
<1> DEFINE t == <<p>> \o s
<1>1. Len(s) \in Nat /\ DOMAIN s = 1 .. Len(s)
  OBVIOUS
<1>2. t \in Seq(S) /\ Len(t) = Len(s) + 1 /\ DOMAIN t = 1 .. Len(s) + 1
  BY <1>1
<1>3. \A x \in 1 .. Len(s) + 1 : t[x] = IF x = 1 THEN p ELSE s[x - 1]
  BY <1>1
<1> HIDE DEF t
<1>4. 1 \in DOMAIN t /\ t[1] = p
  BY <1>1, <1>2, <1>3
<1>5. \A x \in DOMAIN t : x = 1 \/ (x - 1 \in DOMAIN s /\ t[x] = s[x - 1])
  BY <1>1, <1>2, <1>3
<1>6. \A x \in DOMAIN s : x + 1 \in DOMAIN t /\ t[x + 1] = s[x]
  BY <1>1, <1>2, <1>3
<1>7. \A x, y \in DOMAIN t : x # y => x - 1 # y - 1
  BY <1>1, <1>2
<1> QED
  BY <1>2, <1>4, <1>5, <1>6, <1>7 DEF t

LEMMA FreeLarge ==
  ASSUME NEW g, NEW U, NEW p \in U, HeapInv(g, U), p.k = 0
  PROVE  Gone(g, U, arena_unlink(g, p.m), p)
PROOF
<1> DEFINE f == arena_unlink(g, p.m)
<1>1. g \in Heap /\ BlockOk(g, p)
  BY DEF HeapInv, HeapOk
<1>2. /\ f \in Heap /\ f.fl = g.fl /\ f.chunks = g.chunks /\ f.cur = g.cur /\ f.at = g.at /\ f.left = g.left
      /\ f.under = g.under \ {p.m} /\ f.arena = g.arena \ {p.m} /\ f.lost = g.lost \ {p.m}
  BY <1>1 DEF Heap, arena_unlink
<1> HIDE DEF f
<1>3. Listed(f) = Listed(g)
  BY <1>2 DEF Listed
<1>4. HeapOk(f) /\ ListsOk(f)
  BY <1>2 DEF HeapInv, HeapOk, ListsOk
<1>5. \A b \in (U \ {p}) \cup Listed(g) : BlockOk(f, b)
  <2> SUFFICES ASSUME NEW b \in (U \ {p}) \cup Listed(g) PROVE BlockOk(f, b)
    OBVIOUS
  <2>1. BlockOk(g, b) /\ b # p
    BY DEF HeapInv
  <2>2. b.m # p.m
    BY <2>1 DEF HeapInv, Apart
  <2> QED
    BY <2>1, <2>2, <1>2 DEF BlockOk
<1>6. HeapInv(f, U \ {p})
  BY <1>3, <1>4, <1>5 DEF HeapInv
<1> QED
  BY <1>2, <1>6 DEF Gone, f

LEMMA FreeSmall ==
  ASSUME NEW g, NEW U, NEW p \in U, HeapInv(g, U), p.k \in Classes
  PROVE  Gone(g, U, [g EXCEPT !.fl = [g.fl EXCEPT ![p.k] = <<p>> \o g.fl[p.k]]], p)
PROOF
<1> DEFINE k == p.k
           s == g.fl[k]
           t == <<p>> \o s
           fl2 == [g.fl EXCEPT ![k] = t]
           f == [g EXCEPT !.fl = [g.fl EXCEPT ![p.k] = <<p>> \o g.fl[p.k]]]
<1>1. /\ g \in Heap /\ s \in Seq(Block) /\ DOMAIN g.fl = Classes /\ g.fl \in [Classes -> Seq(Block)]
      /\ BlockOk(g, p) /\ p \in Block /\ p \notin Listed(g)
  BY DEF HeapInv, HeapOk, Heap, BlockOk
<1> HIDE DEF s
<1>2. /\ t \in Seq(Block)
      /\ 1 \in DOMAIN t /\ t[1] = p
      /\ \A x \in DOMAIN t : x = 1 \/ (x - 1 \in DOMAIN s /\ t[x] = s[x - 1])
      /\ \A x, y \in DOMAIN t : x # y => x - 1 # y - 1
  BY <1>1, Cons
<1> HIDE DEF t
<1>3. fl2 \in [Classes -> Seq(Block)] /\ fl2[k] = t /\ \A l \in Classes : l # k => fl2[l] = g.fl[l]
  BY <1>1, <1>2
<1>4. f = [g EXCEPT !.fl = fl2]
  BY DEF fl2, t, s
<1> HIDE DEF fl2
<1>5. /\ f \in Heap /\ f.fl = fl2 /\ f.chunks = g.chunks /\ f.cur = g.cur /\ f.at = g.at /\ f.left = g.left
      /\ f.under = g.under /\ f.arena = g.arena /\ f.lost = g.lost /\ DOMAIN f.fl = Classes
  BY <1>1, <1>3, <1>4 DEF Heap
<1> HIDE DEF f
<1>6. \A b \in Listed(f) : b = p \/ b \in Listed(g)
  <2> SUFFICES ASSUME NEW b \in Listed(f) PROVE b = p \/ b \in Listed(g)
    OBVIOUS
  <2>1. PICK l \in Classes : \E x \in DOMAIN f.fl[l] : b = f.fl[l][x]
    BY <1>5, ListedIs
  <2>2. PICK x \in DOMAIN f.fl[l] : b = f.fl[l][x]
    BY <2>1
  <2>3. CASE l = k
    <3>1. b = p \/ (x - 1 \in DOMAIN g.fl[k] /\ b = g.fl[k][x - 1])
      BY <2>2, <2>3, <1>2, <1>3, <1>5 DEF s
    <3> QED
      BY <3>1, <1>1, ListedIs
  <2>4. CASE l # k
    <3>1. x \in DOMAIN g.fl[l] /\ b = g.fl[l][x]
      BY <2>2, <2>4, <1>3, <1>5
    <3> QED
      BY <3>1, <1>1, ListedIs
  <2> QED
    BY <2>3, <2>4
<1>7. ListsOk(f)
  <2> SUFFICES ASSUME NEW l \in Classes, NEW x \in DOMAIN f.fl[l], NEW y \in DOMAIN f.fl[l]
               PROVE  f.fl[l][x].k = l /\ (x # y => f.fl[l][x] # f.fl[l][y])
    BY DEF ListsOk
  <2>1. CASE l = k
    <3>1. x \in DOMAIN t /\ y \in DOMAIN t /\ f.fl[l] = t
      BY <2>1, <1>3, <1>5
    <3>2. \A z \in DOMAIN s : s[z].k = k /\ s[z] # p
      BY <1>1, ListedIs DEF HeapInv, ListsOk, s
    <3>3. \A z, w \in DOMAIN s : z # w => s[z] # s[w]
      BY DEF HeapInv, ListsOk, s
    <3>4. t[x].k = k
      BY <3>1, <3>2, <1>2
    <3>5. x # y => t[x] # t[y]
      BY <3>1, <3>2, <3>3, <1>2
    <3> QED
      BY <3>1, <3>4, <3>5, <2>1
  <2>2. CASE l # k
    BY <2>2, <1>3, <1>5 DEF HeapInv, ListsOk
  <2> QED
    BY <2>1, <2>2
<1>8. HeapOk(f)
  BY <1>5 DEF HeapInv, HeapOk
<1>9. \A b \in (U \ {p}) \cup Listed(f) : b \in U \cup Listed(g) /\ BlockOk(f, b)
  BY <1>5, <1>6 DEF HeapInv, BlockOk
<1>10. (U \ {p}) \cap Listed(f) = {}
  BY <1>6 DEF HeapInv
<1>11. HeapInv(f, U \ {p})
  BY <1>7, <1>8, <1>9, <1>10 DEF HeapInv
<1> QED
  BY <1>5, <1>11 DEF Gone, f

LEMMA PoolFree ==
  ASSUME NEW g, NEW U, NEW p \in U, NEW n \in Nat, HeapInv(g, U), p.k = ClassOf(n)
  PROVE  Gone(g, U, pool_free(g, p, n), p)
PROOF
<1>1. PoolMax \in Nat /\ (n <= PoolMax => pool_class(n) \in Classes) /\ p.m # 0
  BY Sizes DEF HeapInv, BlockOk
<1>2. CASE n > PoolMax
  <2>1. p.k = 0 /\ pool_free(g, p, n) = arena_unlink(g, p.m)
    BY <1>1, <1>2 DEF pool_free, ClassOf
  <2> QED
    BY <2>1, FreeLarge
<1>3. CASE ~(n > PoolMax)
  <2>1. p.k \in Classes /\ p.k = pool_class(n)
    BY <1>1, <1>3 DEF ClassOf
  <2>2. pool_free(g, p, n) = [g EXCEPT !.fl = [g.fl EXCEPT ![p.k] = <<p>> \o g.fl[p.k]]]
    BY <1>1, <1>3, <2>1, Zenon DEF pool_free
  <2> QED
    BY <2>1, <2>2, FreeSmall
<1> QED
  BY <1>2, <1>3

(***************************************************************************)
(* id_realloc                                                              *)
(***************************************************************************)
\* A request answered by r that gave p back: r's block is used in its place.
Swapped(g, U, r, p, k) ==
    /\ HeapInv(r.h, (U \ {p}) \cup {r.p}) /\ r.p \notin U \ {p} /\ r.p.m # 0 /\ r.p \in Block /\ r.p.k = k
    /\ g.chunks \subseteq r.h.chunks /\ r.h.under \subseteq g.under

LEMMA MallocUnused ==
  ASSUME NEW g, NEW m \in Malloc(g)
  PROVE  m \in Unused(g)
PROOF BY DEF Malloc, Lowest

LEMMA ReallocOk ==
  ASSUME NEW g, NEW U, NEW p \in U, NEW old \in Nat, NEW n \in Nat, NEW m \in Realloc(g, p, old, n),
         HeapInv(g, U), p.k = ClassOf(old)
  PROVE  Swapped(g, U, id_realloc(g, p, old, n, m), p, ClassOf(n))
PROOF
<1>1. PoolMax \in Nat /\ BlockOk(g, p) /\ p.m # 0 /\ p \in Block
  BY Sizes DEF HeapInv, BlockOk
<1>2. CASE old > PoolMax /\ n > PoolMax
  <2> DEFINE f == arena_unlink(g, p.m)
  <2>1. p.k = 0 /\ ClassOf(n) = 0 /\ id_realloc(g, p, old, n, m) = pool_large_alloc(f, m)
    BY <1>1, <1>2 DEF ClassOf, id_realloc
  <2>2. Gone(g, U, f, p)
    BY <2>1, FreeLarge
  <2>3. m \in Unused(f)
    <3>1. m \in Unused(g) \cup {p.m}
      BY <1>2 DEF Realloc, Lowest
    <3>2. p.m \in Mallocs /\ p.m \notin g.chunks
      BY <2>1, <1>1 DEF BlockOk, HeapInv, HeapOk, Heap
    <3>3. f.chunks = g.chunks /\ f.arena = g.arena \ {p.m} /\ f.lost = g.lost \ {p.m}
      BY DEF arena_unlink, HeapInv, HeapOk, Heap
    <3> QED
      BY <3>1, <3>2, <3>3 DEF Unused
  <2> HIDE DEF f
  <2>4. Got(f, U \ {p}, pool_large_alloc(f, m), 0)
    BY <2>2, <2>3, LargeAlloc DEF Gone
  <2> QED
    BY <2>1, <2>2, <2>4 DEF Got, Gone, Swapped
<1>3. CASE old <= PoolMax /\ n <= PoolMax /\ pool_class(old) = pool_class(n)
  <2>1. ClassOf(n) = p.k /\ id_realloc(g, p, old, n, m) = [h |-> g, p |-> p]
    BY <1>1, <1>3 DEF ClassOf, id_realloc
  <2>2. (U \ {p}) \cup {p} = U
    OBVIOUS
  <2> QED
    BY <2>1, <2>2, <1>1 DEF Swapped
<1>4. CASE ~(old > PoolMax /\ n > PoolMax) /\ ~(old <= PoolMax /\ n <= PoolMax /\ pool_class(old) = pool_class(n))
  <2> DEFINE r == pool_get(g, n, m)
             f == pool_free(r.h, p, old)
  <2>1. id_realloc(g, p, old, n, m) = [h |-> f, p |-> r.p]
    BY <1>1, <1>4 DEF id_realloc
  <2>2. m \in Unused(g)
    BY <1>4, MallocUnused DEF Realloc
  <2>3. Got(g, U, r, ClassOf(n))
    BY <2>2, Get
  <2> HIDE DEF r
  <2>4. Gone(r.h, U \cup {r.p}, f, p)
    BY <2>3, PoolFree DEF Got
  <2> HIDE DEF f
  <2>5. (U \cup {r.p}) \ {p} = (U \ {p}) \cup {r.p} /\ r.p \notin U \ {p}
    BY <2>3 DEF Got
  <2> QED
    BY <2>1, <2>3, <2>4, <2>5 DEF Got, Gone, Swapped
<1> QED
  BY <1>2, <1>3, <1>4

(***************************************************************************)
(* The inductive invariant                                                 *)
(***************************************************************************)
Value == [kind : {"str", "list", "bytes", "line", "all"}, p : Block, d : Block, cap : Int, ic : Nat, len : Nat,
          own : {"const", "frame", "keep"}]

\* The sizes a value will be freed with have the classes its blocks were made for.
ValOk(v) ==
    /\ v \in Value
    /\ v.p.m # 0 /\ v.p.k = ClassOf(HeadBytes(v))
    /\ ~Inline(v) => v.d.k = ClassOf(CellBytes(v)) /\ v.p # v.d
    /\ v.kind \in {"str", "line", "all"} => Inline(v) /\ v.cap >= 0

ValsOk == \A i \in DOMAIN vals :
    /\ i \in Int /\ ValOk(vals[i])
    /\ vals[i].own = "const" => i < 0 /\ vals[i].kind \in {"str", "list"} /\ \A b \in HeldBy(vals[i]) : b.k # 0

HandsOk(f, st) ==
    /\ \A i, j \in DOMAIN f : i # j => HeldBy(f[i]) \cap HeldBy(f[j]) = {}
    /\ \A i \in DOMAIN f : st.p \notin HeldBy(f[i])

StoreOk ==
    /\ store \in [p : Block, used : Nat, cap : Nat, dirty : SUBSET Int]
    /\ IF store.p.m = 0 THEN store.cap = 0 ELSE store.p.k = 0 /\ store.cap > PoolMax
    /\ \A a \in store.dirty : a < store.used

\* The lock, and the frame of the call that holds it.
CallOk ==
    /\ lib \in [owner : SUBSET Hosts, inited : Nat, made : Nat, framed : BOOLEAN, poolMark : SUBSET Mallocs, storeMark : Nat]
    /\ scoped \in BOOLEAN
    /\ pc \in [Hosts -> {"host", "init", "run", "broken"}]
    /\ \A t \in Hosts : /\ pc[t] # "host" => lib.owner = {t}
                        /\ pc[t] = "init" => ~lib.framed
                        /\ pc[t] = "run" => lib.framed = scoped
    /\ lib.owner = {} => ~lib.framed
    /\ lib.framed => scoped

\* What is there outside a frame, and what will be left when it is closed.
FrameOk ==
    IF lib.framed
    THEN /\ lib.storeMark = 1 /\ h.under \subseteq {store.p.m}
         /\ \A i \in DOMAIN vals : vals[i].own = "const" => \A b \in HeldBy(vals[i]) : b.m \in lib.poolMark
    ELSE scoped => /\ store.used = 1 /\ h.arena \subseteq {store.p.m}
                   /\ \A i \in DOMAIN vals : vals[i].own = "const"

Inv ==
    /\ HeapInv(h, InUse(vals, store))
    /\ ValsOk
    /\ HandsOk(vals, store)
    /\ StoreOk
    /\ CallOk
    /\ FrameOk

(***************************************************************************)
(* Values: the sizes, and what making, growing and freeing one does        *)
(***************************************************************************)
LEMMA CellIs ==
  ASSUME NEW kind
  PROVE  (kind = "list" => Cell(kind) = 8) /\ (kind # "list" => Cell(kind) = 1)
PROOF BY DEF Cell

LEMMA SizesNat ==
  ASSUME NEW v \in Value, v.kind \in {"str", "line", "all"} => v.cap >= 0
  PROVE  HeadBytes(v) \in Nat /\ CellBytes(v) \in Nat /\ FreedCap(v) \in Nat
PROOF
<1>1. /\ v.kind \in {"str", "list", "bytes", "line", "all"} /\ v.cap \in Int /\ v.ic \in Nat /\ v.len \in Nat
  BY DEF Value
<1>2. FreedCap(v) \in Nat
  BY <1>1 DEF FreedCap, Abs
<1>3. CellBytes(v) \in Nat
  BY <1>2, CellIs DEF CellBytes
<1>4. CASE v.kind = "str"
  BY <1>1, <1>2, <1>3, <1>4 DEF HeadBytes
<1>5. CASE v.kind \in {"line", "all"}
  BY <1>1, <1>2, <1>3, <1>5 DEF HeadBytes
<1>6. CASE v.kind \in {"list", "bytes"}
  <2>1. HeadBytes(v) = 16 + Cell(v.kind) * (IF Inline(v) THEN FreedCap(v) ELSE v.ic)
    BY <1>6 DEF HeadBytes
  <2> QED
    BY <2>1, <1>1, <1>2, <1>3, CellIs
<1> QED
  BY <1>1, <1>4, <1>5, <1>6

LEMMA MadeOk ==
  ASSUME NEW kind \in {"str", "list", "bytes"}, NEW n \in Nat, NEW own \in {"const", "frame", "keep"},
         NEW cap \in Nat, kind = "str" => cap = n,
         NEW p \in Block, p.m # 0, p.k = ClassOf(BlockBytes(kind, cap))
  PROVE  LET v == Made(kind, p, cap, n, own) IN
         /\ ValOk(v) /\ HeldBy(v) = {p} /\ v.own = own /\ v.kind = kind
PROOF
<1> DEFINE v == Made(kind, p, cap, n, own)
<1>1. cap \in Int
  OBVIOUS
<1>2. NoBlock \in Block /\ NoBlock.m = 0
  BY DEF NoBlock, Block
<1>3. v \in Value /\ v.kind = kind /\ v.p = p /\ v.d = NoBlock /\ v.cap = cap /\ v.len = n /\ v.own = own
  BY <1>1, <1>2 DEF Made, Value
<1> HIDE DEF v
<1>4. Inline(v) /\ HeldBy(v) = {p}
  BY <1>2, <1>3 DEF Inline, HeldBy
<1>5. FreedCap(v) = cap
  BY <1>1, <1>3 DEF FreedCap, Abs
<1>6. HeadBytes(v) = BlockBytes(kind, cap)
  <2>1. CASE kind = "str"
    BY <2>1, <1>1, <1>3 DEF HeadBytes, BlockBytes
  <2>2. CASE kind # "str"
    BY <2>2, <1>3, <1>4, <1>5 DEF HeadBytes, BlockBytes
  <2> QED
    BY <2>1, <2>2
<1>7. ValOk(v)
  BY <1>1, <1>3, <1>4, <1>6 DEF ValOk
<1> QED
  BY <1>3, <1>4, <1>7 DEF v

\* One value in the place of another, or of none.
Replaced(g, U, f, old, new) ==
    /\ HeapInv(f, (U \ old) \cup new) /\ new \cap (U \ old) = {} /\ \A b \in new : b.m # 0
    /\ g.chunks \subseteq f.chunks /\ f.under \subseteq g.under

LEMMA MakeOk ==
  ASSUME NEW g, NEW U, NEW m \in Malloc(g), HeapInv(g, U),
         NEW kind \in {"str", "list", "bytes"}, NEW n \in Nat, NEW own \in {"const", "frame", "keep"},
         NEW cap \in Nat, kind = "str" => cap = n
  PROVE  LET r == Make(g, kind, cap, n, own, m) IN
         /\ ValOk(r.v) /\ r.v.own = own /\ r.v.kind = kind
         /\ Replaced(g, U, r.h, {}, HeldBy(r.v))
         /\ ClassOf(BlockBytes(kind, cap)) # 0 => /\ r.h.arena = g.arena
                                                 /\ \A b \in HeldBy(r.v) : b.k # 0
PROOF
<1> DEFINE bytes == BlockBytes(kind, cap)
           q == pool_get(g, bytes, m)
           r == Make(g, kind, cap, n, own, m)
<1>2. bytes \in Nat
  BY CellIs DEF BlockBytes
<1>3. Got(g, U, q, ClassOf(bytes))
  BY <1>2, MallocUnused, Get
<1>4. r.h = q.h /\ r.v = Made(kind, q.p, cap, n, own)
  BY DEF Make
<1> HIDE DEF q, r
<1>5. ValOk(r.v) /\ HeldBy(r.v) = {q.p} /\ r.v.own = own /\ r.v.kind = kind
  BY <1>3, <1>4, MadeOk DEF Got
<1>6. Replaced(g, U, r.h, {}, HeldBy(r.v))
  <2>1. (U \ {}) \cup {q.p} = U \cup {q.p} /\ {q.p} \cap (U \ {}) = {}
    BY <1>3 DEF Got
  <2> QED
    BY <2>1, <1>3, <1>4, <1>5 DEF Got, Replaced
<1> QED
  BY <1>3, <1>4, <1>5, <1>6 DEF Got, r

\* A grown value: its header block is as large as before, its cells as the new block.
Grown(o, q) == [o EXCEPT !.d = q, !.cap = GrownCap(o), !.ic = GrowIc(o), !.len = o.cap + 1]

LEMMA GrownOk ==
  ASSUME NEW o, ValOk(o), o.kind \in {"list", "bytes"}, o.cap > 0,
         NEW q \in Block, q.m # 0, q # o.p, q.k = ClassOf(GrownBytes(o))
  PROVE  ValOk(Grown(o, q)) /\ HeldBy(Grown(o, q)) = {o.p, q} /\ Grown(o, q).own = o.own
PROOF
<1> DEFINE v == Grown(o, q)
<1>1. o \in Value /\ o.cap \in Nat /\ o.ic \in Nat /\ o.p.m # 0 /\ o.p.k = ClassOf(HeadBytes(o))
  BY DEF ValOk, Value
<1>2. GrownCap(o) \in Nat /\ GrownCap(o) > 0 /\ GrowIc(o) \in Nat /\ o.cap + 1 \in Nat
  BY <1>1 DEF GrownCap, GrowIc
<1>3. /\ v \in Value /\ v.p = o.p /\ v.d = q /\ v.cap = GrownCap(o) /\ v.ic = GrowIc(o) /\ v.kind = o.kind /\ v.own = o.own
  <2>1. GrownCap(o) \in Int
    BY <1>2
  <2> QED
    BY <1>1, <1>2, <2>1 DEF Value, Grown
<1> HIDE DEF v
<1>4. ~Inline(v) /\ HeldBy(v) = {o.p, q}
  BY <1>3 DEF Inline, HeldBy
<1>5. FreedCap(v) = GrownCap(o) /\ FreedCap(o) = o.cap
  BY <1>1, <1>2, <1>3 DEF FreedCap, Abs
<1>6. CellBytes(v) = GrownBytes(o)
  BY <1>3, <1>5 DEF CellBytes, GrownBytes
<1>7. HeadBytes(v) = 16 + Cell(o.kind) * v.ic
  BY <1>3, <1>4 DEF HeadBytes
<1>8. HeadBytes(o) = 16 + Cell(o.kind) * (IF Inline(o) THEN FreedCap(o) ELSE o.ic)
  BY DEF HeadBytes
<1>9. v.ic = IF Inline(o) THEN FreedCap(o) ELSE o.ic
  BY <1>3, <1>5 DEF GrowIc
<1>10. HeadBytes(v) = HeadBytes(o)
  BY <1>7, <1>8, <1>9
<1> QED
  BY <1>1, <1>3, <1>4, <1>6, <1>10 DEF ValOk, v

LEMMA PushOk ==
  ASSUME NEW g, NEW U, HeapInv(g, U), NEW o, ValOk(o), HeldBy(o) \subseteq U, o.kind \in {"list", "bytes"}, o.cap > 0,
         NEW m \in (IF Inline(o) THEN Malloc(g) ELSE Realloc(g, o.d, CellBytes(o), GrownBytes(o)))
  PROVE  /\ ValOk(Push(g, o, m).v) /\ Push(g, o, m).v.own = o.own
         /\ Replaced(g, U, Push(g, o, m).h, HeldBy(o), HeldBy(Push(g, o, m).v))
PROOF
<1>1. o \in Value /\ o.cap \in Nat /\ o.p.m # 0 /\ o.p \in U /\ o.d \in Block
  BY DEF ValOk, Value, HeldBy
<1>2. GrownBytes(o) \in Nat
  BY <1>1, CellIs DEF GrownBytes, GrownCap
<1>3. CellBytes(o) \in Nat
  BY <1>1, SizesNat
<1> DEFINE q == IF Inline(o) THEN pool_get(g, GrownBytes(o), m) ELSE id_realloc(g, o.d, CellBytes(o), GrownBytes(o), m)
           v == Grown(o, q.p)
<1>4. Push(g, o, m).h = q.h /\ Push(g, o, m).v = v
  BY <1>1 DEF Push, Grow, Value, Grown
<1>5. CASE Inline(o)
  <2>1. m \in Unused(g) /\ q = pool_get(g, GrownBytes(o), m) /\ HeldBy(o) = {o.p}
    BY <1>5, MallocUnused DEF HeldBy
  <2>2. Got(g, U, q, ClassOf(GrownBytes(o)))
    BY <2>1, <1>2, Get
  <2>3. q.p \in Block /\ q.p.m # 0 /\ q.p # o.p /\ q.p \notin U /\ q.p.k = ClassOf(GrownBytes(o))
    BY <2>2, <1>1 DEF Got
  <2> HIDE DEF q
  <2>4. ValOk(v) /\ HeldBy(v) = {o.p, q.p} /\ v.own = o.own
    BY <2>3, GrownOk
  <2>5. (U \ {o.p}) \cup {o.p, q.p} = U \cup {q.p} /\ {o.p, q.p} \cap (U \ {o.p}) = {}
    BY <2>3, <1>1
  <2> HIDE DEF v
  <2>6. Replaced(g, U, q.h, HeldBy(o), HeldBy(v))
    BY <2>1, <2>2, <2>3, <2>4, <2>5, <1>1 DEF Replaced, Got
  <2> QED
    BY <2>4, <2>6, <1>4
<1>6. CASE ~Inline(o)
  <2>1. /\ m \in Realloc(g, o.d, CellBytes(o), GrownBytes(o)) /\ q = id_realloc(g, o.d, CellBytes(o), GrownBytes(o), m)
        /\ HeldBy(o) = {o.p, o.d} /\ o.d \in U /\ o.p # o.d /\ o.d.k = ClassOf(CellBytes(o))
    BY <1>6 DEF HeldBy, ValOk
  <2>2. Swapped(g, U, q, o.d, ClassOf(GrownBytes(o)))
    BY <2>1, <1>2, <1>3, ReallocOk
  <2>3. q.p \in Block /\ q.p.m # 0 /\ q.p # o.p /\ q.p \notin U \ {o.d} /\ q.p.k = ClassOf(GrownBytes(o))
    BY <2>1, <2>2, <1>1 DEF Swapped
  <2> HIDE DEF q
  <2>4. ValOk(v) /\ HeldBy(v) = {o.p, q.p} /\ v.own = o.own
    BY <2>3, GrownOk
  <2>5. (U \ {o.p, o.d}) \cup {o.p, q.p} = (U \ {o.d}) \cup {q.p} /\ {o.p, q.p} \cap (U \ {o.p, o.d}) = {}
    BY <2>1, <2>3, <1>1
  <2> HIDE DEF v
  <2>6. Replaced(g, U, q.h, HeldBy(o), HeldBy(v))
    BY <2>1, <2>2, <2>3, <2>4, <2>5, <1>1 DEF Replaced, Swapped
  <2> QED
    BY <2>4, <2>6, <1>4
<1> QED
  BY <1>5, <1>6

LEMMA FreeOk ==
  ASSUME NEW g, NEW U, HeapInv(g, U), NEW o, ValOk(o), HeldBy(o) \subseteq U
  PROVE  Replaced(g, U, Free(g, o), HeldBy(o), {})
PROOF
<1>1. o \in Value /\ o.p \in U /\ o.p.k = ClassOf(HeadBytes(o)) /\ HeadBytes(o) \in Nat /\ CellBytes(o) \in Nat
  BY SizesNat DEF ValOk, HeldBy
<1>2. CASE Inline(o)
  <2>1. Free(g, o) = pool_free(g, o.p, HeadBytes(o)) /\ HeldBy(o) = {o.p}
    BY <1>2 DEF Free, HeldBy
  <2>2. Gone(g, U, Free(g, o), o.p)
    BY <2>1, <1>1, PoolFree
  <2> QED
    BY <2>1, <2>2 DEF Gone, Replaced
<1>3. CASE ~Inline(o)
  <2> DEFINE f == pool_free(g, o.d, CellBytes(o))
  <2>1. Free(g, o) = pool_free(f, o.p, HeadBytes(o)) /\ HeldBy(o) = {o.p, o.d} /\ o.d \in U /\ o.p # o.d /\ o.d.k = ClassOf(CellBytes(o))
    BY <1>3 DEF Free, HeldBy, ValOk
  <2>2. Gone(g, U, f, o.d)
    BY <2>1, <1>1, PoolFree
  <2> HIDE DEF f
  <2>3. Gone(f, U \ {o.d}, Free(g, o), o.p)
    BY <2>1, <2>2, <1>1, PoolFree DEF Gone
  <2>4. (U \ {o.d}) \ {o.p} = (U \ {o.p, o.d}) \cup {}
    OBVIOUS
  <2> QED
    BY <2>1, <2>2, <2>3, <2>4 DEF Gone, Replaced
<1> QED
  BY <1>2, <1>3

\* A string, or what is read so far, in another block.
Moved(o, q, kind, cap, len) == [o EXCEPT !.p = q, !.kind = kind, !.cap = cap, !.len = len]

LEMMA MovedOk ==
  ASSUME NEW o, ValOk(o), o.kind \in {"str", "line", "all"}, NEW q \in Block, q.m # 0,
         NEW kind \in {"str", "line", "all"}, NEW cap \in Nat, NEW len \in Nat,
         q.k = ClassOf(IF kind = "str" THEN len + 9 ELSE cap)
  PROVE  /\ ValOk(Moved(o, q, kind, cap, len)) /\ HeldBy(Moved(o, q, kind, cap, len)) = {q}
         /\ Moved(o, q, kind, cap, len).own = o.own /\ HeldBy(o) = {o.p}
PROOF
<1> DEFINE v == Moved(o, q, kind, cap, len)
<1>1. o \in Value /\ Inline(o) /\ cap \in Int
  BY DEF ValOk
<1>2. v \in Value /\ v.kind = kind /\ v.p = q /\ v.d = o.d /\ v.cap = cap /\ v.len = len /\ v.own = o.own
  BY <1>1 DEF Moved, Value
<1> HIDE DEF v
<1>3. Inline(v) /\ HeldBy(v) = {q} /\ HeldBy(o) = {o.p}
  BY <1>1, <1>2 DEF Inline, HeldBy
<1>4. HeadBytes(v) = IF kind = "str" THEN len + 9 ELSE cap
  BY <1>2 DEF HeadBytes
<1> QED
  BY <1>2, <1>3, <1>4 DEF ValOk, v

LEMMA ReadOk ==
  ASSUME NEW g, NEW U, HeapInv(g, U), NEW o, ValOk(o), HeldBy(o) \subseteq U, o.kind \in {"line", "all"}
  PROVE  /\ \A m \in Realloc(g, o.p, o.cap, 2 * o.cap) :
               /\ ValOk(ReadGrown(g, o, m).v) /\ ReadGrown(g, o, m).v.own = o.own
               /\ Replaced(g, U, ReadGrown(g, o, m).h, HeldBy(o), HeldBy(ReadGrown(g, o, m).v))
         /\ \A m \in Realloc(g, o.p, o.cap, o.len + 9) :
               /\ ValOk(ReadCut(g, o, m).v) /\ ReadCut(g, o, m).v.own = o.own
               /\ Replaced(g, U, ReadCut(g, o, m).h, HeldBy(o), HeldBy(ReadCut(g, o, m).v))
PROOF
<1>1. /\ o \in Value /\ o.cap \in Nat /\ o.len \in Nat /\ Inline(o) /\ HeldBy(o) = {o.p} /\ o.p \in U
      /\ 2 * o.cap \in Nat /\ o.len + 9 \in Nat
  BY DEF ValOk, Value, HeldBy
<1>2. o.p.k = ClassOf(o.cap)
  BY DEF ValOk, HeadBytes
<1>3. ASSUME NEW m \in Realloc(g, o.p, o.cap, 2 * o.cap)
      PROVE  /\ ValOk(ReadGrown(g, o, m).v) /\ ReadGrown(g, o, m).v.own = o.own
             /\ Replaced(g, U, ReadGrown(g, o, m).h, HeldBy(o), HeldBy(ReadGrown(g, o, m).v))
  <2> DEFINE r == id_realloc(g, o.p, o.cap, 2 * o.cap, m)
             v == Moved(o, r.p, o.kind, 2 * o.cap, o.len)
  <2>1. Swapped(g, U, r, o.p, ClassOf(2 * o.cap))
    BY <1>1, <1>2, ReallocOk
  <2>2. ReadGrown(g, o, m).h = r.h /\ ReadGrown(g, o, m).v = v
    BY <1>1 DEF ReadGrown, Moved, Value
  <2> HIDE DEF r
  <2>3. ValOk(v) /\ HeldBy(v) = {r.p} /\ v.own = o.own
    BY <2>1, <1>1, MovedOk DEF Swapped
  <2> HIDE DEF v
  <2>4. Replaced(g, U, r.h, HeldBy(o), HeldBy(v))
    BY <2>1, <2>3, <1>1 DEF Swapped, Replaced
  <2> QED
    BY <2>2, <2>3, <2>4
<1>4. ASSUME NEW m \in Realloc(g, o.p, o.cap, o.len + 9)
      PROVE  /\ ValOk(ReadCut(g, o, m).v) /\ ReadCut(g, o, m).v.own = o.own
             /\ Replaced(g, U, ReadCut(g, o, m).h, HeldBy(o), HeldBy(ReadCut(g, o, m).v))
  <2> DEFINE r == id_realloc(g, o.p, o.cap, o.len + 9, m)
             v == Moved(o, r.p, "str", o.len, o.len)
  <2>1. Swapped(g, U, r, o.p, ClassOf(o.len + 9))
    BY <1>1, <1>2, ReallocOk
  <2>2. ReadCut(g, o, m).h = r.h /\ ReadCut(g, o, m).v = v
    BY <1>1 DEF ReadCut, Moved, Value
  <2> HIDE DEF r
  <2>3. ValOk(v) /\ HeldBy(v) = {r.p} /\ v.own = o.own
    BY <2>1, <1>1, MovedOk DEF Swapped
  <2> HIDE DEF v
  <2>4. Replaced(g, U, r.h, HeldBy(o), HeldBy(v))
    BY <2>1, <2>3, <1>1 DEF Swapped, Replaced
  <2> QED
    BY <2>2, <2>3, <2>4
<1> QED
  BY <1>3, <1>4

LEMMA ReadStartOk ==
  ASSUME NEW g, NEW U, NEW m \in Malloc(g), HeapInv(g, U),
         NEW kind \in {"line", "all"}, NEW n \in Nat, NEW own \in {"const", "frame", "keep"}
  PROVE  /\ ValOk(ReadStart(g, kind, n, own, m).v) /\ ReadStart(g, kind, n, own, m).v.own = own
         /\ Replaced(g, U, ReadStart(g, kind, n, own, m).h, {}, HeldBy(ReadStart(g, kind, n, own, m).v))
PROOF
<1> DEFINE c == FirstRead(kind)
           q == pool_get(g, c, m)
           v == Made(kind, q.p, c, n, own)
<1>1. c \in Nat /\ c \in Int
  BY LibAssumption DEF FirstRead
<1>2. ReadStart(g, kind, n, own, m).h = q.h /\ ReadStart(g, kind, n, own, m).v = v
  BY DEF ReadStart
<1> HIDE DEF c
<1>3. Got(g, U, q, ClassOf(c))
  BY <1>1, MallocUnused, Get
<1> HIDE DEF q
<1>4. NoBlock \in Block /\ NoBlock.m = 0
  BY DEF NoBlock, Block
<1>5. v \in Value /\ v.kind = kind /\ v.p = q.p /\ v.d = NoBlock /\ v.cap = c /\ v.own = own
  BY <1>1, <1>3, <1>4 DEF Made, Value, Got
<1> HIDE DEF v
<1>6. Inline(v) /\ HeldBy(v) = {q.p} /\ HeadBytes(v) = c
  BY <1>4, <1>5 DEF Inline, HeldBy, HeadBytes
<1>7. ValOk(v)
  BY <1>1, <1>3, <1>5, <1>6 DEF ValOk, Got
<1>8. (U \ {}) \cup {q.p} = U \cup {q.p} /\ {q.p} \cap (U \ {}) = {}
  BY <1>3 DEF Got
<1>9. Replaced(g, U, q.h, {}, HeldBy(v))
  BY <1>3, <1>6, <1>8 DEF Got, Replaced
<1> QED
  BY <1>2, <1>5, <1>7, <1>9

LEMMA ConcatOk ==
  ASSUME NEW g, NEW U, HeapInv(g, U), NEW a, NEW b, ValOk(a), ValOk(b), HeldBy(a) \subseteq U, HeldBy(b) \subseteq U,
         HeldBy(a) \cap HeldBy(b) = {}, a.kind = "str", b.kind = "str",
         NEW m \in Realloc(g, a.p, a.len + 9, a.len + b.len + 9)
  PROVE  /\ ValOk(ConcatInto(g, a, b, m).v) /\ ConcatInto(g, a, b, m).v.own = a.own
         /\ Replaced(g, U, ConcatInto(g, a, b, m).h, HeldBy(a) \cup HeldBy(b), HeldBy(ConcatInto(g, a, b, m).v))
PROOF
<1> DEFINE n == a.len + b.len
           r == id_realloc(g, a.p, a.len + 9, n + 9, m)
           v == Moved(a, r.p, "str", n, n)
<1>1. a \in Value /\ a.len \in Nat /\ b.len \in Nat /\ HeldBy(a) = {a.p} /\ a.p \in U /\ a.p.k = ClassOf(a.len + 9)
  BY DEF ValOk, Value, HeldBy, HeadBytes
<1>2. n \in Nat /\ n + 9 \in Nat /\ a.len + 9 \in Nat
  BY <1>1
<1>3. ConcatInto(g, a, b, m).h = Free(r.h, b) /\ ConcatInto(g, a, b, m).v = v
  BY <1>1 DEF ConcatInto, Moved, Value
<1>4. Swapped(g, U, r, a.p, ClassOf(n + 9))
  BY <1>1, <1>2, ReallocOk
<1> HIDE DEF r, n
<1>5. ValOk(v) /\ HeldBy(v) = {r.p} /\ v.own = a.own
  BY <1>2, <1>4, MovedOk DEF Swapped
<1> HIDE DEF v
<1> DEFINE W == (U \ {a.p}) \cup {r.p}
<1>6. HeldBy(b) \subseteq W /\ r.p \notin HeldBy(b) /\ HeapInv(r.h, W)
  BY <1>1, <1>4 DEF Swapped
<1>7. Replaced(r.h, W, Free(r.h, b), HeldBy(b), {})
  BY <1>6, FreeOk
<1>8. (W \ HeldBy(b)) \cup {} = (U \ (HeldBy(a) \cup HeldBy(b))) \cup HeldBy(v)
  BY <1>1, <1>5, <1>6
<1>9. HeldBy(v) \cap (U \ (HeldBy(a) \cup HeldBy(b))) = {} /\ \A x \in HeldBy(v) : x.m # 0
  BY <1>1, <1>4, <1>5 DEF Swapped
<1> HIDE DEF W
<1>10. Replaced(g, U, Free(r.h, b), HeldBy(a) \cup HeldBy(b), HeldBy(v))
  BY <1>4, <1>7, <1>8, <1>9 DEF Replaced, Swapped
<1> QED
  BY <1>3, <1>5, <1>10

\* Freezing negates the capacity; the sizes are computed from its absolute value.
LEMMA FrozenOk ==
  ASSUME NEW o, ValOk(o), o.kind = "list"
  PROVE  LET v == [o EXCEPT !.cap = 0 - o.cap] IN
         /\ ValOk(v) /\ HeldBy(v) = HeldBy(o) /\ v.own = o.own /\ v.kind = o.kind
PROOF
<1> DEFINE v == [o EXCEPT !.cap = 0 - o.cap]
<1>1. o \in Value /\ o.cap \in Int /\ 0 - o.cap \in Int
  BY DEF ValOk, Value
<1>2. /\ v \in Value /\ v.kind = o.kind /\ v.p = o.p /\ v.d = o.d /\ v.cap = 0 - o.cap /\ v.ic = o.ic
      /\ v.len = o.len /\ v.own = o.own
  BY <1>1 DEF Value
<1> HIDE DEF v
<1>3. FreedCap(v) = FreedCap(o) /\ (Inline(v) <=> Inline(o)) /\ HeldBy(v) = HeldBy(o)
  BY <1>1, <1>2 DEF FreedCap, Abs, Inline, HeldBy
<1>4. CellBytes(v) = CellBytes(o)
  BY <1>2, <1>3 DEF CellBytes
<1>5. HeadBytes(v) = HeadBytes(o)
  BY <1>2, <1>3 DEF HeadBytes
<1> QED
  BY <1>2, <1>3, <1>4, <1>5 DEF ValOk, v

(***************************************************************************)
(* The blocks in hands when values come and go                             *)
(***************************************************************************)
LEMMA InUseIs ==
  ASSUME NEW f, NEW st, NEW b
  PROVE  b \in InUse(f, st) <=> (\E i \in DOMAIN f : b \in HeldBy(f[i])) \/ (b = st.p /\ st.p.m # 0)
PROOF
<1>1. b \in (UNION {HeldBy(f[i]) : i \in DOMAIN f}) <=> \E i \in DOMAIN f : b \in HeldBy(f[i])
  BY Zenon
<1>2. b \in (IF st.p.m = 0 THEN {} ELSE {st.p}) <=> b = st.p /\ st.p.m # 0
  OBVIOUS
<1> QED
  BY <1>1, <1>2 DEF InUse

HeldAll(f, X) == UNION {HeldBy(f[j]) : j \in X}

LEMMA HeldInUse ==
  ASSUME NEW f, NEW st, NEW i \in DOMAIN f
  PROVE  HeldBy(f[i]) \subseteq InUse(f, st)
PROOF BY InUseIs

\* The values numbered X go, and i becomes v.
Changed(f, e, X, i, v) ==
    /\ DOMAIN e = (DOMAIN f \ X) \cup {i} /\ e[i] = v
    /\ \A j \in DOMAIN e : j # i => j \in DOMAIN f \ X /\ e[j] = f[j]
    /\ X \subseteq DOMAIN f /\ (i \in DOMAIN f => i \in X)

LEMMA ChangedHands ==
  ASSUME NEW f, NEW e, NEW st, NEW X, NEW i, NEW v, Changed(f, e, X, i, v), HandsOk(f, st),
         HeldBy(v) \cap (InUse(f, st) \ HeldAll(f, X)) = {}, \A b \in HeldBy(v) : b.m # 0
  PROVE  HandsOk(e, st) /\ InUse(e, st) \subseteq (InUse(f, st) \ HeldAll(f, X)) \cup HeldBy(v)
PROOF
<1>1. \A j \in DOMAIN f \ X : HeldBy(f[j]) \subseteq InUse(f, st) \ HeldAll(f, X)
  <2> SUFFICES ASSUME NEW j \in DOMAIN f \ X, NEW b \in HeldBy(f[j]) PROVE b \in InUse(f, st) \ HeldAll(f, X)
    OBVIOUS
  <2>1. b \in InUse(f, st)
    BY InUseIs
  <2>2. \A l \in X : b \notin HeldBy(f[l])
    BY DEF HandsOk, Changed
  <2> QED
    BY <2>1, <2>2 DEF HeldAll
<1>2. st.p.m # 0 => st.p \in InUse(f, st) \ HeldAll(f, X)
  <2>1. st.p.m # 0 => st.p \in InUse(f, st)
    BY InUseIs
  <2>2. st.p \notin HeldAll(f, X)
    BY DEF HandsOk, Changed, HeldAll
  <2> QED
    BY <2>1, <2>2
<1>3. \A j \in DOMAIN e : j # i => HeldBy(e[j]) \subseteq InUse(f, st) \ HeldAll(f, X)
  BY <1>1 DEF Changed
<1>4. HeldBy(e[i]) = HeldBy(v)
  BY DEF Changed
<1>5. ASSUME NEW j \in DOMAIN e, NEW l \in DOMAIN e, j # l PROVE HeldBy(e[j]) \cap HeldBy(e[l]) = {}
  <2>1. CASE j # i /\ l # i
    BY <2>1, <1>5 DEF Changed, HandsOk
  <2>2. CASE j = i
    BY <2>2, <1>3, <1>4, <1>5
  <2>3. CASE l = i
    BY <2>3, <1>3, <1>4, <1>5
  <2> QED
    BY <2>1, <2>2, <2>3
<1>6. ASSUME NEW j \in DOMAIN e PROVE st.p \notin HeldBy(e[j])
  <2>1. CASE j # i
    BY <2>1 DEF Changed, HandsOk
  <2>2. CASE j = i
    BY <2>2, <1>2, <1>4
  <2> QED
    BY <2>1, <2>2
<1>7. ASSUME NEW b \in InUse(e, st) PROVE b \in (InUse(f, st) \ HeldAll(f, X)) \cup HeldBy(v)
  <2>1. CASE b = st.p /\ st.p.m # 0
    BY <2>1, <1>2
  <2>2. CASE \E j \in DOMAIN e : b \in HeldBy(e[j])
    BY <2>2, <1>3, <1>4
  <2> QED
    BY <1>7, <2>1, <2>2, InUseIs
<1> QED
  BY <1>5, <1>6, <1>7 DEF HandsOk

\* Some values go, and the rest is as it was.
Fewest(f, e, X) == DOMAIN e = DOMAIN f \ X /\ X \subseteq DOMAIN f /\ \A j \in DOMAIN e : e[j] = f[j]

LEMMA FewestHands ==
  ASSUME NEW f, NEW e, NEW st, NEW X, Fewest(f, e, X), HandsOk(f, st)
  PROVE  HandsOk(e, st) /\ InUse(e, st) \subseteq InUse(f, st) \ HeldAll(f, X)
PROOF
<1>1. HandsOk(e, st)
  BY DEF HandsOk, Fewest
<1>2. ASSUME NEW b \in InUse(e, st) PROVE b \in InUse(f, st) \ HeldAll(f, X)
  <2>1. CASE b = st.p /\ st.p.m # 0
    <3>1. b \in InUse(f, st)
      BY <2>1, InUseIs
    <3>2. \A l \in X : b \notin HeldBy(f[l])
      BY <2>1 DEF HandsOk, Fewest
    <3> QED
      BY <3>1, <3>2 DEF HeldAll
  <2>2. CASE \E j \in DOMAIN e : b \in HeldBy(e[j])
    <3>1. PICK j \in DOMAIN f \ X : b \in HeldBy(f[j])
      BY <2>2 DEF Fewest
    <3>2. b \in InUse(f, st)
      BY <3>1, InUseIs
    <3>3. \A l \in X : b \notin HeldBy(f[l])
      BY <3>1 DEF HandsOk, Fewest
    <3> QED
      BY <3>2, <3>3 DEF HeldAll
  <2> QED
    BY <1>2, <2>1, <2>2, InUseIs
<1> QED
  BY <1>1, <1>2

(***************************************************************************)
(* A step of the program that changes the values and the heap              *)
(***************************************************************************)
LEMMA ValueStep ==
  ASSUME Inv, store' = store, lib' = lib, pc' = pc, scoped' = scoped, lib.framed = scoped,
         NEW CONSTANT X, NEW CONSTANT i, NEW CONSTANT v, i \in Int, Changed(vals, vals', X, i, v),
         ValOk(v), v.own # "const", \A j \in X : vals[j].own # "const",
         Replaced(h, InUse(vals, store), h', HeldAll(vals, X), HeldBy(v))
  PROVE  Inv'
PROOF
<1>1. HandsOk(vals', store) /\ InUse(vals', store) \subseteq (InUse(vals, store) \ HeldAll(vals, X)) \cup HeldBy(v)
  BY ChangedHands DEF Inv, Replaced
<1>2. HeapInv(h', InUse(vals', store'))
  BY <1>1, Fewer DEF Replaced
<1>3. \A j \in DOMAIN vals' : j # i => j \in DOMAIN vals /\ vals'[j] = vals[j]
  BY DEF Changed
<1>4. vals'[i] = v
  BY DEF Changed
<1>5. ValsOk'
  BY <1>3, <1>4 DEF Inv, ValsOk
<1>6. StoreOk'
  BY DEF Inv, StoreOk
<1>7. CallOk'
  BY DEF Inv, CallOk
<1>8. h'.under \subseteq h.under
  BY DEF Replaced
<1>9. FrameOk'
  <2>1. CASE lib.framed
    BY <2>1, <1>3, <1>4, <1>8 DEF Inv, FrameOk
  <2>2. CASE ~lib.framed
    BY <2>2 DEF FrameOk
  <2> QED
    BY <2>1, <2>2
<1> QED
  BY <1>1, <1>2, <1>5, <1>6, <1>7, <1>9 DEF Inv

LEMMA FreeStep ==
  ASSUME Inv, store' = store, lib' = lib, pc' = pc, scoped' = scoped, lib.framed = scoped,
         NEW CONSTANT X, Fewest(vals, vals', X),
         Replaced(h, InUse(vals, store), h', HeldAll(vals, X), {})
  PROVE  Inv'
PROOF
<1>1. HandsOk(vals', store) /\ InUse(vals', store) \subseteq InUse(vals, store) \ HeldAll(vals, X)
  BY FewestHands DEF Inv
<1>2. HeapInv(h', InUse(vals', store'))
  BY <1>1, Fewer DEF Replaced
<1>3. \A j \in DOMAIN vals' : j \in DOMAIN vals /\ vals'[j] = vals[j]
  BY DEF Fewest
<1>5. ValsOk'
  BY <1>3 DEF Inv, ValsOk
<1>6. StoreOk'
  BY DEF Inv, StoreOk
<1>7. CallOk'
  BY DEF Inv, CallOk
<1>8. h'.under \subseteq h.under
  BY DEF Replaced
<1>9. FrameOk'
  <2>1. CASE lib.framed
    BY <2>1, <1>3, <1>8 DEF Inv, FrameOk
  <2>2. CASE ~lib.framed
    BY <2>2 DEF FrameOk
  <2> QED
    BY <2>1, <2>2
<1> QED
  BY <1>1, <1>2, <1>5, <1>6, <1>7, <1>9 DEF Inv

LEMMA WithChanged ==
  ASSUME NEW f, NEW i, NEW v
  PROVE  /\ i \notin DOMAIN f => Changed(f, With(f, i, v), {}, i, v) /\ HeldAll(f, {}) = {}
         /\ i \in DOMAIN f => Changed(f, With(f, i, v), {i}, i, v) /\ HeldAll(f, {i}) = HeldBy(f[i])
PROOF
<1>1. DOMAIN With(f, i, v) = DOMAIN f \cup {i} /\ With(f, i, v)[i] = v
  BY DEF With
<1>2. \A j \in DOMAIN With(f, i, v) : j # i => j \in DOMAIN f /\ With(f, i, v)[j] = f[j]
  BY DEF With
<1>3. i \in DOMAIN f => (DOMAIN f \ {i}) \cup {i} = DOMAIN f \cup {i}
  OBVIOUS
<1>4. (DOMAIN f \ {}) \cup {i} = DOMAIN f \cup {i}
  OBVIOUS
<1>5. HeldAll(f, {}) = {} /\ HeldAll(f, {i}) = HeldBy(f[i])
  BY DEF HeldAll
<1> QED
  BY <1>1, <1>2, <1>3, <1>4, <1>5 DEF Changed

LEMMA RunFacts ==
  ASSUME Inv, NEW t \in Hosts, pc[t] = "run"
  PROVE  /\ lib.framed = scoped /\ Own \in {"frame", "keep"} /\ HeapInv(h, InUse(vals, store))
         /\ \A i \in DOMAIN vals : /\ i \in Int /\ ValOk(vals[i]) /\ HeldBy(vals[i]) \subseteq InUse(vals, store)
                                   /\ vals[i].own = "const" => i < 0 /\ vals[i].kind \in {"str", "list"}
PROOF BY HeldInUse DEF Inv, CallOk, ValsOk, Own

LEMMA MakeStep ==
  ASSUME Inv, NEW t \in Hosts, Running(t), NEW kind \in {"str", "list", "bytes"}, NEW n \in Nat, NEW cap \in Nat, kind = "str" => cap = n,
         NEW CONSTANT i, i \in NewNumbers, NEW CONSTANT m, m \in Malloc(h), Stepped,
         h' = Make(h, kind, cap, n, Own, m).h, vals' = With(vals, i, Make(h, kind, cap, n, Own, m).v)
  PROVE  Inv'
PROOF
<1>1. lib.framed = scoped /\ Own \in {"frame", "keep"} /\ HeapInv(h, InUse(vals, store))
  BY RunFacts DEF Running
<1>3. PICK v : v = Make(h, kind, cap, n, Own, m).v
  OBVIOUS
<1>4. i \in Int /\ i \notin DOMAIN vals
  BY DEF NewNumbers
<1>5. PICK X : X = {}
  OBVIOUS
<1>6. Changed(vals, vals', X, i, v) /\ HeldAll(vals, X) = {}
  BY <1>3, <1>4, <1>5, WithChanged
<1>7. ValOk(v) /\ v.own # "const" /\ Replaced(h, InUse(vals, store), h', {}, HeldBy(v))
  BY <1>1, <1>3, MakeOk
<1>8. store' = store /\ lib' = lib /\ pc' = pc /\ scoped' = scoped
  BY DEF Stepped
<1> QED
  BY <1>1, <1>4, <1>5, <1>6, <1>7, <1>8, ValueStep

LEMMA NewValueStep ==
  ASSUME Inv, NEW t \in Hosts, NEW kind \in {"str", "list", "bytes"}, NEW n \in Lens, NewValue(t, kind, n)
  PROVE  Inv'
PROOF
<1>1. Running(t) /\ Stepped /\ n \in Nat
  BY LibAssumption DEF NewValue
<1>2. PICK cap : cap = MakeCap(kind, n)
  OBVIOUS
<1>3. cap \in Nat /\ (kind = "str" => cap = n)
  BY <1>1, <1>2 DEF MakeCap, Max2, LeastCap
<1>4. PICK i \in NewNumbers, m \in Malloc(h) :
         h' = Make(h, kind, cap, n, Own, m).h /\ vals' = With(vals, i, Make(h, kind, cap, n, Own, m).v)
  BY <1>2 DEF NewValue
<1> QED
  BY <1>1, <1>3, <1>4, MakeStep

LEMMA LitStep ==
  ASSUME Inv, NEW t \in Hosts, NEW n \in LitLens, list_lit(t, n)
  PROVE  Inv'
PROOF
<1>1. Running(t) /\ Stepped /\ n \in Nat
  BY LibAssumption DEF list_lit
<1>2. PICK cap : cap = LitCap(n)
  OBVIOUS
<1>3. cap \in Nat
  BY <1>1, <1>2 DEF LitCap
<1>4. PICK i \in NewNumbers, m \in Malloc(h) :
         h' = Make(h, "list", cap, n, Own, m).h /\ vals' = With(vals, i, Make(h, "list", cap, n, Own, m).v)
  BY <1>2 DEF list_lit
<1> QED
  BY <1>1, <1>3, <1>4, MakeStep

LEMMA ReadInputStep ==
  ASSUME Inv, NEW t \in Hosts, NEW kind \in {"line", "all"}, NEW n \in Lens, ReadInput(t, kind, n)
  PROVE  Inv'
PROOF
<1>1. lib.framed = scoped /\ Own \in {"frame", "keep"} /\ HeapInv(h, InUse(vals, store)) /\ n \in Nat
  BY RunFacts, LibAssumption DEF ReadInput, Running
<1>2. PICK i \in NewNumbers, m \in Malloc(h) :
         h' = ReadStart(h, kind, n, Own, m).h /\ vals' = With(vals, i, ReadStart(h, kind, n, Own, m).v)
  BY DEF ReadInput
<1>3. PICK v : v = ReadStart(h, kind, n, Own, m).v
  OBVIOUS
<1>4. i \in Int /\ i \notin DOMAIN vals
  BY DEF NewNumbers
<1>5. PICK X : X = {}
  OBVIOUS
<1>6. Changed(vals, vals', X, i, v) /\ HeldAll(vals, X) = {}
  BY <1>2, <1>3, <1>4, <1>5, WithChanged
<1>7. ValOk(v) /\ v.own # "const" /\ Replaced(h, InUse(vals, store), h', {}, HeldBy(v))
  BY <1>1, <1>2, <1>3, ReadStartOk
<1>8. store' = store /\ lib' = lib /\ pc' = pc /\ scoped' = scoped
  BY DEF ReadInput, Stepped
<1> QED
  BY <1>1, <1>4, <1>5, <1>6, <1>7, <1>8, ValueStep

\* A value i that is not a constant becomes v, in blocks that replace its own.
LEMMA UpdateStep ==
  ASSUME Inv, store' = store, lib' = lib, pc' = pc, scoped' = scoped, lib.framed = scoped,
         NEW CONSTANT i, i \in DOMAIN vals, vals[i].own # "const", NEW CONSTANT v, vals' = With(vals, i, v),
         ValOk(v), v.own = vals[i].own,
         Replaced(h, InUse(vals, store), h', HeldBy(vals[i]), HeldBy(v))
  PROVE  Inv'
PROOF
<1>1. PICK X : X = {i}
  OBVIOUS
<1>2. Changed(vals, vals', X, i, v) /\ HeldAll(vals, X) = HeldBy(vals[i])
  BY <1>1, WithChanged
<1>3. i \in Int
  BY DEF Inv, ValsOk
<1> QED
  BY <1>1, <1>2, <1>3, ValueStep

LEMMA ReadStep ==
  ASSUME Inv, NEW t \in Hosts, NEW i \in Reading, ReadMore(t, i) \/ ReadEnd(t, i)
  PROVE  Inv'
PROOF
<1>1. lib.framed = scoped /\ HeapInv(h, InUse(vals, store)) /\ i \in DOMAIN vals /\ vals[i].kind \in {"line", "all"}
  BY RunFacts DEF ReadMore, ReadEnd, Reading
<1>2. ValOk(vals[i]) /\ HeldBy(vals[i]) \subseteq InUse(vals, store) /\ vals[i].own # "const"
  BY <1>1, RunFacts DEF ReadMore, ReadEnd
<1>3. store' = store /\ lib' = lib /\ pc' = pc /\ scoped' = scoped
  BY DEF ReadMore, ReadEnd
<1>4. CASE ReadMore(t, i)
  <2>1. PICK m \in Realloc(h, vals[i].p, vals[i].cap, 2 * vals[i].cap) :
           h' = ReadGrown(h, vals[i], m).h /\ vals' = With(vals, i, ReadGrown(h, vals[i], m).v)
    BY <1>4 DEF ReadMore
  <2>2. PICK v : v = ReadGrown(h, vals[i], m).v
    OBVIOUS
  <2>3. ValOk(v) /\ v.own = vals[i].own /\ Replaced(h, InUse(vals, store), h', HeldBy(vals[i]), HeldBy(v))
    BY <1>1, <1>2, <2>1, <2>2, ReadOk
  <2> QED
    BY <1>1, <1>2, <1>3, <2>1, <2>2, <2>3, UpdateStep
<1>5. CASE ReadEnd(t, i)
  <2>1. PICK m \in Realloc(h, vals[i].p, vals[i].cap, vals[i].len + 9) :
           h' = ReadCut(h, vals[i], m).h /\ vals' = With(vals, i, ReadCut(h, vals[i], m).v)
    BY <1>5 DEF ReadEnd
  <2>2. PICK v : v = ReadCut(h, vals[i], m).v
    OBVIOUS
  <2>3. ValOk(v) /\ v.own = vals[i].own /\ Replaced(h, InUse(vals, store), h', HeldBy(vals[i]), HeldBy(v))
    BY <1>1, <1>2, <2>1, <2>2, ReadOk
  <2> QED
    BY <1>1, <1>2, <1>3, <2>1, <2>2, <2>3, UpdateStep
<1> QED
  BY <1>4, <1>5

LEMMA PushStep ==
  ASSUME Inv, NEW t \in Hosts, NEW i \in Mine, PushCell(t, i)
  PROVE  Inv'
PROOF
<1>1. lib.framed = scoped /\ HeapInv(h, InUse(vals, store)) /\ i \in DOMAIN vals /\ i > 0 /\ Reading = {}
  BY RunFacts DEF PushCell, Running, Mine
<1>2. ValOk(vals[i]) /\ HeldBy(vals[i]) \subseteq InUse(vals, store) /\ vals[i].own # "const"
  BY <1>1, RunFacts DEF PushCell, Running
<1>3. store' = store /\ lib' = lib /\ pc' = pc /\ scoped' = scoped
  BY DEF PushCell, Stepped
<1>4. vals[i].kind \in {"list", "bytes"} /\ vals[i].cap > 0
  BY <1>1, <1>2 DEF PushCell, CanPush, Reading, ValOk, Value
<1>5. PICK m \in GrowAt(vals[i]) : h' = Push(h, vals[i], m).h /\ vals' = With(vals, i, Push(h, vals[i], m).v)
  BY DEF PushCell
<1>6. PICK v : v = Push(h, vals[i], m).v
  OBVIOUS
<1>7. ValOk(v) /\ v.own = vals[i].own /\ Replaced(h, InUse(vals, store), h', HeldBy(vals[i]), HeldBy(v))
  BY <1>1, <1>2, <1>4, <1>5, <1>6, PushOk DEF GrowAt
<1> QED
  BY <1>1, <1>2, <1>3, <1>5, <1>6, <1>7, UpdateStep

LEMMA FreezeStep ==
  ASSUME Inv, NEW t \in Hosts, NEW i \in Mine, Freeze(t, i)
  PROVE  Inv'
PROOF
<1>1. lib.framed = scoped /\ HeapInv(h, InUse(vals, store)) /\ i \in DOMAIN vals /\ i > 0
  BY RunFacts DEF Freeze, Running, Mine
<1>2. ValOk(vals[i]) /\ HeldBy(vals[i]) \subseteq InUse(vals, store) /\ vals[i].own # "const"
  BY <1>1, RunFacts DEF Freeze, Running
<1>3. store' = store /\ lib' = lib /\ pc' = pc /\ scoped' = scoped /\ h' = h /\ vals[i].kind = "list"
  BY DEF Freeze, Stepped
<1>4. PICK v : v = [vals[i] EXCEPT !.cap = 0 - vals[i].cap]
  OBVIOUS
<1>5. vals' = With(vals, i, v)
  BY <1>4 DEF Freeze
<1>6. ValOk(v) /\ HeldBy(v) = HeldBy(vals[i]) /\ v.own = vals[i].own
  BY <1>2, <1>3, <1>4, FrozenOk
<1>7. Replaced(h, InUse(vals, store), h', HeldBy(vals[i]), HeldBy(v))
  <2>1. (InUse(vals, store) \ HeldBy(vals[i])) \cup HeldBy(v) = InUse(vals, store)
    BY <1>2, <1>6
  <2>2. \A b \in HeldBy(v) : b.m # 0
    BY <1>1, <1>2, <1>6 DEF HeapInv, BlockOk
  <2> QED
    BY <1>1, <1>3, <1>6, <2>1, <2>2 DEF Replaced
<1> QED
  BY <1>1, <1>2, <1>3, <1>5, <1>6, <1>7, UpdateStep

LEMMA FreeValueStep ==
  ASSUME Inv, NEW t \in Hosts, NEW i \in Mine, FreeValue(t, i)
  PROVE  Inv'
PROOF
<1>1. lib.framed = scoped /\ HeapInv(h, InUse(vals, store)) /\ i \in DOMAIN vals
  BY RunFacts DEF FreeValue, Running, Mine
<1>2. ValOk(vals[i]) /\ HeldBy(vals[i]) \subseteq InUse(vals, store)
  BY <1>1, RunFacts DEF FreeValue, Running
<1>3. store' = store /\ lib' = lib /\ pc' = pc /\ scoped' = scoped
  BY DEF FreeValue, Stepped
<1>4. PICK X : X = {i}
  OBVIOUS
<1>5. Fewest(vals, vals', X)
  BY <1>1, <1>4 DEF FreeValue, Keeping, Fewest
<1>6. HeldAll(vals, X) = HeldBy(vals[i])
  BY <1>4 DEF HeldAll
<1>7. Replaced(h, InUse(vals, store), h', HeldBy(vals[i]), {})
  BY <1>1, <1>2, FreeOk DEF FreeValue
<1> QED
  BY <1>1, <1>3, <1>5, <1>6, <1>7, FreeStep

LEMMA ConcatStep ==
  ASSUME Inv, NEW t \in Hosts, NEW i \in Mine, NEW j \in Mine, Concat(t, i, j)
  PROVE  Inv'
PROOF
<1>1. lib.framed = scoped /\ HeapInv(h, InUse(vals, store)) /\ i \in DOMAIN vals /\ i > 0 /\ j \in DOMAIN vals /\ j > 0 /\ i # j
  BY RunFacts DEF Concat, CanConcat, Running, Mine
<1>2. /\ i \in Int /\ ValOk(vals[i]) /\ HeldBy(vals[i]) \subseteq InUse(vals, store) /\ vals[i].own # "const"
      /\ j \in Int /\ ValOk(vals[j]) /\ HeldBy(vals[j]) \subseteq InUse(vals, store) /\ vals[j].own # "const"
  BY <1>1, RunFacts DEF Concat, Running
<1>3. store' = store /\ lib' = lib /\ pc' = pc /\ scoped' = scoped
  BY DEF Concat, Stepped
<1>4. HeldBy(vals[i]) \cap HeldBy(vals[j]) = {} /\ vals[i].kind = "str" /\ vals[j].kind = "str"
  BY <1>1 DEF Inv, HandsOk, Concat, CanConcat
<1>5. PICK m \in Realloc(h, vals[i].p, vals[i].len + 9, vals[i].len + vals[j].len + 9) :
         /\ h' = ConcatInto(h, vals[i], vals[j], m).h
         /\ vals' = With(Keeping(DOMAIN vals \ {j}), i, ConcatInto(h, vals[i], vals[j], m).v)
  BY DEF Concat
<1>6. PICK v : v = ConcatInto(h, vals[i], vals[j], m).v
  OBVIOUS
<1>7. PICK X : X = {i, j}
  OBVIOUS
<1>8. /\ ValOk(v) /\ v.own = vals[i].own
      /\ Replaced(h, InUse(vals, store), h', HeldBy(vals[i]) \cup HeldBy(vals[j]), HeldBy(v))
  <2>1. PICK a, b, U : a = vals[i] /\ b = vals[j] /\ U = InUse(vals, store)
    OBVIOUS
  <2>2. /\ HeapInv(h, U) /\ ValOk(a) /\ ValOk(b) /\ HeldBy(a) \subseteq U /\ HeldBy(b) \subseteq U
        /\ HeldBy(a) \cap HeldBy(b) = {} /\ a.kind = "str" /\ b.kind = "str" /\ m \in Realloc(h, a.p, a.len + 9, a.len + b.len + 9)
    BY <2>1, <1>1, <1>2, <1>4
  <2>3. /\ ValOk(ConcatInto(h, a, b, m).v) /\ ConcatInto(h, a, b, m).v.own = a.own
        /\ Replaced(h, U, ConcatInto(h, a, b, m).h, HeldBy(a) \cup HeldBy(b), HeldBy(ConcatInto(h, a, b, m).v))
    BY <2>2, ConcatOk
  <2> QED
    BY <2>1, <2>3, <1>5, <1>6
<1>9. HeldAll(vals, X) = HeldBy(vals[i]) \cup HeldBy(vals[j])
  BY <1>7 DEF HeldAll
<1>10. Changed(vals, vals', X, i, v)
  <2>1. vals' = [l \in (DOMAIN vals \ {j}) \cup {i} |-> IF l = i THEN v ELSE Keeping(DOMAIN vals \ {j})[l]]
    BY <1>5, <1>6 DEF With, Keeping
  <2>2. DOMAIN vals' = (DOMAIN vals \ X) \cup {i} /\ vals'[i] = v
    BY <2>1, <1>1, <1>7
  <2>3. \A l \in DOMAIN vals' : l # i => l \in DOMAIN vals \ X /\ vals'[l] = vals[l]
    BY <2>1, <2>2 DEF Keeping
  <2> QED
    BY <2>2, <2>3, <1>1, <1>7 DEF Changed
<1>11. v.own # "const" /\ \A l \in X : vals[l].own # "const"
  BY <1>2, <1>7, <1>8
<1> QED
  BY <1>1, <1>2, <1>3, <1>8, <1>9, <1>10, <1>11, ValueStep

(***************************************************************************)
(* The flat store                                                          *)
(***************************************************************************)
LEMMA StoreStep ==
  ASSUME Inv, vals' = vals, lib' = lib, pc' = pc, scoped' = scoped, lib.framed = scoped,
         HeapInv(h', InUse(vals, store')), HandsOk(vals, store'), StoreOk',
         lib.framed => h'.under \subseteq {store'.p.m}
  PROVE  Inv'
PROOF
<1>1. ValsOk'
  BY DEF Inv, ValsOk
<1>2. CallOk'
  BY DEF Inv, CallOk
<1>3. FrameOk'
  BY DEF Inv, FrameOk
<1>4. HeapInv(h', InUse(vals', store')) /\ HandsOk(vals', store')
  OBVIOUS
<1> QED
  BY <1>1, <1>2, <1>3, <1>4 DEF Inv

\* The words already written stay below what is used.
LEMMA BaseOk ==
  ASSUME StoreOk, NEW n \in Nat
  PROVE  Base \in Nat /\ Base + n \in Nat /\ store.used <= Base + n
PROOF
<1>1. store.used \in Nat
  BY DEF StoreOk
<1> QED
  BY <1>1 DEF Base

\* The store moves to r's block.
LEMMA StoreMoved ==
  ASSUME NEW f, NEW st, NEW q, HandsOk(f, st), q.m # 0, q \notin InUse(f, st) \ {st.p},
         NEW su, su.p = q
  PROVE  /\ HandsOk(f, su)
         /\ InUse(f, su) \subseteq (InUse(f, st) \ {st.p}) \cup {q}
PROOF
<1>1. \A i \in DOMAIN f : HeldBy(f[i]) \subseteq InUse(f, st) \ {st.p}
  BY InUseIs DEF HandsOk
<1>2. HandsOk(f, su)
  BY <1>1 DEF HandsOk
<1>3. ASSUME NEW b \in InUse(f, su) PROVE b \in (InUse(f, st) \ {st.p}) \cup {q}
  BY <1>1, InUseIs
<1> QED
  BY <1>2, <1>3

LEMMA GrowStore ==
  ASSUME Inv, NEW c \in StoreCaps, NEW m \in Realloc(h, store.p, store.cap, c)
  PROVE  LET r == id_realloc(h, store.p, store.cap, c, m) IN
         /\ r.p \in Block /\ r.p.m # 0 /\ r.p.k = 0
         /\ r.p \notin InUse(vals, store) \ {store.p}
         /\ HeapInv(r.h, (InUse(vals, store) \ {store.p}) \cup {r.p})
         /\ h.under \subseteq {store.p.m} => r.h.under = {}
PROOF
<1> DEFINE r == id_realloc(h, store.p, store.cap, c, m)
           U == InUse(vals, store)
<1>1. /\ HeapInv(h, U) /\ c \in Nat /\ c > PoolMax /\ store.cap \in Nat /\ ClassOf(c) = 0 /\ PoolMax \in Nat
      /\ h \in Heap /\ h.under \subseteq h.arena /\ h.arena \subseteq Mallocs /\ 0 \notin Mallocs
  BY LibAssumption, Sizes DEF Inv, StoreOk, ClassOf, HeapInv, HeapOk, Heap
<1>2. CASE store.p.m = 0
  <2>1. store.cap = 0
    BY <1>2 DEF Inv, StoreOk
  <2>2. m \in Malloc(h) /\ r = pool_large_alloc(h, m)
    BY <2>1, <1>1, <1>2 DEF Realloc, id_realloc, pool_get
  <2>3. Got(h, U, r, 0)
    BY <2>2, <1>1, MallocUnused, LargeAlloc
  <2>4. U \ {store.p} = U
    BY <1>1, <1>2 DEF HeapInv, BlockOk
  <2>5. h.under \subseteq {store.p.m} => h.under = {}
    BY <1>1, <1>2
  <2> HIDE DEF r, U
  <2> QED
    BY <2>3, <2>4, <2>5 DEF Got, r, U
<1>3. CASE store.p.m # 0
  <2>1. store.p.k = 0 /\ store.cap > PoolMax /\ ClassOf(store.cap) = 0 /\ store.p \in U
    BY <1>3, InUseIs DEF Inv, StoreOk, ClassOf
  <2>2. Swapped(h, U, r, store.p, 0)
    <3>1. PICK p, old, W : p = store.p /\ old = store.cap /\ W = U
      OBVIOUS
    <3>2. Swapped(h, W, id_realloc(h, p, old, c, m), p, ClassOf(c))
      BY <3>1, <2>1, <1>1, ReallocOk
    <3> QED
      BY <3>1, <3>2, <1>1
  <2>3. r = pool_large_alloc(arena_unlink(h, store.p.m), m)
    BY <2>1, <1>1, <1>3 DEF id_realloc
  <2>4. r.h.under = h.under \ {store.p.m}
    <3> DEFINE f == arena_unlink(h, store.p.m)
    <3>1. f \in Heap /\ f.under = h.under \ {store.p.m}
      BY <1>1 DEF arena_unlink, Heap
    <3> HIDE DEF f, r
    <3>2. r.h = [f EXCEPT !.arena = f.arena \cup {m}]
      BY <2>3 DEF pool_large_alloc, arena_link, f
    <3> QED
      BY <3>1, <3>2 DEF Heap
  <2> HIDE DEF r, U
  <2> QED
    BY <2>2, <2>4 DEF Swapped, r, U
<1> QED
  BY <1>2, <1>3

LEMMA MemAllocStep ==
  ASSUME Inv, NEW t \in Hosts, NEW n \in StoreSizes, mem_alloc(t, n)
  PROVE  Inv'
PROOF
<1>1. lib.framed = scoped /\ HeapInv(h, InUse(vals, store)) /\ n \in Nat /\ StoreOk /\ HandsOk(vals, store)
  BY RunFacts, LibAssumption DEF mem_alloc, Running, Inv
<1>2. Base \in Nat /\ Base + n \in Nat /\ store.used <= Base + n
  BY <1>1, BaseOk
<1>3. vals' = vals /\ lib' = lib /\ pc' = pc /\ scoped' = scoped
  BY DEF mem_alloc
<1>4. lib.framed => h.under \subseteq {store.p.m}
  BY DEF Inv, FrameOk
<1>5. store \in [p : Block, used : Nat, cap : Nat, dirty : SUBSET Int] /\ \A a \in store.dirty : a \in Int /\ a < store.used
  BY <1>1 DEF StoreOk
<1>6. \A a \in store.dirty : a < Base + n
  BY <1>2, <1>5
<1>7. CASE store' = [store EXCEPT !.used = Base + n] /\ h' = h
  <2>1. /\ store' \in [p : Block, used : Nat, cap : Nat, dirty : SUBSET Int]
        /\ store'.p = store.p /\ store'.cap = store.cap /\ store'.dirty = store.dirty /\ store'.used = Base + n
    BY <1>2, <1>5, <1>7
  <2>2. StoreOk'
    BY <2>1, <1>1, <1>6 DEF StoreOk
  <2>3. InUse(vals, store') = InUse(vals, store) /\ HandsOk(vals, store')
    BY <2>1, <1>1 DEF InUse, HandsOk
  <2> QED
    BY <2>1, <2>2, <2>3, <1>1, <1>3, <1>4, <1>7, StoreStep
<1>8. ASSUME NEW c \in StoreCaps, NEW m \in Realloc(h, store.p, store.cap, c),
             h' = id_realloc(h, store.p, store.cap, c, m).h,
             store' = [store EXCEPT !.p = id_realloc(h, store.p, store.cap, c, m).p, !.used = Base + n, !.cap = c]
      PROVE  Inv'
  <2>1. PICK q : q = id_realloc(h, store.p, store.cap, c, m).p
    OBVIOUS
  <2>2. /\ q \in Block /\ q.m # 0 /\ q.k = 0 /\ q \notin InUse(vals, store) \ {store.p}
        /\ HeapInv(h', (InUse(vals, store) \ {store.p}) \cup {q})
        /\ h.under \subseteq {store.p.m} => h'.under = {}
    BY <2>1, <1>8, GrowStore
  <2>3. c \in Nat /\ c > PoolMax
    BY LibAssumption
  <2>4. /\ store' \in [p : Block, used : Nat, cap : Nat, dirty : SUBSET Int]
        /\ store'.p = q /\ store'.cap = c /\ store'.dirty = store.dirty /\ store'.used = Base + n
    BY <2>1, <2>2, <2>3, <1>2, <1>5, <1>8
  <2>5. StoreOk'
    BY <2>2, <2>3, <2>4, <1>6 DEF StoreOk
  <2>6. HandsOk(vals, store') /\ InUse(vals, store') \subseteq (InUse(vals, store) \ {store.p}) \cup {q}
    BY <2>2, <2>4, <1>1, StoreMoved
  <2>7. HeapInv(h', InUse(vals, store'))
    BY <2>2, <2>6, Fewer
  <2> QED
    BY <2>2, <2>5, <2>6, <2>7, <1>1, <1>3, <1>4, StoreStep
<1>9. CASE /\ Base + n > store.cap
           /\ \E c \in NewCap(Base + n) : \E m \in Realloc(h, store.p, store.cap, c) :
                 LET r == id_realloc(h, store.p, store.cap, c, m) IN
                 h' = r.h /\ store' = [store EXCEPT !.p = r.p, !.used = Base + n, !.cap = c]
  <2>1. PICK c \in NewCap(Base + n) : \E m \in Realloc(h, store.p, store.cap, c) :
           LET r == id_realloc(h, store.p, store.cap, c, m) IN
           h' = r.h /\ store' = [store EXCEPT !.p = r.p, !.used = Base + n, !.cap = c]
    BY <1>9
  <2>2. PICK m \in Realloc(h, store.p, store.cap, c) :
           LET r == id_realloc(h, store.p, store.cap, c, m) IN
           h' = r.h /\ store' = [store EXCEPT !.p = r.p, !.used = Base + n, !.cap = c]
    BY <2>1
  <2>3. c \in StoreCaps
    BY DEF NewCap, Lowest
  <2> QED
    BY <2>2, <2>3, <1>8
<1> QED
  BY <1>7, <1>9 DEF mem_alloc

LEMMA PokeStep ==
  ASSUME Inv, NEW t \in Hosts, Poke(t)
  PROVE  Inv'
PROOF
<1>1. lib.framed = scoped /\ HeapInv(h, InUse(vals, store)) /\ StoreOk /\ HandsOk(vals, store)
  BY RunFacts DEF Poke, Running, Inv
<1>2. /\ vals' = vals /\ lib' = lib /\ pc' = pc /\ scoped' = scoped /\ h' = h
      /\ store' = [store EXCEPT !.dirty = store.dirty \cup {store.used - 8}]
  BY DEF Poke
<1>3. store \in [p : Block, used : Nat, cap : Nat, dirty : SUBSET Int] /\ store.used \in Nat
  BY <1>1 DEF StoreOk
<1>4. store.used - 8 \in Int /\ store.used - 8 < store.used /\ store.dirty \cup {store.used - 8} \in SUBSET Int
  BY <1>3
<1>5. /\ store' \in [p : Block, used : Nat, cap : Nat, dirty : SUBSET Int]
      /\ store'.p = store.p /\ store'.cap = store.cap /\ store'.dirty = store.dirty \cup {store.used - 8} /\ store'.used = store.used
  BY <1>2, <1>3, <1>4
<1>6. StoreOk'
  BY <1>1, <1>4, <1>5 DEF StoreOk
<1>7. InUse(vals, store') = InUse(vals, store) /\ HandsOk(vals, store')
  BY <1>5, <1>1 DEF InUse, HandsOk
<1>8. lib.framed => h.under \subseteq {store.p.m}
  BY DEF Inv, FrameOk
<1> QED
  BY <1>1, <1>2, <1>5, <1>6, <1>7, <1>8, StoreStep

(***************************************************************************)
(* A call: the lock, the constants, the frame and what is left of it       *)
(***************************************************************************)
LEMMA EnterStep ==
  ASSUME Inv, NEW t \in Hosts, Enter(t)
  PROVE  Inv'
PROOF
<1>1. /\ h' = h /\ vals' = vals /\ store' = store /\ scoped' = scoped /\ lib.owner = {} /\ pc[t] = "host"
      /\ lib' = [lib EXCEPT !.owner = {t}, !.made = 0] /\ pc' = [pc EXCEPT ![t] = "init"]
  BY DEF Enter
<1>2. HeapInv(h, InUse(vals, store))' /\ ValsOk' /\ HandsOk(vals, store)' /\ StoreOk'
  BY <1>1 DEF Inv, ValsOk, StoreOk
<1>3. CallOk'
  <2>1. /\ lib' \in [owner : SUBSET Hosts, inited : Nat, made : Nat, framed : BOOLEAN, poolMark : SUBSET Mallocs, storeMark : Nat]
        /\ lib'.owner = {t} /\ lib'.framed = lib.framed
    BY <1>1 DEF Inv, CallOk
  <2>2. \A u \in Hosts : pc[u] = "host"
    BY <1>1 DEF Inv, CallOk
  <2>3. pc' \in [Hosts -> {"host", "init", "run", "broken"}] /\ pc'[t] = "init" /\ \A u \in Hosts : u # t => pc'[u] = "host"
    BY <1>1, <2>2 DEF Inv, CallOk
  <2>4. ~lib.framed /\ scoped' \in BOOLEAN
    BY <1>1 DEF Inv, CallOk
  <2> QED
    BY <2>1, <2>3, <2>4 DEF CallOk
<1>4. FrameOk'
  <2>1. lib'.framed = lib.framed /\ ~lib.framed
    BY <1>1 DEF Inv, CallOk
  <2> QED
    BY <1>1, <2>1 DEF Inv, FrameOk
<1> QED
  BY <1>2, <1>3, <1>4 DEF Inv

LEMMA InitTrapStep ==
  ASSUME Inv, NEW t \in Hosts, InitTrap(t)
  PROVE  Inv'
PROOF
<1>1. /\ h' = h /\ vals' = vals /\ store' = store /\ scoped' = scoped /\ pc[t] = "init"
      /\ lib' = [lib EXCEPT !.owner = {}, !.inited = 1] /\ pc' = [pc EXCEPT ![t] = "host"]
  BY DEF InitTrap
<1>2. HeapInv(h, InUse(vals, store))' /\ ValsOk' /\ HandsOk(vals, store)' /\ StoreOk'
  BY <1>1 DEF Inv, ValsOk, StoreOk
<1>3. lib.owner = {t} /\ ~lib.framed
  BY <1>1 DEF Inv, CallOk
<1>4. CallOk'
  <2>1. /\ lib' \in [owner : SUBSET Hosts, inited : Nat, made : Nat, framed : BOOLEAN, poolMark : SUBSET Mallocs, storeMark : Nat]
        /\ lib'.owner = {} /\ lib'.framed = lib.framed
    BY <1>1 DEF Inv, CallOk
  <2>2. pc' \in [Hosts -> {"host", "init", "run", "broken"}] /\ pc'[t] = "host" /\ \A u \in Hosts : u # t => pc'[u] = pc[u]
    BY <1>1 DEF Inv, CallOk
  <2>3. \A u \in Hosts : u # t => pc[u] = "host"
    BY <1>3 DEF Inv, CallOk
  <2>4. scoped' \in BOOLEAN
    BY <1>1 DEF Inv, CallOk
  <2> QED
    BY <2>1, <2>2, <2>3, <2>4, <1>3 DEF CallOk
<1>5. FrameOk'
  <2>1. lib'.framed = lib.framed
    BY <1>1 DEF Inv, CallOk
  <2> QED
    BY <1>1, <1>3, <2>1 DEF Inv, FrameOk
<1> QED
  BY <1>2, <1>4, <1>5 DEF Inv

\* A constant is a small block outside every frame.
ConstOk(g, U, r) ==
    /\ ValOk(r.v) /\ r.v.own = "const" /\ r.v.kind \in {"str", "list"} /\ \A b \in HeldBy(r.v) : b.k # 0
    /\ Replaced(g, U, r.h, {}, HeldBy(r.v)) /\ r.h.arena = g.arena

LEMMA SmallClass ==
  ASSUME NEW n \in Nat, n <= 48
  PROVE  ClassOf(n) # 0
PROOF
<1>1. n <= PoolMax /\ PoolMax \in Nat
  BY Sizes
<1> QED
  BY <1>1, Sizes DEF ClassOf

LEMMA ConstsOk ==
  ASSUME Inv, NEW m \in Malloc(h)
  PROVE  ConstOk(h, InUse(vals, store), ConstString(m)) /\ ConstOk(h, InUse(vals, store), ConstList(m))
PROOF
<1>1. HeapInv(h, InUse(vals, store))
  BY DEF Inv
<1>2. ClassOf(BlockBytes("str", 8)) # 0
  BY SmallClass DEF BlockBytes
<1>3. ClassOf(BlockBytes("list", 4)) # 0
  <2>1. BlockBytes("list", 4) = 48
    BY DEF BlockBytes, Cell
  <2> QED
    BY <2>1, SmallClass
<1>4. PICK s : s = Make(h, "str", 8, 8, "const", m)
  OBVIOUS
<1>5. ConstOk(h, InUse(vals, store), s)
  BY <1>1, <1>2, <1>4, MakeOk DEF ConstOk
<1>6. PICK r : r = Make(h, "list", 4, 4, "const", m)
  OBVIOUS
<1>7. ConstOk(h, InUse(vals, store), r) /\ r.v.kind = "list"
  BY <1>1, <1>3, <1>6, MakeOk DEF ConstOk
<1>8. PICK v : v = [r.v EXCEPT !.cap = 0 - r.v.cap]
  OBVIOUS
<1>9. ValOk(v) /\ HeldBy(v) = HeldBy(r.v) /\ v.own = r.v.own /\ v.kind = r.v.kind
  BY <1>7, <1>8, FrozenOk DEF ConstOk
<1>10. ConstList(m) = [h |-> r.h, v |-> v]
  BY <1>6, <1>8 DEF ConstList
<1>11. ConstOk(h, InUse(vals, store), [h |-> r.h, v |-> v])
  BY <1>7, <1>9 DEF ConstOk
<1> QED
  BY <1>4, <1>5, <1>10, <1>11 DEF ConstString

LEMMA ConstInitStep ==
  ASSUME Inv, NEW t \in Hosts, const_init(t)
  PROVE  Inv'
PROOF
<1>1. /\ store' = store /\ scoped' = scoped /\ pc' = pc /\ pc[t] = "init"
      /\ lib' = [lib EXCEPT !.inited = 1, !.made = lib.made + 1]
  BY DEF const_init
<1>2. lib.owner = {t} /\ ~lib.framed /\ lib.made \in Nat
  BY <1>1 DEF Inv, CallOk
<1>3. PICK m \in Malloc(h) : LET r == IF lib.made = 0 THEN ConstString(m) ELSE ConstList(m) IN
         h' = r.h /\ vals' = With(vals, 0 - 1 - lib.made, r.v)
  BY DEF const_init
<1>4. PICK r : r = IF lib.made = 0 THEN ConstString(m) ELSE ConstList(m)
  OBVIOUS
<1>5. PICK i, v : i = 0 - 1 - lib.made /\ v = r.v
  OBVIOUS
<1>6. ConstOk(h, InUse(vals, store), r) /\ h' = r.h /\ vals' = With(vals, i, v) /\ i \in Int /\ i < 0
  BY <1>2, <1>3, <1>4, <1>5, ConstsOk
<1>7. PICK X : X = IF i \in DOMAIN vals THEN {i} ELSE {}
  OBVIOUS
<1>8. Changed(vals, vals', X, i, v)
  BY <1>6, <1>7, WithChanged
<1>9. /\ Replaced(h, InUse(vals, store), h', {}, HeldBy(v)) /\ h'.arena = h.arena /\ ValOk(v) /\ v.own = "const"
      /\ v.kind \in {"str", "list"} /\ \A b \in HeldBy(v) : b.k # 0
  BY <1>5, <1>6 DEF ConstOk
<1>10. HandsOk(vals', store) /\ InUse(vals', store) \subseteq (InUse(vals, store) \ HeldAll(vals, X)) \cup HeldBy(v)
  BY <1>8, <1>9, ChangedHands DEF Inv, Replaced
<1>11. HeapInv(h', InUse(vals', store'))
  BY <1>1, <1>9, <1>10, Fewer DEF Replaced
<1>12. vals'[i] = v /\ \A j \in DOMAIN vals' : j # i => j \in DOMAIN vals /\ vals'[j] = vals[j]
  BY <1>8 DEF Changed
<1>13. ValsOk'
  BY <1>6, <1>9, <1>12 DEF Inv, ValsOk
<1>14. StoreOk'
  BY <1>1 DEF Inv, StoreOk
<1>15. lib'.framed = lib.framed /\ lib'.owner = lib.owner
  BY <1>1 DEF Inv, CallOk
<1>16. CallOk'
  <2>1. lib' \in [owner : SUBSET Hosts, inited : Nat, made : Nat, framed : BOOLEAN, poolMark : SUBSET Mallocs, storeMark : Nat]
    <3>1. lib.made + 1 \in Nat /\ 1 \in Nat
      BY <1>2
    <3> QED
      BY <3>1, <1>1 DEF Inv, CallOk
  <2> QED
    BY <2>1, <1>1, <1>15 DEF Inv, CallOk
<1>17. FrameOk'
  BY <1>1, <1>2, <1>9, <1>12, <1>15 DEF Inv, FrameOk
<1> QED
  BY <1>1, <1>10, <1>11, <1>13, <1>14, <1>16, <1>17 DEF Inv

\* A heap without a free list and without a chunk to carve from, as a frame
\* finds it and leaves it.
LEMMA NoLists ==
  ASSUME NEW g, g \in Heap, g.fl = NoFree, g.cur = 0, g.left = 0, g.under \subseteq g.arena,
         g.chunks \cap g.arena = {}, g.chunks \cap g.lost = {}, g.arena \cap g.lost = {},
         NEW U, \A b \in U : BlockOk(g, b), \A b, c \in U : b # c => Apart(b, c)
  PROVE  HeapInv(g, U)
PROOF
<1>1. \A k \in Classes : g.fl[k] = <<>> /\ DOMAIN g.fl[k] = {}
  BY DEF NoFree
<1>2. DOMAIN g.fl = Classes
  BY DEF NoFree
<1>3. Listed(g) = {}
  BY <1>1, <1>2, ListedIs
<1>4. HeapOk(g)
  BY DEF HeapOk
<1>5. ListsOk(g)
  BY <1>1 DEF ListsOk
<1> QED
  BY <1>3, <1>4, <1>5 DEF HeapInv

LEMMA NoFreeType == NoFree \in [Classes -> Seq(Block)]
PROOF
<1>1. <<>> \in Seq(Block)
  OBVIOUS
<1> QED
  BY <1>1 DEF NoFree

LEMMA OpenOk ==
  ASSUME NEW g, NEW U, HeapInv(g, U)
  PROVE  /\ HeapInv(OpenFrame(g), U) /\ OpenFrame(g).under = g.under \cup g.arena /\ OpenFrame(g).arena = g.arena
         /\ OpenFrame(g).chunks = g.chunks
PROOF
<1> DEFINE f == OpenFrame(g)
<1>1. g \in Heap
  BY DEF HeapInv, HeapOk
<1>2. /\ f \in Heap /\ f.chunks = g.chunks /\ f.arena = g.arena /\ f.under = g.under \cup g.arena /\ f.lost = g.lost /\ f.fl = NoFree
      /\ f.cur = 0 /\ f.left = 0
  <2>1. g.under \cup g.arena \in SUBSET Mallocs /\ 0 \in Nat /\ 0 \in Int
    BY <1>1 DEF Heap
  <2> QED
    BY <1>1, <2>1, NoFreeType DEF Heap, OpenFrame
<1> HIDE DEF f
<1>3. \A b \in U : BlockOk(f, b)
  BY <1>2 DEF HeapInv, BlockOk
<1>4. HeapInv(f, U)
  BY <1>2, <1>3, NoLists DEF HeapInv, HeapOk
<1> QED
  BY <1>2, <1>4 DEF f

LEMMA BeginStep ==
  ASSUME Inv, NEW t \in Hosts, idl_begin(t)
  PROVE  Inv'
PROOF
<1>1. /\ vals' = vals /\ store' = store /\ scoped' = scoped /\ pc[t] = "init" /\ pc' = [pc EXCEPT ![t] = "run"]
  BY DEF idl_begin
<1>2. lib.owner = {t} /\ ~lib.framed /\ scoped \in BOOLEAN /\ HeapInv(h, InUse(vals, store)) /\ 2 \in Nat
  BY <1>1 DEF Inv, CallOk
<1>3. ValsOk' /\ HandsOk(vals, store)' /\ StoreOk'
  BY <1>1 DEF Inv, ValsOk, StoreOk
<1>4. pc' \in [Hosts -> {"host", "init", "run", "broken"}] /\ pc'[t] = "run" /\ \A u \in Hosts : u # t => pc'[u] = "host"
  <2>1. \A u \in Hosts : u # t => pc[u] = "host"
    BY <1>2 DEF Inv, CallOk
  <2> QED
    BY <1>1, <2>1 DEF Inv, CallOk
<1>5. CASE scoped
  <2>1. h' = OpenFrame(h) /\ lib' = [lib EXCEPT !.inited = 2, !.framed = TRUE, !.poolMark = h.chunks, !.storeMark = store.used]
    BY <1>5 DEF idl_begin
  <2>2. HeapInv(h', InUse(vals', store')) /\ h'.under = h.under \cup h.arena
    BY <1>1, <1>2, <2>1, OpenOk
  <2>3. store.used = 1 /\ h.arena \subseteq {store.p.m} /\ h.under \subseteq h.arena /\ h.chunks \subseteq Mallocs
    BY <1>2, <1>5 DEF Inv, FrameOk, HeapInv, HeapOk, Heap
  <2>4. /\ lib' \in [owner : SUBSET Hosts, inited : Nat, made : Nat, framed : BOOLEAN, poolMark : SUBSET Mallocs, storeMark : Nat]
        /\ lib'.owner = {t} /\ lib'.framed = TRUE /\ lib'.poolMark = h.chunks /\ lib'.storeMark = 1
    <3>1. TRUE \in BOOLEAN /\ h.chunks \in SUBSET Mallocs /\ store.used \in Nat /\ 2 \in Nat
      BY <2>3
    <3>2. lib \in [owner : SUBSET Hosts, inited : Nat, made : Nat, framed : BOOLEAN, poolMark : SUBSET Mallocs, storeMark : Nat]
      BY DEF Inv, CallOk
    <3> QED
      BY <1>2, <2>1, <2>3, <3>1, <3>2
  <2>5. CallOk'
    BY <1>1, <1>2, <1>4, <1>5, <2>4 DEF CallOk
  <2>6. \A i \in DOMAIN vals : vals[i].own = "const" => \A b \in HeldBy(vals[i]) : b.m \in h.chunks
    <3> SUFFICES ASSUME NEW i \in DOMAIN vals, vals[i].own = "const", NEW b \in HeldBy(vals[i]) PROVE b.m \in h.chunks
      OBVIOUS
    <3>1. b.k # 0
      BY DEF Inv, ValsOk
    <3>2. b \in InUse(vals, store)
      BY InUseIs
    <3> QED
      BY <3>1, <3>2, <1>2 DEF HeapInv, BlockOk
  <2>7. FrameOk'
    BY <1>1, <2>2, <2>3, <2>4, <2>6 DEF FrameOk
  <2> QED
    BY <1>3, <2>2, <2>5, <2>7 DEF Inv
<1>6. CASE ~scoped
  <2>1. h' = h /\ lib' = [lib EXCEPT !.inited = 2]
    BY <1>6 DEF idl_begin
  <2>2. HeapInv(h', InUse(vals', store'))
    BY <1>1, <1>2, <2>1
  <2>3. /\ lib' \in [owner : SUBSET Hosts, inited : Nat, made : Nat, framed : BOOLEAN, poolMark : SUBSET Mallocs, storeMark : Nat]
        /\ lib'.owner = {t} /\ lib'.framed = FALSE
    BY <1>2, <2>1 DEF Inv, CallOk
  <2>4. CallOk'
    BY <1>1, <1>2, <1>4, <1>6, <2>3 DEF CallOk
  <2>5. FrameOk'
    BY <1>1, <1>6, <2>3 DEF FrameOk
  <2> QED
    BY <1>3, <2>2, <2>4, <2>5 DEF Inv
<1> QED
  BY <1>5, <1>6

\* Closing a frame gives back everything but the constants and the store.
LEMMA CloseOk ==
  ASSUME Inv, lib.framed, NEW g, HeapInv(g, InUse(vals, store)), g.under \subseteq h.under
  PROVE  LET f == CloseFrame(g) IN
         /\ f.arena \subseteq {store.p.m}
         /\ \A V : V \subseteq InUse(vals, store) /\ (\A b \in V : b = store.p \/ (b.k # 0 /\ b.m \in lib.poolMark)) => HeapInv(f, V)
PROOF
<1> DEFINE f == CloseFrame(g)
<1>1. /\ g \in Heap /\ HeapInv(g, InUse(vals, store)) /\ g.under \subseteq {store.p.m} /\ g.under \subseteq g.arena
      /\ g.chunks \cap g.arena = {} /\ g.chunks \cap g.lost = {} /\ g.arena \cap g.lost = {}
  BY DEF Inv, HeapInv, HeapOk, FrameOk
<1>2. /\ f \in Heap /\ f.chunks = g.chunks \cap lib.poolMark /\ f.arena = g.under \cup (g.arena \cap {store.p.m}) /\ f.under = {} /\ f.lost = g.lost
      /\ f.fl = NoFree /\ f.cur = 0 /\ f.left = 0
  <2>1. g.under \cup (g.arena \cap {store.p.m}) \in SUBSET Mallocs /\ g.chunks \cap lib.poolMark \in SUBSET Mallocs /\ 0 \in Nat /\ 0 \in Int
    BY <1>1 DEF Heap
  <2> QED
    BY <1>1, <2>1, NoFreeType DEF Heap, CloseFrame, KeptArena
<1> HIDE DEF f
<1>3. f.arena \subseteq {store.p.m} /\ f.chunks \cap f.arena = {} /\ f.under \subseteq f.arena
      /\ f.chunks \cap f.lost = {} /\ f.arena \cap f.lost = {}
  BY <1>1, <1>2
<1>4. ASSUME NEW V, V \subseteq InUse(vals, store), \A b \in V : b = store.p \/ (b.k # 0 /\ b.m \in lib.poolMark)
      PROVE  HeapInv(f, V)
  <2>1. \A b \in V : BlockOk(f, b)
    <3> SUFFICES ASSUME NEW b \in V PROVE BlockOk(f, b)
      OBVIOUS
    <3>1. BlockOk(g, b)
      BY <1>1, <1>4 DEF HeapInv
    <3>2. CASE b = store.p
      <4>1. b.k = 0
        BY <3>1, <3>2 DEF Inv, StoreOk, BlockOk
      <4> QED
        BY <3>1, <3>2, <4>1, <1>2 DEF BlockOk
    <3>3. CASE b.k # 0 /\ b.m \in lib.poolMark
      BY <3>1, <3>3, <1>2 DEF BlockOk
    <3> QED
      BY <1>4, <3>2, <3>3
  <2>2. \A b, c \in V : b # c => Apart(b, c)
    BY <1>1, <1>4 DEF HeapInv
  <2> QED
    BY <2>1, <2>2, <1>2, <1>3, NoLists
<1>5. f.arena \subseteq {store.p.m} /\ \A V : V \subseteq InUse(vals, store) /\ (\A b \in V : b = store.p \/ (b.k # 0 /\ b.m \in lib.poolMark)) => HeapInv(f, V)
  BY <1>3, <1>4
<1> QED
  BY <1>5 DEF f

\* idl_done, for the heap g the call leaves.
LEMMA DoneStep ==
  ASSUME Inv, NEW t \in Hosts, pc[t] = "run", NEW CONSTANT c, NEW CONSTANT g, idl_done(t, c, g),
         HeapInv(g, InUse(vals, store)), g.under \subseteq h.under
  PROVE  Inv'
PROOF
<1>2. /\ h' = IF lib.framed THEN CloseFrame(g) ELSE g
      /\ store' = IF lib.framed THEN ResetStore(store) ELSE store
      /\ vals' = Keeping({i \in DOMAIN vals : vals[i].own = "const" \/ (~scoped /\ i = export)})
      /\ lib' = [lib EXCEPT !.owner = {}, !.framed = FALSE]
      /\ pc' = [pc EXCEPT ![t] = "host"] /\ scoped' = scoped
  BY DEF idl_done
<1>3. lib.owner = {t} /\ lib.framed = scoped /\ scoped \in BOOLEAN
  BY DEF Inv, CallOk
<1>4. PICK X : X = {i \in DOMAIN vals : ~(vals[i].own = "const" \/ (~scoped /\ i = export))}
  OBVIOUS
<1>5. Fewest(vals, vals', X) /\ \A i \in DOMAIN vals' : vals[i].own = "const" \/ ~scoped
  BY <1>2, <1>4 DEF Keeping, Fewest
<1>6. HandsOk(vals', store) /\ InUse(vals', store) \subseteq InUse(vals, store)
  BY <1>5, FewestHands DEF Inv
<1>7. \A i \in DOMAIN vals' : i \in DOMAIN vals /\ vals'[i] = vals[i]
  BY <1>5 DEF Fewest
<1>8. ValsOk'
  BY <1>7 DEF Inv, ValsOk
<1>9. CallOk' /\ ~lib'.framed
  <2>1. /\ lib' \in [owner : SUBSET Hosts, inited : Nat, made : Nat, framed : BOOLEAN, poolMark : SUBSET Mallocs, storeMark : Nat]
        /\ lib'.owner = {} /\ lib'.framed = FALSE
    <3>1. {} \in SUBSET Hosts /\ FALSE \in BOOLEAN
      OBVIOUS
    <3> QED
      BY <1>2, <3>1 DEF Inv, CallOk
  <2>2. pc' \in [Hosts -> {"host", "init", "run", "broken"}] /\ \A u \in Hosts : pc'[u] = "host"
    BY <1>2, <1>3 DEF Inv, CallOk
  <2> QED
    BY <1>2, <1>3, <2>1, <2>2 DEF CallOk
<1>10. CASE lib.framed
  <2>1. h' = CloseFrame(g) /\ store' = [store EXCEPT !.used = lib.storeMark, !.dirty = {a \in store.dirty : a < lib.storeMark}]
    BY <1>2, <1>10 DEF ResetStore
  <2>2. lib.storeMark = 1 /\ 1 \in Nat /\ {a \in store.dirty : a < lib.storeMark} \in SUBSET Int
    BY <1>10 DEF Inv, FrameOk, StoreOk
  <2>3. /\ store' \in [p : Block, used : Nat, cap : Nat, dirty : SUBSET Int]
        /\ store'.p = store.p /\ store'.cap = store.cap /\ store'.used = 1 /\ store'.dirty = {a \in store.dirty : a < lib.storeMark}
    BY <2>1, <2>2 DEF Inv, StoreOk
  <2>4. StoreOk'
    BY <2>2, <2>3 DEF Inv, StoreOk
  <2>5. InUse(vals', store') = InUse(vals', store) /\ HandsOk(vals', store')
    BY <2>3, <1>6 DEF InUse, HandsOk
  <2>6. \A b \in InUse(vals', store) : b = store.p \/ (b.k # 0 /\ b.m \in lib.poolMark)
    <3> SUFFICES ASSUME NEW b \in InUse(vals', store), b # store.p PROVE b.k # 0 /\ b.m \in lib.poolMark
      OBVIOUS
    <3>1. PICK i \in DOMAIN vals' : b \in HeldBy(vals'[i])
      BY InUseIs
    <3>2. i \in DOMAIN vals /\ vals[i].own = "const" /\ b \in HeldBy(vals[i])
      BY <3>1, <1>3, <1>5, <1>7, <1>10
    <3> QED
      BY <3>2, <1>10 DEF Inv, ValsOk, FrameOk
  <2>7. HeapInv(h', InUse(vals', store'))
    BY <2>1, <2>5, <2>6, <1>6, <1>10, CloseOk
  <2>8. h'.arena \subseteq {store.p.m}
    BY <2>1, <1>10, CloseOk
  <2>9. FrameOk'
    BY <2>3, <2>8, <1>2, <1>3, <1>5, <1>7, <1>9, <1>10 DEF FrameOk
  <2> QED
    BY <2>4, <2>5, <2>7, <2>9, <1>8, <1>9 DEF Inv
<1>11. CASE ~lib.framed
  <2>1. h' = g /\ store' = store /\ ~scoped'
    BY <1>2, <1>3, <1>11
  <2>2. HeapInv(h', InUse(vals', store')) /\ HandsOk(vals', store')
    BY <2>1, <1>6, Fewer
  <2>3. StoreOk'
    BY <2>1 DEF Inv, StoreOk
  <2>4. FrameOk'
    BY <2>1, <1>9 DEF FrameOk
  <2> QED
    BY <2>2, <2>3, <2>4, <1>8, <1>9 DEF Inv
<1> QED
  BY <1>10, <1>11

LEMMA LeaveStep ==
  ASSUME Inv, NEW t \in Hosts, Leave(t)
  PROVE  Inv'
PROOF
<1>1. PICK c \in {0, 1, 2} : idl_done(t, c, h)
  BY DEF Leave
<1>2. PICK g : g = h
  OBVIOUS
<1>3. pc[t] = "run" /\ idl_done(t, c, g) /\ HeapInv(g, InUse(vals, store)) /\ g.under \subseteq h.under
  BY <1>1, <1>2 DEF Leave, Inv
<1> QED
  BY <1>3, DoneStep

(***************************************************************************)
(* A realloc that fails: its block is held as before, and in no list       *)
(***************************************************************************)
LEMMA LostOk ==
  ASSUME NEW g, NEW U, HeapInv(g, U), NEW p \in U, p.k = 0
  PROVE  HeapInv(realloc_fails(g, p.m), U) /\ realloc_fails(g, p.m).under \subseteq g.under
PROOF
<1> DEFINE e == arena_unlink(g, p.m)
           f == realloc_fails(g, p.m)
<1>1. g \in Heap /\ BlockOk(g, p) /\ p.m \in g.arena \cup g.lost
  BY DEF HeapInv, HeapOk, BlockOk
<1>2. p.m \in Mallocs
  BY <1>1 DEF Heap
<1>3. /\ e \in Heap /\ e.fl = g.fl /\ e.chunks = g.chunks /\ e.cur = g.cur /\ e.at = g.at /\ e.left = g.left
      /\ e.under = g.under \ {p.m} /\ e.arena = g.arena \ {p.m} /\ e.lost = g.lost \ {p.m}
  BY <1>1 DEF Heap, arena_unlink
<1>4. f = [e EXCEPT !.lost = e.lost \cup {p.m}]
  BY DEF realloc_fails
<1> HIDE DEF e, f
<1>5. /\ f \in Heap /\ f.fl = g.fl /\ f.chunks = g.chunks /\ f.cur = g.cur /\ f.at = g.at /\ f.left = g.left
      /\ f.under = g.under \ {p.m} /\ f.arena = g.arena \ {p.m} /\ f.lost = (g.lost \ {p.m}) \cup {p.m}
  BY <1>2, <1>3, <1>4 DEF Heap
<1>6. Listed(f) = Listed(g)
  BY <1>5 DEF Listed
<1>7. HeapOk(f) /\ ListsOk(f)
  BY <1>1, <1>5 DEF HeapInv, HeapOk, ListsOk
<1>8. \A b \in U \cup Listed(g) : BlockOk(f, b)
  BY <1>5 DEF HeapInv, BlockOk
<1>9. HeapInv(f, U)
  BY <1>6, <1>7, <1>8 DEF HeapInv
<1> QED
  BY <1>5, <1>9 DEF f

\* What the program asks id_realloc for is in use, and is told its right size.
LEMMA ResizesHeld ==
  ASSUME Inv, NEW t \in Hosts, pc[t] = "run", NEW r \in Resizes(t), r[1].m # 0
  PROVE  r[1] \in InUse(vals, store) /\ r[1].k = ClassOf(r[2])
PROOF
<1>1. \A i \in DOMAIN vals : /\ ValOk(vals[i]) /\ HeldBy(vals[i]) \subseteq InUse(vals, store)
  BY RunFacts
<1>2. ASSUME NEW i \in Reading, r = <<vals[i].p, vals[i].cap, IF ReadFull(vals[i]) THEN 2 * vals[i].cap ELSE vals[i].len + 9>>
      PROVE  r[1] \in InUse(vals, store) /\ r[1].k = ClassOf(r[2])
  <2>1. i \in DOMAIN vals /\ vals[i].kind \in {"line", "all"} /\ r[1] = vals[i].p /\ r[2] = vals[i].cap
    BY <1>2 DEF Reading
  <2>2. HeadBytes(vals[i]) = vals[i].cap
    BY <2>1 DEF HeadBytes
  <2> QED
    BY <1>1, <2>1, <2>2 DEF ValOk, HeldBy
<1>3. ASSUME NEW i \in Mine, r = <<vals[i].d, CellBytes(vals[i]), GrownBytes(vals[i])>>
      PROVE  r[1] \in InUse(vals, store) /\ r[1].k = ClassOf(r[2])
  <2>1. i \in DOMAIN vals /\ r[1] = vals[i].d /\ r[2] = CellBytes(vals[i]) /\ ~Inline(vals[i])
    BY <1>3 DEF Mine, Inline
  <2> QED
    BY <1>1, <2>1 DEF ValOk, HeldBy
<1>4. ASSUME NEW i \in Mine, NEW j \in Mine, CanConcat(i, j), r = <<vals[i].p, vals[i].len + 9, vals[i].len + vals[j].len + 9>>
      PROVE  r[1] \in InUse(vals, store) /\ r[1].k = ClassOf(r[2])
  <2>1. i \in DOMAIN vals /\ vals[i].kind = "str" /\ r[1] = vals[i].p /\ r[2] = vals[i].len + 9
    BY <1>4 DEF Mine, CanConcat
  <2>2. HeadBytes(vals[i]) = vals[i].len + 9
    BY <2>1 DEF HeadBytes
  <2> QED
    BY <1>1, <2>1, <2>2 DEF ValOk, HeldBy
<1>5. ASSUME NEW c, r = <<store.p, store.cap, c>>
      PROVE  r[1] \in InUse(vals, store) /\ r[1].k = ClassOf(r[2])
  <2>1. r[1] = store.p /\ r[2] = store.cap /\ store.p.m # 0
    BY <1>5
  <2>2. store.p \in InUse(vals, store)
    BY <2>1, InUseIs
  <2> QED
    BY <2>1, <2>2 DEF Inv, StoreOk, ClassOf
<1>6. \/ \E i \in Reading : r = <<vals[i].p, vals[i].cap, IF ReadFull(vals[i]) THEN 2 * vals[i].cap ELSE vals[i].len + 9>>
      \/ \E i \in Mine : r = <<vals[i].d, CellBytes(vals[i]), GrownBytes(vals[i])>>
      \/ \E x \in Mine \X Mine : CanConcat(x[1], x[2]) /\ r = <<vals[x[1]].p, vals[x[1]].len + 9, vals[x[1]].len + vals[x[2]].len + 9>>
      \/ \E c : r = <<store.p, store.cap, c>>
  BY Zenon DEF Resizes
<1> QED
  BY <1>2, <1>3, <1>4, <1>5, <1>6

LEMMA ReallocFailsStep ==
  ASSUME Inv, NEW t \in Hosts, ReallocFails(t)
  PROVE  Inv'
PROOF
<1>1. pc[t] = "run" /\ HeapInv(h, InUse(vals, store))
  BY DEF ReallocFails, Inv
<1>2. PICK r \in Resizes(t) : Moves(r[1], r[2], r[3]) /\ idl_done(t, 1, realloc_fails(h, r[1].m))
  BY DEF ReallocFails
<1>3. r[1] \in InUse(vals, store) /\ r[1].k = ClassOf(r[2])
  BY <1>1, <1>2, ResizesHeld DEF Moves
<1>4. r[1].k = 0
  BY <1>2, <1>3 DEF Moves, ClassOf
<1>5. PICK g : g = realloc_fails(h, r[1].m)
  OBVIOUS
<1>6. HeapInv(g, InUse(vals, store)) /\ g.under \subseteq h.under
  BY <1>1, <1>3, <1>4, <1>5, LostOk
<1>7. idl_done(t, 1, g)
  BY <1>2, <1>5
<1> QED
  BY <1>1, <1>6, <1>7, DoneStep

LEMMA DestroyedStep ==
  ASSUME Inv, NEW t \in Hosts, ListDestroyed(t)
  PROVE  Inv'
PROOF
<1>1. /\ h' = h /\ vals' = vals /\ store' = store /\ lib' = lib /\ scoped' = scoped /\ pc[t] = "run"
      /\ pc' = [pc EXCEPT ![t] = "broken"]
  BY DEF ListDestroyed, Running
<1>2. HeapInv(h', InUse(vals', store')) /\ HandsOk(vals', store')
  BY <1>1 DEF Inv
<1>3. ValsOk' /\ StoreOk' /\ FrameOk'
  BY <1>1 DEF Inv, ValsOk, StoreOk, FrameOk
<1>4. CallOk'
  <2>1. pc' \in [Hosts -> {"host", "init", "run", "broken"}] /\ pc'[t] = "broken" /\ \A u \in Hosts : u # t => pc'[u] = pc[u]
    BY <1>1 DEF Inv, CallOk
  <2> QED
    BY <1>1, <2>1 DEF Inv, CallOk
<1> QED
  BY <1>2, <1>3, <1>4 DEF Inv

\* Nothing allocated, nothing held.
LEMMA Nothing ==
  ASSUME NEW g, NEW f, NEW st, g \in Heap, g.fl = NoFree, g.cur = 0, g.left = 0, g.chunks = {}, g.arena = {}, g.under = {},
         DOMAIN f = {}, st = NoStore
  PROVE  HeapInv(g, InUse(f, st)) /\ HandsOk(f, st)
PROOF
<1>1. st.p.m = 0
  BY DEF NoStore, NoBlock
<1>2. InUse(f, st) = {}
  BY <1>1, InUseIs
<1>3. HeapInv(g, InUse(f, st))
  BY <1>2, NoLists
<1> QED
  BY <1>3 DEF HandsOk

LEMMA NoStoreOk ==
  /\ NoStore \in [p : Block, used : Nat, cap : Nat, dirty : SUBSET Int] /\ NoStore.p.m = 0 /\ NoStore.cap = 0
  /\ NoStore.used = 1 /\ NoStore.dirty = {}
PROOF BY DEF NoStore, NoBlock, Block

LEMMA ShutdownStep ==
  ASSUME Inv, idl_shutdown
  PROVE  Inv'
PROOF
<1>1. /\ h' = arena_free_all(h) /\ vals' = Keeping({}) /\ store' = NoStore /\ lib' = [lib EXCEPT !.inited = 0]
      /\ pc' = pc /\ scoped' = scoped /\ lib.owner = {}
  BY DEF idl_shutdown
<1>2. h \in Heap /\ ~lib.framed
  BY <1>1 DEF Inv, HeapInv, HeapOk, CallOk
<1>3. /\ h' \in Heap /\ h'.fl = NoFree /\ h'.cur = 0 /\ h'.left = 0 /\ h'.chunks = {} /\ h'.arena = {} /\ h'.under = {}
  <2>1. {} \in SUBSET Mallocs /\ 0 \in Nat /\ 0 \in Int
    OBVIOUS
  <2> DEFINE g == pool_drop(h)
  <2>2. g \in Heap /\ g.fl = NoFree /\ g.cur = 0 /\ g.left = 0 /\ g.chunks = {}
    BY <1>2, <2>1, NoFreeType DEF pool_drop, Heap
  <2>3. h' = [g EXCEPT !.arena = {}, !.under = {}]
    BY <1>1 DEF arena_free_all
  <2> HIDE DEF g
  <2> QED
    BY <2>1, <2>2, <2>3 DEF Heap
<1>4. DOMAIN vals' = {}
  BY <1>1 DEF Keeping
<1>5. HeapInv(h', InUse(vals', store')) /\ HandsOk(vals', store')
  BY <1>1, <1>3, <1>4, Nothing
<1>6. ValsOk'
  BY <1>4 DEF ValsOk
<1>7. StoreOk'
  BY <1>1, NoStoreOk DEF StoreOk
<1>8. CallOk' /\ ~lib'.framed
  <2>1. lib' \in [owner : SUBSET Hosts, inited : Nat, made : Nat, framed : BOOLEAN, poolMark : SUBSET Mallocs, storeMark : Nat]
        /\ lib'.owner = lib.owner /\ lib'.framed = lib.framed
    <3>1. 0 \in Nat
      OBVIOUS
    <3> QED
      BY <1>1, <3>1 DEF Inv, CallOk
  <2> QED
    BY <1>1, <1>2, <2>1 DEF Inv, CallOk
<1>9. FrameOk'
  BY <1>1, <1>3, <1>4, <1>8, NoStoreOk DEF FrameOk
<1> QED
  BY <1>5, <1>6, <1>7, <1>8, <1>9 DEF Inv

LEMMA SameStep ==
  ASSUME Inv, h' = h, vals' = vals, store' = store, lib' = lib, pc' = pc, scoped' = scoped
  PROVE  Inv'
PROOF
<1>1. HeapInv(h', InUse(vals', store')) /\ HandsOk(vals', store')
  BY DEF Inv
<1>2. ValsOk' /\ StoreOk' /\ CallOk' /\ FrameOk'
  BY DEF Inv, ValsOk, StoreOk, CallOk, FrameOk
<1> QED
  BY <1>1, <1>2 DEF Inv

(***************************************************************************)
(* The theorems                                                            *)
(***************************************************************************)
LEMMA InitInv == Init => Inv
PROOF
<1> SUFFICES ASSUME Init PROVE Inv
  OBVIOUS
<1>1. /\ h = EmptyHeap /\ DOMAIN vals = {} /\ store = NoStore /\ scoped \in ScopedSet /\ pc = [t \in Hosts |-> "host"]
      /\ lib = [owner |-> {}, inited |-> 0, made |-> 0, framed |-> FALSE, poolMark |-> {}, storeMark |-> 1]
  BY DEF Init
<1>2. /\ h \in Heap /\ h.fl = NoFree /\ h.cur = 0 /\ h.left = 0 /\ h.chunks = {} /\ h.arena = {} /\ h.under = {}
  BY <1>1, NoFreeType DEF EmptyHeap, Heap
<1>3. HeapInv(h, InUse(vals, store)) /\ HandsOk(vals, store)
  BY <1>1, <1>2, Nothing
<1>4. ValsOk /\ StoreOk
  BY <1>1, NoStoreOk DEF ValsOk, StoreOk
<1>5. CallOk /\ ~lib.framed
  BY <1>1, LibAssumption DEF CallOk
<1>6. FrameOk
  BY <1>1, <1>2, <1>5, NoStoreOk DEF FrameOk
<1> QED
  BY <1>3, <1>4, <1>5, <1>6 DEF Inv

LEMMA NextInv == Inv /\ [Next]_vars => Inv'
PROOF
<1> SUFFICES ASSUME Inv, [Next]_vars PROVE Inv'
  OBVIOUS
<1>1. ASSUME NEW t \in Hosts, Work(t) PROVE Inv'
  <2>1. ASSUME NEW kind \in {"str", "list", "bytes"}, NEW n \in Lens, NewValue(t, kind, n) PROVE Inv'
    BY <2>1, NewValueStep
  <2>2. ASSUME NEW kind \in {"line", "all"}, NEW n \in Lens, ReadInput(t, kind, n) PROVE Inv'
    BY <2>2, ReadInputStep
  <2>11. ASSUME NEW n \in LitLens, list_lit(t, n) PROVE Inv'
    BY <2>11, LitStep
  <2>3. ASSUME NEW i \in Reading, ReadMore(t, i) \/ ReadEnd(t, i) PROVE Inv'
    BY <2>3, ReadStep
  <2>4. ASSUME NEW i \in Mine, PushCell(t, i) PROVE Inv'
    BY <2>4, PushStep
  <2>5. ASSUME NEW i \in Mine, Freeze(t, i) PROVE Inv'
    BY <2>5, FreezeStep
  <2>6. ASSUME NEW i \in Mine, FreeValue(t, i) PROVE Inv'
    BY <2>6, FreeValueStep
  <2>7. ASSUME NEW i \in Mine, Export(t, i) PROVE Inv'
    BY <2>7, SameStep DEF Export
  <2>8. ASSUME NEW i \in Mine, NEW j \in Mine, Concat(t, i, j) PROVE Inv'
    BY <2>8, ConcatStep
  <2>9. ASSUME NEW n \in StoreSizes, mem_alloc(t, n) PROVE Inv'
    BY <2>9, MemAllocStep
  <2>10. CASE Poke(t)
    BY <2>10, PokeStep
  <2> QED
    BY <1>1, <2>1, <2>2, <2>3, <2>4, <2>5, <2>6, <2>7, <2>8, <2>9, <2>10, <2>11, Zenon DEF Work
<1>2. ASSUME NEW t \in Hosts, Enter(t) PROVE Inv'
  BY <1>2, EnterStep
<1>3. ASSUME NEW t \in Hosts, const_init(t) PROVE Inv'
  BY <1>3, ConstInitStep
<1>4. ASSUME NEW t \in Hosts, InitTrap(t) PROVE Inv'
  BY <1>4, InitTrapStep
<1>5. ASSUME NEW t \in Hosts, idl_begin(t) PROVE Inv'
  BY <1>5, BeginStep
<1>6. ASSUME NEW t \in Hosts, Leave(t) PROVE Inv'
  BY <1>6, LeaveStep
<1>9. ASSUME NEW t \in Hosts, ReallocFails(t) PROVE Inv'
  BY <1>9, ReallocFailsStep
<1>10. ASSUME NEW t \in Hosts, ListDestroyed(t) PROVE Inv'
  BY <1>10, DestroyedStep
<1>7. CASE idl_shutdown
  BY <1>7, ShutdownStep
<1>8. CASE UNCHANGED vars
  BY <1>8, SameStep DEF vars
<1> QED
  BY <1>1, <1>2, <1>3, <1>4, <1>5, <1>6, <1>7, <1>8, <1>9, <1>10, Zenon DEF Next

\* The invariant of the allocator and of the frames holds in every call, for any
\* number of host threads calling, whatever way calls are left (idl_done, traps,
\* a realloc in id_realloc that fails after its block was unlinked).
THEOREM SpecInv == Spec => []Inv
PROOF BY InitInv, NextInv, PTL DEF Spec

\* No memory is in two hands: the sizes that the frees of strings, lists, bytes
\* and the store recompute always name the class a block was carved for, so
\* that id_pool_free never puts a block on the wrong list or on a list twice.
THEOREM SpecNoBlockTwice == Spec => []NoBlockTwice
PROOF
<1>1. Inv => NoBlockTwice
  <2> SUFFICES ASSUME Inv PROVE NoBlockTwice
    OBVIOUS
  <2>1. DOMAIN h.fl = Classes
    BY DEF Inv, HeapInv, HeapOk, Heap
  <2>2. /\ \A i, j \in DOMAIN vals : i # j => HeldBy(vals[i]) \cap HeldBy(vals[j]) = {}
        /\ \A i \in DOMAIN vals : store.p \notin HeldBy(vals[i])
    BY DEF Inv, HandsOk
  <2>3. \A k \in DOMAIN h.fl : \A x, y \in DOMAIN h.fl[k] : h.fl[k][x].k = k /\ (x # y => h.fl[k][x] # h.fl[k][y])
    BY <2>1 DEF Inv, HeapInv, ListsOk
  <2>4. /\ InUse(vals, store) \cap Listed(h) = {}
        /\ \A b, c \in InUse(vals, store) \cup Listed(h) : b # c => Apart(b, c)
    BY DEF Inv, HeapInv
  <2> QED
    BY <2>2, <2>3, <2>4 DEF NoBlockTwice
<1> QED
  BY <1>1, SpecInv, PTL

\* What a value or the store holds has not been given back to malloc: neither
\* closing a frame (idl_release) nor growing the store (id_store_grow), also
\* when its realloc fails, frees a block that a constant, an exported value or
\* the store still refers to.
THEOREM SpecHeldIsAllocated == Spec => []HeldIsAllocated
PROOF
<1>1. Inv => HeldIsAllocated
  BY DEF Inv, HeapInv, BlockOk, HeldIsAllocated, Allocated
<1> QED
  BY <1>1, SpecInv, PTL

\* A scoped library keeps nothing in its lists between calls but its constants
\* and the store's memory (idl_release), whatever way the calls before were left.
THEOREM SpecScopedKeepsNothing == Spec => []ScopedKeepsNothing
PROOF
<1>1. Inv => ScopedKeepsNothing
  <2> SUFFICES ASSUME Inv, scoped, lib.owner = {}
               PROVE  /\ \A i \in DOMAIN vals : vals[i].own = "const"
                      /\ h.arena \subseteq {b.m : b \in InUse(vals, store)}
                      /\ store.used = 1
    BY DEF ScopedKeepsNothing
  <2>1. ~lib.framed
    BY DEF Inv, CallOk
  <2>2. (\A i \in DOMAIN vals : vals[i].own = "const") /\ store.used = 1 /\ h.arena \subseteq {store.p.m}
    BY <2>1 DEF Inv, FrameOk
  <2>3. 0 \notin h.arena
    BY Sizes DEF Inv, HeapInv, HeapOk, Heap
  <2>4. ASSUME NEW a \in h.arena PROVE \E b \in InUse(vals, store) : a = b.m
    BY <2>2, <2>3, InUseIs
  <2> QED
    BY <2>2, <2>4
<1> QED
  BY <1>1, SpecInv, PTL

\* The store's memory is zero when id_mem_alloc hands it out: idl_release has
\* cleared what earlier calls wrote above the mark it goes back to.
THEOREM SpecFreshStoreIsZero == Spec => []FreshStoreIsZero
PROOF
<1>1. Inv => FreshStoreIsZero
  BY DEF Inv, StoreOk, FreshStoreIsZero
<1> QED
  BY <1>1, SpecInv, PTL
=============================================================================
