--------------------------- MODULE FrontEndProofs ---------------------------
(***************************************************************************)
(* What is proved of the front end for every input: the closure of the     *)
(* standard library that a program needs (StdClosure), the lexer (Lexer),  *)
(* and the marking of the functions to keep over the hash map (Reach).     *)
(***************************************************************************)
EXTENDS StdClosure, Lexer, Reach, FiniteSetTheorems, WellFoundedInduction, TLAPS

(***************************************************************************)
(* Least and greatest elements                                             *)
(***************************************************************************)
\* A set of natural numbers that is not empty has a least one, and Min is it.
LEMMA LeastOf ==
    ASSUME NEW S, S \subseteq Nat, S # {}
    PROVE  Min(S) \in S /\ \A x \in S : Min(S) <= x
  <1>1. PICK m \in S : TRUE
    OBVIOUS
  <1> DEFINE T == {0 .. x : x \in {y \in S : y <= m}}
  <1>2. T \subseteq SUBSET (0 .. m) /\ T # {} /\ m \in Nat
    BY <1>1
  <1>3. IsWellFoundedOn(StrictSubsetOrdering(0 .. m), SUBSET (0 .. m))
    <2>1. IsFiniteSet(0 .. m)
      BY FS_Interval, <1>2
    <2>2. FiniteSubsetsOf(0 .. m) = SUBSET (0 .. m)
      BY <2>1, FS_FiniteSubsetsOfFinite
    <2> QED BY <2>2, FS_StrictSubsetOrderingWellFounded
  <1>4. PICK t \in T : \A u \in T : ~(<<u, t>> \in StrictSubsetOrdering(0 .. m))
    BY <1>2, <1>3, WFMin
  <1>5. PICK x \in S : x <= m /\ t = 0 .. x
    OBVIOUS
  <1>6. ASSUME NEW y \in S PROVE x <= y
    <2> SUFFICES ASSUME y < x PROVE FALSE
      OBVIOUS
    <2>1. y <= m /\ x \in Nat /\ y \in Nat
      BY <1>5, <1>2
    <2>2. 0 .. y \in T
      BY <2>1
    <2>3. 0 .. y \subseteq 0 .. x /\ x \in 0 .. x /\ x \notin 0 .. y
      BY <2>1
    <2>4. <<0 .. y, t>> \in StrictSubsetOrdering(0 .. m)
      BY <1>2, <1>5, <2>2, <2>3 DEF StrictSubsetOrdering
    <2> QED BY <1>4, <2>2, <2>4
  <1>7. \A z \in S : (\A y \in S : z <= y) => z = x
    BY <1>6
  <1> QED BY <1>6, <1>7 DEF Min


\* The first position of a set that has the one behind the source.
LEMMA FirstIn ==
    ASSUME NEW i \in Nat, NEW last \in Nat, NEW J, J \subseteq i .. last, last \in J
    PROVE  /\ Min(J) \in J /\ Min(J) \in i .. last
           /\ \A j \in i .. Min(J) - 1 : j \notin J
  <1>1. J \subseteq Nat /\ J # {}
    OBVIOUS
  <1>2. Min(J) \in J /\ \A j \in J : Min(J) <= j
    BY <1>1, LeastOf
  <1> DEFINE m == Min(J)
  <1>3. m \in J /\ m \in i .. last /\ \A j \in J : m <= j
    BY <1>2
  <1> HIDE DEF m
  <1>4. \A j \in i .. m - 1 : j \notin J
    BY <1>3
  <1> QED BY <1>3, <1>4 DEF m

\* A set of natural numbers with a bound has a greatest one, and Max is it.
LEMMA GreatestOf ==
    ASSUME NEW n \in Int, NEW S, S \subseteq 1 .. n, S # {}
    PROVE  Max(S) \in S /\ \A x \in S : x <= Max(S)
  <1> DEFINE T == {n - x : x \in S}
  <1>1. T \subseteq Nat /\ T # {}
    <2>1. \A x \in S : n - x \in Nat
      OBVIOUS
    <2>2. PICK x \in S : TRUE
      OBVIOUS
    <2>3. n - x \in T
      OBVIOUS
    <2> QED BY <2>1, <2>3
  <1>2. Min(T) \in T /\ \A y \in T : Min(T) <= y
    BY <1>1, LeastOf
  <1>3. PICK m \in S : Min(T) = n - m
    BY <1>2
  <1>4. \A x \in S : x <= m
    <2> SUFFICES ASSUME NEW x \in S PROVE x <= m
      OBVIOUS
    <2>1. n - x \in T
      OBVIOUS
    <2>2. n - m <= n - x
      BY <1>2, <1>3, <2>1
    <2> QED BY <2>2
  <1>5. \A z \in S : (\A x \in S : z >= x) => z = m
    BY <1>4
  <1> QED BY <1>4, <1>5 DEF Max

\* The greatest number of a set.
LEMMA GreatestIs ==
    ASSUME NEW S, S \subseteq Int, NEW m \in S, \A x \in S : x <= m
    PROVE  Max(S) = m
  <1>1. \A z \in S : (\A x \in S : z >= x) => z = m
    OBVIOUS
  <1> QED BY <1>1 DEF Max

(***************************************************************************)
(* The closure of the standard library: what std_closure loads is exactly  *)
(* the closure of the program's names, for every library, index, mode and  *)
(* set of roots.                                                           *)
(***************************************************************************)
\* A name stands for nodes of the library, and pushing only ever adds them.
LEMMA WantedAreNodes ==
    ASSUME NEW S
    PROVE  Wanted(S) \subseteq Nodes
  <1> SUFFICES ASSUME NEW n \in S PROVE want(n) \subseteq Nodes
    BY DEF Wanted
  <1> QED BY DEF want, Nodes, Names

\* The index, the mode and the roots do not change while the search runs.
LEMMA IndexFixed ==
    ASSUME [Next]_vars
    PROVE  UNCHANGED index
  BY DEF Next, vars, TakeRoots, TakeFunction, TakeConst, EmitPlan

\* So neither does what a node mentions.
LEMMA MentionsFixed ==
    ASSUME UNCHANGED index
    PROVE  /\ Wanted(roots)' = Wanted(roots)
           /\ \A x : Wanted(Mentions(x))' = Wanted(Mentions(x))
  <1>1. roots' = roots /\ body' = body /\ cases' = cases /\ init' = init /\ mode' = mode
    BY DEF index
  <1>2. Wanted(roots)' = Wanted(roots)
    BY <1>1 DEF Wanted
  <1>3. ASSUME NEW x PROVE Wanted(Mentions(x))' = Wanted(Mentions(x))
    BY <1>1 DEF Wanted, Mentions
  <1> QED BY <1>2, <1>3

\* A step of the search is the first one, a node taken, or the last one.
LEMMA StepShape ==
    ASSUME Next
    PROVE  \/ /\ pc = "roots" /\ pc' = "loop"
              /\ vis' = vis \cup Wanted(roots)
              /\ todo' = todo \cup (Wanted(roots) \ vis)
           \/ /\ pc = "loop" /\ pc' = pc
              /\ \E x \in todo : Take(x)
           \/ /\ pc = "loop" /\ pc' = "done" /\ todo = {}
              /\ UNCHANGED <<vis, todo>>
  <1>1. CASE TakeRoots
    BY <1>1 DEF TakeRoots, Push
  <1>2. CASE TakeFunction
    BY <1>2 DEF TakeFunction, Functions
  <1>3. CASE TakeConst
    BY <1>3 DEF TakeConst
  <1>4. CASE EmitPlan
    BY <1>4 DEF EmitPlan
  <1> QED BY <1>1, <1>2, <1>3, <1>4 DEF Next

\* Every variable keeps its type; what is still to be taken has been visited.
THEOREM ClosureType == Spec => []TypeOK
  <1>1. Init => TypeOK
    BY NamesAssumption DEF Init, TypeOK, Nodes
  <1>2. TypeOK /\ [Next]_vars => TypeOK'
    <2> SUFFICES ASSUME TypeOK, [Next]_vars PROVE TypeOK'
      OBVIOUS
    <2>1. UNCHANGED <<body, cases, init, mode, roots>>
      BY IndexFixed DEF index
    <2>2. vis' \in SUBSET Nodes /\ todo' \in SUBSET vis' /\ pc' \in {"roots", "loop", "done"}
      <3>1. CASE UNCHANGED vars
        BY <3>1 DEF vars, TypeOK
      <3>2. CASE Next
        <4>1. Wanted(roots) \subseteq Nodes /\ \A x : Wanted(Mentions(x)) \subseteq Nodes
          BY WantedAreNodes
        <4> QED BY <3>2, <4>1, StepShape DEF TypeOK, Take
      <3> QED BY <3>1, <3>2
    <2> QED BY <2>1, <2>2 DEF TypeOK
  <1> QED BY <1>1, <1>2, PTL DEF Spec

\* A node that has been taken has had everything it mentions pushed.
LEMMA PendingInductive ==
    ASSUME TypeOK, Pending, [Next]_vars
    PROVE  Pending'
  <1>1. /\ Wanted(roots)' = Wanted(roots)
        /\ \A x : Wanted(Mentions(x))' = Wanted(Mentions(x))
    BY IndexFixed, MentionsFixed
  <1>2. CASE UNCHANGED vars
    <2>1. pc' = pc /\ vis' = vis /\ todo' = todo
      BY <1>2 DEF vars
    <2> QED BY <1>1, <2>1 DEF Pending
  <1>3. CASE pc = "roots" /\ pc' = "loop" /\ vis' = vis \cup Wanted(roots)
             /\ todo' = todo \cup (Wanted(roots) \ vis)
    BY <1>1, <1>3 DEF Pending
  <1>4. CASE pc = "loop" /\ pc' = pc /\ \E x \in todo : Take(x)
    BY <1>1, <1>4 DEF Pending, Take, TypeOK
  <1>5. CASE pc = "loop" /\ pc' = "done" /\ todo = {} /\ UNCHANGED <<vis, todo>>
    BY <1>1, <1>5 DEF Pending
  <1> QED BY <1>2, <1>3, <1>4, <1>5, StepShape

\* The plan that std_closure prints leaves out nothing that the program, or
\* anything it loads, mentions.
THEOREM PlanIsComplete == Spec => []PlanComplete
  <1>1. Init => Pending
    BY DEF Init, Pending
  <1>2. TypeOK /\ Pending /\ [Next]_vars => Pending'
    BY PendingInductive
  <1>3. Pending => PlanComplete
    BY DEF Pending, PlanComplete, Closed
  <1> QED BY <1>1, <1>2, <1>3, ClosureType, PTL DEF Spec

\* It loads nothing else: every set that is closed under mentions and holds
\* the roots' nodes holds all that std_closure has visited, at every step.
THEOREM PlanIsMinimal == Spec => []PlanMinimal
  <1>1. Init => PlanMinimal
    BY DEF Init, PlanMinimal
  <1>2. TypeOK /\ PlanMinimal /\ [Next]_vars => PlanMinimal'
    <2> SUFFICES ASSUME TypeOK, PlanMinimal, [Next]_vars,
                        NEW S \in SUBSET Nodes, Closed(S)'
                 PROVE  vis' \subseteq S
      BY DEF PlanMinimal, Nodes
    <2>1. Wanted(roots) \subseteq S /\ \A x \in S : Wanted(Mentions(x)) \subseteq S
      <3>1. /\ Wanted(roots)' = Wanted(roots)
            /\ \A x : Wanted(Mentions(x))' = Wanted(Mentions(x))
        BY IndexFixed, MentionsFixed
      <3> QED BY <3>1 DEF Closed
    <2>2. vis \subseteq S
      BY <2>1 DEF PlanMinimal, Closed
    <2>3. CASE UNCHANGED vars
      BY <2>2, <2>3 DEF vars
    <2>4. CASE Next
      <3>1. todo \subseteq S
        BY <2>2 DEF TypeOK
      <3> QED BY <2>1, <2>2, <2>4, <3>1, StepShape DEF Take
    <2> QED BY <2>3, <2>4
  <1> QED BY <1>1, <1>2, ClosureType, PTL DEF Spec

(***************************************************************************)
(* The hash map and the marking: see HashMap and Reach for the invariant.  *)
(***************************************************************************)
\* The probes of a key are slots of the table, and every slot is one of them.
LEMMA ProbesAreSlots ==
    ASSUME NEW n \in Nat \ {0}, NEW key \in DOMAIN Hash
    PROVE  /\ \A d \in 0 .. n - 1 : Probe(n, key, d) \in 1 .. n
           /\ \A i \in 1 .. n : \E d \in 0 .. n - 1 : Probe(n, key, d) = i
           /\ \A d, e \in 0 .. n - 1 : Probe(n, key, d) = Probe(n, key, e) => d = e
  <1> DEFINE home == Hash[key] % n
  <1>1. home \in 0 .. n - 1
    BY HashAssumption
  <1> HIDE DEF home
  <1>2. \A d : Probe(n, key, d) = IF home + d < n THEN home + d + 1 ELSE home + d - n + 1
    BY DEF Probe, home
  <1>3. ASSUME NEW i \in 1 .. n PROVE \E d \in 0 .. n - 1 : Probe(n, key, d) = i
    <2> DEFINE d == IF i - 1 >= home THEN i - 1 - home ELSE i - 1 - home + n
    <2>1. d \in 0 .. n - 1 /\ (IF home + d < n THEN home + d + 1 ELSE home + d - n + 1) = i
      BY <1>1
    <2> QED BY <1>2, <2>1
  <1>4. \A d \in 0 .. n - 1 : Probe(n, key, d) \in 1 .. n
    BY <1>1, <1>2
  <1>5. \A d, e \in 0 .. n - 1 : Probe(n, key, d) = Probe(n, key, e) => d = e
    BY <1>1, <1>2
  <1> QED BY <1>3, <1>4, <1>5

\* The key of a used slot is a key, and no other slot has it.
LEMMA OneSlotPerKey ==
    ASSUME NEW t, TableOK(t), NEW i \in UsedIn(t), NEW j \in UsedIn(t), t[i].key = t[j].key
    PROVE  i = j
  <1> DEFINE n == Len(t)
             key == t[i].key
  <1>1. n \in Nat \ {0} /\ key \in DOMAIN Hash
    BY DEF TableOK
  <1>2. PICK d \in 0 .. n - 1 : Probe(n, key, d) = i /\ \A e \in 0 .. d - 1 : ~ProbeEnds(t, key, e)
    BY DEF TableOK, LeadsTo
  <1>3. PICK c \in 0 .. n - 1 : Probe(n, key, c) = j /\ \A e \in 0 .. c - 1 : ~ProbeEnds(t, key, e)
    BY DEF TableOK, LeadsTo
  <1>4. ProbeEnds(t, key, d) /\ ProbeEnds(t, key, c)
    BY <1>2, <1>3 DEF ProbeEnds
  <1>5. ~(d < c) /\ ~(c < d)
    BY <1>1, <1>2, <1>3, <1>4
  <1> QED BY <1>1, <1>2, <1>3, <1>5

\* A search ends at the slot of the key or, when the table has none, at a free
\* slot, as long as one is left.
LEMMA SearchEnds ==
    ASSUME NEW t, TableOK(t), NEW key \in DOMAIN Hash, NEW free \in 1 .. Len(t), ~t[free].used
    PROVE  /\ Slot(t, key) \in 1 .. Len(t) /\ LeadsTo(t, key, Slot(t, key))
           /\ t[Slot(t, key)].used => t[Slot(t, key)].key = key
           /\ ~t[Slot(t, key)].used => Absent(t, key)
  <1> DEFINE n == Len(t)
             D == {d \in 0 .. n - 1 : ProbeEnds(t, key, d)}
  <1>1. n \in Nat \ {0}
    BY DEF TableOK
  <1>2. PICK f \in 0 .. n - 1 : Probe(n, key, f) = free
    BY <1>1, ProbesAreSlots
  <1>3. f \in D
    BY <1>2 DEF ProbeEnds
  <1>4. D \subseteq Nat
    BY <1>1
  <1> HIDE DEF D
  <1>5. Min(D) \in D /\ \A d \in D : Min(D) <= d
    BY <1>3, <1>4, LeastOf
  <1> DEFINE m == Min(D)
             s == Slot(t, key)
  <1>6. s = Probe(n, key, m)
    BY DEF Slot, D
  <1>7. m \in 0 .. n - 1 /\ ProbeEnds(t, key, m)
    BY <1>5 DEF D
  <1>8. ASSUME NEW e \in 0 .. m - 1 PROVE ~ProbeEnds(t, key, e)
    BY <1>1, <1>5, <1>7 DEF D
  <1> HIDE DEF m, s
  <1>9. s \in 1 .. n
    BY <1>1, <1>6, <1>7, ProbesAreSlots
  <1>10. LeadsTo(t, key, s)
    BY <1>6, <1>7, <1>8 DEF LeadsTo
  <1>11. t[s].used => t[s].key = key
    BY <1>6, <1>7 DEF ProbeEnds
  <1>12. ASSUME ~t[s].used, NEW i \in UsedIn(t), t[i].key = key PROVE FALSE
    <2>1. PICK d \in 0 .. n - 1 : Probe(n, key, d) = i /\ \A e \in 0 .. d - 1 : ~ProbeEnds(t, key, e)
      BY <1>12 DEF TableOK, LeadsTo
    <2>2. ProbeEnds(t, key, d)
      BY <2>1, <1>12 DEF ProbeEnds
    <2>3. ~(d < m) /\ ~(m < d)
      BY <1>1, <1>7, <1>8, <2>1, <2>2
    <2>4. d = m
      BY <1>1, <1>7, <2>3
    <2> QED BY <1>6, <1>12, <2>1, <2>4 DEF UsedIn
  <1> QED BY <1>9, <1>10, <1>11, <1>12 DEF s, Absent

\* A lookup finds the value of a key that is held, and says so of any other.
LEMMA LookupRight ==
    ASSUME TableOK(slots), NEW free \in 1 .. Len(slots), ~slots[free].used,
           NEW key \in DOMAIN Hash, NEW default
    PROVE  /\ \A v : InTable(slots, key, v) => HashGet(key, default) = v
           /\ Absent(slots, key) => HashGet(key, default) = default
           /\ ~Absent(slots, key) => InTable(slots, key, HashGet(key, default))
  <1> DEFINE s == Slot(slots, key)
  <1>1. /\ s \in 1 .. Len(slots)
        /\ slots[s].used => slots[s].key = key
        /\ ~slots[s].used => Absent(slots, key)
    BY SearchEnds
  <1>2. HashGet(key, default) = IF slots[s].used THEN slots[s].v ELSE default
    BY DEF HashGet
  <1> HIDE DEF s
  <1>3. ASSUME NEW v, InTable(slots, key, v) PROVE HashGet(key, default) = v
    <2>1. PICK i \in UsedIn(slots) : slots[i].key = key /\ slots[i].v = v
      BY <1>3 DEF InTable
    <2>2. s \in UsedIn(slots) /\ slots[s].key = key
      BY <1>1, <2>1 DEF Absent, UsedIn
    <2>3. i = s
      BY <2>1, <2>2, OneSlotPerKey
    <2> QED BY <1>2, <2>1, <2>2, <2>3 DEF UsedIn
  <1>4. ASSUME Absent(slots, key) PROVE HashGet(key, default) = default
    BY <1>1, <1>2, <1>4 DEF Absent, UsedIn
  <1>5. ASSUME ~Absent(slots, key) PROVE InTable(slots, key, HashGet(key, default))
    BY <1>1, <1>2, <1>5 DEF InTable, UsedIn
  <1> QED BY <1>3, <1>4, <1>5

\* Placing a key the table does not have fills one free slot and keeps every
\* other entry where a search finds it.
LEMMA PlacingAdds ==
    ASSUME NEW t, TableOK(t), NEW free \in 1 .. Len(t), ~t[free].used,
           NEW key \in DOMAIN Hash, Absent(t, key), NEW v \in Int
    PROVE  /\ TableOK(Placed(t, key, v)) /\ Len(Placed(t, key, v)) = Len(t)
           /\ ~t[Slot(t, key)].used
           /\ Slot(t, key) \in 1 .. Len(t)
           /\ UsedIn(Placed(t, key, v)) = UsedIn(t) \cup {Slot(t, key)}
           /\ \A k, w : InTable(Placed(t, key, v), k, w) <=> InTable(t, k, w) \/ (k = key /\ w = v)
           /\ \A k : Absent(Placed(t, key, v), k) <=> Absent(t, k) /\ k # key
  <1> DEFINE s == Slot(t, key)
             r == [used |-> TRUE, key |-> key, v |-> v]
             new == [t EXCEPT ![s] = r]
             n == Len(t)
  <1>1. /\ s \in 1 .. n /\ LeadsTo(t, key, s)
        /\ t[s].used => t[s].key = key
    BY SearchEnds
  <1>2. Placed(t, key, v) = new
    BY DEF Placed
  <1>3. s \notin UsedIn(t) /\ ~t[s].used
    BY <1>1 DEF Absent, UsedIn
  <1> HIDE DEF s
  <1>4. t \in Seq(SlotSet) /\ n \in Nat \ {0}
    BY DEF TableOK
  <1>5. r \in SlotSet
    BY DEF SlotSet
  <1>6. new \in Seq(SlotSet) /\ Len(new) = n /\ new[s] = r /\ \A i \in 1 .. n : i # s => new[i] = t[i]
    BY <1>1, <1>4, <1>5
  <1> HIDE DEF new
  <1>7. UsedIn(new) = UsedIn(t) \cup {s}
    BY <1>1, <1>6 DEF UsedIn
  <1>8. \A i \in UsedIn(t) : i \in 1 .. n /\ i # s /\ new[i] = t[i] /\ t[i].key # key
    BY <1>3, <1>6 DEF UsedIn, Absent
  <1>9. ASSUME NEW k \in DOMAIN Hash, NEW e \in 0 .. n - 1, ~ProbeEnds(t, k, e) PROVE ~ProbeEnds(new, k, e)
    <2>1. Probe(n, k, e) \in 1 .. n
      BY <1>4, ProbesAreSlots
    <2>2. Probe(n, k, e) \in UsedIn(t) /\ t[Probe(n, k, e)].key # k
      BY <2>1, <1>9 DEF ProbeEnds, UsedIn
    <2>3. new[Probe(n, k, e)] = t[Probe(n, k, e)]
      BY <1>8, <2>2
    <2> QED BY <1>6, <1>9, <2>3 DEF ProbeEnds
  <1>10. ASSUME NEW k \in DOMAIN Hash, NEW i, LeadsTo(t, k, i) PROVE LeadsTo(new, k, i)
    <2>1. PICK d \in 0 .. n - 1 : Probe(n, k, d) = i /\ \A e \in 0 .. d - 1 : ~ProbeEnds(t, k, e)
      BY <1>10 DEF LeadsTo
    <2>2. \A e \in 0 .. d - 1 : e \in 0 .. n - 1
      BY <1>4
    <2>3. \A e \in 0 .. d - 1 : ~ProbeEnds(new, k, e)
      BY <1>9, <2>1, <2>2
    <2> QED BY <1>6, <2>1, <2>3 DEF LeadsTo
  <1>11. ASSUME NEW i \in UsedIn(new) PROVE new[i].key \in DOMAIN Hash /\ LeadsTo(new, new[i].key, i)
    <2>1. CASE i = s
      BY <2>1, <1>1, <1>6, <1>10
    <2>2. CASE i \in UsedIn(t)
      BY <2>2, <1>8, <1>10 DEF TableOK
    <2> QED BY <1>7, <1>11, <2>1, <2>2
  <1>12. TableOK(new)
    BY <1>4, <1>6, <1>11 DEF TableOK
  <1>13. \A k, w : InTable(new, k, w) <=> InTable(t, k, w) \/ (k = key /\ w = v)
    BY <1>6, <1>7, <1>8 DEF InTable
  <1>14. \A k : Absent(new, k) <=> Absent(t, k) /\ k # key
    BY <1>6, <1>7, <1>8 DEF Absent
  <1> QED BY <1>1, <1>2, <1>3, <1>6, <1>7, <1>12, <1>13, <1>14 DEF s

\* A table that is larger than the number of its entries has a free slot.
LEMMA RoomLeft ==
    ASSUME NEW t, TableOK(t), NEW c \in Nat, Cardinality(UsedIn(t)) <= c, c < Len(t)
    PROVE  /\ \E free \in 1 .. Len(t) : ~t[free].used
           /\ IsFiniteSet(UsedIn(t)) /\ Cardinality(UsedIn(t)) \in Nat
  <1>1. Len(t) \in Nat
    BY DEF TableOK
  <1>2. IsFiniteSet(1 .. Len(t)) /\ Cardinality(1 .. Len(t)) = Len(t)
    <2>1. /\ IsFiniteSet(1 .. Len(t))
          /\ Cardinality(1 .. Len(t)) = IF 1 > Len(t) THEN 0 ELSE Len(t) - 1 + 1
      BY <1>1, FS_Interval
    <2> QED BY <1>1, <2>1
  <1>3. UsedIn(t) \subseteq 1 .. Len(t)
    BY DEF UsedIn
  <1>4. IsFiniteSet(UsedIn(t)) /\ Cardinality(UsedIn(t)) \in Nat
    BY <1>2, <1>3, FS_Subset, FS_CardinalityType
  <1>5. UsedIn(t) # 1 .. Len(t)
    BY <1>1, <1>2, <1>4
  <1> QED BY <1>3, <1>4, <1>5 DEF UsedIn

\* A table of free slots holds nothing.
LEMMA FilledIsEmpty ==
    ASSUME NEW n \in Nat \ {0}
    PROVE  /\ TableOK(Filled(n)) /\ Len(Filled(n)) = n /\ UsedIn(Filled(n)) = {}
           /\ \A k : Absent(Filled(n), k)
           /\ \A k, v : ~InTable(Filled(n), k, v)
  <1>1. FreeSlot \in SlotSet /\ ~FreeSlot.used
    BY DEF FreeSlot, SlotSet
  <1>2. Filled(n) \in Seq(SlotSet) /\ Len(Filled(n)) = n /\ \A i \in 1 .. n : ~Filled(n)[i].used
    BY <1>1 DEF Filled
  <1>3. UsedIn(Filled(n)) = {}
    BY <1>2 DEF UsedIn
  <1> QED BY <1>2, <1>3 DEF TableOK, Absent, InTable

\* The map always has a free slot, also while it grows: no search runs forever.
LEMMA MapRoom ==
    ASSUME MapOK
    PROVE  /\ TableOK(slots) /\ \E free \in 1 .. Len(slots) : ~slots[free].used
           /\ IsFiniteSet(UsedIn(slots)) /\ Cardinality(UsedIn(slots)) \in Nat
           /\ IsFiniteSet(Rest) /\ Cardinality(Rest) \in Nat
  <1>1. TableOK(slots) /\ Len(slots) \in Nat \ {0} /\ count \in Nat
    BY DEF MapOK, TableOK
  <1>2. IsFiniteSet(1 .. Len(slots)) /\ UsedIn(slots) \subseteq 1 .. Len(slots)
    BY <1>1, FS_Interval DEF UsedIn
  <1>3. IsFiniteSet(UsedIn(slots)) /\ Cardinality(UsedIn(slots)) \in Nat
    BY <1>2, FS_Subset, FS_CardinalityType
  <1>4. Len(old) \in Nat
    BY DEF MapOK, TableOK
  <1>5. IsFiniteSet(1 .. Len(old)) /\ Rest \subseteq 1 .. Len(old)
    BY <1>4, FS_Interval DEF Rest, UsedAfter, UsedIn
  <1>6. IsFiniteSet(Rest) /\ Cardinality(Rest) \in Nat
    BY <1>5, FS_Subset, FS_CardinalityType
  <1>7. Cardinality(UsedIn(slots)) <= count /\ count < Len(slots)
    BY <1>1, <1>3, <1>6 DEF MapOK, Full
  <1> QED BY <1>1, <1>3, <1>6, <1>7, RoomLeft

\* Between puts a lookup is right about what the map holds.
LEMMA QuietLookup ==
    ASSUME MapOK, Quiet, NEW key \in DOMAIN Hash, NEW default
    PROVE  /\ \A v : MapHolds(key, v) => HashGet(key, default) = v
           /\ Absent(slots, key) => HashGet(key, default) = default
           /\ ~Absent(slots, key) => MapHolds(key, HashGet(key, default)) /\ HashGet(key, default) \in Int
  <1>1. TableOK(slots) /\ \E free \in 1 .. Len(slots) : ~slots[free].used
    BY MapRoom
  <1>2. old = <<>> /\ adding = {}
    BY DEF MapOK, Quiet
  <1>3. \A v : MapHolds(key, v) <=> InTable(slots, key, v)
    BY <1>2 DEF MapHolds, Rest, UsedAfter, UsedIn
  <1>4. ASSUME NEW v, InTable(slots, key, v) PROVE v \in Int
    <2>1. PICK i \in UsedIn(slots) : slots[i].v = v
      BY <1>4 DEF InTable
    <2>2. slots[i] \in SlotSet
      BY <1>1 DEF UsedIn, TableOK
    <2> QED BY <2>1, <2>2 DEF SlotSet
  <1> QED BY <1>1, <1>3, <1>4, LookupRight

\* A put begins: the map holds what it held and the new entry.
LEMMA PutBegins ==
    ASSUME MapOK, Quiet, NEW key \in DOMAIN Hash, NEW v \in Int, Absent(slots, key), BeginPut(key, v)
    PROVE  /\ MapOK'
           /\ \A k, w : MapHolds(k, w)' <=> MapHolds(k, w) \/ (k = key /\ w = v)
  <1> DEFINE p == [key |-> key, v |-> v]
  <1>1. /\ p \in Puts /\ p.key = key /\ p.v = v /\ adding' = {p} /\ ~Quiet' /\ count' = count /\ moved' = moved
        /\ IF Full THEN old' = slots /\ slots' = Filled(4 * Len(slots)) ELSE old' = old /\ slots' = slots
    BY DEF BeginPut, Puts, Quiet
  <1> HIDE DEF p
  <1>2. /\ old = <<>> /\ moved = 0 /\ adding = {} /\ TableOK(slots) /\ count \in Nat /\ Len(slots) \in Nat \ {0}
        /\ Cardinality(UsedIn(slots)) <= count /\ 2 * count <= Len(slots)
    BY DEF MapOK, Quiet, TableOK
  <1>3. Cardinality(UsedIn(slots)) \in Nat
    BY MapRoom
  <1>4. Rest = {}
    BY <1>2 DEF Rest, UsedAfter, UsedIn
  <1>5. \A k, w : MapHolds(k, w) <=> InTable(slots, k, w)
    BY <1>2, <1>4 DEF MapHolds
  <1>6. \A k, w : MapHolds(k, w)' <=> \/ InTable(slots', k, w)
                                      \/ \E i \in Rest' : old'[i].key = k /\ old'[i].v = w
                                      \/ k = key /\ w = v
    <2>1. adding' = {p} /\ p.key = key /\ p.v = v
      BY <1>1
    <2> QED BY <2>1 DEF MapHolds
  <1>7. CASE Full
    <2> DEFINE t == Filled(4 * Len(slots))
    <2>1. 4 * Len(slots) \in Nat \ {0}
      BY <1>2
    <2>2. /\ TableOK(t) /\ Len(t) = 4 * Len(slots) /\ UsedIn(t) = {}
          /\ (\A k : Absent(t, k)) /\ (\A k, w : ~InTable(t, k, w))
      BY <2>1, FilledIsEmpty
    <2>3. slots' = t /\ old' = slots
      BY <1>1, <1>7
    <2> HIDE DEF t
    <2>4. Rest' = UsedIn(slots)
      BY <1>1, <1>2, <2>3 DEF Rest, UsedAfter, UsedIn
    <2>5. Cardinality(UsedIn(slots')) + Cardinality(Rest') <= count'
      <3>1. Cardinality(UsedIn(slots')) = 0 /\ Cardinality(Rest') = Cardinality(UsedIn(slots)) /\ count' = count
        BY <1>1, <2>2, <2>3, <2>4, FS_EmptySet
      <3> QED BY <1>2, <1>3, <3>1
    <2>6. ~Full'
      BY <1>1, <1>2, <2>2, <2>3 DEF Full
    <2>7. \A i \in Rest' : Absent(slots', old'[i].key) /\ old'[i].key # p.key
      BY <1>1, <2>2, <2>3, <2>4 DEF Absent
    <2>8. MapOK'
      BY <1>1, <1>2, <2>2, <2>3, <2>5, <2>6, <2>7 DEF MapOK
    <2>9. \A k, w : MapHolds(k, w)' <=> InTable(slots, k, w) \/ (k = key /\ w = v)
      BY <1>6, <2>2, <2>3, <2>4 DEF InTable
    <2> QED BY <1>5, <2>8, <2>9
  <1>8. CASE ~Full
    <2>1. slots' = slots /\ old' = old
      BY <1>1, <1>8
    <2>2. Rest' = {} /\ Cardinality({}) = 0
      BY <1>1, <1>4, <2>1, FS_EmptySet DEF Rest, UsedAfter, UsedIn
    <2>3. ~Full'
      BY <1>1, <1>8, <2>1 DEF Full
    <2>4. MapOK'
      BY <1>1, <1>2, <1>3, <2>1, <2>2, <2>3 DEF MapOK
    <2> QED BY <1>5, <1>6, <2>1, <2>2, <2>4
  <1> QED BY <1>7, <1>8

\* A slot of the old table is placed: the map holds what it held.
LEMMA RehashKeeps ==
    ASSUME MapOK, ~Quiet, Rehash
    PROVE  MapOK' /\ \A k, w : MapHolds(k, w)' <=> MapHolds(k, w)
  <1> DEFINE m == moved + 1
             s == old[m]
  <1>1. /\ moved \in 0 .. Len(old) /\ (old = <<>> \/ TableOK(old))
        /\ TableOK(slots) /\ count \in Nat
        /\ Cardinality(UsedIn(slots)) + Cardinality(Rest) <= count /\ ~Full
        /\ \A i \in Rest : Absent(slots, old[i].key)
    BY DEF MapOK
  <1>2. moved < Len(old)
    BY DEF Rehash, Growing
  <1>3. TableOK(old) /\ Len(old) \in Nat /\ m \in 1 .. Len(old)
    BY <1>1, <1>2 DEF TableOK
  <1>4. PICK p \in Puts : adding = {p} /\ Absent(slots, p.key) /\ \A i \in Rest : old[i].key # p.key
    BY DEF MapOK
  <1>5. /\ old' = old /\ count' = count /\ adding' = adding /\ moved' = m
        /\ slots' = IF s.used THEN Placed(slots, s.key, s.v) ELSE slots
    BY DEF Rehash
  <1>6. PICK free \in 1 .. Len(slots) : ~slots[free].used
    BY MapRoom
  <1>7. /\ IsFiniteSet(UsedIn(slots)) /\ Cardinality(UsedIn(slots)) \in Nat
        /\ IsFiniteSet(Rest) /\ Cardinality(Rest) \in Nat
    BY MapRoom
  <1>8. CASE ~s.used
    <2>1. Rest' = Rest
      <3>1. ASSUME NEW i PROVE i \in UsedAfter(old, m) <=> i \in UsedAfter(old, moved)
        BY <1>1, <1>3, <1>8 DEF UsedAfter, UsedIn
      <3> QED BY <1>5, <3>1 DEF Rest
    <2>2. MapOK'
      BY <1>1, <1>3, <1>4, <1>5, <1>8, <2>1 DEF MapOK, Full, Quiet
    <2> QED BY <1>5, <1>8, <2>1, <2>2 DEF MapHolds
  <1>9. CASE s.used
    <2>1. m \in Rest /\ m \in UsedIn(old) /\ Rest' = Rest \ {m}
      <3>1. m \in UsedIn(old) /\ m > moved
        BY <1>1, <1>3, <1>9 DEF UsedIn
      <3>2. ASSUME NEW i PROVE i \in UsedAfter(old, m) <=> i \in UsedAfter(old, moved) /\ i # m
        BY <1>1, <1>3 DEF UsedAfter, UsedIn
      <3>3. UsedAfter(old, m) = UsedAfter(old, moved) \ {m}
        BY <3>2
      <3> QED BY <1>5, <3>1, <3>3 DEF Rest, UsedAfter
    <2>2. s.key \in DOMAIN Hash /\ s.v \in Int /\ Absent(slots, s.key)
      <3>1. s.key \in DOMAIN Hash
        BY <1>3, <2>1 DEF TableOK
      <3>2. s \in SlotSet
        BY <1>3 DEF TableOK
      <3>3. s.v \in Int
        BY <3>2 DEF SlotSet
      <3> QED BY <1>1, <2>1, <3>1, <3>3
    <2> DEFINE t == Placed(slots, s.key, s.v)
               where == Slot(slots, s.key)
    <2>3. /\ TableOK(t) /\ Len(t) = Len(slots) /\ UsedIn(t) = UsedIn(slots) \cup {where} /\ ~slots[where].used
          /\ \A k, w : InTable(t, k, w) <=> InTable(slots, k, w) \/ (k = s.key /\ w = s.v)
          /\ \A k : Absent(t, k) <=> Absent(slots, k) /\ k # s.key
      BY <1>1, <1>6, <2>2, PlacingAdds
    <2>4. slots' = t
      BY <1>5, <1>9
    <2> HIDE DEF t, where
    <2>5. Cardinality(UsedIn(t)) = Cardinality(UsedIn(slots)) + 1
      BY <1>7, <2>3, FS_AddElement DEF UsedIn
    <2>6. Cardinality(Rest') = Cardinality(Rest) - 1
      BY <1>7, <2>1, FS_RemoveElement
    <2>7. \A i \in Rest' : old[i].key # s.key
      BY <1>3, <2>1, OneSlotPerKey DEF Rest, UsedAfter
    <2>8. \A i \in Rest' : Absent(slots', old'[i].key)
      BY <1>1, <1>5, <2>1, <2>3, <2>4, <2>7
    <2>9. p.key # s.key
      BY <1>4, <2>1
    <2>10. adding' = {p} /\ Absent(slots', p.key) /\ \A i \in Rest' : old'[i].key # p.key
      BY <1>4, <1>5, <2>1, <2>3, <2>4, <2>9
    <2>11. Cardinality(UsedIn(slots')) + Cardinality(Rest') <= count' /\ ~Full'
      <3>1. /\ Cardinality(UsedIn(slots')) = Cardinality(UsedIn(slots)) + 1
            /\ Cardinality(Rest') = Cardinality(Rest) - 1 /\ count' = count /\ Len(slots') = Len(slots)
        BY <1>5, <2>3, <2>4, <2>5, <2>6
      <3> QED BY <1>1, <1>7, <3>1 DEF Full
    <2>12. moved' \in 0 .. Len(old')
      BY <1>3, <1>5
    <2>13. ~Quiet'
      BY <1>5 DEF Quiet
    <2>14. MapOK'
      BY <1>1, <1>3, <1>5, <2>3, <2>4, <2>8, <2>10, <2>11, <2>12, <2>13 DEF MapOK
    <2>15. \A k, w : MapHolds(k, w)' <=> MapHolds(k, w)
      BY <1>5, <2>1, <2>3, <2>4 DEF MapHolds
    <2> QED BY <2>14, <2>15
  <1> QED BY <1>8, <1>9

\* The put ends: the map holds what it held and is quiet again.
LEMMA PutEnds ==
    ASSUME MapOK, EndPut
    PROVE  MapOK' /\ Quiet' /\ \A k, w : MapHolds(k, w)' <=> MapHolds(k, w)
  <1>1. PICK p \in adding : slots' = Placed(slots, p.key, p.v)
                            /\ count' = IF slots[Slot(slots, p.key)].used THEN count ELSE count + 1
    BY DEF EndPut
  <1>2. old' = <<>> /\ moved' = 0 /\ adding' = {} /\ ~(moved < Len(old))
    BY DEF EndPut, Growing
  <1>3. /\ moved \in 0 .. Len(old) /\ (old = <<>> \/ TableOK(old)) /\ TableOK(slots) /\ count \in Nat
        /\ Cardinality(UsedIn(slots)) + Cardinality(Rest) <= count /\ ~Full
        /\ \E q \in Puts : adding = {q} /\ Absent(slots, q.key)
    BY <1>1 DEF MapOK, Quiet
  <1>4. p \in Puts /\ adding = {p} /\ Absent(slots, p.key) /\ p.key \in DOMAIN Hash /\ p.v \in Int
    BY <1>1, <1>3 DEF Puts
  <1>5. TableOK(slots) /\ Len(slots) \in Nat /\ count \in Nat
    BY DEF MapOK, TableOK
  <1>6. Rest = {} /\ Cardinality({}) = 0
    BY <1>2, <1>3, FS_EmptySet DEF Rest, UsedAfter, UsedIn, TableOK
  <1>7. PICK free \in 1 .. Len(slots) : ~slots[free].used
    BY MapRoom
  <1> DEFINE t == Placed(slots, p.key, p.v)
             where == Slot(slots, p.key)
  <1>8. /\ TableOK(t) /\ Len(t) = Len(slots) /\ UsedIn(t) = UsedIn(slots) \cup {where} /\ ~slots[where].used
        /\ \A k, w : InTable(t, k, w) <=> InTable(slots, k, w) \/ (k = p.key /\ w = p.v)
    BY <1>4, <1>5, <1>7, PlacingAdds
  <1>9. slots' = t /\ count' = count + 1
    BY <1>1, <1>8
  <1> HIDE DEF t, where
  <1>10. Cardinality(UsedIn(t)) = Cardinality(UsedIn(slots)) + 1
    BY <1>8, MapRoom, FS_AddElement DEF UsedIn
  <1>11. Cardinality(UsedIn(slots)) \in Nat
    BY MapRoom
  <1>12. Cardinality(UsedIn(slots')) <= count' /\ 2 * count' <= Len(slots') /\ count' \in Nat
    <2>1. /\ Cardinality(UsedIn(slots')) = Cardinality(UsedIn(slots)) + 1
          /\ count' = count + 1 /\ Len(slots') = Len(slots)
      BY <1>8, <1>9, <1>10
    <2>2. Cardinality(UsedIn(slots)) <= count /\ (count + 1) * 2 <= Len(slots)
      BY <1>3, <1>5, <1>6, <1>11 DEF Full
    <2> QED BY <1>5, <1>11, <2>1, <2>2
  <1>13. MapOK' /\ Quiet'
    BY <1>2, <1>8, <1>9, <1>12 DEF MapOK, Quiet
  <1>14. Rest' = {}
    BY <1>2 DEF Rest, UsedAfter, UsedIn
  <1>15. \A k, w : MapHolds(k, w)' <=> MapHolds(k, w)
    BY <1>2, <1>4, <1>6, <1>8, <1>9, <1>14 DEF MapHolds
  <1> QED BY <1>13, <1>15

(***************************************************************************)
(* The marking                                                             *)
(***************************************************************************)
\* The names that are put into the map at the start are two, and keys.
LEMMA RootKeys ==
    /\ Roots[1] = "main" /\ Roots[2] = "conf.id" /\ Roots[1] # Roots[2]
    /\ Roots \in Seq(DOMAIN Hash) /\ Len(Roots) = 2
    /\ Roots[1] \in DOMAIN Hash /\ Roots[2] \in DOMAIN Hash
    /\ Range(Roots) = {Roots[1], Roots[2]}
  <1>1. Range(Roots) = {Roots[1], Roots[2]} /\ Len(Roots) = 2
    BY DEF Roots, Range
  <1>2. Roots[1] \in DOMAIN Hash /\ Roots[2] \in DOMAIN Hash
    BY <1>1, RootsAssumption
  <1> QED BY <1>1, <1>2 DEF Roots

\* The first two puts need no growth.
LEMMA RootsPlaced ==
    /\ TableOK(RootSlots) /\ Len(RootSlots) = 8 /\ Cardinality(UsedIn(RootSlots)) = 2
    /\ \A k, w : InTable(RootSlots, k, w) <=> (k = Roots[1] /\ w = 0) \/ (k = Roots[2] /\ w = 1)
  <1> DEFINE t == Filled(8)
             t1 == Placed(t, Roots[1], 0)
             t2 == Placed(t1, Roots[2], 1)
             s1 == Slot(t, Roots[1])
             s2 == Slot(t1, Roots[2])
  <1>1. /\ TableOK(t) /\ Len(t) = 8 /\ UsedIn(t) = {}
        /\ (\A k : Absent(t, k)) /\ (\A k, v : ~InTable(t, k, v))
    <2>1. 8 \in Nat \ {0}
      OBVIOUS
    <2> QED BY <2>1, FilledIsEmpty
  <1>2. 1 \in 1 .. Len(t) /\ ~t[1].used
    BY <1>1 DEF UsedIn
  <1> HIDE DEF t
  <1>3. /\ TableOK(t1) /\ Len(t1) = 8 /\ UsedIn(t1) = {s1}
        /\ \A k, w : InTable(t1, k, w) <=> (k = Roots[1] /\ w = 0)
        /\ \A k : Absent(t1, k) <=> k # Roots[1]
    BY <1>1, <1>2, RootKeys, PlacingAdds
  <1> HIDE DEF t1
  <1>4. Cardinality(UsedIn(t1)) = 1 /\ IsFiniteSet(UsedIn(t1))
    BY <1>3, FS_Singleton
  <1>5. PICK free \in 1 .. Len(t1) : ~t1[free].used
    <2>1. 1 \in Nat /\ Cardinality(UsedIn(t1)) <= 1 /\ 1 < Len(t1)
      BY <1>3, <1>4
    <2> QED BY <1>3, <2>1, RoomLeft
  <1>6. Absent(t1, Roots[2])
    BY <1>3, RootKeys
  <1>7. /\ TableOK(t2) /\ Len(t2) = 8 /\ UsedIn(t2) = UsedIn(t1) \cup {s2} /\ ~t1[s2].used
        /\ \A k, w : InTable(t2, k, w) <=> InTable(t1, k, w) \/ (k = Roots[2] /\ w = 1)
    <2>1. TableOK(t1) /\ free \in 1 .. Len(t1) /\ ~t1[free].used /\ Roots[2] \in DOMAIN Hash /\ Absent(t1, Roots[2]) /\ 1 \in Int
      BY <1>3, <1>5, <1>6, RootKeys
    <2> HIDE DEF s1
    <2> QED BY <1>3, <2>1, PlacingAdds
  <1>8. RootSlots = t2
    BY DEF RootSlots, t2, t1, t
  <1> HIDE DEF t2, s2
  <1>9. Cardinality(UsedIn(t2)) = 2
    <2>1. s2 \notin UsedIn(t1)
      BY <1>7 DEF UsedIn
    <2>2. Cardinality(UsedIn(t1) \cup {s2}) = Cardinality(UsedIn(t1)) + 1
      BY <1>4, <2>1, FS_AddElement
    <2> QED BY <1>4, <1>7, <2>2
  <1>10. \A k, w : InTable(t2, k, w) <=> (k = Roots[1] /\ w = 0) \/ (k = Roots[2] /\ w = 1)
    BY <1>3, <1>7
  <1> QED BY <1>7, <1>8, <1>9, <1>10

\* The map and the lists that init_reach leaves satisfy the invariant.
LEMMA ReachStarts ==
    ASSUME ReachInit
    PROVE  ReachInv
  <1>1. /\ mentions = <<>> /\ order = <<>> /\ rfn = Roots /\ slots = RootSlots /\ count = 2
        /\ old = <<>> /\ moved = 0 /\ adding = {} /\ found = 2 /\ fun = 1 /\ pos = 0 /\ phase = "check"
    BY DEF ReachInit
  <1>2. Quiet /\ Rest = {}
    BY <1>1 DEF Quiet, Rest, UsedAfter, UsedIn
  <1>3. MapOK
    BY <1>1, <1>2, RootsPlaced DEF MapOK
  <1>4. \A k, w : MapHolds(k, w) <=> (k = rfn[1] /\ w = 0) \/ (k = rfn[2] /\ w = 1)
    BY <1>1, <1>2, RootsPlaced DEF MapHolds
  <1>5. rfn \in Seq(DOMAIN Hash) /\ Len(rfn) = 2 /\ rfn[1] = Roots[1] /\ rfn[2] = Roots[2]
    BY <1>1, RootKeys
  <1>6. MapSays
    BY <1>3, <1>4, <1>5 DEF MapSays
  <1>7. mentions \in Tables
    <2>1. mentions \in [{} -> Seq(Mentioned)]
      BY <1>1
    <2> QED BY <2>1 DEF Tables
  <1>8. order \in OrdersOf(mentions)
    BY <1>1 DEF OrdersOf, Range
  <1>9. ReachType
    BY <1>1, <1>5, <1>7, <1>8 DEF ReachType
  <1> QED BY <1>1, <1>2, <1>4, <1>5, <1>6, <1>9 DEF ReachInv

\* What the type says of the functions and their names.
LEMMA TablesMean ==
    ASSUME ReachType
    PROVE  /\ \A f \in Defined : mentions[f] \in Seq(DOMAIN Hash) /\ f \in DOMAIN Hash
           /\ order \in Seq(Defined) /\ Len(order) \in Nat /\ Len(rfn) \in Nat
           /\ \A f \in Defined : \E j \in 1 .. Len(order) : order[j] = f
           /\ \A name : name \in Reached <=> \E i \in 1 .. Len(rfn) : rfn[i] = name
  <1>1. PICK F \in SUBSET Mentioned : mentions \in [F -> Seq(Mentioned)]
    BY DEF ReachType, Tables
  <1>2. Defined = F
    BY <1>1 DEF Defined
  <1>3. order \in Seq(Defined) /\ Range(order) = Defined
    BY DEF ReachType, OrdersOf, Defined
  <1>4. \A f \in Defined : \E j \in 1 .. Len(order) : order[j] = f
    BY <1>3 DEF Range
  <1>5. \A name : name \in Reached <=> \E i \in 1 .. Len(rfn) : rfn[i] = name
    BY DEF ReachType, Reached, Range
  <1>6. Len(order) \in Nat /\ Len(rfn) \in Nat
    BY <1>3 DEF ReachType
  <1> QED BY <1>1, <1>2, <1>3, <1>4, <1>5, <1>6 DEF Mentioned

\* What the map says of a name between puts: whether it is in rfn, that it is
\* no function, or nothing.
LEMMA IsReachMeans ==
    ASSUME ReachType, MapSays, Quiet, NEW name \in DOMAIN Hash
    PROVE  /\ IsReach(name) <=> name \in Reached
           /\ ~IsReach(name) /\ HashGet(name, 0 - 1) = NoFunction => name \notin Defined
           /\ ~IsReach(name) /\ HashGet(name, 0 - 1) # NoFunction => Absent(slots, name)
  <1> DEFINE h == HashGet(name, 0 - 1)
  <1>1. /\ MapOK
        /\ \A v \in Int : MapHolds(name, v) =>
              \/ v \in 0 .. Len(rfn) - 1 /\ rfn[v + 1] = name
              \/ v = NoFunction /\ name \notin Defined
        /\ \A i \in 1 .. Len(rfn) : MapHolds(rfn[i], i - 1)
    BY DEF MapSays
  <1>2. /\ \A v : MapHolds(name, v) => h = v
        /\ Absent(slots, name) => h = 0 - 1
        /\ ~Absent(slots, name) => MapHolds(name, h) /\ h \in Int
    BY <1>1, QuietLookup
  <1>3. IsReach(name) <=> h \in 0 .. Len(rfn) - 1 /\ rfn[h + 1] = name
    BY DEF IsReach
  <1> HIDE DEF h
  <1>4. Len(rfn) \in Nat /\ Len(order) \in Nat /\ NoFunction < 0 - 1
    BY TablesMean DEF NoFunction
  <1>5. ASSUME name \in Reached PROVE IsReach(name)
    <2>1. PICK i \in 1 .. Len(rfn) : rfn[i] = name
      BY <1>5, TablesMean
    <2>2. h = i - 1
      BY <1>1, <1>2, <2>1
    <2> QED BY <1>3, <1>4, <2>1, <2>2
  <1>6. ASSUME IsReach(name) PROVE name \in Reached
    BY <1>3, <1>4, <1>6, TablesMean
  <1>7. ASSUME ~IsReach(name), h = NoFunction PROVE name \notin Defined
    <2>1. ~Absent(slots, name)
      BY <1>2, <1>4, <1>7
    <2> QED BY <1>1, <1>2, <1>4, <1>7, <2>1
  <1>8. ASSUME ~IsReach(name), h # NoFunction PROVE Absent(slots, name)
    BY <1>1, <1>2, <1>3, <1>8
  <1> QED BY <1>5, <1>6, <1>7, <1>8 DEF h

\* A name that is read is in rfn afterwards or no function, and the map says so.
LEMMA NameAdded ==
    ASSUME ReachType, MapSays, Quiet, NEW name \in DOMAIN Hash, ReachAdd(name), UNCHANGED <<mentions, order>>
    PROVE  /\ MapSays' /\ rfn' \in Seq(DOMAIN Hash)
           /\ \/ rfn' = rfn /\ (name \in Reached \/ name \notin Defined)
              \/ rfn' = Append(rfn, name) /\ name \in Defined
  <1>1. Defined' = Defined /\ NoFunction' = NoFunction
    BY DEF Defined, NoFunction
  <1>2. /\ MapOK
        /\ \A k \in DOMAIN Hash : \A v \in Int : MapHolds(k, v) =>
              \/ v \in 0 .. Len(rfn) - 1 /\ rfn[v + 1] = k
              \/ v = NoFunction /\ k \notin Defined
        /\ \A i \in 1 .. Len(rfn) : MapHolds(rfn[i], i - 1)
    BY DEF MapSays
  <1>3. rfn \in Seq(DOMAIN Hash) /\ Len(rfn) \in Nat /\ NoFunction \in Int
    BY TablesMean DEF ReachType, NoFunction
  <1>4. CASE IsReach(name) \/ HashGet(name, 0 - 1) = NoFunction
    <2>1. UNCHANGED rfn /\ UNCHANGED mapvars
      BY <1>4 DEF ReachAdd
    <2>2. UNCHANGED <<slots, count, old, moved, adding>>
      BY <2>1 DEF mapvars
    <2>3. MapOK' /\ \A k, v : MapHolds(k, v)' <=> MapHolds(k, v)
      BY <1>2, <2>2 DEF MapOK, MapHolds, Quiet, Full, Rest
    <2>4. MapSays'
      BY <1>1, <1>2, <2>1, <2>3 DEF MapSays
    <2>5. name \in Reached \/ name \notin Defined
      BY <1>4, IsReachMeans
    <2> QED BY <1>3, <2>1, <2>4, <2>5
  <1>5. CASE ~(IsReach(name) \/ HashGet(name, 0 - 1) = NoFunction)
    <2>1. Absent(slots, name)
      BY <1>5, IsReachMeans
    <2>2. CASE name \in Defined
      <3>1. rfn' = Append(rfn, name) /\ BeginPut(name, Len(rfn))
        BY <1>5, <2>2 DEF ReachAdd
      <3>2. MapOK' /\ \A k, v : MapHolds(k, v)' <=> MapHolds(k, v) \/ (k = name /\ v = Len(rfn))
        BY <1>2, <1>3, <2>1, <3>1, PutBegins
      <3>3. /\ rfn' \in Seq(DOMAIN Hash) /\ Len(rfn') = Len(rfn) + 1 /\ rfn'[Len(rfn) + 1] = name
            /\ \A i \in 1 .. Len(rfn) : rfn'[i] = rfn[i]
        BY <1>3, <3>1
      <3>4. ASSUME NEW k \in DOMAIN Hash, NEW v \in Int, MapHolds(k, v)'
            PROVE  \/ v \in 0 .. Len(rfn') - 1 /\ rfn'[v + 1] = k
                   \/ v = NoFunction' /\ k \notin Defined'
        <4>1. CASE k = name /\ v = Len(rfn)
          BY <1>3, <3>3, <4>1
        <4>2. CASE MapHolds(k, v)
          <5>1. CASE v \in 0 .. Len(rfn) - 1 /\ rfn[v + 1] = k
            <6>1. v + 1 \in 1 .. Len(rfn) /\ v \in 0 .. Len(rfn') - 1
              BY <1>3, <3>3, <5>1
            <6> QED BY <3>3, <5>1, <6>1
          <5> QED BY <1>1, <1>2, <4>2, <5>1
        <4> QED BY <3>2, <3>4, <4>1, <4>2
      <3>5. ASSUME NEW i \in 1 .. Len(rfn') PROVE MapHolds(rfn[i], i - 1)' 
        <4>1. CASE i \in 1 .. Len(rfn)
          BY <1>2, <3>2, <3>3, <4>1
        <4>2. CASE i = Len(rfn) + 1
          BY <1>3, <3>2, <3>3, <4>2
        <4> QED BY <1>3, <3>3, <4>1, <4>2
      <3>6. MapSays'
        BY <3>2, <3>4, <3>5 DEF MapSays
      <3> QED BY <2>2, <3>1, <3>3, <3>6
    <2>3. CASE name \notin Defined
      <3>1. rfn' = rfn /\ BeginPut(name, NoFunction)
        BY <1>5, <2>3 DEF ReachAdd
      <3>2. MapOK' /\ \A k, v : MapHolds(k, v)' <=> MapHolds(k, v) \/ (k = name /\ v = NoFunction)
        <4> DEFINE w == NoFunction
        <4>1. w \in Int /\ BeginPut(name, w)
          BY <1>3, <3>1
        <4> HIDE DEF w
        <4>2. PICK u \in Int : u = w
          BY <4>1
        <4>3. BeginPut(name, u)
          BY <4>1, <4>2
        <4>4. MapOK' /\ \A k, v : MapHolds(k, v)' <=> MapHolds(k, v) \/ (k = name /\ v = u)
          BY <1>2, <2>1, <4>3, PutBegins
        <4> QED BY <4>2, <4>4 DEF w
      <3>3. MapSays'
        BY <1>1, <1>2, <2>3, <3>1, <3>2 DEF MapSays
      <3> QED BY <1>3, <2>3, <3>1, <3>3
    <2> QED BY <2>2, <2>3
  <1> QED BY <1>4, <1>5

\* The marking begins.
LEMMA MarkingStarts ==
    ASSUME ReachInv, NEW m \in Tables, NEW o \in OrdersOf(m), StartMarking(m, o)
    PROVE  ReachInv'
  <1>1. /\ phase = "check" /\ phase' \in {"mark", "refused"} /\ mentions' = m /\ order' = o
        /\ rfn' = rfn /\ found' = found /\ fun' = fun /\ pos' = pos
        /\ slots' = slots /\ count' = count /\ old' = old /\ moved' = moved /\ adding' = adding
    BY DEF StartMarking, mapvars
  <1>2. /\ ReachType /\ MapSays /\ Len(rfn) = 2 /\ found = 2 /\ fun = 1 /\ pos = 0
        /\ \A name \in DOMAIN Hash : \A v \in Int : MapHolds(name, v) => v >= 0
    BY <1>1 DEF ReachInv
  <1>3. /\ MapOK
        /\ \A k \in DOMAIN Hash : \A v \in Int : MapHolds(k, v) =>
              \/ v \in 0 .. Len(rfn) - 1 /\ rfn[v + 1] = k
              \/ v = NoFunction /\ k \notin Defined
        /\ \A i \in 1 .. Len(rfn) : MapHolds(rfn[i], i - 1)
    BY <1>2 DEF MapSays
  <1>4. NoFunction < 0
    BY <1>2, TablesMean DEF NoFunction
  <1>5. MapOK' /\ \A k, v : MapHolds(k, v)' <=> MapHolds(k, v)
    BY <1>1, <1>3 DEF MapOK, MapHolds, Quiet, Full, Rest
  <1>6. \A k \in DOMAIN Hash : \A v \in Int : MapHolds(k, v) => v \in 0 .. Len(rfn) - 1 /\ rfn[v + 1] = k
    BY <1>2, <1>3, <1>4
  <1>7. MapSays'
    BY <1>1, <1>3, <1>5, <1>6 DEF MapSays
  <1>8. Len(o) \in Nat
    BY DEF OrdersOf
  <1>9. ReachType'
    BY <1>1, <1>2, <1>8 DEF ReachType
  <1>10. Reached' = {rfn[1], rfn[2]}
    BY <1>1, <1>2 DEF Reached, Range, ReachType
  <1>11. OnlyNeeded'
    BY <1>2, <1>10, RootKeys DEF OnlyNeeded, ReachType
  <1>12. PassFound'
    BY <1>1, <1>2 DEF PassFound
  <1> QED BY <1>1, <1>7, <1>9, <1>11, <1>12 DEF ReachInv

\* A function is entered, or skipped as long as it is not in rfn.
LEMMA EnteringKeeps ==
    ASSUME ReachInv, EnterFunction
    PROVE  ReachInv'
  <1>1. /\ phase = "mark" /\ Quiet /\ fun <= Len(order) /\ pos = 0
        /\ IF IsReach(order[fun]) THEN pos' = 1 /\ fun' = fun ELSE pos' = 0 /\ fun' = fun + 1
        /\ mentions' = mentions /\ order' = order /\ rfn' = rfn /\ found' = found /\ phase' = phase
        /\ slots' = slots /\ count' = count /\ old' = old /\ moved' = moved /\ adding' = adding
    BY DEF EnterFunction, Marks, mapvars
  <1>2. ReachType /\ MapSays /\ OnlyNeeded /\ PassFound
    BY <1>1 DEF ReachInv
  <1>3. Defined' = Defined /\ NoFunction' = NoFunction /\ Reached' = Reached
    BY <1>1 DEF Defined, NoFunction, Reached
  <1>4. MapSays'
    <2>1. MapOK' /\ \A k, v : MapHolds(k, v)' <=> MapHolds(k, v)
      BY <1>1, <1>2 DEF MapOK, MapHolds, Quiet, Full, Rest, MapSays
    <2> QED BY <1>1, <1>2, <1>3, <2>1 DEF MapSays
  <1>5. OnlyNeeded'
    BY <1>1, <1>2, <1>3 DEF OnlyNeeded, ClosedSet
  <1>6. \A f, last : Needs(f, last)' <=> Needs(f, last)
    BY <1>1, <1>3 DEF Needs
  <1>7. fun \in 1 .. Len(order) /\ Len(order) \in Nat /\ order[fun] \in Defined
    BY <1>1, <1>2, TablesMean DEF ReachType
  <1>8. mentions[order[fun]] \in Seq(DOMAIN Hash) /\ order[fun] \in DOMAIN Hash
    BY <1>2, <1>7, TablesMean
  <1>9. IsReach(order[fun]) <=> order[fun] \in Reached
    <2>1. PICK f \in DOMAIN Hash : f = order[fun]
      BY <1>8
    <2> QED BY <1>1, <1>2, <2>1, IsReachMeans
  <1>10. ReachType' /\ PassFound'
    <2>1. CASE IsReach(order[fun])
      <3>1. fun' = fun /\ pos' = 1
        BY <1>1, <2>1
      <3>2. Len(mentions[order[fun]]) \in Nat
        BY <1>8
      <3>3. ReachType'
        BY <1>1, <1>2, <1>7, <3>1, <3>2 DEF ReachType
      <3>4. Needs(order[fun], 0)
        BY DEF Needs
      <3>5. PassFound'
        BY <1>1, <1>2, <1>3, <1>6, <1>9, <2>1, <3>1, <3>4 DEF PassFound
      <3> QED BY <3>3, <3>5
    <2>2. CASE ~IsReach(order[fun])
      <3>1. fun' = fun + 1 /\ pos' = 0
        BY <1>1, <2>2
      <3>2. ReachType'
        BY <1>1, <1>2, <1>7, <3>1 DEF ReachType
      <3>3. \A i \in 1 .. found : rfn[i] # order[fun]
        <4>1. Len(rfn) \in Nat /\ found \in 0 .. Len(rfn)
          BY <1>2, TablesMean DEF ReachType
        <4>2. \A i \in 1 .. Len(rfn) : rfn[i] \in Reached
          BY <1>2, TablesMean
        <4> QED BY <1>9, <2>2, <4>1, <4>2
      <3>4. PassFound'
        BY <1>1, <1>2, <1>6, <1>7, <3>1, <3>3 DEF PassFound
      <3> QED BY <3>2, <3>4
    <2> QED BY <2>1, <2>2
  <1> QED BY <1>1, <1>2, <1>4, <1>5, <1>10 DEF ReachInv

\* An element at the end of a sequence is added to what it holds.
LEMMA RangeOfAppend ==
    ASSUME NEW S, NEW s \in Seq(S), NEW n \in S
    PROVE  Range(Append(s, n)) = Range(s) \cup {n}
  <1> DEFINE t == Append(s, n)
  <1>1. /\ t \in Seq(S) /\ Len(s) \in Nat /\ Len(t) = Len(s) + 1 /\ t[Len(s) + 1] = n
        /\ \A i \in 1 .. Len(s) : t[i] = s[i]
    OBVIOUS
  <1> HIDE DEF t
  <1>2. DOMAIN t = 1 .. Len(t) /\ DOMAIN s = 1 .. Len(s)
    BY <1>1
  <1>3. \A x : x \in Range(t) <=> \E i \in 1 .. Len(t) : t[i] = x
    BY <1>2 DEF Range
  <1>4. \A x : x \in Range(s) <=> \E i \in 1 .. Len(s) : s[i] = x
    BY <1>2 DEF Range
  <1>5. ASSUME NEW x PROVE x \in Range(t) <=> x \in Range(s) \/ x = n
    <2>1. ASSUME NEW i \in 1 .. Len(t) PROVE i \in 1 .. Len(s) \/ i = Len(s) + 1
      BY <1>1
    <2>2. \A i \in 1 .. Len(s) : i \in 1 .. Len(t)
      BY <1>1
    <2>3. Len(s) + 1 \in 1 .. Len(t)
      BY <1>1
    <2> QED BY <1>1, <1>3, <1>4, <2>1, <2>2, <2>3
  <1>6. Range(t) = Range(s) \cup {n}
    BY <1>5
  <1> QED BY <1>6 DEF t

\* The next name of the function is read.
LEMMA ScanningKeeps ==
    ASSUME ReachInv, ScanName
    PROVE  ReachInv'
  <1> DEFINE f == order[fun]
             name == mentions[f][pos]
  <1>1. /\ phase = "mark" /\ Quiet /\ fun <= Len(order) /\ pos > 0 /\ pos <= Len(mentions[f])
        /\ ReachAdd(name) /\ pos' = pos + 1
        /\ mentions' = mentions /\ order' = order /\ found' = found /\ fun' = fun /\ phase' = phase
    BY DEF ScanName, Marks
  <1>2. ReachType /\ MapSays /\ OnlyNeeded /\ PassFound
    BY <1>1 DEF ReachInv
  <1>3. fun \in 1 .. Len(order) /\ Len(order) \in Nat /\ f \in Defined
    BY <1>1, <1>2, TablesMean DEF ReachType
  <1>4. mentions[f] \in Seq(DOMAIN Hash) /\ Len(mentions[f]) \in Nat
    <2>1. \A g \in Defined : mentions[g] \in Seq(DOMAIN Hash)
      BY <1>2, TablesMean
    <2> QED BY <1>3, <2>1
  <1>5. pos \in 1 .. Len(mentions[f]) /\ name \in DOMAIN Hash
    BY <1>1, <1>2, <1>4 DEF ReachType
  <1> HIDE DEF name
  <1>6. /\ MapSays' /\ rfn' \in Seq(DOMAIN Hash)
        /\ \/ rfn' = rfn /\ (name \in Reached \/ name \notin Defined)
           \/ rfn' = Append(rfn, name) /\ name \in Defined
    <2>1. PICK n \in DOMAIN Hash : n = name
      BY <1>5
    <2>2. ReachAdd(n)
      BY <1>1, <2>1
    <2>3. /\ MapSays' /\ rfn' \in Seq(DOMAIN Hash)
          /\ \/ rfn' = rfn /\ (n \in Reached \/ n \notin Defined)
             \/ rfn' = Append(rfn, n) /\ n \in Defined
      BY <1>1, <1>2, <2>2, NameAdded
    <2> QED BY <2>1, <2>3
  <1>7. rfn \in Seq(DOMAIN Hash) /\ Len(rfn) \in Nat /\ Len(rfn) >= 2
    BY <1>2, TablesMean DEF ReachType
  <1>8. /\ Len(rfn') >= Len(rfn) /\ \A i \in 1 .. Len(rfn) : rfn'[i] = rfn[i]
        /\ Len(rfn') \in Nat
    BY <1>6, <1>7
  <1>9. Defined' = Defined
    BY <1>1 DEF Defined
  <1>10. \/ Reached' = Reached /\ (name \in Reached \/ name \notin Defined)
         \/ Reached' = Reached \cup {name} /\ name \in Defined
    <2>1. CASE rfn' = rfn /\ (name \in Reached \/ name \notin Defined)
      BY <2>1 DEF Reached
    <2>2. CASE rfn' = Append(rfn, name) /\ name \in Defined
      <3>1. Range(rfn') = Range(rfn) \cup {name}
        BY <1>5, <1>7, <2>2, RangeOfAppend
      <3> QED BY <2>2, <3>1 DEF Reached
    <2> QED BY <1>6, <2>1, <2>2
  <1>11. Reached \subseteq Reached'
    BY <1>10
  <1>12. pos' <= Len(mentions[f]) + 1 /\ pos' \in Nat /\ pos' > 0
    BY <1>1, <1>4, <1>5
  <1>13. ReachType'
    BY <1>1, <1>2, <1>3, <1>6, <1>7, <1>8, <1>12 DEF ReachType
  <1>14. f \in Reached /\ Needs(f, pos - 1)
    BY <1>2, <1>5 DEF PassFound
  <1>15. OnlyNeeded'
    <2> SUFFICES ASSUME NEW S \in SUBSET Defined, Range(Roots) \cap Defined \subseteq S, ClosedSet(S)
                 PROVE  Reached' \cap Defined \subseteq S
      BY <1>1, <1>9 DEF OnlyNeeded, ClosedSet
    <2>1. Reached \cap Defined \subseteq S
      BY <1>2 DEF OnlyNeeded
    <2>2. f \in S
      BY <1>3, <1>14, <2>1
    <2>3. name \in Range(mentions[f])
      BY <1>4, <1>5 DEF Range, name
    <2>4. name \in Defined => name \in S
      BY <2>2, <2>3 DEF ClosedSet
    <2> QED BY <1>10, <2>1, <2>4
  <1>16. \A g, last : Needs(g, last) => Needs(g, last)'
    BY <1>1, <1>9, <1>11 DEF Needs
  <1>17. PICK g, q : g = f /\ q = pos
    OBVIOUS
  <1>18. Needs(g, q)'
    <2>1. name \in Defined => name \in Reached'
      BY <1>10
    <2>2. \A p \in 1 .. q : p \in 1 .. q - 1 \/ p = q
      BY <1>5, <1>17
    <2>3. Needs(g, q - 1) /\ name = mentions[g][q]
      BY <1>14, <1>17 DEF name
    <2>4. ASSUME NEW p \in 1 .. q, mentions[g][p] \in Defined PROVE mentions[g][p] \in Reached'
      BY <1>11, <2>1, <2>2, <2>3, <2>4 DEF Needs
    <2> QED BY <1>1, <1>9, <2>4 DEF Needs
  <1>19. PassFound'
    <2>1. pos' - 1 = pos /\ order[fun] = g /\ q = pos /\ found \in 0 .. Len(rfn)
      BY <1>1, <1>2, <1>5, <1>17 DEF ReachType
    <2>2. ASSUME NEW j \in 1 .. fun - 1, NEW i \in 1 .. found, rfn'[i] = order[j]
          PROVE  Needs(order[j], Len(mentions[order[j]]))'
      <3>1. rfn[i] = order[j]
        BY <1>7, <1>8, <2>1, <2>2
      <3>2. PICK h, last : h = order[j] /\ last = Len(mentions[h])
        OBVIOUS
      <3>3. Needs(h, last)
        BY <1>2, <3>1, <3>2 DEF PassFound
      <3>4. Needs(h, last)'
        BY <1>16, <3>3
      <3> QED BY <1>1, <3>2, <3>4 DEF Needs
    <2>3. (order[fun])' \in Reached' /\ Needs(order[fun], pos - 1)'
      BY <1>1, <1>11, <1>14, <1>18, <2>1 DEF Needs
    <2> QED BY <1>1, <2>2, <2>3 DEF PassFound
  <1> QED BY <1>1, <1>6, <1>13, <1>15, <1>19 DEF ReachInv

\* The map and the names found stay as they are, and so does what is said of them.
LEMMA NothingAdded ==
    ASSUME ReachType, MapSays, OnlyNeeded, UNCHANGED <<mentions, order, rfn, mapvars>>
    PROVE  /\ MapSays' /\ OnlyNeeded' /\ Defined' = Defined /\ Reached' = Reached
           /\ \A f, last : Needs(f, last)' <=> Needs(f, last)
  <1>1. /\ mentions' = mentions /\ order' = order /\ rfn' = rfn
        /\ slots' = slots /\ count' = count /\ old' = old /\ moved' = moved /\ adding' = adding
    BY DEF mapvars
  <1>2. Defined' = Defined /\ NoFunction' = NoFunction /\ Reached' = Reached
    BY <1>1 DEF Defined, NoFunction, Reached
  <1>3. MapOK' /\ \A k, v : MapHolds(k, v)' <=> MapHolds(k, v)
    BY <1>1 DEF MapOK, MapHolds, Quiet, Full, Rest, MapSays
  <1>4. MapSays'
    BY <1>1, <1>2, <1>3 DEF MapSays
  <1>5. OnlyNeeded'
    BY <1>1, <1>2 DEF OnlyNeeded, ClosedSet
  <1> QED BY <1>1, <1>2, <1>4, <1>5 DEF Needs

\* The pass leaves a function whose names it has read.
LEMMA LeavingKeeps ==
    ASSUME ReachInv, LeaveFunction
    PROVE  ReachInv'
  <1>1. /\ phase = "mark" /\ Quiet /\ fun <= Len(order) /\ pos > Len(mentions[order[fun]])
        /\ fun' = fun + 1 /\ pos' = 0
        /\ mentions' = mentions /\ order' = order /\ rfn' = rfn /\ found' = found /\ phase' = phase
        /\ UNCHANGED mapvars
    BY DEF LeaveFunction, Marks
  <1>2. ReachType /\ MapSays /\ OnlyNeeded /\ PassFound
    BY <1>1 DEF ReachInv
  <1>3. MapSays' /\ OnlyNeeded' /\ Defined' = Defined /\ Reached' = Reached
        /\ \A f, last : Needs(f, last)' <=> Needs(f, last)
    BY <1>1, <1>2, NothingAdded
  <1>4. fun \in 1 .. Len(order) /\ Len(order) \in Nat /\ order[fun] \in Defined
    BY <1>1, <1>2, TablesMean DEF ReachType
  <1>5. Len(mentions[order[fun]]) \in Nat
    <2>1. \A g \in Defined : mentions[g] \in Seq(DOMAIN Hash)
      BY <1>2, TablesMean
    <2> QED BY <1>4, <2>1
  <1>6. pos \in Nat /\ pos > 0 /\ pos - 1 = Len(mentions[order[fun]])
    <2>1. pos \in Nat /\ (pos > 0 => pos <= Len(mentions[order[fun]]) + 1)
      BY <1>2 DEF ReachType
    <2>2. pos > Len(mentions[order[fun]])
      BY <1>1
    <2> QED BY <1>5, <2>1, <2>2
  <1>7. Needs(order[fun], Len(mentions[order[fun]]))
    BY <1>2, <1>6 DEF PassFound
  <1>8. ReachType'
    BY <1>1, <1>2, <1>4 DEF ReachType
  <1>9. PassFound'
    <2>1. ASSUME NEW j \in 1 .. fun, NEW i \in 1 .. found, rfn[i] = order[j]
          PROVE  Needs(order[j], Len(mentions[order[j]]))
      <3>1. CASE j \in 1 .. fun - 1
        BY <1>2, <2>1, <3>1 DEF PassFound
      <3>2. CASE j = fun
        BY <1>7, <3>2
      <3> QED BY <1>4, <3>1, <3>2
    <2> QED BY <1>1, <1>3, <1>4, <2>1 DEF PassFound
  <1> QED BY <1>1, <1>3, <1>8, <1>9 DEF ReachInv

\* A pass ends.  It is the last when the names it began with are all there are.
LEMMA RoundKeeps ==
    ASSUME ReachInv, EndRound
    PROVE  ReachInv'
  <1>1. /\ phase = "mark" /\ Quiet /\ fun > Len(order)
        /\ phase' = IF Len(rfn) = found THEN "prune" ELSE "mark"
        /\ found' = Len(rfn) /\ fun' = 1 /\ pos' = 0
        /\ mentions' = mentions /\ order' = order /\ rfn' = rfn /\ UNCHANGED mapvars
    BY DEF EndRound, Marks
  <1>2. ReachType /\ MapSays /\ OnlyNeeded /\ PassFound
    BY <1>1 DEF ReachInv
  <1>3. MapSays' /\ OnlyNeeded' /\ Defined' = Defined /\ Reached' = Reached
        /\ \A f, last : Needs(f, last)' <=> Needs(f, last)
    BY <1>1, <1>2, NothingAdded
  <1>4. Len(rfn) \in Nat /\ Len(order) \in Nat /\ fun = Len(order) + 1
    BY <1>1, <1>2, TablesMean DEF ReachType
  <1>5. ReachType'
    BY <1>1, <1>2, <1>4 DEF ReachType
  <1>6. PassFound'
    BY <1>1 DEF PassFound
  <1>7. Quiet'
    BY <1>1 DEF Quiet, mapvars
  <1>8. ASSUME Len(rfn) = found PROVE ClosedSet(Reached \cap Defined)
    <2> SUFFICES ASSUME NEW f \in Reached \cap Defined, NEW name \in Range(mentions[f]), name \in Defined
                 PROVE  name \in Reached
      BY DEF ClosedSet
    <2>1. PICK i \in 1 .. Len(rfn) : rfn[i] = f
      BY <1>2, TablesMean
    <2>2. PICK j \in 1 .. Len(order) : order[j] = f
      BY <1>2, TablesMean
    <2>3. j \in 1 .. fun - 1 /\ i \in 1 .. found
      BY <1>4, <1>8, <2>1, <2>2
    <2>4. Needs(f, Len(mentions[f]))
      BY <1>2, <2>1, <2>2, <2>3 DEF PassFound
    <2>5. mentions[f] \in Seq(DOMAIN Hash)
      BY <1>2, TablesMean
    <2>6. PICK p \in 1 .. Len(mentions[f]) : mentions[f][p] = name
      BY <2>5 DEF Range
    <2> QED BY <2>4, <2>6 DEF Needs
  <1>9. Len(rfn) = found => ClosedSet(Reached \cap Defined)'
    BY <1>1, <1>3, <1>8 DEF ClosedSet
  <1> QED BY <1>1, <1>3, <1>5, <1>6, <1>7, <1>9 DEF ReachInv

\* A step of a put changes the table and not what the map holds.
LEMMA PuttingKeeps ==
    ASSUME ReachInv, PutStep
    PROVE  ReachInv'
  <1>1. /\ phase = "mark" /\ (Rehash \/ EndPut)
        /\ mentions' = mentions /\ order' = order /\ rfn' = rfn
        /\ found' = found /\ fun' = fun /\ pos' = pos /\ phase' = phase
    BY DEF PutStep, markvars
  <1>2. ReachType /\ MapSays /\ OnlyNeeded /\ PassFound /\ MapOK
    BY <1>1 DEF ReachInv, MapSays
  <1>3. MapOK' /\ \A k, w : MapHolds(k, w)' <=> MapHolds(k, w)
    <2>1. CASE Rehash
      <3>1. ~Quiet
        BY <1>2, <2>1 DEF Rehash, Growing, MapOK
      <3> QED BY <1>2, <2>1, <3>1, RehashKeeps
    <2>2. CASE EndPut
      BY <1>2, <2>2, PutEnds
    <2> QED BY <1>1, <2>1, <2>2
  <1>4. Defined' = Defined /\ NoFunction' = NoFunction /\ Reached' = Reached
    BY <1>1 DEF Defined, NoFunction, Reached
  <1>5. MapSays'
    BY <1>1, <1>2, <1>3, <1>4 DEF MapSays
  <1>6. OnlyNeeded' /\ \A f, last : Needs(f, last)' <=> Needs(f, last)
    BY <1>1, <1>2, <1>4 DEF OnlyNeeded, ClosedSet, Needs
  <1>7. PassFound'
    BY <1>1, <1>2, <1>4, <1>6 DEF PassFound
  <1>8. ReachType'
    BY <1>1, <1>2 DEF ReachType
  <1> QED BY <1>1, <1>5, <1>6, <1>7, <1>8 DEF ReachInv

\* The inductive invariant of the marking.
LEMMA ReachInductive ==
    ASSUME ReachInv, [ReachNext]_reachvars
    PROVE  ReachInv'
  <1>1. CASE UNCHANGED reachvars
    <2>1. /\ UNCHANGED <<mentions, order, rfn, mapvars>> /\ phase' = phase
          /\ mentions' = mentions /\ order' = order /\ rfn' = rfn /\ found' = found /\ fun' = fun /\ pos' = pos
          /\ slots' = slots /\ count' = count /\ old' = old /\ moved' = moved /\ adding' = adding
      BY <1>1 DEF reachvars, markvars, mapvars
    <2>2. MapOK => MapOK' /\ \A k, v : MapHolds(k, v)' <=> MapHolds(k, v)
      BY <2>1 DEF MapOK, MapHolds, Quiet, Full, Rest
    <2>3. Defined' = Defined /\ NoFunction' = NoFunction /\ Reached' = Reached /\ Quiet' = Quiet
      BY <2>1 DEF Defined, NoFunction, Reached, Quiet
    <2>4. MapSays => MapSays' /\ \A k, v : MapHolds(k, v)' <=> MapHolds(k, v)
      BY <2>1, <2>2, <2>3 DEF MapSays
    <2>5. ReachType => ReachType'
      BY <2>1 DEF ReachType
    <2>6. OnlyNeeded => OnlyNeeded'
      BY <2>1, <2>3 DEF OnlyNeeded, ClosedSet
    <2>7. \A f, last : Needs(f, last)' <=> Needs(f, last)
      BY <2>1, <2>3 DEF Needs
    <2>8. PassFound => PassFound'
      BY <2>1, <2>3, <2>7 DEF PassFound
    <2>9. ClosedSet(Reached \cap Defined) => ClosedSet(Reached \cap Defined)'
      BY <2>1, <2>3 DEF ClosedSet
    <2> QED BY <2>1, <2>3, <2>4, <2>5, <2>6, <2>8, <2>9 DEF ReachInv
  <1>2. CASE \E m \in Tables : \E o \in OrdersOf(m) : StartMarking(m, o)
    BY <1>2, MarkingStarts
  <1>3. CASE Mark
    BY <1>3, EnteringKeeps, ScanningKeeps, LeavingKeeps, RoundKeeps, PuttingKeeps DEF Mark
  <1>4. CASE Prune
    BY <1>4 DEF Prune, ReachInv
  <1> QED BY <1>1, <1>2, <1>3, <1>4 DEF ReachNext

\* Every state of the marking satisfies it: what the map says of a name is
\* right, also in the middle of a growth.
THEOREM MapIsRight == ReachSpec => []ReachInv
  <1>1. ReachInit => ReachInv
    BY ReachStarts
  <1>2. ReachInv /\ [ReachNext]_reachvars => ReachInv'
    BY ReachInductive
  <1> QED BY <1>1, <1>2, PTL DEF ReachSpec

\* What dce_prune keeps is the least set that holds the roots and is closed.
THEOREM MarkingExact == ReachSpec => []KeptIsReached
  <1>1. ReachInv => KeptIsReached
    <2> SUFFICES ASSUME ReachInv, phase = "prune"
                 PROVE  /\ Range(Roots) \cap Defined \subseteq Kept /\ ClosedSet(Kept)
                        /\ \A S \in SUBSET Defined :
                              Range(Roots) \cap Defined \subseteq S /\ ClosedSet(S) => Kept \subseteq S
      BY DEF KeptIsReached
    <2>1. ReachType /\ MapSays /\ Quiet /\ OnlyNeeded /\ ClosedSet(Reached \cap Defined)
      BY DEF ReachInv
    <2>2. \A f \in Defined : f \in DOMAIN Hash
      BY <2>1, TablesMean
    <2>3. Kept = Reached \cap Defined
      BY <2>1, <2>2, IsReachMeans DEF Kept
    <2>4. Range(Roots) \subseteq Reached
      <3>1. 1 \in 1 .. Len(rfn) /\ 2 \in 1 .. Len(rfn) /\ rfn[1] = Roots[1] /\ rfn[2] = Roots[2]
        BY <2>1, TablesMean DEF ReachType
      <3> QED BY <2>1, <3>1, RootKeys, TablesMean
    <2> QED BY <2>1, <2>3, <2>4 DEF OnlyNeeded
  <1> QED BY <1>1, MapIsRight, PTL

\* A free slot is always left, also while the map grows: every search ends.
THEOREM SearchesEnd ==
    ReachSpec => [](phase \in {"check", "mark", "prune"} => \E free \in 1 .. Len(slots) : ~slots[free].used)
  <1>1. ReachInv => (phase \in {"check", "mark", "prune"} => \E free \in 1 .. Len(slots) : ~slots[free].used)
    BY MapRoom DEF ReachInv, MapSays
  <1> QED BY <1>1, MapIsRight, PTL

(***************************************************************************)
(* The NUL byte                                                            *)
(***************************************************************************)
\* The digit zero is "0" and no other character.
LEMMA ZeroDigit ==
    ASSUME NEW c, IsDigit(c)
    PROVE  Digit(c) \in 0 .. 9 /\ (Digit(c) = 0 <=> c = "0")
  <1> DEFINE k == CHOOSE x \in 1 .. 10 : Numerals[x] = c
  <1>1. k \in 1 .. 10 /\ Numerals[k] = c
    BY DEF IsDigit
  <1>2. Digit(c) = k - 1
    BY DEF Digit
  <1> HIDE DEF k
  <1>3. Numerals[1] = "0" /\ \A x \in 2 .. 10 : Numerals[x] # "0"
    BY DEF Numerals
  <1> QED BY <1>1, <1>2, <1>3

\* The number of octal digits of an escape is three, two, one or none.
LEMMA OctalLengthIs ==
    ASSUME NEW text, NEW a \in Nat, At(text, a) = "\\"
    PROVE  OctalLength(text, a) =
             IF ~IsOctal(At(text, a + 1)) THEN 0
             ELSE IF ~IsOctal(At(text, a + 2)) THEN 1
             ELSE IF ~IsOctal(At(text, a + 3)) THEN 2 ELSE 3
  <1> DEFINE D(k) == IsOctal(At(text, a + k))
             L == {n \in 1 .. 3 : At(text, a) = "\\" /\ \A k \in 1 .. n : IsOctal(At(text, a + k))}
  <1>1. \A n \in 1 .. 3 : n \in L <=> \A k \in 1 .. n : D(k)
    OBVIOUS
  <1>2. OctalLength(text, a) = Cardinality(L)
    BY DEF OctalLength
  <1>3. L \subseteq 1 .. 3
    OBVIOUS
  <1> HIDE DEF D, L
  <1>4. (1 \in L <=> D(1)) /\ (2 \in L <=> D(1) /\ D(2)) /\ (3 \in L <=> D(1) /\ D(2) /\ D(3))
    BY <1>1
  <1>5. \A n : n \in L => n = 1 \/ n = 2 \/ n = 3
    BY <1>3
  <1>6. Cardinality(1 .. 0) = 0 /\ Cardinality(1 .. 1) = 1 /\ Cardinality(1 .. 2) = 2 /\ Cardinality(1 .. 3) = 3
    <2>1. ASSUME NEW b \in Nat PROVE Cardinality(1 .. b) = b
      <3>1. Cardinality(1 .. b) = IF 1 > b THEN 0 ELSE b - 1 + 1
        BY FS_Interval
      <3> QED BY <3>1
    <2> QED BY <2>1
  <1>7. L = IF ~D(1) THEN 1 .. 0 ELSE IF ~D(2) THEN 1 .. 1 ELSE IF ~D(3) THEN 1 .. 2 ELSE 1 .. 3
    BY <1>4, <1>5
  <1>8. Cardinality(L) = IF ~D(1) THEN 0 ELSE IF ~D(2) THEN 1 ELSE IF ~D(3) THEN 2 ELSE 3
    BY <1>6, <1>7
  <1> QED BY <1>2, <1>8 DEF D

\* Of an escape that starts with an octal digit and is not above \377, the byte
\* is 0 just when its digits are zeros, which is what NulTail looks for.
LEMMA NulTailRight ==
    ASSUME NEW text, NEW a \in Nat, At(text, a) = "\\",
           NEW big \in BOOLEAN, big <=> OctalLength(text, a) = 3 /\ Digit(text[a + 1]) > 3
    PROVE  OctalLength(text, a) > 0 /\ ~big /\ OctalByte(text, a) = 0
             <=> At(text, a + 1) = "0" /\ NulTail(text, a + 2)
  <1> DEFINE c1 == At(text, a + 1)
             c2 == At(text, a + 2)
             c3 == At(text, a + 3)
             n == OctalLength(text, a)
  <1>1. n = IF ~IsOctal(c1) THEN 0 ELSE IF ~IsOctal(c2) THEN 1 ELSE IF ~IsOctal(c3) THEN 2 ELSE 3
    BY OctalLengthIs
  <1>2. \A c : IsOctal(c) => Digit(c) \in 0 .. 7 /\ (Digit(c) = 0 <=> c = "0")
    BY ZeroDigit DEF IsOctal
  <1>3. IsOctal("0")
    <2>1. IsDigit("0")
      BY DEF IsDigit, Numerals
    <2> QED BY <2>1, ZeroDigit DEF IsOctal
  <1>4. ~IsOctal("end")
    BY DEF IsOctal, IsDigit, Numerals
  <1>5. /\ IsOctal(c1) => c1 = text[a + 1]
        /\ IsOctal(c2) => c2 = text[a + 2]
        /\ IsOctal(c3) => c3 = text[a + 3]
    BY <1>4 DEF At
  <1>6. NulTail(text, a + 2) <=> ~(\/ IsOctal(c2) /\ c2 # "0"
                                   \/ c2 = "0" /\ IsOctal(c3) /\ c3 # "0")
    <2>1. a + 2 + 1 = a + 3
      OBVIOUS
    <2> QED BY <2>1 DEF NulTail
  <1>7. OctalByte(text, a) =
          IF n = 1 THEN Digit(text[a + 1])
          ELSE IF n = 2 THEN 8 * Digit(text[a + 1]) + Digit(text[a + 2])
          ELSE (64 * Digit(text[a + 1]) + 8 * Digit(text[a + 2]) + Digit(text[a + 3])) % 256
    BY DEF OctalByte
  <1> HIDE DEF c1, c2, c3, n
  <1>8. CASE ~IsOctal(c1)
    BY <1>1, <1>3, <1>8 DEF n, c1
  <1>9. CASE IsOctal(c1) /\ ~IsOctal(c2)
    <2>1. n = 1 /\ OctalByte(text, a) = Digit(c1) /\ ~big
      BY <1>1, <1>5, <1>7, <1>9 DEF n
    <2>2. c2 # "0"
      BY <1>3, <1>9
    <2> QED BY <1>2, <1>6, <1>9, <2>1, <2>2 DEF n, c1
  <1>10. CASE IsOctal(c1) /\ IsOctal(c2) /\ ~IsOctal(c3)
    <2>1. n = 2 /\ OctalByte(text, a) = 8 * Digit(c1) + Digit(c2) /\ ~big
      BY <1>1, <1>5, <1>7, <1>10 DEF n
    <2>2. 8 * Digit(c1) + Digit(c2) = 0 <=> c1 = "0" /\ c2 = "0"
      BY <1>2, <1>10
    <2> QED BY <1>6, <1>10, <2>1, <2>2 DEF n, c1
  <1>11. CASE IsOctal(c1) /\ IsOctal(c2) /\ IsOctal(c3)
    <2>1. n = 3 /\ OctalByte(text, a) = (64 * Digit(c1) + 8 * Digit(c2) + Digit(c3)) % 256
      BY <1>1, <1>5, <1>7, <1>11 DEF n
    <2>2. big <=> Digit(c1) > 3
      BY <1>5, <1>11, <2>1 DEF n
    <2>3. ASSUME Digit(c1) <= 3
          PROVE  (64 * Digit(c1) + 8 * Digit(c2) + Digit(c3)) % 256 = 0 <=> c1 = "0" /\ c2 = "0" /\ c3 = "0"
      <3>1. PICK x \in 0 .. 3, y \in 0 .. 7, z \in 0 .. 7 : x = Digit(c1) /\ y = Digit(c2) /\ z = Digit(c3)
        BY <1>2, <1>11, <2>3
      <3>2. (64 * x + 8 * y + z) % 256 = 64 * x + 8 * y + z
        OBVIOUS
      <3>3. 64 * x + 8 * y + z = 0 <=> x = 0 /\ y = 0 /\ z = 0
        OBVIOUS
      <3> QED BY <1>2, <1>11, <3>1, <3>2, <3>3
    <2>4. Digit(c1) > 3 => c1 # "0"
      BY <1>2, <1>11
    <2>5. Digit(c1) \in 0 .. 7
      BY <1>2, <1>11
    <2>6. OctalLength(text, a) > 0 /\ ~big /\ OctalByte(text, a) = 0 <=> c1 = "0" /\ c2 = "0" /\ c3 = "0"
      BY <2>1, <2>2, <2>3, <2>4, <2>5 DEF n
    <2> QED BY <1>6, <1>11, <2>6 DEF c1
  <1> QED BY <1>8, <1>9, <1>10, <1>11

\* What str_has_nul finds, for every text: an octal escape up to \377 or a
\* hexadecimal one whose byte is 0.  Above \377 the byte wraps, and an escape
\* such as \400 is let through.
LEMMA NulsFound ==
    ASSUME NEW t
    PROVE  LET Big(j) == OctalLength(t, j) = 3 /\ Digit(t[j + 1]) > 3
           IN StrHasNul(t) <=>
                \E j \in Stops(t) : \/ OctalLength(t, j) > 0 /\ ~Big(j) /\ OctalByte(t, j) = 0
                                    \/ HexEscapeAt(t, j) /\ HexEscapeByte(t, j) = 0
  <1> DEFINE Big(j) == OctalLength(t, j) = 3 /\ Digit(t[j + 1]) > 3
             Octal(j) == OctalLength(t, j) > 0 /\ ~Big(j) /\ OctalByte(t, j) = 0
  <1>1. ASSUME NEW j \in Stops(t)
        PROVE  Octal(j) <=> At(t, j) = "\\" /\ At(t, j + 1) = "0" /\ NulTail(t, j + 2)
    <2>1. j \in Nat
      BY DEF Stops
    <2>2. CASE At(t, j) = "\\"
      <3>1. PICK b \in BOOLEAN : b <=> Big(j)
        OBVIOUS
      <3>2. OctalLength(t, j) > 0 /\ ~b /\ OctalByte(t, j) = 0 <=> At(t, j + 1) = "0" /\ NulTail(t, j + 2)
        BY <2>1, <2>2, <3>1, NulTailRight
      <3> QED BY <2>2, <3>1, <3>2
    <2>3. CASE At(t, j) # "\\"
      <3>1. {n \in 1 .. 3 : At(t, j) = "\\" /\ \A i \in 1 .. n : IsOctal(At(t, j + i))} = {}
        BY <2>3
      <3>2. OctalLength(t, j) = 0
        BY <3>1, FS_EmptySet DEF OctalLength
      <3> QED BY <2>3, <3>2
    <2> QED BY <2>2, <2>3
  <1> HIDE DEF Big
  <1>2. StrHasNul(t) <=> \E j \in Stops(t) : \/ At(t, j) = "\\" /\ At(t, j + 1) = "0" /\ NulTail(t, j + 2)
                                             \/ At(t, j) = "\\" /\ HexEscapeAt(t, j) /\ HexEscapeByte(t, j) = 0
    BY DEF StrHasNul
  <1>3. \A j : HexEscapeAt(t, j) => At(t, j) = "\\"
    BY DEF HexEscapeAt
  <1>4. StrHasNul(t) <=> \E j \in Stops(t) : Octal(j) \/ (HexEscapeAt(t, j) /\ HexEscapeByte(t, j) = 0)
    BY <1>1, <1>2, <1>3
  <1> QED BY <1>4 DEF Big

\* A string literal that str_has_nul refuses holds an escape whose byte is 0,
\* for every text.
THEOREM NulsRefused == LexSpec => []RefusedHasNul
  <1>1. RefusedHasNul
    <2> SUFFICES ASSUME NEW k \in 1 .. Len(out), StrHasNul(out[k].text)
        PROVE  0 \in EscapeBytes(out[k].text)
      BY DEF RefusedHasNul
    <2>1. PICK t : t = out[k].text
      OBVIOUS
    <2>2. PICK j \in Stops(t) : \/ OctalLength(t, j) > 0 /\ OctalByte(t, j) = 0
                                \/ HexEscapeAt(t, j) /\ HexEscapeByte(t, j) = 0
      BY <2>1, NulsFound
    <2>3. 0 \in EscapeBytes(t)
      BY <2>2 DEF EscapeBytes
    <2> QED BY <2>1, <2>3
  <1> QED BY <1>1, PTL

(***************************************************************************)
(* The cursor and the lines                                                *)
(***************************************************************************)
SrcOK == src \in Seq(STRING \ {"end"}) /\ at \in Nat \ {0}
IsSeq(o) == \E S : o \in Seq(S)

\* What Ch gives: a character of the source, or "end" behind it.
LEMMA Characters ==
    ASSUME SrcOK
    PROVE  /\ Len(src) \in Nat
           /\ \A i \in 1 .. Len(src) : Ch(i) = src[i] /\ Ch(i) # "end"
           /\ \A i \in Int : i \notin 1 .. Len(src) => Ch(i) = "end"
  BY DEF SrcOK, Ch, At

\* The end of a comment or a # line: the next newline, or the end of the source.
LEMMA LineEnds ==
    ASSUME SrcOK, at <= Len(src)
    PROVE  /\ EndOfLine(at) \in at .. Len(src) + 1
           /\ Ch(EndOfLine(at)) \in {Newline, "end"}
           /\ \A i \in at .. EndOfLine(at) - 1 : Ch(i) # Newline
  <1> DEFINE J == {j \in at .. Len(src) + 1 : Ch(j) \in {Newline} \cup {"end"}}
  <1>1. at \in Nat /\ Len(src) + 1 \in Nat /\ J \subseteq at .. Len(src) + 1
    BY Characters DEF SrcOK
  <1>2. Len(src) + 1 \in J
    BY <1>1, Characters
  <1>3. EndOfLine(at) = Min(J)
    BY DEF EndOfLine, SkipUntil, Ch
  <1>4. /\ Min(J) \in J /\ Min(J) \in at .. Len(src) + 1
        /\ \A j \in at .. Min(J) - 1 : j \notin J
    <2> HIDE DEF J
    <2> QED BY <1>1, <1>2, FirstIn
  <1>5. \A j \in at .. Min(J) - 1 : j \in at .. Len(src) + 1
    BY <1>1, <1>4
  <1> QED BY <1>3, <1>4, <1>5

\* The newlines of a stretch are finitely many, and none when it has none.
LEMMA NewlineCount ==
    ASSUME NEW a \in Nat, NEW b \in Nat
    PROVE  /\ IsFiniteSet(Newlines(a .. b - 1)) /\ Cardinality(Newlines(a .. b - 1)) \in Nat
           /\ (\A i \in a .. b - 1 : Ch(i) # Newline) => Cardinality(Newlines(a .. b - 1)) = 0
  <1> DEFINE X == Newlines(a .. b - 1)
  <1>1. b - 1 \in Int
    OBVIOUS
  <1>2. IsFiniteSet(a .. b - 1)
    BY <1>1, FS_Interval
  <1>3. X \subseteq a .. b - 1
    BY DEF Newlines
  <1>4. IsFiniteSet(X)
    BY <1>2, <1>3, FS_Subset
  <1>5. (\A i \in a .. b - 1 : Ch(i) # Newline) => X = {}
    BY DEF Newlines
  <1> HIDE DEF X
  <1>6. Cardinality(X) \in Nat /\ Cardinality({}) = 0
    BY <1>4, FS_CardinalityType, FS_EmptySet
  <1>7. (\A i \in a .. b - 1 : Ch(i) # Newline) => Cardinality(X) = 0
    BY <1>5, <1>6
  <1> QED BY <1>4, <1>6, <1>7 DEF X

\* Newlines of adjacent stretches add up.
LEMMA NewlinesAdd ==
    ASSUME NEW a \in Nat, NEW b \in Nat, NEW c \in Nat, a <= b, b <= c
    PROVE  Cardinality(Newlines(a .. c - 1))
             = Cardinality(Newlines(a .. b - 1)) + Cardinality(Newlines(b .. c - 1))
  <1> DEFINE X == Newlines(a .. b - 1)
             Y == Newlines(b .. c - 1)
  <1>1. IsFiniteSet(X) /\ IsFiniteSet(Y) /\ Cardinality(X) \in Nat /\ Cardinality(Y) \in Nat
    BY NewlineCount
  <1>2. X \cap Y = {}
    BY DEF Newlines
  <1>3. Newlines(a .. c - 1) = X \cup Y
    BY DEF Newlines
  <1> HIDE DEF X, Y
  <1>4. Cardinality(X \cup Y) = Cardinality(X) + Cardinality(Y) - Cardinality(X \cap Y)
    BY <1>1, FS_Union
  <1>5. Cardinality(X \cup Y) = Cardinality(X) + Cardinality(Y)
    BY <1>1, <1>2, <1>4, FS_EmptySet
  <1> QED BY <1>3, <1>5 DEF X, Y

(***************************************************************************)
(* What stands before a line of the output, as functions of the output     *)
(***************************************************************************)
PiecesIn(o, k) == {j \in 1 .. Len(o) : o[j].k # "line" /\ j < k}
EndIn(o, k) == IF PiecesIn(o, k) = {} THEN 1 ELSE o[Max(PiecesIn(o, k))].to
MarkersIn(o, k) == {j \in 1 .. k - 1 : o[j].k = "line"}
GivenIn(o, k) == IF MarkersIn(o, k) = {} THEN 1 ELSE o[Max(MarkersIn(o, k))].n
RawsIn(o, k) == {j \in 1 .. Len(o) : o[j].k = "raw" /\ j < k}
BeginIn(o, k) == IF RawsIn(o, k) = {} THEN 1 ELSE o[Max(RawsIn(o, k))].to

\* They are what Lexer's own definitions say of the output, before and after a
\* step.
LEMMA OutputOnly ==
    ASSUME NEW k
    PROVE  /\ EndBefore(k) = EndIn(out, k) /\ EndBefore(k)' = EndIn(out', k)
           /\ LineGiven(k) = GivenIn(out, k) /\ LineGiven(k)' = GivenIn(out', k)
           /\ RawsBefore(k) = RawsIn(out, k) /\ RawsBefore(k)' = RawsIn(out', k)
           /\ FileBegin(k) = BeginIn(out, k) /\ FileBegin(k)' = BeginIn(out', k)
  <1>1. {j \in Pieces : j < k} = PiecesIn(out, k) /\ {j \in Pieces : j < k}' = PiecesIn(out', k)
    BY DEF Pieces, PiecesIn
  <1>2. EndBefore(k) = EndIn(out, k) /\ EndBefore(k)' = EndIn(out', k)
    BY <1>1 DEF EndBefore, EndIn
  <1>3. LineGiven(k) = GivenIn(out, k) /\ LineGiven(k)' = GivenIn(out', k)
    BY DEF LineGiven, GivenIn, MarkersIn
  <1>4. RawsBefore(k) = RawsIn(out, k) /\ RawsBefore(k)' = RawsIn(out', k)
    BY DEF RawsBefore, Raws, RawsIn
  <1>5. FileBegin(k) = BeginIn(out, k) /\ FileBegin(k)' = BeginIn(out', k)
    BY <1>4 DEF FileBegin, BeginIn
  <1> QED BY <1>2, <1>3, <1>4, <1>5

\* Two outputs that begin alike have the same before their k-th line.
LEMMA AlikeBefore ==
    ASSUME NEW o, NEW p, Len(o) \in Nat, Len(p) \in Nat, NEW k \in Nat, k <= Len(o) + 1, k <= Len(p) + 1,
           \A j \in 1 .. k - 1 : o[j] = p[j]
    PROVE  EndIn(o, k) = EndIn(p, k) /\ GivenIn(o, k) = GivenIn(p, k)
           /\ RawsIn(o, k) = RawsIn(p, k) /\ BeginIn(o, k) = BeginIn(p, k)
  <1>1. PiecesIn(o, k) = PiecesIn(p, k) /\ PiecesIn(o, k) \subseteq 1 .. k - 1
    BY DEF PiecesIn
  <1>2. MarkersIn(o, k) = MarkersIn(p, k) /\ MarkersIn(o, k) \subseteq 1 .. k - 1
    BY DEF MarkersIn
  <1>3. RawsIn(o, k) = RawsIn(p, k) /\ RawsIn(o, k) \subseteq 1 .. k - 1
    BY DEF RawsIn
  <1>4. \A S : S # {} /\ S \subseteq 1 .. k - 1 => Max(S) \in 1 .. k - 1
    <2> SUFFICES ASSUME NEW S, S # {}, S \subseteq 1 .. k - 1 PROVE Max(S) \in S
      OBVIOUS
    <2>1. k - 1 \in Int
      OBVIOUS
    <2> QED BY <2>1, GreatestOf
  <1> QED BY <1>1, <1>2, <1>3, <1>4 DEF EndIn, GivenIn, BeginIn

\* What stands before the line behind the k-th.
LEMMA OneFurther ==
    ASSUME NEW o, Len(o) \in Nat, NEW k \in 1 .. Len(o)
    PROVE  /\ o[k].k = "line" => EndIn(o, k + 1) = EndIn(o, k) /\ GivenIn(o, k + 1) = o[k].n
           /\ o[k].k # "line" => EndIn(o, k + 1) = o[k].to /\ GivenIn(o, k + 1) = GivenIn(o, k)
           /\ o[k].k = "raw" => RawsIn(o, k + 1) # {} /\ BeginIn(o, k + 1) = o[k].to
           /\ o[k].k # "raw" => RawsIn(o, k + 1) = RawsIn(o, k) /\ BeginIn(o, k + 1) = BeginIn(o, k)
  <1>1. ASSUME o[k].k = "line" PROVE EndIn(o, k + 1) = EndIn(o, k) /\ GivenIn(o, k + 1) = o[k].n
    <2>1. PiecesIn(o, k + 1) = PiecesIn(o, k)
      BY <1>1 DEF PiecesIn
    <2>2. k \in MarkersIn(o, k + 1) /\ MarkersIn(o, k + 1) \subseteq Int /\ \A j \in MarkersIn(o, k + 1) : j <= k
      BY <1>1 DEF MarkersIn
    <2>3. Max(MarkersIn(o, k + 1)) = k
      BY <2>2, GreatestIs
    <2> QED BY <2>1, <2>2, <2>3 DEF EndIn, GivenIn
  <1>2. ASSUME o[k].k # "line" PROVE EndIn(o, k + 1) = o[k].to /\ GivenIn(o, k + 1) = GivenIn(o, k)
    <2>1. MarkersIn(o, k + 1) = MarkersIn(o, k)
      BY <1>2 DEF MarkersIn
    <2>2. k \in PiecesIn(o, k + 1) /\ PiecesIn(o, k + 1) \subseteq Int /\ \A j \in PiecesIn(o, k + 1) : j <= k
      BY <1>2 DEF PiecesIn
    <2>3. Max(PiecesIn(o, k + 1)) = k
      BY <2>2, GreatestIs
    <2> QED BY <2>1, <2>2, <2>3 DEF EndIn, GivenIn
  <1>3. ASSUME o[k].k = "raw" PROVE RawsIn(o, k + 1) # {} /\ BeginIn(o, k + 1) = o[k].to
    <2>1. k \in RawsIn(o, k + 1) /\ RawsIn(o, k + 1) \subseteq Int /\ \A j \in RawsIn(o, k + 1) : j <= k
      BY <1>3 DEF RawsIn
    <2>2. Max(RawsIn(o, k + 1)) = k
      BY <2>1, GreatestIs
    <2> QED BY <2>1, <2>2 DEF BeginIn
  <1>4. ASSUME o[k].k # "raw" PROVE RawsIn(o, k + 1) = RawsIn(o, k) /\ BeginIn(o, k + 1) = BeginIn(o, k)
    <2>1. RawsIn(o, k + 1) = RawsIn(o, k)
      BY <1>4 DEF RawsIn
    <2> QED BY <2>1 DEF BeginIn
  <1> QED BY <1>1, <1>2, <1>3, <1>4

(***************************************************************************)
(* The inductive invariant                                                 *)
(***************************************************************************)
LexInv == CursorOK /\ IsSeq(out) /\ NothingLost /\ LinesRight

\* What is said of the source stays while it does.
LEMMA SameSource ==
    ASSUME src' = src
    PROVE  /\ \A i : Ch(i)' = Ch(i)
           /\ \A a, b : Skipped(a, b)' <=> Skipped(a, b)
           /\ \A S : Newlines(S)' = Newlines(S)
  <1>1. \A i : Ch(i)' = Ch(i)
    BY DEF Ch
  <1>2. \A j : Opens(j)' <=> Opens(j)
    BY <1>1 DEF Opens
  <1>3. \A a, b : Skipped(a, b)' <=> Skipped(a, b)
    BY <1>1, <1>2 DEF Skipped
  <1>4. \A S : Newlines(S)' = Newlines(S)
    BY <1>1 DEF Newlines
  <1> QED BY <1>1, <1>3, <1>4

\* Printing more does not change what was said of the lines printed before.
LEMMA MorePrinted ==
    ASSUME src' = src, Len(out) \in Nat, Len(out') \in Nat, Len(out') >= Len(out),
           \A j \in 1 .. Len(out) : out'[j] = out[j]
    PROVE  /\ \A k \in 1 .. Len(out) + 1 : /\ EndBefore(k)' = EndBefore(k) /\ LineGiven(k)' = LineGiven(k)
                                           /\ RawsBefore(k)' = RawsBefore(k) /\ FileBegin(k)' = FileBegin(k)
                                           /\ \A i : LineAt(k, i)' = LineAt(k, i)
           /\ \A k \in 1 .. Len(out) : HoldsNewline(k)' <=> HoldsNewline(k)
  <1>1. ASSUME NEW k \in 1 .. Len(out) + 1
        PROVE  /\ EndBefore(k)' = EndBefore(k) /\ LineGiven(k)' = LineGiven(k)
               /\ RawsBefore(k)' = RawsBefore(k) /\ FileBegin(k)' = FileBegin(k)
    <2>1. k \in Nat /\ k <= Len(out) + 1 /\ k <= Len(out') + 1 /\ \A j \in 1 .. k - 1 : out[j] = out'[j]
      OBVIOUS
    <2>2. EndIn(out, k) = EndIn(out', k) /\ GivenIn(out, k) = GivenIn(out', k)
          /\ RawsIn(out, k) = RawsIn(out', k) /\ BeginIn(out, k) = BeginIn(out', k)
      BY <2>1, AlikeBefore
    <2> QED BY <2>2, OutputOnly
  <1>2. ASSUME NEW k \in 1 .. Len(out) + 1, NEW i PROVE LineAt(k, i)' = LineAt(k, i)
    BY <1>1, SameSource DEF LineAt
  <1>3. \A k \in 1 .. Len(out) : HoldsNewline(k)' <=> HoldsNewline(k)
    BY DEF HoldsNewline
  <1> QED BY <1>1, <1>2, <1>3

\* The lines before the k-th, and whether a string of the output holds a
\* newline, as functions of the output.
LineIn(o, k, i) ==
    (IF RawsIn(o, k) = {} THEN 1 ELSE 0) + Cardinality(Newlines(BeginIn(o, k) .. i - 1))
HoldsIn(o, k) == o[k].k = "str" /\ \E i \in 1 .. Len(o[k].text) : o[k].text[i] = Newline
TokensIn(o) == {k \in 1 .. Len(o) : o[k].k \notin {"line", "raw"}}
PlainIn(o) == \A j \in TokensIn(o) : ~HoldsIn(o, j)

\* The same for the lines of the tokens.
LEMMA LinesOfOutput ==
    ASSUME src' = src
    PROVE  /\ \A k, i : LineAt(k, i) = LineIn(out, k, i) /\ LineAt(k, i)' = LineIn(out', k, i)
           /\ \A k : (HoldsNewline(k) <=> HoldsIn(out, k)) /\ (HoldsNewline(k)' <=> HoldsIn(out', k))
           /\ TokenAt = TokensIn(out) /\ TokenAt' = TokensIn(out')
           /\ (PlainSoFar <=> PlainIn(out)) /\ (PlainSoFar' <=> PlainIn(out'))
  <1>1. ASSUME NEW k, NEW i
        PROVE  LineAt(k, i) = LineIn(out, k, i) /\ LineAt(k, i)' = LineIn(out', k, i)
    <2>1. LineAt(k, i) = LineIn(out, k, i)
      BY OutputOnly DEF LineAt, LineIn
    <2>2. Newlines(FileBegin(k) .. i - 1)' = {j \in FileBegin(k)' .. i - 1 : Ch(j) = Newline}
      BY SameSource DEF Newlines
    <2>3. Newlines(FileBegin(k) .. i - 1)' = Newlines(BeginIn(out', k) .. i - 1)
      BY <2>2, OutputOnly DEF Newlines
    <2>4. LineAt(k, i)' = LineIn(out', k, i)
      BY <2>3, OutputOnly DEF LineAt, LineIn
    <2> QED BY <2>1, <2>4
  <1>2. \A k : (HoldsNewline(k) <=> HoldsIn(out, k)) /\ (HoldsNewline(k)' <=> HoldsIn(out', k))
    BY DEF HoldsNewline, HoldsIn
  <1>3. TokenAt = TokensIn(out) /\ TokenAt' = TokensIn(out')
    BY DEF TokenAt, TokensIn
  <1>4. (PlainSoFar <=> PlainIn(out)) /\ (PlainSoFar' <=> PlainIn(out'))
    BY <1>2, <1>3 DEF PlainSoFar, PlainIn
  <1> QED BY <1>1, <1>2, <1>3, <1>4

\* The lines go on counting from a position to a later one.
LEMMA LineInGoesOn ==
    ASSUME NEW o, NEW k, BeginIn(o, k) \in Nat, NEW i \in Nat, NEW j \in Nat, BeginIn(o, k) <= i, i <= j
    PROVE  /\ LineIn(o, k, j) = LineIn(o, k, i) + Cardinality(Newlines(i .. j - 1))
           /\ LineIn(o, k, i) \in Nat
  <1>1. PICK b \in Nat : b = BeginIn(o, k)
    OBVIOUS
  <1>2. /\ LineIn(o, k, j) = (IF RawsIn(o, k) = {} THEN 1 ELSE 0) + Cardinality(Newlines(b .. j - 1))
        /\ LineIn(o, k, i) = (IF RawsIn(o, k) = {} THEN 1 ELSE 0) + Cardinality(Newlines(b .. i - 1))
    BY <1>1 DEF LineIn
  <1>3. Cardinality(Newlines(b .. j - 1)) = Cardinality(Newlines(b .. i - 1)) + Cardinality(Newlines(i .. j - 1))
    BY <1>1, NewlinesAdd
  <1>4. Cardinality(Newlines(b .. i - 1)) \in Nat /\ Cardinality(Newlines(i .. j - 1)) \in Nat
    BY NewlineCount
  <1> QED BY <1>2, <1>3, <1>4

\* What a step has to show: of the lines it prints, and of what is behind them.
Pieced(o, k) == o[k].k # "line" =>
    EndIn(o, k) <= o[k].from /\ o[k].from < o[k].to /\ Skipped(EndIn(o, k), o[k].from)
Lined(o, k) == o[k].k \notin {"line", "raw"} => GivenIn(o, k) = LineIn(o, k, o[k].from)
Behind(o, e, l) ==
    /\ EndIn(o, Len(o) + 1) \in Nat /\ EndIn(o, Len(o) + 1) <= e
    /\ Skipped(EndIn(o, Len(o) + 1), Min({e, Len(src) + 1}))
    /\ BeginIn(o, Len(o) + 1) \in Nat \ {0} /\ BeginIn(o, Len(o) + 1) <= e
    /\ PlainIn(o) => /\ l = LineIn(o, Len(o) + 1, e)
                     /\ GivenIn(o, Len(o) + 1) = l \/ Ch(e) \in {Newline, "end"}

\* A step that leaves the source alone, prints on and shows these keeps the
\* invariant.
LEMMA StepKeeps ==
    ASSUME LexInv, src' = src,
           NEW o, NEW e \in Nat \ {0}, NEW l \in Nat, out' = o, at' = e, lexline' = l,
           IsSeq(o), Len(o) >= Len(out), \A j \in 1 .. Len(out) : o[j] = out[j],
           \A k \in Len(out) + 1 .. Len(o) : Pieced(o, k),
           PlainIn(out) => \A k \in Len(out) + 1 .. Len(o) : Lined(o, k),
           Behind(o, e, l)
    PROVE  LexInv'
  <1>1. Len(out) \in Nat /\ Len(o) \in Nat /\ Len(out') \in Nat
    BY DEF LexInv, IsSeq
  <1>2. PICK n, m : n = Len(out) /\ m = Len(o) + 1
    OBVIOUS
  <1>3. /\ \A k \in 1 .. n + 1 : /\ EndBefore(k)' = EndBefore(k) /\ LineGiven(k)' = LineGiven(k)
                                 /\ \A i : LineAt(k, i)' = LineAt(k, i)
        /\ \A k \in 1 .. n : HoldsNewline(k)' <=> HoldsNewline(k)
    BY <1>1, <1>2, MorePrinted
  <1>4. \A k : /\ EndBefore(k)' = EndIn(o, k) /\ LineGiven(k)' = GivenIn(o, k)
               /\ FileBegin(k)' = BeginIn(o, k) /\ \A i : LineAt(k, i)' = LineIn(o, k, i)
               /\ EndBefore(k) = EndIn(out, k)
    BY OutputOnly, LinesOfOutput
  <1>5. (Len(out) + 1)' = m
    BY <1>2
  <1>6. CursorOK'
    <2>1. EndBefore(Len(out) + 1)' = EndIn(o, m)
      BY <1>5, OutputOnly DEF EndBefore, EndIn, Pieces, PiecesIn
    <2>2. FileBegin(Len(out) + 1)' = BeginIn(o, m) /\ LineGiven(Len(out) + 1)' = GivenIn(o, m)
      BY <1>5 DEF FileBegin, BeginIn, RawsBefore, Raws, RawsIn, LineGiven, GivenIn, MarkersIn
    <2>3. LineAt(Len(out) + 1, at)' = LineAt(m, e)'
      BY <1>5
    <2>4. LineAt(m, e)' = LineIn(o, m, e)
      BY <1>4
    <2>5. Ch(at)' = Ch(e)
      BY DEF Ch
    <2>6. PlainSoFar' <=> PlainIn(o)
      BY LinesOfOutput
    <2> QED BY <1>2, <2>1, <2>2, <2>3, <2>4, <2>5, <2>6 DEF CursorOK, LexInv, Behind
  <1>7. NothingLost'
    <2>1. ASSUME NEW k \in Pieces'
          PROVE  /\ EndBefore(k)' <= out'[k].from /\ out'[k].from < out'[k].to
                 /\ Skipped(EndBefore(k)', out'[k].from)
      <3>1. k \in 1 .. Len(o) /\ o[k].k # "line"
        BY <2>1 DEF Pieces
      <3>2. CASE k \in 1 .. n
        <4>1. k \in Pieces
          BY <1>2, <3>1, <3>2 DEF Pieces
        <4>2. k \in 1 .. n + 1 /\ o[k] = out[k]
          BY <1>1, <1>2, <3>2
        <4> QED BY <1>3, <4>1, <4>2 DEF LexInv, NothingLost
      <3>3. CASE k \in n + 1 .. Len(o)
        <4>1. Pieced(o, k)
          BY <1>2, <3>3
        <4> QED BY <1>4, <3>1, <4>1 DEF Pieced
      <3> QED BY <1>1, <1>2, <3>1, <3>2, <3>3
    <2>2. EndBefore(Len(out) + 1)' = EndIn(o, m)
      BY <1>5, OutputOnly DEF EndBefore, EndIn, Pieces, PiecesIn
    <2>3. ASSUME NEW k \in Pieces' PROVE Skipped(EndBefore(k), out[k].from)'
      <3>1. PICK a, b : a = EndBefore(k)' /\ b = out'[k].from
        OBVIOUS
      <3>2. Skipped(a, b)'
        BY <2>1, <3>1, SameSource
      <3> QED BY <3>1, <3>2
    <2>4. Skipped(EndBefore(Len(out) + 1), Min({at, Len(src) + 1}))'
      <3>1. PICK a, b : a = EndIn(o, m) /\ b = Min({e, Len(src) + 1})
        OBVIOUS
      <3>2. Skipped(a, b)'
        BY <1>2, <3>1, SameSource DEF Behind
      <3>3. Min({at, Len(src) + 1})' = b
        BY <3>1
      <3> QED BY <2>2, <3>1, <3>2, <3>3
    <2> QED BY <1>2, <2>1, <2>2, <2>3, <2>4 DEF NothingLost, Behind
  <1>8. LinesRight'
    <2> SUFFICES ASSUME NEW k \in TokenAt', \A j \in TokenAt' : j < k => ~HoldsNewline(j)'
                 PROVE  LineGiven(k)' = LineOf(k)'
      BY DEF LinesRight
    <2>1. k \in 1 .. Len(o) /\ o[k].k \notin {"line", "raw"}
      BY DEF TokenAt
    <2>2. PICK i : i = o[k].from
      OBVIOUS
    <2>3. LineOf(k)' = LineAt(k, i)' /\ (o[k] = out[k] => LineOf(k) = LineAt(k, i))
      BY <2>2 DEF LineOf
    <2>4. CASE k \in 1 .. n
      <3>1. k \in TokenAt /\ k \in 1 .. n + 1 /\ o[k] = out[k]
        BY <1>1, <1>2, <2>1, <2>4 DEF TokenAt
      <3>2. ASSUME NEW j \in TokenAt, j < k PROVE ~HoldsNewline(j)
        <4>1. j \in 1 .. n /\ j \in TokenAt'
          BY <1>1, <1>2, <3>2 DEF TokenAt
        <4> QED BY <1>3, <3>2, <4>1
      <3>3. LineGiven(k) = LineOf(k)
        BY <3>1, <3>2 DEF LexInv, LinesRight
      <3> QED BY <1>3, <2>3, <3>1, <3>3
    <2>5. CASE k \in n + 1 .. Len(o)
      <3>1. ASSUME NEW j \in TokenAt PROVE ~HoldsNewline(j)
        <4>1. j \in 1 .. n /\ j \in TokenAt' /\ j < k
          BY <1>1, <1>2, <2>5, <3>1 DEF TokenAt
        <4> QED BY <1>3, <4>1
      <3>2. PlainIn(out)
        BY <3>1, LinesOfOutput DEF PlainSoFar
      <3>3. Lined(o, k)
        BY <1>2, <2>5, <3>2
      <3> QED BY <1>4, <2>1, <2>2, <2>3, <3>3 DEF Lined
    <2> QED BY <1>1, <1>2, <2>1, <2>4, <2>5
  <1>9. IsSeq(out)'
    BY DEF IsSeq
  <1> QED BY <1>6, <1>7, <1>8, <1>9 DEF LexInv

\* Min of two numbers
LEMMA MinOfTwo ==
    ASSUME NEW a \in Nat, NEW b \in Nat
    PROVE  Min({a, b}) = IF a <= b THEN a ELSE b
  <1>1. {a, b} \subseteq Nat /\ {a, b} # {}
    OBVIOUS
  <1>2. Min({a, b}) \in {a, b} /\ \A x \in {a, b} : Min({a, b}) <= x
    BY <1>1, LeastOf
  <1> QED BY <1>2

\* A gap goes on over spaces and over one more comment.
LEMMA GapGoesOn ==
    ASSUME NEW a \in Nat, NEW b \in Nat, NEW c \in Nat, a <= b, b <= c, Skipped(a, b),
           \/ \A i \in b .. c - 1 : Ch(i) \in Spaces
           \/ Opens(b) /\ \A i \in b .. c - 1 : Ch(i) # Newline
    PROVE  Skipped(a, c)
  <1> SUFFICES ASSUME NEW i \in a .. c - 1
               PROVE  Ch(i) \in Spaces \/ \E j \in a .. i : Opens(j) /\ \A m \in j .. i : Ch(m) # Newline
    BY DEF Skipped
  <1>1. CASE i < b
    <2>1. i \in a .. b - 1
      BY <1>1
    <2> QED BY <2>1 DEF Skipped
  <1>2. CASE i >= b
    <2>1. i \in b .. c - 1 /\ b \in a .. i /\ \A m \in b .. i : m \in b .. c - 1
      BY <1>2
    <2> QED BY <2>1
  <1> QED BY <1>1, <1>2

\* What the invariant says of the place the cursor is at.
LEMMA Here ==
    ASSUME LexInv, Scanning
    PROVE  /\ SrcOK /\ Len(out) \in Nat /\ at <= Len(src) /\ Len(src) \in Nat /\ lexline \in Nat
           /\ EndIn(out, Len(out) + 1) \in Nat /\ EndIn(out, Len(out) + 1) <= at
           /\ Skipped(EndIn(out, Len(out) + 1), at)
           /\ BeginIn(out, Len(out) + 1) \in Nat \ {0} /\ BeginIn(out, Len(out) + 1) <= at
           /\ PlainIn(out) => lexline = LineIn(out, Len(out) + 1, at)
           /\ PlainIn(out) /\ Ch(at) \notin {Newline, "end"} => GivenIn(out, Len(out) + 1) = lexline
  <1>1. SrcOK /\ Len(out) \in Nat /\ at <= Len(src) /\ lexline \in Nat
    BY DEF LexInv, CursorOK, SrcOK, IsSeq, Scanning
  <1>2. Len(src) \in Nat
    BY <1>1, Characters
  <1>3. Min({at, Len(src) + 1}) = at
    BY <1>1, <1>2, MinOfTwo DEF SrcOK
  <1>4. PICK m : m = Len(out) + 1
    OBVIOUS
  <1>5. /\ EndBefore(m) = EndIn(out, m) /\ FileBegin(m) = BeginIn(out, m) /\ LineGiven(m) = GivenIn(out, m)
    BY OutputOnly
  <1>6. RawsBefore(m) = RawsIn(out, m)
    BY OutputOnly
  <1>7. LineAt(m, at) = LineIn(out, m, at)
    BY <1>5, <1>6 DEF LineAt, LineIn
  <1>8. TokenAt = TokensIn(out)
    BY DEF TokenAt, TokensIn
  <1>9. PlainSoFar <=> PlainIn(out)
    BY <1>8 DEF PlainSoFar, PlainIn, HoldsNewline, HoldsIn
  <1> QED BY <1>1, <1>2, <1>3, <1>4, <1>5, <1>7, <1>9 DEF LexInv, CursorOK, NothingLost

\* A line appended to the output
LEMMA Appended ==
    ASSUME IsSeq(out), NEW tok
    PROVE  /\ IsSeq(Append(out, tok)) /\ Len(out) \in Nat /\ Len(Append(out, tok)) = Len(out) + 1
           /\ Append(out, tok)[Len(out) + 1] = tok
           /\ \A j \in 1 .. Len(out) : Append(out, tok)[j] = out[j]
  <1>1. PICK S : out \in Seq(S)
    BY DEF IsSeq
  <1>2. Append(out, tok) \in Seq(S \cup {tok})
    BY <1>1
  <1>3. IsSeq(Append(out, tok))
    BY <1>2 DEF IsSeq
  <1> QED BY <1>1, <1>3

\* An output that goes on as far as the old one has the same before its line
\* behind that.
LEMMA OneMore ==
    ASSUME NEW n \in Nat, n = Len(out), NEW o, Len(o) \in Nat, Len(o) >= n, \A j \in 1 .. n : o[j] = out[j]
    PROVE  /\ EndIn(o, n + 1) = EndIn(out, n + 1) /\ GivenIn(o, n + 1) = GivenIn(out, n + 1)
           /\ RawsIn(o, n + 1) = RawsIn(out, n + 1) /\ BeginIn(o, n + 1) = BeginIn(out, n + 1)
           /\ \A i : LineIn(o, n + 1, i) = LineIn(out, n + 1, i)
           /\ PlainIn(o) => PlainIn(out)
  <1>1. PICK m \in Nat : m = n + 1
    OBVIOUS
  <1>2. m <= Len(o) + 1 /\ m <= Len(out) + 1 /\ \A j \in 1 .. m - 1 : o[j] = out[j]
    BY <1>1
  <1>3. EndIn(o, m) = EndIn(out, m) /\ GivenIn(o, m) = GivenIn(out, m)
        /\ RawsIn(o, m) = RawsIn(out, m) /\ BeginIn(o, m) = BeginIn(out, m)
    BY <1>2, AlikeBefore
  <1>4. \A i : LineIn(o, m, i) = LineIn(out, m, i)
    BY <1>3 DEF LineIn
  <1>5. \A j \in TokensIn(out) : j \in TokensIn(o) /\ o[j] = out[j]
    BY DEF TokensIn
  <1>6. PlainIn(o) => PlainIn(out)
    BY <1>5 DEF PlainIn, HoldsIn
  <1> QED BY <1>1, <1>3, <1>4, <1>6

\* A piece of the source becomes one token, which has a newline only if it is
\* a string that is said to.
LEMMA TokenPrinted ==
    ASSUME LexInv, Token, src' = src, lexline' = lexline,
           NEW tok, NEW e \in Nat, out' = Append(out, tok), at' = e, e > at,
           tok.k # "line", tok.k # "raw", tok.from = at, tok.to = e,
           HoldsIn(Append(out, tok), Len(out) + 1) \/ \A i \in at .. e - 1 : Ch(i) # Newline
    PROVE  LexInv'
  <1>1. PICK o, n, a, l : o = Append(out, tok) /\ n = Len(out) /\ a = at /\ l = lexline
    OBVIOUS
  <1>2. Scanning /\ Ch(a) \notin Spaces
    BY <1>1 DEF Token
  <1>3. /\ SrcOK /\ n \in Nat /\ a <= Len(src) /\ Len(src) \in Nat /\ l \in Nat /\ a \in Nat \ {0}
        /\ EndIn(out, n + 1) \in Nat /\ EndIn(out, n + 1) <= a /\ Skipped(EndIn(out, n + 1), a)
        /\ BeginIn(out, n + 1) \in Nat \ {0} /\ BeginIn(out, n + 1) <= a
        /\ PlainIn(out) => l = LineIn(out, n + 1, a)
        /\ PlainIn(out) /\ Ch(a) \notin {Newline, "end"} => GivenIn(out, n + 1) = l
    BY <1>1, <1>2, Here DEF SrcOK
  <1>4. Ch(a) \notin {Newline, "end"}
    <2>1. a \in 1 .. Len(src)
      BY <1>3
    <2>2. Ch(a) # "end"
      BY <1>3, <2>1, Characters
    <2> QED BY <1>2, <2>2 DEF Spaces
  <1>5. /\ IsSeq(o) /\ Len(o) = n + 1 /\ o[n + 1] = tok /\ \A j \in 1 .. n : o[j] = out[j]
        /\ EndIn(o, n + 1) = EndIn(out, n + 1) /\ GivenIn(o, n + 1) = GivenIn(out, n + 1)
        /\ RawsIn(o, n + 1) = RawsIn(out, n + 1) /\ BeginIn(o, n + 1) = BeginIn(out, n + 1)
        /\ \A i : LineIn(o, n + 1, i) = LineIn(out, n + 1, i)
        /\ PlainIn(o) => PlainIn(out) /\ ~HoldsIn(o, n + 1)
    <2>1. IsSeq(out)
      BY DEF LexInv
    <2>2. IsSeq(o) /\ Len(o) = n + 1 /\ o[n + 1] = tok /\ \A j \in 1 .. n : o[j] = out[j]
      BY <1>1, <2>1, Appended
    <2>3. /\ EndIn(o, n + 1) = EndIn(out, n + 1) /\ GivenIn(o, n + 1) = GivenIn(out, n + 1)
          /\ RawsIn(o, n + 1) = RawsIn(out, n + 1) /\ BeginIn(o, n + 1) = BeginIn(out, n + 1)
          /\ \A i : LineIn(o, n + 1, i) = LineIn(out, n + 1, i)
          /\ PlainIn(o) => PlainIn(out)
      <3>1. Len(o) \in Nat /\ Len(o) >= n /\ n = Len(out)
        BY <1>1, <1>3, <2>2
      <3> QED BY <1>3, <2>2, <3>1, OneMore
    <2>4. PlainIn(o) => ~HoldsIn(o, n + 1)
      <3>1. n + 1 \in TokensIn(o)
        BY <1>3, <2>2 DEF TokensIn
      <3> QED BY <3>1 DEF PlainIn
    <2> QED BY <2>2, <2>3, <2>4
  <1>6. /\ EndIn(o, n + 2) = e /\ GivenIn(o, n + 2) = GivenIn(o, n + 1)
        /\ RawsIn(o, n + 2) = RawsIn(o, n + 1) /\ BeginIn(o, n + 2) = BeginIn(o, n + 1)
    <2>1. n + 1 \in 1 .. Len(o) /\ Len(o) \in Nat /\ n + 1 + 1 = n + 2
      BY <1>3, <1>5
    <2> QED BY <1>5, <2>1, OneFurther
  <1>7. \A k \in n + 1 .. Len(o) : k = n + 1
    BY <1>3, <1>5
  <1>8. Pieced(o, n + 1)
    BY <1>1, <1>3, <1>5 DEF Pieced
  <1>9. PlainIn(out) => Lined(o, n + 1)
    BY <1>1, <1>3, <1>4, <1>5 DEF Lined
  <1>10. Behind(o, e, l)
    <2>1. Len(o) + 1 = n + 2
      BY <1>3, <1>5
    <2>2. Skipped(e, Min({e, Len(src) + 1}))
      <3>1. Min({e, Len(src) + 1}) \in Nat /\ Min({e, Len(src) + 1}) <= e
        BY <1>3, MinOfTwo
      <3> QED BY <3>1 DEF Skipped
    <2>3. ASSUME PlainIn(o) PROVE l = LineIn(o, n + 2, e) /\ GivenIn(o, n + 2) = l
      <3>1. PlainIn(out) /\ \A i \in a .. e - 1 : Ch(i) # Newline
        BY <1>1, <1>5, <2>3
      <3>2. LineIn(o, n + 2, e) = LineIn(out, n + 1, e)
        BY <1>5, <1>6 DEF LineIn
      <3>3. LineIn(out, n + 1, e) = LineIn(out, n + 1, a) + Cardinality(Newlines(a .. e - 1)) /\ LineIn(out, n + 1, a) \in Nat
        BY <1>1, <1>3, LineInGoesOn
      <3>4. Cardinality(Newlines(a .. e - 1)) = 0
        BY <1>3, <3>1, NewlineCount
      <3> QED BY <1>3, <1>4, <1>5, <1>6, <3>1, <3>2, <3>3, <3>4
    <2> QED BY <1>1, <1>3, <1>5, <1>6, <2>1, <2>2, <2>3 DEF Behind
  <1>11. /\ e \in Nat \ {0} /\ l \in Nat /\ out' = o /\ at' = e /\ lexline' = l
         /\ IsSeq(o) /\ Len(o) >= Len(out) /\ \A j \in 1 .. Len(out) : o[j] = out[j]
    BY <1>1, <1>3, <1>5
  <1>12. /\ \A k \in Len(out) + 1 .. Len(o) : Pieced(o, k)
         /\ PlainIn(out) => \A k \in Len(out) + 1 .. Len(o) : Lined(o, k)
    BY <1>1, <1>7, <1>8, <1>9
  <1> QED BY <1>10, <1>11, <1>12, StepKeeps

\* Spaces other than a newline, comments and a first line are passed over.
LEMMA PassedOver ==
    ASSUME LexInv, Scanning, src' = src, lexline' = lexline, out' = out,
           NEW e \in Nat, at' = e, at <= e, e <= Len(src) + 1,
           Ch(at) # Newline, \A i \in at .. e - 1 : Ch(i) # Newline,
           Opens(at) \/ \A i \in at .. e - 1 : Ch(i) \in Spaces
    PROVE  LexInv'
  <1>1. PICK o, n, a, l : o = out /\ n = Len(out) /\ a = at /\ l = lexline
    OBVIOUS
  <1>2. /\ SrcOK /\ n \in Nat /\ a <= Len(src) /\ Len(src) \in Nat /\ l \in Nat /\ a \in Nat \ {0}
        /\ EndIn(o, n + 1) \in Nat /\ EndIn(o, n + 1) <= a /\ Skipped(EndIn(o, n + 1), a)
        /\ BeginIn(o, n + 1) \in Nat \ {0} /\ BeginIn(o, n + 1) <= a
        /\ PlainIn(o) => l = LineIn(o, n + 1, a)
        /\ PlainIn(o) /\ Ch(a) \notin {Newline, "end"} => GivenIn(o, n + 1) = l
    BY <1>1, Here DEF SrcOK
  <1>3. Ch(a) \notin {Newline, "end"}
    <2>1. a \in 1 .. Len(src)
      BY <1>2
    <2> QED BY <1>1, <1>2, <2>1, Characters
  <1>4. Skipped(EndIn(o, n + 1), e)
    <2>1. PICK b \in Nat : b = EndIn(o, n + 1)
      BY <1>2
    <2>2. a \in Nat /\ b <= a /\ a <= e /\ Skipped(b, a)
      BY <1>1, <1>2, <2>1
    <2>3. \/ \A i \in a .. e - 1 : Ch(i) \in Spaces
          \/ Opens(a) /\ \A i \in a .. e - 1 : Ch(i) # Newline
      BY <1>1
    <2> QED BY <2>1, <2>2, <2>3, GapGoesOn
  <1>5. Min({e, Len(src) + 1}) = e
    BY <1>2, MinOfTwo
  <1>6. PlainIn(o) => l = LineIn(o, n + 1, e)
    <2>1. LineIn(o, n + 1, e) = LineIn(o, n + 1, a) + Cardinality(Newlines(a .. e - 1)) /\ LineIn(o, n + 1, a) \in Nat
      BY <1>1, <1>2, LineInGoesOn
    <2>2. Cardinality(Newlines(a .. e - 1)) = 0
      BY <1>1, <1>2, NewlineCount
    <2> QED BY <1>2, <2>1, <2>2
  <1>7. Behind(o, e, l)
    BY <1>1, <1>2, <1>3, <1>4, <1>5, <1>6 DEF Behind
  <1>8. /\ e \in Nat \ {0} /\ l \in Nat /\ out' = o /\ at' = e /\ lexline' = l
        /\ IsSeq(o) /\ Len(o) >= Len(out) /\ \A j \in 1 .. Len(out) : o[j] = out[j]
        /\ \A k \in Len(out) + 1 .. Len(o) : FALSE
    BY <1>1, <1>2 DEF LexInv
  <1> QED BY <1>7, <1>8, StepKeeps

\* A newline is announced.
LEMMA NewlineRead ==
    ASSUME LexInv, Scanning, src' = src, Ch(at) = Newline, lexline' = lexline + 1,
           out' = Append(out, Marker(lexline + 1)), at' = at + 1
    PROVE  LexInv'
  <1>1. PICK o, n, a, l, c, m :
             /\ o = Append(out, Marker(lexline + 1)) /\ n = Len(out)
             /\ a = at /\ l = lexline /\ c = at + 1 /\ m = lexline + 1
    OBVIOUS
  <1>2. /\ SrcOK /\ n \in Nat /\ a <= Len(src) /\ Len(src) \in Nat /\ l \in Nat /\ a \in Nat \ {0}
        /\ EndIn(out, n + 1) \in Nat /\ EndIn(out, n + 1) <= a /\ Skipped(EndIn(out, n + 1), a)
        /\ BeginIn(out, n + 1) \in Nat \ {0} /\ BeginIn(out, n + 1) <= a
        /\ PlainIn(out) => l = LineIn(out, n + 1, a)
    BY <1>1, Here DEF SrcOK
  <1>3. a \in Nat /\ c \in Nat /\ c = a + 1 /\ m = l + 1 /\ a <= c /\ c <= Len(src) + 1
    BY <1>1, <1>2
  <1>4. IsSeq(o) /\ Len(o) = n + 1 /\ o[n + 1] = Marker(m) /\ \A j \in 1 .. n : o[j] = out[j]
    <2>1. IsSeq(out)
      BY DEF LexInv
    <2> QED BY <1>1, <2>1, Appended
  <1>5. /\ EndIn(o, n + 1) = EndIn(out, n + 1)
        /\ RawsIn(o, n + 1) = RawsIn(out, n + 1) /\ BeginIn(o, n + 1) = BeginIn(out, n + 1)
        /\ PlainIn(o) => PlainIn(out)
    <2>1. Len(o) \in Nat /\ Len(o) >= n /\ n = Len(out)
      BY <1>1, <1>2, <1>4
    <2> QED BY <1>2, <1>4, <2>1, OneMore
  <1>6. o[n + 1].k = "line" /\ o[n + 1].n = m
    BY <1>4 DEF Marker
  <1>7. /\ EndIn(o, n + 2) = EndIn(o, n + 1) /\ GivenIn(o, n + 2) = m
        /\ RawsIn(o, n + 2) = RawsIn(o, n + 1) /\ BeginIn(o, n + 2) = BeginIn(o, n + 1)
    <2>1. n + 1 \in 1 .. Len(o) /\ Len(o) \in Nat /\ n + 1 + 1 = n + 2
      BY <1>2, <1>4
    <2> QED BY <1>6, <2>1, OneFurther
  <1>8. \A k \in n + 1 .. Len(o) : Pieced(o, k) /\ Lined(o, k)
    <2>1. \A k \in n + 1 .. Len(o) : k = n + 1
      BY <1>2, <1>4
    <2> QED BY <1>6, <2>1 DEF Pieced, Lined
  <1>9. \A i \in a .. c - 1 : i = a
    BY <1>3
  <1>10. Behind(o, c, m)
    <2>1. Skipped(EndIn(o, n + 2), c)
      <3>1. PICK b \in Nat : b = EndIn(out, n + 1)
        BY <1>2
      <3>2. a \in Nat /\ b <= a /\ a <= c /\ Skipped(b, a) /\ \A i \in a .. c - 1 : Ch(i) \in Spaces
        BY <1>1, <1>2, <1>9, <1>3, <3>1 DEF Spaces
      <3> QED BY <1>5, <1>7, <1>3, <3>1, <3>2, GapGoesOn
    <2>2. Min({c, Len(src) + 1}) = c
      BY <1>2, <1>3, MinOfTwo
    <2>3. PlainIn(out) => LineIn(o, n + 2, c) = m
      <3>1. LineIn(o, n + 2, c) = LineIn(out, n + 1, c)
        BY <1>5, <1>7 DEF LineIn
      <3>2. LineIn(out, n + 1, c) = LineIn(out, n + 1, a) + Cardinality(Newlines(a .. c - 1))
        <4>1. a \in Nat /\ c \in Nat /\ a <= c /\ BeginIn(out, n + 1) \in Nat /\ BeginIn(out, n + 1) <= a
          BY <1>2, <1>3
        <4> QED BY <4>1, LineInGoesOn
      <3>3. Newlines(a .. c - 1) = {a}
        BY <1>1, <1>9, <1>3 DEF Newlines
      <3> QED BY <1>2, <1>3, <3>1, <3>2, <3>3, FS_Singleton
    <2>4. Len(o) + 1 = n + 2
      BY <1>2, <1>4
    <2> QED BY <1>2, <1>5, <1>7, <1>3, <2>1, <2>2, <2>3, <2>4 DEF Behind
  <1>11. /\ c \in Nat \ {0} /\ m \in Nat /\ out' = o /\ at' = c /\ lexline' = m
         /\ IsSeq(o) /\ Len(o) >= Len(out) /\ \A j \in 1 .. Len(out) : o[j] = out[j]
    BY <1>1, <1>2, <1>4, <1>3
  <1>12. /\ \A k \in Len(out) + 1 .. Len(o) : Pieced(o, k)
         /\ PlainIn(out) => \A k \in Len(out) + 1 .. Len(o) : Lined(o, k)
    BY <1>1, <1>8
  <1> QED BY <1>10, <1>11, <1>12, StepKeeps

\* A # line is passed on as it is, and the lines begin again.
LEMMA HashPassed == ASSUME LexInv, HashLine PROVE LexInv'
  <1>1. PICK o, n, a, e : o = Append(out, Tok("raw", at, EndOfLine(at))) /\ n = Len(out) /\ a = at /\ e = EndOfLine(at)
    OBVIOUS
  <1>2. Token /\ Scanning /\ Ch(a) = "#" /\ src' = src /\ out' = o /\ at' = e /\ lexline' = 0
    BY <1>1 DEF HashLine, Token
  <1>3. /\ SrcOK /\ n \in Nat /\ a <= Len(src) /\ Len(src) \in Nat /\ a \in Nat \ {0}
        /\ EndIn(out, n + 1) \in Nat /\ EndIn(out, n + 1) <= a /\ Skipped(EndIn(out, n + 1), a)
    BY <1>1, <1>2, Here DEF SrcOK
  <1>4. e \in Nat /\ e > a /\ Ch(e) \in {Newline, "end"}
    <2>1. e \in a .. Len(src) + 1 /\ Ch(e) \in {Newline, "end"}
      BY <1>1, <1>3, LineEnds
    <2>2. e # a
      BY <1>2, <2>1 DEF Newline
    <2> QED BY <1>3, <2>1, <2>2
  <1>5. IsSeq(o) /\ Len(o) = n + 1 /\ o[n + 1] = Tok("raw", a, e) /\ \A j \in 1 .. n : o[j] = out[j]
    <2>1. IsSeq(out)
      BY DEF LexInv
    <2> QED BY <1>1, <2>1, Appended
  <1>6. EndIn(o, n + 1) = EndIn(out, n + 1)
    <2>1. Len(o) \in Nat /\ Len(o) >= n /\ n = Len(out)
      BY <1>1, <1>3, <1>5
    <2> QED BY <1>3, <1>5, <2>1, OneMore
  <1>7. o[n + 1].k = "raw" /\ o[n + 1].from = a /\ o[n + 1].to = e
    BY <1>5 DEF Tok
  <1>8. EndIn(o, n + 2) = e /\ RawsIn(o, n + 2) # {} /\ BeginIn(o, n + 2) = e
    <2>1. n + 1 \in 1 .. Len(o) /\ Len(o) \in Nat /\ n + 1 + 1 = n + 2
      BY <1>3, <1>5
    <2> QED BY <1>7, <2>1, OneFurther
  <1>9. \A k \in n + 1 .. Len(o) : Pieced(o, k) /\ Lined(o, k)
    <2>1. \A k \in n + 1 .. Len(o) : k = n + 1
      BY <1>3, <1>5
    <2> QED BY <1>3, <1>4, <1>6, <1>7, <2>1 DEF Pieced, Lined
  <1>10. Behind(o, e, 0)
    <2>1. Skipped(e, Min({e, Len(src) + 1}))
      <3>1. Min({e, Len(src) + 1}) \in Nat /\ Min({e, Len(src) + 1}) <= e
        BY <1>3, <1>4, MinOfTwo
      <3> QED BY <1>4, <3>1 DEF Skipped
    <2>2. LineIn(o, n + 2, e) = 0
      <3>1. Cardinality(Newlines(e .. e - 1)) = 0
        BY <1>4, NewlineCount
      <3> QED BY <1>8, <3>1 DEF LineIn
    <2>3. Len(o) + 1 = n + 2
      BY <1>3, <1>5
    <2> QED BY <1>3, <1>4, <1>8, <2>1, <2>2, <2>3 DEF Behind
  <1>11. /\ e \in Nat \ {0} /\ IsSeq(o) /\ Len(o) >= Len(out) /\ \A j \in 1 .. Len(out) : o[j] = out[j]
    BY <1>1, <1>3, <1>4, <1>5
  <1>12. /\ \A k \in Len(out) + 1 .. Len(o) : Pieced(o, k)
         /\ PlainIn(out) => \A k \in Len(out) + 1 .. Len(o) : Lined(o, k)
    BY <1>1, <1>9
  <1> QED BY <1>2, <1>10, <1>11, <1>12, StepKeeps

\* Where a run of characters ends: J are the places that do not belong to it.
LEMMA RunEnds ==
    ASSUME SrcOK, NEW i \in 1 .. Len(src) + 1, NEW J, J \subseteq i .. Len(src) + 1, Len(src) + 1 \in J,
           \A j \in i .. Len(src) + 1 : j \notin J => Ch(j) # Newline
    PROVE  /\ Min(J) \in i .. Len(src) + 1 /\ \A j \in i .. Min(J) - 1 : Ch(j) # Newline
           /\ i \notin J => Min(J) > i
  <1>1. i \in Nat /\ Len(src) + 1 \in Nat
    BY Characters
  <1>2. /\ Min(J) \in J /\ Min(J) \in i .. Len(src) + 1
        /\ \A j \in i .. Min(J) - 1 : j \notin J
    BY <1>1, FirstIn
  <1>3. \A j \in i .. Min(J) - 1 : j \in i .. Len(src) + 1
    BY <1>1, <1>2
  <1> QED BY <1>1, <1>2, <1>3

\* The classes of characters of which names and numbers are made
LEMMA Classes ==
    /\ \A c : IsDigit(c) => c \notin {Newline, "end"}
    /\ \A c : NamePart(c) => c \notin {Newline, "end"}
    /\ \A c : IsHex(c) => c \notin {Newline, "end"}
    /\ \A c : IsBin(c) => c \notin {Newline, "end"}
  <1>1. \A c : IsDigit(c) => c \notin {Newline, "end"}
    BY DEF IsDigit, Numerals, Newline
  <1>2. \A c : NamePart(c) => c \notin {Newline, "end"}
    BY <1>1 DEF NamePart, NameStart, Letters, Newline
  <1>3. \A c : IsHex(c) => c \notin {Newline, "end"}
    BY DEF IsHex, Hex, Newline
  <1>4. \A c : IsBin(c) => c \notin {Newline, "end"}
    BY DEF IsBin, Newline
  <1> QED BY <1>1, <1>2, <1>3, <1>4

\* A name ends in the source or at its end, and holds no newline.
LEMMA NameRun ==
    ASSUME SrcOK, NEW i \in 1 .. Len(src) + 1
    PROVE  /\ RunEnd(i, NamePart) \in i .. Len(src) + 1
           /\ \A j \in i .. RunEnd(i, NamePart) - 1 : Ch(j) # Newline
           /\ NamePart(Ch(i)) => RunEnd(i, NamePart) > i
  <1> DEFINE J == {j \in i .. Len(src) + 1 : ~NamePart(Ch(j))}
  <1>1. Ch(Len(src) + 1) = "end" /\ Len(src) \in Nat
    BY Characters
  <1>2. /\ J \subseteq i .. Len(src) + 1 /\ Len(src) + 1 \in J
        /\ \A j \in i .. Len(src) + 1 : j \notin J => Ch(j) # Newline
    BY <1>1, Classes
  <1>3. i \in J => ~NamePart(Ch(i))
    OBVIOUS
  <1>4. RunEnd(i, NamePart) = Min(J)
    BY DEF RunEnd
  <1> HIDE DEF J
  <1> QED BY <1>2, <1>3, <1>4, RunEnds

\* The same of a run of digits,
LEMMA DigitRun ==
    ASSUME SrcOK, NEW i \in 1 .. Len(src) + 1
    PROVE  /\ RunEnd(i, IsDigit) \in i .. Len(src) + 1
           /\ \A j \in i .. RunEnd(i, IsDigit) - 1 : Ch(j) # Newline
           /\ IsDigit(Ch(i)) => RunEnd(i, IsDigit) > i
  <1> DEFINE J == {j \in i .. Len(src) + 1 : ~IsDigit(Ch(j))}
  <1>1. Ch(Len(src) + 1) = "end" /\ Len(src) \in Nat
    BY Characters
  <1>2. /\ J \subseteq i .. Len(src) + 1 /\ Len(src) + 1 \in J
        /\ \A j \in i .. Len(src) + 1 : j \notin J => Ch(j) # Newline
    BY <1>1, Classes
  <1>3. i \in J => ~IsDigit(Ch(i))
    OBVIOUS
  <1>4. RunEnd(i, IsDigit) = Min(J)
    BY DEF RunEnd
  <1> HIDE DEF J
  <1> QED BY <1>2, <1>3, <1>4, RunEnds

\* of hexadecimal digits,
LEMMA HexRun ==
    ASSUME SrcOK, NEW i \in 1 .. Len(src) + 1
    PROVE  /\ RunEnd(i, IsHex) \in i .. Len(src) + 1
           /\ \A j \in i .. RunEnd(i, IsHex) - 1 : Ch(j) # Newline
  <1> DEFINE J == {j \in i .. Len(src) + 1 : ~IsHex(Ch(j))}
  <1>1. Ch(Len(src) + 1) = "end" /\ Len(src) \in Nat
    BY Characters
  <1>2. /\ J \subseteq i .. Len(src) + 1 /\ Len(src) + 1 \in J
        /\ \A j \in i .. Len(src) + 1 : j \notin J => Ch(j) # Newline
    BY <1>1, Classes
  <1>3. RunEnd(i, IsHex) = Min(J)
    BY DEF RunEnd
  <1> HIDE DEF J
  <1> QED BY <1>2, <1>3, RunEnds

\* and of binary ones.
LEMMA BinRun ==
    ASSUME SrcOK, NEW i \in 1 .. Len(src) + 1
    PROVE  /\ RunEnd(i, IsBin) \in i .. Len(src) + 1
           /\ \A j \in i .. RunEnd(i, IsBin) - 1 : Ch(j) # Newline
  <1> DEFINE J == {j \in i .. Len(src) + 1 : ~IsBin(Ch(j))}
  <1>1. Ch(Len(src) + 1) = "end" /\ Len(src) \in Nat
    BY Characters
  <1>2. /\ J \subseteq i .. Len(src) + 1 /\ Len(src) + 1 \in J
        /\ \A j \in i .. Len(src) + 1 : j \notin J => Ch(j) # Newline
    BY <1>1, Classes
  <1>3. RunEnd(i, IsBin) = Min(J)
    BY DEF RunEnd
  <1> HIDE DEF J
  <1> QED BY <1>2, <1>3, RunEnds

\* A character of a class is a character of the source.
LEMMA InSource ==
    ASSUME SrcOK, NEW i \in Int, Ch(i) # "end"
    PROVE  i \in 1 .. Len(src)
  BY Characters

\* The fields of a token
LEMMA TokFields ==
    ASSUME NEW k, NEW a, NEW b, NEW x
    PROVE  /\ Tok(k, a, b).k = k /\ Tok(k, a, b).from = a /\ Tok(k, a, b).to = b
           /\ NumTok(k, a, b, x).k = k /\ NumTok(k, a, b, x).from = a /\ NumTok(k, a, b, x).to = b
           /\ NumTok(k, a, b, x).text = x
  BY DEF Tok, NumTok

\* What Emit is asked to show
LEMMA Emitted ==
    ASSUME LexInv, Token, NEW tok, NEW e \in Nat, Emit(tok, e), e > at,
           tok.k \notin {"line", "raw"}, tok.from = at, tok.to = e,
           HoldsIn(Append(out, tok), Len(out) + 1) \/ \A i \in at .. e - 1 : Ch(i) # Newline
    PROVE  LexInv'
  <1>1. src' = src /\ lexline' = lexline /\ out' = Append(out, tok) /\ at' = e
    BY DEF Emit
  <1> QED BY <1>1, TokenPrinted

\* A name (scan_ident)
LEMMA IdentKeeps == ASSUME LexInv, Ident PROVE LexInv'
  <1>1. PICK e : e = RunEnd(at, NamePart)
    OBVIOUS
  <1>2. Token /\ Scanning /\ NameStart(Ch(at)) /\ Emit(Tok("ident", at, e), e)
    BY <1>1 DEF Ident, Token
  <1>3. SrcOK /\ at \in 1 .. Len(src) + 1 /\ at \in Nat /\ Len(src) \in Nat
    BY <1>2, Here DEF SrcOK
  <1>4. e \in Nat /\ e > at /\ \A i \in at .. e - 1 : Ch(i) # Newline
    <2>1. NamePart(Ch(at))
      BY <1>2 DEF NamePart
    <2>2. e \in at .. Len(src) + 1 /\ e > at /\ \A i \in at .. e - 1 : Ch(i) # Newline
      BY <1>1, <1>3, <2>1, NameRun
    <2> QED BY <1>3, <2>2
  <1>5. PICK tok : tok = Tok("ident", at, e)
    OBVIOUS
  <1>6. tok.k \notin {"line", "raw"} /\ tok.from = at /\ tok.to = e
    BY <1>5, TokFields
  <1> QED BY <1>2, <1>4, <1>5, <1>6, Emitted

\* A hexadecimal literal (scan_hex)
LEMMA HexKeeps == ASSUME LexInv, ScanHex PROVE LexInv'
  <1>1. PICK e : e = RunEnd(at + 2, IsHex)
    OBVIOUS
  <1>2. PICK x : Emit(NumTok("int", at, e, x), e)
    <2>1. Based(16, WordBits \div 4, IsHex)
      BY DEF ScanHex
    <2> QED BY <1>1, <2>1 DEF Based
  <1>3. Token /\ Scanning /\ Ch(at) = "0" /\ Ch(at + 1) \in {"x", "X"} /\ IsHex(Ch(at + 2))
    BY DEF ScanHex, HexStart, Token
  <1>4. SrcOK /\ at \in Nat /\ Len(src) \in Nat
    BY <1>3, Here DEF SrcOK
  <1>5. at + 2 \in 1 .. Len(src) + 1
    <2>1. at + 2 \in Int /\ Ch(at + 2) # "end"
      BY <1>3, <1>4, Classes
    <2> QED BY <1>4, <2>1, InSource
  <1>6. e \in at + 2 .. Len(src) + 1 /\ \A i \in at + 2 .. e - 1 : Ch(i) # Newline
    BY <1>1, <1>4, <1>5, HexRun
  <1>7. e \in Nat /\ e > at
    BY <1>4, <1>6
  <1>8. \A i \in at .. e - 1 : Ch(i) # Newline
    <2>1. \A i \in at .. e - 1 : i = at \/ i = at + 1 \/ i \in at + 2 .. e - 1
      BY <1>4, <1>7
    <2> QED BY <1>3, <1>6, <2>1 DEF Newline
  <1>9. PICK tok : tok = NumTok("int", at, e, x)
    OBVIOUS
  <1>10. tok.k \notin {"line", "raw"} /\ tok.from = at /\ tok.to = e
    BY <1>9, TokFields
  <1> QED BY <1>2, <1>3, <1>7, <1>8, <1>9, <1>10, Emitted

\* A binary literal (scan_bin)
LEMMA BinKeeps == ASSUME LexInv, ScanBin PROVE LexInv'
  <1>1. PICK e : e = RunEnd(at + 2, IsBin)
    OBVIOUS
  <1>2. PICK x : Emit(NumTok("int", at, e, x), e)
    <2>1. Based(2, WordBits, IsBin)
      BY DEF ScanBin
    <2> QED BY <1>1, <2>1 DEF Based
  <1>3. Token /\ Scanning /\ Ch(at) = "0" /\ Ch(at + 1) \in {"b", "B"} /\ IsBin(Ch(at + 2))
    BY DEF ScanBin, BinStart, Token
  <1>4. SrcOK /\ at \in Nat /\ Len(src) \in Nat
    BY <1>3, Here DEF SrcOK
  <1>5. at + 2 \in 1 .. Len(src) + 1
    <2>1. at + 2 \in Int /\ Ch(at + 2) # "end"
      BY <1>3, <1>4, Classes
    <2> QED BY <1>4, <2>1, InSource
  <1>6. e \in at + 2 .. Len(src) + 1 /\ \A i \in at + 2 .. e - 1 : Ch(i) # Newline
    BY <1>1, <1>4, <1>5, BinRun
  <1>7. e \in Nat /\ e > at
    BY <1>4, <1>6
  <1>8. \A i \in at .. e - 1 : Ch(i) # Newline
    <2>1. \A i \in at .. e - 1 : i = at \/ i = at + 1 \/ i \in at + 2 .. e - 1
      BY <1>4, <1>7
    <2> QED BY <1>3, <1>6, <2>1 DEF Newline
  <1>9. PICK tok : tok = NumTok("int", at, e, x)
    OBVIOUS
  <1>10. tok.k \notin {"line", "raw"} /\ tok.from = at /\ tok.to = e
    BY <1>9, TokFields
  <1> QED BY <1>2, <1>3, <1>7, <1>8, <1>9, <1>10, Emitted

\* A number: digits, a fraction and an exponent
LEMMA NumberKeeps == ASSUME LexInv, ScanNumber PROVE LexInv'
  <1>1. PICK e, d, f : e = RunEnd(at, IsDigit) /\ d = NumEnd(e) /\ f = ExpEnd(d)
    OBVIOUS
  <1>2. PICK k, x : k \in {"float", "int"} /\ Emit(NumTok(k, at, f, x), f)
    <2>1. Emit(NumTok(IF f > e THEN "float" ELSE "int", at, f, SubSeq(src, at, f - 1)), f)
      BY <1>1 DEF ScanNumber
    <2> QED BY <2>1
  <1>3. Token /\ Scanning /\ IsDigit(Ch(at))
    BY DEF ScanNumber, Token
  <1>4. SrcOK /\ at \in Nat /\ Len(src) \in Nat /\ at \in 1 .. Len(src) + 1
    BY <1>3, Here DEF SrcOK
  <1>5. e \in at .. Len(src) + 1 /\ e > at /\ \A i \in at .. e - 1 : Ch(i) # Newline
    BY <1>1, <1>3, <1>4, DigitRun
  <1>6. d \in e .. Len(src) + 1 /\ \A i \in e .. d - 1 : Ch(i) # Newline
    <2>1. CASE Ch(e) = "." /\ IsDigit(Ch(e + 1))
      <3>1. e \in Int /\ e + 1 \in Int /\ Ch(e + 1) # "end"
        BY <1>4, <1>5, <2>1, Classes
      <3>2. e + 1 \in 1 .. Len(src) + 1
        BY <1>4, <3>1, InSource
      <3>3. d = RunEnd(e + 1, IsDigit)
        BY <1>1, <2>1 DEF NumEnd
      <3>4. d \in e + 1 .. Len(src) + 1 /\ \A i \in e + 1 .. d - 1 : Ch(i) # Newline
        BY <1>4, <3>2, <3>3, DigitRun
      <3>5. \A i \in e .. d - 1 : i = e \/ i \in e + 1 .. d - 1
        BY <3>1, <3>4
      <3>6. d \in e .. Len(src) + 1
        BY <1>4, <3>1, <3>4
      <3> QED BY <2>1, <3>4, <3>5, <3>6 DEF Newline
    <2>2. CASE ~(Ch(e) = "." /\ IsDigit(Ch(e + 1)))
      <3>1. d = e
        BY <1>1, <2>2 DEF NumEnd
      <3> QED BY <1>4, <1>5, <3>1
    <2> QED BY <2>1, <2>2
  <1>7. f \in d .. Len(src) + 1 /\ \A i \in d .. f - 1 : Ch(i) # Newline
    <2>1. CASE Ch(d) \notin {"e", "E"}
      <3>1. f = d
        BY <1>1, <2>1 DEF ExpEnd
      <3> QED BY <1>4, <1>5, <1>6, <3>1
    <2>2. CASE Ch(d) \in {"e", "E"}
      <3>1. d \in Int /\ d \in 1 .. Len(src)
        <4>1. d \in Int /\ Ch(d) # "end"
          BY <1>4, <1>5, <1>6, <2>2
        <4> QED BY <1>4, <4>1, InSource
      <3>2. CASE Signed(src, d + 1)
        <4>1. Ch(d + 1) \in {"+", "-"}
          BY <3>2 DEF Signed, Ch
        <4>2. d + 1 \in Int /\ Ch(d + 1) # "end"
          BY <3>1, <4>1
        <4>3. d + 1 \in 1 .. Len(src)
          BY <1>4, <4>2, InSource
        <4>4. d + 2 \in 1 .. Len(src) + 1
          BY <1>4, <3>1, <4>3
        <4>5. f = RunEnd(d + 2, IsDigit)
          BY <1>1, <2>2, <3>2 DEF ExpEnd
        <4>6. f \in d + 2 .. Len(src) + 1 /\ \A i \in d + 2 .. f - 1 : Ch(i) # Newline
          BY <1>4, <4>4, <4>5, DigitRun
        <4>7. \A i \in d .. f - 1 : i = d \/ i = d + 1 \/ i \in d + 2 .. f - 1
          BY <3>1, <4>6
        <4>8. f \in d .. Len(src) + 1
          BY <1>4, <3>1, <4>6
        <4> QED BY <2>2, <4>1, <4>6, <4>7, <4>8 DEF Newline
      <3>3. CASE ~Signed(src, d + 1)
        <4>1. d + 1 \in 1 .. Len(src) + 1
          BY <1>4, <3>1
        <4>2. f = RunEnd(d + 1, IsDigit)
          BY <1>1, <2>2, <3>3 DEF ExpEnd
        <4>3. f \in d + 1 .. Len(src) + 1 /\ \A i \in d + 1 .. f - 1 : Ch(i) # Newline
          BY <1>4, <4>1, <4>2, DigitRun
        <4>4. \A i \in d .. f - 1 : i = d \/ i \in d + 1 .. f - 1
          BY <3>1, <4>3
        <4>5. f \in d .. Len(src) + 1
          BY <1>4, <3>1, <4>3
        <4> QED BY <2>2, <4>3, <4>4, <4>5 DEF Newline
      <3> QED BY <3>2, <3>3
    <2> QED BY <2>1, <2>2
  <1>8. f \in Nat /\ f > at
    BY <1>4, <1>5, <1>6, <1>7
  <1>9. \A i \in at .. f - 1 : Ch(i) # Newline
    <2>1. \A i \in at .. f - 1 : i \in at .. e - 1 \/ i \in e .. d - 1 \/ i \in d .. f - 1
      BY <1>4, <1>5, <1>6, <1>7
    <2> QED BY <1>5, <1>6, <1>7, <2>1
  <1>10. PICK tok : tok = NumTok(k, at, f, x)
    OBVIOUS
  <1>11. tok.k \notin {"line", "raw"} /\ tok.from = at /\ tok.to = f
    BY <1>2, <1>10, TokFields
  <1> QED BY <1>2, <1>3, <1>8, <1>9, <1>10, <1>11, Emitted

\* The beginning of a sequence
LEMMA Beginning ==
    ASSUME NEW S, NEW s \in Seq(S), NEW d \in Nat, d <= Len(s)
    PROVE  Len(SubSeq(s, 1, d)) = d /\ \A j \in 1 .. d : SubSeq(s, 1, d)[j] = s[j]
  OBVIOUS

\* A string: its text holds every newline that stands in it.
LEMMA StringKeeps == ASSUME LexInv, ScanString PROVE LexInv'
  <1>1. PICK b, e, x : b = Len(Body) /\ e = Min(Quotes \cup {b + 1}) /\ x = SubSeq(Body, 1, e - 1)
    OBVIOUS
  <1>2. Token /\ Scanning /\ Ch(at) = "\"" /\ Emit(NumTok("str", at, at + e + 1, x), at + e + 1)
    BY <1>1 DEF ScanString, StrStart, Token
  <1>3. SrcOK /\ at \in Nat \ {0} /\ Len(src) \in Nat /\ at <= Len(src)
    BY <1>2, Here DEF SrcOK
  <1>4. /\ b = Len(src) - at /\ b \in Nat /\ \E S : Body \in Seq(S)
        /\ \A j \in 1 .. b : Body[j] = src[at + j]
    BY <1>1, <1>3 DEF Body, SrcOK
  <1>5. Quotes \subseteq 1 .. b
    BY <1>1 DEF Quotes, Stops
  <1>6. e \in 1 .. b + 1 /\ (e \in Quotes \/ e = b + 1)
    <2> DEFINE Q == Quotes \cup {b + 1}
    <2>1. 1 \in Nat /\ b + 1 \in Nat /\ Q \subseteq 1 .. b + 1 /\ b + 1 \in Q
      <3>1. \A q \in 1 .. b : q \in 1 .. b + 1
        BY <1>4
      <3>2. b + 1 \in 1 .. b + 1 /\ b + 1 \in Nat
        BY <1>4
      <3> QED BY <1>5, <3>1, <3>2
    <2>2. Min(Q) \in Q /\ Min(Q) \in 1 .. b + 1
      <3> HIDE DEF Q
      <3> QED BY <2>1, FirstIn
    <2> QED BY <1>1, <2>2
  <1>7. Len(x) = e - 1 /\ \A j \in 1 .. e - 1 : x[j] = Body[j]
    <2>1. PICK S : Body \in Seq(S)
      BY <1>4
    <2>2. e - 1 \in Nat /\ e - 1 <= Len(Body)
      BY <1>1, <1>4, <1>6
    <2>3. PICK d : d = e - 1
      OBVIOUS
    <2>4. Len(SubSeq(Body, 1, d)) = d /\ \A j \in 1 .. d : SubSeq(Body, 1, d)[j] = Body[j]
      BY <2>1, <2>2, <2>3, Beginning
    <2> QED BY <1>1, <2>3, <2>4, Zenon
  <1>8. \A j \in 1 .. e - 1 : Ch(at + j) = x[j]
    <2> SUFFICES ASSUME NEW j \in 1 .. e - 1 PROVE Ch(at + j) = x[j]
      OBVIOUS
    <2>1. j \in 1 .. b /\ at + j \in 1 .. Len(src)
      BY <1>3, <1>4, <1>6
    <2>2. Ch(at + j) = src[at + j]
      BY <1>3, <2>1, Characters
    <2> QED BY <1>4, <1>7, <2>1, <2>2
  <1>9. Ch(at + e) # Newline
    <2>1. CASE e \in Quotes
      <3>1. Body[e] = "\"" /\ e \in 1 .. b /\ at + e \in 1 .. Len(src)
        <4>1. Body[e] = "\""
          BY <2>1 DEF Quotes
        <4>2. e \in 1 .. b
          BY <1>5, <2>1
        <4>3. b = Len(src) - at
          BY <1>4
        <4>4. at + e \in 1 .. Len(src)
          BY <1>3, <4>2, <4>3
        <4> QED BY <4>1, <4>2, <4>4
      <3>2. Ch(at + e) = src[at + e]
        BY <1>3, <3>1, Characters
      <3>3. Ch(at + e) = "\""
        BY <1>4, <3>1, <3>2
      <3> QED BY <3>3 DEF Newline
    <2>2. CASE e = b + 1
      <3>1. at + e \in Int /\ at + e \notin 1 .. Len(src)
        BY <1>3, <1>4, <2>2
      <3>2. Ch(at + e) = "end"
        BY <1>3, <3>1, Characters
      <3> QED BY <3>2 DEF Newline
    <2> QED BY <1>6, <2>1, <2>2
  <1>10. PICK f, tok, n : f = at + e + 1 /\ tok = NumTok("str", at, f, x) /\ n = Len(out)
    OBVIOUS
  <1>11. f \in Nat /\ f > at
    BY <1>3, <1>6, <1>10
  <1>12. tok.k = "str" /\ tok.from = at /\ tok.to = f /\ tok.text = x
    BY <1>10, TokFields
  <1>13. HoldsIn(Append(out, tok), Len(out) + 1) \/ \A i \in at .. f - 1 : Ch(i) # Newline
    <2>1. Append(out, tok)[Len(out) + 1] = tok
      <3>1. IsSeq(out)
        BY DEF LexInv
      <3> QED BY <3>1, Appended
    <2>2. HoldsIn(Append(out, tok), Len(out) + 1) <=> \E i \in 1 .. Len(x) : x[i] = Newline
      BY <1>12, <2>1 DEF HoldsIn
    <2>3. ASSUME \A i \in 1 .. e - 1 : x[i] # Newline, NEW i \in at .. f - 1 PROVE Ch(i) # Newline
      <3>1. PICK j \in 0 .. e : i = at + j
        <4>1. i - at \in 0 .. e /\ i = at + (i - at)
          BY <1>3, <1>6, <1>10
        <4> QED BY <4>1
      <3>2. CASE j = 0
        <4>1. i = at
          BY <1>3, <3>1, <3>2
        <4> QED BY <1>2, <4>1 DEF Newline
      <3>3. CASE j = e
        BY <1>9, <3>1, <3>3
      <3>4. CASE j \in 1 .. e - 1
        BY <1>8, <2>3, <3>1, <3>4
      <3> QED BY <1>6, <3>1, <3>2, <3>3, <3>4
    <2> QED BY <1>7, <2>2, <2>3
  <1> QED BY <1>2, <1>10, <1>11, <1>12, <1>13, Emitted

\* An operator (scan_op)
LEMMA OpKeeps == ASSUME LexInv, ScanOp PROVE LexInv'
  <1>1. PICK n : n = IF <<Ch(at), Ch(at + 1)>> \in TwoOps THEN 2 ELSE 1
    OBVIOUS
  <1>2. Token /\ Scanning /\ Ch(at) \notin Spaces /\ Emit(Tok("op", at, at + n), at + n)
    BY <1>1 DEF ScanOp, Token
  <1>3. SrcOK /\ at \in Nat \ {0}
    BY <1>2, Here DEF SrcOK
  <1>4. n = 1 \/ (n = 2 /\ Ch(at + 1) # Newline)
    BY <1>1 DEF TwoOps, Newline
  <1>5. Ch(at) # Newline
    BY <1>2 DEF Spaces
  <1>6. PICK e, tok : e = at + n /\ tok = Tok("op", at, e) /\ Emit(tok, e)
    BY <1>2
  <1>7. e \in Nat /\ e > at
    BY <1>3, <1>4, <1>6
  <1>8. tok.k \notin {"line", "raw"} /\ tok.from = at /\ tok.to = e
    BY <1>6, TokFields
  <1>9. \A i \in at .. e - 1 : Ch(i) # Newline
    <2>1. \A i \in at .. e - 1 : i = at \/ (n = 2 /\ i = at + 1)
      BY <1>3, <1>4, <1>6
    <2> QED BY <1>4, <1>5, <2>1
  <1> QED BY <1>2, <1>6, <1>7, <1>8, <1>9, Emitted

\* A space, or a newline and its marker (eat_space, bump_line)
LEMMA SpaceKeeps == ASSUME LexInv, Space PROVE LexInv'
  <1>1. Scanning /\ Ch(at) \in Spaces /\ src' = src /\ at' = at + 1 /\ EatSpaces({at})
    BY DEF Space
  <1>2. SrcOK /\ at \in Nat \ {0} /\ at <= Len(src) /\ Len(src) \in Nat /\ lexline \in Nat
    BY <1>1, Here DEF SrcOK
  <1>3. CASE Ch(at) = Newline
    <2>1. out' = Append(out, Marker(lexline + 1))
      BY <1>3 DEF Space
    <2>2. Newlines({at}) = {at}
      BY <1>3 DEF Newlines
    <2>3. Cardinality({at}) = 1
      BY FS_Singleton
    <2>4. lexline' = lexline + Cardinality(Newlines({at}))
      BY <1>1 DEF EatSpaces
    <2>5. lexline' = lexline + 1
      BY <2>2, <2>3, <2>4
    <2> QED BY <1>1, <1>3, <2>1, <2>5, NewlineRead
  <1>4. CASE Ch(at) # Newline
    <2>1. out' = out
      BY <1>4 DEF Space
    <2>2. Newlines({at}) = {}
      BY <1>4 DEF Newlines
    <2>3. Cardinality({}) = 0
      BY FS_EmptySet
    <2>4. lexline' = lexline + Cardinality(Newlines({at}))
      BY <1>1 DEF EatSpaces
    <2>5. lexline' = lexline
      <3>1. lexline' = lexline + 0
        BY <2>2, <2>3, <2>4, Zenon
      <3> QED BY <1>2, <3>1
    <2>6. PICK e : e = at + 1
      OBVIOUS
    <2>7. e \in Nat /\ at <= e /\ e <= Len(src) + 1 /\ \A i \in at .. e - 1 : i = at
      BY <1>2, <2>6
    <2>8. at' = e
      BY <1>1, <2>6
    <2>9. \A i \in at .. e - 1 : Ch(i) # Newline /\ Ch(i) \in Spaces
      BY <1>1, <1>4, <2>7
    <2> QED BY <1>1, <1>4, <2>1, <2>5, <2>7, <2>8, <2>9, PassedOver
  <1> QED BY <1>3, <1>4

\* A comment up to its newline (scan_word)
LEMMA CommentKeeps == ASSUME LexInv, LineComment PROVE LexInv'
  <1>1. PICK e : e = EndOfLine(at)
    OBVIOUS
  <1>2. /\ Scanning /\ Ch(at) = "/" /\ Ch(at + 1) = "/" /\ src' = src /\ lexline' = lexline
        /\ out' = out /\ at' = e
    BY <1>1 DEF LineComment, Token
  <1>3. SrcOK /\ at \in Nat /\ at <= Len(src) /\ Len(src) \in Nat
    BY <1>2, Here DEF SrcOK
  <1>4. e \in at .. Len(src) + 1 /\ \A i \in at .. e - 1 : Ch(i) # Newline
    BY <1>1, <1>3, LineEnds
  <1>5. e \in Nat /\ at <= e /\ e <= Len(src) + 1
    BY <1>3, <1>4
  <1>6. Opens(at) /\ Ch(at) # Newline
    BY <1>2 DEF Opens, Newline
  <1> QED BY <1>2, <1>4, <1>5, <1>6, PassedOver

\* A first line that is skipped, or one that is refused later (scan_shebang)
LEMMA BangKeeps == ASSUME LexInv, Bang PROVE LexInv'
  <1>1. PICK e, tok : e = EndOfLine(at) /\ tok = Tok("op", at, e)
    OBVIOUS
  <1>2. /\ Token /\ Scanning /\ Ch(at) = "#" /\ Ch(at + 1) = "!" /\ src' = src /\ lexline' = lexline
        /\ out' = out \/ out' = Append(out, tok)
        /\ at' = e
    BY <1>1 DEF Bang, Token
  <1>3. SrcOK /\ at \in Nat /\ at <= Len(src) /\ Len(src) \in Nat
    BY <1>2, Here DEF SrcOK
  <1>4. e \in at .. Len(src) + 1 /\ Ch(e) \in {Newline, "end"} /\ \A i \in at .. e - 1 : Ch(i) # Newline
    BY <1>1, <1>3, LineEnds
  <1>5. Opens(at) /\ Ch(at) # Newline
    BY <1>2 DEF Opens, Newline
  <1>6. e # at
    BY <1>2, <1>4 DEF Newline
  <1>7. e \in Nat /\ at <= e /\ e > at /\ e <= Len(src) + 1
    BY <1>3, <1>4, <1>6
  <1>8. CASE out' = out
    BY <1>2, <1>4, <1>5, <1>7, <1>8, PassedOver
  <1>9. CASE out' = Append(out, tok)
    <2>1. tok.k # "line" /\ tok.k # "raw" /\ tok.from = at /\ tok.to = e
      BY <1>1, TokFields
    <2> QED BY <1>2, <1>4, <1>7, <1>9, <2>1, TokenPrinted
  <1> QED BY <1>2, <1>8, <1>9

\* A trap ends the scan where it is.
LEMMA SameKeeps ==
    ASSUME LexInv, UNCHANGED <<src, at, lexline, out>> PROVE LexInv'
  <1>1. PICK o, e, l, m : o = out /\ e = at /\ l = lexline /\ m = Len(out) + 1
    OBVIOUS
  <1>2. Behind(o, e, l)
    <2>1. /\ EndBefore(m) = EndIn(out, m) /\ FileBegin(m) = BeginIn(out, m) /\ LineGiven(m) = GivenIn(out, m)
          /\ RawsBefore(m) = RawsIn(out, m)
      BY OutputOnly
    <2>2. LineAt(m, at) = LineIn(out, m, at)
      BY <2>1 DEF LineAt, LineIn
    <2>3. PlainSoFar <=> PlainIn(out)
      BY DEF PlainSoFar, PlainIn, HoldsNewline, HoldsIn, TokenAt, TokensIn
    <2> QED BY <1>1, <2>1, <2>2, <2>3 DEF LexInv, CursorOK, NothingLost, Behind
  <1>3. /\ e \in Nat \ {0} /\ l \in Nat /\ out' = o /\ at' = e /\ lexline' = l /\ src' = src
        /\ IsSeq(o) /\ Len(o) >= Len(out) /\ \A j \in 1 .. Len(out) : o[j] = out[j]
        /\ \A k \in Len(out) + 1 .. Len(o) : FALSE
    <2>1. IsSeq(out) /\ at \in Nat \ {0} /\ lexline \in Nat
      BY DEF LexInv, CursorOK
    <2>2. Len(out) \in Nat
      BY <2>1 DEF IsSeq
    <2> QED BY <1>1, <2>1, <2>2
  <1> QED BY <1>2, <1>3, StepKeeps

\* Two sequences, one behind the other
LEMMA Joined ==
    ASSUME NEW T, NEW p \in Seq(T), NEW q \in Seq(T)
    PROVE  /\ p \o q \in Seq(T) /\ Len(p \o q) = Len(p) + Len(q)
           /\ \A j \in 1 .. Len(p) : (p \o q)[j] = p[j]
           /\ \A j \in Len(p) + 1 .. Len(p) + Len(q) : (p \o q)[j] = q[j - Len(p)]
  OBVIOUS

\* A block comment: one token, and a marker for each newline in it.
LEMMA BlockKeeps == ASSUME LexInv, BlockComment PROVE LexInv'
  <1>1. PICK b, a, l, n, c, e :
             /\ b = BlockEnd /\ a = at /\ l = lexline /\ n = Len(out)
             /\ c = Cardinality(Newlines(at + 2 .. b - 1)) /\ e = b + 2
    OBVIOUS
  <1>2. PICK p, q, o : p = Append(out, Tok("op", a, e)) /\ q = [k \in 1 .. c |-> Marker(l + k)] /\ o = p \o q
    OBVIOUS
  <1>3. /\ Token /\ Scanning /\ Ch(a) = "/" /\ Ch(a + 1) = "*"
        /\ src' = src /\ out' = o /\ at' = e /\ lexline' = l + c
    BY <1>1, <1>2 DEF BlockComment, Token, EatSpaces
  <1>4. /\ SrcOK /\ n \in Nat /\ a <= Len(src) /\ Len(src) \in Nat /\ l \in Nat /\ a \in Nat \ {0}
        /\ EndIn(out, n + 1) \in Nat /\ EndIn(out, n + 1) <= a /\ Skipped(EndIn(out, n + 1), a)
        /\ BeginIn(out, n + 1) \in Nat \ {0} /\ BeginIn(out, n + 1) <= a
        /\ PlainIn(out) => l = LineIn(out, n + 1, a)
        /\ PlainIn(out) /\ Ch(a) \notin {Newline, "end"} => GivenIn(out, n + 1) = l
    BY <1>1, <1>3, Here DEF SrcOK
  <1>5. Ch(a) \notin {Newline, "end"} /\ Ch(a + 1) \notin {Newline, "end"}
    BY <1>3 DEF Newline
  <1>6. /\ b \in a + 2 .. Len(src) + 1 /\ Ch(b) # Newline /\ Ch(b + 1) # Newline
    <2> DEFINE J == {j \in a + 2 .. Len(src) + 1 : j = Len(src) + 1 \/ (Ch(j) = "*" /\ Ch(j + 1) = "/")}
    <2>1. a + 1 \in 1 .. Len(src)
      <3>1. a + 1 \in Int
        BY <1>4
      <3> QED BY <1>4, <1>5, <3>1, InSource
    <2>2. a + 2 \in Nat /\ Len(src) + 1 \in Nat /\ J \subseteq a + 2 .. Len(src) + 1 /\ Len(src) + 1 \in J
      BY <1>4, <2>1
    <2>3. b = Min(J)
      BY <1>1 DEF BlockEnd
    <2>4. Min(J) \in J /\ Min(J) \in a + 2 .. Len(src) + 1
      <3> HIDE DEF J
      <3> QED BY <2>2, FirstIn
    <2>5. b = Len(src) + 1 \/ (Ch(b) = "*" /\ Ch(b + 1) = "/")
      BY <2>3, <2>4
    <2>6. CASE b = Len(src) + 1
      <3>1. b \in Int /\ b + 1 \in Int /\ b \notin 1 .. Len(src) /\ b + 1 \notin 1 .. Len(src)
        BY <1>4, <2>6
      <3>2. Ch(b) = "end" /\ Ch(b + 1) = "end"
        BY <1>4, <3>1, Characters
      <3> QED BY <2>3, <2>4, <3>2 DEF Newline
    <2>7. CASE Ch(b) = "*" /\ Ch(b + 1) = "/"
      BY <2>3, <2>4, <2>7 DEF Newline
    <2> QED BY <2>5, <2>6, <2>7
  <1>7. b \in Nat /\ e \in Nat /\ e > a /\ a + 2 <= b /\ b <= e
    BY <1>1, <1>4, <1>6
  <1>8. c \in Nat
    BY <1>1, <1>4, <1>7, NewlineCount
  <1>9. Cardinality(Newlines(a .. e - 1)) = c
    <2>1. PICK d \in Nat : d = a + 2
      BY <1>4
    <2>2. a \in Nat /\ a <= d /\ d <= b /\ a <= b
      BY <1>4, <1>7, <2>1
    <2>3. /\ Cardinality(Newlines(a .. e - 1)) = Cardinality(Newlines(a .. b - 1)) + Cardinality(Newlines(b .. e - 1))
          /\ Cardinality(Newlines(a .. b - 1)) = Cardinality(Newlines(a .. d - 1)) + Cardinality(Newlines(d .. b - 1))
      BY <1>7, <2>2, NewlinesAdd
    <2>4. \A i \in a .. d - 1 : i = a \/ i = a + 1
      BY <1>4, <2>1
    <2>5. \A i \in b .. e - 1 : i = b \/ i = b + 1
      BY <1>1, <1>7
    <2>6. Cardinality(Newlines(a .. d - 1)) = 0 /\ Cardinality(Newlines(b .. e - 1)) = 0
      <3>1. (\A i \in a .. d - 1 : Ch(i) # Newline) /\ (\A i \in b .. e - 1 : Ch(i) # Newline)
        BY <1>5, <1>6, <2>4, <2>5
      <3> QED BY <1>7, <2>2, <3>1, NewlineCount
    <2>7. Cardinality(Newlines(d .. b - 1)) = c
      BY <1>1, <2>1
    <2> QED BY <1>8, <2>3, <2>6, <2>7
  <1>10. /\ IsSeq(o) /\ Len(o) = n + 1 + c /\ o[n + 1] = Tok("op", a, e)
         /\ \A j \in 1 .. n : o[j] = out[j]
         /\ \A j \in n + 2 .. n + 1 + c : o[j] = Marker(l + (j - (n + 1)))
    <2>1. PICK S : out \in Seq(S)
      BY DEF LexInv, IsSeq
    <2>2. PICK T : T = S \cup {Tok("op", a, e)} \cup {Marker(l + k) : k \in 1 .. c}
      OBVIOUS
    <2>3. /\ p \in Seq(T) /\ Len(p) = n + 1 /\ p[n + 1] = Tok("op", a, e)
          /\ \A j \in 1 .. n : p[j] = out[j]
      BY <1>1, <1>2, <2>1, <2>2
    <2>4. q \in Seq(T) /\ Len(q) = c /\ \A j \in 1 .. c : q[j] = Marker(l + j)
      BY <1>2, <1>8, <2>2
    <2>5. o \in Seq(T) /\ Len(o) = n + 1 + c
      <3>1. o \in Seq(T) /\ Len(o) = Len(p) + Len(q)
        BY <1>2, <2>3, <2>4, Joined, Zenon
      <3> QED BY <2>3, <2>4, <3>1
    <2>6. \A j \in 1 .. Len(p) : o[j] = p[j]
      BY <1>2, <2>3, <2>4
    <2>7. \A j \in n + 2 .. n + 1 + c : o[j] = q[j - (n + 1)]
      <3>1. \A j \in Len(p) + 1 .. Len(p) + Len(q) : o[j] = q[j - Len(p)]
        <4>1. \A j \in Len(p) + 1 .. Len(p) + Len(q) : (p \o q)[j] = q[j - Len(p)]
          BY <2>3, <2>4, Joined
        <4> QED BY <1>2, <4>1, Zenon
      <3>2. n + 1 + 1 = n + 2
        BY <1>4
      <3> QED BY <2>3, <2>4, <3>1, <3>2
    <2>8. \A j \in n + 2 .. n + 1 + c : j - (n + 1) \in 1 .. c
      BY <1>4, <1>8
    <2>9. IsSeq(o)
      BY <2>5 DEF IsSeq
    <2>10. o[n + 1] = Tok("op", a, e) /\ \A j \in 1 .. n : o[j] = out[j]
      BY <1>4, <2>3, <2>6
    <2> QED BY <2>4, <2>5, <2>7, <2>8, <2>9, <2>10
  <1>11. /\ o[n + 1].k = "op" /\ o[n + 1].from = a /\ o[n + 1].to = e
         /\ \A j \in n + 2 .. n + 1 + c : o[j].k = "line" /\ o[j].n = l + (j - (n + 1))
    <2>1. o[n + 1].k = "op" /\ o[n + 1].from = a /\ o[n + 1].to = e
      BY <1>10 DEF Tok
    <2>2. \A x : Marker(x).k = "line" /\ Marker(x).n = x
      BY DEF Marker
    <2>3. \A j \in n + 2 .. n + 1 + c : o[j] = Marker(l + (j - (n + 1)))
      BY <1>10
    <2> HIDE DEF Marker
    <2>4. ASSUME NEW j \in n + 2 .. n + 1 + c PROVE o[j].k = "line" /\ o[j].n = l + (j - (n + 1))
      <3>1. PICK x : x = l + (j - (n + 1))
        OBVIOUS
      <3>2. o[j] = Marker(x)
        BY <2>3, <3>1
      <3> QED BY <2>2, <3>1, <3>2
    <2> QED BY <2>1, <2>4
  <1>12. /\ EndIn(o, n + 1) = EndIn(out, n + 1) /\ GivenIn(o, n + 1) = GivenIn(out, n + 1)
         /\ RawsIn(o, n + 1) = RawsIn(out, n + 1) /\ BeginIn(o, n + 1) = BeginIn(out, n + 1)
         /\ \A i : LineIn(o, n + 1, i) = LineIn(out, n + 1, i)
         /\ PlainIn(o) => PlainIn(out)
    <2>1. Len(o) \in Nat /\ Len(o) >= n /\ n = Len(out)
      BY <1>1, <1>4, <1>8, <1>10
    <2> QED BY <1>4, <1>10, <2>1, OneMore
  <1>13. PICK m \in Nat : m = n + 1 + c + 1 /\ m = Len(o) + 1
    BY <1>4, <1>8, <1>10
  <1>14. EndIn(o, m) = e
    <2>1. n + 1 \in PiecesIn(o, m) /\ PiecesIn(o, m) \subseteq Int /\ \A j \in PiecesIn(o, m) : j <= n + 1
      <3>1. \A j \in 1 .. Len(o) : j <= n + 1 \/ j \in n + 2 .. n + 1 + c
        BY <1>4, <1>8, <1>10
      <3>2. n + 1 \in 1 .. Len(o) /\ n + 1 < m
        BY <1>4, <1>8, <1>10, <1>13
      <3> QED BY <1>11, <3>1, <3>2 DEF PiecesIn
    <2>2. Max(PiecesIn(o, m)) = n + 1
      <3>1. PICK g : g = n + 1
        OBVIOUS
      <3> QED BY <2>1, <3>1, GreatestIs
    <2> QED BY <1>11, <2>1, <2>2 DEF EndIn
  <1>15. RawsIn(o, m) = RawsIn(out, n + 1) /\ BeginIn(o, m) = BeginIn(out, n + 1)
    <2>1. RawsIn(o, m) = RawsIn(o, n + 1)
      <3>1. \A j \in 1 .. Len(o) : j < n + 1 \/ j = n + 1 \/ j \in n + 2 .. n + 1 + c
        BY <1>4, <1>8, <1>10
      <3>2. \A j \in 1 .. Len(o) : j < m
        BY <1>13
      <3> QED BY <1>11, <3>1, <3>2 DEF RawsIn
    <2> QED BY <1>12, <2>1 DEF BeginIn
  <1>16. PlainIn(out) => GivenIn(o, m) = l + c
    <2>1. CASE c = 0
      <3>1. n + 1 \in 1 .. Len(o) /\ Len(o) \in Nat /\ m = n + 1 + 1
        BY <1>4, <1>10, <1>13, <2>1
      <3>2. GivenIn(o, m) = GivenIn(o, n + 1)
        BY <1>11, <3>1, OneFurther
      <3> QED BY <1>4, <1>5, <1>12, <2>1, <3>2
    <2>2. CASE c > 0
      <3>1. PICK g : g = n + 1 + c
        OBVIOUS
      <3>2. g \in 1 .. Len(o) /\ Len(o) \in Nat /\ m = g + 1 /\ g \in n + 2 .. n + 1 + c /\ g - (n + 1) = c
        BY <1>4, <1>8, <1>10, <1>13, <2>2, <3>1
      <3>3. o[g].k = "line" /\ o[g].n = l + c
        BY <1>11, <3>2
      <3> QED BY <3>2, <3>3, OneFurther
    <2> QED BY <1>8, <2>1, <2>2
  <1>17. Behind(o, e, l + c)
    <2>1. Skipped(e, Min({e, Len(src) + 1}))
      <3>1. Min({e, Len(src) + 1}) \in Nat /\ Min({e, Len(src) + 1}) <= e
        BY <1>4, <1>7, MinOfTwo
      <3> QED BY <1>7, <3>1 DEF Skipped
    <2>2. PlainIn(out) => LineIn(o, m, e) = l + c
      <3>1. LineIn(o, m, e) = LineIn(out, n + 1, e)
        BY <1>15 DEF LineIn
      <3>2. a \in Nat /\ a <= e /\ BeginIn(out, n + 1) \in Nat /\ BeginIn(out, n + 1) <= a
        BY <1>4, <1>7
      <3>3. LineIn(out, n + 1, e) = LineIn(out, n + 1, a) + Cardinality(Newlines(a .. e - 1))
        BY <1>7, <3>2, LineInGoesOn
      <3> QED BY <1>4, <1>9, <3>1, <3>3
    <2>3. BeginIn(o, m) \in Nat \ {0} /\ BeginIn(o, m) <= e
      BY <1>4, <1>7, <1>15
    <2> QED BY <1>7, <1>12, <1>13, <1>14, <1>16, <2>1, <2>2, <2>3 DEF Behind
  <1>18. \A k \in n + 1 .. Len(o) : Pieced(o, k) /\ (PlainIn(out) => Lined(o, k))
    <2>1. \A k \in n + 1 .. Len(o) : k = n + 1 \/ k \in n + 2 .. n + 1 + c
      BY <1>4, <1>8, <1>10
    <2>2. Pieced(o, n + 1)
      BY <1>4, <1>7, <1>11, <1>12 DEF Pieced
    <2>3. PlainIn(out) => Lined(o, n + 1)
      BY <1>4, <1>5, <1>11, <1>12 DEF Lined
    <2>4. \A k \in n + 2 .. n + 1 + c : Pieced(o, k) /\ Lined(o, k)
      BY <1>11 DEF Pieced, Lined
    <2> QED BY <2>1, <2>2, <2>3, <2>4
  <1>19. PICK g : g = l + c
    OBVIOUS
  <1>20. /\ e \in Nat \ {0} /\ g \in Nat /\ IsSeq(o) /\ Len(o) >= Len(out) /\ \A j \in 1 .. Len(out) : o[j] = out[j]
    <2>1. e \in Nat \ {0} /\ g \in Nat
      BY <1>4, <1>7, <1>8, <1>19
    <2>2. Len(o) >= n
      BY <1>4, <1>8, <1>10
    <2> QED BY <1>1, <1>10, <2>1, <2>2
  <1>21. /\ \A k \in Len(out) + 1 .. Len(o) : Pieced(o, k)
         /\ PlainIn(out) => \A k \in Len(out) + 1 .. Len(o) : Lined(o, k)
    BY <1>1, <1>18
  <1>22. lexline' = g /\ Behind(o, e, g)
    BY <1>3, <1>17, <1>19
  <1> QED BY <1>3, <1>20, <1>21, <1>22, StepKeeps

\* The invariant holds in front of the source,
LEMMA LexStarts == ASSUME LexInit PROVE LexInv
  <1>1. src \in Sources /\ at = 1 /\ lexline = 1 /\ out = <<>>
    BY DEF LexInit
  <1>2. src \in Seq(STRING \ {"end"})
    BY <1>1, SourcesAssumption
  <1>3. IsSeq(out) /\ Len(out) = 0
    <2>1. out \in Seq({})
      BY <1>1
    <2> QED BY <1>1, <2>1 DEF IsSeq
  <1>4. Pieces = {} /\ TokenAt = {} /\ Raws = {}
    BY <1>3 DEF Pieces, TokenAt, Raws
  <1>5. EndBefore(Len(out) + 1) = 1
    BY <1>4 DEF EndBefore
  <1>6. RawsBefore(Len(out) + 1) = {} /\ FileBegin(Len(out) + 1) = 1
    BY <1>4 DEF RawsBefore, FileBegin
  <1>7. LineGiven(Len(out) + 1) = 1
    BY <1>3 DEF LineGiven
  <1>8. LineAt(Len(out) + 1, at) = 1
    <2>1. LineAt(Len(out) + 1, at) = 1 + Cardinality(Newlines(1 .. 1 - 1))
      BY <1>1, <1>6 DEF LineAt
    <2>2. Cardinality(Newlines(1 .. 1 - 1)) = 0
      BY NewlineCount
    <2> QED BY <2>1, <2>2
  <1>9. CursorOK
    BY <1>1, <1>2, <1>5, <1>6, <1>7, <1>8 DEF CursorOK
  <1>10. NothingLost
    <2>1. Len(src) \in Nat
      BY <1>2
    <2>2. Min({at, Len(src) + 1}) = 1
      BY <1>1, <2>1, MinOfTwo
    <2>3. Skipped(1, 1)
      BY DEF Skipped
    <2> QED BY <1>1, <1>4, <1>5, <2>2, <2>3 DEF NothingLost
  <1>11. LinesRight
    BY <1>4 DEF LinesRight
  <1> QED BY <1>3, <1>9, <1>10, <1>11 DEF LexInv

\* and every step keeps it.
LEMMA LexInductive == ASSUME LexInv, [LexNext]_lexvars PROVE LexInv'
  <1>1. CASE Space
    BY <1>1, SpaceKeeps
  <1>2. CASE LineComment
    BY <1>2, CommentKeeps
  <1>3. CASE BlockComment
    BY <1>3, BlockKeeps
  <1>4. CASE Bang
    BY <1>4, BangKeeps
  <1>5. CASE HashLine
    BY <1>5, HashPassed
  <1>6. CASE Ident
    BY <1>6, IdentKeeps
  <1>7. CASE ScanHex
    BY <1>7, HexKeeps
  <1>8. CASE ScanBin
    BY <1>8, BinKeeps
  <1>9. CASE ScanNumber
    BY <1>9, NumberKeeps
  <1>10. CASE ScanString
    BY <1>10, StringKeeps
  <1>11. CASE StringTrap
    <2>1. UNCHANGED <<src, at, lexline, out>>
      BY <1>11 DEF StringTrap
    <2> QED BY <2>1, SameKeeps
  <1>12. CASE ScanOp
    BY <1>12, OpKeeps
  <1>13. CASE UNCHANGED lexvars
    <2>1. UNCHANGED <<src, at, lexline, out>>
      BY <1>13 DEF lexvars
    <2> QED BY <2>1, SameKeeps
  <1> QED
    BY <1>1, <1>2, <1>3, <1>4, <1>5, <1>6, <1>7, <1>8, <1>9, <1>10, <1>11, <1>12, <1>13 DEF LexNext

\* The tokens are the source, for every source: nothing is lost, doubled or
\* out of order, and only space and comments are between them (scan_one).
THEOREM SourceKept == LexSpec => []NothingLost
  <1>1. LexInit => LexInv
    BY LexStarts
  <1>2. LexInv /\ [LexNext]_lexvars => LexInv'
    BY LexInductive
  <1>3. LexInv => NothingLost
    BY DEF LexInv
  <1> QED BY <1>1, <1>2, <1>3, PTL DEF LexSpec

\* Every token is given the line it stands on, for every source, as long as no
\* string before it holds a newline (eat_space, bump_line, scan_hash, src_line).
THEOREM LinesCounted == LexSpec => []LinesRight
  <1>1. LexInit => LexInv
    BY LexStarts
  <1>2. LexInv /\ [LexNext]_lexvars => LexInv'
    BY LexInductive
  <1>3. LexInv => LinesRight
    BY DEF LexInv
  <1> QED BY <1>1, <1>2, <1>3, PTL DEF LexSpec

(***************************************************************************)
(* Every step of the scan goes on                                          *)
(***************************************************************************)

\* A piece printed for what was read is not empty.
LEMMA PieceAdvances ==
    ASSUME LexInv', NEW o, out' = o, NEW k, k \in 1 .. Len(o), o[k].k # "line", o[k].from = at, o[k].to = at'
    PROVE  at < at'
  <1>1. k \in Pieces'
    BY DEF Pieces
  <1> QED BY <1>1 DEF LexInv, NothingLost

LEMMA EmitAdvances ==
    ASSUME LexInv, LexInv', NEW tok, NEW e, Emit(tok, e), tok.k # "line", tok.from = at, tok.to = e
    PROVE  src' = src /\ at < at'
  <1>1. src' = src /\ out' = Append(out, tok) /\ at' = e
    BY DEF Emit
  <1>2. IsSeq(out)
    BY DEF LexInv
  <1>3. PICK o, k : o = Append(out, tok) /\ k = Len(out) + 1
    OBVIOUS
  <1>4. k \in 1 .. Len(o) /\ o[k] = tok
    BY <1>2, <1>3, Appended
  <1> QED BY <1>1, <1>3, <1>4, PieceAdvances

\* So does a # line, a comment or a first line: it holds what it begins with.
LEMMA LineAdvances ==
    ASSUME LexInv, Scanning, Ch(at) # Newline, at' = EndOfLine(at)
    PROVE  at < at'
  <1>1. SrcOK /\ at \in Nat \ {0} /\ at <= Len(src) /\ Len(src) \in Nat
    BY Here DEF SrcOK
  <1>2. PICK e : e = EndOfLine(at)
    OBVIOUS
  <1>3. e \in at .. Len(src) + 1 /\ Ch(e) \in {Newline, "end"}
    BY <1>1, <1>2, LineEnds
  <1>4. Ch(at) # "end"
    BY <1>1, Characters
  <1>5. e # at
    BY <1>3, <1>4
  <1> QED BY <1>1, <1>2, <1>3, <1>5

\* A block comment has at least the two characters that open it.
LEMMA BlockAdvances ==
    ASSUME LexInv, BlockComment
    PROVE  at < at'
  <1>1. PICK a, b : a = at /\ b = BlockEnd
    OBVIOUS
  <1>2. Scanning /\ Ch(a + 1) = "*" /\ at' = b + 2
    BY <1>1 DEF BlockComment, Token
  <1>3. SrcOK /\ a \in Nat /\ Len(src) \in Nat
    BY <1>1, <1>2, Here DEF SrcOK
  <1>4. a + 1 \in 1 .. Len(src)
    <2>1. a + 1 \in Int /\ Ch(a + 1) # "end"
      BY <1>2, <1>3
    <2> QED BY <1>3, <2>1, InSource
  <1> DEFINE J == {j \in a + 2 .. Len(src) + 1 : j = Len(src) + 1 \/ (Ch(j) = "*" /\ Ch(j + 1) = "/")}
  <1>5. a + 2 \in Nat /\ Len(src) + 1 \in Nat /\ J \subseteq a + 2 .. Len(src) + 1 /\ Len(src) + 1 \in J
    BY <1>3, <1>4
  <1>6. b = Min(J)
    BY <1>1 DEF BlockEnd
  <1>7. Min(J) \in a + 2 .. Len(src) + 1
    <2> HIDE DEF J
    <2> QED BY <1>5, FirstIn
  <1>8. b \in a + 2 .. Len(src) + 1
    BY <1>6, <1>7
  <1> QED BY <1>1, <1>2, <1>3, <1>8

\* Every step of the scan reads at least one character of the source that is
\* left, or ends the process: no token, comment or space leaves the cursor where
\* it is (scan_one), so a source of n characters is scanned in at most n steps
\* and a trap.
THEOREM ScanAdvances == LexSpec => [][Scanning /\ src' = src /\ (at < at' \/ trapped')]_lexvars
  <1> DEFINE Goes == Scanning /\ src' = src /\ (at < at' \/ trapped')
  <1>1. LexInit => LexInv
    BY LexStarts
  <1>2. LexInv /\ [LexNext]_lexvars => LexInv'
    BY LexInductive
  <1>3. ASSUME LexInv, LexInv', [LexNext]_lexvars
        PROVE  [Goes]_lexvars
    <2>1. CASE Space
      <3>1. Scanning /\ src' = src /\ at' = at + 1
        BY <2>1 DEF Space
      <3>2. at \in Nat
        BY <1>3, <3>1, Here DEF SrcOK
      <3> QED BY <3>1, <3>2
    <2>2. CASE LineComment
      <3>1. Scanning /\ src' = src /\ at' = EndOfLine(at) /\ Ch(at) # Newline
        BY <2>2 DEF LineComment, Token, Newline
      <3> QED BY <1>3, <3>1, LineAdvances
    <2>3. CASE BlockComment
      <3>1. Scanning /\ src' = src
        BY <2>3 DEF BlockComment, Token
      <3> QED BY <1>3, <2>3, <3>1, BlockAdvances
    <2>4. CASE Bang
      <3>1. Scanning /\ src' = src /\ at' = EndOfLine(at) /\ Ch(at) # Newline
        BY <2>4 DEF Bang, Token, Newline
      <3> QED BY <1>3, <3>1, LineAdvances
    <2>5. CASE HashLine
      <3>1. Scanning /\ src' = src /\ at' = EndOfLine(at) /\ Ch(at) # Newline
        BY <2>5 DEF HashLine, Token, Newline
      <3> QED BY <1>3, <3>1, LineAdvances
    <2>6. CASE Ident
      <3>1. PICK e, tok : e = RunEnd(at, NamePart) /\ tok = Tok("ident", at, e)
        OBVIOUS
      <3>2. Scanning /\ Emit(tok, e) /\ tok.k # "line" /\ tok.from = at /\ tok.to = e
        BY <2>6, <3>1, TokFields DEF Ident, Token
      <3> QED BY <1>3, <3>2, EmitAdvances
    <2>7. CASE ScanHex
      <3>1. Scanning /\ Based(16, WordBits \div 4, IsHex)
        BY <2>7 DEF ScanHex, Token
      <3>2. PICK e, x : Emit(NumTok("int", at, e, x), e)
        BY <3>1 DEF Based
      <3>3. PICK tok : tok = NumTok("int", at, e, x)
        OBVIOUS
      <3>4. Emit(tok, e) /\ tok.k # "line" /\ tok.from = at /\ tok.to = e
        BY <3>2, <3>3, TokFields
      <3> QED BY <1>3, <3>1, <3>4, EmitAdvances
    <2>8. CASE ScanBin
      <3>1. Scanning /\ Based(2, WordBits, IsBin)
        BY <2>8 DEF ScanBin, Token
      <3>2. PICK e, x : Emit(NumTok("int", at, e, x), e)
        BY <3>1 DEF Based
      <3>3. PICK tok : tok = NumTok("int", at, e, x)
        OBVIOUS
      <3>4. Emit(tok, e) /\ tok.k # "line" /\ tok.from = at /\ tok.to = e
        BY <3>2, <3>3, TokFields
      <3> QED BY <1>3, <3>1, <3>4, EmitAdvances
    <2>9. CASE ScanNumber
      <3>1. Scanning
        BY <2>9 DEF ScanNumber, Token
      <3>2. PICK k, e, x : k \in {"int", "float"} /\ Emit(NumTok(k, at, e, x), e)
        BY <2>9 DEF ScanNumber
      <3>3. PICK tok : tok = NumTok(k, at, e, x)
        OBVIOUS
      <3>4. Emit(tok, e) /\ tok.k # "line" /\ tok.from = at /\ tok.to = e
        BY <3>2, <3>3, TokFields
      <3> QED BY <1>3, <3>1, <3>4, EmitAdvances
    <2>10. CASE ScanString
      <3>1. Scanning
        BY <2>10, Zenon DEF ScanString, StrStart, Token
      <3>2. PICK e, x : Emit(NumTok("str", at, e, x), e)
        <4>1. PICK q : q = Min(Quotes \cup {Len(Body) + 1})
          OBVIOUS
        <4>2. Emit(NumTok("str", at, at + q + 1, SubSeq(Body, 1, q - 1)), at + q + 1)
          BY <2>10, <4>1 DEF ScanString
        <4> QED BY <4>2
      <3>3. PICK tok : tok = NumTok("str", at, e, x)
        OBVIOUS
      <3>4. Emit(tok, e) /\ tok.k # "line" /\ tok.from = at /\ tok.to = e
        BY <3>2, <3>3, TokFields
      <3> QED BY <1>3, <3>1, <3>4, EmitAdvances
    <2>11. CASE StringTrap
      BY <2>11, Zenon DEF StringTrap, StrStart, Token
    <2>12. CASE ScanOp
      <3>1. Scanning
        BY <2>12, Zenon DEF ScanOp, Token
      <3>2. PICK e : Emit(Tok("op", at, e), e)
        BY <2>12, Zenon DEF ScanOp
      <3>3. PICK tok : tok = Tok("op", at, e)
        OBVIOUS
      <3>4. Emit(tok, e) /\ tok.k # "line" /\ tok.from = at /\ tok.to = e
        BY <3>2, <3>3, TokFields
      <3> QED BY <1>3, <3>1, <3>4, EmitAdvances
    <2>13. CASE UNCHANGED lexvars
      BY <2>13
    <2> QED
      BY <1>3, <2>1, <2>2, <2>3, <2>4, <2>5, <2>6, <2>7, <2>8, <2>9, <2>10, <2>11, <2>12, <2>13 DEF LexNext
  <1> QED BY <1>1, <1>2, <1>3, PTL DEF LexSpec
=============================================================================
