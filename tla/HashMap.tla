------------------------------ MODULE HashMap ------------------------------
(***************************************************************************)
(* The hash map of the standard library, which the compiler's own tables   *)
(* of names are: open addressing with linear probing.  The code keeps the  *)
(* slots in three lists and the count in a fourth, and leaves the map only *)
(* at most half full.  A put that finds it fuller lays the old slots aside *)
(* and places what they hold, one by one, among four times as many, before *)
(* it places its own key.                                                  *)
(***************************************************************************)
EXTENDS Integers, Sequences, FiniteSets, FiniteSetsExt

CONSTANT Hash        \* string_hash of each key

ASSUME HashAssumption == \A key \in DOMAIN Hash : Hash[key] \in Nat

VARIABLES slots, count,
          old, moved,   \* the slots a growth has laid aside, and how many of them are done
          adding        \* the keys and values put but not placed yet: one or none

mapvars == <<slots, count, old, moved, adding>>

FreeSlot == [used |-> FALSE, key |-> "", v |-> 0]
\* idstd_hash_map_fill, hash_map_initialize
Filled(n) == [i \in 1 .. n |-> FreeSlot]

\* The slot that is tried after d others, among n (idstd_hash_map_probe)
Probe(n, key, d) ==
    LET home == Hash[key] % n IN IF home + d < n THEN home + d + 1 ELSE home + d - n + 1
\* A search ends at the key or at a free slot.
ProbeEnds(t, key, d) == LET s == t[Probe(Len(t), key, d)] IN ~s.used \/ s.key = key
\* idstd_hash_map_slot
Slot(t, key) == Probe(Len(t), key, Min({d \in 0 .. Len(t) - 1 : ProbeEnds(t, key, d)}))
\* idstd_hash_map_rehash_place
Placed(t, key, v) == [t EXCEPT ![Slot(t, key)] = [used |-> TRUE, key |-> key, v |-> v]]
\* idstd_hash_map_full
Full == (count + 1) * 2 > Len(slots)
\* hash_map_get
HashGet(key, default) == LET s == slots[Slot(slots, key)] IN IF s.used THEN s.v ELSE default

Growing == moved < Len(old)
Quiet == adding = {}
\* hash_map_put begins; idstd_hash_map_grow up to its last call
MutGrowInPlace(key, v) ==      \* Mutant: the keys stay where they are
    /\ adding' = {[key |-> key, v |-> v]}
    /\ slots' = IF Full THEN slots \o Filled(3 * Len(slots)) ELSE slots
    /\ UNCHANGED <<old, moved, count>>
BeginPut(key, v) ==
    /\ adding' = {[key |-> key, v |-> v]}
    /\ IF Full THEN old' = slots /\ slots' = Filled(4 * Len(slots)) ELSE UNCHANGED <<old, slots>>
    /\ UNCHANGED <<moved, count>>

\* idstd_hash_map_rehash_slot
Rehash ==
    /\ Growing
    /\ LET s == old[moved + 1]
       IN slots' = IF s.used THEN Placed(slots, s.key, s.v) ELSE slots
    /\ moved' = moved + 1
    /\ UNCHANGED <<old, count, adding>>

\* the rest of hash_map_put
EndPut ==
    /\ ~Growing
    /\ \E p \in adding :
          /\ slots' = Placed(slots, p.key, p.v)
          /\ count' = IF slots[Slot(slots, p.key)].used THEN count ELSE count + 1
    /\ old' = <<>> /\ moved' = 0 /\ adding' = {}
-----------------------------------------------------------------------------
\* What FrontEndProofs needs to know of the map.
SlotSet == [used : BOOLEAN, key : DOMAIN Hash \cup {""}, v : Int]
UsedIn(t) == {i \in 1 .. Len(t) : t[i].used}
InTable(t, key, v) == \E i \in UsedIn(t) : t[i].key = key /\ t[i].v = v
Absent(t, key) == \A i \in UsedIn(t) : t[i].key # key

\* A search for the key passes only slots of other keys before it is at slot i.
LeadsTo(t, key, i) ==
    \E d \in 0 .. Len(t) - 1 :
        /\ Probe(Len(t), key, d) = i
        /\ \A e \in 0 .. d - 1 : ~ProbeEnds(t, key, e)
\* Every key is found where it is.
TableOK(t) ==
    /\ t \in Seq(SlotSet) /\ Len(t) > 0
    /\ \A i \in UsedIn(t) : t[i].key \in DOMAIN Hash /\ LeadsTo(t, t[i].key, i)

\* What a growth has still to place of the old table
UsedAfter(t, m) == {i \in UsedIn(t) : i > m}
Rest == UsedAfter(old, moved)
Puts == [key : DOMAIN Hash, v : Int]
MapOK ==
    /\ TableOK(slots) /\ count \in Nat
    /\ IF Quiet
       THEN /\ old = <<>> /\ moved = 0
            /\ Cardinality(UsedIn(slots)) <= count /\ 2 * count <= Len(slots)
       ELSE /\ old = <<>> \/ TableOK(old)
            /\ moved \in 0 .. Len(old)
            /\ Cardinality(UsedIn(slots)) + Cardinality(Rest) <= count /\ ~Full
            /\ \A i \in Rest : Absent(slots, old[i].key)
            /\ \E p \in Puts : /\ adding = {p} /\ Absent(slots, p.key)
                               /\ \A i \in Rest : old[i].key # p.key

\* What the map holds, also while it grows
MapHolds(key, v) ==
    \/ InTable(slots, key, v)
    \/ \E i \in Rest : old[i].key = key /\ old[i].v = v
    \/ \E p \in adding : p.key = key /\ p.v = v
=============================================================================
