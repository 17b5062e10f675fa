----------------------------- MODULE StoreProofs -----------------------------
(***************************************************************************)
(* The size of a store, and what a walk yields, for any finite set of      *)
(* writers and any keys, values and walkers.                               *)
(*                                                                         *)
(* Len is the number of entries less what writers have still to add and    *)
(* more what they have still to subtract (Sized): ExactAtRest and          *)
(* OffByOwed follow.  A walk owes an entry that never changed only as long *)
(* as it has not come to its key (Owing), which gives WalkIsHonest.        *)
(***************************************************************************)
EXTENDS Store, FiniteSetTheorems, TLAPS

Adding == {w \in Writer : owed[w] = 1}
Subtracting == {w \in Writer : owed[w] = -1}

Sized ==
    /\ IsFiniteSet(Entries)
    /\ size = Cardinality(Entries) - Cardinality(Adding) + Cardinality(Subtracting)

Owing ==
    \A r \in Walker :
        /\ steady[r] \subseteq Entries
        /\ yielded[r] \subseteq held[r]
        /\ walking[r] => Entries \subseteq held[r]
        /\ walking[r] => \A k \in Key, x \in Value :
             <<k, x>> \in steady[r] => k \in unvisited[r] \/ <<k, x>> \in yielded[r]

Inv == TypeOK /\ Sized /\ Owing

\* Entries, of any map.
EntriesOf(f) == {<<k, f[k]>> : k \in {k \in Key : f[k] # Absent}}

-----------------------------------------------------------------------------
(***************************************************************************)
(* What a write does to the set of entries.                                *)
(***************************************************************************)

\* A Put replaces the entry of its key, if there is one (store.go:125).
LEMMA PutEntries ==
    ASSUME NEW f \in [Key -> Value \cup {Absent}], NEW k \in Key, NEW v \in Value
    PROVE  EntriesOf([f EXCEPT ![k] = v]) = (EntriesOf(f) \ {<<k, f[k]>>}) \cup {<<k, v>>}
<1> DEFINE g == [f EXCEPT ![k] = v]
<1>1. g[k] = v /\ v # Absent  BY StoreAssumption
<1>2. \A j \in Key : j # k => g[j] = f[j]  OBVIOUS
<1> HIDE DEF g
<1>3. EntriesOf(g) \subseteq (EntriesOf(f) \ {<<k, f[k]>>}) \cup {<<k, v>>}
  BY <1>1, <1>2 DEF EntriesOf
<1>4. (EntriesOf(f) \ {<<k, f[k]>>}) \cup {<<k, v>>} \subseteq EntriesOf(g)
  BY <1>1, <1>2 DEF EntriesOf
<1> QED  BY <1>3, <1>4 DEF g

\* A Delete removes the entry of its key, if there is one (store.go:132).
LEMMA DeleteEntries ==
    ASSUME NEW f \in [Key -> Value \cup {Absent}], NEW k \in Key
    PROVE  EntriesOf([f EXCEPT ![k] = Absent]) = EntriesOf(f) \ {<<k, f[k]>>}
<1> DEFINE g == [f EXCEPT ![k] = Absent]
<1>1. g[k] = Absent  OBVIOUS
<1>2. \A j \in Key : j # k => g[j] = f[j]  OBVIOUS
<1> HIDE DEF g
<1>3. EntriesOf(g) \subseteq EntriesOf(f) \ {<<k, f[k]>>}
  BY <1>1, <1>2 DEF EntriesOf
<1>4. EntriesOf(f) \ {<<k, f[k]>>} \subseteq EntriesOf(g)
  BY <1>1, <1>2 DEF EntriesOf
<1> QED  BY <1>3, <1>4 DEF g

\* Entries are pairs of a key and a value, and say what the map holds.
LEMMA EntriesType ==
    ASSUME TypeOK
    PROVE  /\ Entries \subseteq Key \X Value
           /\ \A k \in Key : m[k] # Absent <=> <<k, m[k]>> \in Entries
           /\ \A k \in Key, x \in Value : <<k, x>> \in Entries => m[k] = x
BY StoreAssumption DEF TypeOK, Entries

\* The sets of writers between their two steps are finite.
LEMMA WritersFinite ==
    IsFiniteSet(Adding) /\ IsFiniteSet(Subtracting)
<1>1. Adding \subseteq Writer /\ Subtracting \subseteq Writer
  BY DEF Adding, Subtracting
<1> QED  BY <1>1, StoreAssumption, FS_Subset

-----------------------------------------------------------------------------
(***************************************************************************)
(* The walks, while the map changes.                                       *)
(***************************************************************************)

\* Whatever a writer does, a walk loses what changed and remembers what came.
LEMMA WitnessInv ==
    ASSUME TypeOK, Owing, Entries' \subseteq Key \X Value, Witness,
           UNCHANGED <<unvisited, yielded, walking>>
    PROVE  Owing' /\ steady' \in [Walker -> SUBSET (Key \X Value)]
                  /\ held' \in [Walker -> SUBSET (Key \X Value)]
<1>1. \A r \in Walker : steady'[r] = steady[r] \cap Entries'
  BY DEF Witness
<1>2. \A r \in Walker :
        held'[r] = IF walking[r] THEN held[r] \cup Entries' ELSE held[r]
  BY DEF Witness
<1>3. Owing'
  <2> SUFFICES ASSUME NEW r \in Walker
               PROVE  /\ steady'[r] \subseteq Entries'
                      /\ yielded'[r] \subseteq held'[r]
                      /\ walking'[r] => Entries' \subseteq held'[r]
                      /\ walking'[r] => \A k \in Key, x \in Value :
                           <<k, x>> \in steady'[r] =>
                             k \in unvisited'[r] \/ <<k, x>> \in yielded'[r]
    BY DEF Owing
  <2>1. steady'[r] \subseteq Entries' /\ steady'[r] \subseteq steady[r]
    BY <1>1
  <2>2. yielded'[r] \subseteq held'[r]  BY <1>2 DEF Owing
  <2>3. walking'[r] => Entries' \subseteq held'[r]  BY <1>2
  <2>4. walking'[r] => \A k \in Key, x \in Value :
          <<k, x>> \in steady'[r] =>
            k \in unvisited'[r] \/ <<k, x>> \in yielded'[r]
    BY <2>1 DEF Owing
  <2> QED  BY <2>1, <2>2, <2>3, <2>4
<1>4. steady' \in [Walker -> SUBSET (Key \X Value)]  BY DEF Witness, TypeOK
<1>5. held' \in [Walker -> SUBSET (Key \X Value)]  BY DEF Witness, TypeOK
<1> QED  BY <1>3, <1>4, <1>5

-----------------------------------------------------------------------------
(***************************************************************************)
(* The writers.                                                            *)
(***************************************************************************)

\* The swap adds an entry and owes one, or replaces one and owes nothing.
LEMMA SwapInv ==
    ASSUME Inv, NEW w \in Writer, NEW k \in Key, NEW v \in Value, Swap(w, k, v)
    PROVE  Inv'
<1> DEFINE old == <<k, m[k]>>
           new == <<k, v>>
<1>1. m \in [Key -> Value \cup {Absent}] /\ owed \in [Writer -> {-1, 0, 1}]
      /\ size \in Int
  BY DEF Inv, TypeOK
<1>2. m' \in [Key -> Value \cup {Absent}] /\ owed' \in [Writer -> {-1, 0, 1}]
      /\ writes' \in [Writer -> 0..MaxWrites]
  BY StoreAssumption DEF Inv, TypeOK, Swap, Writable
<1>3. Entries' = (Entries \ {old}) \cup {new}
  BY <1>1, PutEntries DEF Swap, Entries, EntriesOf
<1>4. IsFiniteSet(Entries) /\ Cardinality(Entries) \in Nat
  BY FS_CardinalityType DEF Inv, Sized
<1>5. Entries \subseteq Key \X Value /\ (m[k] # Absent <=> old \in Entries)
      /\ (new \in Entries => m[k] = v)
  BY EntriesType DEF Inv
<1>6. Entries' \subseteq Key \X Value  BY <1>3, <1>5
<1>7. Owing' /\ steady' \in [Walker -> SUBSET (Key \X Value)]
             /\ held' \in [Walker -> SUBSET (Key \X Value)]
  BY <1>6, WitnessInv DEF Inv, Swap
<1>8. TypeOK'  BY <1>2, <1>7 DEF Inv, TypeOK, Swap
<1>9. CASE m[k] = Absent
  <2>1. old \notin Entries /\ new \notin Entries
    BY <1>5, <1>9, StoreAssumption
  <2>2. Entries' = Entries \cup {new}  BY <1>3, <2>1
  <2>3. IsFiniteSet(Entries') /\ Cardinality(Entries') = Cardinality(Entries) + 1
    BY <1>4, <2>1, <2>2, FS_AddElement
  <2>4. w \notin Adding /\ Adding' = Adding \cup {w} /\ Subtracting' = Subtracting
    BY <1>1, <1>9 DEF Swap, Writable, Adding, Subtracting
  <2>5. Cardinality(Adding') = Cardinality(Adding) + 1
    BY <2>4, WritersFinite, FS_AddElement
  <2>6. Cardinality(Adding) \in Nat /\ Cardinality(Subtracting) \in Nat
    BY WritersFinite, FS_CardinalityType
  <2>7. size' = size  BY DEF Swap
  <2>8. Sized'
    BY <1>4, <2>3, <2>4, <2>5, <2>6, <2>7 DEF Inv, Sized
  <2> QED  BY <1>7, <1>8, <2>8 DEF Inv
<1>10. CASE m[k] # Absent
  <2>1. old \in Entries  BY <1>5, <1>10
  <2>2. IsFiniteSet(Entries \ {old})
        /\ Cardinality(Entries \ {old}) = Cardinality(Entries) - 1
    BY <1>4, <2>1, FS_RemoveElement
  <2>3. new \notin Entries \ {old}  BY <1>5
  <2>4. IsFiniteSet(Entries') /\ Cardinality(Entries') = Cardinality(Entries)
    <3>1. IsFiniteSet((Entries \ {old}) \cup {new})
          /\ Cardinality((Entries \ {old}) \cup {new})
               = Cardinality(Entries \ {old}) + 1
      BY <2>2, <2>3, FS_AddElement
    <3> QED  BY <1>3, <1>4, <2>2, <3>1
  <2>5. Adding' = Adding /\ Subtracting' = Subtracting
    BY <1>1, <1>10 DEF Swap, Writable, Adding, Subtracting
  <2>6. size' = size  BY DEF Swap
  <2>7. Sized'  BY <2>4, <2>5, <2>6 DEF Inv, Sized
  <2> QED  BY <1>7, <1>8, <2>7 DEF Inv
<1> QED  BY <1>9, <1>10

\* A deletion removes an entry and owes one, or finds none and owes nothing.
LEMMA LoadAndDeleteInv ==
    ASSUME Inv, NEW w \in Writer, NEW k \in Key, LoadAndDelete(w, k)
    PROVE  Inv'
<1> DEFINE old == <<k, m[k]>>
<1>1. m \in [Key -> Value \cup {Absent}] /\ owed \in [Writer -> {-1, 0, 1}]
      /\ size \in Int
  BY DEF Inv, TypeOK
<1>2. m' \in [Key -> Value \cup {Absent}] /\ owed' \in [Writer -> {-1, 0, 1}]
      /\ writes' \in [Writer -> 0..MaxWrites]
  BY StoreAssumption DEF Inv, TypeOK, LoadAndDelete, Writable
<1>3. Entries' = Entries \ {old}
  BY <1>1, DeleteEntries DEF LoadAndDelete, Entries, EntriesOf
<1>4. IsFiniteSet(Entries) /\ Cardinality(Entries) \in Nat
  BY FS_CardinalityType DEF Inv, Sized
<1>5. Entries \subseteq Key \X Value /\ (m[k] # Absent <=> old \in Entries)
  BY EntriesType DEF Inv
<1>6. Owing' /\ steady' \in [Walker -> SUBSET (Key \X Value)]
             /\ held' \in [Walker -> SUBSET (Key \X Value)]
  BY <1>3, <1>5, WitnessInv DEF Inv, LoadAndDelete
<1>7. TypeOK'  BY <1>2, <1>6 DEF Inv, TypeOK, LoadAndDelete
<1>8. CASE m[k] = Absent
  <2>1. Entries' = Entries  BY <1>3, <1>5, <1>8
  <2>2. Adding' = Adding /\ Subtracting' = Subtracting
    BY <1>1, <1>8 DEF LoadAndDelete, Writable, Adding, Subtracting
  <2>3. size' = size  BY DEF LoadAndDelete
  <2>4. Sized'  BY <2>1, <2>2, <2>3 DEF Inv, Sized
  <2> QED  BY <1>6, <1>7, <2>4 DEF Inv
<1>9. CASE m[k] # Absent
  <2>1. IsFiniteSet(Entries') /\ Cardinality(Entries') = Cardinality(Entries) - 1
    BY <1>3, <1>4, <1>5, <1>9, FS_RemoveElement
  <2>2. w \notin Subtracting /\ Subtracting' = Subtracting \cup {w}
        /\ Adding' = Adding
    BY <1>1, <1>9 DEF LoadAndDelete, Writable, Adding, Subtracting
  <2>3. Cardinality(Subtracting') = Cardinality(Subtracting) + 1
    BY <2>2, WritersFinite, FS_AddElement
  <2>4. Cardinality(Adding) \in Nat /\ Cardinality(Subtracting) \in Nat
    BY WritersFinite, FS_CardinalityType
  <2>5. size' = size  BY DEF LoadAndDelete
  <2>6. Sized'
    BY <1>4, <2>1, <2>2, <2>3, <2>4, <2>5 DEF Inv, Sized
  <2> QED  BY <1>6, <1>7, <2>6 DEF Inv
<1> QED  BY <1>8, <1>9

\* The counter catches up by what the writer owes.
LEMMA AddSizeInv ==
    ASSUME Inv, NEW w \in Writer, AddSize(w)
    PROVE  Inv'
<1>1. owed \in [Writer -> {-1, 0, 1}] /\ size \in Int  BY DEF Inv, TypeOK
<1>2. TypeOK'  BY <1>1 DEF Inv, TypeOK, AddSize, walkVars
<1>3. Entries' = Entries  BY DEF AddSize, Entries
<1>4. Owing'  BY <1>3 DEF Inv, Owing, AddSize, walkVars
<1>5. /\ Cardinality(Adding) \in Nat /\ Cardinality(Subtracting) \in Nat
      /\ Cardinality(Entries) \in Nat
  BY WritersFinite, FS_CardinalityType DEF Inv, Sized
<1>6. CASE owed[w] = 1
  <2>1. w \in Adding /\ Adding' = Adding \ {w} /\ Subtracting' = Subtracting
    BY <1>1, <1>6 DEF AddSize, Adding, Subtracting
  <2>2. Cardinality(Adding') = Cardinality(Adding) - 1
    BY <2>1, WritersFinite, FS_RemoveElement
  <2>3. size' = size + 1  BY <1>6 DEF AddSize
  <2> QED  BY <1>2, <1>3, <1>4, <1>5, <2>1, <2>2, <2>3 DEF Inv, Sized
<1>7. CASE owed[w] = -1
  <2>1. w \in Subtracting /\ Subtracting' = Subtracting \ {w} /\ Adding' = Adding
    BY <1>1, <1>7 DEF AddSize, Adding, Subtracting
  <2>2. Cardinality(Subtracting') = Cardinality(Subtracting) - 1
    BY <2>1, WritersFinite, FS_RemoveElement
  <2>3. size' = size - 1  BY <1>1, <1>7 DEF AddSize
  <2> QED  BY <1>2, <1>3, <1>4, <1>5, <2>1, <2>2, <2>3 DEF Inv, Sized
<1> QED  BY <1>1, <1>6, <1>7 DEF AddSize

-----------------------------------------------------------------------------
(***************************************************************************)
(* The walks.                                                              *)
(***************************************************************************)

\* A step that leaves the writers and the map alone leaves Sized alone.
LEMMA SizedKept ==
    ASSUME Sized, UNCHANGED <<storeVars, writeVars>>
    PROVE  Sized' /\ Entries' = Entries
BY DEF Sized, Entries, Adding, Subtracting, storeVars, writeVars

\* A walk that begins owes every entry there is.
LEMMA WalkBeginInv ==
    ASSUME Inv, NEW r \in Walker, WalkBegin(r)
    PROVE  Inv'
<1>1. Sized' /\ Entries' = Entries  BY SizedKept DEF Inv, WalkBegin
<1>2. Entries \subseteq Key \X Value  BY EntriesType DEF Inv
<1>3. TypeOK'
  <2>1. walking' \in [Walker -> BOOLEAN]  BY DEF Inv, TypeOK, WalkBegin
  <2>2. unvisited' \in [Walker -> SUBSET Key]
        /\ yielded' \in [Walker -> SUBSET (Key \X Value)]
    BY DEF Inv, TypeOK, WalkBegin
  <2>3. steady' \in [Walker -> SUBSET (Key \X Value)]
        /\ held' \in [Walker -> SUBSET (Key \X Value)]
    BY <1>2 DEF Inv, TypeOK, WalkBegin
  <2> QED  BY <2>1, <2>2, <2>3 DEF Inv, TypeOK, WalkBegin, storeVars, writeVars
<1>4. Owing'
  BY <1>1 DEF Inv, TypeOK, Owing, WalkBegin
<1> QED  BY <1>1, <1>3, <1>4 DEF Inv

\* A walk that comes to a key yields what is there, and owes it no more.
LEMMA VisitInv ==
    ASSUME Inv, NEW r \in Walker, NEW k \in Key, Visit(r, k)
    PROVE  Inv'
<1>1. Sized' /\ Entries' = Entries  BY SizedKept DEF Inv, Visit
<1>2. Entries \subseteq Key \X Value /\ (m[k] # Absent => <<k, m[k]>> \in Entries)
      /\ \A x \in Value : <<k, x>> \in Entries => m[k] = x /\ x # Absent
  BY EntriesType, StoreAssumption DEF Inv
<1>3. TypeOK'
  <2>1. yielded' \in [Walker -> SUBSET (Key \X Value)]
    BY <1>2 DEF Inv, TypeOK, Visit
  <2>2. unvisited' \in [Walker -> SUBSET Key]  BY DEF Inv, TypeOK, Visit
  <2> QED  BY <2>1, <2>2 DEF Inv, TypeOK, Visit, storeVars, writeVars
<1>4. yielded'[r] = IF m[k] = Absent THEN yielded[r] ELSE yielded[r] \cup {<<k, m[k]>>}
  BY DEF Inv, TypeOK, Visit
<1>5. unvisited'[r] = unvisited[r] \ {k} /\ walking[r]
  BY DEF Inv, TypeOK, Visit
<1>6. \A s \in Walker : s # r => yielded'[s] = yielded[s] /\ unvisited'[s] = unvisited[s]
  BY DEF Inv, TypeOK, Visit
<1>7. steady' = steady /\ held' = held /\ walking' = walking  BY DEF Visit
<1>8. yielded'[r] \subseteq held[r]
  BY <1>2, <1>4, <1>5 DEF Inv, Owing
<1>9. \A j \in Key, x \in Value :
        <<j, x>> \in steady[r] => j \in unvisited'[r] \/ <<j, x>> \in yielded'[r]
  <2> SUFFICES ASSUME NEW j \in Key, NEW x \in Value, <<j, x>> \in steady[r]
               PROVE  j \in unvisited'[r] \/ <<j, x>> \in yielded'[r]
    OBVIOUS
  <2>1. CASE j = k
    <3>1. <<k, x>> \in Entries  BY <2>1 DEF Inv, Owing
    <3> QED  BY <1>2, <1>4, <2>1, <3>1
  <2>2. CASE j # k
    BY <1>4, <1>5, <2>2 DEF Inv, Owing
  <2> QED  BY <2>1, <2>2
<1>10. Owing'
  BY <1>1, <1>6, <1>7, <1>8, <1>9 DEF Inv, Owing
<1> QED  BY <1>1, <1>3, <1>10 DEF Inv

\* A walk that is over owes nothing.
LEMMA WalkEndInv ==
    ASSUME Inv, NEW r \in Walker, WalkEnd(r)
    PROVE  Inv'
<1>1. Sized' /\ Entries' = Entries  BY SizedKept DEF Inv, WalkEnd
<1>2. TypeOK'
  <2>1. walking' \in [Walker -> BOOLEAN]  BY DEF Inv, TypeOK, WalkEnd
  <2>2. unvisited' \in [Walker -> SUBSET Key]
        /\ yielded' \in [Walker -> SUBSET (Key \X Value)]
        /\ steady' \in [Walker -> SUBSET (Key \X Value)]
        /\ held' \in [Walker -> SUBSET (Key \X Value)]
    BY DEF Inv, TypeOK, WalkEnd
  <2> QED  BY <2>1, <2>2 DEF Inv, TypeOK, WalkEnd, storeVars, writeVars
<1>3. Owing'  BY <1>1 DEF Inv, TypeOK, Owing, WalkEnd
<1> QED  BY <1>1, <1>2, <1>3 DEF Inv

-----------------------------------------------------------------------------
\* A new store satisfies the invariant.
LEMMA InitInv == Init => Inv
<1> SUFFICES ASSUME Init PROVE Inv
  OBVIOUS
<1>1. walking \in [Walker -> BOOLEAN]  BY Zenon DEF Init
<1>2. TypeOK
  BY <1>1, StoreAssumption DEF Init, TypeOK
<1>3. Entries = {} /\ Adding = {} /\ Subtracting = {}
  BY DEF Init, Entries, Adding, Subtracting
<1>4. IsFiniteSet({}) /\ Cardinality({}) = 0  BY FS_EmptySet
<1>5. Sized  BY <1>3, <1>4 DEF Init, Sized
<1>6. Owing  BY DEF Init, Owing
<1> QED  BY <1>2, <1>5, <1>6 DEF Inv

\* Every step of a writer or a walker keeps it.
LEMMA NextInv == Inv /\ [Next]_vars => Inv'
<1> SUFFICES ASSUME Inv, [Next]_vars PROVE Inv'
  OBVIOUS
<1>1. ASSUME NEW w \in Writer, NEW k \in Key, NEW v \in Value, Swap(w, k, v)
      PROVE  Inv'
  BY <1>1, SwapInv
<1>2. ASSUME NEW w \in Writer, NEW k \in Key, LoadAndDelete(w, k) PROVE Inv'
  BY <1>2, LoadAndDeleteInv
<1>3. ASSUME NEW w \in Writer, AddSize(w) PROVE Inv'  BY <1>3, AddSizeInv
<1>4. ASSUME NEW r \in Walker, WalkBegin(r) PROVE Inv'  BY <1>4, WalkBeginInv
<1>5. ASSUME NEW r \in Walker, WalkEnd(r) PROVE Inv'  BY <1>5, WalkEndInv
<1>6. ASSUME NEW r \in Walker, NEW k \in Key, Visit(r, k) PROVE Inv'
  BY <1>6, VisitInv
<1>7. CASE UNCHANGED vars
  <2>1. Sized' /\ Entries' = Entries
    BY <1>7, SizedKept DEF Inv, vars
  <2>2. TypeOK'
    BY <1>7 DEF Inv, TypeOK, vars, storeVars, writeVars, walkVars
  <2>3. Owing'
    BY <1>7, <2>1 DEF Inv, Owing, vars, walkVars
  <2> QED  BY <2>1, <2>2, <2>3 DEF Inv
<1> QED
  BY <1>1, <1>2, <1>3, <1>4, <1>5, <1>6, <1>7 DEF Next

\* The invariant holds throughout (store.go:25-28).
THEOREM InvHolds == Spec => []Inv
BY InitInv, NextInv, PTL DEF Spec

\* Every variable keeps its type.
THEOREM TypeCorrect == Spec => []TypeOK
<1>1. Inv => TypeOK  BY DEF Inv
<1> QED  BY <1>1, InvHolds, PTL

\* Len is exact whenever no writer is between its two steps, however many
\* writers there are (store.go:25-28).
THEOREM Exact == Spec => []ExactAtRest
<1>1. ASSUME Inv PROVE ExactAtRest
  <2> SUFFICES ASSUME \A w \in Writer : owed[w] = 0
               PROVE  size = Cardinality(Entries)
    BY DEF ExactAtRest, Len, Count
  <2>1. Adding = {} /\ Subtracting = {}  BY DEF Adding, Subtracting
  <2>2. Cardinality({}) = 0  BY FS_EmptySet
  <2>3. Cardinality(Entries) \in Nat
    BY <1>1, FS_CardinalityType DEF Inv, Sized
  <2> QED  BY <1>1, <2>1, <2>2, <2>3 DEF Inv, Sized
<1> QED  BY <1>1, InvHolds, PTL

\* In between it is off by no more than one for each of those writers.
THEOREM Bounded == Spec => []OffByOwed
<1>1. ASSUME Inv PROVE OffByOwed
  <2> DEFINE Late == {w \in Writer : owed[w] # 0}
  <2>1. Adding \subseteq Late /\ Subtracting \subseteq Late
    BY DEF Adding, Subtracting
  <2>2. IsFiniteSet(Late)  BY StoreAssumption, FS_Subset
  <2>3. Cardinality(Adding) <= Cardinality(Late)
        /\ Cardinality(Subtracting) <= Cardinality(Late)
    BY <2>1, <2>2, FS_Subset
  <2>4. /\ Cardinality(Adding) \in Nat /\ Cardinality(Subtracting) \in Nat
        /\ Cardinality(Late) \in Nat /\ Cardinality(Entries) \in Nat
    BY <1>1, <2>2, WritersFinite, FS_CardinalityType DEF Inv, Sized
  <2>5. size = Cardinality(Entries) - Cardinality(Adding) + Cardinality(Subtracting)
    BY <1>1 DEF Inv, Sized
  <2> HIDE DEF Late
  <2>6. Cardinality(Entries) - Cardinality(Late) <= size
        /\ size <= Cardinality(Entries) + Cardinality(Late)
    BY <2>3, <2>4, <2>5
  <2> QED  BY <2>6 DEF OffByOwed, Len, Count, Late
<1> QED  BY <1>1, InvHolds, PTL

\* A walk yields every entry that was there throughout, and nothing that was
\* never there, whatever is written meanwhile (store.go:109-111).
THEOREM Honest == Spec => []WalkIsHonest
<1>1. ASSUME Inv PROVE WalkIsHonest
  <2>1. Entries \subseteq Key \X Value  BY <1>1, EntriesType DEF Inv
  <2> SUFFICES ASSUME NEW r \in Walker
               PROVE  /\ yielded[r] \subseteq held[r]
                      /\ walking[r] /\ unvisited[r] = {} =>
                           steady[r] \subseteq yielded[r]
    BY DEF WalkIsHonest
  <2>2. yielded[r] \subseteq held[r]  BY <1>1 DEF Inv, Owing
  <2>3. ASSUME walking[r], unvisited[r] = {}, NEW e \in steady[r]
        PROVE  e \in yielded[r]
    <3>1. PICK k \in Key, x \in Value : e = <<k, x>>
      BY <1>1, <2>1, <2>3 DEF Inv, Owing
    <3> QED  BY <1>1, <2>3, <3>1 DEF Inv, Owing
  <2> QED  BY <2>2, <2>3
<1> QED  BY <1>1, InvHolds, PTL

=============================================================================
