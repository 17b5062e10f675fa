-------------------------------- MODULE Store --------------------------------
(***************************************************************************)
(* A Store (store.go): a sync.Map of entries, and a counter beside it that *)
(* makes Len cheap.  Writing is two steps, first the map and then the      *)
(* counter, and a walk (All, Keys, Snapshot) visits one key at a time, so  *)
(* readers run between any two of them.                                    *)
(*                                                                         *)
(* In production the one writer is the goroutine of the binding; two       *)
(* bindings given one store with BindTo, or a service that calls Put       *)
(* itself, make it several.                                                *)
(***************************************************************************)
EXTENDS Integers, FiniteSets

CONSTANTS
    Key,        \* keys
    Value,      \* values
    Absent,     \* no entry
    Writer,     \* goroutines that write
    Walker,     \* goroutines that walk the store
    MaxWrites   \* bound: how often each writer writes

ASSUME StoreAssumption ==
    /\ IsFiniteSet(Key)
    /\ IsFiniteSet(Writer)
    /\ Absent \notin Value
    /\ MaxWrites \in Nat

VARIABLES
    m,          \* s.m: what is under each key
    size,       \* s.size
    owed,       \* per writer, what it still has to add to size
    writes,     \* per writer, how often it wrote
    unvisited,  \* per walker, the keys its walk has not come to
    yielded,    \* per walker, the pairs it was given
    walking,    \* per walker, whether its walk goes on
    steady,     \* history: per walker, the entries unchanged since it began
    held        \* history: per walker, the pairs the store held meanwhile

storeVars == <<m, size>>
writeVars == <<owed, writes>>
walkVars  == <<unvisited, yielded, walking, steady, held>>
vars == <<storeVars, writeVars, walkVars>>

Entries == {<<k, m[k]>> : k \in {k \in Key : m[k] # Absent}}

TypeOK ==
    /\ m \in [Key -> Value \cup {Absent}]
    /\ size \in Int
    /\ owed \in [Writer -> {-1, 0, 1}]
    /\ writes \in [Writer -> 0..MaxWrites]
    /\ unvisited \in [Walker -> SUBSET Key]
    /\ yielded \in [Walker -> SUBSET (Key \X Value)]
    /\ walking \in [Walker -> BOOLEAN]
    /\ steady \in [Walker -> SUBSET (Key \X Value)]
    /\ held \in [Walker -> SUBSET (Key \X Value)]

Init ==
    /\ m = [k \in Key |-> Absent]
    /\ size = 0
    /\ owed = [w \in Writer |-> 0]
    /\ writes = [w \in Writer |-> 0]
    /\ unvisited = [r \in Walker |-> {}]
    /\ yielded = [r \in Walker |-> {}]
    /\ walking = [r \in Walker |-> FALSE]
    /\ steady = [r \in Walker |-> {}]
    /\ held = [r \in Walker |-> {}]

\* What every walk in progress remembers of a change of the map.
Witness ==
    /\ steady' = [r \in Walker |-> steady[r] \cap Entries']
    /\ held' = [r \in Walker |-> IF walking[r] THEN held[r] \cup Entries' ELSE held[r]]

Writable(w) ==
    /\ owed[w] = 0
    /\ writes[w] < MaxWrites
    /\ writes' = [writes EXCEPT ![w] = @ + 1]

\* Put, up to its Swap, which reports whether there was an entry.
Swap(w, k, v) ==
    /\ Writable(w)
    /\ m' = [m EXCEPT ![k] = v]
    /\ owed' = [owed EXCEPT ![w] = IF m[k] = Absent THEN 1 ELSE 0]
    /\ Witness
    /\ UNCHANGED <<size, unvisited, yielded, walking>>

\* Mutant: every Delete subtracts, whatever the map reports.
LoadAndDelete_Subtracts(w, k) ==
    /\ Writable(w)
    /\ m' = [m EXCEPT ![k] = Absent]
    /\ owed' = [owed EXCEPT ![w] = -1]
    /\ Witness
    /\ UNCHANGED <<size, unvisited, yielded, walking>>

\* Delete, up to its LoadAndDelete.
LoadAndDelete(w, k) ==
    /\ Writable(w)
    /\ m' = [m EXCEPT ![k] = Absent]
    /\ owed' = [owed EXCEPT ![w] = IF m[k] = Absent THEN 0 ELSE -1]
    /\ Witness
    /\ UNCHANGED <<size, unvisited, yielded, walking>>

\* The other half of either.
AddSize(w) ==
    /\ owed[w] # 0
    /\ size' = size + owed[w]
    /\ owed' = [owed EXCEPT ![w] = 0]
    /\ UNCHANGED <<m, writes, walkVars>>

\* All, Keys or Snapshot begins: sync.Map.Range has every key ahead of it.
WalkBegin(r) ==
    /\ ~walking[r]
    /\ walking' = [walking EXCEPT ![r] = TRUE]
    /\ unvisited' = [unvisited EXCEPT ![r] = Key]
    /\ yielded' = [yielded EXCEPT ![r] = {}]
    /\ steady' = [steady EXCEPT ![r] = Entries]
    /\ held' = [held EXCEPT ![r] = Entries]
    /\ UNCHANGED <<storeVars, writeVars>>

\* Mutant: a key deleted ahead of the walk ends it.
Visit_StopsAtGap(r, k) ==
    /\ walking[r]
    /\ k \in unvisited[r]
    /\ unvisited' = [unvisited EXCEPT ![r] = IF m[k] = Absent THEN {} ELSE @ \ {k}]
    /\ yielded' = [yielded EXCEPT ![r] =
                     IF m[k] = Absent THEN @ ELSE @ \cup {<<k, m[k]>>}]
    /\ UNCHANGED <<storeVars, writeVars, walking, steady, held>>

\* Range comes to a key, in no particular order, and yields its entry if it
\* has one at that moment.
Visit(r, k) ==
    /\ walking[r]
    /\ k \in unvisited[r]
    /\ unvisited' = [unvisited EXCEPT ![r] = @ \ {k}]
    /\ yielded' = [yielded EXCEPT ![r] =
                     IF m[k] = Absent THEN @ ELSE @ \cup {<<k, m[k]>>}]
    /\ UNCHANGED <<storeVars, writeVars, walking, steady, held>>

\* The walk is over, or its consumer broke out of the loop.
WalkEnd(r) ==
    /\ walking[r]
    /\ walking' = [walking EXCEPT ![r] = FALSE]
    /\ unvisited' = [unvisited EXCEPT ![r] = {}]
    /\ yielded' = [yielded EXCEPT ![r] = {}]
    /\ steady' = [steady EXCEPT ![r] = {}]
    /\ held' = [held EXCEPT ![r] = {}]
    /\ UNCHANGED <<storeVars, writeVars>>

Next ==
    \/ \E w \in Writer :
         \/ \E k \in Key : LoadAndDelete(w, k) \/ \E v \in Value : Swap(w, k, v)
         \/ AddSize(w)
    \/ \E r \in Walker :
         \/ WalkBegin(r) \/ WalkEnd(r)
         \/ \E k \in Key : Visit(r, k)

Spec == Init /\ [][Next]_vars

-----------------------------------------------------------------------------
\* What Len returns.
Len == size

Count == Cardinality(Entries)

\* Whenever no writer is between its two steps, Len is the number of entries,
\* however the writers interleaved before (store.go:25-28).
ExactAtRest == (\A w \in Writer : owed[w] = 0) => Len = Count

\* In between, Len is off by no more than one for each writer that is between
\* its two steps.
OffByOwed ==
    LET late == Cardinality({w \in Writer : owed[w] # 0})
    IN  Count - late <= Len /\ Len <= Count + late

\* A walk that came to its end has yielded every entry that was there
\* throughout, and nothing that was not there at some moment of it
\* (store.go:109-111).
WalkIsHonest ==
    \A r \in Walker :
        /\ yielded[r] \subseteq held[r]
        /\ walking[r] /\ unvisited[r] = {} => steady[r] \subseteq yielded[r]

=============================================================================
