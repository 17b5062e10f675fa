--------------------------- MODULE ProjectionProofs ---------------------------
(***************************************************************************)
(* A store that has read its topic to the end is the table, for any        *)
(* number of partitions, keys, records and replicas, whatever the broker   *)
(* compacts and whenever a replica starts - for a clean binding, as        *)
(* Projection defines it.                                                  *)
(*                                                                         *)
(* The argument is about the last record of a raw key.  The log cleaner    *)
(* takes it away only if it is a tombstone, and then everything of that    *)
(* key is gone (PurgedLast).  So a replica has either read it, or will, or *)
(* has an empty entry and will find nothing (FoldedAt).                    *)
(*                                                                         *)
(* Where several raw keys spell one key of the store, this holds of one of *)
(* them, the one whose record was folded last (Entries): a record of       *)
(* another spelling makes that one the witness, and no other step needs a  *)
(* new one (Kept, SinceKept).                                              *)
(*                                                                         *)
(* The last sections take any binding, clean or not: the types, what Start *)
(* decides about an empty topic, and where every entry comes from.  With   *)
(* them two replicas of a clean binding are shown to agree.                *)
(***************************************************************************)
EXTENDS Projection, FiniteSetTheorems, TLAPS

\* What a record leaves under its key.
Left(rec) == IF Upserts(rec) THEN rec.payload ELSE Absent

At(q, i) == history[PartitionOf[q]][i]

Last(q, i) == i \in Of(q) /\ \A j \in Of(q) : j <= i

Decodable == {q \in RawKey : DecodeKey[q] # Bad}

TypeInv ==
    /\ history \in [Partition -> Seq(Record)]
    /\ live \in [Partition -> SUBSET Nat]
    /\ life \in [Replica -> {"down", "warmup", "steady", "failed"}]
    /\ next \in [Replica -> [Partition -> Nat \ {0}]]
    /\ due \in [Replica -> SUBSET Partition]
    /\ remaining \in [Replica -> SUBSET Partition]
    /\ store \in [Replica -> [Key -> Payload \cup {Absent}]]
    /\ base \in [Replica -> [Partition -> Nat]]

LogOK ==
    \A p \in Partition :
        /\ \A i \in live[p] : i \in 1..Len(history[p])
        /\ \A i \in 1..Len(history[p]) : PartitionOf[history[p][i].key] = p

HasLast == \A q \in RawKey : Of(q) = {} \/ \E i \in Of(q) : Last(q, i)

PurgedLast ==
    \A q \in RawKey : \A i \in Of(q) :
        Last(q, i) /\ i \notin live[PartitionOf[q]] =>
            /\ At(q, i).payload = Null
            /\ \A j \in Of(q) : j \notin live[PartitionOf[q]]

InRange ==
    \A r \in Replica, p \in Partition :
        next[r][p] <= Len(history[p]) + 1 /\ base[r][p] <= Len(history[p])

FoldedAt(r, q) ==
    LET n     == next[r][PartitionOf[q]]
        entry == store[r][DecodeKey[q]]
    IN  /\ \A i \in Of(q) : Last(q, i) =>
             /\ i < n => entry = Left(At(q, i))
             /\ i >= n /\ i \notin live[PartitionOf[q]] => entry = Absent
        /\ (\A i \in Of(q) : i >= n) => entry = Absent
        /\ Dropped(q) => entry = Absent

\* A step that keeps the entry of a raw key as its records left it, if it was.
KeepsEntry(r, q) == (Running(r) => FoldedAt(r, q)) => FoldedAt(r, q)'

Kept == \A r \in Replica, q \in Decodable : Running(r)' => KeepsEntry(r, q)

Inv == CleanBinding /\ TypeInv /\ LogOK /\ HasLast /\ PurgedLast /\ InRange

-----------------------------------------------------------------------------
(***************************************************************************)
(* One record.                                                             *)
(***************************************************************************)

\* A record of another key leaves an entry alone (registration.go:123-184).
LEMMA FoldOther ==
    ASSUME CleanBinding, NEW s \in [Key -> Payload \cup {Absent}], NEW rec \in Record,
           NEW q \in Decodable, DecodeKey[rec.key] # DecodeKey[q]
    PROVE  Fold(s, rec)[DecodeKey[q]] = s[DecodeKey[q]]
<1>1. CASE Deletes(rec)  BY <1>1 DEF Fold, Deletes, Upserts
<1>2. CASE Upserts(rec)  BY <1>2 DEF Fold, StoreKey, CleanBinding, Deletes, Upserts
<1>3. CASE ~Deletes(rec) /\ ~Upserts(rec)  BY <1>3 DEF Fold
<1> QED  BY <1>1, <1>2, <1>3

\* A record of its own key leaves what the record says.
LEMMA FoldOwn ==
    ASSUME CleanBinding, NEW s \in [Key -> Payload \cup {Absent}], NEW rec \in Record,
           NEW q \in Decodable, rec.key = q, Dropped(q) => s[DecodeKey[q]] = Absent
    PROVE  /\ Fold(s, rec)[DecodeKey[q]] = Left(rec)
           /\ Dropped(q) => Left(rec) = Absent
<1>1. q \in RawKey /\ DecodeKey[q] \in Key /\ Decodes(rec) /\ rec.payload \in Payload
  BY ProjectionAssumption DEF Decodable, Decodes, Record
<1>2. Dropped(q) => ~Upserts(rec)
  BY <1>1 DEF Dropped, Upserts, StoreKey, CleanBinding
<1>3. CASE Deletes(rec)
  BY <1>1, <1>3 DEF Fold, Left, Deletes, Upserts
<1>4. CASE Upserts(rec)
  BY <1>1, <1>2, <1>4 DEF Fold, Left, StoreKey, CleanBinding, Deletes, Upserts
<1>5. CASE ~Deletes(rec) /\ ~Upserts(rec)
  <2>1. Dropped(q)
    BY <1>1, <1>5 DEF Deletes, Upserts, StoreKey, CleanBinding
  <2> QED  BY <1>5, <2>1 DEF Fold, Left
<1> QED  BY <1>2, <1>3, <1>4, <1>5 DEF Left

\* A fold keeps the type of a store, whatever the binding (registration.go:123-184).
LEMMA FoldType ==
    ASSUME NEW s \in [Key -> Payload \cup {Absent}], NEW rec \in Record
    PROVE  Fold(s, rec) \in [Key -> Payload \cup {Absent}]
<1>1. CASE Deletes(rec)  BY <1>1 DEF Fold, Deletes, Upserts
<1>2. CASE ~Deletes(rec) /\ Upserts(rec)  BY <1>2 DEF Fold, Record
<1>3. CASE ~Deletes(rec) /\ ~Upserts(rec)  BY <1>3 DEF Fold
<1> QED  BY <1>1, <1>2, <1>3

\* The null payload leaves no entry.
LEMMA NullLeaves ==
    ASSUME CleanBinding, NEW rec, rec.payload = Null
    PROVE  Left(rec) = Absent
BY DEF Left, Upserts, CleanBinding

\* The last record of a raw key by n says what the key stands for by n.
LEMMA CurrentByLast ==
    ASSUME TypeInv, NEW q \in RawKey, NEW n \in Nat,
           NEW i \in Of(q), i <= n, \A j \in Of(q) : j <= n => j <= i
    PROVE  CurrentBy(q, n) = Left(At(q, i))
<1> DEFINE earlier == {j \in Of(q) : j <= n}
           c == CHOOSE j \in earlier : \A l \in earlier : l <= j
<1>1. Of(q) \subseteq Int  BY DEF Of
<1>2. i \in earlier /\ \A l \in earlier : l <= i  OBVIOUS
<1>3. c \in earlier /\ \A l \in earlier : l <= c  BY <1>2
<1>4. c = i  BY <1>1, <1>2, <1>3
<1>5. earlier # {}  BY <1>2
<1> HIDE DEF earlier, c
<1>6. CurrentBy(q, n) = IF earlier # {} /\ Upserts(history[PartitionOf[q]][c])
                        THEN history[PartitionOf[q]][c].payload ELSE Absent
  BY DEF CurrentBy, earlier, c
<1> QED  BY <1>4, <1>5, <1>6 DEF Left, At

\* A raw key without a record by n stands for nothing by n.
LEMMA CurrentByNone ==
    ASSUME NEW q, NEW n, \A j \in Of(q) : ~(j <= n)
    PROVE  CurrentBy(q, n) = Absent
BY DEF CurrentBy

-----------------------------------------------------------------------------
(***************************************************************************)
(* The topic.                                                              *)
(***************************************************************************)

\* What a producer appends is the last record of its key, and live.
LEMMA ProduceOf ==
    ASSUME TypeInv, NEW q \in RawKey, NEW v \in Payload, Produce(q, v)
    PROVE  LET p == PartitionOf[q]
               e == Len(history[p]) + 1
           IN  /\ p \in Partition
               /\ \A o \in RawKey : o # q => Of(o)' = Of(o)
               /\ Of(q)' = Of(q) \cup {e}
               /\ \A o \in RawKey : \A i \in Of(o) : At(o, i)' = At(o, i)
               /\ \A o \in RawKey : PartitionOf[o] = p => \A i \in Of(o) : i < e
               /\ live' = [live EXCEPT ![p] = @ \cup {e}]
               /\ Len(history'[p]) = e
               /\ \A o \in Partition : o # p => history'[o] = history[o]
<1> DEFINE p == PartitionOf[q]
           e == Len(history[p]) + 1
           rec == [key |-> q, payload |-> v]
<1>1. p \in Partition /\ rec \in Record /\ history[p] \in Seq(Record)
  BY ProjectionAssumption DEF TypeInv, Record
<1>2. history'[p] = Append(history[p], rec)
      /\ \A o \in Partition : o # p => history'[o] = history[o]
  BY <1>1 DEF Produce, TypeInv
<1>3. Len(history'[p]) = e /\ history'[p][e] = rec
      /\ \A i \in 1..Len(history[p]) : history'[p][i] = history[p][i]
  BY <1>1, <1>2
<1>4. Len(history[p]) \in Nat  BY <1>1
<1>5. \A o \in RawKey : PartitionOf[o] \in Partition  BY ProjectionAssumption
<1>6. \A o \in RawKey : o # q => Of(o)' = Of(o)
  <2> SUFFICES ASSUME NEW o \in RawKey, o # q PROVE Of(o)' = Of(o)
    OBVIOUS
  <2>1. CASE PartitionOf[o] # p
    BY <1>2, <1>5, <2>1 DEF Of
  <2>2. CASE PartitionOf[o] = p
    <3>1. rec.key # o  OBVIOUS
    <3>2. Of(o)' = {i \in 1..e : history'[p][i].key = o}
      BY <1>3, <2>2 DEF Of
    <3>3. Of(o) = {i \in 1..Len(history[p]) : history[p][i].key = o}
      BY <2>2 DEF Of
    <3> HIDE DEF rec, p
    <3> QED  BY <1>3, <1>4, <3>1, <3>2, <3>3
  <2> QED  BY <2>1, <2>2
<1>7. Of(q)' = Of(q) \cup {e}
  <2>1. rec.key = q  OBVIOUS
  <2>2. Of(q)' = {i \in 1..e : history'[p][i].key = q}
    BY <1>3 DEF Of
  <2>3. Of(q) = {i \in 1..Len(history[p]) : history[p][i].key = q}
    BY DEF Of
  <2> HIDE DEF rec, p
  <2> QED  BY <1>3, <1>4, <2>1, <2>2, <2>3
<1>8. \A o \in RawKey : \A i \in Of(o) : At(o, i)' = At(o, i)
  BY <1>2, <1>3, <1>5 DEF Of, At
<1>9. \A o \in RawKey : PartitionOf[o] = p => \A i \in Of(o) : i < e
  BY <1>4 DEF Of
<1>10. live' = [live EXCEPT ![p] = @ \cup {e}]  BY DEF Produce
<1> QED  BY <1>1, <1>2, <1>3, <1>6, <1>7, <1>8, <1>9, <1>10

\* A new record takes over as the last of its key.
LEMMA ProduceInv ==
    ASSUME Inv, NEW q \in RawKey, NEW v \in Payload, Produce(q, v)
    PROVE  Inv' /\ Kept
<1> DEFINE p == PartitionOf[q]
           e == Len(history[p]) + 1
<1> USE DEF Inv
<1>1. /\ p \in Partition
      /\ \A o \in RawKey : o # q => Of(o)' = Of(o)
      /\ Of(q)' = Of(q) \cup {e}
      /\ \A o \in RawKey : \A i \in Of(o) : At(o, i)' = At(o, i)
      /\ \A o \in RawKey : PartitionOf[o] = p => \A i \in Of(o) : i < e
      /\ live' = [live EXCEPT ![p] = @ \cup {e}]
      /\ Len(history'[p]) = e
      /\ \A o \in Partition : o # p => history'[o] = history[o]
  BY ProduceOf
<1>2. e \in Nat /\ \A o \in Partition : Len(history[o]) \in Nat
  BY <1>1 DEF TypeInv
<1>3. \A o \in RawKey : PartitionOf[o] \in Partition /\ Of(o) \subseteq Nat
  BY ProjectionAssumption DEF Of
<1>4. UNCHANGED <<life, next, due, remaining, store, base>>
  BY DEF Produce, replicaVars
<1>5. TypeInv'
  <2>1. [key |-> q, payload |-> v] \in Record  BY DEF Record
  <2>2. history' \in [Partition -> Seq(Record)]
    BY <2>1, <1>1 DEF TypeInv, Produce
  <2>3. live' \in [Partition -> SUBSET Nat]  BY <1>1, <1>2 DEF TypeInv
  <2> QED  BY <1>4, <2>2, <2>3 DEF TypeInv
<1> HIDE DEF p, e
<1>6. LogOK'
  <2> SUFFICES ASSUME NEW o \in Partition
               PROVE  /\ \A i \in live'[o] : i \in 1..Len(history'[o])
                      /\ \A i \in 1..Len(history'[o]) :
                           PartitionOf[history'[o][i].key] = o
    BY DEF LogOK
  <2>1. CASE o # p  BY <1>1, <2>1 DEF LogOK, TypeInv
  <2>2. CASE o = p
    <3>1. live'[p] = live[p] \cup {e}  BY <1>1 DEF TypeInv
    <3>2. \A i \in live[p] : i \in 1..e  BY <1>1, <1>2 DEF LogOK, e
    <3>3. \A i \in 1..Len(history'[p]) : PartitionOf[history'[p][i].key] = p
      <4>1. history'[p] = Append(history[p], [key |-> q, payload |-> v])
        BY <1>1 DEF Produce, TypeInv, p
      <4>2. history[p] \in Seq(Record) /\ [key |-> q, payload |-> v] \in Record
        BY <1>1 DEF TypeInv, Record
      <4>3. \A i \in 1..Len(history[p]) : history'[p][i] = history[p][i]
        BY <4>1, <4>2
      <4>4. history'[p][e].key = q  BY <4>1, <4>2 DEF e
      <4>5. \A i \in 1..e : i = e \/ i \in 1..Len(history[p])  BY <1>1, <1>2 DEF e
      <4> QED  BY <1>1, <4>3, <4>4, <4>5, SMTT(30) DEF LogOK, p
    <3> QED  BY <1>1, <1>2, <2>2, <3>1, <3>2, <3>3 DEF e
  <2> QED  BY <2>1, <2>2
<1>7. ASSUME NEW o \in RawKey, o # q
      PROVE  /\ Of(o)' = Of(o)
             /\ \A i : Last(o, i)' = Last(o, i)
             /\ \A i \in Of(o) : i \in live'[PartitionOf[o]] <=> i \in live[PartitionOf[o]]
  <2>1. Of(o)' = Of(o)  BY <1>1, <1>7
  <2>2. \A i : Last(o, i)' = Last(o, i)  BY <2>1 DEF Last
  <2>3. \A i \in Of(o) : i \in live'[PartitionOf[o]] <=> i \in live[PartitionOf[o]]
    BY <1>1, <1>2, <1>3 DEF TypeInv
  <2> QED  BY <2>1, <2>2, <2>3
<1>8. /\ \A i : Last(q, i)' <=> i = e
      /\ e \in live'[p]
  <2>1. \A i \in Of(q) : i < e  BY <1>1 DEF p
  <2>2. Of(q)' = Of(q) \cup {e} /\ \A i \in Of(q)' : i <= e
    BY <1>1, <1>2, <1>3, <2>1
  <2>3. ASSUME NEW i, i = e PROVE Last(q, i)'
    BY <2>2, <2>3 DEF Last
  <2>4. ASSUME NEW i, Last(q, i)' PROVE i = e
    <3>1. i \in Of(q) \cup {e} /\ e <= i  BY <2>2, <2>4 DEF Last
    <3> QED  BY <1>2, <1>3, <2>1, <3>1
  <2>5. e \in live'[p]  BY <1>1 DEF TypeInv
  <2> QED  BY <2>3, <2>4, <2>5
<1>9. HasLast'
  <2> SUFFICES ASSUME NEW o \in RawKey PROVE Of(o)' = {} \/ \E i \in Of(o)' : Last(o, i)'
    BY DEF HasLast
  <2>1. CASE o = q  BY <1>1, <1>8, <2>1
  <2>2. CASE o # q  BY <1>7, <2>2 DEF HasLast
  <2> QED  BY <2>1, <2>2
<1>10. PurgedLast'
  <2> SUFFICES ASSUME NEW o \in RawKey, NEW i \in Of(o)', Last(o, i)',
                      i \notin live'[PartitionOf[o]]
               PROVE  /\ At(o, i)'.payload = Null
                      /\ \A j \in Of(o)' : j \notin live'[PartitionOf[o]]
    BY DEF PurgedLast
  <2>1. o # q  BY <1>8 DEF p
  <2>2. At(o, i)' = At(o, i)  BY <1>1, <1>7, <2>1
  <2> QED  BY <1>7, <2>1, <2>2 DEF PurgedLast
<1>11. InRange'
  <2> SUFFICES ASSUME NEW r \in Replica, NEW o \in Partition
               PROVE  next[r][o] <= Len(history'[o]) + 1 /\ base[r][o] <= Len(history'[o])
    BY <1>4 DEF InRange
  <2>1. /\ next[r][o] <= Len(history[o]) + 1 /\ base[r][o] <= Len(history[o])
        /\ next[r][o] \in Nat /\ base[r][o] \in Nat
    BY DEF InRange, TypeInv
  <2>2. CASE o = p  BY <1>1, <1>2, <2>1, <2>2 DEF e
  <2>3. CASE o # p  BY <1>1, <2>1, <2>3
  <2> QED  BY <2>2, <2>3
<1>12. Kept
  <2> SUFFICES ASSUME NEW r \in Replica, NEW o \in Decodable, FoldedAt(r, o)
               PROVE  FoldedAt(r, o)'
    BY <1>4 DEF Kept, KeepsEntry, Running
  <2>1. o \in RawKey /\ FoldedAt(r, o)
    BY DEF Decodable
  <2>2. CASE o = q
    <3>1. next[r][p] <= e /\ next[r][p] \in Nat
      BY <1>1, <1>2 DEF InRange, TypeInv, e
    <3>2. (\A i \in Of(q)' : i >= next[r][p]) => store[r][DecodeKey[q]] = Absent
      BY <1>1, <2>1, <2>2 DEF FoldedAt, p
    <3> QED  BY <1>2, <1>4, <1>8, <2>1, <2>2, <3>1, <3>2 DEF FoldedAt, p, Dropped
  <2>3. CASE o # q
    <3>1. \A i \in Of(o) : At(o, i)' = At(o, i)  BY <1>1, <2>1
    <3> QED  BY <1>4, <1>7, <2>1, <2>3, <3>1 DEF FoldedAt, Dropped, Left
  <2> QED  BY <2>2, <2>3
<1> QED  BY <1>5, <1>6, <1>9, <1>10, <1>11, <1>12

\* What the log cleaner takes away leaves the history as it is.
LEMMA CleanInv ==
    ASSUME Inv, NEW p \in Partition, NEW i \in live[p],
           live' = [live EXCEPT ![p] = @ \ {i}],
           UNCHANGED <<history, replicaVars>>,
           \A q \in RawKey : PartitionOf[q] = p /\ Last(q, i) =>
             /\ At(q, i).payload = Null
             /\ \A j \in Of(q) : j \in live[p] => j >= i
             /\ \A r \in Replica : Running(r) /\ next[r][p] <= i =>
                  \A j \in Of(q) : j >= next[r][p]
    PROVE  Inv' /\ Kept
<1> USE DEF Inv
<1>1. UNCHANGED <<life, next, due, remaining, store, base>>  BY DEF replicaVars
<1>2. TypeInv'  BY <1>1 DEF TypeInv
<1>3. \A o \in Partition : live'[o] = IF o = p THEN live[p] \ {i} ELSE live[o]
  BY DEF TypeInv
<1>4. LogOK'  BY <1>3 DEF LogOK
<1>5. \A q \in RawKey : Of(q)' = Of(q) /\ \A j : At(q, j)' = At(q, j) /\ Last(q, j)' = Last(q, j)
  BY DEF Of, At, Last
<1>6. HasLast'  BY <1>5 DEF HasLast
<1>7. \A q \in RawKey : PartitionOf[q] \in Partition /\ Of(q) \subseteq Int
  BY ProjectionAssumption DEF Of
<1>8. PurgedLast'
  <2> SUFFICES ASSUME NEW q \in RawKey, NEW l \in Of(q), Last(q, l),
                      l \notin live'[PartitionOf[q]]
               PROVE  /\ At(q, l).payload = Null
                      /\ \A j \in Of(q) : j \notin live'[PartitionOf[q]]
    BY <1>5 DEF PurgedLast
  <2>1. CASE l \notin live[PartitionOf[q]]
    BY <1>3, <1>7, <2>1 DEF PurgedLast
  <2>2. CASE l \in live[PartitionOf[q]]
    <3>1. PartitionOf[q] = p /\ l = i  BY <1>3, <1>7, <2>2
    <3>2. \A j \in Of(q) : j \in live[p] => j = i
      BY <1>7, <3>1 DEF Last
    <3> QED  BY <1>3, <3>1, <3>2
  <2> QED  BY <2>1, <2>2
<1>9. InRange'  BY <1>1 DEF InRange
<1>10. Kept
  <2> SUFFICES ASSUME NEW r \in Replica, NEW q \in Decodable, Running(r), FoldedAt(r, q)
               PROVE  FoldedAt(r, q)'
    BY <1>1 DEF Kept, KeepsEntry, Running
  <2>1. q \in RawKey /\ FoldedAt(r, q)  BY DEF Decodable
  <2> DEFINE n == next[r][PartitionOf[q]]
             entry == store[r][DecodeKey[q]]
  <2>2. n \in Nat  BY <1>7, <2>1 DEF TypeInv
  <2>3. ASSUME NEW l \in Of(q), Last(q, l), l >= n, l \notin live'[PartitionOf[q]]
        PROVE  entry = Absent
    <3>1. CASE l \notin live[PartitionOf[q]]  BY <2>1, <2>3, <3>1 DEF FoldedAt
    <3>2. CASE l \in live[PartitionOf[q]]
      <4>1. PartitionOf[q] = p /\ l = i  BY <1>3, <1>7, <2>1, <3>2, <2>3
      <4>2. \A j \in Of(q) : j >= n  BY <2>1, <2>2, <2>3, <4>1
      <4> QED  BY <2>1, <4>2 DEF FoldedAt
    <3> QED  BY <3>1, <3>2
  <2> QED  BY <1>1, <1>5, <2>1, <2>3 DEF FoldedAt, Dropped, Left
<1> QED  BY <1>2, <1>4, <1>6, <1>8, <1>9, <1>10

\* Compaction never takes the last record of a key.
LEMMA CompactInv ==
    ASSUME Inv, NEW p \in Partition, NEW i \in Offset, Compact(p, i)
    PROVE  Inv' /\ Kept
<1>1. PICK j \in live[p] : j > i /\ history[p][j].key = history[p][i].key
  BY DEF Compact
<1>2. \A q \in RawKey : PartitionOf[q] = p => ~Last(q, i)
  <2> SUFFICES ASSUME NEW q \in RawKey, PartitionOf[q] = p, i \in Of(q)
               PROVE  j \in Of(q) /\ ~(j <= i)
    BY DEF Last
  <2>1. j \in 1..Len(history[p])  BY DEF Inv, LogOK
  <2> QED  BY <1>1, <2>1 DEF Of, Offset
<1> QED  BY <1>2, CleanInv DEF Compact

\* Retention takes a tombstone that is the last of its key only when nothing
\* else of the key is left, and nobody is half way through it.
LEMMA PurgeInv ==
    ASSUME Inv, NEW p \in Partition, NEW i \in Offset, Purge(p, i)
    PROVE  Inv' /\ Kept
<1>1. ASSUME NEW q \in RawKey, PartitionOf[q] = p, Last(q, i)
      PROVE  /\ At(q, i).payload = Null
             /\ \A j \in Of(q) : j \in live[p] => j >= i
             /\ \A r \in Replica : Running(r) /\ next[r][p] <= i =>
                  \A j \in Of(q) : j >= next[r][p]
  <2>1. At(q, i).payload = Null  BY <1>1 DEF Purge, At
  <2>2. \A j \in Of(q) : j \in Int /\ j >= 1 /\ history[p][j].key = history[p][i].key
    BY <1>1 DEF Last, Of
  <2>3. \A j \in Of(q) : j \in live[p] => j >= i  BY <2>2 DEF Purge
  <2>4. ASSUME NEW r \in Replica, Running(r), next[r][p] <= i, NEW j \in Of(q)
        PROVE  j >= next[r][p]
    <3>1. next[r][p] \in Nat  BY DEF Inv, TypeInv
    <3>2. \A l \in 1..(next[r][p] - 1) : history[p][l].key # history[p][i].key
      BY <2>4 DEF Purge
    <3> QED  BY <2>2, <3>1, <3>2
  <2> QED  BY <2>1, <2>3, <2>4
<1> QED  BY <1>1, CleanInv DEF Purge

-----------------------------------------------------------------------------
(***************************************************************************)
(* The replicas.                                                           *)
(***************************************************************************)

\* What says nothing about the replicas says the same after a step that leaves
\* the topic alone.
LEMMA TopicKept ==
    ASSUME Inv, UNCHANGED topicVars
    PROVE  /\ CleanBinding' /\ LogOK' /\ HasLast' /\ PurgedLast'
           /\ \A q, i : At(q, i)' = At(q, i) /\ Last(q, i)' = Last(q, i)
           /\ \A q : Of(q)' = Of(q)
<1> USE DEF Inv, topicVars
<1>1. CleanBinding' /\ LogOK'  BY DEF CleanBinding, Dropped, LogOK
<1>2. \A q : Of(q)' = Of(q)  BY DEF Of
<1>3. \A q, i : At(q, i)' = At(q, i) /\ Last(q, i)' = Last(q, i)
  BY <1>2 DEF At, Last
<1>4. HasLast' /\ PurgedLast'  BY <1>2, <1>3 DEF HasLast, PurgedLast
<1> QED  BY <1>1, <1>2, <1>3, <1>4

\* Events that are not records change no store.
LEMMA QuietInv ==
    ASSUME Inv, TypeInv', UNCHANGED <<topicVars, next, store, base>>,
           \A r \in Replica : Running(r)' => Running(r)
    PROVE  Inv' /\ Kept
<1>1. InRange'  BY DEF Inv, InRange, topicVars
<1>2. Kept
  <2> SUFFICES ASSUME NEW r \in Replica, NEW q \in Decodable, FoldedAt(r, q)
               PROVE  FoldedAt(r, q)'
    BY DEF Kept, KeepsEntry
  <2> QED  BY TopicKept DEF FoldedAt, Dropped, Left, topicVars
<1> QED  BY <1>1, <1>2, TopicKept DEF Inv

\* A process that starts or dies has an empty store and everything to read.
LEMMA ResetInv ==
    ASSUME Inv, TypeInv', NEW r \in Replica, UNCHANGED topicVars,
           next' = [next EXCEPT ![r] = Beginning],
           store' = [store EXCEPT ![r] = Nothing],
           \A s \in Replica : s # r => life'[s] = life[s] /\ base'[s] = base[s],
           \A p \in Partition : base'[r][p] <= Len(history[p])
    PROVE  Inv' /\ Kept
<1> USE DEF Inv
<1>1. /\ \A p \in Partition : next'[r][p] = 1
      /\ \A k \in Key : store'[r][k] = Absent
      /\ \A s \in Replica : s # r => next'[s] = next[s] /\ store'[s] = store[s]
  BY DEF TypeInv, Beginning, Nothing
<1>2. \A p \in Partition : Len(history[p]) \in Nat  BY DEF TypeInv
<1>3. InRange'
  <2> SUFFICES ASSUME NEW s \in Replica, NEW p \in Partition
               PROVE  next'[s][p] <= Len(history[p]) + 1 /\ base'[s][p] <= Len(history[p])
    BY DEF InRange, topicVars
  <2>1. CASE s = r  BY <1>1, <1>2, <2>1
  <2>2. CASE s # r  BY <1>1, <2>2 DEF InRange
  <2> QED  BY <2>1, <2>2
<1>4. Kept
  <2> SUFFICES ASSUME NEW s \in Replica, NEW q \in Decodable, Running(s)',
                      Running(s) => FoldedAt(s, q)
               PROVE  FoldedAt(s, q)'
    BY DEF Kept, KeepsEntry
  <2>1. q \in RawKey /\ DecodeKey[q] \in Key /\ PartitionOf[q] \in Partition
        /\ Of(q) \subseteq Nat \ {0}
    BY ProjectionAssumption DEF Decodable, Of
  <2>2. CASE s = r
    <3>1. next'[r][PartitionOf[q]] = 1 /\ store'[r][DecodeKey[q]] = Absent
      BY <1>1, <2>1
    <3> QED  BY <2>1, <2>2, <3>1, TopicKept DEF FoldedAt
  <2>3. CASE s # r
    <3>1. FoldedAt(s, q)  BY <2>3 DEF Running
    <3> QED  BY <1>1, <2>3, <3>1, TopicKept DEF FoldedAt, Dropped, Left, topicVars
  <2> QED  BY <2>2, <2>3
<1> QED  BY <1>3, <1>4, TopicKept

\* A start resets a replica (internal/driver/consumer.go:229-265).
LEMMA StartInv ==
    ASSUME Inv, NEW r \in Replica, Start(r)
    PROVE  Inv' /\ Kept
<1>1. Beginning \in [Partition -> Nat \ {0}]  BY DEF Beginning
<1>2. Nothing \in [Key -> Payload \cup {Absent}]  BY DEF Nothing
<1>3. [p \in Partition |-> Len(history[p])] \in [Partition -> Nat]
  BY DEF Inv, TypeInv
<1>4. TypeInv'  BY <1>1, <1>2, <1>3 DEF Inv, TypeInv, Start, topicVars
<1>5. \A s \in Replica : s # r => life'[s] = life[s] /\ base'[s] = base[s]
  BY DEF Inv, TypeInv, Start
<1>6. \A p \in Partition : base'[r][p] <= Len(history[p])
  BY DEF Inv, TypeInv, Start
<1> QED  BY <1>4, <1>5, <1>6, ResetInv DEF Start

\* So does the death of its process.
LEMMA DieInv ==
    ASSUME Inv, NEW r \in Replica, Die(r)
    PROVE  Inv' /\ Kept
<1>1. Beginning \in [Partition -> Nat \ {0}]  BY DEF Beginning
<1>2. Nothing \in [Key -> Payload \cup {Absent}]  BY DEF Nothing
<1>3. TypeInv'  BY <1>1, <1>2 DEF Inv, TypeInv, Die, topicVars
<1>4. \A s \in Replica : s # r => life'[s] = life[s] /\ base'[s] = base[s]
  BY DEF Inv, TypeInv, Die
<1>5. \A p \in Partition : base'[r][p] <= Len(history[p])
  BY DEF Inv, TypeInv, Die
<1> QED  BY <1>3, <1>4, <1>5, ResetInv DEF Die

\* The record that is polled: the first one ahead.
Reads(r, p, i) ==
    /\ Running(r) /\ p \notin due[r]
    /\ i \in Ahead(r, p) /\ \A j \in Ahead(r, p) : i <= j
    /\ next' = [next EXCEPT ![r][p] = i + 1]
    /\ store' = [store EXCEPT ![r] = Fold(@, history[p][i])]
    /\ UNCHANGED <<history, live, life, due, remaining, base>>

\* What a poll says about the replica, its partition and the record.
LEMMA ReadsOf ==
    ASSUME Inv, NEW r \in Replica, NEW p \in Partition, NEW i, Reads(r, p, i)
    PROVE  /\ i \in live[p] /\ i \in 1..Len(history[p]) /\ i >= next[r][p] /\ i \in Nat
           /\ history[p][i] \in Record /\ PartitionOf[history[p][i].key] = p
           /\ next'[r][p] = i + 1
           /\ \A s \in Replica, o \in Partition :
                s # r \/ o # p => next'[s][o] = next[s][o]
           /\ store'[r] = Fold(store[r], history[p][i])
           /\ \A s \in Replica : s # r => store'[s] = store[s]
<1> USE DEF Inv
<1>1. i \in live[p] /\ i \in 1..Len(history[p]) /\ i >= next[r][p] /\ i \in Nat
  BY DEF Reads, Ahead, LogOK, TypeInv
<1>2. history[p][i] \in Record /\ PartitionOf[history[p][i].key] = p
  BY <1>1 DEF TypeInv, LogOK
<1>3. /\ next'[r][p] = i + 1
      /\ \A s \in Replica, o \in Partition :
           s # r \/ o # p => next'[s][o] = next[s][o]
  BY DEF Reads, TypeInv
<1>4. /\ store'[r] = Fold(store[r], history[p][i])
      /\ \A s \in Replica : s # r => store'[s] = store[s]
  BY DEF Reads, TypeInv
<1> QED  BY <1>1, <1>2, <1>3, <1>4

\* A record read is behind the reader.
LEMMA ReadsInv ==
    ASSUME Inv, NEW r \in Replica, NEW p \in Partition, NEW i, Reads(r, p, i)
    PROVE  Inv'
<1> USE DEF Inv
<1>1. /\ i \in live[p] /\ i \in 1..Len(history[p]) /\ i >= next[r][p] /\ i \in Nat
      /\ history[p][i] \in Record
      /\ next'[r][p] = i + 1
      /\ \A s \in Replica, o \in Partition :
           s # r \/ o # p => next'[s][o] = next[s][o]
  BY ReadsOf
<1>2. TypeInv'
  <2>1. next' \in [Replica -> [Partition -> Nat \ {0}]]
    BY <1>1 DEF Reads, TypeInv
  <2>2. store' \in [Replica -> [Key -> Payload \cup {Absent}]]
    BY <1>1, FoldType DEF Reads, TypeInv
  <2> QED  BY <2>1, <2>2 DEF Reads, TypeInv
<1>3. InRange'
  <2> SUFFICES ASSUME NEW s \in Replica, NEW o \in Partition
               PROVE  next'[s][o] <= Len(history[o]) + 1 /\ base[s][o] <= Len(history[o])
    BY DEF InRange, Reads
  <2>1. CASE s = r /\ o = p
    <3>1. Len(history[p]) \in Nat  BY DEF TypeInv
    <3> QED  BY <1>1, <2>1, <3>1 DEF InRange
  <2>2. CASE s # r \/ o # p  BY <1>1, <2>2 DEF InRange
  <2> QED  BY <2>1, <2>2
<1> QED  BY <1>2, <1>3, TopicKept DEF Reads, topicVars

\* It says nothing about the keys of the store it does not spell.
LEMMA ReadsKeeps ==
    ASSUME Inv, NEW r \in Replica, NEW p \in Partition, NEW i, Reads(r, p, i),
           NEW s \in Replica, NEW q \in Decodable, FoldedAt(s, q),
           s # r \/ DecodeKey[history[p][i].key] # DecodeKey[q]
    PROVE  FoldedAt(s, q)' /\ store'[s][DecodeKey[q]] = store[s][DecodeKey[q]]
<1> USE DEF Inv
<1> DEFINE rec == history[p][i]
           n == next[s][PartitionOf[q]]
           entry == store[s][DecodeKey[q]]
<1>1. /\ i \in live[p] /\ i \in 1..Len(history[p]) /\ i >= next[r][p] /\ i \in Nat
      /\ rec \in Record /\ PartitionOf[rec.key] = p
      /\ next'[r][p] = i + 1
      /\ \A t \in Replica, o \in Partition :
           t # r \/ o # p => next'[t][o] = next[t][o]
      /\ store'[r] = Fold(store[r], rec)
      /\ \A t \in Replica : t # r => store'[t] = store[t]
  BY ReadsOf
<1>2. q \in RawKey /\ PartitionOf[q] \in Partition /\ DecodeKey[q] \in Key
      /\ Of(q) \subseteq Nat
  BY ProjectionAssumption DEF Decodable, Of
<1>3. n \in Nat /\ store[s] \in [Key -> Payload \cup {Absent}]
  BY <1>2 DEF TypeInv
<1>4. UNCHANGED <<history, live, topicVars>>  BY DEF Reads, topicVars
<1>5. store'[s][DecodeKey[q]] = entry
  <2>1. CASE s # r  BY <1>1, <2>1
  <2>2. CASE s = r
    <3> HIDE DEF rec
    <3> QED  BY <1>1, <1>3, <2>2, FoldOther DEF rec
  <2> QED  BY <2>1, <2>2
<1>6. CASE s # r \/ PartitionOf[q] # p
  <2>1. next'[s][PartitionOf[q]] = n  BY <1>1, <1>2, <1>6
  <2> QED  BY <1>4, <1>5, <2>1, TopicKept DEF FoldedAt, Dropped, Left
<1>7. CASE s = r /\ PartitionOf[q] = p
  <2>1. next'[s][PartitionOf[q]] = i + 1 /\ n <= i /\ rec.key # q
    BY <1>1, <1>7
  <2>2. ASSUME NEW l \in Of(q), Last(q, l), l < i + 1
        PROVE  entry = Left(At(q, l))
    <3>1. CASE l < n  BY <2>2, <3>1 DEF FoldedAt
    <3>2. CASE l >= n
      <4>1. l # i  BY <1>7, <2>1, <2>2 DEF Of
      <4>2. l \notin live[p]
        BY <1>1, <1>2, <1>7, <2>2, <3>2, <4>1 DEF Ahead, Reads
      <4>3. entry = Absent  BY <1>7, <2>2, <3>2, <4>2 DEF FoldedAt
      <4>4. At(q, l).payload = Null  BY <1>2, <1>7, <2>2, <4>2 DEF PurgedLast
      <4> QED  BY <4>3, <4>4, NullLeaves
    <3> QED  BY <1>2, <1>3, <3>1, <3>2
  <2>3. ASSUME NEW l \in Of(q), Last(q, l), l >= i + 1, l \notin live[PartitionOf[q]]
        PROVE  entry = Absent
    <3>1. l >= n  BY <1>1, <1>2, <1>3, <2>1, <2>3
    <3> QED  BY <2>3, <3>1 DEF FoldedAt
  <2>4. (\A l \in Of(q) : l >= i + 1) => entry = Absent
    <3>1. \A l \in Of(q) : l >= i + 1 => l >= n  BY <1>1, <1>2, <1>3, <2>1
    <3> QED  BY <3>1 DEF FoldedAt
  <2> QED
    BY <1>4, <1>5, <2>1, <2>2, <2>3, <2>4, TopicKept DEF FoldedAt, Dropped, Left
<1> QED  BY <1>5, <1>6, <1>7

\* Under the key it spells it leaves what it says.
LEMMA ReadsOwn ==
    ASSUME Inv, NEW r \in Replica, NEW p \in Partition, NEW i, Reads(r, p, i),
           NEW q \in Decodable, history[p][i].key = q,
           Dropped(q) => store[r][DecodeKey[q]] = Absent
    PROVE  /\ FoldedAt(r, q)'
           /\ i \in Of(q) /\ PartitionOf[q] = p
           /\ store'[r][DecodeKey[q]] = Left(At(q, i))
<1> USE DEF Inv
<1> DEFINE rec == history[p][i]
<1>1. /\ i \in live[p] /\ i \in 1..Len(history[p]) /\ i \in Nat
      /\ rec \in Record /\ PartitionOf[q] = p
      /\ next'[r][p] = i + 1
      /\ store'[r] = Fold(store[r], rec)
  BY ReadsOf
<1>2. q \in RawKey /\ Of(q) \subseteq Nat  BY DEF Decodable, Of
<1>3. i \in Of(q) /\ At(q, i) = rec  BY <1>1 DEF Of, At
<1>4. store'[r][DecodeKey[q]] = Left(rec) /\ (Dropped(q) => Left(rec) = Absent)
  <2>1. store[r] \in [Key -> Payload \cup {Absent}]  BY DEF TypeInv
  <2> HIDE DEF rec
  <2> QED  BY <1>1, <2>1, FoldOwn DEF rec
<1>5. ASSUME NEW l \in Of(q), Last(q, l)
      PROVE  (l < i + 1 => l = i) /\ l \in live[p]
  BY <1>1, <1>2, <1>3, <1>5 DEF Last, PurgedLast
<1>6. ~(i >= i + 1)  BY <1>1
<1>7. UNCHANGED topicVars  BY DEF Reads, topicVars
<1>8. live' = live /\ Dropped(q)' = Dropped(q)  BY DEF Reads, Dropped
<1>9. FoldedAt(r, q)'
  BY <1>1, <1>3, <1>4, <1>5, <1>6, <1>7, <1>8, TopicKept DEF FoldedAt, Left
<1> QED  BY <1>1, <1>3, <1>4, <1>9

\* The end of a partition is an event, not a record.
LEMMA EventInv ==
    ASSUME Inv, NEW r \in Replica, NEW p \in Partition,
           ReachEnd(r, p) \/ PollEOF(r, p)
    PROVE  Inv' /\ Kept
<1>1. CASE ReachEnd(r, p)
  <2>1. TypeInv'  BY <1>1 DEF Inv, TypeInv, ReachEnd, topicVars
  <2> QED  BY <1>1, <2>1, QuietInv DEF ReachEnd, Running
<1>2. CASE PollEOF(r, p)
  <2>1. due' \in [Replica -> SUBSET Partition]
        /\ remaining' \in [Replica -> SUBSET Partition]
    BY <1>2, ZenonT(60) DEF Inv, TypeInv, PollEOF
  <2>2. life' \in [Replica -> {"down", "warmup", "steady", "failed"}]
        /\ \A s \in Replica : s # r => life'[s] = life[s]
    BY <1>2 DEF Inv, TypeInv, PollEOF
  <2>3. TypeInv'  BY <1>2, <2>1, <2>2 DEF Inv, TypeInv, PollEOF, topicVars
  <2>4. \A s \in Replica : Running(s)' => Running(s)
    BY <1>2, <2>2 DEF Running, PollEOF
  <2> QED  BY <1>2, <2>3, <2>4, QuietInv DEF PollEOF
<1> QED  BY <1>1, <1>2

\* An empty topic and replicas that are down satisfy the invariant.
LEMMA InitInv == CleanBinding /\ Init => Inv
<1> SUFFICES ASSUME CleanBinding, Init PROVE Inv
  OBVIOUS
<1>1. TypeInv
  BY DEF Init, TypeInv, Beginning, Nothing
<1>2. \A q \in RawKey : Of(q) = {}
  BY ProjectionAssumption DEF Init, Of
<1>3. LogOK /\ HasLast /\ PurgedLast
  BY <1>2 DEF Init, LogOK, HasLast, PurgedLast
<1>4. InRange  BY DEF Init, InRange, Beginning
<1> QED  BY <1>1, <1>3, <1>4 DEF Inv

-----------------------------------------------------------------------------
(***************************************************************************)
(* What an entry is worth.                                                 *)
(***************************************************************************)

\* Raw key q stands for x as of the first n records of its partition: CurrentBy
\* as a relation, which says that the last of them exists.
Stands(q, n, x) ==
    \/ x = Absent /\ \A j \in Of(q) : ~(j <= n)
    \/ \E i \in Of(q) :
         /\ i <= n
         /\ \A j \in Of(q) : j <= n => j <= i
         /\ x = Left(At(q, i))

\* CurrentBy is that relation as a function.
LEMMA StandsCurrent ==
    ASSUME TypeInv, NEW q \in RawKey, NEW n \in Nat, NEW x, Stands(q, n, x)
    PROVE  x = CurrentBy(q, n)
BY CurrentByLast, CurrentByNone DEF Stands

\* A replica that has read a partition to its end has, of every key of it, what
\* the key stands for now.
LEMMA AtEnd ==
    ASSUME Inv, NEW r \in Replica, NEW q \in Decodable, FoldedAt(r, q),
           ReadToEnd(r, PartitionOf[q])
    PROVE  Stands(q, Len(history[PartitionOf[q]]), store[r][DecodeKey[q]])
<1> USE DEF Inv
<1> DEFINE p == PartitionOf[q]
           n == next[r][p]
           entry == store[r][DecodeKey[q]]
<1>1. q \in RawKey /\ p \in Partition /\ FoldedAt(r, q)
  BY ProjectionAssumption DEF Decodable
<1>2. n \in Nat /\ Len(history[p]) \in Nat  BY <1>1 DEF TypeInv
<1>3. Of(q) \subseteq 1..Len(history[p])  BY DEF Of
<1>4. CASE Of(q) = {}
  BY <1>1, <1>4 DEF FoldedAt, Stands
<1>5. CASE Of(q) # {}
  <2>1. PICK i \in Of(q) : Last(q, i)  BY <1>1, <1>5 DEF HasLast
  <2>2. i \in Nat /\ i <= Len(history[p])  BY <1>2, <1>3
  <2>3. entry = Left(At(q, i))
    <3>1. CASE i < n  BY <1>1, <2>1, <3>1 DEF FoldedAt
    <3>2. CASE i >= n
      <4>1. i \notin live[p]  BY <3>2 DEF ReadToEnd, Ahead
      <4>2. entry = Absent  BY <1>1, <2>1, <3>2, <4>1 DEF FoldedAt
      <4>3. At(q, i).payload = Null  BY <1>1, <2>1, <4>1 DEF PurgedLast
      <4> QED  BY <4>2, <4>3, NullLeaves
    <3> QED  BY <1>2, <2>2, <3>1, <3>2
  <2> QED  BY <2>1, <2>2, <2>3 DEF Stands, Last
<1> QED  BY <1>4, <1>5

-----------------------------------------------------------------------------
(***************************************************************************)
(* The invariant.  Once a partition has reported its end, everything ahead *)
(* was produced after the assignment, and so was whatever decides an entry *)
(* from then on.                                                           *)
(***************************************************************************)

Caught(r, p) == Running(r) /\ (p \in due[r] \/ p \notin remaining[r])

AheadNew ==
    \A r \in Replica, p \in Partition :
        Caught(r, p) => \A i \in Ahead(r, p) : i > base[r][p]

Since(r, q) ==
    LET p == PartitionOf[q] IN
    Caught(r, p) =>
        \E n \in base[r][p]..Len(history[p]) : Stands(q, n, store[r][DecodeKey[q]])

Entry(r, q) == FoldedAt(r, q) /\ Since(r, q)

Entries ==
    \A r \in Replica, k \in Key :
        Running(r) /\ Spelled(k) # {} => \E q \in Spelled(k) : Entry(r, q)

Detected == \A r \in Replica : life[r] = "steady" => remaining[r] = {}

TableInv == Inv /\ AheadNew /\ Detected /\ Entries

\* A step after which an entry is as fresh as it was.
SinceKept ==
    \A r \in Replica, q \in Decodable :
        Running(r)' /\ (Running(r) => Entry(r, q)) => Since(r, q)'

\* What spells a key decodes.
LEMMA SpelledDecodes ==
    ASSUME NEW k \in Key, NEW q \in Spelled(k)
    PROVE  q \in Decodable /\ q \in RawKey /\ DecodeKey[q] = k
BY ProjectionAssumption DEF Spelled, Decodable

\* A step that keeps every entry keeps the invariant.
LEMMA SameWitness ==
    ASSUME TableInv, Inv', Kept, AheadNew', SinceKept, Detected'
    PROVE  TableInv'
<1> SUFFICES ASSUME NEW r \in Replica, NEW k \in Key, Running(r)', Spelled(k) # {}
             PROVE  \E q \in Spelled(k) : Entry(r, q)'
  BY DEF TableInv, Entries, Spelled
<1>1. PICK q \in Spelled(k) : Running(r) => Entry(r, q)
  BY DEF TableInv, Entries
<1>2. q \in Decodable  BY SpelledDecodes
<1>3. FoldedAt(r, q)'  BY <1>1, <1>2 DEF Kept, KeepsEntry, Entry
<1>4. Since(r, q)'  BY <1>1, <1>2 DEF SinceKept
<1> QED  BY <1>3, <1>4 DEF Entry

\* Whoever had seen the end of a partition has seen it still, while the log
\* only shrinks and the entries stay.
LEMMA FreshKept ==
    ASSUME AheadNew, history' = history,
           \A s \in Replica, o \in Partition : Caught(s, o)' =>
             /\ Caught(s, o) /\ Ahead(s, o)' \subseteq Ahead(s, o)
             /\ base'[s] = base[s] /\ store'[s] = store[s]
    PROVE  AheadNew' /\ SinceKept
<1>1. AheadNew'  BY DEF AheadNew
<1>2. \A q, n, x : Stands(q, n, x)' = Stands(q, n, x)
  BY DEF Stands, Of, At, Left
<1>3. SinceKept
  <2> SUFFICES ASSUME NEW s \in Replica, NEW q \in Decodable,
                      Running(s) => Since(s, q), Caught(s, PartitionOf[q])'
               PROVE  \E n \in base'[s][PartitionOf[q]]..Len(history'[PartitionOf[q]]) :
                        Stands(q, n, store[s][DecodeKey[q]])'
    BY DEF SinceKept, Since, Entry
  <2>1. PartitionOf[q] \in Partition  BY ProjectionAssumption DEF Decodable
  <2>2. Caught(s, PartitionOf[q]) /\ base'[s] = base[s] /\ store'[s] = store[s]
    BY <2>1
  <2>3. \E n \in base[s][PartitionOf[q]]..Len(history[PartitionOf[q]]) :
          Stands(q, n, store[s][DecodeKey[q]])
    BY <2>2 DEF Since, Caught
  <2> QED  BY <1>2, <2>2, <2>3
<1> QED  BY <1>1, <1>3

\* What is produced is ahead of everyone, and after every assignment.
LEMMA ProduceFresh ==
    ASSUME TableInv, NEW q \in RawKey, NEW v \in Payload, Produce(q, v)
    PROVE  TableInv'
<1> DEFINE p == PartitionOf[q]
           e == Len(history[p]) + 1
<1>1. Inv /\ TypeInv  BY DEF TableInv, Inv
<1>2. UNCHANGED <<life, next, due, remaining, store, base>>
  BY DEF Produce, replicaVars
<1>3. /\ p \in Partition
      /\ \A o \in RawKey : o # q => Of(o)' = Of(o)
      /\ Of(q)' = Of(q) \cup {e}
      /\ \A o \in RawKey : \A i \in Of(o) : At(o, i)' = At(o, i)
      /\ live' = [live EXCEPT ![p] = @ \cup {e}]
      /\ Len(history'[p]) = e
      /\ \A o \in Partition : o # p => history'[o] = history[o]
  BY <1>1, ProduceOf
<1>4. Detected'  BY <1>2 DEF TableInv, Detected
<1>5. \A o \in Partition : /\ Len(history[o]) \in Nat /\ Len(history'[o]) \in Nat
                           /\ Len(history[o]) <= Len(history'[o])
  <2>1. \A o \in Partition : Len(history[o]) \in Nat  BY <1>1 DEF TypeInv
  <2> QED  BY <1>3, <2>1
<1> HIDE DEF p
<1>6. ASSUME NEW o \in RawKey, NEW n \in Nat, n <= Len(history[PartitionOf[o]]),
             NEW x, Stands(o, n, x)
      PROVE  Stands(o, n, x)'
  <2>1. \A j \in Of(o)' : j \in Of(o) \/ ~(j <= n)
    BY <1>3, <1>5, <1>6 DEF p
  <2>2. \A j \in Of(o) : j \in Of(o)' /\ At(o, j)' = At(o, j)  BY <1>3
  <2> QED  BY <1>6, <2>1, <2>2 DEF Stands, Left
<1>7. \A r \in Replica, o \in Partition :
        base[r][o] \in Nat /\ base[r][o] <= Len(history[o])
  BY <1>1 DEF Inv, InRange, TypeInv
<1>8. \A r \in Replica, o \in Partition : Caught(r, o)' = Caught(r, o)
  BY <1>2 DEF Caught, Running
<1>9. AheadNew'
  <2> SUFFICES ASSUME NEW r \in Replica, NEW o \in Partition, Caught(r, o)
               PROVE  \A i \in Ahead(r, o)' : i > base[r][o]
    BY <1>2, <1>8 DEF AheadNew
  <2>1. \A i \in live'[o] : i \in live[o] \/ i > Len(history[o])
    BY <1>1, <1>3, <1>5 DEF TypeInv
  <2>2. \A i \in live[o] : i >= next[r][o] => i > base[r][o]
    BY DEF TableInv, AheadNew, Ahead
  <2>3. live'[o] \subseteq Nat  BY <1>1, <1>3, <1>5 DEF TypeInv
  <2> QED  BY <1>2, <1>5, <1>7, <2>1, <2>2, <2>3 DEF Ahead
<1>10. SinceKept
  <2> SUFFICES ASSUME NEW r \in Replica, NEW k \in Decodable,
                      Since(r, k), Caught(r, PartitionOf[k])
               PROVE  \E n \in base[r][PartitionOf[k]]..Len(history'[PartitionOf[k]]) :
                        Stands(k, n, store[r][DecodeKey[k]])'
    <3>1. \A r \in Replica : Running(r)' = Running(r)  BY <1>2 DEF Running
    <3>2. \A k \in Decodable : PartitionOf[k] \in Partition
      BY ProjectionAssumption DEF Decodable
    <3> QED  BY <1>2, <1>8, <3>1, <3>2 DEF SinceKept, Since, Entry
  <2> DEFINE o == PartitionOf[k]
             x == store[r][DecodeKey[k]]
  <2>1. k \in RawKey /\ o \in Partition  BY ProjectionAssumption DEF Decodable
  <2>2. PICK n \in base[r][o]..Len(history[o]) : Stands(k, n, x)  BY DEF Since
  <2>3. n \in Nat /\ n <= Len(history[o]) /\ n \in base[r][o]..Len(history'[o])
    BY <1>5, <1>7, <2>1
  <2>4. x' = x  BY <1>2
  <2> HIDE DEF x
  <2>5. ASSUME NEW y, Stands(k, n, y) PROVE Stands(k, n, y)'
    BY <1>6, <2>1, <2>3, <2>5
  <2>6. Stands(k, n, x)'  BY <2>2, <2>4, <2>5
  <2> QED  BY <2>3, <2>6 DEF x
<1> QED  BY <1>1, <1>4, <1>9, <1>10, ProduceInv, SameWitness

\* Cleaning takes nothing from what a replica has and adds nothing ahead.
LEMMA CleanFresh ==
    ASSUME TableInv, NEW p \in Partition, NEW i \in Offset,
           Compact(p, i) \/ Purge(p, i)
    PROVE  TableInv'
<1>1. UNCHANGED <<history, life, next, due, remaining, store, base>>
  BY DEF Compact, Purge, replicaVars
<1>2. \A o \in Partition : live'[o] \subseteq live[o]
  BY ZenonT(60) DEF Compact, Purge, TableInv, Inv, TypeInv
<1>3. Detected'  BY <1>1 DEF TableInv, Detected
<1>4. \A s \in Replica, o \in Partition :
        Caught(s, o)' = Caught(s, o) /\ Ahead(s, o)' \subseteq Ahead(s, o)
  BY <1>1, <1>2 DEF Caught, Running, Ahead
<1>5. AheadNew' /\ SinceKept  BY <1>1, <1>4, FreshKept DEF TableInv
<1>6. Inv' /\ Kept  BY CompactInv, PurgeInv DEF TableInv
<1> QED  BY <1>3, <1>5, <1>6, SameWitness

\* A replica that starts has reported no end; one that dies serves no longer.
LEMMA ResetFresh ==
    ASSUME TableInv, NEW r \in Replica, Start(r) \/ Die(r)
    PROVE  TableInv'
<1>1. /\ UNCHANGED <<history, live>>
      /\ \A s \in Replica : s # r =>
           /\ life'[s] = life[s] /\ next'[s] = next[s] /\ due'[s] = due[s]
           /\ remaining'[s] = remaining[s] /\ store'[s] = store[s]
           /\ base'[s] = base[s]
  BY DEF Start, Die, topicVars, TableInv, Inv, TypeInv
<1>2. \/ life'[r] = "down"
      \/ life'[r] = "warmup" /\ due'[r] = {} /\ remaining'[r] = Partition
  BY DEF Start, Die, TableInv, Inv, TypeInv
<1>3. Detected'  BY <1>1, <1>2 DEF TableInv, Detected
<1>4. \A s \in Replica, o \in Partition : Caught(s, o)' =>
        s # r /\ Caught(s, o) /\ Ahead(s, o)' \subseteq Ahead(s, o)
  BY <1>1, <1>2 DEF Caught, Running, Ahead
<1>5. AheadNew' /\ SinceKept  BY <1>1, <1>4, FreshKept DEF TableInv
<1>6. Inv' /\ Kept  BY StartInv, DieInv DEF TableInv
<1> QED  BY <1>3, <1>5, <1>6, SameWitness

\* A record read after the end of its partition was produced after the
\* assignment, and decides its entry.
LEMMA PollRecordFresh ==
    ASSUME TableInv, NEW r \in Replica, NEW p \in Partition, PollRecord(r, p)
    PROVE  TableInv'
<1> USE DEF TableInv
<1>1. PICK i : Reads(r, p, i)  BY DEF PollRecord, Reads, topicVars
<1> DEFINE rec == history[p][i]
<1>2. /\ i \in 1..Len(history[p]) /\ i >= next[r][p] /\ i \in Nat
      /\ rec \in Record /\ PartitionOf[rec.key] = p
      /\ next'[r][p] = i + 1
      /\ \A s \in Replica, o \in Partition :
           s # r \/ o # p => next'[s][o] = next[s][o]
  BY <1>1, ReadsOf
<1>3. UNCHANGED <<history, live, life, due, remaining, base>>  BY <1>1 DEF Reads
<1>4. Inv'  BY <1>1, ReadsInv
<1>5. Detected'  BY <1>3 DEF Detected
<1>6. \A s \in Replica, o \in Partition :
        Caught(s, o)' = Caught(s, o) /\ Running(s)' = Running(s)
  BY <1>3 DEF Caught, Running
<1>7. ASSUME NEW s \in Replica, NEW o \in Partition
      PROVE  Ahead(s, o)' \subseteq Ahead(s, o)
  <2>1. next[s][o] \in Nat /\ live[o] \subseteq Nat  BY DEF Inv, TypeInv
  <2>2. next'[s][o] \in Nat /\ next[s][o] <= next'[s][o]  BY <1>2, <2>1
  <2> QED  BY <1>3, <2>1, <2>2 DEF Ahead
<1>8. AheadNew'  BY <1>3, <1>6, <1>7 DEF AheadNew
<1>9. \A q, n, x : Stands(q, n, x)' = Stands(q, n, x)
  BY <1>3 DEF Stands, Of, At, Left
<1>10. ASSUME NEW s \in Replica, NEW k \in Key, NEW q \in Spelled(k), Entry(s, q)
       PROVE  \E o \in Spelled(k) : Entry(s, o)'
  <2>1. q \in Decodable /\ DecodeKey[q] = k  BY SpelledDecodes
  <2>2. PartitionOf[q] \in Partition  BY <2>1, ProjectionAssumption DEF Decodable
  <2>3. CASE s # r \/ DecodeKey[rec.key] # k
    <3>1. FoldedAt(s, q)' /\ store'[s][DecodeKey[q]] = store[s][DecodeKey[q]]
      BY <1>1, <1>10, <2>1, <2>3, ReadsKeeps DEF Entry
    <3>2. Since(s, q)'
      BY <1>3, <1>6, <1>9, <1>10, <2>2, <3>1 DEF Since, Entry
    <3> QED  BY <3>1, <3>2 DEF Entry
  <2>4. CASE s = r /\ DecodeKey[rec.key] = k
    <3>1. PICK o \in Spelled(k) : o = rec.key
      BY <1>2, <2>4 DEF Record, Spelled
    <3>2. o \in Decodable /\ DecodeKey[o] = k  BY SpelledDecodes
    <3>3. Dropped(o) => store[r][DecodeKey[o]] = Absent
      BY <1>10, <2>1, <2>4, <3>2 DEF Entry, FoldedAt, Dropped
    <3>4. /\ FoldedAt(r, o)' /\ i \in Of(o) /\ PartitionOf[o] = p
          /\ store'[r][DecodeKey[o]] = Left(At(o, i))
      BY <1>1, <3>1, <3>2, <3>3, ReadsOwn
    <3>5. Since(r, o)'
      <4> SUFFICES ASSUME Caught(r, p)
                   PROVE  \E n \in base[r][p]..Len(history[p]) :
                            Stands(o, n, store'[r][DecodeKey[o]])
        BY <1>3, <1>6, <1>9, <3>4 DEF Since
      <4>1. i > base[r][p] /\ base[r][p] \in Nat /\ Len(history[p]) \in Nat
        BY <1>1 DEF Reads, AheadNew, Inv, TypeInv
      <4>2. i \in base[r][p]..Len(history[p])  BY <1>2, <4>1
      <4>3. Stands(o, i, Left(At(o, i)))  BY <1>2, <3>4 DEF Stands
      <4> QED  BY <3>4, <4>2, <4>3
    <3> QED  BY <2>4, <3>1, <3>4, <3>5 DEF Entry
  <2> QED  BY <2>3, <2>4
<1>11. Entries'
  <2> SUFFICES ASSUME NEW s \in Replica, NEW k \in Key, Running(s), Spelled(k) # {}
               PROVE  \E o \in Spelled(k) : Entry(s, o)'
    BY <1>3 DEF Entries, Spelled, Running
  <2>1. PICK q \in Spelled(k) : Entry(s, q)  BY DEF Entries
  <2> QED  BY <1>10, <2>1
<1> QED  BY <1>4, <1>5, <1>8, <1>11

\* At the end of a partition a replica has what there is.
LEMMA ReachEndFresh ==
    ASSUME TableInv, NEW r \in Replica, NEW p \in Partition, ReachEnd(r, p)
    PROVE  TableInv'
<1>1. Inv /\ TypeInv  BY DEF TableInv, Inv
<1>2. UNCHANGED <<history, live, life, next, remaining, store, base>>
  BY DEF ReachEnd, topicVars
<1>3. Detected'  BY <1>2 DEF TableInv, Detected
<1>4. \A s \in Replica, o \in Partition :
        /\ Caught(s, o)' => Caught(s, o) \/ (s = r /\ o = p)
        /\ Ahead(s, o)' = Ahead(s, o)
        /\ Running(s)' = Running(s)
  BY <1>1, <1>2 DEF ReachEnd, TypeInv, Caught, Running, Ahead
<1>5. Ahead(r, p) = {} /\ Running(r)  BY DEF ReachEnd
<1>6. AheadNew'  BY <1>2, <1>4, <1>5 DEF TableInv, AheadNew
<1>7. \A q, n, x : Stands(q, n, x)' = Stands(q, n, x)
  BY <1>2 DEF Stands, Of, At, Left
<1>8. SinceKept
  <2> SUFFICES ASSUME NEW s \in Replica, NEW q \in Decodable, Entry(s, q),
                      Caught(s, PartitionOf[q])'
               PROVE  \E n \in base[s][PartitionOf[q]]..Len(history[PartitionOf[q]]) :
                        Stands(q, n, store[s][DecodeKey[q]])
    BY <1>2, <1>4, <1>7 DEF SinceKept, Since
  <2>1. PartitionOf[q] \in Partition  BY ProjectionAssumption DEF Decodable
  <2>2. CASE Caught(s, PartitionOf[q])  BY <2>2 DEF Entry, Since
  <2>3. CASE s = r /\ PartitionOf[q] = p
    <3>1. base[r][p] \in Nat /\ Len(history[p]) \in Nat /\ base[r][p] <= Len(history[p])
      BY <1>1 DEF Inv, InRange, TypeInv
    <3>2. Stands(q, Len(history[p]), store[r][DecodeKey[q]])
      BY <1>1, <1>5, <2>3, AtEnd DEF ReadToEnd, Entry
    <3> QED  BY <2>3, <3>1, <3>2
  <2> QED  BY <1>4, <2>1, <2>2, <2>3
<1>9. Inv' /\ Kept  BY <1>1, EventInv
<1> QED  BY <1>3, <1>6, <1>8, <1>9, SameWitness

\* The end that is polled was reached before, and the last of them is what
\* makes a replica serve.
LEMMA PollEOFFresh ==
    ASSUME TableInv, NEW r \in Replica, NEW p \in Partition, PollEOF(r, p)
    PROVE  TableInv'
<1>1. Inv /\ TypeInv  BY DEF TableInv, Inv
<1>2. UNCHANGED <<history, live, next, store, base>> /\ Running(r) /\ p \in due[r]
  BY DEF PollEOF, topicVars
<1>3. \A s \in Replica : s # r =>
        life'[s] = life[s] /\ due'[s] = due[s] /\ remaining'[s] = remaining[s]
  BY <1>1 DEF PollEOF, TypeInv
<1>4. due'[r] = due[r] \ {p} /\ remaining'[r] \in {remaining[r], remaining[r] \ {p}}
  BY <1>1 DEF PollEOF, TypeInv
<1>5. life'[r] = "steady" => remaining'[r] = {}
  <2>1. CASE life[r] = "steady"
    BY <2>1 DEF PollEOF, TableInv, Detected
  <2>2. CASE life[r] = "warmup" /\ remaining'[r] # {} /\ UNCHANGED life
    BY <2>2
  <2> QED  BY <2>1, <2>2 DEF PollEOF
<1>6. Detected'  BY <1>3, <1>5 DEF TableInv, Detected
<1>7. \A s \in Replica, o \in Partition :
        (Caught(s, o)' => Caught(s, o)) /\ Ahead(s, o)' = Ahead(s, o)
  <2>1. ASSUME NEW o \in Partition PROVE Caught(r, o)' => Caught(r, o)
    BY <1>2, <1>4 DEF Caught
  <2>2. ASSUME NEW s \in Replica, s # r, NEW o \in Partition
        PROVE  Caught(s, o)' => Caught(s, o)
    BY <1>3, <2>2 DEF Caught, Running
  <2>3. \A s \in Replica, o \in Partition : Ahead(s, o)' = Ahead(s, o)
    BY <1>2 DEF Ahead
  <2> QED  BY <2>1, <2>2, <2>3
<1>8. AheadNew' /\ SinceKept  BY <1>2, <1>7, FreshKept DEF TableInv
<1>9. Inv' /\ Kept  BY <1>1, EventInv
<1> QED  BY <1>6, <1>8, <1>9, SameWitness

-----------------------------------------------------------------------------
(***************************************************************************)
(* The theorems.                                                           *)
(***************************************************************************)

\* Every step of a producer, the broker or a replica keeps the invariant.
LEMMA NextInv == TableInv /\ [Next]_vars => TableInv'
<1> SUFFICES ASSUME TableInv, [Next]_vars PROVE TableInv'
  OBVIOUS
<1>1. ASSUME NEW q \in RawKey, NEW v \in Payload, Produce(q, v) PROVE TableInv'
  BY <1>1, ProduceFresh
<1>2. ASSUME NEW p \in Partition, NEW i \in Offset, Compact(p, i) \/ Purge(p, i)
      PROVE  TableInv'
  BY <1>2, CleanFresh
<1>3. ASSUME NEW r \in Replica, Start(r) \/ Die(r) PROVE TableInv'
  BY <1>3, ResetFresh
<1>4. ASSUME NEW r \in Replica, NEW p \in Partition, PollRecord(r, p) PROVE TableInv'
  BY <1>4, PollRecordFresh
<1>5. ASSUME NEW r \in Replica, NEW p \in Partition, ReachEnd(r, p) PROVE TableInv'
  BY <1>5, ReachEndFresh
<1>6. ASSUME NEW r \in Replica, NEW p \in Partition, PollEOF(r, p) PROVE TableInv'
  BY <1>6, PollEOFFresh
<1>7. CASE UNCHANGED vars
  <2>1. UNCHANGED <<history, live, life, next, due, remaining, store, base>>
    BY <1>7 DEF vars, topicVars, replicaVars
  <2>2. Inv' /\ Kept
    <3>1. TypeInv'  BY <2>1 DEF TableInv, Inv, TypeInv
    <3> QED  BY <2>1, <3>1, QuietInv DEF topicVars, Running, TableInv
  <2>3. Detected'  BY <2>1 DEF TableInv, Detected
  <2>4. \A s \in Replica, o \in Partition :
          Caught(s, o)' = Caught(s, o) /\ Ahead(s, o)' = Ahead(s, o)
    BY <2>1 DEF Caught, Running, Ahead
  <2>5. AheadNew' /\ SinceKept  BY <2>1, <2>4, FreshKept DEF TableInv
  <2> QED  BY <2>2, <2>3, <2>5, SameWitness
<1> QED
  BY <1>1, <1>2, <1>3, <1>4, <1>5, <1>6, <1>7 DEF Next, Poll

\* The invariant holds throughout (registration.go:123-184, loader.go:297-353).
THEOREM InvHolds == CleanBinding /\ Spec => []TableInv
<1>1. CleanBinding /\ Init => TableInv
  BY InitInv DEF Init, TableInv, AheadNew, Entries, Detected, Caught, Running
<1> QED  BY <1>1, NextInv, PTL DEF Spec

\* A replica that has read all there is about a key holds the current value of
\* one of the raw keys that spell it, for any topic, any compaction and any
\* number of restarts (developer-doc.md:15-18, codec.go:26).
THEOREM TableAtEnd == CleanBinding /\ Spec => []CurrentAtEnd
<1>1. ASSUME TableInv PROVE CurrentAtEnd
  <2> SUFFICES ASSUME NEW r \in Replica, NEW k \in Key, Spelled(k) # {},
                      \A q \in Spelled(k) : ReadToEnd(r, PartitionOf[q])
               PROVE  \E q \in Spelled(k) : store[r][k] = Current(q)
    BY DEF CurrentAtEnd
  <2>1. Running(r)  BY DEF ReadToEnd
  <2>2. PICK q \in Spelled(k) : Entry(r, q)  BY <1>1, <2>1 DEF TableInv, Entries
  <2>3. q \in Decodable /\ q \in RawKey /\ DecodeKey[q] = k  BY SpelledDecodes
  <2>4. Stands(q, Len(history[PartitionOf[q]]), store[r][k])
    BY <1>1, <2>2, <2>3, AtEnd DEF Entry, TableInv
  <2>5. TypeInv /\ Len(history[PartitionOf[q]]) \in Nat
    BY <1>1, <2>3, ProjectionAssumption DEF TableInv, Inv, TypeInv
  <2>6. store[r][k] = Current(q)  BY <2>3, <2>4, <2>5, StandsCurrent DEF Current
  <2> QED  BY <2>6
<1> QED  BY <1>1, InvHolds, PTL

\* A replica that serves has of every key a value at least as recent as its
\* assignment (driver/event.go:39-41, loader.go:271-273).
THEOREM FreshServing == CleanBinding /\ Spec => []FreshOnceSteady
<1>1. ASSUME TableInv PROVE FreshOnceSteady
  <2> SUFFICES ASSUME NEW r \in Replica, NEW k \in Key,
                      life[r] = "steady", Spelled(k) # {}
               PROVE  \E q \in Spelled(k) :
                        \E n \in base[r][PartitionOf[q]]..Len(history[PartitionOf[q]]) :
                          store[r][k] = CurrentBy(q, n)
    BY DEF FreshOnceSteady
  <2>1. PICK q \in Spelled(k) : Entry(r, q)
    BY <1>1 DEF TableInv, Entries, Running
  <2> DEFINE p == PartitionOf[q]
  <2>2. q \in RawKey /\ DecodeKey[q] = k /\ p \in Partition
    BY SpelledDecodes, ProjectionAssumption
  <2>3. Caught(r, p)  BY <1>1, <2>2 DEF TableInv, Caught, Detected, Running
  <2>4. PICK n \in base[r][p]..Len(history[p]) : Stands(q, n, store[r][k])
    BY <2>1, <2>2, <2>3 DEF Entry, Since
  <2>5. n \in Nat /\ TypeInv
    BY <1>1, <2>2 DEF TableInv, Inv, TypeInv
  <2>6. store[r][k] = CurrentBy(q, n)  BY <2>2, <2>4, <2>5, StandsCurrent
  <2> QED  BY <2>6
<1> QED  BY <1>1, InvHolds, PTL

-----------------------------------------------------------------------------
(***************************************************************************)
(* What holds of any binding, clean or not: the types, and what Start's    *)
(* decision about an empty topic means.                                    *)
(***************************************************************************)

\* The records on the topic are as many as the bound on producers allows.
Sized == IsFiniteSet(Produced) /\ Cardinality(Produced) <= MaxRecords

Placed == \A p \in Partition : \A i \in live[p] : i \in 1..Len(history[p])

Behind == \A r \in Replica, p \in Partition : next[r][p] <= Len(history[p]) + 1

\* What a warm-up was given is on the topic.
GivenPlaced == \A r \in Replica : \A d \in given[r] : d[2] \in 1..Len(history[d[1]])

AnyInv == TypeOK /\ Sized /\ Placed /\ Behind /\ GivenPlaced

\* The count that decides on an empty topic is above zero exactly when the
\* warm-up was given something to apply, and the decision stands by it.
Decided ==
    \A r \in Replica :
        /\ life[r] = "warmup" => (applied[r] > 0 <=> GaveSomething(r))
        /\ life[r] = "failed" => ~AllowEmpty /\ ~GaveSomething(r)
        /\ life[r] = "steady" => AllowEmpty \/ GaveSomething(r)

\* A partition alone is no longer than the topic.
LEMMA LenBound ==
    ASSUME NEW h \in [Partition -> Seq(Record)], NEW T,
           T = UNION {{<<p, i>> : i \in 1..Len(h[p])} : p \in Partition},
           IsFiniteSet(T), Cardinality(T) <= MaxRecords,
           NEW q \in Partition
    PROVE  Len(h[q]) <= MaxRecords
<1>1. PICK n \in Nat : n = Len(h[q])  OBVIOUS
<1> DEFINE f == [i \in 1..n |-> <<q, i>>]
<1>2. f \in Injection(1..n, T)
  <2>1. \A i \in 1..n : <<q, i>> \in T  BY <1>1
  <2>2. f \in [1..n -> T]  BY <2>1
  <2>3. \A i, j \in 1..n : f[i] = f[j] => i = j  OBVIOUS
  <2> QED  BY <2>2, <2>3 DEF Injection, IsInjective
<1> HIDE DEF f
<1>3. Cardinality(1..n) <= Cardinality(T)  BY <1>2, FS_Injection
<1>4. Cardinality(1..n) = IF 1 > n THEN 0 ELSE n - 1 + 1  BY FS_Interval
<1>5. Cardinality(1..n) = n  BY <1>4
<1>6. Cardinality(T) \in Nat  BY FS_CardinalityType
<1> QED  BY <1>1, <1>3, <1>5, <1>6, ProjectionAssumption

\* A topic that grows by a record.
LEMMA AnyProduce ==
    ASSUME AnyInv, NEW q \in RawKey, NEW v \in Payload, Produce(q, v)
    PROVE  /\ AnyInv'
           /\ \A p \in Partition : \A i \in 1..Len(history[p]) :
                history'[p][i] = history[p][i]
<1> DEFINE p == PartitionOf[q]
           e == Len(history[p]) + 1
           rec == [key |-> q, payload |-> v]
<1> USE DEF AnyInv
<1>1. p \in Partition /\ rec \in Record /\ history[p] \in Seq(Record)
  BY ProjectionAssumption DEF TypeOK, Record
<1>2. /\ history'[p] = Append(history[p], rec)
      /\ \A o \in Partition : o # p => history'[o] = history[o]
  BY <1>1 DEF Produce, TypeOK
<1>3. e \in Nat \ {0} /\ Len(history'[p]) = e /\ e \in 1..e
  BY <1>1, <1>2
<1>4. \A o \in Partition : \A i \in 1..Len(history[o]) :
        i \in 1..Len(history'[o]) /\ history'[o][i] = history[o][i]
  <2>1. \A i \in 1..Len(history[p]) : i \in 1..e /\ history'[p][i] = history[p][i]
    BY <1>1, <1>2
  <2> HIDE DEF e, p
  <2> QED  BY <1>2, <1>3, <2>1
<1>5. UNCHANGED replicaVars  BY DEF Produce
<1>6. history' \in [Partition -> Seq(Record)]
  BY <1>1 DEF Produce, TypeOK
<1>7. Sized'
  <2>1. \A o \in Partition : 1..Len(history'[o]) =
          IF o = p THEN 1..Len(history[p]) \cup {e} ELSE 1..Len(history[o])
    <3>1. 1..e = 1..Len(history[p]) \cup {e}  BY <1>1
    <3> HIDE DEF e, p
    <3> QED  BY <1>2, <1>3, <3>1
  <2>2. Produced' = Produced \cup {<<p, e>>}
    <3> HIDE DEF e, p
    <3>1. Produced' = UNION {{<<o, i>> : i \in 1..Len(history'[o])} : o \in Partition}
      BY DEF Produced
    <3>2. ASSUME NEW x \in Produced' PROVE x \in Produced \cup {<<p, e>>}
      <4>1. PICK o \in Partition : \E i \in 1..Len(history'[o]) : x = <<o, i>>
        BY <3>1, <3>2
      <4>2. PICK i \in 1..Len(history'[o]) : x = <<o, i>>  BY <4>1
      <4>3. i \in 1..Len(history[o]) \/ (o = p /\ i = e)  BY <2>1, <4>2
      <4> QED  BY <4>2, <4>3 DEF Produced
    <3>3. ASSUME NEW x \in Produced \cup {<<p, e>>} PROVE x \in Produced'
      <4>1. CASE x = <<p, e>>  BY <1>1, <1>3, <3>1, <4>1
      <4>2. CASE x \in Produced
        <5>1. PICK o \in Partition : \E i \in 1..Len(history[o]) : x = <<o, i>>
          BY <4>2 DEF Produced
        <5>2. PICK i \in 1..Len(history[o]) : x = <<o, i>>  BY <5>1
        <5>3. i \in 1..Len(history'[o])  BY <1>4
        <5> QED  BY <3>1, <5>2, <5>3
      <4> QED  BY <3>3, <4>1, <4>2
    <3> QED  BY <3>2, <3>3
  <2>3. IsFiniteSet(Produced) /\ Cardinality(Produced) < MaxRecords
        /\ Cardinality(Produced) \in Nat
    BY FS_CardinalityType DEF Sized, Produce
  <2>4. /\ IsFiniteSet(Produced')
        /\ Cardinality(Produced') \in {Cardinality(Produced), Cardinality(Produced) + 1}
    BY <2>2, <2>3, FS_AddElement
  <2>5. Cardinality(Produced') <= MaxRecords
    BY <2>3, <2>4, ProjectionAssumption
  <2> QED  BY <2>4, <2>5 DEF Sized
<1>8. e <= MaxRecords
  <2>1. Produced' = UNION {{<<o, i>> : i \in 1..Len(history'[o])} : o \in Partition}
    BY DEF Produced
  <2>2. Len(history'[p]) <= MaxRecords
    BY <1>1, <1>6, <1>7, <2>1, LenBound DEF Sized
  <2> QED  BY <1>3, <2>2
<1>9. live' \in [Partition -> SUBSET Offset]
  <2>1. e \in Offset  BY <1>3, <1>8, ProjectionAssumption DEF Offset
  <2>2. live' = [live EXCEPT ![p] = @ \cup {e}]  BY DEF Produce
  <2> HIDE DEF e, p
  <2> QED  BY <1>1, <2>1, <2>2 DEF TypeOK
<1>10. TypeOK'  BY <1>5, <1>6, <1>9 DEF TypeOK, replicaVars
<1>11. Placed'
  <2>1. live' = [live EXCEPT ![p] = @ \cup {e}]  BY DEF Produce
  <2> HIDE DEF e, p
  <2>2. \A o \in Partition : live'[o] = IF o = p THEN live[p] \cup {e} ELSE live[o]
    BY <1>1, <2>1 DEF TypeOK
  <2> QED  BY <1>3, <1>4, <2>2 DEF Placed
<1>12. Behind'
  <2> SUFFICES ASSUME NEW r \in Replica, NEW o \in Partition
               PROVE  next[r][o] <= Len(history'[o]) + 1
    BY <1>5 DEF Behind, replicaVars
  <2>1. next[r][o] <= Len(history[o]) + 1 /\ next[r][o] \in Nat /\ Len(history[o]) \in Nat
    BY DEF Behind, TypeOK
  <2>2. Len(history'[o]) = Len(history[o]) + 1 \/ Len(history'[o]) = Len(history[o])
    BY <1>2, <1>3
  <2> QED  BY <2>1, <2>2
<1>13. GivenPlaced'
  <2> SUFFICES ASSUME NEW r \in Replica, NEW d \in given[r]
               PROVE  d[2] \in 1..Len(history'[d[1]])
    BY <1>5 DEF GivenPlaced, replicaVars
  <2>1. d[1] \in Partition  BY DEF TypeOK
  <2>2. d[2] \in 1..Len(history[d[1]])  BY DEF GivenPlaced
  <2> QED  BY <1>4, <2>1, <2>2
<1> QED  BY <1>4, <1>7, <1>10, <1>11, <1>12, <1>13

\* A topic that loses a record to the log cleaner.
LEMMA AnyClean ==
    ASSUME AnyInv, NEW p \in Partition, NEW i \in Offset, Compact(p, i) \/ Purge(p, i)
    PROVE  AnyInv' /\ UNCHANGED <<history, replicaVars>>
<1> USE DEF AnyInv
<1>1. live' = [live EXCEPT ![p] = @ \ {i}] /\ UNCHANGED <<history, replicaVars>>
  BY DEF Compact, Purge
<1>2. \A o \in Partition : live'[o] \subseteq live[o]
  BY <1>1 DEF TypeOK
<1>3. TypeOK'  BY <1>1 DEF TypeOK, replicaVars
<1>4. Produced' = Produced  BY <1>1 DEF Produced
<1>5. Sized' /\ Placed' /\ Behind' /\ GivenPlaced'
  BY <1>1, <1>2, <1>4 DEF Sized, Placed, Behind, GivenPlaced, replicaVars
<1> QED  BY <1>1, <1>3, <1>5

\* A step of a replica leaves the topic alone.
LEMMA AnyReplica ==
    ASSUME AnyInv, UNCHANGED topicVars, TypeOK', Behind', GivenPlaced'
    PROVE  AnyInv'
<1>1. Produced' = Produced  BY DEF Produced, topicVars
<1> QED  BY <1>1 DEF AnyInv, Sized, Placed, topicVars

\* A replica that starts, or dies, has everything to read and an empty store.
LEMMA AnyReset ==
    ASSUME AnyInv, NEW r \in Replica, Start(r) \/ Die(r)
    PROVE  /\ AnyInv' /\ UNCHANGED topicVars
           /\ life'[r] \in {"warmup", "down"}
           /\ applied'[r] = 0 /\ store'[r] = Nothing /\ given'[r] = {}
           /\ \A s \in Replica : s # r =>
                /\ life'[s] = life[s] /\ applied'[s] = applied[s]
                /\ store'[s] = store[s] /\ next'[s] = next[s] /\ given'[s] = given[s]
<1> USE DEF AnyInv
<1>1. Beginning \in [Partition -> Nat \ {0}]  BY DEF Beginning
<1>2. Nothing \in [Key -> Payload \cup {Absent}]  BY DEF Nothing
<1>3. [p \in Partition |-> Len(history[p])] \in [Partition -> Nat]
  BY DEF TypeOK
<1>4. TypeOK'
  <2>1. CASE Start(r)
    <3>1. starts' \in [Replica -> 0..MaxStarts]
      BY <2>1, ProjectionAssumption DEF TypeOK, Start
    <3> QED  BY <1>1, <1>2, <1>3, <2>1, <3>1 DEF TypeOK, Start, topicVars
  <2>2. CASE Die(r)  BY <1>1, <1>2, <2>2 DEF TypeOK, Die, topicVars
  <2> QED  BY <2>1, <2>2
<1>5. UNCHANGED topicVars /\ next' = [next EXCEPT ![r] = Beginning]
  BY DEF Start, Die
<1>6. Behind'
  <2> SUFFICES ASSUME NEW s \in Replica, NEW p \in Partition
               PROVE  next'[s][p] <= Len(history[p]) + 1
    BY <1>5 DEF Behind, topicVars
  <2>1. Len(history[p]) \in Nat  BY DEF TypeOK
  <2>2. CASE s = r
    <3>1. next'[s][p] = 1  BY <1>5, <2>2 DEF Beginning, TypeOK
    <3> QED  BY <2>1, <3>1
  <2>3. CASE s # r  BY <1>5, <2>3 DEF Behind, TypeOK
  <2> QED  BY <2>2, <2>3
<1>7. /\ life'[r] \in {"warmup", "down"}
      /\ applied'[r] = 0 /\ store'[r] = Nothing /\ given'[r] = {}
  BY DEF TypeOK, Start, Die
<1>8. \A s \in Replica : s # r =>
        /\ life'[s] = life[s] /\ applied'[s] = applied[s]
        /\ store'[s] = store[s] /\ next'[s] = next[s] /\ given'[s] = given[s]
  BY DEF TypeOK, Start, Die
<1>9. GivenPlaced'
  BY <1>5, <1>7, <1>8 DEF GivenPlaced, topicVars
<1> QED  BY <1>4, <1>5, <1>6, <1>7, <1>8, <1>9, AnyReplica

\* A poll that returns a record: it is read, folded and, if it counts, counted.
LEMMA AnyPollRecord ==
    ASSUME AnyInv, NEW r \in Replica, NEW p \in Partition, PollRecord(r, p)
    PROVE  /\ AnyInv' /\ UNCHANGED <<topicVars, life>> /\ Running(r)
           /\ \A o \in Partition : next'[r][o] >= next[r][o]
           /\ \E i \in 1..Len(history[p]) :
                /\ next'[r][p] = i + 1
                /\ store'[r] = Fold(store[r], history[p][i])
                /\ applied'[r] = IF Counts(history[p][i]) /\ life[r] = "warmup"
                                 THEN applied[r] + 1 ELSE applied[r]
                /\ given'[r] = IF life[r] = "warmup" THEN given[r] \cup {<<p, i>>}
                                                   ELSE given[r]
           /\ \A s \in Replica : s # r =>
                /\ applied'[s] = applied[s] /\ store'[s] = store[s]
                /\ next'[s] = next[s] /\ given'[s] = given[s]
<1> USE DEF AnyInv
<1>1. PICK i \in Ahead(r, p) :
        /\ next' = [next EXCEPT ![r][p] = i + 1]
        /\ store' = [store EXCEPT ![r] = Fold(@, history[p][i])]
        /\ applied' = [applied EXCEPT ![r] =
             IF Counts(history[p][i]) /\ life[r] = "warmup" THEN @ + 1 ELSE @]
        /\ given' = [given EXCEPT ![r] =
             IF life[r] = "warmup" THEN @ \cup {<<p, i>>} ELSE @]
  BY DEF PollRecord
<1>2. Running(r) /\ UNCHANGED <<topicVars, life, starts, due, remaining, base>>
  BY DEF PollRecord
<1>3. /\ i \in 1..Len(history[p]) /\ i >= next[r][p] /\ i \in Nat /\ next[r][p] \in Nat
      /\ i \in Offset
  BY DEF Ahead, Placed, TypeOK
<1>4. history[p][i] \in Record /\ Len(history[p]) \in Nat  BY <1>3 DEF TypeOK
<1>5. /\ next'[r][p] = i + 1
      /\ \A o \in Partition : o # p => next'[r][o] = next[r][o]
      /\ \A s \in Replica : s # r => next'[s] = next[s]
  BY <1>1 DEF TypeOK
<1>6. /\ store'[r] = Fold(store[r], history[p][i])
      /\ applied'[r] = IF Counts(history[p][i]) /\ life[r] = "warmup"
                       THEN applied[r] + 1 ELSE applied[r]
      /\ given'[r] = IF life[r] = "warmup" THEN given[r] \cup {<<p, i>>} ELSE given[r]
      /\ \A s \in Replica : s # r =>
           applied'[s] = applied[s] /\ store'[s] = store[s] /\ given'[s] = given[s]
  BY <1>1 DEF TypeOK
<1>7. \A o \in Partition : next'[r][o] >= next[r][o]
  <2>1. \A o \in Partition : next[r][o] \in Nat  BY DEF TypeOK
  <2> QED  BY <1>3, <1>5, <2>1
<1>8. TypeOK'
  <2>1. next' \in [Replica -> [Partition -> Nat \ {0}]]
    <3>1. i + 1 \in Nat \ {0}  BY <1>3
    <3> QED  BY <1>1, <3>1 DEF TypeOK
  <2>2. store' \in [Replica -> [Key -> Payload \cup {Absent}]]
    <3>1. Fold(store[r], history[p][i]) \in [Key -> Payload \cup {Absent}]
      BY <1>4, FoldType DEF TypeOK
    <3> QED  BY <1>1, <3>1 DEF TypeOK
  <2>3. applied' \in [Replica -> Nat]
    <3>1. applied[r] \in Nat  BY DEF TypeOK
    <3> QED  BY <1>1, <3>1 DEF TypeOK
  <2>4. given' \in [Replica -> SUBSET (Partition \X Offset)]
    <3>1. <<p, i>> \in Partition \X Offset  BY <1>3
    <3> QED  BY <1>1, <3>1 DEF TypeOK
  <2> QED  BY <1>2, <2>1, <2>2, <2>3, <2>4 DEF TypeOK, topicVars
<1>9. Behind'
  <2> SUFFICES ASSUME NEW s \in Replica, NEW o \in Partition
               PROVE  next'[s][o] <= Len(history[o]) + 1
    BY <1>2 DEF Behind, topicVars
  <2>1. CASE s = r /\ o = p  BY <1>3, <1>4, <1>5, <2>1
  <2>2. CASE s # r \/ o # p  BY <1>5, <2>2 DEF Behind
  <2> QED  BY <2>1, <2>2
<1>10. GivenPlaced'
  <2> SUFFICES ASSUME NEW s \in Replica, NEW d \in given'[s]
               PROVE  d[2] \in 1..Len(history[d[1]])
    BY <1>2 DEF GivenPlaced, topicVars
  <2>1. d \in given[s] \/ d = <<p, i>>  BY <1>6
  <2> QED  BY <1>3, <2>1 DEF GivenPlaced
<1> QED  BY <1>2, <1>3, <1>5, <1>6, <1>7, <1>8, <1>9, <1>10, AnyReplica

\* The end of a partition, reached or polled: nothing is read, and a warm-up
\* ends by what was counted.
LEMMA AnyEvent ==
    ASSUME AnyInv, NEW r \in Replica, NEW p \in Partition,
           ReachEnd(r, p) \/ PollEOF(r, p)
    PROVE  /\ AnyInv' /\ UNCHANGED <<topicVars, next, applied, store, given>>
           /\ \/ life'[r] = life[r]
              \/ /\ life[r] = "warmup"
                 /\ life'[r] = IF applied[r] > 0 \/ AllowEmpty THEN "steady" ELSE "failed"
           /\ \A s \in Replica : s # r => life'[s] = life[s]
<1> USE DEF AnyInv
<1>1. UNCHANGED <<topicVars, starts, next, applied, store, base, given>>
  BY DEF ReachEnd, PollEOF
<1>2. CASE ReachEnd(r, p)
  <2>1. TypeOK'  BY <1>2 DEF TypeOK, ReachEnd, topicVars
  <2>2. life' = life  BY <1>2 DEF ReachEnd
  <2>3. Behind' /\ GivenPlaced'  BY <1>1 DEF Behind, GivenPlaced, topicVars
  <2> QED  BY <1>1, <2>1, <2>2, <2>3, AnyReplica
<1>3. CASE PollEOF(r, p)
  <2>1. due' \in [Replica -> SUBSET Partition]
        /\ remaining' \in [Replica -> SUBSET Partition]
    BY <1>3, ZenonT(60) DEF TypeOK, PollEOF
  <2>2. PICK l \in {"warmup", "steady", "failed"} :
          /\ life' = [life EXCEPT ![r] = l]
          /\ \/ l = life[r]
             \/ /\ life[r] = "warmup"
                /\ l = IF applied[r] > 0 \/ AllowEmpty THEN "steady" ELSE "failed"
    <3>1. life[r] \in {"warmup", "steady"}  BY <1>3 DEF PollEOF, Running
    <3>2. CASE UNCHANGED life
      <4>1. life' = [life EXCEPT ![r] = life[r]]  BY <3>2 DEF TypeOK
      <4> QED  BY <3>1, <4>1
    <3>3. CASE life[r] = "warmup"
               /\ life' = [life EXCEPT ![r] =
                    IF applied[r] > 0 \/ AllowEmpty THEN "steady" ELSE "failed"]
      BY <3>3
    <3> QED  BY <1>3, <3>2, <3>3 DEF PollEOF
  <2>3. /\ life' \in [Replica -> {"down", "warmup", "steady", "failed"}]
        /\ life'[r] = l
        /\ \A s \in Replica : s # r => life'[s] = life[s]
    BY <2>2 DEF TypeOK
  <2>4. TypeOK'  BY <1>1, <2>1, <2>3 DEF TypeOK, topicVars
  <2>5. Behind' /\ GivenPlaced'  BY <1>1 DEF Behind, GivenPlaced, topicVars
  <2> QED  BY <1>1, <2>2, <2>3, <2>4, <2>5, AnyReplica
<1> QED  BY <1>2, <1>3

-----------------------------------------------------------------------------
\* Nothing is read, and nothing counted, of a topic that is not there.
LEMMA AnyInit == Init => AnyInv /\ Decided
<1> SUFFICES ASSUME Init PROVE AnyInv /\ Decided
  OBVIOUS
<1>1. TypeOK
  BY ProjectionAssumption DEF Init, TypeOK, Beginning, Nothing
<1>2. Produced = {}
  BY DEF Init, Produced
<1>3. Sized  BY <1>2, FS_EmptySet, ProjectionAssumption DEF Sized
<1>4. Placed /\ Behind /\ GivenPlaced /\ Decided
  BY DEF Init, Placed, Behind, Beginning, GivenPlaced, Decided
<1> QED  BY <1>1, <1>3, <1>4 DEF AnyInv

\* Whether a record counts is a matter of the record: what a warm-up was given
\* stays something, or nothing, while the topic grows.
LEMMA GaveStays ==
    ASSUME AnyInv, NEW r \in Replica, given'[r] = given[r],
           \A p \in Partition : \A i \in 1..Len(history[p]) : history'[p][i] = history[p][i]
    PROVE  GaveSomething(r)' <=> GaveSomething(r)
<1>1. \A d \in given[r] : history'[d[1]][d[2]] = history[d[1]][d[2]]
  BY DEF AnyInv, TypeOK, GivenPlaced
<1> QED  BY <1>1 DEF GaveSomething, Deletes, Upserts, Decodes, StoreKey

\* Every step keeps the types and what the count says.
LEMMA DecidedNext == AnyInv /\ Decided /\ [Next]_vars => AnyInv' /\ Decided'
<1> SUFFICES ASSUME AnyInv, Decided, [Next]_vars PROVE AnyInv' /\ Decided'
  OBVIOUS
<1>1. ASSUME UNCHANGED replicaVars,
             \A p \in Partition : \A i \in 1..Len(history[p]) : history'[p][i] = history[p][i]
      PROVE  Decided'
  <2>1. \A r \in Replica : GaveSomething(r)' <=> GaveSomething(r)
    BY <1>1, GaveStays DEF replicaVars
  <2> QED  BY <1>1, <2>1 DEF Decided, replicaVars
<1>2. ASSUME NEW q \in RawKey, NEW v \in Payload, Produce(q, v)
      PROVE  AnyInv' /\ Decided'
  BY <1>1, <1>2, AnyProduce DEF Produce
<1>3. ASSUME NEW p \in Partition, NEW i \in Offset, Compact(p, i) \/ Purge(p, i)
      PROVE  AnyInv' /\ Decided'
  BY <1>1, <1>3, AnyClean
<1>4. ASSUME NEW r \in Replica, UNCHANGED topicVars,
             \A s \in Replica : s # r =>
               life'[s] = life[s] /\ applied'[s] = applied[s] /\ given'[s] = given[s],
             /\ life'[r] = "warmup" => (applied'[r] > 0 <=> GaveSomething(r)')
             /\ life'[r] = "failed" => ~AllowEmpty /\ ~GaveSomething(r)'
             /\ life'[r] = "steady" => AllowEmpty \/ GaveSomething(r)'
      PROVE  Decided'
  <2>1. \A s \in Replica : s # r => (GaveSomething(s)' <=> GaveSomething(s))
    BY <1>4, GaveStays DEF topicVars
  <2> QED  BY <1>4, <2>1 DEF Decided
<1>5. ASSUME NEW r \in Replica, Start(r) \/ Die(r)
      PROVE  AnyInv' /\ Decided'
  <2>1. /\ AnyInv' /\ UNCHANGED topicVars
        /\ life'[r] \in {"warmup", "down"} /\ applied'[r] = 0 /\ given'[r] = {}
        /\ \A s \in Replica : s # r =>
             life'[s] = life[s] /\ applied'[s] = applied[s] /\ given'[s] = given[s]
    BY <1>5, AnyReset
  <2>2. ~GaveSomething(r)'  BY <2>1 DEF GaveSomething
  <2> QED  BY <1>4, <2>1, <2>2
<1>6. ASSUME NEW r \in Replica, NEW p \in Partition, PollRecord(r, p)
      PROVE  AnyInv' /\ Decided'
  <2>1. /\ AnyInv' /\ UNCHANGED <<topicVars, life>> /\ Running(r)
        /\ \A s \in Replica : s # r =>
             life'[s] = life[s] /\ applied'[s] = applied[s] /\ given'[s] = given[s]
    BY <1>6, AnyPollRecord
  <2>2. PICK i \in 1..Len(history[p]) :
          /\ applied'[r] = IF Counts(history[p][i]) /\ life[r] = "warmup"
                           THEN applied[r] + 1 ELSE applied[r]
          /\ given'[r] = IF life[r] = "warmup" THEN given[r] \cup {<<p, i>>}
                                               ELSE given[r]
    BY <1>6, AnyPollRecord
  <2>3. life'[r] = life[r] /\ history' = history  BY <2>1 DEF topicVars
  <2>4. CASE life[r] = "warmup"
    <3>1. GaveSomething(r)' <=> GaveSomething(r) \/ Counts(history[p][i])
      <4>1. given'[r] = given[r] \cup {<<p, i>>}  BY <2>2, <2>4
      <4>2. GaveSomething(r)' <=>
              \E d \in given[r] \cup {<<p, i>>} : Counts(history[d[1]][d[2]])
        BY <2>3, <4>1, Zenon DEF GaveSomething, Counts
      <4>3. GaveSomething(r) <=> \E d \in given[r] : Counts(history[d[1]][d[2]])
        BY Zenon DEF GaveSomething, Counts
      <4>4. <<p, i>>[1] = p /\ <<p, i>>[2] = i  OBVIOUS
      <4> QED  BY <4>2, <4>3, <4>4, Zenon
    <3>2. applied[r] \in Nat  BY DEF AnyInv, TypeOK
    <3>3. applied'[r] > 0 <=> applied[r] > 0 \/ Counts(history[p][i])
      BY <2>2, <2>4, <3>2
    <3> QED  BY <1>4, <2>1, <2>3, <2>4, <3>1, <3>3 DEF Decided
  <2>5. CASE life[r] = "steady"
    <3>1. GaveSomething(r)' <=> GaveSomething(r)
      BY <2>2, <2>3, <2>5, GaveStays
    <3> QED  BY <1>4, <2>1, <2>3, <2>5, <3>1 DEF Decided
  <2> QED  BY <2>1, <2>4, <2>5 DEF Running
<1>7. ASSUME NEW r \in Replica, NEW p \in Partition, ReachEnd(r, p) \/ PollEOF(r, p)
      PROVE  AnyInv' /\ Decided'
  <2>1. /\ AnyInv' /\ UNCHANGED <<topicVars, applied, given>>
        /\ \/ life'[r] = life[r]
           \/ /\ life[r] = "warmup"
              /\ life'[r] = IF applied[r] > 0 \/ AllowEmpty THEN "steady" ELSE "failed"
        /\ \A s \in Replica : s # r => life'[s] = life[s]
    BY <1>7, AnyEvent
  <2>2. GaveSomething(r)' <=> GaveSomething(r)  BY <2>1, GaveStays DEF topicVars
  <2>3. /\ life'[r] = "warmup" => (applied'[r] > 0 <=> GaveSomething(r)')
        /\ life'[r] = "failed" => ~AllowEmpty /\ ~GaveSomething(r)'
        /\ life'[r] = "steady" => AllowEmpty \/ GaveSomething(r)'
    BY <2>1, <2>2 DEF Decided
  <2> QED  BY <1>4, <2>1, <2>3
<1>8. CASE UNCHANGED vars
  <2>1. UNCHANGED topicVars /\ UNCHANGED replicaVars /\ history' = history
    BY <1>8 DEF vars, topicVars
  <2>2. AnyInv'
    <3>1. TypeOK' /\ Behind' /\ GivenPlaced'
      BY <2>1 DEF AnyInv, TypeOK, Behind, GivenPlaced, topicVars, replicaVars
    <3> QED  BY <2>1, <3>1, AnyReplica
  <2> QED  BY <1>1, <2>1, <2>2
<1> QED
  BY <1>2, <1>3, <1>5, <1>6, <1>7, <1>8 DEF Next, Poll

\* Every variable keeps its type, for any binding: a topic never outgrows its
\* bound, a replica never reads past its end, and no fold puts anything but a
\* payload under a key (registration.go:123-184).
THEOREM AnyTypes == Spec => []TypeOK
<1>1. AnyInv => TypeOK  BY DEF AnyInv
<1> QED  BY <1>1, AnyInit, DecidedNext, PTL DEF Spec

\* Start fails on a topic that gave its warm-up nothing to apply, and only
\* then, for any binding, any topic and any number of restarts
\* (loader.go:332-339, binding.go:62-66).
THEOREM EmptyFails == Spec => []EmptyTopicFails
<1>1. Decided => EmptyTopicFails  BY DEF Decided, EmptyTopicFails
<1> QED  BY <1>1, AnyInit, DecidedNext, PTL DEF Spec

-----------------------------------------------------------------------------
(***************************************************************************)
(* Where two replicas do agree.                                            *)
(***************************************************************************)

\* No two raw keys stand for the same key of the store.
OneSpelling ==
    \A q1, q2 \in Decodable : DecodeKey[q1] = DecodeKey[q2] => q1 = q2

\* Nothing is stored under a key that no raw key stands for.
Spelt ==
    \A r \in Replica, k \in Key : Spelled(k) = {} => store[r][k] = Absent

AgreeInv == CleanBinding /\ OneSpelling /\ AnyInv /\ Decided /\ Spelt

\* Only a record can put something under a key, and it has one that stands
\* for that key.
LEMMA SpeltNext ==
    ASSUME CleanBinding, AnyInv, Spelt, [Next]_vars
    PROVE  Spelt'
<1>1. CASE UNCHANGED store  BY <1>1 DEF Spelt, Spelled
<1>2. ASSUME NEW r \in Replica, Start(r) \/ Die(r) PROVE Spelt'
  <2>1. store'[r] = Nothing /\ \A s \in Replica : s # r => store'[s] = store[s]
    BY <1>2, AnyReset
  <2> QED  BY <2>1 DEF Spelt, Spelled, Nothing
<1>3. ASSUME NEW r \in Replica, NEW p \in Partition, PollRecord(r, p) PROVE Spelt'
  <2>1. PICK i \in 1..Len(history[p]) : store'[r] = Fold(store[r], history[p][i])
    BY <1>3, AnyPollRecord
  <2>2. PICK rec \in Record : rec = history[p][i]  BY DEF AnyInv, TypeOK
  <2>3. \A s \in Replica : s # r => store'[s] = store[s]
    BY <1>3, AnyPollRecord
  <2>4. ASSUME NEW k \in Key, Spelled(k) = {} PROVE store'[r][k] = store[r][k]
    <3>1. DecodeKey[rec.key] # k  BY <2>4 DEF Spelled, Record
    <3>2. store[r] \in [Key -> Payload \cup {Absent}]  BY DEF AnyInv, TypeOK
    <3>3. CASE Deletes(rec)
      BY <2>1, <2>2, <3>1, <3>2, <3>3 DEF Fold, Deletes, Upserts
    <3>4. CASE ~Deletes(rec) /\ Upserts(rec)
      BY <2>1, <2>2, <3>1, <3>2, <3>4 DEF Fold, StoreKey, CleanBinding
    <3>5. CASE ~Deletes(rec) /\ ~Upserts(rec)
      BY <2>1, <2>2, <3>5 DEF Fold
    <3> QED  BY <3>3, <3>4, <3>5
  <2> QED  BY <2>3, <2>4 DEF Spelt, Spelled
<1>4. ASSUME NEW r \in Replica, NEW p \in Partition, ReachEnd(r, p) \/ PollEOF(r, p)
      PROVE  Spelt'
  BY <1>1, <1>4 DEF ReachEnd, PollEOF
<1>5. ASSUME NEW q \in RawKey, NEW v \in Payload, Produce(q, v) PROVE Spelt'
  BY <1>1, <1>5 DEF Produce, replicaVars
<1>6. ASSUME NEW p \in Partition, NEW i \in Offset, Compact(p, i) \/ Purge(p, i)
      PROVE  Spelt'
  BY <1>1, <1>6 DEF Compact, Purge, replicaVars
<1>7. CASE UNCHANGED vars  BY <1>1, <1>7 DEF vars, replicaVars
<1> QED  BY <1>2, <1>3, <1>4, <1>5, <1>6, <1>7 DEF Next, Poll

\* Two replicas that have read the topic to its end hold the same store,
\* whenever each was started and whatever was compacted before or between:
\* the promise of developer-doc.md:165 is kept by every clean binding whose
\* decoder takes no two raw keys for one (registration.go:123-184, codec.go:26).
THEOREM RebuildAgrees == CleanBinding /\ OneSpelling /\ Spec => []ReplicasAgree
<1>1. CleanBinding /\ Init => Spelt
  BY DEF Init, Spelt, Nothing
<1>2. ASSUME OneSpelling, AnyInv, Spelt, CurrentAtEnd PROVE ReplicasAgree
  <2> SUFFICES ASSUME NEW r \in Replica, NEW s \in Replica,
                      \A p \in Partition : ReadToEnd(r, p) /\ ReadToEnd(s, p)
               PROVE  store[r] = store[s]
    BY DEF ReplicasAgree
  <2>1. ASSUME NEW k \in Key PROVE store[r][k] = store[s][k]
    <3>1. CASE Spelled(k) = {}  BY <1>2, <3>1 DEF Spelt
    <3>2. CASE Spelled(k) # {}
      <4>1. \A q \in Spelled(k) : PartitionOf[q] \in Partition
        BY ProjectionAssumption DEF Spelled
      <4>2. PICK q1 \in Spelled(k) : store[r][k] = Current(q1)
        BY <1>2, <3>2, <4>1 DEF CurrentAtEnd
      <4>3. PICK q2 \in Spelled(k) : store[s][k] = Current(q2)
        BY <1>2, <3>2, <4>1 DEF CurrentAtEnd
      <4>4. q1 = q2  BY <1>2, SpelledDecodes DEF OneSpelling
      <4> QED  BY <4>2, <4>3, <4>4
    <3> QED  BY <3>1, <3>2
  <2>2. store[r] \in [Key -> Payload \cup {Absent}]
        /\ store[s] \in [Key -> Payload \cup {Absent}]
    BY <1>2 DEF AnyInv, TypeOK
  <2> QED  BY <2>1, <2>2
<1>3. AgreeInv /\ [Next]_vars => AgreeInv'
  <2> SUFFICES ASSUME AgreeInv, [Next]_vars PROVE AgreeInv'
    OBVIOUS
  <2>1. CleanBinding' /\ OneSpelling'
    BY DEF AgreeInv, CleanBinding, Dropped, OneSpelling, Decodable
  <2>2. AnyInv' /\ Decided'  BY DecidedNext DEF AgreeInv
  <2>3. Spelt'  BY SpeltNext DEF AgreeInv
  <2> QED  BY <2>1, <2>2, <2>3 DEF AgreeInv
<1>4. CleanBinding /\ OneSpelling /\ Init => AgreeInv
  BY <1>1, AnyInit DEF AgreeInv
<1>5. CleanBinding /\ OneSpelling /\ Spec => []AgreeInv
  BY <1>3, <1>4, PTL DEF Spec
<1>6. AgreeInv /\ CurrentAtEnd => ReplicasAgree
  BY <1>2 DEF AgreeInv
<1> QED  BY <1>5, <1>6, TableAtEnd, PTL

-----------------------------------------------------------------------------
(***************************************************************************)
(* Where the entries come from.                                            *)
(***************************************************************************)

\* A record that replica r has gone past puts payload v under key k.
Source(r, p, i, k, v) ==
    /\ i \in 1..(next[r][p] - 1)
    /\ Upserts(history[p][i])
    /\ StoreKey(history[p][i]) = k
    /\ history[p][i].payload = v

\* Every entry of every store came from a record its replica has gone past
\* since it was started: whatever binding decodes, filters and keys the records, a store
\* never holds a value under a key it did not come with
\* (registration.go:123-184).
Sourced ==
    \A r \in Replica, k \in Key : store[r][k] # Absent =>
        \E p \in Partition : \E i \in 1..Len(history[p]) : Source(r, p, i, k, store[r][k])

\* While a replica moves on in a topic that grows, a source stays one.
LEMMA StillSource ==
    ASSUME AnyInv, NEW r \in Replica, NEW k \in Key, NEW p \in Partition,
           NEW i \in 1..Len(history[p]), NEW v, Source(r, p, i, k, v),
           next'[r][p] >= next[r][p], next'[r][p] \in Nat,
           history'[p][i] = history[p][i]
    PROVE  Source(r, p, i, k, v)'
<1>1. next[r][p] \in Nat  BY DEF AnyInv, TypeOK
<1>2. i \in 1..(next'[r][p] - 1)  BY <1>1 DEF Source
<1> QED  BY <1>2 DEF Source, Upserts, StoreKey, Decodes

\* What was stored under a key is what a fold leaves there, unless the record
\* is an upsert of that key.
LEMMA FoldSource ==
    ASSUME NEW s \in [Key -> Payload \cup {Absent}], NEW rec \in Record,
           NEW k \in Key, Fold(s, rec)[k] # Absent
    PROVE  \/ Fold(s, rec)[k] = s[k]
           \/ Upserts(rec) /\ StoreKey(rec) = k /\ rec.payload = Fold(s, rec)[k]
<1>1. CASE Deletes(rec)
  <2>1. Fold(s, rec) = [s EXCEPT ![DecodeKey[rec.key]] = Absent]
    BY <1>1 DEF Fold, Deletes, Upserts
  <2> QED  BY <2>1
<1>2. CASE ~Deletes(rec) /\ Upserts(rec)
  <2>1. Fold(s, rec) = [s EXCEPT ![StoreKey(rec)] = rec.payload]
    BY <1>2 DEF Fold
  <2> QED  BY <1>2, <2>1
<1>3. CASE ~Deletes(rec) /\ ~Upserts(rec)  BY <1>3 DEF Fold
<1> QED  BY <1>1, <1>2, <1>3

LEMMA SourcedNext ==
    ASSUME AnyInv, AnyInv', Sourced, [Next]_vars
    PROVE  Sourced'
<1>1. ASSUME NEW r \in Replica, NEW k \in Key, store[r][k] # Absent,
             store'[r][k] = store[r][k],
             \A p \in Partition : next'[r][p] >= next[r][p],
             \A p \in Partition : \A i \in 1..Len(history[p]) :
               i \in 1..Len(history'[p]) /\ history'[p][i] = history[p][i]
      PROVE  \E p \in Partition : \E i \in 1..Len(history'[p]) :
               Source(r, p, i, k, store[r][k])'
  <2>1. PICK p \in Partition : \E i \in 1..Len(history[p]) : Source(r, p, i, k, store[r][k])
    BY <1>1 DEF Sourced
  <2>2. PICK i \in 1..Len(history[p]) : Source(r, p, i, k, store[r][k])
    BY <2>1
  <2>3. next'[r][p] \in Nat  BY DEF AnyInv, TypeOK
  <2>4. PICK v : v = store[r][k]  OBVIOUS
  <2>5. history'[p][i] = history[p][i] /\ i \in 1..Len(history'[p])
        /\ next'[r][p] >= next[r][p]
    BY <1>1
  <2>6. Source(r, p, i, k, v)  BY <2>2, <2>4
  <2>7. Source(r, p, i, k, v)'  BY <2>3, <2>5, <2>6, StillSource
  <2> QED  BY <1>1, <2>4, <2>5, <2>7
<1>2. ASSUME UNCHANGED <<store, next>>,
             \A p \in Partition : \A i \in 1..Len(history[p]) :
               i \in 1..Len(history'[p]) /\ history'[p][i] = history[p][i]
      PROVE  Sourced'
  <2>1. \A r \in Replica, p \in Partition : next'[r][p] >= next[r][p]
    BY <1>2 DEF AnyInv, TypeOK
  <2> QED  BY <1>1, <1>2, <2>1 DEF Sourced
<1>3. ASSUME NEW q \in RawKey, NEW v \in Payload, Produce(q, v) PROVE Sourced'
  <2>1. \A p \in Partition : \A i \in 1..Len(history[p]) :
          i \in 1..Len(history'[p]) /\ history'[p][i] = history[p][i]
    <3> SUFFICES ASSUME NEW p \in Partition, NEW i \in 1..Len(history[p])
                 PROVE  i \in 1..Len(history'[p])
      BY <1>3, AnyProduce
    <3>1. history[p] \in Seq(Record)  BY DEF AnyInv, TypeOK
    <3>2. history'[p] = history[p]
          \/ history'[p] = Append(history[p], [key |-> q, payload |-> v])
      BY <1>3, ProjectionAssumption DEF Produce, AnyInv, TypeOK
    <3> QED  BY <3>1, <3>2 DEF Record
  <2> QED  BY <1>2, <1>3, <2>1 DEF Produce, replicaVars
<1>4. ASSUME UNCHANGED <<store, next, history>> PROVE Sourced'
  BY <1>2, <1>4
<1>5. ASSUME NEW r \in Replica, UNCHANGED history,
             \A s \in Replica : s # r => store'[s] = store[s] /\ next'[s] = next[s],
             \A k \in Key : store'[r][k] # Absent =>
               \E p \in Partition : \E i \in 1..Len(history[p]) :
                 Source(r, p, i, k, store[r][k])'
      PROVE  Sourced'
  <2> SUFFICES ASSUME NEW s \in Replica, NEW k \in Key, store'[s][k] # Absent
               PROVE  \E p \in Partition : \E i \in 1..Len(history[p]) :
                        Source(s, p, i, k, store[s][k])'
    BY <1>5 DEF Sourced
  <2>1. CASE s = r  BY <1>5, <2>1
  <2>2. CASE s # r
    <3>1. store'[s][k] = store[s][k] /\ next'[s] = next[s]  BY <1>5, <2>2
    <3>2. \A p \in Partition : next'[s][p] >= next[s][p]
      BY <3>1 DEF AnyInv, TypeOK
    <3> QED  BY <1>1, <1>5, <3>1, <3>2
  <2> QED  BY <2>1, <2>2
<1>6. ASSUME NEW r \in Replica, Start(r) \/ Die(r) PROVE Sourced'
  <2>1. /\ history' = history /\ store'[r] = Nothing
        /\ \A s \in Replica : s # r => store'[s] = store[s] /\ next'[s] = next[s]
    BY <1>6, AnyReset DEF topicVars
  <2> QED  BY <1>5, <2>1 DEF Nothing
<1>7. ASSUME NEW r \in Replica, NEW p \in Partition, PollRecord(r, p) PROVE Sourced'
  <2>1. /\ history' = history
        /\ \A o \in Partition : next'[r][o] >= next[r][o]
        /\ \A s \in Replica : s # r => store'[s] = store[s] /\ next'[s] = next[s]
    BY <1>7, AnyPollRecord DEF topicVars
  <2>2. PICK i \in 1..Len(history[p]) :
          next'[r][p] = i + 1 /\ store'[r] = Fold(store[r], history[p][i])
    BY <1>7, AnyPollRecord
  <2>3. PICK rec \in Record : rec = history[p][i]  BY DEF AnyInv, TypeOK
  <2>4. ASSUME NEW k \in Key, store'[r][k] # Absent
        PROVE  \E o \in Partition : \E j \in 1..Len(history[o]) :
                 Source(r, o, j, k, store[r][k])'
    <3>1. \/ store'[r][k] = store[r][k]
          \/ Upserts(rec) /\ StoreKey(rec) = k /\ rec.payload = store'[r][k]
      <4>1. store[r] \in [Key -> Payload \cup {Absent}]  BY DEF AnyInv, TypeOK
      <4> QED  BY <2>2, <2>3, <2>4, <4>1, FoldSource
    <3>2. CASE store'[r][k] = store[r][k]
      BY <1>1, <2>1, <2>4, <3>2
    <3>3. CASE Upserts(rec) /\ StoreKey(rec) = k /\ rec.payload = store'[r][k]
      <4>1. i \in 1..(next'[r][p] - 1)  BY <2>2
      <4>2. Source(r, p, i, k, store[r][k])'
        BY <2>1, <2>3, <3>3, <4>1 DEF Source
      <4> QED  BY <4>2
    <3> QED  BY <3>1, <3>2, <3>3
  <2> QED  BY <1>5, <2>1, <2>4
<1>8. ASSUME NEW p \in Partition, NEW i \in Offset, Compact(p, i) \/ Purge(p, i)
      PROVE  Sourced'
  BY <1>4, <1>8 DEF Compact, Purge, replicaVars
<1>9. ASSUME NEW r \in Replica, NEW p \in Partition, ReachEnd(r, p) \/ PollEOF(r, p)
      PROVE  Sourced'
  BY <1>4, <1>9 DEF ReachEnd, PollEOF, topicVars
<1>10. CASE UNCHANGED vars  BY <1>4, <1>10 DEF vars, topicVars, replicaVars
<1> QED  BY <1>3, <1>6, <1>7, <1>8, <1>9, <1>10 DEF Next, Poll

\* Nothing is in a store but what a record on the topic put there, for any binding,
\* compaction and number of restarts.
THEOREM NothingInvented == Spec => []Sourced
<1>1. Init => Sourced  BY DEF Init, Sourced, Nothing
<1>2. Spec => []AnyInv
  <2>1. Spec => [](AnyInv /\ Decided)  BY AnyInit, DecidedNext, PTL DEF Spec
  <2> QED  BY <2>1, PTL
<1> QED  BY <1>1, <1>2, SourcedNext, PTL DEF Spec

=============================================================================
