------------------------------ MODULE Projection ------------------------------
(***************************************************************************)
(* What a store holds: one compacted topic, folded record by record into   *)
(* the store of every replica that binds it (applyFunc in registration.go, *)
(* warmUpBinding and serveBinding in loader.go, PartitionEOF in detect.go) *)
(* while producers append to the topic and the broker compacts it.         *)
(*                                                                         *)
(* A replica is one process with one loader and one binding.  A loader     *)
(* assigns every partition from the beginning and commits no offset, so    *)
(* whatever a process knew is gone when it restarts.  An offset is an      *)
(* index into the history of its partition; compaction removes offsets     *)
(* from the log and never renumbers one.                                   *)
(***************************************************************************)
EXTENDS Integers, Sequences, FiniteSets

CONSTANTS
    Replica,        \* processes that bind the topic
    Partition,      \* the partitions of the topic
    RawKey,         \* record keys, as the producers write them
    Payload,        \* record payloads, as the producers write them
    Null,           \* the payload the broker takes for a delete
    PartitionOf,    \* the partition the producers send each raw key to
    Key,            \* the keys of the store
    DecodeKey,      \* Binding.DecodeKey: RawKey -> Key, or Bad
    Tombstone,      \* the payloads Binding.Tombstone takes for a delete
    BadValue,       \* the payloads Binding.DecodeValue fails on
    KeyFromValue,   \* Binding.KeyFromValue, or Bad when it is not set
    Rejected,       \* the <<key, payload>> pairs Binding.Filter drops
    AllowEmpty,     \* Binding.AllowEmpty
    Bad,            \* no key
    Absent,         \* no entry
    MaxRecords,     \* bound: records produced in all
    MaxStarts       \* bound: starts of each replica

ASSUME ProjectionAssumption ==
    /\ Null \in Payload
    /\ Bad \notin Key
    /\ Absent \notin Payload
    /\ PartitionOf \in [RawKey -> Partition]
    /\ DecodeKey \in [RawKey -> Key \cup {Bad}]
    /\ Tombstone \subseteq Payload
    /\ BadValue \subseteq Payload
    /\ KeyFromValue = Bad \/ KeyFromValue \in [Payload -> Key]
    /\ Rejected \subseteq Key \X Payload
    /\ AllowEmpty \in BOOLEAN
    /\ MaxRecords \in Nat
    /\ MaxStarts \in Nat

VARIABLES
    \* the topic
    history,    \* per partition, every record ever produced
    live,       \* per partition, the offsets compaction has left
    \* per replica
    life,       \* "down", or the phase of its binding, or the failure of Start
    starts,     \* how often it was started
    next,       \* per partition, the next offset librdkafka delivers
    due,        \* partitions whose end was reached and is still to be polled
    remaining,  \* eofDetection.remaining
    applied,    \* reg.warmupApplied
    store,      \* the store
    base,       \* history: how long each partition was when it was assigned
    given       \* history: the records the warm-up was given, by where they are

topicVars == <<history, live>>
replicaVars == <<life, starts, next, due, remaining, applied, store, base, given>>
vars == <<topicVars, replicaVars>>

Record == [key : RawKey, payload : Payload]
Offset == 1..MaxRecords

TypeOK ==
    /\ history \in [Partition -> Seq(Record)]
    /\ live \in [Partition -> SUBSET Offset]
    /\ life \in [Replica -> {"down", "warmup", "steady", "failed"}]
    /\ starts \in [Replica -> 0..MaxStarts]
    /\ next \in [Replica -> [Partition -> Nat \ {0}]]
    /\ due \in [Replica -> SUBSET Partition]
    /\ remaining \in [Replica -> SUBSET Partition]
    /\ applied \in [Replica -> Nat]
    /\ store \in [Replica -> [Key -> Payload \cup {Absent}]]
    /\ base \in [Replica -> [Partition -> Nat]]
    /\ given \in [Replica -> SUBSET (Partition \X Offset)]

Nothing == [k \in Key |-> Absent]
Beginning == [p \in Partition |-> 1]

Init ==
    /\ history = [p \in Partition |-> <<>>]
    /\ live = [p \in Partition |-> {}]
    /\ life = [r \in Replica |-> "down"]
    /\ starts = [r \in Replica |-> 0]
    /\ next = [r \in Replica |-> Beginning]
    /\ due = [r \in Replica |-> {}]
    /\ remaining = [r \in Replica |-> {}]
    /\ applied = [r \in Replica |-> 0]
    /\ store = [r \in Replica |-> Nothing]
    /\ base = [r \in Replica |-> [p \in Partition |-> 0]]
    /\ given = [r \in Replica |-> {}]

-----------------------------------------------------------------------------
(***************************************************************************)
(* applyFunc: what one record does to a store.                             *)
(***************************************************************************)

Decodes(rec) == DecodeKey[rec.key] # Bad

\* A tombstone is told before the payload is decoded, by the record's own key.
Deletes(rec) == Decodes(rec) /\ rec.payload \in Tombstone

\* The key an upsert is stored under.
StoreKey(rec) ==
    IF KeyFromValue = Bad THEN DecodeKey[rec.key] ELSE KeyFromValue[rec.payload]

\* Filter sees the final key.
Upserts(rec) ==
    /\ Decodes(rec)
    /\ rec.payload \notin Tombstone \cup BadValue
    /\ <<StoreKey(rec), rec.payload>> \notin Rejected

\* Mutant: a tombstone goes the way of a payload that does not decode.
Fold_NoDelete(s, rec) ==
    IF Upserts(rec) THEN [s EXCEPT ![StoreKey(rec)] = rec.payload] ELSE s

\* Mutant: a delete puts a nil value under the key.
Fold_NilEntry(s, rec) ==
    CASE Deletes(rec) -> [s EXCEPT ![DecodeKey[rec.key]] = "nil"]
      [] Upserts(rec) -> [s EXCEPT ![StoreKey(rec)] = rec.payload]
      [] OTHER -> s

\* Anything else - a key or payload that does not decode, a record the filter
\* drops - leaves the store as it is.
Fold(s, rec) ==
    CASE Deletes(rec) -> [s EXCEPT ![DecodeKey[rec.key]] = Absent]
      [] Upserts(rec) -> [s EXCEPT ![StoreKey(rec)] = rec.payload]
      [] OTHER -> s

\* Mutant: only what the store gains counts.
Counts_UpsertsOnly(rec) == Upserts(rec)

Counts(rec) == Deletes(rec) \/ Upserts(rec)

-----------------------------------------------------------------------------
(***************************************************************************)
(* The topic.                                                              *)
(***************************************************************************)

Running(r) == life[r] \in {"warmup", "steady"}

Produced == UNION {{<<p, i>> : i \in 1..Len(history[p])} : p \in Partition}

Produce(q, v) ==
    LET p == PartitionOf[q] IN
    /\ Cardinality(Produced) < MaxRecords
    /\ history' = [history EXCEPT ![p] = Append(@, [key |-> q, payload |-> v])]
    /\ live' = [live EXCEPT ![p] = @ \cup {Len(history[p]) + 1}]
    /\ UNCHANGED replicaVars

\* The log cleaner drops a record once a later one with the same key is there.
Compact(p, i) ==
    /\ i \in live[p]
    /\ \E j \in live[p] : j > i /\ history[p][j].key = history[p][i].key
    /\ live' = [live EXCEPT ![p] = @ \ {i}]
    /\ UNCHANGED <<history, replicaVars>>

\* It drops a tombstone too, when nothing older is left for it to delete and
\* delete.retention.ms has passed: long enough, that is, for every replica
\* which has read something of that key to have read the tombstone as well.
Purge(p, i) ==
    /\ i \in live[p]
    /\ history[p][i].payload = Null
    /\ \A j \in live[p] : history[p][j].key = history[p][i].key => j >= i
    /\ \A r \in Replica : Running(r) /\ next[r][p] <= i =>
         \A j \in 1..(next[r][p] - 1) : history[p][j].key # history[p][i].key
    /\ live' = [live EXCEPT ![p] = @ \ {i}]
    /\ UNCHANGED <<history, replicaVars>>

-----------------------------------------------------------------------------
(***************************************************************************)
(* A replica.                                                              *)
(***************************************************************************)

\* A new loader: an empty store, every partition from the beginning, and a
\* detection that waits for all of them.
Start(r) ==
    /\ life[r] \in {"down", "failed"}
    /\ starts[r] < MaxStarts
    /\ starts' = [starts EXCEPT ![r] = @ + 1]
    /\ life' = [life EXCEPT ![r] = "warmup"]
    /\ next' = [next EXCEPT ![r] = Beginning]
    /\ due' = [due EXCEPT ![r] = {}]
    /\ remaining' = [remaining EXCEPT ![r] = Partition]
    /\ applied' = [applied EXCEPT ![r] = 0]
    /\ store' = [store EXCEPT ![r] = Nothing]
    /\ base' = [base EXCEPT ![r] = [p \in Partition |-> Len(history[p])]]
    /\ given' = [given EXCEPT ![r] = {}]
    /\ UNCHANGED topicVars

\* The process dies, in any phase.  Nothing it had is anywhere else.
Die(r) ==
    /\ Running(r)
    /\ life' = [life EXCEPT ![r] = "down"]
    /\ next' = [next EXCEPT ![r] = Beginning]
    /\ due' = [due EXCEPT ![r] = {}]
    /\ remaining' = [remaining EXCEPT ![r] = {}]
    /\ applied' = [applied EXCEPT ![r] = 0]
    /\ store' = [store EXCEPT ![r] = Nothing]
    /\ base' = [base EXCEPT ![r] = [p \in Partition |-> 0]]
    /\ given' = [given EXCEPT ![r] = {}]
    /\ UNCHANGED <<topicVars, starts>>

Ahead(r, p) == {i \in live[p] : i >= next[r][p]}

\* Poll returns a record, and it is applied before the next poll.
PollRecord(r, p) ==
    /\ Running(r)
    /\ p \notin due[r]
    /\ \E i \in Ahead(r, p) :
         /\ \A j \in Ahead(r, p) : i <= j
         /\ next' = [next EXCEPT ![r][p] = i + 1]
         /\ store' = [store EXCEPT ![r] = Fold(@, history[p][i])]
         /\ applied' = [applied EXCEPT ![r] =
              IF Counts(history[p][i]) /\ life[r] = "warmup" THEN @ + 1 ELSE @]
         /\ given' = [given EXCEPT ![r] =
              IF life[r] = "warmup" THEN @ \cup {<<p, i>>} ELSE @]
    /\ UNCHANGED <<topicVars, life, starts, due, remaining, base>>

\* librdkafka has come to the end of a partition and queues the event.  By the
\* time it is polled the partition may have grown again.
ReachEnd(r, p) ==
    /\ Running(r)
    /\ p \notin due[r]
    /\ Ahead(r, p) = {}
    /\ due' = [due EXCEPT ![r] = @ \cup {p}]
    /\ UNCHANGED <<topicVars, life, starts, next, remaining, applied, store, base,
                   given>>

\* Mutant: the detection is over at the first end of a partition.
PollEOF_First(r, p) ==
    /\ Running(r)
    /\ p \in due[r]
    /\ due' = [due EXCEPT ![r] = @ \ {p}]
    /\ remaining' = [remaining EXCEPT ![r] = @ \ {p}]
    /\ life' = [life EXCEPT ![r] =
         CASE @ = "steady" -> "steady"
           [] @ = "warmup" /\ (applied[r] > 0 \/ AllowEmpty) -> "steady"
           [] OTHER -> "failed"]
    /\ UNCHANGED <<topicVars, starts, next, applied, store, base, given>>

\* Mutant: only a partition that gave no record counts as read.
PollEOF_EmptyOnly(r, p) ==
    /\ Running(r)
    /\ p \in due[r]
    /\ due' = [due EXCEPT ![r] = @ \ {p}]
    /\ \/ /\ life[r] = "steady" \/ next[r][p] > 1
          /\ UNCHANGED <<remaining, life>>
       \/ /\ life[r] = "warmup" /\ next[r][p] = 1
          /\ remaining' = [remaining EXCEPT ![r] = @ \ {p}]
          /\ \/ /\ remaining'[r] # {}
                /\ UNCHANGED life
             \/ /\ remaining'[r] = {}
                /\ life' = [life EXCEPT ![r] =
                     IF applied[r] > 0 \/ AllowEmpty THEN "steady" ELSE "failed"]
    /\ UNCHANGED <<topicVars, starts, next, applied, store, base, given>>

\* Poll returns an end of partition: the last one ends the warm-up, and a
\* topic that gave nothing to apply fails Start unless that is allowed.  A
\* serving binding ignores it.
PollEOF(r, p) ==
    /\ Running(r)
    /\ p \in due[r]
    /\ due' = [due EXCEPT ![r] = @ \ {p}]
    /\ \/ /\ life[r] = "steady"
          /\ UNCHANGED <<remaining, life>>
       \/ /\ life[r] = "warmup"
          /\ remaining' = [remaining EXCEPT ![r] = @ \ {p}]
          /\ \/ /\ remaining'[r] # {}
                /\ UNCHANGED life
             \/ /\ remaining'[r] = {}
                /\ life' = [life EXCEPT ![r] =
                     IF applied[r] > 0 \/ AllowEmpty THEN "steady" ELSE "failed"]
    /\ UNCHANGED <<topicVars, starts, next, applied, store, base, given>>

-----------------------------------------------------------------------------
Poll(r) == \E p \in Partition : PollRecord(r, p) \/ ReachEnd(r, p) \/ PollEOF(r, p)

Next ==
    \/ \E q \in RawKey, v \in Payload : Produce(q, v)
    \/ \E p \in Partition, i \in Offset : Compact(p, i) \/ Purge(p, i)
    \/ \E r \in Replica : Start(r) \/ Die(r) \/ Poll(r)

Spec == Init /\ [][Next]_vars

\* The goroutine of a running binding keeps polling, and the broker answers
\* for every partition.  Nobody has to produce, compact, start or die.
FairSpec ==
    /\ Spec
    /\ \A r \in Replica, p \in Partition :
         /\ WF_vars(PollRecord(r, p))
         /\ WF_vars(ReachEnd(r, p))
         /\ WF_vars(PollEOF(r, p))

-----------------------------------------------------------------------------
(***************************************************************************)
(* What the store ought to hold.  The topic is the table                   *)
(* (developer-doc.md section 1): the last record of a raw key, whether or  *)
(* not it was compacted away meanwhile, is its current value.              *)
(***************************************************************************)

Of(q) == {i \in 1..Len(history[PartitionOf[q]]) : history[PartitionOf[q]][i].key = q}

\* What raw key q stands for, as of the first n records of its partition.
CurrentBy(q, n) ==
    LET earlier == {i \in Of(q) : i <= n}
        last    == history[PartitionOf[q]][CHOOSE i \in earlier : \A j \in earlier : j <= i]
    IN  IF earlier # {} /\ Upserts(last) THEN last.payload ELSE Absent

Current(q) == CurrentBy(q, Len(history[PartitionOf[q]]))

\* Every record the log still has was delivered.
ReadToEnd(r, p) == Running(r) /\ Ahead(r, p) = {}

-----------------------------------------------------------------------------
(***************************************************************************)
(* Safety, for a binding whose skips are decided by the key alone and that *)
(* takes the broker's deletes for its own.                                 *)
(***************************************************************************)

\* Whatever the payload, the filter drops records of this raw key.
Dropped(q) == \A v \in Payload : <<DecodeKey[q], v>> \in Rejected

CleanBinding ==
    /\ KeyFromValue = Bad
    /\ Null \in Tombstone
    /\ BadValue \subseteq Tombstone
    /\ \A q \in RawKey :
         Dropped(q) \/ \A v \in Payload : <<DecodeKey[q], v>> \notin Rejected

\* The raw keys that stand for a key of the store: more than one where a
\* decoder takes "7" and "07" for the same number (codec.go:26).  Nothing
\* orders their records among each other.
Spelled(k) == {q \in RawKey : DecodeKey[q] = k}

\* A replica that has read all there is about a key holds exactly the current
\* value of one of the raw keys that spell it, never an earlier one and never
\* one of another key, whatever was compacted before or while it read
\* (developer-doc.md:15-18).  Of a key with one spelling that is the value.
CurrentAtEnd ==
    \A r \in Replica, k \in Key :
        Spelled(k) # {} /\ (\A q \in Spelled(k) : ReadToEnd(r, PartitionOf[q])) =>
            \E q \in Spelled(k) : store[r][k] = Current(q)

\* A replica that serves has, for every key, a value at least as recent as the
\* one a raw key for it had when the replica was assigned
\* (driver/event.go:39-41, loader.go:271-273).
FreshOnceSteady ==
    \A r \in Replica, k \in Key :
        life[r] = "steady" /\ Spelled(k) # {} =>
            \E q \in Spelled(k) :
                \E n \in base[r][PartitionOf[q]]..Len(history[PartitionOf[q]]) :
                    store[r][k] = CurrentBy(q, n)

\* The warm-up of replica r was given an upsert or a delete.
GaveSomething(r) ==
    \E d \in given[r] : LET rec == history[d[1]][d[2]] IN Deletes(rec) \/ Upserts(rec)

\* Start fails on a topic that gave its warm-up nothing to apply, and only
\* then: one that gave tombstones alone, or an upsert and its delete, is not
\* empty, one whose every record was skipped is (loader.go:332-339,
\* binding.go:62-66).
EmptyTopicFails ==
    \A r \in Replica :
        /\ life[r] = "failed" => ~AllowEmpty /\ ~GaveSomething(r)
        /\ life[r] = "steady" => AllowEmpty \/ GaveSomething(r)

\* A replica that runs eventually serves and has read everything, unless it
\* fails or dies first (detect.go:54-62, developer-doc.md:207).
BecomesCurrent ==
    \A r \in Replica :
        Running(r) ~> \/ ~Running(r)
                      \/ life[r] = "steady" /\ \A p \in Partition : ReadToEnd(r, p)

(***************************************************************************)
(* What the documentation promises of any binding.                         *)
(***************************************************************************)

\* "a new loader over the same topics rebuilds the same stores"
\* (developer-doc.md:165): two replicas that have read the topic to its end
\* agree, whenever each of them was started.
ReplicasAgree ==
    \A r, s \in Replica :
        (\A p \in Partition : ReadToEnd(r, p) /\ ReadToEnd(s, p)) => store[r] = store[s]

=============================================================================
