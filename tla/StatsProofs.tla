----------------------------- MODULE StatsProofs -----------------------------
(***************************************************************************)
(* A snapshot of the figures fits together, and the Observer's own totals  *)
(* agree with it, for any number of records of any kind.                   *)
(*                                                                         *)
(* Each figure is a history count, less the record that is still on its    *)
(* way to it (Counted, Sized, Phases, Told, Reported).  Of a snapshot it   *)
(* is enough to know that no count ever goes down, and that the figures of *)
(* the warm-up stand still once it is over (Forward): what holds between   *)
(* the figures when one is read then holds with that one in the snapshot   *)
(* and the others still to be read (Snapshot).                             *)
(***************************************************************************)
EXTENDS Stats, TLAPS

Noted == Upserts \cup Deletes

\* One, while a record of these kinds is at one of these steps.
At(steps, kinds) == IF pc \in steps /\ record \in kinds THEN 1 ELSE 0

Placed ==
    /\ pc = "size" => record \in {"insert", "delete"}
    /\ pc \in {"last", "warm"} => record \in Noted
    /\ pc \in {"size", "count", "last", "warm", "tell", "progress"} => delivered > 0

Counted ==
    /\ fig.upserts + fig.deletes + fig.filtered + fig.decodeErrors
         = delivered - At({"size", "count"}, Records)
    /\ fig.upserts + fig.deletes = nth - At({"size", "count"}, Noted)
    /\ fig.last = nth - At({"size", "count", "last"}, Noted)
    /\ fig.applied <= fig.upserts + fig.deletes - At({"last", "warm"}, Noted)

Sized ==
    /\ fig.size = entries - At({"size"}, {"insert"}) + At({"size"}, {"delete"})
    /\ fig.size <= fig.upserts + At({"count"}, {"insert"})

Phases ==
    /\ fig.phase # "warmup" => fig.took /\ (fig.applied > 0 \/ AllowEmpty)
    /\ pc = "phase" => /\ fig.phase = "warmup"
                       /\ fig.took /\ (fig.applied > 0 \/ AllowEmpty)
    /\ pc = "progress" => fig.phase = "warmup"
    /\ pc = "announce" => fig.phase = "steady" /\ ~told.steady
    /\ pc # "announce" => (told.steady <=> fig.phase # "warmup")
    /\ told.steady => told.loaded = fig.applied

Told ==
    /\ told.upserts = fig.upserts - At({"last", "warm", "tell"}, Upserts)
    /\ told.deletes = fig.deletes - At({"last", "warm", "tell"}, Deletes)
    /\ told.filtered = fig.filtered - At({"tell"}, {"filtered"})
    /\ told.decodeErrors = fig.decodeErrors - At({"tell"}, {"undecodable"})
    /\ told.warmups =
         IF fig.phase = "warmup" THEN fig.applied - At({"tell"}, Noted) ELSE fig.applied

Reported ==
    /\ told.progress = Every * told.reports
    /\ progressAt = told.progress + Every
    /\ told.progress <= fig.applied
    /\ IF pc \in {"tell", "progress"} /\ fig.phase = "warmup"
         THEN fig.applied <= progressAt
         ELSE fig.applied < progressAt

\* A figure of the snapshot once it was read, and the live one before.
Seen(f, n) == IF reading >= n THEN snap[f] ELSE fig[f]

Snapshot ==
    reading >= 1 =>
        /\ snap.last <= Seen("upserts", 4) + Seen("deletes", 5)
        /\ reading >= 3 => snap.size <= Seen("upserts", 4) + 1
        /\ since <= Seen("upserts", 4) + Seen("deletes", 5)
                      + Seen("filtered", 6) + Seen("decodeErrors", 7)
        /\ /\ Seen("upserts", 4) <= fig.upserts
           /\ Seen("deletes", 5) <= fig.deletes
           /\ Seen("filtered", 6) <= fig.filtered
           /\ Seen("decodeErrors", 7) <= fig.decodeErrors
        /\ reading >= 2 /\ snap.phase # "warmup" =>
             /\ fig.phase # "warmup"
             /\ fig.applied <= Seen("upserts", 4) + Seen("deletes", 5)
             /\ Seen("applied", 8) = fig.applied
             /\ Seen("took", 9)

Inv == TypeOK /\ Placed /\ Counted /\ Sized /\ Phases /\ Told /\ Reported /\ Snapshot

-----------------------------------------------------------------------------
(***************************************************************************)
(* The types of the fields, one by one, so that a step can reason about    *)
(* the numbers alone.                                                      *)
(***************************************************************************)

FigTyped ==
    /\ fig.last \in Nat /\ fig.size \in Nat
    /\ fig.upserts \in Nat /\ fig.deletes \in Nat
    /\ fig.filtered \in Nat /\ fig.decodeErrors \in Nat
    /\ fig.applied \in Nat /\ fig.took \in BOOLEAN
    /\ fig.phase \in {"warmup", "steady", "stopped"}

ToldTyped ==
    /\ told.upserts \in Nat /\ told.deletes \in Nat
    /\ told.filtered \in Nat /\ told.decodeErrors \in Nat
    /\ told.warmups \in Nat /\ told.reports \in Nat
    /\ told.progress \in Nat /\ told.loaded \in Nat
    /\ told.steady \in BOOLEAN

SnapTyped ==
    /\ snap.last \in Nat /\ snap.size \in Nat
    /\ snap.upserts \in Nat /\ snap.deletes \in Nat
    /\ snap.filtered \in Nat /\ snap.decodeErrors \in Nat
    /\ snap.applied \in Nat /\ snap.took \in BOOLEAN
    /\ snap.phase \in {"warmup", "steady", "stopped"}

Counters ==
    /\ delivered \in Nat /\ nth \in Nat /\ entries \in Nat /\ progressAt \in Nat
    /\ since \in Nat /\ reading \in 0..9 /\ reading \in Int

\* TypeOK says of every field what its type is.
LEMMA Typed ==
    ASSUME TypeOK
    PROVE  FigTyped /\ ToldTyped /\ SnapTyped /\ Counters
<1>1. FigTyped
  BY DEF TypeOK, FigTyped, Figures
<1>2. ToldTyped
  BY DEF TypeOK, ToldTyped, Totals
<1>3. SnapTyped
  BY DEF TypeOK, SnapTyped, Figures
<1>4. Counters
  BY StatsAssumption DEF TypeOK, Counters, Fields
<1> QED
  BY <1>1, <1>2, <1>3, <1>4

\* The same of the state a step leads to.
LEMMA TypedNext ==
    ASSUME TypeOK'
    PROVE  FigTyped' /\ ToldTyped' /\ SnapTyped' /\ Counters'
<1>1. FigTyped'
  BY DEF TypeOK, FigTyped, Figures
<1>2. ToldTyped'
  BY DEF TypeOK, ToldTyped, Totals
<1>3. SnapTyped'
  BY DEF TypeOK, SnapTyped, Figures
<1>4. Counters'
  BY StatsAssumption DEF TypeOK, Counters, Fields
<1> QED
  BY <1>1, <1>2, <1>3, <1>4

\* Initially every count is zero.
LEMMA InitInv == Init => Inv
<1> SUFFICES ASSUME Init PROVE Inv
  OBVIOUS
<1>1. TypeOK
  <2>1. fig \in Figures /\ snap \in Figures
    BY DEF Init, Figures, Zero
  <2>2. told \in Totals
    BY DEF Init, Totals, ToldNothing
  <2>3. 0 \in 0..Len(Fields)
    BY DEF Fields
  <2>4. 0 \in 0..MaxRecords /\ 0 \in 0..0 /\ Every \in Nat /\ 0 \in Nat
    BY StatsAssumption
  <2>5. record \in Records
    BY DEF Init, Records
  <2> QED
    BY <2>1, <2>2, <2>3, <2>4, <2>5 DEF Init, TypeOK
<1>2. Placed /\ Counted /\ Sized
  <2>1. \A steps, kinds : "poll" \notin steps => At(steps, kinds) = 0
    BY DEF Init, At
  <2>2. /\ At({"size", "count"}, Records) = 0 /\ At({"size", "count"}, Noted) = 0
        /\ At({"size", "count", "last"}, Noted) = 0 /\ At({"last", "warm"}, Noted) = 0
        /\ At({"size"}, {"insert"}) = 0 /\ At({"size"}, {"delete"}) = 0
        /\ At({"count"}, {"insert"}) = 0
    BY <2>1
  <2>3. /\ fig.upserts = 0 /\ fig.deletes = 0 /\ fig.filtered = 0
        /\ fig.decodeErrors = 0 /\ fig.last = 0 /\ fig.size = 0 /\ fig.applied = 0
    BY DEF Init, Zero
  <2> QED
    BY <2>2, <2>3 DEF Init, Placed, Counted, Sized
<1>3. Phases
  BY DEF Init, Phases, Zero, ToldNothing
<1>4. Told
  BY DEF Init, Told, At, Zero, ToldNothing
<1>5. Reported
  BY StatsAssumption DEF Init, Reported, Zero, ToldNothing
<1>6. Snapshot
  BY DEF Init, Snapshot
<1> QED
  BY <1>1, <1>2, <1>3, <1>4, <1>5, <1>6 DEF Inv

-----------------------------------------------------------------------------
(***************************************************************************)
(* What a step of the binding may do to a snapshot: nothing, since counts  *)
(* only go up and the figures of a warm-up that is over stand still.       *)
(***************************************************************************)

Forward ==
    /\ fig.upserts <= fig'.upserts /\ fig.deletes <= fig'.deletes
    /\ fig.filtered <= fig'.filtered /\ fig.decodeErrors <= fig'.decodeErrors
    /\ fig.phase # "warmup" => /\ fig'.phase # "warmup"
                               /\ fig'.applied = fig.applied
                               /\ fig'.took = fig.took

LEMMA KeepSnapshot ==
    ASSUME TypeOK, TypeOK', Snapshot, Forward, UNCHANGED statsVars
    PROVE  Snapshot'
<1>1. FigTyped /\ SnapTyped /\ Counters /\ FigTyped'
  BY Typed, TypedNext
<1>2. snap' = snap /\ reading' = reading /\ since' = since
  BY DEF statsVars
<1> SUFFICES ASSUME reading >= 1
             PROVE  Snapshot'
  BY <1>2 DEF Snapshot
<1>3. /\ Seen("upserts", 4) <= Seen("upserts", 4)' /\ Seen("upserts", 4)' <= fig'.upserts
      /\ Seen("deletes", 5) <= Seen("deletes", 5)' /\ Seen("deletes", 5)' <= fig'.deletes
      /\ Seen("filtered", 6) <= Seen("filtered", 6)' /\ Seen("filtered", 6)' <= fig'.filtered
      /\ Seen("decodeErrors", 7) <= Seen("decodeErrors", 7)'
      /\ Seen("decodeErrors", 7)' <= fig'.decodeErrors
  BY <1>1, <1>2 DEF Snapshot, Seen, Forward, FigTyped, SnapTyped, Counters
<1>4. /\ Seen("upserts", 4) \in Nat /\ Seen("upserts", 4)' \in Nat
      /\ Seen("deletes", 5) \in Nat /\ Seen("deletes", 5)' \in Nat
      /\ Seen("filtered", 6) \in Nat /\ Seen("filtered", 6)' \in Nat
      /\ Seen("decodeErrors", 7) \in Nat /\ Seen("decodeErrors", 7)' \in Nat
  BY <1>1, <1>2 DEF Seen, FigTyped, SnapTyped
<1>5. snap'.last <= Seen("upserts", 4)' + Seen("deletes", 5)'
  BY <1>1, <1>2, <1>3, <1>4 DEF Snapshot, SnapTyped
<1>6. reading' >= 3 => snap'.size <= Seen("upserts", 4)' + 1
  BY <1>1, <1>2, <1>3, <1>4 DEF Snapshot, SnapTyped
<1>7. since' <= Seen("upserts", 4)' + Seen("deletes", 5)'
                  + Seen("filtered", 6)' + Seen("decodeErrors", 7)'
  BY <1>1, <1>2, <1>3, <1>4 DEF Snapshot, Counters
<1>8. ASSUME reading' >= 2, snap'.phase # "warmup"
      PROVE  /\ fig'.phase # "warmup"
             /\ fig'.applied <= Seen("upserts", 4)' + Seen("deletes", 5)'
             /\ Seen("applied", 8)' = fig'.applied
             /\ Seen("took", 9)'
  <2>1. /\ fig.phase # "warmup"
        /\ fig.applied <= Seen("upserts", 4) + Seen("deletes", 5)
        /\ Seen("applied", 8) = fig.applied
        /\ Seen("took", 9)
    BY <1>2, <1>8 DEF Snapshot
  <2>2. fig'.phase # "warmup" /\ fig'.applied = fig.applied /\ fig'.took = fig.took
    BY <2>1 DEF Forward
  <2>3. fig'.applied <= Seen("upserts", 4)' + Seen("deletes", 5)'
    BY <2>1, <2>2, <1>1, <1>3, <1>4 DEF FigTyped
  <2>4. Seen("applied", 8)' = fig'.applied /\ Seen("took", 9)'
    BY <2>1, <2>2, <1>2 DEF Seen
  <2> QED
    BY <2>2, <2>3, <2>4
<1> QED
  BY <1>3, <1>5, <1>6, <1>7, <1>8 DEF Snapshot

-----------------------------------------------------------------------------
(***************************************************************************)
(* The steps of the binding.                                               *)
(***************************************************************************)

LEMMA DeliverInv ==
    ASSUME Inv, NEW rec \in Records, Deliver(rec)
    PROVE  Inv'
<1> USE DEF Inv
<1>1. /\ pc = "poll" /\ record' = rec /\ delivered' = delivered + 1
      /\ nth' = IF rec \in Noted THEN nth + 1 ELSE nth
      /\ pc' = IF rec \in {"insert", "delete"} THEN "size" ELSE "count"
      /\ fig' = fig /\ told' = told /\ progressAt' = progressAt
      /\ UNCHANGED statsVars
  BY DEF Deliver, observerVars, Noted
<1>2. /\ rec = "insert" => entries' = entries + 1
      /\ rec = "delete" => entries > 0 /\ entries' = entries - 1
      /\ rec \notin {"insert", "delete"} => entries' = entries
  BY DEF Deliver
<1>3. FigTyped /\ ToldTyped /\ Counters
  BY Typed
<1>4. TypeOK'
  <2>1. entries' \in Nat
    BY <1>2, <1>3 DEF Counters
  <2>2. delivered' \in 0..MaxRecords /\ nth' \in 0..delivered'
    BY <1>1, <1>3, StatsAssumption DEF Deliver, TypeOK, Counters
  <2>3. pc' \in {"size", "count"}
    BY <1>1
  <2> QED
    BY <1>1, <2>1, <2>2, <2>3 DEF TypeOK, statsVars
<1>5. Placed'
  BY <1>1, <1>3 DEF Placed, Counters
<1>6. Counted'
  BY <1>1, <1>3 DEF Counted, At, FigTyped, Counters, Noted, Upserts, Deletes, Records
<1>7. Sized'
  BY <1>1, <1>2, <1>3 DEF Sized, At, FigTyped, Counters
<1>8. Phases'
  BY <1>1 DEF Phases
<1>9. Told'
  BY <1>1 DEF Told, At
<1>10. Reported'
  BY <1>1 DEF Reported
<1>11. Forward
  BY <1>1, <1>3 DEF Forward, FigTyped
<1>12. Snapshot'
  BY <1>1, <1>4, <1>11, KeepSnapshot
<1> QED
  BY <1>4, <1>5, <1>6, <1>7, <1>8, <1>9, <1>10, <1>12

LEMMA AddSizeInv ==
    ASSUME Inv, AddSize
    PROVE  Inv'
<1> USE DEF Inv
<1>1. /\ pc = "size" /\ pc' = "count"
      /\ UNCHANGED <<record, delivered, nth, entries, told, progressAt, statsVars>>
  BY DEF AddSize, observerVars, StepAfter
<1>2. record \in {"insert", "delete"}
  BY <1>1 DEF Placed
<1>3. /\ fig'.upserts = fig.upserts /\ fig'.deletes = fig.deletes
      /\ fig'.filtered = fig.filtered /\ fig'.decodeErrors = fig.decodeErrors
      /\ fig'.last = fig.last /\ fig'.applied = fig.applied
      /\ fig'.phase = fig.phase /\ fig'.took = fig.took
      /\ fig'.size = IF record = "insert" THEN fig.size + 1 ELSE fig.size - 1
  BY DEF AddSize, TypeOK, Figures
<1>4. FigTyped /\ ToldTyped /\ Counters
  BY Typed
<1>5. fig.size = entries - At({"size"}, {"insert"}) + At({"size"}, {"delete"})
  BY DEF Sized
<1>6. fig'.size = entries /\ (record = "insert" => fig.size <= fig.upserts)
  BY <1>1, <1>2, <1>3, <1>4, <1>5 DEF At, Counters, FigTyped, Sized
<1>7. TypeOK'
  <2>1. fig' \in Figures
    BY <1>3, <1>6, <1>4 DEF AddSize, TypeOK, Figures, Counters
  <2> QED
    BY <1>1, <2>1 DEF TypeOK, statsVars
<1>8. Placed'
  BY <1>1 DEF Placed
<1>9. Counted'
  BY <1>1, <1>2, <1>3, <1>4 DEF Counted, At, FigTyped, Counters, Noted, Upserts, Deletes, Records
<1>10. Sized'
  <2>1. fig'.size <= fig'.upserts + At({"count"}, {"insert"})'
    BY <1>1, <1>2, <1>3, <1>4, <1>6 DEF Sized, At, FigTyped
  <2> QED
    BY <2>1, <1>1, <1>6, <1>4 DEF Sized, At, Counters
<1>11. Phases'
  BY <1>1, <1>3 DEF Phases
<1>12. Told'
  BY <1>1, <1>3, <1>4 DEF Told, At
<1>13. Reported'
  BY <1>1, <1>3 DEF Reported
<1>14. Forward
  BY <1>3, <1>4 DEF Forward, FigTyped
<1>15. Snapshot'
  BY <1>1, <1>7, <1>14, KeepSnapshot
<1> QED
  BY <1>7, <1>8, <1>9, <1>10, <1>11, <1>12, <1>13, <1>15

LEMMA CountInv ==
    ASSUME Inv, Count
    PROVE  Inv'
<1> USE DEF Inv
<1>1. /\ pc = "count" /\ pc' = IF record \in Noted THEN "last" ELSE "tell"
      /\ UNCHANGED <<record, delivered, nth, entries, told, progressAt, statsVars>>
  BY DEF Count, observerVars, StepAfter, Noted
<1>2. record \in Records
  BY DEF TypeOK
<1>3. /\ fig'.upserts = IF record \in Upserts THEN fig.upserts + 1 ELSE fig.upserts
      /\ fig'.deletes = IF record \in Deletes THEN fig.deletes + 1 ELSE fig.deletes
      /\ fig'.filtered = IF record = "filtered" THEN fig.filtered + 1 ELSE fig.filtered
      /\ fig'.decodeErrors = IF record = "undecodable" THEN fig.decodeErrors + 1
                                                       ELSE fig.decodeErrors
      /\ fig'.last = fig.last /\ fig'.applied = fig.applied
      /\ fig'.phase = fig.phase /\ fig'.took = fig.took /\ fig'.size = fig.size
  BY DEF Count, TypeOK, Figures
<1>4. FigTyped /\ ToldTyped /\ Counters
  BY Typed
<1>5. TypeOK'
  <2>1. /\ fig'.upserts \in Nat /\ fig'.deletes \in Nat
        /\ fig'.filtered \in Nat /\ fig'.decodeErrors \in Nat
    BY <1>3, <1>4 DEF FigTyped
  <2>2. fig' = [fig EXCEPT !.upserts = fig'.upserts, !.deletes = fig'.deletes,
                           !.filtered = fig'.filtered,
                           !.decodeErrors = fig'.decodeErrors]
    BY DEF Count, TypeOK, Figures
  <2>3. fig' \in Figures
    BY <2>1, <2>2 DEF TypeOK, Figures
  <2> QED
    BY <1>1, <2>3 DEF TypeOK, statsVars
<1>6. Placed'
  BY <1>1 DEF Placed
<1>7. Counted'
  <2>1. At({"size", "count"}, Records)' = 0 /\ At({"size", "count"}, Records) = 1
    BY <1>1, <1>2 DEF At
  <2>2. /\ At({"size", "count"}, Noted)' = 0
        /\ At({"size", "count"}, Noted) = IF record \in Noted THEN 1 ELSE 0
        /\ At({"size", "count", "last"}, Noted)' = IF record \in Noted THEN 1 ELSE 0
        /\ At({"size", "count", "last"}, Noted) = IF record \in Noted THEN 1 ELSE 0
        /\ At({"last", "warm"}, Noted)' = IF record \in Noted THEN 1 ELSE 0
        /\ At({"last", "warm"}, Noted) = 0
    BY <1>1, <1>2 DEF At
  <2>3. fig'.upserts + fig'.deletes
          = fig.upserts + fig.deletes + (IF record \in Noted THEN 1 ELSE 0)
    BY <1>2, <1>3, <1>4 DEF FigTyped, Noted, Upserts, Deletes, Records
  <2>4. fig'.upserts + fig'.deletes + fig'.filtered + fig'.decodeErrors
          = fig.upserts + fig.deletes + fig.filtered + fig.decodeErrors + 1
    BY <1>2, <1>3, <1>4 DEF FigTyped, Upserts, Deletes, Records
  <2>5. /\ fig'.upserts \in Nat /\ fig'.deletes \in Nat
        /\ fig'.filtered \in Nat /\ fig'.decodeErrors \in Nat
    BY <1>3, <1>4 DEF FigTyped
  <2> QED
    BY <1>1, <1>3, <1>4, <2>1, <2>2, <2>3, <2>4, <2>5 DEF Counted, FigTyped, Counters
<1>8. Sized'
  BY <1>1, <1>2, <1>3, <1>4 DEF Sized, At, FigTyped, Counters, Noted, Upserts
<1>9. Phases'
  BY <1>1, <1>3 DEF Phases
<1>10. Told'
  BY <1>1, <1>2, <1>3, <1>4 DEF Told, At, FigTyped, ToldTyped, Noted, Upserts, Deletes, Records
<1>11. Reported'
  BY <1>1, <1>3, <1>4, StatsAssumption DEF Reported, FigTyped, ToldTyped, Counters
<1>12. Forward
  BY <1>3, <1>4 DEF Forward, FigTyped
<1>13. Snapshot'
  BY <1>1, <1>5, <1>12, KeepSnapshot
<1> QED
  BY <1>5, <1>6, <1>7, <1>8, <1>9, <1>10, <1>11, <1>13

LEMMA NoteLastInv ==
    ASSUME Inv, NoteLast
    PROVE  Inv'
<1> USE DEF Inv
<1>1. /\ pc = "last" /\ pc' = "warm"
      /\ UNCHANGED <<record, delivered, nth, entries, told, progressAt, statsVars>>
  BY DEF NoteLast, observerVars, StepAfter
<1>2. record \in Noted
  BY <1>1 DEF Placed
<1>3. /\ fig'.upserts = fig.upserts /\ fig'.deletes = fig.deletes
      /\ fig'.filtered = fig.filtered /\ fig'.decodeErrors = fig.decodeErrors
      /\ fig'.last = nth /\ fig'.applied = fig.applied
      /\ fig'.phase = fig.phase /\ fig'.took = fig.took /\ fig'.size = fig.size
  BY DEF NoteLast, TypeOK, Figures
<1>4. FigTyped /\ ToldTyped /\ Counters
  BY Typed
<1>5. TypeOK'
  <2>1. fig' \in Figures
    BY <1>4 DEF NoteLast, TypeOK, Figures, Counters
  <2> QED
    BY <1>1, <2>1 DEF TypeOK, statsVars
<1>6. Placed'
  BY <1>1, <1>2 DEF Placed
<1>7. Counted'
  BY <1>1, <1>2, <1>3, <1>4 DEF Counted, At, FigTyped, Counters
<1>8. Sized'
  BY <1>1, <1>3, <1>4 DEF Sized, At
<1>9. Phases'
  BY <1>1, <1>3 DEF Phases
<1>10. Told'
  BY <1>1, <1>3, <1>4 DEF Told, At
<1>11. Reported'
  BY <1>1, <1>3 DEF Reported
<1>12. Forward
  BY <1>3, <1>4 DEF Forward, FigTyped
<1>13. Snapshot'
  BY <1>1, <1>5, <1>12, KeepSnapshot
<1> QED
  BY <1>5, <1>6, <1>7, <1>8, <1>9, <1>10, <1>11, <1>13

LEMMA NoteWarmupInv ==
    ASSUME Inv, NoteWarmup
    PROVE  Inv'
<1> USE DEF Inv
<1>1. /\ pc = "warm" /\ pc' = "tell"
      /\ UNCHANGED <<record, delivered, nth, entries, told, progressAt, statsVars>>
  BY DEF NoteWarmup, observerVars, StepAfter
<1>2. record \in Noted
  BY <1>1 DEF Placed
<1>3. /\ fig'.upserts = fig.upserts /\ fig'.deletes = fig.deletes
      /\ fig'.filtered = fig.filtered /\ fig'.decodeErrors = fig.decodeErrors
      /\ fig'.last = fig.last
      /\ fig'.applied = IF fig.phase = "warmup" THEN fig.applied + 1 ELSE fig.applied
      /\ fig'.phase = fig.phase /\ fig'.took = fig.took /\ fig'.size = fig.size
  BY DEF NoteWarmup, TypeOK, Figures
<1>4. FigTyped /\ ToldTyped /\ Counters
  BY Typed
<1>5. TypeOK'
  <2>1. fig'.applied \in Nat
    BY <1>3, <1>4 DEF FigTyped
  <2>2. fig' = [fig EXCEPT !.applied = fig'.applied]
    BY DEF NoteWarmup, TypeOK, Figures
  <2>3. fig' \in Figures
    BY <2>1, <2>2 DEF TypeOK, Figures
  <2> QED
    BY <1>1, <2>3 DEF TypeOK, statsVars
<1>6. Placed'
  BY <1>1 DEF Placed
<1>7. Counted'
  BY <1>1, <1>2, <1>3, <1>4 DEF Counted, At, FigTyped, Counters
<1>8. Sized'
  BY <1>1, <1>3, <1>4 DEF Sized, At
<1>9. Phases'
  BY <1>1, <1>3, <1>4 DEF Phases, FigTyped
<1>10. Told'
  <2>1. record \notin {"filtered", "undecodable"}
    BY <1>2 DEF Noted, Upserts, Deletes
  <2> QED
    BY <1>1, <1>2, <1>3, <1>4, <2>1 DEF Told, At, FigTyped, ToldTyped
<1>11. Reported'
  BY <1>1, <1>3, <1>4 DEF Reported, FigTyped, ToldTyped, Counters
<1>12. Forward
  BY <1>3, <1>4 DEF Forward, FigTyped
<1>13. Snapshot'
  BY <1>1, <1>5, <1>12, KeepSnapshot
<1> QED
  BY <1>5, <1>6, <1>7, <1>8, <1>9, <1>10, <1>11, <1>13

LEMMA TellInv ==
    ASSUME Inv, Tell
    PROVE  Inv'
<1> USE DEF Inv
<1>1. /\ pc = "tell" /\ pc' = IF fig.phase = "warmup" THEN "progress" ELSE "poll"
      /\ UNCHANGED <<record, delivered, nth, entries, fig, progressAt, statsVars>>
  BY DEF Tell
<1>2. record \in Records
  BY DEF TypeOK
<1>3. /\ told'.upserts = IF record \in Upserts THEN told.upserts + 1 ELSE told.upserts
      /\ told'.deletes = IF record \in Deletes THEN told.deletes + 1 ELSE told.deletes
      /\ told'.filtered = IF record = "filtered" THEN told.filtered + 1 ELSE told.filtered
      /\ told'.decodeErrors = IF record = "undecodable" THEN told.decodeErrors + 1
                                                        ELSE told.decodeErrors
      /\ told'.warmups = IF record \in Noted /\ fig.phase = "warmup"
                           THEN told.warmups + 1 ELSE told.warmups
      /\ told'.reports = told.reports /\ told'.progress = told.progress
      /\ told'.steady = told.steady /\ told'.loaded = told.loaded
  BY DEF Tell, TypeOK, Totals, Noted
<1>4. FigTyped /\ ToldTyped /\ Counters
  BY Typed
<1>5. TypeOK'
  <2>1. /\ told'.upserts \in Nat /\ told'.deletes \in Nat /\ told'.filtered \in Nat
        /\ told'.decodeErrors \in Nat /\ told'.warmups \in Nat
    BY <1>3, <1>4 DEF ToldTyped
  <2>2. told' = [told EXCEPT !.upserts = told'.upserts, !.deletes = told'.deletes,
                             !.filtered = told'.filtered,
                             !.decodeErrors = told'.decodeErrors,
                             !.warmups = told'.warmups]
    BY DEF Tell, TypeOK, Totals
  <2>3. told' \in Totals
    BY <2>1, <2>2 DEF TypeOK, Totals
  <2> QED
    BY <1>1, <2>3 DEF TypeOK, statsVars
<1>6. Placed'
  BY <1>1 DEF Placed
<1>7. Counted'
  BY <1>1, <1>4 DEF Counted, At, FigTyped, Counters
<1>8. Sized'
  BY <1>1, <1>4 DEF Sized, At
<1>9. Phases'
  BY <1>1, <1>3 DEF Phases
<1>10. Told'
  BY <1>1, <1>2, <1>3, <1>4 DEF Told, At, FigTyped, ToldTyped, Noted, Upserts, Deletes, Records
<1>11. Reported'
  BY <1>1, <1>3, <1>4 DEF Reported
<1>12. Forward
  BY <1>1, <1>4 DEF Forward, FigTyped
<1>13. Snapshot'
  BY <1>1, <1>5, <1>12, KeepSnapshot
<1> QED
  BY <1>5, <1>6, <1>7, <1>8, <1>9, <1>10, <1>11, <1>13

LEMMA ReportProgressInv ==
    ASSUME Inv, ReportProgress
    PROVE  Inv'
<1> USE DEF Inv
<1>1. /\ pc = "progress" /\ pc' = "poll"
      /\ UNCHANGED <<record, delivered, nth, entries, fig, statsVars>>
  BY DEF ReportProgress
<1>2. FigTyped /\ ToldTyped /\ Counters
  BY Typed
<1>3. \/ /\ fig.applied >= progressAt
         /\ progressAt' = fig.applied + Every
         /\ told'.reports = told.reports + 1 /\ told'.progress = fig.applied
      \/ /\ fig.applied < progressAt
         /\ progressAt' = progressAt
         /\ told'.reports = told.reports /\ told'.progress = told.progress
  BY DEF ReportProgress, TypeOK, Totals, observerVars
<1>4. /\ told'.upserts = told.upserts /\ told'.deletes = told.deletes
      /\ told'.filtered = told.filtered /\ told'.decodeErrors = told.decodeErrors
      /\ told'.warmups = told.warmups
      /\ told'.steady = told.steady /\ told'.loaded = told.loaded
  BY DEF ReportProgress, TypeOK, Totals, observerVars
<1>5. TypeOK'
  <2>1. told'.reports \in Nat /\ told'.progress \in Nat /\ progressAt' \in Nat
    BY <1>2, <1>3, StatsAssumption DEF FigTyped, ToldTyped, Counters
  <2>2. told' = [told EXCEPT !.reports = told'.reports, !.progress = told'.progress]
    BY DEF ReportProgress, TypeOK, Totals, observerVars
  <2>3. told' \in Totals
    BY <2>1, <2>2 DEF TypeOK, Totals
  <2> QED
    BY <1>1, <2>1, <2>3 DEF TypeOK, statsVars
<1>6. Placed'
  BY <1>1 DEF Placed
<1>7. Counted'
  BY <1>1, <1>2 DEF Counted, At, FigTyped, Counters
<1>8. Sized'
  BY <1>1, <1>2 DEF Sized, At
<1>9. Phases'
  BY <1>1, <1>4 DEF Phases
<1>10. Told'
  BY <1>1, <1>2, <1>4 DEF Told, At, FigTyped, ToldTyped
<1>11. Reported'
  <2>1. fig.phase = "warmup" /\ fig.applied <= progressAt
    BY <1>1 DEF Phases, Reported
  <2>2. fig'.applied = fig.applied /\ fig.applied \in Nat /\ told.reports \in Nat
        /\ told.progress \in Nat /\ progressAt \in Nat /\ Every \in Nat \ {0}
    BY <1>1, <1>2, StatsAssumption DEF FigTyped, ToldTyped, Counters
  <2>3. /\ told.progress = Every * told.reports
        /\ progressAt = told.progress + Every
        /\ told.progress <= fig.applied
    BY DEF Reported
  <2>4. CASE fig.applied >= progressAt
    <3>1. /\ progressAt' = fig.applied + Every
          /\ told'.reports = told.reports + 1 /\ told'.progress = fig.applied
      BY <1>3, <2>4, <2>2
    <3>2. fig.applied = told.progress + Every
      <4>1. fig.applied = progressAt
        BY <2>1, <2>2, <2>4
      <4> QED
        BY <4>1, <2>3
    <3>3. Every * (told.reports + 1) = Every * told.reports + Every
      BY <2>2
    <3> QED
      <4>1. told'.progress = Every * told'.reports
        BY <3>1, <3>2, <3>3, <2>3
      <4>2. fig'.applied < progressAt'
        BY <3>1, <2>2
      <4>3. told'.progress <= fig'.applied
        BY <3>1, <2>2
      <4> QED
        BY <4>1, <4>2, <4>3, <3>1, <2>2, <1>1 DEF Reported
  <2>5. CASE fig.applied < progressAt
    <3>1. /\ progressAt' = progressAt
          /\ told'.reports = told.reports /\ told'.progress = told.progress
      BY <1>3, <2>5, <2>2
    <3> QED
      BY <3>1, <2>2, <2>3, <2>5, <1>1 DEF Reported
  <2> QED
    BY <2>2, <2>4, <2>5
<1>12. Forward
  BY <1>1, <1>2 DEF Forward, FigTyped
<1>13. Snapshot'
  BY <1>1, <1>5, <1>12, KeepSnapshot
<1> QED
  BY <1>5, <1>6, <1>7, <1>8, <1>9, <1>10, <1>11, <1>13

LEMMA StoreTookInv ==
    ASSUME Inv, StoreTook
    PROVE  Inv'
<1> USE DEF Inv
<1>1. /\ pc = "poll" /\ pc' = "phase"
      /\ fig.phase = "warmup" /\ (fig.applied > 0 \/ AllowEmpty)
      /\ UNCHANGED <<record, delivered, nth, entries, told, progressAt, statsVars>>
  BY DEF StoreTook, observerVars
<1>2. /\ fig'.upserts = fig.upserts /\ fig'.deletes = fig.deletes
      /\ fig'.filtered = fig.filtered /\ fig'.decodeErrors = fig.decodeErrors
      /\ fig'.last = fig.last /\ fig'.applied = fig.applied
      /\ fig'.phase = fig.phase /\ fig'.took = TRUE /\ fig'.size = fig.size
      /\ fig' \in Figures
  BY DEF StoreTook, TypeOK, Figures
<1>3. FigTyped /\ ToldTyped /\ Counters
  BY Typed
<1>4. TypeOK'
  BY <1>1, <1>2 DEF TypeOK, statsVars
<1>5. Placed'
  BY <1>1 DEF Placed
<1>6. Counted'
  BY <1>1, <1>2, <1>3 DEF Counted, At, FigTyped, Counters
<1>7. Sized'
  BY <1>1, <1>2, <1>3 DEF Sized, At
<1>8. Phases'
  BY <1>1, <1>2 DEF Phases
<1>9. Told'
  BY <1>1, <1>2, <1>3 DEF Told, At
<1>10. Reported'
  BY <1>1, <1>2 DEF Reported
<1>11. Forward
  BY <1>1, <1>2, <1>3 DEF Forward, FigTyped
<1>12. Snapshot'
  BY <1>1, <1>4, <1>11, KeepSnapshot
<1> QED
  BY <1>4, <1>5, <1>6, <1>7, <1>8, <1>9, <1>10, <1>12

LEMMA StorePhaseInv ==
    ASSUME Inv, StorePhase
    PROVE  Inv'
<1> USE DEF Inv
<1>1. /\ pc = "phase" /\ pc' = "announce"
      /\ UNCHANGED <<record, delivered, nth, entries, told, progressAt, statsVars>>
  BY DEF StorePhase, observerVars
<1>2. /\ fig'.upserts = fig.upserts /\ fig'.deletes = fig.deletes
      /\ fig'.filtered = fig.filtered /\ fig'.decodeErrors = fig.decodeErrors
      /\ fig'.last = fig.last /\ fig'.applied = fig.applied
      /\ fig'.phase = "steady" /\ fig'.took = fig.took /\ fig'.size = fig.size
      /\ fig' \in Figures
  BY DEF StorePhase, TypeOK, Figures
<1>3. FigTyped /\ ToldTyped /\ Counters
  BY Typed
<1>4. TypeOK'
  BY <1>1, <1>2 DEF TypeOK, statsVars
<1>5. Placed'
  BY <1>1 DEF Placed
<1>6. Counted'
  BY <1>1, <1>2, <1>3 DEF Counted, At, FigTyped, Counters
<1>7. Sized'
  BY <1>1, <1>2, <1>3 DEF Sized, At
<1>8. Phases'
  BY <1>1, <1>2 DEF Phases
<1>9. Told'
  BY <1>1, <1>2, <1>3 DEF Told, At, Phases, FigTyped
<1>10. Reported'
  BY <1>1, <1>2 DEF Reported
<1>11. Forward
  BY <1>1, <1>2, <1>3 DEF Forward, FigTyped, Phases
<1>12. Snapshot'
  BY <1>1, <1>4, <1>11, KeepSnapshot
<1> QED
  BY <1>4, <1>5, <1>6, <1>7, <1>8, <1>9, <1>10, <1>12

LEMMA AnnounceInv ==
    ASSUME Inv, Announce
    PROVE  Inv'
<1> USE DEF Inv
<1>1. /\ pc = "announce" /\ pc' = "poll"
      /\ UNCHANGED <<record, delivered, nth, entries, fig, progressAt, statsVars>>
  BY DEF Announce
<1>2. FigTyped /\ ToldTyped /\ Counters
  BY Typed
<1>3. /\ told'.upserts = told.upserts /\ told'.deletes = told.deletes
      /\ told'.filtered = told.filtered /\ told'.decodeErrors = told.decodeErrors
      /\ told'.warmups = told.warmups /\ told'.reports = told.reports
      /\ told'.progress = told.progress
      /\ told'.steady = TRUE /\ told'.loaded = fig.applied
  BY DEF Announce, TypeOK, Totals
<1>4. TypeOK'
  <2>1. told' \in Totals
    BY <1>2 DEF Announce, TypeOK, Totals, FigTyped
  <2> QED
    BY <1>1, <2>1 DEF TypeOK, statsVars
<1>5. Placed'
  BY <1>1 DEF Placed
<1>6. Counted'
  BY <1>1, <1>2 DEF Counted, At
<1>7. Sized'
  BY <1>1, <1>2 DEF Sized, At
<1>8. Phases'
  BY <1>1, <1>3 DEF Phases
<1>9. Told'
  BY <1>1, <1>2, <1>3 DEF Told, At
<1>10. Reported'
  BY <1>1, <1>3 DEF Reported
<1>11. Forward
  BY <1>1, <1>2 DEF Forward, FigTyped
<1>12. Snapshot'
  BY <1>1, <1>4, <1>11, KeepSnapshot
<1> QED
  BY <1>4, <1>5, <1>6, <1>7, <1>8, <1>9, <1>10, <1>12

LEMMA LeaveInv ==
    ASSUME Inv, Leave
    PROVE  Inv'
<1> USE DEF Inv
<1>1. /\ pc = "poll" /\ pc' = "done"
      /\ UNCHANGED <<record, delivered, nth, entries, told, progressAt, statsVars>>
  BY DEF Leave, observerVars
<1>2. /\ fig'.upserts = fig.upserts /\ fig'.deletes = fig.deletes
      /\ fig'.filtered = fig.filtered /\ fig'.decodeErrors = fig.decodeErrors
      /\ fig'.last = fig.last /\ fig'.applied = fig.applied
      /\ fig'.phase = IF fig.phase = "warmup" THEN "warmup" ELSE "stopped"
      /\ fig'.took = fig.took /\ fig'.size = fig.size
      /\ fig' \in Figures
  BY DEF Leave, TypeOK, Figures
<1>3. FigTyped /\ ToldTyped /\ Counters
  BY Typed
<1>4. TypeOK'
  BY <1>1, <1>2 DEF TypeOK, statsVars
<1>5. Placed'
  BY <1>1 DEF Placed
<1>6. Counted'
  BY <1>1, <1>2, <1>3 DEF Counted, At
<1>7. Sized'
  BY <1>1, <1>2, <1>3 DEF Sized, At
<1>8. Phases'
  BY <1>1, <1>2 DEF Phases
<1>9. Told'
  BY <1>1, <1>2, <1>3 DEF Told, At
<1>10. Reported'
  BY <1>1, <1>2 DEF Reported
<1>11. Forward
  BY <1>1, <1>2, <1>3 DEF Forward, FigTyped
<1>12. Snapshot'
  BY <1>1, <1>4, <1>11, KeepSnapshot
<1> QED
  BY <1>4, <1>5, <1>6, <1>7, <1>8, <1>9, <1>10, <1>12

-----------------------------------------------------------------------------
(***************************************************************************)
(* The steps of Stats, which only move the snapshot on.                    *)
(***************************************************************************)

LEMMA StatsBeginInv ==
    ASSUME Inv, StatsBegin
    PROVE  Inv'
<1> USE DEF Inv
<1>1. /\ UNCHANGED <<pc, record, delivered, nth, entries, fig, told, progressAt>>
      /\ reading' = 1 /\ snap' = [Zero EXCEPT !.last = fig.last]
      /\ since' = IF pc \in {"poll", "phase", "announce", "done"}
                    THEN delivered ELSE delivered - 1
  BY DEF StatsBegin, bindingVars, observerVars
<1>2. FigTyped /\ ToldTyped /\ Counters /\ record \in Records
  BY Typed DEF TypeOK
<1>3. snap' \in Figures /\ snap'.last = fig.last
  BY <1>1, <1>2 DEF Zero, Figures, FigTyped
<1>4. TypeOK'
  <2>1. since' \in 0..MaxRecords
    <3>1. pc \notin {"poll", "phase", "announce", "done"} => delivered > 0
      BY DEF TypeOK, Placed
    <3>2. delivered \in 0..MaxRecords
      BY DEF TypeOK
    <3> QED
      BY <3>1, <3>2, <1>1, StatsAssumption
  <2>2. 1 \in 0..Len(Fields)
    BY DEF Fields
  <2> QED
    BY <1>1, <1>3, <2>1, <2>2 DEF TypeOK
<1>5. Placed' /\ Counted' /\ Sized'
  BY <1>1 DEF Placed, Counted, Sized, At
<1>6. Phases' /\ Told' /\ Reported'
  BY <1>1 DEF Phases, Told, Reported, At
<1>7. Snapshot'
  <2>1. /\ Seen("upserts", 4)' = fig.upserts /\ Seen("deletes", 5)' = fig.deletes
        /\ Seen("filtered", 6)' = fig.filtered
        /\ Seen("decodeErrors", 7)' = fig.decodeErrors
    BY <1>1 DEF Seen
  <2>2. fig.last <= fig.upserts + fig.deletes
    BY <1>2 DEF Counted, At, FigTyped, Counters
  <2>3. since' <= fig.upserts + fig.deletes + fig.filtered + fig.decodeErrors
    BY <1>1, <1>2 DEF Counted, At, FigTyped, Counters
  <2> QED
    BY <1>1, <1>2, <1>3, <2>1, <2>2, <2>3 DEF Snapshot, FigTyped
<1> QED
  BY <1>4, <1>5, <1>6, <1>7

LEMMA StatsReadInv ==
    ASSUME Inv, StatsRead
    PROVE  Inv'
<1> USE DEF Inv
<1>1. /\ UNCHANGED <<pc, record, delivered, nth, entries, fig, told, progressAt, since>>
      /\ reading \in 1..8 /\ reading' = reading + 1
      /\ snap' = [snap EXCEPT ![Fields[reading + 1]] = fig[Fields[reading + 1]]]
  BY DEF StatsRead, bindingVars, observerVars, Fields
<1>2. FigTyped /\ SnapTyped /\ Counters
  BY Typed
<1>3. /\ snap'.last = snap.last
      /\ snap'.phase = IF reading = 1 THEN fig.phase ELSE snap.phase
      /\ snap'.size = IF reading = 2 THEN fig.size ELSE snap.size
      /\ snap'.upserts = IF reading = 3 THEN fig.upserts ELSE snap.upserts
      /\ snap'.deletes = IF reading = 4 THEN fig.deletes ELSE snap.deletes
      /\ snap'.filtered = IF reading = 5 THEN fig.filtered ELSE snap.filtered
      /\ snap'.decodeErrors = IF reading = 6 THEN fig.decodeErrors ELSE snap.decodeErrors
      /\ snap'.applied = IF reading = 7 THEN fig.applied ELSE snap.applied
      /\ snap'.took = IF reading = 8 THEN fig.took ELSE snap.took
      /\ snap' \in Figures
  <2>1. /\ Fields[2] = "phase" /\ Fields[3] = "size" /\ Fields[4] = "upserts"
        /\ Fields[5] = "deletes" /\ Fields[6] = "filtered"
        /\ Fields[7] = "decodeErrors" /\ Fields[8] = "applied" /\ Fields[9] = "took"
    BY DEF Fields
  <2>2. CASE reading = 1
    <3>1. reading + 1 = 2
      BY <2>2
    <3>2. snap' = [snap EXCEPT !.phase = fig.phase]
      BY <1>1, <2>1, <3>1
    <3>3. snap' \in Figures
      BY <3>2, <1>2 DEF TypeOK, Figures, FigTyped
    <3>4. /\ snap'.phase = fig.phase /\ snap'.last = snap.last
          /\ snap'.size = snap.size /\ snap'.upserts = snap.upserts
          /\ snap'.deletes = snap.deletes /\ snap'.filtered = snap.filtered
          /\ snap'.decodeErrors = snap.decodeErrors /\ snap'.applied = snap.applied
          /\ snap'.took = snap.took
      BY <3>2 DEF TypeOK, Figures
    <3> QED
      BY <3>3, <3>4, <2>2
  <2>3. CASE reading = 2
    <3>1. reading + 1 = 3
      BY <2>3
    <3>2. snap' = [snap EXCEPT !.size = fig.size]
      BY <1>1, <2>1, <3>1
    <3>3. snap' \in Figures
      BY <3>2, <1>2 DEF TypeOK, Figures, FigTyped
    <3>4. /\ snap'.size = fig.size /\ snap'.last = snap.last
          /\ snap'.phase = snap.phase /\ snap'.upserts = snap.upserts
          /\ snap'.deletes = snap.deletes /\ snap'.filtered = snap.filtered
          /\ snap'.decodeErrors = snap.decodeErrors /\ snap'.applied = snap.applied
          /\ snap'.took = snap.took
      BY <3>2 DEF TypeOK, Figures
    <3> QED
      BY <3>3, <3>4, <2>3
  <2>4. CASE reading = 3
    <3>1. reading + 1 = 4
      BY <2>4
    <3>2. snap' = [snap EXCEPT !.upserts = fig.upserts]
      BY <1>1, <2>1, <3>1
    <3>3. snap' \in Figures
      BY <3>2, <1>2 DEF TypeOK, Figures, FigTyped
    <3>4. /\ snap'.upserts = fig.upserts /\ snap'.last = snap.last
          /\ snap'.phase = snap.phase /\ snap'.size = snap.size
          /\ snap'.deletes = snap.deletes /\ snap'.filtered = snap.filtered
          /\ snap'.decodeErrors = snap.decodeErrors /\ snap'.applied = snap.applied
          /\ snap'.took = snap.took
      BY <3>2 DEF TypeOK, Figures
    <3> QED
      BY <3>3, <3>4, <2>4
  <2>5. CASE reading = 4
    <3>1. reading + 1 = 5
      BY <2>5
    <3>2. snap' = [snap EXCEPT !.deletes = fig.deletes]
      BY <1>1, <2>1, <3>1
    <3>3. snap' \in Figures
      BY <3>2, <1>2 DEF TypeOK, Figures, FigTyped
    <3>4. /\ snap'.deletes = fig.deletes /\ snap'.last = snap.last
          /\ snap'.phase = snap.phase /\ snap'.size = snap.size
          /\ snap'.upserts = snap.upserts /\ snap'.filtered = snap.filtered
          /\ snap'.decodeErrors = snap.decodeErrors /\ snap'.applied = snap.applied
          /\ snap'.took = snap.took
      BY <3>2 DEF TypeOK, Figures
    <3> QED
      BY <3>3, <3>4, <2>5
  <2>6. CASE reading = 5
    <3>1. reading + 1 = 6
      BY <2>6
    <3>2. snap' = [snap EXCEPT !.filtered = fig.filtered]
      BY <1>1, <2>1, <3>1
    <3>3. snap' \in Figures
      BY <3>2, <1>2 DEF TypeOK, Figures, FigTyped
    <3>4. /\ snap'.filtered = fig.filtered /\ snap'.last = snap.last
          /\ snap'.phase = snap.phase /\ snap'.size = snap.size
          /\ snap'.upserts = snap.upserts /\ snap'.deletes = snap.deletes
          /\ snap'.decodeErrors = snap.decodeErrors /\ snap'.applied = snap.applied
          /\ snap'.took = snap.took
      BY <3>2 DEF TypeOK, Figures
    <3> QED
      BY <3>3, <3>4, <2>6
  <2>7. CASE reading = 6
    <3>1. reading + 1 = 7
      BY <2>7
    <3>2. snap' = [snap EXCEPT !.decodeErrors = fig.decodeErrors]
      BY <1>1, <2>1, <3>1
    <3>3. snap' \in Figures
      BY <3>2, <1>2 DEF TypeOK, Figures, FigTyped
    <3>4. /\ snap'.decodeErrors = fig.decodeErrors /\ snap'.last = snap.last
          /\ snap'.phase = snap.phase /\ snap'.size = snap.size
          /\ snap'.upserts = snap.upserts /\ snap'.deletes = snap.deletes
          /\ snap'.filtered = snap.filtered /\ snap'.applied = snap.applied
          /\ snap'.took = snap.took
      BY <3>2 DEF TypeOK, Figures
    <3> QED
      BY <3>3, <3>4, <2>7
  <2>8. CASE reading = 7
    <3>1. reading + 1 = 8
      BY <2>8
    <3>2. snap' = [snap EXCEPT !.applied = fig.applied]
      BY <1>1, <2>1, <3>1
    <3>3. snap' \in Figures
      BY <3>2, <1>2 DEF TypeOK, Figures, FigTyped
    <3>4. /\ snap'.applied = fig.applied /\ snap'.last = snap.last
          /\ snap'.phase = snap.phase /\ snap'.size = snap.size
          /\ snap'.upserts = snap.upserts /\ snap'.deletes = snap.deletes
          /\ snap'.filtered = snap.filtered /\ snap'.decodeErrors = snap.decodeErrors
          /\ snap'.took = snap.took
      BY <3>2 DEF TypeOK, Figures
    <3> QED
      BY <3>3, <3>4, <2>8
  <2>9. CASE reading = 8
    <3>1. reading + 1 = 9
      BY <2>9
    <3>2. snap' = [snap EXCEPT !.took = fig.took]
      BY <1>1, <2>1, <3>1
    <3>3. snap' \in Figures
      BY <3>2, <1>2 DEF TypeOK, Figures, FigTyped
    <3>4. /\ snap'.took = fig.took /\ snap'.last = snap.last
          /\ snap'.phase = snap.phase /\ snap'.size = snap.size
          /\ snap'.upserts = snap.upserts /\ snap'.deletes = snap.deletes
          /\ snap'.filtered = snap.filtered /\ snap'.decodeErrors = snap.decodeErrors
          /\ snap'.applied = snap.applied
      BY <3>2 DEF TypeOK, Figures
    <3> QED
      BY <3>3, <3>4, <2>9
  <2> QED
    BY <1>1, <2>2, <2>3, <2>4, <2>5, <2>6, <2>7, <2>8, <2>9
<1>4. TypeOK'
  <2>1. reading' \in 0..Len(Fields)
    BY <1>1 DEF Fields
  <2> QED
    BY <1>1, <1>3, <2>1 DEF TypeOK
<1>5. Placed' /\ Counted' /\ Sized'
  BY <1>1 DEF Placed, Counted, Sized, At
<1>6. Phases' /\ Told' /\ Reported'
  BY <1>1 DEF Phases, Told, Reported, At
<1>7. Snapshot'
  <2>1. /\ Seen("upserts", 4)' = Seen("upserts", 4)
        /\ Seen("deletes", 5)' = Seen("deletes", 5)
        /\ Seen("filtered", 6)' = Seen("filtered", 6)
        /\ Seen("decodeErrors", 7)' = Seen("decodeErrors", 7)
    BY <1>1, <1>3 DEF Seen
  <2>2. Seen("applied", 8)' = Seen("applied", 8) /\ Seen("took", 9)' = Seen("took", 9)
    BY <1>1, <1>3 DEF Seen
  <2>3. reading >= 1
    BY <1>1
  <2>4. reading' >= 3 => snap'.size <= Seen("upserts", 4)' + 1
    <3>1. CASE reading = 2
      <4>1. Seen("upserts", 4) = fig.upserts /\ snap'.size = fig.size
        BY <3>1, <1>3 DEF Seen
      <4>2. fig.size <= fig.upserts + 1
        BY <1>2 DEF Sized, At, FigTyped
      <4> QED
        BY <4>1, <4>2, <2>1
    <3>2. CASE reading # 2
      BY <3>2, <1>1, <1>3, <2>1, <2>3 DEF Snapshot
    <3> QED
      BY <3>1, <3>2
  <2>5. ASSUME snap'.phase # "warmup"
        PROVE  /\ fig.phase # "warmup"
               /\ fig.applied <= Seen("upserts", 4) + Seen("deletes", 5)
               /\ Seen("applied", 8) = fig.applied
               /\ Seen("took", 9)
    <3>1. CASE reading = 1
      <4>1. fig.phase # "warmup" /\ fig.took
        BY <3>1, <1>3, <2>5 DEF Phases
      <4>2. fig.applied <= fig.upserts + fig.deletes
        BY <1>2 DEF Counted, At, FigTyped, Counters
      <4> QED
        BY <3>1, <4>1, <4>2 DEF Seen
    <3>2. CASE reading # 1
      <4>1. reading >= 2 /\ snap.phase # "warmup"
        BY <3>2, <1>1, <1>3, <2>5
      <4> QED
        BY <4>1, <2>3 DEF Snapshot
    <3> QED
      BY <3>1, <3>2
  <2> QED
    BY <1>1, <1>3, <2>1, <2>2, <2>3, <2>4, <2>5 DEF Snapshot
<1> QED
  BY <1>4, <1>5, <1>6, <1>7

-----------------------------------------------------------------------------
(***************************************************************************)
(* The results.                                                            *)
(***************************************************************************)

\* Every step keeps the invariant.
LEMMA NextInv == Inv /\ [Next]_vars => Inv'
<1> SUFFICES ASSUME Inv, [Next]_vars PROVE Inv'
  OBVIOUS
<1>1. CASE \E rec \in Records : Deliver(rec)
  BY <1>1, DeliverInv
<1>2. CASE AddSize
  BY <1>2, AddSizeInv
<1>3. CASE Count
  BY <1>3, CountInv
<1>4. CASE NoteLast
  BY <1>4, NoteLastInv
<1>5. CASE NoteWarmup
  BY <1>5, NoteWarmupInv
<1>6. CASE Tell
  BY <1>6, TellInv
<1>7. CASE ReportProgress
  BY <1>7, ReportProgressInv
<1>8. CASE StoreTook
  BY <1>8, StoreTookInv
<1>9. CASE StorePhase
  BY <1>9, StorePhaseInv
<1>10. CASE Announce
  BY <1>10, AnnounceInv
<1>11. CASE Leave
  BY <1>11, LeaveInv
<1>12. CASE StatsBegin
  BY <1>12, StatsBeginInv
<1>13. CASE StatsRead
  BY <1>13, StatsReadInv
<1>14. CASE UNCHANGED vars
  <2>1. UNCHANGED <<pc, record, delivered, nth, entries, fig, told, progressAt,
                    reading, snap, since>>
    BY <1>14 DEF vars, bindingVars, observerVars, statsVars
  <2> QED
    BY <2>1 DEF Inv, TypeOK, Placed, Counted, Sized, Phases, Told, Reported, Snapshot,
                At, Seen
<1> QED
  BY <1>1, <1>2, <1>3, <1>4, <1>5, <1>6, <1>7, <1>8, <1>9, <1>10, <1>11, <1>12,
     <1>13, <1>14 DEF Next

\* The figures, the Observer's totals and the snapshot relate as the inductive
\* invariant says, in every state.
THEOREM Invariance == Spec => []Inv
BY InitInv, NextInv, PTL DEF Spec

\* Every variable keeps its type: no figure ever goes below zero, the size of
\* the store included.
THEOREM TypeCorrect == Spec => []TypeOK
<1>1. Inv => TypeOK
  BY DEF Inv
<1> QED
  BY <1>1, Invariance, PTL

\* Of a snapshot all of which was read, the fields are what Seen says.
LEMMA SnappedIsSeen ==
    ASSUME Inv, Snapped
    PROVE  /\ reading = 9
           /\ Seen("upserts", 4) = snap.upserts /\ Seen("deletes", 5) = snap.deletes
           /\ Seen("filtered", 6) = snap.filtered
           /\ Seen("decodeErrors", 7) = snap.decodeErrors
           /\ Seen("applied", 8) = snap.applied /\ Seen("took", 9) = snap.took
<1>1. reading = 9
  BY DEF Snapped, Fields
<1> QED
  BY <1>1 DEF Seen

\* A snapshot that says the warm-up is over has its final figures
\* (loader.go:340-346).
THEOREM FiguresFinal == Spec => []WarmupFiguresFinal
<1>1. Inv => WarmupFiguresFinal
  <2> SUFFICES ASSUME Inv, Snapped, snap.phase # "warmup"
               PROVE  /\ snap.took
                      /\ snap.applied = fig.applied
                      /\ snap.applied > 0 \/ AllowEmpty
    BY DEF WarmupFiguresFinal
  <2>1. fig.phase # "warmup" /\ Seen("applied", 8) = fig.applied /\ Seen("took", 9)
    BY SnappedIsSeen DEF Inv, Snapshot
  <2>2. fig.applied > 0 \/ AllowEmpty
    BY <2>1 DEF Inv, Phases
  <2> QED
    BY <2>1, <2>2, SnappedIsSeen
<1> QED
  BY <1>1, Invariance, PTL

\* Such a snapshot counts no more records of the warm-up than it counts records
\* that were applied.
THEOREM AddsUp == Spec => []WarmupAddsUp
<1>1. Inv => WarmupAddsUp
  BY SnappedIsSeen DEF Inv, Snapshot, WarmupAddsUp
<1> QED
  BY <1>1, Invariance, PTL

\* A snapshot never dates a record it has not counted (registration.go:140-142).
THEOREM Dated == Spec => []DatedIsCounted
<1>1. Inv => DatedIsCounted
  BY SnappedIsSeen DEF Inv, Snapshot, DatedIsCounted
<1> QED
  BY <1>1, Invariance, PTL

\* The size in a snapshot is covered by its upserts, but for one.
THEOREM SizeCovered == Spec => []SizeIsCovered
<1>1. Inv => SizeIsCovered
  BY SnappedIsSeen DEF Inv, Snapshot, SizeIsCovered
<1> QED
  BY <1>1, Invariance, PTL

\* A snapshot counts every record done with before the call once, and none that
\* was not delivered when it returned (observer.go:127).
THEOREM RecordsOnce == Spec => []EveryRecordOnce
<1>1. Inv => EveryRecordOnce
  <2> SUFFICES ASSUME Inv, Snapped
               PROVE  LET counted == snap.upserts + snap.deletes + snap.filtered
                                       + snap.decodeErrors
                      IN  since <= counted /\ counted <= delivered
    BY DEF EveryRecordOnce
  <2>1. /\ since <= snap.upserts + snap.deletes + snap.filtered + snap.decodeErrors
        /\ snap.upserts <= fig.upserts /\ snap.deletes <= fig.deletes
        /\ snap.filtered <= fig.filtered /\ snap.decodeErrors <= fig.decodeErrors
    BY SnappedIsSeen DEF Inv, Snapshot
  <2>2. FigTyped /\ SnapTyped /\ Counters
    BY Typed DEF Inv
  <2>3. fig.upserts + fig.deletes + fig.filtered + fig.decodeErrors <= delivered
    BY <2>2 DEF Inv, Counted, At, Counters, FigTyped
  <2> QED
    BY <2>1, <2>2, <2>3 DEF FigTyped, SnapTyped, Counters
<1> QED
  BY <1>1, Invariance, PTL

\* The Observer's own totals are those of Stats, but for the record that is
\* being applied (observer.go:22-47).
THEOREM Agreement == Spec => []ObserverAgrees
<1>1. Inv => ObserverAgrees
  <2> SUFFICES ASSUME Inv PROVE ObserverAgrees
    OBVIOUS
  <2>1. FigTyped /\ ToldTyped /\ record \in Records
    BY Typed DEF Inv, TypeOK
  <2>2. Told
    BY DEF Inv
  <2>3. At({"last", "warm", "tell"}, Upserts) + At({"last", "warm", "tell"}, Deletes)
          + At({"tell"}, {"filtered"}) + At({"tell"}, {"undecodable"}) <= 1
    BY DEF At, Upserts, Deletes
  <2>4. \A steps, kinds : At(steps, kinds) \in {0, 1}
    BY DEF At
  <2>5. pc \in {"poll", "done"} =>
          /\ At({"last", "warm", "tell"}, Upserts) = 0
          /\ At({"last", "warm", "tell"}, Deletes) = 0
          /\ At({"tell"}, {"filtered"}) = 0 /\ At({"tell"}, {"undecodable"}) = 0
    BY DEF At
  <2> DEFINE u == At({"last", "warm", "tell"}, Upserts)
             d == At({"last", "warm", "tell"}, Deletes)
             f == At({"tell"}, {"filtered"})
             e == At({"tell"}, {"undecodable"})
  <2>6. /\ told.upserts = fig.upserts - u /\ told.deletes = fig.deletes - d
        /\ told.filtered = fig.filtered - f /\ told.decodeErrors = fig.decodeErrors - e
    BY <2>2 DEF Told
  <2>7. u \in {0, 1} /\ d \in {0, 1} /\ f \in {0, 1} /\ e \in {0, 1}
    BY <2>4
  <2>8. u + d + f + e <= 1 /\ (pc \in {"poll", "done"} => u + d + f + e = 0)
    BY <2>3, <2>5, <2>7
  <2> HIDE DEF u, d, f, e
  <2>9. /\ told.upserts <= fig.upserts /\ told.deletes <= fig.deletes
        /\ told.filtered <= fig.filtered /\ told.decodeErrors <= fig.decodeErrors
    BY <2>1, <2>6, <2>7 DEF FigTyped, ToldTyped
  <2>10. (fig.upserts - told.upserts) + (fig.deletes - told.deletes)
           + (fig.filtered - told.filtered) + (fig.decodeErrors - told.decodeErrors)
             = u + d + f + e
    BY <2>1, <2>6, <2>7, SMTT(30) DEF FigTyped, ToldTyped
  <2> QED
    BY <2>8, <2>9, <2>10 DEF ObserverAgrees
<1> QED
  BY <1>1, Invariance, PTL

\* The Observer is told of the records of the warm-up, and of its end, exactly
\* as Stats has them (registration.go:107-109, observer.go:59-61).
THEOREM ToldOnce == Spec => []WarmupToldOnce
<1>1. Inv => WarmupToldOnce
  <2> SUFFICES ASSUME Inv, pc \in {"poll", "done"}
               PROVE  /\ told.warmups = fig.applied
                      /\ told.steady => told.loaded = fig.applied
                      /\ told.steady <=> fig.phase # "warmup"
    BY DEF WarmupToldOnce
  <2>1. told.warmups = fig.applied
    <3>1. FigTyped
      BY Typed DEF Inv
    <3> QED
      BY <3>1 DEF Inv, Told, At, FigTyped
  <2>2. /\ told.steady => told.loaded = fig.applied
        /\ told.steady <=> fig.phase # "warmup"
    BY DEF Inv, Phases
  <2> QED
    BY <2>1, <2>2
<1> QED
  BY <1>1, Invariance, PTL

\* Progress is reported at each multiple of loadProgressEvery the warm-up comes
\* to, once (loader.go:15-18).
THEOREM OnTime == Spec => []ProgressOnTime
<1>1. Inv => ProgressOnTime
  BY DEF Inv, Reported, ProgressOnTime
<1> QED
  BY <1>1, Invariance, PTL

=============================================================================
