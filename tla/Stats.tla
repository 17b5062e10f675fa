-------------------------------- MODULE Stats --------------------------------
(***************************************************************************)
(* The figures of one binding (registration.go): its goroutine counts with *)
(* one atomic after another while it applies records, and tells the        *)
(* Observer of each (observer.go); Loader.Stats reads the atomics one      *)
(* after another meanwhile, under no lock.                                 *)
(*                                                                         *)
(* A record is what applyFunc makes of it: it "insert"s a key or "update"s *)
(* one, it "delete"s an entry or is a tombstone for an "absent" one, it is *)
(* "filtered" or "undecodable".                                            *)
(***************************************************************************)
EXTENDS Integers, Sequences

CONSTANTS
    AllowEmpty,     \* Binding.AllowEmpty
    Every,          \* loadProgressEvery
    MaxRecords      \* bound: records delivered

ASSUME StatsAssumption ==
    /\ AllowEmpty \in BOOLEAN
    /\ Every \in Nat \ {0}
    /\ MaxRecords \in Nat

VARIABLES
    pc,         \* the next step of the goroutine of the binding
    record,     \* the record it is applying
    delivered,  \* history: how many records it was given
    nth,        \* history: how many of them it does not skip
    entries,    \* how many entries the store has
    fig,        \* the atomics of the registration, and the store's size
    progressAt, \* when warmUpBinding is to report progress next
    told,       \* what the Observer has been told so far
    reading,    \* how many fields Stats has read; 0 between two calls
    snap,       \* what it read
    since       \* history: how many records were done with when it began

observerVars == <<progressAt, told>>
bindingVars == <<pc, record, delivered, nth, entries, fig, observerVars>>
statsVars   == <<reading, snap, since>>
vars == <<bindingVars, statsVars>>

Records == {"insert", "update", "delete", "absent", "filtered", "undecodable"}
Upserts == {"insert", "update"}
Deletes == {"delete", "absent"}

Figures ==
    [last : Nat,            \* lastRecordAtUnixNano, as the number of the record
     phase : {"warmup", "steady", "stopped"},
     size : Nat, upserts : Nat, deletes : Nat, filtered : Nat,
     decodeErrors : Nat,
     applied : Nat,         \* warmupApplied
     took : BOOLEAN]        \* warmupTookNs is set

Zero == [last |-> 0, phase |-> "warmup", size |-> 0, upserts |-> 0,
         deletes |-> 0, filtered |-> 0, decodeErrors |-> 0, applied |-> 0,
         took |-> FALSE]

Totals ==
    [upserts : Nat, deletes : Nat, filtered : Nat, decodeErrors : Nat,
     warmups : Nat,         \* calls of OnUpsert and OnDelete with warmup set
     reports : Nat,         \* calls of OnLoadProgress
     progress : Nat,        \* what the last of them said
     steady : BOOLEAN,      \* OnPhase was called
     loaded : Nat]          \* what it said

ToldNothing ==
    [upserts |-> 0, deletes |-> 0, filtered |-> 0, decodeErrors |-> 0,
     warmups |-> 0, reports |-> 0, progress |-> 0, steady |-> FALSE, loaded |-> 0]

\* Mutant: the phase is read after the figures it speaks for.
Fields_PhaseLast == <<"last", "size", "upserts", "deletes", "filtered",
                      "decodeErrors", "applied", "took", "phase">>

\* The order in which registration.stats reads.
Fields == <<"last", "phase", "size", "upserts", "deletes", "filtered",
            "decodeErrors", "applied", "took">>

TypeOK ==
    /\ pc \in {"poll", "size", "count", "last", "warm", "tell", "progress",
               "phase", "announce", "done"}
    /\ record \in Records
    /\ delivered \in 0..MaxRecords
    /\ nth \in 0..delivered
    /\ entries \in Nat
    /\ fig \in Figures
    /\ progressAt \in Nat
    /\ told \in Totals
    /\ reading \in 0..Len(Fields)
    /\ snap \in Figures
    /\ since \in 0..MaxRecords

Init ==
    /\ pc = "poll"
    /\ record = "undecodable"
    /\ delivered = 0
    /\ nth = 0
    /\ entries = 0
    /\ fig = Zero
    /\ progressAt = Every
    /\ told = ToldNothing
    /\ reading = 0
    /\ snap = Zero
    /\ since = 0

-----------------------------------------------------------------------------
(***************************************************************************)
(* The goroutine of the binding.                                           *)
(***************************************************************************)

\* Mutant: the record is noted before it is counted.
StepAfter_NoteFirst ==
    [size |-> "last", last |-> "warm", warm |-> "count", count |-> "tell"]

\* The order of the steps of applyFunc and noteRecord.
StepAfter == [size |-> "count", count |-> "last", last |-> "warm", warm |-> "tell"]

\* A record is polled and decoded, and the map of the store is changed, which
\* no figure shows yet.
Deliver(rec) ==
    /\ pc = "poll"
    /\ delivered < MaxRecords
    /\ rec \in {"update", "delete"} => entries > 0
    /\ delivered' = delivered + 1
    /\ nth' = IF rec \in Upserts \cup Deletes THEN nth + 1 ELSE nth
    /\ record' = rec
    /\ entries' = CASE rec = "insert" -> entries + 1
                    [] rec = "delete" -> entries - 1
                    [] OTHER -> entries
    /\ pc' = IF rec \in {"insert", "delete"} THEN "size" ELSE "count"
    /\ UNCHANGED <<fig, observerVars, statsVars>>

AddSize ==
    /\ pc = "size"
    /\ fig' = [fig EXCEPT !.size = IF record = "insert" THEN @ + 1 ELSE @ - 1]
    /\ pc' = StepAfter[pc]
    /\ UNCHANGED <<record, delivered, nth, entries, observerVars, statsVars>>

\* Mutant: a tombstone for a key that is not there goes uncounted.
Count_PresentOnly ==
    /\ pc = "count"
    /\ fig' = [fig EXCEPT
         !.upserts      = IF record \in Upserts THEN @ + 1 ELSE @,
         !.deletes      = IF record = "delete" THEN @ + 1 ELSE @,
         !.filtered     = IF record = "filtered" THEN @ + 1 ELSE @,
         !.decodeErrors = IF record = "undecodable" THEN @ + 1 ELSE @]
    /\ pc' = IF record \in Upserts \cup Deletes THEN StepAfter[pc] ELSE "tell"
    /\ UNCHANGED <<record, delivered, nth, entries, observerVars, statsVars>>

\* Every record goes to one counter; a skipped one is not noted.
Count ==
    /\ pc = "count"
    /\ fig' = [fig EXCEPT
         !.upserts      = IF record \in Upserts THEN @ + 1 ELSE @,
         !.deletes      = IF record \in Deletes THEN @ + 1 ELSE @,
         !.filtered     = IF record = "filtered" THEN @ + 1 ELSE @,
         !.decodeErrors = IF record = "undecodable" THEN @ + 1 ELSE @]
    /\ pc' = IF record \in Upserts \cup Deletes THEN StepAfter[pc] ELSE "tell"
    /\ UNCHANGED <<record, delivered, nth, entries, observerVars, statsVars>>

\* noteRecord, first half: the latest record that was applied.
NoteLast ==
    /\ pc = "last"
    /\ fig' = [fig EXCEPT !.last = nth]
    /\ pc' = StepAfter[pc]
    /\ UNCHANGED <<record, delivered, nth, entries, observerVars, statsVars>>

\* Mutant: a record counts for the warm-up in every phase.
NoteWarmup_Always ==
    /\ pc = "warm"
    /\ fig' = [fig EXCEPT !.applied = @ + 1]
    /\ pc' = StepAfter[pc]
    /\ UNCHANGED <<record, delivered, nth, entries, observerVars, statsVars>>

\* Second half: a record counts for the warm-up while that lasts.
NoteWarmup ==
    /\ pc = "warm"
    /\ fig' = [fig EXCEPT !.applied = IF fig.phase = "warmup" THEN @ + 1 ELSE @]
    /\ pc' = StepAfter[pc]
    /\ UNCHANGED <<record, delivered, nth, entries, observerVars, statsVars>>

\* Mutant: the phase the closure was built in is the one it goes on reporting.
Tell_PhaseCaptured ==
    /\ pc = "tell"
    /\ told' = [told EXCEPT
         !.upserts      = IF record \in Upserts THEN @ + 1 ELSE @,
         !.deletes      = IF record \in Deletes THEN @ + 1 ELSE @,
         !.filtered     = IF record = "filtered" THEN @ + 1 ELSE @,
         !.decodeErrors = IF record = "undecodable" THEN @ + 1 ELSE @,
         !.warmups      = IF record \in Upserts \cup Deletes THEN @ + 1 ELSE @]
    /\ pc' = IF fig.phase = "warmup" THEN "progress" ELSE "poll"
    /\ UNCHANGED <<record, delivered, nth, entries, fig, progressAt, statsVars>>

\* Mutant: a record the filter drops goes unreported.
Tell_NotFiltered ==
    /\ pc = "tell"
    /\ told' = [told EXCEPT
         !.upserts      = IF record \in Upserts THEN @ + 1 ELSE @,
         !.deletes      = IF record \in Deletes THEN @ + 1 ELSE @,
         !.decodeErrors = IF record = "undecodable" THEN @ + 1 ELSE @,
         !.warmups      = IF record \in Upserts \cup Deletes /\ fig.phase = "warmup"
                            THEN @ + 1 ELSE @]
    /\ pc' = IF fig.phase = "warmup" THEN "progress" ELSE "poll"
    /\ UNCHANGED <<record, delivered, nth, entries, fig, progressAt, statsVars>>

\* The callback of the record, which comes last.  Only the warm-up loop then
\* looks at the progress.
Tell ==
    /\ pc = "tell"
    /\ told' = [told EXCEPT
         !.upserts      = IF record \in Upserts THEN @ + 1 ELSE @,
         !.deletes      = IF record \in Deletes THEN @ + 1 ELSE @,
         !.filtered     = IF record = "filtered" THEN @ + 1 ELSE @,
         !.decodeErrors = IF record = "undecodable" THEN @ + 1 ELSE @,
         !.warmups      = IF record \in Upserts \cup Deletes /\ fig.phase = "warmup"
                            THEN @ + 1 ELSE @]
    /\ pc' = IF fig.phase = "warmup" THEN "progress" ELSE "poll"
    /\ UNCHANGED <<record, delivered, nth, entries, fig, progressAt, statsVars>>

\* Mutant: the threshold stays where it was.
ReportProgress_Stuck ==
    /\ pc = "progress"
    /\ told' = IF fig.applied >= progressAt
                 THEN [told EXCEPT !.reports = @ + 1, !.progress = fig.applied]
                 ELSE told
    /\ pc' = "poll"
    /\ UNCHANGED <<record, delivered, nth, entries, fig, progressAt, statsVars>>

\* OnLoadProgress, once every so many records applied.
ReportProgress ==
    /\ pc = "progress"
    /\ \/ /\ fig.applied >= progressAt
          /\ progressAt' = fig.applied + Every
          /\ told' = [told EXCEPT !.reports = @ + 1, !.progress = fig.applied]
       \/ /\ fig.applied < progressAt
          /\ UNCHANGED observerVars
    /\ pc' = "poll"
    /\ UNCHANGED <<record, delivered, nth, entries, fig, statsVars>>

\* The topic was read to its end: how long it took is stored first.
StoreTook ==
    /\ pc = "poll"
    /\ fig.phase = "warmup"
    /\ fig.applied > 0 \/ AllowEmpty
    /\ fig' = [fig EXCEPT !.took = TRUE]
    /\ pc' = "phase"
    /\ UNCHANGED <<record, delivered, nth, entries, observerVars, statsVars>>

StorePhase ==
    /\ pc = "phase"
    /\ fig' = [fig EXCEPT !.phase = "steady"]
    /\ pc' = "announce"
    /\ UNCHANGED <<record, delivered, nth, entries, observerVars, statsVars>>

\* OnPhase, with the count that was read before the phase was stored, which is
\* what this goroutine still finds.
Announce ==
    /\ pc = "announce"
    /\ told' = [told EXCEPT !.steady = TRUE, !.loaded = fig.applied]
    /\ pc' = "poll"
    /\ UNCHANGED <<record, delivered, nth, entries, fig, progressAt, statsVars>>

\* The goroutine is over, after the warm-up or in service.
Leave ==
    /\ pc = "poll"
    /\ fig' = [fig EXCEPT !.phase = IF @ = "warmup" THEN @ ELSE "stopped"]
    /\ pc' = "done"
    /\ UNCHANGED <<record, delivered, nth, entries, observerVars, statsVars>>

-----------------------------------------------------------------------------
(***************************************************************************)
(* Loader.Stats, for this binding.                                         *)
(***************************************************************************)

StatsBegin ==
    /\ reading \in {0, Len(Fields)}
    /\ snap' = [Zero EXCEPT !.last = fig.last]
    /\ since' = IF pc \in {"poll", "phase", "announce", "done"} THEN delivered ELSE delivered - 1
    /\ reading' = 1
    /\ UNCHANGED bindingVars

StatsRead ==
    /\ reading \in 1..(Len(Fields) - 1)
    /\ reading' = reading + 1
    /\ snap' = [snap EXCEPT ![Fields[reading']] = fig[Fields[reading']]]
    /\ UNCHANGED <<bindingVars, since>>

Next ==
    \/ \E rec \in Records : Deliver(rec)
    \/ AddSize \/ Count \/ NoteLast \/ NoteWarmup
    \/ Tell \/ ReportProgress
    \/ StoreTook \/ StorePhase \/ Announce \/ Leave
    \/ StatsBegin \/ StatsRead

Spec == Init /\ [][Next]_vars

-----------------------------------------------------------------------------
Snapped == reading = Len(Fields)

\* A snapshot that says the warm-up is over has its final figures, although
\* they were read at other moments than the phase (loader.go:340-346).
WarmupFiguresFinal ==
    Snapped /\ snap.phase # "warmup" =>
        /\ snap.took
        /\ snap.applied = fig.applied
        /\ snap.applied > 0 \/ AllowEmpty

\* Such a snapshot adds up: no more records made the warm-up than were applied.
WarmupAddsUp ==
    Snapped /\ snap.phase # "warmup" => snap.applied <= snap.upserts + snap.deletes

\* A snapshot never dates a record it has not counted (registration.go:140-142).
DatedIsCounted == Snapped => snap.last <= snap.upserts + snap.deletes

\* The size in a snapshot is covered by the upserts in it, but for the one that
\* was being applied.
SizeIsCovered == Snapped => snap.size <= snap.upserts + 1

\* A snapshot counts every record done with before the call exactly once, and
\* none that was not delivered when it returned (observer.go:127).
EveryRecordOnce ==
    Snapped =>
        LET counted == snap.upserts + snap.deletes + snap.filtered + snap.decodeErrors
        IN  since <= counted /\ counted <= delivered

\* Between two records the Observer's own totals are those Stats has; during
\* one they are behind by that record, never ahead (observer.go:22-47).
ObserverAgrees ==
    LET behind == (fig.upserts - told.upserts) + (fig.deletes - told.deletes)
                    + (fig.filtered - told.filtered)
                    + (fig.decodeErrors - told.decodeErrors)
    IN  /\ told.upserts <= fig.upserts /\ told.deletes <= fig.deletes
        /\ told.filtered <= fig.filtered /\ told.decodeErrors <= fig.decodeErrors
        /\ behind <= 1
        /\ pc \in {"poll", "done"} => behind = 0

\* The Observer is told exactly as many records of the warm-up as OnPhase and
\* Stats count, and that the binding is steady exactly when it is
\* (registration.go:107-109, observer.go:59-61).
WarmupToldOnce ==
    pc \in {"poll", "done"} =>
        /\ told.warmups = fig.applied
        /\ told.steady => told.loaded = fig.applied
        /\ told.steady <=> fig.phase # "warmup"

\* Progress is reported at each multiple of loadProgressEvery the warm-up comes
\* to, once (loader.go:15-18).
ProgressOnTime ==
    pc \in {"poll", "done"} =>
        /\ told.progress = Every * told.reports
        /\ told.progress <= fig.applied /\ fig.applied < told.progress + Every

=============================================================================
