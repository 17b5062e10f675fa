# Models and proofs for easykafka-config-go

The library reads compacted Kafka topics into typed in-memory maps: a service
wires *bindings* on a *loader*, `Start` reads every topic to its end, and from
then on one goroutine per binding applies live changes to a store that any
number of goroutines read. This directory holds TLA+ models of it, TLC
configurations that check them on small instances, and TLAPS proofs of the
properties that matter most, for every size. Line numbers refer to the source.

## 1. The system

| Component | State it keeps | Operations | Talks to |
|---|---|---|---|
| Loader (`loader.go`) | registrations, `started`, `err`, the `serving` WaitGroup; per call of `Start` the warm-up context, results and consumers | `Bind`, `Start`, `warmUpBinding`, `serveBinding`, `bindingDied`, `WaitUntilStopped`, `Err`, `Stats`, `LookupRaw` | builds one driver consumer per binding, starts two generations of goroutines, calls the fatal handler and the Observer |
| Record application (`registration.go`, `binding.go`, `codec.go`) | phase and counters of one binding | `applyFunc`, `noteRecord`, `stats`, `lookupFunc` | the service's decode, key and filter functions; the store |
| Warm-up detection (`detect.go`) | partitions still to report their end | `begin`, `observe` | fed with every polled event |
| Store (`store.go`) | a `sync.Map` and an atomic size | `Put`, `Delete`, `Get`, `Has`, `Len`, `All`, `Keys`, `Snapshot` | written by one binding, read by the service |
| Driver consumer (`internal/driver/consumer.go`) | `handleMu`, `closed`, the assignment, the librdkafka handle | `AssignAll`, `Poll`, `Watermarks`, `Positions`, `Close` | librdkafka |
| Driver error log (`consumer.go`, `throttle.go`) | `connected`, the throttle's window and count | `classifyError`, `noteConnected`, `allow`, `reset` | the logger |
| Options and configuration (`options.go`, `binding.go`, `driver/config.go`) | `loaderConfig`, which holds copies of a slice and a map the service keeps references to | the `With...` options, the three validations, `newConsumers`, `consumerConfig`, `buildConfigMap` | `NewLoader` writes it, every consumer is built from it |
| Observer (`observer.go`) | the service's own totals | `OnUpsert`, `OnDelete`, `OnFiltered`, `OnDecodeError`, `OnLoadProgress`, `OnWarm` | called by the goroutine of a binding, between its atomics |
| Example service (`examples/quickstart/main.go`) | a context, a signal channel | `run`, the goroutine of the signal, the fatal handler | drives a loader and cancels its context |
| Errors (`errors.go`) | none | sentinels | |

How they interact. `Start` builds the consumers, runs one warm-up goroutine per
binding and waits for all of them on a WaitGroup of its own; only when each has
read its topic does it hand the consumers to serving goroutines, counted by
`serving`. Stopping is a flag two parties raise: the application cancels the
context, or the first binding that dies sets `err`; every serving goroutine
looks at both between two polls. A poll cannot be interrupted.

What is hard about it:

- **Concurrency**: concurrent calls of `Start`, `WaitUntilStopped` and `Stats`
  beside N goroutines; a consumer passing from one goroutine to another without
  a lock; two bindings dying at once; a store read while it is written in two
  steps; `Close` against a call inside librdkafka.
- **Failure**: some consumers built and others not, some topics read and others
  not, a deadline or a cancellation at any point, a process that restarts with
  nothing, records that cannot be decoded.
- **Ordering**: an end-of-partition event that is stale when it is polled;
  compaction ahead of and behind the reader; the order in which figures are
  written and read; the phase that turns steady before `Start` has decided.
- **Time**: the warm-up deadline against the last event, a poll in flight when
  the stop signal comes, the throttle's window.

`PROJECT.json` lists each of these hazards at its line, with the properties
that would catch it.

## 2. Modules

| Module | What it is |
|---|---|
| `Loader` | the life of a loader, one action per step of a goroutine |
| `Lifecycle` | what an application can tell of it: the abstract specification |
| `LoaderLifecycle` | the refinement mapping: `Loader` implements `Lifecycle` |
| `LoaderInv` | the inductive invariant `IInv` of `Loader` |
| `LoaderProofs` | theorems about `Loader`, and the refinement |
| `Projection` | a topic under compaction, and the stores of its replicas |
| `Store` | the map and its size, with writers and walks |
| `Stats` | the figures of a binding, a snapshot of them, and what the Observer is told |
| `Consumer` | the driver's lock and its handle |
| `ErrorLog` | the connected flag and the throttle |
| `Options` | what a loader and its consumers are configured with |
| `Service` | a process around a loader; extends `Loader` |
| `ServiceProofs` | theorems about `Service`, on top of those of `LoaderProofs` |
| `ProjectionProofs`, `StoreProofs`, `StatsProofs`, `ConsumerProofs`, `ErrorLogProofs`, `OptionsProofs` | the inductive invariants and theorems of these six |
| `MCProjection`, `MCStore`, `MCOptions` | constants and symmetry for TLC |

The modules meet at narrow places. `Loader` leaves open what a record holds: a
poll gives a record that counts as applied, one that is skipped, an end of
partition, a failure, or nothing. `Projection` is what those records do to the
store, for one binding, without the other goroutines. `Store` and `Stats` open
up single steps of applying a record, for readers that run in between.
`Consumer` opens up the one call `Poll`, and `Close`, which `Loader` counts but
does not look into; the assumption it makes on callers, that nobody polls beside
another, is what `ExclusiveConsumer` of `Loader` establishes. `Options` ends where
`Loader` begins: the outcome of each factory call that `NewConsumers` of `Loader`
leaves open is decided there. `Service` adds to the actions of `Loader` the
program that calls it.

### Loader

The variables are the fields of the struct, the locals of the winning `Start`,
and a program counter per goroutine. Between two positions a goroutine touches
only its own binding, one atomic or one WaitGroup, so one step is as good as
many. In detail:

- *Start* (`start[c]`): `Claim` is the critical section of `l.mu`; the other
  callers get `StartRejected`. `NewConsumers` makes every factory call, whichever
  fail. `WarmupWait` passes when all warm-up goroutines are done. `CloseAll`
  serves both failure paths. `Handover` is one turn of the loop around
  `serving.Go`, because a goroutine already handed over runs, and may exit,
  before the next turn.
- *Warm-up* (`warm[b]`): `WarmAssign`, then `WarmCheck` (the context) and a poll
  in turn. The phase turns steady in the step that finishes the topic.
- *Serving* (`serve[b]`): `ServeCheck`, a poll, `BindingDied` (the
  compare-and-swap) and `RunFatalHandler` as steps of their own, and the deferred
  `ServeStop`, `ServeClose`, `ServeExit`.
- *WaitUntilStopped* (`wait[w]`): a call that finds the WaitGroup at zero
  passes, another one queues until the `Done` that reaches zero wakes it. A woken
  goroutine finds the counter raised again only by a `serving.Go` that overlaps
  it, and then `sync.WaitGroup` panics (`WaitPanics`). Go may raise the panic of a
misused WaitGroup in `Add` or `Done` too; the model has it on the waiter only.

`orderly` marks the waits that began after `Start` had returned, which is the
order the documentation's examples use; the promises of `WaitUntilStopped` hold
for these and not for the others (section 5).

### Projection

`history` is everything ever produced, `live` the offsets compaction has left.
`Compact` drops a record once a later one has its key; `Purge` drops a tombstone
when nothing older is left for it to delete and every replica that has read
something of that key has read the tombstone too, the model's form of
`delete.retention.ms`. That conjunct is an assumption on the operation of the
cluster: without it TLC refutes `CurrentAtEnd`, and a replica cut off for longer
does keep a deleted entry. A replica is one process with one binding; `Die` takes
everything it had. `ReachEnd` queues an end-of-partition event and `PollEOF`
delivers it at some later time, so it may be stale. `Fold` is `applyFunc`, in the
order of the code: key, tombstone, payload, payload key, filter. What a decoder
or filter decides is a constant, so a configuration chooses the kind of binding.

What the store ought to hold is stated on `history` alone (`CurrentBy`): the last
record of a raw key, whether or not it is still in the log.

`EmptyTopicFails` holds the count of the warm-up against the history variable
`given`, the records polled during it. A replica of a binding without `AllowEmpty`
is steady only if one of them was an upsert or a delete, and fails only if none
was: a topic whose records were all skipped fails like an empty one, and one of
nothing but tombstones, or of an upsert and its delete, loads although its store
is empty.

### Store, Stats, Consumer, ErrorLog

`Store` splits `Put` and `Delete` into the step on the map, which learns whether
there was an entry, and the step on `size`. A walk visits each key at some moment
and yields what is there, which is what `sync.Map.Range` promises.

`Stats` splits `applyFunc` and `noteRecord` into their atomics, in program order
(`StepAfter`), and `registration.stats` into its reads, in program order
(`Fields`). `lastRecordAtUnixNano` is the number of the record. Each callback of
the Observer is a step of its own after the atomics it follows in the code, and
`told` is what a service would have added up from them; `StoreTook`, `StorePhase`
and `Announce` are the three steps in which a warm-up ends.

`Consumer` has a program counter per goroutine: `CloseSwap` before the lock,
`Lock`, `Check` of the flag under it, and `Answer` or `Release` when librdkafka
returns. A `kc.Close` that fails leaves the handle as it was.

`ErrorLog` has one step per polled event, since all of it runs under `handleMu`,
and a clock. Only lines about errors and the connection are modelled.

### Options

A slice and a map are references: `heap` holds what the service passes (it may
change that at any time, except while `NewLoader` reads it) and what the loader
made for itself, and `cfg` says which of the two the loader looks at. Each option is
an action, refused or applied; `NewLoaderReturns`, `BindTo` and `Build` validate
what they validate in the code, and `BuildConfigMap` is the order in which defaults
and extra properties are written. librdkafka may refuse what the driver accepts.

### Service

`run` of the example, position by position, with the goroutine that receives the
signal and the fatal handler, which here does not just return: it cancels the
context on the goroutine of the dying binding (`Handle`). Nothing runs once `main`
has left. The example binds one topic; the model lets any number be bound, so
that one binding can die while another serves.

## 3. Runs

| Run | Question and bounds |
|---|---|
| `loader` | 2 bindings (one may be empty) of 2 partitions, 2 starters, a waiter, deadline and fatal handler on, one record per warm-up. Safety, the inductive invariant, liveness under fairness, and `ImplementsFairLifecycle`: the refinement with its liveness |
| `loader_wait`, `loader_steady` | the same instance; expected violations, section 5 |
| `projection_restart` | 2 keys on 2 partitions, 2 values and the null payload, 4 records, one replica that starts twice; the topic may be empty |
| `projection_current` | 2 spellings of one key on 2 partitions, a key that does not decode and one the filter drops, 3 records, a topic that must not be empty; safety, and liveness under fairness |
| `projection_rebuild` | one key, a payload that does not decode, 2 replicas; expected violation |
| `store_size` | 2 writers with 3 writes each over 3 keys, and a walk |
| `stats_snapshot` | 4 records of any kind, any number of snapshots, progress every 2 records |
| `consumer_handle` | 2 goroutines with 3 calls each, under fairness |
| `errorlog_rate` | 9 ticks of a 3-tick window, 3 hidden errors |
| `options` | 3 options in any order, 2 names, 3 lists of brokers (none, good, with a blank address), a property the library pins, one `WithSASL` sets and one it has a default for, durations 0 and 1 |
| `service` | 2 bindings of 2 partitions that may be empty, no deadline, a signal at any time, under fairness |

Why the bounds are enough. In `Loader` two bindings are the least with one that
fails beside one that succeeds and two that die together; a third repeats the part
of the second, and the theorems hold for any number. Two starters make the race
for the claim; one waiter is woken in some behaviours and passes in others, and
two of them beside each other are left to the theorems. Records matter only as
"none yet" against "some". In `Projection` four records are a value, a tombstone
after it and its compaction and purge, beside a record elsewhere; two starts are a
replica that forgets. In `Store` two writers reach every sum of outstanding
additions between -2 and 2. In `Consumer` two goroutines meet at every position of
a call, `Close` beside a poll and `Close` beside `Close` included. In `Stats` each
relation is between two figures one record apart. In `Options` three options are
two that meet in one field and one that makes the loader valid; two names are a
consumer built and one that is not. Each property of a passing run is refuted when
one definition is changed the way a plausible bug would change the code; these
mutants stand before the definition they replace, under its name and a suffix.

`CHECK_DEADLOCK FALSE` stands only in the `projection_*` configurations, where
the bounds on records and starts let everything come to rest, and in `options`,
where a loader that is rejected or running has no next step but those of the
service. `Loader`, `Consumer` and `Service` have a step (`Terminated`, `Exited`) for
the only states in which they may stop, so a deadlock anywhere else is an error;
the other modules never stop.

Type invariants are proved rather than run, except for `TypeOK` of `Projection`,
which is both (section 6). `IInv` of `Loader` contains one as its first part.

## 4. Fairness and liveness

`Loader.FairSpec`: goroutines run, `Poll` returns within its timeout, `Close` and
the fatal handler return, an armed timer fires. Not assumed: that the application
starts, cancels or waits, that the broker reports the end of a partition, or that
a poll fails. So `StartBounded` speaks of a `Start` with a deadline or a cancelled
context, and `WaitReturns` of a loader whose stop signal is up.
`Lifecycle.FairSpec` demands that a loader which is going down does stop, and
`ImplementsFairLifecycle` says that `Loader` keeps that promise too.
`options.go:262` demands that the fatal handler not block; one that calls
`WaitUntilStopped` would wait for the goroutine it runs on, and is outside the
model.

`Projection.FairSpec`: polls go on and the broker answers for every partition.
`Consumer.FairSpec`: librdkafka answers within the timeout of a call, and a
goroutine that keeps finding the mutex free gets it (strong fairness), which is
what the starvation mode of `sync.Mutex` provides. `Service.ServiceSpec`: every
goroutine is scheduled. Nobody has to send a signal and no binding has to die;
`GoesDown` speaks of what follows if one does.

Liveness is only model-checked: TLAPS has no rules for fairness. What it rests on
besides fairness is proved for the loader, the consumer and the service: that a
goroutine has few steps left, and that whoever waits has somebody to wait for
(section 6).

## 5. Where the code and its documentation differ

Each of these is a run that checks one sentence of the repository and finds it
violated; `PROJECT.json` quotes the sentence.

- `loader_wait`: a `WaitUntilStopped` that overlaps `Start` returns during the
  warm-up, although goroutines poll and handles are open (`loader.go:480`).
- `loader_steady`: after a `Start` that failed, a binding that had read its topic
  says it is steady, "now applying live changes" (`observer.go:13`).
- `projection_rebuild`: a record that is skipped still supersedes the one before
  it for the log cleaner, so a new loader need not rebuild the same store
  (`developer-doc.md:165`).

Some more sentences are stricter than the code. No run is spent on them, since
each is plain from a few lines:

- Raw keys that decode to one store key ("7" and "07" through `IntKey`) are
  ordered by nobody, against `developer-doc.md:22`: two replicas may end with
  different entries. `CurrentAtEnd` says what is left, that the entry is the
  current value of one of the spellings.
- `ErrEmptyTopic` is returned for a topic whose records were all skipped, though
  `errors.go:18` says it "held no records".
- `Len` may be off, even -1, while two writers are between the two steps of `Put`
  and `Delete`; `store.go:26` says the size "stays exact even under concurrent
  writers". `OffByOwed` bounds the error, `ExactAtRest` says when it is gone.
- A `WaitUntilStopped` that overlaps the hand-over can make the WaitGroup panic: a
  woken waiter finds the counter raised again by the `serving.Go` of the next
  binding (`WaitPanics`; `loader.go:224`), though a loader is "safe for concurrent
  use" (`loader.go:29`). `Waited` of `IInv` says that an orderly wait never does.
- A reserved key given to `WithKafkaConfig` is accepted by `NewLoader` and refused
  only by the driver, in `Start` (`driver/config.go:119`), though "each option
  rejects its own bad input at construction, so a misconfiguration cannot survive
  until Start" (`tests/unit/options_test.go:67`). `AcceptedIsUsable` says that this
  is the only such case.
- `WarmupApplied` grows during the warm-up (`observer.go:134`), a second `Close`
  does not wait for the call in flight (`internal/driver/consumer.go:47`), and a
  recovery drops the count the next line ought to report
  (`internal/driver/throttle.go:28`).

## 6. Proofs

All theorems hold for every value of the constants that satisfies the `ASSUME`
of the module; nothing else is assumed.

**The loader.** The safety properties are not inductive. `IInv` adds what each
depends on: that one call of `Start` has the claim (`OneClaim`), what is built,
running and closed at each position of that call (`Stage`), what an outcome of a
warm-up implies (`ReadWhole`, and `BlamesRightly` for the deadline and the
cancellation), that the WaitGroup counts exactly the goroutines
between `serving.Go` and `Done` (`Counted`), that a goroutine past its last check
has a signal to show for it and the handler is still to run only for the winner of
the compare-and-swap (`Signalled`, `Reported`), that a late record was the last
(`LateOnce`), and that an orderly wait let through found nothing running
(`Waited`). TLC checks `IInv` in `loader`. `LoaderProofs` has one lemma per
part, each with one step per action; `Inductive` combines them, and the theorems
about the single properties follow from `IInv` in a step each. The argument
for `WaitUntilStopped`, for instance, is `Counted` and `Waited`: a wait passes only
at a counter of zero, which means no goroutine, and once `Start` has returned no
step raises it again.

**The refinement.** `LoaderProofs` ends with `Spec => Abstract!Spec` (`Refines`): a
step of the loader is a step of `Lifecycle` under the mapping, or stutters. The
interesting cases are `WarmupWait`, which is `Serve` or `Fail`, and `ServeExit`,
which is `Leave` and, for the last goroutine, the change to "Stopped".

**Towards liveness.** `Winds`: once the stop signal is up, each step of a serving
goroutine strictly lowers the eight steps it has at most, and once the warm-up's
context is over each step of a warm-up goroutine the four it has, whatever the
polls bring. `NoLostWakeup`: a `Start` in the warm-up can go on or has a goroutine
to hear from, and a wait that is queued has a serving goroutine to wake it; this
needs `QueuedCounted` beside `IInv`, that nobody is queued at a counter of zero.
From there to `StartBounded` and `WaitReturns` it is a descent along these counts
under the fairness of `FairSpec`, which is the part TLC checks. `WindsDown` and `NoDeadlock` say the same of a call
on the consumer: four steps of its own, and a mutex that is free or held by a call
that only librdkafka's answer keeps inside. `NobodyOrphaned` is the part of
`GoesDown` that a signal or a dead binding is in somebody's hands until the
context is cancelled.

**The table.** `ProjectionProofs` proves `CurrentAtEnd` and `FreshOnceSteady` from
`CleanBinding`: skips are decided by the key alone, the payload does not choose
the key, and the broker's null payload is a tombstone for the binding. Several raw
keys may spell one key of the store. The invariant is about the last record of
each raw key. The log cleaner takes it only if it is a null payload, and then
nothing of that key is left (`PurgedLast`); so either a replica has folded it (and
its entry is what that record left), or it is still in the log ahead, or it is
gone and the entry is empty (`FoldedAt`). That a key with records has a last one
(`HasLast`) is part of the invariant, because it cannot be proved by induction
over the history here. Freshness needs one thing more: once the end of a partition
was reached, everything ahead lies beyond the offsets of the assignment
(`AheadNew`), so whatever decides an entry later is newer (`Since`). For a key
with several spellings both hold of one of them (`Entries`). The witness changes
in one place: a record that is folded makes its own spelling the witness, whatever
the entry was before (`ReadsOwn`); every other step keeps the witness there was
(`Kept`, `SinceKept`, `SameWitness`).

**The table, for any binding.** Four theorems say what is left without
`CleanBinding`, or what can be added to it. `AnyInv` has the types, the topic's
size as a cardinality (`Sized`), and offsets that stay in order (`Placed`,
`Behind`); `AnyTypes` follows. `EmptyFails` proves `EmptyTopicFails` from `Decided`,
which ties the count of the warm-up to what it was given: it is above zero exactly
when an upsert or a delete was among that. `GivenPlaced` keeps those records where
they are in the history, so that what they were never changes.
`NothingInvented`: every entry is what some record the replica has gone past put
there (`Sourced`). `RebuildAgrees` is the positive counterpart of the run
`projection_rebuild`: if the binding is clean and no two raw keys spell one key of
the store (`OneSpelling`), two replicas at the end of the topic hold the same store,
as `developer-doc.md:165` says. The run shows that the first condition cannot be
dropped, and section 5 why the second cannot.

**The store.** `Sized`: `size` is the number of entries, less the writers that
have still to add, plus those that have still to subtract. Each step moves one
element in or out of one of three finite sets. `Owing`: what a walk owes is in the
store and was neither visited nor changed.

**The consumer.** `Locked` (the mutex is held exactly by the goroutine between
`Check` and its return), `OneCloser` (the `Swap` lets one call of `Close` on) and
`Gone` (the flag is up, and nobody is inside, once the handle is gone).

**The error log.** `Agrees`: the throttle's fields are what the history says, unless
the connection came back since.

**The figures.** Every live figure is a count of the history, less the record that
is still on its way to it (`Counted`, `Sized`, `Told`), and the phase says which
figures of the warm-up are final (`Phases`). For a snapshot that was read in part,
`Seen` takes a figure from it if it was read and from the atomics if not:
`Snapshot` states the relations for that mixture, and it is inductive because no
count goes down and those of the warm-up stand still once it is over.
`ObserverAgrees`, `WarmupToldOnce` and `ProgressOnTime` follow from `Told`,
`Phases` and `Reported`.

**The options.** `Owned`: what the resolved configuration refers to is the loader's
own, so no step after `NewLoader` changes a setting (`Frozen`), and what held of a
consumer when it was built (`Outcomes`) stays true.

**The service.** `ImplementsLoader`: every step of the process is a step of the
loader or leaves it alone, so every theorem about the loader holds in it, the
life cycle included (`ServiceLifecycle`). `ServiceInv` adds to `IInv` where the
loader is while `main` is at each of its calls (`AtCall`), that only the listener
cancels the context of a loader without an error (`WhoCancels`), and why `main` left
(`WhyLeft`). `main` waits only after `Start` returned nil, so its wait is orderly,
and `Waited` of `IInv` gives `ExitsIdle`; that a stopped loader has no binding left
to die (`StoppedIsQuiet`) makes the status `main` took from it final, which is
`ExitTellsWhy`.

Only model-checked: the liveness properties (`StartBounded`, `WaitReturns`,
`BecomesCurrent`, `EveryCallReturns`, `GoesDown`) and the liveness half of the
refinement (`ImplementsFairLifecycle`), which need rules for fairness that TLAPS
does not have; every safety invariant and action property that a passing run
checks has its theorem. Proved but not run, because the theorem says all a run
would: `ExactAtRest` of the store, a consequence of `OffByOwed`; `SizeIsCovered` of
the figures; the type invariants; the results under "Towards liveness"; and
`RebuildAgrees` and `NothingInvented`.

## 7. Not modelled

- Logging and its two options (`WithLogger`, `WithErrorLogging`), except for the
  lines `ErrorLog` is about; `OnKeyMismatch` and `OnKafkaError`, which change
  nothing; the printing observer of the example; error values, beyond which one
  comes back.
- A fatal handler that blocks, which `options.go:262` forbids.
- What decoders, filters and observers do, beyond what they answer.
- The panic of a misused WaitGroup anywhere but on the waiter (section 2).
- A caller's context that has a deadline of its own.
- Durations, except that a deadline may come at any moment. A steady poll timeout
  below a millisecond truncates to zero and makes the serving loop spin, which no
  model shows.
- A topic whose partition count grows: the assignment is made once, as the
  documentation says.
- librdkafka and the broker, beyond what the code sees of them.

## 8. Plan

Done: `Loader` and the refinement, `Projection`, `Store`, `Stats` with the Observer,
`Consumer`, `ErrorLog`, `Options` and `Service`, all with their theorems.

What would add most from here:

1. An abstract specification of the store (an atomic map) that `Store` implements,
   and one of the topic's table that `Projection` implements once read.
2. Composition: two bindings on one store (`Projection` with `Store`), and
   `Loader` with `Consumer` in place of the count of closes.
