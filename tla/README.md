# Aether-Stream: TLA+ models, checks and proofs

Aether-Stream is a C++20 in-process messaging library: a single-producer/single-consumer (SPSC) ring
buffer, a zero-copy variant of it, brokers that add counters and batches, and a persistent broker
that writes every event to a memory-mapped write-ahead log (WAL) before it enters the queue. Five
command-line programs, a stress tool and examples sit on top.

This directory models the library and its programs in TLA+, checks the models with TLC on small
instances and proves the main safety properties with TLAPS for all instances.
`PROJECT.json` lists the parts, the runs, the hazards, the source lines of every definition and the
theorems. Paths below are relative to the repository.

## 1. The system and the modules

| Part | Source | Module | Relation to the others |
|---|---|---|---|
| SPSC ring | `include/aether/spsc_ring_buffer.hpp` | `SpscRingBuffer` | implements `BoundedFifo` |
| its queries | same, and `broker.hpp` | `SpscQueries` | extends the ring |
| zero-copy queue | `include/aether/zero_copy_spsc.hpp` | `ZeroCopySpsc` | instantiates the ring, implements `BoundedFifo` |
| Broker, BatchBroker, counters | `broker.hpp`, `batch_broker.hpp`, `metrics/counters.hpp` | `BatchBroker` | uses `BoundedFifo` |
| write-ahead log | `src/wal/*`, `wal/*.hpp` | `Wal` | implements `DurableLog` |
| persistent broker | `persistent_broker.hpp` | `PersistentBroker` | uses `BoundedFifo` and `DurableLog` |
| memory-mapped file | `io/mmap_file.*` | `MmapFile` | |
| stress tool, benchmark loops | `tools/stress_spsc.cpp`, `apps/aether_bench.cpp` | `StressSpsc` | uses `BoundedFifo` |
| latency histogram | `metrics/latency_histogram.*` | `LatencyHistogram` | |
| command lines | `src/cli/args.cpp`, `tools/stress_spsc.cpp` | `CliArgs` | part of `Programs` |
| one broker used by one thread, configuration checks | `aether_pub.cpp`, `aether_sub.cpp`, `config.hpp`, `broker.cpp`, two examples | `DemoBroker` | part of `Programs` |
| typed replay, log scans | `persistent_broker.hpp`, `aether_replay.cpp`, `aether_inspect_wal.cpp` | `Recovery` | part of `Programs` |
| the executables | `apps/*.cpp`, `tools/stress_spsc.cpp`, two examples | `Programs` | composes the three above |

How they fit together:

```
                                                      Programs
                                                   /     |      \
 StressSpsc   BatchBroker   PersistentBroker   CliArgs DemoBroker Recovery
      \            |           /         \
       +------ BoundedFifo ---+       DurableLog
               ^         ^                ^
         implements   implements      implements      MmapFile   LatencyHistogram
               |         |                |
     SpscRingBuffer  ZeroCopySpsc        Wal
           ^
      SpscQueries
```

Proofs are in modules of their own: `SpscRingBufferProofs` (the ring and its queries),
`ZeroCopySpscProofs` (over the ring's), `BatchBrokerProofs`, `WalProofs`, `PersistentBrokerProofs`,
`MmapFileProofs`, `MeasurementProofs` (`StressSpsc` and `LatencyHistogram`) and `ProgramsProofs`
(with `CliArgs`, `DemoBroker` and `Recovery`).

The compositions are built on the abstract specifications, and the detailed components are shown to
implement them. `BoundedFifo` was shaped by what the code really guarantees: each thread may learn
late what the other did (`hidden`, `pending`), so a queue can look full or empty too long but never
the other way round. The composed models therefore keep the staleness of the real loads.

## 2. How the models correspond to the code

**SpscRingBuffer.** `head` and `tail` count the stores to `head_` and `tail_`; the code computes with
`Word(head)` and `Word(tail)`, which wrap. One action per atomic access or slot access:
`try_emplace` is `LoadTail` (both loads and the full test), `Construct` or `ConstructThrows`,
`PublishHead`; `try_pop` is `LoadHead`, `MoveOut` or `MoveOutThrows`, `Destroy`, `PublishTail`;
`DestroyRemaining` is the destructor. Memory is release/acquire: a load may return any store not
older than the last one the thread read, and `view[t]` is the set of slots whose latest access
happens before thread `t`'s next step. Release stores carry a view, acquire loads take it over, and
an access outside the view is a data race. Weakening either order (`ReleaseNothing`,
`AcquireNothing`) breaks `RaceFree`.

**SpscQueries** adds `empty`, `full` and `size_approx` as two separate loads (`...Asks`,
`...Answered`), by the producer, the consumer or a third thread. The third thread's loads also obey
what it learned by synchronising. One query is in flight at a time, which is enough because queries
write nothing.

**ZeroCopySpsc** keeps the ring's state and replaces its producer by `Reservation` objects:
`TryReserve`, `TryReserveBusy`, `Construct`, `ConstructThrows`, `Commit`, `Cancel` (also the
destructor), `Move` (construction and assignment, which cancels what the target held). `commit`
stores `head_` and then clears the flag. The ring is instantiated with its program counter defined
from the reservations, so the ring's invariants and refinement are checked of this queue as well.
The producer constructs only through a reservation that holds a slot, and the queue is destroyed
when none does, as the class comment demands.

**BatchBroker** covers `Broker` and `BatchBroker`. A call of either goes step by step: the stale
load and test (`TryPush`, `TryPop`), the queue operation (`StoreMessage`, `MoveMessage`), the
counter increment (`CountPublished`, `CountFull`, `CountConsumed`), the return. Copies and moves may
throw between any two messages. `reset_metrics` is called by a third thread and zeroes one counter
per step; `before` and `after` are the history of its call and its return.

**Wal.** The file is an array of cells; a record has four header cells (magic, size, metadata,
checksum) and its payload. `append` is `AppendRefused` for every early return, `AppendStart`, one
`CopyCell` per cell, then `AppendOk` or `AppendFlushFails`. `mem` is the shared mapping, `disk` what
survives a power loss; `WriteBack` lets the system write any page at any time. `Close`, `Kill` and
`PowerLoss` end the writer. `CreateFails` is a `create` that fails after `open` has truncated the
file: the old log is gone and there is no writer. `WalReader::next()` is two steps, `NextHeader`
(the early returns and the copy of the header) and `NextPayload` (the checksum and the rest), and
both may run at any moment, in the middle of an `append` of another process too. `Replay` is
`replay()` of a file nobody changes.

**PersistentBroker.** `try_publish` is `CheckFull`, `AppendStart`, `AppendCopied`, `AppendOk` or a
failure, `PushValue`, `CountPublished`; `try_consume` is `CheckEmpty`, `PopValue`, `CountConsumed`;
`FlushLog` is `flush`. `Open` may be called when both threads are out of the broker, also on an open
broker, where the code overwrites `open_status_`, and may be refused or fail in `create`.
`Destructor`, `Killed` and `PowerLoss` end the process at any step.

**MmapFile.** Several objects with `fd_`, `data_`, `size_`, `path_`; descriptors and addresses are
numbers the system hands out again once free. Every system call of `create`, `open_existing`,
`flush`, `resize` and `close` may fail where the code handles the failure.

**StressSpsc** is `run_stress`, two retry loops and the verdict, and the loops of `aether_bench`'s
`run`, which are the same without the comparison of values (`program` tells them apart).

**LatencyHistogram.** `samples` counts the samples of each of two latencies, which is all the sort
leaves of them. `percentile` computes `ceil((p / 100.0) * n)` in doubles; the model does too, with
53-bit significands as sequences of bits, exact long division and multiplication, and rounding to
nearest, ties to even. The percentiles are those the class names and those the tests ask for.

**CliArgs** walks all command lines with the cursor of `args.cpp`; the five parsers are tables, and
`stress_spsc`'s `parse_args` is a sixth with its own rules (no `=`, `--help` ends the parse).

**DemoBroker** is one thread and one broker, a call being one step: `aether_pub`, the in-memory half
of `aether_sub`, the `persistent_broker` example with any configuration and the `wal_replay`
example's writer. `QueueConfigValidate`, `WalConfigValidate`, `validate_queue_config_for_capacity`
and `validate_wal_config_for_payload` are the checks of `open`, in its order.

**Recovery.** `log` and `ending` are what successive calls of `next()` return. The typed replay has
its three places that count a failure (opening, the lambda, after `replay()`) and the visitor may
fail or throw; the scan loop has its limit. A writer may append to a sound log at any step.

**Programs** composes the three: `main` of each executable from its command line to its exit code.
The parsed options decide what the broker or the reader is asked to do, the results decide the exit
code. "client" stands for the two examples and for any user of the typed replay.

## 3. The runs

`tlc -workers 2 -config X.cfg M` with the module and configuration named in `PROJECT.json`. All pass
except the two marked *violated*, which state what the documentation says (section 6). Deadlock is
checked in every run.

| Run | Instance | Distinct states | What it shows |
|---|---|---|---|
| `spsc_ring` | 4 slots, counters wrap at 8, 10 pushes | 76,739 | `RaceFree`, `ObjectLifetime`, the inductive invariant, and the refinement of `BoundedFifo` |
| `spsc_queries` | 2 slots, wrap at 4, 5 pushes | 1,336,901 | `AnswerLasts`: an owner may act on its answer; `SizeInRange`: only a third thread can see a wrapped size |
| `zero_copy` | 4 slots, wrap at 8, 9 pushes, 2 reservations | 106,901 | `OneReservation`, no race, no leaked or twice destroyed object, refinement of `BoundedFifo` |
| `batch_broker` | capacity 2, batches of 0, 1 and 3, spans up to 2, 2 publish calls, consume calls until one finds nothing | 9,345,592 | `BatchPrefixes`, `ExactWhenQuiet`, `CountersClose`; `ResetForgetsThePast` of a reset that races with both threads |
| `wal` | 10 cells, pages of 3, payloads of 0, 2 and 3 cells (3 is over the limit), 3 appends | 396,154 | `ImplementsDurableLog`, `CleanReplay`; `ReaderFollows` and `ReaderCatchesUp` for a reader that runs inside appends |
| `wal_torn_tail` | as `wal` | *violated* | `TornTailIsCleanStop` |
| `wal_zero_tail` | as `wal` | *violated* | `ZeroFilledTail` |
| `persistent_broker` | queue of 2, log of 3, 5 calls | 1,597,104 | `AppendedIsPublished`, `WalBeforeQueue`, `ReplayCoversConsumed`, `CountersAgree`, and `StrandedButLogged` (an action property) of a second `open` |
| `mmap_file` | 2 objects, 2 paths, 3 handles, 2 sizes | 319,844 | `OwnedOnce`, `NoLeaks`, `BytesBacked`, `DirtyIsMapped` |
| `stress_spsc` | capacity 4, 12 messages, both programs | 2,654 | `Terminates` (liveness), `Passed` |
| `programs` | 6 programs with up to 3 arguments, a client with any configuration and up to 3 messages, logs of up to 4 records | 1,924,463 | `ParsesExactly`, `ExitCode`, `FailureCountedOnce`, `VisitsPrefix`, `OkIsComplete` (an action property) |
| `latency_histogram` | up to 2001 samples, 2 of them slow | 6,003 | `RankIsNearest`, `PercentilesOrdered`, `PercentilesFollow` (an action property) |

`spsc_ring`, `zero_copy` and `wal` check a type invariant; the types of the other modules are part
of their inductive invariants. Every property is violated by at least one mutated definition of the
model (`PROJECT.json`, "mutants"), so each one depends on the code it is about.

### Bounds, and why they are enough

- *Ring, zero-copy, queries.* The push bound exceeds the word size, so both counters wrap with the
  ring empty, partly filled and full, and every slot is reused at least twice. The word size is twice
  the capacity, the smallest the code's test tolerates. The proofs remove these bounds.
- *Wal.* Ten cells hold two records exactly (4+0 and 4+2, in either order), or two short ones with
  less than a header behind them. Pages of three cells put a page boundary inside every record, so
  pages of one record reach the disk in any combination. Three appends allow a failed one, a shorter
  retry, and one more. One payload starts with zero bytes, which the zero-tail test must not take for
  an empty tail. No payload of the run holds what looks like a record header, so that the run checks
  the strong form of `DurableLog` also after failed flushes; the proofs remove this restriction with
  the bounds.
- *PersistentBroker.* Three records do not fit the queue of two, so both "full" and "out of space"
  happen; five calls allow a second `open`, a failure and a recovery from it. The proofs remove the
  bounds.
- *BatchBroker.* The batch of three does not fit the queue of two, the span of two can exceed what is
  queued; two publish calls and any consume calls up to the first that finds nothing (`MaxEmpties`)
  overlap with every step of one reset. The proofs remove the bounds.
- *MmapFile.* Two objects and one more handle than objects allow a released number to be handed out
  to the other object while the first still exists. The proofs remove the bounds.
- *Programs.* Inputs are enumerated completely up to the bounds. Three arguments are an option, its
  value and what follows them. A record is two cells and the queue holds two messages, so that
  configurations of 0 to 5 cells and 0 to 3 messages lie on both sides of every check. The proofs
  remove the bounds.
- *LatencyHistogram.* 2001 samples include both sizes at which the rounded product of `p999` is above
  a whole number, and one size past each. Two slow samples at the top are what a rank that is off by
  one takes or misses, for high percentiles of many samples and for low ones of few.

### Fairness

Only `StressSpsc` assumes fairness. Weak fairness of each thread's steps says that the scheduler
runs both threads; both are ordinary `std::thread`s. Weak fairness of a try that sees the current
counter says that a thread that keeps loading an atomic reads its latest value in the end, which the
C++ standard asks of implementations ("should become visible in a finite amount of time"). Neither
assumes anything of `SpinWait` or of `aether_bench`'s `yield`, which only delay.

## 4. What is proved

Each theorem holds for every value of the constants, bounds included.

| Module | Theorem | Statement | For every |
|---|---|---|---|
| `SpscRingBufferProofs` | `Invariance` | `Spec => []IndInv` | capacity of at least 2, word size a proper multiple of it, set of values, number of pushes |
| | `TypeCorrectness` | `Spec => []TypeOK` | |
| | `SlotRaceFreedom` | `Spec => []RaceFree` | |
| | `SlotLifetime` | `Spec => []ObjectLifetime` | |
| | `Refinement` | `Spec => ImplementsFifo` | |
| | `AnswersLast` | `QueriesSpec => []AnswerLasts` | |
| | `SizeStaysInRange` | `QueriesSpec => []SizeInRange` | |
| `ZeroCopySpscProofs` | `SingleReservation` | `Spec => []OneReservation` | as the ring, and set of `Reservation` objects |
| | `ReservedSlotRaceFreedom` | `Spec => []RaceFree` | |
| | `ReservedSlotLifetime` | `Spec => []ObjectLifetime` | |
| | `CommittedInOrder` | `Spec => ImplementsFifo` | |
| | `ReservationTypes` | `Spec => []TypeOK` | |
| `PersistentBrokerProofs` | `Invariance` | `Spec => []IndInv` | queue capacity, log size, set of values, number of calls |
| | `NoOrphanRecord` | `Spec => []AppendedIsPublished` | |
| | `LogFirst` | `Spec => []WalBeforeQueue` | |
| | `ReplayCovers` | `Spec => []ReplayCoversConsumed` | |
| | `CountersCorrect` | `Spec => []CountersAgree` | |
| | `SecondOpenKeepsLog` | `Spec => StrandedButLogged` | |
| `BatchBrokerProofs` | `CountersStayClose` | `Spec => []CountersClose` | capacity, batches, span, number of calls |
| | `ResetForgets` | `Spec => []ResetForgetsThePast` | |
| | `ReturnedCountIsPrefix` | `Spec => []BatchPrefixes` | |
| | `ExactBetweenCalls` | `Spec => []ExactWhenQuiet` | |
| `WalProofs` | `WalTypes` | `Spec => []TypeOK` | file, page and payload size, set of payloads with any contents, number of appends |
| | `ReplayIsClean` | `Spec => []CleanReplay` | |
| | `ReaderIsPrefix` | `Spec => []ReaderFollows` | |
| | `ReaderReachesEnd` | `Spec => []ReaderCatchesUp` | |
| | `WalImplementsLog` | `Spec => ImplementsDurableLog` | |
| `MeasurementProofs` | `StressPasses` | `Spec => []Passed` | capacity, number of messages |
| | `PercentilesAreOrdered` | `HistogramSpec /\ []RankIsNearest => []PercentilesOrdered` | number of samples, the two latencies |
| | `PercentilesMoveTowardsSample` | `HistogramSpec /\ []RankIsNearest => PercentilesFollow` | |
| `MmapFileProofs` | `Ownership` | `Spec => []OwnedOnce` | set of objects, paths, handles and sizes |
| | `NothingLeaks` | `Spec => []NoLeaks` | |
| | `SpanIsBacked` | `Spec => []BytesBacked` | |
| | `DirtyStaysMapped` | `Spec => []DirtyIsMapped` | |
| `ProgramsProofs` | `CommandLines` | `Spec => []ParsesExactly` | length of the command line |
| | `FailuresCounted` | `Spec => []FailureCountedOnce` | length of the log, number of records appended meanwhile |
| | `VisitorSeesPrefix` | `Spec => []VisitsPrefix` | |
| | `OkLeavesNothingOut` | `Spec => OkIsComplete` | |
| | `ExitCodeTells` | `Spec => []ExitCode` | all of these, record and queue size, configuration, number of messages |

`tlapm M.tla` checks a module; together they have 13,559 obligations. A leaf that cites `Zenon` is
first-order reasoning about facts already named; the others need arithmetic, records or sequences and
go to the SMT solver. Keeping those few and small keeps the longest module (`BatchBrokerProofs`) below a
quarter of an hour.

### Assumptions

- Ring and queries: `CapacityAssumption` (a capacity of at least 2, from the `static_assert`),
  `WordAssumption` (the number of values of `std::size_t` is `k * Capacity` with `k >= 2`: true of a
  power of two below `2^64`; that the capacity is a power of two is used only through this),
  `ValueAssumption` (the markers for raw and moved-from storage are no values of `T`),
  `MaxPushesAssumption`. Zero-copy queue: `RingAssumption`, the same four.
- PersistentBroker: `RecordAssumption` (the records of the log are the values of the queue) and
  `BoundsAssumption` (the bounds are natural numbers). BatchBroker: `BatchAssumption`, the same with
  batches that are sequences of values. StressSpsc: `MessagesAssumption` (the values are
  `0 .. messages - 1`). LatencyHistogram: `LatencyAssumption` (two latencies, one below the
  other).
- MmapFile: `HandleAssumption` (handles are positive numbers, 0 is neither a size nor a path; it
  stands for the null members of an object that holds nothing).
- Wal: `SizeAssumption` (sizes are numbers, a page is not empty, the file holds a header) and
  `PayloadAssumption` (a payload is a sequence of cells; any cell, read as a size field, is a
  number). No theorem on `Wal` assumes anything of the contents of payloads.
- Programs: `ProgramsAssumption` (the bounds are numbers), `SizesAssumption` (the queue has a power
  of two of places, from its `static_assert`; a header is not empty; an `OrderEvent` is no larger
  than `max_payload_size`) and `NumbersAssumption` (texts of numbers and defaults are numbers, and
  the capacity `aether_sub`'s parser supports is the one its broker has).

TLC evaluates all of them.

### The arguments

Each proof has an inductive invariant, one lemma per action (or per group of actions with the same
effect), and a theorem per property that follows from the invariant.

*Ring.* `RaceFree` and `ObjectLifetime` are not inductive: a thread is safe in a slot because of the
view attached to the store it has read, so an invariant must speak about every store that can still
be read. `IndInv` has these parts:

- `CountersInv`: `seenTail <= tail <= seenHead <= head <= seenTail + Capacity`, with strict bounds
  inside an operation. It makes every wrapped test equivalent to the unwrapped one (`WrappedTests`)
  and the slots of all live elements distinct (`SlotDistinct`).
- `ViewsInv`: between them the threads know every slot's last access; the producer knows the slots it
  may fill, the consumer those it may empty; and every store of `tail_` (of `head_`) that can still
  be read carries the slots it frees (fills), unless the reader knows them already.
- `ObjectsInv`: the slots from the first element to `head` hold values, the others are raw, up to the
  operation in progress on each side.
- after destruction every slot is raw.

`ProducerLoadInv` and `ConsumerLoadInv` cover a load of the other side's counter, whoever makes it;
`AccessEffect`, `ProducerAccessViews` and `ConsumerAccessViews` carry what a slot access does to
views and messages; `ProducerTouchInv` is the producer at work in the slot at `head`. The module
starts with the facts about `%` (distinct remainders within a window, wrapped differences, a window
of `n` numbers covers all remainders).

`Refinement` maps the ring to `BoundedFifo`: the queue is the contents of the slots from the first
element not yet moved out to `head`, `hidden` what the producer has not seen freed, `pending` what
the consumer has not seen stored. A push takes effect at the store of `head_`, a pop at the move out
of the slot, loads are observations, the destructor is `Drop`, everything else stutters.

*Queries.* `QueriesInv` adds to `IndInv` what the query in progress has loaded (`AskerInv`), what a
reader of a store learns (`KnowledgeInv`: the producer that stored `v` in `head_` knew of a `tail_`
at most `Capacity` behind, and whoever reads that `v` cannot read an older `tail_` afterwards) and
what the last answer was made of (`AnswerInv`). `AnswerLasts` follows because an owner's answer is
not newer than what it has seen, and the other side only makes it truer.
`PersistentBroker::try_publish` relies on it when it appends to the log after `full()` returned
false.

*Zero-copy queue.* The ring's lemmas are used through an instance of its proof module, in which the
producer's program counter is read off the reservations (`ReservationPc`). `ReservationInv` is the
ring's invariant under this reading with `OneReservation`: the two need each other, since only the
single holder of the slot at `head` is where the ring's producer would be. `commit` is then the
ring's store of `head_`, `try_reserve` its load of `tail_`, and the consumer and the destructor are
the ring's. What the ring's producer cannot do, construct over an object, cancel and hand over, is
covered by the ring's `ProducerTouchInv` and `GiveUpInv` and leaves `BoundedFifo` unchanged.

*PersistentBroker.* `LogInv` says at each step of `try_publish` that the acknowledged records are
the consumed values followed by the queue (and the value about to be pushed), that the producer's
test for room still holds, and that the file holds the acknowledged records and at most one more.
`CountersInv` relates each counter to them. Ending the process needs that a power loss cuts a prefix
(`PrefixOfCut`). `StrandedInv` says of a broker opened twice that its writer is up and no call is
running; so no call can do anything (`StrandedStep`) but end the process (`StrandedEnd`).

*BatchBroker.* The argument is a ledger: what a counter lacks (`Missing`, its events without the one
in progress, less its value) is changed by no step but the store of `reset`. `LedgerInv` says that
it lacks nothing until then, afterwards at least what it had counted when `reset` was called, and
when `reset` returns at most what had happened. For `BatchPrefixes`, `SentInv` says that what was
sent is what the counts of the ended calls say (`Queued`), then the first `published` messages of
the call in progress; the calls cut short are counted as a set, which grows by one with `CountFull`.

*Wal.* `WalInv` says where the records lie. The offset of each record is the sum of the sizes before
it (`Start`); the mapping holds every appended record (`Laid`), the disk every synced one and of the
others only cells that belong there (`Partly`); behind them are only zeros and cells of the appends
in progress or given up (`TailOf`, `HeadersOf`). The reader stands after the records it has returned
(`ReaderInv`), and a header it has copied holds only cells the file still has: a record half copied
is never taken for a whole one, because its checksum names its contents. The proofs need what
`Replay` computes, a recursive function of the offset: `ReplayLaid` shows that a file with the
records of `s` from offset 0 on replays as `s`, followed by the replay from their end;
`ReplayBetween` bounds a replay of a file that holds some of them only partly. From these the
properties and the refinement follow: a step of `CopyCell` may complete a record (`Write`), the
return of `append` acknowledges it, a power loss cuts to a prefix no shorter than what was synced.

The contract has a weak spot, and the mapping says exactly where: `garbled`. An append whose flush
failed leaves its bytes behind. If a shorter record is appended there next, it ends in the middle of
the old payload, and should the payload hold what looks like a record header, a replay takes it for
a record. No such thing can happen while no flush has failed inside `append`, or if all payloads
have one size (`SameSize`, as in a `PersistentBroker`), or if no payload holds a cell that looks
like the magic or the checksum of a header (`DataPayloads`). In each of these cases every header
behind the acknowledged records belongs to a record tried there (`HeadersKnown`, `Apart`). Otherwise
the log still replays all that was acknowledged first (`GarbledBegins`: a flush inside `append` is
made only with `flush_on_commit`, so everything acknowledged is on the disk), and `GarbledWrite`,
`GarbledAcknowledge` and `GarbledStop` promise no more.

*Programs.* `ProgramsInv` joins an invariant of each part. `ParserInv`: every argument behind the
cursor was well placed and every option has the last of its values there (`BeforeCursor`); an
argument between an option and its value is never read by itself (`ReadFacts`). `BrokerInv`: how far
publishing and consuming have come, what the file and the queue have room for, and, at the end,
whether the request was feasible (`Judged`); `AcceptsFeasible` shows that the checks of `open` and
the loops together refuse exactly the infeasible requests. `ReaderInv`: the visited records are a
prefix, counted record by record (`Progress`), and the status at the end says why the loop ended
(`Verdict`). `StageInv` is the hand-over from the parser to the broker to the reader.

*StressSpsc.* The queue holds the consecutive values from the next one to take to the last one stored
(`StressInv`).

*LatencyHistogram.* The proofs use of the arithmetic only that each rank is the nearest one or, where
the exact product is whole and the literal is not, one above it (`NearestRanks`). From this the rank
lies between 1 and the number of samples, does not decrease with the percentile (`RankBounds`), and
one more sample moves it by at most one (`RankSteps`); the case to watch is `p999`, whose rank may be
one above at one number of samples and not at the next. `PercentileOf` turns a rank into the sample
it selects.

*MmapFile.* `MmapInv` adds to the four properties that the members of an object agree with each other
(a path with every descriptor, a size with every mapping, no mapping without descriptor) and that no
two objects have the same path. `LowestIsFree` shows that the number the system hands out is in no
one's hands.

*Induction.* The theorems of the library on induction over the naturals take an operator as a
parameter, which the installed provers cannot instantiate. `WalProofs` and `BatchBrokerProofs` do
induction with sets instead: a non-empty set of naturals has a least element (`LeastElement`, from
the well-foundedness of `<`), so a set that holds 0 and the successor of each of its members holds
every number (`SetInduction`). A recursive function is unfolded the same way: the numbers at which
it satisfies its equation are such a set.

TLC checks the ring's inductive invariant in its run. The others (`QueriesInv`, `ReservationInv`,
the persistent broker's `IndInv` and `StrandedInv`, `BatchInv`, `LedgerInv`, `SentInv`, `StressInv`,
`MmapInv`, `WalInv`, `ProgramsInv`) hold under the configurations of their runs too when listed as
an `INVARIANT`.

### Only model-checked

- Liveness (`Terminates`), which is out of the prover's reach, like anything with `ENABLED`.
- `RankIsNearest`: the rank is the result of rounding in binary arithmetic. For which sample counts
  the rounded product passes a whole number is a fact about 53-bit significands that has to be
  computed; the run computes it up to 2001 samples. It is a hypothesis of the two theorems on the
  percentiles, which remove the bound from everything that follows from it. The bound on the slow
  samples they remove altogether.

## 5. Abstractions

What the models leave out of the code they cover, and what they assume:

- *Ring.* A throwing move assignment leaves its source unchanged; a throwing constructor leaves no
  object. The destructor runs after both threads have stopped, as the class requires.
- *Wal.* A cell is written atomically. The checksum is the checked contents, so CRC-32 collisions do
  not occur. A successful `msync` after a failed one makes everything durable. The truncation by
  `create`, also of one that fails, is durable. The file is not created anew while a reader has it
  mapped. The reader copies a header, and checks and copies a payload, in one step each.
- *PersistentBroker.* All records have the size of `T`, so the file holds a fixed number and the log
  is never garbled (section 4). `reset_metrics` and the read-only accessors are left out; `open`
  runs while both threads are out.
- *BatchBroker.* A snapshot of the counters is a read at one moment.
- *MmapFile.* One object per path at a time; write-back by the system is not modelled here (it is in
  `Wal`); a moved-from path is empty; the branches for Windows, which only return an error, are left
  out.
- *StressSpsc.* The producer reads `failed` fresh. Timing, retry counts and output are left out.
- *LatencyHistogram.* Two latencies; `mean()` is left out.
- *Programs.* Texts are told apart only by what the parsers ask of them; sizes are in cells; printed
  text is left out. A run of `aether_bench` or `stress_spsc` is one step here (`StressSpsc` has its
  steps). The file system may refuse whatever the code asks of it, once per program.

## 6. Where code and documentation disagree

- `wal_torn_tail`: `docs/wal-format.md:82` and the comment at `src/wal/wal_reader.cpp:70` promise
  that a torn final record is a clean stop. The file is preallocated, so a torn record is nearly
  always followed by more (zero) bytes of the file; `next()` then fails the header or checksum test
  and returns `corrupted_record`. Only a tail cut off by the end of the file is a clean stop.
- `wal_zero_tail`: `docs/wal-format.md:11` says that the bytes after the last complete record are
  zero. When the flush in `append` fails, the bytes stay and the offset does not move; a shorter
  record appended next leaves the rest of them behind it, and a replay of this log, whose
  acknowledged records are all intact, ends with `corrupted_record`.

In both, the log keeps its contract (`ImplementsDurableLog`): the acknowledged records a flush has
covered are replayed in order, and a killed writer loses none. The contract
also says what a failed flush means for a publisher: `try_publish` returns an error and
skips the queue, but the record may be complete in the file, so a replay may return one record more
than was acknowledged. Records of different sizes with arbitrary bytes add to this: after a failed
flush and a shorter retry, bytes of the old payload that look like a record are replayed as one.

A smaller difference is part of a property that holds. `docs/metrics.md:69` calls the percentiles
"nearest-rank", with `ceil((p / 100) * N) - 1` as the index. In doubles `(99.9 / 100.0) * 1000` lies
just above 999, so `p999` of 1000 (or 2000) samples is one rank higher than in exact arithmetic.
`RankIsNearest` states this exception, and that there is no other among the percentiles modelled.

## 7. Inventory of what is not modelled

| Part | Why |
|---|---|
| `LatencyHistogram::mean()` | a sum of doubles over all samples; only its tests call it |
| the report of `aether_bench` | timing and formatting; the loops and the exit paths are modelled |
| `PersistentBroker::reset_metrics`, `wal_*` accessors | the same `reset` as in `BatchBroker`, where it races with both threads; the accessors read |
| messages, `Status`, `Expected` | value types; the models use their values |
| thread and clock utilities, platform helpers | calls of the operating system, padding, constants |
| benchmarks and the other examples | users of the library without logic of their own |

The hazards of the whole system, each at its line and with the properties that cover it, are in
`PROJECT.json`. One has no property: `aether_bench` does not report a result file that it cannot
write (`apps/aether_bench.cpp:147`). Its exits are modelled; whether the report was written is
output.

## 8. Plan

1. `reset_metrics` in `PersistentBroker`, with a ledger as in `BatchBroker`.
   Its nine stores race with every step of both threads, so the run needs a smaller instance than
   today's.
2. `Wal` with several readers of one file and with a file created anew under an open reader.
