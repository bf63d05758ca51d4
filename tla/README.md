# objwal in TLA+

A write-ahead log on an object store: producers append records by uploading
segment objects and committing them to one manifest object with conditional
PUTs; replicas tail the manifest; a sink turns the log into files and streams
query those. This directory models those protocols, checks them with TLC on
small instances and proves the core with TLAPS.

## The system

| Part | State | Operations | Module |
|---|---|---|---|
| object store (`objectstore/`) | objects with ETags | conditional PUT (create, If-Match), its errors 412, 409, unknown; injected faults and flipped bytes (`sim.go`) | `ObjectStore`, `SimStore` |
| manifest (`wal/manifest.go`) | entries with sequence ranges, next sequence, epoch, snapshot | append, set epoch, truncate, range reads, `Locate` | `Manifest` |
| byte formats (`wal/manifest.go`, `wal/segment.go`, `wal/store.go`) | the parsed struct with its two regions; the object's bytes | parse (four versions), upgrade, append, truncate, serialize, load, commit; encode and decode a segment | `ManifestFormat`, `SegmentFormat`, `Wire`, `StoredManifest` |
| manifest commits (`wal/producer.go`: `claim`, `commitEntries`, `harvestCommitted`; `wal/store.go`) | the run's epoch, ordinal, attempt and budgets | claim the log, commit a group, harvest after a lost response, halt | `LogWriter` |
| producer (`Append`, `run`, `flush`, `Close`) | buffer, in-flight budget, tokens, the flush in progress | append, block, flush, upload, resolve, halt, close | `Producer` |
| replica (`wal/replica.go`, `wal/cursor.go`) | position, saved cursor, locals of `Poll` | poll, apply, save, restart; retention | `Replica` |
| sink (`querystream/sink.go`) | row buffer, files, catalog, watermark, cursor | buffer, flush (write, commit, save), drop, rescan | `Sink` |
| consumer program (`cmd/stream/consumer.go`) | its loop and in-memory watermark | poll, drain, emit, restart, reset | `Consumer` |
| streams (`querystream/duckdbq`) | watermark file, wakeup slot, result channel | list, load, query, CAS (compare, write, rename), send | `Stream` |

How they interact: a producer's flush calls `commitEntries` on the manifest it
shares with all other producer runs; replicas and sinks read the same
manifest; the sink is a replica whose `Apply` is `onRecord`; the consumer
program polls a sink and queries its files in one loop; streams see only the
sink's files and its wakeups.

What makes it hard: a PUT may be answered with an error although it landed, or
land after its caller gave up; a new producer takes over while the old one is
in mid-commit; parallel uploads fail one by one; a single token wakes blocked
callers; positions are saved later than the work they stand for; and every
process may die between any two of these steps. `PROJECT.json` lists each of
these hazards at its line, with the properties that would catch it.

Not modelled, and why:

- the row encoders, the SQL text and the decimal form of a watermark: pure
  conversions that no property here depends on;
- `Cumulative` queries (they keep no state) and the pool that recycles result
  buffers;
- two processes on one watermark file, which its contract rules out
  (`duckdbq/watermark.go:53-57`);
- metrics and logging: no effect on the log; backoff delays: only their
  cancellation matters, and that is modelled;
- `List` and `Delete`: the log does not call them; the building of S3 requests;
- the producer program of `cmd/stream` (a sequential loop of `Append` and
  `WaitRange`), flags, CSV reading, rendering, and the benchmark `cmd/s3bench`.

## Modules

- `Manifest`: the manifest value and its operations as pure operators, used by
  all modules below. `Locate` is a recursive function, the code's binary search.
- `ObjectStore`: one object and the outcome of a conditional write.
- `AppendLog`: what callers are promised, the model of the repository's
  linearizability test: an exactly-once, totally ordered log; an error says
  nothing about whether the group landed or will land.
- `LogWriter`: any number of producer runs over one manifest. A PUT is three
  steps (call, arrival, return), so that its answer can be lost before or after
  it takes effect; a request its caller has given up on stays in `late` and may
  arrive at any later time. Loads, the epoch check, the harvest, each
  `m.Append` of the loop and each branch on the PUT's error are actions. `Crash`
  can happen anywhere. `acked` records what callers were told.
- `RetryingClient`: the same over an S3 client that resends a PUT inside one
  call (external: the SDK's default retryer); the run `retry_duplicates` is
  about it.
- `LogWriterInv`, `LogWriterLemmas`, `LogWriterTheorems`: the inductive
  invariant of `LogWriter` and the proofs.
- `Wire`: objects as sequences of cells, one number per field, with a digest
  and `flipByte`. Parsing works by offsets from both ends, as on bytes.
- `ManifestFormat`: the `Manifest` struct with its parsed region `base` and its
  side buffer `appended`, `Bytes`, and `ParseManifest` of footers v1 to v4.
  `Value` maps a struct to the value of `Manifest`.
- `SegmentFormat`: `encodeSegment` and `decodeSegment`; zstd is external.
- `SimStore`: what may come of a `Get` or a `PutOpts` under injected faults.
- `StoredManifest`: users load, change and commit the manifest object through
  these formats, and carry beside it the value it should stand for. It is what
  lets the other modules treat the manifest as a value.
- `Producer`: one producer between its callers and the log. Every critical
  section of `p.mu`, every channel operation and every upload is a step. The
  record `f` holds the locals of the flush in progress; the run loop's flushes
  and Close's last one never overlap, since Close waits for the loop.
  `commitEntries` is one step with the outcomes `LogWriter` gives it: success,
  or an error with the group in the log or not. A record is one byte, so bytes
  and records of a call coincide.
- `Replica`: a replica against a growing log. `poll` holds Poll's locals; each
  call it makes is a step and may fail. Retention (external: the repository
  offers `TruncateThrough` and leaves the driver to its users) truncates up to
  the saved cursor, "the retention low-watermark" of `querystream/types.go:75`.
- `Sink`: extends `Replica`; `onRecord` and `flushOne` take the place of
  `Apply`. A flush is three steps: rename the file, update the in-memory state,
  save the cursor. `dropped` records the rows thrown away with a batch and not
  delivered since.
- `Consumer`: extends `Sink` with the loop of `runConsumer`: poll and emit on
  every tick, or, as a one-shot, poll until a poll applies nothing or fails and
  emit once. A reset removes the files and then the cursor, in two steps, and
  the process may die in between.
- `Stream`: streams of one process that share a watermark file, each started at
  any time and cancelled or failing at any step; a crash ends the process, and
  a restart is other runners starting. A trigger is split wherever another
  stream or the sink can come in between; `SaveCAS` is three steps under the
  store's mutex. Finalized files are a growing prefix of the sequences: the
  holes a dropped batch leaves are `Sink`'s subject.

- `StreamTheorems`, `ReplicaLemmas`, `SinkLemmas`, `ConsumerLemmas`,
  `ReaderTheorems`: the inductive invariants and proofs of the readers.

`MC*` modules add symmetry sets and restricted next-state relations for single
runs. Operators commented as mutants are plausible bugs of the definition that
follows them; no specification uses them. They serve to test the properties.

## Runs

| Run | Shows |
|---|---|
| `log_writer` | dense sequences, exactly-once, durable acks, one owner per epoch, fencing, order, atomic groups, no manifest content ever returns; implements `AppendLog`; the inductive invariant of the proofs |
| `log_writer_live` | claims and commits return |
| `stored_manifest` | the byte format is invisible: whatever was parsed, upgraded, spliced, damaged or half-answered, the manifest reads as the value last committed or not at all; its counts are right; reads, `Locate` and truncation are exact; segments read back |
| `producer` | budgets exact and within their limits, log in admission order, true sequences, nothing succeeds after a failure, one resolution each, Close drains |
| `producer_live` | Append, Durability and Close complete, after a halt too; a swallowed token strands nobody |
| `replica` | in order, nothing skipped, saved records not reapplied, with retention behind the cursor; catches up |
| `consumer` | files are their ranges, catalog true, losses only by a dropped batch or a reset. But for rows lost that way, a one-shot without errors shows everything, no row appears behind the query's watermark, and every record reaches a file |
| `stream` | rows once and accounted for; no wakeup is lost; a wakeup leads to the rows being returned |

Four runs end in a counterexample to something the repository states; the
findings in `PROJECT.json` quote the lines:

- `retry_duplicates`: a client that retries by itself turns a landed PUT into
  a 412, and `commitEntries` appends the group again.
- `sink_loses`: a failed poll drops buffered rows of segments the replica is
  already past, and the cursor moves past them.
- `sink_goes_back`: a redelivery moves `VisibleHigh` below an existing file.
- `sink_legacy`: two batches of one legacy segment get the same file name.

Three comments differ from the code they describe, as can be seen without a
run. `wal/replica.go:181` says the position is always persisted at the end of a
poll that advanced; a poll that advanced and then failed returns before that
(`GetFails`, `ApplyFails`). `duckdbq/stream.go:44-45` says the watermark
advances after each emit; it advances before (`SaveCAS`, `Send`).
`wal/producer.go:78` gives the default of `MaxClaimAttempts` as 8; line 124
sets 16.

### Bounds

`log_writer`: two runs are enough for a fenced and a fencing producer; two
segments in one group or in two make a partial landing, and a late PUT of an
earlier group, conceivable; budgets of two let each counter be spent once and
exhausted once. Longer runs of groups are left to the proofs, which have no
bound. `log_writer_live` has one segment per run. `producer`: budgets of three
bytes and two calls against sizes 0, 1, 2 and 4 give an empty call, calls that
fit alone or together, and one that exceeds the whole budget; segments of two
bytes and groups of one make a flush with several groups. `producer_live`
joins two instances: one where uploads and commits fail, and one with four
calls where a token can be swallowed. `replica`: four segments of one to three
records, the first possibly a legacy one, a start inside the first, a save
every two segments and a pause after three records. `consumer`: three segments
of one or two records, buckets of three, batches of two and a pause after two
records, so files are cut by each of these and a drain takes several polls.
`stream`: two runners, at once or one after the other's end, and three rows in
files of one or two. `stored_manifest`: two users, so that one commits on a
version the other has replaced, one of them retiring; no object, or one of two
entries in each older format; two appends, one claim and three writes, so that
an object is parsed, changed and parsed again twice. Flips in an object of an
older format are left out: those formats carry no digest and promise nothing.
The bounds on unbounded growth are constants of the modules (`MaxSegments`,
`MaxEntries`, `MaxAppends`, `MaxEpoch`, `MaxWrites`, `MaxSeq`). A system that
has used up its bound, or whose streams have all ended, may stop, which is why
the `LogWriter` runs, `stored_manifest` and `stream` do not check for deadlock.
The others do.

### Fairness

- `LogWriter`: object-store calls return (every call takes a context and the
  SDK and the store time out), and a run between two calls goes on. Abandoned
  requests need never arrive.
- `Producer`: goroutines run and uploads and commits return; the ticker ticks;
  Go's `select` chooses randomly among ready cases, so a branch that is ready
  again and again is taken in the end (`RunStops`). Nobody has to call Close.
- `Replica`: polls are repeated, by `Run` or by a caller that retries, as
  `cmd/stream` does, and the calls of a poll return; from some time on nothing
  fails and the process stays up.
- `Consumer`: calls return and the ticker ticks; from some time on nothing
  fails and one process follows the log.
- `Stream`: a stream that was started runs and the consumer receives. Nobody
  has to start one. At its start the wakeup slot may be empty or hold the wakeup
  of an earlier flush; with an empty slot it reads what is already there only
  after the next flush. `NoLostWakeup` therefore speaks of rows finalized since
  the start, and `RowsAreReturned` begins at a wakeup and ends with the first
  stream that closes.

## Proofs

`LogWriterTheorems` proves, for every set of runs, every budget and every
segment size, that `LogWriter` satisfies its type invariant, all its safety
invariants and the action property `WritesOnlyAdvance`. The assumptions are
that budgets are positive and that a segment holds at least one record
(`BudgetAssumption`, `CountAssumption`).

None of the properties is inductive. Exactly-once needs to know that every
manifest value which can still reach the store under the current ETag (of an
attempt in progress or an abandoned request) extends the stored one by entries
that are not in it (`Outstanding`, `LateInv`); that the group a run is working
on is either nowhere in the log or there in one piece, at the very end while
the run owns the log, and then the run knows it must look (`Landing`); that a
landed attempt is part of the log from then on (`Answered`); that all earlier
groups were committed (`Previous`); and that epochs are held by one run from
the moment a claim lands (`EpochInv`). Together with soundness of every
manifest value (`Sound`) these make `IInv`, which `log_writer`
checks on its instance.

`LogWriterLemmas` has the facts about the operators (what appending and
setting the epoch do to a sound manifest, what a PUT does to the object), type
correctness, the frame lemmas (what a step that touches one run only leaves
alone), and the case that matters, a PUT that lands, in time or late
(`LandsFacts` to `ArriveLateStep`). `LogWriterTheorems` shows, per kind of
step, that the run which takes it keeps its part of the invariant, and then
that the step does.

It also proves `LogRefines`, that `LogWriter` implements `AppendLog`
(`ImplementsAppendLog`). To the abstract log a step is of one of four kinds: it
leaves every call as it is (and may land a group), begins a call, ends one with
success or ends one without (`StepKind`). `IInv` gives that what lands is one
whole group of an open or abandoned call (`LandMaps`) and that what is
acknowledged is in the log (`ReturnOkMaps`). One invariant is added: segments
of an open call are not acknowledged yet (`AckedBefore`).

`StreamTheorems` proves `RowsReturnedOnce`, `WatermarkIsAccountedFor` and
`NoLostWakeup` for every set of runners, channel capacity and sequence of
files, assuming positive capacity and files that are not empty
(`StreamAssumption`). The inductive invariant `StreamInv` says what the locals
of a trigger are at each point and that only one runner saves at a time, with
the watermark it loaded (`Trigger`); that results lie below the watermark
(`Apart`); that between its wakeup and its next wait a runner has listed what
is visible, unless another wakeup is pending (`Seen`); and where each row below
the watermark is (`Accounted`).

`ReaderTheorems` has what is proved of the readers, for every log, every
`StartAt`, save interval, pause, batch and bucket size, with or without a
cursor.

- Replica: `AppliesInOrder`, `PositionsAreApplied`, `SavedIsNotReapplied`.
  The invariant (`ReplicaLemmas`) says that the manifest is the log without the
  entries retention cut off, and ranges follow one another (`LogInv`); that
  retention has cut off only what the saved cursor is past, and a replica that
  restored it is not behind it (`PositionInv`); that the entries a poll listed
  are still a run of the log, whatever was committed or truncated since, and
  the one in hand is the first to end past `next` (`PollInv`); and that there
  is no gap behind `next`, the cursor, any applied record or the record in hand
  (`AppliedInv`).
- Sink: `FilesHoldTheirRange`, `OnlyDropsLose`, `OverwritesIdentically`. The
  invariant `SInv` (`SinkLemmas`) adds where a flush stands relative to the
  poll that called it (`FlushInv`); that the buffer holds consecutive records
  of one bucket up to the next one the sink is fed (`BufInv`); that files and
  dropped rows cover everything behind a cursor, behind the end of any file and
  among what retention cut off (`CoverInv`); that a file's rows are those of its
  name (`FileInv`); and where the positions may be (`PlaceInv`). While no reset
  is half done, what the saved cursor is past has been read by this process
  (`OrderInv`).
- Consumer: the sink's properties again, now with resets, and `CatalogIsTrue`,
  `NothingArrivesLate` and `OneShotIsComplete`. The invariant `CInv`
  (`ConsumerLemmas`) adds that what is below the query's watermark is stored
  (`LoopInv`), and a one-shot's debt: a poll that applies nothing found all of
  it stored or buffered, the flush after it stores it, the query shows it
  (`OwedInv`).

The theorems on the sink and the consumer assume `LegacyRecords \subseteq {1}`:
in a legacy entry without a count all records have the entry's sequence, so if
it holds several a file's name does not tell which of them it holds. The run
`sink_legacy` shows that the assumption cannot be dropped. `OneShotShowsAll`
also assumes `StartAt = 0`; `runConsumer` never sets it.

These proofs need to know what loops over sequences compute (`EntriesContaining`
and `TruncateThrough` keep a suffix of a sorted list, a flushed run is the whole
buffer). Induction enters as a fact about sets, that a set which has 0 and with
n also n + 1 has every natural number (`NatFacts`): the lemmas assume it, and
`NatFactsHold` derives it from the library's theorem on well-founded orders.

Only model-checked: all liveness (out of the prover's reach), and everything
about `RetryingClient`, `StoredManifest` and `Producer`. `StoredManifest` rests
on codecs that parse cell by cell and on `Locate`'s binary search.

## Plan

- Compose retention with writers under the real driver once the repository has
  one; until then retention is modelled by the positions it must respect.
- Two processes on one watermark, if the store gains the conditional-PUT
  variant its comment suggests.
