-------------------------------- MODULE Sink --------------------------------
(***************************************************************************)
(* The sink that materialises the log into files (querystream/sink.go):    *)
(* a Replica whose Applier is onRecord, and a cursor of its own that       *)
(* follows the files.  The replica has no CursorStore (HasCursor = FALSE); *)
(* `cursor` is the sink's.                                                 *)
(*                                                                         *)
(* onRecord buffers a row and calls flushOne at a bucket boundary and when *)
(* the batch is full; Poll calls it until the buffer is empty.  A flush is *)
(* three steps with a crash or an error possible between them: the file    *)
(* is written under a temporary name and renamed, the in-memory catalog    *)
(* and watermark advance, the cursor is saved.  Row bytes (MaxBytes) cap   *)
(* a batch as MaxRows does and are left out.                               *)
(***************************************************************************)
EXTENDS Replica

CONSTANTS BucketSize, MaxRows  \* querystream.Config

ASSUME SinkAssumption == BucketSize \in Nat \ {0} /\ MaxRows \in Nat \ {0} /\ ~HasCursor

VARIABLES
  buf,          \* s.buf: [seq, row]
  flush,        \* where flushOne is, and what follows it
  files,        \* finalized files: [bucket, first, last, rows]
  catalog,      \* s.catalog, as a set
  visibleHigh,  \* s.visibleHigh, or Nothing while ~s.haveData
  nextCursor,   \* s.nextCursor
  dropped       \* rows thrown away with a partial batch and not in a file since

sinkVars == <<buf, flush, files, catalog, visibleHigh, nextCursor, dropped>>
replicaVars == <<manifest, log, next, restored, applied>>
allVars == <<vars, sinkVars>>

Nothing == -1

NoFlush == [pc |-> "none", then |-> "none"]

SinkInit ==
  /\ Init
  /\ buf = <<>> /\ flush = NoFlush /\ files = {} /\ catalog = {}
  /\ visibleHigh = Nothing /\ nextCursor = StartAt /\ dropped = {}

bucketOf(seq) == seq \div BucketSize

Rows(items) == {items[k].row : k \in DOMAIN items}

-----------------------------------------------------------------------------
(* The replica's part of Poll, up to the next record.                      *)

Fetch ==
  /\ \/ LoadManifest \/ GetSegment \/ SegmentDone \/ Save
     \/ poll.pc = "idle" /\ flush = NoFlush /\ BeginPoll
  /\ UNCHANGED sinkVars

\* Mutant of DropBatch: the partial batch stays buffered.
KeepBatch == UNCHANGED <<buf, dropped>>

\* replica.Poll returned an error: drop the partial batch.
DropBatch ==
  /\ buf' = <<>>
  /\ dropped' = dropped \cup Rows(buf)

FetchFails ==
  /\ LoadFails \/ GetFails
  /\ DropBatch
  /\ UNCHANGED <<flush, files, catalog, visibleHigh, nextCursor>>

\* Mutant of PollEnds: what remains is left to the next poll.
PollEndsUnflushed ==
  /\ EndPoll
  /\ flush' = NoFlush
  /\ UNCHANGED <<buf, files, catalog, visibleHigh, nextCursor, dropped>>

\* replica.Poll returned: flush what remains.
PollEnds ==
  /\ EndPoll
  /\ flush' = [pc |-> "write", then |-> "poll"]
  /\ UNCHANGED <<buf, files, catalog, visibleHigh, nextCursor, dropped>>

-----------------------------------------------------------------------------
(* onRecord.                                                               *)

Seq0 == RecSeq(Current, poll.i)

AtBoundary == buf # <<>> /\ bucketOf(Seq0) # bucketOf(buf[1].seq)

\* decode fails: Apply, and so replica.Poll, returns the error.
DecodeFails ==
  /\ flush = NoFlush /\ ApplyFails
  /\ DropBatch
  /\ UNCHANGED <<flush, files, catalog, visibleHigh, nextCursor>>

FlushBoundary ==
  /\ flush = NoFlush /\ Applying /\ AtBoundary
  /\ flush' = [pc |-> "write", then |-> "buffer"]
  /\ UNCHANGED <<vars, buf, files, catalog, visibleHigh, nextCursor, dropped>>

\* The row is buffered; a full batch is flushed before onRecord returns.
Buffer ==
  /\ Applying
  /\ (flush = NoFlush /\ ~AtBoundary) \/ flush.pc = "buffer"
  /\ buf' = Append(buf, [seq |-> Seq0, row |-> ThisRecord])
  /\ IF Len(buf') >= MaxRows
     THEN /\ flush' = [pc |-> "write", then |-> "record"]
          /\ UNCHANGED vars
     ELSE /\ flush' = NoFlush
          /\ Delivered /\ UNCHANGED <<manifest, log, next, restored, cursor>>
  /\ UNCHANGED <<files, catalog, visibleHigh, nextCursor, dropped>>

-----------------------------------------------------------------------------
(* flushOne.                                                               *)

\* The leading rows of one bucket.
RunLength ==
  Max({n \in 1..Len(buf) : \A k \in 1..n : bucketOf(buf[k].seq) = bucketOf(buf[1].seq)})

Run == SubSeq(buf, 1, RunLength)

FileOf(run) == [bucket |-> bucketOf(run[1].seq), first |-> run[1].seq,
                last |-> run[Len(run)].seq, rows |-> Rows(run)]

SameName(f, g) == f.bucket = g.bucket /\ f.first = g.first /\ f.last = g.last

\* writeAtomic: the rename replaces a file of the same name.
Publish ==
  /\ flush.pc = "write" /\ buf # <<>>
  /\ files' = {f \in files : ~SameName(f, FileOf(Run))} \cup {FileOf(Run)}
  /\ dropped' = dropped \ Rows(Run)
  /\ flush' = [flush EXCEPT !.pc = "commit"]
  /\ UNCHANGED <<vars, buf, catalog, visibleHigh, nextCursor>>

\* Where the caller goes on when the flush is done.
FlushReturns(res) ==
  CASE flush.then = "poll" /\ res = "ok" -> flush' = [flush EXCEPT !.pc = "write"]
    [] flush.then = "buffer" /\ res = "ok" -> flush' = [flush EXCEPT !.pc = "buffer"]
    [] OTHER -> flush' = NoFlush

\* An error of flushOne fails Apply, and so drops the batch, or is returned
\* by Poll, which keeps what is still buffered.
FlushErrors ==
  /\ FlushReturns("error")
  /\ IF flush.then = "poll" THEN UNCHANGED <<buf, dropped, poll>>
                            ELSE DropBatch /\ PollReturns

WriteFails ==
  /\ flush.pc = "write" /\ buf # <<>>
  /\ FlushErrors
  /\ UNCHANGED <<replicaVars, cursor, files, catalog, visibleHigh, nextCursor>>

\* Nothing buffered any more: Poll returns.
FlushNothing ==
  /\ flush.pc = "write" /\ buf = <<>>
  /\ flush' = NoFlush
  /\ UNCHANGED <<vars, buf, files, catalog, visibleHigh, nextCursor, dropped>>

\* Advance buffer, catalog, watermark and cursor. (The wakeup of the query
\* loop is the subject of Stream.)
CommitFile ==
  /\ flush.pc = "commit"
  /\ buf' = SubSeq(buf, RunLength + 1, Len(buf))
  /\ catalog' = catalog \cup {FileOf(Run)}
  /\ visibleHigh' = FileOf(Run).last
  /\ nextCursor' = FileOf(Run).last + 1
  /\ flush' = [flush EXCEPT !.pc = "save"]
  /\ UNCHANGED <<vars, files, dropped>>

\* The cursor is saved, and onRecord returns if it was the last thing to do.
SaveSinkCursor ==
  /\ flush.pc = "save"
  /\ cursor' = nextCursor
  /\ FlushReturns("ok")
  /\ IF flush.then = "record" THEN Delivered ELSE UNCHANGED <<poll, applied>>
  /\ UNCHANGED <<manifest, log, next, restored, buf, files, catalog, visibleHigh,
                 nextCursor, dropped>>

SaveSinkCursorFails ==
  /\ flush.pc = "save"
  /\ FlushErrors
  /\ UNCHANGED <<replicaVars, cursor, files, catalog, visibleHigh, nextCursor>>

-----------------------------------------------------------------------------
(* NewSink in a new process: the cursor, and the files found in Dir.       *)

Start == LowWatermark

\* Mutant of scanExisting: a new process does not look at Dir.
scanNothing ==
  /\ catalog' = {}
  /\ visibleHigh' = Nothing

scanExisting ==
  /\ catalog' = files
  /\ visibleHigh' = Max({f.last : f \in files} \cup {Nothing})

SinkRestart ==
  /\ next' = Start /\ nextCursor' = Start
  /\ scanExisting
  /\ PollReturns
  /\ buf' = <<>> /\ flush' = NoFlush
  /\ UNCHANGED <<manifest, log, restored, cursor, applied, files, dropped>>

Writer == (\E count \in Counts : Commit(count)) /\ UNCHANGED sinkVars

SinkCalls ==
  \/ Fetch \/ PollEnds \/ FlushBoundary \/ Buffer \/ Publish \/ FlushNothing
  \/ CommitFile \/ SaveSinkCursor

Retention == Retain /\ UNCHANGED sinkVars

SinkErrors == FetchFails \/ DecodeFails \/ WriteFails \/ SaveSinkCursorFails

SinkNext == Writer \/ Retention \/ SinkCalls \/ SinkErrors \/ SinkRestart

SinkSpec == SinkInit /\ [][SinkNext]_allVars

-----------------------------------------------------------------------------
(* Correctness.                                                            *)

InFiles == UNION {f.rows : f \in files}

High == Max({f.last : f \in files} \cup {Nothing})

\* A file holds exactly the records its name says, and they all belong to
\* its bucket: what the pruning and the windows of the query layer rely on.
\* No retry, redelivery or restart leaves a file with a hole.
FilesHoldTheirRange ==
  \A f \in files :
    /\ f.rows = Below(f.last + 1) \ Below(f.first)
    /\ bucketOf(f.first) = f.bucket /\ bucketOf(f.last) = f.bucket

\* Rows are lost in one way only: with the batch that Poll drops. Whatever
\* the replica is past, and whatever either cursor is past, is in a file
\* (or still buffered, for the replica) unless it was dropped and has not
\* been written again.
OnlyDropsLose ==
  /\ Below(next) \subseteq InFiles \cup Rows(buf) \cup dropped
  /\ Below(nextCursor) \cup Below(cursor) \subseteq InFiles \cup dropped

\* The catalog lists exactly the files there are and the watermark is the
\* end of one of them (a file just renamed is taken up next), across retries
\* and restarts: a query up to VisibleHigh never waits for a file to appear.
CatalogIsTrue ==
  /\ flush.pc # "commit" => catalog = files
  /\ visibleHigh \in {f.last : f \in files} \cup {Nothing}

\* "The cursor only advances after the corresponding rows are durably in a
\* finalized file".
CursorFollowsFiles == Below(cursor) \subseteq InFiles

\* "VisibleHigh returns the highest record sequence durably present in a
\* finalized file" (between a rename and the update it lags by that file).
VisibleHighIsHighest == flush.pc # "commit" => visibleHigh = High

Overwrites == \A f \in files, g \in files' : SameName(f, g) => f = g

\* "range-named files mean a re-ingest of a covered range overwrites
\* identically (same names, same bytes)".
OverwritesIdentically == [][Overwrites]_files

=============================================================================
