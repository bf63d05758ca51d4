--------------------------- MODULE ConsumerLemmas ---------------------------
(***************************************************************************)
(* The consumer of cmd/stream/consumer.go over the sink: CInv adds to the  *)
(* sink's invariant where the loop is, its watermark and what a one-shot   *)
(* owes.                                                                   *)
(***************************************************************************)
EXTENDS Consumer, SinkLemmas

\* A leaf is tried with Zenon first.
USE ZenonT(4), SMTT(30)

-----------------------------------------------------------------------------
(* The inductive invariant.                                                *)

\* sink.Poll is not at work.
Resting == poll.pc = "idle" /\ flush = NoFlush

\* The consumer's loop, and its watermark: what is below wm is stored.
LoopInv ==
  /\ loop \in [follow : BOOLEAN, pc : {"poll", "emit", "done", "reset"}, n : Nat, failed : BOOLEAN]
  /\ wm \in Nat /\ wm <= manifest.nextSequence /\ Covered(wm, Stored)
  /\ loop.pc # "reset" => OrderInv
  /\ loop.pc = "reset" => buf = <<>>
  /\ loop.pc # "poll" => Resting
  /\ loop.pc = "done" => ~loop.follow

\* The running poll has listed the manifest and found nothing to apply so far.
ReadNothing ==
  /\ poll.pc \in {"segment", "save", "end"} /\ poll.count = 0
  /\ poll.entries # <<>> => poll.pc # "segment"

\* A one-shot's debt: a poll that applies nothing has found all of it stored or
\* buffered, the flush that follows stores it, the query shows it.
OwedInv ==
  /\ \A r \in owed : \E k \in 1..Len(log) : \E i \in 0..Size(k) - 1 : r = Rec(k, i)
  /\ poll.pc = "apply" /\ poll.count = 0 => poll.i < Current.Location.records
  /\ ~loop.follow =>
       /\ loop.pc # "done" => wm = 0
       /\ ReadNothing => owed \subseteq Stored \cup Rows(buf)
       /\ flush.then = "poll" /\ loop.n = 0 => owed \subseteq Stored \cup Rows(buf)
       /\ loop.pc = "emit" /\ ~loop.failed => owed \subseteq Stored
       /\ loop.pc = "done" /\ ~loop.failed => owed \subseteq shown \cup dropped

\* The inductive invariant of the consumer.
CInv == SInv /\ LoopInv /\ (StartAt = 0 => OwedInv)

-----------------------------------------------------------------------------
(* The steps of the consumer.                                              *)

\* -reset: the rows of the removed files count as dropped.
LEMMA RemoveFilesStep ==
  ASSUME SInv, NEW follow \in BOOLEAN, RemoveFiles(follow)
  PROVE  SInv' /\ Stored' = Stored /\ buf' = <<>> /\ poll'.pc = "idle" /\ flush' = NoFlush
<1> /\ TypeOK /\ LogInv /\ PollInv /\ Single /\ SinkTypeOK /\ FlushInv
    /\ BufInv /\ CoverInv /\ FileInv /\ PlaceInv /\ CatalogInv
  BY DEF SInv
<1>0. /\ next' = StartAt /\ nextCursor' = StartAt
      /\ files' = {} /\ catalog' = {} /\ visibleHigh' = Nothing /\ dropped' = dropped \cup InFiles
      /\ PollReturns /\ buf' = <<>> /\ flush' = NoFlush
      /\ UNCHANGED <<manifest, log, restored, cursor, applied>>
  BY DEF RemoveFiles
<1>1. cursor \in Nat \cup {NoCursor} /\ StartAt \in Nat /\ restored \in BOOLEAN
  BY ReplicaAssumption DEF TypeOK
<1>2. TypeOK' /\ LogInv' /\ PollInv' /\ poll'.pc = "idle"
  BY <1>0, <1>1, PollReturned
<1>3. Pos' = StartAt /\ Ahead' = StartAt /\ Truncated' = Truncated
  BY <1>0, <1>2 DEF Pos, Ahead, Taken, NoFlush, Truncated
<1>4. PlaceInv'
  BY <1>0, <1>1, <1>2 DEF PlaceInv, Reading
<1>5. Single'
  BY <1>0 DEF Single, Size
<1>6. FileInv'
  BY <1>0 DEF FileInv
<1>7. Stored' = Stored
  BY <1>0 DEF Stored, InFiles
<1>8. SinkTypeOK'
  <2>1. <<>> \in Seq(Item)
    OBVIOUS
  <2>2. InFiles \subseteq Row
    <3> SUFFICES ASSUME NEW f \in files PROVE f.rows \subseteq Row
      BY DEF InFiles
    <3> QED
      BY DEF SinkTypeOK, FileType
  <2> QED
    BY <1>0, <1>1, <2>1, <2>2 DEF SinkTypeOK
<1>9. FlushInv'
  BY <1>0 DEF FlushInv, NoFlush
<1>10. BufInv'
  BY <1>0 DEF BufInv
<1>11. CatalogInv'
  BY <1>0 DEF CatalogInv, NoFlush
<1>12. CoverInv'
  <2>1. Covered(StartAt, Stored) /\ Covered(StartAt, Stored \cup Rows(buf)')
    BY <1>1, CoveredLow
  <2>2. Covered(nextCursor', Stored') /\ Covered(Ahead', Stored' \cup Rows(buf)')
    BY <1>0, <1>3, <1>7, <2>1
  <2>3. Covered(cursor', Stored') /\ TruncatedIn(Truncated', Stored')
    BY <1>0, <1>3, <1>7 DEF CoverInv
  <2> QED
    BY <1>0, <2>2, <2>3, CoverStep
<1> QED
  BY <1>0, <1>2, <1>4, <1>5, <1>6, <1>7, <1>8, <1>9, <1>10, <1>11, <1>12, ZenonT(30) DEF SInv

\* -reset, after that: the cursor goes too.
LEMMA RemoveCursorStep ==
  ASSUME SInv, RemoveCursor
  PROVE  SInv' /\ OrderInv' /\ Stored' = Stored
<1> /\ TypeOK /\ LogInv /\ PollInv /\ Single /\ SinkTypeOK /\ FlushInv
    /\ BufInv /\ CoverInv /\ FileInv /\ PlaceInv /\ CatalogInv
  BY DEF SInv
<1>0. /\ cursor' = NoCursor /\ UNCHANGED <<manifest, log, next, restored, poll, applied>>
      /\ UNCHANGED <<buf, flush, files, catalog, visibleHigh, nextCursor, dropped>>
  BY DEF RemoveCursor, sinkVars
<1>1. TypeOK' /\ LogInv' /\ Truncated' = Truncated
  BY <1>0, TruncatedKept DEF TypeOK
<1>2. Pos' = Pos /\ Ahead' = Ahead /\ Current' = Current
  BY <1>0 DEF Pos, Ahead, Taken, Current
<1>3. PollInv' /\ PlaceInv'
  BY <1>0, <1>1, <1>2 DEF PollInv, PlaceInv, Reading, Slice
<1>4. Single' /\ FileInv'
  BY <1>0, FilesKept
<1>5. SinkTypeOK'
  BY <1>0 DEF SinkTypeOK
<1>6. FlushInv'
  BY <1>0, <1>2 DEF FlushInv, Applying
<1>7. BufInv'
  BY <1>0, <1>1, <1>2 DEF BufInv, At, Size
<1>8. CatalogInv'
  BY <1>0, FileKept DEF CatalogInv
<1>9. Stored' = Stored /\ Rows(buf)' = Rows(buf)
  BY <1>0 DEF Stored, InFiles, Rows
<1>10. CoverInv'
  <2>1. Covered(NoCursor, Stored)
    BY ReplicaAssumption, CoveredLow DEF NoCursor
  <2> QED
    BY <1>0, <1>1, <1>2, <1>9, <2>1, CoverStep DEF CoverInv
<1>11. OrderInv'
  <2>1. \A k \in 1..Len(log) : ~(End(log[k]) <= NoCursor)
    BY LogFacts, EntryTypes, SMTT(30) DEF NoCursor
  <2> QED
    BY <1>0, <1>1, <2>1 DEF OrderInv
<1> QED
  BY <1>1, <1>3, <1>4, <1>5, <1>6, <1>7, <1>8, <1>9, <1>10, <1>11, ZenonT(30) DEF SInv

\* A step of sink.Poll, seen from the loop around it.
LEMMA Proceeds ==
  ASSUME NatFacts, SInv, SinkCalls
  PROVE  \/ FlushNothing
         \/ PollEnds
         \/ /\ poll'.pc = "idle" => poll.pc = "idle" /\ flush' # NoFlush
            /\ flush'.then = "poll" => flush.then = "poll"
            /\ poll'.pc = "apply" /\ poll'.count = 0 =>
                 \/ poll' = poll
                 \/ poll'.i < Current'.Location.records
            /\ ReadNothing' =>
                 \/ LoadManifest
                 \/ ReadNothing
                 \/ poll.pc = "apply" /\ poll.count = 0 /\ poll.i = Current.Location.records
<1> /\ TypeOK /\ LogInv /\ PollInv /\ Single /\ SinkTypeOK /\ FlushInv
    /\ BufInv /\ CoverInv /\ FileInv /\ PlaceInv /\ CatalogInv
  BY DEF SInv
<1>0. poll \in PollType
  BY DEF TypeOK
<1>1. CASE LoadManifest /\ UNCHANGED sinkVars
  <2>1. poll'.pc = "segment" /\ flush' = flush
    BY <1>0, <1>1 DEF LoadManifest, PollType, sinkVars
  <2> QED
    BY <1>1, <2>1
<1>2. CASE GetSegment /\ UNCHANGED sinkVars
  <2>1. poll'.pc = "apply" /\ flush' = flush
    BY <1>0, <1>2 DEF GetSegment, PollType, sinkVars
  <2>2. /\ poll'.entries = poll.entries /\ poll.pc = "segment" /\ poll.entries # <<>>
        /\ poll'.i = (IF Current.Sequence <= next THEN next - Current.Sequence ELSE 0)
    BY <1>2, SegmentFetched DEF GetSegment
  <2>3. Reading /\ Current' = Current
    BY <2>2 DEF Reading, Current
  <2>4. PICK c \in 1..Len(log) : c = Current.Location.segment /\ Current = log[c] /\ Current \in Entry
    BY <2>3, CurrentIs
  <2>5. PICK q \in Nat, n \in Nat :
          q = Current.Sequence /\ n = Current.Location.records /\ n > 0 /\ End(Current) = q + n
    <3>1. Current.Sequence \in Nat /\ Current.Location.records \in Nat \ {0}
      BY <2>4, EntryTypes
    <3>2. RangeSize(Current) = Current.Location.records
      BY <2>4 DEF Single, Size
    <3> QED
      BY <3>1, <3>2 DEF End
  <2>6. next \in Nat /\ next < q + n
    BY <2>3, <2>5 DEF PollInv, TypeOK
  <2>7. poll'.i = (IF q <= next THEN next - q ELSE 0)
    BY <2>2, <2>5
  <2>8. poll'.i < n
    BY <2>5, <2>6, <2>7
  <2> QED
    BY <2>1, <2>3, <2>5, <2>8 DEF ReadNothing
<1>3. CASE SegmentDone /\ UNCHANGED sinkVars
  <2>1. /\ poll'.pc \in {"save", "end", "segment"} /\ flush' = flush /\ poll'.count = poll.count
        /\ poll.pc = "apply" /\ poll.i = Current.Location.records
    BY <1>0, <1>3 DEF SegmentDone, PollType, sinkVars, AfterSegment
  <2> QED
    BY <2>1 DEF ReadNothing
<1>4. CASE Save /\ UNCHANGED sinkVars
  <2>1. /\ poll'.pc \in {"end", "segment"} /\ flush' = flush /\ poll'.count = poll.count
        /\ poll.pc = "save" /\ poll'.entries = poll.entries
    BY <1>0, <1>4 DEF Save, PollType, sinkVars, AfterSegment
  <2> QED
    BY <2>1 DEF ReadNothing
<1>5. CASE BeginPoll /\ UNCHANGED sinkVars
  <2>1. poll'.pc = "load" /\ flush' = flush
    BY <1>0, <1>5 DEF BeginPoll, PollType, sinkVars
  <2> QED
    BY <2>1 DEF ReadNothing
<1>6. CASE FlushBoundary
  <2>1. flush' = [pc |-> "write", then |-> "buffer"] /\ poll' = poll
    BY <1>6 DEF FlushBoundary, vars
  <2> QED
    BY <2>1 DEF ReadNothing, NoFlush
<1>7. CASE Buffer
  <2>1. CASE Len(buf') >= MaxRows
    <3>1. flush' = [pc |-> "write", then |-> "record"] /\ poll' = poll
      BY <1>7, <2>1 DEF Buffer, vars
    <3> QED
      BY <3>1 DEF ReadNothing, NoFlush
  <2>2. CASE ~(Len(buf') >= MaxRows)
    <3>1. flush' = NoFlush /\ Delivered /\ poll.pc = "apply"
      BY <1>7, <2>2 DEF Buffer, Applying
    <3>2. poll'.pc = "apply" /\ poll'.count # 0
      BY <1>0, <3>1, SMTT(30) DEF Delivered, PollType
    <3> QED
      BY <3>1, <3>2 DEF ReadNothing, NoFlush
  <2> QED
    BY <2>1, <2>2
<1>8. CASE Publish \/ CommitFile
  <2>1. flush = [pc |-> flush.pc, then |-> flush.then]
    BY DEF FlushInv
  <2>2. flush'.pc \in {"commit", "save"} /\ flush'.then = flush.then /\ poll' = poll
    BY <1>8, <2>1 DEF Publish, CommitFile, vars
  <2> QED
    BY <2>2 DEF ReadNothing, NoFlush
<1>9. CASE SaveSinkCursor
  <2>1. /\ flush = [pc |-> flush.pc, then |-> flush.then]
        /\ flush.then = "record" => poll.pc = "apply"
        /\ flush.pc = "save" /\ flush.then \in {"poll", "record", "buffer"}
    BY <1>9 DEF FlushInv, Applying, NoFlush, SaveSinkCursor
  <2>2. CASE flush.then = "record"
    <3>1. flush' = NoFlush /\ Delivered /\ poll.pc = "apply"
      BY <1>9, <2>1, <2>2 DEF SaveSinkCursor, FlushReturns
    <3>2. poll'.pc = "apply" /\ poll'.count # 0
      BY <1>0, <3>1, SMTT(30) DEF Delivered, PollType
    <3> QED
      BY <3>1, <3>2 DEF ReadNothing, NoFlush
  <2>3. CASE flush.then # "record"
    <3>1. poll' = poll /\ flush'.pc \in {"write", "buffer"} /\ flush'.then = flush.then
      BY <1>9, <2>1, <2>3 DEF SaveSinkCursor, FlushReturns
    <3> QED
      BY <3>1 DEF ReadNothing, NoFlush
  <2> QED
    BY <2>2, <2>3
<1> QED
  BY <1>1, <1>2, <1>3, <1>4, <1>5, <1>6, <1>7, <1>8, <1>9 DEF SinkCalls, Fetch

\* With StartAt = 0, a load that finds nothing left to read leaves every record
\* ever committed stored or buffered.
LEMMA AllRead ==
  ASSUME NatFacts, SInv, StartAt = 0, LoadManifest, poll'.entries = <<>>
  PROVE  \A k \in 1..Len(log) : \A i \in 0..Size(k) - 1 : Rec(k, i) \in Stored \cup Rows(buf)
<1> /\ TypeOK /\ LogInv /\ PollInv /\ Single /\ SinkTypeOK /\ FlushInv
    /\ BufInv /\ CoverInv /\ FileInv /\ PlaceInv /\ CatalogInv
  BY DEF SInv
<1> SUFFICES ASSUME NEW k \in 1..Len(log), NEW i \in 0..Size(k) - 1
             PROVE  Rec(k, i) \in Stored \cup Rows(buf)
  OBVIOUS
<1>1. RecSeq(log[k], i) \in Nat /\ RecSeq(log[k], i) < End(log[k]) /\ End(log[k]) \in Nat
  BY RecordBounds
<1>2. StartAt <= RecSeq(log[k], i)
  BY <1>1
<1>3. CASE k <= Truncated
  BY <1>2, <1>3 DEF CoverInv, TruncatedIn
<1>4. CASE ~(k <= Truncated)
  <2>1. Truncated < k
    BY <1>4, LogFacts
  <2>2. \A l \in 1..Len(log) :
          Truncated < l /\ (poll'.entries # <<>> => l < Current'.Location.segment)
          => End(log[l]) <= next
    BY LoadSlice, Zenon
  <2>3. End(log[k]) <= next
    BY <2>1, <2>2
  <2>4. next \in Nat /\ Ahead \in Nat /\ next <= Ahead
    BY PosFacts
  <2>5. RecSeq(log[k], i) < Ahead
    BY <1>1, <2>3, <2>4
  <2> QED
    BY <1>2, <2>5 DEF CoverInv, Covered
<1> QED
  BY <1>3, <1>4

\* What a one-shot owes when it starts are records of the log.
LEMMA OwedIs ==
  ASSUME TypeOK, LogInv, NEW r \in InManifest
  PROVE  \E k \in 1..Len(log) : \E i \in 0..Size(k) - 1 : r = Rec(k, i)
<1>1. PICK e \in Live(manifest) : r \in Records(e)
  BY DEF InManifest
<1>2. manifest.entries \in Seq(Entry)
  BY LogFacts
<1>3. PICK j \in 1..Len(manifest.entries) : e = manifest.entries[j]
  BY <1>1, <1>2 DEF Live
<1>4. PICK k \in 1..Len(log) : e = log[k]
  BY <1>3, LogFacts
<1>5. e.Location.segment = k /\ e.Location.records = Size(k)
  BY <1>4 DEF LogInv, Size
<1>6. r \in [segment : {k}, i : 0..Size(k) - 1]
  BY <1>1, <1>5 DEF Records
<1>7. r.i \in 0..Size(k) - 1 /\ r = [segment |-> k, i |-> r.i]
  BY <1>6
<1> QED
  BY <1>7 DEF Rec

\* The invariant holds at the start.
LEMMA ConsumerInitInv ==
  ASSUME ConsumerInit, LegacyRecords \subseteq {1}
  PROVE  CInv
<1>1. PICK follow \in BOOLEAN :
        /\ loop = [follow |-> follow, pc |-> "poll", n |-> 0, failed |-> FALSE]
        /\ owed = IF follow THEN {} ELSE InManifest
  BY DEF ConsumerInit, Begin
<1>2. SInv /\ OrderInv /\ wm = 0 /\ flush = NoFlush /\ poll.pc = "idle"
  BY SinkInitInv DEF ConsumerInit, SinkInit, Init, Idle
<1>3. manifest.nextSequence \in Nat /\ StartAt \in Nat
  BY <1>2, PosFacts
<1>4. LoopInv
  <2>1. Covered(0, Stored)
    BY <1>2, <1>3, CoveredLow DEF SInv
  <2>2. loop \in [follow : BOOLEAN, pc : {"poll", "emit", "done", "reset"}, n : Nat, failed : BOOLEAN]
        /\ loop.pc = "poll"
    BY <1>1
  <2> QED
    BY <1>2, <1>3, <2>1, <2>2, SMTT(30) DEF LoopInv
<1>5. OwedInv
  <2>1. \A r \in owed : \E k \in 1..Len(log) : \E i \in 0..Size(k) - 1 : r = Rec(k, i)
    BY <1>1, <1>2, OwedIs DEF SInv
  <2>2. loop.pc = "poll" /\ flush.then = "none"
    BY <1>1, <1>2 DEF NoFlush
  <2> QED
    BY <1>2, <2>1, <2>2 DEF OwedInv, ReadNothing
<1> QED
  BY <1>2, <1>4, <1>5 DEF CInv

\* The state of runConsumer's loop.
LoopType ==
  [follow : BOOLEAN, pc : {"poll", "emit", "done", "reset"}, n : Nat, failed : BOOLEAN]

\* The watermark stays behind what is stored.
LEMMA WatermarkKept ==
  ASSUME CInv, UNCHANGED <<manifest, log, wm>>, Stored \subseteq Stored'
  PROVE  wm' \in Nat /\ wm' <= manifest'.nextSequence /\ Covered(wm, Stored)'
<1>1. wm \in Nat /\ wm <= manifest.nextSequence /\ Covered(wm, Stored)
  BY DEF CInv, LoopInv
<1> QED
  BY <1>1 DEF Covered, Size

\* A step of sink.Poll preserves the invariant.
LEMMA PollStepInv ==
  ASSUME NatFacts, CInv, PollStep
  PROVE  CInv'
<1>0. /\ SInv /\ LoopInv /\ loop.pc = "poll" /\ SinkCalls /\ OrderInv /\ UNCHANGED <<wm, owed, shown>>
      /\ loop \in LoopType
  BY DEF CInv, PollStep, LoopInv, LoopType
<1>1. SInv' /\ OrderInv'
  BY <1>0, CallsStep
<1>2. /\ UNCHANGED <<manifest, log>>
      /\ Stored \subseteq Stored' /\ Stored \cup Rows(buf) \subseteq Stored' \cup Rows(buf)'
  BY <1>0, StoredGrows
<1>3. wm' \in Nat /\ wm' <= manifest'.nextSequence /\ Covered(wm, Stored)'
  BY <1>0, <1>2, WatermarkKept
<1>4. poll \in PollType /\ poll' \in PollType
  BY <1>0, <1>1 DEF SInv, TypeOK
<1>5. poll'.count \in Nat /\ poll.count \in Nat
  BY <1>4 DEF PollType
<1>6. StartAt = 0 => \A r \in owed' : \E k \in 1..Len(log') : \E i \in 0..Size(k)' - 1 : r = Rec(k, i)
  BY <1>0, <1>2 DEF CInv, OwedInv, Size
<1>7. CASE FlushNothing
  <2>1. /\ flush.pc = "write" /\ buf = <<>> /\ flush' = NoFlush /\ poll' = poll /\ buf' = buf
    BY <1>7 DEF FlushNothing, vars
  <2>2. flush.then = "poll" /\ poll.pc = "idle"
    BY <1>0, <2>1 DEF SInv, FlushInv, NoFlush
  <2>3. loop' = AfterPoll(loop.n, FALSE)
    BY <2>1, <2>2 DEF PollStep, Returned
  <2>4. /\ loop' \in LoopType /\ loop'.follow = loop.follow /\ loop'.pc \in {"poll", "emit"}
        /\ loop'.pc = "emit" => loop.follow \/ loop.n = 0
    BY <1>0, <2>3 DEF AfterPoll, LoopType, Drained
  <2>5. LoopInv'
    BY <1>0, <1>1, <1>3, <2>1, <2>2, <2>4 DEF LoopInv, LoopType, Resting
  <2>6. ASSUME StartAt = 0 PROVE OwedInv'
    <3>1. OwedInv
      BY <2>6 DEF CInv
    <3>2. Rows(buf) = {}
      BY <2>1 DEF Rows
    <3>3. ~loop.follow /\ loop'.pc = "emit" => owed \subseteq Stored
      BY <2>2, <2>4, <3>1, <3>2 DEF OwedInv
    <3>4. ~loop.follow => wm = 0
      BY <1>0, <3>1 DEF OwedInv
    <3> QED
      BY <1>0, <1>2, <1>6, <2>1, <2>2, <2>4, <2>6, <3>3, <3>4, ZenonT(30) DEF OwedInv, ReadNothing, NoFlush
  <2> QED
    BY <1>1, <2>5, <2>6 DEF CInv
<1>8. CASE PollEnds
  <2>1. /\ AtEnd /\ poll' = Idle /\ flush' = [pc |-> "write", then |-> "poll"] /\ buf' = buf
    BY <1>8 DEF PollEnds, EndPoll, PollReturns
  <2>2. poll.pc # "idle" /\ poll'.pc = "idle" /\ flush' # NoFlush
    BY <2>1 DEF AtEnd, Idle, NoFlush
  <2>3. loop' = [loop EXCEPT !.n = poll.count]
    BY <2>2 DEF PollStep, Returned
  <2>4. /\ loop' \in LoopType /\ loop'.follow = loop.follow /\ loop'.pc = "poll"
        /\ loop'.n = poll.count
    BY <1>0, <1>5, <2>3 DEF LoopType
  <2>5. LoopInv'
    BY <1>1, <1>3, <2>4 DEF LoopInv, LoopType
  <2>6. ASSUME StartAt = 0 PROVE OwedInv'
    <3>1. OwedInv
      BY <2>6 DEF CInv
    <3>2. poll.count = 0 => ReadNothing
      BY <2>1 DEF AtEnd, ReadNothing
    <3>3. ~loop.follow /\ loop'.n = 0 => owed \subseteq Stored \cup Rows(buf)
      BY <2>4, <3>1, <3>2, ZenonT(30) DEF OwedInv
    <3>4. ~loop.follow => wm = 0
      BY <1>0, <3>1 DEF OwedInv
    <3> QED
      BY <1>0, <1>2, <1>6, <2>2, <2>4, <2>6, <3>3, <3>4, ZenonT(30) DEF OwedInv, ReadNothing
  <2> QED
    BY <1>1, <2>5, <2>6 DEF CInv
<1>9. CASE ~FlushNothing /\ ~PollEnds
  <2>1. /\ poll'.pc = "idle" => poll.pc = "idle" /\ flush' # NoFlush
        /\ flush'.then = "poll" => flush.then = "poll"
        /\ poll'.pc = "apply" /\ poll'.count = 0 =>
             poll' = poll \/ poll'.i < Current'.Location.records
        /\ ReadNothing' =>
             \/ LoadManifest
             \/ ReadNothing
             \/ poll.pc = "apply" /\ poll.count = 0 /\ poll.i = Current.Location.records
    BY <1>0, <1>9, Proceeds
  <2>2. loop' = loop
    BY <2>1 DEF PollStep, Returned
  <2>3. LoopInv'
    BY <1>0, <1>1, <1>3, <2>2 DEF LoopInv
  <2>4. ASSUME StartAt = 0 PROVE OwedInv'
    <3>1. OwedInv
      BY <2>4 DEF CInv
    <3>2. poll'.pc = "apply" /\ poll'.count = 0 => poll'.i < Current'.Location.records
      BY <2>1, <3>1, ZenonT(30) DEF OwedInv, Current
    <3>3. ~loop.follow => wm = 0
      BY <1>0, <3>1 DEF OwedInv
    <3>4. ASSUME ~loop.follow, ReadNothing' PROVE owed \subseteq Stored \cup Rows(buf)
      <4>1. CASE LoadManifest
        <5>1. poll'.pc = "segment"
          BY <1>4, <4>1 DEF LoadManifest, PollType
        <5>2. poll'.entries = <<>>
          BY <3>4, <5>1 DEF ReadNothing
        <5>3. \A k \in 1..Len(log) : \A i \in 0..Size(k) - 1 : Rec(k, i) \in Stored \cup Rows(buf)
          BY <1>0, <2>4, <4>1, <5>2, AllRead
        <5> QED
          BY <3>1, <5>3, SMTT(30) DEF OwedInv
      <4>2. CASE ReadNothing
        BY <3>1, <3>4, <4>2 DEF OwedInv
      <4>3. CASE poll.pc = "apply" /\ poll.count = 0 /\ poll.i = Current.Location.records
        <5>1. poll.i < Current.Location.records /\ poll.i \in Nat
          BY <1>4, <3>1, <4>3 DEF OwedInv, PollType
        <5>2. PICK j \in Nat : j = poll.i
          BY <5>1
        <5>3. j < j
          BY <4>3, <5>1, <5>2
        <5> QED
          BY <5>2, <5>3
      <4> QED
        BY <2>1, <3>4, <4>1, <4>2, <4>3, ZenonT(30)
    <3>5. ~loop.follow /\ flush'.then = "poll" /\ loop.n = 0 => owed \subseteq Stored \cup Rows(buf)
      BY <2>1, <3>1 DEF OwedInv
    <3> QED
      BY <1>0, <1>2, <1>6, <2>2, <2>4, <3>2, <3>3, <3>4, <3>5, ZenonT(30) DEF OwedInv
  <2> QED
    BY <1>1, <2>3, <2>4 DEF CInv
<1> QED
  BY <1>7, <1>8, <1>9

\* A failing poll preserves the invariant: a one-shot then owes nothing.
LEMMA PollErrorInv ==
  ASSUME CInv, PollError
  PROVE  CInv'
<1>0. /\ SInv /\ LoopInv /\ loop.pc = "poll" /\ SinkErrors /\ OrderInv /\ UNCHANGED <<wm, owed, shown>>
      /\ loop \in LoopType /\ loop' = AfterPoll(0, TRUE)
  BY DEF CInv, PollError, LoopInv, LoopType
<1>1. SInv' /\ OrderInv'
  BY <1>0, SinkErrorsStep
<1>2. UNCHANGED <<manifest, log>> /\ Stored \subseteq Stored'
  BY <1>0, StoredGrows
<1>3. wm' \in Nat /\ wm' <= manifest'.nextSequence /\ Covered(wm, Stored)'
  BY <1>0, <1>2, WatermarkKept
<1>4. StartAt = 0 => \A r \in owed' : \E k \in 1..Len(log') : \E i \in 0..Size(k)' - 1 : r = Rec(k, i)
  BY <1>0, <1>2 DEF CInv, OwedInv, Size
<1>5. /\ loop' \in LoopType /\ loop'.follow = loop.follow /\ loop'.pc = "emit"
      /\ loop'.failed = ~loop.follow
  BY <1>0 DEF AfterPoll, LoopType, Drained
<1>6. flush' = NoFlush /\ poll'.pc = "idle"
  <2>1. CASE FetchFails
    <3>1. poll.pc \in {"load", "segment"} /\ poll' = Idle /\ flush' = flush
      BY <2>1 DEF FetchFails, LoadFails, GetFails, PollReturns
    <3>2. flush = NoFlush
      BY <1>0, <3>1 DEF SInv, FlushInv, Applying
    <3> QED
      BY <3>1, <3>2 DEF Idle
  <2>2. CASE DecodeFails
    BY <2>2 DEF DecodeFails, ApplyFails, PollReturns, Idle
  <2>3. CASE WriteFails \/ SaveSinkCursorFails
    <3>1. FlushErrors /\ flush.pc # "none"
      BY <2>3 DEF WriteFails, SaveSinkCursorFails
    <3>2. flush' = NoFlush
      BY <3>1 DEF FlushErrors, FlushReturns
    <3>3. flush.then = "poll" => poll.pc = "idle"
      BY <1>0, <3>1 DEF SInv, FlushInv, NoFlush
    <3>4. IF flush.then = "poll" THEN poll' = poll ELSE poll' = Idle
      BY <3>1 DEF FlushErrors, PollReturns
    <3> QED
      BY <3>2, <3>3, <3>4 DEF Idle
  <2> QED
    BY <1>0, <2>1, <2>2, <2>3 DEF SinkErrors
<1>7. LoopInv'
  BY <1>1, <1>3, <1>5, <1>6, ZenonT(30) DEF LoopInv, LoopType, Resting
<1>8. ASSUME StartAt = 0 PROVE OwedInv'
  <2>1. ~loop.follow => wm = 0
    BY <1>0, <1>8 DEF CInv, OwedInv
  <2> QED
    BY <1>0, <1>4, <1>5, <1>6, <1>8, <2>1, ZenonT(30) DEF OwedInv, ReadNothing, NoFlush
<1> QED
  BY <1>1, <1>7, <1>8 DEF CInv

\* A query preserves the invariant: the watermark it leaves is the end of a file.
LEMMA EmitInv ==
  ASSUME NatFacts, CInv, Emit \/ EmitNothing
  PROVE  CInv'
<1>0. /\ SInv /\ LoopInv /\ loop.pc = "emit" /\ OrderInv /\ loop \in LoopType /\ Resting
      /\ UNCHANGED allVars /\ owed' = owed
  BY DEF CInv, Emit, EmitNothing, LoopInv, LoopType
<1>1. /\ SInv' /\ OrderInv' /\ Stored' = Stored /\ InFiles' = InFiles
      /\ UNCHANGED <<manifest, log, poll, flush, buf, files, dropped>>
  BY <1>0, SinkKept
<1>2. PICK failed \in BOOLEAN : AfterEmit(failed) /\ failed = (~Emit /\ files # {})
  BY DEF Emit, EmitNothing
<1>3. /\ loop' \in LoopType /\ loop'.follow = loop.follow
      /\ loop'.pc = (IF loop.follow THEN "poll" ELSE "done")
      /\ ~loop.follow /\ ~loop'.failed => ~loop.failed /\ ~failed
  BY <1>0, <1>2 DEF AfterEmit, LoopType
<1>4. wm' \in Nat /\ wm' <= manifest'.nextSequence /\ Covered(wm, Stored)'
  <2>1. CASE wm' = wm
    BY <1>1, <2>1, WatermarkKept
  <2>2. CASE wm' # wm
    <3>1. wm' = High + 1
      BY <2>2 DEF Emit, EmitNothing, NextToRead
    <3>2. manifest.nextSequence \in Nat /\ StartAt \in Nat
      BY <1>0, PosFacts
    <3>3. CASE High = Nothing
      <4>1. wm' = 0
        BY <3>1, <3>3 DEF Nothing
      <4>2. Covered(0, Stored)
        BY <1>0, <3>2, CoveredLow DEF SInv
      <4> QED
        BY <1>1, <3>2, <4>1, <4>2 DEF Covered, Size
    <3>4. CASE High # Nothing
      <4>1. PICK f \in files : High = f.last
        BY <1>0, <3>4, HighIs
      <4>2. f.last \in Nat /\ f.last < manifest.nextSequence /\ Covered(f.last + 1, Stored)
        BY <1>0 DEF SInv, SinkTypeOK, FileType, FileInv, CoverInv
      <4>3. PICK b \in Nat : b = f.last
        BY <4>2
      <4>4. wm' = b + 1 /\ b < manifest.nextSequence /\ Covered(b + 1, Stored)
        BY <3>1, <4>1, <4>2, <4>3
      <4> QED
        BY <1>1, <3>2, <4>4 DEF Covered, Size
    <3> QED
      BY <3>3, <3>4
  <2> QED
    BY <2>1, <2>2
<1>5. LoopInv'
  BY <1>0, <1>1, <1>3, <1>4 DEF LoopInv, LoopType, Resting
<1>6. ASSUME StartAt = 0 PROVE OwedInv'
  <2>1. OwedInv
    BY <1>6 DEF CInv
  <2>2. \A r \in owed' : \E k \in 1..Len(log') : \E i \in 0..Size(k)' - 1 : r = Rec(k, i)
    BY <1>0, <1>1, <2>1 DEF OwedInv, Size
  <2>3. ASSUME ~loop.follow, ~loop'.failed PROVE owed \subseteq shown' \cup dropped
    <3>1. owed \subseteq InFiles \cup dropped /\ wm = 0 /\ ~failed
      BY <1>0, <1>3, <2>1, <2>3 DEF OwedInv, Stored
    <3>2. CASE Emit
      <4>1. shown' = {row \in InFiles : row \notin Below(wm)}
        BY <2>3, <3>2 DEF Emit, Window
      <4>2. Below(0) = {}
        <5> SUFFICES ASSUME NEW r \in Below(0) PROVE FALSE
          OBVIOUS
        <5>1. PICK k \in 1..Len(log) : \E i \in 0..Size(k) - 1 : RecSeq(log[k], i) < 0
          BY <1>0, BelowIs DEF SInv
        <5> QED
          BY <1>0, <5>1, RecordBounds DEF SInv
      <4> QED
        BY <3>1, <4>1, <4>2
    <3>3. CASE ~Emit
      <4>1. files = {}
        BY <1>2, <3>1, <3>3
      <4> QED
        BY <3>1, <4>1 DEF InFiles
    <3> QED
      BY <3>2, <3>3
  <2>4. poll.pc = "idle" /\ flush.then = "none"
    BY <1>0 DEF Resting, NoFlush
  <2> QED
    BY <1>0, <1>1, <1>3, <2>2, <2>3, <2>4, ZenonT(30) DEF OwedInv, ReadNothing
<1> QED
  BY <1>1, <1>5, <1>6 DEF CInv

\* A new process, with or without -reset, establishes the invariant.
LEMMA NewProcessInv ==
  ASSUME NatFacts, CInv, NEW follow \in BOOLEAN, ConsumerRestart(follow) \/ RemoveFiles(follow)
  PROVE  CInv'
<1>0. SInv /\ LoopInv /\ UNCHANGED <<manifest, log>>
  BY DEF CInv, ConsumerRestart, SinkRestart, RemoveFiles
<1>1. /\ SInv' /\ poll'.pc = "idle" /\ flush' = NoFlush
      /\ \/ ConsumerRestart(follow) /\ OrderInv'
         \/ RemoveFiles(follow) /\ buf' = <<>>
  <2>1. CASE ConsumerRestart(follow)
    <3>1. SInv' /\ OrderInv'
      BY <1>0, <2>1, RestartStep DEF ConsumerRestart
    <3> QED
      BY <2>1, <3>1 DEF ConsumerRestart, SinkRestart, PollReturns, Idle
  <2>2. CASE RemoveFiles(follow)
    BY <1>0, <2>2, RemoveFilesStep
  <2> QED
    BY <2>1, <2>2
<1>2. PICK pc \in {"poll", "reset"} :
        /\ NewProcess(follow, pc)
        /\ pc = "poll" => OrderInv'
        /\ pc = "reset" => buf' = <<>>
  BY <1>1 DEF ConsumerRestart, RemoveFiles
<1>3. /\ loop' = [follow |-> follow, pc |-> pc, n |-> 0, failed |-> FALSE] /\ wm' = 0
      /\ owed' = IF follow THEN {} ELSE InManifest
  BY <1>2 DEF NewProcess, Begin
<1>4. loop' \in LoopType /\ loop'.pc = pc
  BY <1>3 DEF LoopType
<1>5. manifest.nextSequence \in Nat /\ StartAt \in Nat /\ TypeOK /\ LogInv
  BY <1>0, PosFacts DEF SInv
<1>6. Covered(wm, Stored)'
  <2>1. \A k \in 1..Len(log) : \A i \in 0..Size(k) - 1 : RecSeq(log[k], i) \in Nat
    BY <1>5, RecordBounds
  <2>2. \A k \in 1..Len(log) : \A i \in 0..Size(k) - 1 : ~(RecSeq(log[k], i) < 0)
    BY <2>1
  <2> QED
    BY <1>0, <1>3, <2>2 DEF Covered, Size
<1>7. LoopInv'
  BY <1>0, <1>1, <1>2, <1>3, <1>4, <1>5, <1>6, SMTT(30) DEF LoopInv, LoopType, Resting
<1>8. OwedInv'
  <2>1. \A r \in owed' : \E k \in 1..Len(log') : \E i \in 0..Size(k)' - 1 : r = Rec(k, i)
    BY <1>0, <1>3, <1>5, OwedIs DEF Size
  <2> QED
    BY <1>1, <1>2, <1>3, <1>4, <2>1 DEF OwedInv, ReadNothing, NoFlush
<1> QED
  BY <1>1, <1>7, <1>8 DEF CInv

\* The second step of -reset preserves the invariant.
LEMMA RemoveCursorInv ==
  ASSUME CInv, RemoveCursor
  PROVE  CInv'
<1>0. /\ SInv /\ LoopInv /\ loop.pc = "reset" /\ loop \in LoopType /\ Resting
      /\ UNCHANGED <<manifest, log, poll, flush, buf, wm, owed>>
      /\ loop' = [loop EXCEPT !.pc = "poll"]
  BY DEF CInv, RemoveCursor, LoopInv, LoopType, sinkVars
<1>1. SInv' /\ OrderInv' /\ Stored' = Stored
  BY <1>0, RemoveCursorStep
<1>2. wm' \in Nat /\ wm' <= manifest'.nextSequence /\ Covered(wm, Stored)'
  BY <1>0, <1>1, WatermarkKept
<1>3. loop' \in LoopType /\ loop'.pc = "poll" /\ loop'.follow = loop.follow
  BY <1>0 DEF LoopType
<1>4. LoopInv'
  BY <1>1, <1>2, <1>3 DEF LoopInv, LoopType
<1>5. ASSUME StartAt = 0 PROVE OwedInv'
  <2>1. OwedInv
    BY <1>5 DEF CInv
  <2>2. \A r \in owed' : \E k \in 1..Len(log') : \E i \in 0..Size(k)' - 1 : r = Rec(k, i)
    BY <1>0, <2>1 DEF OwedInv, Size
  <2>3. poll'.pc = "idle" /\ flush'.then = "none" /\ (~loop.follow => wm = 0)
    BY <1>0, <2>1 DEF Resting, NoFlush, OwedInv
  <2> QED
    BY <1>0, <1>3, <2>2, <2>3 DEF OwedInv, ReadNothing
<1> QED
  BY <1>1, <1>4, <1>5 DEF CInv

\* Commits and retention preserve the invariant.
LEMMA OthersInv ==
  ASSUME NatFacts, CInv, Others
  PROVE  CInv'
<1>0. SInv /\ LoopInv /\ UNCHANGED sinkVars /\ UNCHANGED consumerVars /\ UNCHANGED poll
  BY DEF CInv, Others, Writer, Retention, Commit, Retain
<1>1. /\ UNCHANGED <<buf, flush, files, catalog, visibleHigh, nextCursor, dropped>>
      /\ UNCHANGED <<loop, wm, owed, shown>>
      /\ Stored' = Stored /\ Rows(buf)' = Rows(buf)
  BY <1>0 DEF sinkVars, consumerVars, Stored, InFiles, Rows
<1>2. /\ SInv' /\ (OrderInv => OrderInv')
      /\ manifest.nextSequence \in Nat /\ manifest'.nextSequence \in Nat
      /\ manifest.nextSequence <= manifest'.nextSequence
      /\ Covered(wm, Stored)'
      /\ \A k \in 1..Len(log) : k \in 1..Len(log') /\ Size(k)' = Size(k)
      /\ Current' = Current
  <2>0. wm \in Nat /\ wm <= manifest.nextSequence /\ Covered(wm, Stored) /\ Current' = Current
    BY <1>0 DEF LoopInv, Current
  <2>1. CASE Writer
    <3>1. PICK count \in Counts : Commit(count)
      BY <2>1 DEF Writer
    <3>2. SInv' /\ (OrderInv => OrderInv')
      BY <1>0, <3>1, CommitStep
    <3>3. PICK S, n : S = Stored /\ n = wm
      OBVIOUS
    <3>4. Covered(n, S)'
      <4>1. n \in Int /\ n <= manifest.nextSequence /\ Covered(n, S)
        BY <2>0, <3>3
      <4>2. \A X : \A y \in Int :
              Covered(y, X) /\ (y <= manifest.nextSequence \/ y <= StartAt) => Covered(y, X)'
        BY <1>0, <3>1, CommitKeeps
      <4> QED
        BY <4>1, <4>2
    <3>5. Covered(wm, Stored)'
      BY <1>1, <3>3, <3>4
    <3>6. /\ \A k \in 1..Len(log) : k \in 1..Len(log') /\ Size(k)' = Size(k)
          /\ manifest.nextSequence \in Nat /\ manifest'.nextSequence \in Nat
          /\ manifest.nextSequence <= manifest'.nextSequence
      BY <1>0, <3>1, Grown
    <3> QED
      BY <2>0, <3>2, <3>5, <3>6
  <2>2. CASE Retention
    <3>1. Retain /\ log' = log
      BY <2>2 DEF Retention, Retain
    <3>2. OrderInv \/ (buf = <<>> /\ poll.pc = "idle")
      BY <1>0 DEF LoopInv, Resting
    <3>3. SInv' /\ (OrderInv => OrderInv')
      BY <1>0, <3>1, <3>2, RetainStep, ZenonT(30)
    <3>4. manifest'.nextSequence = manifest.nextSequence /\ manifest.nextSequence \in Nat
      BY <1>0, <3>1, <3>3, PosFacts, ZenonT(30) DEF SInv, LogInv
    <3> QED
      BY <1>1, <2>0, <3>1, <3>3, <3>4 DEF Covered, Size
  <2> QED
    BY <2>1, <2>2 DEF Others
<1>3. LoopInv'
  BY <1>0, <1>1, <1>2, SMTT(30) DEF LoopInv, Resting
<1>4. ASSUME StartAt = 0 PROVE OwedInv'
  <2>1. OwedInv
    BY <1>4 DEF CInv
  <2>2. \A r \in owed' : \E k \in 1..Len(log') : \E i \in 0..Size(k)' - 1 : r = Rec(k, i)
    <3> SUFFICES ASSUME NEW r \in owed
                 PROVE  \E k \in 1..Len(log') : \E i \in 0..Size(k)' - 1 : r = Rec(k, i)
      BY <1>1
    <3>1. PICK k \in 1..Len(log) : \E i \in 0..Size(k) - 1 : r = Rec(k, i)
      BY <2>1 DEF OwedInv
    <3> QED
      BY <1>2, <3>1
  <2> QED
    BY <1>0, <1>1, <1>2, <2>1, <2>2 DEF OwedInv, ReadNothing
<1> QED
  BY <1>2, <1>3, <1>4 DEF CInv

\* Every step preserves the invariant.
LEMMA ConsumerNextInv ==
  ASSUME NatFacts, CInv, [ConsumerNext]_consumerAllVars
  PROVE  CInv'
<1>1. CASE ConsumerNext
  BY <1>1, OthersInv, PollStepInv, PollErrorInv, EmitInv, RemoveCursorInv, NewProcessInv, ZenonT(30)
     DEF ConsumerNext
<1>2. CASE UNCHANGED consumerAllVars
  <2>1. UNCHANGED allVars /\ UNCHANGED <<loop, wm, owed, shown>> /\ SInv /\ LoopInv
    BY <1>2 DEF consumerAllVars, consumerVars, CInv
  <2>2. /\ SInv' /\ (OrderInv => OrderInv') /\ Stored' = Stored
        /\ UNCHANGED <<manifest, log, poll, flush, buf, files, dropped>>
    BY <2>1, SinkKept
  <2>3. Covered(wm, Stored)' <=> Covered(wm, Stored)
    BY <2>1, <2>2 DEF Covered, Size
  <2>4. LoopInv'
    BY <2>1, <2>2, <2>3 DEF LoopInv, Resting
  <2>5. OwedInv => OwedInv'
    BY <2>1, <2>2, SMTT(30) DEF OwedInv, ReadNothing, Size, Rows, Current
  <2> QED
    BY <2>2, <2>4, <2>5 DEF CInv
<1> QED
  BY <1>1, <1>2

-----------------------------------------------------------------------------
(* What it implies.                                                        *)

\* What the invariant says of the watermark, in the terms of the property.
LEMMA NotLate ==
  CInv => Late
<1> SUFFICES ASSUME CInv PROVE Late
  OBVIOUS
<1>1. SInv /\ wm \in Int /\ Covered(wm, Stored)
  BY SMTT(30) DEF CInv, LoopInv
<1>2. Below(wm) \subseteq Stored
  BY <1>1, CoveredBelow
<1> QED
  BY <1>2 DEF Late, Stored

\* What the invariant says of a one-shot, in the terms of the property.
LEMMA ShowsAll ==
  ASSUME StartAt = 0
  PROVE  CInv => OneShotIsComplete
<1> SUFFICES ASSUME CInv, loop.pc = "done", ~loop.failed
             PROVE  owed \subseteq shown \cup dropped
  BY DEF OneShotIsComplete
<1>1. ~loop.follow
  BY DEF CInv, LoopInv
<1> QED
  BY <1>1 DEF CInv, OwedInv

=============================================================================
