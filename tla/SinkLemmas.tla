----------------------------- MODULE SinkLemmas -----------------------------
(***************************************************************************)
(* The sink of querystream/sink.go: the inductive invariant SInv of its    *)
(* specification (with OrderInv), the lemmas that show it inductive, and   *)
(* what it implies.                                                        *)
(***************************************************************************)
EXTENDS Sink, ReplicaLemmas

\* A leaf is tried with Zenon first.
USE ZenonT(4), SMTT(30)

-----------------------------------------------------------------------------
(* The inductive invariant.                                                *)

\* Row r is the record of sequence s.
At(r, s) ==
  \E k \in 1..Len(log) : \E i \in 0..Size(k) - 1 : r = Rec(k, i) /\ s = RecSeq(log[k], i)

\* Every entry holds one record per sequence number of its range: no legacy
\* entry of several records.
Single == \A k \in 1..Len(log) : Size(k) = RangeSize(log[k])

\* The sequence the sink is fed next.
Pos == IF poll.pc = "apply" THEN Current.Sequence + poll.i ELSE next

\* The record in hand is already in the buffer: its batch is being flushed.
Taken == flush.then = "record"

\* The sequence the next row of the buffer will have.
Ahead == IF Taken THEN Pos + 1 ELSE Pos

\* A row, named by the record it comes from.
Row == [segment : Nat, i : Nat]

\* An element of s.buf.
Item == [seq : Nat, row : Row]

\* A finalized file: its name and its rows.
FileType == [bucket : Nat, first : Nat, last : Nat, rows : SUBSET Row]

\* The type of the sink's state.
SinkTypeOK ==
  /\ buf \in Seq(Item)
  /\ files \subseteq FileType
  /\ nextCursor \in Nat /\ dropped \subseteq Row

\* Where a flush may be, relative to the poll that called it, to the buffer and
\* to the cursor about to be saved.
FlushInv ==
  /\ \/ flush = NoFlush
     \/ flush.then = "poll" /\ flush.pc \in {"write", "commit", "save"} /\ poll.pc = "idle"
     \/ flush.then = "record" /\ flush.pc \in {"write", "commit", "save"} /\ Applying
     \/ flush.then = "buffer" /\ flush.pc \in {"write", "commit", "save", "buffer"} /\ Applying
  /\ flush = [pc |-> flush.pc, then |-> flush.then]
  /\ flush.pc \in {"save", "buffer"} => buf = <<>>
  /\ flush.pc = "commit" \/ (flush.pc = "write" /\ flush.then # "poll") => buf # <<>>
  /\ flush.pc = "save" => nextCursor = Ahead /\ StartAt < Ahead

\* The buffer holds consecutive records of one bucket, the last of them just
\* before Ahead; and while it holds any, retention has not passed Pos.
BufInv ==
  /\ \A j \in 1..Len(buf) :
       /\ At(buf[j].row, buf[j].seq) /\ StartAt <= buf[j].seq
       /\ buf[j].seq + (Len(buf) - j) + 1 = Ahead
       /\ bucketOf(buf[j].seq) = bucketOf(buf[1].seq)
  /\ buf # <<>> => \A k \in 1..Truncated : End(log[k]) <= Pos

\* Rows in a file, or thrown away with a batch and not written since.
Stored == InFiles \cup dropped

\* S holds every record from StartAt up to n.
Covered(n, S) ==
  \A k \in 1..Len(log) : \A i \in 0..Size(k) - 1 :
    StartAt <= RecSeq(log[k], i) /\ RecSeq(log[k], i) < n => Rec(k, i) \in S

\* S holds every record of the first t entries of the log.
TruncatedIn(t, S) ==
  \A k \in 1..Len(log) : \A i \in 0..Size(k) - 1 :
    StartAt <= RecSeq(log[k], i) /\ k <= t => Rec(k, i) \in S

\* Nothing is missing behind a cursor, behind the end of any file or among what
\* retention cut off; what the sink was fed is stored or buffered.
CoverInv ==
  /\ Covered(cursor, Stored) /\ Covered(nextCursor, Stored)
  /\ Covered(Ahead, Stored \cup Rows(buf))
  /\ TruncatedIn(Truncated, Stored)
  /\ \A f \in files : Covered(f.last + 1, Stored)

\* rows are the records with sequences a to b, no more and no fewer.
Exactly(rows, a, b) ==
  /\ \A r \in rows : \E s \in a..b : At(r, s)
  /\ \A k \in 1..Len(log) : \A i \in 0..Size(k) - 1 :
       a <= RecSeq(log[k], i) /\ RecSeq(log[k], i) <= b => Rec(k, i) \in rows

\* A file's rows are those its name says, all of one bucket.
FileInv ==
  \A f \in files :
    /\ StartAt <= f.first /\ f.first <= f.last /\ f.last < manifest.nextSequence
    /\ bucketOf(f.first) = f.bucket /\ bucketOf(f.last) = f.bucket
    /\ Exactly(f.rows, f.first, f.last)

\* Where the replica, the two cursors and the segment in hand may be. Retention
\* may cut off the segment in hand only when all its records have been fed.
PlaceInv ==
  /\ StartAt <= next /\ (next <= manifest.nextSequence \/ next = StartAt)
  /\ cursor # NoCursor => StartAt <= cursor /\ cursor <= manifest.nextSequence
  /\ StartAt <= nextCursor /\ (nextCursor <= manifest.nextSequence \/ nextCursor = StartAt)
  /\ Reading => \/ Truncated < Current.Location.segment
                \/ /\ Truncated = Current.Location.segment
                   /\ poll.pc = "apply" /\ poll.i = Current.Location.records

\* The catalog lists the files, but for one just renamed.
CatalogInv ==
  /\ flush.pc # "commit" => catalog = files
  /\ flush.pc = "commit" => files = catalog \cup {FileOf(Run)}
  /\ visibleHigh \in {f.last : f \in files} \cup {Nothing}

\* An entry still in the manifest that the saved cursor is past has been read
\* by this process. A reset that is half done breaks this: the cursor of the
\* old process is still on disk.
OrderInv ==
  \A k \in 1..Len(log) :
    Truncated < k /\ End(log[k]) <= cursor => End(log[k]) <= Pos

\* The inductive invariant of the sink.
SInv ==
  /\ TypeOK /\ LogInv /\ PollInv /\ Single
  /\ SinkTypeOK /\ FlushInv /\ BufInv /\ CoverInv /\ FileInv /\ PlaceInv /\ CatalogInv

-----------------------------------------------------------------------------
(* Rows, positions and what covers them.                                   *)

\* The rows of a buffer.
LEMMA RowsAre ==
  ASSUME NEW b \in Seq(Item)
  PROVE  Rows(b) = {b[j].row : j \in 1..Len(b)} /\ Rows(b) \subseteq Row
<1>1. DOMAIN b = 1..Len(b)
  OBVIOUS
<1>2. \A j \in 1..Len(b) : b[j] \in Item
  OBVIOUS
<1>3. \A j \in 1..Len(b) : b[j].row \in Row
  BY <1>2 DEF Item
<1> QED
  BY <1>1, <1>3 DEF Rows

\* What covers more sequences, with fewer rows, covers fewer with more.
LEMMA CoveredMono ==
  ASSUME TypeOK, LogInv, NEW m \in Int, NEW n \in Int, n <= m, NEW S, NEW T, S \subseteq T,
         Covered(m, S)
  PROVE  Covered(n, T)
BY RecordBounds DEF Covered

\* Cover is kept when the log is and the rows grow.
LEMMA CoverStep ==
  ASSUME log' = log, Covered(cursor', Stored'), Covered(nextCursor', Stored'),
         Covered(Ahead', Stored' \cup Rows(buf)'), TruncatedIn(Truncated', Stored'),
         \A f \in files' : Covered(f.last + 1, Stored')
  PROVE  CoverInv'
BY DEF CoverInv, Covered, TruncatedIn, Size

\* Nothing is wanted before StartAt.
LEMMA CoveredLow ==
  ASSUME TypeOK, LogInv, NEW n \in Int, n <= StartAt, NEW S
  PROVE  Covered(n, S)
BY RecordBounds, ReplicaAssumption DEF Covered

\* With one record per sequence the two orders of the records agree.
LEMMA SingleSeq ==
  ASSUME TypeOK, LogInv, Single, NEW k \in 1..Len(log), NEW i \in 0..Size(k) - 1
  PROVE  RecSeq(log[k], i) = log[k].Sequence + i /\ log[k].Sequence \in Nat
<1>1. log[k] \in Entry /\ Size(k) = RangeSize(log[k])
  BY SMTT(30) DEF TypeOK, Single
<1>2. log[k].Sequence \in Nat /\ log[k].Count \in Nat
  BY <1>1, EntryTypes
<1> QED
  BY <1>1, <1>2 DEF RecSeq, RangeSize

\* A sequence number names one record.
LEMMA AtUnique ==
  ASSUME TypeOK, LogInv, Single,
         NEW k \in 1..Len(log), NEW i \in 0..Size(k) - 1,
         NEW l \in 1..Len(log), NEW j \in 0..Size(l) - 1,
         RecSeq(log[k], i) = RecSeq(log[l], j)
  PROVE  k = l /\ i = j
<1>1. /\ RecSeq(log[k], i) \in Nat /\ log[k].Sequence <= RecSeq(log[k], i)
      /\ RecSeq(log[k], i) < End(log[k]) /\ End(log[k]) \in Nat
      /\ RecSeq(log[l], j) \in Nat /\ log[l].Sequence <= RecSeq(log[l], j)
      /\ RecSeq(log[l], j) < End(log[l]) /\ End(log[l]) \in Nat
  BY RecordBounds
<1>2. /\ RecSeq(log[k], i) = log[k].Sequence + i /\ log[k].Sequence \in Nat
      /\ RecSeq(log[l], j) = log[l].Sequence + j /\ log[l].Sequence \in Nat
  BY SingleSeq
<1>3. ~(k < l)
  <2>1. k < l => End(log[k]) <= log[l].Sequence
    BY DEF LogInv
  <2> QED
    BY <1>1, <1>2, <2>1
<1>4. ~(l < k)
  <2>1. l < k => End(log[l]) <= log[k].Sequence
    BY DEF LogInv
  <2> QED
    BY <1>1, <1>2, <2>1
<1>5. k = l
  BY <1>3, <1>4, LogFacts
<1>6. Size(k) \in Nat
  BY LogFacts, EntryTypes DEF Size
<1>7. i \in Nat /\ j \in Nat
  BY <1>5, <1>6
<1>8. i = j
  <2>1. PICK q \in Nat : q = log[k].Sequence
    BY <1>2
  <2>2. q + i = q + j
    BY <1>2, <1>5, <2>1
  <2> QED
    BY <1>7, <2>2
<1> QED
  BY <1>5, <1>8

\* The types of the sink's positions, and how they are ordered.
LEMMA PosFacts ==
  ASSUME SInv
  PROVE  /\ next \in Nat /\ StartAt \in Nat /\ Pos \in Nat /\ Ahead \in Nat
         /\ StartAt <= next /\ next <= Pos /\ Pos <= Ahead
         /\ Ahead <= manifest.nextSequence \/ Ahead = StartAt
         /\ manifest.nextSequence \in Nat
<1> /\ TypeOK /\ LogInv /\ PollInv /\ Single /\ SinkTypeOK /\ FlushInv
    /\ BufInv /\ CoverInv /\ FileInv /\ PlaceInv /\ CatalogInv
  BY DEF SInv
<1>1. /\ next \in Nat /\ StartAt \in Nat /\ manifest.nextSequence \in Nat
      /\ StartAt <= next /\ (next <= manifest.nextSequence \/ next = StartAt)
  BY ReplicaAssumption DEF TypeOK, PlaceInv
<1>2. CASE poll.pc # "apply"
  <2>1. ~Taken
    BY <1>2 DEF FlushInv, Taken, NoFlush, Applying
  <2> QED
    BY <1>1, <1>2, <2>1 DEF Pos, Ahead
<1>3. CASE poll.pc = "apply"
  <2>1. Reading
    BY <1>3 DEF Reading, PollInv
  <2>2. PICK c \in 1..Len(log) : c = Current.Location.segment /\ Current = log[c] /\ Current \in Entry
    BY <2>1, CurrentIs
  <2>3. PICK i \in Nat : i = poll.i
    BY DEF TypeOK, PollType
  <2>4. PICK e \in Entry : e = Current
    BY <2>2
  <2>5. e.Sequence \in Nat /\ e.Location.records \in Nat /\ End(e) \in Nat
        /\ End(e) = e.Sequence + e.Location.records
    BY <2>2, <2>4, EntryTypes DEF Single, Size, End
  <2>6. next - e.Sequence <= i /\ i <= e.Location.records /\ next < End(e)
    BY <1>3, <2>1, <2>3, <2>4 DEF PollInv
  <2>7. End(e) <= manifest.nextSequence
    BY <2>2, <2>4 DEF LogInv
  <2>8. Pos = e.Sequence + i
    BY <1>3, <2>3, <2>4 DEF Pos
  <2>9. Taken => i < e.Location.records
    BY <2>3, <2>4 DEF FlushInv, Taken, NoFlush, Applying
  <2>10. PICK q \in Nat, r \in Nat, m \in Nat :
           q = e.Sequence /\ r = e.Location.records /\ m = manifest.nextSequence
    BY <1>1, <2>5
  <2>11. /\ next - q <= i /\ i <= r /\ q + r <= m /\ Pos = q + i
         /\ Taken => i < r
    BY <2>5, <2>6, <2>7, <2>8, <2>9, <2>10
  <2>12. Pos \in Nat /\ next <= Pos /\ Pos <= m /\ (Taken => Pos + 1 <= m)
    BY <1>1, <2>11
  <2>13. Ahead \in Nat /\ Pos <= Ahead /\ Ahead <= m
    BY <2>12 DEF Ahead
  <2> QED
    BY <1>1, <2>10, <2>12, <2>13
<1> QED
  BY <1>2, <1>3

\* Records at hand: their sequence is Pos.
LEMMA ApplyFacts ==
  ASSUME SInv, poll.pc = "apply"
  PROVE  \E c \in 1..Len(log) :
           /\ c = Current.Location.segment /\ Current = log[c] /\ Current \in Entry
           /\ log[c].Sequence \in Nat /\ End(log[c]) \in Nat /\ Size(c) \in Nat
           /\ End(log[c]) = log[c].Sequence + Size(c)
           /\ Pos = log[c].Sequence + poll.i /\ poll.i \in Nat /\ poll.i <= Size(c)
           /\ Current.Location.records = Size(c)
           /\ Applying => poll.i < Size(c) /\ Pos < End(log[c])
<1> /\ TypeOK /\ LogInv /\ PollInv /\ Single /\ SinkTypeOK /\ FlushInv
    /\ BufInv /\ CoverInv /\ FileInv /\ PlaceInv /\ CatalogInv
  BY DEF SInv
<1>1. Reading
  BY DEF Reading, PollInv
<1>2. PICK c \in 1..Len(log) : c = Current.Location.segment /\ Current = log[c] /\ Current \in Entry
  BY <1>1, CurrentIs
<1>3. Current.Location.records = Size(c) /\ End(log[c]) = log[c].Sequence + Size(c)
  BY <1>2 DEF Single, Size, End
<1>4. log[c].Sequence \in Nat /\ End(log[c]) \in Nat /\ Size(c) \in Nat
  BY <1>2, EntryTypes DEF Size
<1>5. poll.i \in Nat /\ poll.i <= Size(c)
  BY <1>2, <1>3 DEF PollInv, TypeOK, PollType
<1>6. Pos = log[c].Sequence + poll.i
  BY <1>2 DEF Pos
<1>7. Applying => poll.i < Size(c) /\ Pos < End(log[c])
  <2>1. SUFFICES ASSUME Applying PROVE poll.i < Size(c) /\ Pos < End(log[c])
    OBVIOUS
  <2>2. PICK i \in Nat, q \in Nat, n \in Nat : i = poll.i /\ q = log[c].Sequence /\ n = Size(c)
    BY <1>4, <1>5
  <2>3. i < n /\ Pos = q + i /\ End(log[c]) = q + n
    BY <1>3, <1>6, <2>1, <2>2 DEF Applying
  <2> QED
    BY <2>2, <2>3
<1> QED
  BY <1>2, <1>3, <1>4, <1>5, <1>6, <1>7

-----------------------------------------------------------------------------
(* One step of the sink keeps the invariant.                               *)

\* What only the log and the files say stays true while neither changes.
LEMMA FilesKept ==
  ASSUME Single, FileInv, UNCHANGED <<manifest, log, files>>
  PROVE  Single' /\ FileInv'
BY SMTT(30) DEF Single, FileInv, Exactly, At, Size

\* The file a flush writes depends on the buffer alone.
LEMMA FileKept ==
  ASSUME buf' = buf
  PROVE  FileOf(Run)' = FileOf(Run)
<1>1. RunLength' = RunLength
  BY DEF RunLength
<1>2. Run' = Run
  BY <1>1 DEF Run
<1> QED
  BY <1>2 DEF FileOf, Rows

\* OrderInv is kept when the sink moves forward.
LEMMA OrderedUp ==
  ASSUME SInv, OrderInv, UNCHANGED <<manifest, log, cursor>>, Pos' \in Int, Pos <= Pos'
  PROVE  OrderInv'
<1>1. Truncated' = Truncated /\ Pos \in Nat
  BY PosFacts DEF Truncated
<1>2. \A k \in 1..Len(log) : End(log[k]) \in Nat
  BY LogFacts, EntryTypes DEF SInv
<1> QED
  BY <1>1, <1>2 DEF OrderInv

\* The replica takes a step of its own: nothing is being flushed.
LEMMA FetchKept ==
  ASSUME SInv, UNCHANGED sinkVars, UNCHANGED <<manifest, log, cursor>>, flush = NoFlush,
         TypeOK', LogInv', PollInv', PlaceInv',
         \/ Pos' = Pos
         \/ buf = <<>> /\ Covered(Pos', Stored)
  PROVE  SInv'
<1> /\ TypeOK /\ LogInv /\ PollInv /\ Single /\ SinkTypeOK /\ FlushInv
    /\ BufInv /\ CoverInv /\ FileInv /\ PlaceInv /\ CatalogInv
  BY DEF SInv
<1>1. UNCHANGED <<buf, flush, files, catalog, visibleHigh, nextCursor, dropped>>
  BY DEF sinkVars
<1>2. Single' /\ FileInv'
  BY <1>1, FilesKept
<1>3. SinkTypeOK'
  BY <1>1 DEF SinkTypeOK
<1>4. flush' = NoFlush /\ Ahead = Pos /\ Ahead' = Pos' /\ Truncated' = Truncated
  BY <1>1 DEF Ahead, Taken, NoFlush, Truncated
<1>5. FlushInv'
  BY <1>1, <1>4 DEF FlushInv, NoFlush
<1>6. BufInv'
  <2>1. CASE Pos' = Pos
    BY <1>1, <1>4, <2>1 DEF BufInv, At, Size
  <2>2. CASE buf = <<>>
    BY <1>1, <2>2 DEF BufInv
  <2> QED
    BY <2>1, <2>2
<1>7. CatalogInv'
  BY <1>1, FileKept DEF CatalogInv
<1>8. CoverInv'
  <2>1. Stored' = Stored /\ Rows(buf)' = Rows(buf)
    BY <1>1 DEF Stored, InFiles, Rows
  <2>2. Covered(Pos', Stored \cup Rows(buf))
    <3>1. CASE Pos' = Pos
      BY <1>4, <3>1 DEF CoverInv
    <3>2. CASE buf = <<>> /\ Covered(Pos', Stored)
      BY <3>2 DEF Covered
    <3> QED
      BY <3>1, <3>2
  <2> QED
    BY <1>1, <1>4, <2>1, <2>2, CoverStep DEF CoverInv
<1> QED
  BY <1>2, <1>3, <1>5, <1>6, <1>7, <1>8 DEF SInv

\* Poll lists the manifest: SInv is kept.
LEMMA LoadStep ==
  ASSUME NatFacts, SInv, LoadManifest, UNCHANGED sinkVars
  PROVE  SInv' /\ (OrderInv => OrderInv')
<1> /\ TypeOK /\ LogInv /\ PollInv /\ Single /\ SinkTypeOK /\ FlushInv
    /\ BufInv /\ CoverInv /\ FileInv /\ PlaceInv /\ CatalogInv
  BY DEF SInv
<1>1. poll.pc = "load" /\ UNCHANGED <<manifest, log, next, restored, cursor, applied>>
  BY DEF LoadManifest
<1>2. /\ TypeOK' /\ LogInv' /\ PollInv' /\ poll'.pc = "segment"
      /\ poll'.entries # <<>> => Truncated < Current'.Location.segment
  BY LoadSlice, Zenon
<1>3. Pos' = Pos /\ Pos \in Nat
  BY <1>1, <1>2, PosFacts DEF Pos
<1>4. flush = NoFlush
  BY <1>1 DEF FlushInv, Applying
<1>5. PlaceInv'
  BY <1>1, <1>2 DEF PlaceInv, sinkVars, Reading, Truncated
<1>6. SInv'
  BY <1>1, <1>2, <1>3, <1>4, <1>5, FetchKept
<1>7. OrderInv => OrderInv'
  BY <1>1, <1>3, OrderedUp
<1> QED
  BY <1>6, <1>7 DEF SInv

\* Poll begins: SInv is kept.
LEMMA BeginStep ==
  ASSUME SInv, flush = NoFlush, BeginPoll, UNCHANGED sinkVars
  PROVE  SInv' /\ (OrderInv => OrderInv')
<1> /\ TypeOK /\ LogInv /\ PollInv /\ Single /\ SinkTypeOK /\ FlushInv
    /\ BufInv /\ CoverInv /\ FileInv /\ PlaceInv /\ CatalogInv
  BY DEF SInv
<1>1. poll.pc = "idle" /\ UNCHANGED <<manifest, log, cursor, applied>>
  BY DEF BeginPoll
<1>2. next' = next /\ restored' \in BOOLEAN
  BY SinkAssumption DEF BeginPoll, Restore, TypeOK
<1>3. poll'.pc = "load" /\ poll' \in PollType
  BY DEF BeginPoll, TypeOK, PollType
<1>4. TypeOK'
  BY <1>1, <1>2, <1>3 DEF TypeOK
<1>5. LogInv'
  BY <1>1, TruncatedKept
<1>6. PollInv'
  BY <1>3 DEF PollInv, Reading
<1>7. Pos' = Pos /\ Pos \in Nat
  BY <1>1, <1>2, <1>3, PosFacts DEF Pos
<1>8. PlaceInv'
  BY <1>1, <1>2, <1>3 DEF PlaceInv, sinkVars, Reading
<1>9. SInv'
  BY <1>1, <1>4, <1>5, <1>6, <1>7, <1>8, FetchKept
<1>10. OrderInv => OrderInv'
  BY <1>1, <1>7, OrderedUp
<1> QED
  BY <1>9, <1>10 DEF SInv

\* Poll fetches a segment. Records the buffer waits for are not skipped, and
\* what is skipped is stored or buffered.
LEMMA GetStep ==
  ASSUME NatFacts, SInv, GetSegment, UNCHANGED sinkVars
  PROVE  SInv' /\ (OrderInv => OrderInv')
<1> /\ TypeOK /\ LogInv /\ PollInv /\ Single /\ SinkTypeOK /\ FlushInv
    /\ BufInv /\ CoverInv /\ FileInv /\ PlaceInv /\ CatalogInv
  BY DEF SInv
<1>1. /\ poll.pc = "segment" /\ poll.entries # <<>>
      /\ UNCHANGED <<manifest, log, next, restored, cursor, applied>>
  BY DEF GetSegment
<1>2. /\ TypeOK' /\ LogInv' /\ PollInv'
      /\ poll'.pc = "apply" /\ poll'.entries = poll.entries
      /\ poll'.i = (IF Current.Sequence <= next THEN next - Current.Sequence ELSE 0)
  BY SegmentFetched, Zenon
<1>3. Reading /\ flush = NoFlush /\ Pos = next /\ next \in Nat /\ StartAt <= next
  BY <1>1, PosFacts DEF Reading, FlushInv, Applying, Pos
<1>4. PICK c \in 1..Len(log) : c = Current.Location.segment /\ Current = log[c] /\ Current \in Entry
  BY <1>3, CurrentIs
<1>5. log[c].Sequence \in Nat
  BY <1>4, EntryTypes
<1>6. Pos' = (IF log[c].Sequence <= next THEN next ELSE log[c].Sequence)
  <2>1. Current' = Current
    BY <1>2 DEF Current
  <2>2. Pos' = log[c].Sequence + poll'.i
    BY <1>2, <1>4, <2>1 DEF Pos
  <2>3. poll'.i = (IF log[c].Sequence <= next THEN next - log[c].Sequence ELSE 0)
    BY <1>2, <1>4
  <2> QED
    BY <1>3, <1>5, <2>2, <2>3
<1>7. Pos' \in Nat /\ Pos <= Pos'
  BY <1>3, <1>5, <1>6
<1>8. PlaceInv'
  <2>1. Current' = Current /\ Truncated' = Truncated
    BY <1>1, <1>2 DEF Current, Truncated
  <2> QED
    BY <1>1, <1>3, <2>1 DEF PlaceInv, sinkVars
<1>9. \/ Pos' = Pos
      \/ buf = <<>> /\ Covered(Pos', Stored)
  <2>1. CASE log[c].Sequence <= next
    BY <1>3, <1>6, <2>1
  <2>2. CASE ~(log[c].Sequence <= next)
    <3>0. Pos' = log[c].Sequence /\ next < log[c].Sequence
      BY <1>3, <1>5, <1>6, <2>2
    <3>1. \A k \in 1..Len(log) : k < c => k <= Truncated \/ End(log[k]) <= next
      BY <1>3, <1>4 DEF PollInv
    <3>2. buf = <<>>
      <4>1. SUFFICES ASSUME buf # <<>> PROVE FALSE
        OBVIOUS
      <4>2. \A k \in 1..Truncated : End(log[k]) <= next
        BY <1>3, <4>1 DEF BufInv
      <4>3. log[c].Sequence = IF c = 1 THEN 0 ELSE End(log[c - 1])
        BY DEF LogInv
      <4>4. c # 1
        BY <1>3, <2>2, <4>3
      <4>5. c - 1 \in 1..Len(log) /\ c - 1 < c
        BY <4>4, LogFacts
      <4>6. End(log[c - 1]) <= next
        <5>1. c - 1 <= Truncated => c - 1 \in 1..Truncated
          BY <4>5, LogFacts
        <5> QED
          BY <3>1, <4>2, <4>5, <5>1
      <4> QED
        BY <2>2, <4>3, <4>4, <4>6
    <3>3. Covered(log[c].Sequence, Stored)
      <4> SUFFICES ASSUME NEW k \in 1..Len(log), NEW i \in 0..Size(k) - 1,
                          StartAt <= RecSeq(log[k], i), RecSeq(log[k], i) < log[c].Sequence
                   PROVE  Rec(k, i) \in Stored
        BY DEF Covered
      <4>0. /\ RecSeq(log[k], i) \in Nat /\ log[k].Sequence <= RecSeq(log[k], i)
            /\ RecSeq(log[k], i) < End(log[k]) /\ End(log[k]) \in Nat
            /\ log[k].Sequence \in Nat
        BY RecordBounds, LogFacts, EntryTypes
      <4>1. k < c
        <5>1. c < k => End(log[c]) <= log[k].Sequence
          BY DEF LogInv
        <5>2. End(log[c]) \in Nat /\ log[c].Sequence < End(log[c])
          BY <1>4, EntryTypes
        <5>3. k # c /\ ~(c < k)
          BY <1>5, <4>0, <5>1, <5>2
        <5> QED
          BY <5>3
      <4>2. CASE k <= Truncated
        BY <4>2 DEF CoverInv, TruncatedIn
      <4>3. CASE End(log[k]) <= next
        <5>1. RecSeq(log[k], i) < Ahead
          BY <1>3, <4>0, <4>3 DEF Ahead, Taken, NoFlush
        <5>2. Rec(k, i) \in Stored \cup Rows(buf)
          BY <5>1 DEF CoverInv, Covered
        <5> QED
          BY <3>2, <5>2 DEF Rows
      <4> QED
        BY <3>1, <4>1, <4>2, <4>3
    <3> QED
      BY <3>0, <3>2, <3>3
  <2> QED
    BY <2>1, <2>2
<1>10. SInv'
  BY <1>1, <1>2, <1>3, <1>8, <1>9, FetchKept
<1>11. OrderInv => OrderInv'
  BY <1>1, <1>7, OrderedUp
<1> QED
  BY <1>10, <1>11 DEF SInv

\* A segment is finished: all of it was fed, so Pos stays where it is.
LEMMA SegmentDoneStep ==
  ASSUME SInv, SegmentDone, UNCHANGED sinkVars
  PROVE  SInv' /\ (OrderInv => OrderInv')
<1> /\ TypeOK /\ LogInv /\ PollInv /\ Single /\ SinkTypeOK /\ FlushInv
    /\ BufInv /\ CoverInv /\ FileInv /\ PlaceInv /\ CatalogInv
  BY DEF SInv
<1>1. /\ TypeOK' /\ LogInv' /\ PollInv'
      /\ next' = End(Current) /\ poll'.pc \in {"save", "segment", "end"}
  BY SegmentAdvances, Zenon
<1>2. /\ UNCHANGED <<manifest, log, restored, cursor, applied>>
      /\ poll.pc = "apply" /\ poll.i = Current.Location.records
  BY DEF SegmentDone
<1>3. flush = NoFlush
  <2>1. ~Applying
    BY <1>2, ApplyFacts DEF Applying
  <2> QED
    BY <1>2, <2>1 DEF FlushInv
<1>4. PICK c \in 1..Len(log) :
        /\ c = Current.Location.segment /\ Current = log[c] /\ Current \in Entry
        /\ End(log[c]) \in Nat /\ End(log[c]) = log[c].Sequence + Size(c)
        /\ Pos = log[c].Sequence + poll.i /\ Current.Location.records = Size(c)
  BY <1>2, ApplyFacts
<1>5. Pos' = Pos /\ Pos = End(log[c])
  BY <1>1, <1>2, <1>4 DEF Pos
<1>6. PlaceInv'
  <2>1. End(log[c]) <= manifest.nextSequence /\ StartAt <= next' /\ next' = End(log[c])
    <3>1. StartAt <= next /\ next <= Pos /\ StartAt \in Nat /\ next \in Nat
      BY PosFacts
    <3>2. End(log[c]) <= manifest.nextSequence
      BY DEF LogInv
    <3>3. next' = End(log[c])
      BY <1>1, <1>4
    <3>4. StartAt <= End(log[c])
      <4>1. End(log[c]) \in Nat
        BY <1>4
      <4>2. next <= End(log[c])
        BY <1>5, <3>1
      <4> QED
        BY <3>1, <4>1, <4>2
    <3> QED
      BY <3>2, <3>3, <3>4
  <2>2. Truncated' = Truncated /\ Truncated \in Nat
    BY <1>2, LogFacts DEF Truncated
  <2>3. Reading' => Truncated' < Current'.Location.segment
    <3>1. SUFFICES ASSUME Reading' PROVE Truncated' < Current'.Location.segment
      OBVIOUS
    <3>2. Reading /\ Tail(poll.entries) # <<>> /\ Current' = Tail(poll.entries)[1]
      BY <1>2, <3>1 DEF Reading, PollInv, Current, SegmentDone, TypeOK, PollType
    <3>3. Current'.Location.segment = c + 1
      BY <1>4, <3>2, CurrentIs
    <3>4. Truncated <= c
      <4>1. Truncated < c \/ Truncated = c
        BY <1>4, <3>2 DEF PlaceInv
      <4>2. c \in Nat
        BY LogFacts
      <4> QED
        BY <2>2, <4>1, <4>2
    <3> QED
      BY <2>2, <3>3, <3>4, LogFacts
  <2> QED
    BY <1>2, <2>1, <2>3 DEF PlaceInv, sinkVars
<1>7. SInv'
  BY <1>1, <1>2, <1>3, <1>5, <1>6, FetchKept
<1>8. OrderInv => OrderInv'
  <2>1. Pos' \in Int /\ Pos <= Pos'
    BY <1>5, PosFacts
  <2> QED
    BY <1>2, <2>1, OrderedUp
<1> QED
  BY <1>7, <1>8 DEF SInv

\* The replica's own save does nothing: it has no cursor store.
LEMMA SaveStep ==
  ASSUME SInv, Save, UNCHANGED sinkVars
  PROVE  SInv' /\ (OrderInv => OrderInv')
<1> /\ TypeOK /\ LogInv /\ PollInv /\ Single /\ SinkTypeOK /\ FlushInv
    /\ BufInv /\ CoverInv /\ FileInv /\ PlaceInv /\ CatalogInv
  BY DEF SInv
<1>1. UNCHANGED <<manifest, log, next, restored, applied>> /\ poll.pc = "save" /\ cursor' = cursor
  BY SinkAssumption DEF Save, SaveCursor
<1>2. PICK n \in Nat, to \in {"segment", "end"} :
        poll' = [poll EXCEPT !.sinceSave = n, !.pc = to]
  BY DEF Save, AfterSegment, TypeOK, PollType
<1>3. /\ poll' \in PollType /\ poll'.pc = to /\ poll'.entries = poll.entries
      /\ poll'.resumeAt = poll.resumeAt /\ poll'.i = poll.i
  BY <1>2 DEF TypeOK, PollType
<1>4. TypeOK'
  BY <1>1, <1>3 DEF TypeOK
<1>5. LogInv' /\ Truncated' = Truncated /\ Truncated \in Nat /\ Len(log) \in Nat
  BY <1>1, TruncatedKept, LogFacts
<1>6. PollInv'
  BY <1>1, <1>3, <1>5, PollKept DEF Reading
<1>7. Pos' = Pos /\ Pos \in Nat /\ flush = NoFlush
  BY <1>1, <1>3, PosFacts DEF Pos, FlushInv, Applying
<1>8. PlaceInv'
  BY <1>1, <1>3, <1>5 DEF PlaceInv, sinkVars, Reading, Current
<1>9. SInv'
  BY <1>1, <1>4, <1>5, <1>6, <1>7, <1>8, FetchKept
<1>10. OrderInv => OrderInv'
  BY <1>1, <1>7, OrderedUp
<1> QED
  BY <1>9, <1>10 DEF SInv

\* replica.Poll returns and sink.Poll goes on to flush.
LEMMA EndStep ==
  ASSUME SInv, PollEnds
  PROVE  SInv' /\ (OrderInv => OrderInv')
<1> /\ TypeOK /\ LogInv /\ PollInv /\ Single /\ SinkTypeOK /\ FlushInv
    /\ BufInv /\ CoverInv /\ FileInv /\ PlaceInv /\ CatalogInv
  BY DEF SInv
<1>1. /\ UNCHANGED <<manifest, log, next, restored, cursor, applied>>
      /\ poll.pc \in {"segment", "end"} /\ PollReturns
      /\ flush' = [pc |-> "write", then |-> "poll"]
      /\ UNCHANGED <<buf, files, catalog, visibleHigh, nextCursor, dropped>>
  BY SinkAssumption DEF PollEnds, EndPoll, SaveCursor, AtEnd
<1>2. TypeOK' /\ LogInv' /\ PollInv' /\ poll'.pc = "idle"
  BY <1>1, PollReturned DEF TypeOK
<1>3. flush = NoFlush
  BY <1>1 DEF FlushInv, Applying
<1>4. Pos' = Pos /\ Pos \in Nat /\ Ahead' = Ahead /\ Truncated' = Truncated
  BY <1>1, <1>2, <1>3, PosFacts DEF Pos, Ahead, Taken, NoFlush, Truncated
<1>5. Single' /\ FileInv'
  BY <1>1, FilesKept
<1>6. SinkTypeOK'
  BY <1>1 DEF SinkTypeOK
<1>7. FlushInv'
  BY <1>1, <1>2 DEF FlushInv
<1>8. BufInv'
  BY <1>1, <1>4 DEF BufInv, At, Size
<1>9. CatalogInv'
  BY <1>1, <1>3, FileKept DEF CatalogInv, NoFlush
<1>10. CoverInv'
  <2>1. Stored' = Stored /\ Rows(buf)' = Rows(buf)
    BY <1>1 DEF Stored, InFiles, Rows
  <2> QED
    BY <1>1, <1>4, <2>1, CoverStep DEF CoverInv
<1>11. PlaceInv'
  BY <1>1, <1>2 DEF PlaceInv, Reading
<1>12. OrderInv => OrderInv'
  BY <1>1, <1>4, OrderedUp
<1> QED
  BY <1>2, <1>5, <1>6, <1>7, <1>8, <1>9, <1>10, <1>11, <1>12 DEF SInv

\* The Poll fails and the batch is dropped.
LEMMA DropStep ==
  ASSUME SInv, DropBatch, PollReturns, UNCHANGED <<manifest, log, next, restored, cursor, applied>>,
         flush' = NoFlush, UNCHANGED <<files, catalog, visibleHigh, nextCursor>>,
         flush.pc # "commit", poll.pc = "apply" => Applying
  PROVE  SInv' /\ (OrderInv => OrderInv')
<1> /\ TypeOK /\ LogInv /\ PollInv /\ Single /\ SinkTypeOK /\ FlushInv
    /\ BufInv /\ CoverInv /\ FileInv /\ PlaceInv /\ CatalogInv
  BY DEF SInv
<1>0. buf' = <<>> /\ dropped' = dropped \cup Rows(buf)
  BY DEF DropBatch
<1>1. TypeOK' /\ LogInv' /\ PollInv' /\ poll'.pc = "idle"
  BY PollReturned DEF TypeOK
<1>2. /\ next \in Nat /\ Ahead \in Nat /\ next <= Ahead /\ next <= Pos /\ Pos \in Nat
      /\ Pos' = next /\ Ahead' = next /\ Truncated' = Truncated
  BY <1>1, PosFacts DEF Pos, Ahead, Taken, NoFlush, Truncated
<1>3. Single' /\ FileInv'
  BY FilesKept
<1>4. SinkTypeOK'
  <2>1. buf \in Seq(Item)
    BY DEF SinkTypeOK
  <2>2. Rows(buf) \subseteq Row
    BY <2>1, RowsAre
  <2> QED
    BY <1>0, <2>2 DEF SinkTypeOK
<1>5. FlushInv'
  BY DEF FlushInv, NoFlush
<1>6. BufInv'
  BY <1>0 DEF BufInv
<1>7. CatalogInv'
  BY DEF CatalogInv, NoFlush
<1>8. CoverInv'
  <2>1. Stored' = Stored \cup Rows(buf) /\ Rows(buf)' = {}
    BY <1>0 DEF Stored, InFiles, Rows
  <2>2. \A n : Covered(n, Stored) => Covered(n, Stored')
    BY <2>1 DEF Covered
  <2>3. Covered(next, Stored \cup Rows(buf))
    BY <1>2, CoveredMono, SMTT(30) DEF CoverInv
  <2>4. TruncatedIn(Truncated', Stored')
    BY <1>2, <2>1 DEF CoverInv, TruncatedIn
  <2> QED
    BY <1>2, <2>1, <2>2, <2>3, <2>4, CoverStep DEF CoverInv
<1>9. PlaceInv'
  BY <1>1 DEF PlaceInv, Reading
<1>10. ASSUME OrderInv PROVE OrderInv'
  <2> SUFFICES ASSUME NEW k \in 1..Len(log), Truncated < k, End(log[k]) <= cursor
               PROVE  End(log[k]) <= next
    BY <1>2 DEF OrderInv
  <2>1. End(log[k]) <= Pos
    BY <1>10 DEF OrderInv
  <2>2. CASE poll.pc # "apply"
    BY <2>1, <2>2 DEF Pos
  <2>3. CASE poll.pc = "apply"
    <3>1. PICK c \in 1..Len(log) :
            /\ c = Current.Location.segment /\ Current = log[c]
            /\ End(log[c]) \in Nat /\ Pos < End(log[c])
      BY <2>3, ApplyFacts
    <3>2. End(log[c]) \in Nat /\ Pos < End(log[c])
      BY <3>1
    <3>3. c < k => End(log[c]) <= log[k].Sequence
      BY DEF LogInv
    <3>4. log[k].Sequence \in Nat /\ End(log[k]) \in Nat /\ log[k].Sequence < End(log[k])
      BY LogFacts, EntryTypes
    <3>5. k # c /\ ~(c < k)
      BY <1>2, <2>1, <3>2, <3>3, <3>4
    <3>6. k < c
      BY <3>5
    <3>7. Truncated \in Nat /\ ~(k <= Truncated)
      BY LogFacts
    <3> QED
      BY <2>3, <3>1, <3>6, <3>7 DEF PollInv, Reading
  <2> QED
    BY <2>2, <2>3
<1> QED
  BY <1>1, <1>3, <1>4, <1>5, <1>6, <1>7, <1>8, <1>9, <1>10 DEF SInv

\* Only where the flush is changes, and the next row is the same.
LEMMA FlushMoves ==
  ASSUME SInv, UNCHANGED vars, UNCHANGED <<buf, files, catalog, visibleHigh, nextCursor, dropped>>,
         FlushInv', Taken' = Taken, flush.pc # "commit", flush'.pc # "commit"
  PROVE  SInv' /\ (OrderInv => OrderInv')
<1> /\ TypeOK /\ LogInv /\ PollInv /\ Single /\ SinkTypeOK /\ FlushInv
    /\ BufInv /\ CoverInv /\ FileInv /\ PlaceInv /\ CatalogInv
  BY DEF SInv
<1>0. UNCHANGED <<manifest, log, next, restored, cursor, poll, applied>>
  BY DEF vars
<1>1. Pos' = Pos /\ Ahead' = Ahead /\ Truncated' = Truncated /\ Pos \in Nat
  BY <1>0, PosFacts DEF Pos, Ahead, Truncated, Current
<1>2. TypeOK' /\ LogInv'
  BY <1>0, TruncatedKept DEF TypeOK
<1>3. PollInv' /\ PlaceInv'
  BY <1>0, <1>1 DEF PollInv, PlaceInv, Reading, Slice, Current
<1>4. Single' /\ FileInv'
  BY <1>0, FilesKept
<1>5. SinkTypeOK'
  BY DEF SinkTypeOK
<1>6. BufInv'
  BY <1>0, <1>1 DEF BufInv, At, Size
<1>7. CatalogInv'
  BY DEF CatalogInv
<1>8. CoverInv'
  <2>1. Stored' = Stored /\ Rows(buf)' = Rows(buf)
    BY DEF Stored, InFiles, Rows
  <2> QED
    BY <1>0, <1>1, <2>1, CoverStep DEF CoverInv
<1>9. OrderInv => OrderInv'
  BY <1>0, <1>1, OrderedUp
<1> QED
  BY <1>2, <1>3, <1>4, <1>5, <1>6, <1>7, <1>8, <1>9 DEF SInv

\* onRecord finds that the record opens a new bucket.
LEMMA BoundaryStep ==
  ASSUME SInv, FlushBoundary
  PROVE  SInv' /\ (OrderInv => OrderInv')
<1>1. /\ flush = NoFlush /\ Applying /\ buf # <<>>
      /\ flush' = [pc |-> "write", then |-> "buffer"]
      /\ UNCHANGED vars /\ UNCHANGED <<buf, files, catalog, visibleHigh, nextCursor, dropped>>
  BY DEF FlushBoundary, AtBoundary
<1>2. Applying'
  BY <1>1 DEF Applying, vars, Current
<1>3. FlushInv'
  BY <1>1, <1>2 DEF FlushInv
<1> QED
  BY <1>1, <1>3, FlushMoves DEF Taken, NoFlush

\* Nothing is left to flush.
LEMMA NothingStep ==
  ASSUME SInv, FlushNothing
  PROVE  SInv' /\ (OrderInv => OrderInv')
<1>1. /\ flush.pc = "write" /\ buf = <<>> /\ flush' = NoFlush
      /\ UNCHANGED vars /\ UNCHANGED <<buf, files, catalog, visibleHigh, nextCursor, dropped>>
  BY DEF FlushNothing
<1>2. flush.then = "poll"
  BY <1>1 DEF SInv, FlushInv
<1>3. FlushInv'
  BY <1>1 DEF FlushInv, NoFlush
<1> QED
  BY <1>1, <1>2, <1>3, FlushMoves DEF Taken, NoFlush

\* An error of flushOne.
LEMMA ErrorsStep ==
  ASSUME SInv, flush.pc \in {"write", "save"}, FlushErrors,
         UNCHANGED <<replicaVars, cursor, files, catalog, visibleHigh, nextCursor>>
  PROVE  SInv' /\ (OrderInv => OrderInv')
<1>1. flush' = NoFlush
  BY DEF FlushErrors, FlushReturns
<1>2. CASE flush.then = "poll"
  <2>1. UNCHANGED vars /\ UNCHANGED <<buf, files, catalog, visibleHigh, nextCursor, dropped>>
    BY <1>2 DEF FlushErrors, vars, replicaVars
  <2>2. FlushInv'
    BY <1>1 DEF FlushInv, NoFlush
  <2> QED
    BY <1>1, <1>2, <2>1, <2>2, FlushMoves DEF Taken, NoFlush
<1>3. CASE flush.then # "poll"
  <2>1. DropBatch /\ PollReturns
    BY <1>3 DEF FlushErrors
  <2>2. Applying
    BY <1>3 DEF SInv, FlushInv, NoFlush
  <2> QED
    BY <1>1, <2>1, <2>2, DropStep DEF replicaVars
<1> QED
  BY <1>2, <1>3

\* The record that Apply is given is the one at Pos.
LEMMA NextRow ==
  ASSUME SInv, Applying
  PROVE  \E c \in 1..Len(log) : \E j \in 0..Size(c) - 1 :
           /\ ThisRecord = Rec(c, j) /\ Seq0 = Pos /\ Pos = RecSeq(log[c], j)
           /\ Truncated < c /\ log[c].Sequence \in Nat /\ log[c].Sequence <= Pos
<1> /\ TypeOK /\ LogInv /\ PollInv /\ Single /\ SinkTypeOK /\ FlushInv
    /\ BufInv /\ CoverInv /\ FileInv /\ PlaceInv /\ CatalogInv
  BY DEF SInv
<1>0. poll.pc = "apply"
  BY DEF Applying
<1>1. PICK c \in 1..Len(log) :
        /\ c = Current.Location.segment /\ Current = log[c]
        /\ log[c].Sequence \in Nat /\ Size(c) \in Nat
        /\ Pos = log[c].Sequence + poll.i /\ poll.i \in Nat /\ poll.i < Size(c)
        /\ Current.Location.records = Size(c)
  BY <1>0, ApplyFacts
<1>2. PICK j \in 0..Size(c) - 1 : j = poll.i
  <2>1. PICK i \in Nat, n \in Nat : i = poll.i /\ n = Size(c)
    BY <1>1
  <2>2. i < n
    BY <1>1, <2>1
  <2>3. i \in 0..n - 1
    BY <2>2
  <2> QED
    BY <2>1, <2>3
<1>3. RecSeq(log[c], j) = log[c].Sequence + j
  BY SingleSeq
<1>4. Pos = RecSeq(log[c], j)
  BY <1>1, <1>2, <1>3
<1>5. Seq0 = Pos
  BY <1>1, <1>2, <1>4 DEF Seq0
<1>6. ThisRecord = Rec(c, j)
  BY <1>1, <1>2 DEF ThisRecord, Rec
<1>7. Truncated < c
  <2>1. poll.i # Current.Location.records
    <3>1. PICK i \in Nat, n \in Nat : i = poll.i /\ n = Size(c)
      BY <1>1
    <3>2. i < n /\ Current.Location.records = n
      BY <1>1, <3>1
    <3> QED
      BY <3>1, <3>2
  <2> QED
    BY <1>0, <1>1, <2>1 DEF PlaceInv, Reading, PollInv
<1>8. log[c].Sequence \in Nat /\ log[c].Sequence <= Pos
  BY <1>4, RecordBounds, LogFacts, EntryTypes
<1> QED
  BY <1>4, <1>5, <1>6, <1>7, <1>8

\* The record in hand joins the buffer: the buffer stays one run of records.
LEMMA Buffered ==
  ASSUME SInv, Applying, (flush = NoFlush /\ ~AtBoundary) \/ flush.pc = "buffer",
         buf' = Append(buf, [seq |-> Seq0, row |-> ThisRecord]),
         UNCHANGED <<manifest, log, next, restored, cursor>>,
         UNCHANGED <<files, catalog, visibleHigh, nextCursor, dropped>>,
         TypeOK', LogInv', PollInv', FlushInv', PlaceInv', flush'.pc # "commit",
         Pos' \in Int, Pos <= Pos', Ahead' = Pos + 1
  PROVE  SInv' /\ (OrderInv => OrderInv')
<1> /\ TypeOK /\ LogInv /\ PollInv /\ Single /\ SinkTypeOK /\ FlushInv
    /\ BufInv /\ CoverInv /\ FileInv /\ PlaceInv /\ CatalogInv
  BY DEF SInv
<1>1. PICK c \in 1..Len(log) : \E j \in 0..Size(c) - 1 :
        /\ ThisRecord = Rec(c, j) /\ Seq0 = Pos /\ Pos = RecSeq(log[c], j)
        /\ Truncated < c /\ log[c].Sequence \in Nat /\ log[c].Sequence <= Pos
  BY NextRow
<1>2. PICK j \in 0..Size(c) - 1 :
        /\ ThisRecord = Rec(c, j) /\ Seq0 = Pos /\ Pos = RecSeq(log[c], j)
        /\ Truncated < c /\ log[c].Sequence \in Nat /\ log[c].Sequence <= Pos
  BY <1>1
<1>3. /\ Pos \in Nat /\ StartAt \in Nat /\ StartAt <= Pos /\ Ahead = Pos /\ Truncated' = Truncated
      /\ flush.pc # "commit"
  BY PosFacts DEF Ahead, Taken, NoFlush, FlushInv, Truncated
<1>4. PICK x : x = [seq |-> Pos, row |-> Rec(c, j)]
  OBVIOUS
<1>5. x \in Item /\ x.seq = Pos /\ x.row = Rec(c, j)
  <2>1. c \in Nat /\ j \in Nat
    BY RecordBounds, LogFacts
  <2> QED
    BY <1>3, <1>4, <2>1 DEF Item, Row, Rec
<1>6. buf \in Seq(Item) /\ buf' = Append(buf, x) /\ Len(buf) \in Nat
  BY <1>2, <1>4 DEF SinkTypeOK
<1>7. /\ buf' \in Seq(Item) /\ Len(buf') = Len(buf) + 1
      /\ \A m \in 1..Len(buf) : buf'[m] = buf[m]
      /\ buf'[Len(buf) + 1] = x
  BY <1>5, <1>6
<1>8. SinkTypeOK'
  BY <1>7 DEF SinkTypeOK
<1>9. Single' /\ FileInv'
  BY FilesKept
<1>10. CatalogInv'
  BY <1>3 DEF CatalogInv
<1>11. BufInv'
  <2>1. \A r, q : At(r, q)' <=> At(r, q)
    BY DEF At, Size
  <2>2. ASSUME NEW m \in 1..Len(buf')
        PROVE  /\ At(buf'[m].row, buf'[m].seq) /\ StartAt <= buf'[m].seq
               /\ buf'[m].seq + (Len(buf') - m) + 1 = Pos + 1
               /\ bucketOf(buf'[m].seq) = bucketOf(buf'[1].seq)
    <3>1. CASE m = Len(buf) + 1
      <4>1. buf'[m].row = Rec(c, j) /\ buf'[m].seq = Pos
        BY <1>5, <1>7, <3>1
      <4>2. At(Rec(c, j), Pos)
        BY <1>2 DEF At
      <4>3. bucketOf(Pos) = bucketOf(buf'[1].seq)
        <5>1. CASE buf = <<>>
          BY <1>5, <1>7, <5>1, SMTT(30)
        <5>2. CASE buf # <<>>
          <6>1. buf'[1] = buf[1]
            BY <1>6, <1>7, <5>2, SMTT(30)
          <6>2. ~AtBoundary
            BY <5>2 DEF FlushInv
          <6> QED
            BY <1>2, <5>2, <6>1, <6>2 DEF AtBoundary
        <5> QED
          BY <5>1, <5>2
      <4>4. Len(buf') - m = 0
        BY <1>6, <1>7, <3>1
      <4> QED
        BY <1>3, <4>1, <4>2, <4>3, <4>4
    <3>2. CASE m \in 1..Len(buf)
      <4>1. buf'[m] = buf[m] /\ buf'[1] = buf[1]
        BY <1>6, <1>7, <3>2, SMTT(30)
      <4>2. /\ At(buf[m].row, buf[m].seq) /\ StartAt <= buf[m].seq
            /\ buf[m].seq + (Len(buf) - m) + 1 = Pos
            /\ bucketOf(buf[m].seq) = bucketOf(buf[1].seq)
        BY <1>3, <3>2 DEF BufInv
      <4>3. buf[m].seq \in Nat
        <5>1. buf[m] \in Item
          BY <1>6, <3>2
        <5> QED
          BY <5>1 DEF Item
      <4>4. buf[m].seq + (Len(buf') - m) + 1 = Pos + 1
        <5>1. PICK q \in Nat, n \in Nat : q = buf[m].seq /\ n = Len(buf)
          BY <1>6, <4>3
        <5>2. q + (n - m) + 1 = Pos /\ Len(buf') = n + 1 /\ m \in Nat
          BY <1>7, <3>2, <4>2, <5>1
        <5>3. q + (n + 1 - m) + 1 = Pos + 1
          BY <1>3, <5>2
        <5> QED
          BY <5>1, <5>2, <5>3
      <4> QED
        BY <4>1, <4>2, <4>4
    <3> QED
      BY <1>6, <1>7, <3>1, <3>2, SMTT(30)
  <2>3. ASSUME NEW k \in 1..Truncated PROVE End(log[k]) <= Pos'
    <3>1. k \in 1..Len(log) /\ k < c
      BY <1>2, LogFacts
    <3>2. End(log[k]) <= log[c].Sequence
      BY <3>1 DEF LogInv
    <3>3. End(log[k]) \in Nat
      BY <3>1, LogFacts, EntryTypes
    <3> QED
      BY <1>2, <1>3, <3>2, <3>3
  <2> QED
    BY <1>3, <2>1, <2>2, <2>3 DEF BufInv
<1>12. CoverInv'
  <2>1. Stored' = Stored
    BY DEF Stored, InFiles
  <2>2. Rows(buf) \cup {Rec(c, j)} \subseteq Rows(buf)'
    <3>1. Rows(buf') = {buf'[m].row : m \in 1..Len(buf')} /\ Rows(buf) = {buf[m].row : m \in 1..Len(buf)}
      BY <1>6, <1>7, RowsAre
    <3>2. \A m \in 1..Len(buf) : m \in 1..Len(buf') /\ buf'[m].row = buf[m].row
      BY <1>6, <1>7
    <3>3. Len(buf) + 1 \in 1..Len(buf') /\ buf'[Len(buf) + 1].row = Rec(c, j)
      BY <1>5, <1>6, <1>7
    <3>4. Rows(buf)' = Rows(buf')
      BY DEF Rows
    <3> QED
      BY <3>1, <3>2, <3>3, <3>4
  <2>3. Covered(Pos + 1, Stored \cup Rows(buf)')
    <3> SUFFICES ASSUME NEW k \in 1..Len(log), NEW i \in 0..Size(k) - 1,
                        StartAt <= RecSeq(log[k], i), RecSeq(log[k], i) < Pos + 1
                 PROVE  Rec(k, i) \in Stored \cup Rows(buf)'
      BY DEF Covered
    <3>1. RecSeq(log[k], i) \in Nat
      BY RecordBounds
    <3>2. CASE RecSeq(log[k], i) < Pos
      <4>1. Rec(k, i) \in Stored \cup Rows(buf)
        BY <1>3, <3>2 DEF CoverInv, Covered
      <4> QED
        BY <2>2, <4>1
    <3>3. CASE RecSeq(log[k], i) = Pos
      <4>1. k = c /\ i = j
        BY <1>2, <3>3, AtUnique
      <4> QED
        BY <2>2, <4>1
    <3> QED
      BY <1>3, <3>1, <3>2, <3>3
  <2> QED
    BY <1>3, <2>1, <2>3, CoverStep DEF CoverInv
<1>13. OrderInv => OrderInv'
  BY OrderedUp
<1> QED
  BY <1>8, <1>9, <1>10, <1>11, <1>12, <1>13 DEF SInv

\* onRecord buffers a row and goes on to a flush when the batch is full.
LEMMA BufferStep ==
  ASSUME SInv, Buffer
  PROVE  SInv' /\ (OrderInv => OrderInv')
<1> /\ TypeOK /\ LogInv /\ PollInv /\ Single /\ SinkTypeOK /\ FlushInv
    /\ BufInv /\ CoverInv /\ FileInv /\ PlaceInv /\ CatalogInv
  BY DEF SInv
<1>1. /\ Applying /\ ((flush = NoFlush /\ ~AtBoundary) \/ flush.pc = "buffer")
      /\ buf' = Append(buf, [seq |-> Seq0, row |-> ThisRecord])
      /\ UNCHANGED <<files, catalog, visibleHigh, nextCursor, dropped>>
      /\ poll.pc = "apply"
  BY DEF Buffer, Applying
<1>2. buf' # <<>> /\ Pos \in Nat
  BY <1>1, PosFacts DEF SinkTypeOK
<1>3. CASE Len(buf') >= MaxRows
  <2>1. /\ flush' = [pc |-> "write", then |-> "record"]
        /\ UNCHANGED <<manifest, log, next, restored, cursor, poll, applied>>
    BY <1>3 DEF Buffer, vars
  <2>2. Pos' = Pos /\ Ahead' = Pos + 1 /\ Current' = Current /\ Applying' /\ Truncated' = Truncated
    BY <1>1, <2>1 DEF Pos, Ahead, Taken, Current, Applying, Truncated
  <2>3. TypeOK' /\ LogInv'
    BY <2>1, TruncatedKept DEF TypeOK
  <2>4. PollInv' /\ PlaceInv'
    BY <1>1, <2>1, <2>2 DEF PollInv, PlaceInv, Reading, Slice
  <2>5. FlushInv'
    BY <1>2, <2>1, <2>2 DEF FlushInv
  <2> QED
    BY <1>1, <1>2, <2>1, <2>2, <2>3, <2>4, <2>5, Buffered
<1>4. CASE ~(Len(buf') >= MaxRows)
  <2>1. flush' = NoFlush /\ Delivered /\ UNCHANGED <<manifest, log, next, restored, cursor>>
    BY <1>4 DEF Buffer
  <2>2. /\ TypeOK' /\ LogInv' /\ PollInv'
        /\ poll'.pc = "apply" /\ poll'.entries = poll.entries /\ poll'.i = poll.i + 1
    BY <1>1, <2>1, RecordDelivered DEF TypeOK
  <2>3. Current' = Current /\ Truncated' = Truncated
    BY <2>1, <2>2 DEF Current, Truncated
  <2>4. Pos' = Pos + 1 /\ Ahead' = Pos + 1
    <3>1. Current.Sequence \in Nat /\ poll.i \in Nat
      BY <1>1, ApplyFacts
    <3>2. Pos' = Current.Sequence + (poll.i + 1) /\ Pos = Current.Sequence + poll.i
      BY <1>1, <2>2, <2>3 DEF Pos
    <3>3. Ahead' = Pos'
      BY <2>1 DEF Ahead, Taken, NoFlush
    <3> QED
      BY <3>1, <3>2, <3>3
  <2>5. PlaceInv'
    <3>1. Reading /\ Truncated < Current.Location.segment
      <4>1. poll.i # Current.Location.records
        BY <1>1, ApplyFacts DEF Applying
      <4> QED
        BY <1>1, <4>1 DEF PlaceInv, Reading, PollInv
    <3> QED
      BY <1>1, <2>1, <2>3, <3>1 DEF PlaceInv
  <2>6. FlushInv'
    BY <2>1 DEF FlushInv, NoFlush
  <2> QED
    BY <1>1, <1>2, <2>1, <2>2, <2>4, <2>5, <2>6, Buffered DEF NoFlush
<1> QED
  BY <1>3, <1>4 DEF SInv

\* Max of a bounded, non-empty set of integers is in it.
LEMMA BoundedMax ==
  ASSUME NatFacts, NEW b \in Nat, NEW S \in SUBSET (-1..b), S # {}
  PROVE  Max(S) \in S /\ \A y \in S : y <= Max(S)
<1> DEFINE G == {n \in Nat : \A T \in SUBSET (-1..n - 1) : T # {} => \E x \in T : \A y \in T : x >= y}
<1>1. 0 \in G
  <2>1. ASSUME NEW T \in SUBSET (-1..0 - 1), T # {} PROVE \E x \in T : \A y \in T : x >= y
    <3>1. \A y \in T : y = -1
      BY <2>1
    <3>2. PICK x : x \in T
      BY <2>1
    <3> QED
      BY <3>1, <3>2, SMTT(30)
  <2> QED
    BY <2>1
<1>2. \A n \in Nat : n \in G => n + 1 \in G
  <2> SUFFICES ASSUME NEW n \in Nat, n \in G,
                      NEW T \in SUBSET (-1..(n + 1) - 1), T # {}
               PROVE  \E x \in T : \A y \in T : x >= y
    BY SMTT(30)
  <2>1. CASE n \in T
    BY <2>1, SMTT(30)
  <2>2. CASE n \notin T
    <3>1. T \in SUBSET (-1..n - 1)
      BY <2>2, SMTT(30)
    <3> QED
      BY <3>1
  <2> QED
    BY <2>1, <2>2
<1>3. \A n \in Nat : n \in G
  <2> HIDE DEF G
  <2> QED
    BY <1>1, <1>2, NatSet
<1>4. S \in SUBSET (-1..(b + 1) - 1) /\ b + 1 \in Nat
  OBVIOUS
<1>5. \E x \in S : \A y \in S : x >= y
  BY <1>3, <1>4
<1>6. Max(S) \in S /\ \A y \in S : Max(S) >= y
  BY <1>5 DEF Max
<1>7. \A x, y \in S : x >= y => y <= x
  OBVIOUS
<1> QED
  BY <1>6, <1>7

\* The highest sequence in a file is the end of one of them.
LEMMA HighIs ==
  ASSUME NatFacts, SInv
  PROVE  /\ High \in {f.last : f \in files} \cup {Nothing}
         /\ Max({f.last : f \in files} \cup {Nothing}) = High
         /\ \A f \in files : f.last <= High
         /\ High \in Int
<1> /\ TypeOK /\ LogInv /\ PollInv /\ Single /\ SinkTypeOK /\ FlushInv
    /\ BufInv /\ CoverInv /\ FileInv /\ PlaceInv /\ CatalogInv
  BY DEF SInv
<1> DEFINE L == {f.last : f \in files} \cup {Nothing}
<1>1. PICK n \in Nat : n = manifest.nextSequence
  BY PosFacts
<1>2. L \in SUBSET (-1..n) /\ L # {}
  <2>1. \A f \in files : f.last \in -1..n
    <3> SUFFICES ASSUME NEW f \in files PROVE f.last \in -1..n
      OBVIOUS
    <3>1. f.last \in Nat
      BY DEF SinkTypeOK, FileType
    <3>2. f.last < n
      BY <1>1 DEF FileInv
    <3> QED
      BY <3>1, <3>2
  <2> QED
    BY <2>1, SMTT(30) DEF Nothing
<1>3. Max(L) \in L /\ \A y \in L : y <= Max(L)
  <2> HIDE DEF L
  <2> QED
    BY <1>2, BoundedMax
<1> QED
  BY <1>2, <1>3 DEF High

\* A new process, after a crash or a cancellation: the sink is where its
\* cursor says, whatever the old one had buffered.
LEMMA RestartStep ==
  ASSUME NatFacts, SInv, SinkRestart
  PROVE  SInv' /\ OrderInv'
<1> /\ TypeOK /\ LogInv /\ PollInv /\ Single /\ SinkTypeOK /\ FlushInv
    /\ BufInv /\ CoverInv /\ FileInv /\ PlaceInv /\ CatalogInv
  BY DEF SInv
<1>0. /\ next' = LowWatermark /\ nextCursor' = LowWatermark
      /\ catalog' = files /\ visibleHigh' = Max({f.last : f \in files} \cup {Nothing})
      /\ PollReturns /\ buf' = <<>> /\ flush' = NoFlush
      /\ UNCHANGED <<manifest, log, restored, cursor, applied, files, dropped>>
  BY DEF SinkRestart, Start, scanExisting
<1>1. /\ cursor \in Nat \cup {NoCursor} /\ LowWatermark \in Nat /\ StartAt \in Nat
      /\ restored \in BOOLEAN
  BY ReplicaAssumption DEF TypeOK, LowWatermark
<1>2. TypeOK' /\ LogInv' /\ PollInv' /\ poll'.pc = "idle"
  BY <1>0, <1>1, PollReturned
<1>3. Pos' = LowWatermark /\ Ahead' = LowWatermark /\ Truncated' = Truncated
  BY <1>0, <1>2 DEF Pos, Ahead, Taken, NoFlush, Truncated
<1>4. PlaceInv'
  BY <1>0, <1>1, <1>2 DEF PlaceInv, LowWatermark, Reading
<1>5. Single' /\ FileInv'
  BY <1>0, FilesKept
<1>6. SinkTypeOK'
  <2>1. <<>> \in Seq(Item)
    OBVIOUS
  <2> QED
    BY <1>0, <1>1, <2>1 DEF SinkTypeOK
<1>7. FlushInv'
  BY <1>0 DEF FlushInv, NoFlush
<1>8. BufInv'
  BY <1>0 DEF BufInv
<1>9. CatalogInv'
  <2>1. visibleHigh' \in {f.last : f \in files} \cup {Nothing}
    BY <1>0, HighIs
  <2> QED
    BY <1>0, <2>1 DEF CatalogInv, NoFlush
<1>10. CoverInv'
  <2>1. Stored' = Stored
    BY <1>0 DEF Stored, InFiles
  <2>2. Covered(LowWatermark, Stored)
    <3>1. CASE cursor = NoCursor
      BY <1>1, <3>1, CoveredLow DEF LowWatermark
    <3>2. CASE cursor # NoCursor
      BY <3>2 DEF CoverInv, LowWatermark
    <3> QED
      BY <3>1, <3>2
  <2>3. Covered(LowWatermark, Stored' \cup Rows(buf)')
    BY <2>1, <2>2 DEF Covered
  <2> QED
    BY <1>0, <1>3, <2>1, <2>2, <2>3, CoverStep DEF CoverInv
<1>11. OrderInv'
  <2>1. ASSUME NEW k \in 1..Len(log), End(log[k]) <= cursor PROVE End(log[k]) <= LowWatermark
    <3>1. End(log[k]) \in Nat
      BY LogFacts, EntryTypes
    <3>2. cursor # NoCursor
      BY <1>1, <2>1, <3>1 DEF NoCursor
    <3> QED
      BY <2>1, <3>2 DEF LowWatermark
  <2> QED
    BY <1>0, <1>3, <2>1 DEF OrderInv
<1> QED
  BY <1>2, <1>4, <1>5, <1>6, <1>7, <1>8, <1>9, <1>10, <1>11 DEF SInv

-----------------------------------------------------------------------------
(* The flush.                                                              *)

\* The buffer is one run: contiguous rows of one bucket.
LEMMA RunIs ==
  ASSUME SInv, buf # <<>>
  PROVE  /\ RunLength = Len(buf) /\ Run = buf /\ Len(buf) \in Nat /\ 1 \in 1..Len(buf)
         /\ buf[1].seq \in Nat /\ buf[Len(buf)].seq \in Nat /\ StartAt <= buf[1].seq
         /\ buf[1].seq <= buf[Len(buf)].seq /\ buf[Len(buf)].seq + 1 = Ahead
         /\ buf[1].seq + Len(buf) = Ahead
         /\ bucketOf(buf[Len(buf)].seq) = bucketOf(buf[1].seq)
         /\ Exactly(Rows(buf), buf[1].seq, buf[Len(buf)].seq)
<1> /\ TypeOK /\ LogInv /\ PollInv /\ Single /\ SinkTypeOK /\ FlushInv
    /\ BufInv /\ CoverInv /\ FileInv /\ PlaceInv /\ CatalogInv
  BY DEF SInv
<1>1. buf \in Seq(Item) /\ Len(buf) \in Nat /\ 1 \in 1..Len(buf) /\ Len(buf) \in 1..Len(buf)
  BY DEF SinkTypeOK
<1>2. \A j \in 1..Len(buf) : bucketOf(buf[j].seq) = bucketOf(buf[1].seq)
  BY DEF BufInv
<1>3. \A j \in 1..Len(buf) : buf[j].seq \in Nat
  <2>1. \A j \in 1..Len(buf) : buf[j] \in Item
    BY <1>1
  <2> QED
    BY <2>1 DEF Item
<1>4. RunLength = Len(buf)
  <2> DEFINE L == {n \in 1..Len(buf) : \A k \in 1..n : bucketOf(buf[k].seq) = bucketOf(buf[1].seq)}
  <2>1. L = 1..Len(buf)
    BY <1>1, <1>2, SMTT(30)
  <2>2. Len(buf) \in 1..Len(buf) /\ \A n \in 1..Len(buf) : Len(buf) >= n
    BY <1>1
  <2>3. \A x \in 1..Len(buf) : (\A n \in 1..Len(buf) : x >= n) => x = Len(buf)
    BY <1>1
  <2>4. Max(1..Len(buf)) = Len(buf)
    BY <2>2, <2>3 DEF Max
  <2> QED
    BY <2>1, <2>4 DEF RunLength
<1>5. Run = buf
  BY <1>1, <1>4 DEF Run
<1>6. Ahead \in Nat
  BY PosFacts
<1>7. \A j \in 1..Len(buf) :
        /\ At(buf[j].row, buf[j].seq) /\ StartAt <= buf[j].seq
        /\ buf[j].seq + (Len(buf) - j) + 1 = Ahead
  BY DEF BufInv
<1>8. PICK n \in Nat : n = Len(buf) /\ n >= 1
  BY <1>1
<1>9. \A j \in 1..n : buf[j].seq = Ahead - 1 - (n - j)
  <2> SUFFICES ASSUME NEW j \in 1..n PROVE buf[j].seq = Ahead - 1 - (n - j)
    OBVIOUS
  <2>1. PICK q \in Nat : q = buf[j].seq
    BY <1>3, <1>8
  <2>2. q + (n - j) + 1 = Ahead
    BY <1>7, <1>8, <2>1
  <2>3. q = Ahead - 1 - (n - j)
    BY <1>6, <2>2
  <2> QED
    BY <2>1, <2>3
<1>10. PICK a \in Nat, b \in Nat : a = buf[1].seq /\ b = buf[n].seq
  BY <1>1, <1>3, <1>8
<1>11. a = Ahead - 1 - (n - 1) /\ b = Ahead - 1 - (n - n)
  BY <1>1, <1>8, <1>9, <1>10
<1>12. a <= b /\ b + 1 = Ahead /\ a + n = Ahead
  BY <1>6, <1>8, <1>11
<1>13. StartAt <= a
  BY <1>1, <1>7, <1>10
<1>14. Exactly(Rows(buf), a, b)
  <2>1. Rows(buf) = {buf[j].row : j \in 1..n}
    BY <1>1, <1>8, RowsAre
  <2>2. ASSUME NEW r \in Rows(buf) PROVE \E q \in a..b : At(r, q)
    <3>1. PICK j \in 1..n : r = buf[j].row
      BY <2>1
    <3>2. PICK q \in Nat : q = buf[j].seq
      BY <1>3, <1>8
    <3>3. q = Ahead - 1 - (n - j)
      BY <1>9, <3>2
    <3>4. q \in a..b
      BY <1>6, <1>8, <1>11, <3>3
    <3>5. At(r, q)
      BY <1>7, <1>8, <3>1, <3>2
    <3> QED
      BY <3>4, <3>5
  <2>3. ASSUME NEW k \in 1..Len(log), NEW i \in 0..Size(k) - 1,
               a <= RecSeq(log[k], i), RecSeq(log[k], i) <= b
        PROVE  Rec(k, i) \in Rows(buf)
    <3>1. PICK q \in Nat : q = RecSeq(log[k], i)
      BY RecordBounds
    <3>2. PICK j \in 1..n : q = Ahead - 1 - (n - j)
      <4>1. a <= q /\ q <= b
        BY <2>3, <3>1
      <4>2. q - a + 1 \in 1..n /\ q = Ahead - 1 - (n - (q - a + 1))
        BY <1>6, <1>8, <1>11, <4>1
      <4> QED
        BY <4>2
    <3>3. At(buf[j].row, q)
      <4>1. buf[j].seq = q
        BY <1>9, <3>2
      <4> QED
        BY <1>7, <1>8, <4>1
    <3>4. PICK l \in 1..Len(log) : \E m \in 0..Size(l) - 1 :
            buf[j].row = Rec(l, m) /\ q = RecSeq(log[l], m)
      BY <3>3 DEF At
    <3>5. PICK m \in 0..Size(l) - 1 : buf[j].row = Rec(l, m) /\ q = RecSeq(log[l], m)
      BY <3>4
    <3>6. k = l /\ i = m
      <4>1. RecSeq(log[k], i) = RecSeq(log[l], m)
        BY <3>1, <3>5
      <4>2. TypeOK /\ LogInv /\ Single
        OBVIOUS
      <4>3. k \in 1..Len(log) /\ i \in 0..Size(k) - 1 /\ l \in 1..Len(log) /\ m \in 0..Size(l) - 1
        OBVIOUS
      <4> QED
        BY <4>1, <4>2, <4>3, AtUnique, SMTT(30)
    <3> QED
      BY <2>1, <3>5, <3>6
  <2> QED
    BY <2>2, <2>3 DEF Exactly
<1> QED
  BY <1>1, <1>2, <1>4, <1>5, <1>8, <1>10, <1>12, <1>13, <1>14

\* Two files of the same name hold the same rows.
LEMMA ExactlyOne ==
  ASSUME SInv, NEW R, NEW Q, NEW a, NEW b, Exactly(R, a, b), Exactly(Q, a, b)
  PROVE  R = Q
<1> /\ TypeOK /\ LogInv /\ PollInv /\ Single /\ SinkTypeOK /\ FlushInv
    /\ BufInv /\ CoverInv /\ FileInv /\ PlaceInv /\ CatalogInv
  BY DEF SInv
<1>1. ASSUME NEW X, NEW Y, Exactly(X, a, b), Exactly(Y, a, b), NEW r \in X
      PROVE  r \in Y
  <2>1. PICK q \in a..b : At(r, q)
    BY <1>1 DEF Exactly
  <2>2. PICK k \in 1..Len(log) : \E i \in 0..Size(k) - 1 : r = Rec(k, i) /\ q = RecSeq(log[k], i)
    BY <2>1 DEF At
  <2>3. PICK i \in 0..Size(k) - 1 : r = Rec(k, i) /\ q = RecSeq(log[k], i)
    BY <2>2
  <2> QED
    BY <1>1, <2>1, <2>3 DEF Exactly
<1> QED
  BY <1>1, SMTT(30)

\* writeAtomic renames a file into place. A file of the same name held the same
\* rows, so nothing stored is lost.
LEMMA PublishStep ==
  ASSUME SInv, Publish
  PROVE  SInv' /\ (OrderInv => OrderInv')
<1> /\ TypeOK /\ LogInv /\ PollInv /\ Single /\ SinkTypeOK /\ FlushInv
    /\ BufInv /\ CoverInv /\ FileInv /\ PlaceInv /\ CatalogInv
  BY DEF SInv
<1>0. /\ flush.pc = "write" /\ buf # <<>>
      /\ files' = {f \in files : ~SameName(f, FileOf(Run))} \cup {FileOf(Run)}
      /\ dropped' = dropped \ Rows(Run)
      /\ flush' = [flush EXCEPT !.pc = "commit"]
      /\ UNCHANGED <<manifest, log, next, restored, cursor, poll, applied>>
      /\ UNCHANGED <<buf, catalog, visibleHigh, nextCursor>>
  BY DEF Publish, vars
<1>1. /\ Run = buf /\ Len(buf) \in Nat /\ 1 \in 1..Len(buf)
      /\ buf[1].seq \in Nat /\ buf[Len(buf)].seq \in Nat /\ StartAt <= buf[1].seq
      /\ buf[1].seq <= buf[Len(buf)].seq /\ buf[Len(buf)].seq + 1 = Ahead
      /\ bucketOf(buf[Len(buf)].seq) = bucketOf(buf[1].seq)
      /\ Exactly(Rows(buf), buf[1].seq, buf[Len(buf)].seq)
  BY <1>0, RunIs
<1>2. PICK a \in Nat, b \in Nat : a = buf[1].seq /\ b = buf[Len(buf)].seq
  BY <1>1
<1>3. PICK F : F = FileOf(Run)
  OBVIOUS
<1>4. /\ F = [bucket |-> bucketOf(a), first |-> a, last |-> b, rows |-> Rows(buf)]
      /\ F.bucket = bucketOf(a) /\ F.first = a /\ F.last = b /\ F.rows = Rows(buf)
  BY <1>1, <1>2, <1>3 DEF FileOf
<1>5. Rows(buf) \subseteq Row
  BY RowsAre DEF SinkTypeOK
<1>6. bucketOf(a) \in Nat
  BY SinkAssumption DEF bucketOf
<1>7. F \in FileType
  BY <1>4, <1>5, <1>6 DEF FileType
<1>8. files' = files \cup {F}
  <2>1. ASSUME NEW f \in files, SameName(f, F) PROVE f = F
    <3>1. f \in FileType
      BY DEF SinkTypeOK
    <3>2. Exactly(f.rows, a, b)
      BY <1>4, <2>1 DEF FileInv, SameName
    <3>3. Exactly(Rows(buf), a, b)
      BY <1>1, <1>2
    <3>4. f.rows = Rows(buf)
      BY <3>2, <3>3, ExactlyOne
    <3>5. f = [bucket |-> f.bucket, first |-> f.first, last |-> f.last, rows |-> f.rows]
      BY <3>1 DEF FileType
    <3> QED
      BY <1>4, <2>1, <3>4, <3>5 DEF SameName
  <2> QED
    BY <1>0, <1>3, <2>1
<1>9. Rows(buf)' = Rows(buf) /\ Stored \subseteq Stored' /\ Rows(buf) \subseteq Stored'
  <2>1. Rows(buf)' = Rows(buf)
    BY <1>0 DEF Rows
  <2>2. InFiles' = InFiles \cup Rows(buf)
    BY <1>4, <1>8 DEF InFiles
  <2>3. dropped' = dropped \ Rows(buf)
    BY <1>0, <1>1
  <2> QED
    BY <2>1, <2>2, <2>3 DEF Stored
<1>10. flush' = [pc |-> "commit", then |-> flush.then] /\ Taken' = Taken
  <2>1. flush = [pc |-> flush.pc, then |-> flush.then]
    BY DEF FlushInv
  <2>2. flush' = [pc |-> "commit", then |-> flush.then]
    BY <1>0, <2>1
  <2> QED
    BY <2>2 DEF Taken
<1>11. Pos' = Pos /\ Ahead' = Ahead /\ Truncated' = Truncated /\ Pos \in Nat /\ Current' = Current
  BY <1>0, <1>10, PosFacts DEF Pos, Ahead, Truncated, Current
<1>12. TypeOK' /\ LogInv'
  BY <1>0, TruncatedKept DEF TypeOK
<1>13. PollInv' /\ PlaceInv'
  BY <1>0, <1>11 DEF PollInv, PlaceInv, Reading, Slice
<1>14. SinkTypeOK'
  BY <1>0, <1>7, <1>8 DEF SinkTypeOK
<1>15. FlushInv'
  BY <1>0, <1>10, <1>11, SMTT(30) DEF FlushInv, Applying, NoFlush
<1>16. BufInv'
  BY <1>0, <1>11 DEF BufInv, At, Size
<1>17. Single'
  BY <1>0 DEF Single, Size
<1>18. b + 1 = Ahead /\ Ahead <= manifest.nextSequence /\ manifest.nextSequence \in Nat
  <2>1. b + 1 = Ahead /\ StartAt <= a /\ a <= b
    BY <1>1, <1>2
  <2> QED
    BY <2>1, PosFacts
<1>19. FileInv'
  <2>1. \A f \in files' :
          /\ StartAt <= f.first /\ f.first <= f.last /\ f.last < manifest.nextSequence
          /\ bucketOf(f.first) = f.bucket /\ bucketOf(f.last) = f.bucket
          /\ Exactly(f.rows, f.first, f.last)
    <3>1. /\ StartAt <= a /\ a <= b /\ b < manifest.nextSequence
          /\ bucketOf(b) = bucketOf(a) /\ Exactly(Rows(buf), a, b)
      BY <1>1, <1>2, <1>18
    <3> QED
      BY <1>4, <1>8, <3>1 DEF FileInv
  <2>2. \A r, x, y : Exactly(r, x, y)' <=> Exactly(r, x, y)
    BY <1>0, SMTT(30) DEF Exactly, At, Size
  <2> QED
    BY <1>0, <2>1, <2>2 DEF FileInv
<1>20. CatalogInv'
  <2>1. FileOf(Run)' = F
    BY <1>0, <1>3, FileKept
  <2>2. catalog = files
    BY <1>0 DEF CatalogInv
  <2>3. visibleHigh \in {f.last : f \in files} \cup {Nothing}
    BY DEF CatalogInv
  <2> QED
    BY <1>0, <1>8, <1>10, <2>1, <2>2, <2>3 DEF CatalogInv
<1>21. CoverInv'
  <2>1. \A n \in Int : Covered(n, Stored) => Covered(n, Stored')
    BY <1>9, CoveredMono, SMTT(30)
  <2>2. cursor \in Int /\ nextCursor \in Int
    BY SMTT(30) DEF TypeOK, SinkTypeOK, NoCursor
  <2>3. Covered(cursor, Stored') /\ Covered(nextCursor, Stored')
    BY <2>1, <2>2 DEF CoverInv
  <2>4. Stored \cup Rows(buf) \subseteq Stored' /\ Stored \cup Rows(buf) \subseteq Stored' \cup Rows(buf)'
    BY <1>9
  <2>5. Ahead \in Int /\ Covered(Ahead, Stored \cup Rows(buf))
    BY PosFacts DEF CoverInv
  <2>6. Covered(Ahead, Stored') /\ Covered(Ahead, Stored' \cup Rows(buf)')
    BY <2>4, <2>5, CoveredMono, SMTT(30)
  <2>7. TruncatedIn(Truncated, Stored')
    BY <1>9 DEF CoverInv, TruncatedIn
  <2>8. \A f \in files' : Covered(f.last + 1, Stored')
    <3>1. ASSUME NEW f \in files PROVE Covered(f.last + 1, Stored')
      <4>1. f.last \in Nat
        BY DEF SinkTypeOK, FileType
      <4>2. f.last + 1 \in Int
        BY <4>1
      <4>3. Covered(f.last + 1, Stored)
        BY DEF CoverInv
      <4> QED
        BY <2>1, <4>2, <4>3
    <3>2. Covered(F.last + 1, Stored')
      BY <1>4, <1>18, <2>6
    <3> QED
      BY <1>8, <3>1, <3>2
  <2> QED
    BY <1>0, <1>11, <2>3, <2>6, <2>7, <2>8, CoverStep
<1>22. OrderInv => OrderInv'
  BY <1>0, <1>11, OrderedUp
<1> QED
  BY <1>12, <1>13, <1>14, <1>15, <1>16, <1>17, <1>19, <1>20, <1>21, <1>22 DEF SInv

\* The file is taken into the catalog: nothing is buffered any more.
LEMMA CommitFileStep ==
  ASSUME SInv, CommitFile
  PROVE  SInv' /\ (OrderInv => OrderInv')
<1> /\ TypeOK /\ LogInv /\ PollInv /\ Single /\ SinkTypeOK /\ FlushInv
    /\ BufInv /\ CoverInv /\ FileInv /\ PlaceInv /\ CatalogInv
  BY DEF SInv
<1>0. /\ flush.pc = "commit"
      /\ buf' = SubSeq(buf, RunLength + 1, Len(buf))
      /\ catalog' = catalog \cup {FileOf(Run)}
      /\ visibleHigh' = FileOf(Run).last
      /\ nextCursor' = FileOf(Run).last + 1
      /\ flush' = [flush EXCEPT !.pc = "save"]
      /\ UNCHANGED <<manifest, log, next, restored, cursor, poll, applied>>
      /\ UNCHANGED <<files, dropped>>
  BY DEF CommitFile, vars
<1>1. buf # <<>>
  BY <1>0 DEF FlushInv
<1>2. /\ RunLength = Len(buf) /\ Run = buf /\ Len(buf) \in Nat /\ buf[Len(buf)].seq + 1 = Ahead
      /\ StartAt < Ahead
  <2>1. /\ RunLength = Len(buf) /\ Run = buf /\ Len(buf) \in Nat /\ 1 \in 1..Len(buf)
        /\ buf[1].seq \in Nat /\ StartAt <= buf[1].seq /\ buf[1].seq + Len(buf) = Ahead
        /\ buf[Len(buf)].seq + 1 = Ahead
    BY <1>1, RunIs
  <2>2. StartAt \in Nat
    BY ReplicaAssumption
  <2> QED
    BY <2>1, <2>2
<1>3. buf' = <<>> /\ Rows(buf)' = {}
  BY <1>0, <1>2 DEF Rows
<1>4. FileOf(Run).last = buf[Len(buf)].seq /\ nextCursor' = Ahead
  BY <1>0, <1>2 DEF FileOf
<1>5. catalog' = files /\ FileOf(Run) \in files
  BY <1>0 DEF CatalogInv
<1>6. Covered(Ahead, Stored)
  BY <1>2, <1>4, <1>5 DEF CoverInv
<1>7. flush' = [pc |-> "save", then |-> flush.then] /\ Taken' = Taken
  <2>1. flush = [pc |-> flush.pc, then |-> flush.then]
    BY DEF FlushInv
  <2>2. flush' = [pc |-> "save", then |-> flush.then]
    BY <1>0, <2>1
  <2> QED
    BY <2>2 DEF Taken
<1>8. /\ Pos' = Pos /\ Ahead' = Ahead /\ Truncated' = Truncated /\ Pos \in Nat /\ Current' = Current
      /\ Ahead \in Nat /\ StartAt <= Ahead /\ (Ahead <= manifest.nextSequence \/ Ahead = StartAt)
  BY <1>0, <1>7, PosFacts, SMTT(30) DEF Pos, Ahead, Truncated, Current
<1>9. TypeOK' /\ LogInv'
  BY <1>0, TruncatedKept DEF TypeOK
<1>10. PollInv' /\ PlaceInv'
  BY <1>0, <1>4, <1>8 DEF PollInv, PlaceInv, Reading, Slice
<1>11. SinkTypeOK'
  <2>1. <<>> \in Seq(Item)
    OBVIOUS
  <2>2. nextCursor' \in Nat
    BY <1>4, <1>8
  <2> QED
    BY <1>0, <1>3, <2>1, <2>2 DEF SinkTypeOK
<1>12. FlushInv'
  BY <1>0, <1>2, <1>3, <1>4, <1>7, <1>8, SMTT(30) DEF FlushInv, Applying, NoFlush
<1>13. BufInv'
  BY <1>3 DEF BufInv
<1>14. Single' /\ FileInv'
  BY <1>0, FilesKept
<1>15. CatalogInv'
  BY <1>0, <1>5, <1>7 DEF CatalogInv
<1>16. CoverInv'
  <2>1. Stored' = Stored
    BY <1>0 DEF Stored, InFiles
  <2>2. Covered(Ahead, Stored' \cup Rows(buf)')
    BY <1>3, <1>6, <2>1
  <2> QED
    BY <1>0, <1>4, <1>6, <1>8, <2>1, <2>2, CoverStep DEF CoverInv
<1>17. OrderInv => OrderInv'
  BY <1>0, <1>8, OrderedUp
<1> QED
  BY <1>9, <1>10, <1>11, <1>12, <1>13, <1>14, <1>15, <1>16, <1>17 DEF SInv

\* The sink saves its cursor: it stands at the end of a file.
LEMMA SaveSinkStep ==
  ASSUME SInv, SaveSinkCursor
  PROVE  SInv' /\ OrderInv'
<1> /\ TypeOK /\ LogInv /\ PollInv /\ Single /\ SinkTypeOK /\ FlushInv
    /\ BufInv /\ CoverInv /\ FileInv /\ PlaceInv /\ CatalogInv
  BY DEF SInv
<1>0. /\ flush.pc = "save" /\ cursor' = nextCursor /\ FlushReturns("ok")
      /\ IF flush.then = "record" THEN Delivered ELSE UNCHANGED <<poll, applied>>
      /\ UNCHANGED <<manifest, log, next, restored>>
      /\ UNCHANGED <<buf, files, catalog, visibleHigh, nextCursor, dropped>>
  BY DEF SaveSinkCursor
<1>1. /\ buf = <<>> /\ nextCursor = Ahead /\ StartAt < Ahead /\ flush.then \in {"poll", "record", "buffer"}
      /\ flush = [pc |-> flush.pc, then |-> flush.then]
      /\ Covered(Ahead, Stored) /\ Truncated' = Truncated
  BY <1>0 DEF FlushInv, NoFlush, CoverInv, Truncated
<1>2. /\ Ahead \in Nat /\ Pos \in Nat /\ manifest.nextSequence \in Nat /\ next \in Nat /\ StartAt \in Nat
      /\ Ahead <= manifest.nextSequence /\ StartAt <= Ahead
  BY <1>1, PosFacts
<1>3. /\ TypeOK' /\ LogInv' /\ PollInv' /\ PlaceInv' /\ FlushInv' /\ flush'.pc # "commit"
      /\ Ahead' = Ahead /\ Pos' = Ahead
  <2>0. cursor' \in Nat
    BY <1>0, <1>1, <1>2
  <2>1. CASE flush.then # "record"
    <3>1. UNCHANGED <<poll, applied>>
      BY <1>0, <2>1
    <3>2. flush' = [pc |-> IF flush.then = "poll" THEN "write" ELSE "buffer", then |-> flush.then]
      BY <1>0, <1>1, <2>1 DEF FlushReturns
    <3>3. Pos' = Pos /\ Ahead' = Ahead /\ Pos = Ahead /\ Current' = Current
      BY <1>0, <2>1, <3>1, <3>2 DEF Pos, Ahead, Taken, Current
    <3>4. TypeOK' /\ LogInv'
      BY <1>0, <2>0, <3>1, TruncatedKept DEF TypeOK
    <3>5. PollInv'
      BY <1>0, <1>1, <3>1, <3>3 DEF PollInv, Reading, Slice
    <3>6. PlaceInv'
      BY <1>0, <1>1, <1>2, <3>1, <3>3 DEF PlaceInv, Reading
    <3>7. FlushInv'
      BY <1>0, <1>1, <2>1, <3>1, <3>2, <3>3 DEF FlushInv, Applying, NoFlush
    <3> QED
      BY <3>2, <3>3, <3>4, <3>5, <3>6, <3>7
  <2>2. CASE flush.then = "record"
    <3>1. Delivered /\ Applying /\ flush' = NoFlush /\ poll.pc = "apply"
      BY <1>0, <1>1, <2>2 DEF FlushReturns, FlushInv, NoFlush, Applying
    <3>2. /\ TypeOK' /\ LogInv' /\ PollInv'
          /\ poll'.pc = "apply" /\ poll'.entries = poll.entries /\ poll'.i = poll.i + 1
      <4>1. cursor' \in Nat \cup {NoCursor}
        BY <2>0
      <4> QED
        BY <1>0, <3>1, <4>1, RecordDelivered
    <3>3. Current' = Current
      BY <3>2 DEF Current
    <3>4. Pos' = Ahead /\ Ahead' = Ahead
      <4>1. Current.Sequence \in Nat /\ poll.i \in Nat
        BY <3>1, ApplyFacts
      <4>2. Pos' = Current.Sequence + (poll.i + 1) /\ Pos = Current.Sequence + poll.i
        BY <3>1, <3>2, <3>3 DEF Pos
      <4>3. Ahead' = Pos' /\ Ahead = Pos + 1
        BY <2>2, <3>1 DEF Ahead, Taken, NoFlush
      <4> QED
        BY <4>1, <4>2, <4>3
    <3>5. Reading /\ Truncated < Current.Location.segment
      <4>1. poll.i # Current.Location.records
        BY <3>1, ApplyFacts DEF Applying
      <4> QED
        BY <3>1, <4>1 DEF PlaceInv, Reading, PollInv
    <3>6. PlaceInv'
      BY <1>0, <1>1, <1>2, <3>3, <3>5 DEF PlaceInv
    <3>7. FlushInv'
      BY <3>1 DEF FlushInv, NoFlush
    <3> QED
      BY <3>1, <3>2, <3>4, <3>6, <3>7 DEF NoFlush
  <2> QED
    BY <2>1, <2>2
<1>4. Single' /\ FileInv'
  BY <1>0, FilesKept
<1>5. SinkTypeOK'
  BY <1>0 DEF SinkTypeOK
<1>6. BufInv'
  BY <1>0, <1>1 DEF BufInv
<1>7. CatalogInv'
  BY <1>0, <1>3 DEF CatalogInv
<1>8. CoverInv'
  <2>1. Stored' = Stored /\ Rows(buf)' = Rows(buf)
    BY <1>0 DEF Stored, InFiles, Rows
  <2> QED
    BY <1>0, <1>1, <1>3, <2>1, CoverStep DEF CoverInv
<1>9. OrderInv'
  BY <1>0, <1>1, <1>3 DEF OrderInv
<1> QED
  BY <1>3, <1>4, <1>5, <1>6, <1>7, <1>8, <1>9 DEF SInv

\* Every step of a Poll that the sink makes.
LEMMA CallsStep ==
  ASSUME NatFacts, SInv, SinkCalls
  PROVE  SInv' /\ (OrderInv => OrderInv')
<1>1. CASE Fetch
  BY <1>1, LoadStep, BeginStep, GetStep, SegmentDoneStep, SaveStep DEF Fetch
<1>2. CASE PollEnds
  BY <1>2, EndStep
<1>3. CASE FlushBoundary
  BY <1>3, BoundaryStep, ZenonT(30)
<1>4. CASE Buffer
  BY <1>4, BufferStep
<1>5. CASE Publish
  BY <1>5, PublishStep
<1>6. CASE FlushNothing
  BY <1>6, NothingStep
<1>7. CASE CommitFile
  BY <1>7, CommitFileStep
<1>8. CASE SaveSinkCursor
  BY <1>8, SaveSinkStep
<1> QED
  BY <1>1, <1>2, <1>3, <1>4, <1>5, <1>6, <1>7, <1>8, ZenonT(30) DEF SinkCalls

\* Every error that ends one.
LEMMA SinkErrorsStep ==
  ASSUME SInv, SinkErrors
  PROVE  SInv' /\ (OrderInv => OrderInv')
<1>1. CASE FetchFails
  <2>1. /\ poll.pc \in {"load", "segment"} /\ PollReturns /\ DropBatch
        /\ UNCHANGED <<manifest, log, next, restored, cursor, applied>>
        /\ UNCHANGED <<flush, files, catalog, visibleHigh, nextCursor>>
    BY <1>1 DEF FetchFails, LoadFails, GetFails
  <2>2. flush = NoFlush
    BY <2>1 DEF SInv, FlushInv, Applying
  <2> QED
    BY <2>1, <2>2, DropStep DEF NoFlush
<1>2. CASE DecodeFails
  <2>1. /\ flush = NoFlush /\ Applying /\ PollReturns /\ DropBatch
        /\ UNCHANGED <<manifest, log, next, restored, cursor, applied>>
        /\ UNCHANGED <<flush, files, catalog, visibleHigh, nextCursor>>
    BY <1>2 DEF DecodeFails, ApplyFails
  <2> QED
    BY <2>1, DropStep DEF NoFlush
<1>3. CASE WriteFails
  BY <1>3, ErrorsStep DEF WriteFails
<1>4. CASE SaveSinkCursorFails
  BY <1>4, ErrorsStep DEF SaveSinkCursorFails
<1> QED
  BY <1>1, <1>2, <1>3, <1>4 DEF SinkErrors

-----------------------------------------------------------------------------
(* A commit, retention and the whole next-state relation.                  *)

\* A writer commits a segment: it lies beyond all that was said before.
LEMMA Grown ==
  ASSUME SInv, NEW count \in Counts, Commit(count)
  PROVE  /\ \A k \in 1..Len(log) : Size(k)' = Size(k) /\ log'[k] = log[k] /\ k \in 1..Len(log')
         /\ \A k \in 1..Len(log') : k \notin 1..Len(log) =>
              /\ k = Len(log) + 1 /\ Size(k)' = RangeSize(log'[k])
              /\ manifest.nextSequence < End(log'[k]) /\ End(log'[k]) \in Nat
              /\ \A i \in 0..Size(k)' - 1 :
                   RecSeq(log'[k], i) \in Nat /\ manifest.nextSequence <= RecSeq(log'[k], i)
         /\ Truncated' = Truncated /\ TypeOK' /\ LogInv'
         /\ Len(log) \in Nat /\ Len(log') = Len(log) + 1
         /\ manifest.nextSequence \in Nat /\ manifest'.nextSequence \in Nat
         /\ manifest.nextSequence <= manifest'.nextSequence
<1> /\ TypeOK /\ LogInv /\ PollInv /\ Single /\ SinkTypeOK /\ FlushInv
    /\ BufInv /\ CoverInv /\ FileInv /\ PlaceInv /\ CatalogInv
  BY DEF SInv
<1>1. /\ Len(log') = Len(log) + 1 /\ \A k \in 1..Len(log) : log'[k] = log[k]
      /\ log'[Len(log) + 1] = [Sequence |-> manifest.nextSequence, Count |-> count,
                               Location |-> Location(Len(log) + 1, count)]
      /\ log'[Len(log) + 1] \in Entry
      /\ manifest'.nextSequence = manifest.nextSequence + count
      /\ Truncated' = Truncated /\ TypeOK' /\ LogInv'
  BY CommitLog
<1>2. Len(log) \in Nat /\ manifest.nextSequence \in Nat /\ count \in Nat /\ count # 0
  BY LogFacts, PosFacts, ReplicaAssumption
<1>3. \A k \in 1..Len(log) : Size(k)' = Size(k) /\ log'[k] = log[k] /\ k \in 1..Len(log')
  BY <1>1, <1>2 DEF Size
<1>4. PICK e : e = log'[Len(log) + 1]
  OBVIOUS
<1>5. /\ e \in Entry /\ e.Sequence = manifest.nextSequence /\ e.Count = count
      /\ e.Location.records = count
  BY <1>1, <1>4 DEF Location
<1>6. /\ RangeSize(e) = count /\ manifest.nextSequence < End(e) /\ End(e) \in Nat
      /\ \A i \in Nat : RecSeq(e, i) \in Nat /\ manifest.nextSequence <= RecSeq(e, i)
  BY <1>2, <1>5, EntryTypes DEF RangeSize
<1>7. PICK n \in Nat : n = Len(log)
  BY <1>2
<1>8. ASSUME NEW k \in 1..Len(log'), k \notin 1..Len(log)
      PROVE  /\ k = Len(log) + 1 /\ Size(k)' = RangeSize(log'[k])
             /\ manifest.nextSequence < End(log'[k]) /\ End(log'[k]) \in Nat
             /\ \A i \in 0..Size(k)' - 1 :
                  RecSeq(log'[k], i) \in Nat /\ manifest.nextSequence <= RecSeq(log'[k], i)
  <2>1. k = Len(log) + 1
    BY <1>1, <1>2, <1>8
  <2>2. k = n + 1 /\ log'[n + 1] = e
    BY <1>4, <1>7, <2>1
  <2>4. Size(k)' = e.Location.records
    BY <2>2 DEF Size
  <2>3. \A i \in 0..count - 1 : i \in Nat
    BY <1>2
  <2> QED
    BY <1>5, <1>6, <2>1, <2>2, <2>3, <2>4
<1>9. manifest'.nextSequence \in Nat /\ manifest.nextSequence <= manifest'.nextSequence
  BY <1>1, <1>2
<1> QED
  BY <1>1, <1>2, <1>3, <1>8, <1>9

\* A commit adds records behind everything that was covered.
LEMMA CommitKeeps ==
  ASSUME SInv, NEW count \in Counts, Commit(count)
  PROVE  /\ Single'
         /\ \A r, q : At(r, q) => At(r, q)'
         /\ \A R : \A a, b \in Nat :
              Exactly(R, a, b) /\ b < manifest.nextSequence => Exactly(R, a, b)'
         /\ \A S : \A n \in Int :
              Covered(n, S) /\ (n <= manifest.nextSequence \/ n <= StartAt) => Covered(n, S)'
         /\ \A S : TruncatedIn(Truncated, S) => TruncatedIn(Truncated, S)'
<1> /\ TypeOK /\ LogInv /\ PollInv /\ Single /\ SinkTypeOK /\ FlushInv
    /\ BufInv /\ CoverInv /\ FileInv /\ PlaceInv /\ CatalogInv
  BY DEF SInv
<1>1. /\ \A k \in 1..Len(log) : Size(k)' = Size(k) /\ log'[k] = log[k] /\ k \in 1..Len(log')
      /\ \A k \in 1..Len(log') : k \notin 1..Len(log) =>
           /\ k = Len(log) + 1 /\ Size(k)' = RangeSize(log'[k])
           /\ \A i \in 0..Size(k)' - 1 :
                RecSeq(log'[k], i) \in Nat /\ manifest.nextSequence <= RecSeq(log'[k], i)
  BY Grown
<1>2. manifest.nextSequence \in Nat /\ StartAt \in Nat
  BY PosFacts
<1>3. Single'
  BY <1>1 DEF Single
<1>4. ASSUME NEW r, NEW q, At(r, q) PROVE At(r, q)'
  <2>1. PICK k \in 1..Len(log) : \E i \in 0..Size(k) - 1 : r = Rec(k, i) /\ q = RecSeq(log[k], i)
    BY <1>4 DEF At
  <2>2. PICK i \in 0..Size(k) - 1 : r = Rec(k, i) /\ q = RecSeq(log[k], i)
    BY <2>1
  <2>3. k \in 1..Len(log') /\ i \in 0..Size(k)' - 1 /\ q = RecSeq(log'[k], i)
    BY <1>1, <2>2
  <2> QED
    BY <2>2, <2>3 DEF At
<1>5. ASSUME NEW R, NEW a \in Nat, NEW b \in Nat, Exactly(R, a, b), b < manifest.nextSequence
      PROVE  Exactly(R, a, b)'
  <2>1. ASSUME NEW k \in 1..Len(log'), NEW i \in 0..Size(k)' - 1,
               a <= RecSeq(log'[k], i), RecSeq(log'[k], i) <= b
        PROVE  Rec(k, i) \in R
    <3>1. k \in 1..Len(log)
      BY <1>1, <1>2, <1>5, <2>1
    <3> QED
      BY <1>1, <1>5, <2>1, <3>1 DEF Exactly
  <2>2. ASSUME NEW r \in R PROVE \E s \in a..b : At(r, s)'
    <3>1. PICK s \in a..b : At(r, s)
      BY <1>5 DEF Exactly
    <3> QED
      BY <1>4, <3>1
  <2> QED
    BY <2>1, <2>2 DEF Exactly
<1>6. ASSUME NEW S, NEW n \in Int, Covered(n, S), n <= manifest.nextSequence \/ n <= StartAt
      PROVE  Covered(n, S)'
  <2>1. ASSUME NEW k \in 1..Len(log'), NEW i \in 0..Size(k)' - 1,
               StartAt <= RecSeq(log'[k], i), RecSeq(log'[k], i) < n
        PROVE  Rec(k, i) \in S
    <3>1. k \in 1..Len(log)
      BY <1>1, <1>2, <1>6, <2>1
    <3> QED
      BY <1>1, <1>6, <2>1, <3>1 DEF Covered
  <2> QED
    BY <2>1 DEF Covered
<1>7. ASSUME NEW S, TruncatedIn(Truncated, S) PROVE TruncatedIn(Truncated, S)'
  <2>1. Truncated' = Truncated /\ Truncated \in Nat /\ Len(log) \in Nat /\ Truncated <= Len(log)
    BY Grown, LogFacts, SMTT(30)
  <2>2. ASSUME NEW k \in 1..Len(log'), NEW i \in 0..Size(k)' - 1,
               StartAt <= RecSeq(log'[k], i), k <= Truncated
        PROVE  Rec(k, i) \in S
    <3>1. k \in 1..Len(log)
      BY <1>1, <2>1, <2>2
    <3> QED
      BY <1>1, <1>7, <2>2, <3>1 DEF TruncatedIn
  <2> QED
    BY <2>1, <2>2 DEF TruncatedIn
<1> QED
  BY <1>3, <1>4, <1>5, <1>6, <1>7

\* A writer's commit: SInv is kept.
LEMMA CommitStep ==
  ASSUME SInv, NEW count \in Counts, Commit(count), UNCHANGED sinkVars
  PROVE  SInv' /\ (OrderInv => OrderInv')
<1> /\ TypeOK /\ LogInv /\ PollInv /\ Single /\ SinkTypeOK /\ FlushInv
    /\ BufInv /\ CoverInv /\ FileInv /\ PlaceInv /\ CatalogInv
  BY DEF SInv
<1>0. /\ UNCHANGED <<next, restored, cursor, poll, applied>>
      /\ UNCHANGED <<buf, flush, files, catalog, visibleHigh, nextCursor, dropped>>
  BY DEF Commit, sinkVars
<1>1. /\ \A k \in 1..Len(log) : log'[k] = log[k]
      /\ \A k \in 1..Len(log') : k \notin 1..Len(log) =>
           manifest.nextSequence < End(log'[k]) /\ End(log'[k]) \in Nat
      /\ Truncated' = Truncated /\ TypeOK' /\ LogInv'
      /\ Len(log) \in Nat /\ Len(log') = Len(log) + 1
      /\ manifest.nextSequence \in Nat /\ manifest'.nextSequence \in Nat
      /\ manifest.nextSequence <= manifest'.nextSequence
  BY Grown
<1>2. /\ Single'
      /\ \A r, q : At(r, q) => At(r, q)'
      /\ \A R : \A a, b \in Nat :
           Exactly(R, a, b) /\ b < manifest.nextSequence => Exactly(R, a, b)'
  BY CommitKeeps
<1>3. /\ \A S : \A n \in Int :
           Covered(n, S) /\ (n <= manifest.nextSequence \/ n <= StartAt) => Covered(n, S)'
      /\ \A S : TruncatedIn(Truncated, S) => TruncatedIn(Truncated, S)'
  BY CommitKeeps
<1>4. Pos' = Pos /\ Ahead' = Ahead /\ Current' = Current
  BY <1>0 DEF Pos, Ahead, Taken, Current
<1>5. PollInv'
  <2>1. Truncated \in Nat
    BY LogFacts
  <2>2. Truncated' \in Int /\ Truncated <= Truncated' /\ Len(log') \in Nat /\ Len(log) <= Len(log')
    BY <1>1, <2>1
  <2>3. Reading' => Reading
    BY <1>0 DEF Reading
  <2> QED
    BY <1>0, <1>1, <2>2, <2>3, PollKept
<1>6. PlaceInv'
  <2>1. next \in Nat /\ nextCursor \in Nat /\ cursor \in Nat \cup {NoCursor}
    BY DEF TypeOK, SinkTypeOK
  <2> QED
    BY <1>0, <1>1, <1>4, <2>1 DEF PlaceInv, Reading
<1>7. SinkTypeOK'
  BY <1>0 DEF SinkTypeOK
<1>8. FlushInv'
  BY <1>0, <1>4 DEF FlushInv, Applying
<1>9. CatalogInv'
  BY <1>0, FileKept DEF CatalogInv
<1>10. FileInv'
  <2> SUFFICES ASSUME NEW f \in files
               PROVE  /\ StartAt <= f.first /\ f.first <= f.last /\ f.last < manifest'.nextSequence
                      /\ bucketOf(f.first) = f.bucket /\ bucketOf(f.last) = f.bucket
                      /\ Exactly(f.rows, f.first, f.last)'
    BY <1>0 DEF FileInv
  <2>0. PICK R : R = f.rows
    OBVIOUS
  <2>1. PICK a \in Nat, b \in Nat : R = f.rows /\ a = f.first /\ b = f.last
    BY <2>0 DEF SinkTypeOK, FileType
  <2>2. Exactly(R, a, b) /\ b < manifest.nextSequence
    BY <2>1 DEF FileInv
  <2>3. Exactly(R, a, b)' /\ b < manifest'.nextSequence
    BY <1>1, <1>2, <2>2
  <2> QED
    BY <2>1, <2>3 DEF FileInv
<1>11. BufInv'
  <2>1. ASSUME NEW j \in 1..Len(buf) PROVE At(buf[j].row, buf[j].seq)'
    <3>1. PICK r, q : r = buf[j].row /\ q = buf[j].seq
      OBVIOUS
    <3>2. At(r, q)'
      BY <1>2, <3>1 DEF BufInv
    <3> QED
      BY <1>0, <3>1, <3>2
  <2>2. \A k \in 1..Truncated : log'[k] = log[k]
    BY <1>1, LogFacts, SMTT(30)
  <2> QED
    BY <1>0, <1>1, <1>4, <2>1, <2>2 DEF BufInv
<1>12. CoverInv'
  <2>0. PICK S, T, t : S = Stored /\ T = Stored \cup Rows(buf) /\ t = Truncated
    OBVIOUS
  <2>1. PICK c \in Int, d \in Int, a \in Int :
          /\ S = Stored /\ T = Stored \cup Rows(buf) /\ t = Truncated
          /\ c = cursor /\ d = nextCursor /\ a = Ahead
    BY <2>0, PosFacts, SMTT(30) DEF TypeOK, SinkTypeOK, NoCursor
  <2>2. Stored' = S /\ (Stored \cup Rows(buf))' = T /\ Truncated' = t
    BY <1>0, <1>1, <2>1 DEF Stored, InFiles, Rows
  <2>3. Covered(c, S) /\ Covered(d, S) /\ Covered(a, T) /\ TruncatedIn(t, S)
    BY <2>1 DEF CoverInv
  <2>4. /\ c <= manifest.nextSequence \/ c <= StartAt
        /\ d <= manifest.nextSequence \/ d <= StartAt
        /\ a <= manifest.nextSequence \/ a <= StartAt
    BY <2>1, PosFacts, ReplicaAssumption DEF PlaceInv, NoCursor
  <2>5. Covered(c, S)' /\ Covered(d, S)' /\ Covered(a, T)'
    BY <1>3, <2>3, <2>4
  <2>7. TruncatedIn(t, S)'
    <3>1. TruncatedIn(Truncated, S)'
      BY <1>3, <2>1, <2>3
    <3> QED
      BY <2>2, <3>1 DEF TruncatedIn
  <2>6. ASSUME NEW f \in files PROVE Covered(f.last + 1, S)'
    <3>1. PICK b \in Nat : b = f.last
      BY DEF SinkTypeOK, FileType
    <3>2. b + 1 \in Int /\ b + 1 <= manifest.nextSequence
      BY <1>1, <3>1 DEF FileInv
    <3>3. Covered(b + 1, S)
      BY <2>1, <3>1 DEF CoverInv
    <3>4. PICK n \in Int : n = b + 1
      BY <3>2
    <3>5. Covered(n, S)'
      BY <1>3, <3>2, <3>3, <3>4
    <3> QED
      BY <3>1, <3>4, <3>5
  <2> QED
    BY <1>0, <1>4, <2>1, <2>2, <2>5, <2>6, <2>7 DEF CoverInv
<1>13. ASSUME OrderInv PROVE OrderInv'
  <2> SUFFICES ASSUME NEW k \in 1..Len(log'), Truncated < k, End(log'[k]) <= cursor
               PROVE  End(log'[k]) <= Pos
    BY <1>0, <1>1, <1>4 DEF OrderInv
  <2>1. CASE k \in 1..Len(log)
    BY <1>1, <1>13, <2>1 DEF OrderInv
  <2>2. CASE k \notin 1..Len(log)
    <3>1. manifest.nextSequence < End(log'[k]) /\ End(log'[k]) \in Nat
      BY <1>1, <2>2
    <3>2. cursor <= manifest.nextSequence /\ cursor \in Int
      BY <1>1, SMTT(30) DEF PlaceInv, TypeOK, NoCursor
    <3> QED
      BY <1>1, <3>1, <3>2
  <2> QED
    BY <2>1, <2>2
<1> QED
  BY <1>1, <1>2, <1>5, <1>6, <1>7, <1>8, <1>9, <1>10, <1>11, <1>12, <1>13 DEF SInv

\* Retention: what it takes away was stored before, and a poll under way is
\* past it.
LEMMA RetainStep ==
  ASSUME NatFacts, SInv, Retain, UNCHANGED sinkVars, OrderInv \/ (buf = <<>> /\ poll.pc = "idle")
  PROVE  SInv' /\ (OrderInv => OrderInv')
<1> /\ TypeOK /\ LogInv /\ PollInv /\ Single /\ SinkTypeOK /\ FlushInv
    /\ BufInv /\ CoverInv /\ FileInv /\ PlaceInv /\ CatalogInv
  BY DEF SInv
<1>0. /\ UNCHANGED <<log, next, restored, cursor, poll, applied>>
      /\ UNCHANGED <<buf, flush, files, catalog, visibleHigh, nextCursor, dropped>>
  BY DEF Retain, sinkVars
<1>1. /\ TypeOK' /\ LogInv' /\ Truncated' \in Nat /\ Truncated <= Truncated'
      /\ \A k \in 1..Truncated' : k <= Truncated \/ End(log[k]) <= LowWatermark
  BY RetainLog
<1>2. /\ Truncated \in Nat /\ Len(log) \in Nat
      /\ \A k \in 1..Len(log) : log[k] \in Entry /\ End(log[k]) \in Nat /\ log[k].Sequence \in Nat
                                /\ log[k].Sequence < End(log[k])
  BY LogFacts, EntryTypes
<1>3. Truncated' <= Len(log)
  <2>1. manifest'.entries \in Seq(Entry)
    BY <1>1 DEF TypeOK
  <2>2. Len(manifest'.entries) \in Nat
    BY <2>1
  <2>3. Truncated' = Len(log) - Len(manifest'.entries)
    BY <1>0 DEF Truncated
  <2> QED
    BY <1>2, <2>2, <2>3
<1>4. manifest'.nextSequence = manifest.nextSequence
  BY <1>0, <1>1 DEF LogInv
<1>5. Pos' = Pos /\ Ahead' = Ahead /\ Current' = Current /\ Pos \in Nat /\ StartAt \in Nat /\ StartAt <= Pos
  BY <1>0, PosFacts DEF Pos, Ahead, Taken, Current
<1>6. PollInv'
  <2>1. Reading' => Reading
    BY <1>0 DEF Reading
  <2> QED
    BY <1>0, <1>1, <1>2, <2>1, PollKept
<1>7. ASSUME OrderInv, NEW k \in 1..Truncated', Truncated < k PROVE End(log[k]) <= Pos
  <2>1. End(log[k]) <= LowWatermark /\ k \in 1..Len(log)
    BY <1>1, <1>2, <1>3, <1>7
  <2>2. CASE cursor = NoCursor
    BY <1>2, <1>5, <2>1, <2>2 DEF LowWatermark
  <2>3. CASE cursor # NoCursor
    BY <1>7, <2>1, <2>3 DEF LowWatermark, OrderInv
  <2> QED
    BY <2>2, <2>3
<1>8. PlaceInv'
  <2> SUFFICES ASSUME Reading
               PROVE  \/ Truncated' < Current.Location.segment
                      \/ /\ Truncated' = Current.Location.segment
                         /\ poll.pc = "apply" /\ poll.i = Current.Location.records
    BY <1>0, <1>4, <1>5, ZenonT(30) DEF PlaceInv, Reading
  <2>1. OrderInv
    BY DEF Reading
  <2>2. PICK c \in 1..Len(log) : c = Current.Location.segment /\ Current = log[c] /\ Current \in Entry
    BY CurrentIs
  <2>3. Pos < End(log[c]) \/ (poll.pc = "apply" /\ poll.i = Current.Location.records /\ Pos = End(log[c]))
    <3>1. CASE poll.pc # "apply"
      BY <2>2, <3>1 DEF Pos, PollInv
    <3>2. CASE poll.pc = "apply"
      <4>1. PICK q \in Nat, i \in Nat, n \in Nat :
              /\ q = log[c].Sequence /\ i = poll.i /\ n = Size(c)
              /\ End(log[c]) = q + n /\ Pos = q + i /\ i <= n /\ Current.Location.records = n
        BY <2>2, <3>2, ApplyFacts
      <4> QED
        BY <3>2, <4>1
    <3> QED
      BY <3>1, <3>2
  <2>4. ASSUME c < Truncated' PROVE FALSE
    <3>1. c + 1 \in 1..Truncated' /\ c + 1 \in 1..Len(log) /\ c \in Nat
      BY <1>1, <1>2, <1>3, <2>4
    <3>2. Truncated < c + 1
      BY <1>2, <2>2, <3>1 DEF PlaceInv
    <3>3. End(log[c + 1]) <= Pos
      BY <1>7, <2>1, <3>1, <3>2
    <3>4. c < c + 1
      BY <3>1
    <3>5. End(log[c]) <= log[c + 1].Sequence
      BY <3>1, <3>4 DEF LogInv
    <3>6. /\ log[c + 1].Sequence < End(log[c + 1]) /\ log[c + 1].Sequence \in Nat
          /\ End(log[c + 1]) \in Nat /\ End(log[c]) \in Nat
      BY <1>2, <3>1
    <3> QED
      BY <1>5, <2>3, <3>3, <3>5, <3>6
  <2>5. ASSUME c = Truncated', Truncated < c PROVE ~(Pos < End(log[c]))
    <3>1. c \in 1..Truncated'
      BY <2>5
    <3>2. End(log[c]) <= Pos
      BY <1>7, <2>1, <2>5, <3>1
    <3> QED
      BY <1>2, <1>5, <3>2
  <2>6. Truncated < c \/ (Truncated = c /\ poll.pc = "apply" /\ poll.i = Current.Location.records)
    BY <2>2 DEF PlaceInv
  <2> QED
    BY <1>1, <1>2, <2>2, <2>3, <2>4, <2>5, <2>6
<1>9. SinkTypeOK' /\ FlushInv'
  BY <1>0, <1>5 DEF SinkTypeOK, FlushInv, Applying
<1>10. CatalogInv'
  BY <1>0, FileKept DEF CatalogInv
<1>11. Single' /\ FileInv'
  BY <1>0, <1>4, SMTT(30) DEF Single, FileInv, Exactly, At, Size
<1>12. BufInv'
  <2>1. ASSUME buf # <<>>, NEW k \in 1..Truncated' PROVE End(log[k]) <= Pos
    <3>1. CASE k <= Truncated
      BY <1>1, <1>2, <2>1, <3>1 DEF BufInv
    <3>2. CASE Truncated < k
      BY <1>7, <2>1, <3>2
    <3> QED
      BY <1>1, <1>2, <3>1, <3>2
  <2>2. \A r, q : At(r, q)' <=> At(r, q)
    BY <1>0 DEF At, Size
  <2> QED
    BY <1>0, <1>5, <2>1, <2>2 DEF BufInv
<1>13. CoverInv'
  <2>1. Stored' = Stored /\ Rows(buf)' = Rows(buf)
    BY <1>0 DEF Stored, InFiles, Rows
  <2>2. TruncatedIn(Truncated', Stored)
    <3> SUFFICES ASSUME NEW k \in 1..Len(log), NEW i \in 0..Size(k) - 1,
                        StartAt <= RecSeq(log[k], i), k <= Truncated'
                 PROVE  Rec(k, i) \in Stored
      BY DEF TruncatedIn
    <3>1. CASE k <= Truncated
      BY <3>1 DEF CoverInv, TruncatedIn
    <3>2. CASE ~(k <= Truncated)
      <4>1. k \in 1..Truncated'
        BY <1>1, <1>2
      <4>2. End(log[k]) <= LowWatermark
        BY <1>1, <3>2, <4>1
      <4>3. RecSeq(log[k], i) \in Nat /\ RecSeq(log[k], i) < End(log[k]) /\ End(log[k]) \in Nat
        BY RecordBounds
      <4>4. LowWatermark \in Nat
        BY <1>5 DEF LowWatermark, TypeOK
      <4>5. RecSeq(log[k], i) < LowWatermark
        BY <4>2, <4>3, <4>4
      <4>6. cursor # NoCursor
        BY <1>5, <4>3, <4>5 DEF LowWatermark
      <4> QED
        BY <4>5, <4>6 DEF LowWatermark, CoverInv, Covered
    <3> QED
      BY <3>1, <3>2
  <2> QED
    BY <1>0, <1>5, <2>1, <2>2, CoverStep DEF CoverInv
<1>14. OrderInv => OrderInv'
  BY <1>0, <1>1, <1>2, <1>5 DEF OrderInv
<1> QED
  BY <1>1, <1>6, <1>8, <1>9, <1>10, <1>11, <1>12, <1>13, <1>14 DEF SInv

\* The sink stands still: what is said of it alone stays true.
LEMMA SinkKept ==
  ASSUME SInv, UNCHANGED allVars
  PROVE  /\ SInv' /\ (OrderInv => OrderInv') /\ Stored' = Stored /\ InFiles' = InFiles
         /\ UNCHANGED <<manifest, log, poll, flush, buf, files, dropped>>
<1> /\ TypeOK /\ LogInv /\ PollInv /\ Single /\ SinkTypeOK /\ FlushInv
    /\ BufInv /\ CoverInv /\ FileInv /\ PlaceInv /\ CatalogInv
  BY DEF SInv
<1>0. /\ UNCHANGED <<manifest, log, next, restored, cursor, poll, applied>>
      /\ UNCHANGED <<buf, flush, files, catalog, visibleHigh, nextCursor, dropped>>
  BY DEF allVars, vars, sinkVars
<1>1. TypeOK' /\ LogInv' /\ Truncated' = Truncated
  BY <1>0, TruncatedKept DEF TypeOK
<1>2. Pos' = Pos /\ Ahead' = Ahead /\ Current' = Current /\ Pos \in Nat
  BY <1>0, PosFacts DEF Pos, Ahead, Taken, Current
<1>3. PollInv' /\ PlaceInv'
  BY <1>0, <1>1, <1>2 DEF PollInv, PlaceInv, Reading, Slice
<1>4. Single' /\ FileInv'
  BY <1>0, FilesKept
<1>5. SinkTypeOK'
  BY <1>0 DEF SinkTypeOK
<1>6. FlushInv'
  BY <1>0, <1>2 DEF FlushInv, Applying
<1>7. BufInv'
  BY <1>0, <1>1, <1>2 DEF BufInv, At, Size
<1>8. CatalogInv'
  BY <1>0, FileKept DEF CatalogInv
<1>9. Stored' = Stored /\ Rows(buf)' = Rows(buf) /\ InFiles' = InFiles
  BY <1>0 DEF Stored, InFiles, Rows
<1>10. CoverInv'
  BY <1>0, <1>1, <1>2, <1>9, CoverStep DEF CoverInv
<1>11. OrderInv => OrderInv'
  BY <1>0, <1>2, OrderedUp
<1> QED
  BY <1>0, <1>1, <1>3, <1>4, <1>5, <1>6, <1>7, <1>8, <1>9, <1>10, <1>11 DEF SInv

\* What is stored stays stored, and what is buffered is stored or stays.
LEMMA StoredGrows ==
  ASSUME SInv, SinkCalls \/ SinkErrors
  PROVE  /\ UNCHANGED <<manifest, log>>
         /\ Stored \subseteq Stored' /\ Stored \cup Rows(buf) \subseteq Stored' \cup Rows(buf)'
<1> /\ TypeOK /\ LogInv /\ PollInv /\ Single /\ SinkTypeOK /\ FlushInv
    /\ BufInv /\ CoverInv /\ FileInv /\ PlaceInv /\ CatalogInv
  BY DEF SInv
<1>1. ASSUME UNCHANGED <<buf, files, dropped>>
      PROVE  Stored \subseteq Stored' /\ Stored \cup Rows(buf) \subseteq Stored' \cup Rows(buf)'
  BY <1>1 DEF Stored, InFiles, Rows
<1>2. ASSUME UNCHANGED files, DropBatch
      PROVE  Stored \subseteq Stored' /\ Stored \cup Rows(buf) \subseteq Stored' \cup Rows(buf)'
  BY <1>2 DEF Stored, InFiles, DropBatch
<1>3. CASE Fetch
  <2>1. UNCHANGED <<manifest, log>> /\ UNCHANGED <<buf, files, dropped>>
    BY <1>3 DEF Fetch, LoadManifest, GetSegment, SegmentDone, Save, BeginPoll, sinkVars
  <2> QED
    BY <1>1, <2>1
<1>4. CASE PollEnds \/ FlushBoundary \/ FlushNothing
  <2>1. UNCHANGED <<manifest, log>> /\ UNCHANGED <<buf, files, dropped>>
    BY <1>4 DEF PollEnds, EndPoll, FlushBoundary, FlushNothing, vars
  <2> QED
    BY <1>1, <2>1
<1>5. CASE SaveSinkCursor
  <2>1. UNCHANGED <<manifest, log>> /\ UNCHANGED <<buf, files, dropped>>
    BY <1>5 DEF SaveSinkCursor
  <2> QED
    BY <1>1, <2>1
<1>6. CASE Buffer
  <2>1. /\ UNCHANGED <<manifest, log>> /\ UNCHANGED <<files, dropped>>
        /\ buf' = Append(buf, [seq |-> Seq0, row |-> ThisRecord])
    BY <1>6 DEF Buffer, vars
  <2>2. PICK x : x = [seq |-> Seq0, row |-> ThisRecord]
    OBVIOUS
  <2>3. buf \in Seq(Item) /\ Len(buf) \in Nat
    BY DEF SinkTypeOK
  <2>4. DOMAIN buf \subseteq DOMAIN buf' /\ \A j \in DOMAIN buf : buf'[j] = buf[j]
    <3>1. buf \in Seq(Item \cup {x}) /\ x \in Item \cup {x}
      BY <2>3
    <3>2. buf' = Append(buf, x)
      BY <2>1, <2>2
    <3>3. PICK E : E = Item \cup {x}
      OBVIOUS
    <3>4. buf \in Seq(E) /\ x \in E
      BY <3>1, <3>3
    <3> QED
      BY <3>2, <3>4
  <2>5. Rows(buf) \subseteq Rows(buf)'
    BY <2>4 DEF Rows
  <2>6. Stored' = Stored
    BY <2>1 DEF Stored, InFiles
  <2> QED
    BY <2>1, <2>5, <2>6
<1>7. CASE Publish
  <2>1. /\ UNCHANGED <<manifest, log>> /\ buf' = buf /\ buf # <<>>
        /\ files' = {f \in files : ~SameName(f, FileOf(Run))} \cup {FileOf(Run)}
        /\ dropped' = dropped \ Rows(Run)
    BY <1>7 DEF Publish, vars
  <2>2. Run = buf
    BY <2>1, RunIs
  <2>3. PICK F : F = FileOf(Run)
    OBVIOUS
  <2>4. F.rows = Rows(buf) /\ F.first = buf[1].seq /\ F.last = buf[Len(buf)].seq
    BY <2>2, <2>3 DEF FileOf
  <2>5. ASSUME NEW f \in files, SameName(f, F) PROVE f.rows = Rows(buf)
    <3>1. Exactly(f.rows, F.first, F.last)
      BY <2>5 DEF FileInv, SameName
    <3>2. Exactly(Rows(buf), F.first, F.last)
      BY <2>1, <2>4, RunIs
    <3> QED
      BY <3>1, <3>2, ExactlyOne
  <2>6. InFiles \cup Rows(buf) \subseteq InFiles'
    <3>1. F \in files' /\ \A f \in files : f \in files' \/ SameName(f, F)
      BY <2>1, <2>3
    <3> QED
      BY <2>4, <2>5, <3>1 DEF InFiles
  <2> QED
    BY <2>1, <2>2, <2>6 DEF Stored
<1>8. CASE CommitFile
  <2>1. UNCHANGED <<manifest, log>> /\ UNCHANGED <<files, dropped>> /\ flush.pc = "commit"
    BY <1>8 DEF CommitFile, vars
  <2>2. buf # <<>> /\ FileOf(Run) \in files
    BY <2>1 DEF FlushInv, CatalogInv
  <2>3. Run = buf
    BY <2>2, RunIs
  <2>4. FileOf(Run).rows = Rows(buf)
    BY <2>3 DEF FileOf
  <2>5. Rows(buf) \subseteq InFiles
    BY <2>2, <2>4 DEF InFiles
  <2>6. Stored' = Stored
    BY <2>1 DEF Stored, InFiles
  <2> QED
    BY <2>1, <2>5, <2>6 DEF Stored
<1>9. CASE SinkErrors
  <2>1. UNCHANGED <<manifest, log>> /\ UNCHANGED files /\ (DropBatch \/ UNCHANGED <<buf, dropped>>)
    BY <1>9 DEF SinkErrors, FetchFails, LoadFails, GetFails, DecodeFails, ApplyFails, WriteFails,
                SaveSinkCursorFails, FlushErrors, replicaVars
  <2> QED
    BY <1>1, <1>2, <2>1
<1> QED
  BY <1>3, <1>4, <1>5, <1>6, <1>7, <1>8, <1>9 DEF SinkCalls

\* The invariant holds at the start.
LEMMA SinkInitInv ==
  ASSUME SinkInit, LegacyRecords \subseteq {1}
  PROVE  SInv /\ OrderInv
<1>1. /\ Init /\ buf = <<>> /\ flush = NoFlush /\ files = {} /\ catalog = {}
      /\ visibleHigh = Nothing /\ nextCursor = StartAt /\ dropped = {}
  BY DEF SinkInit
<1>2. TypeOK /\ LogInv /\ PollInv
  BY <1>1, InitInd DEF IInv
<1>3. /\ next = StartAt /\ cursor = NoCursor /\ poll.pc = "idle" /\ log = manifest.entries
  BY <1>1 DEF Init, Idle
<1>4. StartAt \in Nat /\ Truncated = 0
  <2>1. Len(log) \in Nat
    BY <1>2, LogFacts
  <2> QED
    BY <1>3, <2>1, ReplicaAssumption DEF Truncated
<1>5. Pos = StartAt /\ Ahead = StartAt
  BY <1>1, <1>3 DEF Pos, Ahead, Taken, NoFlush
<1>6. Single
  <2>1. CASE manifest = NewManifest
    <3>1. log = <<>>
      BY <1>3, <2>1 DEF NewManifest
    <3> QED
      BY <3>1 DEF Single
  <2>2. CASE manifest # NewManifest
    <3>1. PICK records \in LegacyRecords :
            manifest = [NewManifest EXCEPT
              !.entries = <<[Sequence |-> 0, Count |-> 0, Location |-> Location(1, records)]>>,
              !.nextSequence = 1]
      BY <1>1, <2>2 DEF Init
    <3>2. log = <<[Sequence |-> 0, Count |-> 0, Location |-> Location(1, records)]>>
      BY <1>3, <3>1 DEF NewManifest
    <3>3. PICK e : e = [Sequence |-> 0, Count |-> 0, Location |-> Location(1, records)]
      OBVIOUS
    <3>4. e.Location.records = 1 /\ RangeSize(e) = 1
      BY <3>3 DEF Location, RangeSize
    <3>5. log = <<e>>
      BY <3>2, <3>3
    <3>6. \A k \in 1..Len(log) : log[k] = e
      BY <3>5
    <3> QED
      BY <3>4, <3>6 DEF Single, Size
  <2> QED
    BY <2>1, <2>2
<1>7. SinkTypeOK
  <2>1. <<>> \in Seq(Item)
    OBVIOUS
  <2> QED
    BY <1>1, <1>4, <2>1 DEF SinkTypeOK
<1>8. FlushInv /\ BufInv /\ FileInv /\ CatalogInv
  BY <1>1 DEF FlushInv, BufInv, FileInv, CatalogInv, NoFlush
<1>9. PlaceInv
  BY <1>1, <1>3, <1>4 DEF PlaceInv, Reading
<1>10. CoverInv
  <2>1. NoCursor \in Int /\ NoCursor <= StartAt
    BY <1>4 DEF NoCursor
  <2>2. \A S : Covered(NoCursor, S) /\ Covered(StartAt, S)
    BY <1>2, <1>4, <2>1, CoveredLow
  <2>3. TruncatedIn(0, Stored)
    <3>1. Len(log) \in Nat
      BY <1>2, LogFacts
    <3> QED
      BY <3>1 DEF TruncatedIn
  <2> QED
    BY <1>1, <1>3, <1>4, <1>5, <2>2, <2>3, ZenonT(30) DEF CoverInv
<1>11. OrderInv
  <2>1. \A k \in 1..Len(log) : ~(End(log[k]) <= NoCursor)
    BY <1>2, LogFacts, EntryTypes, SMTT(30) DEF NoCursor
  <2> QED
    BY <1>3, <2>1 DEF OrderInv
<1> QED
  BY <1>2, <1>6, <1>7, <1>8, <1>9, <1>10, <1>11, ZenonT(30) DEF SInv

\* Every step of the sink preserves the invariant.
LEMMA SinkNextInv ==
  ASSUME NatFacts, SInv, OrderInv, [SinkNext]_allVars
  PROVE  SInv' /\ OrderInv'
<1>1. CASE Writer
  BY <1>1, CommitStep DEF Writer
<1>2. CASE Retention
  BY <1>2, RetainStep DEF Retention
<1>3. CASE SinkCalls
  BY <1>3, CallsStep
<1>4. CASE SinkErrors
  BY <1>4, SinkErrorsStep
<1>5. CASE SinkRestart
  BY <1>5, RestartStep
<1>6. CASE UNCHANGED allVars
  BY <1>6, SinkKept
<1> QED
  BY <1>1, <1>2, <1>3, <1>4, <1>5, <1>6 DEF SinkNext

-----------------------------------------------------------------------------
(* What it implies.                                                        *)

\* Below(n) is what Covered speaks of.
LEMMA CoveredBelow ==
  ASSUME SInv, NEW n \in Int, NEW S, Covered(n, S)
  PROVE  Below(n) \subseteq S
BY BelowIs, SMTT(30) DEF SInv, Covered

\* A file's rows, in the terms of the property.
LEMMA FilesRange ==
  SInv => FilesHoldTheirRange
<1> SUFFICES ASSUME SInv, NEW f \in files
             PROVE  /\ f.rows = Below(f.last + 1) \ Below(f.first)
                    /\ bucketOf(f.first) = f.bucket /\ bucketOf(f.last) = f.bucket
  BY DEF FilesHoldTheirRange
<1>1. SInv /\ TypeOK /\ LogInv
  BY DEF SInv
<1>2. /\ StartAt <= f.first /\ f.first <= f.last /\ Exactly(f.rows, f.first, f.last)
      /\ bucketOf(f.first) = f.bucket /\ bucketOf(f.last) = f.bucket
      /\ f.first \in Nat /\ f.last \in Nat /\ StartAt \in Nat
  BY <1>1, PosFacts DEF SInv, FileInv, SinkTypeOK, FileType
<1>3. PICK a \in Nat, b \in Nat : a = f.first /\ b = f.last
  BY <1>2
<1>4. a \in Int /\ b + 1 \in Int
  OBVIOUS
<1>5. ASSUME NEW r \in f.rows PROVE r \in Below(b + 1) \ Below(a)
  <2>1. PICK s \in a..b : At(r, s)
    BY <1>2, <1>3 DEF Exactly
  <2>2. PICK k \in 1..Len(log) : \E i \in 0..Size(k) - 1 : r = Rec(k, i) /\ s = RecSeq(log[k], i)
    BY <2>1 DEF At
  <2>3. PICK i \in 0..Size(k) - 1 : r = Rec(k, i) /\ s = RecSeq(log[k], i)
    BY <2>2
  <2>4. StartAt <= s /\ s < b + 1 /\ ~(s < a)
    BY <1>2, <1>3
  <2>5. r \in Below(b + 1)
    BY <1>1, <1>4, <2>3, <2>4, BelowIs
  <2>6. ASSUME r \in Below(a) PROVE FALSE
    <3>1. PICK l \in 1..Len(log) : \E j \in 0..Size(l) - 1 : RecSeq(log[l], j) < a /\ r = Rec(l, j)
      BY <1>1, <1>4, <2>6, BelowIs, SMTT(30)
    <3>2. PICK j \in 0..Size(l) - 1 : RecSeq(log[l], j) < a /\ r = Rec(l, j)
      BY <3>1
    <3>3. l = k /\ j = i
      BY <2>3, <3>2 DEF Rec
    <3> QED
      BY <2>3, <2>4, <3>2, <3>3
  <2> QED
    BY <2>5, <2>6
<1>6. ASSUME NEW r \in Below(b + 1), r \notin Below(a) PROVE r \in f.rows
  <2>1. PICK k \in 1..Len(log) : \E i \in 0..Size(k) - 1 :
          StartAt <= RecSeq(log[k], i) /\ RecSeq(log[k], i) < b + 1 /\ r = Rec(k, i)
    BY <1>1, <1>4, BelowIs, SMTT(30)
  <2>2. PICK i \in 0..Size(k) - 1 :
          StartAt <= RecSeq(log[k], i) /\ RecSeq(log[k], i) < b + 1 /\ r = Rec(k, i)
    BY <2>1
  <2>3. ~(RecSeq(log[k], i) < a)
    BY <1>1, <1>4, <1>6, <2>2, BelowIs
  <2>4. RecSeq(log[k], i) \in Nat
    BY <1>1, RecordBounds
  <2>5. a <= RecSeq(log[k], i) /\ RecSeq(log[k], i) <= b
    BY <2>2, <2>3, <2>4
  <2> QED
    BY <1>2, <1>3, <2>2, <2>5 DEF Exactly
<1>7. f.rows = Below(b + 1) \ Below(a)
  BY <1>5, <1>6
<1> QED
  BY <1>2, <1>3, <1>7

\* What the invariant says of drops, in the terms of the property.
LEMMA DropsLose ==
  SInv => OnlyDropsLose
<1> SUFFICES ASSUME SInv PROVE OnlyDropsLose
  OBVIOUS
<1>1. SInv /\ CoverInv /\ TypeOK /\ LogInv
  BY DEF SInv
<1>2. /\ cursor \in Int /\ nextCursor \in Int /\ next \in Int /\ Ahead \in Int /\ next <= Ahead
  BY <1>1, PosFacts DEF SInv, TypeOK, SinkTypeOK, NoCursor
<1>3. Covered(next, Stored \cup Rows(buf))
  BY <1>1, <1>2, CoveredMono DEF CoverInv
<1>4. Below(next) \subseteq Stored \cup Rows(buf)
  BY <1>1, <1>2, <1>3, CoveredBelow
<1>5. Below(cursor) \subseteq Stored /\ Below(nextCursor) \subseteq Stored
  BY <1>1, <1>2, CoveredBelow DEF CoverInv
<1> QED
  BY <1>4, <1>5 DEF OnlyDropsLose, Stored

\* What the invariant says of the catalog, in the terms of the property.
LEMMA CatalogTrue ==
  SInv => CatalogIsTrue
BY DEF SInv, CatalogInv, CatalogIsTrue

\* A file is the record set of its name: two files of one name are equal.
LEMMA OneFilePerName ==
  ASSUME SInv, SInv', log' = log
  PROVE  Overwrites
<1> SUFFICES ASSUME NEW f \in files, NEW g \in files', SameName(f, g)
             PROVE  f = g
  BY DEF Overwrites
<1>1. f \in FileType /\ g \in FileType
  BY DEF SInv, SinkTypeOK
<1>2. Exactly(f.rows, f.first, f.last)
  BY DEF SInv, FileInv
<1>3. PICK R, a, b : R = g.rows /\ a = g.first /\ b = g.last
  OBVIOUS
<1>4. Exactly(R, a, b)'
  BY <1>3 DEF SInv, FileInv
<1>5. Exactly(R, a, b)
  BY <1>4, SMTT(30) DEF Exactly, At, Size
<1>6. f.rows = R
  BY <1>2, <1>3, <1>5, ExactlyOne DEF SameName
<1> QED
  BY <1>1, <1>3, <1>6 DEF SameName, FileType

\* A file that replaces one of the same name is the same file.
LEMMA Identically ==
  ASSUME NatFacts, SInv, OrderInv, [SinkNext]_allVars
  PROVE  [Overwrites]_files
<1> SUFFICES ASSUME SInv, OrderInv, [SinkNext]_allVars, files' # files PROVE Overwrites
  OBVIOUS
<1>1. SInv'
  BY SinkNextInv
<1>2. log' = log
  <2>1. ~Writer
    BY DEF Writer, sinkVars
  <2> QED
    BY <2>1, StoredGrows DEF SinkNext, Retention, Retain, SinkRestart, allVars, vars
<1> QED
  BY <1>1, <1>2, OneFilePerName

=============================================================================
