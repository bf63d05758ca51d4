------------------------------ MODULE Manifest ------------------------------
(***************************************************************************)
(* The manifest value of wal/manifest.go and its operations, as pure       *)
(* operators.  A manifest is the object every writer replaces by           *)
(* compare-and-swap and every reader polls: an ordered list of entries,    *)
(* each owning a range of record sequences, the next sequence to assign,   *)
(* the fencing epoch and the snapshot pointer.                             *)
(*                                                                         *)
(* The base/appended split of the Go struct is an encoding matter (both    *)
(* regions are decoded in order by Entries), so the entries are one        *)
(* sequence here.  Per-group metadata is opaque to the manifest and left   *)
(* out; a snapshot pointer is abstracted to the sequence it covers.        *)
(***************************************************************************)
EXTENDS Integers, Sequences

\* SnapshotPointer.IsZero: no snapshot taken yet.
NoSnapshot == [taken |-> FALSE, ThroughSeq |-> 0]

NewManifest ==
  [entries |-> <<>>, nextSequence |-> 0, epoch |-> 0, snapshot |-> NoSnapshot]

-----------------------------------------------------------------------------
(* Entry: the range [Sequence, End) it owns. Count = 0 is the legacy       *)
(* sentinel: one sequence slot shared by all records of the segment.       *)

RangeSize(e) == IF e.Count = 0 THEN 1 ELSE e.Count

End(e) == e.Sequence + RangeSize(e)

EntryContains(e, seq) == e.Sequence <= seq /\ seq < End(e)

Live(m) == {m.entries[i] : i \in DOMAIN m.entries}

\* The loop that reads and truncations share: the entries that are in S.
Kept(entries, S) ==
  LET out[i \in 0..Len(entries)] ==
        IF i = 0 THEN <<>>
        ELSE IF entries[i] \in S THEN Append(out[i - 1], entries[i]) ELSE out[i - 1]
  IN  out[Len(entries)]

-----------------------------------------------------------------------------
(* Mutations.                                                              *)

\* Mutant of AppendEntry: an off-by-one in the range.
AppendOverlapping(m, location, count) ==
  [m EXCEPT !.entries = Append(m.entries, [Sequence |-> m.nextSequence,
                                           Count    |-> count,
                                           Location |-> location]),
            !.nextSequence = m.nextSequence + count - 1]

\* Manifest.Append: the new entry starts at nextSequence, which advances by
\* count. The sequence the code returns is m.nextSequence before the call.
AppendEntry(m, location, count) ==
  [m EXCEPT !.entries = Append(m.entries, [Sequence |-> m.nextSequence,
                                           Count    |-> count,
                                           Location |-> location]),
            !.nextSequence = m.nextSequence + count]

SetEpoch(m, e) == [m EXCEPT !.epoch = e]

SetSnapshot(m, through) ==
  [m EXCEPT !.snapshot = [taken |-> TRUE, ThroughSeq |-> through]]

\* Mutant of TruncateThrough: an entry that is only partly covered goes too.
TruncatePartly(m, throughSeq) ==
  [m EXCEPT !.entries = Kept(m.entries, {e \in Live(m) : ~(e.Sequence <= throughSeq)})]

\* Drops the entries wholly at or below throughSeq; never splits a segment
\* and never moves nextSequence.
TruncateThrough(m, throughSeq) ==
  [m EXCEPT !.entries = Kept(m.entries, {e \in Live(m) : ~(End(e) - 1 <= throughSeq)})]

-----------------------------------------------------------------------------
(* Reads.                                                                  *)

EntriesAfter(m, afterSeq) ==
  Kept(m.entries, {e \in Live(m) : e.Sequence > afterSeq})

EntriesFrom(m, minSeq) ==
  Kept(m.entries, {e \in Live(m) : e.Sequence >= minSeq})

\* Mutant of EntriesContaining: the entry that seq is inside of is missed.
EntriesBeyond(m, seq) ==
  Kept(m.entries, {e \in Live(m) : e.Sequence >= seq})

\* The entries needed to replay from record sequence seq onward.
EntriesContaining(m, seq) ==
  Kept(m.entries, {e \in Live(m) : End(e) > seq})

\* The last `limit` live entries, which the code indexes by location.
TailLocations(m, limit) ==
  LET n == Len(m.entries)
      from == IF n > limit THEN n - limit + 1 ELSE 1
  IN  IF limit <= 0 THEN {} ELSE {m.entries[i] : i \in from..n}

\* Mutant of PastEnd: the search stops one entry early.
PastEndBy1(e, seq) == End(e) < seq

\* The test of Locate's search: seq is in a later entry.
PastEnd(e, seq) == End(e) <= seq

\* Binary search for the entry that holds seq: its position and the offset
\* of the record in the segment.
Locate(m, seq) ==
  LET n == Len(m.entries)
      search[lo \in 0..n, hi \in 0..n] ==
        IF lo < hi
        THEN LET mid == (lo + hi) \div 2
             IN  IF PastEnd(m.entries[mid + 1], seq)
                 THEN search[mid + 1, hi]
                 ELSE search[lo, mid]
        ELSE lo
      at == search[0, n] + 1
  IN  IF at <= n /\ EntryContains(m.entries[at], seq)
      THEN [found |-> TRUE, entry |-> at, offset |-> seq - m.entries[at].Sequence]
      ELSE [found |-> FALSE, entry |-> 0, offset |-> 0]

-----------------------------------------------------------------------------
(* The invariant ParseManifest's callers rely on: "Entries are sorted and  *)
(* contiguous".  Live entries tile [first live sequence, nextSequence).    *)

Tiles(m) ==
  /\ \A i \in 1..Len(m.entries) - 1 :
       m.entries[i + 1].Sequence = End(m.entries[i])
  /\ m.entries # <<>> => m.nextSequence = End(m.entries[Len(m.entries)])

=============================================================================
