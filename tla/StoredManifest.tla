--------------------------- MODULE StoredManifest ---------------------------
(***************************************************************************)
(* The manifest as it is stored (wal/store.go): users load the object from *)
(* a store that injects faults, work on the parsed struct (writers append  *)
(* and claim, retention takes snapshots and truncates) and commit its      *)
(* serialized form against the version they loaded.  The object may have   *)
(* been left behind by an earlier version of the program, with a footer of *)
(* v1 to v3.                                                               *)
(*                                                                         *)
(* Beside the bytes the module carries what they stand for: the value the  *)
(* object and each user's struct should have, worked out with the          *)
(* operators of Manifest, which is all that LogWriter and Replica know.    *)
(***************************************************************************)
EXTENDS ManifestFormat, SegmentFormat, SimStore, FiniteSetsExt, SequencesExt

CONSTANTS
  Users, None,
  Retainers,   \* the users that retire entries
  Counts,      \* records of an appended segment
  OldEntries,  \* bound: entries of an object of an earlier version
  MaxAppends,  \* bound: segments appended
  MaxEpoch,    \* bound: epochs claimed
  MaxWrites    \* bound: successful writes

ASSUME StoredAssumption ==
  /\ Retainers \subseteq Users /\ Counts \subseteq Nat \ {0}
  /\ {OldEntries, MaxAppends, MaxEpoch, MaxWrites} \subseteq Nat

VARIABLES
  object,   \* the manifest object
  held,     \* the struct and version each user works on, or None
  stored,   \* the value the object stands for
  meant,    \* the value each user's struct stands for
  appends   \* segments appended so far, which names the next one

vars == <<object, held, stored, meant, appends>>

\* Objects of earlier versions with n entries: v1 and v2 have no Count field,
\* v1 has no snapshot block.
Old(version, n) ==
  LET entry(i) == IF version = 3 THEN <<3, 2 * (i - 1), 2, i>> ELSE <<2, i - 1, i>>
      region[i \in 0..n] == IF i = 0 THEN <<>> ELSE region[i - 1] \o entry(i)
  IN  region[n] \o (IF version = 1 THEN <<>> ELSE SnapshotBlock(NoSnapshot))
        \o <<n, IF version = 3 THEN 2 * n ELSE n, 0, version>>

\* What it stands for.
OldValue(version, n) ==
  [NewManifest EXCEPT
     !.entries = [i \in 1..n |-> IF version = 3
                    THEN [Sequence |-> 2 * (i - 1), Count |-> 2, Location |-> i]
                    ELSE [Sequence |-> i - 1, Count |-> 0, Location |-> i]],
     !.nextSequence = IF version = 3 THEN 2 * n ELSE n]

Init ==
  /\ \/ object = Missing(<<>>) /\ stored = NewManifest
     \/ \E version \in 1..3 :
          /\ object = [exists |-> TRUE, etag |-> 1, data |-> Old(version, OldEntries)]
          /\ stored = OldValue(version, OldEntries)
  /\ held = [u \in Users |-> None]
  /\ meant = [u \in Users |-> NewManifest]
  /\ appends = 0

\* What a Get may return. Objects of earlier versions carry no digest: a flip
\* in one goes unnoticed, and is left out.
Reads ==
  {data \in SimGet(object) : data = object.data \/ CellFromEnd(object.data, 0) = 4}

\* Store.Load; a failed Get and a manifest that does not parse are errors,
\* and the user may try again.
Load(u) ==
  /\ held[u] = None
  /\ IF ~object.exists
     THEN held' = [held EXCEPT ![u] = [m |-> NewStruct, version |-> NoVersion]]
     ELSE \E data \in Reads :
            /\ ParseManifest(data).ok
            /\ held' = [held EXCEPT ![u] = [m |-> ParseManifest(data).m,
                                            version |-> object.etag]]
  /\ meant' = [meant EXCEPT ![u] = stored]
  /\ UNCHANGED <<object, stored, appends>>

\* The user's struct becomes m, and should stand for v.
Works(u, m, v) ==
  /\ held' = [held EXCEPT ![u].m = m]
  /\ meant' = [meant EXCEPT ![u] = v]
  /\ UNCHANGED <<object, stored>>

AppendSegment(u, count) ==
  /\ held[u] # None /\ appends < MaxAppends
  /\ appends' = appends + 1
  /\ Works(u, AppendTo(held[u].m, OldEntries + appends', count),
              AppendEntry(meant[u], OldEntries + appends', count))

Claim(u) ==
  /\ held[u] # None /\ held[u].m.epoch < MaxEpoch
  /\ Works(u, [held[u].m EXCEPT !.epoch = @ + 1], SetEpoch(meant[u], meant[u].epoch + 1))
  /\ UNCHANGED appends

\* Retention, which the repository leaves to its users: a snapshot, and the
\* entries it supersedes dropped. Bound: snapshots only move on.
Retire(u, through) ==
  /\ u \in Retainers /\ held[u] # None
  /\ held[u].m.snapshot.taken => through > held[u].m.snapshot.ThroughSeq
  /\ Works(u, Truncate([held[u].m EXCEPT !.snapshot =
                          [taken |-> TRUE, ThroughSeq |-> through]], through),
              TruncateThrough(SetSnapshot(meant[u], through), through))
  /\ UNCHANGED appends

\* Store.Create or Store.Commit. The user then loads again whatever it heard.
Commit(u) ==
  /\ held[u] # None /\ object.etag < MaxWrites
  /\ \E o \in SimPutOpts(object, held[u].version, Bytes(held[u].m)) :
       /\ object' = o.obj
       /\ stored' = IF o.obj = object THEN stored ELSE meant[u]
  /\ held' = [held EXCEPT ![u] = None]
  /\ meant' = [meant EXCEPT ![u] = NewManifest]
  /\ UNCHANGED appends

Next ==
  \E u \in Users :
    \/ Load(u) \/ Claim(u) \/ Commit(u)
    \/ \E count \in Counts : AppendSegment(u, count)
    \/ held[u] # None /\ \E through \in 0..held[u].m.nextSequence - 1 : Retire(u, through)

Spec == Init /\ [][Next]_vars

-----------------------------------------------------------------------------
(* Correctness.                                                            *)

Structs == {held[u].m : u \in {v \in Users : held[v] # None}}

\* The regions, footers, upgrades, checksums and flipped bytes are invisible:
\* a struct decodes to the value its user means, whatever it was parsed from
\* and whatever was spliced since; the object reads as the value last
\* committed, or not at all if the read is damaged.
FormatIsInvisible ==
  /\ \A u \in Users : held[u] # None => Value(held[u].m) = meant[u]
  /\ object.exists =>
       /\ ParseManifest(object.data).ok
       /\ \A data \in Reads : LET p == ParseManifest(data)
                             IN  p.ok => Value(p.m) = stored

\* The counts the footer will carry are those of the regions, and the live
\* entries of both regions tile what they own: the sortedness and contiguity
\* that Locate's binary search assumes.
StructsAreSound ==
  \A g \in Structs :
    /\ g.baseCount = Len(DecodeRegion(g.base))
    /\ g.appendedCount = Len(DecodeRegion(g.appended))
    /\ Tiles(Value(g))

\* The records an entry may stand for, of up to two cells each.
Segments(e) == [1..RangeSize(e) -> {<<>>, <<1, 2>>}]

\* The segment the newest entry names reads back as it was written, with and
\* without compression and in either format, and a flipped byte of one in the
\* current format is an error wherever it is: no read returns other records.
SegmentsReadBack ==
  stored.entries # <<>> =>
    \A records \in Segments(Last(stored.entries)), comp \in {CompressionNone, CompressionZstd} :
      LET data == encodeSegment(records, comp, FALSE)
      IN  /\ \A seg \in {data, encodeSegment(records, comp, TRUE)} :
               decodeSegment(seg).ok /\ decodeSegment(seg).records = records
          /\ \A i \in DOMAIN data : ~decodeSegment(FlipByte(data, i)).ok

Owned(entries) == UNION {e.Sequence..End(e) - 1 : e \in ToSet(entries)}

Seqs(m) == 0..m.nextSequence + 1

\* Locate finds exactly the live sequences, and the segment and the offset it
\* returns are those of the record, also next to legacy entries.
LocateIsExact ==
  \A m \in {Value(g) : g \in Structs} : \A seq \in Seqs(m) :
    LET at == Locate(m, seq)
    IN  /\ at.found <=> seq \in Owned(m.entries)
        /\ at.found => LET e == m.entries[at.entry]
                       IN  e.Sequence + at.offset = seq /\ at.offset < RangeSize(e)

\* A reader that takes EntriesContaining(seq) and skips the records below seq
\* gets every live record from seq on; only the first entry can start below.
\* At segment boundaries EntriesFrom and EntriesAfter return the same entries.
ReplayIsComplete ==
  \A m \in {Value(g) : g \in Structs} :
    /\ \A seq \in Seqs(m) :
         LET es == EntriesContaining(m, seq)
         IN  /\ Owned(es) \cap (seq..m.nextSequence) = Owned(m.entries) \cap (seq..m.nextSequence)
             /\ \A k \in 2..Len(es) : es[k].Sequence > seq
    /\ \A e \in ToSet(m.entries) :
         /\ EntriesFrom(m, e.Sequence) = EntriesContaining(m, e.Sequence)
         /\ EntriesAfter(m, End(e) - 1) = EntriesContaining(m, End(e))

KeepsTheRest(m, new, through) ==
  /\ new.nextSequence = m.nextSequence
  /\ IsSuffix(new.entries, m.entries)
  /\ Owned(m.entries) \ (0..through) \subseteq Owned(new.entries)
  /\ new.entries # <<>> => End(new.entries[1]) > through + 1

\* A truncation drops only entries wholly covered by the snapshot and only
\* from the front, drops all of those, and never gives a sequence back.
TruncationKeepsTheRest ==
  \A g \in Structs : \A through \in 0..g.nextSequence :
    KeepsTheRest(Value(g), Value(Truncate(g, through)), through)

=============================================================================
