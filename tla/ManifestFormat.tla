--------------------------- MODULE ManifestFormat ---------------------------
(***************************************************************************)
(* The Manifest struct of wal/manifest.go and its serialized form.  The    *)
(* struct keeps the entries it was parsed with as encoded bytes (base) and *)
(* the ones appended since in a side buffer (appended), each with a count  *)
(* of its own; Bytes writes one region after the other.  ParseManifest     *)
(* reads footers v1 to v4 from the end of the object and brings legacy     *)
(* entries into the current encoding.                                      *)
(*                                                                         *)
(* Value maps a struct to the manifest value the other modules use.        *)
(* Per-group metadata and the snapshot's creation time are opaque payload  *)
(* and left out; a name is one cell.                                       *)
(***************************************************************************)
EXTENDS Manifest, Wire

Struct(base, baseCount, next, epoch, snapshot) ==
  [base |-> base, baseCount |-> baseCount, appended |-> <<>>, appendedCount |-> 0,
   nextSequence |-> next, epoch |-> epoch, snapshot |-> snapshot]

NewStruct == Struct(<<>>, 0, 0, 0, NoSnapshot)

-----------------------------------------------------------------------------
(* Entries: a body length, and a body with or without the Count field.     *)

encodeEntry(buf, e) == buf \o <<3, e.Sequence, e.Count, e.Location>>

\* The entry at offset `off` and the offset after it.
decodeEntry(data, off, hasCount) ==
  LET fields == IF hasCount THEN 3 ELSE 2
      bodyLen == data[off + 1]
      end == off + 1 + bodyLen
  IN  IF off + 1 > Len(data) \/ bodyLen # fields \/ end > Len(data)
      THEN Corrupt
      ELSE [ok |-> TRUE, next |-> end,
            entry |-> [Sequence |-> data[off + 2],
                       Count |-> IF hasCount THEN data[off + 3] ELSE 0,
                       Location |-> data[end]]]

\* The entries of one region, to its end.
DecodeRegion(region) ==
  LET from[off \in 0..Len(region)] ==
        IF off = Len(region) THEN <<>>
        ELSE LET d == decodeEntry(region, off, TRUE) IN <<d.entry>> \o from[d.next]
  IN  from[0]

Entries(g) == DecodeRegion(g.base) \o DecodeRegion(g.appended)

Value(g) == [entries |-> Entries(g), nextSequence |-> g.nextSequence,
             epoch |-> g.epoch, snapshot |-> g.snapshot]

\* `count` legacy entries from offset `off` on, in the current encoding.
upgradeLegacyEntries(base, count) ==
  LET up[i \in 0..count] ==
        IF i = 0 THEN [ok |-> TRUE, next |-> 0, out |-> <<>>]
        ELSE LET p == up[i - 1]
                 d == decodeEntry(base, p.next, FALSE)
             IN  IF ~p.ok \/ ~d.ok THEN Corrupt
                 ELSE [ok |-> TRUE, next |-> d.next, out |-> encodeEntry(p.out, d.entry)]
  IN  up[count]

-----------------------------------------------------------------------------
(* Mutations of the struct.                                                *)

AppendTo(g, location, count) ==
  [g EXCEPT !.appended = encodeEntry(@, [Sequence |-> g.nextSequence, Count |-> count,
                                         Location |-> location]),
            !.appendedCount = @ + 1,
            !.nextSequence = @ + count]

\* Mutant of Truncate: the side buffer is not cleared.
TruncateBase(g, throughSeq) ==
  LET kept == SelectSeq(Entries(g), LAMBDA e : ~(End(e) - 1 <= throughSeq))
      enc[i \in 0..Len(kept)] == IF i = 0 THEN <<>> ELSE encodeEntry(enc[i - 1], kept[i])
  IN  IF Len(kept) = Len(Entries(g)) THEN g
      ELSE [g EXCEPT !.base = enc[Len(kept)], !.baseCount = Len(kept)]

\* Mutant of Truncate: an entry that is only partly covered goes too.
TruncateCut(g, throughSeq) ==
  LET kept == SelectSeq(Entries(g), LAMBDA e : ~(e.Sequence <= throughSeq))
      enc[i \in 0..Len(kept)] == IF i = 0 THEN <<>> ELSE encodeEntry(enc[i - 1], kept[i])
  IN  IF Len(kept) = Len(Entries(g)) THEN g
      ELSE [g EXCEPT !.base = enc[Len(kept)], !.baseCount = Len(kept),
                     !.appended = <<>>, !.appendedCount = 0]

\* TruncateThrough: base is encoded anew from the kept entries of both
\* regions; nothing happens when nothing is removed.
Truncate(g, throughSeq) ==
  LET kept == SelectSeq(Entries(g), LAMBDA e : ~(End(e) - 1 <= throughSeq))
      enc[i \in 0..Len(kept)] == IF i = 0 THEN <<>> ELSE encodeEntry(enc[i - 1], kept[i])
  IN  IF Len(kept) = Len(Entries(g)) THEN g
      ELSE [g EXCEPT !.base = enc[Len(kept)], !.baseCount = Len(kept),
                     !.appended = <<>>, !.appendedCount = 0]

-----------------------------------------------------------------------------
(* The object: entries, snapshot block, core footer.                       *)

\* A location of length 0 is no snapshot.
SnapshotBlock(s) ==
  (IF s.taken THEN <<7>> ELSE <<>>) \o <<IF s.taken THEN 1 ELSE 0, s.ThroughSeq>>

Bytes(g) ==
  LET covered == g.base \o g.appended \o SnapshotBlock(g.snapshot)
                   \o <<g.baseCount + g.appendedCount, g.nextSequence, g.epoch>>
  IN  covered \o <<Checksum(covered), 4>>

\* Mutant of Verified: the digest is written but never compared.
Unverified(data) == TRUE

\* The digest of a v4 object, which covers all that precedes it.
Verified(data) ==
  CellFromEnd(data, 0) = 4 =>
    CellFromEnd(data, 1) = Checksum(SubSeq(data, 1, Len(data) - 2))

\* The cells of the core footer: count, next sequence, epoch and version,
\* and in v4 the digest ahead of the version.
coreFooter(version) == IF version = 4 THEN 5 ELSE 4

ParseManifest(data) ==
  LET version == CellFromEnd(data, 0)
      core == coreFooter(version)
      next == CellFromEnd(data, core - 2)
      epoch == CellFromEnd(data, core - 3)
      count == CellFromEnd(data, core - 1)
      locLen == CellFromEnd(data, core + 1)
      snapshot == [taken |-> locLen > 0, ThroughSeq |-> CellFromEnd(data, core)]
      base == IF version = 1 THEN SubSeq(data, 1, Len(data) - core)
              ELSE SubSeq(data, 1, Len(data) - core - 2 - locLen)
      upgraded == upgradeLegacyEntries(base, count)
      struct(cells, snap) == [ok |-> TRUE, m |-> Struct(cells, count, next, epoch, snap)]
  IN  CASE Len(data) < 4 \/ version \notin 1..4 \/ Len(data) < core -> Corrupt
        [] ~Verified(data) -> Corrupt
        [] version > 1 /\ (Len(data) < core + 2 \/ Len(data) < core + 2 + locLen) -> Corrupt
        [] version > 2 -> struct(base, snapshot)
        [] ~upgraded.ok -> Corrupt
        [] OTHER -> struct(upgraded.out, IF version = 1 THEN NoSnapshot ELSE snapshot)

=============================================================================
