--------------------------- MODULE SegmentFormat ----------------------------
(***************************************************************************)
(* The segment format of wal/segment.go: length-prefixed records,          *)
(* optionally compressed, and a footer with the codec, the record count    *)
(* and, in v2, a digest.  A record is a sequence of cells.                 *)
(***************************************************************************)
EXTENDS Wire

CompressionNone == 0
CompressionZstd == 1

\* The zstd library: a frame that knows its length, rejected when it does not
\* match.
EncodeAll(block) == <<Len(block)>> \o block

DecodeAll(frame) ==
  IF frame # <<>> /\ frame[1] = Len(frame) - 1
  THEN [ok |-> TRUE, block |-> Tail(frame)] ELSE Corrupt

Framed(records) ==
  LET upTo[i \in 0..Len(records)] ==
        IF i = 0 THEN <<>> ELSE upTo[i - 1] \o <<Len(records[i])>> \o records[i]
  IN  upTo[Len(records)]

encodeSegment(records, comp, legacy) ==
  LET block == IF comp = CompressionZstd THEN EncodeAll(Framed(records)) ELSE Framed(records)
      out == block \o <<comp, Len(records)>>
  IN  IF legacy THEN out \o <<1>> ELSE out \o <<Checksum(out), 2>>

\* Mutant of Unframe: the length prefix is counted as part of the record.
UnframeShort(body, count) ==
  LET upTo[i \in 0..count] ==
        IF i = 0 THEN [ok |-> TRUE, off |-> 0, records |-> <<>>]
        ELSE LET p == upTo[i - 1]
                 len == body[p.off + 1]
             IN  IF ~p.ok \/ Len(body) - p.off < 1 \/ Len(body) - p.off < len THEN Corrupt
                 ELSE [ok |-> TRUE, off |-> p.off + 1 + len,
                       records |-> Append(p.records, SubSeq(body, p.off + 1, p.off + len))]
  IN  upTo[count]

\* `count` records from the front of the block; what follows them is ignored.
Unframe(body, count) ==
  LET upTo[i \in 0..count] ==
        IF i = 0 THEN [ok |-> TRUE, off |-> 0, records |-> <<>>]
        ELSE LET p == upTo[i - 1]
                 len == body[p.off + 1]
             IN  IF ~p.ok \/ Len(body) - p.off < 1 \/ Len(body) - p.off - 1 < len THEN Corrupt
                 ELSE [ok |-> TRUE, off |-> p.off + 1 + len,
                       records |-> Append(p.records, SubSeq(body, p.off + 2, p.off + 1 + len))]
  IN  upTo[count]

\* The digest of a v2 segment covers the block as stored, the codec and the
\* count.
SegmentVerified(data) ==
  CellFromEnd(data, 1) = Checksum(SubSeq(data, 1, Len(data) - 2))

decodeSegment(data) ==
  LET version == CellFromEnd(data, 0)
      footer == IF version = 2 THEN 4 ELSE 3
      comp == CellFromEnd(data, footer - 1)
      count == CellFromEnd(data, footer - 2)
      stored == SubSeq(data, 1, Len(data) - footer)
      body == IF comp = CompressionZstd THEN DecodeAll(stored)
              ELSE [ok |-> TRUE, block |-> stored]
  IN  CASE Len(data) < 3 \/ version \notin {1, 2} \/ Len(data) < footer -> Corrupt
        [] version = 2 /\ ~SegmentVerified(data) -> Corrupt
        [] comp \notin {CompressionNone, CompressionZstd} -> Corrupt
        [] ~body.ok -> Corrupt
        [] OTHER -> Unframe(body.block, count)

=============================================================================
