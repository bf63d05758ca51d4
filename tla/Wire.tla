-------------------------------- MODULE Wire --------------------------------
(***************************************************************************)
(* What the two byte formats (wal/manifest.go, wal/segment.go) share.  An  *)
(* object is a sequence of cells, one natural number for each field (a     *)
(* length, a count, a sequence, a name), so that parsing works by offsets  *)
(* from the front and from the end as it does on bytes.                    *)
(***************************************************************************)
EXTENDS Integers, Sequences

\* What a failed decode returns. A decode that succeeds returns ok = TRUE.
Corrupt == [ok |-> FALSE]

\* The cell that is followed by `before` others.
CellFromEnd(data, before) == data[Len(data) - before]

\* crc32.Checksum with the Castagnoli table. Like it, this digest tells any
\* two objects apart that differ in one cell: 31 is invertible modulo the
\* prime and a cell is smaller than it.
Checksum(data) ==
  LET sum[i \in 0..Len(data)] ==
        IF i = 0 THEN 1 ELSE (31 * sum[i - 1] + data[i]) % 65521
  IN  sum[Len(data)]

\* SimStore.flipByte: one byte of one cell is inverted.
FlipByte(data, i) ==
  [data EXCEPT ![i] = (@ \div 256) * 256 + 255 - (@ % 256)]

=============================================================================
