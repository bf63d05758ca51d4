--------------------------- MODULE ReaderTheorems ---------------------------
(***************************************************************************)
(* What is proved of the readers of the log: the replica (replica.go), the *)
(* sink over it (querystream/sink.go) and the consumer over the sink       *)
(* (cmd/stream/consumer.go).                                               *)
(***************************************************************************)
EXTENDS ConsumerLemmas, FiniteSetTheorems

\* A leaf is tried with Zenon first.
USE ZenonT(4), SMTT(30)

\* Induction over the naturals and the size of an initial segment of them.
LEMMA NatFactsHold ==
  NatFacts
<1>1. ASSUME NEW S, 0 \in S, \A n \in Nat : n \in S => n + 1 \in S
      PROVE  \A n \in Nat : n \in S
  <2> DEFINE T == Nat \ S
  <2> SUFFICES ASSUME T # {} PROVE FALSE
    OBVIOUS
  <2>1. T \subseteq Nat
    OBVIOUS
  <2>2. \E x \in T : \A y \in T : ~(y < x)
    <3> DEFINE R == OpToRel(<, Nat)
    <3>1. \E x \in T : \A y \in T : ~(<<y, x>> \in R)
      <4> HIDE DEF T, R
      <4> QED
        BY <2>1, WFMin, NatLessThanWellFounded, Zenon DEF R
    <3>2. PICK x \in T : \A y \in T : ~(<<y, x>> \in R)
      BY <3>1, Zenon
    <3> QED
      BY <3>2, <2>1, Zenon DEF OpToRel
  <2>3. PICK x \in T : \A y \in T : ~(y < x)
    BY <2>2
  <2>4. x \in Nat /\ x \notin S
    BY <2>3
  <2>5. x # 0
    BY <1>1, <2>4
  <2>6. PICK z \in Nat : z + 1 = x /\ z < x
    <3> HIDE DEF T
    <3>1. x - 1 \in Nat /\ (x - 1) + 1 = x /\ x - 1 < x
      BY <2>4, <2>5
    <3> QED
      BY <3>1
  <2>7. z \in S
    BY <2>3, <2>6
  <2> QED
    BY <1>1, <2>4, <2>6, <2>7, ZenonT(30)
<1>2. ASSUME NEW n \in Nat PROVE Cardinality(0..n - 1) = n
  <2>1. PICK b \in Int : b = n - 1
    OBVIOUS
  <2>2. Cardinality(0..b) = IF 0 > b THEN 0 ELSE b - 0 + 1
    <3>1. 0 \in Int /\ b \in Int
      OBVIOUS
    <3> QED
      BY <3>1, FS_Interval, Zenon
  <2>3. b >= -1 /\ b - 0 + 1 = n
    BY <2>1
  <2> QED
    BY <2>1, <2>2, <2>3
<1> QED
  BY <1>1, <1>2, Zenon DEF NatFacts

-----------------------------------------------------------------------------
(* The replica.                                                            *)

\* The replica's invariant holds throughout.
LEMMA ReplicaInvariant ==
  Spec => []IInv
BY NatFactsHold, InitInd, NextInd, PTL DEF Spec

\* Replica.Poll applies the records of the log in order and without a gap:
\* over failed downloads, failing appliers, restarts from the cursor, polls
\* racing with commits and retention, when a record is applied all before it
\* (from StartAt on) have been.
THEOREM ReplicaAppliesInOrder ==
  Spec => []AppliesInOrder
BY ReplicaInvariant, InOrder, PTL

\* Nothing before the replica's position or before the saved cursor is
\* unapplied, so neither a restart nor LowWatermark's retention can skip a
\* record.
THEOREM ReplicaPositionsAreApplied ==
  Spec => []PositionsAreApplied
BY ReplicaInvariant, Positions, PTL

\* A replica that has taken up its saved cursor never applies a record before
\* it again.
THEOREM ReplicaSavedIsNotReapplied ==
  Spec => SavedIsNotReapplied
BY ReplicaInvariant, NotReapplied, PTL DEF Spec, SavedIsNotReapplied

-----------------------------------------------------------------------------
(* The sink.  LegacyRecords \subseteq {1} sets aside entries without a     *)
(* count whose segment holds several records: those all have the sequence  *)
(* number of their entry, so that a file's name does not say which of them *)
(* it holds.                                                               *)

\* The sink's invariant holds throughout.
LEMMA SinkInvariant ==
  ASSUME LegacyRecords \subseteq {1}
  PROVE  SinkSpec => [](SInv /\ OrderInv)
BY NatFactsHold, SinkInitInv, SinkNextInv, PTL DEF SinkSpec

\* Every file of the sink holds exactly the records its name says, in one
\* bucket: over failed polls and flushes, redelivery and restarts.
THEOREM SinkFilesHoldTheirRange ==
  ASSUME LegacyRecords \subseteq {1}
  PROVE  SinkSpec => []FilesHoldTheirRange
BY SinkInvariant, FilesRange, PTL

\* Whatever the replica or a cursor of the sink is past is in a file, or was
\* dropped with a batch.
THEOREM SinkLosesOnlyDrops ==
  ASSUME LegacyRecords \subseteq {1}
  PROVE  SinkSpec => []OnlyDropsLose
BY SinkInvariant, DropsLose, PTL

\* "a re-ingest of a covered range overwrites identically (same names, same
\* bytes)" is true of a log without legacy entries of several records, with
\* which it fails.
THEOREM SinkOverwritesIdentically ==
  ASSUME LegacyRecords \subseteq {1}
  PROVE  SinkSpec => OverwritesIdentically
BY NatFactsHold, SinkInvariant, Identically, PTL DEF SinkSpec, OverwritesIdentically

-----------------------------------------------------------------------------
(* The consumer.                                                           *)

\* The consumer's invariant holds throughout.
LEMMA ConsumerInvariant ==
  ASSUME LegacyRecords \subseteq {1}
  PROVE  ConsumerSpec => []CInv
BY NatFactsHold, ConsumerInitInv, ConsumerNextInv, PTL DEF ConsumerSpec

\* Every file of the sink holds exactly the records its name says, in one
\* bucket, whatever a consumer does: failed polls, redelivery, restarts, resets.
THEOREM FilesAlwaysHoldTheirRange ==
  ASSUME LegacyRecords \subseteq {1}
  PROVE  ConsumerSpec => []FilesHoldTheirRange
<1>1. CInv => FilesHoldTheirRange
  BY FilesRange, ZenonT(30) DEF CInv
<1> QED
  BY <1>1, ConsumerInvariant, PTL

\* Under a consumer rows are lost with a dropped batch, or a reset, and in no
\* other way.
THEOREM RowsAreLostOnlyByDrops ==
  ASSUME LegacyRecords \subseteq {1}
  PROVE  ConsumerSpec => []OnlyDropsLose
<1>1. CInv => OnlyDropsLose
  BY DropsLose, ZenonT(30) DEF CInv
<1> QED
  BY <1>1, ConsumerInvariant, PTL

\* Under a consumer the catalog lists the files there are.
THEOREM CatalogIsAlwaysTrue ==
  ASSUME LegacyRecords \subseteq {1}
  PROVE  ConsumerSpec => []CatalogIsTrue
<1>1. CInv => CatalogIsTrue
  BY CatalogTrue DEF CInv
<1> QED
  BY <1>1, ConsumerInvariant, PTL

\* No row that was not dropped turns up behind the watermark of an incremental
\* query (cmd/stream/consumer.go).
THEOREM FollowerMissesNothing ==
  ASSUME LegacyRecords \subseteq {1}
  PROVE  ConsumerSpec => NothingArrivesLate
<1>1. CInv => [Late]_files
  BY NotLate
<1> QED
  BY <1>1, ConsumerInvariant, PTL DEF NothingArrivesLate

\* A one-shot that met no error has shown all it was to show. runConsumer never
\* sets StartAt; a sink that starts later owes less.
THEOREM OneShotShowsAll ==
  ASSUME LegacyRecords \subseteq {1}, StartAt = 0
  PROVE  ConsumerSpec => []OneShotIsComplete
BY ConsumerInvariant, ShowsAll, PTL

=============================================================================
