--------------------------- MODULE ReplicaLemmas ----------------------------
(***************************************************************************)
(* The replica of replica.go: the inductive invariant IInv of its          *)
(* specification, the lemmas that show it inductive, and what it implies.  *)
(***************************************************************************)
EXTENDS Replica, TLAPS

\* A leaf is tried with Zenon first.
USE ZenonT(4), SMTT(30)

-----------------------------------------------------------------------------
(* Loops over the entries of a manifest.                                   *)

\* Induction over the naturals and the size of an initial segment of them: the
\* library's theorems give both (ReaderTheorems), the lemmas below assume them.
NatFacts ==
  /\ \A S : 0 \in S /\ (\A n \in Nat : n \in S => n + 1 \in S) => \A n \in Nat : n \in S
  /\ \A n \in Nat : Cardinality(0..n - 1) = n

\* Induction over the naturals, for a set of them.
LEMMA NatSet ==
  ASSUME NatFacts, NEW S, 0 \in S, \A n \in Nat : n \in S => n + 1 \in S
  PROVE  \A n \in Nat : n \in S
BY DEF NatFacts

\* The loop of Kept, for the first n entries.
Loop(s, S, g, n) ==
  g = [i \in 0..n |-> IF i = 0 THEN <<>>
                      ELSE IF s[i] \in S THEN Append(g[i - 1], s[i]) ELSE g[i - 1]]

\* The loop has a history.
LEMMA LoopExists ==
  ASSUME NatFacts, NEW s, NEW S, NEW n \in Nat
  PROVE  \E g : Loop(s, S, g, n)
<1> DEFINE P == {k \in Nat : \E g : Loop(s, S, g, k)}
<1>1. 0 \in P
  <2>1. Loop(s, S, [i \in 0..0 |-> <<>>], 0)
    BY DEF Loop
  <2> QED
    BY <2>1
<1>2. ASSUME NEW k \in Nat, k \in P PROVE k + 1 \in P
  <2>1. PICK g : Loop(s, S, g, k)
    BY <1>2
  <2> DEFINE h == [i \in 0..k + 1 |->
                     IF i <= k THEN g[i]
                     ELSE IF s[i] \in S THEN Append(g[i - 1], s[i]) ELSE g[i - 1]]
  <2>2. \A i \in 0..k : g[i] = IF i = 0 THEN <<>>
                               ELSE IF s[i] \in S THEN Append(g[i - 1], s[i]) ELSE g[i - 1]
    BY <2>1, Zenon DEF Loop
  <2>3. \A i \in 0..k + 1 : h[i] = IF i = 0 THEN <<>>
                                   ELSE IF s[i] \in S THEN Append(h[i - 1], s[i]) ELSE h[i - 1]
    BY <2>2, SMTT(30)
  <2>4. Loop(s, S, h, k + 1)
    BY <2>3 DEF Loop
  <2> QED
    BY <2>4
<1>3. \A k \in Nat : k \in P
  <2> HIDE DEF P
  <2> QED
    BY <1>1, <1>2, NatSet
<1> QED
  BY <1>3

\* Kept is what the loop ends with.
LEMMA KeptLoop ==
  ASSUME NatFacts, NEW s, Len(s) \in Nat, NEW S
  PROVE  \E g : Loop(s, S, g, Len(s)) /\ Kept(s, S) = g[Len(s)]
<1> DEFINE g == CHOOSE h : Loop(s, S, h, Len(s))
<1>1. Loop(s, S, g, Len(s))
  BY LoopExists
<1>2. Kept(s, S) = g[Len(s)]
  BY DEF Kept, Loop
<1> QED
  BY <1>1, <1>2, Zenon

\* A subsequence takes in the next element.
LEMMA SubSeqGrows ==
  ASSUME NEW E, NEW s \in Seq(E), NEW k \in Nat, NEW n \in Nat, k <= n, n + 1 <= Len(s)
  PROVE  Append(SubSeq(s, k + 1, n), s[n + 1]) = SubSeq(s, k + 1, n + 1)
<1> DEFINE a == SubSeq(s, k + 1, n)
           b == SubSeq(s, k + 1, n + 1)
<1>1. a \in Seq(E) /\ Len(a) = n - k /\ \A i \in 1..n - k : a[i] = s[k + i]
  OBVIOUS
<1>2. b \in Seq(E) /\ Len(b) = n + 1 - k /\ \A i \in 1..n + 1 - k : b[i] = s[k + i]
  OBVIOUS
<1> HIDE DEF a, b
<1>3. Append(a, s[n + 1]) \in Seq(E) /\ Len(Append(a, s[n + 1])) = n + 1 - k
  BY <1>1
<1>4. \A i \in 1..n + 1 - k : Append(a, s[n + 1])[i] = b[i]
  BY <1>1, <1>2
<1>5. Append(a, s[n + 1]) = b
  BY <1>2, <1>3, <1>4
<1> QED
  BY <1>5 DEF a, b

\* If whatever follows a kept entry is kept, the kept entries are a suffix.
LEMMA KeptSuffix ==
  ASSUME NatFacts, NEW E, NEW s \in Seq(E), NEW S,
         \A i, j \in 1..Len(s) : i < j /\ s[i] \in S => s[j] \in S
  PROVE  \E k \in 0..Len(s) :
           /\ Kept(s, S) = SubSeq(s, k + 1, Len(s))
           /\ \A i \in 1..Len(s) : s[i] \in S <=> i > k
<1>1. PICK g : Loop(s, S, g, Len(s)) /\ Kept(s, S) = g[Len(s)]
  BY KeptLoop
<1>0. /\ g[0] = <<>>
      /\ \A i \in 1..Len(s) :
           g[i] = IF s[i] \in S THEN Append(g[i - 1], s[i]) ELSE g[i - 1]
  <2>1. \A i \in 0..Len(s) : g[i] = IF i = 0 THEN <<>>
                                    ELSE IF s[i] \in S THEN Append(g[i - 1], s[i]) ELSE g[i - 1]
    BY <1>1, Zenon DEF Loop
  <2>2. /\ Len(s) \in Nat /\ 0 \in 0..Len(s)
        /\ \A i \in 1..Len(s) : i \in 0..Len(s) /\ i # 0
    OBVIOUS
  <2> QED
    BY <2>1, <2>2
<1> DEFINE Good(n, k) == /\ g[n] = SubSeq(s, k + 1, n)
                         /\ \A i \in 1..n : s[i] \in S <=> i > k
           P == {n \in Nat : n <= Len(s) => \E k \in 0..n : Good(n, k)}
<1>2. 0 \in P
  <2>1. g[0] = <<>> /\ SubSeq(s, 1, 0) = <<>>
    BY <1>0, SMTT(30)
  <2>2. Good(0, 0) /\ 0 \in 0..0
    BY <2>1
  <2>3. \E k \in 0..0 : Good(0, k)
    BY <2>2
  <2> QED
    BY <2>3, Zenon
<1>3. ASSUME NEW n \in Nat, n \in P PROVE n + 1 \in P
  <2> SUFFICES ASSUME n + 1 <= Len(s) PROVE \E m \in 0..n + 1 : Good(n + 1, m)
    BY SMTT(30)
  <2>0. PICK k \in 0..n : Good(n, k)
    BY <1>3
  <2>1. g[n + 1] = IF s[n + 1] \in S THEN Append(g[n], s[n + 1]) ELSE g[n]
    BY <1>0, SMTT(30)
  <2>2. CASE s[n + 1] \in S
    <3>1. g[n + 1] = SubSeq(s, k + 1, n + 1)
      <4>1. Append(SubSeq(s, k + 1, n), s[n + 1]) = SubSeq(s, k + 1, n + 1)
        BY SubSeqGrows, SMTT(30)
      <4> QED
        BY <2>0, <2>1, <2>2, <4>1
    <3>2. \A i \in 1..n + 1 : s[i] \in S <=> i > k
      BY <2>0, <2>2
    <3>3. Good(n + 1, k) /\ k \in 0..n + 1
      BY <3>1, <3>2
    <3> QED
      BY <3>3
  <2>3. CASE s[n + 1] \notin S
    <3>1. \A i \in 1..n : s[i] \notin S
      BY <2>3, SMTT(30)
    <3>2. k = n
      BY <2>0, <3>1
    <3>3. SubSeq(s, n + 1, n) = <<>> /\ SubSeq(s, n + 2, n + 1) = <<>>
      OBVIOUS
    <3>4. g[n + 1] = SubSeq(s, n + 2, n + 1)
      BY <2>0, <2>1, <2>3, <3>2, <3>3
    <3>5. Good(n + 1, n + 1)
      BY <3>4, <3>1, <2>3, SMTT(30)
    <3> QED
      BY <3>5
  <2> QED
    BY <2>2, <2>3
<1>4. \A n \in Nat : n \in P
  <2> HIDE DEF P
  <2> QED
    BY <1>2, <1>3, NatSet
<1>5. Len(s) \in P
  <2> HIDE DEF P
  <2> QED
    BY <1>4
<1>6. PICK k \in 0..Len(s) : Good(Len(s), k)
  BY <1>5
<1> QED
  BY <1>1, <1>6

-----------------------------------------------------------------------------
(* The inductive invariant.                                                *)

\* A manifest entry (manifest.Entry): where its range starts, how many records
\* it announces (0 in a legacy entry) and the segment object it points at.
Entry == [Sequence : Nat, Count : Nat, Location : [segment : Nat, records : Nat \ {0}]]

\* Record i of segment k.
Rec(k, i) == [segment |-> k, i |-> i]

\* How many records segment k really holds.
Size(k) == log[k].Location.records

\* How many entries retention has cut off the front of the manifest.
Truncated == Len(log) - Len(manifest.entries)

\* The state of Replica.Poll between two of its calls.
PollType ==
  [pc : {"idle", "load", "segment", "apply", "save", "end"}, entries : Seq(Entry),
   i : Nat, resumeAt : Nat, sinceSave : Nat, count : Nat]

\* The type of the replica's state and of the log it reads.
TypeOK ==
  /\ manifest \in [entries : Seq(Entry), nextSequence : Nat, epoch : {0},
                   snapshot : {NoSnapshot}]
  /\ log \in Seq(Entry)
  /\ next \in Nat /\ restored \in BOOLEAN /\ cursor \in Nat \cup {NoCursor}
  /\ poll \in PollType
  /\ applied \subseteq [segment : Nat, i : Nat]

\* The log: ranges follow one another without a gap, an entry that announces
\* a count has a segment of that size, and the manifest's entries are the log
\* without the entries retention cut off.
LogInv ==
  /\ \A k \in 1..Len(log) :
       /\ log[k].Location.segment = k
       /\ log[k].Count # 0 => Size(k) = log[k].Count
       /\ End(log[k]) <= manifest.nextSequence
       /\ log[k].Sequence = IF k = 1 THEN 0 ELSE End(log[k - 1])
  /\ \A j, k \in 1..Len(log) : j < k => End(log[j]) <= log[k].Sequence
  /\ manifest.nextSequence = IF log = <<>> THEN 0 ELSE End(log[Len(log)])
  /\ Truncated >= 0
  /\ \A k \in 1..Len(manifest.entries) : manifest.entries[k] = log[Truncated + k]

\* Where the replica and its saved cursor may stand. The last conjunct is why
\* retention is safe: only what the low watermark is past has been cut off.
PositionInv ==
  /\ next >= StartAt /\ LowWatermark >= StartAt
  /\ next <= manifest.nextSequence \/ next = StartAt
  /\ cursor <= manifest.nextSequence \/ cursor = StartAt
  /\ ~HasCursor => cursor = NoCursor
  /\ restored \/ ~HasCursor => next >= LowWatermark
  /\ poll.pc # "idle" => restored \/ ~HasCursor
  /\ \A k \in 1..Truncated : End(log[k]) <= LowWatermark

\* The entries of the running poll are the log from entry a + 1 on, whatever
\* was committed or cut off since they were listed.
Slice(a) ==
  /\ a + Len(poll.entries) <= Len(log)
  /\ \A k \in 1..Len(poll.entries) : poll.entries[k] = log[a + k]

\* The poll has an entry in hand.
Reading == poll.pc \in {"segment", "apply", "save", "end"} /\ poll.entries # <<>>

\* A poll in flight: the entry in hand ends past `next`, every earlier one is
\* cut off or behind `next`, and resumeAt (taken when the poll began) still
\* agrees with `next` as far as the skip in the first segment needs it to.
PollInv ==
  /\ Reading =>
       /\ \E a \in 0..Len(log) : Slice(a)
       /\ next < End(Current)
       /\ poll.resumeAt = next \/ (poll.resumeAt < next /\ next = Current.Sequence)
       /\ \A k \in 1..Len(log) :
            k < Current.Location.segment => k <= Truncated \/ End(log[k]) <= next
  /\ poll.pc = "apply" =>
       /\ poll.entries # <<>>
       /\ next - Current.Sequence <= poll.i /\ poll.i <= Current.Location.records

\* Of the segment in hand, what precedes record i was applied or skipped.
AppliedHere ==
  poll.pc = "apply" =>
    \A i \in 0..poll.i - 1 :
      RecSeq(Current, i) >= next => Rec(Current.Location.segment, i) \in applied

\* Every record from StartAt up to n was applied.
AppliedBelow(n) ==
  \A k \in 1..Len(log) : \A i \in 0..Size(k) - 1 :
    StartAt <= RecSeq(log[k], i) /\ RecSeq(log[k], i) < n => Rec(k, i) \in applied

\* What was applied is in the log, from StartAt on.
AppliedFromLog ==
  \A r \in applied :
    /\ r.segment \in 1..Len(log) /\ r.i < Size(r.segment)
    /\ StartAt <= RecSeq(log[r.segment], r.i)

\* Every record of the log before r was applied.
AppliedBefore(r) ==
  \A k \in 1..Len(log) : \A i \in 0..Size(k) - 1 :
    /\ StartAt <= RecSeq(log[k], i)
    /\ k < r.segment \/ (k = r.segment /\ i < r.i)
    => Rec(k, i) \in applied

\* What was applied: no gap behind `next`, behind the saved cursor, behind any
\* applied record, or in the segment in hand.
AppliedInv ==
  /\ AppliedHere /\ AppliedBelow(next) /\ AppliedBelow(cursor)
  /\ AppliedFromLog /\ \A r \in applied : AppliedBefore(r)

\* The inductive invariant of the replica.
IInv == TypeOK /\ LogInv /\ PositionInv /\ PollInv /\ AppliedInv

-----------------------------------------------------------------------------
(* What the calls of Poll, a commit and retention do.                      *)

\* An entry's numbers are naturals and its range is not empty.
LEMMA EntryTypes ==
  ASSUME NEW e \in Entry
  PROVE  /\ e.Sequence \in Nat /\ e.Count \in Nat
         /\ e.Location.segment \in Nat /\ e.Location.records \in Nat \ {0}
         /\ RangeSize(e) \in Nat \ {0} /\ End(e) \in Nat /\ e.Sequence < End(e)
         /\ \A i \in Nat : RecSeq(e, i) \in Nat /\ e.Sequence <= RecSeq(e, i)
BY SMTT(30) DEF Entry, RangeSize, End, RecSeq

\* A writer's commit appends one entry to the log and to the manifest and keeps
\* the shape of both.
LEMMA CommitLog ==
  ASSUME TypeOK, LogInv, NEW count \in Counts, Commit(count)
  PROVE  /\ Len(log') = Len(log) + 1
         /\ \A k \in 1..Len(log) : log'[k] = log[k]
         /\ log'[Len(log) + 1] = [Sequence |-> manifest.nextSequence, Count |-> count,
                                  Location |-> Location(Len(log) + 1, count)]
         /\ log'[Len(log) + 1] \in Entry
         /\ manifest'.nextSequence = manifest.nextSequence + count
         /\ Truncated' = Truncated
         /\ TypeOK' /\ LogInv'
<1> DEFINE e == [Sequence |-> manifest.nextSequence, Count |-> count,
                 Location |-> Location(Len(log) + 1, count)]
<1>0. /\ log \in Seq(Entry) /\ Len(log) \in Nat
      /\ manifest.entries \in Seq(Entry) /\ Len(manifest.entries) \in Nat
      /\ manifest.nextSequence \in Nat
  BY SMTT(30) DEF TypeOK
<1>1. e \in Entry /\ count \in Nat \ {0}
  BY <1>0, ReplicaAssumption, SMTT(30) DEF Entry, Location
<1>2. /\ manifest'.entries = Append(manifest.entries, e)
      /\ manifest'.nextSequence = manifest.nextSequence + count
      /\ manifest' \in [entries : Seq(Entry), nextSequence : Nat, epoch : {0},
                        snapshot : {NoSnapshot}]
  <2>1. manifest' = [manifest EXCEPT !.entries = Append(manifest.entries, e),
                                     !.nextSequence = manifest.nextSequence + count]
    BY DEF Commit, AppendEntry
  <2> HIDE DEF e
  <2>2. manifest \in [entries : Seq(Entry), nextSequence : Nat, epoch : {0},
                      snapshot : {NoSnapshot}]
    BY DEF TypeOK
  <2>3. Append(manifest.entries, e) \in Seq(Entry) /\ manifest.nextSequence + count \in Nat
    BY <1>0, <1>1
  <2> QED
    BY <2>1, <2>2, <2>3, Zenon
<1> HIDE DEF e
<1>3. manifest'.entries[Len(manifest'.entries)] = e /\ Len(manifest'.entries) = Len(manifest.entries) + 1
  BY <1>0, <1>1, <1>2
<1>4. log' = Append(log, e)
  BY <1>3 DEF Commit
<1>5. /\ log' \in Seq(Entry) /\ Len(log') = Len(log) + 1
      /\ \A k \in 1..Len(log) : log'[k] = log[k]
      /\ log'[Len(log) + 1] = e
  BY <1>0, <1>1, <1>4
<1>6. TypeOK'
  BY <1>2, <1>5 DEF TypeOK, Commit
<1>7. Truncated' = Truncated
  BY <1>0, <1>3, <1>5 DEF Truncated
<1>8. e.Sequence = manifest.nextSequence /\ End(e) = manifest.nextSequence + count
  BY <1>0, <1>1 DEF e, End, RangeSize
<1>9. LogInv'
  <2>1. \A k \in 1..Len(log') :
          /\ log'[k].Location.segment = k
          /\ log'[k].Count # 0 => log'[k].Location.records = log'[k].Count
    <3>1. /\ e.Location.segment = Len(log) + 1 /\ e.Location.records = count /\ e.Count = count
      BY DEF e, Location
    <3>2. \A k \in 1..Len(log) :
            /\ log[k].Location.segment = k
            /\ log[k].Count # 0 => log[k].Location.records = log[k].Count
      BY DEF LogInv, Size
    <3> QED
      BY <1>0, <1>5, <3>1, <3>2, SMTT(30)
  <2>2. \A k \in 1..Len(log) : End(log[k]) \in Nat /\ End(log[k]) <= manifest.nextSequence
    <3>1. \A k \in 1..Len(log) : log[k] \in Entry
      BY <1>0
    <3>2. \A k \in 1..Len(log) : End(log[k]) <= manifest.nextSequence
      BY DEF LogInv
    <3> QED
      BY <3>1, <3>2, EntryTypes
  <2>3. \A k \in 1..Len(log') : End(log'[k]) <= manifest'.nextSequence
    <3>1. manifest'.nextSequence = manifest.nextSequence + count
      BY <1>2
    <3>2. ASSUME NEW k \in 1..Len(log) PROVE End(log'[k]) <= manifest'.nextSequence
      BY <1>0, <1>1, <1>5, <2>2, <3>1
    <3>3. End(log'[Len(log) + 1]) <= manifest'.nextSequence
      BY <1>0, <1>1, <1>5, <1>8, <3>1
    <3>4. \A k \in 1..Len(log') : k \in 1..Len(log) \/ k = Len(log) + 1
      BY <1>0, <1>5
    <3> QED
      BY <3>2, <3>3, <3>4
  <2>4. \A k \in 1..Len(log') :
          log'[k].Sequence = IF k = 1 THEN 0 ELSE End(log'[k - 1])
    <3>1. e.Sequence = IF Len(log) = 0 THEN 0 ELSE End(log[Len(log)])
      BY <1>0, <1>8, SMTT(30) DEF LogInv
    <3>2. \A k \in 1..Len(log) : log[k].Sequence = IF k = 1 THEN 0 ELSE End(log[k - 1])
      BY DEF LogInv
    <3>3. \A k \in 1..Len(log) : log'[k].Sequence = IF k = 1 THEN 0 ELSE End(log'[k - 1])
      BY <1>0, <1>5, <3>2, SMTT(30)
    <3>4. log'[Len(log) + 1].Sequence =
            IF Len(log) + 1 = 1 THEN 0 ELSE End(log'[Len(log) + 1 - 1])
      BY <1>0, <1>5, <3>1
    <3> QED
      BY <1>0, <1>5, <3>3, <3>4, SMTT(30)
  <2>5. \A j, k \in 1..Len(log') : j < k => End(log'[j]) <= log'[k].Sequence
    <3>1. \A j, k \in 1..Len(log) : j < k => End(log[j]) <= log[k].Sequence
      BY DEF LogInv
    <3> QED
      BY <1>0, <1>5, <1>8, <2>2, <3>1
  <2>6. manifest'.nextSequence = IF log' = <<>> THEN 0 ELSE End(log'[Len(log')])
    BY <1>0, <1>2, <1>5, <1>8, SMTT(30)
  <2>7. Truncated' >= 0
    BY <1>7 DEF LogInv
  <2>8. \A k \in 1..Len(manifest'.entries) : manifest'.entries[k] = log'[Truncated' + k]
    <3>1. Truncated >= 0 /\ \A k \in 1..Len(manifest.entries) : manifest.entries[k] = log[Truncated + k]
      BY DEF LogInv
    <3>2. Truncated \in Nat /\ Truncated + Len(manifest.entries) = Len(log)
      BY <1>0, <3>1 DEF Truncated
    <3>3. \A k \in 1..Len(manifest.entries) :
            Truncated + k \in 1..Len(log) /\ manifest'.entries[k] = manifest.entries[k]
      BY <1>0, <1>1, <1>2, <3>2, SMTT(30)
    <3>4. manifest'.entries[Len(manifest.entries) + 1] = e
      BY <1>0, <1>1, <1>2
    <3>5. \A k \in 1..Len(manifest.entries) : manifest'.entries[k] = log'[Truncated' + k]
      BY <1>5, <1>7, <3>1, <3>3
    <3>6. Truncated' + (Len(manifest.entries) + 1) = Len(log) + 1
      BY <1>0, <1>7, <3>2
    <3>7. ASSUME NEW k \in 1..Len(manifest'.entries)
          PROVE  k \in 1..Len(manifest.entries) \/ k = Len(manifest.entries) + 1
      BY <1>0, <1>3
    <3> QED
      BY <1>5, <3>4, <3>5, <3>6, <3>7
  <2> QED
    BY <2>1, <2>3, <2>4, <2>5, <2>6, <2>7, <2>8 DEF LogInv, Size
<1> QED
  BY <1>1, <1>2, <1>5, <1>6, <1>7, <1>9 DEF e

\* The manifest's entry i is the log's entry Truncated + i.
LEMMA LogFacts ==
  ASSUME TypeOK, LogInv
  PROVE  /\ Len(log) \in Nat /\ \A k \in 1..Len(log) : log[k] \in Entry
         /\ manifest.entries \in Seq(Entry) /\ Len(manifest.entries) \in Nat
         /\ Truncated \in Nat /\ Truncated + Len(manifest.entries) = Len(log)
         /\ \A i \in 1..Len(manifest.entries) :
              /\ manifest.entries[i] \in Entry
              /\ Truncated + i \in 1..Len(log) /\ manifest.entries[i] = log[Truncated + i]
<1>1. /\ log \in Seq(Entry) /\ Len(log) \in Nat
      /\ manifest.entries \in Seq(Entry) /\ Len(manifest.entries) \in Nat
  BY SMTT(30) DEF TypeOK
<1>2. Truncated >= 0 /\ \A k \in 1..Len(manifest.entries) : manifest.entries[k] = log[Truncated + k]
  BY DEF LogInv
<1>3. Truncated \in Nat /\ Truncated + Len(manifest.entries) = Len(log)
  BY <1>1, <1>2 DEF Truncated
<1> QED
  BY <1>1, <1>2, <1>3

\* m is the log from entry t + 1 on.
LiveSuffix(m, t) ==
  /\ m \in Seq(Entry) /\ t \in Nat /\ Len(log) \in Nat /\ t + Len(m) = Len(log)
  /\ \A i \in 1..Len(m) : m[i] \in Entry /\ m[i] = log[t + i]

\* S takes from m exactly the entries that end past n.
Splits(S, m, n) == \A i \in 1..Len(m) : m[i] \in S <=> End(m[i]) > n

\* es is the log from the first entry after t that ends past n.
KeptFrom(es, m, t, n) ==
  \E k \in 0..Len(m) :
    /\ es \in Seq(Entry) /\ Len(es) = Len(m) - k
    /\ \A i \in 1..Len(es) : es[i] = log[t + k + i]
    /\ \A i \in 1..Len(log) : i > t => (End(log[i]) > n <=> i > t + k)

\* Filtering a suffix of the log by its ends (Since, TruncateBefore) leaves a
\* suffix of it: ends ascend along the log.
LEMMA KeptSlice ==
  ASSUME NatFacts, LogInv, log \in Seq(Entry), NEW m, NEW t, LiveSuffix(m, t),
         NEW n \in Int, NEW S, Splits(S, m, n)
  PROVE  KeptFrom(Kept(m, S), m, t, n)
<1> USE DEF LiveSuffix, Splits
<1>0. Len(m) \in Nat /\ Len(log) \in Nat
  OBVIOUS
<1>1. \A i, j \in 1..Len(m) : i < j /\ m[i] \in S => m[j] \in S
  <2> SUFFICES ASSUME NEW i \in 1..Len(m), NEW j \in 1..Len(m), i < j, m[i] \in S
               PROVE  m[j] \in S
    OBVIOUS
  <2>1. t + i \in 1..Len(log) /\ t + j \in 1..Len(log) /\ t + i < t + j
    BY <1>0
  <2>2. End(m[i]) <= m[j].Sequence
    BY <2>1 DEF LogInv
  <2>3. /\ m[j].Sequence \in Nat /\ End(m[j]) \in Nat /\ m[j].Sequence < End(m[j])
        /\ End(m[i]) \in Nat /\ End(m[i]) > n
    <3>1. m[i] \in Entry /\ m[j] \in Entry /\ End(m[i]) > n
      OBVIOUS
    <3> QED
      BY <3>1, EntryTypes, Zenon
  <2> QED
    BY <2>2, <2>3
<1>2. PICK k \in 0..Len(m) :
        /\ Kept(m, S) = SubSeq(m, k + 1, Len(m))
        /\ \A i \in 1..Len(m) : m[i] \in S <=> i > k
  BY <1>1, KeptSuffix, Zenon
<1> DEFINE es == Kept(m, S)
<1>3. /\ es \in Seq(Entry) /\ Len(es) = Len(m) - k
      /\ \A i \in 1..Len(es) : es[i] = m[k + i]
  BY <1>0, <1>2
<1>4. \A i \in 1..Len(es) : es[i] = log[t + k + i]
  <2> SUFFICES ASSUME NEW i \in 1..Len(es) PROVE es[i] = log[t + k + i]
    BY Zenon
  <2>1. k + i \in 1..Len(m) /\ t + (k + i) = t + k + i
    BY <1>0, <1>3
  <2> HIDE DEF es
  <2> QED
    BY <1>3, <2>1, Zenon
<1>5. ASSUME NEW i \in 1..Len(log), i > t
      PROVE  End(log[i]) > n <=> i > t + k
  <2>1. i - t \in 1..Len(m) /\ t + (i - t) = i
    BY <1>0, <1>5
  <2>2. m[i - t] = log[i]
    BY <2>1
  <2>3. End(log[i]) > n <=> i - t > k
    BY <1>2, <2>1, <2>2
  <2> QED
    BY <1>0, <2>3
<1> HIDE DEF es
<1>6. /\ es \in Seq(Entry) /\ Len(es) = Len(m) - k
      /\ \A i \in 1..Len(es) : es[i] = log[t + k + i]
      /\ \A i \in 1..Len(log) : i > t => (End(log[i]) > n <=> i > t + k)
  BY <1>3, <1>4, <1>5, Zenon
<1> QED
  BY <1>6, Zenon DEF es, KeptFrom

\* TruncateBefore at the low watermark: the log stays as it is, the manifest
\* loses only entries the watermark is past.
LEMMA RetainLog ==
  ASSUME NatFacts, TypeOK, LogInv, Retain
  PROVE  /\ TypeOK' /\ LogInv' /\ Truncated' \in Nat /\ Truncated <= Truncated'
         /\ \A k \in 1..Truncated' : k <= Truncated \/ End(log[k]) <= LowWatermark
<1>0. LowWatermark \in Nat /\ log \in Seq(Entry)
  BY ReplicaAssumption DEF LowWatermark, TypeOK
<1>1. PICK m, t : m = manifest.entries /\ t = Truncated /\ LiveSuffix(m, t)
  BY LogFacts DEF LiveSuffix
<1> DEFINE S == {e \in Live(manifest) : ~(End(e) - 1 <= LowWatermark - 1)}
           es == Kept(m, S)
<1>2. \A i \in 1..Len(m) : m[i] \in S <=> End(m[i]) > LowWatermark
  <2>1. Live(manifest) = {m[i] : i \in 1..Len(m)}
    BY <1>1, SMTT(30) DEF Live, LiveSuffix
  <2>2. \A i \in 1..Len(m) : End(m[i]) \in Nat
    BY <1>1, EntryTypes, Zenon DEF LiveSuffix
  <2> QED
    BY <1>0, <2>1, <2>2
<1>3. PICK k \in 0..Len(m) :
        /\ es \in Seq(Entry) /\ Len(es) = Len(m) - k
        /\ \A i \in 1..Len(es) : es[i] = log[t + k + i]
        /\ \A i \in 1..Len(log) : i > t => (End(log[i]) > LowWatermark <=> i > t + k)
  <2>1. LowWatermark \in Int
    BY <1>0
  <2>2. Splits(S, m, LowWatermark)
    BY <1>2 DEF Splits
  <2> HIDE DEF S
  <2>3. KeptFrom(Kept(m, S), m, t, LowWatermark)
    BY <1>0, <1>1, <2>1, <2>2, KeptSlice
  <2> QED
    BY <2>3 DEF es, KeptFrom
<1>4. manifest' = [manifest EXCEPT !.entries = es] /\ log' = log
  BY <1>1 DEF Retain, TruncateThrough
<1> HIDE DEF es, S
<1>5. /\ manifest' \in [entries : Seq(Entry), nextSequence : Nat, epoch : {0},
                        snapshot : {NoSnapshot}]
      /\ manifest'.entries = es /\ manifest'.nextSequence = manifest.nextSequence
  <2>1. manifest \in [entries : Seq(Entry), nextSequence : Nat, epoch : {0},
                      snapshot : {NoSnapshot}]
    BY DEF TypeOK
  <2> QED
    BY <1>3, <1>4, <2>1
<1>6. TypeOK'
  BY <1>5 DEF TypeOK, Retain
<1>7. Truncated' = t + k
  <2>1. Truncated' = Len(log) - Len(es)
    BY <1>4, <1>5 DEF Truncated
  <2>2. t \in Nat /\ Len(es) = Len(m) - k /\ Len(m) \in Nat /\ t + Len(m) = Len(log)
    BY <1>1, <1>3 DEF LiveSuffix
  <2> QED
    BY <2>1, <2>2
<1>8. LogInv'
  <2>1. Truncated' >= 0 /\ \A i \in 1..Len(es) : es[i] = log[Truncated' + i]
    BY <1>1, <1>3, <1>7 DEF LiveSuffix
  <2> QED
    BY <1>4, <1>5, <2>1 DEF LogInv, Size
<1>9. ASSUME NEW j \in 1..Truncated' PROVE j <= Truncated \/ End(log[j]) <= LowWatermark
  <2>1. j \in 1..Len(log) /\ ~(j > t + k)
    BY <1>1, <1>7 DEF LiveSuffix
  <2>2. log[j] \in Entry
    BY <1>0, <2>1
  <2>3. End(log[j]) \in Nat
    BY <2>2, EntryTypes, Zenon
  <2>4. j <= t \/ ~(End(log[j]) > LowWatermark)
    BY <1>1, <1>3, <2>1, SMTT(30) DEF LiveSuffix
  <2> QED
    BY <1>0, <1>1, <2>3, <2>4
<1> QED
  BY <1>1, <1>6, <1>7, <1>8, <1>9 DEF LiveSuffix

\* Listing the entries since `next` establishes the invariant of the poll.
LEMMA LoadSlice ==
  ASSUME NatFacts, TypeOK, LogInv, LoadManifest
  PROVE  /\ TypeOK' /\ LogInv' /\ PollInv' /\ poll'.pc = "segment"
         /\ poll'.entries # <<>> => Truncated < Current'.Location.segment
         /\ \A k \in 1..Len(log) :
              Truncated < k /\ (poll'.entries # <<>> => k < Current'.Location.segment)
              => End(log[k]) <= next
<1>0. next \in Nat /\ log \in Seq(Entry)
  BY DEF TypeOK
<1>11. PICK m, t : m = manifest.entries /\ t = Truncated /\ LiveSuffix(m, t)
  BY LogFacts DEF LiveSuffix
<1> DEFINE S == {e \in Live(manifest) : End(e) > next}
           es == Kept(m, S)
<1>1. \A i \in 1..Len(m) : m[i] \in S <=> End(m[i]) > next
  <2>1. Live(manifest) = {m[i] : i \in 1..Len(m)}
    BY <1>11 DEF Live, LiveSuffix
  <2> QED
    BY <2>1
<1>2. PICK k \in 0..Len(m) :
        /\ es \in Seq(Entry) /\ Len(es) = Len(m) - k
        /\ \A i \in 1..Len(es) : es[i] = log[t + k + i]
        /\ \A i \in 1..Len(log) : i > t => (End(log[i]) > next <=> i > t + k)
  <2>1. next \in Int
    BY <1>0
  <2>2. Splits(S, m, next)
    BY <1>1 DEF Splits
  <2> HIDE DEF S
  <2>3. KeptFrom(Kept(m, S), m, t, next)
    BY <1>0, <1>11, <2>1, <2>2, KeptSlice
  <2> QED
    BY <2>3 DEF es, KeptFrom
<1>3. /\ poll' = [poll EXCEPT !.entries = es, !.resumeAt = next, !.pc = "segment"]
      /\ UNCHANGED <<manifest, log, next, restored, cursor, applied>>
  BY <1>11 DEF LoadManifest, EntriesContaining
<1> HIDE DEF S, es
<1>4. /\ poll' \in PollType
      /\ poll'.entries = es /\ poll'.pc = "segment" /\ poll'.resumeAt = next
  <2>1. poll \in PollType
    BY DEF TypeOK
  <2> QED
    BY <1>0, <1>2, <1>3, <2>1, Zenon DEF PollType
<1>5. TypeOK'
  BY <1>3, <1>4 DEF TypeOK
<1>6. LogInv'
  BY <1>3 DEF LogInv, Size, Truncated
<1>7. PICK a \in 0..Len(log) : a = t + k /\ a + Len(es) = Len(log)
  <2>1. t \in Nat /\ Len(es) = Len(m) - k /\ Len(m) \in Nat /\ t + Len(m) = Len(log)
    BY <1>11, <1>2 DEF LiveSuffix
  <2>2. t + k \in 0..Len(log) /\ t + k + Len(es) = Len(log)
    BY <2>1
  <2> QED
    BY <2>2
<1>8. Slice(a)'
  <2>1. a + Len(es) <= Len(log)
    BY <1>7, <1>11 DEF LiveSuffix
  <2>2. \A i \in 1..Len(es) : es[i] = log[a + i]
    BY <1>2, <1>7
  <2> QED
    BY <1>3, <1>4, <2>1, <2>2 DEF Slice
<1>9. \A i \in 1..Len(log) : i > t /\ i <= a => End(log[i]) <= next
  <2> SUFFICES ASSUME NEW i \in 1..Len(log), i > t, i <= a PROVE End(log[i]) <= next
    OBVIOUS
  <2>1. log[i] \in Entry /\ a \in Nat
    BY <1>0, <1>7
  <2>2. ~(End(log[i]) > next)
    BY <1>2, <1>7, <2>1
  <2>3. End(log[i]) \in Nat
    BY <2>1, EntryTypes, Zenon
  <2> QED
    BY <1>0, <2>2, <2>3
<1>10. ASSUME es # <<>>
       PROVE  next < End(es[1]) /\ es[1].Location.segment = a + 1 /\ t <= a
  <2>1. Len(es) \in Nat /\ Len(es) >= 1
    BY <1>2, <1>10
  <2>2. a + 1 \in 1..Len(log) /\ es[1] = log[a + 1] /\ Len(log) \in Nat
    BY <1>2, <1>7, <2>1, <1>11, SMTT(30) DEF LiveSuffix
  <2>3. a + 1 > t /\ a >= t
    BY <1>7, <1>11 DEF LiveSuffix
  <2>4. End(log[a + 1]) > next
    BY <1>2, <2>2, <2>3, <1>7, <1>11, SMTT(30) DEF LiveSuffix
  <2>5. log[a + 1].Location.segment = a + 1
    BY <2>2 DEF LogInv
  <2>6. log[a + 1] \in Entry
    BY <1>0, <2>2
  <2>7. End(log[a + 1]) \in Nat
    BY <2>6, EntryTypes, Zenon
  <2> QED
    BY <1>0, <2>2, <2>3, <2>4, <2>5, <2>7
<1>12. Current' = es[1] /\ Truncated' = t /\ t \in Nat /\ a \in Nat /\ Len(log) \in Nat
  BY <1>3, <1>4, <1>7, <1>11, SMTT(30) DEF Current, Truncated, LiveSuffix
<1>13. PollInv'
  <2>1. \A j \in 1..Len(log) : j <= a => j <= t \/ End(log[j]) <= next
    BY <1>9, <1>12
  <2>2. es # <<>> => \A j \in 1..Len(log) : j < es[1].Location.segment => j <= a
    BY <1>10, <1>12
  <2>3. \E b \in 0..Len(log') : Slice(b)'
    BY <1>3, <1>7, <1>8
  <2>4. /\ next' = next /\ log' = log
        /\ es # <<>> => \A j \in 1..Len(log) :
             j < es[1].Location.segment => j <= t \/ End(log[j]) <= next
    BY <1>3, <2>1, <2>2
  <2> QED
    BY <1>4, <1>10, <1>12, <2>3, <2>4 DEF PollInv, Reading
<1>14. ASSUME NEW j \in 1..Len(log), t < j, es # <<>> => j < es[1].Location.segment
       PROVE  End(log[j]) <= next
  <2>1. CASE es # <<>>
    BY <1>9, <1>10, <1>12, <1>14, <2>1
  <2>2. CASE es = <<>>
    <3>1. a = Len(log)
      BY <1>7, <1>12, <2>2
    <3> QED
      BY <1>9, <1>12, <1>14, <3>1
  <2> QED
    BY <2>1, <2>2
<1> QED
  BY <1>4, <1>5, <1>6, <1>10, <1>11, <1>12, <1>13, <1>14

\* What the skip loop of Poll passes over at the front of a segment: the part
\* of the range before `next`, and nothing of a segment that starts there.
LEMMA SkippedIs ==
  ASSUME NatFacts, NEW e \in Entry, e.Count # 0 => e.Location.records = e.Count,
         next \in Nat, poll.resumeAt \in Nat, next < End(e),
         poll.resumeAt = next \/ (poll.resumeAt < next /\ next = e.Sequence)
  PROVE  Skipped(e) = (IF e.Sequence <= next THEN next - e.Sequence ELSE 0)
<1> DEFINE n == IF e.Sequence <= next THEN next - e.Sequence ELSE 0
<1>1. n \in Nat
  BY EntryTypes, SMTT(30)
<1>2. {i \in 0..e.Location.records - 1 : RecSeq(e, i) < poll.resumeAt} = 0..n - 1
  <2>1. CASE e.Count = 0
    <3>1. next <= e.Sequence
      BY <2>1, EntryTypes, SMTT(30) DEF End, RangeSize
    <3> QED
      BY <2>1, <3>1, EntryTypes DEF RecSeq
  <2>2. CASE e.Count # 0
    <3>1. n < e.Location.records /\ e.Count > 0
      BY <2>2, EntryTypes, SMTT(30) DEF End, RangeSize
    <3> QED
      BY <2>2, <3>1, EntryTypes, SMTT(30) DEF RecSeq
  <2> QED
    BY <2>1, <2>2
<1>3. Cardinality(0..n - 1) = n
  BY <1>1 DEF NatFacts
<1> QED
  BY <1>1, <1>2, <1>3, Zenon DEF Skipped

\* The entry in hand is an entry of the log and the next one follows it
\* directly.
LEMMA CurrentIs ==
  ASSUME TypeOK, LogInv, PollInv, Reading
  PROVE  /\ Current \in Entry /\ Current.Location.segment \in 1..Len(log)
         /\ Current = log[Current.Location.segment]
         /\ Current.Count # 0 => Current.Location.records = Current.Count
         /\ Tail(poll.entries) \in Seq(Entry)
         /\ Tail(poll.entries) # <<>> =>
              /\ Tail(poll.entries)[1] \in Entry
              /\ Tail(poll.entries)[1].Sequence = End(Current)
              /\ Tail(poll.entries)[1].Location.segment = Current.Location.segment + 1
              /\ \E a \in 0..Len(log) :
                   /\ a + Len(Tail(poll.entries)) <= Len(log)
                   /\ \A k \in 1..Len(Tail(poll.entries)) : Tail(poll.entries)[k] = log[a + k]
<1>1. PICK es : es = poll.entries /\ es \in Seq(Entry) /\ es # <<>> /\ Len(log) \in Nat
  BY SMTT(30) DEF TypeOK, PollType, Reading
<1>2. PICK a \in 0..Len(log) : a + Len(es) <= Len(log) /\ \A k \in 1..Len(es) : es[k] = log[a + k]
  BY <1>1 DEF PollInv, Slice
<1>3. Current = es[1] /\ 1 \in 1..Len(es) /\ a + 1 \in 1..Len(log) /\ es[1] \in Entry
  BY <1>1, <1>2 DEF Current
<1>4. es[1].Location.segment = a + 1 /\ es[1] = log[a + 1]
  BY <1>2, <1>3 DEF LogInv
<1>5. es[1].Count # 0 => es[1].Location.records = es[1].Count
  BY <1>3, <1>4 DEF LogInv, Size
<1>6. /\ Tail(es) \in Seq(Entry) /\ Len(Tail(es)) = Len(es) - 1
      /\ \A k \in 1..Len(Tail(es)) : Tail(es)[k] = es[k + 1]
  BY <1>1
<1>7. ASSUME Tail(es) # <<>>
      PROVE  /\ Tail(es)[1] \in Entry
             /\ Tail(es)[1].Sequence = End(es[1])
             /\ Tail(es)[1].Location.segment = es[1].Location.segment + 1
             /\ \E b \in 0..Len(log) :
                  /\ b + Len(Tail(es)) <= Len(log)
                  /\ \A k \in 1..Len(Tail(es)) : Tail(es)[k] = log[b + k]
  <2>1. Len(es) \in Nat /\ Len(es) >= 2
    BY <1>1, <1>6, <1>7
  <2>2. a + 1 \in 0..Len(log) /\ a + 2 \in 1..Len(log)
    BY <1>1, <1>2, <2>1
  <2>3. Tail(es)[1] = log[a + 2] /\ Tail(es)[1] \in Entry
    BY <1>2, <1>6, <2>1
  <2>4. log[a + 2].Sequence = End(log[a + 1])
    <3>1. \A j \in 1..Len(log) : log[j].Sequence = IF j = 1 THEN 0 ELSE End(log[j - 1])
      BY DEF LogInv
    <3>2. a + 2 # 1 /\ a + 2 - 1 = a + 1
      OBVIOUS
    <3> QED
      BY <2>2, <3>1, <3>2, SMTT(30)
  <2>5. a + 1 + Len(Tail(es)) <= Len(log)
    <3>1. a + 1 + (Len(es) - 1) <= Len(log)
      <4>1. a + Len(es) <= Len(log) /\ Len(log) \in Nat
        BY <1>1, <1>2
      <4> QED
        BY <2>1, <4>1
    <3>2. Len(Tail(es)) = Len(es) - 1
      BY <1>6
    <3> QED
      BY <3>1, <3>2, Zenon
  <2>6. ASSUME NEW k \in 1..Len(Tail(es)) PROVE Tail(es)[k] = log[a + 1 + k]
    <3>1. k + 1 \in 1..Len(es) /\ a + (k + 1) = a + 1 + k
      BY <1>6, <2>1
    <3> QED
      BY <1>2, <1>6, <3>1
  <2>7. log[a + 2].Location.segment = a + 2 /\ a + 1 + 1 = a + 2
    BY <2>2, SMTT(30) DEF LogInv
  <2> QED
    BY <1>4, <2>2, <2>3, <2>4, <2>5, <2>6, <2>7, Zenon
<1> QED
  BY <1>1, <1>3, <1>4, <1>5, <1>6, <1>7, Zenon

\* A poll that returns leaves a sound replica behind.
LEMMA PollReturned ==
  ASSUME TypeOK, LogInv, PollReturns, UNCHANGED <<manifest, log, applied>>, next' \in Nat,
         restored' \in BOOLEAN, cursor' \in Nat \cup {NoCursor}
  PROVE  TypeOK' /\ LogInv' /\ PollInv' /\ poll'.pc = "idle"
<1>1. poll' \in PollType /\ poll'.pc = "idle"
  BY DEF PollReturns, Idle, PollType
<1>2. TypeOK'
  BY <1>1 DEF TypeOK
<1>3. LogInv'
  BY Zenon DEF LogInv, Size, Truncated
<1>4. PollInv'
  BY <1>1 DEF PollInv, Reading
<1> QED
  BY <1>1, <1>2, <1>3, <1>4

\* The segment's download succeeds: the record cursor starts behind the
\* records already applied.
LEMMA SegmentFetched ==
  ASSUME NatFacts, TypeOK, LogInv, PollInv, GetSegment
  PROVE  /\ TypeOK' /\ LogInv' /\ PollInv'
         /\ poll'.pc = "apply" /\ poll'.entries = poll.entries
         /\ poll'.i = (IF Current.Sequence <= next THEN next - Current.Sequence ELSE 0)
<1>1. Reading /\ poll \in PollType /\ next \in Nat
  BY DEF GetSegment, Reading, TypeOK
<1>2. poll' = [poll EXCEPT !.i = Skipped(Current), !.pc = "apply"]
  BY DEF GetSegment
<1>3. /\ next < End(Current)
      /\ poll.resumeAt = next \/ (poll.resumeAt < next /\ next = Current.Sequence)
      /\ \A k \in 1..Len(log) :
           k < Current.Location.segment => k <= Truncated \/ End(log[k]) <= next
  BY <1>1 DEF PollInv
<1>4. Current \in Entry /\ (Current.Count # 0 => Current.Location.records = Current.Count)
  BY <1>1, CurrentIs
<1>5. poll.resumeAt \in Nat
  BY <1>1 DEF PollType
<1>6. /\ Skipped(Current) = (IF Current.Sequence <= next THEN next - Current.Sequence ELSE 0)
      /\ Skipped(Current) \in Nat /\ next - Current.Sequence <= Skipped(Current)
  <2>1. Skipped(Current) = (IF Current.Sequence <= next THEN next - Current.Sequence ELSE 0)
    BY <1>1, <1>3, <1>4, <1>5, SkippedIs
  <2>2. Current.Sequence \in Nat
    BY <1>4, EntryTypes
  <2> QED
    BY <1>1, <2>1, <2>2
<1>7. /\ poll' \in PollType /\ poll'.pc = "apply" /\ poll'.entries = poll.entries
      /\ poll'.i = Skipped(Current) /\ poll'.resumeAt = poll.resumeAt
  BY <1>1, <1>2, <1>6, Zenon DEF PollType
<1>8. TypeOK'
  BY <1>7 DEF TypeOK, GetSegment
<1>9. LogInv'
  BY DEF LogInv, Size, Truncated, GetSegment
<1>10. Skipped(Current) <= Current.Location.records
  <2>1. next < Current.Sequence + RangeSize(Current) /\ RangeSize(Current) <= Current.Location.records
    <3>1. PICK e \in Entry : e = Current
      BY <1>4
    <3>2. next < End(e) /\ (e.Count # 0 => e.Location.records = e.Count)
      BY <1>3, <1>4, <3>1
    <3>3. e.Location.records \in Nat \ {0} /\ e.Count \in Nat
      BY EntryTypes
    <3> QED
      BY <3>1, <3>2, <3>3 DEF RangeSize, End
  <2> QED
    BY <1>1, <1>4, <1>6, <2>1, EntryTypes, SMTT(30)
<1>11. PollInv'
  <2>1. Current' = Current /\ next' = next /\ log' = log /\ Truncated' = Truncated
    BY <1>7 DEF Current, GetSegment, Truncated
  <2>2. \E a \in 0..Len(log) : Slice(a)
    BY <1>1 DEF PollInv
  <2>3. \A a : Slice(a) => Slice(a)'
    BY <1>7, <2>1 DEF Slice
  <2>4. \E a \in 0..Len(log') : Slice(a)'
    BY <2>1, <2>2, <2>3
  <2> QED
    BY <1>1, <1>3, <1>6, <1>7, <1>10, <2>1, <2>4 DEF PollInv, Reading
<1> QED
  BY <1>6, <1>7, <1>8, <1>9, <1>11

\* One record goes to the Applier: the poll moves to the next one.
LEMMA RecordDelivered ==
  ASSUME TypeOK, LogInv, PollInv, Applying, Delivered,
         UNCHANGED <<manifest, log, next, restored>>, cursor' \in Nat \cup {NoCursor}
  PROVE  /\ TypeOK' /\ LogInv' /\ PollInv'
         /\ poll'.pc = "apply" /\ poll'.entries = poll.entries /\ poll'.i = poll.i + 1
<1>1. Reading /\ poll \in PollType /\ poll.pc = "apply" /\ poll.i < Current.Location.records
  BY DEF Applying, Reading, TypeOK, PollInv
<1>2. /\ poll' \in PollType /\ poll'.pc = "apply" /\ poll'.entries = poll.entries
      /\ poll'.i = poll.i + 1 /\ poll'.resumeAt = poll.resumeAt /\ poll.i \in Nat
  <2>1. poll.i \in Nat /\ poll.count \in Nat
    BY <1>1 DEF PollType
  <2>2. poll' = [poll EXCEPT !.i = poll.i + 1, !.count = poll.count + 1]
    BY DEF Delivered
  <2>3. poll.i + 1 \in Nat /\ poll.count + 1 \in Nat
    BY <2>1
  <2> QED
    BY <1>1, <2>1, <2>2, <2>3, Zenon DEF PollType
<1>3. Current \in Entry
  BY <1>1, CurrentIs
<1>4. ThisRecord \in [segment : Nat, i : Nat]
  BY <1>2, <1>3, EntryTypes DEF ThisRecord
<1>5. TypeOK'
  BY <1>2, <1>4 DEF TypeOK, Delivered
<1>6. LogInv'
  BY Zenon DEF LogInv, Size, Truncated
<1>7. Current' = Current /\ next' = next /\ log' = log /\ Truncated' = Truncated
  BY <1>2 DEF Current, Truncated
<1>8. \E a \in 0..Len(log') : Slice(a)'
  <2>1. \E a \in 0..Len(log) : Slice(a)
    BY <1>1 DEF PollInv
  <2>2. \A a : Slice(a) => Slice(a)'
    BY <1>2, <1>7 DEF Slice
  <2> QED
    BY <1>7, <2>1, <2>2
<1>9. PollInv'
  <2>1. /\ next < End(Current)
        /\ poll.resumeAt = next \/ (poll.resumeAt < next /\ next = Current.Sequence)
        /\ \A k \in 1..Len(log) :
             k < Current.Location.segment => k <= Truncated \/ End(log[k]) <= next
        /\ next - Current.Sequence <= poll.i
    BY <1>1 DEF PollInv
  <2>2. next - Current.Sequence <= poll.i + 1 /\ poll.i + 1 <= Current.Location.records
    <3>1. next \in Nat
      BY DEF TypeOK
    <3> QED
      <4>1. /\ Current.Sequence \in Nat /\ Current.Location.records \in Nat
            /\ poll.i \in Nat /\ poll.i < Current.Location.records
        BY <1>1, <1>2, <1>3, EntryTypes
      <4>2. next - Current.Sequence <= poll.i
        BY <2>1
      <4> QED
        BY <3>1, <4>1, <4>2, SMT
  <2> QED
    BY <1>1, <1>2, <1>7, <1>8, <2>1, <2>2 DEF PollInv, Reading
<1> QED
  BY <1>2, <1>5, <1>6, <1>9

\* At the end of a segment `next` moves to the end of its range.
LEMMA SegmentAdvances ==
  ASSUME TypeOK, LogInv, PollInv, SegmentDone
  PROVE  /\ TypeOK' /\ LogInv' /\ PollInv'
         /\ next' = End(Current) /\ poll'.pc \in {"save", "segment", "end"}
<1>1. Reading /\ poll \in PollType /\ poll.pc = "apply"
  BY DEF SegmentDone, Reading, TypeOK, PollInv
<1>2. /\ Current \in Entry /\ Current.Location.segment \in 1..Len(log)
      /\ Current = log[Current.Location.segment] /\ Tail(poll.entries) \in Seq(Entry)
  BY <1>1, CurrentIs
<1>3. PICK to \in {"save", "segment", "end"} :
        poll' = [poll EXCEPT !.entries = Tail(poll.entries), !.sinceSave = poll.sinceSave + 1,
                             !.pc = to]
  BY Zenon DEF SegmentDone, AfterSegment
<1>4. /\ poll' \in PollType /\ poll'.pc = to /\ poll'.entries = Tail(poll.entries)
      /\ poll'.resumeAt = poll.resumeAt
  <2>1. poll.sinceSave + 1 \in Nat
    BY <1>1, SMTT(30) DEF PollType
  <2> QED
    BY <1>1, <1>2, <1>3, <2>1, Zenon DEF PollType
<1>5. next' = End(Current) /\ End(Current) \in Nat
  BY <1>2, EntryTypes DEF SegmentDone
<1>6. TypeOK'
  BY <1>4, <1>5 DEF TypeOK, SegmentDone
<1>7. LogInv'
  BY DEF LogInv, Size, Truncated, SegmentDone
<1>8. PollInv'
  <2>1. log' = log
    BY DEF SegmentDone
  <2> SUFFICES ASSUME Reading'
               PROVE  /\ \E a \in 0..Len(log') : Slice(a)'
                      /\ next' < End(Current')
                      /\ poll'.resumeAt < next' /\ next' = Current'.Sequence
                      /\ \A k \in 1..Len(log') :
                           k < Current'.Location.segment => End(log'[k]) <= next'
    BY <1>4 DEF PollInv
  <2>2. Tail(poll.entries) # <<>> /\ Current' = Tail(poll.entries)[1]
    BY <1>4 DEF Reading, Current
  <2>3. Current' \in Entry /\ Current'.Sequence = End(Current)
    BY <1>1, <2>2, CurrentIs
  <2>4. \E a \in 0..Len(log') : Slice(a)'
    BY <1>1, <1>4, <2>1, <2>2, CurrentIs, Zenon DEF Slice
  <2>5. poll.resumeAt <= next /\ next < End(Current) /\ poll.resumeAt \in Nat /\ next \in Nat
    BY <1>1, SMTT(30) DEF PollInv, PollType, TypeOK
  <2>6. Current'.Sequence \in Nat /\ End(Current') \in Nat /\ Current'.Sequence < End(Current')
    BY <2>3, EntryTypes
  <2>7. \A k \in 1..Len(log) : k < Current'.Location.segment => End(log[k]) <= End(Current)
    <3>1. PICK c \in 1..Len(log) : c = Current.Location.segment
      BY <1>2
    <3>2. Current'.Location.segment = c + 1 /\ Current = log[c]
      BY <1>1, <1>2, <2>2, <3>1, CurrentIs
    <3>3. End(Current) \in Nat /\ \A k \in 1..Len(log) : k < c => End(log[k]) <= Current.Sequence
      BY <1>5, <3>2 DEF LogInv
    <3>4. \A k \in 1..Len(log) : End(log[k]) \in Nat
      BY LogFacts, EntryTypes
    <3>5. Current.Sequence \in Nat /\ Current.Sequence < End(Current) /\ Len(log) \in Nat
      BY <1>2, EntryTypes, LogFacts, Zenon
    <3>6. ASSUME NEW k \in 1..Len(log), k < c + 1 PROVE k < c \/ k = c
      BY <3>1, <3>6
    <3> QED
      BY <3>2, <3>3, <3>4, <3>5, <3>6
  <2> QED
    BY <1>4, <1>5, <2>1, <2>3, <2>4, <2>5, <2>6, <2>7
<1> QED
  BY <1>4, <1>5, <1>6, <1>7, <1>8

\* What others do (commit, retention) does not disturb a poll in flight.
LEMMA PollKept ==
  ASSUME TypeOK, LogInv, PollInv, Truncated' \in Int, Truncated <= Truncated',
         poll'.entries = poll.entries, poll'.resumeAt = poll.resumeAt,
         Reading' => Reading, poll'.pc = "apply" => poll.pc = "apply" /\ poll'.i = poll.i,
         next' = next, Len(log') \in Nat, Len(log) <= Len(log'),
         \A k \in 1..Len(log) : log'[k] = log[k]
  PROVE  PollInv'
<1>1. Current' = Current
  BY DEF Current
<1>2. ASSUME Reading PROVE \E a \in 0..Len(log') : Slice(a)'
  <2>1. PICK es : es = poll.entries /\ Len(es) \in Nat /\ Len(log) \in Nat
    BY SMTT(30) DEF TypeOK, PollType
  <2>2. PICK a \in 0..Len(log) :
          a + Len(es) <= Len(log) /\ \A k \in 1..Len(es) : es[k] = log[a + k]
    BY <1>2, <2>1 DEF PollInv, Slice
  <2>3. a \in 0..Len(log') /\ a + Len(es) <= Len(log')
    BY <2>1, <2>2
  <2>4. \A k \in 1..Len(es) : es[k] = log'[a + k]
    BY <2>1, <2>2, SMTT(30)
  <2>5. Slice(a)'
    BY <2>1, <2>3, <2>4 DEF Slice
  <2> QED
    BY <2>3, <2>5
<1>3. ASSUME Reading
      PROVE  \A k \in 1..Len(log') :
               k < Current.Location.segment => k <= Truncated' \/ End(log'[k]) <= next
  <2>1. PICK c \in 1..Len(log) : c = Current.Location.segment
    BY <1>3, CurrentIs
  <2>2. \A k \in 1..Len(log) : k < c => k <= Truncated \/ End(log[k]) <= next
    BY <1>3, <2>1 DEF PollInv
  <2>3. Truncated \in Nat /\ Len(log) \in Nat
    BY LogFacts
  <2>4. \A k \in 1..Len(log') : k < c => k \in 1..Len(log)
    BY <2>1, <2>3, SMTT(30)
  <2> QED
    BY <2>1, <2>2, <2>3, <2>4, SMTT(30)
<1> QED
  BY <1>1, <1>2, <1>3 DEF PollInv, Reading

\* A record's sequence lies in the range of its entry.
LEMMA RecordBounds ==
  ASSUME TypeOK, LogInv
  PROVE  \A k \in 1..Len(log) : \A i \in 0..Size(k) - 1 :
           /\ RecSeq(log[k], i) \in Nat /\ log[k].Sequence <= RecSeq(log[k], i)
           /\ RecSeq(log[k], i) < End(log[k]) /\ End(log[k]) \in Nat /\ Size(k) \in Nat
<1> SUFFICES ASSUME NEW k \in 1..Len(log), NEW i \in 0..Size(k) - 1
             PROVE  /\ RecSeq(log[k], i) \in Nat /\ log[k].Sequence <= RecSeq(log[k], i)
                    /\ RecSeq(log[k], i) < End(log[k]) /\ End(log[k]) \in Nat /\ Size(k) \in Nat
  OBVIOUS
<1>1. log[k] \in Entry
  BY SMTT(30) DEF TypeOK
<1>2. log[k].Count # 0 => Size(k) = log[k].Count
  BY DEF LogInv
<1>3. Size(k) \in Nat
  BY <1>1, EntryTypes, Zenon DEF Size
<1>4. PICK n \in Nat : n = Size(k)
  BY <1>3
<1>5. i \in Nat /\ i < n
  BY <1>4
<1>6. log[k].Count \in Nat /\ log[k].Sequence \in Nat
  BY <1>1, EntryTypes
<1>7. RecSeq(log[k], i) < End(log[k])
  BY <1>2, <1>4, <1>5, <1>6 DEF RecSeq, End, RangeSize
<1> QED
  BY <1>1, <1>3, <1>5, <1>7, EntryTypes, Zenon

\* The records Below(n), in terms of the log.
LEMMA BelowIs ==
  ASSUME TypeOK, LogInv, NEW n \in Int, NEW r
  PROVE  r \in Below(n) <=>
           \E k \in 1..Len(log) : \E i \in 0..Size(k) - 1 :
             StartAt <= RecSeq(log[k], i) /\ RecSeq(log[k], i) < n /\ r = Rec(k, i)
<1>1. Range(log) = {log[k] : k \in 1..Len(log)}
  BY SMTT(30) DEF Range, TypeOK
<1>2. \A k \in 1..Len(log) :
        Records(log[k]) = {Rec(k, i) : i \in 0..Size(k) - 1}
  <2> SUFFICES ASSUME NEW k \in 1..Len(log)
               PROVE  Records(log[k]) = {Rec(k, i) : i \in 0..Size(k) - 1}
    OBVIOUS
  <2>1. log[k].Location.segment = k
    BY DEF LogInv
  <2>2. PICK I : I = 0..Size(k) - 1
    OBVIOUS
  <2>3. Records(log[k]) = [segment : {k}, i : I]
    BY <2>1, <2>2 DEF Records, Size
  <2>4. [segment : {k}, i : I] = {Rec(k, i) : i \in I}
    <3>1. ASSUME NEW x \in [segment : {k}, i : I] PROVE x \in {Rec(k, i) : i \in I}
      BY DEF Rec
    <3>2. ASSUME NEW i \in I PROVE Rec(k, i) \in [segment : {k}, i : I]
      BY DEF Rec
    <3> QED
      BY <3>1, <3>2, Zenon
  <2> QED
    BY <2>2, <2>3, <2>4, Zenon
<1>3. \A k \in 1..Len(log) : \A i \in 0..Size(k) - 1 :
        RecSeq(log[k], i) \in StartAt..n - 1 <=>
          StartAt <= RecSeq(log[k], i) /\ RecSeq(log[k], i) < n
  BY RecordBounds, ReplicaAssumption
<1>4. \A k, i : Rec(k, i).i = i
  BY DEF Rec
<1>5. r \in Below(n) <=>
        \E k \in 1..Len(log) : r \in Records(log[k]) /\ RecSeq(log[k], r.i) \in StartAt..n - 1
  BY <1>1, SMTT(30) DEF Below
<1>6. ASSUME NEW k \in 1..Len(log)
      PROVE  r \in Records(log[k]) /\ RecSeq(log[k], r.i) \in StartAt..n - 1 <=>
             \E i \in 0..Size(k) - 1 :
               StartAt <= RecSeq(log[k], i) /\ RecSeq(log[k], i) < n /\ r = Rec(k, i)
  <2>1. r \in Records(log[k]) <=> \E i \in 0..Size(k) - 1 : r = Rec(k, i)
    BY <1>2
  <2> QED
    BY <1>3, <1>4, <2>1, ZenonT(30)
<1> QED
  BY <1>5, <1>6

-----------------------------------------------------------------------------
(* The invariant is inductive.                                             *)

\* A commit preserves the invariant.
LEMMA CommitInd ==
  ASSUME IInv, NEW count \in Counts, Commit(count)
  PROVE  IInv'
<1> TypeOK /\ LogInv /\ PositionInv /\ PollInv /\ AppliedInv
  BY DEF IInv
<1>1. /\ Len(log') = Len(log) + 1 /\ \A k \in 1..Len(log) : log'[k] = log[k]
      /\ log'[Len(log) + 1] = [Sequence |-> manifest.nextSequence, Count |-> count,
                               Location |-> Location(Len(log) + 1, count)]
      /\ log'[Len(log) + 1] \in Entry
      /\ manifest'.nextSequence = manifest.nextSequence + count
      /\ Truncated' = Truncated /\ TypeOK' /\ LogInv'
  BY CommitLog, Zenon
<1>2. /\ UNCHANGED <<next, restored, cursor, poll, applied>>
      /\ LowWatermark' = LowWatermark /\ Len(log) \in Nat
  BY SMTT(30) DEF Commit, LowWatermark, TypeOK
<1>3. PollInv'
  <2>1. Truncated \in Nat
    BY LogFacts
  <2> QED
    BY <1>1, <1>2, <2>1, PollKept DEF Reading
<1>4. PositionInv'
  <2>1. Truncated \in Nat /\ Truncated <= Len(log)
    BY LogFacts DEF Truncated, TypeOK
  <2>2. \A k \in 1..Truncated' : End(log'[k]) <= LowWatermark'
    BY <1>1, <1>2, <2>1 DEF PositionInv
  <2>3. /\ manifest.nextSequence \in Nat /\ count \in Nat
        /\ next \in Int /\ cursor \in Int
    BY ReplicaAssumption, SMTT(30) DEF TypeOK, NoCursor
  <2>4. /\ next' <= manifest'.nextSequence \/ next' = StartAt
        /\ cursor' <= manifest'.nextSequence \/ cursor' = StartAt
    BY <1>1, <1>2, <2>3 DEF PositionInv
  <2> QED
    BY <1>2, <2>2, <2>4 DEF PositionInv
<1>5. \A k \in 1..Len(log) : Size(k)' = Size(k)
  BY <1>1 DEF Size
<1>6. Current' = Current
  BY <1>2 DEF Current
<1>7. \A i \in Nat : /\ RecSeq(log'[Len(log')], i) >= manifest.nextSequence
                    /\ RecSeq(log'[Len(log')], i) \in Nat
  BY <1>1, EntryTypes, Zenon
<1>8. ASSUME NEW n \in Int, n <= manifest.nextSequence \/ n = StartAt, AppliedBelow(n)
      PROVE  AppliedBelow(n)'
  <2> SUFFICES ASSUME NEW k \in 1..Len(log'), NEW i \in 0..Size(k)' - 1,
                      StartAt <= RecSeq(log'[k], i), RecSeq(log'[k], i) < n
               PROVE  Rec(k, i) \in applied
    BY <1>2 DEF AppliedBelow
  <2>1. i \in Nat
    <3>1. log'[k] \in Entry
      BY <1>1, SMTT(30) DEF TypeOK
    <3>2. Size(k)' \in Nat
      BY <3>1, EntryTypes, Zenon DEF Size
    <3> QED
      BY <3>2
  <2>2. CASE k \in 1..Len(log)
    BY <1>1, <1>5, <1>8, <2>2 DEF AppliedBelow
  <2>3. CASE k = Len(log')
    <3>1. manifest.nextSequence \in Nat
      BY DEF TypeOK
    <3>2. RecSeq(log'[k], i) \in Nat /\ RecSeq(log'[k], i) >= manifest.nextSequence
      BY <1>7, <2>1, <2>3
    <3> QED
      BY <1>8, <3>1, <3>2, ReplicaAssumption
  <2> QED
    BY <1>1, <1>2, <2>2, <2>3
<1>9. AppliedInv'
  <2>1. AppliedHere'
    BY <1>2, <1>6 DEF AppliedInv, AppliedHere
  <2>2. AppliedBelow(next)' /\ AppliedBelow(cursor)'
    <3>1. next \in Int /\ cursor \in Int
      BY SMTT(30) DEF TypeOK, NoCursor
    <3>2. next <= manifest.nextSequence \/ next = StartAt
      BY DEF PositionInv
    <3>3. cursor <= manifest.nextSequence \/ cursor = StartAt
      BY DEF PositionInv
    <3>4. PICK n \in Int, c \in Int : n = next /\ c = cursor
      BY <3>1
    <3>5. AppliedBelow(n) /\ AppliedBelow(c)
      BY <3>4 DEF AppliedInv
    <3>6. AppliedBelow(n)' /\ AppliedBelow(c)'
      BY <1>8, <3>2, <3>3, <3>4, <3>5
    <3>7. n = next' /\ c = cursor'
      BY <1>2, <3>4
    <3> QED
      BY <3>6, <3>7 DEF AppliedBelow
  <2>3. \A r \in applied : r.segment \in 1..Len(log)
    BY DEF AppliedInv, AppliedFromLog
  <2>4. AppliedFromLog'
    BY <1>1, <1>2, <1>5, <2>3, SMTT(30) DEF AppliedInv, AppliedFromLog
  <2>5. \A r \in applied : AppliedBefore(r)'
    BY <1>1, <1>2, <1>5, <2>3, SMTT(30) DEF AppliedInv, AppliedBefore
  <2> QED
    BY <1>2, <2>1, <2>2, <2>4, <2>5 DEF AppliedInv
<1> QED
  BY <1>1, <1>3, <1>4, <1>9 DEF IInv

\* Nothing that AppliedInv reads changes but the poll.
LEMMA AppliedKept ==
  ASSUME AppliedInv, UNCHANGED <<log, next, applied>>,
         cursor' = cursor \/ cursor' = next, AppliedHere'
  PROVE  AppliedInv'
<1>1. AppliedBelow(next)'
  BY DEF AppliedInv, AppliedBelow, Size
<1>2. AppliedBelow(cursor)'
  BY DEF AppliedInv, AppliedBelow, Size
<1>3. AppliedFromLog'
  BY DEF AppliedInv, AppliedFromLog, Size
<1>4. \A r \in applied' : AppliedBefore(r)'
  BY DEF AppliedInv, AppliedBefore, Size
<1> QED
  BY <1>1, <1>2, <1>3, <1>4 DEF AppliedInv

\* Retention preserves the invariant.
LEMMA RetainInd ==
  ASSUME NatFacts, IInv, Retain
  PROVE  IInv'
<1> TypeOK /\ LogInv /\ PositionInv /\ PollInv /\ AppliedInv
  BY DEF IInv
<1>1. /\ TypeOK' /\ LogInv' /\ Truncated' \in Nat /\ Truncated <= Truncated'
      /\ \A k \in 1..Truncated' : k <= Truncated \/ End(log[k]) <= LowWatermark
  BY RetainLog, Zenon
<1>2. /\ UNCHANGED <<log, next, restored, cursor, poll, applied>>
      /\ LowWatermark' = LowWatermark /\ Len(log) \in Nat
      /\ manifest'.nextSequence = manifest.nextSequence
  BY SMTT(30) DEF Retain, LowWatermark, TypeOK, TruncateThrough
<1>3. PollInv'
  BY <1>1, <1>2, PollKept DEF Reading
<1>4. PositionInv'
  <2>1. \A k \in 1..Truncated' : End(log'[k]) <= LowWatermark'
    <3>1. \A k \in 1..Truncated : End(log[k]) <= LowWatermark
      BY DEF PositionInv
    <3>2. Truncated \in Nat
      BY LogFacts
    <3> QED
      BY <1>1, <1>2, <3>1, <3>2
  <2> QED
    BY <1>2, <2>1 DEF PositionInv
<1>5. AppliedInv'
  BY <1>2, AppliedKept DEF AppliedInv, AppliedHere, Current
<1> QED
  BY <1>1, <1>3, <1>4, <1>5 DEF IInv

\* A step of the reader that keeps the log keeps what IInv says of it.
LEMMA TruncatedKept ==
  ASSUME LogInv, UNCHANGED <<manifest, log>>
  PROVE  LogInv' /\ Truncated' = Truncated
BY Zenon DEF LogInv, Truncated, Size

\* Poll begins: the cursor is loaded once and `next` moves up to it, never
\* back.
LEMMA BeginPollInd ==
  ASSUME IInv, BeginPoll
  PROVE  IInv'
<1> TypeOK /\ LogInv /\ PositionInv /\ PollInv /\ AppliedInv
  BY DEF IInv
<1>1. UNCHANGED <<manifest, log, cursor, applied>> /\ LowWatermark' = LowWatermark
  BY DEF BeginPoll, LowWatermark
<1>2. poll'.pc = "load" /\ poll' \in PollType
  BY DEF BeginPoll, TypeOK, PollType
<1>3. /\ restored' = (restored \/ HasCursor)
      /\ next' = IF HasCursor /\ ~restored /\ cursor # NoCursor THEN cursor ELSE next
  BY DEF BeginPoll, Restore
<1>4. next' \in Nat /\ restored' \in BOOLEAN
  BY <1>3, ReplicaAssumption DEF TypeOK, NoCursor
<1>5. TypeOK'
  BY <1>1, <1>2, <1>4 DEF TypeOK
<1>6. LogInv' /\ Truncated' = Truncated
  BY <1>1, TruncatedKept
<1>7. PollInv'
  BY <1>2 DEF PollInv, Reading
<1>8. PositionInv'
  <2>1. next \in Nat /\ cursor \in Int /\ StartAt \in Nat /\ HasCursor \in BOOLEAN
    BY ReplicaAssumption, SMTT(30) DEF TypeOK, NoCursor
  <2>2. restored' \/ ~HasCursor
    BY <1>3, <2>1
  <2>3. next' >= LowWatermark' /\ next' >= StartAt
    BY <1>1, <1>3, <2>1 DEF PositionInv, LowWatermark
  <2>4. next' <= manifest'.nextSequence \/ next' = StartAt
    BY <1>1, <1>3 DEF PositionInv
  <2> QED
    BY <1>1, <1>6, <2>2, <2>3, <2>4 DEF PositionInv
<1>9. AppliedInv'
  <2>1. AppliedHere'
    BY <1>2 DEF AppliedHere
  <2>2. AppliedBelow(next)'
    BY <1>1, <1>3 DEF AppliedInv, AppliedBelow, Size
  <2>3. AppliedBelow(cursor)'
    BY <1>1 DEF AppliedInv, AppliedBelow, Size
  <2>4. AppliedFromLog'
    BY <1>1 DEF AppliedInv, AppliedFromLog, Size
  <2>5. \A r \in applied' : AppliedBefore(r)'
    BY <1>1 DEF AppliedInv, AppliedBefore, Size
  <2> QED
    BY <2>1, <2>2, <2>3, <2>4, <2>5 DEF AppliedInv
<1> QED
  BY <1>5, <1>6, <1>7, <1>8, <1>9 DEF IInv

\* The steps that leave next, the cursor and the log as they are.
LEMMA PositionKept ==
  ASSUME PositionInv, UNCHANGED <<manifest, log, next, restored, cursor>>,
         poll'.pc # "idle" => poll.pc # "idle"
  PROVE  PositionInv'
BY DEF PositionInv, LowWatermark, Truncated

\* Listing the manifest preserves the invariant.
LEMMA LoadInd ==
  ASSUME NatFacts, IInv, LoadManifest
  PROVE  IInv'
<1> TypeOK /\ LogInv /\ PositionInv /\ PollInv /\ AppliedInv
  BY DEF IInv
<1>1. /\ UNCHANGED <<manifest, log, next, restored, cursor, applied>>
      /\ poll.pc = "load"
  BY DEF LoadManifest
<1>3. TypeOK' /\ LogInv' /\ PollInv' /\ poll'.pc = "segment"
  BY LoadSlice, Zenon
<1>5. PositionInv'
  BY <1>1, PositionKept
<1>6. AppliedInv'
  BY <1>1, <1>3, AppliedKept DEF AppliedHere
<1> QED
  BY <1>3, <1>5, <1>6 DEF IInv

\* A Poll that returns, with or without an error, or is cut short by a crash.
LEMMA ReturnInd ==
  ASSUME IInv, PollReturns, UNCHANGED <<manifest, log, applied>>,
         \/ UNCHANGED <<next, restored, cursor>>
         \/ UNCHANGED <<next, restored>> /\ HasCursor /\ cursor' = next /\ poll.pc # "idle"
         \/ next' = StartAt /\ restored' = FALSE /\ cursor' = cursor
  PROVE  IInv'
<1> TypeOK /\ LogInv /\ PositionInv /\ PollInv /\ AppliedInv
  BY DEF IInv
<1>0. /\ next \in Nat /\ restored \in BOOLEAN /\ cursor \in Nat \cup {NoCursor}
      /\ StartAt \in Nat /\ HasCursor \in BOOLEAN
  BY ReplicaAssumption DEF TypeOK
<1>1. TypeOK' /\ LogInv' /\ PollInv' /\ poll'.pc = "idle"
  BY <1>0, PollReturned, Zenon
<1>2. Truncated' = Truncated
  BY TruncatedKept
<1>3. AppliedBelow(StartAt)
  BY <1>0, RecordBounds DEF AppliedBelow
<1>4. AppliedInv'
  <2>1. AppliedHere'
    BY <1>1 DEF AppliedHere
  <2>2. AppliedBelow(next)' /\ AppliedBelow(cursor)'
    BY <1>3, SMTT(30) DEF AppliedInv, AppliedBelow, Size
  <2>3. AppliedFromLog'
    BY DEF AppliedInv, AppliedFromLog, Size
  <2>4. \A r \in applied' : AppliedBefore(r)'
    BY DEF AppliedInv, AppliedBefore, Size
  <2> QED
    BY <2>1, <2>2, <2>3, <2>4 DEF AppliedInv
<1>5. CASE UNCHANGED <<next, restored, cursor>>
  BY <1>1, <1>4, <1>5, PositionKept DEF IInv
<1>6. CASE UNCHANGED <<next, restored>> /\ HasCursor /\ cursor' = next /\ poll.pc # "idle"
  <2>1. LowWatermark' = next /\ LowWatermark <= next /\ LowWatermark \in Int
    BY <1>0, <1>6 DEF LowWatermark, NoCursor, PositionInv
  <2>2. \A k \in 1..Truncated : End(log[k]) <= next
    <3>1. \A k \in 1..Truncated : End(log[k]) <= LowWatermark /\ End(log[k]) \in Nat
      BY LogFacts, EntryTypes, SMTT(30) DEF PositionInv
    <3> QED
      BY <1>0, <2>1, <3>1
  <2>3. PositionInv'
    BY <1>0, <1>1, <1>2, <1>6, <2>1, <2>2 DEF PositionInv
  <2> QED
    BY <1>1, <1>4, <2>3 DEF IInv
<1>7. CASE next' = StartAt /\ restored' = FALSE /\ cursor' = cursor
  <2>1. LowWatermark' = LowWatermark /\ (~HasCursor => LowWatermark = StartAt)
    BY <1>7 DEF LowWatermark, PositionInv
  <2>2. PositionInv'
    BY <1>0, <1>1, <1>2, <1>7, <2>1 DEF PositionInv
  <2> QED
    BY <1>1, <1>4, <2>2 DEF IInv
<1> QED
  BY <1>5, <1>6, <1>7

\* Saving the cursor at `next` preserves the invariant: all before is applied.
LEMMA SaveInd ==
  ASSUME IInv, Save
  PROVE  IInv'
<1> TypeOK /\ LogInv /\ PositionInv /\ PollInv /\ AppliedInv
  BY DEF IInv
<1>0. /\ next \in Nat /\ restored \in BOOLEAN /\ cursor \in Nat \cup {NoCursor}
      /\ StartAt \in Nat /\ HasCursor \in BOOLEAN /\ Len(log) \in Nat
  BY ReplicaAssumption, SMTT(30) DEF TypeOK
<1>1. UNCHANGED <<manifest, log, next, restored, applied>> /\ poll.pc = "save"
  BY DEF Save
<1>2. cursor' = IF HasCursor THEN next ELSE cursor
  BY SMTT(30) DEF Save, SaveCursor
<1>3. PICK n \in Nat, to \in {"segment", "end"} :
        poll' = [poll EXCEPT !.sinceSave = n, !.pc = to]
  BY Zenon DEF Save, AfterSegment, TypeOK, PollType
<1>4. poll' \in PollType /\ poll'.pc = to /\ poll'.entries = poll.entries
      /\ poll'.resumeAt = poll.resumeAt /\ poll'.i = poll.i
  BY <1>3, Zenon DEF TypeOK, PollType
<1>5. TypeOK'
  BY <1>0, <1>1, <1>2, <1>4 DEF TypeOK
<1>6. LogInv' /\ Truncated' = Truncated
  BY <1>1, TruncatedKept
<1>7. PollInv'
  <2>1. Truncated \in Nat
    BY LogFacts
  <2> QED
    BY <1>0, <1>1, <1>4, <1>6, <2>1, PollKept DEF Reading
<1>8. AppliedInv'
  BY <1>1, <1>2, <1>4, AppliedKept DEF AppliedHere
<1>9. PositionInv'
  <2>1. LowWatermark' = (IF HasCursor THEN next ELSE LowWatermark)
        /\ LowWatermark <= next /\ LowWatermark \in Int
    BY <1>0, <1>1, <1>2 DEF LowWatermark, NoCursor, PositionInv
  <2>2. \A k \in 1..Truncated : End(log[k]) <= LowWatermark'
    <3>1. \A k \in 1..Truncated : End(log[k]) <= LowWatermark /\ End(log[k]) \in Nat
      BY LogFacts, EntryTypes, SMTT(30) DEF PositionInv
    <3> QED
      BY <1>0, <2>1, <3>1
  <2> QED
    BY <1>0, <1>1, <1>2, <1>4, <1>6, <2>1, <2>2 DEF PositionInv
<1> QED
  BY <1>5, <1>6, <1>7, <1>8, <1>9 DEF IInv

\* Fetching a segment preserves the invariant.
LEMMA GetInd ==
  ASSUME NatFacts, IInv, GetSegment
  PROVE  IInv'
<1> TypeOK /\ LogInv /\ PositionInv /\ PollInv /\ AppliedInv
  BY DEF IInv
<1>1. /\ TypeOK' /\ LogInv' /\ PollInv'
      /\ poll'.pc = "apply" /\ poll'.entries = poll.entries
      /\ poll'.i = (IF Current.Sequence <= next THEN next - Current.Sequence ELSE 0)
  BY SegmentFetched, Zenon
<1>2. UNCHANGED <<manifest, log, next, restored, cursor, applied>> /\ poll.pc = "segment"
  BY DEF GetSegment
<1>3. PositionInv'
  BY <1>1, <1>2, PositionKept
<1>4. AppliedHere'
  <2>1. Current \in Entry
    BY CurrentIs DEF Reading, GetSegment
  <2>2. Current' = Current
    BY <1>1 DEF Current
  <2>3. \A i \in 0..poll'.i - 1 : RecSeq(Current, i) < next
    <3>1. next \in Nat /\ Current.Sequence \in Nat /\ Current.Count \in Nat
      BY <2>1, EntryTypes DEF TypeOK
    <3> QED
      BY <1>1, <3>1 DEF RecSeq
  <2>4. \A i \in 0..poll'.i - 1 : RecSeq(Current, i) \in Nat
    <3>1. poll'.i \in Nat
      BY <1>1, SMTT(30) DEF TypeOK, PollType
    <3> QED
      BY <2>1, <3>1, EntryTypes, SMTT(30)
  <2>5. next \in Nat
    BY DEF TypeOK
  <2> QED
    BY <1>2, <2>2, <2>3, <2>4, <2>5 DEF AppliedHere
<1>5. AppliedInv'
  BY <1>2, <1>4, AppliedKept
<1> QED
  BY <1>1, <1>3, <1>5 DEF IInv

\* Where the record that Apply is given stands in the log.
LEMMA ThisRecordIs ==
  ASSUME TypeOK, LogInv, PollInv, Applying
  PROVE  \E c \in 1..Len(log) : \E j \in 0..Size(c) - 1 :
           /\ c = Current.Location.segment /\ j = poll.i
           /\ Current = log[c] /\ ThisRecord = Rec(c, j)
           /\ next <= RecSeq(log[c], j)
<1>1. Reading /\ poll.pc = "apply" /\ poll.i < Current.Location.records
  BY DEF Applying, Reading, PollInv
<1>2. PICK c : c = Current.Location.segment
  OBVIOUS
<1>3. c \in 1..Len(log) /\ Current = log[c] /\ Current \in Entry
      /\ (Current.Count # 0 => Current.Location.records = Current.Count)
  BY <1>1, <1>2, CurrentIs
<1>4. PICK j \in Nat : j = poll.i
  BY DEF TypeOK, PollType
<1>5. PICK e \in Entry : e = Current
  BY <1>3
<1>6. next < End(e) /\ next - e.Sequence <= j /\ next \in Nat
  BY <1>1, <1>4, <1>5 DEF PollInv, TypeOK
<1>7. next <= RecSeq(e, j)
  <2>1. e.Sequence \in Nat /\ e.Count \in Nat
    BY EntryTypes
  <2> QED
    BY <1>6, <2>1 DEF RecSeq, End, RangeSize
<1>8. j \in 0..Size(c) - 1
  <2>1. Size(c) \in Nat /\ Size(c) = Current.Location.records
    BY <1>3, EntryTypes, Zenon DEF Size
  <2> QED
    BY <1>1, <1>4, <2>1
<1> QED
  BY <1>2, <1>3, <1>4, <1>5, <1>6, <1>7, <1>8 DEF ThisRecord, Rec

\* Whatever precedes the entry in hand is behind `next`, cut off or not.
LEMMA NoGap ==
  ASSUME IInv, poll.pc = "apply"
  PROVE  \A k \in 1..Len(log) : k < Current.Location.segment => End(log[k]) <= next
<1> SUFFICES ASSUME NEW k \in 1..Len(log), k < Current.Location.segment
             PROVE  End(log[k]) <= next
  OBVIOUS
<1> TypeOK /\ LogInv /\ PositionInv /\ PollInv /\ AppliedInv
  BY DEF IInv
<1>1. k <= Truncated \/ End(log[k]) <= next
  BY DEF PollInv, Reading
<1>2. CASE k <= Truncated
  <2>1. End(log[k]) <= LowWatermark /\ End(log[k]) \in Nat /\ k \in 1..Truncated
    BY <1>2, LogFacts, EntryTypes, SMTT(30) DEF PositionInv
  <2>2. LowWatermark <= next /\ LowWatermark \in Int /\ next \in Nat
    BY ReplicaAssumption, SMTT(30) DEF PositionInv, TypeOK, LowWatermark, NoCursor
  <2> QED
    BY <2>1, <2>2
<1> QED
  BY <1>1, <1>2

\* Applying a record preserves the invariant.
LEMMA ApplyInd ==
  ASSUME IInv, ApplyRecord
  PROVE  IInv'
<1> TypeOK /\ LogInv /\ PositionInv /\ PollInv /\ AppliedInv
  BY DEF IInv
<1>0. /\ Applying /\ Delivered /\ UNCHANGED <<manifest, log, next, restored, cursor>>
      /\ cursor' \in Nat \cup {NoCursor}
  BY DEF ApplyRecord, TypeOK
<1>1. /\ TypeOK' /\ LogInv' /\ PollInv'
      /\ poll'.pc = "apply" /\ poll'.entries = poll.entries /\ poll'.i = poll.i + 1
  BY <1>0, RecordDelivered
<1>2. PositionInv'
  BY <1>0, <1>1, PositionKept DEF Applying
<1>3. PICK c \in 1..Len(log) : \E j \in 0..Size(c) - 1 :
        /\ c = Current.Location.segment /\ j = poll.i
        /\ Current = log[c] /\ ThisRecord = Rec(c, j)
        /\ next <= RecSeq(log[c], j)
  BY <1>0, ThisRecordIs, SMTT(30)
<1>4. PICK j \in 0..Size(c) - 1 :
        /\ c = Current.Location.segment /\ j = poll.i
        /\ Current = log[c] /\ ThisRecord = Rec(c, j)
        /\ next <= RecSeq(log[c], j)
  BY <1>3, ZenonT(30)
<1>5. applied' = applied \cup {Rec(c, j)}
  BY <1>0, <1>4, Zenon DEF Delivered
<1>6. /\ next \in Nat /\ StartAt \in Nat /\ StartAt <= next /\ Len(log) \in Nat
      /\ poll.pc = "apply" /\ j \in Nat /\ Size(c) \in Nat /\ RecSeq(log[c], j) \in Nat
  BY <1>0, RecordBounds, ReplicaAssumption, SMTT(30) DEF TypeOK, PositionInv, Applying
<1>7. AppliedHere'
  <2>1. Current' = Current
    BY <1>1, SMTT(30) DEF Current
  <2>2. \A i \in 0..j - 1 : RecSeq(Current, i) >= next => Rec(c, i) \in applied
    BY <1>4, <1>6, Zenon DEF AppliedInv, AppliedHere
  <2>3. \A i \in 0..j : i \in 0..j - 1 \/ i = j
    BY <1>6, SMTT(30)
  <2>4. poll'.i - 1 = j
    BY <1>1, <1>4, <1>6, SMTT(30)
  <2> QED
    BY <1>0, <1>4, <1>5, <2>1, <2>2, <2>3, <2>4, Zenon DEF AppliedHere
<1>8. AppliedBelow(next)' /\ AppliedBelow(cursor)'
  BY <1>0, <1>5 DEF AppliedInv, AppliedBelow, Size
<1>9. AppliedFromLog'
  <2>1. /\ Rec(c, j).segment \in 1..Len(log) /\ Rec(c, j).i < Size(Rec(c, j).segment)
        /\ StartAt <= RecSeq(log[Rec(c, j).segment], Rec(c, j).i)
    <3>1. Rec(c, j).segment = c /\ Rec(c, j).i = j
      BY DEF Rec
    <3>2. next <= RecSeq(log[c], j)
      BY <1>4, Zenon
    <3>3. j < Size(c)
      BY <1>6
    <3>4. StartAt <= RecSeq(log[c], j)
      BY <1>6, <3>2
    <3> QED
      BY <3>1, <3>3, <3>4, Zenon
  <2> QED
    BY <1>0, <1>5, <2>1, SMTT(30) DEF AppliedInv, AppliedFromLog, Size
<1>10. AppliedBefore(Rec(c, j))
  <2> SUFFICES ASSUME NEW k \in 1..Len(log), NEW i \in 0..Size(k) - 1,
                      StartAt <= RecSeq(log[k], i),
                      k < c \/ (k = c /\ i < j)
               PROVE  Rec(k, i) \in applied
    BY DEF AppliedBefore, Rec
  <2>0. i \in Nat /\ RecSeq(log[k], i) \in Nat /\ RecSeq(log[k], i) < End(log[k])
        /\ End(log[k]) \in Nat
    BY RecordBounds, SMTT(30)
  <2>1. CASE k < c
    <3>1. End(log[k]) <= next
      BY <1>0, <1>4, <2>1, NoGap, Zenon DEF Applying
    <3>2. RecSeq(log[k], i) < next
      BY <1>6, <2>0, <3>1
    <3> QED
      BY <3>2 DEF AppliedInv, AppliedBelow
  <2>2. CASE k = c /\ i < j
    <3>1. i \in 0..j - 1
      BY <1>6, <2>0, <2>2
    <3>2. CASE RecSeq(log[k], i) < next
      BY <3>2, SMTT(30) DEF AppliedInv, AppliedBelow
    <3>3. CASE RecSeq(log[k], i) >= next
      BY <1>4, <1>6, <2>2, <3>1, <3>3, Zenon DEF AppliedInv, AppliedHere
    <3> QED
      BY <1>6, <2>0, <3>2, <3>3
  <2> QED
    BY <2>1, <2>2
<1>11. \A r \in applied' : AppliedBefore(r)'
  <2>1. \A r \in applied' : AppliedBefore(r)
    BY <1>5, <1>10 DEF AppliedInv
  <2> QED
    BY <1>0, <1>5, <2>1 DEF AppliedBefore, Size
<1> QED
  BY <1>1, <1>2, <1>7, <1>8, <1>9, <1>11 DEF IInv, AppliedInv

\* Finishing a segment preserves the invariant: every record before its end
\* has been applied.
LEMMA SegmentDoneInd ==
  ASSUME IInv, SegmentDone
  PROVE  IInv'
<1> TypeOK /\ LogInv /\ PositionInv /\ PollInv /\ AppliedInv
  BY DEF IInv
<1>1. /\ TypeOK' /\ LogInv' /\ PollInv'
      /\ next' = End(Current) /\ poll'.pc \in {"save", "segment", "end"}
  BY SegmentAdvances, Zenon
<1>2. /\ UNCHANGED <<manifest, log, restored, cursor, applied>>
      /\ poll.pc = "apply" /\ poll.i = Current.Location.records
  BY DEF SegmentDone
<1>3. Reading
  BY <1>2 DEF Reading, PollInv
<1>4. PICK c : c = Current.Location.segment
  OBVIOUS
<1>5. c \in 1..Len(log) /\ Current = log[c] /\ Current \in Entry
  BY <1>3, <1>4, CurrentIs
<1>6. /\ next \in Nat /\ StartAt \in Nat /\ Len(log) \in Nat
      /\ next < End(Current) /\ End(Current) \in Nat
      /\ End(Current) <= manifest.nextSequence
  <2>1. next \in Nat /\ StartAt \in Nat /\ Len(log) \in Nat
    BY ReplicaAssumption, SMTT(30) DEF TypeOK
  <2>2. next < End(Current)
    BY <1>3 DEF PollInv
  <2>3. End(Current) <= manifest.nextSequence
    BY <1>5 DEF LogInv
  <2>4. End(Current) \in Nat
    BY <1>5, EntryTypes, Zenon
  <2> QED
    BY <2>1, <2>2, <2>3, <2>4
<1>7. PositionInv'
  <2>1. LowWatermark' = LowWatermark /\ Truncated' = Truncated /\ LowWatermark \in Int
    BY <1>2, ReplicaAssumption, SMTT(30) DEF LowWatermark, Truncated, TypeOK, NoCursor
  <2> QED
    BY <1>1, <1>2, <1>6, <2>1 DEF PositionInv
<1>8. AppliedBelow(End(Current))
  <2> SUFFICES ASSUME NEW k \in 1..Len(log), NEW i \in 0..Size(k) - 1,
                      StartAt <= RecSeq(log[k], i), RecSeq(log[k], i) < End(Current)
               PROVE  Rec(k, i) \in applied
    BY DEF AppliedBelow
  <2>0. /\ i \in Nat /\ RecSeq(log[k], i) \in Nat /\ log[k].Sequence <= RecSeq(log[k], i)
        /\ log[k].Sequence \in Nat
    <3>1. RecSeq(log[k], i) \in Nat /\ log[k].Sequence <= RecSeq(log[k], i) /\ Size(k) \in Nat
      BY RecordBounds, Zenon
    <3>2. log[k] \in Entry
      BY LogFacts, Zenon
    <3>3. log[k].Sequence \in Nat
      BY <3>2, EntryTypes, Zenon
    <3>4. i \in Nat
      BY <3>1
    <3> QED
      BY <3>1, <3>3, <3>4, Zenon
  <2>1. CASE RecSeq(log[k], i) < next
    BY <2>1 DEF AppliedInv, AppliedBelow
  <2>2. CASE RecSeq(log[k], i) >= next /\ k = c
    <3>1. i \in 0..poll.i - 1
      BY <1>2, <1>5, <2>2 DEF Size
    <3> QED
      BY <1>2, <1>4, <1>5, <2>2, <3>1, Zenon DEF AppliedInv, AppliedHere
  <2>3. CASE RecSeq(log[k], i) >= next /\ k < c
    <3>1. End(log[k]) <= next
      BY <1>2, <1>4, <2>3, NoGap
    <3>2. RecSeq(log[k], i) < End(log[k]) /\ End(log[k]) \in Nat
      BY RecordBounds
    <3> QED
      BY <1>6, <2>0, <2>3, <3>1, <3>2
  <2>4. CASE c < k
    <3>1. End(Current) <= log[k].Sequence
      BY <1>5, <2>4 DEF LogInv
    <3> QED
      BY <1>6, <2>0, <3>1
  <2> QED
    BY <1>5, <1>6, <2>0, <2>1, <2>2, <2>3, <2>4
<1>9. AppliedInv'
  <2>1. AppliedHere'
    BY <1>1 DEF AppliedHere
  <2>2. AppliedBelow(next)'
    BY <1>1, <1>2, <1>8 DEF AppliedBelow, Size
  <2>3. AppliedBelow(cursor)'
    BY <1>2 DEF AppliedInv, AppliedBelow, Size
  <2>4. AppliedFromLog'
    BY <1>2 DEF AppliedInv, AppliedFromLog, Size
  <2>5. \A r \in applied' : AppliedBefore(r)'
    BY <1>2 DEF AppliedInv, AppliedBefore, Size
  <2> QED
    BY <2>1, <2>2, <2>3, <2>4, <2>5 DEF AppliedInv
<1> QED
  BY <1>1, <1>7, <1>9 DEF IInv

\* The invariant holds at the start.
LEMMA InitInd ==
  ASSUME Init
  PROVE  IInv
<1>1. /\ next = StartAt /\ restored = FALSE /\ cursor = NoCursor
      /\ poll = Idle /\ applied = {} /\ log = manifest.entries
      /\ StartAt \in Nat
  BY ReplicaAssumption, ZenonT(30) DEF Init
<1>2. manifest \in [entries : Seq(Entry), nextSequence : Nat, epoch : {0},
                    snapshot : {NoSnapshot}]
      /\ \/ manifest.entries = <<>> /\ manifest.nextSequence = 0
         \/ \E records \in LegacyRecords :
              /\ manifest.entries =
                   <<[Sequence |-> 0, Count |-> 0, Location |-> Location(1, records)]>>
              /\ manifest.nextSequence = 1
  <2>1. CASE manifest = NewManifest
    BY <2>1 DEF NewManifest
  <2>2. ASSUME NEW records \in LegacyRecords,
               manifest = [NewManifest EXCEPT
                 !.entries = <<[Sequence |-> 0, Count |-> 0,
                                Location |-> Location(1, records)]>>,
                 !.nextSequence = 1]
        PROVE  /\ manifest \in [entries : Seq(Entry), nextSequence : Nat, epoch : {0},
                                snapshot : {NoSnapshot}]
               /\ manifest.entries =
                    <<[Sequence |-> 0, Count |-> 0, Location |-> Location(1, records)]>>
               /\ manifest.nextSequence = 1
    <3>1. [Sequence |-> 0, Count |-> 0, Location |-> Location(1, records)] \in Entry
      BY ReplicaAssumption DEF Entry, Location
    <3>2. PICK e \in Entry :
            e = [Sequence |-> 0, Count |-> 0, Location |-> Location(1, records)]
      BY <3>1
    <3>3. manifest = [NewManifest EXCEPT !.entries = <<e>>, !.nextSequence = 1]
      BY <2>2, <3>2
    <3>4. /\ manifest \in [entries : Seq(Entry), nextSequence : Nat, epoch : {0},
                           snapshot : {NoSnapshot}]
          /\ manifest.entries = <<e>> /\ manifest.nextSequence = 1
      <4>1. <<e>> \in Seq(Entry)
        OBVIOUS
      <4>2. PICK es \in Seq(Entry) : es = <<e>>
        BY <4>1, Zenon
      <4>3. manifest = [NewManifest EXCEPT !.entries = es, !.nextSequence = 1]
        BY <3>3, <4>2
      <4>4. /\ manifest \in [entries : Seq(Entry), nextSequence : Nat, epoch : {0},
                             snapshot : {NoSnapshot}]
            /\ manifest.entries = es /\ manifest.nextSequence = 1
        BY <4>3, Zenon DEF NewManifest
      <4> QED
        BY <4>2, <4>4
    <3> QED
      BY <3>2, <3>4
  <2> QED
    BY <2>1, <2>2, Zenon DEF Init
<1>3. poll \in PollType /\ poll.pc = "idle"
  BY <1>1 DEF Idle, PollType
<1>4. TypeOK
  BY <1>1, <1>2, <1>3, Zenon DEF TypeOK
<1>5. LogInv /\ Truncated = 0
  <2>1. Truncated = 0
    BY <1>1, <1>2 DEF Truncated
  <2>2. CASE manifest.entries = <<>> /\ manifest.nextSequence = 0
    BY <1>1, <2>1, <2>2 DEF LogInv
  <2>3. CASE \E records \in LegacyRecords :
              /\ manifest.entries =
                   <<[Sequence |-> 0, Count |-> 0, Location |-> Location(1, records)]>>
              /\ manifest.nextSequence = 1
    <3>1. /\ Len(log) = 1 /\ log[1].Sequence = 0 /\ log[1].Count = 0
          /\ log[1].Location.segment = 1 /\ manifest.nextSequence = 1
      BY <1>1, <2>3 DEF Location
    <3>2. End(log[1]) = 1
      BY <3>1 DEF End, RangeSize
    <3> QED
      BY <1>1, <2>1, <3>1, <3>2 DEF LogInv
  <2> QED
    BY <1>2, <2>1, <2>2, <2>3
<1>6. PositionInv
  BY <1>1, <1>3, <1>5, <1>2, SMTT(30) DEF PositionInv, LowWatermark, NoCursor
<1>7. PollInv
  BY <1>3 DEF PollInv, Reading
<1>8. AppliedInv
  <2>1. AppliedHere
    BY <1>3 DEF AppliedHere
  <2>2. AppliedBelow(next) /\ AppliedBelow(cursor)
    BY <1>1, <1>4, <1>5, RecordBounds, SMTT(30) DEF AppliedBelow, NoCursor
  <2> QED
    BY <1>1, <2>1, <2>2 DEF AppliedInv, AppliedFromLog
<1> QED
  BY <1>4, <1>5, <1>6, <1>7, <1>8, SMTT(30) DEF IInv

\* Every step preserves the invariant.
LEMMA NextInd ==
  ASSUME NatFacts, IInv, [Next]_vars
  PROVE  IInv'
<1>1. ASSUME NEW count \in Counts, Commit(count) PROVE IInv'
  BY <1>1, CommitInd
<1>2. CASE Retain
  BY <1>2, RetainInd
<1>3. CASE BeginPoll
  BY <1>3, BeginPollInd
<1>4. CASE LoadManifest
  BY <1>4, LoadInd
<1>5. CASE GetSegment
  BY <1>5, GetInd
<1>6. CASE ApplyRecord
  BY <1>6, ApplyInd
<1>7. CASE SegmentDone
  BY <1>7, SegmentDoneInd
<1>8. CASE Save
  BY <1>8, SaveInd
<1>9. CASE EndPoll
  BY <1>9, ReturnInd, Zenon DEF EndPoll, SaveCursor, AtEnd
<1>10. CASE Errors
  BY <1>10, ReturnInd, Zenon DEF Errors, LoadFails, GetFails, ApplyFails, SaveFails
<1>11. CASE Restart
  BY <1>11, ReturnInd, Zenon DEF Restart
<1>12. CASE UNCHANGED vars
  BY <1>12, ZenonT(30) DEF vars, IInv, TypeOK, LogInv, PositionInv, PollInv, AppliedInv, AppliedHere,
     AppliedBelow, AppliedFromLog, AppliedBefore, Slice, Reading, Current, Size, Truncated,
     LowWatermark
<1> QED
  BY <1>1, <1>2, <1>3, <1>4, <1>5, <1>6, <1>7, <1>8, <1>9, <1>10, <1>11, <1>12 DEF Next, Calls

-----------------------------------------------------------------------------
(* What it implies.                                                        *)

\* What the invariant says of the order, in the terms of the property.
LEMMA InOrder ==
  IInv => AppliesInOrder
<1> SUFFICES ASSUME IInv PROVE AppliesInOrder
  OBVIOUS
<1> TypeOK /\ LogInv /\ PositionInv /\ PollInv /\ AppliedInv
  BY DEF IInv
<1>0. manifest.nextSequence \in Int
  BY SMTT(30) DEF TypeOK
<1>1. ASSUME NEW r \in applied PROVE r \in Wanted
  <2>1. r \in [segment : Nat, i : Nat]
    BY DEF TypeOK
  <2>2. PICK k, i : r = Rec(k, i) /\ i \in Nat
    BY <2>1 DEF Rec
  <2>3. k = r.segment /\ i = r.i
    BY <2>2 DEF Rec
  <2>4. k \in 1..Len(log) /\ i < Size(k) /\ StartAt <= RecSeq(log[k], i)
    BY <2>3 DEF AppliedInv, AppliedFromLog
  <2>5. Size(k) \in Nat
    BY <2>4, LogFacts, EntryTypes, Zenon DEF Size
  <2>6. i \in 0..Size(k) - 1
    BY <2>2, <2>4, <2>5
  <2>7. RecSeq(log[k], i) < manifest.nextSequence
    <3>1. RecSeq(log[k], i) < End(log[k]) /\ End(log[k]) \in Nat /\ RecSeq(log[k], i) \in Nat
      BY <2>4, <2>6, RecordBounds
    <3>2. End(log[k]) <= manifest.nextSequence
      BY <2>4 DEF LogInv
    <3> QED
      BY <1>0, <3>1, <3>2
  <2> QED
    BY <1>0, <2>2, <2>4, <2>6, <2>7, BelowIs DEF Wanted
<1>2. ASSUME NEW r \in applied, NEW s \in Wanted,
             s.segment < r.segment \/ (s.segment = r.segment /\ s.i < r.i)
      PROVE  s \in applied
  <2>1. PICK k \in 1..Len(log) : \E i \in 0..Size(k) - 1 :
          StartAt <= RecSeq(log[k], i) /\ s = Rec(k, i)
    BY <1>0, BelowIs DEF Wanted
  <2>2. PICK i \in 0..Size(k) - 1 : StartAt <= RecSeq(log[k], i) /\ s = Rec(k, i)
    BY <2>1
  <2>3. s.segment = k /\ s.i = i
    BY <2>2 DEF Rec
  <2> QED
    BY <1>2, <2>2, <2>3 DEF AppliedInv, AppliedBefore
<1> QED
  BY <1>1, <1>2 DEF AppliesInOrder

\* What the invariant says of positions, in the terms of the property.
LEMMA Positions ==
  IInv => PositionsAreApplied
<1> SUFFICES ASSUME IInv PROVE PositionsAreApplied
  OBVIOUS
<1> TypeOK /\ LogInv /\ PositionInv /\ PollInv /\ AppliedInv
  BY DEF IInv
<1>1. next \in Int /\ cursor \in Int
  BY SMTT(30) DEF TypeOK, NoCursor
<1>2. ASSUME NEW n \in Int, AppliedBelow(n) PROVE Below(n) \subseteq applied
  BY <1>2, BelowIs, SMTT(30) DEF AppliedBelow
<1> QED
  BY <1>1, <1>2 DEF PositionsAreApplied, AppliedInv

\* What the invariant says of a redelivery, in the terms of the property.
LEMMA NotReapplied ==
  IInv /\ [Next]_vars => [Reapplies]_poll
<1> SUFFICES ASSUME IInv, [Next]_vars, poll'.count > poll.count
             PROVE  RecSeq(Current, poll.i) >= cursor
  BY DEF Reapplies
<1> TypeOK /\ LogInv /\ PositionInv /\ PollInv /\ AppliedInv
  BY DEF IInv
<1>1. poll \in PollType /\ poll.count \in Nat
  BY DEF TypeOK, PollType
<1>2. PollReturns => poll'.count = 0
  BY DEF PollReturns, Idle
<1>3. ~PollReturns /\ poll' # poll
  BY <1>1, <1>2, SMTT(30)
<1>4. ApplyRecord \/ BeginPoll \/ LoadManifest \/ GetSegment \/ SegmentDone \/ Save
  BY <1>3 DEF Next, Calls, Errors, Commit, Retain, EndPoll, LoadFails, GetFails, ApplyFails,
     SaveFails, Restart, vars
<1>5. BeginPoll \/ LoadManifest \/ GetSegment \/ SegmentDone \/ Save => poll'.count = poll.count
  BY <1>1, Zenon DEF BeginPoll, LoadManifest, GetSegment, SegmentDone, Save, PollType
<1>6. ApplyRecord
  BY <1>1, <1>4, <1>5
<1>7. next <= RecSeq(Current, poll.i) /\ RecSeq(Current, poll.i) \in Nat
  <2>1. PICK c \in 1..Len(log) : \E j \in 0..Size(c) - 1 :
          /\ j = poll.i /\ Current = log[c] /\ next <= RecSeq(log[c], j)
    BY <1>6, ThisRecordIs DEF ApplyRecord
  <2> QED
    BY <2>1, RecordBounds
<1>8. cursor <= next /\ next \in Nat /\ cursor \in Int
  <2>1. poll.pc # "idle" /\ next \in Nat /\ cursor \in Int
    BY <1>6, SMTT(30) DEF ApplyRecord, Applying, TypeOK, NoCursor
  <2> QED
    BY <2>1 DEF PositionInv, LowWatermark, NoCursor
<1> QED
  BY <1>7, <1>8

=============================================================================
