------------------------------ MODULE Replica -------------------------------
(***************************************************************************)
(* A read replica that tails the log (wal/replica.go: NewReplica, Poll,    *)
(* Run; wal/cursor.go) while the writers go on appending to it.            *)
(*                                                                         *)
(* A Poll restores the cursor once, takes a snapshot of the manifest,      *)
(* fetches and applies the segments one after another, and saves the       *)
(* cursor between them.  Every call it makes (cursor load and save,        *)
(* manifest load, segment get and decode, Apply) may fail, and then the    *)
(* Poll returns the error; the caller may poll again on the same Replica.  *)
(* The process may crash at any step and start over.                       *)
(*                                                                         *)
(* The log is the manifest as a Load returns it.  A missing manifest and   *)
(* an empty one are the same to a Poll.  A segment's location carries how  *)
(* many records it frames, which is what decodeSegment finds in it; a      *)
(* legacy entry (Count = 0) frames several under one sequence.             *)
(*                                                                         *)
(* Retention is a driver outside the repository ("bring your own", its     *)
(* README says).  It calls TruncateThrough with what the code offers it:   *)
(* the saved cursor, "the retention low-watermark for WAL GC", or, before  *)
(* there is one, the snapshot that StartAt is taken from.                  *)
(***************************************************************************)
EXTENDS Manifest, FiniteSetsExt

CONSTANTS
  StartAt, CursorSaveInterval, MaxRecordsPerPoll,  \* ReplicaConfig
  HasCursor,     \* whether ReplicaConfig.Cursor is set
  Counts,        \* records of a new segment
  LegacyRecords, \* records of the legacy entry a log may start with
  MaxEntries     \* bound: entries of the log

ASSUME ReplicaAssumption ==
  /\ StartAt \in Nat /\ CursorSaveInterval \in Nat \ {0} /\ MaxRecordsPerPoll \in Nat
  /\ HasCursor \in BOOLEAN /\ MaxEntries \in Nat
  /\ Counts \subseteq Nat \ {0} /\ LegacyRecords \subseteq Nat \ {0}

VARIABLES
  manifest,   \* the stored manifest
  log,        \* every entry ever committed, the truncated ones too
  next,       \* r.next
  restored,   \* r.restored
  cursor,     \* what the CursorStore holds
  poll,       \* the locals of the Poll in progress
  applied     \* the records that have been applied, ever

vars == <<manifest, log, next, restored, cursor, poll, applied>>

NoCursor == -1

Idle == [pc |-> "idle", entries |-> <<>>, i |-> 0, resumeAt |-> 0,
         sinceSave |-> 0, count |-> 0]

Location(n, records) == [segment |-> n, records |-> records]

Init ==
  /\ \/ manifest = NewManifest
     \/ \E records \in LegacyRecords :
          manifest = [NewManifest EXCEPT
            !.entries = <<[Sequence |-> 0, Count |-> 0, Location |-> Location(1, records)]>>,
            !.nextSequence = 1]
  /\ log = manifest.entries
  /\ next = StartAt /\ restored = FALSE /\ cursor = NoCursor
  /\ poll = Idle /\ applied = {}

\* A writer commits one more segment.
Commit(count) ==
  /\ Len(log) < MaxEntries
  /\ manifest' = AppendEntry(manifest, Location(Len(log) + 1, count), count)
  /\ log' = Append(log, manifest'.entries[Len(manifest'.entries)])
  /\ UNCHANGED <<next, restored, cursor, poll, applied>>

\* The first sequence a replica of this configuration may still ask for.
LowWatermark == IF cursor = NoCursor THEN StartAt ELSE cursor

\* Mutant of Retain: the low-watermark is taken for the last sequence read.
RetainAfter ==
  /\ manifest' = TruncateThrough(manifest, LowWatermark)
  /\ UNCHANGED <<log, next, restored, cursor, poll, applied>>

\* The retention driver replaces the manifest by a truncated one.
Retain ==
  /\ LowWatermark > 0
  /\ manifest' = TruncateThrough(manifest, LowWatermark - 1)
  /\ UNCHANGED <<log, next, restored, cursor, poll, applied>>

-----------------------------------------------------------------------------
(* Poll.                                                                   *)

\* Mutant of Restore: the saved cursor is not looked at.
RestoreNothing ==
  /\ restored' = TRUE
  /\ UNCHANGED next

\* Once per process; a failed cursor load returns and changes nothing.
Restore ==
  /\ restored' = (restored \/ HasCursor)
  /\ next' = IF HasCursor /\ ~restored /\ cursor # NoCursor THEN cursor ELSE next

BeginPoll ==
  /\ poll.pc = "idle"
  /\ Restore
  /\ poll' = [poll EXCEPT !.pc = "load"]
  /\ UNCHANGED <<manifest, log, cursor, applied>>

PollReturns == poll' = Idle

LoadManifest ==
  /\ poll.pc = "load"
  /\ poll' = [poll EXCEPT !.entries = EntriesContaining(manifest, next),
                          !.resumeAt = next, !.pc = "segment"]
  /\ UNCHANGED <<manifest, log, next, restored, cursor, applied>>

LoadFails ==
  /\ poll.pc = "load"
  /\ PollReturns
  /\ UNCHANGED <<manifest, log, next, restored, cursor, applied>>

\* The sequence of record i of a segment.
RecSeq(e, i) == e.Sequence + (IF e.Count > 0 THEN i ELSE 0)

Records(e) == [segment : {e.Location.segment}, i : 0..e.Location.records - 1]

\* Mutant of Skipped: a segment is always delivered whole.
SkipsNothing(e) == 0

\* The leading records below resumeAt.
Skipped(e) ==
  Cardinality({i \in 0..e.Location.records - 1 : RecSeq(e, i) < poll.resumeAt})

Current == poll.entries[1]

GetSegment ==
  /\ poll.pc = "segment" /\ poll.entries # <<>>
  /\ poll' = [poll EXCEPT !.i = Skipped(Current), !.pc = "apply"]
  /\ UNCHANGED <<manifest, log, next, restored, cursor, applied>>

\* The Get or the decode fails.
GetFails ==
  /\ poll.pc = "segment" /\ poll.entries # <<>>
  /\ PollReturns
  /\ UNCHANGED <<manifest, log, next, restored, cursor, applied>>

Applying == poll.pc = "apply" /\ poll.i < Current.Location.records

ThisRecord == [segment |-> Current.Location.segment, i |-> poll.i]

\* Apply returned nil.
Delivered ==
  /\ poll' = [poll EXCEPT !.i = @ + 1, !.count = @ + 1]
  /\ applied' = applied \cup {ThisRecord}

ApplyRecord ==
  /\ Applying
  /\ Delivered
  /\ UNCHANGED <<manifest, log, next, restored, cursor>>

ApplyFails ==
  /\ Applying
  /\ PollReturns
  /\ UNCHANGED <<manifest, log, next, restored, cursor, applied>>

\* Where the loop goes after a segment: on, or out when the budget is met.
AfterSegment ==
  IF MaxRecordsPerPoll > 0 /\ poll.count >= MaxRecordsPerPoll THEN "end" ELSE "segment"

\* Mutant of SegmentDone: next advances to the end of the log.
SegmentDoneAhead ==
  /\ poll.pc = "apply" /\ poll.i = Current.Location.records
  /\ next' = manifest.nextSequence
  /\ poll' = [poll EXCEPT !.entries = Tail(@), !.sinceSave = @ + 1,
       !.pc = IF poll.sinceSave + 1 >= CursorSaveInterval THEN "save" ELSE AfterSegment]
  /\ UNCHANGED <<manifest, log, restored, cursor, applied>>

SegmentDone ==
  /\ poll.pc = "apply" /\ poll.i = Current.Location.records
  /\ next' = End(Current)
  /\ poll' = [poll EXCEPT !.entries = Tail(@), !.sinceSave = @ + 1,
       !.pc = IF poll.sinceSave + 1 >= CursorSaveInterval THEN "save" ELSE AfterSegment]
  /\ UNCHANGED <<manifest, log, restored, cursor, applied>>

\* saveCursor: nothing without a CursorStore.
SaveCursor == cursor' = IF HasCursor THEN next ELSE cursor

Save ==
  /\ poll.pc = "save"
  /\ SaveCursor
  /\ poll' = [poll EXCEPT !.sinceSave = IF HasCursor THEN 0 ELSE @, !.pc = AfterSegment]
  /\ UNCHANGED <<manifest, log, next, restored, applied>>

AtEnd == poll.pc = "end" \/ (poll.pc = "segment" /\ poll.entries = <<>>)

EndPoll ==
  /\ AtEnd
  /\ IF poll.sinceSave > 0 THEN SaveCursor ELSE UNCHANGED cursor
  /\ PollReturns
  /\ UNCHANGED <<manifest, log, next, restored, applied>>

SaveFails ==
  /\ HasCursor /\ (poll.pc = "save" \/ (AtEnd /\ poll.sinceSave > 0))
  /\ PollReturns
  /\ UNCHANGED <<manifest, log, next, restored, cursor, applied>>

\* A new process; what was applied and the saved cursor remain.
Restart ==
  /\ next' = StartAt /\ restored' = FALSE
  /\ PollReturns
  /\ UNCHANGED <<manifest, log, cursor, applied>>

Calls == LoadManifest \/ GetSegment \/ ApplyRecord \/ SegmentDone \/ Save \/ EndPoll

Errors == LoadFails \/ GetFails \/ ApplyFails \/ SaveFails

Next ==
  \/ \E count \in Counts : Commit(count)
  \/ Retain \/ BeginPoll \/ Calls \/ Errors \/ Restart

Spec == Init /\ [][Next]_vars

\* Polls are repeated, by Run or by a caller that retries after an error, and
\* every call returns. Failures and crashes end at some time: the store, the
\* cursor file and the state machine are not down for ever.
Fairness == WF_vars(BeginPoll) /\ WF_vars(Calls)

FairSpec == Spec /\ Fairness /\ <>[][~Errors /\ ~Restart]_vars

-----------------------------------------------------------------------------
(* Correctness.                                                            *)

\* The records ever committed with StartAt <= sequence < seq.
Below(seq) ==
  UNION {{r \in Records(e) : RecSeq(e, r.i) \in StartAt..seq - 1} : e \in Range(log)}

Wanted == Below(manifest.nextSequence)

\* What has been applied is the log from StartAt up to some record: records
\* are applied in order, none is left out, and none below StartAt is applied,
\* also when StartAt is in the middle of a segment and whatever retention has
\* removed from the manifest meanwhile.
AppliesInOrder ==
  /\ applied \subseteq Wanted
  /\ \A r \in applied, s \in Wanted :
       s.segment < r.segment \/ (s.segment = r.segment /\ s.i < r.i) => s \in applied

\* Neither r.next nor the saved cursor is ever ahead of what has been
\* applied, so no restart and no retry skips a record, and retention never
\* takes a record away that is still to be applied.
PositionsAreApplied == Below(next) \cup Below(cursor) \subseteq applied

Reapplies ==
  poll'.count > poll.count =>
    RecSeq(Current, poll.i) >= cursor

\* Once a segment's end has been saved, no record of it is delivered again,
\* whatever fails and however often the process restarts.
SavedIsNotReapplied == [][Reapplies]_poll

\* Every committed record is applied in the end, although polls are cut
\* short by MaxRecordsPerPoll and by errors.
CatchesUp ==
  \A n \in 1..MaxEntries :
    Len(log) >= n ~>
      \A e \in Range(log) :
        e.Location.segment <= n => Below(End(e)) \subseteq applied

=============================================================================
