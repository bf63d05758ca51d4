---------------------------- MODULE LogWriterInv ----------------------------
(***************************************************************************)
(* The inductive invariant of LogWriter.  None of the safety properties is *)
(* inductive by itself: what keeps a group from being committed twice is   *)
(* that every manifest value that can still reach the store under the      *)
(* current ETag extends the stored one by entries that are not in it, and  *)
(* that a run which still owns the log finds its landed group at the very  *)
(* end of the log.                                                         *)
(***************************************************************************)
EXTENDS LogWriter

Working(r) == pc[r] \in {"load", "append", "commitPut"}

\* The ordinal of the first segment of the group in progress.
Base(r) == ordinal[r] - Len(plans[r])

Prefix(s, t) == Len(s) <= Len(t) /\ \A i \in 1..Len(s) : t[i] = s[i]

\* Entries belong to runs that own an epoch, no later than the manifest's,
\* and to segments those runs have named.
Owned(mf, ep, ord) ==
  \A i \in DOMAIN mf.entries :
    /\ 0 < ep[mf.entries[i].Location.run]
    /\ ep[mf.entries[i].Location.run] <= mf.epoch
    /\ mf.entries[i].Location.ordinal < ord[mf.entries[i].Location.run]

Sound(mf, ep, ord) ==
  Dense(mf) /\ Unique(mf) /\ InOrder(mf) /\ OwnersGrow(mf, ep) /\ Owned(mf, ep, ord)

StoreInv == (object.exists <=> object.etag # 0) /\ Sound(object.data, epoch, ordinal)

-----------------------------------------------------------------------------

Control(r) ==
  /\ pc[r] \in {"claim", "claimPut"} => epoch[r] = 0 /\ ordinal[r] = 0
  /\ pc[r] = "claimPut" => m[r].epoch > 0
  /\ pc[r] \in {"idle", "load", "append", "commitPut"} => epoch[r] > 0
  /\ Working(r) <=> plans[r] # <<>>
  /\ Base(r) >= 0
  /\ \A i \in 1..Len(plans[r]) : plans[r][i].Location = Location(r, Base(r) + i - 1)
  /\ reply[r] # "none" => InPut(r)
  /\ pc[r] = "append" => Len(seqs[r]) < Len(plans[r])
  /\ pc[r] = "commitPut" => Len(seqs[r]) = Len(plans[r])
  /\ pc[r] \notin {"append", "commitPut"} => seqs[r] = <<>>

\* The attempt's manifest: what was loaded, then the first of the group.
Attempt(r) ==
  pc[r] \in {"append", "commitPut"} =>
    LET k == Len(m[r].entries) - Len(seqs[r]) IN
    /\ k >= 0
    /\ m[r].epoch = epoch[r]
    /\ \A i \in 1..Len(seqs[r]) :
         /\ m[r].entries[k + i].Location = plans[r][i].Location
         /\ m[r].entries[k + i].Sequence = seqs[r][i]
    /\ \A j \in 1..k : m[r].entries[j].Location.run = r
                         => m[r].entries[j].Location.ordinal < Base(r)
    /\ Base(r) > 0 => \E j \in 1..k : m[r].entries[j].Location = Location(r, Base(r) - 1)

ClaimOf(mf) == mf = SetEpoch(object.data, object.data.epoch + 1)

GroupOn(mf, n) ==
  /\ Prefix(Log, mf.entries)
  /\ Len(mf.entries) = Len(Log) + n
  /\ mf.epoch = object.data.epoch
  /\ mf.nextSequence >= object.data.nextSequence + n

\* A PUT not evaluated yet lands only on the manifest it was made from.
Outstanding(r) ==
  pc[r] \in {"claimPut", "append", "commitPut"} /\ reply[r] = "none" =>
    /\ ver[r] <= object.etag
    /\ ver[r] = object.etag =>
         IF pc[r] = "claimPut" THEN ClaimOf(m[r]) ELSE GroupOn(m[r], Len(seqs[r]))

\* A PUT that landed is part of the log from then on.
Answered(r) ==
  InPut(r) /\ reply[r] = "ok" =>
    /\ Prefix(m[r].entries, Log)
    /\ m[r].epoch <= object.data.epoch

\* Either no segment of the group is in the log, or the whole group is, in
\* one piece, and at the end as long as nobody else has claimed the log.
NotLanded(r) ==
  \A j \in DOMAIN Log : Log[j].Location.run = r => Log[j].Location.ordinal < Base(r)

LandedAt(r, k) ==
  /\ k + Len(plans[r]) <= Len(Log)
  /\ \A i \in 1..Len(plans[r]) : Log[k + i].Location = plans[r][i].Location
  /\ object.data.epoch = epoch[r] => k + Len(plans[r]) = Len(Log)

Landing(r) ==
  Working(r) =>
    \/ NotLanded(r)
    \/ (unknown[r] \/ reply[r] = "ok") /\ \E k \in 0..Len(Log) : LandedAt(r, k)

\* All groups before the one in progress were committed.
Previous(r) ==
  pc[r] \in {"idle", "load", "append", "commitPut"} /\ Base(r) > 0 =>
    \E j \in DOMAIN Log : Log[j].Location = Location(r, Base(r) - 1)

RunInv(r) ==
  /\ Control(r) /\ Sound(m[r], epoch, ordinal) /\ Attempt(r) /\ Outstanding(r)
  /\ Answered(r) /\ Landing(r) /\ Previous(r)

-----------------------------------------------------------------------------

\* An abandoned commit that can still land carries the group its run is
\* working on, if the run works at all; that run knows it may land.
LateCommit(q) ==
  /\ Len(q.m.entries) > Len(Log)
  /\ GroupOn(q.m, Len(q.m.entries) - Len(Log))
  /\ q.m.epoch = epoch[q.run]
  /\ \A j \in Len(Log) + 1..Len(q.m.entries) : q.m.entries[j].Location.run = q.run
  /\ pc[q.run] # "idle"
  /\ Working(q.run) =>
       /\ unknown[q.run]
       /\ Len(q.m.entries) = Len(Log) + Len(plans[q.run])
       /\ \A i \in 1..Len(plans[q.run]) :
            q.m.entries[Len(Log) + i].Location = plans[q.run][i].Location

LateInv(q) ==
  /\ Sound(q.m, epoch, ordinal)
  /\ q.ver <= object.etag
  /\ q.ver = object.etag => ClaimOf(q.m) \/ LateCommit(q)

\* The epoch a run holds, from the moment its claim landed under a response
\* it may still receive.
Holds(r) ==
  IF epoch[r] # 0 THEN epoch[r]
  ELSE IF pc[r] = "claimPut" /\ reply[r] = "ok" THEN m[r].epoch ELSE 0

EpochInv ==
  /\ \A r \in Runs : Holds(r) <= object.data.epoch
  /\ \A r, s \in Runs : Holds(r) # 0 /\ Holds(r) = Holds(s) => r = s

\* The conjunction TLAPS proves inductive: the claim and commit protocol keeps
\* the stored manifest, every attempt, every PUT in flight or abandoned, and
\* every epoch held in step with one another.
IInv ==
  /\ TypeOK
  /\ StoreInv
  /\ \A r \in Runs : RunInv(r)
  /\ \A q \in late : LateInv(q)
  /\ EpochInv
  /\ AckedIsDurable

=============================================================================
