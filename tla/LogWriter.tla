----------------------------- MODULE LogWriter ------------------------------
(***************************************************************************)
(* How producers write the log (wal/producer.go: claim, commitInOrder,     *)
(* commitEntries, harvestCommitted; wal/store.go; the conditional writes   *)
(* of package objectstore).                                                *)
(*                                                                         *)
(* Each element of Runs is one NewProducer call, with its own runID: a     *)
(* process that first claims the log by bumping the manifest epoch under   *)
(* CAS, and then commits groups of uploaded segments, one CAS per group.   *)
(* Failover is just another run, so several are alive at once and any may  *)
(* crash at any step.  What a flush does before it commits (buffering,     *)
(* planning, uploading) is the Producer module's; here it only decides     *)
(* which consecutive ordinals the next group carries.                      *)
(*                                                                         *)
(* A PUT is three steps: the call, its arrival at the store, and the       *)
(* return to the caller.  The caller may get an error of unknown outcome   *)
(* (timeout, reset, 5xx) before or after the arrival; a request it has     *)
(* given up on stays in `late` and may still reach the store afterwards.   *)
(***************************************************************************)
EXTENDS Manifest, ObjectStore

CONSTANTS
  Runs,                 \* producer runs
  MaxClaimAttempts,     \* ProducerConfig budgets
  ManifestMaxAttempts,
  MaxCommitConflicts,
  ManifestAppendBatchSize, \* segments per CAS
  Counts,               \* records a segment may hold
  MaxSegments           \* bound: segments a run may try to commit

ASSUME BudgetAssumption ==
  /\ MaxClaimAttempts \in Nat \ {0}
  /\ ManifestMaxAttempts \in Nat \ {0}
  /\ MaxCommitConflicts \in Nat \ {0}
  /\ ManifestAppendBatchSize \in Nat \ {0}
  /\ MaxSegments \in Nat

\* Manifest.Append refuses a count below 1.
ASSUME CountAssumption == Counts \subseteq Nat \ {0}

VARIABLES
  object,     \* the manifest object in the store
  late,       \* abandoned PUTs that may still arrive
  pc,         \* where each run is
  epoch,      \* p.epoch: 0 until the claim succeeded
  ordinal,    \* p.ordinal: the next segment number
  m,          \* the manifest value the current attempt works on
  ver,        \* the version its Load observed
  reply,      \* the store's answer to the PUT in progress, "none" before
  attempts,   \* claim: attempt; commitEntries: transient
  conflicts,  \* commitEntries: conflicts
  unknown,    \* commitEntries: unknown
  plans,      \* commitEntries: the group being committed
  seqs,       \* commitEntries: sequences assigned so far in this attempt
  acked       \* resolved segments: [Location, Sequence], never forgotten

attemptVars == <<m, ver, reply, seqs>>
callVars == <<attempts, conflicts, unknown, plans>>
vars == <<object, late, pc, epoch, ordinal, attemptVars, callVars, acked>>

Init ==
  /\ object = Missing(NewManifest)
  /\ late = {}
  /\ pc = [r \in Runs |-> "claim"]
  /\ epoch = [r \in Runs |-> 0]
  /\ ordinal = [r \in Runs |-> 0]
  /\ m = [r \in Runs |-> NewManifest]
  /\ ver = [r \in Runs |-> NoVersion]
  /\ reply = [r \in Runs |-> "none"]
  /\ attempts = [r \in Runs |-> 0]
  /\ conflicts = [r \in Runs |-> 0]
  /\ unknown = [r \in Runs |-> FALSE]
  /\ plans = [r \in Runs |-> <<>>]
  /\ seqs = [r \in Runs |-> <<>>]
  /\ acked = {}

-----------------------------------------------------------------------------
(* The PUT in progress.                                                    *)

Request(r) == [run |-> r, ver |-> ver[r], m |-> m[r]]

InPut(r) == pc[r] \in {"claimPut", "commitPut"}

\* The variables of the attempt go out of scope.
DropAttempt(r) ==
  /\ m' = [m EXCEPT ![r] = NewManifest]
  /\ ver' = [ver EXCEPT ![r] = NoVersion]
  /\ reply' = [reply EXCEPT ![r] = "none"]
  /\ seqs' = [seqs EXCEPT ![r] = <<>>]

\* The call returns, and with it go its counters and its group.
Return(r, to) ==
  /\ pc' = [pc EXCEPT ![r] = to]
  /\ attempts' = [attempts EXCEPT ![r] = 0]
  /\ conflicts' = [conflicts EXCEPT ![r] = 0]
  /\ unknown' = [unknown EXCEPT ![r] = FALSE]
  /\ plans' = [plans EXCEPT ![r] = <<>>]

\* The caller stops waiting: a request not evaluated yet may arrive later.
Abandon(r) ==
  late' = IF InPut(r) /\ reply[r] = "none" THEN late \cup {Request(r)} ELSE late

\* The store evaluates the PUT of run r (Store.Create or Store.Commit).
Arrive(r) ==
  /\ InPut(r) /\ reply[r] = "none"
  /\ reply' = [reply EXCEPT ![r] = PutResult(object, ver[r])]
  /\ object' = PutOpts(object, ver[r], m[r])
  /\ UNCHANGED <<late, pc, epoch, ordinal, m, ver, seqs, callVars, acked>>

\* The store refuses it because another conditional write is in progress
\* (409, ErrConflict): it did not land.
Refuse(r) ==
  /\ InPut(r) /\ reply[r] = "none"
  /\ reply' = [reply EXCEPT ![r] = "conflict"]
  /\ UNCHANGED <<object, late, pc, epoch, ordinal, m, ver, seqs, callVars, acked>>

\* An abandoned PUT arrives after all, under the same precondition.
ArriveLate(q) ==
  /\ late' = late \ {q}
  /\ object' = PutOpts(object, q.ver, q.m)
  /\ UNCHANGED <<pc, epoch, ordinal, attemptVars, callVars, acked>>

-----------------------------------------------------------------------------
(* claim: load, bump the epoch, CAS; only a clean success ends it.         *)

ClaimLoad(r) ==
  /\ pc[r] = "claim" /\ attempts[r] < MaxClaimAttempts
  /\ m' = [m EXCEPT ![r] = SetEpoch(object.data, object.data.epoch + 1)]
  /\ ver' = [ver EXCEPT ![r] = object.etag]
  /\ pc' = [pc EXCEPT ![r] = "claimPut"]
  /\ UNCHANGED <<object, late, epoch, ordinal, reply, seqs, callVars, acked>>

\* The next attempt of the loop.
ClaimAgain(r) ==
  /\ pc' = [pc EXCEPT ![r] = "claim"]
  /\ attempts' = [attempts EXCEPT ![r] = @ + 1]
  /\ UNCHANGED <<conflicts, unknown, plans>>

\* The Load failed: back off, unless ctx is cancelled in the sleep.
ClaimLoadFails(r) ==
  /\ pc[r] = "claim" /\ attempts[r] < MaxClaimAttempts
  /\ ClaimAgain(r) \/ Return(r, "down")
  /\ UNCHANGED <<object, late, epoch, ordinal, attemptVars, acked>>

ClaimExhausted(r) ==
  /\ pc[r] = "claim" /\ attempts[r] >= MaxClaimAttempts
  /\ Return(r, "down")
  /\ UNCHANGED <<object, late, epoch, ordinal, attemptVars, acked>>

ClaimWon(r) ==
  /\ pc[r] = "claimPut" /\ reply[r] = "ok"
  /\ epoch' = [epoch EXCEPT ![r] = m[r].epoch]
  /\ Return(r, "idle")
  /\ DropAttempt(r)
  /\ UNCHANGED <<object, late, ordinal, acked>>

\* A lost race re-plans at once.
ClaimLost(r) ==
  /\ pc[r] = "claimPut" /\ reply[r] \in {"precondition", "exists"}
  /\ ClaimAgain(r)
  /\ DropAttempt(r)
  /\ UNCHANGED <<object, late, epoch, ordinal, acked>>

\* Anything else, a 409 or an unknown outcome, backs off first.
ClaimFails(r) ==
  /\ pc[r] = "claimPut"
  /\ ClaimAgain(r) \/ Return(r, "down")
  /\ Abandon(r)
  /\ DropAttempt(r)
  /\ UNCHANGED <<object, epoch, ordinal, acked>>

-----------------------------------------------------------------------------
(* commitEntries.                                                          *)

Location(r, n) == [run |-> r, ordinal |-> n]

\* commitInOrder hands the next group of uploaded segments to commitEntries.
BeginCommit(r) ==
  /\ pc[r] = "idle"
  /\ \E n \in 1..ManifestAppendBatchSize : \E count \in [1..n -> Counts] :
       /\ ordinal[r] + n <= MaxSegments
       /\ plans' = [plans EXCEPT ![r] =
            [i \in 1..n |-> [Location |-> Location(r, ordinal[r] + i - 1),
                             Count    |-> count[i]]]]
       /\ ordinal' = [ordinal EXCEPT ![r] = @ + n]
  /\ pc' = [pc EXCEPT ![r] = "load"]
  /\ UNCHANGED <<object, late, epoch, attemptVars, attempts, conflicts, unknown, acked>>

\* Mutant of Halt: the producer goes on after a failed group.
GoesOn(r) == Return(r, "idle")

\* The call returns an error: flush halts the producer and fails the group.
Halt(r) == Return(r, "halted")

\* Mutant of Transient: the failure is not counted.
Uncounted(r, u) ==
  \/ /\ unknown' = [unknown EXCEPT ![r] = u]
     /\ pc' = [pc EXCEPT ![r] = "load"]
     /\ UNCHANGED <<attempts, conflicts, plans>>
  \/ Halt(r)

\* A counted transient failure; u is the new value of unknown. It ends the
\* call when the budget is spent, or when ctx is cancelled in the sleep.
Transient(r, u) ==
  \/ /\ attempts[r] + 1 < ManifestMaxAttempts
     /\ attempts' = [attempts EXCEPT ![r] = @ + 1]
     /\ unknown' = [unknown EXCEPT ![r] = u]
     /\ pc' = [pc EXCEPT ![r] = "load"]
     /\ UNCHANGED <<conflicts, plans>>
  \/ Halt(r)

LoadFails(r) ==
  /\ pc[r] = "load"
  /\ Transient(r, unknown[r])
  /\ UNCHANGED <<object, late, epoch, ordinal, attemptVars, acked>>

\* Another run owns the log now: ErrFenced.
Fenced(r) ==
  /\ pc[r] = "load" /\ object.data.epoch # epoch[r]
  /\ Halt(r)
  /\ UNCHANGED <<object, late, epoch, ordinal, attemptVars, acked>>

\* Mutants of Landed: the retry does not look, or looks at too short a tail.
NotLooked(mf, group) == {}

ShortTail(mf, group) ==
  {i \in DOMAIN group : \E e \in TailLocations(mf, Len(group) - 1) :
                           e.Location = group[i].Location}

\* harvestCommitted: the positions of the group already in the manifest tail.
Landed(mf, group) ==
  {i \in DOMAIN group : \E e \in TailLocations(mf, 4 * Len(group)) :
                           e.Location = group[i].Location}

\* The group is there, committed by an attempt whose response was lost. The
\* acknowledged sequences are those of the entries found.
Harvest(r) ==
  /\ pc[r] = "load" /\ object.data.epoch = epoch[r]
  /\ unknown[r] /\ Landed(object.data, plans[r]) # {}
  /\ IF Landed(object.data, plans[r]) = DOMAIN plans[r]
     THEN /\ acked' = acked \cup
               {[Location |-> e.Location, Sequence |-> e.Sequence] :
                  e \in {f \in TailLocations(object.data, 4 * Len(plans[r])) :
                           \E i \in DOMAIN plans[r] : f.Location = plans[r][i].Location}}
          /\ Return(r, "idle")
     ELSE /\ Halt(r)
          /\ UNCHANGED acked
  /\ UNCHANGED <<object, late, epoch, ordinal, attemptVars>>

\* Mutant of Load: no epoch check.
LoadUnfenced(r) ==
  /\ pc[r] = "load"
  /\ unknown[r] => Landed(object.data, plans[r]) = {}
  /\ m' = [m EXCEPT ![r] = object.data]
  /\ ver' = [ver EXCEPT ![r] = object.etag]
  /\ pc' = [pc EXCEPT ![r] = "append"]
  /\ UNCHANGED <<object, late, epoch, ordinal, reply, seqs, callVars, acked>>

\* Start an attempt on the manifest just loaded.
Load(r) ==
  /\ pc[r] = "load" /\ object.data.epoch = epoch[r]
  /\ unknown[r] => Landed(object.data, plans[r]) = {}
  /\ m' = [m EXCEPT ![r] = object.data]
  /\ ver' = [ver EXCEPT ![r] = object.etag]
  /\ pc' = [pc EXCEPT ![r] = "append"]
  /\ UNCHANGED <<object, late, epoch, ordinal, reply, seqs, callVars, acked>>

\* One round of the loop over plans: m.Append, seqs[i] = s. After the last
\* one the manifest is sent (its epoch is still p.epoch, as Load checked).
AppendPlan(r) ==
  /\ pc[r] = "append"
  /\ LET i == Len(seqs[r]) + 1
     IN  /\ seqs' = [seqs EXCEPT ![r] = Append(@, m[r].nextSequence)]
         /\ m' = [m EXCEPT ![r] = AppendEntry(m[r], plans[r][i].Location,
                                                    plans[r][i].Count)]
         /\ pc' = [pc EXCEPT ![r] = IF i = Len(plans[r]) THEN "commitPut" ELSE "append"]
  /\ UNCHANGED <<object, late, epoch, ordinal, ver, reply, callVars, acked>>

\* Mutant of CommitOk: a 412 is taken for success.
CommitAnyAnswer(r) ==
  /\ pc[r] = "commitPut" /\ reply[r] \in {"ok", "precondition"}
  /\ acked' = acked \cup {[Location |-> plans[r][i].Location,
                           Sequence |-> seqs[r][i]] : i \in DOMAIN plans[r]}
  /\ Return(r, "idle")
  /\ DropAttempt(r)
  /\ UNCHANGED <<object, late, epoch, ordinal>>

CommitOk(r) ==
  /\ pc[r] = "commitPut" /\ reply[r] = "ok"
  /\ acked' = acked \cup {[Location |-> plans[r][i].Location,
                           Sequence |-> seqs[r][i]] : i \in DOMAIN plans[r]}
  /\ Return(r, "idle")
  /\ DropAttempt(r)
  /\ UNCHANGED <<object, late, epoch, ordinal>>

\* 412: did not land; re-plan within the conflict budget.
CommitConflict(r) ==
  /\ pc[r] = "commitPut" /\ reply[r] = "precondition"
  /\ \/ /\ conflicts[r] + 1 < MaxCommitConflicts
        /\ conflicts' = [conflicts EXCEPT ![r] = @ + 1]
        /\ pc' = [pc EXCEPT ![r] = "load"]
        /\ UNCHANGED <<attempts, unknown, plans>>
     \/ Halt(r)
  /\ DropAttempt(r)
  /\ UNCHANGED <<object, late, epoch, ordinal, acked>>

\* 409: did not land either.
CommitRefused(r) ==
  /\ pc[r] = "commitPut" /\ reply[r] = "conflict"
  /\ Transient(r, unknown[r])
  /\ DropAttempt(r)
  /\ UNCHANGED <<object, late, epoch, ordinal, acked>>

\* Anything else: the PUT may have landed, or may still land.
CommitUnknown(r) ==
  /\ pc[r] = "commitPut"
  /\ Transient(r, TRUE)
  /\ Abandon(r)
  /\ DropAttempt(r)
  /\ UNCHANGED <<object, epoch, ordinal, acked>>

-----------------------------------------------------------------------------

\* The process dies at any step; the store and requests on the wire remain.
Crash(r) ==
  /\ pc[r] \notin {"halted", "down"}
  /\ Return(r, "down")
  /\ Abandon(r)
  /\ DropAttempt(r)
  /\ UNCHANGED <<object, epoch, ordinal, acked>>

Claim(r) ==
  \/ ClaimLoad(r) \/ ClaimLoadFails(r) \/ ClaimExhausted(r)
  \/ ClaimWon(r) \/ ClaimLost(r) \/ ClaimFails(r)

Commit(r) ==
  \/ LoadFails(r) \/ Fenced(r) \/ Harvest(r) \/ Load(r) \/ AppendPlan(r)
  \/ CommitOk(r) \/ CommitConflict(r) \/ CommitRefused(r) \/ CommitUnknown(r)

Next ==
  \/ \E r \in Runs : \/ Arrive(r) \/ Refuse(r) \/ Claim(r)
                     \/ BeginCommit(r) \/ Commit(r) \/ Crash(r)
  \/ \E q \in late : ArriveLate(q)

Spec == Init /\ [][Next]_vars

\* Every object-store call returns, and a producer between calls goes on.
\* Requests given up on need never arrive, and nobody need commit or crash.
Fairness == \A r \in Runs : WF_vars(Arrive(r) \/ Claim(r) \/ Commit(r))

FairSpec == Spec /\ Fairness

-----------------------------------------------------------------------------
(* Correctness.                                                            *)

Log == object.data.entries

Locations == [run : Runs, ordinal : Nat]
Entries == [Sequence : Nat, Count : Nat \ {0}, Location : Locations]
Manifests == [entries : Seq(Entries), nextSequence : Nat, epoch : Nat,
              snapshot : {NoSnapshot}]
Segments == [Location : Locations, Count : Nat \ {0}]

Phases == {"claim", "claimPut", "idle", "load", "append", "commitPut", "halted", "down"}
Replies == {"none", "ok", "exists", "precondition", "conflict"}

\* Every variable of the claim and commit loops, and every manifest that is
\* stored, held or on the wire, has its type; no entry is a legacy one.
TypeOK ==
  /\ object \in [exists : BOOLEAN, etag : Nat, data : Manifests]
  /\ late \subseteq [run : Runs, ver : Nat, m : Manifests]
  /\ pc \in [Runs -> Phases]
  /\ epoch \in [Runs -> Nat]
  /\ ordinal \in [Runs -> Nat]
  /\ m \in [Runs -> Manifests]
  /\ ver \in [Runs -> Nat]
  /\ reply \in [Runs -> Replies]
  /\ attempts \in [Runs -> Nat]
  /\ conflicts \in [Runs -> Nat]
  /\ unknown \in [Runs -> BOOLEAN]
  /\ plans \in [Runs -> Seq(Segments)]
  /\ seqs \in [Runs -> Seq(Nat)]
  /\ acked \subseteq [Location : Locations, Sequence : Nat]

(* What makes a manifest value sound: true of the stored one, and of every *)
(* one a run or a request still holds.                                     *)

Dense(mf) ==
  /\ Tiles(mf)
  /\ IF mf.entries = <<>> THEN mf.nextSequence = 0 ELSE mf.entries[1].Sequence = 0

Unique(mf) ==
  \A i, j \in DOMAIN mf.entries :
    mf.entries[i].Location = mf.entries[j].Location => i = j

InOrder(mf) ==
  \A i \in DOMAIN mf.entries : mf.entries[i].Location.ordinal > 0 =>
    \E j \in 1..i - 1 :
      mf.entries[j].Location = Location(mf.entries[i].Location.run,
                                        mf.entries[i].Location.ordinal - 1)

OwnersGrow(mf, ep) ==
  \A i, j \in DOMAIN mf.entries :
    i < j => ep[mf.entries[i].Location.run] <= ep[mf.entries[j].Location.run]

\* The committed entries own the record sequences 0, 1, ... nextSequence - 1,
\* each exactly once: no gap and no overlap, whatever attempts were lost.
DenseSequences == Dense(object.data)

\* No segment is committed twice: a commit retried after a lost response, or
\* overtaken by its own late PUT, never appends its group again.
ExactlyOnce == Unique(object.data)

\* A sequence handed to a caller is where its segment is, now and for good,
\* whether it came from the attempt's own answer or from harvestCommitted.
AckedIsDurable ==
  \A a \in acked : \E i \in DOMAIN Log : /\ Log[i].Location = a.Location
                                        /\ Log[i].Sequence = a.Sequence

\* At most one run believes it owns an epoch, although a claim whose response
\* was lost has bumped it too.
OneOwnerPerEpoch ==
  \A r, s \in Runs : epoch[r] = epoch[s] /\ epoch[r] # 0 => r = s

\* A fenced run never writes behind its successor: along the log the owners'
\* epochs only grow.
NoZombieWrites == OwnersGrow(object.data, epoch)

\* A run's segments enter the log in Append order and without holes: each one
\* has its predecessor somewhere before it.
CommitsInOrder == InOrder(object.data)

\* What harvestCommitted's error branch rules out: a run that still owns the
\* log finds all of its group in the manifest tail, or none of it anywhere.
GroupsAreAtomic ==
  \A r \in Runs : pc[r] = "load" /\ object.data.epoch = epoch[r] =>
    LET found == {i \in DOMAIN plans[r] :
                    \E j \in DOMAIN Log : Log[j].Location = plans[r][i].Location}
    IN  found = Landed(object.data, plans[r]) /\ found \in {{}, DOMAIN plans[r]}

Advances ==
  /\ Len(Log) <= Len(Log') /\ \A i \in DOMAIN Log : Log'[i] = Log[i]
  /\ \/ object'.data.epoch > object.data.epoch
     \/ /\ object'.data.epoch = object.data.epoch
        /\ object'.data.nextSequence > object.data.nextSequence

\* Every write of the manifest keeps the entries it found and moves the pair
\* (epoch, nextSequence) forward, so that no content ever comes back: an
\* ETag that is a hash of the content identifies a version as well.
WritesOnlyAdvance == [][Advances]_object

\* Every claim and every commit returns, to success, to a halt or to an
\* error: the budgets bound the retries whatever the store answers.
CallsReturn ==
  \A r \in Runs :
    pc[r] \in {"claim", "claimPut", "load", "append", "commitPut"}
      ~> pc[r] \in {"idle", "halted", "down"}

-----------------------------------------------------------------------------
(* The writers implement the abstract log.                                 *)

Abstract == INSTANCE AppendLog WITH
  log    <- Log,
  called <- UNION {{Location(r, n) : n \in 0..ordinal[r] - 1} : r \in Runs},
  open   <- UNION {{plans[r][i].Location : i \in DOMAIN plans[r]} : r \in Runs}

\* Whatever is lost, late or fenced, callers see an exactly-once, totally
\* ordered log: the model of the repository's linearizability test.
ImplementsAppendLog == Abstract!Spec

=============================================================================
