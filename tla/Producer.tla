------------------------------ MODULE Producer ------------------------------
(***************************************************************************)
(* One producer process between its callers and the manifest               *)
(* (wal/producer.go: Append, run, flush, planSegments, commitInOrder,      *)
(* resolvePlan, failItems, release, halt, Close).                          *)
(*                                                                         *)
(* Concurrent Append calls are admitted under p.mu while the in-flight     *)
(* budgets have room and otherwise wait for a token on p.released.  The    *)
(* run loop flushes on its ticker or on p.flushNow: it takes the buffer,   *)
(* packs it into segments, uploads them in parallel, commits the           *)
(* successful prefix group by group, and resolves each call's Durability.  *)
(* Close stops the loop and flushes once more itself.                      *)
(*                                                                         *)
(* Each critical section of p.mu, each channel operation and each object-  *)
(* store call is a step of its own.  commitEntries is one step here, with  *)
(* the outcomes LogWriter shows it to have: success; or an error, and the  *)
(* group may be in the log or not.  A record is one byte, so a call's      *)
(* size is both its bytes and its records; 0 is a call without records.    *)
(***************************************************************************)
EXTENDS Integers, SequencesExt

CONSTANTS
  Calls,                \* Append calls
  Sizes,                \* the sizes they may have
  MaxInFlightBytes, MaxInFlightBatches, FlushBytes, SegmentMaxBytes,
  ManifestAppendBatchSize, UploadConcurrency

\* ProducerConfig.withDefaults makes these positive; 0 disables the others.
ASSUME ConfigAssumption ==
  /\ MaxInFlightBytes \in Nat \ {0} /\ MaxInFlightBatches \in Nat \ {0}
  /\ UploadConcurrency \in Nat \ {0}
  /\ FlushBytes \in Nat /\ SegmentMaxBytes \in Nat /\ ManifestAppendBatchSize \in Nat
  /\ Sizes \subseteq Nat

VARIABLES
  \* The calls.
  size, pc, result,
  owed,           \* channels an admitted call has still to signal
  w, seq,         \* its Durability: open, ok or failed; the sequence if ok
  \* Guarded by p.mu.
  pending, inFlightBytes, inFlightCount, halted, closing,
  \* Channels: a token in released or flushNow, stop and stopped closed.
  released, flushNow, stop, stopped,
  closer,         \* where Close is
  f,              \* the flush in progress: the run loop's, then Close's
  log, nextSequence, \* the manifest, as far as this run writes it
  admitted        \* the calls in the order they were admitted

callVars == <<pc, result, owed>>
waitVars == <<w, seq>>
budgetVars == <<inFlightBytes, inFlightCount>>
stopVars == <<stop, stopped, closer>>
logVars == <<log, nextSequence>>
vars == <<size, callVars, waitVars, pending, budgetVars, halted, closing, released,
          flushNow, stopVars, f, logVars, admitted>>

\* A goroutine between two flushes, at the given point.
NoFlush(at) ==
  [pc        |-> at,
   plans     |-> <<>>,   \* segments to be committed, each a sequence of calls
   uploads   |-> <<>>,   \* upload state of each segment
   committed |-> 0,      \* commitInOrder: segments committed
   bases     |-> <<>>,   \* the sequence assigned to each of those
   settled   |-> 0,      \* segments whose calls have been resolved
   failing   |-> FALSE]  \* the flush returns an error

Init ==
  /\ size \in [Calls -> Sizes]
  /\ pc = [c \in Calls |-> "try"]
  /\ result = [c \in Calls |-> "none"]
  /\ owed = [c \in Calls |-> {}]
  /\ w = [c \in Calls |-> "open"] /\ seq = [c \in Calls |-> 0]
  /\ pending = <<>> /\ inFlightBytes = 0 /\ inFlightCount = 0
  /\ halted = FALSE /\ closing = FALSE
  /\ released = FALSE /\ flushNow = FALSE /\ stop = FALSE /\ stopped = FALSE
  /\ closer = "none" /\ f = NoFlush("select")
  /\ log = <<>> /\ nextSequence = 0 /\ admitted = <<>>

Bytes(calls) == FoldLeft(LAMBDA sum, c : sum + size[c], 0, calls)

-----------------------------------------------------------------------------
(* Append.                                                                 *)

\* What no step of a call changes.
flusherVars == <<size, waitVars, halted, closing, stopVars, f, logVars>>

HasRoom(bytes, count) ==
  count = 0 \/ (bytes < MaxInFlightBytes /\ count < MaxInFlightBatches)

\* Nothing in flight, or room in both budgets.
Fits(c) ==
  \/ inFlightCount = 0
  \/ /\ inFlightBytes + size[c] <= MaxInFlightBytes
     /\ inFlightCount + 1 <= MaxInFlightBatches

\* Mutant of Admits: does not look at closing.
AdmitsUntilHalted == ~halted

Admits == ~halted /\ ~closing

ReturnCall(c, res) ==
  /\ pc' = [pc EXCEPT ![c] = "returned"]
  /\ result' = [result EXCEPT ![c] = res]

\* ErrNoRecords, or under the lock: halted or closing.
Reject(c) ==
  /\ pc[c] = "try" /\ (size[c] = 0 \/ ~Admits)
  /\ ReturnCall(c, "error")
  /\ UNCHANGED <<flusherVars, owed, pending, budgetVars, released, flushNow, admitted>>

Admit(c) ==
  /\ pc[c] = "try" /\ size[c] > 0 /\ Admits /\ Fits(c)
  /\ pending' = Append(pending, c)
  /\ inFlightBytes' = inFlightBytes + size[c]
  /\ inFlightCount' = inFlightCount + 1
  /\ owed' = [owed EXCEPT ![c] =
       {ch \in {"flushNow", "released"} :
          IF ch = "flushNow" THEN FlushBytes > 0 /\ Bytes(pending') >= FlushBytes
                             ELSE HasRoom(inFlightBytes', inFlightCount')}]
  /\ admitted' = Append(admitted, c)
  /\ pc' = [pc EXCEPT ![c] = "signal"]
  /\ UNCHANGED <<flusherVars, result, released, flushNow>>

\* After the unlock: the non-blocking sends, then the return.
SignalFlush(c) ==
  /\ pc[c] = "signal" /\ "flushNow" \in owed[c]
  /\ flushNow' = TRUE
  /\ owed' = [owed EXCEPT ![c] = @ \ {"flushNow"}]
  /\ UNCHANGED <<flusherVars, pc, result, pending, budgetVars, released, admitted>>

SignalNext(c) ==
  /\ pc[c] = "signal" /\ "flushNow" \notin owed[c]
  /\ released' = (released \/ "released" \in owed[c])
  /\ owed' = [owed EXCEPT ![c] = {}]
  /\ ReturnCall(c, "admitted")
  /\ UNCHANGED <<flusherVars, pending, budgetVars, flushNow, admitted>>

Block(c) ==
  /\ pc[c] = "try" /\ size[c] > 0 /\ Admits /\ ~Fits(c)
  /\ pc' = [pc EXCEPT ![c] = "wait"]
  /\ UNCHANGED <<flusherVars, result, owed, pending, budgetVars, released, flushNow, admitted>>

\* The select: a token, a stopped producer, or ctx.
Wake(c) ==
  /\ pc[c] = "wait" /\ released
  /\ released' = FALSE
  /\ pc' = [pc EXCEPT ![c] = "try"]
  /\ UNCHANGED <<flusherVars, result, owed, pending, budgetVars, flushNow, admitted>>

WakeStopped(c) ==
  /\ pc[c] = "wait" /\ stopped
  /\ ReturnCall(c, "error")
  /\ UNCHANGED <<flusherVars, owed, pending, budgetVars, released, flushNow, admitted>>

Cancel(c) ==
  /\ pc[c] = "wait"
  /\ ReturnCall(c, "error")
  /\ UNCHANGED <<flusherVars, owed, pending, budgetVars, released, flushNow, admitted>>

-----------------------------------------------------------------------------
(* run, and Close around it.                                               *)

\* What no step of run, flush or Close changes.
callerVars == <<size, callVars, admitted>>

RunStops ==
  /\ f.pc = "select" /\ stop
  /\ stopped' = TRUE
  /\ f' = [f EXCEPT !.pc = "exit"]
  /\ UNCHANGED <<callerVars, waitVars, pending, budgetVars, halted, closing, released,
                 flushNow, stop, closer, logVars>>

\* The ticker, or a token in flushNow.
RunFlushes ==
  /\ f.pc = "select"
  /\ f' = [f EXCEPT !.pc = "lock"]
  /\ flushNow' \in {flushNow, FALSE}
  /\ UNCHANGED <<callerVars, waitVars, pending, budgetVars, halted, closing, released,
                 stopVars, logVars>>

CloseBegins ==
  /\ closer = "none" /\ closer' = "stopping"
  /\ closing' = TRUE
  /\ UNCHANGED <<callerVars, waitVars, pending, budgetVars, halted, released, flushNow,
                 stop, stopped, f, logVars>>

\* Mutant of CloseStops: stop is never closed.
CloseForgetsStop ==
  /\ closer = "stopping" /\ closer' = "waiting"
  /\ UNCHANGED <<callerVars, waitVars, pending, budgetVars, halted, closing, released,
                 flushNow, stop, stopped, f, logVars>>

CloseStops ==
  /\ closer = "stopping" /\ closer' = "waiting"
  /\ stop' = TRUE
  /\ UNCHANGED <<callerVars, waitVars, pending, budgetVars, halted, closing, released,
                 flushNow, stopped, f, logVars>>

CloseFlushes ==
  /\ closer = "waiting" /\ stopped
  /\ closer' = "flush" /\ f' = NoFlush("lock")
  /\ UNCHANGED <<callerVars, waitVars, pending, budgetVars, halted, closing, released,
                 flushNow, stop, stopped, logVars>>

CloseHalts ==
  /\ closer = "halt" /\ closer' = "done"
  /\ halted' = TRUE
  /\ UNCHANGED <<callerVars, waitVars, pending, budgetVars, closing, released, flushNow,
                 stop, stopped, f, logVars>>

-----------------------------------------------------------------------------
(* flush.                                                                  *)

flushVars == <<callerVars, closing, flushNow, stop, stopped>>

\* flush returns to the loop, or to Close.
FlushReturns ==
  /\ f' = NoFlush(IF closer = "flush" THEN "exit" ELSE "select")
  /\ closer' = IF closer = "flush" THEN "halt" ELSE closer

\* Whole calls, in order, into segments of at most SegmentMaxBytes.
PlanSegments(batch) ==
  LET Pack(segments, c) ==
        IF segments = <<>> \/ (/\ SegmentMaxBytes > 0
                               /\ Bytes(Last(segments)) + size[c] > SegmentMaxBytes)
        THEN Append(segments, <<c>>)
        ELSE [segments EXCEPT ![Len(segments)] = Append(@, c)]
  IN  FoldLeft(Pack, <<>>, batch)

\* Mutant of TakeLocked: the buffer keeps what was taken.
CopyLocked == UNCHANGED pending

TakeLocked == pending' = <<>>

\* Mutant of FlushHalted: what is buffered is left there.
FlushHaltedReturns ==
  /\ f.pc = "lock" /\ halted
  /\ FlushReturns
  /\ UNCHANGED <<flushVars, waitVars, pending, budgetVars, halted, released, logVars>>

\* A halted producer fails what is buffered.
FlushHalted ==
  /\ f.pc = "lock" /\ halted
  /\ f' = [f EXCEPT !.plans = <<pending>>, !.uploads = <<"none">>,
                    !.failing = TRUE, !.pc = "resolve"]
  /\ TakeLocked
  /\ UNCHANGED <<flushVars, closer, waitVars, budgetVars, halted, released, logVars>>

FlushNothing ==
  /\ f.pc = "lock" /\ ~halted /\ pending = <<>>
  /\ FlushReturns
  /\ UNCHANGED <<flushVars, waitVars, pending, budgetVars, halted, released, logVars>>

FlushTakes ==
  /\ f.pc = "lock" /\ ~halted /\ pending # <<>>
  /\ LET plans == PlanSegments(pending)
     IN  f' = [f EXCEPT !.plans = plans, !.uploads = [i \in DOMAIN plans |-> "queued"],
                        !.pc = "upload"]
  /\ TakeLocked
  /\ UNCHANGED <<flushVars, closer, waitVars, budgetVars, halted, released, logVars>>

\* An upload goroutine passes uploadSem; its Put succeeds or exhausts its
\* retries.
StartUpload(i) ==
  /\ f.pc = "upload" /\ f.uploads[i] = "queued"
  /\ Cardinality({j \in DOMAIN f.uploads : f.uploads[j] = "running"}) < UploadConcurrency
  /\ f' = [f EXCEPT !.uploads[i] = "running"]
  /\ UNCHANGED <<flushVars, closer, waitVars, pending, budgetVars, halted, released, logVars>>

FinishUpload(i) ==
  /\ f.pc = "upload" /\ f.uploads[i] = "running"
  /\ \E res \in {"ok", "failed"} : f' = [f EXCEPT !.uploads[i] = res]
  /\ UNCHANGED <<flushVars, closer, waitVars, pending, budgetVars, halted, released, logVars>>

\* wg.Wait.
Uploaded ==
  /\ f.pc = "upload" /\ ToSet(f.uploads) \subseteq {"ok", "failed"}
  /\ f' = [f EXCEPT !.pc = "commit"]
  /\ UNCHANGED <<flushVars, closer, waitVars, pending, budgetVars, halted, released, logVars>>

\* The segments before the first failed upload.
GoodPrefix ==
  Cardinality({i \in DOMAIN f.plans : \A j \in 1..i : f.uploads[j] = "ok"})

\* commitInOrder's next group.
GroupEnd ==
  IF ManifestAppendBatchSize > 0
  THEN Min({f.committed + ManifestAppendBatchSize, GoodPrefix})
  ELSE GoodPrefix

Group == SubSeq(f.plans, f.committed + 1, GroupEnd)

GroupLands ==
  /\ log' = log \o FlattenSeq(Group)
  /\ nextSequence' = nextSequence + Bytes(FlattenSeq(Group))

\* commitEntries succeeds: every segment gets the manifest's next sequence.
CommitGroup ==
  /\ f.pc = "commit" /\ f.committed < GoodPrefix
  /\ GroupLands
  /\ f' = [f EXCEPT !.bases = @ \o [k \in 1..Len(Group) |->
                        nextSequence + Bytes(FlattenSeq(SubSeq(Group, 1, k - 1)))],
                    !.committed = GroupEnd, !.pc = "resolve"]
  /\ UNCHANGED <<flushVars, closer, waitVars, pending, budgetVars, halted, released>>

\* Mutant of HaltWith: the flush fails and the producer goes on.
FailOnly ==
  /\ f' = [f EXCEPT !.failing = TRUE, !.pc = "resolve"]
  /\ UNCHANGED halted

\* halt, then everything not committed fails.
HaltWith ==
  /\ f' = [f EXCEPT !.failing = TRUE, !.pc = "resolve"]
  /\ halted' = TRUE

\* commitEntries fails, and the outcome of its last PUT may be unknown.
CommitFails ==
  /\ f.pc = "commit" /\ f.committed < GoodPrefix
  /\ GroupLands \/ UNCHANGED logVars
  /\ HaltWith
  /\ UNCHANGED <<flushVars, closer, waitVars, pending, budgetVars, released>>

\* The whole prefix is committed, and a later upload failed.
UploadFailed ==
  /\ f.pc = "commit" /\ f.committed = GoodPrefix /\ GoodPrefix < Len(f.plans)
  /\ HaltWith
  /\ UNCHANGED <<flushVars, closer, waitVars, pending, budgetVars, released, logVars>>

FlushDone ==
  /\ f.pc = "commit" /\ f.committed = Len(f.plans)
  /\ FlushReturns
  /\ UNCHANGED <<flushVars, waitVars, pending, budgetVars, halted, released, logVars>>

-----------------------------------------------------------------------------
(* resolvePlan and failItems, segment by segment.                          *)

\* Mutant of StartIndex: every call gets the sequence of its segment.
SegmentStart(items, c) == 0

\* RecordMeta.StartIndex: the records before c's in its segment.
StartIndex(items, c) ==
  Bytes(SubSeq(items, 1, (CHOOSE k \in DOMAIN items : items[k] = c) - 1))

ToSettle == f.settled < IF f.failing THEN Len(f.plans) ELSE f.committed

\* Each call learns the sequence of its own first record.
Resolve ==
  /\ f.pc = "resolve" /\ ToSettle
  /\ LET items == f.plans[f.settled + 1]
         ok == f.settled < f.committed
     IN  /\ w' = [c \in Calls |-> IF c \notin ToSet(items) THEN w[c]
                                  ELSE IF ok THEN "ok" ELSE "failed"]
         /\ seq' = [c \in Calls |-> IF ok /\ c \in ToSet(items)
                      THEN f.bases[f.settled + 1] + StartIndex(items, c) ELSE seq[c]]
  /\ f' = [f EXCEPT !.settled = @ + 1, !.pc = "release"]
  /\ UNCHANGED <<flushVars, closer, pending, budgetVars, halted, released, logVars>>

\* Mutant of Freed: one unit of the count per segment.
FreedSegment(items) ==
  /\ inFlightBytes' = inFlightBytes - Bytes(items)
  /\ inFlightCount' = inFlightCount - 1

Freed(items) ==
  /\ inFlightBytes' = inFlightBytes - Bytes(items)
  /\ inFlightCount' = inFlightCount - Len(items)

\* Mutant of Wakes: only when the budget was full before.
WakesOnEdge ==
  /\ ~HasRoom(inFlightBytes, inFlightCount)
  /\ HasRoom(inFlightBytes', inFlightCount')

Wakes == HasRoom(inFlightBytes', inFlightCount')

\* release: the budget under the lock, the token after it.
Release ==
  /\ f.pc = "release"
  /\ Freed(f.plans[f.settled])
  /\ f' = [f EXCEPT !.pc = IF Wakes THEN "token" ELSE "resolve"]
  /\ UNCHANGED <<flushVars, closer, waitVars, pending, halted, released, logVars>>

SignalReleased ==
  /\ f.pc = "token"
  /\ released' = TRUE
  /\ f' = [f EXCEPT !.pc = "resolve"]
  /\ UNCHANGED <<flushVars, closer, waitVars, pending, budgetVars, halted, logVars>>

\* Back to the commit loop, or out with the error.
Settled ==
  /\ f.pc = "resolve" /\ ~ToSettle
  /\ IF f.failing THEN FlushReturns
                  ELSE f' = [f EXCEPT !.pc = "commit"] /\ UNCHANGED closer
  /\ UNCHANGED <<flushVars, waitVars, pending, budgetVars, halted, released, logVars>>

-----------------------------------------------------------------------------

Caller(c) ==
  \/ Reject(c) \/ Admit(c) \/ SignalFlush(c) \/ SignalNext(c) \/ Block(c)
  \/ Wake(c) \/ WakeStopped(c)

Flush ==
  \/ FlushHalted \/ FlushNothing \/ FlushTakes
  \/ \E i \in DOMAIN f.uploads : StartUpload(i) \/ FinishUpload(i)
  \/ Uploaded \/ CommitGroup \/ CommitFails \/ UploadFailed \/ FlushDone
  \/ Resolve \/ Release \/ SignalReleased \/ Settled

Close == CloseStops \/ CloseFlushes \/ CloseHalts

\* A closed producer whose calls have all returned.
Finished ==
  /\ closer = "done" /\ \A c \in Calls : pc[c] = "returned"
  /\ UNCHANGED vars

Next ==
  \/ \E c \in Calls : Caller(c) \/ Cancel(c)
  \/ RunStops \/ RunFlushes \/ Flush
  \/ CloseBegins \/ Close
  \/ Finished

Spec == Init /\ [][Next]_vars

\* Goroutines are scheduled and object-store calls return; the ticker ticks;
\* select takes a branch that stays ready again and again. Nobody need call
\* Close, and no context need be cancelled.
Fairness ==
  /\ \A c \in Calls : WF_vars(Caller(c))
  /\ WF_vars(RunFlushes) /\ SF_vars(RunStops)
  /\ WF_vars(Flush) /\ WF_vars(Close)

FairSpec == Spec /\ Fairness

-----------------------------------------------------------------------------
(* Correctness.                                                            *)

\* The calls whose budget has not been given back.
InFlight ==
  pending \o FlattenSeq(SubSeq(f.plans,
                               f.settled + (IF f.pc = "release" THEN 0 ELSE 1),
                               Len(f.plans)))

\* The two counters say exactly what is in flight: no path of a flush, a halt
\* or a Close gives budget back twice or forgets it. They stay within the
\* limits that Append waits for, except for one oversized call alone.
BudgetIsExact ==
  /\ inFlightBytes = Bytes(InFlight) /\ inFlightCount = Len(InFlight)
  /\ inFlightCount <= MaxInFlightBatches
  /\ inFlightBytes <= MaxInFlightBytes \/ inFlightCount = 1

\* The log is a prefix of the admission order: parallel uploads, group
\* commits and failures never reorder calls or leave one out.
LogFollowsAppends == IsPrefix(log, admitted)

\* A resolved call knows where its own first record is in the log, though its
\* segment holds other calls' records before it.
SequencesAreTrue ==
  \A c \in Calls : w[c] = "ok" =>
    \E k \in DOMAIN log : log[k] = c /\ seq[c] = Bytes(SubSeq(log, 1, k - 1))

\* Once a call has failed, none admitted after it succeeds.
NoSuccessAfterFailure ==
  \A i, j \in DOMAIN admitted :
    i < j /\ w[admitted[i]] = "failed" => w[admitted[j]] # "ok"

\* A Durability is resolved once: its channel would be closed twice.
ResolvedOnce ==
  f.pc = "resolve" /\ ToSettle =>
    \A c \in ToSet(f.plans[f.settled + 1]) : w[c] = "open"

\* Close leaves nobody behind: every admitted call has been resolved and
\* nothing is buffered, whatever raced with it.
CloseDrains ==
  closer \in {"halt", "done"} =>
    pending = <<>> /\ \A i \in DOMAIN admitted : w[admitted[i]] # "open"

\* Every Append returns: no token is lost for good, whether waiters are woken
\* and do not fit, or the producer halts or closes under them.
AppendsReturn == \A c \in Calls : pc[c] = "try" ~> pc[c] = "returned"

\* Every admitted call is resolved, by success or by failure.
AppendsResolve ==
  \A c \in Calls : result[c] = "admitted" ~> w[c] # "open"

\* Close returns.
CloseReturns == closer = "stopping" ~> closer = "done"

=============================================================================
