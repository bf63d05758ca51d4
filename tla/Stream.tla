------------------------------- MODULE Stream -------------------------------
(***************************************************************************)
(* Continuous queries over the sink's files (querystream/duckdbq: Stream,  *)
(* streamTrigger, VisibleHigh, resolveWindow, buildViewSQL and the         *)
(* WatermarkStore), in Incremental mode: each trigger reads the rows from  *)
(* the watermark up to the highest finalized sequence.                     *)
(*                                                                         *)
(* Runners are Stream calls of one process that share one                  *)
(* FileWatermarkStore, each with a Notify channel and a result channel of  *)
(* its own.  A crash ends the process; a restart is other runners          *)
(* starting, which may find their Notify slots empty and then first query  *)
(* after the next flush.  A trigger is split where another actor can come  *)
(* in between: list the files, load the watermark, run the query, check    *)
(* the watermark, write the new one aside, rename it, send the result.     *)
(* The files are the sink's; here they are the sequences 0 to visible - 1, *)
(* which grow at their end.                                                *)
(***************************************************************************)
EXTENDS Integers, Sequences

CONSTANTS
  Runners,    \* streams on the same WatermarkStore
  Buffer,     \* StreamConfig.Buffer, after its default
  MaxSeq,     \* bound: sequences that are ever finalized
  FileRows    \* rows a flush of the sink may finalize

ASSUME StreamAssumption ==
  Buffer \in Nat \ {0} /\ MaxSeq \in Nat /\ FileRows \subseteq Nat \ {0}

VARIABLES
  visible,    \* how many sequences are in finalized files
  due,        \* whether the sink has yet to wake the streams
  watermark,  \* the store's file; unset reads as 0
  tmp,        \* the file SaveCAS writes first
  notify,     \* whether the runner's Notify slot is full
  pc, hi, prev, rows,  \* the runner and the locals of its trigger
  out,        \* the result channel: sets of rows
  given,      \* every result, in the order of the watermarks they were saved at
  got,        \* rows consumers received
  lost,       \* rows of results a cancelled or dead stream never delivered
  started     \* what was visible when the runner started

sink == <<visible, due>>
store == <<watermark, tmp>>
locals == <<hi, prev, rows>>
results == <<out, given, got, lost>>
vars == <<sink, store, notify, pc, locals, results, started>>

Init ==
  /\ visible = 0 /\ due = FALSE /\ watermark = 0 /\ tmp = 0
  /\ notify = [r \in Runners |-> FALSE]
  /\ pc = [r \in Runners |-> "off"]
  /\ hi = [r \in Runners |-> 0] /\ prev = [r \in Runners |-> 0]
  /\ rows = [r \in Runners |-> {}]
  /\ out = [r \in Runners |-> <<>>]
  /\ given = <<>> /\ got = {} /\ lost = {}
  /\ started = [r \in Runners |-> 0]

Live == {r \in Runners : pc[r] \notin {"off", "closed"}}

\* The sink publishes a file: flushOne up to the wakeup.
Finalize(n) ==
  /\ ~due /\ visible + n <= MaxSeq
  /\ visible' = visible + n
  /\ due' = TRUE
  /\ UNCHANGED <<store, notify, pc, locals, results, started>>

\* It wakes the streams that run; a wakeup is dropped if the slot is full.
Wake ==
  /\ due /\ due' = FALSE
  /\ notify' = [r \in Runners |-> notify[r] \/ r \in Live]
  /\ UNCHANGED <<visible, store, pc, locals, results, started>>

-----------------------------------------------------------------------------
(* streamTrigger.                                                          *)

To(r, at) == pc' = [pc EXCEPT ![r] = at]

\* The trigger returns, and with it go its locals.
Ends(r, at) ==
  /\ To(r, at)
  /\ hi' = [hi EXCEPT ![r] = 0]
  /\ prev' = [prev EXCEPT ![r] = 0]
  /\ rows' = [rows EXCEPT ![r] = {}]

\* The slot may still hold a wakeup of an earlier flush.
Start(r) ==
  /\ pc[r] = "off"
  /\ To(r, "select")
  /\ started' = [started EXCEPT ![r] = visible]
  /\ \E full \in {FALSE, visible > 0} : notify' = [notify EXCEPT ![r] = full]
  /\ UNCHANGED <<sink, store, locals, results>>

Wakeup(r) ==
  /\ pc[r] = "select" /\ notify[r]
  /\ notify' = [notify EXCEPT ![r] = FALSE]
  /\ To(r, "list")
  /\ UNCHANGED <<sink, store, locals, results, started>>

\* VisibleHigh; nothing to do while there are no files.
ListFiles(r) ==
  /\ pc[r] = "list"
  /\ IF visible = 0
     THEN To(r, "select") /\ UNCHANGED hi
     ELSE To(r, "load") /\ hi' = [hi EXCEPT ![r] = visible - 1]
  /\ UNCHANGED <<sink, store, notify, prev, rows, results, started>>

\* Mutant of Unlocked: SaveCAS does not take the store's mutex.
UnlockedAlways == TRUE

\* The store's mutex, which SaveCAS holds until it has renamed the file.
Unlocked == \A r \in Runners : pc[r] \notin {"write", "rename"}

LoadWatermark(r) ==
  /\ pc[r] = "load" /\ Unlocked
  /\ IF watermark > hi[r]
     THEN Ends(r, "select")
     ELSE To(r, "query") /\ prev' = [prev EXCEPT ![r] = watermark] /\ UNCHANGED <<hi, rows>>
  /\ UNCHANGED <<sink, store, notify, results, started>>

\* Mutant of Window: the lower bound is exclusive.
WindowAfter(lo, high) == {s \in 0..visible - 1 : s <= high /\ (lo # 0 => s > lo)}

\* resolveWindow and the view: a zero lower bound is no bound at all.
Window(lo, high) == {s \in 0..visible - 1 : s <= high /\ (lo # 0 => s >= lo)}

RunQuery(r) ==
  /\ pc[r] = "query"
  /\ rows' = [rows EXCEPT ![r] = Window(prev[r], hi[r])]
  /\ To(r, "save")
  /\ UNCHANGED <<sink, store, notify, hi, prev, results, started>>

Matches(r) == watermark = prev[r]

\* SaveCAS(prev, hi + 1), before the result is delivered: load and compare,
\* write beside the file, rename.
SaveCAS(r) ==
  /\ pc[r] = "save" /\ Unlocked /\ Matches(r)
  /\ To(r, "write")
  /\ UNCHANGED <<sink, store, notify, locals, results, started>>

NextToRead(high) == high + 1

WriteTmp(r) ==
  /\ pc[r] = "write"
  /\ tmp' = NextToRead(hi[r])
  /\ To(r, "rename")
  /\ UNCHANGED <<sink, watermark, notify, locals, results, started>>

Rename(r) ==
  /\ pc[r] = "rename"
  /\ watermark' = tmp
  /\ given' = Append(given, rows[r])
  /\ To(r, "send")
  /\ UNCHANGED <<sink, tmp, notify, locals, out, got, lost, started>>

\* Whatever fails in a trigger, ErrConflict included, ends the stream; the
\* rows in hand were not accounted for yet.
TriggerFails(r) ==
  /\ pc[r] \in {"list", "load", "query", "save", "write", "rename"}
  /\ Ends(r, "closed")
  /\ UNCHANGED <<sink, store, notify, results, started>>

\* Mutant of Send: a wakeup that came during the trigger is taken for served.
SendServed(r) ==
  /\ pc[r] = "send" /\ Len(out[r]) < Buffer
  /\ out' = [out EXCEPT ![r] = Append(@, rows[r])]
  /\ notify' = [notify EXCEPT ![r] = FALSE]
  /\ Ends(r, "select")
  /\ UNCHANGED <<sink, store, given, got, lost, started>>

Send(r) ==
  /\ pc[r] = "send" /\ Len(out[r]) < Buffer
  /\ out' = [out EXCEPT ![r] = Append(@, rows[r])]
  /\ Ends(r, "select")
  /\ UNCHANGED <<sink, store, notify, given, got, lost, started>>

Receive(r) ==
  /\ out[r] # <<>>
  /\ got' = got \cup Head(out[r])
  /\ out' = [out EXCEPT ![r] = Tail(@)]
  /\ UNCHANGED <<sink, store, notify, pc, locals, given, lost, started>>

\* ctx is done, or Notify was closed: the stream ends where it selects or
\* sends. A result it is about to send is gone; what is in the channel can
\* still be received.
Cancel(r) ==
  /\ pc[r] \in {"select", "send"}
  /\ Ends(r, "closed")
  /\ lost' = lost \cup rows[r]
  /\ UNCHANGED <<sink, store, notify, out, given, got, started>>

Undelivered(r) ==
  (IF pc[r] = "send" THEN rows[r] ELSE {}) \cup UNION {out[r][k] : k \in DOMAIN out[r]}

\* The process dies: the sink, every stream and whatever nobody has received.
Crash ==
  /\ Live # {}
  /\ lost' = lost \cup UNION {Undelivered(r) : r \in Runners}
  /\ pc' = [r \in Runners |-> IF r \in Live THEN "closed" ELSE pc[r]]
  /\ due' = FALSE
  /\ notify' = [r \in Runners |-> FALSE]
  /\ hi' = [r \in Runners |-> 0] /\ prev' = [r \in Runners |-> 0]
  /\ rows' = [r \in Runners |-> {}]
  /\ out' = [r \in Runners |-> <<>>]
  /\ UNCHANGED <<visible, store, given, got, started>>

Step(r) ==
  \/ Wakeup(r) \/ ListFiles(r) \/ LoadWatermark(r) \/ RunQuery(r)
  \/ SaveCAS(r) \/ WriteTmp(r) \/ Rename(r) \/ Send(r)

Next ==
  \/ \E n \in FileRows : Finalize(n)
  \/ Wake
  \/ \E r \in Runners : Start(r) \/ Step(r) \/ TriggerFails(r) \/ Receive(r) \/ Cancel(r)
  \/ Crash

Spec == Init /\ [][Next]_vars

\* Streams that were started run and consumers receive.
Fairness == \A r \in Runners : WF_vars(Step(r) \/ TriggerFails(r)) /\ WF_vars(Receive(r))

FairSpec == Spec /\ Fairness

-----------------------------------------------------------------------------
(* Correctness.                                                            *)

\* No row is in two results: not of two triggers, not of two streams on one
\* watermark, not after a restart.
RowsReturnedOnce ==
  \A i, j \in DOMAIN given : i # j => given[i] \cap given[j] = {}

\* Everything below the watermark was received, is on its way, or was lost
\* with a stream that ended between the compare-and-swap and the delivery:
\* the "at-most-once to the consumer across a crash" of the code.
WatermarkIsAccountedFor ==
  0..watermark - 1 \subseteq got \cup lost \cup UNION {Undelivered(r) : r \in Runners}

\* No wakeup is lost: a stream that waits has seen every row finalized since
\* it started, whatever wakeups were coalesced, dropped or came during a
\* trigger; rows that were there before it started wait for the next flush.
NoLostWakeup ==
  \A r \in Runners :
    pc[r] = "select" /\ ~notify[r] /\ ~due /\ visible > started[r] => watermark >= visible

\* A stream that was woken after a row was finalized returns it, unless a
\* stream returned it before or some stream ends, however slow the consumer.
RowsAreReturned ==
  \A r \in Runners, x \in 0..MaxSeq - 1 :
    notify[r] /\ x < visible ~> x \in got \/ \E s \in Runners : pc[s] = "closed"

=============================================================================
