------------------------------ MODULE Consumer ------------------------------
(***************************************************************************)
(* The consumer program (cmd/stream/consumer.go, runConsumer): a loop that *)
(* polls the sink and then runs the user's query over the files, in the    *)
(* same goroutine.                                                         *)
(*                                                                         *)
(* A follower polls and emits on every tick, whether or not the poll       *)
(* failed; a one-shot polls until a poll applies nothing or fails, and     *)
(* emits once.  An incremental query reads from a watermark kept in        *)
(* memory.  A new process starts at any time, because the old one was      *)
(* cancelled or died; with -reset it first removes the files and then the  *)
(* saved cursor, which is two steps.                                       *)
(***************************************************************************)
EXTENDS Sink

VARIABLES
  loop,   \* where runConsumer is
  wm,     \* wm: the next sequence an incremental query reads
  owed,   \* records a one-shot has to show: those committed when it started
  shown   \* records the one-shot has shown

consumerVars == <<loop, wm, owed, shown>>

\* n is what the replica applied in this poll, failed whether a one-shot has
\* met an error.
Begin(follow, pc) == [follow |-> follow, pc |-> pc, n |-> 0, failed |-> FALSE]

InManifest == UNION {Records(e) : e \in Live(manifest)}

ConsumerInit ==
  /\ SinkInit
  /\ \E follow \in BOOLEAN :
       /\ loop = Begin(follow, "poll")
       /\ owed = IF follow THEN {} ELSE InManifest
  /\ wm = 0 /\ shown = {}

\* Mutant of Drained: the one-shot polls once.
DrainedAtOnce(n, failed) == TRUE

\* The one-shot's loop ends.
Drained(n, failed) == failed \/ n = 0

AfterPoll(n, failed) ==
  [loop EXCEPT !.n = 0, !.failed = failed /\ ~loop.follow,
               !.pc = IF loop.follow \/ Drained(n, failed) THEN "emit" ELSE "poll"]

\* sink.Poll has returned when neither the replica nor a flush is at work.
Returned == poll'.pc = "idle" /\ flush' = NoFlush

\* replica.Poll returns its count; sink.Poll does once all is flushed.
PollStep ==
  /\ loop.pc = "poll" /\ SinkCalls
  /\ loop' = CASE Returned -> AfterPoll(loop.n, FALSE)
               [] poll.pc # "idle" /\ poll'.pc = "idle" -> [loop EXCEPT !.n = poll.count]
               [] OTHER -> loop
  /\ UNCHANGED <<wm, owed, shown>>

PollError ==
  /\ loop.pc = "poll" /\ SinkErrors
  /\ loop' = AfterPoll(0, TRUE)
  /\ UNCHANGED <<wm, owed, shown>>

-----------------------------------------------------------------------------
(* emit: Engine.Query over the files, and the watermark it leaves behind.  *)

\* Mutant of NextToRead: the high is taken for an exclusive bound, twice.
NextToReadTwice(high) == high + 2

NextToRead(high) == high + 1

\* The rows of one incremental query, as a set: what Dedup removes does not
\* show.
Window == {row \in InFiles : row \notin Below(wm)}

AfterEmit(failed) ==
  loop' = [loop EXCEPT !.pc = IF loop.follow THEN "poll" ELSE "done",
                       !.failed = (@ \/ failed) /\ ~loop.follow]

Emit ==
  /\ loop.pc = "emit" /\ files # {}
  /\ wm' = NextToRead(High)
  /\ shown' = IF loop.follow THEN shown ELSE Window
  /\ AfterEmit(FALSE)
  /\ UNCHANGED <<allVars, owed>>

\* ErrNoData, or the query failed, which is only logged.
EmitNothing ==
  /\ loop.pc = "emit"
  /\ AfterEmit(files # {})
  /\ UNCHANGED <<allVars, wm, owed, shown>>

-----------------------------------------------------------------------------
(* A new process.                                                          *)

NewProcess(follow, pc) ==
  /\ loop' = Begin(follow, pc)
  /\ wm' = 0 /\ shown' = {}
  /\ owed' = IF follow THEN {} ELSE InManifest

ConsumerRestart(follow) == SinkRestart /\ NewProcess(follow, "poll")

\* -reset, first step: os.RemoveAll(OutDir). Nothing of the old process is
\* left but the saved cursor.
RemoveFiles(follow) ==
  /\ files' = {} /\ catalog' = {} /\ visibleHigh' = Nothing
  /\ dropped' = dropped \cup InFiles
  /\ next' = StartAt /\ nextCursor' = StartAt /\ PollReturns
  /\ buf' = <<>> /\ flush' = NoFlush
  /\ NewProcess(follow, "reset")
  /\ UNCHANGED <<manifest, log, restored, cursor, applied>>

\* -reset, second step: os.Remove(CursorPath); then NewSink.
RemoveCursor ==
  /\ loop.pc = "reset"
  /\ cursor' = NoCursor
  /\ loop' = [loop EXCEPT !.pc = "poll"]
  /\ UNCHANGED <<manifest, log, next, restored, poll, applied, sinkVars, wm, owed, shown>>

Others == (Writer \/ Retention) /\ UNCHANGED consumerVars

ConsumerNext ==
  \/ Others \/ PollStep \/ PollError \/ Emit \/ EmitNothing \/ RemoveCursor
  \/ \E follow \in BOOLEAN : ConsumerRestart(follow) \/ RemoveFiles(follow)

consumerAllVars == <<allVars, consumerVars>>

ConsumerSpec == ConsumerInit /\ [][ConsumerNext]_consumerAllVars

\* Calls return and the ticker ticks.
Calm == ~PollError /\ \A follow \in BOOLEAN : ~ConsumerRestart(follow) /\ ~RemoveFiles(follow)

\* From some time on nothing fails and one process follows the log.
FairConsumerSpec ==
  /\ ConsumerSpec
  /\ WF_consumerAllVars(PollStep \/ PollError \/ Emit \/ EmitNothing \/ RemoveCursor)
  /\ <>[][Calm]_consumerAllVars /\ <>[]loop.follow

-----------------------------------------------------------------------------
(* Correctness.                                                            *)

Late == Below(wm) \cap InFiles' \subseteq InFiles \cup dropped

\* No row becomes visible behind the watermark: whatever polls fail, records
\* are delivered again or processes restart over files of the last one, what
\* a flush adds below wm was in a file before, or is a row an earlier process
\* had dropped. An incremental follower misses no other row that reaches a
\* file.
NothingArrivesLate == [][Late]_files

\* A one-shot that met no error has shown every record the manifest held when
\* it started, however polls are paced; but for the rows an earlier process
\* had dropped behind its cursor.
OneShotIsComplete ==
  loop.pc = "done" /\ ~loop.failed => owed \subseteq shown \cup dropped

\* Every committed record is in a file in the end (the log of the model stops
\* growing), or was dropped.
ReachesFiles == []<>(Wanted \subseteq InFiles \cup dropped)

=============================================================================
