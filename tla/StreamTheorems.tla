--------------------------- MODULE StreamTheorems ---------------------------
(***************************************************************************)
(* What Stream promises for any number of runners, rows and flushes and    *)
(* any buffer: no row is in two results, everything below the watermark is *)
(* accounted for, and no wakeup is lost.                                   *)
(*                                                                         *)
(* The three rest on one inductive invariant.  A result can only be saved  *)
(* while the watermark is where its trigger found it, so its rows start    *)
(* where all earlier results end; the mutex makes that a fact about the    *)
(* runner between the check and the rename.  A stream that was woken has,  *)
(* until it waits again, either the wakeup still in its slot or an upper   *)
(* bound as high as what is visible.                                       *)
(***************************************************************************)
EXTENDS Stream, TLAPS

States == {"off", "select", "list", "load", "query", "save", "write", "rename", "send", "closed"}

Types ==
  /\ visible \in Nat /\ due \in BOOLEAN /\ watermark \in Nat /\ tmp \in Nat
  /\ notify \in [Runners -> BOOLEAN]
  /\ pc \in [Runners -> States]
  /\ hi \in [Runners -> Nat] /\ prev \in [Runners -> Nat]
  /\ rows \in [Runners -> SUBSET Nat]
  /\ out \in [Runners -> Seq(SUBSET Nat)]
  /\ given \in Seq(SUBSET Nat) /\ got \subseteq Nat /\ lost \subseteq Nat
  /\ started \in [Runners -> Nat]

Saving(r) == pc[r] \in {"write", "rename"}

\* The locals of a trigger, and the mutex.
Trigger(r) ==
  /\ pc[r] \in {"load", "query", "save", "write", "rename"} => hi[r] < visible
  /\ pc[r] \in {"query", "save", "write", "rename"} => prev[r] <= hi[r]
  /\ pc[r] \in {"save", "write", "rename"} => rows[r] = prev[r]..hi[r]
  /\ Saving(r) => watermark = prev[r] /\ \A s \in Runners : Saving(s) => s = r
  /\ pc[r] = "rename" => tmp = hi[r] + 1

\* Results lie below the watermark, one past the other.
Apart ==
  /\ watermark <= visible
  /\ \A i \in DOMAIN given : given[i] \subseteq 0..watermark - 1
  /\ RowsReturnedOnce

\* What a runner has seen of the rows finalized since it started.
Seen(r) ==
  ~notify[r] /\ ~due /\ visible > started[r] =>
    /\ pc[r] \in {"select", "send"} => watermark >= visible
    /\ pc[r] \in {"load", "query", "save", "write", "rename"} => hi[r] = visible - 1

OnItsWay(x) ==
  \E r \in Runners : \/ pc[r] = "send" /\ x \in rows[r]
                     \/ \E k \in DOMAIN out[r] : x \in out[r][k]

\* WatermarkIsAccountedFor, row by row.
Accounted == \A x \in 0..watermark - 1 : x \in got \/ x \in lost \/ OnItsWay(x)

StreamInv ==
  /\ Types
  /\ \A r \in Runners : Trigger(r)
  /\ Apart
  /\ Accounted
  /\ \A r \in Runners : Seen(r)

-----------------------------------------------------------------------------
(* The invariant holds initially and every step preserves it, conjunct by  *)
(* conjunct; within a conjunct, one case per action.                       *)

\* The initial state: no rows, no results, nobody started.
LEMMA StreamInvInit == Init => StreamInv
<1>. SUFFICES ASSUME Init PROVE StreamInv
  OBVIOUS
<1>1. <<>> \in Seq(SUBSET Nat)
  OBVIOUS
<1>2. Types
  BY <1>1, Zenon DEF Init, Types, States
<1>3. QED
  BY <1>2 DEF Init, StreamInv, Trigger, Saving, Apart, RowsReturnedOnce, Accounted, Seen

\* Every action of Stream keeps every variable in its type.
LEMMA TypesStep ==
  ASSUME Types, [Next]_vars PROVE Types'
<1>. USE StreamAssumption DEF Types, States
<1>1. ASSUME NEW n \in FileRows, Finalize(n) PROVE Types'
  BY <1>1 DEF Finalize, store, locals, results
<1>2. CASE Wake
  BY <1>2, Zenon DEF Wake, store, locals, results, Live
<1>3. ASSUME NEW r \in Runners, Start(r) PROVE Types'
  <2>1. (visible > 0) \in BOOLEAN
    BY DEF Types
  <2>2. PICK full \in BOOLEAN : notify' = [notify EXCEPT ![r] = full]
    BY Zenon, <1>3, <2>1 DEF Start
  <2>3. notify' \in [Runners -> BOOLEAN]
    BY Zenon, <2>2 DEF Types
  <2>4. QED
    BY <1>3, <2>3 DEF Start, sink, store, locals, results, To
<1>4. ASSUME NEW r \in Runners, Wakeup(r) PROVE Types'
  BY <1>4 DEF Wakeup, sink, store, locals, results, To
<1>5. ASSUME NEW r \in Runners, ListFiles(r) PROVE Types'
  <2>1. CASE visible = 0
    BY <1>5, <2>1, Zenon DEF ListFiles, sink, store, results, To
  <2>2. CASE visible # 0
    <3>1. visible - 1 \in Nat
      BY <2>2
    <3>2. QED
      BY <1>5, <2>2, <3>1, Zenon DEF ListFiles, sink, store, results, To
  <2>3. QED
    BY <2>1, <2>2, Zenon
<1>6. ASSUME NEW r \in Runners, LoadWatermark(r) PROVE Types'
  <2>1. CASE watermark > hi[r]
    <3>1. Ends(r, "select")
      BY <1>6, <2>1, Zenon DEF LoadWatermark
    <3>2. QED
      BY <1>6, <3>1 DEF LoadWatermark, sink, store, results, To, Ends
  <2>2. CASE ~(watermark > hi[r])
    <3>1. To(r, "query") /\ prev' = [prev EXCEPT ![r] = watermark] /\ UNCHANGED <<hi, rows>>
      BY <1>6, <2>2, Zenon DEF LoadWatermark
    <3>2. pc[r] = "load" /\ Unlocked /\ UNCHANGED <<sink, store, notify, results, started>>
      BY <1>6, Zenon DEF LoadWatermark
    <3>3. QED
      BY <2>2, <3>1, <3>2 DEF sink, store, results, To
  <2>3. QED
    BY <2>1, <2>2, Zenon
<1>7. ASSUME NEW r \in Runners, RunQuery(r) PROVE Types'
  BY <1>7 DEF RunQuery, sink, store, results, To, Window
<1>8. ASSUME NEW r \in Runners, SaveCAS(r) PROVE Types'
  BY <1>8 DEF SaveCAS, sink, store, locals, results, To, Matches, Unlocked
<1>9. ASSUME NEW r \in Runners, WriteTmp(r) PROVE Types'
  BY <1>9 DEF WriteTmp, sink, locals, results, To, NextToRead
<1>10. ASSUME NEW r \in Runners, Rename(r) PROVE Types'
  BY <1>10 DEF Rename, sink, locals, To
<1>11. ASSUME NEW r \in Runners, Send(r) PROVE Types'
  BY <1>11 DEF Send, sink, store, To, Ends
<1>12. ASSUME NEW r \in Runners, TriggerFails(r) PROVE Types'
  BY <1>12 DEF TriggerFails, sink, store, results, To, Ends
<1>13. ASSUME NEW r \in Runners, Receive(r) PROVE Types'
  <2>1. Head(out[r]) \in SUBSET Nat /\ Tail(out[r]) \in Seq(SUBSET Nat)
    BY <1>13 DEF Receive
  <2>2. QED
    BY <1>13, <2>1, Zenon DEF Receive, sink, store, locals
<1>14. ASSUME NEW r \in Runners, Cancel(r) PROVE Types'
  BY <1>14, Zenon DEF Cancel, sink, store, To, Ends
<1>15. CASE Crash
  <2>1. ASSUME NEW r \in Runners PROVE Undelivered(r) \subseteq Nat
    BY DEF Undelivered
  <2>2. lost' \subseteq Nat
    BY <1>15, <2>1, Zenon DEF Crash
  <2>3. pc' \in [Runners -> States]
    BY <1>15 DEF Crash
  <2>4. out' \in [Runners -> Seq(SUBSET Nat)] /\ rows' \in [Runners -> SUBSET Nat]
    <3>1. <<>> \in Seq(SUBSET Nat)
      OBVIOUS
    <3>2. QED
      BY <1>15, <3>1, Zenon DEF Crash
  <2>5. hi' \in [Runners -> Nat] /\ prev' \in [Runners -> Nat] /\ notify' \in [Runners -> BOOLEAN]
    BY <1>15 DEF Crash
  <2>6. QED
    BY <1>15, <2>2, <2>3, <2>4, <2>5, Zenon DEF Crash, store
<1>16. CASE UNCHANGED vars
  BY <1>16 DEF vars, sink, store, locals, results, Undelivered
<1>17. QED
  BY <1>1, <1>2, <1>3, <1>4, <1>5, <1>6, <1>7, <1>8, <1>9, <1>10, <1>11, <1>12, <1>13, <1>14, <1>15, <1>16, Zenon DEF Next, Step

\* The locals of a trigger stay what later steps take them for, and the
\* watermark does not move under the runner that is saving.
LEMMA TriggerStep ==
  ASSUME Types, Apart, [Next]_vars, \A r \in Runners : Trigger(r), NEW x \in Runners
  PROVE  Trigger(x)'
<1>. USE StreamAssumption DEF Types, Trigger, Saving, Apart
<1>1. ASSUME NEW n \in FileRows, Finalize(n) PROVE Trigger(x)'
  BY <1>1 DEF Finalize, store, locals, results
<1>2. CASE Wake
  BY <1>2 DEF Wake, store, locals, results, Live
<1>3. ASSUME NEW r \in Runners, Start(r) PROVE Trigger(x)'
  BY <1>3 DEF Start, sink, store, locals, results, To
<1>4. ASSUME NEW r \in Runners, Wakeup(r) PROVE Trigger(x)'
  BY <1>4 DEF Wakeup, sink, store, locals, results, To
<1>5. ASSUME NEW r \in Runners, ListFiles(r) PROVE Trigger(x)'
  BY <1>5, SMTT(30) DEF ListFiles, sink, store, results, To
<1>6. ASSUME NEW r \in Runners, LoadWatermark(r) PROVE Trigger(x)'
  <2>1. CASE watermark > hi[r]
    <3>1. Ends(r, "select")
      BY <1>6, <2>1, Zenon DEF LoadWatermark
    <3>2. QED
      BY <1>6, <3>1 DEF LoadWatermark, sink, store, results, To, Ends
  <2>2. CASE ~(watermark > hi[r])
    <3>1. To(r, "query") /\ prev' = [prev EXCEPT ![r] = watermark] /\ UNCHANGED <<hi, rows>>
      BY <1>6, <2>2, Zenon DEF LoadWatermark
    <3>2. pc[r] = "load" /\ Unlocked /\ UNCHANGED <<sink, store, notify, results, started>>
      BY <1>6, Zenon DEF LoadWatermark
    <3>3. QED
      BY <2>2, <3>1, <3>2 DEF sink, store, results, To
  <2>3. QED
    BY <2>1, <2>2, Zenon
<1>7. ASSUME NEW r \in Runners, RunQuery(r) PROVE Trigger(x)'
  BY <1>7 DEF RunQuery, sink, store, results, To, Window
<1>8. ASSUME NEW r \in Runners, SaveCAS(r) PROVE Trigger(x)'
  BY <1>8 DEF SaveCAS, sink, store, locals, results, To, Matches, Unlocked
<1>9. ASSUME NEW r \in Runners, WriteTmp(r) PROVE Trigger(x)'
  BY <1>9, SMTT(30) DEF WriteTmp, sink, locals, results, To, NextToRead
<1>10. ASSUME NEW r \in Runners, Rename(r) PROVE Trigger(x)'
  BY <1>10 DEF Rename, sink, locals, To
<1>11. ASSUME NEW r \in Runners, Send(r) PROVE Trigger(x)'
  BY <1>11 DEF Send, sink, store, To, Ends
<1>12. ASSUME NEW r \in Runners, TriggerFails(r) PROVE Trigger(x)'
  BY <1>12 DEF TriggerFails, sink, store, results, To, Ends
<1>13. ASSUME NEW r \in Runners, Receive(r) PROVE Trigger(x)'
  BY <1>13 DEF Receive, sink, store, locals
<1>14. ASSUME NEW r \in Runners, Cancel(r) PROVE Trigger(x)'
  BY <1>14 DEF Cancel, sink, store, To, Ends
<1>15. CASE Crash
  BY <1>15, SMTT(30) DEF Crash, store, Live, Undelivered
<1>16. CASE UNCHANGED vars
  BY <1>16 DEF vars, sink, store, locals, results, Undelivered
<1>17. QED
  BY <1>1, <1>2, <1>3, <1>4, <1>5, <1>6, <1>7, <1>8, <1>9, <1>10, <1>11, <1>12, <1>13, <1>14, <1>15, <1>16 DEF Next, Step

\* A saved result starts at the watermark, where every earlier one has ended.
LEMMA ApartStep ==
  ASSUME Types, Apart, [Next]_vars, \A r \in Runners : Trigger(r)
  PROVE  Apart'
<1>. USE StreamAssumption DEF Types, Trigger, Saving, Apart, RowsReturnedOnce
<1>1. ASSUME NEW n \in FileRows, Finalize(n) PROVE Apart'
  BY <1>1 DEF Finalize, store, locals, results
<1>2. CASE Wake
  BY <1>2 DEF Wake, store, locals, results, Live
<1>3. ASSUME NEW r \in Runners, Start(r) PROVE Apart'
  BY <1>3 DEF Start, sink, store, locals, results, To
<1>4. ASSUME NEW r \in Runners, Wakeup(r) PROVE Apart'
  BY <1>4 DEF Wakeup, sink, store, locals, results, To
<1>5. ASSUME NEW r \in Runners, ListFiles(r) PROVE Apart'
  BY <1>5 DEF ListFiles, sink, store, results, To
<1>6. ASSUME NEW r \in Runners, LoadWatermark(r) PROVE Apart'
  BY <1>6 DEF LoadWatermark, sink, store, results, To, Ends
<1>7. ASSUME NEW r \in Runners, RunQuery(r) PROVE Apart'
  BY <1>7, SMTT(30) DEF RunQuery, sink, store, results, To, Window
<1>8. ASSUME NEW r \in Runners, SaveCAS(r) PROVE Apart'
  BY <1>8 DEF SaveCAS, sink, store, locals, results, To, Matches, Unlocked
<1>9. ASSUME NEW r \in Runners, WriteTmp(r) PROVE Apart'
  BY <1>9 DEF WriteTmp, sink, locals, results, To, NextToRead
<1>10. ASSUME NEW r \in Runners, Rename(r) PROVE Apart'
  BY <1>10, SMTT(30) DEF Rename, sink, locals, To
<1>11. ASSUME NEW r \in Runners, Send(r) PROVE Apart'
  BY <1>11 DEF Send, sink, store, To, Ends
<1>12. ASSUME NEW r \in Runners, TriggerFails(r) PROVE Apart'
  BY <1>12 DEF TriggerFails, sink, store, results, To, Ends
<1>13. ASSUME NEW r \in Runners, Receive(r) PROVE Apart'
  BY <1>13, SMTT(30) DEF Receive, sink, store, locals
<1>14. ASSUME NEW r \in Runners, Cancel(r) PROVE Apart'
  BY <1>14 DEF Cancel, sink, store, To, Ends
<1>15. CASE Crash
  BY <1>15 DEF Crash, store, Live, Undelivered
<1>16. CASE UNCHANGED vars
  BY <1>16, SMTT(30) DEF vars, sink, store, locals, results, Undelivered
<1>17. QED
  BY <1>1, <1>2, <1>3, <1>4, <1>5, <1>6, <1>7, <1>8, <1>9, <1>10, <1>11, <1>12, <1>13, <1>14, <1>15, <1>16, Zenon DEF Next, Step

\* Between its wakeup and its next wait a runner keeps up with what is visible.
LEMMA SeenStep ==
  ASSUME Types, Apart, [Next]_vars, \A r \in Runners : Trigger(r),
         NEW x \in Runners, Seen(x)
  PROVE  Seen(x)'
<1>. USE StreamAssumption DEF Types, Trigger, Saving, Apart, Seen
<1>1. ASSUME NEW n \in FileRows, Finalize(n) PROVE Seen(x)'
  BY <1>1 DEF Finalize, store, locals, results
<1>2. CASE Wake
  BY <1>2, Zenon DEF Wake, store, locals, results, Live
<1>3. ASSUME NEW r \in Runners, Start(r) PROVE Seen(x)'
  BY <1>3 DEF Start, sink, store, locals, results, To
<1>4. ASSUME NEW r \in Runners, Wakeup(r) PROVE Seen(x)'
  BY <1>4 DEF Wakeup, sink, store, locals, results, To
<1>5. ASSUME NEW r \in Runners, ListFiles(r) PROVE Seen(x)'
  BY <1>5 DEF ListFiles, sink, store, results, To
<1>6. ASSUME NEW r \in Runners, LoadWatermark(r) PROVE Seen(x)'
  BY <1>6 DEF LoadWatermark, sink, store, results, To, Ends
<1>7. ASSUME NEW r \in Runners, RunQuery(r) PROVE Seen(x)'
  BY <1>7 DEF RunQuery, sink, store, results, To, Window
<1>8. ASSUME NEW r \in Runners, SaveCAS(r) PROVE Seen(x)'
  BY <1>8 DEF SaveCAS, sink, store, locals, results, To, Matches, Unlocked
<1>9. ASSUME NEW r \in Runners, WriteTmp(r) PROVE Seen(x)'
  BY <1>9 DEF WriteTmp, sink, locals, results, To, NextToRead
<1>10. ASSUME NEW r \in Runners, Rename(r) PROVE Seen(x)'
  BY <1>10, SMTT(30) DEF Rename, sink, locals, To
<1>11. ASSUME NEW r \in Runners, Send(r) PROVE Seen(x)'
  BY <1>11 DEF Send, sink, store, To, Ends
<1>12. ASSUME NEW r \in Runners, TriggerFails(r) PROVE Seen(x)'
  BY <1>12 DEF TriggerFails, sink, store, results, To, Ends
<1>13. ASSUME NEW r \in Runners, Receive(r) PROVE Seen(x)'
  BY <1>13 DEF Receive, sink, store, locals
<1>14. ASSUME NEW r \in Runners, Cancel(r) PROVE Seen(x)'
  BY <1>14 DEF Cancel, sink, store, To, Ends
<1>15. CASE Crash
  BY <1>15, SMTT(30) DEF Crash, store, Live, Undelivered
<1>16. CASE UNCHANGED vars
  BY <1>16 DEF vars, sink, store, locals, results, Undelivered
<1>17. QED
  BY <1>1, <1>2, <1>3, <1>4, <1>5, <1>6, <1>7, <1>8, <1>9, <1>10, <1>11, <1>12, <1>13, <1>14, <1>15, <1>16, SMTT(30) DEF Next, Step

\* Accounted is WatermarkIsAccountedFor row by row.
LEMMA AccountedMeans == Accounted <=> WatermarkIsAccountedFor
<1>1. ASSUME NEW x
      PROVE  OnItsWay(x) <=> x \in UNION {Undelivered(r) : r \in Runners}
  <2>1. ASSUME NEW r \in Runners
        PROVE  x \in Undelivered(r) <=>
                 \/ pc[r] = "send" /\ x \in rows[r]
                 \/ \E k \in DOMAIN out[r] : x \in out[r][k]
    BY DEF Undelivered
  <2>2. QED
    BY <2>1, Zenon DEF OnItsWay
<1>2. QED
  BY <1>1, Zenon DEF Accounted, WatermarkIsAccountedFor

\* A row below the watermark moves from the trigger to the channel to the
\* consumer, or is lost with the stream; no step drops it.
LEMMA AccountedStep ==
  ASSUME Types, [Next]_vars, \A r \in Runners : Trigger(r), Accounted
  PROVE  Accounted'
<1>. USE StreamAssumption DEF Types, Trigger, Saving, Accounted, OnItsWay
<1>1. ASSUME NEW n \in FileRows, Finalize(n) PROVE Accounted'
  BY <1>1, Zenon DEF Finalize, store, locals, results
<1>2. CASE Wake
  BY <1>2 DEF Wake, store, locals, results, Live
<1>3. ASSUME NEW r \in Runners, Start(r) PROVE Accounted'
  BY <1>3, Zenon DEF Start, sink, store, locals, results, To
<1>4. ASSUME NEW r \in Runners, Wakeup(r) PROVE Accounted'
  BY <1>4, Zenon DEF Wakeup, sink, store, locals, results, To
<1>5. ASSUME NEW r \in Runners, ListFiles(r) PROVE Accounted'
  <2>1. ASSUME NEW x, OnItsWay(x) PROVE OnItsWay(x)'
    BY <1>5, <2>1 DEF ListFiles, sink, store, results, To
  <2>2. QED
    BY <1>5, <2>1, Zenon DEF ListFiles, store, results
<1>6. ASSUME NEW r \in Runners, LoadWatermark(r) PROVE Accounted'
  <2>1. ASSUME NEW x, OnItsWay(x) PROVE OnItsWay(x)'
    BY <1>6, <2>1, ZenonT(30) DEF LoadWatermark, sink, store, results, To, Ends
  <2>2. QED
    BY <1>6, <2>1, Zenon DEF LoadWatermark, store, results
<1>7. ASSUME NEW r \in Runners, RunQuery(r) PROVE Accounted'
  BY <1>7, Zenon DEF RunQuery, sink, store, results, To, Window
<1>8. ASSUME NEW r \in Runners, SaveCAS(r) PROVE Accounted'
  BY <1>8, Zenon DEF SaveCAS, sink, store, locals, results, To, Matches, Unlocked
<1>9. ASSUME NEW r \in Runners, WriteTmp(r) PROVE Accounted'
  BY <1>9, Zenon DEF WriteTmp, sink, locals, results, To, NextToRead
<1>10. ASSUME NEW r \in Runners, Rename(r) PROVE Accounted'
  <2>1. ASSUME NEW x, OnItsWay(x) PROVE OnItsWay(x)'
    BY <1>10, <2>1 DEF Rename, sink, locals, To
  <2>2. ASSUME NEW x \in rows[r] PROVE OnItsWay(x)'
    BY <1>10 DEF Rename, locals, To
  <2>3. (0..watermark - 1)' = (0..watermark - 1) \cup rows[r]
    BY <1>10 DEF Rename
  <2>4. QED
    BY <1>10, <2>1, <2>2, <2>3, ZenonT(30) DEF Rename
<1>11. ASSUME NEW r \in Runners, Send(r) PROVE Accounted'
  <2>1. ASSUME NEW x, OnItsWay(x) PROVE OnItsWay(x)'
    <3>1. PICK s \in Runners : \/ pc[s] = "send" /\ x \in rows[s]
                              \/ \E k \in DOMAIN out[s] : x \in out[s][k]
      BY <2>1, Zenon
    <3>2. out'[r] = Append(out[r], rows[r]) /\ out[r] \in Seq(SUBSET Nat)
      BY <1>11 DEF Send
    <3>3. ASSUME NEW k \in DOMAIN out[r] PROVE k \in DOMAIN out'[r] /\ out'[r][k] = out[r][k]
      BY <3>2
    <3>4. Len(out[r]) + 1 \in DOMAIN out'[r] /\ out'[r][Len(out[r]) + 1] = rows[r]
      BY <3>2
    <3>5. CASE s = r
      BY <3>1, <3>3, <3>4, <3>5, Zenon
    <3>6. CASE s # r
      BY <1>11, <3>1, <3>6 DEF Send, To, Ends
    <3>7. QED
      BY <3>5, <3>6, Zenon
  <2>2. QED
    BY <1>11, <2>1, Zenon DEF Send, store
<1>12. ASSUME NEW r \in Runners, TriggerFails(r) PROVE Accounted'
  BY <1>12, Zenon DEF TriggerFails, sink, store, results, To, Ends
<1>13. ASSUME NEW r \in Runners, Receive(r) PROVE Accounted'
  <2>1. ASSUME NEW x, OnItsWay(x) PROVE OnItsWay(x)' \/ x \in got'
    <3>1. PICK s \in Runners : \/ pc[s] = "send" /\ x \in rows[s]
                              \/ \E k \in DOMAIN out[s] : x \in out[s][k]
      BY <2>1, Zenon
    <3>2. CASE pc[s] = "send" /\ x \in rows[s]
      BY <1>13, <3>2 DEF Receive, locals
    <3>3. CASE s # r
      BY <1>13, <3>1, <3>3, SMTT(30) DEF Receive, locals
    <3>4. ASSUME s = r, NEW k \in DOMAIN out[r], x \in out[r][k]
          PROVE  OnItsWay(x)' \/ x \in got'
      <4>1. out'[r] = Tail(out[r]) /\ out[r] # <<>> /\ out[r] \in Seq(SUBSET Nat)
        BY <1>13 DEF Receive
      <4>2. CASE k = 1
        BY <1>13, <3>4, <4>1, <4>2 DEF Receive
      <4>3. CASE k # 1
        <5>1. k - 1 \in DOMAIN out'[r] /\ out'[r][k - 1] = out[r][k]
          BY <4>1, <4>3, SMTT(30)
        <5>2. QED
          BY <3>4, <5>1, Zenon
      <4>4. QED
        BY <4>2, <4>3
    <3>5. QED
      BY <3>1, <3>2, <3>3, <3>4, Zenon
  <2>2. QED
    BY <1>13, <2>1, Zenon DEF Receive, store
<1>14. ASSUME NEW r \in Runners, Cancel(r) PROVE Accounted'
  BY <1>14, Zenon DEF Cancel, sink, store, To, Ends
<1>15. CASE Crash
  <2>1. ASSUME NEW x, OnItsWay(x) PROVE x \in lost'
    BY <1>15, <2>1 DEF Crash, Undelivered
  <2>2. QED
    BY <1>15, <2>1, ZenonT(30) DEF Crash, store
<1>16. CASE UNCHANGED vars
  BY <1>16 DEF vars, sink, store, locals, results, Undelivered
<1>17. QED
  BY <1>1, <1>2, <1>3, <1>4, <1>5, <1>6, <1>7, <1>8, <1>9, <1>10, <1>11, <1>12, <1>13, <1>14, <1>15, <1>16, Zenon DEF Next, Step
-----------------------------------------------------------------------------
(* The theorems.                                                           *)

\* The inductive invariant, of any number of runners, rows and flushes.
THEOREM StreamInvariance == Spec => []StreamInv
<1>1. StreamInv /\ [Next]_vars => StreamInv'
  <2>. SUFFICES ASSUME StreamInv, [Next]_vars PROVE StreamInv'
    OBVIOUS
  <2>1. Types' /\ Apart' /\ Accounted'
    BY TypesStep, ApartStep, AccountedStep, Zenon DEF StreamInv
  <2>2. \A x \in Runners : Trigger(x)'
    BY TriggerStep, Zenon DEF StreamInv
  <2>3. \A x \in Runners : Seen(x)'
    BY SeenStep, Zenon DEF StreamInv
  <2>4. QED
    BY <2>1, <2>2, <2>3, Zenon DEF StreamInv
<1>2. QED
  BY StreamInvInit, <1>1, PTL DEF Spec

\* SaveCAS lets no row into two results: not of two triggers, not of two
\* streams on one watermark, not after a crash.
THEOREM NoRowTwice == Spec => []RowsReturnedOnce
<1>1. StreamInv => RowsReturnedOnce
  BY Zenon DEF StreamInv, Apart
<1>2. QED
  BY <1>1, StreamInvariance, PTL

\* The watermark skips no row: what is below it was received, is on its way,
\* or died with a stream after the watermark was saved.
THEOREM NoRowSkipped == Spec => []WatermarkIsAccountedFor
<1>1. StreamInv => WatermarkIsAccountedFor
  BY AccountedMeans, Zenon DEF StreamInv
<1>2. QED
  BY <1>1, StreamInvariance, PTL

\* The single-slot, drop-on-full Notify channel loses no wakeup.
THEOREM WakeupsSuffice == Spec => []NoLostWakeup
<1>1. StreamInv => NoLostWakeup
  BY Zenon DEF StreamInv, Seen, NoLostWakeup
<1>2. QED
  BY <1>1, StreamInvariance, PTL

=============================================================================
