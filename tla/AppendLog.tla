----------------------------- MODULE AppendLog ------------------------------
(***************************************************************************)
(* What the log promises its callers, the model the repository's           *)
(* linearizability test states for porcupine: an exactly-once, totally     *)
(* ordered log.  A call appends a group of segments.  It may return the    *)
(* sequences its segments have in the log, or an error, which says         *)
(* nothing: the group may have landed, may never land, or may land later,  *)
(* but never twice.                                                        *)
(***************************************************************************)
EXTENDS Naturals, Sequences

VARIABLES
  log,     \* committed entries: [Location, Sequence, Count]
  called,  \* locations some call ever tried to append
  open,    \* locations of the calls that have not returned
  acked    \* [Location, Sequence] pairs returned to callers

vars == <<log, called, open, acked>>

Init == log = <<>> /\ called = {} /\ open = {} /\ acked = {}

\* The sequence the next record gets: one past the last entry's records.
NextSeq(l) == IF l = <<>> THEN 0 ELSE l[Len(l)].Sequence + l[Len(l)].Count

\* A call names segments nobody named before.
Call ==
  /\ called \subseteq called' /\ called' # called
  /\ open' = open \cup (called' \ called)
  /\ UNCHANGED <<log, acked>>

\* A whole group is appended at the end. Its call may be open or have failed.
Land ==
  /\ Len(log) < Len(log')
  /\ \A i \in 1..Len(log) : log'[i] = log[i]
  /\ \A i \in Len(log) + 1..Len(log') :
       /\ log'[i].Location \in called
       /\ \A j \in 1..i - 1 : log'[j].Location # log'[i].Location
       /\ log'[i].Sequence = NextSeq(SubSeq(log', 1, i - 1))
  /\ UNCHANGED <<called, open, acked>>

\* A call returns success: what it returns is in the log.
ReturnOk ==
  /\ \E S \in SUBSET open :
       /\ S # {} /\ open' = open \ S
       /\ {a.Location : a \in acked' \ acked} = S
  /\ acked \subseteq acked'
  /\ \A a \in acked' \ acked :
       \E i \in 1..Len(log) : log[i].Location = a.Location /\ log[i].Sequence = a.Sequence
  /\ UNCHANGED <<log, called>>

\* A call returns an error, or its process dies.
ReturnErr ==
  /\ \E S \in SUBSET open : open' = open \ S
  /\ UNCHANGED <<log, called, acked>>

Next == Call \/ Land \/ ReturnOk \/ ReturnErr

Spec == Init /\ [][Next]_vars

=============================================================================
