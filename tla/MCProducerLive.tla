--------------------------- MODULE MCProducerLive ---------------------------
(***************************************************************************)
(* Liveness of Producer on two instances.  In the first anything may fail, *)
(* and Close may be called, while one of three calls waits.  The second is *)
(* the one where a token can be swallowed: two small calls fill the budget *)
(* in segments of their own, and a large and a small call wait.  When the  *)
(* first segment is released the large call may take the token although it *)
(* does not fit.                                                           *)
(***************************************************************************)
EXTENDS Producer

CONSTANTS a, b, c, d

Failing == a :> 1 @@ b :> 1 @@ c :> 1 @@ d :> 0

Swallowing == a :> 1 @@ b :> 1 @@ c :> 2 @@ d :> 1

\* The calls of size 1 are interchangeable: a is admitted first, then b.
AdmittedInOrder ==
  \A k \in DOMAIN admitted' : k <= 2 => admitted'[k] = <<a, b>>[k]

\* No failed upload or commit, no Close, no cancelled context: nothing else
\* wakes a waiter.
CalmNext ==
  /\ Next
  /\ ~halted' /\ "failed" \notin ToSet(f'.uploads)
  /\ closer' = "none" /\ \A call \in Calls : result'[call] # "error"

\* The fourth call of the first instance has no records and returns at once.
FailingNext == IF pc[d] = "try" THEN Reject(d) ELSE Next

LiveSpec ==
  /\ Init /\ size \in {Failing, Swallowing}
  /\ [][/\ IF size = Failing THEN FailingNext ELSE CalmNext
        /\ AdmittedInOrder]_vars
  /\ Fairness

=============================================================================
