------------------------------ MODULE SimStore ------------------------------
(***************************************************************************)
(* The fault-injecting store (objectstore/sim.go) over the in-memory one   *)
(* (objectstore/memory.go, module ObjectStore): for each operation on an   *)
(* object, the set of what may come of it.  The faults a call meets are    *)
(* drawn at random, so every outcome of positive probability is one.  A    *)
(* context that expires, in the latency before the call or in the delay of *)
(* a slow answer, gives the caller an error as an injected fault does.     *)
(***************************************************************************)
EXTENDS ObjectStore, Wire

\* The answer that says nothing about the outcome.
ErrInjected == "injected"

\* The faults that can take effect: a clean failure before the operation, and
\* after it a lost (or slow) answer of a mutation that succeeded, or a flipped
\* byte of a read that did.
roll(mutation, res) == {"none", "clean"} \cup
  (IF res # "ok" THEN {} ELSE IF mutation THEN {"ambiguous"} ELSE {"corrupt"})

\* What a PutOpts does to the object and answers.
SimPutOpts(obj, version, data) ==
  LET res == PutResult(obj, version)
      landed == PutOpts(obj, version, data)
      outcome(fault) ==
        CASE fault = "clean" -> [obj |-> obj, answer |-> ErrInjected]
          [] fault = "none" -> [obj |-> landed, answer |-> res]
          [] fault = "ambiguous" -> [obj |-> landed, answer |-> ErrInjected]
  IN  {outcome(fault) : fault \in roll(TRUE, res)}

\* What a Get of an existing object returns; a failed one returns no data.
SimGet(obj) ==
  LET read(fault) ==
        CASE fault = "clean" -> {}
          [] fault = "none" -> {obj.data}
          [] fault = "corrupt" -> {FlipByte(obj.data, i) : i \in DOMAIN obj.data}
  IN  UNION {read(fault) : fault \in roll(FALSE, "ok")}

=============================================================================
