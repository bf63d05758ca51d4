----------------------------- MODULE MCProducer -----------------------------
(* Producer on small instances; the calls are interchangeable.             *)
EXTENDS Producer

CallSymmetry == Permutations(Calls)

=============================================================================
