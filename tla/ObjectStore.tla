---------------------------- MODULE ObjectStore -----------------------------
(***************************************************************************)
(* One object of the object store and its conditional writes, as the       *)
(* objectstore.ObjectStore contract states them and InMemory.PutOpts       *)
(* implements them.  A stored object has its data and an ETag that every   *)
(* successful write replaces by one never used before.                     *)
(*                                                                         *)
(* A version is the ETag a Get observed; NoVersion is the nil version a    *)
(* Load of a missing object returns, and makes the write a PutCreate       *)
(* ("only if absent").  Any other version makes it a PutUpdate (If-Match).  *)
(***************************************************************************)
EXTENDS Naturals

NoVersion == 0

Missing(default) == [exists |-> FALSE, etag |-> NoVersion, data |-> default]

\* Mutant of PutResult: a store that ignores If-Match.
PutUnconditional(obj, version) ==
  IF version = NoVersion /\ obj.exists THEN "exists" ELSE "ok"

\* What the store answers to a conditional write of this version.
PutResult(obj, version) ==
  IF version = NoVersion
  THEN IF obj.exists THEN "exists" ELSE "ok"
  ELSE IF obj.exists /\ obj.etag = version THEN "ok" ELSE "precondition"

\* The object after the write was evaluated: replaced, under a fresh ETag,
\* exactly when the precondition held.
PutOpts(obj, version, data) ==
  IF PutResult(obj, version) = "ok"
  THEN [exists |-> TRUE, etag |-> obj.etag + 1, data |-> data]
  ELSE obj

=============================================================================
