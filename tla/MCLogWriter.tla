---------------------------- MODULE MCLogWriter -----------------------------
(* Model values for LogWriter.                                             *)
EXTENDS LogWriterInv, TLC

RunSymmetry == Permutations(Runs)

=============================================================================
