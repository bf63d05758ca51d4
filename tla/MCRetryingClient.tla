-------------------------- MODULE MCRetryingClient --------------------------
(* Model values for RetryingClient.                                        *)
EXTENDS RetryingClient, TLC

RunSymmetry == Permutations(Runs)

=============================================================================
