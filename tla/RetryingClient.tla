--------------------------- MODULE RetryingClient ---------------------------
(***************************************************************************)
(* LogWriter over an S3 client that retries by itself.  objectstore.NewS3  *)
(* takes any *s3.Client, and cmd/stream builds it with the SDK's default   *)
(* configuration, whose retryer sends a PutObject again, inside the same   *)
(* call, when the first response is lost.  The caller only sees the answer *)
(* to the last request.                                                    *)
(***************************************************************************)
EXTENDS LogWriter

\* The response was lost and the client sends the same request again.
Resend(r) ==
  /\ InPut(r) /\ reply[r] # "none"
  /\ reply' = [reply EXCEPT ![r] = "none"]
  /\ UNCHANGED <<object, late, pc, epoch, ordinal, m, ver, seqs, callVars, acked>>

RetryNext == Next \/ \E r \in Runs : Resend(r)

RetrySpec == Init /\ [][RetryNext]_vars

=============================================================================
