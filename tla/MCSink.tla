------------------------------- MODULE MCSink -------------------------------
(***************************************************************************)
(* Sink for TLC.                                                           *)
(***************************************************************************)
EXTENDS Sink

\* Nothing fails and nothing restarts.
CalmSinkSpec == SinkInit /\ [][Writer \/ SinkCalls]_allVars

=============================================================================
