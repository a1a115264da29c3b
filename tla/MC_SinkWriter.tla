---------------------------- MODULE MC_SinkWriter ----------------------------
(***************************************************************************)
(* Scripts of handler operations for model checking SinkWriter.            *)
(***************************************************************************)
EXTENDS SinkWriter

\* A close that is the last message the actor receives.
ScriptCloseLast == <<"close">>

=============================================================================
