--------------------------- MODULE MC_FramedWriter ---------------------------
(***************************************************************************)
(* Scripts of handler operations for model checking FramedWriter.          *)
(***************************************************************************)
EXTENDS FramedWriter

\* Four writes push the buffer past the high watermark while the transport
\* blocks, two of them in one pass of the mailbox; an encoder error and a
\* close follow.
ScriptBackpressure == <<"write", "write", "write", "write", "encode_error", "close">>

\* An actor with a Writer: writes on both sides of a close, then a stop.
ScriptWriteClose == <<"raw_write", "raw_close", "raw_write", "stop">>

\* A close that is the last message the actor receives.
ScriptCloseLast == <<"close">>

\* A single write.
ScriptWrite == <<"write">>

\* A write followed by a stop.
ScriptWriteStop == <<"write", "stop">>

=============================================================================
