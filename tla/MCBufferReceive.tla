-------------------------- MODULE MCBufferReceive --------------------------
(* An instance of BufferReceive for TLC. *)
EXTENDS BufferReceive

\* A stream with a CR, an end of line and a last line without one, longer than the
\* two-byte buffer it is read through.
InputsDef == { <<"cr", "lf", "ch">> }
=============================================================================
