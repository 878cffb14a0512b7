---------------------------- MODULE MCBufferSend ----------------------------
(* Instances of BufferSend for TLC. *)
EXTENDS BufferSend

\* Positions in and out of a three-byte string, from both ends.
FewIndices == {-4, -1, 0, 2, 4}
=============================================================================
