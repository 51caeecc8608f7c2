----------------------------- MODULE ByteStream -----------------------------
(* What one direction of a connection promises: the bytes that come out are the *)
(* bytes that went in, in their order, each once.                               *)
EXTENDS Sequences, SequencesExt

CONSTANT Byte

VARIABLES in, out

vars == <<in, out>>

Init == in \in Seq(Byte) /\ out = <<>>

Write == in' \in Seq(Byte) /\ IsPrefix(in, in') /\ UNCHANGED out

Deliver == IsPrefix(out, out') /\ IsPrefix(out', in) /\ UNCHANGED in

Spec == Init /\ [][Write \/ Deliver]_vars
=============================================================================
