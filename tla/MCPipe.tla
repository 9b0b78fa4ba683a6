------------------------------- MODULE MCPipe -------------------------------
(* Instances of Pipe for TLC: a message that fits and one that does not.   *)
EXTENDS Pipe

ShortAndLong == {<<1>>, <<0, 1, 1>>}
=============================================================================
