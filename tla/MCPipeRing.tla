----------------------------- MODULE MCPipeRing ------------------------------
(* A ring of three bytes over two byte values; writes of 1, 2 and 4 bytes and *)
(* reads of 1, 2 and 4, so that calls straddle the wrap, fill and overfill.   *)
EXTENDS PipeRing

MCWrites == {<<1>>, <<0, 1>>, <<1, 1, 0, 1>>}
=============================================================================
