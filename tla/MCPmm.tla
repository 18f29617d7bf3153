------------------------------- MODULE MCPmm --------------------------------
(* Instance of Pmm: six pages of two units, the heap being pages 1 to 4.      *)
(* Requests: an unaligned object, one page, a two-page stack, a page and a    *)
(* half, so that pages are lost to alignment and to partial tails.            *)
EXTENDS Pmm

MCRequests == {<<1, 1>>, <<2, 2>>, <<4, 2>>, <<3, 1>>}

=============================================================================
