---------------------------- MODULE MCBufferPool ----------------------------
(***************************************************************************)
(* BufferPool with one page more than the cache takes.                     *)
(***************************************************************************)
EXTENDS BufferPool

MCContents == {0, 1}
=============================================================================
