------------------------------- MODULE MCHttp -------------------------------
(***************************************************************************)
(* Instances of Http for TLC: a file of four bytes in one chunk, or in     *)
(* chunks of different sizes, and buffers that hold a chunk and a frame.   *)
(***************************************************************************)
EXTENDS Http

MCChunkings == {<<4>>, <<1, 3>>, <<3, 1>>, <<1, 1, 2>>}

=============================================================================
