---------------------------- MODULE MCChunkStream ----------------------------
(***************************************************************************)
(* Small instances of ChunkStream for TLC.                                 *)
(***************************************************************************)
EXTENDS ChunkStream

\* Three chunks that overflow the window by a record, and two whose frames cut
\* records in two and overflow it by half of them.
Layouts == { << <<2, 2>>, <<2, 2>>, <<2>> >>, << <<3, 3>>, <<3, 3>> >> }
=============================================================================
