----------------------------- MODULE MCPcStream -----------------------------
(***************************************************************************)
(* Small instances of PcStream for TLC: three chunks, and two whose frames *)
(* cut records in two.                                                     *)
(***************************************************************************)
EXTENDS PcStream

Layouts == { << <<2, 2>>, <<2, 2>>, <<2>> >>, << <<3, 3>>, <<3, 3>> >> }
=============================================================================
