----------------------------- MODULE MCPlaylist -----------------------------
(* Three files, with tracks shorter and longer than the lead of the decoder,  *)
(* and metadata that promise too few chunks, too many, or nonsense.           *)
EXTENDS MdPlaylist

MCLengths == {1, 2, 4, 5}
MCTotals == {-2, 1, 3, 4, 5, 6, 8}
=============================================================================
