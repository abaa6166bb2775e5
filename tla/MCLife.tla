------------------------------- MODULE MCLife -------------------------------
(* Three tracks of at most three chunks, and two places for metadata, so that  *)
(* the address of a track is reused while another one is played.             *)
EXTENDS MdLife

CONSTANTS p, q

MCAddresses == {p, q}
=============================================================================
