------------------------------ MODULE MCGarbage -----------------------------
(* A ring of four slots, as in the default settings, and chunks to overfill it. *)
EXTENDS MdGarbage

CONSTANTS a, b, c, e, f

MCChunks == {a, b, c, e, f}
=============================================================================
