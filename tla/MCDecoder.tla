------------------------------ MODULE MCDecoder -----------------------------
(* Four decoder threads; two times the one that waits may be cancelled. *)
EXTENDS MdDecoder

CONSTANTS a, b, c, e

MCDecoders == {a, b, c, e}
=============================================================================
