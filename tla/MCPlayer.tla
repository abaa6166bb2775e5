------------------------------ MODULE MCPlayer ------------------------------
(* Two tracks of at most two chunks, and a buffer of two chunks. *)
EXTENDS MdPlayer

CONSTANTS a, b

MCDecoders == {a, b}
=============================================================================
