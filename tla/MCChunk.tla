------------------------------- MODULE MCChunk ------------------------------
(* Chunks of two blocks of padding; text files of up to five chunks, FLAC     *)
(* files of up to eleven frames of three samples of one or two bytes; an int  *)
(* of six bits.                                                               *)
EXTENDS MdFile

MCTextSizes == 0..40
MCFrameCounts == 0..11
=============================================================================
