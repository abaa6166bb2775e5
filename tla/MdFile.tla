------------------------------- MODULE MdFile -------------------------------
(***************************************************************************)
(* One file, decoded into chunks (MdChunk) by the FLAC decoder             *)
(* (decoders/flac/mdflac.c) or by the dummy one                            *)
(* (decoders/dummy/mddummydec.c).  The dummy decoder reads the file byte   *)
(* by byte.  libFLAC asks md_flac_read_cb for bytes as it needs them, and  *)
(* gives the metadata and then the frames it finds in them back to         *)
(* md_flac_metadata_cb and md_flac_write_cb.                               *)
(***************************************************************************)
EXTENDS MdChunk

CONSTANTS
  TextSizes,    \* the sizes, in bytes, of the files of the dummy decoder
  FrameCounts,  \* how many frames a FLAC file may have
  Requests,     \* how many bytes libFLAC may ask for at once
  HeaderSize,   \* the bytes before the first frame of a FLAC file
  FrameSize,    \* the bytes of an encoded frame
  FrameSamples, \* the samples of a frame, those of all channels together
  SampleSizes,  \* how many bits a sample of a FLAC file may have
  Missing,      \* how many frames may be missing at the end of a FLAC file
  IntLimit      \* 2^(w-1), for an int of w bits

ASSUME MdFileAssumption ==
  /\ TextSizes \subseteq Nat /\ FrameCounts \subseteq Nat
  /\ Requests \subseteq Nat \ {0} /\ Requests # {}
  /\ HeaderSize \in Nat \ {0} /\ FrameSize \in Nat \ {0} /\ FrameSamples \in Nat \ {0}
  /\ SampleSizes \subseteq Nat \ {0} /\ Missing \subseteq Nat
  /\ IntLimit \in Nat \ {0}

VARIABLES
  kind,       \* the decoder: flac or dummy
  size,       \* the size of the file, decoder_data->size
  depth,      \* the bits of a sample, metadata->bps
  announced,  \* the samples of the whole stream, total_samples * channels
  offset,     \* how much of it was read, decoder_data->pos for FLAC
  used,       \* how much of that libFLAC has decoded
  eof         \* the decoder was told that the file has ended

file == <<kind, size, depth, announced>>
fileVars == <<file, offset, used, eof, chunkVars>>

\* process_block adds a byte of each sample for b = 0, 8, ... below its bits.
SampleBytes == (depth + 7) \div 8
FrameBytes == FrameSamples * SampleBytes

\* The frames of the file.
Frames == (size - HeaderSize) \div FrameSize

-----------------------------------------------------------------------------
Init ==
  /\ InitChunk
  /\ \/ kind = "dummy" /\ size \in TextSizes /\ depth = 0 /\ announced = 0
     \/ /\ kind = "flac"
        /\ size \in {HeaderSize + n * FrameSize : n \in FrameCounts}
        /\ depth \in SampleSizes
        /\ announced \in {0} \cup {(Frames + m) * FrameSamples : m \in Missing}
  /\ offset = 0
  /\ used = 0
  /\ eof = FALSE

Reading == status = "decoding" /\ ready = 0 /\ ~eof

\* fread of one byte and feof, in md_dummy_decode_fp
ReadByte ==
  /\ kind = "dummy"
  /\ Reading
  /\ IF offset < size
       THEN offset' = offset + 1 /\ ready' = 1 /\ UNCHANGED eof
       ELSE eof' = TRUE /\ UNCHANGED <<offset, ready>>
  /\ UNCHANGED <<file, used, pos, chunk, added, refused, status>>

\* What libFLAC looks for next: the metadata, then frames.
Wanted == IF used = 0 THEN HeaderSize ELSE FrameSize

\* md_flac_read_cb: does it report the end of the stream?
PastEndNever(n) == FALSE                    \* mutant: no check
PastEndEarly(n) == n + offset >= size       \* mutant: one byte too early
PastEnd(n) == n + offset > size

ReadBlock(n) ==
  /\ kind = "flac"
  /\ Reading
  /\ offset - used < Wanted
  /\ IF PastEnd(n) THEN eof' = TRUE /\ UNCHANGED offset
                   ELSE offset' = offset + n /\ UNCHANGED eof
  /\ UNCHANGED <<file, used, chunkVars>>

\* libFLAC calls md_flac_metadata_cb, or md_flac_write_cb with a frame.
Decode ==
  /\ kind = "flac"
  /\ Reading
  /\ offset - used >= Wanted
  /\ used' = used + Wanted
  /\ ready' = IF used = 0 THEN 0 ELSE FrameBytes
  /\ UNCHANGED <<file, offset, eof, pos, chunk, added, refused, status>>

\* process_block or md_dummy_decode_fp adds the bytes at hand.
AddBytes ==
  /\ AddByte \/ \E accepted \in BOOLEAN : AddByteTurn(accepted)
  /\ UNCHANGED <<file, offset, used, eof>>

\* The decoder calls md_decoder_done: at the end of the file, or for FLAC also
\* after md_add_decoded_byte has failed.
Ending == eof \/ (status = "aborted" /\ kind = "flac")

End ==
  /\ status \in {"decoding", "aborted"}
  /\ \/ Ending /\ chunk = NULL /\ DoneNothing
     \/ Ending /\ DoneFails
     \/ Ending /\ \E accepted \in BOOLEAN : Done(accepted)
     \/ status = "aborted" /\ kind = "dummy" /\ DoneNothing
  /\ UNCHANGED <<file, offset, used, eof>>

Next == ReadByte \/ (\E n \in Requests : ReadBlock(n)) \/ Decode \/ AddBytes \/ End

Spec == Init /\ [][Next]_fileVars

-----------------------------------------------------------------------------
\* An int product of two's complement wraps, and int division rounds towards 0.
Wrapped(n) == ((n + IntLimit) % (2 * IntLimit)) - IntLimit
Quotient(n, d) == IF n >= 0 THEN n \div d ELSE -((-n) \div d)

\* The bytes that the metadata let expect: STREAMINFO may leave the samples
\* unknown (0), a byte for every whole eight bits.  The metadata of the dummy
\* decoder have zero channels of zero bits.
Foretold == announced * (depth \div 8)

\* md_set_metadata
TotalBufChunksExact == Quotient(Wrapped(Foretold), BufSize)   \* mutant: one less
TotalBufChunks == Quotient(Wrapped(Foretold), BufSize) + 1

TypeOK ==
  /\ ChunkTypes
  /\ kind \in {"flac", "dummy"}
  /\ size \in Nat /\ depth \in Nat /\ announced \in Nat
  /\ offset \in 0..size
  /\ used \in 0..offset
  /\ eof \in BOOLEAN

Complete == status = "done" /\ ~refused

(* The total_buf_chunks of a FLAC file, from which the playlist tells when to *)
(* start the next decoder and which chunk is the last one (its order is       *)
(* total_buf_chunks - 1):                                                     *)
(*   - is not too low if the samples are announced and have whole bytes;      *)
(*   - is not too high, except by one for a length that is a multiple of      *)
(*     buf_size, if no bytes are missing that the metadata let expect;        *)
(*   - is right, with the same exception, if just these bytes were added.     *)
(* For 12- or 20-bit samples or an unknown number of samples it may be too    *)
(* low, for a file that was cut off too high.  From 2^31 bytes on the product *)
(* in md_set_metadata overflows, and nothing is claimed.                      *)
EstimateClose ==
  kind = "flac" /\ Complete /\ Foretold < IntLimit =>
    LET exact == Len(added) + IF pos % BufSize = 0 THEN 1 ELSE 0 IN
    /\ announced # 0 /\ depth % 8 = 0 => TotalBufChunks >= Len(added)
    /\ pos >= Foretold => TotalBufChunks <= exact
    /\ pos = Foretold => TotalBufChunks = exact

(* md_flac_read_cb reports the end of the stream as soon as a request reaches *)
(* past the end of the file, and what is left of the file is not decoded.     *)
(* That is always less than libFLAC has asked for at once, and all frames     *)
(* before it are decoded: a decoder that is not stopped adds every byte of    *)
(* theirs.                                                                    *)
TailBounded ==
  kind = "flac" /\ Complete =>
    /\ \E n \in Requests : size - offset < n
    /\ pos = ((offset - HeaderSize) \div FrameSize) * FrameBytes
=============================================================================
