------------------------------ MODULE MdChunk -------------------------------
(***************************************************************************)
(* How one decoder fills chunks (md_add_decoded_byte, md_decoder_done in   *)
(* decoders/mddecoder.c and md_buf_chunk_append_byte in                    *)
(* core/buffer/mdbufchunk.c).  Only the numbers are kept: how many bytes a *)
(* chunk holds, its order, and the flag bit that shares the size with      *)
(* them.  The buffer takes a chunk or, once it was stopped, refuses it.    *)
(* Where the bytes come from and when the file ends says MdFile.           *)
(***************************************************************************)
EXTENDS Integers, Sequences

CONSTANTS
  BufSize,      \* get_settings()->buf_size
  Padding,      \* MD_BUFFER_PADDING
  NULL

ASSUME MdChunkAssumption ==
  /\ Padding \in Nat /\ Padding > 0 /\ Padding % 2 = 0
  /\ BufSize \in Nat /\ BufSize > 0 /\ BufSize % Padding = 0

Chunk == [size : Nat, order : Nat, last : BOOLEAN]

ASSUME MdChunkNull == NULL \notin Chunk

VARIABLES
  ready,      \* the bytes the decoder has at hand and will add next
  pos,        \* the bytes it has added
  chunk,      \* decoder_data->chunk
  added,      \* the chunks the buffer took, oldest first
  refused,    \* history: the buffer has refused a chunk
  status      \* what the decoder does: see Statuses

chunkVars == <<ready, pos, chunk, added, refused, status>>

\* decoding; aborted: md_add_decoded_byte has failed; done: past
\* md_decoder_done; failed: md_adjust_size made md_decoder_done return early;
\* gone: the thread ends without a last chunk.
Statuses == {"decoding", "aborted", "done", "failed", "gone"}

\* `last' stands for the take-in event md_done_take_in in the chunk's queue.
NewChunk(order) == [size |-> 0, order |-> order, last |-> FALSE]

\* md_buf_chunk_append_byte opens a new chunk.
Full == chunk = NULL \/ chunk.size >= BufSize

NextOrderStuck == IF chunk = NULL THEN 0 ELSE chunk.order   \* mutant: not counted
NextOrder == IF chunk = NULL THEN 0 ELSE chunk.order + 1

\* md_adjust_size: it gives up if the space left is less than the remainder,
\* and else pads the chunk with zero bytes.
Remainder(c) == c.size % Padding
AdjustFails(c) == Remainder(c) # 0 /\ BufSize - c.size < Remainder(c)
AdjustedNot(c) == c                                     \* mutant: no padding
Adjusted(c) ==
  IF Remainder(c) = 0 THEN c ELSE [c EXCEPT !.size = @ + Padding - Remainder(c)]

\* md_set_decoder_done, `size |= 1', and its inverse in md_done_take_in,
\* `size ^= 1'.
WithDoneBit(size) == IF size % 2 = 0 THEN size + 1 ELSE size
FlippedDoneBit(size) == IF size % 2 = 0 THEN size + 1 ELSE size - 1

\* The size the driver sees once the take-in events of the chunk have run.
PlayedSize(c) == IF c.last THEN FlippedDoneBit(c.size) ELSE c.size

-----------------------------------------------------------------------------
InitChunk ==
  /\ ready = 0
  /\ pos = 0
  /\ chunk = NULL
  /\ added = <<>>
  /\ refused = FALSE
  /\ status = "decoding"

\* A byte of those at hand is added to chunk c.
TakeByte(c) ==
  /\ ready > 0
  /\ ready' = ready - 1
  /\ pos' = pos + 1
  /\ chunk' = c

\* md_add_decoded_byte into the first chunk, or one that has room.
AddByte ==
  /\ status = "decoding"
  /\ chunk # NULL => ~Full
  /\ TakeByte([IF chunk = NULL THEN NewChunk(0) ELSE chunk EXCEPT !.size = @ + 1])
  /\ UNCHANGED <<added, refused, status>>

\* md_add_decoded_byte that opens a chunk and hands the full one over.  If that
\* fails, the new chunk stays with the decoder.
AddByteTurn(accepted) ==
  /\ status = "decoding"
  /\ chunk # NULL /\ Full
  /\ TakeByte([NewChunk(NextOrder) EXCEPT !.size = 1])
  /\ LET ok == accepted /\ ~AdjustFails(chunk)
     IN /\ added' = IF ok THEN Append(added, Adjusted(chunk)) ELSE added
        /\ refused' = ~ok
        /\ status' = IF ok THEN "decoding" ELSE "aborted"

\* md_decoder_done; it does not look at what md_buf_add answers.
Done(accepted) ==
  /\ chunk # NULL
  /\ ~AdjustFails(chunk)
  /\ LET c == [chunk EXCEPT !.size = WithDoneBit(Adjusted(chunk).size), !.last = TRUE]
     IN added' = IF accepted THEN Append(added, c) ELSE added
  /\ refused' = (refused \/ ~accepted)
  /\ chunk' = NULL
  /\ status' = "done"
  /\ UNCHANGED <<ready, pos>>

\* md_decoder_done returns before the last chunk is added.
DoneFails ==
  /\ chunk # NULL
  /\ AdjustFails(chunk)
  /\ status' = "failed"
  /\ UNCHANGED <<ready, pos, chunk, added, refused>>

\* md_decoder_done when no byte was added, or a thread that ends without it
DoneNothing ==
  /\ status' = "gone"
  /\ UNCHANGED <<ready, pos, chunk, added, refused>>

-----------------------------------------------------------------------------
ChunkTypes ==
  /\ ready \in Nat
  /\ pos \in Nat
  /\ chunk \in Chunk \cup {NULL}
  /\ added \in Seq(Chunk)
  /\ refused \in BOOLEAN
  /\ status \in Statuses

Last == added[Len(added)]

(* A chunk that is added never overflows its buf_size bytes, padding          *)
(* included, and the driver writes whole blocks of MD_BUFFER_PADDING bytes:   *)
(* the done bit that is set in the size and flipped back on take-in leaves    *)
(* exactly the padded size.                                                   *)
WholeBlocks ==
  \A i \in 1..Len(added) :
    /\ PlayedSize(added[i]) \in 1..BufSize
    /\ PlayedSize(added[i]) % Padding = 0

(* Nothing of the file is lost or played twice: as long as the buffer takes   *)
(* every chunk, what was added and the chunk in hand make up the bytes        *)
(* produced so far, up to the zero bytes that pad the last chunk.             *)
Produced ==
  IF status = "done"
    THEN (Len(added) - 1) * BufSize + PlayedSize(Last)
    ELSE Len(added) * BufSize + IF chunk = NULL THEN 0 ELSE chunk.size

StreamComplete ==
  ~refused =>
    /\ \A i \in 1..Len(added) : added[i].order = i - 1
    /\ Produced - pos \in 0 .. IF status = "done" THEN Padding - 1 ELSE 0

(* mddecoder.c:267 calls a chunk that md_adjust_size cannot pad a bug         *)
(* ("Inconsistent buffer size"): no decoder should ever see it.               *)
AdjustSucceeds == status # "failed"
=============================================================================
