---------------------------- MODULE MdFileProofs ----------------------------
(***************************************************************************)
(* Proofs about one decoder and the chunks it makes of a file, for any     *)
(* buf_size that is a multiple of MD_BUFFER_PADDING, files of any size and *)
(* frames of any size.                                                     *)
(***************************************************************************)
EXTENDS MdFile, TLAPS

-----------------------------------------------------------------------------
(* What the invariants of the runs need to be inductive.                   *)

\* The chunk in hand holds a byte at least, and no flag yet.
InHandFilled == chunk # NULL => chunk.size \in 1..BufSize /\ ~chunk.last

\* A refused chunk ends the decoding, and nothing but one does so.
RefusalEnds ==
  /\ status = "decoding" => ~refused
  /\ status = "aborted" => refused

\* Bytes come before chunks.
SomeByte == (chunk # NULL \/ status = "done" => pos > 0)

\* Unless a chunk was refused, all chunks are added in order, and all but the
\* last one are full.
InOrder ==
  ~refused =>
    /\ \A i \in 1..Len(added) : added[i].order = i - 1
    /\ chunk # NULL => chunk.order = Len(added)
    /\ status # "done" /\ chunk = NULL => added = <<>>

InHandSize == IF chunk = NULL THEN 0 ELSE chunk.size

Counted ==
  ~refused =>
    /\ status # "done" => pos = Len(added) * BufSize + InHandSize
    /\ status = "done" =>
         /\ Len(added) > 0
         /\ pos - (Len(added) - 1) * BufSize \in 1..PlayedSize(Last)
         /\ PlayedSize(Last) - (pos - (Len(added) - 1) * BufSize) < Padding

\* What a FLAC decoder has used of the file is the metadata and whole frames.
FramesDecoded ==
  kind = "flac" =>
    /\ used = 0 => pos + ready = 0
    /\ used # 0 => \E f \in Nat :
         used = HeaderSize + f * FrameSize /\ pos + ready = f * FrameBytes

\* The end of the file is seen when nothing is left to add or to decode.
EndSeen ==
  eof => /\ ready = 0
         /\ kind = "flac" => /\ offset - used < Wanted
                             /\ \E n \in Requests : size - offset < n

EndsAtEof == Complete => eof

\* Unless they are unknown, at least the samples of the frames are announced.
SizeOfFrames ==
  kind = "flac" => \E n \in Nat :
    size = HeaderSize + n * FrameSize /\ (announced = 0 \/ announced >= n * FrameSamples)

ChunkInv == InHandFilled /\ RefusalEnds /\ SomeByte /\ InOrder /\ Counted /\ WholeBlocks
FlacInv == FramesDecoded /\ EndSeen /\ EndsAtEof /\ SizeOfFrames
IInv == TypeOK /\ ChunkInv /\ FlacInv

-----------------------------------------------------------------------------
(* Division.                                                               *)

LEMMA DivMod ==
  ASSUME NEW n \in Nat, NEW p \in Nat \ {0}
  PROVE  n = p * (n \div p) + (n % p) /\ n % p \in 0..p-1 /\ n \div p \in Nat
  OBVIOUS

LEMMA QuotientIs ==
  ASSUME NEW n \in Nat, NEW p \in Nat \ {0}, NEW q \in Nat, NEW r \in 0..p-1, n = p * q + r
  PROVE  n \div p = q
  OBVIOUS

LEMMA RemainderIs ==
  ASSUME NEW n \in Nat, NEW p \in Nat \ {0}, NEW q \in Nat, NEW r \in 0..p-1, n = p * q + r
  PROVE  n % p = r
  OBVIOUS

LEMMA EvenMultiple ==
  ASSUME NEW p \in Nat, NEW q \in Nat, p % 2 = 0
  PROVE  (p * q) % 2 = 0
<1> DEFINE h == p \div 2
<1>1. p = 2 * h + 0 /\ h \in Nat
  BY DivMod
<1> HIDE DEF h
<1>2. p * q = 2 * (h * q) + 0 /\ h * q \in Nat /\ p * q \in Nat
  BY <1>1
<1> QED
  BY <1>2, RemainderIs, 2 \in Nat \ {0}, 0 \in 0..2-1

LEMMA NextMultiple ==
  ASSUME NEW p \in Nat \ {0}, NEW q \in Nat, NEW k \in Nat, p * q < p * k
  PROVE  q + 1 <= k /\ p * (q + 1) = p * q + p /\ p * (q + 1) <= p * k
  OBVIOUS

\* The next multiple of p above n is not above a multiple of p that n is below.
LEMMA RoundedUp ==
  ASSUME NEW p \in Nat \ {0}, NEW n \in Nat, NEW b \in Nat, n <= b, b % p = 0, n % p # 0
  PROVE  /\ n + p - (n % p) \in n..b
         /\ (n + p - (n % p)) % p = 0
         /\ n + p - (n % p) - n < p
<1> DEFINE q == n \div p
           r == n % p
           k == b \div p
<1>1. n = p * q + r /\ r \in 0..p-1 /\ q \in Nat /\ r # 0
  BY DivMod
<1>2. b = p * k + (b % p) /\ k \in Nat
  BY DivMod
<1> HIDE DEF q, r, k
<1>3. p * q \in Nat /\ p * k \in Nat /\ b = p * k
  BY <1>1, <1>2
<1>4. p * q < p * k
  BY <1>1, <1>3
<1>5. p * (q + 1) = p * q + p /\ p * (q + 1) <= p * k
  BY <1>1, <1>2, <1>4, NextMultiple
<1>6. n + p - r \in n..b /\ n + p - r \in Nat /\ n + p - r = p * (q + 1) + 0
  BY <1>1, <1>3, <1>5
<1>7. (n + p - r) % p = 0
  BY <1>1, <1>6, RemainderIs, q + 1 \in Nat, 0 \in 0..p-1
<1>8. n + p - r - n < p
  BY <1>1
<1> QED
  BY <1>6, <1>7, <1>8 DEF r

-----------------------------------------------------------------------------
(* Padding and the done bit.                                               *)

\* md_adjust_size, where it does not give up: the least multiple of
\* MD_BUFFER_PADDING that holds the bytes, never more than buf_size.
LEMMA AdjustedSize ==
  ASSUME NEW c \in Chunk, c.size \in 1..BufSize
  PROVE  /\ Adjusted(c) \in Chunk
         /\ Adjusted(c).order = c.order /\ Adjusted(c).last = c.last
         /\ Adjusted(c).size \in c.size..BufSize
         /\ Adjusted(c).size - c.size < Padding
         /\ Adjusted(c).size % Padding = 0
<1>0. /\ Padding \in Nat \ {0} /\ BufSize \in Nat \ {0} /\ BufSize % Padding = 0
      /\ c.size \in Nat /\ c.size >= 1 /\ c.size <= BufSize
  BY MdChunkAssumption DEF MdChunkAssumption, Chunk
<1>1. CASE c.size % Padding = 0
  BY <1>0, <1>1 DEF Adjusted, Remainder
<1>2. CASE c.size % Padding # 0
  <2> DEFINE n == c.size + Padding - (c.size % Padding)
  <2>1. n \in c.size..BufSize /\ n % Padding = 0 /\ n - c.size < Padding
    BY <1>0, <1>2, RoundedUp
  <2>2. Adjusted(c) = [c EXCEPT !.size = n]
    BY <1>2 DEF Adjusted, Remainder
  <2> HIDE DEF n
  <2>3. n \in Nat
    BY <1>0, <2>1
  <2>4. /\ Adjusted(c) \in Chunk /\ Adjusted(c).size = n
        /\ Adjusted(c).order = c.order /\ Adjusted(c).last = c.last
    BY <2>2, <2>3 DEF Chunk
  <2> QED
    BY <2>1, <2>4
<1> QED
  BY <1>1, <1>2

\* A padded size is even, so that the done bit is free, and the driver, which
\* flips it, sees the padded size again.
LEMMA DoneBitFlips ==
  ASSUME NEW n \in Nat, n % Padding = 0
  PROVE  WithDoneBit(n) \in Nat /\ FlippedDoneBit(WithDoneBit(n)) = n
<1>1. Padding \in Nat \ {0} /\ Padding % 2 = 0
  BY MdChunkAssumption DEF MdChunkAssumption
<1>2. n = Padding * (n \div Padding) /\ n \div Padding \in Nat
  BY <1>1, DivMod
<1>3. n % 2 = 0
  BY <1>1, <1>2, EvenMultiple
<1>4. n = 2 * (n \div 2) + 0 /\ n \div 2 \in Nat
  BY <1>3, DivMod, 2 \in Nat \ {0}
<1>5. (n + 1) % 2 = 1
  BY <1>4, RemainderIs, 2 \in Nat \ {0}, 1 \in 0..2-1, n + 1 \in Nat, n + 1 = 2 * (n \div 2) + 1
<1> QED
  BY <1>3, <1>5 DEF WithDoneBit, FlippedDoneBit

\* The last chunk, as md_decoder_done hands it over.
LEMMA LastChunkSize ==
  ASSUME NEW c \in Chunk, c.size \in 1..BufSize,
         NEW d, d = [c EXCEPT !.size = WithDoneBit(Adjusted(c).size), !.last = TRUE]
  PROVE  /\ d \in Chunk /\ d.order = c.order
         /\ PlayedSize(d) = Adjusted(c).size
<1>1. Adjusted(c).size \in Nat /\ Adjusted(c).size % Padding = 0
  BY AdjustedSize DEF Chunk
<1>2. WithDoneBit(Adjusted(c).size) \in Nat
  BY <1>1, DoneBitFlips
<1>3. /\ d \in Chunk /\ d.order = c.order /\ d.last
      /\ d.size = WithDoneBit(Adjusted(c).size)
  BY <1>2 DEF Chunk
<1> QED
  BY <1>1, <1>3, DoneBitFlips DEF PlayedSize

\* A full chunk needs no padding.
LEMMA FullChunk ==
  ASSUME NEW c \in Chunk, c.size = BufSize
  PROVE  Adjusted(c) = c /\ ~AdjustFails(c)
  BY MdChunkAssumption DEF MdChunkAssumption, Adjusted, AdjustFails, Remainder

-----------------------------------------------------------------------------
(* The chunks: one lemma per action.                                       *)

LEMMA Types ==
  ASSUME ChunkTypes
  PROVE  /\ pos \in Nat /\ ready \in Nat /\ added \in Seq(Chunk) /\ Len(added) \in Nat
         /\ \A i \in 1..Len(added) : added[i] \in Chunk
         /\ chunk # NULL => chunk \in Chunk /\ chunk.size \in Nat /\ chunk.order \in Nat
         /\ BufSize \in Nat /\ BufSize > 0 /\ Padding \in Nat /\ Padding > 0 /\ NULL \notin Chunk
<1>1. /\ pos \in Nat /\ ready \in Nat /\ added \in Seq(Chunk) /\ Len(added) \in Nat
      /\ \A i \in 1..Len(added) : added[i] \in Chunk
      /\ NULL \notin Chunk /\ chunk \in Chunk \cup {NULL}
  BY MdChunkNull DEF MdChunkNull, ChunkTypes
<1>2. BufSize \in Nat /\ BufSize > 0 /\ Padding \in Nat /\ Padding > 0
  BY MdChunkAssumption DEF MdChunkAssumption
<1>3. chunk # NULL => chunk \in Chunk /\ chunk.size \in Nat /\ chunk.order \in Nat
  BY <1>1 DEF Chunk
<1> QED
  BY <1>1, <1>2, <1>3

\* An added chunk leaves those before it as they are.
LEMMA Appended ==
  ASSUME ChunkTypes, NEW c \in Chunk, added' = Append(added, c)
  PROVE  /\ added' \in Seq(Chunk) /\ Len(added') = Len(added) + 1
         /\ Last' = c
         /\ \A i \in 1..Len(added') :
              \/ i \in 1..Len(added) /\ added'[i] = added[i]
              \/ i = Len(added) + 1 /\ added'[i] = c
  BY Types DEF Last

LEMMA WholeBlocksKept ==
  ASSUME ChunkTypes, WholeBlocks, NEW c \in Chunk, added' = Append(added, c),
         PlayedSize(c) \in 1..BufSize, PlayedSize(c) % Padding = 0
  PROVE  WholeBlocks'
<1> SUFFICES ASSUME NEW i \in 1..Len(added')
             PROVE  PlayedSize(added'[i]) \in 1..BufSize /\ PlayedSize(added'[i]) % Padding = 0
  BY DEF WholeBlocks, PlayedSize
<1>1. \/ i \in 1..Len(added) /\ added'[i] = added[i]
      \/ added'[i] = c
  BY Appended
<1> QED
  BY <1>1 DEF WholeBlocks

LEMMA AddByteKept ==
  ASSUME ChunkTypes, ChunkInv, AddByte
  PROVE  ChunkTypes' /\ ChunkInv'
<1> DEFINE c == IF chunk = NULL THEN NewChunk(0) ELSE chunk
<1>1. /\ status = "decoding" /\ ~refused /\ UNCHANGED <<added, refused, status>>
      /\ pos' = pos + 1 /\ ready' = ready - 1 /\ ready > 0
      /\ chunk' = [c EXCEPT !.size = @ + 1] /\ (chunk # NULL => ~Full)
  BY DEF AddByte, TakeByte, ChunkInv, RefusalEnds
<1>2. /\ c \in Chunk /\ c.size = InHandSize /\ ~c.last
      /\ c.order = (IF chunk = NULL THEN 0 ELSE chunk.order)
      /\ c.size \in Nat /\ c.size < BufSize
  BY <1>1, Types DEF NewChunk, Chunk, InHandSize, Full, ChunkInv, InHandFilled
<1> HIDE DEF c
<1>3. /\ chunk' \in Chunk /\ chunk'.size = InHandSize + 1 /\ ~chunk'.last
      /\ chunk'.order = c.order /\ chunk' # NULL
  <2>1. c.size + 1 \in Nat
    BY <1>2
  <2> QED
    BY <1>1, <1>2, <2>1, Types DEF Chunk
<1>4. ChunkTypes'
  BY <1>1, <1>3, Types DEF ChunkTypes
<1>5. InHandFilled' /\ RefusalEnds' /\ SomeByte'
  BY <1>1, <1>2, <1>3, Types DEF InHandFilled, RefusalEnds, SomeByte
<1>6. InOrder'
  <2>1. chunk = NULL => Len(added) = 0
    BY <1>1, Types DEF ChunkInv, InOrder
  <2> QED
    BY <1>1, <1>2, <1>3, <2>1 DEF ChunkInv, InOrder
<1>7. Counted'
  <2>1. InHandSize' = InHandSize + 1 /\ InHandSize \in Nat /\ Len(added) * BufSize \in Nat
    BY <1>2, <1>3, Types DEF InHandSize
  <2> QED
    BY <1>1, <2>1, Types DEF ChunkInv, Counted
<1>8. WholeBlocks'
  BY <1>1 DEF ChunkInv, WholeBlocks, PlayedSize
<1> QED
  BY <1>4, <1>5, <1>6, <1>7, <1>8 DEF ChunkInv

LEMMA AddByteTurnKept ==
  ASSUME ChunkTypes, ChunkInv, NEW accepted \in BOOLEAN, AddByteTurn(accepted)
  PROVE  ChunkTypes' /\ ChunkInv'
<1>1. /\ status = "decoding" /\ ~refused /\ chunk # NULL /\ chunk \in Chunk
      /\ chunk.size = BufSize /\ ~chunk.last /\ chunk.order = Len(added)
      /\ pos' = pos + 1 /\ ready' = ready - 1 /\ ready > 0
  BY Types DEF AddByteTurn, TakeByte, Full, ChunkInv, RefusalEnds, InHandFilled, InOrder
<1>2. Adjusted(chunk) = chunk /\ ~AdjustFails(chunk)
  BY <1>1, FullChunk
<1>3. /\ added' = (IF accepted THEN Append(added, chunk) ELSE added)
      /\ refused' = ~accepted
      /\ status' = (IF accepted THEN "decoding" ELSE "aborted")
  BY <1>2 DEF AddByteTurn
<1>4. /\ chunk' \in Chunk /\ chunk' # NULL /\ chunk'.size = 1 /\ ~chunk'.last
      /\ chunk'.order = Len(added) + 1
  <2>1. NextOrder = Len(added) + 1 /\ NextOrder \in Nat
    BY <1>1, Types DEF NextOrder
  <2>2. chunk' = [size |-> 1, order |-> NextOrder, last |-> FALSE]
    BY DEF AddByteTurn, TakeByte, NewChunk
  <2>3. chunk' \in Chunk
    BY <2>1, <2>2 DEF Chunk
  <2> QED
    BY <2>1, <2>2, <2>3, Types
<1>5. /\ accepted => /\ added' \in Seq(Chunk) /\ Len(added') = Len(added) + 1
                     /\ \A i \in 1..Len(added') :
                          \/ i \in 1..Len(added) /\ added'[i] = added[i]
                          \/ i = Len(added) + 1 /\ added'[i] = chunk
      /\ ~accepted => added' = added
  BY <1>1, <1>3, Appended
<1>6. ChunkTypes'
  BY <1>1, <1>3, <1>4, <1>5, Types DEF ChunkTypes, Statuses
<1>7. InHandFilled' /\ RefusalEnds' /\ SomeByte'
  <2>1. InHandFilled' /\ SomeByte'
    BY <1>1, <1>4, Types DEF InHandFilled, SomeByte
  <2>2. CASE accepted
    BY <1>3, <2>1, <2>2 DEF RefusalEnds
  <2>3. CASE ~accepted
    BY <1>3, <2>1, <2>3 DEF RefusalEnds
  <2> QED
    BY <2>2, <2>3
<1>8. InOrder'
  <2> SUFFICES ASSUME accepted
               PROVE  /\ \A i \in 1..Len(added') : added'[i].order = i - 1
                      /\ chunk'.order = Len(added')
    BY <1>3, <1>4 DEF InOrder
  <2>1. \A i \in 1..Len(added) : added[i].order = i - 1
    BY <1>1 DEF ChunkInv, InOrder
  <2>2. chunk'.order = Len(added')
    BY <1>4, <1>5
  <2>3. ASSUME NEW i \in 1..Len(added')
        PROVE  added'[i].order = i - 1
    <3>1. CASE i \in 1..Len(added) /\ added'[i] = added[i]
      BY <2>1, <3>1
    <3>2. CASE i = Len(added) + 1 /\ added'[i] = chunk
      BY <1>1, <3>2, Types
    <3> QED
      BY <1>5, <2>3, <3>1, <3>2
  <2> QED
    BY <2>2, <2>3
<1>9. Counted'
  <2> SUFFICES ASSUME accepted
               PROVE  pos' = Len(added') * BufSize + InHandSize'
    BY <1>3 DEF Counted
  <2>1. pos = Len(added) * BufSize + BufSize
    BY <1>1 DEF ChunkInv, Counted, InHandSize
  <2>2. InHandSize' = 1
    BY <1>4 DEF InHandSize
  <2>3. (Len(added) + 1) * BufSize = Len(added) * BufSize + BufSize
    BY Types
  <2> QED
    BY <1>1, <1>5, <2>1, <2>2, <2>3, Types
<1>10. WholeBlocks'
  <2>1. CASE accepted
    <3>1. PlayedSize(chunk) = BufSize /\ BufSize % Padding = 0
      BY <1>1, MdChunkAssumption DEF MdChunkAssumption, PlayedSize
    <3> QED
      BY <1>1, <1>3, <2>1, <3>1, Types, WholeBlocksKept DEF ChunkInv
  <2>2. CASE ~accepted
    BY <1>3, <2>2 DEF ChunkInv, WholeBlocks, PlayedSize
  <2> QED
    BY <2>1, <2>2
<1> QED
  BY <1>6, <1>7, <1>8, <1>9, <1>10 DEF ChunkInv

LEMMA DoneKept ==
  ASSUME ChunkTypes, ChunkInv, NEW accepted \in BOOLEAN, Done(accepted),
         status \in {"decoding", "aborted"}
  PROVE  ChunkTypes' /\ ChunkInv'
<1> DEFINE c == [chunk EXCEPT !.size = WithDoneBit(Adjusted(chunk).size), !.last = TRUE]
           a == Adjusted(chunk).size
<1>1. /\ chunk # NULL /\ chunk \in Chunk /\ chunk.size \in 1..BufSize
      /\ added' = (IF accepted THEN Append(added, c) ELSE added)
      /\ refused' = (refused \/ ~accepted) /\ chunk' = NULL /\ status' = "done"
      /\ UNCHANGED <<ready, pos>>
  BY Types DEF Done, ChunkInv, InHandFilled
<1>2. c \in Chunk /\ c.order = chunk.order /\ PlayedSize(c) = a
  BY <1>1, LastChunkSize
<1>3. a \in chunk.size..BufSize /\ a - chunk.size < Padding /\ a % Padding = 0
  BY <1>1, AdjustedSize
<1> HIDE DEF c, a
<1>4. /\ accepted => /\ added' \in Seq(Chunk) /\ Len(added') = Len(added) + 1 /\ Last' = c
                     /\ \A i \in 1..Len(added') :
                          \/ i \in 1..Len(added) /\ added'[i] = added[i]
                          \/ i = Len(added) + 1 /\ added'[i] = c
      /\ ~accepted => added' = added
  BY <1>1, <1>2, Appended
<1>5. ChunkTypes'
  BY <1>1, <1>4, Types DEF ChunkTypes, Statuses
<1>6. InHandFilled' /\ RefusalEnds' /\ SomeByte'
  BY <1>1, Types DEF InHandFilled, RefusalEnds, SomeByte, ChunkInv
<1>7. InOrder'
  <2> SUFFICES ASSUME ~refused, accepted
               PROVE  \A i \in 1..Len(added') : added'[i].order = i - 1
    BY <1>1 DEF InOrder
  <2>1. (\A i \in 1..Len(added) : added[i].order = i - 1) /\ c.order = Len(added)
    BY <1>1, <1>2 DEF ChunkInv, InOrder
  <2> QED
    BY <1>4, <2>1, Types
<1>8. Counted'
  <2> SUFFICES ASSUME ~refused, accepted
               PROVE  /\ Len(added') > 0
                      /\ pos' - (Len(added') - 1) * BufSize \in 1..PlayedSize(Last)'
                      /\ PlayedSize(Last)' - (pos' - (Len(added') - 1) * BufSize) < Padding
    BY <1>1 DEF Counted
  <2>1. pos = Len(added) * BufSize + chunk.size
    BY <1>1 DEF ChunkInv, Counted, InHandSize
  <2>2. PlayedSize(Last)' = a
    BY <1>2, <1>4 DEF PlayedSize
  <2>3. Len(added') - 1 = Len(added) /\ Len(added) * BufSize \in Nat
    BY <1>4, Types
  <2>4. pos' - (Len(added') - 1) * BufSize = chunk.size
    BY <1>1, <2>1, <2>3, Types
  <2> QED
    BY <1>1, <1>3, <1>4, <2>2, <2>4, Types
<1>9. WholeBlocks'
  <2>1. CASE accepted
    <3>1. PlayedSize(c) \in 1..BufSize /\ PlayedSize(c) % Padding = 0
      BY <1>1, <1>2, <1>3, Types
    <3> QED
      BY <1>1, <1>2, <2>1, <3>1, WholeBlocksKept DEF ChunkInv
  <2>2. CASE ~accepted
    BY <1>1, <2>2 DEF ChunkInv, WholeBlocks, PlayedSize
  <2> QED
    BY <2>1, <2>2
<1> QED
  BY <1>5, <1>6, <1>7, <1>8, <1>9 DEF ChunkInv

\* md_decoder_done that adds nothing, and steps beside the chunks
LEMMA ChunkAsideKept ==
  ASSUME ChunkTypes, ChunkInv, ready' \in Nat, UNCHANGED <<pos, chunk, added, refused>>,
         \/ UNCHANGED status
         \/ status \in {"decoding", "aborted"} /\ status' \in {"failed", "gone"}
  PROVE  ChunkTypes' /\ ChunkInv'
<1>1. ChunkTypes'
  BY DEF ChunkTypes, Statuses
<1>2. InHandFilled' /\ RefusalEnds' /\ SomeByte' /\ InOrder' /\ WholeBlocks'
  BY DEF ChunkInv, InHandFilled, RefusalEnds, SomeByte, InOrder, WholeBlocks, PlayedSize
<1>3. Counted'
  BY DEF ChunkInv, Counted, InHandSize, Last, PlayedSize
<1> QED
  BY <1>1, <1>2, <1>3 DEF ChunkInv

-----------------------------------------------------------------------------
(* The file: types, and how much of it was read and decoded.               *)

LEMMA FileTypes ==
  ASSUME TypeOK
  PROVE  /\ size \in Nat /\ offset \in Nat /\ used \in Nat /\ offset <= size /\ used <= offset
         /\ pos \in Nat /\ ready \in Nat
         /\ HeaderSize \in Nat /\ HeaderSize > 0 /\ FrameSize \in Nat /\ FrameSize > 0
         /\ depth \in Nat /\ announced \in Nat /\ FrameSamples \in Nat /\ FrameSamples > 0
         /\ SampleBytes \in Nat /\ FrameBytes \in Nat /\ Requests \subseteq Nat
<1>1. SampleBytes \in Nat
  BY DivMod, 8 \in Nat \ {0} DEF SampleBytes, TypeOK
<1>2. FrameSamples \in Nat /\ FrameSamples > 0
  BY MdFileAssumption DEF MdFileAssumption
<1>3. FrameBytes \in Nat
  BY <1>1, <1>2 DEF FrameBytes
<1> QED
  BY <1>1, <1>2, <1>3, MdFileAssumption DEF MdFileAssumption, TypeOK, ChunkTypes

LEMMA SameFrameBytes ==
  ASSUME UNCHANGED depth
  PROVE  FrameBytes' = FrameBytes
  BY DEF FrameBytes, SampleBytes

LEMMA FramesOfSize ==
  ASSUME NEW n \in Nat, size = HeaderSize + n * FrameSize
  PROVE  size \in Nat /\ Frames = n
<1>1. HeaderSize \in Nat /\ FrameSize \in Nat \ {0}
  BY MdFileAssumption DEF MdFileAssumption
<1>2. n * FrameSize = FrameSize * n /\ FrameSize * n \in Nat
  BY <1>1
<1>3. size \in Nat /\ size - HeaderSize = FrameSize * n + 0 /\ size - HeaderSize \in Nat
  BY <1>1, <1>2
<1>4. 0 \in 0..FrameSize-1
  BY <1>1
<1> QED
  BY <1>1, <1>3, <1>4, QuotientIs DEF Frames

LEMMA InitIInv == Init => IInv
<1> SUFFICES ASSUME Init PROVE IInv
  OBVIOUS
<1>1. /\ kind \in {"dummy", "flac"} /\ size \in Nat /\ depth \in Nat /\ announced \in Nat
      /\ SizeOfFrames
  <2>1. CASE kind = "dummy" /\ size \in TextSizes /\ depth = 0 /\ announced = 0
    BY <2>1, MdFileAssumption DEF MdFileAssumption, SizeOfFrames
  <2>2. CASE /\ kind = "flac" /\ depth \in SampleSizes
             /\ size \in {HeaderSize + n * FrameSize : n \in FrameCounts}
             /\ announced \in {0} \cup {(Frames + m) * FrameSamples : m \in Missing}
    <3>1. PICK n \in FrameCounts : size = HeaderSize + n * FrameSize
      BY <2>2
    <3>2. /\ n \in Nat /\ HeaderSize \in Nat /\ FrameSize \in Nat \ {0} /\ depth \in Nat
          /\ FrameSamples \in Nat /\ Missing \subseteq Nat
      BY <2>2, MdFileAssumption DEF MdFileAssumption
    <3>3. size \in Nat /\ Frames = n
      BY <3>1, <3>2, FramesOfSize
    <3>4. announced \in Nat /\ (announced = 0 \/ announced >= n * FrameSamples)
      <4>1. CASE announced = 0
        BY <4>1
      <4>2. CASE announced # 0
        <5>1. PICK m \in Missing : announced = (n + m) * FrameSamples
          BY <2>2, <3>3, <4>2
        <5>2. m \in Nat
          BY <3>2
        <5>3. /\ (n + m) * FrameSamples = n * FrameSamples + m * FrameSamples
              /\ n * FrameSamples \in Nat /\ m * FrameSamples \in Nat
          BY <3>2, <5>2
        <5> QED
          BY <5>1, <5>3
      <4> QED
        BY <4>1, <4>2
    <3> QED
      BY <2>2, <3>1, <3>2, <3>3, <3>4 DEF SizeOfFrames
  <2> QED
    BY <2>1, <2>2 DEF Init
<1>2. /\ ready = 0 /\ pos = 0 /\ chunk = NULL /\ added = <<>> /\ refused = FALSE
      /\ status = "decoding" /\ offset = 0 /\ used = 0 /\ eof = FALSE
      /\ Len(added) = 0 /\ added \in Seq(Chunk) /\ BufSize \in Nat
  BY MdChunkAssumption DEF Init, InitChunk, MdChunkAssumption
<1>3. TypeOK
  <2>1. ChunkTypes
    BY <1>2 DEF ChunkTypes, Statuses
  <2>2. offset \in 0..size /\ used \in 0..offset
    BY <1>1, <1>2
  <2>3. eof \in BOOLEAN
    BY <1>2
  <2> QED
    BY <1>1, <2>1, <2>2, <2>3 DEF TypeOK
<1>4. ChunkInv
  <2>1. InHandFilled /\ RefusalEnds /\ SomeByte /\ InOrder /\ WholeBlocks
    BY <1>2 DEF InHandFilled, RefusalEnds, SomeByte, InOrder, WholeBlocks
  <2>2. Counted
    BY <1>2 DEF Counted, InHandSize
  <2> QED
    BY <2>1, <2>2 DEF ChunkInv
<1>5. FlacInv
  BY <1>1, <1>2 DEF FlacInv, FramesDecoded, EndSeen, EndsAtEof, Complete
<1> QED
  BY <1>3, <1>4, <1>5 DEF IInv

LEMMA ReadByteKept ==
  ASSUME IInv, ReadByte
  PROVE  IInv'
<1>1. /\ UNCHANGED <<kind, size, depth, announced, used, pos, chunk, added, refused, status>>
      /\ kind = "dummy" /\ status = "decoding" /\ ready = 0 /\ ~eof
  BY DEF ReadByte, Reading, file
<1>2. /\ ready' \in Nat /\ offset' \in offset..size /\ eof' \in BOOLEAN
      /\ eof' => ready' = 0
  <2>1. offset \in Nat /\ size \in Nat /\ offset <= size /\ eof \in BOOLEAN
    BY FileTypes DEF IInv, TypeOK
  <2>2. CASE offset < size
    BY <1>1, <2>1, <2>2 DEF ReadByte
  <2>3. CASE ~(offset < size)
    BY <1>1, <2>1, <2>3 DEF ReadByte
  <2> QED
    BY <2>2, <2>3
<1>3. ChunkTypes' /\ ChunkInv'
  BY <1>1, <1>2, ChunkAsideKept DEF IInv, TypeOK
<1>4. TypeOK'
  BY <1>1, <1>2, <1>3, FileTypes DEF IInv, TypeOK
<1>5. FlacInv'
  BY <1>1, <1>2 DEF IInv, FlacInv, FramesDecoded, EndSeen, EndsAtEof, Complete, SizeOfFrames
<1> QED
  BY <1>3, <1>4, <1>5 DEF IInv

LEMMA ReadBlockKept ==
  ASSUME IInv, NEW n \in Requests, ReadBlock(n)
  PROVE  IInv'
<1>1. /\ UNCHANGED <<kind, size, depth, announced, used, ready, pos, chunk, added, refused, status>>
      /\ kind = "flac" /\ status = "decoding" /\ ready = 0 /\ ~eof
      /\ offset - used < Wanted
  BY DEF ReadBlock, Reading, chunkVars, file
<1>2. n \in Nat
  BY FileTypes DEF IInv
<1>3. \/ eof' = TRUE /\ offset' = offset /\ size - offset < n
      \/ eof' = FALSE /\ offset' = offset + n /\ offset + n <= size
  <2>1. CASE PastEnd(n)
    BY <1>2, <2>1, FileTypes DEF ReadBlock, PastEnd, IInv
  <2>2. CASE ~PastEnd(n)
    BY <1>1, <1>2, <2>2, FileTypes DEF ReadBlock, PastEnd, IInv
  <2> QED
    BY <2>1, <2>2
<1>4. ChunkTypes' /\ ChunkInv'
  BY <1>1, FileTypes, ChunkAsideKept DEF IInv, TypeOK
<1>5. TypeOK'
  <2>1. offset' \in 0..size /\ used \in 0..offset'
    BY <1>2, <1>3, FileTypes DEF IInv
  <2>2. eof' \in BOOLEAN
    BY <1>3
  <2> QED
    BY <1>1, <1>4, <2>1, <2>2 DEF IInv, TypeOK
<1>6. FramesDecoded' /\ SizeOfFrames' /\ EndsAtEof'
  BY <1>1, SameFrameBytes DEF IInv, FlacInv, FramesDecoded, SizeOfFrames, EndsAtEof, Complete
<1>7. EndSeen'
  BY <1>1, <1>3 DEF EndSeen, Wanted
<1> QED
  BY <1>4, <1>5, <1>6, <1>7 DEF IInv, FlacInv

LEMMA DecodeKept ==
  ASSUME IInv, Decode
  PROVE  IInv'
<1>1. /\ UNCHANGED <<kind, size, depth, announced, offset, eof, pos, chunk, added, refused, status>>
      /\ kind = "flac" /\ status = "decoding" /\ ready = 0 /\ ~eof
      /\ offset - used >= Wanted /\ used' = used + Wanted
      /\ ready' = (IF used = 0 THEN 0 ELSE FrameBytes)
  BY DEF Decode, Reading, file
<1>2. ready' \in Nat /\ Wanted \in Nat /\ Wanted > 0
  BY <1>1, FileTypes DEF IInv, Wanted
<1>3. used' \in Nat /\ used' <= offset /\ used' # 0
  BY <1>1, <1>2, FileTypes DEF IInv
<1>4. ChunkTypes' /\ ChunkInv'
  BY <1>1, <1>2, ChunkAsideKept DEF IInv, TypeOK
<1>5. TypeOK'
  BY <1>1, <1>3, <1>4, FileTypes DEF IInv, TypeOK
<1>6. SizeOfFrames' /\ EndsAtEof' /\ EndSeen'
  BY <1>1 DEF IInv, FlacInv, SizeOfFrames, EndsAtEof, Complete, EndSeen
<1>7. FramesDecoded'
  <2>1. CASE used = 0
    <3>1. used' = HeaderSize + 0 * FrameSize /\ pos' + ready' = 0 * FrameBytes
      BY <1>1, <2>1, FileTypes DEF IInv, FlacInv, FramesDecoded, Wanted
    <3> QED
      BY <1>1, <1>3, <3>1, SameFrameBytes DEF FramesDecoded
  <2>2. CASE used # 0
    <3>1. PICK f \in Nat : used = HeaderSize + f * FrameSize /\ pos + ready = f * FrameBytes
      BY <1>1, <2>2 DEF IInv, FlacInv, FramesDecoded
    <3>2. /\ (f + 1) * FrameSize = f * FrameSize + FrameSize /\ f * FrameSize \in Nat
          /\ (f + 1) * FrameBytes = f * FrameBytes + FrameBytes /\ f * FrameBytes \in Nat
      BY FileTypes DEF IInv
    <3>3. used' = HeaderSize + (f + 1) * FrameSize /\ pos' + ready' = (f + 1) * FrameBytes
      BY <1>1, <2>2, <3>1, <3>2, FileTypes DEF IInv, Wanted
    <3> QED
      BY <1>1, <1>3, <3>3, f + 1 \in Nat, SameFrameBytes DEF FramesDecoded
  <2> QED
    BY <2>1, <2>2
<1> QED
  BY <1>4, <1>5, <1>6, <1>7 DEF IInv, FlacInv

LEMMA AddBytesKept ==
  ASSUME IInv, AddBytes
  PROVE  IInv'
<1>1. /\ UNCHANGED <<kind, size, depth, announced, offset, used, eof>>
      /\ status = "decoding" /\ ready > 0 /\ ready' = ready - 1 /\ pos' = pos + 1
      /\ status' \in {"decoding", "aborted"}
  BY DEF AddBytes, AddByte, AddByteTurn, TakeByte, file
<1>2. ChunkTypes' /\ ChunkInv'
  BY AddByteKept, AddByteTurnKept DEF AddBytes, IInv, TypeOK
<1>3. TypeOK'
  BY <1>1, <1>2 DEF IInv, TypeOK
<1>4. pos' + ready' = pos + ready
  BY <1>1, FileTypes DEF IInv
<1>5. FramesDecoded'
  BY <1>1, <1>4, SameFrameBytes DEF IInv, FlacInv, FramesDecoded
<1>6. SizeOfFrames' /\ EndsAtEof'
  BY <1>1 DEF IInv, FlacInv, SizeOfFrames, EndsAtEof, Complete
<1>7. EndSeen'
  BY <1>1 DEF IInv, FlacInv, EndSeen
<1> QED
  BY <1>2, <1>3, <1>5, <1>6, <1>7 DEF IInv, FlacInv

LEMMA EndKept ==
  ASSUME IInv, End
  PROVE  IInv'
<1>1. /\ UNCHANGED <<kind, size, depth, announced, offset, used, eof, pos, ready>>
      /\ status \in {"decoding", "aborted"}
  BY DEF End, DoneNothing, DoneFails, Done, file
<1>2. ChunkTypes' /\ ChunkInv'
  <2>1. CASE \E accepted \in BOOLEAN : Done(accepted)
    BY <1>1, <2>1, DoneKept DEF IInv, TypeOK
  <2>2. CASE DoneNothing \/ DoneFails
    BY <1>1, <2>2, FileTypes, ChunkAsideKept DEF IInv, TypeOK, DoneNothing, DoneFails
  <2> QED
    BY <2>1, <2>2 DEF End
<1>3. TypeOK'
  BY <1>1, <1>2 DEF IInv, TypeOK
<1>4. FramesDecoded' /\ SizeOfFrames' /\ EndSeen'
  BY <1>1, SameFrameBytes DEF IInv, FlacInv, FramesDecoded, SizeOfFrames, EndSeen, Wanted
<1>5. EndsAtEof'
  <2> SUFFICES ASSUME status' = "done", ~refused' PROVE eof'
    BY DEF EndsAtEof, Complete
  <2>1. ~refused /\ Ending
    BY DEF End, DoneNothing, DoneFails, Done
  <2> QED
    BY <1>1, <2>1 DEF Ending, IInv, ChunkInv, RefusalEnds
<1> QED
  BY <1>2, <1>3, <1>4, <1>5 DEF IInv, FlacInv

LEMMA FileInvariant == Spec => []IInv
<1>1. ASSUME IInv, [Next]_fileVars PROVE IInv'
  <2>1. CASE UNCHANGED fileVars
    <3>1. UNCHANGED <<kind, size, depth, announced, offset, used, eof,
                      ready, pos, chunk, added, refused, status>>
      BY <2>1 DEF fileVars, chunkVars, file
    <3>2. ChunkTypes' /\ ChunkInv'
      BY <1>1, <3>1, FileTypes, ChunkAsideKept DEF IInv, TypeOK
    <3> QED
      BY <1>1, <3>1, <3>2, SameFrameBytes
         DEF IInv, TypeOK, FlacInv, FramesDecoded, EndSeen, EndsAtEof,
             Complete, SizeOfFrames, Wanted
  <2> QED
    BY <1>1, <2>1, ReadByteKept, ReadBlockKept, DecodeKept, AddBytesKept, EndKept DEF Next
<1> QED
  BY InitIInv, <1>1, PTL DEF Spec

-----------------------------------------------------------------------------
(* The numbers a decoder works with are sizes and positions, and it never     *)
(* reads or decodes past the end of the file.                                 *)
THEOREM FileTypesKept == Spec => []TypeOK
<1>1. IInv => TypeOK
  BY DEF IInv
<1> QED
  BY <1>1, FileInvariant, PTL

(* Whatever the file and wherever the decoder is stopped, a chunk that is     *)
(* added (md_adjust_size, md_set_decoder_done) keeps within buf_size bytes,   *)
(* and the driver sees a multiple of MD_BUFFER_PADDING of them.               *)
THEOREM BlocksStayWhole == Spec => []WholeBlocks
<1>1. IInv => WholeBlocks
  BY DEF IInv, ChunkInv
<1> QED
  BY <1>1, FileInvariant, PTL

(* While the buffer takes the chunks, md_add_decoded_byte and md_decoder_done *)
(* lose no byte and add none twice, and number the chunks without a gap.      *)
THEOREM StreamKept == Spec => []StreamComplete
<1>1. IInv => StreamComplete
  <2> SUFFICES ASSUME IInv, ~refused
               PROVE  Produced - pos \in 0 .. IF status = "done" THEN Padding - 1 ELSE 0
    BY DEF StreamComplete, IInv, ChunkInv, InOrder
  <2>1. /\ pos \in Nat /\ Len(added) \in Nat /\ BufSize \in Nat /\ Padding \in Nat
        /\ chunk # NULL => chunk.size \in Nat
    BY Types DEF IInv, TypeOK
  <2>2. CASE status = "done"
    <3> DEFINE played == PlayedSize(Last)
               before == (Len(added) - 1) * BufSize
    <3>1. Len(added) > 0 /\ pos - before \in 1..played /\ played - (pos - before) < Padding
      BY <2>2 DEF IInv, ChunkInv, Counted
    <3>2. added[Len(added)] \in Chunk /\ WholeBlocks
      BY <2>1, <3>1, Types DEF IInv, TypeOK, ChunkInv
    <3>3. before \in Nat /\ played \in Nat
      <4>1. played \in 1..BufSize
        BY <2>1, <3>1, <3>2 DEF WholeBlocks, Last
      <4> QED
        BY <2>1, <3>1, <4>1
    <3>4. Produced = before + played
      BY <2>2 DEF Produced
    <3> HIDE DEF played, before
    <3> QED
      BY <2>1, <2>2, <3>1, <3>3, <3>4
  <2>3. CASE status # "done"
    <3>1. pos = Len(added) * BufSize + InHandSize
      BY <2>3 DEF IInv, ChunkInv, Counted
    <3>2. Produced = pos
      BY <2>3, <3>1 DEF Produced, InHandSize
    <3> QED
      BY <2>1, <2>3, <3>2
  <2> QED
    BY <2>2, <2>3
<1> QED
  BY <1>1, FileInvariant, PTL

-----------------------------------------------------------------------------
(* A FLAC file that was decoded to its end.                                *)

LEMMA DecodedFrames ==
  ASSUME IInv, kind = "flac", Complete
  PROVE  \E f \in Nat :
           /\ pos = f * FrameBytes /\ f * FrameSize \in Nat
           /\ offset - HeaderSize - f * FrameSize \in 0..FrameSize-1
<1>1. /\ eof /\ ready = 0 /\ offset - used < Wanted /\ pos > 0
  BY DEF Complete, IInv, FlacInv, EndsAtEof, EndSeen, ChunkInv, SomeByte
<1>2. used # 0
  BY <1>1, FileTypes DEF IInv, FlacInv, FramesDecoded
<1>3. PICK f \in Nat : used = HeaderSize + f * FrameSize /\ pos + ready = f * FrameBytes
  BY <1>2 DEF IInv, FlacInv, FramesDecoded
<1>4. f * FrameSize \in Nat /\ f * FrameBytes \in Nat
  BY FileTypes DEF IInv
<1>5. pos = f * FrameBytes
  BY <1>1, <1>3, <1>4, FileTypes DEF IInv
<1>6. offset - HeaderSize - f * FrameSize \in 0..FrameSize-1
  BY <1>1, <1>2, <1>3, <1>4, FileTypes DEF IInv, Wanted
<1> QED
  BY <1>4, <1>5, <1>6

(* However many bytes libFLAC asks for at once, what md_flac_read_cb leaves   *)
(* unread at the end of a file is less than that, and a decoder that is not   *)
(* stopped adds every byte of the frames before it.                           *)
THEOREM TailStaysBounded == Spec => []TailBounded
<1>1. IInv => TailBounded
  <2> SUFFICES ASSUME IInv, kind = "flac", Complete
               PROVE  /\ \E n \in Requests : size - offset < n
                      /\ pos = ((offset - HeaderSize) \div FrameSize) * FrameBytes
    BY DEF TailBounded
  <2>1. \E n \in Requests : size - offset < n
    BY DEF IInv, FlacInv, EndsAtEof, EndSeen
  <2>2. PICK f \in Nat : /\ pos = f * FrameBytes /\ f * FrameSize \in Nat
                         /\ offset - HeaderSize - f * FrameSize \in 0..FrameSize-1
    BY DecodedFrames
  <2> DEFINE r == offset - HeaderSize - f * FrameSize
             m == offset - HeaderSize
  <2>3. FrameSize \in Nat \ {0} /\ r \in 0..FrameSize-1 /\ m \in Nat
    BY <2>2, FileTypes DEF IInv
  <2>4. m = f * FrameSize + r
    BY <2>2, <2>3, FileTypes DEF IInv
  <2>5. f * FrameSize = FrameSize * f
    BY <2>3
  <2> HIDE DEF r, m
  <2>6. m \div FrameSize = f
    BY <2>3, <2>4, <2>5, QuotientIs
  <2> QED
    BY <2>1, <2>2, <2>6 DEF m
<1> QED
  BY <1>1, FileInvariant, PTL

-----------------------------------------------------------------------------
(* total_buf_chunks.                                                       *)

\* A length that is at least pos bytes, which fill k chunks, all but the last
\* one entirely, needs k chunks at least, and one that is pos bytes needs k.
LEMMA ChunksOfLength ==
  ASSUME NEW b \in Nat \ {0}, NEW k \in Nat \ {0}, NEW n \in Nat, NEW r \in 1..b,
         n >= (k - 1) * b + r
  PROVE  /\ n \div b >= k - 1
         /\ n = (k - 1) * b + r =>
              n \div b = IF n % b = 0 THEN k ELSE k - 1
<1> DEFINE q == n \div b
           j == k - 1
<1>1. n = b * q + (n % b) /\ n % b \in 0..b-1 /\ q \in Nat
  BY DivMod
<1>2. j \in Nat /\ j * b = b * j /\ b * j \in Nat
  OBVIOUS
<1> HIDE DEF q
<1>3. q >= j
  <2> SUFFICES ASSUME q < j PROVE FALSE
    BY <1>1, <1>2
  <2>1. b * (q + 1) = b * q + b /\ b * q \in Nat /\ b * (q + 1) <= b * j
    <3>1. q + 1 <= j /\ b * q < b * j
      BY <1>1, <1>2
    <3> QED
      BY <1>1, <1>2, <3>1, NextMultiple
  <2> QED
    BY <1>1, <1>2, <2>1
<1>4. ASSUME n = j * b + r
      PROVE  q = IF n % b = 0 THEN k ELSE j
  <2>1. CASE r = b
    <3>1. n = b * k + 0 /\ 0 \in 0..b-1
      BY <1>2, <1>4, <2>1
    <3>2. n \div b = k /\ n % b = 0
      BY <3>1, QuotientIs, RemainderIs
    <3> QED
      BY <3>2 DEF q
  <2>2. CASE r # b
    <3>1. n = b * j + r /\ r \in 0..b-1 /\ r # 0
      BY <1>2, <1>4, <2>2
    <3>2. n \div b = j /\ n % b = r
      BY <1>2, <3>1, QuotientIs, RemainderIs
    <3> QED
      BY <3>1, <3>2 DEF q
  <2> QED
    BY <2>1, <2>2
<1> QED
  BY <1>3, <1>4 DEF q

LEMMA QuotientGrows ==
  ASSUME NEW b \in Nat \ {0}, NEW m \in Nat, NEW n \in Nat, n >= m
  PROVE  n \div b >= m \div b
<1> DEFINE p == m \div b
           q == n \div b
<1>1. /\ m = b * p + (m % b) /\ m % b \in 0..b-1 /\ p \in Nat
      /\ n = b * q + (n % b) /\ n % b \in 0..b-1 /\ q \in Nat
  BY DivMod
<1> HIDE DEF p, q
<1> SUFFICES ASSUME q < p PROVE FALSE
  BY <1>1 DEF p, q
<1>2. q + 1 <= p /\ b * (q + 1) = b * q + b /\ b * q \in Nat /\ b * p \in Nat
  BY <1>1
<1>3. b * (q + 1) <= b * p
  BY <1>1, <1>2
<1> QED
  BY <1>1, <1>2, <1>3

\* A multiple of eight bits fills as many bytes as it has eights of bits.
LEMMA WholeBytes ==
  ASSUME NEW d \in Nat, d % 8 = 0
  PROVE  (d + 7) \div 8 = d \div 8
<1>1. d = 8 * (d \div 8) + (d % 8) /\ d \div 8 \in Nat
  BY DivMod, 8 \in Nat \ {0}
<1>2. d + 7 = 8 * (d \div 8) + 7 /\ d + 7 \in Nat /\ 7 \in 0..8-1
  BY <1>1
<1> QED
  BY <1>1, <1>2, QuotientIs, 8 \in Nat \ {0}

LEMMA NoOverflow ==
  ASSUME NEW n \in Nat, n < IntLimit
  PROVE  Wrapped(n) = n
<1>1. IntLimit \in Nat \ {0}
  BY MdFileAssumption DEF MdFileAssumption
<1> DEFINE p == 2 * IntLimit
<1>2. p \in Nat \ {0} /\ n + IntLimit \in Nat /\ n + IntLimit \in 0..p-1
  BY <1>1
<1>3. n + IntLimit = p * 0 + (n + IntLimit)
  BY <1>2
<1> HIDE DEF p
<1>4. (n + IntLimit) % p = n + IntLimit
  BY <1>2, <1>3, RemainderIs, 0 \in Nat
<1> QED
  BY <1>1, <1>4 DEF Wrapped, p

(* For every size of samples and whatever STREAMINFO announces: the           *)
(* total_buf_chunks that md_flac_metadata_cb computes is not too low if the   *)
(* samples are announced and have whole bytes, not too high, but for one at a *)
(* multiple of buf_size, if all the bytes it counts were added, and right, up *)
(* to the same one, if no others were.  The product must fit into an int.     *)
THEOREM EstimateStaysClose == Spec => []EstimateClose
<1>1. IInv => EstimateClose
  <2> DEFINE k == Len(added)
             r == pos - (k - 1) * BufSize
             exact == k + IF pos % BufSize = 0 THEN 1 ELSE 0
  <2> SUFFICES ASSUME IInv, kind = "flac", Complete, Foretold < IntLimit
               PROVE  /\ announced # 0 /\ depth % 8 = 0 => TotalBufChunks >= k
                      /\ pos >= Foretold => TotalBufChunks <= exact
                      /\ pos = Foretold => TotalBufChunks = exact
    BY DEF EstimateClose
  <2>1. PICK n \in Nat : /\ size = HeaderSize + n * FrameSize
                         /\ announced = 0 \/ announced >= n * FrameSamples
    BY DEF IInv, FlacInv, SizeOfFrames
  <2>2. PICK f \in Nat : /\ pos = f * FrameBytes /\ f * FrameSize \in Nat
                         /\ offset - HeaderSize - f * FrameSize \in 0..FrameSize-1
    BY DecodedFrames
  <2>3. /\ FrameSize \in Nat \ {0} /\ FrameSamples \in Nat /\ HeaderSize \in Nat
        /\ size \in Nat /\ offset \in Nat /\ offset <= size /\ pos \in Nat
        /\ depth \in Nat /\ announced \in Nat
    BY FileTypes DEF IInv
  <2>4. depth \div 8 \in Nat /\ Foretold \in Nat
    <3>1. depth \div 8 \in Nat
      BY <2>3, DivMod, 8 \in Nat \ {0}
    <3> QED
      BY <2>3, <3>1 DEF Foretold
  <2>5. f <= n
    <3>1. f * FrameSize <= n * FrameSize
      BY <2>1, <2>2, <2>3
    <3> SUFFICES ASSUME n < f PROVE FALSE
      OBVIOUS
    <3>2. n + 1 <= f /\ (n + 1) * FrameSize = n * FrameSize + FrameSize
      BY <2>3
    <3>3. (n + 1) * FrameSize <= f * FrameSize
      BY <2>3, <3>2
    <3> QED
      BY <2>3, <3>1, <3>2, <3>3
  <2>6. ASSUME announced # 0, depth % 8 = 0
        PROVE  pos <= Foretold
    <3>1. SampleBytes = depth \div 8
      BY <2>3, <2>6, WholeBytes DEF SampleBytes
    <3>2. f * FrameSamples <= n * FrameSamples /\ f * FrameSamples \in Nat
      BY <2>3, <2>5
    <3>3. f * FrameSamples <= announced
      BY <2>1, <2>3, <2>6, <3>2
    <3>4. (f * FrameSamples) * (depth \div 8) <= announced * (depth \div 8)
      BY <2>3, <2>4, <3>2, <3>3
    <3>5. pos = (f * FrameSamples) * (depth \div 8)
      BY <2>2, <2>3, <2>4, <3>1 DEF FrameBytes
    <3> QED
      BY <3>4, <3>5 DEF Foretold
  <2>7. k \in Nat \ {0} /\ BufSize \in Nat \ {0} /\ pos = (k - 1) * BufSize + r /\ r \in 1..BufSize
    <3>1. Len(added) > 0 /\ r \in 1..PlayedSize(Last) /\ WholeBlocks
      BY DEF Complete, IInv, ChunkInv, Counted
    <3>2. PlayedSize(Last) \in 1..BufSize /\ Len(added) \in Nat /\ BufSize \in Nat /\ BufSize > 0
      BY <3>1, Types DEF WholeBlocks, Last, IInv, TypeOK
    <3>3. (k - 1) * BufSize \in Int
      BY <3>2
    <3> QED
      BY <2>3, <3>1, <3>2, <3>3
  <2>8. TotalBufChunks = Foretold \div BufSize + 1 /\ Foretold \div BufSize \in Nat
    <3>1. Foretold \div BufSize \in Nat
      BY <2>4, <2>7, DivMod
    <3> QED
      BY <2>4, <3>1, NoOverflow DEF TotalBufChunks, Quotient
  <2>9. pos \div BufSize + 1 = exact
    <3>1. pos \div BufSize = IF pos % BufSize = 0 THEN k ELSE k - 1
      <4> HIDE DEF k, r
      <4> QED
        BY <2>3, <2>7, ChunksOfLength
    <3> QED
      BY <2>7, <3>1
  <2>10. announced # 0 /\ depth % 8 = 0 => TotalBufChunks >= k
    <3> SUFFICES ASSUME announced # 0, depth % 8 = 0 PROVE TotalBufChunks >= k
      OBVIOUS
    <3>1. Foretold >= (k - 1) * BufSize + r
      BY <2>4, <2>6, <2>7
    <3>2. Foretold \div BufSize >= k - 1
      <4> HIDE DEF k, r
      <4> QED
        BY <2>4, <2>7, <3>1, ChunksOfLength
    <3> QED
      BY <2>7, <2>8, <3>2
  <2>11. pos >= Foretold => TotalBufChunks <= exact
    <3>1. pos >= Foretold => pos \div BufSize >= Foretold \div BufSize
      BY <2>3, <2>4, <2>7, QuotientGrows
    <3>2. pos \div BufSize \in Nat
      BY <2>3, <2>7, DivMod
    <3> HIDE DEF exact
    <3> QED
      BY <2>8, <2>9, <3>1, <3>2
  <2>12. pos = Foretold => TotalBufChunks = exact
    <3> HIDE DEF exact
    <3> QED
      BY <2>8, <2>9
  <2> QED
    BY <2>10, <2>11, <2>12
<1> QED
  BY <1>1, FileInvariant, PTL
=============================================================================
