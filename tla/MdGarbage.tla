----------------------------- MODULE MdGarbage ------------------------------
(***************************************************************************)
(* The garbage of core/buffer/mdgarbage.c: a ring of `size' slots into     *)
(* which md_buf_clean_pack puts the chunks that were played.  A chunk is   *)
(* freed when a later one finds the ring full, or by md_garbage_clean.     *)
(* One thread at a time uses the ring; md_garbage_clean's loop is one      *)
(* action per chunk it frees.                                              *)
(***************************************************************************)
EXTENDS Integers, Sequences, FiniteSets

CONSTANTS
  Size,       \* garbage.size, from get_settings()->buf_num
  Chunks,     \* the chunks there may be
  NULL

\* A ring of one slot is full when it is empty and loses every chunk.
ASSUME MdGarbageAssumption ==
  /\ Size \in Nat
  /\ Size >= 2
  /\ NULL \notin Chunks

VARIABLES
  first,      \* garbage.first
  last,       \* garbage.last
  chunks,     \* garbage.chunks
  pack,       \* the chunks the driver holds: allocated, not handed over yet
  live,       \* the chunks that are allocated
  cleaning    \* md_garbage_clean is in its loop

garbageVars == <<first, last, chunks, pack, live, cleaning>>

Slots == 0..Size-1

\* The slot after s.
WrapNever(s) == s + 1       \* mutant: runs off the ring
Wrap(s) == IF s + 1 >= Size THEN 0 ELSE s + 1

\* md_garbage_is_full
IsFullAtEnd == first = 0 /\ last = Size - 1        \* mutant: half of the test
IsFullEarly == first # last                        \* mutant: frees too soon
IsFull ==
  \/ last = first - 1
  \/ first = 0 /\ last = Size - 1

\* md_garbage_del_first as a function: first, last and live afterwards, given
\* that the ring is not empty.
Deleted ==
  LET next == Wrap(first)
      empty == next = last
  IN [first |-> IF empty THEN 0 ELSE next,
      last |-> IF empty THEN 0 ELSE last,
      live |-> live \ {chunks[first]}]

Unchanged == [first |-> first, last |-> last, live |-> live]

-----------------------------------------------------------------------------
(* md_garbage_init, before any chunk is allocated. *)
Init ==
  /\ first = 0
  /\ last = 0
  /\ chunks = [s \in Slots |-> NULL]
  /\ pack = {}
  /\ live = {}
  /\ cleaning = FALSE

\* The driver takes a pack with a chunk that the decoder has allocated.
TakePack(c) ==
  /\ c \notin live
  /\ live' = live \cup {c}
  /\ pack' = pack \cup {c}
  /\ UNCHANGED <<first, last, chunks, cleaning>>

\* md_add_to_garbage: the oldest chunk makes room, if need be.
Add(c) ==
  LET ring == IF IsFull /\ first # last THEN Deleted ELSE Unchanged
  IN /\ ~cleaning
     /\ c \in pack
     /\ pack' = pack \ {c}
     /\ chunks' = [chunks EXCEPT ![ring.last] = c]
     /\ first' = ring.first
     /\ last' = Wrap(ring.last)
     /\ live' = ring.live
     /\ UNCHANGED cleaning

\* md_garbage_clean
Clean ==
  /\ ~cleaning
  /\ cleaning' = TRUE
  /\ UNCHANGED <<first, last, chunks, pack, live>>

CleanStep ==
  /\ cleaning
  /\ first # last
  /\ first' = Deleted.first
  /\ last' = Deleted.last
  /\ live' = Deleted.live
  /\ UNCHANGED <<chunks, pack, cleaning>>

CleanEnd ==
  /\ cleaning
  /\ first = last
  /\ cleaning' = FALSE
  /\ UNCHANGED <<first, last, chunks, pack, live>>

Next ==
  \/ \E c \in Chunks : TakePack(c) \/ Add(c)
  \/ Clean \/ CleanStep \/ CleanEnd

Spec == Init /\ [][Next]_garbageVars

-----------------------------------------------------------------------------
(* The ring read as a sequence, oldest chunk first. *)

\* How many chunks a ring with indices f and l holds, and the slot of the i-th
\* oldest of them, counting from 0.
CountOf(f, l) == IF l >= f THEN l - f ELSE l - f + Size
SlotOf(f, i) == IF f + i < Size THEN f + i ELSE f + i - Size

Count == CountOf(first, last)
Slot(i) == SlotOf(first, i)

Held == [i \in 1..Count |-> chunks[Slot(i - 1)]]

TypeOK ==
  /\ first \in Slots
  /\ last \in Slots
  /\ chunks \in [Slots -> Chunks \cup {NULL}]
  /\ pack \subseteq Chunks
  /\ live \subseteq Chunks
  /\ cleaning \in BOOLEAN

(* Every allocated chunk is either with the driver or in the ring, and there  *)
(* once: nothing is leaked, nothing is freed twice, and the ring never shows  *)
(* the driver a chunk that was freed, wherever the two indices have wrapped.  *)
Owned ==
  /\ pack \subseteq live
  /\ \A i \in 0..Count-1 : chunks[Slot(i)] \in live \ pack
  /\ \A i, j \in 0..Count-1 : chunks[Slot(i)] = chunks[Slot(j)] => i = j
  /\ \A c \in live \ pack : \E i \in 0..Count-1 : chunks[Slot(i)] = c

(* The ring implements the delay line: it keeps the last Size - 1 chunks and  *)
(* frees the oldest first, so that a chunk outlives the Size - 1 chunks that  *)
(* are handed over after it.                                                  *)
DelayLine == INSTANCE MdDelayLine WITH
  held <- Held, Delay <- Size - 1

ImplementsDelayLine == DelayLine!Spec
=============================================================================
