-------------------------- MODULE MdGarbageProofs ---------------------------
(***************************************************************************)
(* Proofs about the garbage ring, for every size of at least two slots and *)
(* any set of chunks: ownership, and the delay line it implements.         *)
(***************************************************************************)
EXTENDS MdGarbage, SequenceTheorems, TLAPS

-----------------------------------------------------------------------------
(* The ring's arithmetic.                                                  *)

LEMMA RingRange ==
  ASSUME NEW f \in Slots, NEW l \in Slots
  PROVE  /\ CountOf(f, l) \in 0..Size-1
         /\ SlotOf(f, CountOf(f, l)) = l
         /\ \A i \in 0..Size-1 : SlotOf(f, i) \in Slots
         /\ \A i, j \in 0..Size-1 : SlotOf(f, i) = SlotOf(f, j) => i = j
         /\ SlotOf(f, 0) = f
         /\ CountOf(f, l) = 0 <=> f = l
         /\ Wrap(l) \in Slots
  BY MdGarbageAssumption DEF Slots, CountOf, SlotOf, Wrap

\* The ring without its oldest slot.
LEMMA RingShift ==
  ASSUME NEW f \in Slots, NEW l \in Slots, f # l
  PROVE  /\ CountOf(Wrap(f), l) = CountOf(f, l) - 1
         /\ \A i \in 0..Size-2 : SlotOf(Wrap(f), i) = SlotOf(f, i + 1)
  BY MdGarbageAssumption DEF Slots, CountOf, SlotOf, Wrap

\* The ring with one slot more, if it is not full.
LEMMA RingGrow ==
  ASSUME NEW f \in Slots, NEW l \in Slots, CountOf(f, l) < Size - 1
  PROVE  CountOf(f, Wrap(l)) = CountOf(f, l) + 1
  BY MdGarbageAssumption DEF Slots, CountOf, Wrap

\* md_garbage_is_full: one slot stays empty.
LEMMA FullMeansOneSlotLeft ==
  ASSUME TypeOK
  PROVE  IsFull <=> Count = Size - 1
  BY MdGarbageAssumption DEF TypeOK, Slots, IsFull, Count, CountOf

-----------------------------------------------------------------------------
(* Owned and Held for any ring, so that Add can be taken in two halves.    *)

OwnedBy(f, l, ch, pk, lv) ==
  /\ pk \subseteq lv
  /\ \A i \in 0..CountOf(f, l)-1 : ch[SlotOf(f, i)] \in lv \ pk
  /\ \A i, j \in 0..CountOf(f, l)-1 : ch[SlotOf(f, i)] = ch[SlotOf(f, j)] => i = j
  /\ \A c \in lv \ pk : \E i \in 0..CountOf(f, l)-1 : ch[SlotOf(f, i)] = c

HeldBy(f, l, ch) == [i \in 1..CountOf(f, l) |-> ch[SlotOf(f, i - 1)]]

LEMMA OwnedIsOwnedBy == Owned <=> OwnedBy(first, last, chunks, pack, live)
  BY DEF Owned, OwnedBy, Count, Slot

LEMMA HeldIsHeldBy == Held = HeldBy(first, last, chunks)
  BY DEF Held, HeldBy, Count, Slot

\* The two indices after md_garbage_del_first.
LEMMA DeletedRing ==
  ASSUME TypeOK, first # last
  PROVE  /\ Deleted.first \in Slots /\ Deleted.last \in Slots
         /\ CountOf(Deleted.first, Deleted.last) = Count - 1
         /\ \A i \in 0..Count-2 : SlotOf(Deleted.first, i) = Slot(i + 1)
         /\ Deleted.live = live \ {chunks[first]}
<1>1. first \in Slots /\ last \in Slots /\ Size \in Nat /\ Size >= 2
  BY MdGarbageAssumption DEF TypeOK
<1>2. /\ Wrap(first) \in Slots
      /\ CountOf(Wrap(first), last) = Count - 1
      /\ \A i \in 0..Size-2 : SlotOf(Wrap(first), i) = Slot(i + 1)
      /\ Count \in 0..Size-1
  BY <1>1, RingRange, RingShift DEF Count, Slot
<1>3. CASE Wrap(first) = last
  <2>1. Deleted.first = 0 /\ Deleted.last = 0
    BY <1>3 DEF Deleted
  <2>2. CountOf(0, 0) = 0 /\ 0 \in Slots
    BY <1>1 DEF CountOf, Slots
  <2>3. Count - 1 = 0
    BY <1>1, <1>2, <1>3, RingRange
  <2> QED
    BY <1>2, <2>1, <2>2, <2>3 DEF Deleted
<1>4. CASE Wrap(first) # last
  <2>1. Deleted.first = Wrap(first) /\ Deleted.last = last
    BY <1>4 DEF Deleted
  <2>2. \A i \in 0..Count-2 : i \in 0..Size-2
    BY <1>1, <1>2
  <2> QED
    BY <1>1, <1>2, <2>1, <2>2 DEF Deleted
<1> QED
  BY <1>3, <1>4

LEMMA DeletedOwned ==
  ASSUME TypeOK, Owned, first # last
  PROVE  OwnedBy(Deleted.first, Deleted.last, chunks, pack, Deleted.live)
<1> DEFINE f == Deleted.first
           l == Deleted.last
           lv == Deleted.live
<1>1. /\ Count \in 0..Size-1 /\ Count > 0 /\ Size \in Nat /\ Slot(0) = first
  BY MdGarbageAssumption, RingRange DEF TypeOK, Count, Slot
<1>2. /\ CountOf(f, l) = Count - 1 /\ lv = live \ {chunks[first]}
      /\ \A i \in 0..Count-2 : SlotOf(f, i) = Slot(i + 1)
  BY DeletedRing
<1> HIDE DEF f, l, lv
<1>3. \A i \in 0..Count-1 : i # 0 => chunks[Slot(i)] # chunks[first]
  BY <1>1 DEF Owned
<1>4. chunks[first] \in live \ pack
  BY <1>1 DEF Owned
<1>5. pack \subseteq lv
  BY <1>2, <1>4 DEF Owned
<1>6. ASSUME NEW i \in 0..CountOf(f, l)-1
      PROVE  chunks[SlotOf(f, i)] \in lv \ pack
  <2>1. i \in 0..Count-2 /\ i + 1 \in 0..Count-1 /\ i + 1 # 0
    BY <1>1, <1>2
  <2> QED
    BY <1>2, <1>3, <2>1 DEF Owned
<1>7. ASSUME NEW i \in 0..CountOf(f, l)-1, NEW j \in 0..CountOf(f, l)-1,
             chunks[SlotOf(f, i)] = chunks[SlotOf(f, j)]
      PROVE  i = j
  <2>1. /\ i \in 0..Count-2 /\ i + 1 \in 0..Count-1
        /\ j \in 0..Count-2 /\ j + 1 \in 0..Count-1
    BY <1>1, <1>2
  <2>2. i + 1 = j + 1
    BY <1>2, <1>7, <2>1 DEF Owned
  <2> QED
    BY <2>1, <2>2
<1>8. ASSUME NEW c \in lv \ pack
      PROVE  \E i \in 0..CountOf(f, l)-1 : chunks[SlotOf(f, i)] = c
  <2>1. PICK k \in 0..Count-1 : chunks[Slot(k)] = c
    BY <1>2 DEF Owned
  <2>2. k # 0
    BY <1>1, <1>2, <2>1
  <2>3. k - 1 \in 0..Count-2 /\ k - 1 \in 0..CountOf(f, l)-1 /\ (k - 1) + 1 = k
    BY <1>1, <1>2, <2>2
  <2>4. chunks[SlotOf(f, k - 1)] = c
    BY <1>2, <2>1, <2>3
  <2> QED
    BY <2>3, <2>4
<1> QED
  BY <1>5, <1>6, <1>7, <1>8 DEF OwnedBy, f, l, lv

LEMMA AddedOwned ==
  ASSUME NEW f \in Slots, NEW l \in Slots, NEW pk \in SUBSET Chunks, NEW lv \in SUBSET Chunks,
         NEW c \in pk, CountOf(f, l) < Size - 1, chunks \in [Slots -> Chunks \cup {NULL}],
         OwnedBy(f, l, chunks, pk, lv)
  PROVE  OwnedBy(f, Wrap(l), [chunks EXCEPT ![l] = c], pk \ {c}, lv)
<1> DEFINE ch == [chunks EXCEPT ![l] = c]
           n == CountOf(f, l)
<1>1. /\ n \in 0..Size-1 /\ CountOf(f, Wrap(l)) = n + 1 /\ SlotOf(f, n) = l /\ Size \in Nat
      /\ n < Size - 1
  BY RingRange, RingGrow, MdGarbageAssumption
<1> HIDE DEF n
<1>2. \A i \in 0..n-1 : i \in 0..Size-1 /\ n \in 0..Size-1 /\ i # n
  BY <1>1
<1>3. ASSUME NEW i \in 0..n-1
      PROVE  SlotOf(f, i) \in Slots /\ SlotOf(f, i) # l
  <2>1. SlotOf(f, i) \in Slots
    BY <1>2, RingRange
  <2>2. SlotOf(f, i) = SlotOf(f, n) => i = n
    BY <1>2, RingRange
  <2> QED
    BY <1>1, <1>2, <2>1, <2>2
<1>4. ch[l] = c /\ \A i \in 0..n-1 : ch[SlotOf(f, i)] = chunks[SlotOf(f, i)]
  BY <1>3
<1> HIDE DEF ch
<1>5. \A i \in 0..(n+1)-1 : i = n \/ i \in 0..n-1
  BY <1>1
<1>6. /\ pk \subseteq lv
      /\ \A i \in 0..n-1 : chunks[SlotOf(f, i)] \in lv \ pk
      /\ \A i, j \in 0..n-1 : chunks[SlotOf(f, i)] = chunks[SlotOf(f, j)] => i = j
      /\ \A d \in lv \ pk : \E i \in 0..n-1 : chunks[SlotOf(f, i)] = d
  BY DEF OwnedBy, n
<1>7. \A i \in 0..(n+1)-1 : ch[SlotOf(f, i)] \in lv \ (pk \ {c})
  BY <1>1, <1>4, <1>5, <1>6
<1>8. \A i, j \in 0..(n+1)-1 : ch[SlotOf(f, i)] = ch[SlotOf(f, j)] => i = j
  BY <1>1, <1>4, <1>5, <1>6
<1>9. ASSUME NEW d \in lv \ (pk \ {c})
      PROVE  \E i \in 0..(n+1)-1 : ch[SlotOf(f, i)] = d
  <2>1. CASE d = c
    <3>1. n \in 0..(n+1)-1
      BY <1>1
    <3> QED
      BY <1>1, <1>4, <2>1, <3>1
  <2>2. CASE d # c
    <3>1. PICK i \in 0..n-1 : chunks[SlotOf(f, i)] = d
      BY <1>6, <2>2
    <3>2. i \in 0..(n+1)-1
      BY <1>1
    <3> QED
      BY <1>4, <3>1, <3>2
  <2> QED
    BY <2>1, <2>2
<1> QED
  BY <1>1, <1>6, <1>7, <1>8, <1>9 DEF OwnedBy, ch

-----------------------------------------------------------------------------
(* Every step keeps the types and the ownership. *)

\* The ring as md_add_to_garbage leaves it before it stores the chunk.
Room == IF IsFull /\ first # last THEN Deleted ELSE Unchanged

LEMMA RoomProperties ==
  ASSUME TypeOK, Owned
  PROVE  /\ Room.first \in Slots /\ Room.last \in Slots /\ Room.live \subseteq live
         /\ CountOf(Room.first, Room.last) < Size - 1
         /\ OwnedBy(Room.first, Room.last, chunks, pack, Room.live)
<1>0. Size \in Nat /\ Size >= 2 /\ first \in Slots /\ last \in Slots
  BY MdGarbageAssumption DEF TypeOK
<1>1. Count \in 0..Size-1 /\ (Count = 0 <=> first = last) /\ (IsFull <=> Count = Size - 1)
  BY <1>0, RingRange, FullMeansOneSlotLeft DEF Count
<1>2. CASE IsFull
  <2>1. first # last
    BY <1>0, <1>1, <1>2
  <2>2. Room = Deleted
    BY <1>2, <2>1 DEF Room
  <2> QED
    BY <1>0, <1>1, <1>2, <2>1, <2>2, DeletedRing, DeletedOwned
<1>3. CASE ~IsFull
  <2>1. Room.first = first /\ Room.last = last /\ Room.live = live
    BY <1>3 DEF Room, Unchanged
  <2> QED
    BY <1>0, <1>1, <1>3, <2>1, OwnedIsOwnedBy DEF Count
<1> QED
  BY <1>2, <1>3

LEMMA TypeStep == TypeOK /\ Owned /\ [Next]_garbageVars => TypeOK'
<1> SUFFICES ASSUME TypeOK, Owned, [Next]_garbageVars PROVE TypeOK'
  OBVIOUS
<1>1. CASE UNCHANGED garbageVars
  BY <1>1 DEF garbageVars, TypeOK
<1>2. ASSUME NEW c \in Chunks, TakePack(c) PROVE TypeOK'
  BY <1>2 DEF TakePack, TypeOK
<1>3. ASSUME NEW c \in Chunks, Add(c) PROVE TypeOK'
  <2>1. /\ first' = Room.first /\ last' = Wrap(Room.last) /\ live' = Room.live
        /\ chunks' = [chunks EXCEPT ![Room.last] = c]
        /\ pack' = pack \ {c} /\ cleaning' = cleaning
    BY <1>3 DEF Add, Room
  <2>2. /\ Room.first \in Slots /\ Room.last \in Slots /\ Room.live \subseteq live
        /\ Wrap(Room.last) \in Slots
    BY RoomProperties, RingRange
  <2> QED
    BY <2>1, <2>2 DEF TypeOK
<1>4. CASE CleanStep
  <2>1. /\ Deleted.first \in Slots /\ Deleted.last \in Slots
        /\ Deleted.live = live \ {chunks[first]}
    BY <1>4, DeletedRing DEF CleanStep
  <2> QED
    BY <1>4, <2>1 DEF CleanStep, TypeOK
<1>5. CASE Clean \/ CleanEnd
  BY <1>5 DEF Clean, CleanEnd, TypeOK
<1> QED
  BY <1>1, <1>2, <1>3, <1>4, <1>5 DEF Next

LEMMA OwnedStep == TypeOK /\ Owned /\ [Next]_garbageVars => Owned'
<1> SUFFICES ASSUME TypeOK, Owned, [Next]_garbageVars PROVE Owned'
  OBVIOUS
<1>0. Owned' <=> OwnedBy(first', last', chunks', pack', live')
  BY DEF Owned, OwnedBy, Count, Slot, CountOf, SlotOf
<1>1. CASE UNCHANGED <<first, last, chunks, pack, live>>
  BY <1>0, <1>1, OwnedIsOwnedBy
<1>2. ASSUME NEW c \in Chunks, TakePack(c) PROVE Owned'
  <2>1. /\ c \notin live /\ live' = live \cup {c} /\ pack' = pack \cup {c}
        /\ UNCHANGED <<first, last, chunks>>
    BY <1>2 DEF TakePack
  <2>2. live' \ pack' = live \ pack /\ pack' \subseteq live'
    BY <2>1 DEF Owned
  <2>3. OwnedBy(first, last, chunks, pack', live')
    BY <2>2, OwnedIsOwnedBy DEF OwnedBy
  <2> QED
    BY <1>0, <2>1, <2>3
<1>3. ASSUME NEW c \in Chunks, Add(c) PROVE Owned'
  <2>1. /\ first' = Room.first /\ last' = Wrap(Room.last) /\ live' = Room.live
        /\ chunks' = [chunks EXCEPT ![Room.last] = c]
        /\ pack' = pack \ {c} /\ c \in pack
    BY <1>3 DEF Add, Room
  <2>2. /\ pack \in SUBSET Chunks /\ Room.live \in SUBSET Chunks
        /\ chunks \in [Slots -> Chunks \cup {NULL}]
    BY RoomProperties DEF TypeOK
  <2>3. OwnedBy(Room.first, Wrap(Room.last), [chunks EXCEPT ![Room.last] = c],
                pack \ {c}, Room.live)
    BY <2>1, <2>2, RoomProperties, AddedOwned
  <2> QED
    BY <1>0, <2>1, <2>3
<1>4. CASE CleanStep
  <2>1. /\ first # last /\ first' = Deleted.first /\ last' = Deleted.last
        /\ live' = Deleted.live /\ UNCHANGED <<chunks, pack>>
    BY <1>4 DEF CleanStep
  <2> QED
    BY <1>0, <2>1, DeletedOwned
<1>5. CASE Clean \/ CleanEnd \/ UNCHANGED garbageVars
  BY <1>1, <1>5 DEF Clean, CleanEnd, garbageVars
<1> QED
  BY <1>2, <1>3, <1>4, <1>5 DEF Next

LEMMA InitOwned == Init => TypeOK /\ Owned
<1> SUFFICES ASSUME Init PROVE TypeOK /\ Owned
  OBVIOUS
<1>1. TypeOK
  <2>1. 0 \in Slots
    BY MdGarbageAssumption DEF Slots
  <2> QED
    BY <2>1 DEF Init, TypeOK
<1>2. Count = 0 /\ pack = {} /\ live = {}
  BY DEF Init, Count, CountOf
<1> QED
  BY <1>1, <1>2 DEF Owned

(* For every ring of two slots or more, the indices stay in the ring.         *)
THEOREM RingTypes == Spec => []TypeOK
  BY InitOwned, TypeStep, OwnedStep, PTL DEF Spec

(* For every ring of two slots or more, every allocated chunk is with the     *)
(* driver or in the ring once: no leak, no double free, no dangling entry.    *)
THEOREM RingOwnsItsChunks == Spec => []Owned
  BY InitOwned, TypeStep, OwnedStep, PTL DEF Spec

-----------------------------------------------------------------------------
(* The delay line. *)

\* md_garbage_del_first takes the head of the line.
LEMMA DeletedHeld ==
  ASSUME TypeOK, first # last
  PROVE  /\ Held # <<>> /\ Len(Held) = Count /\ Head(Held) = chunks[first]
         /\ HeldBy(Deleted.first, Deleted.last, chunks) = Tail(Held)
<1>1. /\ Count \in 0..Size-1 /\ Count > 0 /\ Count \in Nat /\ Slot(0) = first
  BY MdGarbageAssumption, RingRange DEF TypeOK, Count, Slot
<1>2. /\ CountOf(Deleted.first, Deleted.last) = Count - 1
      /\ \A i \in 0..Count-2 : SlotOf(Deleted.first, i) = Slot(i + 1)
  BY DeletedRing
<1>3. Held \in Seq(Chunks \cup {NULL}) /\ Len(Held) = Count
  <2>1. ASSUME NEW i \in 1..Count
        PROVE  chunks[Slot(i - 1)] \in Chunks \cup {NULL}
    <3>1. i - 1 \in 0..Size-1
      BY <1>1, MdGarbageAssumption
    <3>2. Slot(i - 1) \in Slots
      BY <3>1, RingRange DEF TypeOK, Slot
    <3> QED
      BY <3>2 DEF TypeOK
  <2> QED
    BY <1>1, <2>1 DEF Held
<1>4. Held # <<>> /\ Head(Held) = chunks[first]
  BY <1>1, <1>3 DEF Held
<1>5. Tail(Held) = [i \in 1..Count-1 |-> chunks[Slot(i)]]
  <2>0. /\ Tail(Held) \in Seq(Chunks \cup {NULL}) /\ Len(Tail(Held)) = Count - 1
        /\ \A i \in 1..Len(Tail(Held)) : Tail(Held)[i] = Held[i + 1]
    BY <1>1, <1>3, <1>4, HeadTailProperties
  <2>a. \A i \in 1..Count-1 : Held[i + 1] \in Chunks \cup {NULL}
    BY <1>1, <1>3
  <2>b. [i \in 1..Count-1 |-> Held[i + 1]] \in Seq(Chunks \cup {NULL})
    BY <1>1, <2>a
  <2>c. Len([i \in 1..Count-1 |-> Held[i + 1]]) = Count - 1
    BY <1>1
  <2>1. Tail(Held) = [i \in 1..Count-1 |-> Held[i + 1]]
    BY <2>0, <2>b, <2>c, SeqEqual
  <2>2. \A i \in 1..Count-1 : Held[i + 1] = chunks[Slot(i)]
    BY <1>1 DEF Held
  <2> QED
    BY <2>1, <2>2
<1>6. HeldBy(Deleted.first, Deleted.last, chunks) = [i \in 1..Count-1 |-> chunks[Slot(i)]]
  <2>1. \A i \in 1..Count-1 : SlotOf(Deleted.first, i - 1) = Slot(i)
    <3> SUFFICES ASSUME NEW i \in 1..Count-1
                 PROVE  SlotOf(Deleted.first, i - 1) = Slot(i)
      OBVIOUS
    <3>1. i - 1 \in 0..Count-2 /\ (i - 1) + 1 = i
      BY <1>1
    <3> QED
      BY <1>2, <3>1
  <2> QED
    BY <1>2, <2>1 DEF HeldBy
<1> QED
  BY <1>3, <1>4, <1>5, <1>6

\* Storing a chunk at last appends it to the line.
LEMMA AddedHeld ==
  ASSUME NEW f \in Slots, NEW l \in Slots, NEW c,
         CountOf(f, l) < Size - 1, chunks \in [Slots -> Chunks \cup {NULL}]
  PROVE  HeldBy(f, Wrap(l), [chunks EXCEPT ![l] = c]) = Append(HeldBy(f, l, chunks), c)
<1> DEFINE ch == [chunks EXCEPT ![l] = c]
           n == CountOf(f, l)
<1>1. /\ n \in 0..Size-1 /\ CountOf(f, Wrap(l)) = n + 1 /\ SlotOf(f, n) = l /\ n \in Nat
  BY RingRange, RingGrow, MdGarbageAssumption
<1>2. ch[l] = c /\ \A s \in Slots : s # l => ch[s] = chunks[s]
  OBVIOUS
<1> HIDE DEF ch
<1>3. HeldBy(f, Wrap(l), ch) = [i \in 1..n+1 |-> ch[SlotOf(f, i - 1)]]
  BY <1>1 DEF HeldBy
<1>4. Len(HeldBy(f, l, chunks)) = n
  BY <1>1 DEF HeldBy
<1> HIDE DEF n
<1>5. Append(HeldBy(f, l, chunks), c)
        = [i \in 1..n+1 |-> IF i <= n THEN chunks[SlotOf(f, i - 1)] ELSE c]
  BY <1>1, <1>4 DEF HeldBy, n
<1>6. ASSUME NEW i \in 1..n+1
      PROVE  ch[SlotOf(f, i - 1)] = IF i <= n THEN chunks[SlotOf(f, i - 1)] ELSE c
  <2>1. CASE i <= n
    <3>1. i - 1 \in 0..Size-1 /\ n \in 0..Size-1 /\ i - 1 # n
      BY <1>1, <2>1, MdGarbageAssumption
    <3>2. SlotOf(f, i - 1) \in Slots
      BY <3>1, RingRange
    <3>3. SlotOf(f, i - 1) = SlotOf(f, n) => i - 1 = n
      BY <3>1, RingRange
    <3> QED
      BY <1>1, <1>2, <2>1, <3>1, <3>2, <3>3
  <2>2. CASE i > n
    <3>1. i - 1 = n
      BY <1>1, <2>2
    <3> QED
      BY <1>1, <1>2, <2>2, <3>1
  <2> QED
    BY <1>1, <2>1, <2>2
<1> QED
  BY <1>3, <1>5, <1>6 DEF ch

LEMMA AddRefines ==
  ASSUME TypeOK, Owned, NEW c \in Chunks, Add(c)
  PROVE  DelayLine!HandOver(c)
<1>0. Size \in Nat /\ Size >= 2 /\ first \in Slots /\ last \in Slots
  BY MdGarbageAssumption DEF TypeOK
<1>1. /\ first' = Room.first /\ last' = Wrap(Room.last) /\ live' = Room.live
      /\ chunks' = [chunks EXCEPT ![Room.last] = c] /\ c \in pack
  BY DEF Add, Room
<1>2. Held' = Append(HeldBy(Room.first, Room.last, chunks), c)
  <2>1. Held' = HeldBy(first', last', chunks')
    BY DEF Held, HeldBy, Count, Slot, CountOf, SlotOf
  <2>2. chunks \in [Slots -> Chunks \cup {NULL}]
    BY DEF TypeOK
  <2> QED
    BY <1>1, <2>1, <2>2, RoomProperties, AddedHeld
<1>3. /\ Count \in 0..Size-1 /\ (Count = 0 <=> first = last) /\ (IsFull <=> Count = Size - 1)
  BY <1>0, RingRange, FullMeansOneSlotLeft DEF Count
<1>4. Len(Held) = Count
  BY <1>0, <1>3 DEF Held
<1>5. c \in live
  BY <1>1 DEF Owned
<1>6. CASE IsFull
  <2>1. first # last /\ ~(Len(Held) < Size - 1)
    BY <1>0, <1>3, <1>4, <1>6
  <2>2. Room = Deleted
    BY <1>6, <2>1 DEF Room
  <2>3. /\ HeldBy(Room.first, Room.last, chunks) = Tail(Held)
        /\ Room.live = live \ {Head(Held)}
    BY <2>1, <2>2, DeletedHeld, DeletedRing
  <2> QED
    BY <1>1, <1>2, <1>5, <2>1, <2>3 DEF DelayLine!HandOver
<1>7. CASE ~IsFull
  <2>1. Len(Held) < Size - 1
    BY <1>0, <1>3, <1>4, <1>7
  <2>2. Room.first = first /\ Room.last = last /\ Room.live = live
    BY <1>7 DEF Room, Unchanged
  <2> QED
    BY <1>1, <1>2, <1>5, <2>1, <2>2, HeldIsHeldBy DEF DelayLine!HandOver
<1> QED
  BY <1>6, <1>7

LEMMA StepRefines ==
  TypeOK /\ Owned /\ [Next]_garbageVars => [DelayLine!Next]_(DelayLine!delayVars)
<1> SUFFICES ASSUME TypeOK, Owned, [Next]_garbageVars
             PROVE  DelayLine!Next \/ UNCHANGED DelayLine!delayVars
  OBVIOUS
<1>1. CASE UNCHANGED <<first, last, chunks, live>>
  BY <1>1 DEF DelayLine!delayVars, Held, Count, Slot, CountOf, SlotOf
<1>2. ASSUME NEW c \in Chunks, TakePack(c) PROVE DelayLine!Next
  <2>1. c \notin live /\ live' = live \cup {c} /\ UNCHANGED <<first, last, chunks>>
    BY <1>2 DEF TakePack
  <2>2. Held' = Held
    BY <2>1 DEF Held, Count, Slot, CountOf, SlotOf
  <2>3. DelayLine!Allocate(c)
    BY <2>1, <2>2 DEF DelayLine!Allocate
  <2> QED
    BY <2>3 DEF DelayLine!Next
<1>3. ASSUME NEW c \in Chunks, Add(c) PROVE DelayLine!Next
  BY <1>3, AddRefines DEF DelayLine!Next
<1>4. ASSUME CleanStep PROVE DelayLine!Next
  <2>1. /\ first # last /\ first' = Deleted.first /\ last' = Deleted.last
        /\ live' = Deleted.live /\ UNCHANGED chunks
    BY <1>4 DEF CleanStep
  <2>2. Held' = HeldBy(first', last', chunks')
    BY DEF Held, HeldBy, Count, Slot, CountOf, SlotOf
  <2>3. Held # <<>> /\ Held' = Tail(Held) /\ live' = live \ {Head(Held)}
    BY <2>1, <2>2, DeletedHeld, DeletedRing
  <2> QED
    BY <2>3 DEF DelayLine!Next, DelayLine!FreeOldest
<1> QED
  BY <1>1, <1>2, <1>3, <1>4 DEF Next, Clean, CleanEnd, garbageVars

(* For every ring of two slots or more: a chunk handed to the garbage stays   *)
(* allocated while fewer than Size - 1 younger ones follow, and chunks are    *)
(* freed in the order they were handed over.                                  *)
THEOREM RingImplementsDelayLine == Spec => ImplementsDelayLine
<1>1. Init => DelayLine!Init
  <2>1. Init => Count = 0
    BY DEF Init, Count, CountOf
  <2>2. Init => Held = <<>>
    BY <2>1 DEF Held
  <2> QED
    BY <2>2 DEF Init, DelayLine!Init
<1> QED
  BY <1>1, InitOwned, TypeStep, OwnedStep, StepRefines, PTL
  DEF Spec, ImplementsDelayLine, DelayLine!Spec
=============================================================================
