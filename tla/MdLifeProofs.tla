---------------------------- MODULE MdLifeProofs ----------------------------
(***************************************************************************)
(* Proofs about the life of chunks and metadata, for any number of tracks, *)
(* any number of chunks in a track, in the buffer and in the garbage, and  *)
(* any choice of addresses by malloc.                                      *)
(***************************************************************************)
EXTENDS MdLife, SequenceTheorems, TLAPS

-----------------------------------------------------------------------------
(* The chunks on their way from the decoder to the garbage.                *)

Unloaded == {queue[i] : i \in 1..Len(queue)} \cup {Pack[i] : i \in loaded+1..Len(Pack)}
Loaded == {Pack[i] : i \in cleaned+1..loaded}
Filling == status \in {"decoding", "aborted"}
Filled == IF Filling THEN {InHand} ELSE {}
Pending == Unloaded \cup Loaded \cup Filled

\* The decoder makes chunk c before chunk d.
Before(c, d) == c.track < d.track \/ (c.track = d.track /\ c.index < d.index)

\* A chunk that its decoder is done with.
Complete(c) ==
  \/ c.track < track
  \/ c.track = track /\ c.index <= IF Filling THEN made ELSE made + 1

\* A chunk that was allocated.
Begun(c) == c.track < track \/ (c.track = track /\ c.index <= made + 1)

Sorted(s) == \A i, j \in 1..Len(s) : i < j => Before(s[i], s[j])

-----------------------------------------------------------------------------
(* What the invariants of the run need to be inductive.                    *)

\* The pack, the buffer, and the chunk in hand hold the chunks in the order in
\* which they were made, the garbage holds earlier ones.
StreamInOrder ==
  /\ Sorted(queue) /\ Sorted(Pack)
  /\ \A i \in cleaned+1..Len(Pack), j \in 1..Len(queue) : Before(Pack[i], queue[j])
  /\ \A c \in Range(held), d \in Unloaded \cup Loaded : Before(c, d)
  /\ \A c \in Unloaded \cup Loaded \cup Range(held) : Complete(c)
  /\ \A c \in live \cup lost : Begun(c)
  /\ cleaned > 0 => loaded = Len(Pack)

\* Only a chunk on its way has events: the announcement of its track a first
\* one, those of its track's end a last one, and those of the loading only as
\* long as it was not loaded.
EventsQueued ==
  /\ \A c \in Chunks : ~Complete(c) => evq[c] = EmptyEvq
  /\ \A c \in Unloaded :
       \/ evq[c] = EmptyEvq
       \/ c.index = 1 /\ evq[c]["in"] = <<"first">> /\ evq[c]["out"] = <<>>
       \/ evq[c]["in"] = <<"done in">> /\ evq[c]["out"] = <<"done out">>
  /\ \A c \in Loaded : evq[c]["in"] = <<>> /\ evq[c]["out"] \in {<<>>, <<"done out">>}
  /\ \A c \in Range(held) : evq[c] = EmptyEvq

\* The chunk with the events of the end is the last one of its track.
EndIsLast ==
  \A c \in Unloaded \cup Loaded, d \in Pending :
    evq[c]["out"] # <<>> /\ d.track = c.track => d.index <= c.index

Stories ==
  {<<>>, <<"first">>, <<"done in">>, <<"first", "done in">>, <<"done in", "done out">>, Story}

\* What the application has heard of a track with chunks still to come.
HeardSoFar ==
  /\ heard \in [Tracks -> Stories]
  /\ \A t \in Tracks : t > track => heard[t] = <<>>
  /\ \A c \in Unloaded \cup Filled :
       /\ heard[c.track] \in {<<>>, <<"first">>}
       /\ c.index = 1 => heard[c.track] = <<>>
  /\ \A c \in Loaded :
       evq[c]["out"] # <<>> => heard[c.track] \in {<<"done in">>, <<"first", "done in">>}

Owned ==
  /\ \A c \in Pending :
       /\ c \in live
       /\ metaOf[c.track] \in Addresses
       /\ owner[metaOf[c.track]] = c.track
  /\ \A t \in Tracks : t > track => metaOf[t] = NULL
  /\ \A a \in Addresses : owner[a] <= track

\* oldmeta is the address of the track that was announced last.
LastAnnounced ==
  /\ status = "decoding" /\ made > 0 => oldmeta = metaOf[track]
  /\ oldmeta # NULL => \E t \in 1..track :
       metaOf[t] = oldmeta /\ (Filling /\ made = 0 => t < track)

Reused(t) == \E u \in 1..t-1 : metaOf[u] = metaOf[t]

Announced ==
  /\ \A c \in Unloaded :
       c.index = 1 /\ evq[c]["out"] = <<>> => evq[c]["in"] = <<"first">> \/ Reused(c.track)
  /\ \A c \in Loaded :
       c.index = 1 /\ evq[c]["out"] = <<>> =>
         heard[c.track] \in {<<"first">>, <<"first", "done in">>} \/ Reused(c.track)

\* A chunk without the events of the end has a successor.
Followed ==
  \A c \in Unloaded \cup Loaded :
    evq[c]["out"] = <<>> =>
      ChunkOf(c.track, c.index + 1) \in Pending \cup lost

\* NothingLeaked, for the chunks on their way
IsYoungest(c) == \A d \in live \cup lost : d.track = c.track => d.index <= c.index

StillOwned ==
  /\ \A a \in Addresses :
       owner[a] # Nobody /\ metaOf[owner[a]] = a =>
         \E c \in Pending \cup lost : c.track = owner[a] /\ IsYoungest(c)
  /\ live \subseteq Pending \cup Range(held) \cup lost

IInv ==
  /\ TypeOK /\ StreamInOrder /\ EventsQueued /\ EndIsLast /\ HeardSoFar /\ Owned
  /\ LastAnnounced /\ Announced /\ Followed /\ StillOwned

-----------------------------------------------------------------------------
(* Types, and the sets the invariants speak of.                            *)

LEMMA Types ==
  ASSUME TypeOK
  PROVE  /\ Pack \in Seq(Chunks) /\ queue \in Seq(Chunks) /\ held \in Seq(Chunks)
         /\ Len(Pack) \in Nat /\ Len(queue) \in Nat /\ Len(held) \in Nat
         /\ loaded \in Nat /\ cleaned \in Nat /\ cleaned <= loaded /\ loaded <= Len(Pack)
         /\ track \in Nat /\ made \in Nat
<1>1. /\ queue \in Seq(Chunks) /\ taken \in [{PA} -> Seq(Chunks)] /\ held \in Seq(Chunks)
      /\ loaded \in 0..Len(Pack) /\ cleaned \in 0..loaded
      /\ track \in 0..MaxTracks /\ made \in 0..MaxChunks-1
  BY DEF TypeOK
<1>2. Pack \in Seq(Chunks)
  BY <1>1 DEF Pack
<1>3. MaxTracks \in Nat /\ MaxChunks \in Nat
  BY MdLifeAssumption DEF MdLifeAssumption
<1>4. Len(Pack) \in Nat /\ Len(queue) \in Nat /\ Len(held) \in Nat
  BY <1>1, <1>2
<1> QED
  BY <1>1, <1>2, <1>3, <1>4

LEMMA ChunkNumbers ==
  ASSUME NEW c \in Chunks
  PROVE  c.track \in Nat /\ c.track >= 1 /\ c.track \in Tracks /\ c.index \in Nat /\ c.index >= 1
  BY DEF Chunks, Tracks

LEMMA Sets ==
  ASSUME TypeOK
  PROVE  /\ Unloaded \subseteq Chunks /\ Loaded \subseteq Chunks /\ Range(held) \subseteq Chunks
         /\ \A i \in 1..Len(queue) : queue[i] \in Unloaded
         /\ \A i \in 1..Len(Pack) : Pack[i] \in Chunks
         /\ \A i \in 1..Len(Pack) : i > loaded => Pack[i] \in Unloaded
         /\ \A i \in 1..Len(Pack) : i > cleaned => Pack[i] \in Unloaded \cup Loaded
         /\ \A i \in 1..Len(held) : held[i] \in Range(held)
  BY Types DEF Unloaded, Loaded, Range

LEMMA HandedNumbers ==
  /\ InHand.track = track /\ InHand.index = made + 1
  /\ \A t, i : ChunkOf(t, i).track = t /\ ChunkOf(t, i).index = i
  BY DEF InHand, ChunkOf

LEMMA ToBeReadIs ==
  ASSUME TypeOK
  PROVE  ToBeRead = Pending
<1> DEFINE rest == SubSeq(Pack, cleaned + 1, Len(Pack))
<1>1. /\ Len(rest) = Len(Pack) - cleaned
      /\ \A i \in 1..Len(rest) : rest[i] = Pack[cleaned + i]
      /\ DOMAIN rest = 1..Len(rest)
  BY Types
<1>2. Range(rest) = {Pack[i] : i \in cleaned+1..Len(Pack)}
  <2>1. ASSUME NEW i \in 1..Len(rest) PROVE cleaned + i \in cleaned+1..Len(Pack)
    BY <1>1, <2>1, Types
  <2>2. ASSUME NEW i \in cleaned+1..Len(Pack)
        PROVE  i - cleaned \in 1..Len(rest) /\ rest[i - cleaned] = Pack[i]
    <3>1. i - cleaned \in 1..Len(rest) /\ cleaned + (i - cleaned) = i
      BY <1>1, <2>2, Types
    <3> QED
      BY <1>1, <3>1
  <2>3. Range(rest) = {rest[i] : i \in 1..Len(rest)}
    BY <1>1 DEF Range
  <2>4. ASSUME NEW x \in {rest[i] : i \in 1..Len(rest)}
        PROVE  x \in {Pack[i] : i \in cleaned+1..Len(Pack)}
    BY <1>1, <2>1
  <2>5. ASSUME NEW x \in {Pack[i] : i \in cleaned+1..Len(Pack)}
        PROVE  x \in {rest[i] : i \in 1..Len(rest)}
    <3>1. PICK i \in cleaned+1..Len(Pack) : x = Pack[i]
      OBVIOUS
    <3> HIDE DEF rest
    <3> QED
      BY <2>2, <3>1
  <2> HIDE DEF rest
  <2> QED
    BY <2>3, <2>4, <2>5
<1>3. Range(queue) = {queue[i] : i \in 1..Len(queue)}
  BY Types DEF Range
<1>4. {Pack[i] : i \in cleaned+1..Len(Pack)} =
        {Pack[i] : i \in loaded+1..Len(Pack)} \cup {Pack[i] : i \in cleaned+1..loaded}
  BY Types
<1> QED
  BY <1>2, <1>3, <1>4 DEF ToBeRead, Pending, Unloaded, Loaded, Filled, Filling

-----------------------------------------------------------------------------
(* Types.                                                                  *)

LEMMA InHandTyped ==
  ASSUME TypeOK, Owned, Filling
  PROVE  InHand \in Chunks /\ InHand \in live /\ track \in Tracks
         /\ metaOf[track] \in Addresses /\ owner[metaOf[track]] = track
<1>1. InHand \in live /\ metaOf[InHand.track] \in Addresses
      /\ owner[metaOf[InHand.track]] = InHand.track
  BY DEF Owned, Pending, Filled
<1>2. InHand \in Chunks
  BY <1>1 DEF TypeOK
<1> QED
  BY <1>1, <1>2, ChunkNumbers, HandedNumbers

LifeEvents == {"first", "done in", "done out"}
EventLists == [EventTypes -> Seq(LifeEvents)]

LEMMA AppendTypes ==
  ASSUME NEW S, NEW s \in Seq(S), NEW e \in S
  PROVE  Append(s, e) \in Seq(S)
  OBVIOUS

LEMMA OneEvent ==
  ASSUME NEW x
  PROVE  Append(<<>>, x) = <<x>> /\ <<x>> # <<>>
  OBVIOUS

LEMMA EventListTypes ==
  /\ EmptyEvq \in EventLists
  /\ \A q \in EventLists, type \in EventTypes :
       /\ AfterRun(q, type) \in EventLists
       /\ \A e \in LifeEvents : AddEvent(q, type, e) \in EventLists
<1>1. EmptyEvq \in EventLists
  BY DEF EmptyEvq, EventLists
<1>2. ASSUME NEW q \in EventLists, NEW type \in EventTypes
      PROVE  AfterRun(q, type) \in EventLists
  BY DEF AfterRun, EventLists
<1>3. ASSUME NEW q \in EventLists, NEW type \in EventTypes, NEW e \in LifeEvents
      PROVE  AddEvent(q, type, e) \in EventLists
  <2>1. q[type] \in Seq(LifeEvents)
    BY DEF EventLists
  <2>2. Append(q[type], e) \in Seq(LifeEvents)
    BY <2>1, AppendTypes
  <2> QED
    BY <2>2 DEF AddEvent, EventLists
<1> QED
  BY <1>1, <1>2, <1>3

\* What Add does to the buffer.
LEMMA Adding ==
  ASSUME TypeOK, NEW c \in Chunks, NEW refused \in BOOLEAN, Add(c, refused)
  PROVE  /\ taken' = taken
         /\ ~refused => queue' = Append(queue, c) /\ lost' = lost
         /\ refused => queue' = queue /\ lost' = lost \cup {c}
         /\ queue' \in Seq(Chunks) /\ lost' \subseteq Chunks
<1>1. lost \subseteq Chunks /\ queue \in Seq(Chunks) /\ Append(queue, c) \in Seq(Chunks)
  BY Types, AppendTypes DEF TypeOK
<1>2. CASE ~refused
  BY <1>1, <1>2 DEF Add, Fifo!Put
<1>3. CASE refused
  BY <1>1, <1>3 DEF Add
<1> QED
  BY <1>2, <1>3

LEMMA AllocateTypes ==
  ASSUME TypeOK, NEW a \in Addresses, Allocate(a)
  PROVE  /\ track' = track + 1 /\ track' \in Tracks /\ made' = 0
         /\ owner' = [owner EXCEPT ![a] = track'] /\ owner[a] = Nobody
         /\ owner' \in [Addresses -> Tracks \cup {Nobody}]
         /\ track' \in 0..MaxTracks /\ made' \in 0..MaxChunks-1
         /\ ChunkOf(track', 1) \in Chunks
         /\ UNCHANGED <<queue, run, evq, oldmeta, lost, taken, held, loaded, cleaned, heard>>
<1>1. /\ track' = track + 1 /\ made' = 0 /\ track < MaxTracks /\ owner[a] = Nobody
      /\ owner' = [owner EXCEPT ![a] = track']
      /\ UNCHANGED <<queue, run, evq, oldmeta, lost, taken, held, loaded, cleaned, heard>>
  BY DEF Allocate, driverVars
<1>2. MaxTracks \in Nat /\ MaxChunks \in Nat /\ MaxChunks >= 1
  BY MdLifeAssumption DEF MdLifeAssumption
<1>3. track' \in 0..MaxTracks /\ made' \in 0..MaxChunks-1 /\ track' \in Tracks
  BY <1>1, <1>2, Types DEF Tracks
<1>4. owner' \in [Addresses -> Tracks \cup {Nobody}]
  BY <1>1, <1>3 DEF TypeOK
<1>5. ChunkOf(track', 1) \in Chunks
  BY <1>2, <1>3 DEF ChunkOf, Chunks
<1> QED
  BY <1>1, <1>3, <1>4, <1>5

\* What RunEvents does.
LEMMA Running ==
  ASSUME TypeOK, NEW c \in Chunks, NEW type \in EventTypes, RunEvents(c, type)
  PROVE  /\ evq' \in [Chunks -> EventLists]
         /\ evq'[c] = [evq[c] EXCEPT ![type] = <<>>]
         /\ \A d \in Chunks : d # c => evq'[d] = evq[d]
         /\ owner' \in [Addresses -> Tracks \cup {Nobody}]
         /\ \A a \in Addresses : owner'[a] # owner[a] =>
              /\ a = metaOf[c.track] /\ owner'[a] = Nobody
              /\ "done out" \in Range(evq[c][type])
         /\ \A a \in Addresses : "done out" \in Range(evq[c][type]) /\ a = metaOf[c.track] =>
              owner'[a] = Nobody
         /\ heard \in [Tracks -> Stories] =>
              /\ heard'[c.track] = heard[c.track] \o evq[c][type]
              /\ \A t \in Tracks : t # c.track => heard'[t] = heard[t]
              /\ DOMAIN heard' = Tracks /\ heard' = [t \in Tracks |-> heard'[t]]
<1>1. evq \in [Chunks -> EventLists] /\ owner \in [Addresses -> Tracks \cup {Nobody}]
  BY DEF TypeOK, EventLists, LifeEvents
<1>2. evq' = [evq EXCEPT ![c] = AfterRun(@, type)] /\ AfterRun(evq[c], type) \in EventLists
  BY <1>1, EventListTypes DEF RunEvents
<1>3. heard \in [Tracks -> Stories] =>
        /\ heard'[c.track] = heard[c.track] \o evq[c][type]
        /\ \A t \in Tracks : t # c.track => heard'[t] = heard[t]
        /\ DOMAIN heard' = Tracks /\ heard' = [t \in Tracks |-> heard'[t]]
  <2>1. heard' = [heard EXCEPT ![c.track] = @ \o evq[c][type]] /\ c.track \in Tracks
    BY ChunkNumbers DEF RunEvents, Events
  <2> QED
    BY <2>1
<1>4. CASE Frees(Events(evq[c], type))
  <2>1. owner' = [owner EXCEPT ![metaOf[c.track]] = Nobody]
        /\ "done out" \in Range(evq[c][type])
    BY <1>4 DEF RunEvents, Frees, Events
  <2> QED
    BY <1>1, <1>2, <1>3, <2>1 DEF AfterRun
<1>5. CASE ~Frees(Events(evq[c], type))
  <2>1. owner' = owner /\ "done out" \notin Range(evq[c][type])
    BY <1>5 DEF RunEvents, Frees, Events
  <2> QED
    BY <1>1, <1>2, <1>3, <2>1 DEF AfterRun
<1> QED
  BY <1>4, <1>5

-----------------------------------------------------------------------------
(* The decoder starts.                                                     *)

LEMMA StreamSame ==
  ASSUME UNCHANGED <<queue, taken, loaded, cleaned>>
  PROVE  Pack' = Pack /\ Unloaded' = Unloaded /\ Loaded' = Loaded
  BY DEF Pack, Unloaded, Loaded

\* What the invariant says of the numbers.
LEMMA Numbers ==
  ASSUME IInv
  PROVE  /\ TypeOK /\ track \in Nat /\ made \in Nat /\ NULL \notin Addresses
         /\ \A t \in Tracks : t \in Nat /\ t >= 1
         /\ \A t \in 1..track : t \in Tracks
         /\ metaOf \in [Tracks -> Addresses \cup {NULL}]
         /\ \A t \in Tracks : t > track => metaOf[t] = NULL /\ heard[t] = <<>>
         /\ heard \in [Tracks -> Stories]
         /\ owner \in [Addresses -> Tracks \cup {Nobody}]
         /\ \A a \in Addresses : owner[a] \in Nat /\ owner[a] <= track
         /\ \A c \in Pending \cup live \cup lost \cup Range(held) :
              /\ c \in Chunks /\ c.track \in Tracks /\ c.track \in Nat /\ c.track <= track
              /\ c.index \in Nat /\ c.index >= 1
<1>1. TypeOK /\ track \in Nat /\ made \in Nat /\ NULL \notin Addresses
  BY Types, MdLifeAssumption DEF IInv, MdLifeAssumption
<1>2. MaxTracks \in Nat /\ track <= MaxTracks
  <2>1. track \in 0..MaxTracks
    BY DEF IInv, TypeOK
  <2> QED
    BY <2>1, MdLifeAssumption DEF MdLifeAssumption
<1>3. /\ \A t \in Tracks : t \in Nat /\ t >= 1
      /\ \A t \in 1..track : t \in Tracks
  BY <1>1, <1>2 DEF Tracks
<1>4. /\ metaOf \in [Tracks -> Addresses \cup {NULL}]
      /\ owner \in [Addresses -> Tracks \cup {Nobody}]
      /\ live \cup lost \subseteq Chunks
  BY <1>1 DEF TypeOK
<1>5. /\ heard \in [Tracks -> Stories]
      /\ \A t \in Tracks : t > track => metaOf[t] = NULL /\ heard[t] = <<>>
  BY DEF IInv, Owned, HeardSoFar
<1>6. \A a \in Addresses : owner[a] \in Nat /\ owner[a] <= track
  BY <1>3, <1>4 DEF IInv, Owned, Nobody
<1>7. \A c \in Pending : c \in live
  BY DEF IInv, Owned
<1>8. Range(held) \subseteq Chunks
  BY <1>1, Sets
<1>9. \A c \in live \cup lost \cup Range(held) : c.track <= track
  <2>1. /\ \A c \in Range(held) : Complete(c)
        /\ \A c \in live \cup lost : Begun(c)
    BY DEF IInv, StreamInOrder
  <2> QED
    BY <1>1, <1>4, <1>8, <2>1, ChunkNumbers DEF Complete, Begun
<1>10. \A c \in Pending \cup live \cup lost \cup Range(held) : c \in Chunks /\ c.track <= track
  BY <1>4, <1>7, <1>8, <1>9
<1> QED
  BY <1>1, <1>3, <1>4, <1>5, <1>6, <1>10, ChunkNumbers

LEMMA StartKept ==
  ASSUME IInv, NEW a \in Addresses, StartTrack(a) \/ StartEmpty(a)
  PROVE  IInv'
<1>0. PICK N : N = ChunkOf(track + 1, 1)
  OBVIOUS
<1>1. /\ track' = track + 1 /\ track' \in Tracks /\ made' = 0 /\ N \in Chunks
      /\ owner'[a] = track + 1 /\ owner[a] = Nobody
      /\ \A b \in Addresses : b # a => owner'[b] = owner[b]
      /\ UNCHANGED <<queue, run, evq, oldmeta, lost, taken, held, loaded, cleaned, heard>>
      /\ ~Filling
  <2>1. TypeOK /\ Allocate(a) /\ status = "none"
    BY DEF IInv, StartTrack, StartEmpty, Allocate
  <2> QED
    BY <1>0, <2>1, AllocateTypes DEF Filling, TypeOK
<1>2. N.track = track + 1 /\ N.index = 1
  BY <1>0, HandedNumbers
<1>3. /\ \A t \in Tracks : t <= track => metaOf'[t] = metaOf[t]
      /\ \/ metaOf'[track + 1] = a /\ Filling' /\ live' = live \cup {N}
         \/ metaOf'[track + 1] = NULL /\ ~Filling' /\ live' = live
      /\ \A t \in Tracks : t > track + 1 => metaOf'[t] = NULL
  <2>1. /\ metaOf \in [Tracks -> Addresses \cup {NULL}] /\ track + 1 \in Tracks
        /\ track \in Nat /\ \A t \in Tracks : t \in Nat /\ (t > track => metaOf[t] = NULL)
    BY <1>1, Numbers
  <2>2. CASE StartTrack(a)
    <3>1. metaOf' = [metaOf EXCEPT ![track + 1] = a] /\ Filling' /\ live' = live \cup {N}
      BY <1>0, <1>1, <2>2 DEF StartTrack, Filling
    <3> QED
      BY <2>1, <3>1
  <2>3. CASE StartEmpty(a)
    <3>1. metaOf' = metaOf /\ ~Filling' /\ live' = live
      BY <2>3 DEF StartEmpty, Filling
    <3> QED
      BY <2>1, <3>1
  <2> QED
    BY <2>2, <2>3
<1>4. /\ Unloaded' = Unloaded /\ Loaded' = Loaded /\ Pack' = Pack
      /\ Filled = {} /\ Filled' = (IF Filling' THEN {N} ELSE {})
  <2>1. InHand' = N
    BY <1>0, <1>1 DEF InHand, ChunkOf
  <2> QED
    BY <1>1, <2>1, StreamSame DEF Filled
<1>5. TypeOK'
  <2>1. TypeOK /\ Allocate(a) /\ track' \in Tracks /\ status' \in Statuses
    BY <1>1 DEF IInv, StartTrack, StartEmpty, Statuses
  <2>2. metaOf' \in [Tracks -> Addresses \cup {NULL}] /\ live' \subseteq Chunks
    BY <1>1, <1>3, <2>1 DEF TypeOK, StartTrack, StartEmpty
  <2>3. /\ track' \in 0..MaxTracks /\ made' \in 0..MaxChunks-1
        /\ owner' \in [Addresses -> Tracks \cup {Nobody}]
    BY <2>1, AllocateTypes
  <2> QED
    BY <1>1, <1>4, <2>1, <2>2, <2>3 DEF TypeOK
<1>6. Pending = Unloaded \cup Loaded /\ Pending' = Unloaded \cup Loaded \cup Filled'
  BY <1>4 DEF Pending
<1>7. StreamInOrder'
  <2>1. \A c \in Chunks : Complete(c) => Complete(c)'
    BY <1>1, Numbers, ChunkNumbers DEF Complete
  <2>2. \A c \in live' \cup lost' : Begun(c)'
    BY <1>1, <1>2, <1>3, <1>6, Numbers DEF Begun
  <2>3. \A c \in Unloaded' \cup Loaded' \cup Range(held)' : Complete(c)'
    BY <1>1, <1>4, <1>6, Numbers, <2>1, Sets DEF IInv, StreamInOrder
  <2> QED
    BY <1>1, <1>4, <2>2, <2>3 DEF IInv, StreamInOrder, Sorted, Before
<1>8. EventsQueued'
  <2>1. \A c \in Chunks : ~Complete(c)' => ~Complete(c)
    BY <1>1, Numbers, ChunkNumbers DEF Complete
  <2> QED
    BY <1>1, <1>4, <2>1 DEF IInv, EventsQueued
<1>9. EndIsLast'
  BY <1>1, <1>2, <1>4, <1>6, Numbers DEF IInv, EndIsLast
<1>10. HeardSoFar'
  <2>1. heard[track + 1] = <<>>
    BY <1>1, Numbers
  <2>2. \A t \in Tracks : t > track + 1 => heard[t] = <<>>
    BY Numbers
  <2> QED
    BY <1>1, <1>2, <1>4, <2>1, <2>2 DEF IInv, HeardSoFar
<1>11. Owned'
  <2>1. ASSUME NEW c \in Unloaded \cup Loaded
        PROVE  c \in live' /\ metaOf'[c.track] \in Addresses /\ owner'[metaOf'[c.track]] = c.track
    <3>1. c \in live /\ metaOf[c.track] \in Addresses /\ owner[metaOf[c.track]] = c.track
          /\ metaOf'[c.track] = metaOf[c.track]
      BY <1>3, <1>6, Numbers DEF IInv, Owned
    <3>2. metaOf[c.track] # a
      BY <1>1, <1>6, Numbers, <3>1 DEF Nobody
    <3> QED
      BY <1>1, <1>3, <3>1, <3>2
  <2>2. \A b \in Addresses : owner'[b] <= track'
    BY <1>1, Numbers
  <2>3. Filling' => N \in live' /\ metaOf'[N.track] = a
    BY <1>2, <1>3, <1>5, MdLifeAssumption DEF MdLifeAssumption
  <2> QED
    BY <1>1, <1>2, <1>3, <1>4, <1>6, Numbers, <2>1, <2>2, <2>3 DEF Owned
<1>12. LastAnnounced'
  <2> SUFFICES ASSUME oldmeta # NULL
               PROVE  \E t \in 1..track' : metaOf'[t] = oldmeta /\ t < track'
    BY <1>1, Numbers DEF LastAnnounced
  <2>1. PICK t \in 1..track : metaOf[t] = oldmeta
    BY DEF IInv, LastAnnounced
  <2>2. t \in Tracks /\ t <= track /\ t \in 1..track' /\ t < track'
    BY <1>1, Numbers
  <2> QED
    BY <1>3, <2>1, <2>2
<1>13. Announced'
  <2>1. ASSUME NEW c \in Unloaded \cup Loaded, Reused(c.track)
        PROVE  Reused(c.track)'
    <3>1. c.track \in Tracks /\ c.track \in Nat /\ c.track <= track
      BY <1>6, Numbers
    <3>2. PICK u \in 1..c.track-1 : metaOf[u] = metaOf[c.track]
      BY <2>1 DEF Reused
    <3>3. u \in 1..track
      BY <3>1, Numbers
    <3>4. u \in Tracks /\ u <= track
      BY <3>1, <3>3, Numbers
    <3> QED
      BY <1>3, <3>1, <3>2, <3>4 DEF Reused
  <2> QED
    BY <1>1, <1>4, <2>1 DEF IInv, Announced
<1>14. Followed'
  BY <1>1, <1>4, <1>6, Numbers DEF IInv, Followed
<1>15. StillOwned'
  <2>1. \A c \in Pending \cup lost : IsYoungest(c) /\ c.track <= track => IsYoungest(c)'
    BY <1>1, <1>2, <1>3, <1>6, Numbers DEF IsYoungest
  <2>2. Filling' => IsYoungest(N)'
    BY <1>1, <1>2, <1>3, <1>6, Numbers DEF IsYoungest
  <2>3. ASSUME NEW b \in Addresses, owner'[b] # Nobody, metaOf'[owner'[b]] = b
        PROVE  \E c \in Pending' \cup lost' : c.track = owner'[b] /\ IsYoungest(c)'
    <3>1. CASE b = a
      <4>1. Filling' /\ N \in Pending'
        BY <1>1, <1>3, <1>4, <1>6, Numbers, <2>3, <3>1, MdLifeAssumption DEF MdLifeAssumption
      <4> QED
        BY <1>1, <1>2, <2>2, <3>1, <4>1
    <3>2. CASE b # a
      <4>1. owner'[b] = owner[b] /\ owner[b] \in Tracks /\ owner[b] <= track
        BY <1>1, <2>3, <3>2 DEF IInv, TypeOK, Owned
      <4>2. PICK c \in Pending \cup lost : c.track = owner[b] /\ IsYoungest(c)
        BY <1>3, <2>3, <4>1 DEF IInv, StillOwned
      <4> QED
        BY <1>1, <1>6, Numbers, <2>1, <4>1, <4>2
    <3> QED
      BY <3>1, <3>2
  <2>4. live' \subseteq Pending' \cup Range(held)' \cup lost'
    BY <1>1, <1>3, <1>4, <1>6, Numbers DEF IInv, StillOwned
  <2> QED
    BY <2>3, <2>4 DEF StillOwned
<1> QED
  BY <1>5, <1>7, <1>8, <1>9, <1>10, <1>11, <1>12, <1>13, <1>14, <1>15 DEF IInv

-----------------------------------------------------------------------------
(* The decoder completes a chunk.                                          *)

\* A chunk that is complete comes before the one in hand.
LEMMA InHandIsNext ==
  ASSUME IInv, Filling
  PROVE  /\ InHand \in Pending /\ InHand \in Chunks /\ ~Complete(InHand)
         /\ track \in Tracks /\ metaOf[track] \in Addresses /\ owner[metaOf[track]] = track
         /\ evq[InHand] = EmptyEvq
         /\ \A c \in Unloaded \cup Loaded \cup Range(held) :
              c # InHand /\ Complete(c) /\ Before(c, InHand)
         /\ \A c \in Chunks : c.track = track /\ c.index = made + 1 => c = InHand
<1>1. InHand \in Pending /\ InHand \in Chunks /\ InHand.track = track /\ InHand.index = made + 1
  BY InHandTyped, HandedNumbers DEF IInv, Pending, Filled
<1>2. track \in Tracks /\ metaOf[track] \in Addresses /\ owner[metaOf[track]] = track
  BY InHandTyped DEF IInv
<1>3. ~Complete(InHand)
  BY <1>1, Numbers DEF Complete
<1>4. ASSUME NEW c \in Unloaded \cup Loaded \cup Range(held)
      PROVE  c # InHand /\ Complete(c) /\ Before(c, InHand)
  <2>1. Complete(c) /\ c \in Chunks
    BY Numbers DEF IInv, StreamInOrder, Pending
  <2> QED
    BY <1>1, <1>3, <2>1, Numbers, ChunkNumbers DEF Complete, Before
<1>5. \A c \in Chunks : c.track = track /\ c.index = made + 1 => c = InHand
  BY DEF Chunks, InHand, ChunkOf
<1>6. evq[InHand] = EmptyEvq
  BY <1>1, <1>3 DEF IInv, EventsQueued
<1> QED
  BY <1>1, <1>2, <1>3, <1>4, <1>5, <1>6

LEMMA AddStream ==
  ASSUME IInv, Filling, NEW C, C = InHand, NEW refused \in BOOLEAN, Add(C, refused),
         UNCHANGED <<loaded, cleaned>>
  PROVE  /\ Pack' = Pack /\ Loaded' = Loaded
         /\ Unloaded \subseteq Unloaded' /\ Unloaded' \subseteq Unloaded \cup {C}
         /\ lost \subseteq lost' /\ lost' \subseteq lost \cup {C}
         /\ C \in Unloaded' \cup lost'
         /\ queue' \in Seq(Chunks) /\ lost' \subseteq Chunks /\ taken' = taken
         /\ Sorted(queue') /\ Sorted(Pack)
         /\ \A i \in cleaned+1..Len(Pack), j \in 1..Len(queue') : Before(Pack[i], queue'[j])
<1>1. /\ C \in Chunks
      /\ \A c \in Unloaded \cup Loaded : Before(c, C)
  BY InHandIsNext
<1>2. /\ taken' = taken
      /\ ~refused => queue' = Append(queue, C) /\ lost' = lost
      /\ refused => queue' = queue /\ lost' = lost \cup {C}
      /\ queue' \in Seq(Chunks) /\ lost' \subseteq Chunks
  BY <1>1, Adding DEF IInv
<1>3. Pack' = Pack /\ Loaded' = Loaded
  BY <1>2 DEF Pack, Loaded
<1>4. /\ Sorted(queue) /\ Sorted(Pack)
      /\ \A i \in cleaned+1..Len(Pack), j \in 1..Len(queue) : Before(Pack[i], queue[j])
  BY DEF IInv, StreamInOrder
<1>5. CASE refused
  <2>1. Unloaded' = Unloaded
    BY <1>2, <1>3, <1>5 DEF Unloaded
  <2> QED
    BY <1>2, <1>3, <1>4, <1>5, <2>1
<1>6. CASE ~refused
  <2>1. /\ Len(queue) \in Nat /\ Len(queue') = Len(queue) + 1
        /\ \A j \in 1..Len(queue) : queue'[j] = queue[j]
        /\ queue'[Len(queue) + 1] = C
    BY <1>1, <1>2, <1>6, Types DEF IInv
  <2>2. \A j \in 1..Len(queue') : j \in 1..Len(queue) \/ j = Len(queue) + 1
    BY <2>1
  <2>3. Unloaded' = Unloaded \cup {C}
    <3>1. {queue'[j] : j \in 1..Len(queue')} = {queue[j] : j \in 1..Len(queue)} \cup {C}
      BY <2>1, <2>2
    <3> QED
      BY <1>2, <1>3, <3>1 DEF Unloaded
  <2>4. \A j \in 1..Len(queue) : Before(queue[j], C)
    BY <1>1, Sets DEF IInv
  <2>5. Sorted(queue')
    <3> SUFFICES ASSUME NEW i \in 1..Len(queue'), NEW j \in 1..Len(queue'), i < j
                 PROVE  Before(queue'[i], queue'[j])
      BY DEF Sorted
    <3>1. i \in 1..Len(queue)
      BY <2>1
    <3> QED
      BY <1>4, <2>1, <2>2, <2>4, <3>1 DEF Sorted
  <2>6. \A i \in cleaned+1..Len(Pack) : Before(Pack[i], C)
    BY <1>1, Sets, Types DEF IInv
  <2> QED
    BY <1>2, <1>3, <1>4, <1>6, <2>1, <2>2, <2>3, <2>5, <2>6
<1> QED
  BY <1>5, <1>6

\* The history of what was given up, or put into the buffer, keeps every track's
\* youngest chunk.
LEMMA OwnedStill ==
  ASSUME IInv, UNCHANGED <<owner, metaOf>>,
         Pending \cup lost \subseteq Pending' \cup lost',
         live' \cup lost' \subseteq live \cup lost,
         live' \subseteq Pending' \cup Range(held') \cup lost'
  PROVE  StillOwned'
<1>1. \A c \in Pending \cup lost : IsYoungest(c) => IsYoungest(c)'
  BY DEF IsYoungest
<1>2. ASSUME NEW a \in Addresses, owner[a] # Nobody, metaOf[owner[a]] = a
      PROVE  \E c \in Pending' \cup lost' : c.track = owner[a] /\ IsYoungest(c)'
  <2>1. PICK c \in Pending \cup lost : c.track = owner[a] /\ IsYoungest(c)
    BY <1>2 DEF IInv, StillOwned
  <2> QED
    BY <1>1, <2>1
<1> QED
  BY <1>2 DEF StillOwned

LEMMA LastChunkKept ==
  ASSUME IInv, NEW refused \in BOOLEAN, LastChunk(refused)
  PROVE  IInv'
<1>0. PICK C : C = InHand
  OBVIOUS
<1>1. /\ Filling /\ ~Filling' /\ status' = "none" /\ Filled = {C} /\ Filled' = {}
      /\ UNCHANGED <<held, live, run, track, made, metaOf, owner, oldmeta, loaded, cleaned, heard>>
      /\ Add(C, refused)
      /\ evq' = [evq EXCEPT ![C] =
                   AddEvent(AddEvent(@, "in", "done in"), "out", "done out")]
  BY <1>0 DEF LastChunk, Filling, Filled
<1>2. /\ C \in Pending /\ C \in Chunks /\ ~Complete(C) /\ evq[C] = EmptyEvq
      /\ C.track = track /\ C.index = made + 1
      /\ \A c \in Unloaded \cup Loaded \cup Range(held) : c # C /\ Complete(c) /\ Before(c, C)
      /\ \A c \in Chunks : c.track = track /\ c.index = made + 1 => c = C
  BY <1>0, <1>1, InHandIsNext, HandedNumbers
<1>3. /\ Pack' = Pack /\ Loaded' = Loaded
      /\ Unloaded \subseteq Unloaded' /\ Unloaded' \subseteq Unloaded \cup {C}
      /\ lost \subseteq lost' /\ lost' \subseteq lost \cup {C}
      /\ C \in Unloaded' \cup lost'
      /\ queue' \in Seq(Chunks) /\ lost' \subseteq Chunks /\ taken' = taken
      /\ Sorted(queue') /\ Sorted(Pack)
      /\ \A i \in cleaned+1..Len(Pack), j \in 1..Len(queue') : Before(Pack[i], queue'[j])
  BY <1>0, <1>1, AddStream
<1>4. /\ \A c \in Chunks : c # C => evq'[c] = evq[c]
      /\ evq'[C]["in"] = <<"done in">> /\ evq'[C]["out"] = <<"done out">>
      /\ evq' \in [Chunks -> EventLists]
  <2>1. evq \in [Chunks -> EventLists] /\ EmptyEvq \in EventLists
    BY Numbers, EventListTypes DEF TypeOK, EventLists, LifeEvents
  <2>2. PICK e : e = AddEvent(AddEvent(EmptyEvq, "in", "done in"), "out", "done out")
    OBVIOUS
  <2>3. e \in EventLists
    <3>1. /\ "in" \in EventTypes /\ "out" \in EventTypes
          /\ "done in" \in LifeEvents /\ "done out" \in LifeEvents
      BY DEF EventTypes, LifeEvents
    <3> QED
      BY <2>1, <2>2, <3>1, EventListTypes
  <2>4. e["in"] = <<"done in">> /\ e["out"] = <<"done out">>
    <3>1. e["in"] = Append(<<>>, "done in") /\ e["out"] = Append(<<>>, "done out")
      BY <2>2 DEF AddEvent, EmptyEvq, EventTypes
    <3> QED
      BY <3>1, OneEvent
  <2>5. evq' = [evq EXCEPT ![C] = e]
    BY <1>1, <1>2, <2>2
  <2> QED
    BY <1>2, <2>1, <2>3, <2>4, <2>5
<1>5. Pending' = Unloaded' \cup Loaded /\ Pending = Unloaded \cup Loaded \cup {C}
  BY <1>1, <1>3 DEF Pending
<1>6. /\ \A c \in Chunks : Complete(c)' <=> Complete(c) \/ c = C
      /\ \A c \in Chunks : Begun(c)' <=> Begun(c)
  <2>1. \A c \in Chunks : c.track = track /\ c.index = made + 1 <=> c = C
    BY <1>2
  <2>2. ASSUME NEW c \in Chunks
        PROVE  Complete(c)' <=> Complete(c) \/ (c.track = track /\ c.index = made + 1)
    <3>1. Complete(c) <=> c.track < track \/ (c.track = track /\ c.index <= made)
      BY <1>1 DEF Complete
    <3>2. Complete(c)' <=> c.track < track \/ (c.track = track /\ c.index <= made + 1)
      BY <1>1 DEF Complete
    <3>3. made \in Nat /\ c.index \in Nat
      BY Numbers, ChunkNumbers
    <3>4. c.index <= made + 1 <=> c.index <= made \/ c.index = made + 1
      BY <3>3
    <3> QED
      BY <3>1, <3>2, <3>4
  <2>3. \A c \in Chunks : Begun(c)' <=> Begun(c)
    BY <1>1 DEF Begun
  <2> QED
    BY <2>1, <2>2, <2>3
<1>7. TypeOK'
  <2>1. status' \in Statuses
    BY <1>1 DEF Statuses
  <2> QED
    BY <1>1, <1>3, <1>4, <2>1, Numbers DEF TypeOK, EventLists, LifeEvents
<1>8. StreamInOrder'
  <2>1. \A c \in Unloaded' \cup Loaded \cup Range(held) : c \in Chunks /\ Complete(c)'
    BY <1>2, <1>3, <1>6, Numbers DEF Pending
  <2>2. \A c \in live \cup lost' : Begun(c)'
    <3>1. \A c \in live \cup lost' : c \in live \cup lost
      BY <1>2, <1>3 DEF IInv, Owned
    <3> QED
      BY <1>6, <3>1, Numbers DEF IInv, StreamInOrder
  <2>3. \A c \in Range(held), d \in Unloaded' \cup Loaded : Before(c, d)
    BY <1>2, <1>3 DEF IInv, StreamInOrder
  <2> QED
    BY <1>1, <1>3, <2>1, <2>2, <2>3 DEF IInv, StreamInOrder, Sorted
<1>9. EventsQueued'
  <2>1. \A c \in Chunks : ~Complete(c)' => evq'[c] = EmptyEvq
    BY <1>4, <1>6 DEF IInv, EventsQueued
  <2> QED
    BY <1>1, <1>2, <1>3, <1>4, <2>1, Numbers DEF IInv, EventsQueued, Pending
<1>10. EndIsLast'
  <2> SUFFICES ASSUME NEW c \in Unloaded' \cup Loaded', NEW d \in Pending',
                      evq'[c]["out"] # <<>>, d.track = c.track
               PROVE  d.index <= c.index
    BY DEF EndIsLast
  <2>1. d \in Chunks /\ Complete(d)'
    BY <1>2, <1>3, <1>5, <1>6, Numbers DEF Pending
  <2>2. CASE c = C
    BY <1>1, <1>2, <2>1, <2>2, Numbers, ChunkNumbers DEF Complete
  <2>3. CASE c # C
    <3>1. c \in Unloaded \cup Loaded /\ d \in Pending /\ evq[c]["out"] # <<>>
      BY <1>3, <1>4, <1>5, <2>3, Numbers DEF Pending
    <3> QED
      BY <3>1 DEF IInv, EndIsLast
  <2> QED
    BY <2>2, <2>3
<1>11. HeardSoFar'
  <2>1. \A c \in Loaded : evq'[c] = evq[c]
    BY <1>2, <1>4, Numbers DEF Pending
  <2> QED
    BY <1>1, <1>3, <2>1 DEF IInv, HeardSoFar
<1>12. Owned'
  BY <1>1, <1>3, <1>5 DEF IInv, Owned
<1>13. LastAnnounced'
  BY <1>1 DEF IInv, LastAnnounced
<1>14. Announced'
  <2>1. \A t : Reused(t)' <=> Reused(t)
    BY <1>1 DEF Reused
  <2>2. \A c \in Unloaded \cup Loaded : evq'[c] = evq[c]
    BY <1>2, <1>4, Numbers DEF Pending
  <2>3. evq'[C]["out"] # <<>>
    BY <1>4, OneEvent
  <2> QED
    BY <1>1, <1>3, <2>1, <2>2, <2>3 DEF IInv, Announced
<1>15. Followed'
  <2>1. \A c \in Unloaded \cup Loaded : evq'[c] = evq[c]
    BY <1>2, <1>4, Numbers DEF Pending
  <2>2. evq'[C]["out"] # <<>>
    BY <1>4, OneEvent
  <2> QED
    BY <1>3, <1>5, <2>1, <2>2 DEF IInv, Followed
<1>16. StillOwned'
  <2>1. Pending \cup lost \subseteq Pending' \cup lost'
    BY <1>3, <1>5
  <2>2. live' \cup lost' \subseteq live \cup lost
    BY <1>1, <1>2, <1>3 DEF IInv, Owned
  <2>3. live' \subseteq Pending' \cup Range(held') \cup lost'
    BY <1>1, <2>1 DEF IInv, StillOwned
  <2> QED
    BY <1>1, <2>1, <2>2, <2>3, OwnedStill
<1> QED
  BY <1>7, <1>8, <1>9, <1>10, <1>11, <1>12, <1>13, <1>14, <1>15, <1>16 DEF IInv

LEMMA NextChunkKept ==
  ASSUME IInv, NEW refused \in BOOLEAN, NextChunk(refused)
  PROVE  IInv'
<1>0. PICK C, D : C = InHand /\ D = ChunkOf(track, made + 2)
  OBVIOUS
<1>1. /\ Filling /\ Filling' /\ status = "decoding" /\ status' \in {"decoding", "aborted"}
      /\ UNCHANGED <<held, run, track, metaOf, owner, loaded, cleaned, heard>>
      /\ made + 2 <= MaxChunks /\ made' = made + 1
      /\ live' = live \cup {D} /\ oldmeta' = metaOf[track]
      /\ Add(C, refused)
      /\ evq' = IF IsNew THEN [evq EXCEPT ![C] = AddEvent(@, "in", "first")] ELSE evq
  BY <1>0 DEF NextChunk, Filling
<1>2. /\ C \in Pending /\ C \in Chunks /\ ~Complete(C) /\ evq[C] = EmptyEvq
      /\ C.track = track /\ C.index = made + 1
      /\ track \in Tracks /\ metaOf[track] \in Addresses /\ owner[metaOf[track]] = track
      /\ \A c \in Unloaded \cup Loaded \cup Range(held) : c # C /\ Complete(c) /\ Before(c, C)
      /\ \A c \in Chunks : c.track = track /\ c.index = made + 1 => c = C
  BY <1>0, <1>1, InHandIsNext, HandedNumbers
<1>3. D \in Chunks /\ D.track = track /\ D.index = made + 2 /\ Filled = {C} /\ Filled' = {D}
  <2>1. made \in Nat /\ MaxChunks \in Nat /\ track \in Tracks
    BY <1>2, Numbers, MdLifeAssumption DEF MdLifeAssumption
  <2>2. D \in Chunks
    BY <1>0, <1>1, <2>1 DEF ChunkOf, Chunks
  <2>3. InHand' = D
    <3>1. made + 1 + 1 = made + 2
      BY <2>1
    <3> QED
      BY <1>0, <1>1, <3>1 DEF InHand, ChunkOf
  <2> QED
    BY <1>0, <1>1, <2>2, <2>3, HandedNumbers DEF Filled
<1>4. /\ Pack' = Pack /\ Loaded' = Loaded
      /\ Unloaded \subseteq Unloaded' /\ Unloaded' \subseteq Unloaded \cup {C}
      /\ lost \subseteq lost' /\ lost' \subseteq lost \cup {C}
      /\ C \in Unloaded' \cup lost'
      /\ queue' \in Seq(Chunks) /\ lost' \subseteq Chunks /\ taken' = taken
      /\ Sorted(queue') /\ Sorted(Pack)
      /\ \A i \in cleaned+1..Len(Pack), j \in 1..Len(queue') : Before(Pack[i], queue'[j])
  BY <1>0, <1>1, AddStream
<1>5. /\ Pending = Unloaded \cup Loaded \cup {C}
      /\ Pending' = Unloaded' \cup Loaded \cup {D}
      /\ Pending \subseteq Pending' \cup lost'
  BY <1>3, <1>4 DEF Pending
<1>6. /\ \A c \in Chunks : c # C => evq'[c] = evq[c]
      /\ evq'[C]["out"] = <<>> /\ evq' \in [Chunks -> EventLists]
      /\ IF IsNew THEN evq'[C]["in"] = <<"first">> ELSE evq'[C] = EmptyEvq
  <2>1. evq \in [Chunks -> EventLists] /\ EmptyEvq \in EventLists /\ EmptyEvq["out"] = <<>>
    BY Numbers, EventListTypes DEF TypeOK, EventLists, LifeEvents, EmptyEvq, EventTypes
  <2>2. CASE IsNew
    <3>1. PICK e : e = AddEvent(EmptyEvq, "in", "first")
      OBVIOUS
    <3>2. e \in EventLists
      BY <2>1, <3>1, EventListTypes, "in" \in EventTypes, "first" \in LifeEvents
         DEF EventTypes, LifeEvents
    <3>3. e["in"] = <<"first">> /\ e["out"] = <<>>
      <4>1. e["in"] = Append(<<>>, "first") /\ e["out"] = <<>>
        BY <3>1 DEF AddEvent, EmptyEvq, EventTypes
      <4> QED
        BY <4>1, OneEvent
    <3>4. evq' = [evq EXCEPT ![C] = e]
      BY <1>1, <1>2, <2>2, <3>1
    <3> QED
      BY <1>2, <2>1, <2>2, <3>2, <3>3, <3>4
  <2>3. CASE ~IsNew
    BY <1>1, <1>2, <2>1, <2>3
  <2> QED
    BY <2>2, <2>3
<1>7. /\ IsNew => C.index = 1
      /\ C.index = 1 => IsNew \/ Reused(track)
  <2>1. made \in Nat /\ metaOf[track] # NULL
    BY <1>2, Numbers
  <2>2. IsNew => C.index = 1
    <3>1. made > 0 => oldmeta = metaOf[track]
      BY <1>1 DEF IInv, LastAnnounced
    <3> QED
      BY <1>2, <2>1, <3>1 DEF IsNew
  <2>3. ASSUME C.index = 1, ~IsNew
        PROVE  Reused(track)
    <3>1. oldmeta = metaOf[track] /\ oldmeta # NULL /\ made = 0
      BY <1>2, <2>1, <2>3 DEF IsNew
    <3>2. PICK t \in 1..track : metaOf[t] = oldmeta /\ t < track
      BY <1>1, <3>1 DEF IInv, LastAnnounced
    <3>3. t \in 1..track-1
      BY <3>2, Numbers
    <3> QED
      BY <3>1, <3>2, <3>3 DEF Reused
  <2> QED
    BY <2>2, <2>3
<1>8. /\ \A c \in Chunks : Complete(c)' <=> Complete(c) \/ c = C
      /\ \A c \in Chunks : Begun(c) => Begun(c)'
      /\ Begun(C)' /\ Begun(D)'
  <2>1. ASSUME NEW c \in Chunks
        PROVE  (Complete(c)' <=> Complete(c) \/ c = C) /\ (Begun(c) => Begun(c)')
    <3>1. Complete(c) <=> c.track < track \/ (c.track = track /\ c.index <= made)
      BY <1>1 DEF Complete
    <3>2. Complete(c)' <=> c.track < track \/ (c.track = track /\ c.index <= made + 1)
      BY <1>1 DEF Complete
    <3>3. made \in Nat /\ c.index \in Nat
      BY Numbers, ChunkNumbers
    <3>4. c.index <= made + 1 <=> c.index <= made \/ c.index = made + 1
      BY <3>3
    <3>5. Begun(c) => Begun(c)'
      BY <1>1, <3>3 DEF Begun
    <3> QED
      BY <1>2, <3>1, <3>2, <3>4, <3>5
  <2>2. Begun(C)' /\ Begun(D)'
    <3>1. made \in Nat
      BY Numbers
    <3> QED
      BY <1>1, <1>2, <1>3, <3>1 DEF Begun
  <2> QED
    BY <2>1, <2>2
<1>9. TypeOK'
  <2>1. status' \in Statuses /\ oldmeta' \in Addresses \cup {NULL} /\ live' \subseteq Chunks
    BY <1>1, <1>2, <1>3, Numbers DEF TypeOK, Statuses
  <2>2. made' \in 0..MaxChunks-1
    BY <1>1, Numbers, MdLifeAssumption DEF MdLifeAssumption
  <2> QED
    BY <1>1, <1>4, <1>6, <2>1, <2>2, Numbers DEF TypeOK, EventLists, LifeEvents
<1>10. StreamInOrder'
  <2>1. \A c \in Unloaded' \cup Loaded \cup Range(held) : c \in Chunks /\ Complete(c)'
    BY <1>2, <1>4, <1>8, Numbers DEF Pending
  <2>2. \A c \in live' \cup lost' : Begun(c)'
    <3>1. \A c \in live \cup lost : Begun(c)'
      BY <1>8, Numbers DEF IInv, StreamInOrder
    <3> QED
      BY <1>1, <1>4, <1>8, <3>1
  <2>3. \A c \in Range(held), d \in Unloaded' \cup Loaded : Before(c, d)
    BY <1>2, <1>4 DEF IInv, StreamInOrder
  <2> QED
    BY <1>1, <1>4, <2>1, <2>2, <2>3 DEF IInv, StreamInOrder, Sorted
<1>11. \A c \in Unloaded \cup Loaded \cup Range(held) : evq'[c] = evq[c]
  BY <1>2, <1>6, Numbers DEF Pending
<1>12. EventsQueued'
  <2>1. \A c \in Chunks : ~Complete(c)' => evq'[c] = EmptyEvq
    BY <1>6, <1>8 DEF IInv, EventsQueued
  <2>2. \/ evq'[C] = EmptyEvq
        \/ C.index = 1 /\ evq'[C]["in"] = <<"first">> /\ evq'[C]["out"] = <<>>
    BY <1>6, <1>7
  <2> QED
    BY <1>1, <1>4, <1>11, <2>1, <2>2 DEF IInv, EventsQueued
<1>13. EndIsLast'
  <2> SUFFICES ASSUME NEW c \in Unloaded' \cup Loaded', NEW d \in Pending',
                      evq'[c]["out"] # <<>>, d.track = c.track
               PROVE  d.index <= c.index
    BY DEF EndIsLast
  <2>1. c # C /\ c \in Unloaded \cup Loaded /\ evq[c]["out"] # <<>>
    BY <1>4, <1>6, <1>11
  <2>2. \A e \in Pending : e.track = c.track => e.index <= c.index
    BY <2>1 DEF IInv, EndIsLast
  <2>3. CASE d = D
    <3>1. C.index <= c.index
      BY <1>2, <1>3, <2>2, <2>3
    <3>2. Before(c, C) /\ c.track = track
      BY <1>2, <1>3, <2>1, <2>3
    <3> QED
      BY <1>2, <2>1, <3>1, <3>2, Numbers DEF Before, Pending
  <2>4. CASE d # D
    BY <1>4, <1>5, <2>2, <2>4
  <2> QED
    BY <2>3, <2>4
<1>14. HeardSoFar'
  <2>1. heard[track] \in {<<>>, <<"first">>} /\ D.index # 1
    <3>1. heard[C.track] \in {<<>>, <<"first">>}
      BY <1>3 DEF IInv, HeardSoFar
    <3> QED
      BY <1>2, <1>3, <3>1, Numbers
  <2> QED
    BY <1>1, <1>3, <1>4, <1>11, <2>1 DEF IInv, HeardSoFar
<1>15. Owned'
  BY <1>1, <1>2, <1>3, <1>4, <1>5 DEF IInv, Owned
<1>16. LastAnnounced'
  <2>1. track \in 1..track /\ made' # 0
    BY <1>1, <1>2, Numbers
  <2> QED
    BY <1>1, <2>1 DEF LastAnnounced
<1>17. Announced'
  <2>1. \A t : Reused(t)' <=> Reused(t)
    BY <1>1 DEF Reused
  <2>2. C.index = 1 => evq'[C]["in"] = <<"first">> \/ Reused(C.track)
    BY <1>2, <1>6, <1>7
  <2> QED
    BY <1>1, <1>4, <1>11, <2>1, <2>2 DEF IInv, Announced
<1>18. Followed'
  <2>1. ChunkOf(C.track, C.index + 1) \in Pending'
    <3>1. made + 1 + 1 = made + 2
      BY Numbers
    <3> QED
      BY <1>0, <1>2, <1>3, <1>5, <3>1
  <2> QED
    BY <1>4, <1>5, <1>11, <2>1 DEF IInv, Followed
<1>19. StillOwned'
  <2>1. live' \cup lost' \subseteq live \cup lost \cup {D}
    BY <1>1, <1>2, <1>4 DEF IInv, Owned
  <2>2. IsYoungest(D)'
    <3> SUFFICES ASSUME NEW d \in live \cup lost, d.track = track
                 PROVE  d.index <= D.index
      BY <1>3, <2>1, Numbers DEF IsYoungest
    <3>1. Begun(d)
      BY DEF IInv, StreamInOrder
    <3> QED
      BY <1>3, <3>1, Numbers DEF Begun
  <2>3. ASSUME NEW a \in Addresses, owner[a] # Nobody, metaOf[owner[a]] = a
        PROVE  \E c \in Pending' \cup lost' : c.track = owner[a] /\ IsYoungest(c)'
    <3>1. PICK c \in Pending \cup lost : c.track = owner[a] /\ IsYoungest(c)
      BY <2>3 DEF IInv, StillOwned
    <3>2. CASE c.track = track
      BY <1>3, <1>5, <2>2, <3>1, <3>2
    <3>3. CASE c.track # track
      <4>1. IsYoungest(c)'
        BY <1>3, <2>1, <3>1, <3>3 DEF IsYoungest
      <4> QED
        BY <1>4, <1>5, <3>1, <4>1
    <3> QED
      BY <3>2, <3>3
  <2>4. live' \subseteq Pending' \cup Range(held') \cup lost'
    BY <1>1, <1>4, <1>5 DEF IInv, StillOwned
  <2> QED
    BY <1>1, <2>3, <2>4 DEF StillOwned
<1> QED
  BY <1>9, <1>10, <1>12, <1>13, <1>14, <1>15, <1>16, <1>17, <1>18, <1>19 DEF IInv

-----------------------------------------------------------------------------
(* Chunks are given up, cleaned away or taken out of the buffer.           *)

LEMMA FewerKept ==
  ASSUME IInv, TypeOK', Sorted(queue'), Sorted(Pack'),
         \A i \in cleaned'+1..Len(Pack'), j \in 1..Len(queue') : Before(Pack'[i], queue'[j]),
         cleaned' > 0 => loaded' = Len(Pack'),
         Unloaded' \subseteq Unloaded, Loaded' \subseteq Loaded,
         Pending \cup lost \subseteq Pending' \cup lost',
         Range(held') \subseteq Range(held), live' \subseteq live,
         live' \cup lost' \subseteq live \cup lost,
         live' \subseteq Pending' \cup Range(held') \cup lost',
         \A c \in Pending' : c \in live',
         UNCHANGED <<track, made, metaOf, owner, oldmeta, heard, evq>>,
         status' = status \/ ~Filling'
  PROVE  IInv'
<1>1. /\ Filled' \subseteq Filled
      /\ Filling' => Filling
      /\ status' = "decoding" => status = "decoding"
  <2>1. InHand' = InHand
    BY DEF InHand, ChunkOf
  <2> QED
    BY <2>1 DEF Filled, Filling
<1>2. Pending' \subseteq Pending
  BY <1>1 DEF Pending
<1>3. \A c \in Chunks : (Complete(c) => Complete(c)') /\ (Begun(c) <=> Begun(c)')
  <2> SUFFICES ASSUME NEW c \in Chunks
               PROVE  (Complete(c) => Complete(c)') /\ (Begun(c) <=> Begun(c)')
    OBVIOUS
  <2>1. made \in Nat /\ c.index \in Nat
    BY Numbers, ChunkNumbers
  <2> QED
    BY <1>1, <2>1 DEF Complete, Begun
<1>4. StreamInOrder'
  <2>1. \A c \in Unloaded' \cup Loaded' \cup Range(held') : c \in Chunks /\ Complete(c)'
    BY <1>3, Numbers DEF IInv, StreamInOrder, Pending
  <2>2. \A c \in live' \cup lost' : Begun(c)'
    BY <1>3, Numbers DEF IInv, StreamInOrder
  <2>3. \A c \in Range(held'), d \in Unloaded' \cup Loaded' : Before(c, d)
    BY DEF IInv, StreamInOrder
  <2> QED
    BY <2>1, <2>2, <2>3 DEF StreamInOrder, Sorted
<1>5. EventsQueued'
  BY <1>3 DEF IInv, EventsQueued
<1>6. EndIsLast'
  BY <1>2 DEF IInv, EndIsLast
<1>7. HeardSoFar'
  BY <1>1 DEF IInv, HeardSoFar
<1>8. Owned'
  BY <1>2 DEF IInv, Owned
<1>9. LastAnnounced'
  BY <1>1 DEF IInv, LastAnnounced
<1>10. Announced'
  <2>1. \A t : Reused(t)' <=> Reused(t)
    BY DEF Reused
  <2> QED
    BY <2>1 DEF IInv, Announced
<1>11. Followed'
  BY DEF IInv, Followed
<1>12. StillOwned'
  BY OwnedStill
<1> QED
  BY <1>4, <1>5, <1>6, <1>7, <1>8, <1>9, <1>10, <1>11, <1>12 DEF IInv

\* Steps that leave the chunks where they are.
LEMMA AsideKept ==
  ASSUME IInv, run' \in BOOLEAN,
         UNCHANGED <<queue, taken, held, live, evq, track, made, status, metaOf,
                     owner, oldmeta, loaded, cleaned, heard, lost>>
  PROVE  IInv'
<1>1. Unloaded' = Unloaded /\ Loaded' = Loaded /\ Pack' = Pack
  BY StreamSame
<1>2. Pending' = Pending /\ (status' = status \/ ~Filling')
  BY <1>1 DEF Pending, Filled, Filling, InHand, ChunkOf
<1>3. TypeOK'
  BY <1>1 DEF IInv, TypeOK
<1>4. \A c \in Pending' : c \in live'
  BY <1>2 DEF IInv, Owned
<1>5. /\ Sorted(queue') /\ Sorted(Pack') /\ (cleaned' > 0 => loaded' = Len(Pack'))
      /\ \A i \in cleaned'+1..Len(Pack'), j \in 1..Len(queue') : Before(Pack'[i], queue'[j])
  BY <1>1 DEF IInv, StreamInOrder
<1>6. live' \subseteq Pending' \cup Range(held') \cup lost'
  BY <1>2 DEF IInv, StillOwned
<1> QED
  BY <1>1, <1>2, <1>3, <1>4, <1>5, <1>6, FewerKept

LEMMA GiveUpKept ==
  ASSUME IInv, GiveUp
  PROVE  IInv'
<1>1. /\ Filling /\ ~Filling' /\ status' = "orphaned" /\ lost' = lost \cup {InHand}
      /\ UNCHANGED <<queue, taken, held, live, run, evq, track, made, metaOf,
                     owner, oldmeta, loaded, cleaned, heard>>
  BY DEF GiveUp, driverVars, Filling
<1>2. Unloaded' = Unloaded /\ Loaded' = Loaded /\ Pack' = Pack
  BY <1>1, StreamSame
<1>3. InHand \in Chunks /\ InHand \in live
  BY <1>1, InHandTyped DEF IInv
<1>4. Pending = Unloaded \cup Loaded \cup {InHand} /\ Pending' = Unloaded \cup Loaded
  BY <1>1, <1>2 DEF Pending, Filled
<1>5. TypeOK'
  <2>1. status' \in Statuses
    BY <1>1 DEF Statuses
  <2> QED
    BY <1>1, <1>2, <1>3, <2>1 DEF IInv, TypeOK
<1>6. \A c \in Pending' : c \in live'
  BY <1>1, <1>4 DEF IInv, Owned
<1>7. /\ Sorted(queue') /\ Sorted(Pack') /\ (cleaned' > 0 => loaded' = Len(Pack'))
      /\ \A i \in cleaned'+1..Len(Pack'), j \in 1..Len(queue') : Before(Pack'[i], queue'[j])
  BY <1>1, <1>2 DEF IInv, StreamInOrder
<1>8. live' \subseteq Pending' \cup Range(held') \cup lost'
  BY <1>1, <1>4 DEF IInv, StillOwned
<1> QED
  BY <1>1, <1>2, <1>3, <1>4, <1>5, <1>6, <1>7, <1>8, FewerKept

\* A pack that is forgotten.
LEMMA ForgetPack ==
  ASSUME IInv, Fifo!Forget(PA), loaded' = 0, cleaned' = 0
  PROVE  /\ queue' = queue /\ Pack' = <<>> /\ Len(Pack') = 0
         /\ taken' \in [{PA} -> Seq(Chunks)]
         /\ Sorted(queue') /\ Sorted(Pack')
         /\ \A i \in cleaned'+1..Len(Pack'), j \in 1..Len(queue') : Before(Pack'[i], queue'[j])
         /\ Unloaded' = {queue[i] : i \in 1..Len(queue)} /\ Loaded' = {}
<1>1. /\ queue' = queue /\ taken' = [taken EXCEPT ![PA] = <<>>]
      /\ taken \in [{PA} -> Seq(Chunks)]
  BY DEF Fifo!Forget, IInv, TypeOK
<1>2. taken' \in [{PA} -> Seq(Chunks)] /\ Pack' = <<>> /\ Len(Pack') = 0
  BY <1>1 DEF Pack
<1>3. Sorted(queue') /\ Sorted(Pack')
  BY <1>1, <1>2 DEF IInv, StreamInOrder, Sorted
<1>4. cleaned'+1..Len(Pack') = {}
  BY <1>2
<1>5. Unloaded' = {queue[i] : i \in 1..Len(queue)} /\ Loaded' = {}
  BY <1>1, <1>2 DEF Unloaded, Loaded
<1> QED
  BY <1>1, <1>2, <1>3, <1>4, <1>5

LEMMA WriteFailsKept ==
  ASSUME IInv, WriteFails
  PROVE  IInv'
<1>1. /\ loaded > 0 /\ cleaned = 0 /\ loaded' = 0 /\ cleaned' = 0
      /\ lost' = lost \cup Range(Pack) /\ Fifo!Forget(PA)
      /\ UNCHANGED <<held, live, run, evq, track, made, status, metaOf, owner, oldmeta, heard>>
  BY DEF WriteFails, decoderVars
<1>2. /\ queue' = queue /\ Pack' = <<>> /\ Len(Pack') = 0
      /\ taken' \in [{PA} -> Seq(Chunks)] /\ Sorted(queue') /\ Sorted(Pack')
      /\ Unloaded' = {queue[i] : i \in 1..Len(queue)} /\ Loaded' = {}
      /\ \A i \in cleaned'+1..Len(Pack'), j \in 1..Len(queue') : Before(Pack'[i], queue'[j])
  BY <1>1, ForgetPack
<1>3. /\ Range(Pack) \subseteq Unloaded \cup Loaded
      /\ Unloaded' \subseteq Unloaded
      /\ Unloaded \cup Loaded = Unloaded' \cup Range(Pack)
  <2>1. Range(Pack) = {Pack[i] : i \in 1..Len(Pack)}
    BY Numbers, Types DEF Range
  <2>2. {Pack[i] : i \in 1..Len(Pack)} =
          {Pack[i] : i \in loaded+1..Len(Pack)} \cup {Pack[i] : i \in cleaned+1..loaded}
    BY <1>1, Numbers, Types
  <2> QED
    BY <1>2, <2>1, <2>2 DEF Unloaded, Loaded
<1>4. /\ Filled' = Filled /\ (status' = status \/ ~Filling')
      /\ Pending \cup lost = Pending' \cup lost' /\ Pending' \subseteq Pending
  <2>1. Filled' = Filled
    BY <1>1 DEF Filled, Filling, InHand, ChunkOf
  <2> QED
    BY <1>1, <1>2, <1>3, <2>1 DEF Pending
<1>5. \A c \in Pending : c \in live /\ c \in Chunks
  BY Numbers DEF IInv, Owned
<1>6. TypeOK'
  <2>1. lost' \subseteq Chunks
    BY <1>1, <1>3, <1>5 DEF IInv, TypeOK, Pending
  <2>2. loaded' \in 0..Len(Pack') /\ cleaned' \in 0..loaded'
    BY <1>1, <1>2
  <2> QED
    BY <1>1, <1>2, <2>1, <2>2 DEF IInv, TypeOK
<1>7. live' \subseteq Pending' \cup Range(held') \cup lost'
  BY <1>1, <1>4 DEF IInv, StillOwned
<1>8. live' \cup lost' \subseteq live \cup lost
  BY <1>1, <1>3, <1>5 DEF Pending
<1> QED
  BY <1>1, <1>2, <1>3, <1>4, <1>5, <1>6, <1>7, <1>8, FewerKept

LEMMA CleanEndKept ==
  ASSUME IInv, CleanEnd
  PROVE  IInv'
<1>1. /\ cleaned = loaded /\ cleaned > 0 /\ loaded' = 0 /\ cleaned' = 0 /\ Fifo!Forget(PA)
      /\ UNCHANGED <<held, live, run, evq, track, made, status, metaOf, owner, oldmeta,
                     heard, lost>>
  BY DEF CleanEnd, decoderVars
<1>2. /\ queue' = queue /\ Pack' = <<>> /\ Len(Pack') = 0
      /\ taken' \in [{PA} -> Seq(Chunks)] /\ Sorted(queue') /\ Sorted(Pack')
      /\ Unloaded' = {queue[i] : i \in 1..Len(queue)} /\ Loaded' = {}
      /\ \A i \in cleaned'+1..Len(Pack'), j \in 1..Len(queue') : Before(Pack'[i], queue'[j])
  BY <1>1, ForgetPack
<1>3. Unloaded' = Unloaded /\ Loaded' = Loaded
  <2>1. loaded = Len(Pack) /\ Len(Pack) \in Nat
    BY <1>1, Numbers, Types DEF IInv, StreamInOrder
  <2>2. Loaded = {} /\ {Pack[i] : i \in loaded+1..Len(Pack)} = {}
    BY <1>1, <2>1 DEF Loaded
  <2> QED
    BY <1>2, <2>2 DEF Unloaded
<1>4. /\ Pending' = Pending /\ (status' = status \/ ~Filling')
  <2>1. Filled' = Filled
    BY <1>1 DEF Filled, Filling, InHand, ChunkOf
  <2> QED
    BY <1>1, <1>3, <2>1 DEF Pending
<1>5. \A c \in Pending' : c \in live'
  BY <1>1, <1>4 DEF IInv, Owned
<1>6. TypeOK'
  <2>1. loaded' \in 0..Len(Pack') /\ cleaned' \in 0..loaded'
    BY <1>1, <1>2
  <2> QED
    BY <1>1, <1>2, <2>1 DEF IInv, TypeOK
<1>7. live' \subseteq Pending' \cup Range(held') \cup lost'
  BY <1>1, <1>4 DEF IInv, StillOwned
<1> QED
  BY <1>1, <1>2, <1>3, <1>4, <1>5, <1>6, <1>7, FewerKept

LEMMA TakePackKept ==
  ASSUME IInv, NEW n \in 1..Len(queue), TakePack(n)
  PROVE  IInv'
<1>1. /\ Pack = <<>> /\ Fifo!Take(PA, n)
      /\ UNCHANGED <<held, live, run, evq, track, made, status, metaOf, owner, oldmeta,
                     loaded, cleaned, heard, lost>>
  BY DEF TakePack, decoderVars
<1>2. /\ queue' = SubSeq(queue, n + 1, Len(queue)) /\ Pack' = SubSeq(queue, 1, n)
      /\ taken' = [taken EXCEPT ![PA] = SubSeq(queue, 1, n)]
  BY <1>1 DEF Fifo!Take, Pack, IInv, TypeOK
<1>3. /\ queue \in Seq(Chunks) /\ Len(queue) \in Nat /\ n \in Nat /\ 1 <= n /\ n <= Len(queue)
      /\ loaded = 0 /\ cleaned = 0
  BY <1>1, Numbers, Types
<1>4. /\ queue' \in Seq(Chunks) /\ Pack' \in Seq(Chunks)
      /\ Len(queue') = Len(queue) - n /\ Len(Pack') = n
      /\ \A j \in 1..Len(queue') : queue'[j] = queue[n + j]
      /\ \A i \in 1..n : Pack'[i] = queue[i]
  BY <1>2, <1>3
<1>5. Sorted(queue)
  BY DEF IInv, StreamInOrder
<1>6. /\ Sorted(queue') /\ Sorted(Pack')
      /\ \A i \in cleaned'+1..Len(Pack'), j \in 1..Len(queue') : Before(Pack'[i], queue'[j])
  <2>1. Sorted(queue')
    <3> SUFFICES ASSUME NEW i \in 1..Len(queue'), NEW j \in 1..Len(queue'), i < j
                 PROVE  Before(queue'[i], queue'[j])
      BY DEF Sorted
    <3>1. n + i \in 1..Len(queue) /\ n + j \in 1..Len(queue) /\ n + i < n + j
      BY <1>3, <1>4
    <3> QED
      BY <1>4, <1>5, <3>1 DEF Sorted
  <2>2. Sorted(Pack')
    BY <1>3, <1>4, <1>5 DEF Sorted
  <2>3. ASSUME NEW i \in cleaned'+1..Len(Pack'), NEW j \in 1..Len(queue')
        PROVE  Before(Pack'[i], queue'[j])
    <3>1. i \in 1..n /\ i \in 1..Len(queue) /\ n + j \in 1..Len(queue) /\ i < n + j
      BY <1>1, <1>3, <1>4
    <3> QED
      BY <1>4, <1>5, <3>1 DEF Sorted
  <2> QED
    BY <2>1, <2>2, <2>3
<1>7. Unloaded' = Unloaded /\ Loaded' = Loaded
  <2>1. Unloaded = {queue[i] : i \in 1..Len(queue)} /\ Loaded = {} /\ Loaded' = {}
    BY <1>1, <1>3 DEF Unloaded, Loaded
  <2>2. Unloaded' = {queue'[j] : j \in 1..Len(queue')} \cup {Pack'[i] : i \in 1..n}
    BY <1>1, <1>3, <1>4 DEF Unloaded
  <2>3. {Pack'[i] : i \in 1..n} = {queue[i] : i \in 1..n}
    BY <1>4
  <2>4. {queue'[j] : j \in 1..Len(queue')} = {queue[i] : i \in n+1..Len(queue)}
    <3>1. ASSUME NEW j \in 1..Len(queue')
          PROVE  queue'[j] \in {queue[i] : i \in n+1..Len(queue)}
      <4>1. n + j \in n+1..Len(queue)
        BY <1>3, <1>4
      <4> QED
        BY <1>4, <4>1
    <3>2. ASSUME NEW i \in n+1..Len(queue)
          PROVE  queue[i] \in {queue'[j] : j \in 1..Len(queue')}
      <4>1. i - n \in 1..Len(queue') /\ n + (i - n) = i
        BY <1>3, <1>4
      <4> QED
        BY <1>4, <4>1
    <3> QED
      BY <3>1, <3>2
  <2>5. {queue[i] : i \in 1..Len(queue)} =
          {queue[i] : i \in n+1..Len(queue)} \cup {queue[i] : i \in 1..n}
    BY <1>3
  <2> QED
    BY <2>1, <2>2, <2>3, <2>4, <2>5
<1>8. Pending' = Pending /\ (status' = status \/ ~Filling') /\ ~(cleaned' > 0)
  <2>1. Filled' = Filled
    BY <1>1 DEF Filled, Filling, InHand, ChunkOf
  <2> QED
    BY <1>1, <1>3, <1>7, <2>1 DEF Pending
<1>9. \A c \in Pending' : c \in live'
  BY <1>1, <1>8 DEF IInv, Owned
<1>10. TypeOK'
  <2>1. taken' \in [{PA} -> Seq(Chunks)]
    BY <1>2, <1>4 DEF IInv, TypeOK, Pack
  <2>2. loaded' \in 0..Len(Pack') /\ cleaned' \in 0..loaded'
    BY <1>1, <1>3, <1>4
  <2> QED
    BY <1>1, <1>4, <2>1, <2>2 DEF IInv, TypeOK
<1>11. live' \subseteq Pending' \cup Range(held') \cup lost'
  BY <1>1, <1>8 DEF IInv, StillOwned
<1> QED
  BY <1>1, <1>6, <1>7, <1>8, <1>9, <1>10, <1>11, FewerKept

\* No chunk on its way is with the garbage.
LEMMA NotHeld ==
  ASSUME IInv
  PROVE  \A c \in Pending : c \notin Range(held)
<1>1. \A c \in Range(held), d \in Unloaded \cup Loaded : Before(c, d) /\ c \in Chunks
  BY Numbers DEF IInv, StreamInOrder
<1>2. \A c \in Range(held) : ~Before(c, c)
  BY Numbers DEF Before
<1>3. Filling => InHand \notin Range(held)
  BY InHandIsNext
<1> QED
  BY <1>1, <1>2, <1>3 DEF Pending, Filled

LEMMA StoppedKept ==
  ASSUME IInv, StoppedEvent
  PROVE  IInv'
<1>1. /\ held' = <<>> /\ live' = live \ Range(held)
      /\ evq' = [c \in Chunks |-> IF c \in Range(held) THEN EmptyEvq ELSE evq[c]]
      /\ UNCHANGED <<queue, taken, run, track, made, status, metaOf, owner, oldmeta,
                     loaded, cleaned, heard, lost>>
  BY DEF StoppedEvent, decoderVars
<1>2. evq' = evq
  <2>1. \A c \in Range(held) : evq[c] = EmptyEvq
    BY DEF IInv, EventsQueued
  <2>2. evq \in [Chunks -> EventLists]
    BY DEF IInv, TypeOK, EventLists, LifeEvents
  <2> QED
    BY <1>1, <2>1, <2>2
<1>3. Unloaded' = Unloaded /\ Loaded' = Loaded /\ Pack' = Pack
  BY <1>1, StreamSame
<1>4. Pending' = Pending /\ (status' = status \/ ~Filling')
  BY <1>1, <1>3 DEF Pending, Filled, Filling, InHand, ChunkOf
<1>5. Range(held') = {} /\ held' \in Seq(Chunks)
  BY <1>1 DEF Range
<1>6. \A c \in Pending' : c \in live'
  BY <1>1, <1>4, NotHeld DEF IInv, Owned
<1>7. TypeOK'
  BY <1>1, <1>2, <1>3, <1>5 DEF IInv, TypeOK
<1>8. /\ Sorted(queue') /\ Sorted(Pack') /\ (cleaned' > 0 => loaded' = Len(Pack'))
      /\ \A i \in cleaned'+1..Len(Pack'), j \in 1..Len(queue') : Before(Pack'[i], queue'[j])
  BY <1>1, <1>3 DEF IInv, StreamInOrder
<1>9. live' \subseteq Pending' \cup Range(held') \cup lost'
  BY <1>1, <1>4 DEF IInv, StillOwned
<1> QED
  BY <1>1, <1>2, <1>3, <1>4, <1>5, <1>6, <1>7, <1>8, <1>9, FewerKept

LEMMA FlushKept ==
  ASSUME IInv, Flush
  PROVE  IInv'
<1>1. /\ queue' = <<>> /\ taken' = taken /\ run' = FALSE
      /\ live' = live \ Range(queue) /\ lost' = lost \cup Range(queue)
      /\ UNCHANGED <<held, evq, track, made, status, metaOf, owner, oldmeta,
                     loaded, cleaned, heard>>
  BY DEF Flush, Fifo!Clear, decoderVars
<1>2. /\ queue \in Seq(Chunks) /\ Range(queue) = {queue[i] : i \in 1..Len(queue)}
      /\ queue' \in Seq(Chunks) /\ Len(queue') = 0 /\ run' \in BOOLEAN
  <2>1. queue \in Seq(Chunks)
    BY Numbers, Types
  <2>2. Range(queue) = {queue[i] : i \in 1..Len(queue)}
    BY <2>1 DEF Range
  <2>3. run' \in BOOLEAN
    BY <1>1
  <2> QED
    BY <1>1, <2>1, <2>2, <2>3
<1>3. /\ Pack' = Pack /\ Loaded' = Loaded
      /\ Unloaded' = {Pack[i] : i \in loaded+1..Len(Pack)}
      /\ Unloaded = Unloaded' \cup Range(queue)
  BY <1>1, <1>2 DEF Unloaded, Loaded, Pack
<1>4. /\ Pending' = Unloaded' \cup Loaded \cup Filled /\ (status' = status \/ ~Filling')
      /\ Pending = Pending' \cup Range(queue)
  BY <1>1, <1>3 DEF Pending, Filled, Filling, InHand, ChunkOf
<1>5. \A c \in Pending' : c \notin Range(queue)
  <2>1. \A i \in cleaned+1..Len(Pack), j \in 1..Len(queue) : Pack[i] # queue[j]
    <3>1. \A i \in cleaned+1..Len(Pack), j \in 1..Len(queue) :
            Before(Pack[i], queue[j]) /\ queue[j] \in Chunks
      BY <1>2 DEF IInv, StreamInOrder
    <3>2. \A c \in Chunks : ~Before(c, c)
      BY ChunkNumbers DEF Before
    <3> QED
      BY <3>1, <3>2
  <2>2. Unloaded' \cup Loaded \subseteq {Pack[i] : i \in cleaned+1..Len(Pack)}
    BY <1>3, Numbers, Types DEF Loaded
  <2>3. Filling => InHand \notin Range(queue)
    BY <1>3, InHandIsNext
  <2> QED
    BY <1>2, <1>4, <2>1, <2>2, <2>3 DEF Filled
<1>6. \A c \in Pending : c \in live /\ c \in Chunks
  BY Numbers DEF IInv, Owned
<1>7. \A c \in Pending' : c \in live'
  BY <1>1, <1>4, <1>5, <1>6
<1>8. TypeOK'
  <2>1. lost' \subseteq Chunks
    BY <1>1, <1>4, <1>6 DEF IInv, TypeOK
  <2> QED
    BY <1>1, <1>2, <1>3, <2>1 DEF IInv, TypeOK
<1>9. /\ Sorted(queue') /\ Sorted(Pack') /\ (cleaned' > 0 => loaded' = Len(Pack'))
      /\ \A i \in cleaned'+1..Len(Pack'), j \in 1..Len(queue') : Before(Pack'[i], queue'[j])
  <2>1. 1..Len(queue') = {}
    BY <1>2
  <2> QED
    BY <1>1, <1>3, <2>1 DEF IInv, StreamInOrder, Sorted
<1>10. live' \subseteq Pending' \cup Range(held') \cup lost'
  BY <1>1, <1>4 DEF IInv, StillOwned
<1>11. live' \cup lost' \subseteq live \cup lost
  BY <1>1, <1>4, <1>6
<1> QED
  BY <1>1, <1>3, <1>4, <1>7, <1>8, <1>9, <1>10, <1>11, FewerKept

-----------------------------------------------------------------------------
(* The driver loads a chunk.                                               *)

\* The events as sequences.
LEMMA Telling ==
  /\ <<"first">> # <<>> /\ <<"done in">> # <<>> /\ <<"done out">> # <<>>
  /\ <<>> \o <<"first">> = <<"first">>
  /\ <<>> \o <<"done in">> = <<"done in">>
  /\ <<"first">> \o <<"done in">> = <<"first", "done in">>
  /\ <<"done in">> \o <<"done out">> = <<"done in", "done out">>
  /\ <<"first", "done in">> \o <<"done out">> = Story
  /\ <<>> \o <<>> = <<>> /\ <<"first">> \o <<>> = <<"first">>
  /\ "done out" \in Range(<<"done out">>)
  /\ "done out" \notin Range(<<>>) /\ "done out" \notin Range(<<"first">>)
  /\ "done out" \notin Range(<<"done in">>)
<1>1. ASSUME NEW x PROVE <<x>> # <<>> /\ Range(<<x>>) = {x}
  BY DEF Range
<1>2. ASSUME NEW x, NEW y
      PROVE  /\ <<>> \o <<x>> = <<x>> /\ <<x>> \o <<>> = <<x>>
             /\ <<x>> \o <<y>> = <<x, y>>
  <2>1. <<x>> \in Seq({x, y}) /\ y \in {x, y}
    OBVIOUS
  <2>2. <<x>> \o <<y>> = Append(<<x>>, y)
    BY <2>1, AppendIsConcat
  <2>3. Append(<<x>>, y) = <<x, y>>
    <3>1. /\ Append(<<x>>, y) \in Seq({x, y}) /\ <<x, y>> \in Seq({x, y})
          /\ Len(Append(<<x>>, y)) = 2 /\ Len(<<x, y>>) = 2
          /\ Append(<<x>>, y)[1] = x /\ Append(<<x>>, y)[2] = y
          /\ <<x, y>>[1] = x /\ <<x, y>>[2] = y
      BY <2>1
    <3>2. \A i \in 1..2 : i = 1 \/ i = 2
      OBVIOUS
    <3> QED
      BY <3>1, <3>2, SeqEqual
  <2> QED
    BY <2>1, <2>2, <2>3, ConcatEmptySeq
<1>3. ASSUME NEW x, NEW y, NEW z
      PROVE  <<x, y>> \o <<z>> = <<x, y, z>>
  <2>1. <<x, y>> \in Seq({x, y, z}) /\ z \in {x, y, z}
    OBVIOUS
  <2>2. <<x, y>> \o <<z>> = Append(<<x, y>>, z)
    BY <2>1, AppendIsConcat
  <2>3. Append(<<x, y>>, z) = <<x, y, z>>
    <3>1. /\ Append(<<x, y>>, z) \in Seq({x, y, z}) /\ <<x, y, z>> \in Seq({x, y, z})
          /\ Len(Append(<<x, y>>, z)) = 3 /\ Len(<<x, y, z>>) = 3
      BY <2>1
    <3>2. /\ Append(<<x, y>>, z)[1] = x /\ Append(<<x, y>>, z)[2] = y
          /\ Append(<<x, y>>, z)[3] = z
          /\ <<x, y, z>>[1] = x /\ <<x, y, z>>[2] = y /\ <<x, y, z>>[3] = z
      BY <2>1
    <3>3. \A i \in 1..3 : i = 1 \/ i = 2 \/ i = 3
      OBVIOUS
    <3>4. \A i \in 1..Len(Append(<<x, y>>, z)) : Append(<<x, y>>, z)[i] = <<x, y, z>>[i]
      BY <3>1, <3>2, <3>3
    <3> QED
      BY <3>1, <3>4, SeqEqual
  <2> QED
    BY <2>2, <2>3
<1>4. <<>> \o <<>> = <<>> /\ Range(<<>>) = {}
  BY DEF Range
<1>5. /\ <<"first">> # <<>> /\ <<"done in">> # <<>> /\ <<"done out">> # <<>>
      /\ "done out" \in Range(<<"done out">>)
      /\ "done out" \notin Range(<<>>) /\ "done out" \notin Range(<<"first">>)
      /\ "done out" \notin Range(<<"done in">>)
  <2>1. Range(<<"first">>) = {"first"} /\ Range(<<"done in">>) = {"done in"}
        /\ Range(<<"done out">>) = {"done out"}
    BY <1>1
  <2>2. <<"first">> # <<>> /\ <<"done in">> # <<>> /\ <<"done out">> # <<>>
    BY <1>1
  <2> QED
    BY <1>4, <2>1, <2>2
<1> QED
  BY <1>2, <1>3, <1>4, <1>5 DEF Story

\* What an unloaded chunk tells, and what was heard of its track before.
LEMMA Loading ==
  ASSUME IInv, NEW c \in Unloaded
  PROVE  /\ evq[c]["in"] \in {<<>>, <<"first">>, <<"done in">>}
         /\ evq[c]["out"] \in {<<>>, <<"done out">>}
         /\ evq[c]["in"] = <<"first">> => c.index = 1
         /\ evq[c]["out"] # <<>> <=> evq[c]["in"] = <<"done in">>
         /\ "done out" \notin Range(evq[c]["in"])
<1>1. \/ evq[c]["in"] = <<>> /\ evq[c]["out"] = <<>>
      \/ c.index = 1 /\ evq[c]["in"] = <<"first">> /\ evq[c]["out"] = <<>>
      \/ evq[c]["in"] = <<"done in">> /\ evq[c]["out"] = <<"done out">>
  BY DEF IInv, EventsQueued, EmptyEvq, EventTypes
<1>2. <<"first">> # <<"done in">>
  <2>1. ASSUME NEW x, NEW y, <<x>> = <<y>> PROVE x = y
    BY <2>1
  <2> QED
    BY <2>1
<1> QED
  BY <1>1, <1>2, Telling

LEMMA LoadKept ==
  ASSUME IInv, Load
  PROVE  IInv'
<1>0. PICK C : C = Pack[loaded + 1]
  OBVIOUS
<1>1. /\ loaded < Len(Pack) /\ loaded' = loaded + 1 /\ RunEvents(C, "in")
      /\ UNCHANGED <<queue, taken, held, live, run, cleaned, lost, track, made, status,
                     metaOf, oldmeta>>
  BY <1>0 DEF Load, decoderVars
<1>2. /\ Pack' = Pack /\ loaded \in Nat /\ cleaned = 0 /\ loaded + 1 \in 1..Len(Pack)
      /\ Len(Pack) \in Nat /\ Pack \in Seq(Chunks)
  <2>1. Pack' = Pack
    BY <1>1 DEF Pack
  <2>2. cleaned > 0 => loaded = Len(Pack)
    BY DEF IInv, StreamInOrder
  <2> QED
    BY <1>1, <2>1, <2>2, Numbers, Types
<1>3. /\ C \in Unloaded /\ C \in Chunks /\ Complete(C)
      /\ Unloaded' \subseteq Unloaded /\ Unloaded = Unloaded' \cup {C}
      /\ Loaded' = Loaded \cup {C}
  <2>1. C \in Unloaded
    BY <1>0, <1>2, Numbers, Sets
  <2>2. {Pack[i] : i \in loaded+1..Len(Pack)} = {Pack[i] : i \in loaded+1+1..Len(Pack)} \cup {C}
    BY <1>0, <1>1, <1>2
  <2>3. {Pack[i] : i \in cleaned+1..loaded+1} = {Pack[i] : i \in cleaned+1..loaded} \cup {C}
    BY <1>0, <1>1, <1>2
  <2>4. C \in Chunks /\ Complete(C)
    BY <2>1, Numbers DEF IInv, StreamInOrder, Pending
  <2> QED
    BY <1>1, <1>2, <2>1, <2>2, <2>3, <2>4 DEF Unloaded, Loaded
<1>4. /\ \A d \in Unloaded' \cup Filled : Before(C, d)
      /\ \A d \in Loaded : Before(d, C)
  <2>1. ASSUME NEW d \in Unloaded' PROVE Before(C, d)
    <3>1. CASE \E i \in loaded+2..Len(Pack) : d = Pack[i]
      <4>1. PICK i \in loaded+2..Len(Pack) : d = Pack[i]
        BY <3>1
      <4>2. i \in 1..Len(Pack) /\ loaded + 1 < i
        BY <1>2
      <4> QED
        BY <1>0, <1>2, <4>1, <4>2 DEF IInv, StreamInOrder, Sorted
    <3>2. CASE \E j \in 1..Len(queue) : d = queue[j]
      <4>1. loaded + 1 \in cleaned+1..Len(Pack)
        BY <1>2
      <4> QED
        BY <1>0, <3>2, <4>1 DEF IInv, StreamInOrder
    <3>3. loaded' + 1 = loaded + 2
      BY <1>1, <1>2
    <3> QED
      BY <1>1, <1>2, <3>1, <3>2, <3>3 DEF Unloaded
  <2>2. ASSUME NEW d \in Filled PROVE Before(C, d)
    BY <1>3, <2>2, InHandIsNext DEF Filled
  <2>3. ASSUME NEW d \in Loaded PROVE Before(d, C)
    <3>1. PICK i \in cleaned+1..loaded : d = Pack[i]
      BY DEF Loaded
    <3>2. i \in 1..Len(Pack) /\ i < loaded + 1
      BY <1>1, <1>2
    <3> QED
      BY <1>0, <1>2, <3>1, <3>2 DEF IInv, StreamInOrder, Sorted
  <2> QED
    BY <2>1, <2>2, <2>3
<1>5. /\ Filled' = Filled /\ Filling' = Filling /\ Pending' = Pending
      /\ \A c \in Pending : c \in Chunks /\ c.track \in Tracks /\ c.track \in Nat /\ c.index \in Nat
      /\ \A c \in Pending \ {C} : c \in Loaded \/ c \in Unloaded' \/ c \in Filled
      /\ C \notin Unloaded' \cup Filled /\ C \notin Loaded
  <2>1. Filled' = Filled /\ Filling' = Filling
    BY <1>1 DEF Filled, Filling, InHand, ChunkOf
  <2>2. Pending' = Pending
    BY <1>3, <2>1 DEF Pending
  <2>3. ~Before(C, C)
    BY <1>3, ChunkNumbers DEF Before
  <2> QED
    BY <1>3, <1>4, <2>1, <2>2, <2>3, Numbers DEF Pending
<1>6. /\ evq[C]["in"] \in {<<>>, <<"first">>, <<"done in">>}
      /\ evq[C]["out"] \in {<<>>, <<"done out">>}
      /\ evq[C]["in"] = <<"first">> => C.index = 1
      /\ evq[C]["out"] # <<>> <=> evq[C]["in"] = <<"done in">>
      /\ "done out" \notin Range(evq[C]["in"])
  BY <1>3, Loading
<1>7. /\ evq' \in [Chunks -> EventLists]
      /\ evq'[C] = [evq[C] EXCEPT !["in"] = <<>>]
      /\ \A d \in Chunks : d # C => evq'[d] = evq[d]
      /\ owner' \in [Addresses -> Tracks \cup {Nobody}]
      /\ \A a \in Addresses : owner'[a] = owner[a]
      /\ heard'[C.track] = heard[C.track] \o evq[C]["in"]
      /\ \A t \in Tracks : t # C.track => heard'[t] = heard[t]
      /\ heard' = [t \in Tracks |-> heard'[t]]
  <2>1. "in" \in EventTypes /\ heard \in [Tracks -> Stories]
    BY Numbers DEF EventTypes
  <2> QED
    BY <1>1, <1>3, <1>6, <2>1, Running, Numbers
<1>8. /\ evq'[C]["in"] = <<>> /\ evq'[C]["out"] = evq[C]["out"]
      /\ \A c \in Chunks : evq'[c]["out"] = evq[c]["out"]
  <2>1. evq[C] \in EventLists
    BY <1>3 DEF IInv, TypeOK, EventLists, LifeEvents
  <2>2. evq'[C]["in"] = <<>> /\ evq'[C]["out"] = evq[C]["out"]
    BY <1>7, <2>1 DEF EventLists, EventTypes
  <2> QED
    BY <1>7, <2>2
<1>9. owner' = owner
  BY <1>7, Numbers
<1>10. TypeOK'
  <2>1. loaded' \in 0..Len(Pack') /\ cleaned' \in 0..loaded'
    BY <1>1, <1>2
  <2> QED
    BY <1>1, <1>7, <2>1, Numbers DEF TypeOK, EventLists, LifeEvents
<1>11. StreamInOrder'
  <2>1. \A c : (Complete(c)' <=> Complete(c)) /\ (Begun(c)' <=> Begun(c))
    BY <1>1, <1>5 DEF Complete, Begun
  <2>2. Unloaded' \cup Loaded' = Unloaded \cup Loaded
    BY <1>3
  <2>3. ~(cleaned' > 0)
    BY <1>1, <1>2
  <2> QED
    BY <1>1, <1>2, <2>1, <2>2, <2>3 DEF IInv, StreamInOrder, Sorted
<1>12. EventsQueued'
  <2>1. \A c \in Chunks : ~Complete(c)' => c # C /\ ~Complete(c)
    BY <1>1, <1>3, <1>5 DEF Complete
  <2>2. C \notin Range(held)
    BY <1>3, NotHeld DEF Pending
  <2>3. \A c \in Chunks : ~Complete(c)' => evq'[c] = EmptyEvq
    BY <1>7, <2>1 DEF IInv, EventsQueued
  <2>4. \A c \in Range(held) : evq'[c] = EmptyEvq
    BY <1>7, <2>2, Numbers DEF IInv, EventsQueued
  <2>5. \A c \in Unloaded' \cup Loaded : evq'[c] = evq[c]
    BY <1>3, <1>5, <1>7, Numbers DEF Pending
  <2> QED
    BY <1>1, <1>3, <1>6, <1>8, <2>3, <2>4, <2>5 DEF IInv, EventsQueued
<1>13. EndIsLast'
  BY <1>3, <1>5, <1>8 DEF IInv, EndIsLast, Pending
<1>14. /\ heard[C.track] \in {<<>>, <<"first">>}
       /\ C.index = 1 => heard[C.track] = <<>>
  BY <1>3 DEF IInv, HeardSoFar
<1>15. /\ evq[C]["in"] = <<>> => heard'[C.track] = heard[C.track]
       /\ evq[C]["in"] = <<"first">> => heard'[C.track] = <<"first">>
       /\ evq[C]["in"] = <<"done in">> =>
            heard'[C.track] = IF heard[C.track] = <<>> THEN <<"done in">> ELSE <<"first", "done in">>
  <2>1. <<"first">> # <<"done in">> /\ <<"first">> # <<>> /\ <<"done in">> # <<>>
    <3>1. ASSUME NEW x, NEW y, <<x>> = <<y>> PROVE x = y
      BY <3>1
    <3> QED
      BY <3>1, Telling
  <2>2. CASE evq[C]["in"] = <<>>
    BY <1>7, <1>14, <2>1, <2>2, Telling
  <2>3. CASE evq[C]["in"] = <<"first">>
    BY <1>6, <1>7, <1>14, <2>1, <2>3, Telling
  <2>4. CASE evq[C]["in"] = <<"done in">>
    <3>1. CASE heard[C.track] = <<>>
      BY <1>7, <2>1, <2>4, <3>1, Telling
    <3>2. CASE heard[C.track] = <<"first">>
      BY <1>7, <2>1, <2>4, <3>2, Telling
    <3> QED
      BY <1>14, <3>1, <3>2
  <2> QED
    BY <1>6, <2>2, <2>3, <2>4
<1>16. HeardSoFar'
  <2>1. heard' \in [Tracks -> Stories]
    <3>1. heard'[C.track] \in Stories
      BY <1>6, <1>14, <1>15 DEF Stories
    <3>2. \A t \in Tracks : heard'[t] \in Stories
      BY <1>7, <3>1, Numbers
    <3> QED
      BY <1>7, <3>2
  <2>2. \A t \in Tracks : t > track' => heard'[t] = <<>>
    <3>1. C.track <= track
      BY <1>3, Numbers DEF Pending
    <3> QED
      BY <1>1, <1>7, <3>1, Numbers
  <2>3. ASSUME NEW d \in Unloaded' \cup Filled
        PROVE  /\ heard'[d.track] \in {<<>>, <<"first">>}
               /\ d.index = 1 => heard'[d.track] = <<>>
    <3>1. /\ heard[d.track] \in {<<>>, <<"first">>}
          /\ d.index = 1 => heard[d.track] = <<>>
      BY <1>3 DEF IInv, HeardSoFar
    <3>2. d \in Pending /\ Before(C, d) /\ d.track \in Tracks /\ d.index \in Nat /\ d.track \in Nat
      BY <1>3, <1>4, <1>5 DEF Pending
    <3>3. CASE d.track # C.track
      BY <1>7, <3>1, <3>2, <3>3
    <3>4. CASE d.track = C.track
      <4>1. C.index < d.index /\ C.index \in Nat /\ C.index >= 1
        BY <1>3, <3>2, <3>4, ChunkNumbers DEF Before
      <4>2. evq[C]["out"] = <<>>
        BY <1>3, <3>2, <3>4, <4>1 DEF IInv, EndIsLast
      <4>3. heard'[C.track] \in {<<>>, <<"first">>}
        BY <1>6, <1>14, <1>15, <4>2
      <4> QED
        BY <3>2, <3>4, <4>1, <4>3
    <3> QED
      BY <3>3, <3>4
  <2>4. ASSUME NEW d \in Loaded', evq'[d]["out"] # <<>>
        PROVE  heard'[d.track] \in {<<"done in">>, <<"first", "done in">>}
    <3>1. CASE d = C
      BY <1>6, <1>8, <1>15, <2>4, <3>1
    <3>2. CASE d # C
      <4>1. d \in Loaded /\ evq[d]["out"] # <<>> /\ d.track \in Tracks /\ Before(d, C)
            /\ d.index \in Nat
        BY <1>3, <1>4, <1>5, <1>8, <2>4, <3>2 DEF Pending
      <4>2. heard[d.track] \in {<<"done in">>, <<"first", "done in">>}
        BY <4>1 DEF IInv, HeardSoFar
      <4>3. C.track = d.track => C.index <= d.index
        BY <1>3, <4>1 DEF IInv, EndIsLast, Pending
      <4>4. d.track # C.track
        BY <1>3, <4>1, <4>3, ChunkNumbers DEF Before
      <4> QED
        BY <1>7, <4>1, <4>2, <4>4
    <3> QED
      BY <3>1, <3>2
  <2> QED
    BY <1>5, <2>1, <2>2, <2>3, <2>4 DEF HeardSoFar
<1>17. Owned'
  BY <1>1, <1>5, <1>9 DEF IInv, Owned
<1>18. LastAnnounced'
  BY <1>1, <1>5 DEF IInv, LastAnnounced
<1>19. Announced'
  <2>1. \A t : Reused(t)' <=> Reused(t)
    BY <1>1 DEF Reused
  <2>2. \A c \in Unloaded' : evq'[c] = evq[c]
    BY <1>3, <1>5, <1>7 DEF Pending
  <2>3. ASSUME NEW d \in Loaded', d.index = 1, evq'[d]["out"] = <<>>
        PROVE  heard'[d.track] \in {<<"first">>, <<"first", "done in">>} \/ Reused(d.track)
    <3>1. CASE d = C
      BY <1>3, <1>8, <1>15, <2>3, <3>1 DEF IInv, Announced
    <3>2. CASE d # C
      <4>1. d \in Loaded /\ evq[d]["out"] = <<>> /\ d.track \in Tracks /\ Before(d, C)
        BY <1>3, <1>4, <1>5, <1>8, <2>3, <3>2 DEF Pending
      <4>2. CASE Reused(d.track)
        BY <4>2
      <4>3. CASE ~Reused(d.track)
        <5>1. heard[d.track] \in {<<"first">>, <<"first", "done in">>}
          BY <2>3, <4>1, <4>3 DEF IInv, Announced
        <5>2. CASE d.track # C.track
          BY <1>7, <4>1, <5>1, <5>2
        <5>3. CASE d.track = C.track
          <6>1. C.index # 1
            BY <1>3, <2>3, <4>1, <5>3, ChunkNumbers DEF Before
          <6>2. evq[C]["in"] # <<"first">>
            BY <1>6, <6>1
          <6>3. heard[C.track] # <<>>
            <7>1. ASSUME NEW x, NEW y PROVE <<x>> # <<>> /\ <<x, y>> # <<>>
              OBVIOUS
            <7> QED
              BY <5>1, <5>3, <7>1
          <6>4. heard'[C.track] \in {heard[C.track], <<"first", "done in">>}
            BY <1>6, <1>15, <6>2, <6>3
          <6> QED
            BY <5>1, <5>3, <6>4
        <5> QED
          BY <5>2, <5>3
      <4> QED
        BY <4>2, <4>3
    <3> QED
      BY <3>1, <3>2
  <2> QED
    BY <1>3, <2>1, <2>2, <2>3 DEF IInv, Announced
<1>20. Followed'
  BY <1>1, <1>3, <1>5, <1>8 DEF IInv, Followed, Pending
<1>21. StillOwned'
  <2>1. live' \subseteq Pending' \cup Range(held') \cup lost'
    BY <1>1, <1>5 DEF IInv, StillOwned
  <2> QED
    BY <1>1, <1>5, <1>9, <2>1, OwnedStill
<1> QED
  BY <1>10, <1>11, <1>12, <1>13, <1>16, <1>17, <1>18, <1>19, <1>20, <1>21 DEF IInv

-----------------------------------------------------------------------------
(* The driver cleans a chunk of the pack.                                  *)

LEMMA AppendRange ==
  ASSUME NEW S, NEW s \in Seq(S), NEW e \in S
  PROVE  Append(s, e) \in Seq(S) /\ Range(Append(s, e)) = Range(s) \cup {e}
<1> DEFINE t == Append(s, e)
<1>1. /\ t \in Seq(S) /\ Len(s) \in Nat /\ Len(t) = Len(s) + 1 /\ t[Len(s) + 1] = e
      /\ \A i \in 1..Len(s) : t[i] = s[i]
      /\ DOMAIN t = 1..Len(t) /\ DOMAIN s = 1..Len(s)
  OBVIOUS
<1> HIDE DEF t
<1>2. \A i \in 1..Len(t) : i \in 1..Len(s) \/ i = Len(s) + 1
  BY <1>1
<1>3. 1..Len(s) \subseteq 1..Len(t) /\ Len(s) + 1 \in 1..Len(t)
  BY <1>1
<1>4. Range(t) = Range(s) \cup {e}
  BY <1>1, <1>2, <1>3 DEF Range
<1> QED
  BY <1>1, <1>4 DEF t

LEMMA TailRange ==
  ASSUME NEW S, NEW s \in Seq(S), s # <<>>
  PROVE  /\ Tail(s) \in Seq(S) /\ Head(s) \in S
         /\ Range(s) = Range(Tail(s)) \cup {Head(s)}
<1> DEFINE t == Tail(s)
<1>1. /\ t \in Seq(S) /\ Head(s) \in S /\ Len(s) \in Nat /\ Len(s) > 0 /\ Len(t) = Len(s) - 1
      /\ \A i \in 1..Len(t) : t[i] = s[i + 1]
      /\ Head(s) = s[1] /\ DOMAIN t = 1..Len(t) /\ DOMAIN s = 1..Len(s)
  BY HeadTailProperties, EmptySeq
<1> HIDE DEF t
<1>2. \A i \in 1..Len(s) : i = 1 \/ (i - 1 \in 1..Len(t) /\ (i - 1) + 1 = i)
  BY <1>1
<1>3. \A i \in 1..Len(t) : i + 1 \in 1..Len(s)
  BY <1>1
<1>4. ASSUME NEW i \in 1..Len(s)
      PROVE  s[i] = s[1] \/ \E j \in 1..Len(t) : s[i] = t[j]
  <2>1. CASE i = 1
    BY <2>1
  <2>2. CASE i - 1 \in 1..Len(t) /\ (i - 1) + 1 = i
    BY <1>1, <2>2
  <2> QED
    BY <1>2, <2>1, <2>2
<1>5. Range(s) = Range(t) \cup {Head(s)}
  <2>1. 1 \in 1..Len(s)
    BY <1>1
  <2>2. \A j \in 1..Len(t) : t[j] = s[j + 1] /\ j + 1 \in 1..Len(s)
    BY <1>1, <1>3
  <2>3. Range(s) = {s[i] : i \in 1..Len(s)} /\ Range(t) = {t[i] : i \in 1..Len(t)}
    BY <1>1 DEF Range
  <2> QED
    BY <1>1, <1>4, <2>1, <2>2, <2>3
<1> QED
  BY <1>1, <1>5 DEF t

\* What the garbage does with a chunk.
LEMMA HandingOver ==
  ASSUME TypeOK, NEW c \in Chunks, Garbage!HandOver(c)
  PROVE  /\ held' \in Seq(Chunks) /\ c \in Range(held') /\ live' \subseteq live
         /\ Range(held') \subseteq Range(held) \cup {c}
         /\ live \subseteq live' \cup Range(held)
         /\ live' \cap Range(held) \subseteq Range(held')
<1>1. held \in Seq(Chunks) /\ Len(held) \in Nat /\ Delay >= 1 /\ Delay \in Nat
  BY Types, MdLifeAssumption DEF MdLifeAssumption
<1>2. CASE Len(held) < Delay
  <2>1. held' = Append(held, c) /\ live' = live
    BY <1>2 DEF Garbage!HandOver
  <2> QED
    BY <1>1, <2>1, AppendRange
<1>3. CASE ~(Len(held) < Delay)
  <2>1. held' = Append(Tail(held), c) /\ live' = live \ {Head(held)}
    BY <1>3 DEF Garbage!HandOver
  <2>2. held # <<>>
    BY <1>1, <1>3, EmptySeq
  <2>3. /\ Tail(held) \in Seq(Chunks)
        /\ Range(held) = Range(Tail(held)) \cup {Head(held)}
    BY <1>1, <2>2, TailRange
  <2>4. held' \in Seq(Chunks) /\ Range(held') = Range(Tail(held)) \cup {c}
    <3>1. PICK t : t = Tail(held)
      OBVIOUS
    <3>2. t \in Seq(Chunks) /\ held' = Append(t, c)
      BY <2>1, <2>3, <3>1
    <3>3. Append(t, c) \in Seq(Chunks) /\ Range(Append(t, c)) = Range(t) \cup {c}
      BY <3>2, AppendRange
    <3> QED
      BY <3>1, <3>2, <3>3
  <2> QED
    BY <2>1, <2>3, <2>4
<1> QED
  BY <1>2, <1>3

LEMMA CleanChunkKept ==
  ASSUME IInv, CleanChunk
  PROVE  IInv'
<1>0. PICK C : C = Pack[cleaned + 1]
  OBVIOUS
<1>1. /\ loaded = Len(Pack) /\ cleaned < loaded /\ cleaned' = cleaned + 1
      /\ RunEvents(C, "out") /\ Garbage!HandOver(C)
      /\ UNCHANGED <<queue, taken, run, loaded, lost, track, made, status, metaOf, oldmeta>>
  BY <1>0 DEF CleanChunk, decoderVars
<1>2. /\ Pack' = Pack /\ cleaned \in Nat /\ loaded \in Nat /\ cleaned + 1 \in 1..Len(Pack)
      /\ Len(Pack) \in Nat /\ Pack \in Seq(Chunks)
  BY <1>1, Numbers, Types DEF Pack
<1>3. /\ C \in Loaded /\ C \in Chunks /\ Complete(C) /\ Unloaded' = Unloaded
      /\ Loaded' \subseteq Loaded /\ Loaded = Loaded' \cup {C}
  <2>1. C \in Loaded
    BY <1>0, <1>1, <1>2 DEF Loaded
  <2>2. {Pack[i] : i \in cleaned+1..loaded} = {Pack[i] : i \in cleaned+1+1..loaded} \cup {C}
    BY <1>0, <1>1, <1>2
  <2>3. C \in Chunks /\ Complete(C)
    BY <2>1, Numbers DEF IInv, StreamInOrder, Pending
  <2> QED
    BY <1>1, <1>2, <2>1, <2>2, <2>3 DEF Unloaded, Loaded
<1>4. \A d \in Unloaded \cup Loaded' \cup Filled : Before(C, d)
  <2>1. ASSUME NEW d \in Loaded' PROVE Before(C, d)
    <3>1. PICK i \in cleaned+1+1..loaded : d = Pack[i]
      BY <1>1, <1>2 DEF Loaded
    <3>2. i \in 1..Len(Pack) /\ cleaned + 1 < i
      BY <1>1, <1>2
    <3> QED
      BY <1>0, <1>2, <3>1, <3>2 DEF IInv, StreamInOrder, Sorted
  <2>2. ASSUME NEW d \in Unloaded PROVE Before(C, d)
    <3>1. {Pack[i] : i \in loaded+1..Len(Pack)} = {}
      BY <1>1, <1>2
    <3>2. PICK j \in 1..Len(queue) : d = queue[j]
      BY <3>1 DEF Unloaded
    <3>3. cleaned + 1 \in cleaned+1..Len(Pack)
      BY <1>2
    <3> QED
      BY <1>0, <3>2, <3>3 DEF IInv, StreamInOrder
  <2>3. ASSUME NEW d \in Filled PROVE Before(C, d)
    BY <1>3, <2>3, InHandIsNext DEF Filled
  <2> QED
    BY <2>1, <2>2, <2>3
<1>5. /\ Filled' = Filled /\ Filling' = Filling
      /\ Pending' = Unloaded \cup Loaded' \cup Filled /\ Pending = Pending' \cup {C}
      /\ C \notin Pending'
      /\ \A c \in Pending : c \in Chunks /\ c.track \in Tracks /\ c.track \in Nat /\ c.index \in Nat
  <2>1. Filled' = Filled /\ Filling' = Filling
    BY <1>1 DEF Filled, Filling, InHand, ChunkOf
  <2>2. Pending' = Unloaded \cup Loaded' \cup Filled /\ Pending = Pending' \cup {C}
    BY <1>3, <2>1 DEF Pending
  <2>3. ~Before(C, C)
    BY <1>3, ChunkNumbers DEF Before
  <2> QED
    BY <1>4, <2>1, <2>2, <2>3, Numbers
<1>6. evq[C]["in"] = <<>> /\ evq[C]["out"] \in {<<>>, <<"done out">>}
  BY <1>3 DEF IInv, EventsQueued
<1>7. /\ evq' \in [Chunks -> EventLists]
      /\ evq'[C] = [evq[C] EXCEPT !["out"] = <<>>]
      /\ \A d \in Chunks : d # C => evq'[d] = evq[d]
      /\ owner' \in [Addresses -> Tracks \cup {Nobody}]
      /\ \A a \in Addresses : owner'[a] # owner[a] =>
           a = metaOf[C.track] /\ owner'[a] = Nobody /\ evq[C]["out"] # <<>>
      /\ \A a \in Addresses : evq[C]["out"] # <<>> /\ a = metaOf[C.track] => owner'[a] = Nobody
      /\ heard'[C.track] = heard[C.track] \o evq[C]["out"]
      /\ \A t \in Tracks : t # C.track => heard'[t] = heard[t]
      /\ heard' = [t \in Tracks |-> heard'[t]]
  <2>1. "out" \in EventTypes /\ heard \in [Tracks -> Stories]
    BY Numbers DEF EventTypes
  <2>2. "done out" \in Range(evq[C]["out"]) <=> evq[C]["out"] # <<>>
    BY <1>6, Telling
  <2>3. /\ evq' \in [Chunks -> EventLists]
        /\ evq'[C] = [evq[C] EXCEPT !["out"] = <<>>]
        /\ \A d \in Chunks : d # C => evq'[d] = evq[d]
        /\ owner' \in [Addresses -> Tracks \cup {Nobody}]
        /\ \A a \in Addresses : owner'[a] # owner[a] =>
             a = metaOf[C.track] /\ owner'[a] = Nobody /\ "done out" \in Range(evq[C]["out"])
        /\ \A a \in Addresses : "done out" \in Range(evq[C]["out"]) /\ a = metaOf[C.track] =>
             owner'[a] = Nobody
        /\ heard'[C.track] = heard[C.track] \o evq[C]["out"]
        /\ \A t \in Tracks : t # C.track => heard'[t] = heard[t]
        /\ heard' = [t \in Tracks |-> heard'[t]]
    BY <1>1, <1>3, <2>1, Running, Numbers
  <2> QED
    BY <2>2, <2>3
<1>8. evq'[C] = EmptyEvq
  <2>1. evq[C] \in EventLists
    BY <1>3 DEF IInv, TypeOK, EventLists, LifeEvents
  <2> QED
    BY <1>6, <1>7, <2>1 DEF EventLists, EventTypes, EmptyEvq
<1>9. \A c \in Pending' : evq'[c] = evq[c]
  BY <1>5, <1>7
<1>10. /\ held' \in Seq(Chunks) /\ C \in Range(held') /\ live' \subseteq live
       /\ Range(held') \subseteq Range(held) \cup {C}
       /\ live \subseteq live' \cup Range(held)
       /\ live' \cap Range(held) \subseteq Range(held')
  BY <1>1, <1>3, HandingOver DEF IInv
\* The chunk with the events of the end is the last one of its track.
<1>11. \A d \in Pending' : evq[C]["out"] # <<>> => d.track # C.track
  <2>1. ASSUME NEW d \in Pending', evq[C]["out"] # <<>>, d.track = C.track
        PROVE  FALSE
    <3>1. Before(C, d) /\ d \in Pending
      BY <1>4, <1>5
    <3>2. d.index <= C.index
      BY <1>3, <2>1, <3>1 DEF IInv, EndIsLast
    <3> QED
      BY <1>3, <1>5, <2>1, <3>1, <3>2, ChunkNumbers DEF Before
  <2> QED
    BY <2>1
<1>12. TypeOK'
  <2>1. cleaned' \in 0..loaded' /\ loaded' \in 0..Len(Pack')
    BY <1>1, <1>2
  <2> QED
    BY <1>1, <1>7, <1>10, <2>1, Numbers DEF TypeOK, EventLists, LifeEvents
<1>13. StreamInOrder'
  <2>1. \A c : (Complete(c)' <=> Complete(c)) /\ (Begun(c)' <=> Begun(c))
    BY <1>1, <1>5 DEF Complete, Begun
  <2>2. \A c \in Range(held'), d \in Unloaded' \cup Loaded' : Before(c, d)
    BY <1>3, <1>4, <1>10 DEF IInv, StreamInOrder
  <2>3. \A c \in Unloaded' \cup Loaded' \cup Range(held') : Complete(c)'
    BY <1>3, <1>10, <2>1 DEF IInv, StreamInOrder
  <2>4. \A c \in live' \cup lost' : Begun(c)'
    BY <1>1, <1>10, <2>1 DEF IInv, StreamInOrder
  <2>5. \A i \in cleaned'+1..Len(Pack'), j \in 1..Len(queue') : Before(Pack'[i], queue'[j])
    <3>1. \A i \in cleaned'+1..Len(Pack') : i \in cleaned+1..Len(Pack)
      BY <1>1, <1>2
    <3> QED
      BY <1>1, <1>2, <3>1 DEF IInv, StreamInOrder
  <2> QED
    BY <1>1, <1>2, <2>2, <2>3, <2>4, <2>5 DEF IInv, StreamInOrder, Sorted
<1>14. EventsQueued'
  <2>1. \A c \in Chunks : ~Complete(c)' => c # C /\ ~Complete(c)
    BY <1>1, <1>3, <1>5 DEF Complete
  <2>2. \A c \in Chunks : ~Complete(c)' => evq'[c] = EmptyEvq
    BY <1>7, <2>1 DEF IInv, EventsQueued
  <2>3. \A c \in Range(held') : evq'[c] = EmptyEvq
    BY <1>3, <1>7, <1>8, <1>10, Numbers DEF IInv, EventsQueued
  <2>4. \A c \in Unloaded' \cup Loaded' : evq'[c] = evq[c]
    BY <1>3, <1>5, <1>9
  <2> QED
    BY <1>3, <2>2, <2>3, <2>4 DEF IInv, EventsQueued
<1>15. EndIsLast'
  <2>1. Unloaded' \cup Loaded' \subseteq Pending' /\ Pending' \subseteq Pending
    BY <1>3, <1>5
  <2> QED
    BY <1>3, <1>9, <2>1 DEF IInv, EndIsLast
<1>16. HeardSoFar'
  <2>1. evq[C]["out"] # <<>> => heard[C.track] \in {<<"done in">>, <<"first", "done in">>}
    BY <1>3 DEF IInv, HeardSoFar
  <2>2. heard'[C.track] \in Stories /\ (evq[C]["out"] = <<>> => heard'[C.track] = heard[C.track])
    <3>1. CASE evq[C]["out"] = <<>>
      <4>1. heard[C.track] \in Stories /\ C.track \in Tracks
        BY <1>3, Numbers, ChunkNumbers
      <4>2. heard[C.track] \in Seq(LifeEvents)
        <5>1. /\ "first" \in LifeEvents /\ "done in" \in LifeEvents /\ "done out" \in LifeEvents
          BY DEF LifeEvents
        <5>2. ASSUME NEW x \in LifeEvents, NEW y \in LifeEvents, NEW z \in LifeEvents
              PROVE  /\ <<>> \in Seq(LifeEvents) /\ <<x>> \in Seq(LifeEvents)
                     /\ <<x, y>> \in Seq(LifeEvents) /\ <<x, y, z>> \in Seq(LifeEvents)
          OBVIOUS
        <5> QED
          BY <4>1, <5>1, <5>2 DEF Stories, Story
      <4>3. heard'[C.track] = heard[C.track]
        BY <1>7, <3>1, <4>2, ConcatEmptySeq
      <4> QED
        BY <4>1, <4>3
    <3>2. CASE evq[C]["out"] = <<"done out">>
      <4>1. heard'[C.track] \in {<<"done in", "done out">>, Story}
        BY <1>7, <2>1, <3>2, Telling
      <4> QED
        BY <3>2, <4>1, Telling DEF Stories
    <3> QED
      BY <1>6, <3>1, <3>2
  <2>3. heard' \in [Tracks -> Stories]
    <3>1. \A t \in Tracks : heard'[t] \in Stories
      BY <1>7, <2>2, Numbers
    <3> QED
      BY <1>7, <3>1
  <2>4. \A t \in Tracks : t > track' => heard'[t] = <<>>
    <3>1. C.track <= track
      BY <1>5, Numbers
    <3> QED
      BY <1>1, <1>7, <3>1, Numbers
  <2>5. \A d \in Pending' : heard'[d.track] = heard[d.track]
    <3> SUFFICES ASSUME NEW d \in Pending' PROVE heard'[d.track] = heard[d.track]
      OBVIOUS
    <3>1. CASE d.track # C.track
      BY <1>5, <1>7, <3>1
    <3>2. CASE d.track = C.track
      BY <1>11, <2>2, <3>2
    <3> QED
      BY <3>1, <3>2
  <2>6. Unloaded' \cup Filled' \cup Loaded' \subseteq Pending'
    BY <1>3, <1>5
  <2> QED
    BY <1>3, <1>5, <1>9, <2>3, <2>4, <2>5, <2>6 DEF IInv, HeardSoFar
<1>17. Owned'
  <2>1. ASSUME NEW c \in Pending'
        PROVE  c \in live' /\ metaOf'[c.track] \in Addresses /\ owner'[metaOf'[c.track]] = c.track
    <3>1. /\ c \in live /\ metaOf[c.track] \in Addresses /\ owner[metaOf[c.track]] = c.track
          /\ owner[metaOf[C.track]] = C.track
      BY <1>5 DEF IInv, Owned
    <3>2. c \in live'
      BY <1>5, <1>10, <3>1, NotHeld
    <3>3. owner'[metaOf[c.track]] = owner[metaOf[c.track]]
      <4> SUFFICES ASSUME owner'[metaOf[c.track]] # owner[metaOf[c.track]] PROVE FALSE
        OBVIOUS
      <4>1. metaOf[c.track] = metaOf[C.track] /\ evq[C]["out"] # <<>>
        BY <1>7, <3>1
      <4> QED
        BY <1>11, <3>1, <4>1
    <3> QED
      BY <1>1, <3>1, <3>2, <3>3
  <2>2. \A a \in Addresses : owner'[a] <= track'
    <3>1. \A a \in Addresses : owner'[a] = owner[a] \/ owner'[a] = 0
      BY <1>7 DEF Nobody
    <3> QED
      BY <1>1, <3>1, Numbers
  <2> QED
    BY <1>1, <2>1, <2>2 DEF IInv, Owned
<1>18. LastAnnounced'
  BY <1>1, <1>5 DEF IInv, LastAnnounced
<1>19. Announced'
  <2>1. \A t : Reused(t)' <=> Reused(t)
    BY <1>1 DEF Reused
  <2>2. ASSUME NEW d \in Loaded', d.index = 1
        PROVE  heard'[d.track] = heard[d.track]
    <3>1. d.track # C.track
      BY <1>3, <1>4, <2>2, ChunkNumbers DEF Before
    <3>2. d.track \in Tracks
      BY <1>5
    <3> QED
      BY <1>7, <3>1, <3>2
  <2> QED
    BY <1>3, <1>5, <1>9, <2>1, <2>2 DEF IInv, Announced
<1>20. Followed'
  <2> SUFFICES ASSUME NEW d \in Unloaded' \cup Loaded', evq'[d]["out"] = <<>>
               PROVE  ChunkOf(d.track, d.index + 1) \in Pending' \cup lost'
    BY DEF Followed
  <2>1. d \in Pending' /\ d \in Unloaded \cup Loaded
    BY <1>3, <1>5
  <2>2. ChunkOf(d.track, d.index + 1) \in Pending \cup lost
    BY <1>9, <2>1 DEF IInv, Followed
  <2>3. ChunkOf(d.track, d.index + 1) # C
    <3> SUFFICES ASSUME ChunkOf(d.track, d.index + 1) = C PROVE FALSE
      OBVIOUS
    <3>1. C.track = d.track /\ C.index = d.index + 1 /\ d.index \in Nat /\ d.track \in Nat
      BY <1>5, <2>1, HandedNumbers
    <3>2. Before(C, d)
      BY <1>4, <1>5, <2>1
    <3> QED
      BY <3>1, <3>2 DEF Before
  <2> QED
    BY <1>1, <1>5, <2>2, <2>3
<1>21. StillOwned'
  <2>1. ASSUME NEW a \in Addresses, owner'[a] # Nobody, metaOf[owner'[a]] = a
        PROVE  \E c \in Pending' \cup lost' : c.track = owner'[a] /\ IsYoungest(c)'
    <3>1. owner'[a] = owner[a]
      BY <1>7, <2>1
    <3>2. PICK c \in Pending \cup lost : c.track = owner[a] /\ IsYoungest(c)
      BY <2>1, <3>1 DEF IInv, StillOwned
    <3>3. IsYoungest(c)'
      BY <1>1, <1>10, <3>2 DEF IsYoungest
    <3>4. CASE c # C
      BY <1>1, <1>5, <3>1, <3>2, <3>3, <3>4
    <3>5. CASE c = C
      <4>1. evq[C]["out"] = <<>>
        BY <1>7, <2>1, <3>1, <3>2, <3>5
      <4>2. ChunkOf(C.track, C.index + 1) \in Pending \cup lost
        BY <1>3, <4>1 DEF IInv, Followed
      <4>3. ChunkOf(C.track, C.index + 1) \in live \cup lost
        BY <4>2 DEF IInv, Owned
      <4>4. C.index + 1 <= C.index
        BY <3>2, <3>5, <4>3, HandedNumbers DEF IsYoungest
      <4> QED
        BY <1>3, <4>4, ChunkNumbers
    <3> QED
      BY <3>4, <3>5
  <2>2. live' \subseteq Pending' \cup Range(held') \cup lost'
    BY <1>1, <1>5, <1>10 DEF IInv, StillOwned
  <2> QED
    BY <1>1, <2>1, <2>2 DEF StillOwned
<1> QED
  BY <1>12, <1>13, <1>14, <1>15, <1>16, <1>17, <1>18, <1>19, <1>20, <1>21 DEF IInv

-----------------------------------------------------------------------------
LEMMA InitIInv == Init => IInv
<1> SUFFICES ASSUME Init PROVE IInv
  OBVIOUS
<1>1. /\ queue = <<>> /\ taken = [t \in {PA} |-> <<>>] /\ held = <<>> /\ live = {} /\ run = TRUE
      /\ evq = [c \in Chunks |-> EmptyEvq] /\ track = 0 /\ made = 0 /\ status = "none"
      /\ metaOf = [t \in Tracks |-> NULL] /\ owner = [a \in Addresses |-> Nobody]
      /\ oldmeta = NULL /\ loaded = 0 /\ cleaned = 0 /\ heard = [t \in Tracks |-> <<>>]
      /\ lost = {}
  BY DEF Init, Fifo!Init, Garbage!Init
<1>2. Pack = <<>> /\ Len(Pack) = 0 /\ Len(queue) = 0 /\ Range(held) = {} /\ ~Filling
  BY <1>1 DEF Pack, Range, Filling
<1>3. Unloaded = {} /\ Loaded = {} /\ Filled = {} /\ Pending = {}
  BY <1>1, <1>2 DEF Unloaded, Loaded, Filled, Pending
<1>4. TypeOK
  <2>1. evq \in [Chunks -> EventLists]
    BY <1>1, EventListTypes
  <2>2. /\ queue \in Seq(Chunks) /\ taken \in [{PA} -> Seq(Chunks)] /\ held \in Seq(Chunks)
        /\ live \subseteq Chunks /\ lost \subseteq Chunks
    BY <1>1
  <2>3. run \in BOOLEAN /\ status \in Statuses
    BY <1>1 DEF Statuses
  <2>4. /\ track \in 0..MaxTracks /\ made \in 0..MaxChunks-1
        /\ loaded \in 0..Len(Pack) /\ cleaned \in 0..loaded
    BY <1>1, <1>2, MdLifeAssumption DEF MdLifeAssumption
  <2>5. /\ metaOf \in [Tracks -> Addresses \cup {NULL}]
        /\ owner \in [Addresses -> Tracks \cup {Nobody}] /\ oldmeta \in Addresses \cup {NULL}
    BY <1>1
  <2> QED
    BY <2>1, <2>2, <2>3, <2>4, <2>5 DEF TypeOK, EventLists, LifeEvents
<1>5. StreamInOrder
  BY <1>1, <1>2, <1>3 DEF StreamInOrder, Sorted
<1>6. EventsQueued
  BY <1>1, <1>2, <1>3 DEF EventsQueued
<1>7. EndIsLast /\ Announced /\ Followed
  BY <1>3 DEF EndIsLast, Announced, Followed
<1>8. HeardSoFar
  <2>1. <<>> \in Stories
    BY DEF Stories
  <2> QED
    BY <1>1, <1>3, <2>1 DEF HeardSoFar
<1>9. Owned
  BY <1>1, <1>3 DEF Owned, Nobody
<1>10. LastAnnounced
  BY <1>1 DEF LastAnnounced
<1>11. StillOwned
  BY <1>1, <1>3 DEF StillOwned
<1> QED
  BY <1>4, <1>5, <1>6, <1>7, <1>8, <1>9, <1>10, <1>11 DEF IInv

LEMMA LifeInvariant == Spec => []IInv
<1>1. ASSUME IInv, [Next]_lifeVars PROVE IInv'
  <2>1. CASE UNCHANGED lifeVars
    BY <1>1, <2>1, AsideKept DEF lifeVars, IInv, TypeOK
  <2>2. CASE Resume
    <3>1. run' \in BOOLEAN
      BY <2>2 DEF Resume
    <3> QED
      BY <1>1, <2>2, <3>1, AsideKept DEF Resume, driverVars, decoderVars
  <2>3. CASE \E a \in Addresses : StartTrack(a) \/ StartEmpty(a)
    BY <1>1, <2>3, StartKept
  <2>4. CASE \E refused \in BOOLEAN : NextChunk(refused) \/ LastChunk(refused)
    BY <1>1, <2>4, NextChunkKept, LastChunkKept
  <2>5. CASE \E n \in 1..Len(queue) : TakePack(n)
    BY <1>1, <2>5, TakePackKept
  <2> QED
    BY <1>1, <2>1, <2>2, <2>3, <2>4, <2>5, GiveUpKept, LoadKept, WriteFailsKept,
       CleanChunkKept, CleanEndKept, StoppedKept, FlushKept DEF Next
<1> QED
  BY InitIInv, <1>1, PTL DEF Spec

-----------------------------------------------------------------------------
(* The driver takes no more chunks than the buffer had, loads no more than it *)
(* took and cleans no more than it loaded; queues hold only the events the    *)
(* code adds.                                                                 *)
THEOREM LifeTypes == Spec => []TypeOK
<1>1. IInv => TypeOK
  BY DEF IInv
<1> QED
  BY <1>1, LifeInvariant, PTL

(* Whatever malloc answers, whenever the buffer is flushed, refuses a chunk   *)
(* or a write fails: a chunk that is still to be filled, loaded, written or   *)
(* cleaned, and its metadata, have not been freed.                            *)
THEOREM MetaStaysValid == Spec => []MetaValid
<1>1. IInv => MetaValid
  BY ToBeReadIs DEF IInv, Owned, MetaValid
<1> QED
  BY <1>1, LifeInvariant, PTL

LEMMA PrefixPointwise ==
  ASSUME NEW S, NEW s \in Seq(S), NEW t \in Seq(S), Len(s) <= Len(t),
         \A i \in 1..Len(s) : s[i] = t[i]
  PROVE  IsPrefix(s, t)
<1> DEFINE n == Len(s)
<1>1. n \in Nat /\ \A i \in 1..n : s[i] \in S /\ t[i] \in S
  OBVIOUS
<1>2. /\ SubSeq(s, 1, n) \in Seq(S) /\ Len(SubSeq(s, 1, n)) = n
      /\ \A i \in 1..n : SubSeq(s, 1, n)[i] = s[i]
  BY <1>1, SubSeqProperties
<1>3. /\ SubSeq(t, 1, n) \in Seq(S) /\ Len(SubSeq(t, 1, n)) = n
      /\ \A i \in 1..n : SubSeq(t, 1, n)[i] = t[i]
  BY <1>1, SubSeqProperties
<1>4. SubSeq(s, 1, n) = SubSeq(t, 1, n)
  BY <1>2, <1>3, SeqEqual
<1> QED
  BY <1>4 DEF IsPrefix

LEMMA PrefixesOfThree ==
  ASSUME NEW x, NEW y, NEW z
  PROVE  /\ IsPrefix(<<>>, <<x, y, z>>) /\ IsPrefix(<<x>>, <<x, y, z>>)
         /\ IsPrefix(<<x, y>>, <<x, y, z>>) /\ IsPrefix(<<x, y, z>>, <<x, y, z>>)
<1> DEFINE S == {x, y, z}
<1>0. \A s, t \in Seq(S) :
        Len(s) <= Len(t) /\ (\A i \in 1..Len(s) : s[i] = t[i]) => IsPrefix(s, t)
  BY PrefixPointwise
<1>1. /\ <<>> \in Seq(S) /\ <<x>> \in Seq(S) /\ <<x, y>> \in Seq(S) /\ <<x, y, z>> \in Seq(S)
  OBVIOUS
<1>2. \A i \in 1..1 : <<x>>[i] = <<x, y, z>>[i]
  <2>1. \A i \in 1..1 : i = 1
    OBVIOUS
  <2> QED
    BY <2>1
<1>3. \A i \in 1..2 : <<x, y>>[i] = <<x, y, z>>[i]
  <2>1. \A i \in 1..2 : i = 1 \/ i = 2
    OBVIOUS
  <2> QED
    BY <2>1
<1>4. IsPrefix(<<>>, <<x, y, z>>)
  <2>1. Len(<<>>) <= Len(<<x, y, z>>) /\ \A i \in 1..Len(<<>>) : <<>>[i] = <<x, y, z>>[i]
    OBVIOUS
  <2> QED
    BY <1>0, <1>1, <2>1
<1>5. IsPrefix(<<x>>, <<x, y, z>>)
  <2>1. Len(<<x>>) = 1 /\ Len(<<x, y, z>>) = 3
    OBVIOUS
  <2>2. \A i \in 1..Len(<<x>>) : <<x>>[i] = <<x, y, z>>[i]
    BY <1>2, <2>1
  <2>3. Len(<<x>>) <= Len(<<x, y, z>>)
    BY <2>1
  <2> HIDE DEF S
  <2> QED
    BY <1>0, <1>1, <2>2, <2>3
<1>6. IsPrefix(<<x, y>>, <<x, y, z>>)
  <2>1. Len(<<x, y>>) = 2 /\ Len(<<x, y, z>>) = 3
    OBVIOUS
  <2>2. \A i \in 1..Len(<<x, y>>) : <<x, y>>[i] = <<x, y, z>>[i]
    BY <1>3, <2>1
  <2>3. Len(<<x, y>>) <= Len(<<x, y, z>>)
    BY <2>1
  <2> HIDE DEF S
  <2> QED
    BY <1>0, <1>1, <2>2, <2>3
<1>7. IsPrefix(<<x, y, z>>, <<x, y, z>>)
  BY <1>1 DEF IsPrefix
<1> QED
  BY <1>4, <1>5, <1>6, <1>7

LEMMA PrefixesOfTwo ==
  ASSUME NEW x, NEW y, NEW z
  PROVE  /\ Tail(<<x, y, z>>) = <<y, z>>
         /\ IsPrefix(<<y>>, <<y, z>>) /\ IsPrefix(<<y, z>>, <<y, z>>)
<1> DEFINE S == {x, y, z}
<1>0. \A s, t \in Seq(S) :
        Len(s) <= Len(t) /\ (\A i \in 1..Len(s) : s[i] = t[i]) => IsPrefix(s, t)
  BY PrefixPointwise
<1>1. <<x, y, z>> \in Seq(S) /\ <<y, z>> \in Seq(S) /\ <<y>> \in Seq(S)
  OBVIOUS
<1>2. /\ Tail(<<x, y, z>>) \in Seq(S) /\ Len(Tail(<<x, y, z>>)) = 2
      /\ \A i \in 1..2 : Tail(<<x, y, z>>)[i] = <<x, y, z>>[i + 1]
  <2>1. <<x, y, z>> # <<>> /\ Len(<<x, y, z>>) - 1 = 2
    OBVIOUS
  <2> QED
    BY <1>1, <2>1, HeadTailProperties
<1>3. Tail(<<x, y, z>>)[1] = y /\ Tail(<<x, y, z>>)[2] = z
  BY <1>2
<1>4. \A i \in 1..2 : Tail(<<x, y, z>>)[i] = <<y, z>>[i]
  <2>1. \A i \in 1..2 : i = 1 \/ i = 2
    OBVIOUS
  <2> QED
    BY <1>3, <2>1
<1>5. Tail(<<x, y, z>>) = <<y, z>>
  BY <1>1, <1>2, <1>4, SeqEqual
<1>6. IsPrefix(<<y>>, <<y, z>>)
  <2>1. \A i \in 1..1 : <<y>>[i] = <<y, z>>[i]
    <3>1. \A i \in 1..1 : i = 1
      OBVIOUS
    <3> QED
      BY <3>1
  <2>2. Len(<<y>>) = 1 /\ Len(<<y, z>>) = 2
    OBVIOUS
  <2>3. \A i \in 1..Len(<<y>>) : <<y>>[i] = <<y, z>>[i]
    BY <2>1, <2>2
  <2>4. Len(<<y>>) <= Len(<<y, z>>)
    BY <2>2
  <2> HIDE DEF S
  <2> QED
    BY <1>0, <1>1, <2>3, <2>4
<1>7. IsPrefix(<<y, z>>, <<y, z>>)
  BY <1>1 DEF IsPrefix
<1> QED
  BY <1>5, <1>6, <1>7

(* The application hears of each track at most once that it begins, that its  *)
(* last chunk was taken in, and that it was taken out, in this order.         *)
THEOREM StoryInOrder == Spec => []EventsInOrder
<1>1. IInv => EventsInOrder
  <2> SUFFICES ASSUME IInv, NEW t \in Tracks
               PROVE  IsPrefix(heard[t], Story) \/ IsPrefix(heard[t], Tail(Story))
    BY DEF EventsInOrder
  <2>1. heard[t] \in Stories
    BY Numbers
  <2>2. /\ IsPrefix(<<>>, <<"first", "done in", "done out">>)
        /\ IsPrefix(<<"first">>, <<"first", "done in", "done out">>)
        /\ IsPrefix(<<"first", "done in">>, <<"first", "done in", "done out">>)
        /\ IsPrefix(<<"first", "done in", "done out">>, <<"first", "done in", "done out">>)
    BY PrefixesOfThree
  <2>3. /\ Tail(<<"first", "done in", "done out">>) = <<"done in", "done out">>
        /\ IsPrefix(<<"done in">>, <<"done in", "done out">>)
        /\ IsPrefix(<<"done in", "done out">>, <<"done in", "done out">>)
    BY PrefixesOfTwo
  <2> QED
    BY <2>1, <2>2, <2>3 DEF Stories, Story
<1> QED
  BY <1>1, LifeInvariant, PTL

(* Every event of a chunk that is played runs: the garbage never frees a      *)
(* chunk with events in its queues.                                           *)
THEOREM NoEventDiscarded == Spec => []NothingDiscarded
<1>1. IInv => NothingDiscarded
  BY DEF IInv, EventsQueued, NothingDiscarded
<1> QED
  BY <1>1, LifeInvariant, PTL

(* A track of two chunks or more whose metadata have an address of their own  *)
(* is announced before its first chunk is played.                             *)
THEOREM FirstIsAnnounced == Spec => []FirstAnnounced
<1>1. IInv => FirstAnnounced
  <2> SUFFICES ASSUME IInv, NEW i \in cleaned+1..loaded, Pack[i].index = 1,
                      Events(evq[Pack[i]], "out") = <<>>
               PROVE  \/ "first" \in Range(heard[Pack[i].track])
                      \/ \E t \in 1..Pack[i].track-1 : metaOf[t] = metaOf[Pack[i].track]
    BY DEF FirstAnnounced
  <2>1. Pack[i] \in Loaded
    BY DEF Loaded
  <2>2. ASSUME NEW x, NEW y
        PROVE  x \in Range(<<x>>) /\ x \in Range(<<x, y>>)
    <3>1. 1 \in DOMAIN <<x>> /\ <<x>>[1] = x /\ 1 \in DOMAIN <<x, y>> /\ <<x, y>>[1] = x
      OBVIOUS
    <3> QED
      BY <3>1 DEF Range
  <2> QED
    BY <2>1, <2>2 DEF IInv, Announced, Reused, Events
<1> QED
  BY <1>1, LifeInvariant, PTL

(* Nothing is leaked but what was given up: metadata that have an owner       *)
(* belong to a track whose youngest chunk is still to be cleaned, or was      *)
(* given up, and so with chunks.                                              *)
THEOREM NoLeak == Spec => []NothingLeaked
<1>1. IInv => NothingLeaked
  <2> SUFFICES ASSUME IInv PROVE NothingLeaked
    OBVIOUS
  <2>1. ToBeRead = Pending /\ Pending \subseteq live
    BY ToBeReadIs DEF IInv, Owned
  <2>2. ASSUME NEW a \in Addresses, owner[a] # Nobody, metaOf[owner[a]] = a
        PROVE  Youngest(owner[a]) \cap (ToBeRead \cup lost) # {}
    <3>1. PICK c \in Pending \cup lost : c.track = owner[a] /\ IsYoungest(c)
      BY <2>2 DEF IInv, StillOwned
    <3>2. c \in Youngest(owner[a])
      BY <2>1, <3>1 DEF Youngest, IsYoungest
    <3> QED
      BY <2>1, <3>1, <3>2
  <2> QED
    BY <2>1, <2>2 DEF NothingLeaked, IInv, StillOwned
<1> QED
  BY <1>1, LifeInvariant, PTL

-----------------------------------------------------------------------------
LEMMA AddIsPut ==
  ASSUME NEW c \in Chunks, NEW refused \in BOOLEAN, Add(c, refused)
  PROVE  [Fifo!Next]_(Fifo!fifoVars)
  BY DEF Add, Fifo!Next, Fifo!fifoVars

(* The buffer, as the life of chunks uses it, is the bounded queue that the   *)
(* code of the buffer was proved to implement: decoders put, the driver takes *)
(* prefixes and gives packs up, and only md_buf_flush clears it.              *)
THEOREM LifeUsesFifo == Spec => Fifo!Spec
<1>1. Init => Fifo!Init
  BY DEF Init
<1>2. IInv /\ [Next]_lifeVars => [Fifo!Next]_(Fifo!fifoVars)
  <2> SUFFICES ASSUME IInv, [Next]_lifeVars PROVE [Fifo!Next]_(Fifo!fifoVars)
    OBVIOUS
  <2>1. ASSUME NEW refused \in BOOLEAN, NextChunk(refused) \/ LastChunk(refused)
        PROVE  [Fifo!Next]_(Fifo!fifoVars)
    <3>1. InHand \in Chunks /\ Add(InHand, refused)
      BY <2>1, InHandTyped DEF IInv, NextChunk, LastChunk, Filling
    <3> QED
      BY <3>1, AddIsPut
  <2>2. ASSUME NEW n \in 1..Len(queue), TakePack(n)
        PROVE  Fifo!Next
    <3>1. n \in 0..Len(queue)
      BY Numbers
    <3> QED
      BY <2>2, <3>1 DEF TakePack, Fifo!Next
  <2>3. ASSUME WriteFails \/ CleanEnd \/ Flush
        PROVE  Fifo!Next
    BY <2>3 DEF WriteFails, CleanEnd, Flush, Fifo!Next
  <2>4. ASSUME \/ \E a \in Addresses : StartTrack(a) \/ StartEmpty(a)
               \/ GiveUp \/ Load \/ CleanChunk \/ StoppedEvent \/ Resume \/ UNCHANGED lifeVars
        PROVE  UNCHANGED <<queue, taken>>
    BY <2>4 DEF StartTrack, StartEmpty, Allocate, GiveUp, Load, CleanChunk, StoppedEvent, Resume,
                lifeVars, driverVars
  <2> QED
    BY <2>1, <2>2, <2>3, <2>4 DEF Next, Fifo!fifoVars
<1> QED
  BY <1>1, <1>2, LifeInvariant, PTL DEF Spec, Fifo!Spec
=============================================================================
