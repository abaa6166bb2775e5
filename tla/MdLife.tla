------------------------------- MODULE MdLife -------------------------------
(***************************************************************************)
(* The life of chunks and of the metadata that the chunks of a track       *)
(* share: the decoder allocates both, the driver takes chunks out of the   *)
(* buffer in packs, loads and writes them, and hands them to the garbage.  *)
(* The events of the chunks (core/buffer/mdevq.c) tell the application of  *)
(* the first and the last chunk of a track, and free the metadata with the *)
(* latter.  The buffer and the garbage are taken by what they promise,     *)
(* MdFifo and MdDelayLine; decoders take turns (MdDecoder), so that one    *)
(* track is decoded after the other.                                       *)
(***************************************************************************)
EXTENDS Integers, SequencesExt, MdEvq

CONSTANTS
  MaxTracks,    \* bound: how many tracks are decoded
  MaxChunks,    \* bound: the chunks of one track
  MaxBufNum,    \* get_settings()->max_buf_num
  Delay,        \* how many chunks the garbage keeps
  Addresses,    \* where malloc may place metadata
  PA,           \* the driver's thread
  NULL

ASSUME MdLifeAssumption ==
  /\ MaxTracks \in Nat \ {0} /\ MaxChunks \in Nat \ {0}
  /\ MaxBufNum \in Nat \ {0} /\ Delay \in Nat \ {0}
  /\ NULL \notin Addresses

Tracks == 1..MaxTracks
Chunks == [track : Tracks, index : 1..MaxChunks]
ChunkOf(t, i) == [track |-> t, index |-> i]
Nobody == 0

VARIABLES
  queue, taken,   \* MdFifo: the buffer, and the driver's pack
  held, live,     \* MdDelayLine: the garbage, and the allocated chunks
  run,            \* md_bufll.run
  evq,            \* evq[c]: the event queues of chunk c
  track,          \* the track that is decoded, or was last
  made,           \* how many of its chunks are complete
  status,         \* what its decoder does: see Statuses
  metaOf,         \* metaOf[t]: the metadata pointer of the chunks of t
  owner,          \* owner[a]: the track whose metadata are allocated at a
  oldmeta,        \* the static variable of md_add_decoded_byte
  loaded,         \* how many chunks of the pack were loaded and written
  cleaned,        \* how many chunks of the pack are with the garbage
  heard,          \* history: heard[t]: the events of t's chunks that have run
  lost            \* history: the chunks that were given up unplayed

lifeVars == <<queue, taken, held, live, run, evq, track, made, status, metaOf,
              owner, oldmeta, loaded, cleaned, heard, lost>>
driverVars == <<taken, held, loaded, cleaned, heard>>
decoderVars == <<track, made, status, metaOf, oldmeta>>

\* none: the turn is free; decoding; aborted: the buffer has refused a chunk;
\* orphaned: the thread has ended without handing its turn on.
Statuses == {"none", "decoding", "aborted", "orphaned"}

Fifo == INSTANCE MdFifo WITH Threads <- {PA}, Capacity <- MaxBufNum
Garbage == INSTANCE MdDelayLine

Pack == taken[PA]

\* The chunk that the decoder fills, decoder_data->chunk.
InHand == ChunkOf(track, made + 1)

-----------------------------------------------------------------------------
Init ==
  /\ Fifo!Init
  /\ Garbage!Init
  /\ run = TRUE
  /\ evq = [c \in Chunks |-> EmptyEvq]
  /\ track = 0 /\ made = 0 /\ status = "none"
  /\ metaOf = [t \in Tracks |-> NULL]
  /\ owner = [a \in Addresses |-> Nobody]
  /\ oldmeta = NULL
  /\ loaded = 0 /\ cleaned = 0
  /\ heard = [t \in Tracks |-> <<>>]
  /\ lost = {}

-----------------------------------------------------------------------------
(* The decoder. *)

\* The metadata callback of the decoder
Allocate(a) ==
  /\ status = "none"
  /\ track < MaxTracks
  /\ owner[a] = Nobody
  /\ track' = track + 1
  /\ made' = 0
  /\ owner' = [owner EXCEPT ![a] = track']
  /\ UNCHANGED <<queue, run, evq, oldmeta, lost, driverVars>>

\* It, and the first byte of the first chunk.
StartTrack(a) ==
  /\ Allocate(a)
  /\ status' = "decoding"
  /\ metaOf' = [metaOf EXCEPT ![track'] = a]
  /\ live' = live \cup {ChunkOf(track', 1)}

\* It, and nothing to decode: md_decoder_done without a chunk does nothing.
StartEmpty(a) ==
  /\ Allocate(a)
  /\ status' = "orphaned"
  /\ UNCHANGED <<metaOf, live>>

\* md_buf_add, once there is room; or refused, and then the chunk is nobody's.
Add(c, refused) ==
  \/ ~refused /\ run /\ Fifo!Put(c) /\ UNCHANGED lost
  \/ refused /\ ~run /\ lost' = lost \cup {c} /\ UNCHANGED <<queue, taken>>

\* md_add_decoded_byte compares the metadata with those of the last track that
\* it has announced.
AlwaysNew == TRUE                       \* mutant: it does not compare
NeverNew == FALSE                       \* mutant: oldmeta is set before that
IsNew == oldmeta # metaOf[track]

\* md_add_decoded_byte, with the first byte of the next chunk
NextChunk(refused) ==
  /\ status = "decoding"
  /\ made + 2 <= MaxChunks
  /\ live' = live \cup {ChunkOf(track, made + 2)}
  /\ evq' = IF IsNew THEN [evq EXCEPT ![InHand] = AddEvent(@, "in", "first")] ELSE evq
  /\ oldmeta' = metaOf[track]
  /\ Add(InHand, refused)
  /\ made' = made + 1
  /\ status' = IF refused THEN "aborted" ELSE "decoding"
  /\ UNCHANGED <<held, run, track, metaOf, owner, loaded, cleaned, heard>>

\* md_decoder_done, at the end of the file or, for FLAC, after a refusal
LastChunk(refused) ==
  /\ status \in {"decoding", "aborted"}
  /\ evq' = [evq EXCEPT ![InHand] =
               AddEvent(AddEvent(@, "in", "done in"), "out", "done out")]
  /\ Add(InHand, refused)
  /\ status' = "none"
  /\ UNCHANGED <<held, live, run, track, made, metaOf, owner, oldmeta, loaded,
                 cleaned, heard>>

\* The dummy decoder gives up after a refusal.
GiveUp ==
  /\ status = "aborted"
  /\ status' = "orphaned"
  /\ lost' = lost \cup {InHand}
  /\ UNCHANGED <<queue, live, run, evq, track, made, metaOf, owner, oldmeta,
                 driverVars>>

-----------------------------------------------------------------------------
(* The driver. *)

\* md_start_take_in, md_done_take_in and md_done_take_out run in this order of
\* events; the last one frees the metadata.
FreesEarly(events) == "done in" \in Range(events)       \* mutant: on take-in
FreesNever(events) == FALSE                             \* mutant: leaks
Frees(events) == "done out" \in Range(events)

RunEvents(c, type) ==
  /\ heard' = [heard EXCEPT ![c.track] = @ \o Events(evq[c], type)]
  /\ evq' = [evq EXCEPT ![c] = AfterRun(@, type)]
  /\ owner' = IF Frees(Events(evq[c], type))
                THEN [owner EXCEPT ![metaOf[c.track]] = Nobody] ELSE owner

\* md_buf_get_pack
TakePack(n) ==
  /\ run
  /\ Pack = <<>>
  /\ Fifo!Take(PA, n)
  /\ UNCHANGED <<held, live, run, evq, owner, loaded, cleaned, heard, lost,
                 decoderVars>>

\* md_bufll_first or md_bufll_next, which runs the take-in events and has the
\* playlist look at the chunk and its metadata, and the writing of the chunk.
Load ==
  /\ loaded < Len(Pack)
  /\ RunEvents(Pack[loaded + 1], "in")
  /\ loaded' = loaded + 1
  /\ UNCHANGED <<queue, taken, held, live, run, cleaned, lost, decoderVars>>

\* Writing a chunk fails: md_paudio_add_to_buffer forgets the whole pack.
WriteFails ==
  /\ loaded > 0 /\ cleaned = 0
  /\ Fifo!Forget(PA)
  /\ loaded' = 0
  /\ lost' = lost \cup Range(Pack)
  /\ UNCHANGED <<held, live, run, evq, owner, cleaned, heard, decoderVars>>

\* md_buf_clean_pack, md_add_to_garbage: one chunk of the pack
CleanChunk ==
  /\ loaded = Len(Pack)
  /\ cleaned < loaded
  /\ RunEvents(Pack[cleaned + 1], "out")
  /\ Garbage!HandOver(Pack[cleaned + 1])
  /\ cleaned' = cleaned + 1
  /\ UNCHANGED <<queue, taken, run, loaded, lost, decoderVars>>

\* mutant: the pack is not reset
CleanEndKeeps ==
  /\ loaded > 0 /\ cleaned = loaded
  /\ Fifo!Forget(PA)
  /\ UNCHANGED <<loaded, cleaned, held, live, run, evq, owner, heard, lost, decoderVars>>

CleanEnd ==
  /\ loaded > 0 /\ cleaned = loaded
  /\ Fifo!Forget(PA)
  /\ loaded' = 0 /\ cleaned' = 0
  /\ UNCHANGED <<held, live, run, evq, owner, heard, lost, decoderVars>>

\* md_driver_stopped_event: md_garbage_clean.  md_buf_chunk_free discards the
\* events a chunk still has.
StoppedEvent ==
  /\ Pack = <<>>
  /\ held # <<>>
  /\ held' = <<>>
  /\ live' = live \ Range(held)
  /\ evq' = [c \in Chunks |-> IF c \in Range(held) THEN EmptyEvq ELSE evq[c]]
  /\ UNCHANGED <<queue, taken, run, owner, loaded, cleaned, heard, lost, decoderVars>>

-----------------------------------------------------------------------------
(* The application. *)

\* md_buf_flush, which frees the chunks and not their event queues or metadata
Flush ==
  /\ Fifo!Clear
  /\ run' = FALSE
  /\ live' = live \ Range(queue)
  /\ lost' = lost \cup Range(queue)
  /\ UNCHANGED <<held, evq, owner, loaded, cleaned, heard, decoderVars>>

\* md_buf_resume
Resume ==
  /\ ~run
  /\ run' = TRUE
  /\ UNCHANGED <<queue, live, evq, owner, lost, driverVars, decoderVars>>

-----------------------------------------------------------------------------
Next ==
  \/ \E a \in Addresses : StartTrack(a) \/ StartEmpty(a)
  \/ \E refused \in BOOLEAN : NextChunk(refused) \/ LastChunk(refused)
  \/ GiveUp
  \/ \E n \in 1..Len(queue) : TakePack(n)
  \/ Load \/ WriteFails \/ CleanChunk \/ CleanEnd \/ StoppedEvent
  \/ Flush \/ Resume

Spec == Init /\ [][Next]_lifeVars

-----------------------------------------------------------------------------
TypeOK ==
  /\ queue \in Seq(Chunks)
  /\ taken \in [{PA} -> Seq(Chunks)]
  /\ held \in Seq(Chunks)
  /\ live \subseteq Chunks
  /\ run \in BOOLEAN
  /\ evq \in [Chunks -> [EventTypes -> Seq({"first", "done in", "done out"})]]
  /\ track \in 0..MaxTracks
  /\ made \in 0..MaxChunks-1
  /\ status \in Statuses
  /\ metaOf \in [Tracks -> Addresses \cup {NULL}]
  /\ owner \in [Addresses -> Tracks \cup {Nobody}]
  /\ oldmeta \in Addresses \cup {NULL}
  /\ loaded \in 0..Len(Pack)
  /\ cleaned \in 0..loaded
  /\ lost \subseteq Chunks

\* The chunks whose metadata are still to be read, by a callback of the
\* application, the playlist or the driver (mdpaudio.c:464).
ToBeRead ==
  Range(queue) \cup Range(SubSeq(Pack, cleaned + 1, Len(Pack)))
    \cup (IF status \in {"decoding", "aborted"} THEN {InHand} ELSE {})

(* Whoever gets a chunk may read its metadata: the chunk itself is allocated, *)
(* and so are its metadata, and they are the ones of its own track, although  *)
(* the last chunk's take-out event frees them while the driver may hold       *)
(* chunks of the same pack, and malloc may reuse the address at once.         *)
MetaValid ==
  \A c \in ToBeRead : c \in live /\ owner[metaOf[c.track]] = c.track

(* The application hears of each track at most once that it begins, then that *)
(* its last chunk was taken in, then that it was taken out, in this order,    *)
(* and of the last chunk's taking out only if it heard of its taking in,      *)
(* whatever was flushed or refused in between.                                *)
Story == <<"first", "done in", "done out">>

EventsInOrder ==
  \A t \in Tracks : IsPrefix(heard[t], Story) \/ IsPrefix(heard[t], Tail(Story))

(* No event that was queued for a played chunk is discarded: md_buf_chunk_free *)
(* finds only empty queues when the garbage frees a chunk.                    *)
NothingDiscarded == \A c \in Range(held) : evq[c] = EmptyEvq

(* When the first chunk of a track of two or more is played, it has been      *)
(* announced: without that the playlist never computes when to start the next *)
(* file.  The exception is a track whose metadata malloc has placed where     *)
(* those of an earlier track were, as the code tells tracks apart by the      *)
(* address of their metadata.                                                 *)
FirstAnnounced ==
  \A i \in cleaned+1..loaded :
    LET c == Pack[i]
    IN c.index = 1 /\ Events(evq[c], "out") = <<>> =>
         \/ "first" \in Range(heard[c.track])
         \/ \E t \in 1..c.track-1 : metaOf[t] = metaOf[c.track]

(* Nothing stays allocated but what has an owner, or belongs to a chunk that  *)
(* was given up: metadata live until the youngest chunk of their track is     *)
(* taken out, and a chunk until the garbage frees it.  The exception are the  *)
(* metadata of a file without data, which no chunk points to.                 *)
Youngest(t) ==
  {c \in live \cup lost :
     c.track = t /\ \A d \in live \cup lost : d.track = t => d.index <= c.index}

NothingLeaked ==
  /\ \A a \in Addresses :
       owner[a] # Nobody /\ metaOf[owner[a]] = a =>
         Youngest(owner[a]) \cap (ToBeRead \cup lost) # {}
  /\ live \subseteq ToBeRead \cup Range(held) \cup lost
=============================================================================
