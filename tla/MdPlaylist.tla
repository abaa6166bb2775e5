----------------------------- MODULE MdPlaylist -----------------------------
(***************************************************************************)
(* The playlist of core/mdplaylist.c.  Its callbacks run in the driver's   *)
(* thread whenever a chunk is taken in: the first chunk of a track decides *)
(* at which chunk the next file's decoder is to be started, the last one   *)
(* moves the list on, and every chunk may start a decoder.  Tracks are     *)
(* heard in the order in which their decoders were started, which the      *)
(* buffer and the decoder engine see to.  Files are numbers, in the order  *)
(* of the calls of md_playlist_append; as in main.c, all of them are       *)
(* appended before md_playlist_play.                                       *)
(***************************************************************************)
EXTENDS Integers, Sequences

CONSTANTS
  N,          \* how many files there are
  Lengths,    \* how many chunks a track may have
  Totals,     \* how many of them its metadata may promise
  Ahead,      \* the chunks that md_usec_to_buf_chunks finds in 60 seconds
  MaxMishaps  \* bound: the announcements and chunks that get lost

\* A chunk lasts less than 60 seconds.  The promise of the metadata may be far
\* from the truth (see MdFile), and not even positive.
ASSUME MdPlaylistAssumption ==
  /\ N \in Nat \ {0}
  /\ Lengths \subseteq Nat \ {0}
  /\ Totals \subseteq Int
  /\ Ahead \in Nat \ {0}
  /\ MaxMishaps \in Nat

Files == 1..N
None == 0       \* the NULL at the end of the list

VARIABLES
  len,          \* len[f]: the chunks of the track of f
  total,        \* total[f]: total_buf_chunks in its metadata
  curr,         \* mdplaylist.curr
  startEvent,   \* decoder_start_event
  oldmeta,      \* the file whose metadata oldmeta points to (mddecoder.c)
  started,      \* the files whose decoders were started, in this order
  heard,        \* how many of their tracks are over
  order,        \* the order of the next chunk of the track after those
  mishaps,      \* history: announcements and chunks that were lost
  status        \* playing; ended: the driver drained after a track;
                \* stopped: by md_stop.  md_core_wait returns unless it is
                \* playing, and main deinitializes: nothing more is played.

listVars ==
  <<len, total, curr, startEvent, oldmeta, started, heard, order, mishaps, status>>

\* mdplaylist.curr->next
NextUnset(f) == f + 1                   \* mutant: no NULL behind the last file
NextOf(f) == IF f \in Files /\ f < N THEN f + 1 ELSE None

\* The file whose chunk comes next, if a decoder for it was started.
Playing == started[heard + 1]

-----------------------------------------------------------------------------
\* md_playlist_play, on a list of N files
Init ==
  /\ len \in [Files -> Lengths]
  /\ total \in [Files -> Totals]
  /\ curr = 1
  /\ startEvent = 0
  /\ oldmeta = None
  /\ started = <<1>>
  /\ heard = 0
  /\ order = 0
  /\ mishaps = 0
  /\ status = "playing"

\* md_add_decoded_byte announces a track, by an event of its first chunk, once
\* it begins the second one, if oldmeta differs from the pointer to the track's
\* metadata.  malloc may have placed these where those of the last announced
\* track were.
MayAnnounce(f) == order = 0 /\ len[f] > 1
Announces(f, told) ==
  /\ told => MayAnnounce(f)
  /\ MayAnnounce(f) /\ ~told => oldmeta # None /\ mishaps < MaxMishaps

\* md_playlist_setup_start_event, for MD_PL_SWITCH_USECONDS
SetupLate(f) == total[f] - 1            \* mutant: only at the last chunk
Setup(f) == IF total[f] > Ahead THEN total[f] - Ahead ELSE 0

\* md_pl_start_take_in_cb, for a track that is announced
EventAfterStart(f, told) ==
  IF told /\ NextOf(curr) # None THEN Setup(f) ELSE startEvent

\* md_pl_last_chunk_take_in_cb
CurrKept(f) == curr                     \* mutant: the list does not move on
CurrAfterLast(f) == IF order = len[f] - 1 THEN NextOf(curr) ELSE curr

\* md_pl_will_load_chunk_cb: does it start the decoder for the next file, and
\* what becomes of the start event (unless the last chunk is reached, as far as
\* the metadata tell).
StartsFrom(event, c) == order >= event /\ NextOf(c) # None  \* mutant: at any later chunk
StartsNext(event, c) == order = event /\ NextOf(c) # None
EventAfterLoad(f, event) == IF order = total[f] - 1 THEN 0 ELSE event

\* The track goes on behind the chunk, or is over.
Passed(f) ==
  /\ heard' = IF order = len[f] - 1 THEN heard + 1 ELSE heard
  /\ order' = IF order = len[f] - 1 THEN 0 ELSE order + 1

\* A chunk is taken in: its take-in events run, and then will_load_chunk.
TakeIn ==
  /\ status = "playing"
  /\ heard < Len(started)
  /\ \E told \in BOOLEAN :
       LET f == Playing
           event == EventAfterStart(f, told)
           c == CurrAfterLast(f)
       IN /\ Announces(f, told)
          /\ curr' = c
          /\ started' = IF StartsNext(event, c) THEN Append(started, NextOf(c)) ELSE started
          /\ startEvent' = EventAfterLoad(f, event)
          /\ oldmeta' = IF told THEN f ELSE oldmeta
          /\ mishaps' = IF MayAnnounce(f) /\ ~told THEN mishaps + 1 ELSE mishaps
          /\ Passed(f)
  /\ UNCHANGED <<len, total, status>>

\* md_paudio_add_to_buffer returns after a failed write: what is left of the
\* pack was taken from the buffer, but is never taken in.  The first chunk of
\* a pack is.  A lost chunk may be one whose track was being announced.
ChunkLost ==
  /\ status = "playing"
  /\ heard < Len(started)
  /\ heard + order > 0
  /\ mishaps < MaxMishaps
  /\ mishaps' = mishaps + 1
  /\ \E told \in BOOLEAN :
       /\ Announces(Playing, told)
       /\ oldmeta' = IF told THEN Playing ELSE oldmeta
  /\ Passed(Playing)
  /\ UNCHANGED <<len, total, curr, startEvent, started, status>>

\* The driver has drained after a last chunk and informs md_pl_stopped_cb.  It
\* does so whenever it saw no current decoder, which the next track may already
\* be about to become.
StoppedAtEnd ==
  /\ status = "playing"
  /\ heard > 0 /\ order = 0
  /\ status' = "ended"
  /\ UNCHANGED <<len, total, curr, startEvent, oldmeta, started, heard, order, mishaps>>

\* The same after md_stop.
StoppedByUser ==
  /\ status = "playing"
  /\ status' = "stopped"
  /\ UNCHANGED <<len, total, curr, startEvent, oldmeta, started, heard, order, mishaps>>

Next == TakeIn \/ ChunkLost \/ StoppedAtEnd \/ StoppedByUser

Spec == Init /\ [][Next]_listVars

-----------------------------------------------------------------------------
TypeOK ==
  /\ len \in [Files -> Lengths]
  /\ total \in [Files -> Totals]
  /\ curr \in Files \cup {None}
  /\ startEvent \in Nat
  /\ oldmeta \in Files \cup {None}
  /\ started \in Seq(Files)
  /\ heard \in 0..Len(started)
  /\ order \in Nat
  /\ heard < Len(started) => order < len[Playing]
  /\ mishaps \in 0..MaxMishaps
  /\ status \in {"playing", "ended", "stopped"}

\* What the playlist relies on: a track has two chunks or more, and what its
\* metadata promise beyond the chunks it has is less than the lead.
Foreseeable(f) == len[f] >= 2 /\ total[f] - len[f] <= Ahead - 2

\* So far, the track in progress included, the playlist could rely on that, every
\* track was announced, and no chunk was lost.
Foreseen == mishaps = 0 /\ \A f \in Files : f <= heard + 1 => Foreseeable(f)

(* Whatever the metadata promise and whatever got lost, no more than one      *)
(* decoder is started ahead of the track that is heard: with two of them      *)
(* waiting for their turn the order would be up to the scheduler.  As long as *)
(* nothing unforeseen happens, decoders are started in the order of the       *)
(* files, none twice and none left out.                                       *)
StartedInOrder ==
  /\ Len(started) <= heard + 2
  /\ Foreseen => \A i \in 1..Len(started) : started[i] = i

(* md_pl_start_take_in_cb and md_pl_last_chunk_take_in_cb follow curr without *)
(* a test for NULL: the list is not at its end while a chunk of a started     *)
(* decoder is still to come.  That holds even if files were skipped or        *)
(* started twice.                                                             *)
CurrPresent == heard < Len(started) => curr # None

(* The current file of the playlist, of which the callbacks tell the user     *)
(* that it plays, is the file whose chunk comes next.                         *)
CurrIsHeard == Foreseen /\ heard < Len(started) => curr = Playing

(* All files that were specified are played (main.c:98, main.c:110): when the *)
(* last track for which there was a decoder is over, it was the last one of   *)
(* the list.                                                                  *)
NoneSkipped == heard = Len(started) => heard = N /\ started[N] = N

(* As long as nothing unforeseen happens, every file is played.               *)
ForeseenPlayed == Foreseen => NoneSkipped

(* A decoder is started once for each track: not again before the next track  *)
(* begins, which the list can then still name.                                *)
OneAhead ==
  /\ heard < Len(started) => curr \in Files
  /\ Len(started) <= heard + 2
  /\ Len(started) = heard + 2 => order > 0 /\ startEvent < order /\ NextOf(curr) # None

(* The decoder of the next file is started when the chunk at the start event  *)
(* of the current track is taken in, and in any case before the last one.     *)
LeadKept ==
  LET f == heard + 1
  IN IF heard = Len(started) THEN heard = N
     ELSE /\ curr = f
          /\ Len(started) = IF f = N \/ order = 0 \/ order <= Setup(f) THEN f ELSE f + 1
          /\ order > 0 /\ f < N /\ order <= Setup(f) => startEvent = Setup(f)

InStep ==
  /\ \A i \in 1..Len(started) : started[i] = i
  /\ Len(started) <= N
  /\ LeadKept

(* What the callbacks preserve; the properties above follow from it.          *)
IInv ==
  /\ TypeOK
  /\ OneAhead
  /\ Foreseen => InStep
=============================================================================
