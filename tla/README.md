# A formal model of Melodeer

Melodeer is an audio player library in C: decoder threads fill a buffer with
chunks, the audio server's thread empties it, and an application queues files
and stops or resumes the player. This directory holds TLA+ modules of those
parts, TLC runs that check them on small instances, and TLAPS proofs of the
main properties for all values of the constants. `PROJECT.json` lists the runs,
which source lines every definition models, the hazards and the findings.

Source paths below are relative to the repository.

## The system

| Part | Source | State | Operations |
|---|---|---|---|
| chunk buffer | `core/buffer/mdbufll.c` | list of nodes (chunk, order), `md_buf_last`, `run`, `error`, one mutex, one condition | `md_buf_add` (decoders), `md_buf_get_head`, `md_buf_get_pack` (driver), `md_buf_flush`, `md_buf_resume`, `md_buf_signal_error` (anyone) |
| decoder engine | `decoders/mddecoder.c` | `curr_decoder`, `queued_decoder`, `decoder_running`, `decoder_trigger`, one mutex, one condition | `md_decoder_start`, `md_decoder_wait`, `md_decoder_done`, stop, start, cancel, `md_no_more_decoders` |
| chunks | `core/buffer/mdbufchunk.c`, `md_add_decoded_byte` | size (with the done bit in it), order, metadata, event queue | append a byte, pad, mark as last, free |
| garbage ring | `core/buffer/mdgarbage.c` | `first`, `last`, an array of `size` slots | add a played chunk (may free the oldest), clean |
| event queues | `core/buffer/mdevq.c` | two lists of callbacks per chunk | add, run on take-in, run on take-out |
| driver layer | `drivers/mddriver.c` | one state, one mutex | signal a state, pause, unpause, stop, resume, underruns |
| Pulseaudio driver | `drivers/pulseaudio/mdpaudio.c` | context, stream, `md_pa_state_t`, one mutex, one condition | the callbacks of Pulseaudio's main loop, suspend, resume, exit |
| core | `core/mdcore.c` | none | `md_init`, `md_play_async`, `md_stop`, `md_resume`, `md_deinit` |
| playlist | `core/mdplaylist.c` | list of files, current file, `decoder_start_event`, `running` | append, play and wait, the callbacks that start the next decoder |
| decoders | `decoders/flac`, `decoders/dummy` | the file | decode byte by byte, end with or without `md_decoder_done` |

How they interact:

- `md_play_async` starts one thread per file. The thread waits in
  `md_decoder_wait` until `curr_decoder` is free, decodes, and calls
  `md_buf_add` for each full chunk. `md_decoder_done` adds the last chunk,
  marked by a bit in its size, and then clears `curr_decoder`.
- Pulseaudio runs its callbacks in one thread. A write callback takes a pack of
  chunks out of the buffer, runs their take-in events (which call the
  playlist), writes them, and puts them into the garbage ring (which runs their
  take-out events). At the end of the stream, or after a stop, it drains, and
  tells the driver layer that it has stopped. Then it waits for a new head.
- `md_buf_get_pack` asks the engine, under the buffer's mutex, whether there
  are no more decoders. That is the only place where the two mutexes nest.
- The decoder engine puts three events into the queues of chunks: the first
  chunk of a track announces it, the last one its end on take-in, and on
  take-out frees the metadata that all chunks of the track share.
- `md_stop` stops the engine, flushes the buffer and asks the driver layer to
  stop, in three separate critical sections; `md_resume` undoes them in another
  order. `md_deinit` takes the buffer down first, then waits for the
  Pulseaudio thread to disconnect, then takes down the engine.
- The playlist's main thread sleeps until the driver layer's `stopped` event.

What is hard here: two condition variables shared by threads that wait for
different things and are signalled one at a time; a stop that reaches three
parts one after the other; the end of the stream, which the driver learns from
two pieces of state under two mutexes; turns that are handed from thread to
thread with a cancellation that bypasses the order; a ring with two forms of
"full"; a size field that carries a flag; metadata shared by chunks that three
parties hold, freed by an event, and told apart by an address that malloc may
reuse; and a shutdown that has to catch every thread in whatever wait it is.

What makes each part correct:

- buffer: a bounded queue, consistent after every mix of calls, without lost
  wakeups;
- engine: one decoder at a time, a free turn is taken, a waiter gets its turn;
- chunks: nothing of a file is lost, and no chunk overflows;
- ring: every chunk is freed once, the oldest first and not too early;
- event queues: each event runs once, in order, and its data are still alive;
- player: tracks do not mix, a stop is answered, the end is noticed, and the
  application's calls return;
- playlist: every file is started once, in order, and the current file is the one
  that is heard.

## Modules

### `MdBuf` - the chunk buffer

The list is a sequence of nodes; the functions of the C file are actions, one
per critical section. A thread that is inside a function has `call[t]` set; a
thread in `pthread_cond_wait` is in `waiting`, and its next step is only
enabled once a `Signal` or a `SpuriousWakeup` has taken it out. The loop of
`md_buf_get_pack` is one action per iteration, made while `walk.by` holds the
mutex, because each iteration asks `md_no_more_decoders()` anew. That answer is
the variable `noMore`. In `MdBuf` itself it changes at will; `MdPlayer` gives
it its meaning, `curr = NULL`.

`last` is kept as the node itself rather than a pointer. `get_buf_num()` is
computed from two orders as in the code, not as the length of the list: that
the two agree is part of the invariant. Allocation failures are left out, and
so is `md_buf_get`, which has no caller.

`MdFifo` is the abstract specification: a bounded queue from which a consumer
takes a prefix. `ImplementsFifo` maps the chunks of the list to it, and the
result of a call to what the caller took.

### `MdDecoder` - the decoder engine

`phase[d]` says how far the thread of decoder d has come. The loop of
`md_decoder_wait` is three actions (enter and sleep, sleep again, leave), as a
newcomer may take the turn between a signal and the wakeup it causes.
`Abandon` stands for all the ways in which a thread ends without clearing
`curr_decoder`. `md_decoder_done` is two steps, `LastChunk` and `HandOn`, with
the buffer's `md_buf_add` between them.

### `MdGarbage` - the ring of played chunks

The array and the two indices as in the code. `live` is the set of allocated
chunks, `pack` those that the driver holds. `MdDelayLine` is the abstract
specification: a chunk stays allocated until Delay younger ones were handed
over. The ring implements it with a delay of `Size - 1`.

### `MdChunk` and `MdFile` - filling chunks from a file

`MdChunk` holds the state of one decoder's chunks and the operations of
`md_add_decoded_byte` and `md_decoder_done`. Bytes are counted, not stored. The
size is a number with the done bit in it, so that padding, `|= 1` and `^= 1` can
go wrong. The buffer may refuse any chunk, as it does after a stop.

`MdFile` extends it with the two decoders. The dummy decoder reads byte by byte.
For FLAC, libFLAC (external) asks `md_flac_read_cb` for any number of bytes while
it lacks a frame, and `md_flac_write_cb` adds the bytes of a decoded frame;
`size`, `offset` and `used` are the file's size, `decoder_data->pos`, and what
libFLAC has consumed. The frames of a file are all of one size, before and after
decoding. A sample of `depth` bits fills as many bytes as `process_block` has
steps of eight bits for it (`SampleBytes`), which for 12 or 20 bits is one more
than the `bps / 8` of the macro `md_set_metadata`. That macro (`TotalBufChunks`)
computes from what STREAMINFO announces: the samples of all frames, more than the
file still has (it was cut off), or 0 for an unknown number. The product is taken
in an int of few bits (`IntLimit`). `EstimateClose` says when the result can be
trusted, and for which side; the playlist is not built on more than that.

### `MdEvq` and `MdLife` - events and the life of chunks and metadata

`MdEvq` is the pair of event queues of a chunk as operators. `MdLife` follows
chunks and metadata from allocation to `free`: `live` is the set of allocated
chunks, `owner[a]` the track whose metadata are at address a, and `StartTrack` may
take any free address, as malloc may. It uses buffer and garbage by what they
promise: its `queue`, `taken` and `held`, `live` are the variables of `MdFifo` and
`MdDelayLine`, whose implementation by the code is proved. One action is one
`md_buf_add`, one pack taken, one chunk loaded or cleaned, so that flushes,
decoders and the driver interleave between any two chunks. That one track is
decoded after the other is what `MdDecoder` and `TracksContiguous` say. Which
events have run is recorded in `heard`; `lost` are the chunks that a flush, a
refusal or a failed write has left to nobody. A decoder that ends without handing
its turn on (`StartEmpty`, `GiveUp`) is the last one, as in the code. The early
return of `md_decoder_done` for a chunk it cannot pad is in `MdFile`, not here.

### `MdPlayer` - the composition

`MdPlayer` instantiates `MdBuf` and `MdDecoder` over its own variables; a step
of a decoder or of the application is a step of one of them or of both
together (`AddLastChunk` is the engine's `LastChunk` and the buffer's
`CallAdd`). It adds the Pulseaudio thread, whose `stage` says which callback is
due or where in it the thread is, the state of `md_pa_suspend`, the driver
layer's state, and the application between the sections of `md_stop` and
`md_resume`. The macro `md_driver_set_state` is modelled by what it expands to:
`!md_driver.state == MD_DRIVER_STOPPED` is `(!state) == 1`, true when the
driver plays, so that `md_driver_resume` calls the driver in every state but
PLAYING; and `md_driver_stop` reaches a driver operation that changes nothing.
For the same reason pausing answers
"same state" without a call, and the driver never is PAUSED; unpausing always
reaches the driver (`Refuses`).

`md_deinit` is four actions: the flush of `md_buf_deinit`, the destruction of its
condition (which returns once nobody sleeps on it, as glibc has it), `md_pa_exit`
with the wait for the context to go, and `md_decoder_deinit`. Calls to the
buffer after its mutex was destroyed find it stopped and empty; with glibc they
then run without mutual exclusion, which makes no difference to such a buffer. `Unpause` is the call on a stream that plays:
it keeps the driver layer's mutex for ever (`DriverLocked`), and a callback that
needs it ends in the stage `blocked`. `ContextLost` is a server that goes away;
`NewStream` may fail and leaves no callback, and `DrainFails` leaves a
stream that only plays out. A stream that was connected may fail at any time
(`StreamFails`, `PA_STREAM_FAILED` in `md_pa_stream_state_cb`), which the code
only logs: the thread is then in the stage `dead`, in which no callback of the
stream comes any more. From there a stop is not answered and `md_deinit` does
not return unless the context is lost as well; `StopInforms` and `CallsReturn`
except this stage by name. `Rest` names the states in which
the program may stop: after `md_deinit`, and in a call that does not return
(`Unanswered`).

### `MdPlaylist` - the playlist

One action, `TakeIn`, stands for a chunk that the driver takes out of its pack:
the take-in events of the chunk run first (`md_pl_start_take_in_cb`,
`md_pl_last_chunk_take_in_cb`), then `md_pl_will_load_chunk_cb`, all in the
driver's thread. `started` is the sequence of files for which `md_play_async` was
called; that tracks are heard in this order is what `MdPlayer` says.

What the list learns from the rest of the player may be wrong, and the model
takes it as it comes:

- `total`, the number of chunks that the metadata of a file promise, is any number
  out of `Totals`, whatever the length `len` of its track: too high for a file that
  was cut off or of which `md_flac_read_cb` dropped the tail, too low for 12- or
  20-bit samples or an unknown number of them, negative after an overflow
  (`EstimateClose` of `MdFile`).
- The announcement of a track (`md_pl_start_take_in_cb`) comes with its first
  chunk, if the track has a second one (`MayAnnounce`), and gets lost if malloc
  gave the metadata the address that `oldmeta` still holds (`Announces`). The
  start event then stays what it was.
- A failed write loses what is left of a pack (`ChunkLost`): these chunks' events
  never run.

`mishaps` counts what was lost, up to a bound. `Foreseen` names what the list
relies on: nothing was lost, every track so far has two chunks or more, and none
promises more than `Ahead - 2` chunks beyond what it has. `StartedInOrder` (its
first part) and `CurrPresent` hold without it; the order of the started decoders,
`CurrIsHeard` and `ForeseenPlayed` are claimed with it. A promise that is too low
does no harm: the next decoder is then only started earlier.

The playlist asks for the next file 60 seconds before the end of a track; `Ahead`
is what `md_usec_to_buf_chunks` makes of this. `StoppedAtEnd` may come after any track, not only the last one,
because the driver drains whenever it sees no current decoder after a last chunk.

## Runs

| Run | Checks | Instance |
|---|---|---|
| `buffer` | `IInv` (types, links and orders, capacity, walk, results), `Capacity`, `PackResult`, refinement of `MdFifo` | 2 decoder threads, 1 driver, 2 chunks of which one is a last one, `max_buf_num` 2, packs of 0 to 3 |
| `buffer_pair` | `NoLostWakeup`, `AddReturns` | 1 decoder thread, 1 driver, packs of up to 2 |
| `decoders` | `DecodingBound`, `TurnHeld`, `TurnNoticed`, `TurnComes` | 4 threads, 2 cancellations |
| `garbage` | `Owned`, refinement of `MdDelayLine` | 4 slots, 5 chunks |
| `chunks` | `WholeBlocks`, `StreamComplete`, `EstimateClose`, `TailBounded` | chunks of 8 bytes, padding 4; text files of 0 to 40 bytes; FLAC files of 0 to 11 frames of 2 bytes and 3 samples of 8, 12 or 16 bits, up to one frame cut off; requests of 1, 2, 3 and 5 bytes; an int of 6 bits |
| `life` | `MetaValid`, `EventsInOrder`, `NothingDiscarded`, `FirstAnnounced`, `NothingLeaked` | 3 tracks of 1 to 3 chunks, `max_buf_num` 2, a garbage of one chunk, 2 addresses for metadata |
| `player` | `TracksContiguous`, `SleepsStopped`, `NoLostWakeup`, `StopInforms`, `ResumeWakes`, `CallsReturn` | 2 tracks of up to 2 chunks, `max_buf_num` 2, packs of up to 2 |
| `playlist` | `IInv`, `StartedInOrder`, `CurrPresent`, `ForeseenPlayed` | 3 files, tracks of 1, 2, 4 or 5 chunks, promises of -2 to 8, a lead of 3, 2 mishaps |
| `chunk_padding` | `AdjustSucceeds`, violated | as `chunks` |
| `head_removed` | `HeadStays`, violated | as `player` |
| `end_missed` | `DrainedInforms`, violated | as `player` |
| `playlist_short` | `NoneSkipped`, violated | 3 files, tracks of 1 chunk, right promises, no mishap |

Why the bounds are enough. A buffer of two places is full, partly full and
empty, and a pack of three is larger than it; two decoder threads compete for
one place. The node order is bounded (`MaxOrder`) by a guard on new calls of
`md_buf_add` only, and three orders are one more than the buffer's places.
Four decoder threads are one that decodes, one that is woken, a newcomer, and
one that goes on sleeping; two cancellations give three decoders at once. In a
ring of four slots both forms of "full" occur, at every place of the indices.
Lengths up to five chunks have every remainder modulo padding and chunk size,
before and after the first chunk; frames of three or six bytes end inside a chunk,
at its end and inside a block of padding, the requests end before, at and behind
the end of the file, samples of 12 bits take more bytes than the metadata say, and
11 frames, or 6 of 16 bits, overflow the int. Three tracks and two
addresses let a track get the address of the one before the last, while the one
between is still played, or of the last one, if it has been taken out; three
chunks are a first, a middle and a last one, a track of one chunk is both, and
packs of two hold the end of a track and the beginning of the next. Two tracks are what turn-taking needs, and
with two chunks a track has a first and a last one. Three files are a first, a
middle and a last one; tracks of 1 to 5 chunks with a lead of 3 are shorter than
the lead, as long as it, and longer. Their promises are negative, too low, right,
and too high by less than the lead, by as much, and by more; two mishaps can hit
two tracks, or the announcement and a chunk of one.

### Fairness

- `MdBuf`: a thread that is awake inside a call and can take the mutex takes
  it; pthread mutexes are not fair in theory, but no thread takes this one again
  for ever without sleeping. The driver asks for packs again and again, as the
  audio server keeps requesting data; this is strong fairness because the driver
  may call `md_buf_get_head` in between. `AddReturns` moreover assumes that the
  application stops interfering at some point (`<>[][~Control]_vars`): one that
  stops and resumes for ever can keep a decoder in the loop.
- `MdDecoder`: a thread that can leave `md_decoder_wait` does, and a file ends.
  Nothing is assumed of the application. `TurnComes` excepts a stopped engine, a
  cancellation, and a turn that stayed with a dead thread (`Orphaned`).
- `MdPlayer`: every thread that can run does, a call of `md_stop`, `md_resume`
  or `md_deinit` that has begun goes on, and the server completes the drains it
  is asked for and keeps requesting data while a stream exists. Starting a stream
  (`Started`), starting a track, abandoning one and calling `md_stop` are never
  assumed. That the server fails a stream (`StreamFails`) or a drain
  (`DrainFails`) or is lost (`ContextLost`) is possible at any time, and the
  properties name it; requests keep coming only as long as the stream is there.

## Findings

Four statements of the repository that the code does not keep, each with a run
that shows it (see `PROJECT.json` for the lines):

1. `md_adjust_size` reports "BUG: Inconsistent buffer size." for a last chunk
   that is one byte short of full. It compares the space left with the remainder
   instead of with the padding that is missing. `md_decoder_done` then neither
   adds the chunk nor hands the turn on.
2. "Nothing in decoder or buffer code should ever remove head when it appears":
   `md_buf_flush`, called by `md_stop` or `md_deinit`, does, on another thread, between `md_buf_get_head` and the use
   of the head's metadata.
3. "As soon as packages from buffer are drained, Pulseaudio will stop and inform
   generic driver layer": not if the driver takes the last chunk before its
   decoder has cleared `curr_decoder`. The driver then sleeps in
   `md_buf_get_pack`, and the only signal goes to another condition.
4. "Please specify files to play": after a track of one chunk the list moves on
   before the start event is tested, and the file that should be next is skipped.

## Proofs

TLAPS checks the following for all values of the constants that satisfy the
named assumptions of the modules.

- `MdBufProofs`, `BufferInvariant`: `Spec => []IInv`. `IInv` is the conjunction
  of the type invariant with `NodesLinked`, `Capacity`, `WalkInside`,
  `PackResult`, `Callers` and `SleepersCall`. None of the parts but the types is
  inductive alone: capacity is guarded by `get_buf_num()`, which is the number of
  nodes only while the orders are consecutive and `last` is the last node; these
  survive a pack only because the walk has not run past the list; and a result
  stays true of its pack because a call begins by resetting it.
  `CapacityKept` and `PackMatchesCount` state the two parts that callers rely on.
- `MdBufRefinement`, `BufferImplementsFifo`: every step is a step of `MdFifo` or
  a stutter, from the invariant; `WakeupNeverLost`: with one producer, one
  consumer and `MaxCount <= MaxBufNum`, whoever sleeps has a reason to. The
  argument is that never both sleep, so that a signal finds the right thread; the
  assumption on `MaxCount` is needed, as a larger pack lets both sleep. The lemma
  behind it, `NoSleeperLost`, needs only that one thread of each kind is inside
  the buffer at a time (`OneOfEach`), which is what the player has.
- `MdDecoderProofs`: `EngineTypes`, `BoundedDecoding` (at most one decoder, and one more for
  each cancellation that hit), `ExclusiveTurn`, `TurnAlwaysNoticed`. A pending
  trigger counts as a decoder too many, and a free turn as one too few: with
  these two terms the bound is inductive.
- `MdGarbageProofs`: `RingTypes`, `RingOwnsItsChunks` and
  `RingImplementsDelayLine`, for every ring of two slots or more. The proof reads
  the ring as a sequence, oldest first; the lemmas say how adding and freeing
  change that sequence in each position of the two indices.
- `MdPlaylistProofs`: `PlaylistInvariant`, and from it `DecodersInOrder`,
  `CurrStaysPresent`, `CurrentIsHeard` and `NoFileSkipped`, for any list, lead,
  lengths, promises and losses. The invariant has two parts. `OneAhead` needs no
  condition: a decoder is started only by the chunk whose order is the start
  event; from then on the event lies behind the chunks of this track, so that no
  second one is started before the next track begins. `InStep` holds as long as
  everything was foreseen: the next decoder has been started exactly when the
  chunk at the start event has been taken in. It rests on the start event lying
  before the last chunk (`EventBeforeLast`), which is where the promise must not be
  too high, and on the event being set anew before it is compared, so that a stale
  one does no harm. The run `playlist_short` shows that tracks of one chunk must be
  excepted.
- `MdPlayerProofs`: the player for any finite number of decoders and any length
  of tracks. First that it uses its parts as their modules say: `PlayerUsesBuffer`
  (`Spec => Buf!Spec`) and `PlayerUsesEngine` (`Spec => Engine!Spec`, no
  cancellations), so that what was proved of them holds in it (`PlayerHasFifo`,
  `PlayerTurnNoticed`). Then `TracksNotMixed`: the invariant says that only a
  decoder with its turn is inside `md_buf_add`, with its newest chunk
  (`AddersActive`), that the youngest chunk in the buffer is the one its decoder
  added before, or a last one (`YoungestKnown`), that a stopped buffer is empty
  (`StoppedEmpty`), and that the turn is handed on after the last chunk is in
  (`LastAdded`); it rests on the engine's `TurnHeld`. `PlayerWakesSleepers`:
  however many decoders there are, turn-taking makes it one of each kind for the
  buffer, and no wakeup is lost, if a request is for no more chunks than
  `max_buf_num` (`MaxCount <= MaxBufNum`; the code does not check it, and the other
  theorems do not need it). `SleepsOnlyStopped`, from `Informed`: the driver
  layer says STOPPED from `md_context_drain_cb` until a stream has started.
- `MdFileProofs`: one decoder, for every `buf_size` that is a multiple of the
  padding, every file, request and frame size: `BlocksStayWhole`, `StreamKept`,
  `TailStaysBounded` and `EstimateStaysClose`. The invariant counts: unless a
  chunk was refused, the bytes added are those of full chunks and of the one in
  hand (`Counted`), chunks are numbered in order (`InOrder`), and what libFLAC has
  used of a FLAC file is the metadata and whole frames (`FramesDecoded`), so that
  less than a frame of what was read is left at the end (`EndSeen`). The estimate is
  compared with what was added: it is not too low, because the announced samples
  are those of all frames (`SizeOfFrames`) and whole bytes are counted right
  (`WholeBytes`), and not too high, because division grows with the dividend
  (`QuotientGrows`). The rest is arithmetic of div and mod, in lemmas of its own.
- `MdLifeProofs`: for any number of tracks, chunks, places in the buffer and the
  garbage, and any address malloc may return: `MetaStaysValid`, `StoryInOrder`,
  `NoEventDiscarded`, `FirstIsAnnounced` and `NoLeak`. The invariant orders the
  chunks: garbage, pack, buffer and the chunk in hand hold them in the order in
  which they were made (`StreamInOrder`). With that, the chunk with the events of
  the end is the youngest of its track (`EndIsLast`), so that nobody reads the
  metadata after its take-out event has freed them (`Owned`); events leave a
  chunk's queues in step with what was heard of its track (`EventsQueued`,
  `HeardSoFar`); the first chunk carries the announcement unless `oldmeta`
  compares equal (`LastAnnounced`, `Announced`); and a chunk without the events of
  the end has a successor or was followed by one that was given up (`Followed`),
  from which metadata keep an owner (`StillOwned`). `LifeUsesFifo` says that
  the buffer is used as the `MdFifo` which `MdBuf` implements.

Every invariant and every refinement that a passing run checks is proved, and
`CurrIsHeard`, which no run checks for itself. Model-checked
only: the liveness properties (`AddReturns`, `TurnComes`, `StopInforms`,
`ResumeWakes`, `CallsReturn`), which rest on fairness and so on `ENABLED`. Neither
proved nor a property of a run is that the garbage is used in `MdLife` exactly as
`MdDelayLine` has it: `md_garbage_clean` is one step in the one and several in the
other, and a flush frees chunks that the garbage never had.

## Not modelled

- `md_unpause` while no stream plays: it would call Pulseaudio with a stream that
  does not exist or is gone. The underrun counter of the driver layer, which only
  decides when to inform the application.
- `md_stop` in the context of a signal handler, as `main.c` calls it: it may
  interrupt a section under a mutex that it then asks for. The models have it on a
  thread of its own.
- More than two decoders at `md_deinit`: `md_decoder_deinit` waits until every
  sleeper has left, and `md_stop` wakes only one. The playlist never has more
  than one waiting (`StartedInOrder`).
- The metadata that the dummy decoder leaves unset, of which `md_done_take_out`
  frees `fname`.
- A playlist that grows while it plays, and the two settings of
  `md_playlist_setup_start_event` that `md_playlist_init` does not select. What is
  played between the end of `md_playlist_play` and the end of the program.
- A file of the playlist that cannot be opened, or decodes to nothing: the list
  stalls there, as its decoder keeps the turn (`Orphaned` of `MdDecoder`) and no
  chunk comes that would start another.
- Whether malloc may answer with the address of `oldmeta`, which depends on how
  many chunks are held as garbage: `MdPlaylist` always lets it, `MdLife` follows it.
- A FLAC file with a frame that is cut off in the middle or does not decode
  (`md_flac_error_cb` only logs), and one whose STREAMINFO announces fewer samples
  than it has.
- The division in `md_buf_len_usec`, which fails for metadata without a sample
  rate, as those of the dummy decoder.
- Contents of chunks, sample formats, libFLAC, reading files, symbol loading,
  logging: data or I/O that no property tells apart.
- Allocation failures, except where a decoder thread ends early.
- OpenAL and dummy drivers: the settings hard-wire Pulseaudio. Wave and mpeg
  decoders are not part of the build.
- Use of memory after it was freed, beyond what `Owned`, `MetaValid` and
  `HeadStays` say.

## Plan

In this order, the most important behaviour first:

1. Done: `MdFifo`, `MdBuf` and their proofs; `MdDecoder` and its proofs;
   `MdGarbage`, `MdDelayLine` and their proofs; `MdPlaylist` and its proofs;
   `MdChunk` and `MdFile`; `MdEvq` and `MdLife`; `MdPlayer` with shutdown,
   unpausing and a server that fails.
2. Done: proofs of all safety properties of the runs, for `MdBuf`, `MdDecoder`,
   `MdGarbage`, `MdPlaylist`, `MdPlayer`, `MdFile` and `MdLife`, and that the player
   implements its parts.
3. Next, what the liveness properties rest on and can be proved: that the steps
   which a stop or a resume waits for stay enabled or are taken (stated without
   `ENABLED`); the use of the garbage by `MdLife`, with `md_garbage_clean` as the
   steps of `MdDelayLine` that it is.
