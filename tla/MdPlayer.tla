------------------------------ MODULE MdPlayer ------------------------------
(***************************************************************************)
(* The player while it plays: decoder threads that take turns (MdDecoder)  *)
(* and fill the buffer (MdBuf), the thread of Pulseaudio's main loop that  *)
(* empties it (drivers/pulseaudio/mdpaudio.c), the state the generic       *)
(* driver layer keeps (drivers/mddriver.c), and an application that calls  *)
(* md_stop, md_resume, md_unpause and, in the end, md_deinit               *)
(* (core/mdcore.c).                                                        *)
(*                                                                         *)
(* An action of a decoder or of the application is an action of the        *)
(* engine, of the buffer, or of both.  Pulseaudio runs its callbacks one   *)
(* after the other in one thread; `stage' says which one is due or how far *)
(* it has come.                                                            *)
(***************************************************************************)
EXTENDS Integers, Sequences, FiniteSets

CONSTANTS
  Decoders,     \* the decoder threads, one per track
  PA,           \* the thread of Pulseaudio's main loop
  MaxTrack,     \* bound: the chunks of one track
  MaxBufNum,    \* get_settings()->max_buf_num
  MaxCount,     \* bound: the most chunks the server asks for at once
  NULL

\* The index-th chunk of a track; the last one carries the done bit.
TrackChunk(d, index, done) == [track |-> d, index |-> index, done |-> done]
Chunks == [track : Decoders, index : 1..MaxTrack, done : BOOLEAN]
DoneChunks == {c \in Chunks : c.done}

ASSUME MdPlayerAssumption ==
  /\ IsFiniteSet(Decoders)
  /\ PA \notin Decoders
  /\ NULL \notin Decoders \cup {PA} \cup Chunks \cup [chunk : Chunks, order : Nat]
  /\ MaxTrack \in Nat \ {0}
  /\ MaxBufNum \in Nat \ {0}
  /\ MaxCount \in Nat \ {0}

VARIABLES
  list, last, run, error, waiting, call, walk, ret,             \* MdBuf
  curr, queued, running, trigger, asleep, phase, cancels,       \* MdDecoder
  made,       \* made[d]: how many chunks d has handed to md_buf_add
  stage,      \* what the Pulseaudio thread does: see Stages
  paState,    \* md_paudio.state
  driver,     \* md_driver.state
  app         \* what the application does: see AppSteps

bufVars == <<list, last, run, error, waiting, call, walk, ret>>
decVars == <<curr, queued, running, trigger, asleep, phase, cancels>>
paVars == <<stage, paState, driver>>
playerVars == <<bufVars, decVars, made, paVars, app>>

Buf == INSTANCE MdBuf WITH
  Producers <- Decoders,
  Consumers <- {PA},
  MaxOrder <- Cardinality(Decoders) * MaxTrack,
  noMore <- (curr = NULL)

Engine == INSTANCE MdDecoder WITH MaxCancels <- 0

\* connecting: the context is not ready; peek, head: to call md_buf_get_head in
\* md_context_drain_cb, in md_pa_new_stream; peekCall, headCall: inside it;
\* peekSuspend, headSuspend: to call md_pa_suspend there; peekSleep, headSleep:
\* asleep in it; spec: before the stream is made from the head's metadata;
\* stream: between callbacks of a stream; pack: in its write callback;
\* drainStream, drainContext: the server drains; dead: there is no stream, or it
\* has failed, and no callback is to come;
\* undrained: as drainStream, but the server was not asked or has failed;
\* blocked: in a callback, on the driver layer's mutex; terminated: the context
\* was disconnected or lost.
Stages ==
  {"connecting", "peek", "peekCall", "peekSuspend", "peekSleep",
   "head", "headCall", "headSuspend", "headSleep", "spec",
   "stream", "pack", "drainStream", "drainContext",
   "dead", "undrained", "blocked", "terminated"}

\* The next thing that the call of the application in progress does.
AppSteps ==
  {"idle", "stop flush", "stop driver", "resume driver", "resume engine",
   "unpause", "destroy buf", "exit driver", "wait driver", "destroy decoders",
   "ended"}

Idle(t) == call[t] = Buf!NoCall

\* The last call of t to the buffer found it stopped.
Refused(t) == ret[t].code \in {"EXIT", "ERROR"}

-----------------------------------------------------------------------------
Init ==
  /\ Buf!InitBuf
  /\ Engine!Init
  /\ made = [d \in Decoders |-> 0]
  /\ stage = "connecting"
  /\ paState = "RUNNING"
  /\ driver = "STOPPED"
  /\ app = "idle"

-----------------------------------------------------------------------------
(* The decoder threads. *)

\* md_decoder_start_id, md_decoder_wait
StartTrack(d) ==
  /\ app \notin {"destroy decoders", "ended"}
  /\ Engine!Start(d)
  /\ UNCHANGED <<bufVars, made, paVars, app>>

TakeTurn(d) == Engine!Waiter(d) /\ UNCHANGED <<bufVars, made, paVars, app>>

Hand(d, done) ==
  /\ Idle(d)
  /\ made' = [made EXCEPT ![d] = @ + 1]
  /\ Buf!CallAdd(d, TrackChunk(d, made[d] + 1, done))
  /\ UNCHANGED <<paVars, app>>

\* md_add_decoded_byte, with a full chunk; a refusal ends the decoding.
AddChunk(d) ==
  /\ phase[d] = "decoding"
  /\ ~Refused(d)
  /\ made[d] < MaxTrack - 1
  /\ Hand(d, FALSE)
  /\ UNCHANGED decVars

\* md_decoder_done, at the end of the file or after a refusal
AddLastChunk(d) == Engine!LastChunk(d) /\ Hand(d, TRUE)

\* mutant: the decoder goes on after md_decoder_done
EndTrackAgain(d) ==
  /\ Idle(d)
  /\ phase[d] = "handing"
  /\ curr' = NULL
  /\ Engine!Signal
  /\ Engine!To(d, "decoding")
  /\ UNCHANGED <<bufVars, queued, running, trigger, cancels, made, paVars, app>>

\* md_decoder_done, once md_buf_add has returned, whatever it returned
EndTrack(d) ==
  /\ Idle(d)
  /\ Engine!HandOn(d)
  /\ UNCHANGED <<bufVars, made, paVars, app>>

\* The thread ends without md_decoder_done.
AbandonTrack(d) ==
  /\ Idle(d)
  /\ Engine!Abandon(d)
  /\ UNCHANGED <<bufVars, made, paVars, app>>

\* A step of any thread inside a function of the buffer.
BufStep(t) == Buf!Step(t) /\ UNCHANGED <<decVars, made, paVars, app>>

-----------------------------------------------------------------------------
(* The Pulseaudio thread. *)

GoTo(s) == stage' = s

\* md_driver.mutex is kept by md_driver_unpause while it waits for the driver;
\* all other sections under it are short.
DriverLocked == app = "unpause"

\* md_driver_signal_state; the events it runs change nothing here.
SignalState(s) == ~DriverLocked /\ driver' = s

\* md_pa_set_state_cb, on PA_CONTEXT_READY
ContextReady ==
  /\ stage = "connecting"
  /\ GoTo("head")
  /\ UNCHANGED <<bufVars, decVars, made, paState, driver, app>>

\* md_buf_get_head in the loop of md_context_drain_cb or of md_pa_new_stream
GetHead ==
  /\ \/ stage = "peek" /\ GoTo("peekCall")
     \/ stage = "head" /\ GoTo("headCall")
  /\ Buf!CallHead(PA)
  /\ UNCHANGED <<decVars, made, paState, driver, app>>

GotHead ==
  /\ Idle(PA)
  /\ \/ stage = "peekCall" /\ ret[PA].pack = <<>> /\ GoTo("peekSuspend")
     \/ stage = "peekCall" /\ ret[PA].pack # <<>> /\ GoTo("head")
     \/ stage = "headCall" /\ ret[PA].pack = <<>> /\ GoTo("headSuspend")
     \/ stage = "headCall" /\ ret[PA].pack # <<>> /\ GoTo("spec")
  /\ UNCHANGED <<bufVars, decVars, made, paState, driver, app>>

\* md_pa_suspend: whatever md_pa_resume has set before is overwritten.
Suspend ==
  /\ paState # "EXIT"
  /\ \/ stage = "peekSuspend" /\ GoTo("peekSleep")
     \/ stage = "headSuspend" /\ GoTo("headSleep")
  /\ paState' = "STOPPED"
  /\ UNCHANGED <<bufVars, decVars, made, driver, app>>

WakeUp ==
  /\ paState # "STOPPED"
  /\ \/ stage = "peekSleep" /\ GoTo("peek")
     \/ stage = "headSleep" /\ GoTo("head")
  /\ UNCHANGED <<bufVars, decVars, made, paState, driver, app>>

\* mutant: md_pa_suspend does not look for MD_PA_EXIT
DisconnectNever ==
  /\ paState = "EXIT"
  /\ \/ stage = "peekSuspend" /\ GoTo("peek")
     \/ stage = "headSuspend" /\ GoTo("head")
  /\ UNCHANGED <<bufVars, decVars, made, paState, driver, app>>

\* md_pa_suspend returns false, and the callback disconnects the context, which
\* calls md_pa_set_state_cb with PA_CONTEXT_TERMINATED.
Disconnect ==
  /\ paState = "EXIT"
  /\ stage \in {"peekSuspend", "headSuspend"}
  /\ GoTo("terminated")
  /\ UNCHANGED <<bufVars, decVars, made, paState, driver, app>>

\* md_pa_set_state_cb with PA_CONTEXT_FAILED, at any time the server is waited
\* for: the driver layer is not informed.
ContextLost ==
  /\ stage \in {"connecting", "stream", "drainStream", "drainContext", "dead",
                "undrained"}
  /\ GoTo("terminated")
  /\ UNCHANGED <<bufVars, decVars, made, paState, driver, app>>

\* The rest of md_pa_new_stream: it reads head->metadata, and gets a stream or
\* none, in which case it returns and no callback is left.
NewStream ==
  /\ stage = "spec"
  /\ GoTo("stream") \/ GoTo("dead")
  /\ UNCHANGED <<bufVars, decVars, made, paState, driver, app>>

\* md_pa_stream_started_cb, or md_paudio_unpause_success_cb once the stream is
\* ready; the server may start a short stream only to drain it.
Started ==
  /\ stage \in {"stream", "drainStream", "undrained"}
  /\ SignalState("PLAYING")
  /\ UNCHANGED <<bufVars, decVars, made, stage, paState, app>>

\* The same callbacks, the one for the stream that md_driver_unpause has uncorked,
\* or md_context_drain_cb, while md_driver_unpause holds the driver's mutex.
Block ==
  /\ DriverLocked
  /\ stage \in {"stream", "drainStream", "undrained", "drainContext"}
  /\ GoTo("blocked")
  /\ UNCHANGED <<bufVars, decVars, made, paState, driver, app>>

\* md_pa_stream_write_cb, for n chunks
WriteRequest(n) ==
  /\ stage = "stream"
  /\ GoTo("pack")
  /\ Buf!CallPack(PA, n, "EXACT")
  /\ UNCHANGED <<decVars, made, paState, driver, app>>

\* It writes the pack, if it got one, and drains at the end or after a stop.
DrainOnlyAtEnd == ret[PA].code = "NO_DECODERS"              \* mutant: not on a stop
Drains == ret[PA].code \in {"EXIT", "NO_DECODERS"}

WriteDone ==
  /\ stage = "pack"
  /\ Idle(PA)
  /\ GoTo(IF Drains THEN "drainStream" ELSE "stream")
  /\ UNCHANGED <<bufVars, decVars, made, paState, driver, app>>

\* md_pa_drain cannot ask for the drain, or md_stream_drain_cb learns that it has
\* failed: both only report it, and the stream asks for no more data.
DrainFails ==
  /\ stage = "drainStream"
  /\ GoTo("undrained")
  /\ UNCHANGED <<bufVars, decVars, made, paState, driver, app>>

\* md_pa_stream_state_cb with PA_STREAM_FAILED, which it only reports: the stream
\* has no callback any more, and the driver layer is not informed.
StreamFails ==
  /\ stage \in {"stream", "drainStream", "undrained"}
  /\ GoTo("dead")
  /\ UNCHANGED <<bufVars, decVars, made, paState, driver, app>>

\* md_stream_drain_cb: the stream is given up, and the context drained or, if
\* that cannot be asked for, disconnected.
StreamDrained ==
  /\ stage = "drainStream"
  /\ GoTo("drainContext") \/ GoTo("terminated")
  /\ UNCHANGED <<bufVars, decVars, made, paState, driver, app>>

\* mutant: md_context_drain_cb does not inform the driver layer
ContextDrainedSilent ==
  /\ stage = "drainContext"
  /\ GoTo("peek")
  /\ UNCHANGED <<bufVars, decVars, made, paState, driver, app>>

\* md_context_drain_cb, up to its loop
ContextDrained ==
  /\ stage = "drainContext"
  /\ SignalState("STOPPED")
  /\ GoTo("peek")
  /\ UNCHANGED <<bufVars, decVars, made, paState, app>>

-----------------------------------------------------------------------------
(* The application. *)

\* md_stop: md_stop_decoder_engine, md_buf_flush, md_driver_stop
StopEngine ==
  /\ app = "idle" /\ app' = "stop flush"
  /\ Engine!StopEngine
  /\ UNCHANGED <<bufVars, made, paVars>>

StopFlush ==
  /\ app = "stop flush" /\ app' = "stop driver"
  /\ Buf!Flush
  /\ UNCHANGED <<decVars, made, paVars>>

\* The macro md_driver_set_state compares numbers: which requests it refuses to
\* pass on to the driver.  Pausing it takes for done, as the target is not 0.
Number == [PLAYING |-> 0, STOPPED |-> 1, PAUSED |-> 2]
Not(n) == IF n = 0 THEN 1 ELSE 0
\* mutant: md_driver_resume asks for the state that md_driver_stop asks for
RefusesResume ==
  LET state == Number[driver]
  IN [pause |-> TRUE, unpause |-> FALSE, stop |-> FALSE,
      resume |-> Not(state) = Number.PLAYING]

Refuses ==
  LET state == Number[driver]
  IN [pause |-> Number.PAUSED # 0,
      unpause |-> Not(state) = Number.PAUSED,
      stop |-> Not(state) = Number.PLAYING \/ state = Number.PAUSED,
      resume |-> Not(state) = Number.STOPPED]

\* md_driver_stop: as md_paudio_stop only promises that the state will be set,
\* nothing changes, whether it is called or not.
StopDriver ==
  /\ app = "stop driver" /\ app' = "idle"
  /\ UNCHANGED <<bufVars, decVars, made, paVars>>

\* md_resume: md_buf_resume, md_driver_resume, md_start_decoder_engine
ResumeBuf ==
  /\ app = "idle" /\ app' = "resume driver"
  /\ Buf!Resume
  /\ UNCHANGED <<decVars, made, paVars>>

\* md_driver_resume, md_paudio_resume
ResumeDriver ==
  /\ app = "resume driver" /\ app' = "resume engine"
  /\ paState' = IF Refuses.resume \/ paState = "EXIT" THEN paState ELSE "RUNNING"
  /\ UNCHANGED <<bufVars, decVars, made, stage, driver>>

ResumeEngine ==
  /\ app = "resume engine" /\ app' = "idle"
  /\ Engine!StartEngine
  /\ UNCHANGED <<bufVars, made, paVars>>

\* md_unpause of a stream that plays: md_driver_unpause takes the driver's mutex,
\* and md_paudio_cork waits for the main loop's lock or, once it has uncorked the
\* stream, for somebody to signal the main loop.  Nobody does.
Unpause ==
  /\ app = "idle" /\ app' = "unpause"
  /\ stage \in {"stream", "pack"}
  /\ ~Refuses.unpause
  /\ UNCHANGED <<bufVars, decVars, made, paVars>>

\* md_deinit: md_buf_deinit flushes the buffer and destroys its mutex and its
\* condition, which waits until nobody sleeps on it.  Later calls find the
\* buffer stopped; that its mutex no longer excludes anyone does no harm.
DeinitBuf ==
  /\ app = "idle" /\ app' = "destroy buf"
  /\ Buf!Flush
  /\ UNCHANGED <<decVars, made, paVars>>

DestroyBuf ==
  /\ app = "destroy buf" /\ app' = "exit driver"
  /\ waiting = {}
  /\ UNCHANGED <<bufVars, decVars, made, paVars>>

\* md_driver_deinit, which is md_paudio_deinit: md_pa_exit, and the wait until
\* the context is gone
ExitDriver ==
  /\ app = "exit driver" /\ app' = "wait driver"
  /\ paState' = "EXIT"
  /\ UNCHANGED <<bufVars, decVars, made, stage, driver>>

DriverGone ==
  /\ app = "wait driver" /\ app' = "destroy decoders"
  /\ stage = "terminated"
  /\ UNCHANGED <<bufVars, decVars, made, paVars>>

\* md_decoder_deinit, whose condition may have sleepers as well
DestroyDecoders ==
  /\ app = "destroy decoders" /\ app' = "ended"
  /\ asleep = {}
  /\ UNCHANGED <<bufVars, decVars, made, paVars>>

Spurious ==
  \/ /\ \E t \in Decoders \cup {PA} : Buf!SpuriousWakeup(t)
     /\ UNCHANGED <<decVars, made, paVars, app>>
  \/ /\ \E d \in Decoders : Engine!SpuriousWakeup(d)
     /\ UNCHANGED <<bufVars, made, paVars, app>>

-----------------------------------------------------------------------------
Track(d) == TakeTurn(d) \/ AddChunk(d) \/ AddLastChunk(d) \/ EndTrack(d)

\* What the Pulseaudio thread does by itself, and what the server makes it do.
Server ==
  \/ ContextReady \/ Started \/ StreamDrained \/ ContextDrained
  \/ Block \/ ContextLost \/ DrainFails \/ StreamFails
Driver ==
  \/ GetHead \/ GotHead \/ Suspend \/ WakeUp \/ Disconnect
  \/ NewStream \/ WriteDone
  \/ \E n \in 1..MaxCount : WriteRequest(n)

Stop == StopEngine \/ StopFlush \/ StopDriver
ResumeAll == ResumeBuf \/ ResumeDriver \/ ResumeEngine
DeinitRest == DestroyBuf \/ ExitDriver \/ DriverGone \/ DestroyDecoders

\* Calls that never return, see CallsReturn.
Unanswered ==
  \/ app = "unpause"
  \/ app = "wait driver" /\ stage \in {"dead", "undrained"}
  \/ app = "destroy decoders" /\ Engine!Orphaned

\* Nothing may be left to do then, or after md_deinit; otherwise it would be a
\* deadlock.
Rest == (app = "ended" \/ Unanswered) /\ UNCHANGED playerVars

Next ==
  \/ \E d \in Decoders : StartTrack(d) \/ Track(d) \/ AbandonTrack(d)
  \/ \E t \in Decoders \cup {PA} : BufStep(t)
  \/ Server \/ Driver
  \/ Stop \/ ResumeAll \/ Unpause \/ DeinitBuf \/ DeinitRest
  \/ Spurious
  \/ Rest

Spec == Init /\ [][Next]_playerVars

\* A thread that can run does, and a call of md_stop, md_resume or md_deinit that
\* has begun goes on.  The server completes what it is asked for and, while it has a
\* stream that has not failed, goes on asking for data.  Nobody has to start or to stop a track.
Fairness ==
  /\ \A d \in Decoders : WF_playerVars(Track(d))
  /\ \A t \in Decoders \cup {PA} : WF_playerVars(BufStep(t))
  /\ WF_playerVars(Driver)
  /\ WF_playerVars(ContextReady)
  /\ WF_playerVars(StreamDrained)
  /\ WF_playerVars(ContextDrained)
  /\ WF_playerVars(StopFlush \/ StopDriver \/ ResumeDriver \/ ResumeEngine)
  /\ WF_playerVars(DeinitRest)

FairSpec == Spec /\ Fairness

-----------------------------------------------------------------------------
TypeOK ==
  /\ Buf!TypeOK
  /\ Engine!TypeOK
  /\ made \in [Decoders -> 0..MaxTrack]
  /\ stage \in Stages
  /\ paState \in {"STOPPED", "RUNNING", "EXIT"}
  /\ driver \in {"STOPPED", "PLAYING"}
  /\ app \in AppSteps

(* Tracks are not mixed: in the list of the buffer a chunk is followed by the *)
(* next chunk of its track or, after the track's last one, by the first chunk *)
(* of another track or, if chunks were flushed or refused, a later one.  The  *)
(* turn-taking of the decoder engine is what the order of the buffer rests    *)
(* on, through every stop and resume.                                         *)
Follows(a, b) ==
  IF a.track = b.track THEN b.index = a.index + 1 ELSE a.done

TracksContiguous ==
  \A i \in 1..Len(list)-1 : Follows(list[i].chunk, list[i+1].chunk)

(* The Pulseaudio thread sleeps in md_pa_suspend only in the driver state     *)
(* STOPPED: in the state PLAYING md_driver_resume refuses to wake it, and the *)
(* player could never be resumed.                                             *)
Sleeps == stage \in {"peekSleep", "headSleep"}

SleepsStopped == Sleeps => driver = "STOPPED"

(* However many decoder threads there are, a thread sleeps on the buffer's     *)
(* condition only while the buffer runs and is too full, or too empty, for    *)
(* it: turn-taking lets only one decoder into md_buf_add at a time, and this  *)
(* is what makes one pthread_cond_signal for each change enough, if the       *)
(* server never asks for more than max_buf_num chunks at once.                *)
NoLostWakeup == Buf!NoLostWakeup

(* md_resume wakes a driver that sleeps in md_pa_suspend: the macro lets it    *)
(* through to the driver, and no other wait takes the signal.  A driver that  *)
(* is only about to sleep is not woken, as md_pa_suspend forgets the resume.  *)
ResumeWakes == app = "resume driver" /\ Sleeps ~> ~Sleeps

(* A stop is answered: if md_stop finds the driver playing, as mdpaudio.c:594 *)
(* says, the driver is informed of a change of state in the end, unless the   *)
(* application resumes or unpauses before it is, or the server is lost, or    *)
(* does not drain, or its stream has failed.                                  *)
StopInforms ==
  app = "stop driver" /\ driver = "PLAYING"
    ~> \/ driver = "STOPPED"
       \/ app \in {"resume driver", "unpause"}
       \/ stage \in {"dead", "undrained", "terminated"}

(* Every call of the application returns.  md_deinit, which destroys the      *)
(* buffer's mutex and condition before the Pulseaudio thread is told to exit, *)
(* catches that thread in whatever callback or sleep it is, and the decoders  *)
(* in md_buf_add and md_decoder_wait.  The exceptions: md_unpause, which      *)
(* keeps a mutex that its own callback needs; md_deinit after a stream could  *)
(* not be created, has failed or could not be drained, as nobody is left to   *)
(* disconnect the context; and md_deinit while a decoder waits for a turn     *)
(* that was never handed on.                                                  *)
CallsReturn == app # "idle" ~> app \in {"idle", "ended"} \/ Unanswered

(* The head that md_buf_get_head returned to md_pa_new_stream is still in the *)
(* buffer when its metadata are read (mdpaudio.c:464): "Nothing in decoder or *)
(* buffer code should ever remove head when it appears" (mdbufll.c:132).      *)
HeadStays == stage = "spec" => list # <<>> /\ ret[PA].pack = <<list[1].chunk>>

(* The same at the end of the last track, of which mdpaudio.c:594 says "As    *)
(* soon as packages from buffer are drained, Pulseaudio will stop and inform  *)
(* generic driver layer": all decoders are gone, the last of them has handed  *)
(* its turn on, everything they added was taken, and the driver plays.  The   *)
(* application has never called md_stop.                                      *)
Drained ==
  /\ \A d \in Decoders : phase[d] = "gone"
  /\ Engine!NoMoreDecoders
  /\ run
  /\ list = <<>>
  /\ driver = "PLAYING"

DrainedInforms ==
  [](app = "idle") =>
    (Drained ~> driver = "STOPPED" \/ stage \in {"dead", "undrained", "terminated"})
=============================================================================
