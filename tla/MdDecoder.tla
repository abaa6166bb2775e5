----------------------------- MODULE MdDecoder ------------------------------
(***************************************************************************)
(* The decoder engine of decoders/mddecoder.c.  md_play_async starts one   *)
(* thread per file; the threads take turns: md_decoder_wait holds a thread *)
(* back while curr_decoder is set, and md_decoder_done hands the turn on.  *)
(* The application may stop and restart the engine and cancel the queued   *)
(* decoder at any time.                                                    *)
(***************************************************************************)
EXTENDS Integers, FiniteSets

CONSTANTS
  Decoders,     \* the decoder threads md_decoder_start_id may create
  MaxCancels,   \* bound: calls of md_cancel_queued that hit
  NULL

ASSUME MdDecoderAssumption ==
  /\ IsFiniteSet(Decoders)
  /\ MaxCancels \in Nat
  /\ NULL \notin Decoders

VARIABLES
  curr,         \* curr_decoder
  queued,       \* queued_decoder
  running,      \* decoder_running
  trigger,      \* decoder_trigger
  asleep,       \* threads in pthread_cond_wait(&decoder_cond)
  phase,        \* phase[d]: how far the thread of d has come
  cancels       \* history: how many calls of md_cancel_queued have hit

decVars == <<curr, queued, running, trigger, asleep, phase, cancels>>

\* new: not started; started: before md_decoder_wait; waiting: inside it;
\* decoding: past it; handing: between md_buf_add of the last chunk and
\* curr_decoder = NULL; gone: the thread has exited.
Phases == {"new", "started", "waiting", "decoding", "handing", "gone"}

\* The threads that decode into the buffer.
Active == {d \in Decoders : phase[d] \in {"decoding", "handing"}}

\* md_no_more_decoders()
NoMoreDecoders == curr = NULL

\* The condition of the loop in md_decoder_wait.
MustWait == curr # NULL /\ running /\ ~trigger

-----------------------------------------------------------------------------
Init ==
  /\ curr = NULL
  /\ queued = NULL
  /\ running = TRUE
  /\ trigger = FALSE
  /\ asleep = {}
  /\ phase = [d \in Decoders |-> "new"]
  /\ cancels = 0

To(d, p) == phase' = [phase EXCEPT ![d] = p]

\* mutant: pthread_cond_signal wakes nobody
SignalLost == UNCHANGED asleep

\* pthread_cond_signal(&decoder_cond)
Signal ==
  \/ asleep = {} /\ UNCHANGED asleep
  \/ \E d \in asleep : asleep' = asleep \ {d}

\* md_decoder_start_id
Start(d) ==
  /\ phase[d] = "new"
  /\ To(d, "started")
  /\ UNCHANGED <<curr, queued, running, trigger, asleep, cancels>>

\* md_decoder_wait, first section: the thread queues itself and must wait.
WaitEnter(d) ==
  /\ phase[d] = "started"
  /\ MustWait
  /\ queued' = d
  /\ asleep' = asleep \cup {d}
  /\ To(d, "waiting")
  /\ UNCHANGED <<curr, running, trigger, cancels>>

\* It is woken up, by a signal or for no reason, and must wait on.
WaitAgain(d) ==
  /\ phase[d] = "waiting"
  /\ d \notin asleep
  /\ MustWait
  /\ asleep' = asleep \cup {d}
  /\ UNCHANGED <<curr, queued, running, trigger, phase, cancels>>

\* mutant: a thread leaves without having been woken
WaitLeaveEarly(d) ==
  /\ phase[d] \in {"started", "waiting"}
  /\ ~MustWait
  /\ curr' = IF running /\ ~trigger THEN d ELSE curr
  /\ trigger' = FALSE
  /\ queued' = NULL
  /\ To(d, IF running THEN "decoding" ELSE "gone")
  /\ UNCHANGED <<running, asleep, cancels>>

\* mutant: the turn is not taken
WaitLeaveUnclaimed(d) ==
  /\ phase[d] \in {"started", "waiting"}
  /\ d \notin asleep
  /\ ~MustWait
  /\ trigger' = FALSE
  /\ queued' = NULL
  /\ To(d, IF running THEN "decoding" ELSE "gone")
  /\ UNCHANGED <<curr, running, asleep, cancels>>

\* It leaves, at once or after a wait: it takes the turn, or eats the trigger.
\* Only decoder_running decides whether it goes on to decode.
WaitLeave(d) ==
  /\ phase[d] \in {"started", "waiting"}
  /\ d \notin asleep
  /\ ~MustWait
  /\ curr' = IF running /\ ~trigger THEN d ELSE curr
  /\ trigger' = FALSE
  /\ queued' = NULL
  /\ To(d, IF running THEN "decoding" ELSE "gone")
  /\ UNCHANGED <<running, asleep, cancels>>

\* The thread exits and curr_decoder stays as it is: no decoder for the file,
\* its library or the file does not open, no byte was decoded, md_adjust_size
\* fails, or the dummy decoder aborts.
Abandon(d) ==
  /\ phase[d] = "decoding"
  /\ To(d, "gone")
  /\ UNCHANGED <<curr, queued, running, trigger, asleep, cancels>>

\* md_decoder_done, up to md_buf_add of the last chunk.
LastChunk(d) ==
  /\ phase[d] = "decoding"
  /\ To(d, "handing")
  /\ UNCHANGED <<curr, queued, running, trigger, asleep, cancels>>

\* md_decoder_done, the rest: whoever calls it clears curr_decoder.
HandOn(d) ==
  /\ phase[d] = "handing"
  /\ curr' = NULL
  /\ Signal
  /\ To(d, "gone")
  /\ UNCHANGED <<queued, running, trigger, cancels>>

\* md_stop_decoder_engine
StopEngine ==
  /\ running' = FALSE
  /\ Signal
  /\ UNCHANGED <<curr, queued, trigger, phase, cancels>>

\* md_start_decoder_engine
StartEngine ==
  /\ running' = TRUE
  /\ Signal
  /\ UNCHANGED <<curr, queued, trigger, phase, cancels>>

\* md_cancel_queued, with the id of the queued decoder; another id does nothing.
CancelQueued ==
  /\ cancels < MaxCancels
  /\ queued # NULL
  /\ trigger' = TRUE
  /\ Signal
  /\ cancels' = cancels + 1
  /\ UNCHANGED <<curr, queued, running, phase>>

SpuriousWakeup(d) ==
  /\ d \in asleep
  /\ asleep' = asleep \ {d}
  /\ UNCHANGED <<curr, queued, running, trigger, phase, cancels>>

-----------------------------------------------------------------------------
Waiter(d) == WaitEnter(d) \/ WaitAgain(d) \/ WaitLeave(d)
Worker(d) == LastChunk(d) \/ HandOn(d)

Next ==
  \/ \E d \in Decoders :
       Start(d) \/ Waiter(d) \/ Abandon(d) \/ Worker(d) \/ SpuriousWakeup(d)
  \/ StopEngine \/ StartEngine \/ CancelQueued

Spec == Init /\ [][Next]_decVars

\* A thread that can take the decoder mutex takes it, and a file ends: while the
\* driver takes packs, no decoder is held up in md_buf_add.
Fairness == \A d \in Decoders : WF_decVars(Waiter(d)) /\ WF_decVars(Worker(d))

FairSpec == Spec /\ Fairness

-----------------------------------------------------------------------------
TypeOK ==
  /\ curr \in Decoders \cup {NULL}
  /\ queued \in Decoders \cup {NULL}
  /\ running \in BOOLEAN
  /\ trigger \in BOOLEAN
  /\ phase \in [Decoders -> Phases]
  /\ asleep \in SUBSET {d \in Decoders : phase[d] = "waiting"}
  /\ cancels \in Nat

(* One decoder at a time fills the buffer, except that every cancellation of  *)
(* the queued decoder may let one more run beside it: md_decoder_wait ends    *)
(* for a cancelled thread without the turn, yet returns true, and whichever   *)
(* of the two is done first gives the other's turn away.  A pending trigger   *)
(* already counts as a decoder too many, a free turn as one too few.          *)
One(b) == IF b THEN 1 ELSE 0

\* A trigger comes from a cancellation.
TriggerCounted == trigger => cancels > 0

DecodingBound == Cardinality(Active) + One(trigger) <= cancels + One(curr # NULL)

(* While nothing was cancelled, curr_decoder is the one thread that decodes,  *)
(* so that md_no_more_decoders() never answers true under a working decoder.  *)
TurnHeld == cancels = 0 => \A d \in Active : curr = d

(* Unless a decoder was cancelled, a free turn of a running engine never goes *)
(* unnoticed: if threads are asleep in md_decoder_wait, one of the waiters is *)
(* awake and will look again.  One pthread_cond_signal per change suffices,   *)
(* also when a newcomer snatches the turn from the thread that was woken.     *)
TurnNoticed ==
  cancels = 0 /\ curr = NULL /\ running /\ asleep # {} =>
    \E d \in Decoders \ asleep : phase[d] = "waiting"

(* A thread that waits for its turn leaves md_decoder_wait in the end, unless *)
(* the turn stays with a thread that has exited without handing it on, the    *)
(* engine is stopped, or a decoder was cancelled.                             *)
Orphaned == curr # NULL /\ phase[curr] = "gone"

TurnComes ==
  \A d \in Decoders :
    phase[d] = "waiting" ~> phase[d] # "waiting" \/ Orphaned \/ ~running \/ cancels > 0
=============================================================================
