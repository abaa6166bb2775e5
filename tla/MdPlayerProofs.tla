--------------------------- MODULE MdPlayerProofs ---------------------------
(***************************************************************************)
(* Proofs about the player, for any finite number of tracks of any length, *)
(* any size of the buffer and of the server's requests.  The player uses   *)
(* the buffer and the decoder engine as MdBuf and MdDecoder say; what was  *)
(* proved of them holds in it, and on that rests what the player adds.     *)
(***************************************************************************)
EXTENDS MdPlayer, FiniteSetTheorems, SequenceTheorems, TLAPS

BufP == INSTANCE MdBufRefinement WITH
  Producers <- Decoders,
  Consumers <- {PA},
  MaxOrder <- Cardinality(Decoders) * MaxTrack,
  noMore <- (curr = NULL)

EngineP == INSTANCE MdDecoderProofs WITH MaxCancels <- 0

-----------------------------------------------------------------------------
(* The buffer and the engine, with the constants the player gives them.    *)

LEMMA EngineSame ==
  /\ Engine!Init <=> EngineP!Init
  /\ [Engine!Next]_decVars <=> [EngineP!Next]_decVars
  /\ Engine!TypeOK <=> EngineP!TypeOK
  /\ Engine!TurnHeld <=> EngineP!TurnHeld
<1>1. Engine!Init <=> EngineP!Init
  BY DEF Engine!Init, EngineP!Init
<1>2. Engine!TypeOK <=> EngineP!TypeOK
  BY DEF Engine!TypeOK, EngineP!TypeOK, Engine!Phases, EngineP!Phases
<1>3. Engine!TurnHeld <=> EngineP!TurnHeld
  BY DEF Engine!TurnHeld, EngineP!TurnHeld, Engine!Active, EngineP!Active
<1>4. Engine!Next <=> EngineP!Next
  BY DEF Engine!Next, EngineP!Next, Engine!Start, EngineP!Start,
         Engine!Waiter, EngineP!Waiter, Engine!Worker, EngineP!Worker,
         Engine!WaitEnter, EngineP!WaitEnter, Engine!WaitAgain, EngineP!WaitAgain,
         Engine!WaitLeave, EngineP!WaitLeave, Engine!Abandon, EngineP!Abandon,
         Engine!LastChunk, EngineP!LastChunk, Engine!HandOn, EngineP!HandOn,
         Engine!SpuriousWakeup, EngineP!SpuriousWakeup,
         Engine!StopEngine, EngineP!StopEngine, Engine!StartEngine, EngineP!StartEngine,
         Engine!CancelQueued, EngineP!CancelQueued,
         Engine!To, EngineP!To, Engine!Signal, EngineP!Signal,
         Engine!MustWait, EngineP!MustWait
<1> QED
  BY <1>1, <1>2, <1>3, <1>4

LEMMA BufSame ==
  /\ Buf!InitBuf <=> BufP!InitBuf
  /\ Buf!IInv <=> BufP!IInv
  /\ [Buf!Next]_(Buf!vars) <=> [BufP!Next]_(BufP!vars)
<1> USE DEF Buf!Threads, BufP!Threads, Buf!Node, BufP!Node, Buf!NoCall, BufP!NoCall,
        Buf!Args, BufP!Args, Buf!NoRet, BufP!NoRet, Buf!Result, BufP!Result,
        Buf!NoWalk, BufP!NoWalk, Buf!Modes, BufP!Modes, Buf!Codes, BufP!Codes
<1>1. Buf!InitBuf <=> BufP!InitBuf
  BY DEF Buf!InitBuf, BufP!InitBuf
<1>2. Buf!IInv <=> BufP!IInv
  BY DEF Buf!IInv, BufP!IInv, Buf!TypeOK, BufP!TypeOK, Buf!NodesLinked, BufP!NodesLinked,
         Buf!Capacity, BufP!Capacity, Buf!WalkInside, BufP!WalkInside,
         Buf!PackResult, BufP!PackResult, Buf!Callers, BufP!Callers,
         Buf!SleepersCall, BufP!SleepersCall
<1>3. /\ Buf!Client <=> BufP!Client
      /\ Buf!Control <=> BufP!Control
      /\ \A t : Buf!SpuriousWakeup(t) <=> BufP!SpuriousWakeup(t)
  BY DEF Buf!Client, BufP!Client, Buf!CallAdd, BufP!CallAdd, Buf!CallHead, BufP!CallHead,
         Buf!CallPack, BufP!CallPack, Buf!Begin, BufP!Begin, Buf!Control, BufP!Control,
         Buf!Flush, BufP!Flush, Buf!Resume, BufP!Resume, Buf!SignalError, BufP!SignalError,
         Buf!Signal, BufP!Signal, Buf!SpuriousWakeup, BufP!SpuriousWakeup
<1>4. \A t : Buf!AddStep(t) <=> BufP!AddStep(t)
  BY DEF Buf!AddStep, BufP!AddStep, Buf!AddWait, BufP!AddWait, Buf!AddStopped, BufP!AddStopped,
         Buf!AddLink, BufP!AddLink, Buf!InSection, BufP!InSection, Buf!AddCond, BufP!AddCond,
         Buf!BufNum, BufP!BufNum, Buf!Wait, BufP!Wait, Buf!ReturnStopped, BufP!ReturnStopped,
         Buf!Return, BufP!Return, Buf!Signal, BufP!Signal
<1>5. \A t : Buf!HeadStep(t) <=> BufP!HeadStep(t)
  BY DEF Buf!HeadStep, BufP!HeadStep, Buf!HeadWait, BufP!HeadWait, Buf!HeadReturn, BufP!HeadReturn,
         Buf!InSection, BufP!InSection, Buf!Wait, BufP!Wait, Buf!Return, BufP!Return
<1>6. \A t, k, code, n : Buf!Detach(t, k, code, n) <=> BufP!Detach(t, k, code, n)
  BY DEF Buf!Detach, BufP!Detach, Buf!Rest, BufP!Rest, Buf!LastAfter, BufP!LastAfter,
         Buf!ChunksOf, BufP!ChunksOf, Buf!Return, BufP!Return, Buf!Signal, BufP!Signal
<1>7. \A t : Buf!PackStep(t) <=> BufP!PackStep(t)
  BY <1>6 DEF Buf!PackStep, BufP!PackStep, Buf!PackWait, BufP!PackWait,
         Buf!PackStopped, BufP!PackStopped, Buf!PackBegin, BufP!PackBegin,
         Buf!PackNext, BufP!PackNext, Buf!PackShort, BufP!PackShort, Buf!PackStop, BufP!PackStop,
         Buf!PackFull, BufP!PackFull, Buf!PackCond, BufP!PackCond, Buf!BufNum, BufP!BufNum,
         Buf!WillStop, BufP!WillStop, Buf!InSection, BufP!InSection, Buf!Wait, BufP!Wait,
         Buf!ReturnStopped, BufP!ReturnStopped, Buf!Return, BufP!Return
<1>8. Buf!DecodersChange <=> BufP!DecodersChange
  BY DEF Buf!DecodersChange, BufP!DecodersChange, Buf!bufVars, BufP!bufVars
<1>9. Buf!Next <=> BufP!Next
  BY <1>3, <1>4, <1>5, <1>7, <1>8
  DEF Buf!Next, BufP!Next, Buf!BufNext, BufP!BufNext, Buf!Step, BufP!Step
<1> QED
  BY <1>1, <1>2, <1>9 DEF Buf!vars, BufP!vars

-----------------------------------------------------------------------------
(* What the player adds to the invariants of its parts.                    *)

IsActive(d) == phase[d] \in {"decoding", "handing"}
Adding(d) == call[d].op = "add"
LastIn == list[Len(list)].chunk

PlayerTypes ==
  /\ made \in [Decoders -> 0..MaxTrack]
  /\ stage \in Stages
  /\ paState \in {"STOPPED", "RUNNING", "EXIT"}
  /\ driver \in {"STOPPED", "PLAYING"}
  /\ app \in AppSteps

\* A decoder that has not reached md_decoder_done has not made its last chunk.
Counted ==
  \A d \in Decoders :
    phase[d] \in {"new", "started", "waiting", "decoding"} => made[d] < MaxTrack

\* The player never calls md_cancel_queued.
NotCancelled == cancels = 0 /\ ~trigger

\* Only a decoder that has its turn is inside md_buf_add, with its newest chunk.
AddersActive ==
  \A d \in Decoders :
    Adding(d) => /\ IsActive(d) /\ made[d] > 0
                 /\ call[d].chunk = TrackChunk(d, made[d], phase[d] = "handing")

\* Whose chunk the youngest one in the buffer is.
YoungestKnown ==
  list # <<>> =>
    LET d == LastIn.track
    IN /\ LastIn.done => phase[d] \in {"handing", "gone"} /\ ~Adding(d)
       /\ ~LastIn.done => curr = d
       /\ IsActive(d) => LastIn.index = IF Adding(d) THEN made[d] - 1 ELSE made[d]

\* A stopped buffer is empty.
StoppedEmpty == ~run => list = <<>>

\* A decoder hands its turn on after its last chunk is in.
LastAdded ==
  \A d \in Decoders :
    phase[d] = "handing" /\ ~Adding(d) /\ list # <<>> => LastIn.done

\* The driver layer is informed before the Pulseaudio thread may go to sleep.
BeforeStream ==
  {"connecting", "peek", "peekCall", "peekSuspend", "peekSleep",
   "head", "headCall", "headSuspend", "headSleep", "spec"}
Informed == stage \in BeforeStream => driver = "STOPPED"

Parts == Buf!IInv /\ EngineP!IInv /\ NotCancelled /\ PlayerTypes /\ Counted
Order ==
  /\ AddersActive /\ YoungestKnown /\ StoppedEmpty /\ LastAdded
  /\ TracksContiguous
IInv == Parts /\ Order /\ Informed

-----------------------------------------------------------------------------
(* Every step of the player is a step of the engine and one of the buffer,  *)
(* or leaves them alone.                                                    *)

LEMMA EngineStep == [Next]_playerVars => [Engine!Next]_decVars
<1> SUFFICES ASSUME [Next]_playerVars PROVE [Engine!Next]_decVars
  OBVIOUS
<1>1. ASSUME UNCHANGED decVars PROVE [Engine!Next]_decVars
  BY <1>1
<1>2. ASSUME NEW d \in Decoders, StartTrack(d) \/ Track(d) \/ AbandonTrack(d)
      PROVE  [Engine!Next]_decVars
  BY <1>2 DEF StartTrack, Track, TakeTurn, AddChunk, AddLastChunk, EndTrack, AbandonTrack,
              Engine!Next, Engine!Worker
<1>3. ASSUME Stop \/ ResumeAll PROVE [Engine!Next]_decVars
  BY <1>3 DEF Stop, StopEngine, StopFlush, StopDriver, ResumeAll, ResumeBuf, ResumeDriver,
              ResumeEngine, Engine!Next
<1>4. ASSUME Spurious PROVE [Engine!Next]_decVars
  BY <1>4 DEF Spurious, Engine!Next
<1>5. ASSUME \/ \E t \in Decoders \cup {PA} : BufStep(t)
             \/ Server \/ Driver \/ Unpause \/ DeinitBuf \/ DeinitRest \/ Rest
             \/ UNCHANGED playerVars
      PROVE  UNCHANGED decVars
  BY <1>5 DEF BufStep, Server, ContextReady, Started, StreamDrained, ContextDrained, Block,
    ContextLost, DrainFails, StreamFails, Driver, GetHead, GotHead, Suspend, WakeUp, Disconnect,
    NewStream, WriteDone, WriteRequest, Unpause, DeinitBuf, DeinitRest, DestroyBuf,
    ExitDriver, DriverGone, DestroyDecoders, Rest, playerVars
<1> QED
  BY <1>1, <1>2, <1>3, <1>4, <1>5 DEF Next

\* A step of the buffer that takes nobody's turn.
LEMMA OfBuffer ==
  ASSUME UNCHANGED curr,
         \/ Buf!Client
         \/ \E t \in Decoders \cup {PA} : Buf!Step(t)
         \/ \E t \in Decoders \cup {PA} : Buf!SpuriousWakeup(t)
         \/ Buf!Control
  PROVE  [Buf!Next]_(Buf!vars)
  BY DEF Buf!Next, Buf!BufNext, Buf!Threads

\* A step of anything else.
LEMMA BesideBuffer == UNCHANGED bufVars => [Buf!Next]_(Buf!vars)
<1> SUFFICES ASSUME UNCHANGED bufVars PROVE [Buf!Next]_(Buf!vars)
  OBVIOUS
<1>1. CASE (curr = NULL)' <=> (curr = NULL)
  BY <1>1 DEF bufVars, Buf!vars
<1>2. CASE ~((curr = NULL)' <=> (curr = NULL))
  BY <1>2 DEF bufVars, Buf!Next, Buf!DecodersChange, Buf!bufVars
<1> QED
  BY <1>1, <1>2

LEMMA HandIsCall ==
  ASSUME PlayerTypes, NEW d \in Decoders, NEW done \in BOOLEAN, made[d] < MaxTrack,
         Hand(d, done)
  PROVE  Buf!Client /\ TrackChunk(d, made[d] + 1, done) \in Chunks
<1>1. TrackChunk(d, made[d] + 1, done) \in Chunks
  <2>1. made[d] + 1 \in 1..MaxTrack
    BY MdPlayerAssumption DEF PlayerTypes
  <2> QED
    BY <2>1 DEF TrackChunk, Chunks
<1> QED
  BY <1>1 DEF Hand, Buf!Client

LEMMA BufferStep == Parts /\ [Next]_playerVars => [Buf!Next]_(Buf!vars)
<1> SUFFICES ASSUME Parts, [Next]_playerVars PROVE [Buf!Next]_(Buf!vars)
  OBVIOUS
<1>1. ASSUME NEW d \in Decoders, AddChunk(d) \/ AddLastChunk(d)
      PROVE  [Buf!Next]_(Buf!vars)
  <2>1. phase[d] = "decoding" /\ UNCHANGED curr /\ \E done \in BOOLEAN : Hand(d, done)
    BY <1>1 DEF AddChunk, AddLastChunk, Engine!LastChunk, decVars
  <2>2. made[d] < MaxTrack
    BY <2>1 DEF Parts, Counted
  <2> QED
    BY <2>1, <2>2, HandIsCall, OfBuffer DEF Parts
<1>2. ASSUME NEW t \in Decoders \cup {PA}, BufStep(t) PROVE [Buf!Next]_(Buf!vars)
  BY <1>2, OfBuffer DEF BufStep, decVars
<1>3. ASSUME GetHead \/ \E n \in 1..MaxCount : WriteRequest(n)
      PROVE  [Buf!Next]_(Buf!vars)
  <2>1. UNCHANGED curr /\ Buf!Client
    BY <1>3, MdPlayerAssumption DEF GetHead, WriteRequest, decVars, Buf!Client, Buf!Modes
  <2> QED
    BY <2>1, OfBuffer
<1>4. ASSUME StopFlush \/ ResumeBuf \/ DeinitBuf PROVE [Buf!Next]_(Buf!vars)
  BY <1>4, OfBuffer DEF StopFlush, ResumeBuf, DeinitBuf, decVars, Buf!Control
<1>5. ASSUME Spurious PROVE [Buf!Next]_(Buf!vars)
  BY <1>5, OfBuffer, BesideBuffer DEF Spurious, decVars
<1>6. ASSUME UNCHANGED bufVars PROVE [Buf!Next]_(Buf!vars)
  BY <1>6, BesideBuffer
<1>7. ASSUME NEW d \in Decoders, StartTrack(d) \/ TakeTurn(d) \/ EndTrack(d) \/ AbandonTrack(d)
      PROVE  UNCHANGED bufVars
  BY <1>7 DEF StartTrack, TakeTurn, EndTrack, AbandonTrack
<1>8. ASSUME \/ Server \/ GotHead \/ Suspend \/ WakeUp \/ Disconnect \/ NewStream \/ WriteDone
             \/ StopEngine \/ StopDriver \/ ResumeDriver \/ ResumeEngine
             \/ Unpause \/ DeinitRest \/ Rest \/ UNCHANGED playerVars
      PROVE  UNCHANGED bufVars
  BY <1>8 DEF Server, ContextReady, Started, StreamDrained, ContextDrained, Block,
    ContextLost, DrainFails, StreamFails, GotHead, Suspend, WakeUp, Disconnect, NewStream, WriteDone,
    StopEngine, StopDriver, ResumeDriver, ResumeEngine, Unpause, DeinitRest, DestroyBuf,
    ExitDriver, DriverGone, DestroyDecoders, Rest, playerVars
<1> QED
  BY <1>1, <1>2, <1>3, <1>4, <1>5, <1>6, <1>7, <1>8
  DEF Next, Track, Driver, Stop, ResumeAll

\* The constants and the initial states are ones of the buffer and the engine.
LEMMA PartConstants ==
  /\ Cardinality(Decoders) * MaxTrack \in Nat
  /\ MdPlayerAssumption
  /\ DoneChunks \subseteq Chunks
  /\ MaxCount \in Nat
<1>1. Cardinality(Decoders) \in Nat
  BY MdPlayerAssumption, FS_CardinalityType DEF MdPlayerAssumption
<1> QED
  BY <1>1, MdPlayerAssumption DEF MdPlayerAssumption, DoneChunks

LEMMA BufferAssumed ==
  /\ Cardinality(Decoders) * MaxTrack \in Nat
  /\ MaxBufNum \in Nat \ {0} /\ MaxCount \in Nat /\ DoneChunks \subseteq Chunks
  /\ NULL \notin Decoders \cup {PA} /\ NULL \notin Chunks
  /\ NULL \notin [chunk : Chunks, order : Nat]
  /\ Decoders \cap {PA} = {}
  BY PartConstants DEF MdPlayerAssumption

LEMMA BufferInit == Buf!InitBuf /\ curr = NULL => Buf!IInv
<1>1. BufP!InitBuf /\ curr = NULL => BufP!IInv
  BY BufferAssumed, BufP!InitIInv DEF BufP!Init, BufP!Threads, BufP!Node
<1> QED
  BY <1>1, BufSame

LEMMA BufferKept == Buf!IInv /\ [Buf!Next]_(Buf!vars) => Buf!IInv'
<1>1. Buf!IInv' <=> BufP!IInv'
  BY BufSame, PTL
<1>2. BufP!IInv /\ [BufP!Next]_(BufP!vars) => BufP!IInv'
  BY BufferAssumed, BufP!NextIInv DEF BufP!Threads, BufP!Node
<1> QED
  BY <1>1, <1>2, BufSame

LEMMA EngineAssumed ==
  EngineP!IsFiniteSet(Decoders) /\ 0 \in Nat /\ NULL \notin Decoders
<1>1. IsFiniteSet(Decoders) /\ NULL \notin Decoders
  BY MdPlayerAssumption DEF MdPlayerAssumption
<1>2. IsFiniteSet(Decoders) <=> EngineP!IsFiniteSet(Decoders)
  BY DEF IsFiniteSet, EngineP!IsFiniteSet
<1> QED
  BY <1>1, <1>2

LEMMA EngineInit == Engine!Init => EngineP!IInv
  BY EngineAssumed, EngineP!InitIInv, EngineSame

LEMMA EngineKept == EngineP!IInv /\ [Engine!Next]_decVars => EngineP!IInv'
<1>1. EngineP!IInv /\ [EngineP!Next]_(EngineP!decVars) => EngineP!IInv'
  BY EngineAssumed, EngineP!StepIInv
<1> QED
  BY <1>1, EngineSame DEF decVars, EngineP!decVars

-----------------------------------------------------------------------------
(* Types and counters.                                                     *)

LEMMA PlayerInit == Init => IInv
<1> SUFFICES ASSUME Init PROVE IInv
  OBVIOUS
<1>1. Buf!IInv /\ EngineP!IInv /\ NotCancelled
  BY BufferInit, EngineInit DEF Init, Engine!Init, NotCancelled
<1>2. PlayerTypes
  BY MdPlayerAssumption DEF MdPlayerAssumption, Init, PlayerTypes, Stages, AppSteps
<1>3. Counted
  BY MdPlayerAssumption DEF MdPlayerAssumption, Init, Counted
<1>4. list = <<>> /\ run = TRUE /\ \A d \in Decoders : ~Adding(d)
  BY DEF Init, Buf!InitBuf, Adding, Buf!NoCall, Buf!Args, Buf!Threads
<1>5. Order
  BY <1>4 DEF Order, AddersActive, YoungestKnown, StoppedEmpty, LastAdded,
              TracksContiguous
<1>6. Informed
  BY DEF Init, Informed
<1> QED
  BY <1>1, <1>2, <1>3, <1>5, <1>6 DEF IInv, Parts

LEMMA NotCancelledKept == NotCancelled /\ [Engine!Next]_decVars => NotCancelled'
  BY DEF NotCancelled, decVars, Engine!Next, Engine!Start, Engine!Waiter, Engine!Worker,
         Engine!WaitEnter, Engine!WaitAgain, Engine!WaitLeave, Engine!Abandon,
         Engine!LastChunk, Engine!HandOn, Engine!SpuriousWakeup, Engine!StopEngine,
         Engine!StartEngine, Engine!CancelQueued

LEMMA MadeKept ==
  ASSUME Parts, [Next]_playerVars
  PROVE  made' \in [Decoders -> 0..MaxTrack] /\ Counted'
<1>0. /\ made \in [Decoders -> 0..MaxTrack] /\ Counted /\ MaxTrack \in Nat \ {0}
      /\ phase \in [Decoders -> Engine!Phases]
  BY MdPlayerAssumption, EngineSame
  DEF MdPlayerAssumption, Parts, PlayerTypes, EngineP!IInv, Engine!TypeOK
<1>1. ASSUME NEW d \in Decoders, AddChunk(d)
      PROVE  made' \in [Decoders -> 0..MaxTrack] /\ Counted'
  BY <1>0, <1>1 DEF AddChunk, Hand, decVars, Counted
<1>2. ASSUME NEW d \in Decoders, AddLastChunk(d)
      PROVE  made' \in [Decoders -> 0..MaxTrack] /\ Counted'
  BY <1>0, <1>2 DEF AddLastChunk, Engine!LastChunk, Engine!To, Hand, Counted
<1>3. ASSUME UNCHANGED made,
             \A d \in Decoders : phase'[d] \in {"new", "started", "waiting", "decoding"} =>
                                 phase[d] \in {"new", "started", "waiting", "decoding"}
      PROVE  made' \in [Decoders -> 0..MaxTrack] /\ Counted'
  BY <1>0, <1>3 DEF Counted
<1>4. ASSUME NEW d \in Decoders, StartTrack(d) \/ TakeTurn(d) \/ EndTrack(d) \/ AbandonTrack(d)
      PROVE  made' \in [Decoders -> 0..MaxTrack] /\ Counted'
  BY <1>0, <1>3, <1>4
  DEF StartTrack, TakeTurn, EndTrack, AbandonTrack, Engine!Start, Engine!Waiter, Engine!WaitEnter,
      Engine!WaitAgain, Engine!WaitLeave, Engine!HandOn, Engine!Abandon, Engine!To
<1>5. ASSUME \/ \E t \in Decoders \cup {PA} : BufStep(t)
             \/ Server \/ Driver \/ Stop \/ ResumeAll \/ Unpause \/ DeinitBuf \/ DeinitRest
             \/ Spurious \/ Rest \/ UNCHANGED playerVars
      PROVE  UNCHANGED <<made, phase>>
  <2>1. ASSUME Server \/ Driver
        PROVE  UNCHANGED <<made, phase>>
    BY <2>1 DEF Server, ContextReady, Started, StreamDrained, ContextDrained, Block,
      ContextLost, DrainFails, StreamFails, Driver, GetHead, GotHead, Suspend, WakeUp, Disconnect,
      NewStream, WriteDone, WriteRequest, decVars
  <2>2. ASSUME \/ \E t \in Decoders \cup {PA} : BufStep(t)
               \/ Stop \/ ResumeAll \/ Unpause \/ DeinitBuf \/ DeinitRest
               \/ Spurious \/ Rest \/ UNCHANGED playerVars
        PROVE  UNCHANGED <<made, phase>>
    BY <2>2 DEF BufStep, Stop, StopEngine, StopFlush, StopDriver, ResumeAll, ResumeBuf,
      ResumeDriver, ResumeEngine, Unpause, DeinitBuf, DeinitRest, DestroyBuf, ExitDriver,
      DriverGone, DestroyDecoders, Spurious, Rest, playerVars, decVars,
      Engine!StopEngine, Engine!StartEngine, Engine!SpuriousWakeup
  <2> QED
    BY <1>5, <2>1, <2>2
<1> QED
  BY <1>1, <1>2, <1>3, <1>4, <1>5 DEF Next, Track

LEMMA RestOfTypes ==
  ASSUME Parts, [Next]_playerVars
  PROVE  /\ stage' \in Stages
         /\ paState' \in {"STOPPED", "RUNNING", "EXIT"}
         /\ driver' \in {"STOPPED", "PLAYING"}
         /\ app' \in AppSteps
<1> USE DEF Parts, PlayerTypes
<1>1. ASSUME NEW d \in Decoders, StartTrack(d) \/ Track(d) \/ AbandonTrack(d)
      PROVE  UNCHANGED <<stage, paState, driver, app>>
  BY <1>1 DEF StartTrack, Track, TakeTurn, AddChunk, AddLastChunk, Hand, EndTrack, AbandonTrack,
              paVars
<1>2. ASSUME \/ \E t \in Decoders \cup {PA} : BufStep(t)
             \/ Spurious \/ Rest \/ UNCHANGED playerVars
      PROVE  UNCHANGED <<stage, paState, driver, app>>
  BY <1>2 DEF BufStep, Spurious, Rest, playerVars, paVars
<1>3. ASSUME Server \/ Driver
      PROVE  /\ stage' \in Stages /\ UNCHANGED app
             /\ paState' \in {"STOPPED", "RUNNING", "EXIT"}
             /\ driver' \in {"STOPPED", "PLAYING"}
  BY <1>3 DEF Server, ContextReady, Started, StreamDrained, ContextDrained, Block,
    ContextLost, DrainFails, StreamFails, Driver, GetHead, GotHead, Suspend, WakeUp, Disconnect,
    NewStream, WriteDone, WriteRequest, GoTo, SignalState, Stages
<1>4. ASSUME Stop \/ ResumeAll \/ Unpause \/ DeinitBuf \/ DeinitRest
      PROVE  /\ UNCHANGED <<stage, driver>> /\ app' \in AppSteps
             /\ paState' \in {"STOPPED", "RUNNING", "EXIT"}
  BY <1>4 DEF Stop, StopEngine, StopFlush, StopDriver, ResumeAll, ResumeBuf,
    ResumeDriver, ResumeEngine, Unpause, DeinitBuf, DeinitRest, DestroyBuf, ExitDriver,
    DriverGone, DestroyDecoders, paVars, AppSteps
<1> QED
  BY <1>1, <1>2, <1>3, <1>4 DEF Next

LEMMA PartsKept == Parts /\ [Next]_playerVars => Parts'
<1> SUFFICES ASSUME Parts, [Next]_playerVars PROVE Parts'
  OBVIOUS
<1>1. Buf!IInv'
  BY BufferKept, BufferStep DEF Parts
<1>2. EngineP!IInv' /\ NotCancelled'
  BY EngineKept, EngineStep, NotCancelledKept DEF Parts
<1>3. PlayerTypes' /\ Counted'
  BY MadeKept, RestOfTypes DEF PlayerTypes
<1> QED
  BY <1>1, <1>2, <1>3 DEF Parts

\* Only Started makes the driver play, and only while the server has a stream.
LEMMA InformedKept == Informed /\ [Next]_playerVars => Informed'
<1> SUFFICES ASSUME Informed, [Next]_playerVars PROVE Informed'
  OBVIOUS
<1> USE DEF Informed, BeforeStream
<1>1. ASSUME NEW d \in Decoders, StartTrack(d) \/ Track(d) \/ AbandonTrack(d)
      PROVE  UNCHANGED <<stage, driver>>
  BY <1>1 DEF StartTrack, Track, TakeTurn, AddChunk, AddLastChunk, Hand, EndTrack, AbandonTrack,
              paVars
<1>2. ASSUME \/ \E t \in Decoders \cup {PA} : BufStep(t)
             \/ Spurious \/ Rest \/ UNCHANGED playerVars
             \/ Stop \/ ResumeAll \/ Unpause \/ DeinitBuf \/ DeinitRest
      PROVE  UNCHANGED <<stage, driver>>
  BY <1>2 DEF BufStep, Spurious, Rest, playerVars, paVars,
    Stop, StopEngine, StopFlush, StopDriver, ResumeAll, ResumeBuf,
    ResumeDriver, ResumeEngine, Unpause, DeinitBuf, DeinitRest, DestroyBuf, ExitDriver,
    DriverGone, DestroyDecoders
<1>3. ASSUME Server \/ Driver
      PROVE  Informed'
  BY <1>3 DEF Server, ContextReady, Started, StreamDrained, ContextDrained, Block,
    ContextLost, DrainFails, StreamFails, Driver, GetHead, GotHead, Suspend, WakeUp, Disconnect,
    NewStream, WriteDone, WriteRequest, GoTo, SignalState
<1> QED
  BY <1>1, <1>2, <1>3 DEF Next

-----------------------------------------------------------------------------
(* The order of the chunks in the buffer.                                  *)

\* Facts of the parts in the form the order needs.
LEMMA PartFacts ==
  ASSUME Parts
  PROVE  /\ list \in Seq(Buf!Node) /\ Len(list) \in Nat
         /\ \A i \in 1..Len(list) : list[i].chunk \in Chunks
         /\ list # <<>> => LastIn \in Chunks
         /\ \A d \in Decoders : IsActive(d) => curr = d
         /\ phase \in [Decoders -> Engine!Phases]
         /\ made \in [Decoders -> 0..MaxTrack]
         /\ NULL \notin Decoders
<1>1. list \in Seq(Buf!Node) /\ Len(list) \in Nat
  BY DEF Parts, Buf!IInv, Buf!TypeOK
<1>2. \A i \in 1..Len(list) : list[i].chunk \in Chunks
  <2> SUFFICES ASSUME NEW i \in 1..Len(list) PROVE list[i].chunk \in Chunks
    OBVIOUS
  <2>1. list[i] \in Buf!Node
    BY <1>1
  <2> QED
    BY <2>1 DEF Buf!Node
<1>3. list # <<>> => LastIn \in Chunks
  BY <1>1, <1>2 DEF LastIn
<1>4. \A d \in Decoders : IsActive(d) => curr = d
  BY DEF Parts, NotCancelled, EngineP!IInv, EngineP!Turns, EngineP!TurnHeld, EngineP!Active,
         IsActive
<1>5. phase \in [Decoders -> Engine!Phases] /\ made \in [Decoders -> 0..MaxTrack]
  BY EngineSame DEF Parts, PlayerTypes, EngineP!IInv, Engine!TypeOK
<1> QED
  BY <1>1, <1>2, <1>3, <1>4, <1>5, MdPlayerAssumption DEF MdPlayerAssumption

\* What is left of the list after the oldest nodes were taken.
Shrinks ==
  \E n \in 0..Len(list) :
    Len(list') = Len(list) - n /\ \A j \in 1..Len(list) - n : list'[j] = list[n + j]

CallsKept == \A d \in Decoders : call'[d] = call[d]

LEMMA ShrinkKept ==
  ASSUME Parts, Parts', Order, Shrinks, CallsKept, UNCHANGED <<curr, phase, made>>,
         ~run' => ~run \/ list' = <<>>
  PROVE  Order'
<1>0. PICK n \in 0..Len(list) :
        Len(list') = Len(list) - n /\ \A j \in 1..Len(list) - n : list'[j] = list[n + j]
  BY DEF Shrinks
<1>1. n \in Nat /\ Len(list) \in Nat /\ list \in Seq(Buf!Node) /\ list' \in Seq(Buf!Node)
  BY PartFacts DEF Parts, Buf!IInv, Buf!TypeOK, Buf!Node
<1>2. \A d \in Decoders : Adding(d)' = Adding(d) /\ IsActive(d)' = IsActive(d)
  BY DEF CallsKept, Adding, IsActive
<1>3. list' # <<>> => list # <<>> /\ LastIn' = LastIn
  <2> SUFFICES ASSUME list' # <<>> PROVE list # <<>> /\ LastIn' = LastIn
    OBVIOUS
  <2>1. Len(list') > 0
    BY <1>1
  <2>2. Len(list') \in 1..Len(list) - n /\ n + Len(list') = Len(list)
    BY <1>0, <1>1, <2>1
  <2>3. list'[Len(list')] = list[Len(list)]
    BY <1>0, <2>2
  <2> QED
    BY <1>1, <2>2, <2>3 DEF LastIn
<1>4. AddersActive'
  BY <1>2 DEF Order, AddersActive, CallsKept, IsActive, TrackChunk
<1>5. YoungestKnown'
  BY <1>2, <1>3, PartFacts DEF Order, YoungestKnown, Chunks
<1>6. StoppedEmpty'
  BY <1>3 DEF Order, StoppedEmpty
<1>7. LastAdded'
  BY <1>2, <1>3 DEF Order, LastAdded
<1>8. TracksContiguous'
  <2> SUFFICES ASSUME NEW i \in 1..Len(list')-1
               PROVE  Follows(list'[i].chunk, list'[i+1].chunk)
    BY DEF TracksContiguous, Follows
  <2>1. /\ i \in 1..Len(list) - n /\ i + 1 \in 1..Len(list) - n
        /\ n + i \in 1..Len(list)-1 /\ n + (i + 1) = (n + i) + 1
    BY <1>0, <1>1
  <2>2. list'[i] = list[n + i] /\ list'[i+1] = list[(n + i) + 1]
    BY <1>0, <2>1
  <2> QED
    BY <2>1, <2>2 DEF Order, TracksContiguous
<1> QED
  BY <1>4, <1>5, <1>6, <1>7, <1>8 DEF Order

\* A step beside the buffer and the turn.
LEMMA AsideKept ==
  ASSUME Parts, Parts', Order, UNCHANGED <<list, run, curr, phase, made>>, CallsKept
  PROVE  Order'
<1>1. Len(list) \in Nat
  BY PartFacts
<1>2. 0 \in 0..Len(list) /\ Len(list') = Len(list) - 0
      /\ \A j \in 1..Len(list) - 0 : list'[j] = list[0 + j]
  BY <1>1
<1>3. Shrinks
  BY <1>2 DEF Shrinks
<1> QED
  BY <1>3, ShrinkKept

\* A refused chunk
LEMMA RefusalKept ==
  ASSUME Parts, Parts', Order, NEW d \in Decoders, ~run, UNCHANGED <<list, run, curr, phase, made>>,
         \A e \in Decoders \ {d} : call'[e] = call[e],
         ~Adding(d)'
  PROVE  Order'
<1>1. list = <<>> /\ list' = <<>> /\ Len(list') = 0
  BY DEF Order, StoppedEmpty
<1>2. YoungestKnown' /\ StoppedEmpty' /\ LastAdded' /\ TracksContiguous'
  BY <1>1 DEF YoungestKnown, StoppedEmpty, LastAdded, TracksContiguous
<1>3. AddersActive'
  BY DEF Order, AddersActive, Adding, IsActive, TrackChunk
<1> QED
  BY <1>2, <1>3 DEF Order

\* A chunk that is added
LEMMA AppendKept ==
  ASSUME Parts, Parts', Order, NEW d \in Decoders, Adding(d), run',
         UNCHANGED <<curr, phase, made>>,
         NEW node, node.chunk = call[d].chunk, list' = Append(list, node),
         \A e \in Decoders \ {d} : call'[e] = call[e],
         ~Adding(d)'
  PROVE  Order'
<1> DEFINE c == TrackChunk(d, made[d], phase[d] = "handing")
<1>1. /\ IsActive(d) /\ curr = d /\ made[d] > 0 /\ node.chunk = c
      /\ \A e \in Decoders : IsActive(e) => e = d
  BY PartFacts DEF Order, AddersActive
<1>2. c.track = d /\ c.index = made[d] /\ c.done = (phase[d] = "handing")
  BY DEF TrackChunk
<1> HIDE DEF c
<1>3. /\ Len(list') = Len(list) + 1 /\ list'[Len(list) + 1] = node
      /\ \A i \in 1..Len(list) : list'[i] = list[i]
      /\ list' # <<>> /\ Len(list) \in Nat
  BY PartFacts
<1>4. LastIn' = c
  BY <1>1, <1>3 DEF LastIn
<1>5. AddersActive'
  BY <1>1 DEF Order, AddersActive, Adding, IsActive, TrackChunk
<1>6. YoungestKnown'
  BY <1>1, <1>2, <1>4 DEF YoungestKnown, IsActive
<1>7. StoppedEmpty'
  BY DEF StoppedEmpty
<1>8. LastAdded'
  BY <1>1, <1>2, <1>4 DEF LastAdded, IsActive
<1>9. TracksContiguous'
  <2> SUFFICES ASSUME NEW i \in 1..Len(list')-1
               PROVE  Follows(list'[i].chunk, list'[i+1].chunk)
    BY DEF TracksContiguous, Follows
  <2>1. CASE i \in 1..Len(list)-1
    <3>1. i \in 1..Len(list) /\ i + 1 \in 1..Len(list)
      BY <1>3, <2>1
    <3> QED
      BY <1>3, <2>1, <3>1 DEF Order, TracksContiguous
  <2>2. CASE i \notin 1..Len(list)-1
    <3>1. i = Len(list) /\ i \in 1..Len(list) /\ list # <<>>
      BY <1>3, <2>2
    <3>2. list'[i].chunk = LastIn /\ list'[i+1].chunk = c
      BY <1>1, <1>3, <3>1 DEF LastIn
    <3>3. CASE LastIn.track = d
      <4>1. LastIn.index = made[d] - 1
        BY <1>1, <3>1, <3>3 DEF Order, YoungestKnown
      <4>2. c.index = LastIn.index + 1
        BY <1>2, <4>1, PartFacts, MdPlayerAssumption DEF MdPlayerAssumption
      <4> QED
        BY <1>2, <3>2, <3>3, <4>2 DEF Follows
    <3>4. CASE LastIn.track # d
      <4>1. LastIn.done
        BY <1>1, <3>1, <3>4 DEF Order, YoungestKnown
      <4> QED
        BY <1>2, <3>2, <3>4, <4>1 DEF Follows
    <3> QED
      BY <3>3, <3>4
  <2> QED
    BY <2>1, <2>2
<1> QED
  BY <1>5, <1>6, <1>7, <1>8, <1>9 DEF Order

\* A decoder that calls md_buf_add, with a chunk or with its last one
LEMMA HandKept ==
  ASSUME Parts, Parts', Order, NEW d \in Decoders, AddChunk(d) \/ AddLastChunk(d)
  PROVE  Order'
<1> DEFINE done == phase'[d] = "handing"
<1>1. /\ phase[d] = "decoding" /\ phase'[d] \in {"decoding", "handing"}
      /\ \A e \in Decoders \ {d} : phase'[e] = phase[e]
      /\ UNCHANGED curr /\ Hand(d, done)
  <2>1. CASE AddChunk(d)
    BY <2>1 DEF AddChunk, decVars
  <2>2. CASE AddLastChunk(d)
    BY <2>2, PartFacts DEF AddLastChunk, Engine!LastChunk, Engine!To
  <2> QED
    BY <2>1, <2>2
<1>2. /\ UNCHANGED <<list, run>> /\ made' = [made EXCEPT ![d] = @ + 1]
      /\ call' = [call EXCEPT ![d] = Buf!Args("add", TrackChunk(d, made[d] + 1, done), 0, "EXACT")]
      /\ call[d].op = "none"
  BY <1>1 DEF Hand, Idle, Buf!CallAdd, Buf!Begin, Buf!NoCall, Buf!Args
<1>3. call \in [Buf!Threads -> [op : {"none", "add", "head", "pack"},
                                chunk : Chunks \cup {NULL},
                                count : 0..MaxCount, mode : Buf!Modes]]
  BY DEF Parts, Buf!IInv, Buf!TypeOK
<1>4. /\ call'[d].op = "add" /\ call'[d].chunk = TrackChunk(d, made'[d], done)
      /\ \A e \in Decoders \ {d} : call'[e] = call[e] /\ made'[e] = made[e]
      /\ made'[d] = made[d] + 1 /\ made[d] \in Nat
  BY <1>2, <1>3, PartFacts, MdPlayerAssumption DEF MdPlayerAssumption, Buf!Threads, Buf!Args
<1> HIDE DEF done
<1>5. AddersActive'
  BY <1>1, <1>4 DEF Order, AddersActive, Adding, IsActive, TrackChunk, done
<1>6. YoungestKnown'
  <2>1. list # <<>> /\ LastIn.track = d =>
          ~LastIn.done /\ LastIn.index = made[d]
    BY <1>1, <1>2 DEF Order, YoungestKnown, IsActive, Adding
  <2>2. LastIn' = LastIn /\ list' = list
    BY <1>2 DEF LastIn
  <2>3. CASE LastIn.track = d
    BY <1>1, <1>4, <2>1, <2>2, <2>3 DEF Order, YoungestKnown, IsActive, Adding
  <2>4. CASE LastIn.track # d
    BY <1>1, <1>4, <2>2, <2>4, PartFacts DEF Order, YoungestKnown, IsActive, Adding, Chunks
  <2> QED
    BY <2>3, <2>4
<1>7. StoppedEmpty' /\ TracksContiguous'
  BY <1>2 DEF Order, StoppedEmpty, TracksContiguous
<1>8. LastAdded'
  BY <1>1, <1>2, <1>4 DEF Order, LastAdded, LastIn, Adding
<1> QED
  BY <1>5, <1>6, <1>7, <1>8 DEF Order

\* A step of md_decoder_wait that takes no turn, or of a thread not there yet.
LEMMA WaitingKept ==
  ASSUME Parts, Parts', Order, UNCHANGED <<list, run, call, curr, made>>,
         \A d \in Decoders :
           \/ phase'[d] = phase[d]
           \/ /\ phase[d] \in {"new", "started", "waiting"}
              /\ phase'[d] \in {"started", "waiting", "gone"}
  PROVE  Order'
<1>1. \A d \in Decoders :
        /\ IsActive(d)' <=> IsActive(d)
        /\ phase[d] \in {"handing", "gone"} => phase'[d] = phase[d]
        /\ phase'[d] = "handing" <=> phase[d] = "handing"
  BY DEF IsActive
<1>2. AddersActive'
  BY <1>1 DEF Order, AddersActive, Adding, TrackChunk
<1>3. YoungestKnown'
  BY <1>1, PartFacts DEF Order, YoungestKnown, Adding, LastIn, Chunks
<1>4. StoppedEmpty' /\ TracksContiguous'
  BY DEF Order, StoppedEmpty, TracksContiguous
<1>5. LastAdded'
  BY <1>1 DEF Order, LastAdded, LastIn, Adding
<1> QED
  BY <1>2, <1>3, <1>4, <1>5 DEF Order

\* md_decoder_wait ends: with the turn, unless the engine was stopped.
LEMMA TurnKept ==
  ASSUME Parts, Parts', Order, NEW d \in Decoders, Engine!WaitLeave(d),
         UNCHANGED <<list, run, call, made>>
  PROVE  Order'
<1>1. /\ phase[d] \in {"started", "waiting"} /\ trigger = FALSE
      /\ \A e \in Decoders \ {d} : phase'[e] = phase[e]
  BY PartFacts DEF Engine!WaitLeave, Engine!To, Parts, NotCancelled
<1>2. CASE ~running
  <2>1. phase'[d] = "gone" /\ curr' = curr
    BY <1>1, <1>2, PartFacts DEF Engine!WaitLeave, Engine!To
  <2> QED
    BY <1>1, <2>1, WaitingKept
<1>3. CASE running
  <2>1. phase'[d] = "decoding" /\ curr = NULL /\ curr' = d
    BY <1>1, <1>3, PartFacts DEF Engine!WaitLeave, Engine!To, Engine!MustWait
  <2>2. list # <<>> => LastIn.done /\ LastIn.track # d /\ LastIn' = LastIn
    BY <1>1, <2>1, PartFacts DEF Order, YoungestKnown, LastIn, Chunks
  <2>3. AddersActive'
    BY <1>1, <2>1 DEF Order, AddersActive, Adding, IsActive, TrackChunk
  <2>4. YoungestKnown'
    BY <1>1, <2>2, PartFacts DEF Order, YoungestKnown, Adding, IsActive, Chunks
  <2>5. StoppedEmpty' /\ TracksContiguous'
    BY DEF Order, StoppedEmpty, TracksContiguous
  <2>6. LastAdded'
    BY <2>2 DEF LastAdded
  <2> QED
    BY <2>3, <2>4, <2>5, <2>6 DEF Order
<1> QED
  BY <1>2, <1>3

\* A decoder ends, and hands its turn on or keeps it.
LEMMA EndKept ==
  ASSUME Parts, Parts', Order, NEW d \in Decoders, EndTrack(d) \/ AbandonTrack(d)
  PROVE  Order'
<1>1. /\ IsActive(d) /\ phase'[d] = "gone" /\ UNCHANGED <<list, run, call, made>>
      /\ \A e \in Decoders \ {d} : phase'[e] = phase[e]
      /\ ~Adding(d) /\ curr' \in {curr, NULL}
      /\ curr' # curr => phase[d] = "handing"
  BY PartFacts DEF EndTrack, AbandonTrack, Engine!HandOn, Engine!Abandon, Engine!To, IsActive,
                   Idle, Adding, Buf!NoCall, Buf!Args, bufVars
<1>2. \A e \in Decoders : IsActive(e) => e = d
  BY <1>1, PartFacts
<1>3. list # <<>> /\ curr' # curr => LastIn.done
  BY <1>1 DEF Order, LastAdded
<1>4. AddersActive'
  BY <1>1, <1>2 DEF Order, AddersActive, Adding, IsActive, TrackChunk
<1>5. YoungestKnown'
  BY <1>1, <1>2, <1>3, PartFacts DEF Order, YoungestKnown, Adding, IsActive, LastIn, Chunks
<1>6. StoppedEmpty' /\ TracksContiguous'
  BY <1>1 DEF Order, StoppedEmpty, TracksContiguous
<1>7. LastAdded'
  BY <1>1 DEF Order, LastAdded, LastIn, Adding
<1> QED
  BY <1>4, <1>5, <1>6, <1>7 DEF Order

\* A step of a decoder inside md_buf_add
LEMMA AddStepKept ==
  ASSUME Parts, Parts', Order, NEW d \in Decoders, Buf!AddStep(d), UNCHANGED <<decVars, made>>
  PROVE  Order'
<1>0. /\ Adding(d) /\ UNCHANGED <<curr, phase>>
      /\ call \in [Buf!Threads -> [op : {"none", "add", "head", "pack"},
                                   chunk : Chunks \cup {NULL},
                                   count : 0..MaxCount, mode : Buf!Modes]]
      /\ d \in Buf!Threads
  BY DEF Buf!AddStep, Buf!AddWait, Buf!AddStopped, Buf!AddLink, Buf!InSection, Adding,
         Parts, Buf!IInv, Buf!TypeOK, decVars, Buf!Threads
<1>1. CASE Buf!AddWait(d)
  BY <1>0, <1>1, AsideKept DEF Buf!AddWait, Buf!Wait, CallsKept
<1>2. ASSUME NEW r, Buf!Return(d, r)
      PROVE  ~Adding(d)' /\ \A e \in Decoders \ {d} : call'[e] = call[e]
  BY <1>0, <1>2 DEF Buf!Return, Adding, Buf!NoCall, Buf!Args
<1>3. CASE Buf!AddStopped(d)
  BY <1>0, <1>2, <1>3, RefusalKept DEF Buf!AddStopped, Buf!ReturnStopped
<1>4. CASE Buf!AddLink(d)
  <2> DEFINE node == [chunk |-> call[d].chunk,
                      order |-> IF list = <<>> THEN 0 ELSE last.order + 1]
  <2>1. /\ node.chunk = call[d].chunk /\ list' = Append(list, node) /\ run'
        /\ Buf!Return(d, Buf!Result("OK", <<>>, 0))
    BY <1>4 DEF Buf!AddLink
  <2> HIDE DEF node
  <2> QED
    BY <1>0, <1>2, <2>1, AppendKept
<1> QED
  BY <1>1, <1>3, <1>4 DEF Buf!AddStep

\* The list after a walk of md_buf_get_pack
LEMMA DetachShrinks ==
  ASSUME Parts, NEW t, NEW k \in Nat, NEW code, NEW n, Buf!Detach(t, k, code, n)
  PROVE  Shrinks
<1> DEFINE m == IF k <= Len(list) THEN k ELSE Len(list)
<1>1. list \in Seq(Buf!Node) /\ Len(list) \in Nat /\ m \in 0..Len(list)
  BY PartFacts
<1>2. list' = SubSeq(list, m + 1, Len(list))
  BY DEF Buf!Detach, Buf!Rest
<1> HIDE DEF m
<1>3. Len(list') = Len(list) - m /\ \A j \in 1..Len(list) - m : list'[j] = list[m + j]
  BY <1>1, <1>2
<1> QED
  BY <1>1, <1>3 DEF Shrinks

\* A step of the Pulseaudio thread inside md_buf_get_head or md_buf_get_pack
LEMMA TakeStepKept ==
  ASSUME Parts, Parts', Order, Buf!HeadStep(PA) \/ Buf!PackStep(PA),
         UNCHANGED <<decVars, made>>
  PROVE  Order'
<1>0. UNCHANGED <<curr, phase>> /\ PA \notin Decoders /\ PA \in Buf!Threads
  BY MdPlayerAssumption DEF MdPlayerAssumption, decVars, Buf!Threads
<1>1. ASSUME NEW r, Buf!Return(PA, r) PROVE CallsKept
  BY <1>0, <1>1 DEF Buf!Return, CallsKept, Parts, Buf!IInv, Buf!TypeOK, Buf!Threads
<1>2. CASE \/ Buf!HeadWait(PA) \/ Buf!PackWait(PA) \/ Buf!PackBegin(PA) \/ Buf!PackNext(PA)
  BY <1>0, <1>2, AsideKept DEF Buf!HeadWait, Buf!PackWait, Buf!PackBegin, Buf!PackNext, Buf!Wait,
                               CallsKept
<1>3. CASE Buf!HeadReturn(PA)
  BY <1>0, <1>1, <1>3, AsideKept DEF Buf!HeadReturn
<1>4. CASE Buf!PackStopped(PA)
  BY <1>0, <1>1, <1>4, AsideKept DEF Buf!PackStopped, Buf!ReturnStopped
<1>5. CASE Buf!PackShort(PA) \/ Buf!PackStop(PA) \/ Buf!PackFull(PA)
  <2>1. walk.i \in Nat
    BY MdPlayerAssumption DEF MdPlayerAssumption, Parts, Buf!IInv, Buf!TypeOK
  <2>2. ASSUME NEW k \in Nat, NEW code, NEW n, Buf!Detach(PA, k, code, n)
        PROVE  Order'
    <3>1. Shrinks /\ CallsKept /\ run' = run
      BY <1>1, <2>2, DetachShrinks DEF Buf!Detach
    <3> QED
      BY <1>0, <3>1, ShrinkKept
  <2>3. CASE Buf!PackShort(PA)
    BY <2>1, <2>2, <2>3 DEF Buf!PackShort
  <2>4. CASE Buf!PackStop(PA)
    BY <2>1, <2>2, <2>4 DEF Buf!PackStop
  <2>5. CASE Buf!PackFull(PA)
    <3>1. (IF walk.i = 0 THEN 1 ELSE walk.i) \in Nat
      BY <2>1
    <3> QED
      BY <2>2, <2>5, <3>1 DEF Buf!PackFull
  <2> QED
    BY <1>5, <2>3, <2>4, <2>5
<1> QED
  BY <1>2, <1>3, <1>4, <1>5 DEF Buf!HeadStep, Buf!PackStep

LEMMA BufStepKept ==
  ASSUME Parts, Parts', Order, NEW t \in Decoders \cup {PA}, BufStep(t)
  PROVE  Order'
<1>0. Buf!Step(t) /\ UNCHANGED <<decVars, made>>
  BY DEF BufStep
<1>1. /\ Buf!AddStep(t) => t \in Decoders
      /\ Buf!HeadStep(t) \/ Buf!PackStep(t) => t = PA
  <2>1. /\ call[t].op = "add" => t \in Decoders
        /\ call[t].op \in {"head", "pack"} => t = PA
    BY DEF Parts, Buf!IInv, Buf!Callers, Buf!Threads
  <2>2. walk.by # NULL => call[walk.by].op = "pack"
    BY DEF Parts, Buf!IInv, Buf!WalkInside
  <2>3. Buf!AddStep(t) => call[t].op = "add"
    BY DEF Buf!AddStep, Buf!AddWait, Buf!AddStopped, Buf!AddLink, Buf!InSection
  <2>4. Buf!HeadStep(t) => call[t].op = "head"
    BY DEF Buf!HeadStep, Buf!HeadWait, Buf!HeadReturn, Buf!InSection
  <2>5. t # NULL
    BY MdPlayerAssumption DEF MdPlayerAssumption
  <2>6. Buf!PackStep(t) => call[t].op = "pack"
    BY <2>2, <2>5 DEF Buf!PackStep, Buf!PackWait, Buf!PackStopped, Buf!PackBegin, Buf!PackNext,
                      Buf!PackShort, Buf!PackStop, Buf!PackFull, Buf!InSection
  <2> QED
    BY <2>1, <2>3, <2>4, <2>6
<1> QED
  BY <1>0, <1>1, AddStepKept, TakeStepKept DEF Buf!Step

LEMMA FlushKept ==
  ASSUME Parts, Parts', Order, Buf!Flush, UNCHANGED <<decVars, made>>
  PROVE  Order'
<1>1. /\ list' = <<>> /\ CallsKept /\ UNCHANGED <<curr, phase>>
      /\ Len(list) \in Nat
  BY PartFacts DEF Buf!Flush, CallsKept, decVars
<1>2. /\ Len(list) \in 0..Len(list) /\ Len(list') = Len(list) - Len(list)
      /\ \A j \in 1..Len(list) - Len(list) : list'[j] = list[Len(list) + j]
  BY <1>1
<1>3. Shrinks
  BY <1>2 DEF Shrinks
<1> QED
  BY <1>1, <1>3, ShrinkKept

LEMMA ResumeKept ==
  ASSUME Parts, Parts', Order, Buf!Resume, UNCHANGED <<decVars, made>>
  PROVE  Order'
<1>1. /\ UNCHANGED list /\ run' = TRUE /\ CallsKept /\ UNCHANGED <<curr, phase>>
      /\ Len(list) \in Nat
  BY PartFacts DEF Buf!Resume, CallsKept, decVars
<1>2. /\ 0 \in 0..Len(list) /\ Len(list') = Len(list) - 0
      /\ \A j \in 1..Len(list) - 0 : list'[j] = list[0 + j]
  BY <1>1
<1>3. Shrinks
  BY <1>2 DEF Shrinks
<1> QED
  BY <1>1, <1>3, ShrinkKept

LEMMA OrderKept == Parts /\ Order /\ [Next]_playerVars => Order'
<1> SUFFICES ASSUME Parts, Order, [Next]_playerVars PROVE Order'
  OBVIOUS
<1>0. Parts'
  BY PartsKept
<1>1. ASSUME NEW d \in Decoders, StartTrack(d) PROVE Order'
  BY <1>0, <1>1, PartFacts, WaitingKept DEF StartTrack, Engine!Start, Engine!To, bufVars
<1>2. ASSUME NEW d \in Decoders, TakeTurn(d) PROVE Order'
  <2>1. UNCHANGED <<list, run, call, made>>
    BY <1>2 DEF TakeTurn, bufVars
  <2>2. CASE Engine!WaitLeave(d)
    BY <1>0, <2>1, <2>2, TurnKept
  <2>3. CASE Engine!WaitEnter(d) \/ Engine!WaitAgain(d)
    BY <1>0, <2>1, <2>3, PartFacts, WaitingKept DEF Engine!WaitEnter, Engine!WaitAgain, Engine!To
  <2> QED
    BY <1>2, <2>2, <2>3 DEF TakeTurn, Engine!Waiter
<1>3. ASSUME NEW d \in Decoders, AddChunk(d) \/ AddLastChunk(d) PROVE Order'
  BY <1>0, <1>3, HandKept
<1>4. ASSUME NEW d \in Decoders, EndTrack(d) \/ AbandonTrack(d) PROVE Order'
  BY <1>0, <1>4, EndKept
<1>5. ASSUME NEW t \in Decoders \cup {PA}, BufStep(t) PROVE Order'
  BY <1>0, <1>5, BufStepKept
<1>6. ASSUME StopFlush \/ DeinitBuf PROVE Order'
  BY <1>0, <1>6, FlushKept DEF StopFlush, DeinitBuf
<1>7. ASSUME ResumeBuf PROVE Order'
  BY <1>0, <1>7, ResumeKept DEF ResumeBuf
<1>8. ASSUME UNCHANGED <<list, run, call, curr, made, phase>> PROVE Order'
  BY <1>0, <1>8, AsideKept DEF CallsKept
<1>9. ASSUME GetHead \/ \E n \in 1..MaxCount : WriteRequest(n) PROVE Order'
  <2>1. UNCHANGED <<list, run, curr, phase, made>>
    BY <1>9 DEF GetHead, WriteRequest, Buf!CallHead, Buf!CallPack, Buf!Begin, decVars
  <2>2. CallsKept
    BY <1>9, MdPlayerAssumption
    DEF MdPlayerAssumption, GetHead, WriteRequest, Buf!CallHead, Buf!CallPack, Buf!Begin, CallsKept,
        Parts, Buf!IInv, Buf!TypeOK, Buf!Threads
  <2> QED
    BY <1>0, <2>1, <2>2, AsideKept
<1>10. ASSUME Spurious PROVE UNCHANGED <<list, run, call, curr, made, phase>>
  BY <1>10 DEF Spurious, Buf!SpuriousWakeup, Engine!SpuriousWakeup, decVars, bufVars
<1>11. ASSUME \/ Server \/ GotHead \/ Suspend \/ WakeUp \/ Disconnect \/ NewStream \/ WriteDone
              \/ StopEngine \/ StopDriver \/ ResumeDriver \/ ResumeEngine
              \/ Unpause \/ DeinitRest \/ Rest \/ UNCHANGED playerVars
      PROVE  UNCHANGED <<list, run, call, curr, made, phase>>
  BY <1>11 DEF Server, ContextReady, Started, StreamDrained, ContextDrained, Block,
    ContextLost, DrainFails, StreamFails, GotHead, Suspend, WakeUp, Disconnect, NewStream, WriteDone,
    StopEngine, StopDriver, ResumeDriver, ResumeEngine, Unpause, DeinitRest, DestroyBuf,
    ExitDriver, DriverGone, DestroyDecoders, Rest, playerVars, bufVars, decVars,
    Engine!StopEngine, Engine!StartEngine
<1> QED
  BY <1>1, <1>2, <1>3, <1>4, <1>5, <1>6, <1>7, <1>8, <1>9, <1>10, <1>11
  DEF Next, Track, Driver, Stop, ResumeAll

-----------------------------------------------------------------------------
LEMMA PlayerInvariant == Spec => []IInv
<1>1. IInv /\ [Next]_playerVars => IInv'
  BY PartsKept, OrderKept, InformedKept DEF IInv
<1> QED
  BY PlayerInit, <1>1, PTL DEF Spec

(* Every variable of the player, the buffer and the engine keeps its type,    *)
(* and no decoder makes more than MaxTrack chunks.                            *)
THEOREM PlayerTypesKept == Spec => []TypeOK
<1>1. IInv => TypeOK
  BY EngineSame DEF IInv, Parts, PlayerTypes, Buf!IInv, EngineP!IInv, TypeOK
<1> QED
  BY <1>1, PlayerInvariant, PTL

(* Tracks are not mixed in the buffer, for any number of tracks of any length *)
(* and through every stop, resume, refusal and spurious wake-up: the chunk    *)
(* behind another one is the next of the same track, or follows a last one.   *)
THEOREM TracksNotMixed == Spec => []TracksContiguous
<1>1. IInv => TracksContiguous
  BY DEF IInv, Order
<1> QED
  BY <1>1, PlayerInvariant, PTL

(* The Pulseaudio thread sleeps in md_pa_suspend only while the generic       *)
(* driver layer takes it for stopped, so that md_driver_resume reaches it.    *)
THEOREM SleepsOnlyStopped == Spec => []SleepsStopped
<1>1. IInv => SleepsStopped
  BY DEF IInv, Informed, BeforeStream, SleepsStopped, Sleeps
<1> QED
  BY <1>1, PlayerInvariant, PTL

\* Turn-taking lets one decoder at a time into md_buf_add.
LEMMA OneCaller == IInv => BufP!OneOfEach
<1> SUFFICES ASSUME IInv PROVE BufP!OneOfEach
  OBVIOUS
<1>1. BufP!Threads = Decoders \cup {PA} /\ PA \notin Decoders
  BY MdPlayerAssumption DEF MdPlayerAssumption, BufP!Threads
<1>2. ASSUME NEW t \in BufP!Threads
      PROVE  /\ call[t].op = "add" => t \in Decoders
             /\ call[t].op \in {"head", "pack"} => t = PA
  BY <1>2, BufSame DEF IInv, Parts, BufP!IInv, BufP!Callers
<1>3. ASSUME NEW t \in Decoders, NEW u \in Decoders, Adding(t), Adding(u)
      PROVE  t = u
  <2>1. IsActive(t) /\ IsActive(u)
    BY <1>3 DEF IInv, Order, AddersActive
  <2> QED
    BY <2>1, PartFacts DEF IInv
<1> QED
  BY <1>2, <1>3 DEF BufP!OneOfEach, Adding

LEMMA NobodyForgotten ==
  ASSUME MaxCount <= MaxBufNum
  PROVE  IInv /\ NoLostWakeup /\ [Next]_playerVars => NoLostWakeup'
<1>1. Buf!NoLostWakeup <=> BufP!NoLostWakeup
  BY DEF Buf!NoLostWakeup, BufP!NoLostWakeup, Buf!HasReason, BufP!HasReason,
         Buf!AddCond, BufP!AddCond, Buf!BufNum, BufP!BufNum
<1>2. Buf!NoLostWakeup' <=> BufP!NoLostWakeup'
  BY <1>1, PTL
<1>3. IInv => BufP!IInv /\ BufP!OneOfEach
  BY BufSame, OneCaller DEF IInv, Parts
<1>4. IInv /\ [Next]_playerVars => [BufP!Next]_(BufP!vars)
  BY BufferStep, BufSame DEF IInv
<1>5. BufP!IInv /\ BufP!OneOfEach /\ BufP!NoLostWakeup /\ [BufP!Next]_(BufP!vars)
        => BufP!NoLostWakeup'
  BY BufferAssumed, BufP!NoSleeperLost DEF BufP!Threads, BufP!Node
<1> QED
  BY <1>1, <1>2, <1>3, <1>4, <1>5 DEF NoLostWakeup

(* However many decoders there are, and however the application stops,        *)
(* resumes and ends the player: no thread is left asleep on the buffer's      *)
(* condition whose reason to sleep is gone, if no request is for more than    *)
(* max_buf_num chunks.                                                        *)
THEOREM PlayerWakesSleepers ==
  ASSUME MaxCount <= MaxBufNum
  PROVE  Spec => []NoLostWakeup
<1>1. Init => NoLostWakeup
  BY DEF Init, Buf!InitBuf, NoLostWakeup, Buf!NoLostWakeup
<1> QED
  BY <1>1, NobodyForgotten, PlayerInvariant, PTL DEF Spec

(* The player is a user of the buffer as MdBuf describes it: each of its      *)
(* steps is a step of the buffer with callers, or a stutter.                  *)
THEOREM PlayerUsesBuffer == Spec => Buf!Spec
<1>1. Init => Buf!Init
  BY DEF Init, Buf!Init, Engine!Init
<1>2. IInv /\ [Next]_playerVars => [Buf!Next]_(Buf!vars)
  BY BufferStep DEF IInv
<1> QED
  BY <1>1, <1>2, PlayerInvariant, PTL DEF Spec, Buf!Spec

(* What was proved of the buffer therefore holds in the player: it is a       *)
(* bounded queue, from which the driver takes the chunks in the order in      *)
(* which the decoders added them, none twice.                                 *)
THEOREM PlayerHasFifo == Spec => BufP!ImplementsFifo
<1>1. Spec => BufP!Spec
  <2>1. Init => BufP!Init
    BY BufSame DEF Init, BufP!Init, Engine!Init
  <2>2. IInv /\ [Next]_playerVars => [BufP!Next]_(BufP!vars)
    BY BufferStep, BufSame DEF IInv
  <2> QED
    BY <2>1, <2>2, PlayerInvariant, PTL DEF Spec, BufP!Spec
<1>2. BufP!Spec => BufP!ImplementsFifo
  BY BufferAssumed, BufP!BufferImplementsFifo DEF BufP!Threads, BufP!Node
<1> QED
  BY <1>1, <1>2, PTL

(* And it uses the decoder engine as MdDecoder describes it, without          *)
(* cancellations.                                                             *)
THEOREM PlayerUsesEngine == Spec => Engine!Spec
<1>1. Init => Engine!Init
  BY DEF Init
<1> QED
  BY <1>1, EngineStep, PTL DEF Spec, Engine!Spec, decVars, Engine!decVars

(* What was proved of the engine therefore holds in the player: a free turn   *)
(* of a running engine always has a waiter that is awake.                     *)
THEOREM PlayerTurnNoticed == Spec => []Engine!TurnNoticed
<1>1. Spec => EngineP!Spec
  <2>1. Init => EngineP!Init
    BY EngineSame DEF Init
  <2>2. [Next]_playerVars => [EngineP!Next]_(EngineP!decVars)
    BY EngineStep, EngineSame DEF decVars, EngineP!decVars
  <2> QED
    BY <2>1, <2>2, PTL DEF Spec, EngineP!Spec
<1>2. EngineP!Spec => []EngineP!TurnNoticed
  BY EngineAssumed, EngineP!TurnAlwaysNoticed
<1>3. EngineP!TurnNoticed <=> Engine!TurnNoticed
  BY DEF EngineP!TurnNoticed, Engine!TurnNoticed
<1> QED
  BY <1>1, <1>2, <1>3, PTL
=============================================================================
