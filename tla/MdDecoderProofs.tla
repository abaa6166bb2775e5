-------------------------- MODULE MdDecoderProofs ---------------------------
(***************************************************************************)
(* Proofs about the decoder engine, for any finite number of decoder       *)
(* threads and any number of cancellations.                                *)
(***************************************************************************)
EXTENDS MdDecoder, FiniteSetTheorems, TLAPS

\* What DecodingBound and TurnHeld need to be inductive.
Turns == TriggerCounted /\ DecodingBound /\ TurnHeld

IInv == TypeOK /\ Turns

-----------------------------------------------------------------------------
(* The set of active threads and its size. *)

LEMMA ActiveFinite == IsFiniteSet(Active) /\ Cardinality(Active) \in Nat
<1>1. Active \subseteq Decoders
  BY DEF Active
<1>2. IsFiniteSet(Active)
  BY <1>1, MdDecoderAssumption, FS_Subset
<1> QED
  BY <1>2, FS_CardinalityType

\* A thread that leaves the wait and decodes is one more.
LEMMA OneMore ==
  ASSUME TypeOK, NEW d \in Decoders, d \notin Active, To(d, "decoding")
  PROVE  Active' = Active \cup {d} /\ Cardinality(Active') = Cardinality(Active) + 1
<1>1. phase' = [phase EXCEPT ![d] = "decoding"] /\ phase \in [Decoders -> Phases]
  BY DEF To, TypeOK
<1>2. Active' = Active \cup {d}
  BY <1>1 DEF Active
<1> QED
  BY <1>2, ActiveFinite, FS_AddElement

\* A thread that exits is one less.
LEMMA OneLess ==
  ASSUME TypeOK, NEW d \in Decoders, d \in Active, To(d, "gone")
  PROVE  /\ Active' = Active \ {d} /\ Cardinality(Active') = Cardinality(Active) - 1
         /\ Cardinality(Active) > 0
<1>1. phase' = [phase EXCEPT ![d] = "gone"] /\ phase \in [Decoders -> Phases]
  BY DEF To, TypeOK
<1>2. Active' = Active \ {d}
  BY <1>1 DEF Active
<1>3. Cardinality(Active) # 0
  BY ActiveFinite, FS_EmptySet
<1> QED
  BY <1>2, <1>3, ActiveFinite, FS_RemoveElement

\* Any other change of phase leaves the set alone.
LEMMA SameActive ==
  ASSUME TypeOK, NEW d \in Decoders, NEW p \in Phases, To(d, p),
         d \in Active <=> p \in {"decoding", "handing"}
  PROVE  Active' = Active
<1>1. phase' = [phase EXCEPT ![d] = p] /\ phase \in [Decoders -> Phases]
  BY DEF To, TypeOK
<1> QED
  BY <1>1 DEF Active

LEMMA SignalShrinks ==
  ASSUME Signal
  PROVE  /\ asleep' \subseteq asleep
         /\ asleep # {} => \E d \in asleep : asleep' = asleep \ {d}
  BY DEF Signal

-----------------------------------------------------------------------------
(* Types. *)

LEMMA TypeStep == TypeOK /\ [Next]_decVars => TypeOK'
<1> SUFFICES ASSUME TypeOK, [Next]_decVars PROVE TypeOK'
  OBVIOUS
<1> USE DEF TypeOK, Phases
<1>1. CASE UNCHANGED decVars
  BY <1>1 DEF decVars
<1>2. ASSUME NEW d \in Decoders, Start(d) PROVE TypeOK'
  BY <1>2 DEF Start, To
<1>3. ASSUME NEW d \in Decoders, WaitEnter(d) PROVE TypeOK'
  BY <1>3 DEF WaitEnter, To
<1>4. ASSUME NEW d \in Decoders, WaitAgain(d) PROVE TypeOK'
  BY <1>4 DEF WaitAgain
<1>5. ASSUME NEW d \in Decoders, WaitLeave(d) PROVE TypeOK'
  BY <1>5 DEF WaitLeave, To
<1>6. ASSUME NEW d \in Decoders, Abandon(d) PROVE TypeOK'
  BY <1>6 DEF Abandon, To
<1>7. ASSUME NEW d \in Decoders, LastChunk(d) PROVE TypeOK'
  BY <1>7 DEF LastChunk, To
<1>8. ASSUME NEW d \in Decoders, HandOn(d) PROVE TypeOK'
  BY <1>8, SignalShrinks DEF HandOn, To
<1>9. ASSUME NEW d \in Decoders, SpuriousWakeup(d) PROVE TypeOK'
  BY <1>9 DEF SpuriousWakeup
<1>10. CASE StopEngine
  BY <1>10, SignalShrinks DEF StopEngine
<1>11. CASE StartEngine
  BY <1>11, SignalShrinks DEF StartEngine
<1>12. CASE CancelQueued
  BY <1>12, SignalShrinks DEF CancelQueued
<1> QED
  BY <1>1, <1>2, <1>3, <1>4, <1>5, <1>6, <1>7, <1>8, <1>9, <1>10, <1>11, <1>12
  DEF Next, Waiter, Worker

-----------------------------------------------------------------------------
(* Steps that touch neither the turn nor the set of active threads. *)

LEMMA QuietStep ==
  ASSUME IInv, Active' = Active, UNCHANGED <<curr, trigger, cancels>>
  PROVE  Turns'
  BY DEF IInv, Turns, TriggerCounted, DecodingBound, TurnHeld, One

LEMMA LeaveStep ==
  ASSUME IInv, NEW d \in Decoders, WaitLeave(d)
  PROVE  Turns'
<1>1. /\ TypeOK /\ TriggerCounted /\ DecodingBound /\ TurnHeld
      /\ Cardinality(Active) \in Nat /\ cancels \in Nat
  BY ActiveFinite DEF IInv, Turns, TypeOK
<1>2. /\ d \notin Active /\ ~MustWait /\ trigger' = FALSE
      /\ UNCHANGED <<running, cancels>>
      /\ curr' = (IF running /\ ~trigger THEN d ELSE curr)
      /\ To(d, IF running THEN "decoding" ELSE "gone")
  BY DEF WaitLeave, Active
<1>3. CASE ~running
  <2>1. Active' = Active /\ curr' = curr
    BY <1>1, <1>2, <1>3, SameActive DEF Phases
  <2> QED
    BY <1>1, <1>2, <2>1 DEF Turns, TriggerCounted, DecodingBound, TurnHeld, One
<1>4. CASE running /\ ~trigger
  <2>1. Active' = Active \cup {d} /\ Cardinality(Active') = Cardinality(Active) + 1
    BY <1>1, <1>2, <1>4, OneMore
  <2>2. curr = NULL /\ curr' = d /\ curr' # NULL
    BY <1>2, <1>4, MdDecoderAssumption DEF MustWait
  <2>3. cancels = 0 => Active = {}
    BY <1>1, <2>2, MdDecoderAssumption DEF TurnHeld, Active
  <2> QED
    BY <1>1, <1>2, <1>4, <2>1, <2>2, <2>3 DEF Turns, TriggerCounted, DecodingBound, TurnHeld, One
<1>5. CASE running /\ trigger
  <2>1. Active' = Active \cup {d} /\ Cardinality(Active') = Cardinality(Active) + 1
    BY <1>1, <1>2, <1>5, OneMore
  <2>2. cancels > 0 /\ curr' = curr
    BY <1>1, <1>2, <1>5 DEF Turns, TriggerCounted
  <2> QED
    BY <1>1, <1>2, <1>5, <2>1, <2>2 DEF Turns, TriggerCounted, DecodingBound, TurnHeld, One
<1> QED
  BY <1>3, <1>4, <1>5

LEMMA ExitStep ==
  ASSUME IInv, NEW d \in Decoders, Abandon(d) \/ HandOn(d)
  PROVE  Turns'
<1>1. /\ TypeOK /\ TriggerCounted /\ DecodingBound /\ TurnHeld
      /\ Cardinality(Active) \in Nat /\ cancels \in Nat
  BY ActiveFinite DEF IInv, Turns, TypeOK
<1>2. d \in Active /\ To(d, "gone") /\ UNCHANGED <<trigger, cancels>>
  BY DEF Abandon, HandOn, Active
<1>3. Active' = Active \ {d} /\ Cardinality(Active') = Cardinality(Active) - 1
  BY <1>1, <1>2, OneLess
<1>4. CASE Abandon(d)
  <2>1. curr' = curr
    BY <1>4 DEF Abandon
  <2> QED
    BY <1>1, <1>2, <1>3, <2>1 DEF Turns, TriggerCounted, DecodingBound, TurnHeld, One
<1>5. CASE HandOn(d)
  <2>1. curr' = NULL
    BY <1>5 DEF HandOn
  <2>2. cancels = 0 => Active' = {}
    BY <1>1, <1>2, <1>3 DEF TurnHeld
  <2>3. DecodingBound'
    BY <1>1, <1>2, <1>3, <2>1 DEF DecodingBound, One
  <2> QED
    BY <1>1, <1>2, <2>2, <2>3 DEF Turns, TriggerCounted, TurnHeld
<1> QED
  BY <1>4, <1>5

LEMMA CancelStep ==
  ASSUME IInv, CancelQueued
  PROVE  Turns'
<1>1. Active' = Active /\ Cardinality(Active) \in Nat /\ cancels \in Nat
  BY ActiveFinite DEF CancelQueued, Active, IInv, TypeOK
<1>2. trigger' = TRUE /\ cancels' = cancels + 1 /\ curr' = curr
  BY DEF CancelQueued
<1> QED
  BY <1>1, <1>2 DEF IInv, Turns, TriggerCounted, DecodingBound, TurnHeld, One

LEMMA StepIInv == IInv /\ [Next]_decVars => IInv'
<1> SUFFICES ASSUME IInv, [Next]_decVars PROVE IInv'
  OBVIOUS
<1>1. TypeOK /\ TypeOK'
  BY TypeStep DEF IInv, Turns
<1>2. ASSUME NEW d \in Decoders, Start(d) \/ WaitEnter(d) \/ WaitAgain(d) \/ LastChunk(d)
                                 \/ SpuriousWakeup(d)
      PROVE  Turns'
  <2>1. UNCHANGED <<curr, trigger, cancels>>
    BY <1>2 DEF Start, WaitEnter, WaitAgain, LastChunk, SpuriousWakeup
  <2>2. Active' = Active
    <3>1. CASE Start(d)
      BY <1>1, <3>1, SameActive DEF Start, Active, Phases
    <3>2. CASE WaitEnter(d)
      BY <1>1, <3>2, SameActive DEF WaitEnter, Active, Phases
    <3>3. CASE LastChunk(d)
      BY <1>1, <3>3, SameActive DEF LastChunk, Active, Phases
    <3>4. CASE WaitAgain(d) \/ SpuriousWakeup(d)
      BY <3>4 DEF WaitAgain, SpuriousWakeup, Active
    <3> QED
      BY <1>2, <3>1, <3>2, <3>3, <3>4
  <2> QED
    BY <2>1, <2>2, QuietStep
<1>3. ASSUME UNCHANGED decVars \/ StopEngine \/ StartEngine PROVE Turns'
  <2>1. UNCHANGED <<curr, trigger, cancels, phase>>
    BY <1>3 DEF decVars, StopEngine, StartEngine
  <2>2. Active' = Active
    BY <2>1 DEF Active
  <2> QED
    BY <2>1, <2>2, QuietStep
<1>4. ASSUME NEW d \in Decoders, WaitLeave(d) PROVE Turns'
  BY <1>4, LeaveStep
<1>5. ASSUME NEW d \in Decoders, Abandon(d) \/ HandOn(d) PROVE Turns'
  BY <1>5, ExitStep
<1>6. ASSUME CancelQueued PROVE Turns'
  BY <1>6, CancelStep
<1>7. Turns'
  BY <1>2, <1>3, <1>4, <1>5, <1>6 DEF Next, Waiter, Worker
<1> QED
  BY <1>1, <1>7 DEF IInv

LEMMA InitIInv == Init => IInv
<1> SUFFICES ASSUME Init PROVE IInv
  OBVIOUS
<1>1. TypeOK
  BY DEF Init, TypeOK, Phases
<1>2. Active = {}
  BY DEF Init, Active
<1>3. Cardinality(Active) = 0
  BY <1>2, FS_EmptySet
<1> QED
  BY <1>1, <1>2, <1>3 DEF Init, IInv, Turns, TriggerCounted, DecodingBound, TurnHeld, One

LEMMA EngineInvariant == Spec => []IInv
  BY InitIInv, StepIInv, PTL DEF Spec

-----------------------------------------------------------------------------
(* Types: above all, a thread is in pthread_cond_wait only while its phase    *)
(* says that it is inside md_decoder_wait.                                    *)
THEOREM EngineTypes == Spec => []TypeOK
<1>1. IInv => TypeOK
  BY DEF IInv
<1> QED
  BY <1>1, EngineInvariant, PTL

(* At most one decoder decodes at a time, plus one for every cancellation     *)
(* of a queued decoder, however many threads there are.                       *)
THEOREM BoundedDecoding == Spec => []DecodingBound
<1>1. IInv => DecodingBound
  BY DEF IInv, Turns
<1> QED
  BY <1>1, EngineInvariant, PTL

(* As long as no queued decoder was cancelled, curr_decoder is the only       *)
(* thread that decodes.                                                       *)
THEOREM ExclusiveTurn == Spec => []TurnHeld
<1>1. IInv => TurnHeld
  BY DEF IInv, Turns
<1> QED
  BY <1>1, EngineInvariant, PTL

LEMMA StepNoticed == IInv /\ TurnNoticed /\ [Next]_decVars => TurnNoticed'
<1> SUFFICES ASSUME IInv, TurnNoticed, [Next]_decVars,
                    cancels' = 0, curr' = NULL, running', asleep' # {}
             PROVE  \E d \in Decoders \ asleep' : phase'[d] = "waiting"
  BY DEF TurnNoticed
<1>1. /\ TypeOK /\ cancels \in Nat /\ asleep \subseteq Decoders
      /\ \A d \in asleep : phase[d] = "waiting"
      /\ phase \in [Decoders -> Phases]
  BY DEF IInv, Turns, TypeOK
\* Nothing happened to the premise: the awake waiter is still there.
<1>2. ASSUME cancels = 0, curr = NULL, running, asleep # {}
      PROVE  \E d \in Decoders \ asleep : phase[d] = "waiting"
  BY <1>2 DEF TurnNoticed
\* A signal wakes one.
<1>3. ASSUME Signal, NEW e, e \notin asleep, \A d \in Decoders : d # e => phase'[d] = phase[d]
      PROVE  \E d \in Decoders \ asleep' : phase'[d] = "waiting"
  <2>1. PICK d \in asleep : asleep' = asleep \ {d}
    BY <1>3, SignalShrinks
  <2> QED
    BY <1>1, <1>3, <2>1
<1>4. CASE UNCHANGED decVars
  BY <1>2, <1>4 DEF decVars
<1>5. ASSUME NEW e \in Decoders, Start(e) \/ Abandon(e) \/ LastChunk(e)
      PROVE  \E d \in Decoders \ asleep' : phase'[d] = "waiting"
  <2>1. /\ UNCHANGED <<cancels, curr, running, asleep>> /\ phase[e] # "waiting"
        /\ \A d \in Decoders : d # e => phase'[d] = phase[d]
    BY <1>1, <1>5 DEF Start, Abandon, LastChunk, To
  <2> QED
    BY <1>2, <2>1
<1>6. ASSUME NEW e \in Decoders, WaitEnter(e) \/ WaitAgain(e)
      PROVE  FALSE
  BY <1>6 DEF WaitEnter, WaitAgain, MustWait
<1>7. ASSUME NEW e \in Decoders, WaitLeave(e)
      PROVE  FALSE
  <2>1. ~trigger /\ running /\ curr' = e
    BY <1>1, <1>7 DEF WaitLeave, IInv, Turns, TriggerCounted
  <2> QED
    BY <2>1, MdDecoderAssumption
<1>8. ASSUME NEW e \in Decoders, HandOn(e)
      PROVE  \E d \in Decoders \ asleep' : phase'[d] = "waiting"
  <2>1. Signal /\ e \notin asleep /\ \A d \in Decoders : d # e => phase'[d] = phase[d]
    BY <1>1, <1>8 DEF HandOn, To
  <2> QED
    BY <1>3, <2>1
<1>9. ASSUME NEW e \in Decoders, SpuriousWakeup(e)
      PROVE  \E d \in Decoders \ asleep' : phase'[d] = "waiting"
  BY <1>1, <1>9 DEF SpuriousWakeup
<1>10. CASE StopEngine
  BY <1>10 DEF StopEngine
<1>11. CASE StartEngine
  <2>1. Signal /\ NULL \notin asleep /\ \A d \in Decoders : phase'[d] = phase[d]
    BY <1>1, <1>11, MdDecoderAssumption DEF StartEngine
  <2> QED
    BY <1>3, <2>1
<1>12. CASE CancelQueued
  BY <1>1, <1>12 DEF CancelQueued
<1> QED
  BY <1>4, <1>5, <1>6, <1>7, <1>8, <1>9, <1>10, <1>11, <1>12 DEF Next, Waiter, Worker

(* Without cancellations one pthread_cond_signal per change is enough: while  *)
(* the turn is free, the engine runs and threads sleep, a waiter is awake.    *)
THEOREM TurnAlwaysNoticed == Spec => []TurnNoticed
<1>1. Init => TurnNoticed
  BY DEF Init, TurnNoticed
<1> QED
  BY <1>1, EngineInvariant, StepNoticed, PTL DEF Spec
=============================================================================
