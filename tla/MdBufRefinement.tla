-------------------------- MODULE MdBufRefinement ---------------------------
(***************************************************************************)
(* Two consequences of the buffer's invariant: the buffer is a bounded     *)
(* first-in first-out queue, and with the player's two threads its single  *)
(* condition variable loses no wakeup.                                     *)
(***************************************************************************)
EXTENDS MdBufProofs

-----------------------------------------------------------------------------
(* The buffer implements the bounded queue. *)

Taken == [t \in Threads |-> IF ret[t].code = "HEAD" THEN <<>> ELSE ret[t].pack]

LEMMA TakenOf == ASSUME NEW t \in Threads
                 PROVE  Taken[t] = IF ret[t].code = "HEAD" THEN <<>> ELSE ret[t].pack
  BY DEF Taken

\* A call that takes no chunk ends without the abstract queue noticing.
LEMMA ReturnNothing ==
  ASSUME IInv, NEW t \in Threads, call[t].op # "none",
         NEW r, r.code = "HEAD" \/ r.pack = <<>>,
         Return(t, r), UNCHANGED list
  PROVE  UNCHANGED Fifo!fifoVars
<1>1. ret[t].pack = <<>>
  BY DEF IInv, Callers, NoRet, Result
<1>2. ret' = [ret EXCEPT ![t] = r] /\ ret \in [Threads -> [code : Codes, pack : Seq(Chunks), count : 0..MaxCount]]
  BY DEF Return, IInv, TypeOK
<1>3. Taken' = Taken
  BY <1>1, <1>2 DEF Taken
<1> QED
  BY <1>3 DEF Fifo!fifoVars, Taken, ChunksOf

LEMMA BeginRefines ==
  ASSUME IInv, NEW t \in Threads, NEW c, Begin(t, c)
  PROVE  Fifo!Next
<1>1. /\ ret' = [ret EXCEPT ![t] = NoRet] /\ UNCHANGED list
      /\ ret \in [Threads -> [code : Codes, pack : Seq(Chunks), count : 0..MaxCount]]
  BY DEF Begin, IInv, TypeOK
<1>2. Taken' = [Taken EXCEPT ![t] = <<>>]
  BY <1>1 DEF Taken, NoRet, Result
<1>3. Fifo!Forget(t)
  BY <1>1, <1>2 DEF Fifo!Forget, Taken, ChunksOf
<1> QED
  BY <1>3 DEF Fifo!Next

LEMMA AddLinkRefines ==
  ASSUME IInv, NEW t \in Threads, AddLink(t)
  PROVE  Fifo!Next
<1> DEFINE node == [chunk |-> call[t].chunk,
                    order |-> IF list = <<>> THEN 0 ELSE last.order + 1]
           queue == ChunksOf(list)
<1>1. /\ list' = Append(list, node) /\ Return(t, Result("OK", <<>>, 0)) /\ ~AddCond
      /\ call[t].op = "add"
  BY DEF AddLink, InSection
<1>2. /\ list \in Seq(Node) /\ Len(list) \in Nat /\ MaxBufNum \in Nat
      /\ node.chunk = call[t].chunk /\ call[t].chunk \in Chunks
  BY <1>1, MdBufAssumption DEF IInv, TypeOK
<1>3. Len(list) < MaxBufNum
  BY <1>1, <1>2, BufNumIsLength DEF AddCond, IInv
<1> HIDE DEF node
<1>4. Len(ChunksOf(list)) = Len(list)
  BY <1>2 DEF ChunksOf
<1>5. ChunksOf(list)' = Append(ChunksOf(list), call[t].chunk)
  <2>1. /\ Len(list') = Len(list) + 1
        /\ \A j \in 1..Len(list) : list'[j] = list[j]
        /\ list'[Len(list) + 1] = node
    BY <1>1, <1>2
  <2>2. ChunksOf(list)' = [j \in 1..Len(list)+1 |-> list'[j].chunk]
    BY <2>1 DEF ChunksOf
  <2>3. Append(ChunksOf(list), call[t].chunk)
          = [j \in 1..Len(list)+1 |-> IF j <= Len(list) THEN list[j].chunk ELSE call[t].chunk]
    BY <1>2, <1>4 DEF ChunksOf
  <2>4. \A j \in 1..Len(list)+1 :
          list'[j].chunk = IF j <= Len(list) THEN list[j].chunk ELSE call[t].chunk
    BY <1>2, <2>1
  <2> QED
    BY <2>2, <2>3, <2>4
<1>6. Taken' = Taken
  <2>1. ret[t].pack = <<>>
    BY <1>1 DEF IInv, Callers, NoRet, Result
  <2>2. /\ ret' = [ret EXCEPT ![t] = [code |-> "OK", pack |-> <<>>, count |-> 0]]
        /\ ret \in [Threads -> [code : Codes, pack : Seq(Chunks), count : 0..MaxCount]]
    BY <1>1 DEF Return, Result, IInv, TypeOK
  <2> QED
    BY <2>1, <2>2 DEF Taken
<1>7. Fifo!Put(call[t].chunk)
  BY <1>3, <1>4, <1>5, <1>6 DEF Fifo!Put, Taken
<1> QED
  BY <1>2, <1>7 DEF Fifo!Next

LEMMA DetachRefines ==
  ASSUME IInv, NEW t \in Threads, NEW k \in Nat, NEW code \in Codes, code # "HEAD",
         NEW count, Detach(t, k, code, count)
  PROVE  Fifo!Next
<1> DEFINE n == IF k <= Len(list) THEN k ELSE Len(list)
           pack == SubSeq(ChunksOf(list), 1, n)
<1>1. /\ list \in Seq(Node) /\ Len(list) \in Nat /\ n \in 0..Len(list) /\ n \in Nat
      /\ TypeOK /\ NodesLinked
  BY DEF IInv, TypeOK
<1>2. /\ list' = Rest(n) /\ Return(t, Result(code, pack, count))
  BY DEF Detach
<1> HIDE DEF n
<1>3. Len(ChunksOf(list)) = Len(list) /\ ChunksOf(list) \in Seq(Chunks)
  <2>1. ASSUME NEW j \in 1..Len(list) PROVE list[j].chunk \in Chunks
    <3>1. list[j] \in Node
      BY <1>1
    <3> QED
      BY <3>1 DEF Node
  <2> QED
    BY <1>1, <2>1 DEF ChunksOf
<1>4. ChunksOf(list)' = SubSeq(ChunksOf(list), n + 1, Len(ChunksOf(list)))
  <2>1. /\ Len(list') = Len(list) - n
        /\ \A j \in 1..Len(list') : list'[j] = list[n + j]
    BY <1>1, <1>2, RestProperties
  <2>2. ChunksOf(list)' = [j \in 1..Len(list)-n |-> list[n + j].chunk]
    BY <2>1 DEF ChunksOf
  <2>3. SubSeq(ChunksOf(list), n + 1, Len(list))
          = [j \in 1..Len(list)-n |-> ChunksOf(list)[n + j]]
    BY <1>1, <1>3
  <2>4. \A j \in 1..Len(list)-n : ChunksOf(list)[n + j] = list[n + j].chunk
    BY <1>1 DEF ChunksOf
  <2> QED
    BY <1>3, <2>2, <2>3, <2>4
<1>5. Taken' = [Taken EXCEPT ![t] = pack]
  <2>1. /\ ret' = [ret EXCEPT ![t] = [code |-> code, pack |-> pack, count |-> count]]
        /\ ret \in [Threads -> [code : Codes, pack : Seq(Chunks), count : 0..MaxCount]]
    BY <1>2 DEF Return, Result, IInv, TypeOK
  <2> HIDE DEF pack
  <2> QED
    BY <2>1 DEF Taken
<1>6. PICK m \in 0..Len(list) : m = n
  BY <1>1
<1>7. Fifo!Take(t, m)
  BY <1>4, <1>5, <1>6 DEF Fifo!Take, Taken
<1>8. \E i \in 0..Len(ChunksOf(list)) : Fifo!Take(t, i)
  BY <1>3, <1>7
<1> QED
  BY <1>8 DEF Fifo!Next

LEMMA StepRefines ==
  ASSUME IInv, NEW t \in Threads, Step(t)
  PROVE  Fifo!Next \/ UNCHANGED Fifo!fifoVars
<1>1. CASE AddWait(t) \/ HeadWait(t) \/ PackWait(t) \/ PackBegin(t) \/ PackNext(t)
  <2>1. UNCHANGED <<list, ret>>
    BY <1>1 DEF AddWait, HeadWait, PackWait, Wait, PackBegin, PackNext
  <2> QED
    BY <2>1 DEF Fifo!fifoVars, ChunksOf
<1>2. CASE AddStopped(t) \/ PackStopped(t)
  <2>1. /\ call[t].op # "none" /\ UNCHANGED list
        /\ Return(t, Result(IF error THEN "ERROR" ELSE "EXIT", <<>>, 0))
    BY <1>2 DEF AddStopped, PackStopped, ReturnStopped, InSection
  <2>2. Result(IF error THEN "ERROR" ELSE "EXIT", <<>>, 0).pack = <<>>
    BY DEF Result
  <2> QED
    BY <2>1, <2>2, ReturnNothing
<1>3. CASE HeadReturn(t)
  <2> DEFINE r == Result("HEAD", IF list = <<>> THEN <<>> ELSE <<list[1].chunk>>, 0)
  <2>1. call[t].op # "none" /\ UNCHANGED list /\ Return(t, r)
    BY <1>3 DEF HeadReturn, InSection
  <2>2. r.code = "HEAD"
    BY DEF Result
  <2> HIDE DEF r
  <2> QED
    BY <2>1, <2>2, ReturnNothing
<1>4. CASE AddLink(t)
  BY <1>4, AddLinkRefines
<1>5. CASE PackShort(t) \/ PackStop(t) \/ PackFull(t)
  <2>1. walk.i \in Nat /\ {"OK", "NO_DECODERS"} \subseteq Codes
    BY DEF IInv, TypeOK, Codes
  <2>2. /\ walk.i + 1 \in Nat /\ walk.i + 2 \in Nat
        /\ (IF walk.i = 0 THEN 1 ELSE walk.i) \in Nat
    BY <2>1
  <2>3. CASE PackShort(t)
    BY <2>1, <2>2, <2>3, DetachRefines DEF PackShort
  <2>4. CASE PackStop(t)
    BY <2>1, <2>2, <2>4, DetachRefines DEF PackStop
  <2>5. CASE PackFull(t)
    BY <2>1, <2>2, <2>5, DetachRefines DEF PackFull
  <2> QED
    BY <1>5, <2>3, <2>4, <2>5
<1> QED
  BY <1>1, <1>2, <1>3, <1>4, <1>5 DEF Step, AddStep, HeadStep, PackStep

LEMMA NextRefines == IInv /\ [Next]_vars => [Fifo!Next]_(Fifo!fifoVars)
<1> SUFFICES ASSUME IInv, [Next]_vars
             PROVE  Fifo!Next \/ UNCHANGED Fifo!fifoVars
  OBVIOUS
<1>1. CASE UNCHANGED <<list, ret>>
  BY <1>1 DEF Fifo!fifoVars, ChunksOf
<1>2. CASE Client
  <2>1. PICK t \in Threads : \E c : Begin(t, c)
    BY <1>2 DEF Client, CallAdd, CallHead, CallPack, Threads
  <2> QED
    BY <2>1, BeginRefines
<1>3. CASE \E t \in Threads : Step(t)
  BY <1>3, StepRefines
<1>4. CASE Flush
  <2>1. list' = <<>> /\ ret' = ret
    BY <1>4 DEF Flush
  <2>2. ChunksOf(list)' = <<>>
    BY <2>1 DEF ChunksOf
  <2>3. Fifo!Clear
    BY <2>1, <2>2 DEF Fifo!Clear
  <2> QED
    BY <2>3 DEF Fifo!Next
<1> QED
  BY <1>1, <1>2, <1>3, <1>4 DEF Next, BufNext, DecodersChange, bufVars, vars, Control, Resume,
     SignalError, SpuriousWakeup

(* For any number of threads and any capacity, chunks leave the buffer in the *)
(* order they were added, none twice, and none is lost except by a flush.     *)
THEOREM BufferImplementsFifo == Spec => ImplementsFifo
<1>1. Init => Fifo!Init
  <2>1. ChunksOf(<<>>) = <<>>
    BY DEF ChunksOf
  <2> QED
    BY <2>1 DEF Init, InitBuf, Fifo!Init, NoRet, Result
<1>2. IInv /\ [Next]_vars => [Fifo!Next]_(Fifo!fifoVars)
  BY NextRefines
<1>3. Spec => []IInv
  BY BufferInvariant
<1> QED
  BY <1>1, <1>2, <1>3, PTL DEF Spec, ImplementsFifo, Fifo!Spec

-----------------------------------------------------------------------------
(* No wakeup is lost with one producer and one consumer at a time.          *)

\* At most one thread is in md_buf_add, and one in the functions that take.
OneOfEach ==
  /\ \A t, u \in Threads : call[t].op = "add" /\ call[u].op = "add" => t = u
  /\ \A t, u \in Threads :
       call[t].op \in {"head", "pack"} /\ call[u].op \in {"head", "pack"} => t = u

\* The sleepers' conditions exclude each other: at most one thread sleeps, so
\* that pthread_cond_signal on the shared condition reaches it.
LEMMA AtMostOneSleeper ==
  ASSUME OneOfEach, MaxCount <= MaxBufNum,
         IInv, NoLostWakeup, NEW t \in waiting, NEW u \in waiting
  PROVE  t = u
<1>1. /\ BufNum = Len(list) /\ Len(list) \in Nat /\ MaxBufNum \in Nat /\ MaxBufNum > 0
      /\ MaxCount \in Nat
  BY BufNumIsLength, MdBufAssumption DEF IInv, TypeOK
<1>2. ASSUME NEW v \in waiting
      PROVE  v \in Threads /\ call[v].op \in {"add", "head", "pack"} /\ call[v].count \in 0..MaxCount
  <2>1. v \in Threads
    BY <1>2 DEF IInv, TypeOK
  <2>2. call[v].op \in {"none", "add", "head", "pack"} /\ call[v].count \in 0..MaxCount
    BY <2>1 DEF IInv, TypeOK
  <2> QED
    BY <1>2, <2>1, <2>2 DEF IInv, SleepersCall
<1>3. ASSUME NEW v \in waiting, call[v].op = "add"
      PROVE  Len(list) >= MaxBufNum
  BY <1>1, <1>3 DEF NoLostWakeup, HasReason, AddCond
<1>4. ASSUME NEW v \in waiting, call[v].op \in {"head", "pack"}
      PROVE  Len(list) < MaxBufNum
  <2>1. CASE call[v].op = "head"
    <3>1. list = <<>>
      BY <2>1 DEF NoLostWakeup, HasReason
    <3> QED
      BY <1>1, <3>1
  <2>2. CASE call[v].op = "pack"
    <3>1. IF call[v].mode = "EXACT" THEN BufNum < call[v].count ELSE BufNum = 0
      BY <2>2 DEF NoLostWakeup, HasReason
    <3> QED
      BY <1>1, <1>2, <3>1
  <2> QED
    BY <1>4, <2>1, <2>2
<1>5. CASE call[t].op = "add"
  <2>1. call[u].op = "add"
    BY <1>1, <1>2, <1>3, <1>4, <1>5
  <2> QED
    BY <1>2, <1>5, <2>1 DEF OneOfEach
<1>6. CASE call[t].op \in {"head", "pack"}
  <2>1. call[u].op \in {"head", "pack"}
    BY <1>1, <1>2, <1>3, <1>4, <1>6
  <2> QED
    BY <1>2, <1>6, <2>1 DEF OneOfEach
<1> QED
  BY <1>2, <1>5, <1>6

LEMMA SignalReaches ==
  ASSUME \A t, u \in waiting : t = u, Signal
  PROVE  waiting' = {}
  BY DEF Signal

\* A reason to sleep depends on the list, the run flag and the call only.
LEMMA SameReason ==
  ASSUME NEW t, HasReason(t), UNCHANGED <<list, last, run>>, call'[t] = call[t]
  PROVE  HasReason(t)'
  BY DEF HasReason, AddCond, BufNum

LEMMA WaitReason ==
  ASSUME IInv, NoLostWakeup, NEW t \in Threads,
         AddWait(t) \/ HeadWait(t) \/ PackWait(t)
  PROVE  NoLostWakeup'
<1>1. /\ waiting' = waiting \cup {t} /\ UNCHANGED <<list, last, run, call>> /\ run
      /\ \/ call[t].op = "add" /\ AddCond
         \/ call[t].op = "head" /\ list = <<>>
         \/ call[t].op = "pack" /\ PackCond(call[t].count, call[t].mode)
  BY DEF AddWait, HeadWait, PackWait, Wait, InSection
<1>2. call[t].mode \in {"EXACT", "ANY"}
  BY DEF IInv, TypeOK, Modes
<1>3. HasReason(t)
  BY <1>1, <1>2 DEF HasReason, PackCond
<1>4. \A u \in waiting' : HasReason(u)
  BY <1>1, <1>3 DEF NoLostWakeup
<1>5. \A u \in waiting' : HasReason(u)'
  BY <1>1, <1>4, SameReason
<1> QED
  BY <1>5 DEF NoLostWakeup

LEMMA NoSleeperLost ==
  ASSUME OneOfEach, MaxCount <= MaxBufNum, IInv, NoLostWakeup, [Next]_vars
  PROVE  NoLostWakeup'
<1>1. ASSUME Signal PROVE NoLostWakeup'
  <2>1. \A t, u \in waiting : t = u
    BY AtMostOneSleeper
  <2> QED
    BY <1>1, <2>1, SignalReaches DEF NoLostWakeup
<1>2. ASSUME UNCHANGED <<list, last, run>>, waiting' \subseteq waiting,
             \A t \in waiting' : call'[t] = call[t]
      PROVE  NoLostWakeup'
  <2>1. \A t \in waiting' : HasReason(t)
    BY <1>2 DEF NoLostWakeup
  <2>2. \A t \in waiting' : HasReason(t)'
    BY <1>2, <2>1, SameReason
  <2> QED
    BY <2>2 DEF NoLostWakeup
<1>3. CASE UNCHANGED vars \/ DecodersChange
  BY <1>2, <1>3 DEF vars, DecodersChange, bufVars
<1>4. ASSUME NEW t \in Threads, NEW a, Begin(t, a)
      PROVE  NoLostWakeup'
  <2>1. t \notin waiting
    BY <1>4 DEF Begin, NoCall, Args, IInv, SleepersCall
  <2>2. /\ UNCHANGED <<list, last, run, waiting>>
        /\ call' = [call EXCEPT ![t] = a] /\ waiting \subseteq Threads
        /\ call \in [Threads -> [op : {"none", "add", "head", "pack"},
                                 chunk : Chunks \cup {NULL},
                                 count : 0..MaxCount, mode : Modes]]
    BY <1>4 DEF Begin, IInv, TypeOK
  <2>3. \A u \in waiting' : call'[u] = call[u]
    BY <2>1, <2>2
  <2> QED
    BY <1>2, <2>2, <2>3
<1>5. CASE Client
  <2>1. PICK t \in Threads : \E a : Begin(t, a)
    BY <1>5 DEF Client, CallAdd, CallHead, CallPack, Threads
  <2> QED
    BY <1>4, <2>1
<1>6. ASSUME NEW t \in Threads, Step(t)
      PROVE  NoLostWakeup'
  <2>1. CASE AddWait(t) \/ HeadWait(t) \/ PackWait(t)
    BY <2>1, WaitReason
  <2>2. CASE AddStopped(t) \/ PackStopped(t)
    <3>1. ~run /\ waiting' = waiting
      BY <2>2 DEF AddStopped, PackStopped, ReturnStopped
    <3>2. waiting = {}
      BY <3>1 DEF NoLostWakeup, HasReason
    <3> QED
      BY <3>1, <3>2 DEF NoLostWakeup
  <2>3. CASE AddLink(t)
    BY <1>1, <2>3 DEF AddLink
  <2>4. CASE HeadReturn(t)
    <3>1. /\ UNCHANGED <<list, last, run, waiting>> /\ t \notin waiting
          /\ call' = [call EXCEPT ![t] = NoCall] /\ waiting \subseteq Threads
          /\ call \in [Threads -> [op : {"none", "add", "head", "pack"},
                                   chunk : Chunks \cup {NULL},
                                   count : 0..MaxCount, mode : Modes]]
      BY <2>4 DEF HeadReturn, Return, InSection, IInv, TypeOK
    <3>2. \A u \in waiting' : call'[u] = call[u]
      BY <3>1
    <3> QED
      BY <1>2, <3>1, <3>2
  <2>5. CASE PackBegin(t) \/ PackNext(t)
    <3>1. UNCHANGED <<list, last, run, waiting, call>>
      BY <2>5 DEF PackBegin, PackNext
    <3> QED
      BY <1>2, <3>1
  <2>6. CASE PackShort(t) \/ PackStop(t) \/ PackFull(t)
    BY <1>1, <2>6 DEF PackShort, PackStop, PackFull, Detach
  <2> QED
    BY <1>6, <2>1, <2>2, <2>3, <2>4, <2>5, <2>6 DEF Step, AddStep, HeadStep, PackStep
<1>7. ASSUME NEW t \in Threads, SpuriousWakeup(t)
      PROVE  NoLostWakeup'
  <2>1. UNCHANGED <<list, last, run, call>> /\ waiting' \subseteq waiting
    BY <1>7 DEF SpuriousWakeup
  <2> QED
    BY <1>2, <2>1
<1>8. CASE Flush \/ SignalError
  BY <1>1, <1>8 DEF Flush, SignalError
<1>9. CASE Resume
  <2>1. run \/ waiting = {}
    BY DEF NoLostWakeup, HasReason
  <2>2. CASE run
    <3>1. UNCHANGED <<list, last, run, waiting, call>>
      BY <1>9, <2>2 DEF Resume, IInv, TypeOK
    <3> QED
      BY <1>2, <3>1
  <2>3. CASE waiting = {}
    BY <1>9, <2>3 DEF Resume, NoLostWakeup
  <2> QED
    BY <2>1, <2>2, <2>3
<1> QED
  BY <1>3, <1>5, <1>6, <1>7, <1>8, <1>9 DEF Next, BufNext, Control

(* With one decoder thread and the driver thread, and packs no larger than    *)
(* max_buf_num, no thread is left asleep whose condition has come true, for   *)
(* every capacity.                                                            *)
THEOREM WakeupNeverLost ==
  ASSUME NEW p, NEW c, Producers = {p}, Consumers = {c}, MaxCount <= MaxBufNum
  PROVE  Spec => []NoLostWakeup
<1>1. Init => NoLostWakeup
  BY DEF Init, InitBuf, NoLostWakeup
<1>2. IInv => OneOfEach
  BY MdBufAssumption DEF IInv, Callers, OneOfEach, Threads
<1>3. IInv /\ NoLostWakeup /\ [Next]_vars => NoLostWakeup'
  BY <1>2, NoSleeperLost
<1>4. Spec => []IInv
  BY BufferInvariant
<1> QED
  BY <1>1, <1>3, <1>4, PTL DEF Spec
=============================================================================
