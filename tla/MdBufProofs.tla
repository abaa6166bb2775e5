---------------------------- MODULE MdBufProofs -----------------------------
(***************************************************************************)
(* Proofs about the chunk buffer, for any number of producers, consumers,  *)
(* chunks and any capacity.  The run MCBuf checks the same formulas on two *)
(* producers and one consumer.                                             *)
(***************************************************************************)
EXTENDS MdBuf, SequenceTheorems, TLAPS

-----------------------------------------------------------------------------
(* What the helpers compute. *)

\* get_buf_num(), a difference of two orders, is the length of the list.
LEMMA BufNumIsLength ==
  ASSUME TypeOK, NodesLinked
  PROVE  BufNum = Len(list)
<1>1. CASE list = <<>>
  BY <1>1 DEF BufNum
<1>2. CASE list # <<>>
  <2>1. Len(list) \in Nat /\ Len(list) > 0
    BY <1>2 DEF TypeOK
  <2>2. last = list[Len(list)] /\ list[Len(list)].order = list[1].order + Len(list) - 1
    BY <1>2, <2>1 DEF NodesLinked
  <2>3. list[1] \in Node
    BY <2>1 DEF TypeOK
  <2>4. list[1].order \in Nat
    BY <2>3 DEF Node
  <2> QED
    BY <1>2, <2>1, <2>2, <2>4 DEF BufNum
<1> QED
  BY <1>1, <1>2

\* The list without its first n nodes is again a list of linked nodes.
LEMMA RestProperties ==
  ASSUME TypeOK, NodesLinked, NEW n \in 0..Len(list)
  PROVE  /\ Rest(n) \in Seq(Node)
         /\ Len(Rest(n)) = Len(list) - n
         /\ \A j \in 1..Len(Rest(n)) : Rest(n)[j] = list[n + j]
         /\ LastAfter(n) \in Node \cup {NULL}
<1>1. list \in Seq(Node) /\ Len(list) \in Nat /\ n \in Nat
  BY DEF TypeOK
<1>2. \A i \in n+1..Len(list) : list[i] \in Node
  BY <1>1
<1>3. /\ Rest(n) \in Seq(Node)
      /\ Len(Rest(n)) = Len(list) - n
      /\ \A j \in 1..Len(Rest(n)) : Rest(n)[j] = list[n + j]
  BY <1>1, <1>2 DEF Rest
<1> QED
  BY <1>3 DEF LastAfter, TypeOK

\* The first n chunks of the list.
LEMMA PackProperties ==
  ASSUME TypeOK, NEW n \in 0..Len(list)
  PROVE  /\ SubSeq(ChunksOf(list), 1, n) \in Seq(Chunks)
         /\ Len(SubSeq(ChunksOf(list), 1, n)) = n
         /\ \A j \in 1..n : SubSeq(ChunksOf(list), 1, n)[j] = list[j].chunk
<1>1. list \in Seq(Node) /\ Len(list) \in Nat /\ n \in Nat
  BY DEF TypeOK
<1>2. \A j \in 1..Len(list) : list[j].chunk \in Chunks
  <2> SUFFICES ASSUME NEW j \in 1..Len(list) PROVE list[j].chunk \in Chunks
    OBVIOUS
  <2>1. list[j] \in Node
    BY <1>1
  <2> QED
    BY <2>1 DEF Node
<1>3. /\ ChunksOf(list) \in Seq(Chunks)
      /\ Len(ChunksOf(list)) = Len(list)
      /\ \A j \in 1..Len(list) : ChunksOf(list)[j] = list[j].chunk
  BY <1>1, <1>2 DEF ChunksOf
<1> QED
  BY <1>1, <1>2, <1>3

LEMMA SignalShrinks == Signal => waiting' \subseteq waiting
  BY DEF Signal

\* What a call returns is well-typed.
LEMMA ResultType ==
  ASSUME NEW code \in Codes, NEW pack \in Seq(Chunks), NEW count \in 0..MaxCount
  PROVE  Result(code, pack, count) \in [code : Codes, pack : Seq(Chunks), count : 0..MaxCount]
  BY DEF Result

\* A finished call leaves the calls and the results well-typed.
LEMMA ReturnType ==
  ASSUME TypeOK, NEW t \in Threads,
         NEW r \in [code : Codes, pack : Seq(Chunks), count : 0..MaxCount],
         Return(t, r)
  PROVE  /\ call' \in [Threads -> [op : {"none", "add", "head", "pack"},
                                   chunk : Chunks \cup {NULL},
                                   count : 0..MaxCount, mode : Modes]]
         /\ ret' \in [Threads -> [code : Codes, pack : Seq(Chunks), count : 0..MaxCount]]
         /\ \A u \in Threads \ {t} : call'[u] = call[u] /\ ret'[u] = ret[u]
         /\ call'[t] = NoCall /\ ret'[t] = r
         /\ \A u \in Threads : call'[u].op = "add" => call'[u].chunk \in Chunks
<1>1. /\ NoCall \in [op : {"none", "add", "head", "pack"}, chunk : Chunks \cup {NULL},
                     count : 0..MaxCount, mode : Modes]
      /\ NoCall.op = "none"
  BY MdBufAssumption DEF NoCall, Args, Modes
<1> QED
  BY <1>1 DEF TypeOK, Return

LEMMA ReturnCallers ==
  ASSUME TypeOK, Callers, NEW t \in Threads,
         NEW r \in [code : Codes, pack : Seq(Chunks), count : 0..MaxCount],
         Return(t, r)
  PROVE  Callers'
<1>1. call'[t].op = "none"
  BY ReturnType DEF NoCall, Args
<1>2. \A u \in Threads \ {t} : call'[u] = call[u] /\ ret'[u] = ret[u]
  BY ReturnType
<1>3. NoRet' = NoRet
  BY DEF NoRet, Result
<1> SUFFICES ASSUME NEW u \in Threads
             PROVE  /\ call'[u].op = "add" => u \in Producers
                    /\ call'[u].op \in {"head", "pack"} => u \in Consumers
                    /\ call'[u].op # "none" => ret'[u] = NoRet
  BY <1>3 DEF Callers
<1> QED
  BY <1>1, <1>2 DEF Callers

LEMMA ReturnPackResult ==
  ASSUME TypeOK, PackResult, NEW t \in Threads,
         NEW r \in [code : Codes, pack : Seq(Chunks), count : 0..MaxCount],
         r.count <= Len(r.pack),
         r.code = "NO_DECODERS" => r.count > 0 /\ r.pack[r.count] \in DoneChunks,
         Return(t, r)
  PROVE  PackResult'
<1>1. ret'[t] = r /\ \A u \in Threads \ {t} : ret'[u] = ret[u]
  BY ReturnType
<1> SUFFICES ASSUME NEW u \in Threads
             PROVE  /\ ret'[u].count <= Len(ret'[u].pack)
                    /\ ret'[u].code = "NO_DECODERS" =>
                         ret'[u].count > 0 /\ ret'[u].pack[ret'[u].count] \in DoneChunks
  BY DEF PackResult
<1>2. CASE u = t
  BY <1>1, <1>2
<1>3. CASE u # t
  BY <1>1, <1>3 DEF PackResult
<1> QED
  BY <1>2, <1>3

-----------------------------------------------------------------------------
(* The inductive invariant, one lemma per action.                          *)

LEMMA BeginIInv ==
  ASSUME IInv, NEW t \in Threads,
         NEW c \in [op : {"add", "head", "pack"}, chunk : Chunks \cup {NULL},
                    count : 0..MaxCount, mode : Modes],
         c.op = "add" => c.chunk \in Chunks /\ t \in Producers,
         c.op \in {"head", "pack"} => t \in Consumers,
         Begin(t, c), UNCHANGED noMore
  PROVE  IInv'
<1>1. NoRet \in [code : Codes, pack : Seq(Chunks), count : 0..MaxCount]
  BY MdBufAssumption DEF NoRet, Result, Codes
<1>2. TypeOK'
  BY <1>1 DEF IInv, TypeOK, Begin
<1>3. NodesLinked' /\ Capacity'
  BY DEF IInv, NodesLinked, Capacity, Begin
<1>4. call[t].op = "none"
  BY DEF Begin, NoCall, Args
<1>5. WalkInside'
  BY <1>4 DEF IInv, TypeOK, WalkInside, Begin
<1>6. PackResult'
  BY DEF IInv, TypeOK, PackResult, Begin, NoRet, Result
<1>7. SleepersCall'
  BY <1>4 DEF IInv, TypeOK, SleepersCall, Begin
<1>8. Callers'
  BY DEF IInv, TypeOK, Callers, Begin
<1> QED
  BY <1>2, <1>3, <1>5, <1>6, <1>7, <1>8 DEF IInv

LEMMA WaitIInv ==
  ASSUME IInv, NEW t \in Threads, call[t].op # "none", walk.by = NULL,
         Wait(t), UNCHANGED noMore
  PROVE  IInv'
  BY DEF IInv, TypeOK, NodesLinked, Capacity, WalkInside, PackResult, Callers, SleepersCall, Wait

LEMMA ReturnStoppedIInv ==
  ASSUME IInv, NEW t \in Threads, walk.by = NULL, t \notin waiting,
         ReturnStopped(t), UNCHANGED noMore
  PROVE  IInv'
<1> DEFINE r == Result(IF error THEN "ERROR" ELSE "EXIT", <<>>, 0)
<1>0. r = [code |-> IF error THEN "ERROR" ELSE "EXIT", pack |-> <<>>, count |-> 0]
  BY DEF Result
<1>1. r \in [code : Codes, pack : Seq(Chunks), count : 0..MaxCount]
  <2>1. /\ <<>> \in Seq(Chunks)
        /\ 0 \in 0..MaxCount
        /\ (IF error THEN "ERROR" ELSE "EXIT") \in Codes
    BY MdBufAssumption DEF Codes
  <2> QED
    BY <2>1, ResultType
<1>2. /\ r.code # "NO_DECODERS"
      /\ r.count <= Len(r.pack)
  BY <1>0
<1>3. Return(t, r)
  BY DEF ReturnStopped
<1> HIDE DEF r
<1>3a. /\ \A u \in Threads \ {t} : call'[u] = call[u]
       /\ waiting' = waiting /\ waiting \subseteq Threads \ {t}
  BY <1>1, <1>3, ReturnType DEF IInv, TypeOK, ReturnStopped
<1>4. TypeOK'
  BY <1>1, <1>3, ReturnType DEF IInv, TypeOK, ReturnStopped
<1>5. NodesLinked' /\ Capacity' /\ WalkInside'
  BY DEF IInv, NodesLinked, Capacity, WalkInside, ReturnStopped
<1>6. PackResult'
  BY <1>1, <1>2, <1>3, ReturnType DEF IInv, PackResult
<1>7. SleepersCall'
  BY <1>3a DEF IInv, SleepersCall
<1>8. Callers'
  BY <1>1, <1>3, ReturnCallers DEF IInv
<1> QED
  BY <1>4, <1>5, <1>6, <1>7, <1>8 DEF IInv

\* The end of every walk: the nodes, the pack and the count agree.
LEMMA DetachIInv ==
  ASSUME IInv, NEW t \in Threads, walk.by = t,
         NEW k \in Nat, NEW code \in Codes, NEW count \in 0..MaxCount,
         count <= k, count <= Len(list),
         code = "NO_DECODERS" => count > 0 /\ list[count].chunk \in DoneChunks,
         Detach(t, k, code, count), UNCHANGED noMore
  PROVE  IInv'
<1> DEFINE n == IF k <= Len(list) THEN k ELSE Len(list)
           r == Result(code, SubSeq(ChunksOf(list), 1, n), count)
<1>0. TypeOK /\ NodesLinked /\ Capacity /\ Len(list) \in Nat /\ MaxBufNum \in Nat
  BY MdBufAssumption DEF IInv, TypeOK
<1>1. n \in 0..Len(list) /\ count <= n
  BY <1>0
<1>2. /\ list' = Rest(n) /\ last' = LastAfter(n) /\ Return(t, r)
      /\ walk' = NoWalk /\ Signal /\ UNCHANGED <<run, error>>
  BY DEF Detach
<1>2a. LastAfter(n) = IF n = Len(list) THEN NULL ELSE last
  BY DEF LastAfter
<1> HIDE DEF n
<1>3. /\ r.pack \in Seq(Chunks) /\ Len(r.pack) = n
      /\ \A j \in 1..n : r.pack[j] = list[j].chunk
  BY <1>0, <1>1, PackProperties DEF Result
<1>4. /\ r \in [code : Codes, pack : Seq(Chunks), count : 0..MaxCount]
      /\ r.count = count /\ r.code = code
  BY <1>3 DEF Result
<1> HIDE DEF r
<1>5. waiting' \subseteq waiting
  BY <1>2, SignalShrinks
<1>6. /\ list' \in Seq(Node)
      /\ Len(list') = Len(list) - n
      /\ \A j \in 1..Len(list') : list'[j] = list[n + j]
      /\ last' \in Node \cup {NULL}
  BY <1>0, <1>1, <1>2, RestProperties
<1>7. TypeOK'
  BY <1>2, <1>4, <1>5, <1>6, ReturnType, MdBufAssumption DEF IInv, TypeOK, NoWalk
<1>8. NodesLinked'
  <2>1. CASE n = Len(list)
    <3>1. list' = <<>> /\ last' = NULL
      BY <1>2, <1>2a, <1>6, <1>0, <2>1
    <3> QED
      BY <3>1 DEF NodesLinked
  <2>2. CASE n # Len(list)
    <3>a. n \in Nat /\ n < Len(list)
      BY <1>0, <1>1, <2>2
    <3>0. n \in Nat /\ Len(list) > n /\ Len(list') \in Nat /\ Len(list') > 0
      BY <1>0, <1>6, <3>a
    <3>1. Len(list') \in Nat /\ Len(list') > 0 /\ list' # <<>> /\ list # <<>> /\ n \in Nat
      BY <1>0, <1>6, <3>0
    <3>2. last' = last /\ last = list[Len(list)] /\ last # NULL
      BY <1>0, <1>2, <1>2a, <2>2, <3>1 DEF NodesLinked
    <3>3. list'[Len(list')] = list[Len(list)]
      BY <1>0, <1>6, <3>1
    <3>4. \A j \in 1..Len(list') : list'[j].order = list'[1].order + j - 1
      <4> SUFFICES ASSUME NEW j \in 1..Len(list')
                   PROVE  list'[j].order = list'[1].order + j - 1
        OBVIOUS
      <4>1. /\ 1 \in 1..Len(list') /\ n + 1 \in 1..Len(list) /\ n + j \in 1..Len(list)
            /\ 1 \in 1..Len(list)
        BY <1>0, <1>1, <1>6, <3>1
      <4>2. list[1] \in Node
        BY <1>0, <4>1 DEF TypeOK
      <4>3. list[1].order \in Nat
        BY <4>2 DEF Node
      <4>4. /\ list[n + j].order = list[1].order + (n + j) - 1
            /\ list[n + 1].order = list[1].order + (n + 1) - 1
        BY <1>0, <3>1, <4>1 DEF NodesLinked
      <4>5. list'[j] = list[n + j] /\ list'[1] = list[n + 1]
        BY <1>6, <4>1
      <4>6. j \in Int /\ n \in Int
        BY <3>1
      <4>7. list'[j].order = list[1].order + (n + j) - 1
        BY <4>4, <4>5
      <4>8. list'[1].order = list[1].order + (n + 1) - 1
        BY <4>4, <4>5
      <4> QED
        BY <4>3, <4>6, <4>7, <4>8
    <3> QED
      BY <3>1, <3>2, <3>3, <3>4 DEF NodesLinked
  <2> QED
    BY <2>1, <2>2
<1>9. Capacity'
  BY <1>0, <1>1, <1>6 DEF Capacity
<1>10. WalkInside'
  BY <1>2 DEF WalkInside, NoWalk
<1>11. PackResult'
  <2>1. r.count <= Len(r.pack)
    BY <1>1, <1>3, <1>4
  <2>2. r.code = "NO_DECODERS" => r.count > 0 /\ r.pack[r.count] \in DoneChunks
    BY <1>1, <1>3, <1>4
  <2> QED
    BY <1>0, <1>2, <1>4, <2>1, <2>2, ReturnPackResult DEF IInv
<1>12. SleepersCall'
  <2>1. t \notin waiting
    BY MdBufAssumption DEF IInv, WalkInside, TypeOK
  <2> QED
    BY <1>0, <1>2, <1>4, <1>5, <2>1, ReturnType DEF IInv, TypeOK, SleepersCall
<1>13. Callers'
  BY <1>0, <1>2, <1>4, ReturnCallers DEF IInv
<1> QED
  BY <1>7, <1>8, <1>9, <1>10, <1>11, <1>12, <1>13 DEF IInv

LEMMA AddLinkIInv ==
  ASSUME IInv, NEW t \in Threads, AddLink(t), UNCHANGED noMore
  PROVE  IInv'
<1> DEFINE node == [chunk |-> call[t].chunk,
                    order |-> IF list = <<>> THEN 0 ELSE last.order + 1]
           r == Result("OK", <<>>, 0)
<1>0. /\ TypeOK /\ NodesLinked /\ Capacity /\ Len(list) \in Nat /\ MaxBufNum \in Nat
      /\ list \in Seq(Node) /\ call[t].chunk \in Chunks
  BY MdBufAssumption DEF IInv, TypeOK, AddLink, InSection
<1>1. /\ list' = Append(list, node) /\ last' = node /\ Return(t, r)
      /\ walk' = walk /\ walk.by = NULL /\ t \notin waiting /\ Signal
      /\ UNCHANGED <<run, error>> /\ ~AddCond
  BY DEF AddLink, InSection
<1>2. list # <<>> => /\ last = list[Len(list)] /\ list[1] \in Node /\ last \in Node
                     /\ last.order = list[1].order + Len(list) - 1
                     /\ last.order \in Nat
  <2>1. CASE list # <<>>
    <3>1. 1 \in 1..Len(list) /\ Len(list) \in 1..Len(list)
      BY <1>0, <2>1
    <3>2. list[1] \in Node /\ list[Len(list)] \in Node
      BY <1>0, <3>1
    <3>3. list[Len(list)].order \in Nat
      BY <3>2 DEF Node
    <3> QED
      BY <1>0, <2>1, <3>1, <3>2, <3>3 DEF NodesLinked
  <2> QED
    BY <2>1
<1>3. /\ node \in Node /\ node # NULL
      /\ node.order = IF list = <<>> THEN 0 ELSE last.order + 1
  BY <1>0, <1>2, MdBufAssumption DEF Node
<1>4. r = [code |-> "OK", pack |-> <<>>, count |-> 0]
  BY DEF Result
<1>5. r \in [code : Codes, pack : Seq(Chunks), count : 0..MaxCount]
  <2>1. "OK" \in Codes /\ <<>> \in Seq(Chunks) /\ 0 \in 0..MaxCount
    BY MdBufAssumption DEF Codes
  <2> QED
    BY <2>1, ResultType
<1> HIDE DEF node, r
<1>6. /\ list' \in Seq(Node) /\ Len(list') = Len(list) + 1 /\ list' # <<>>
      /\ \A j \in 1..Len(list) : list'[j] = list[j]
      /\ list'[Len(list) + 1] = node
  BY <1>0, <1>1, <1>3
<1>7. waiting' \subseteq waiting
  BY <1>1, SignalShrinks
<1>8. /\ \A u \in Threads \ {t} : call'[u] = call[u] /\ ret'[u] = ret[u]
      /\ ret'[t] = r /\ waiting \subseteq Threads \ {t}
  BY <1>0, <1>1, <1>5, ReturnType DEF TypeOK
<1>9. TypeOK'
  BY <1>0, <1>1, <1>3, <1>5, <1>6, <1>7, ReturnType DEF IInv, TypeOK
<1>10. NodesLinked'
  <2>1. last' = list'[Len(list')] /\ last' # NULL
    BY <1>0, <1>1, <1>3, <1>6
  <2>2. ASSUME NEW j \in 1..Len(list')
        PROVE  list'[j].order = list'[1].order + j - 1
    <3>1. CASE list = <<>>
      BY <1>0, <1>3, <1>6, <3>1
    <3>2. CASE list # <<>> /\ j <= Len(list)
      <4>1. j \in 1..Len(list) /\ 1 \in 1..Len(list)
        BY <1>0, <1>6, <3>2
      <4> QED
        BY <1>0, <1>6, <3>2, <4>1 DEF NodesLinked
    <3>3. CASE list # <<>> /\ j > Len(list)
      <4>1. j = Len(list) + 1 /\ 1 \in 1..Len(list)
        BY <1>0, <1>6, <3>3
      <4>2. list'[1] = list[1] /\ list'[j] = node /\ list[1].order \in Nat
        BY <1>2, <1>6, <3>3, <4>1 DEF Node
      <4>3. node.order = list[1].order + Len(list)
        <5>1. node.order = last.order + 1 /\ last.order = list[1].order + Len(list) - 1
          BY <1>2, <1>3, <3>3
        <5> QED
          BY <1>0, <4>2, <5>1
      <4>4. list'[j].order = list[1].order + Len(list) /\ list'[1].order = list[1].order
        BY <4>2, <4>3
      <4> QED
        BY <1>0, <4>1, <4>2, <4>4
    <3> QED
      BY <1>0, <1>6, <3>1, <3>2, <3>3
  <2> QED
    BY <1>6, <2>1, <2>2 DEF NodesLinked
<1>11. Capacity'
  <2>1. Len(list) < MaxBufNum
    BY <1>0, <1>1, BufNumIsLength DEF AddCond
  <2> QED
    BY <1>0, <1>6, <2>1 DEF Capacity
<1>12. WalkInside' /\ SleepersCall'
  BY <1>1, <1>7, <1>8 DEF IInv, WalkInside, SleepersCall
<1>13. PackResult'
  BY <1>4, <1>8 DEF IInv, PackResult
<1>14. Callers'
  BY <1>0, <1>1, <1>5, ReturnCallers DEF IInv
<1> QED
  BY <1>9, <1>10, <1>11, <1>12, <1>13, <1>14 DEF IInv

LEMMA HeadReturnIInv ==
  ASSUME IInv, NEW t \in Threads, HeadReturn(t), UNCHANGED noMore
  PROVE  IInv'
<1> DEFINE p == IF list = <<>> THEN <<>> ELSE <<list[1].chunk>>
           r == Result("HEAD", p, 0)
<1>1. p \in Seq(Chunks) /\ Len(p) \in Nat
  <2>1. CASE list # <<>>
    <3>1. list[1] \in Node
      BY <2>1 DEF IInv, TypeOK
    <3> QED
      BY <2>1, <3>1 DEF Node
  <2> QED
    BY <2>1
<1> HIDE DEF p
<1>2. r = [code |-> "HEAD", pack |-> p, count |-> 0]
  BY DEF Result
<1>3. r \in [code : Codes, pack : Seq(Chunks), count : 0..MaxCount]
  <2>1. "HEAD" \in Codes /\ 0 \in 0..MaxCount
    BY MdBufAssumption DEF Codes
  <2> QED
    BY <1>1, <1>2, <2>1
<1>4. /\ Return(t, r) /\ walk.by = NULL /\ t \notin waiting
      /\ UNCHANGED <<list, last, run, error, waiting, walk>>
  BY DEF HeadReturn, InSection, p
<1> HIDE DEF r
<1>5. /\ \A u \in Threads \ {t} : call'[u] = call[u] /\ ret'[u] = ret[u]
      /\ ret'[t] = r /\ waiting \subseteq Threads \ {t}
  BY <1>3, <1>4, ReturnType DEF IInv, TypeOK
<1>6. TypeOK'
  BY <1>3, <1>4, ReturnType DEF IInv, TypeOK
<1>7. NodesLinked' /\ Capacity' /\ WalkInside' /\ SleepersCall'
  BY <1>4, <1>5 DEF IInv, NodesLinked, Capacity, WalkInside, SleepersCall
<1>8. PackResult'
  BY <1>1, <1>2, <1>5 DEF IInv, PackResult
<1>9. Callers'
  BY <1>3, <1>4, ReturnCallers DEF IInv
<1> QED
  BY <1>6, <1>7, <1>8, <1>9 DEF IInv

LEMMA WalkIInv ==
  ASSUME IInv, NEW t \in Threads, PackBegin(t) \/ PackNext(t), UNCHANGED noMore
  PROVE  IInv'
<1>1. UNCHANGED <<list, last, run, error, waiting, call, ret>>
  BY DEF PackBegin, PackNext
<1>2. call[t].count \in 0..MaxCount /\ walk.i \in 0..MaxCount
      /\ Len(list) \in Nat /\ MaxCount \in Nat
  BY MdBufAssumption DEF IInv, TypeOK
<1>3. CASE PackBegin(t)
  <2>1. /\ walk' = [by |-> t, i |-> 0]
        /\ call[t].op = "pack" /\ t \notin waiting
    BY <1>3 DEF PackBegin, InSection
  <2>2. TypeOK'
    BY <1>1, <1>2, <2>1 DEF IInv, TypeOK
  <2>3. WalkInside'
    BY <1>1, <1>2, <2>1 DEF IInv, TypeOK, WalkInside, PackBegin
  <2> QED
    BY <1>1, <1>3, <2>2, <2>3 DEF IInv, NodesLinked, Capacity, PackResult, Callers, SleepersCall
<1>4. CASE PackNext(t)
  <2>1. walk' = [by |-> t, i |-> walk.i + 1] /\ walk.by = t
        /\ walk.i < call[t].count /\ walk.i < Len(list)
    BY <1>4 DEF PackNext, IInv, TypeOK
  <2>2. walk.by # NULL
    BY <2>1, MdBufAssumption
  <2> QED
    BY <1>1, <1>2, <2>1, <2>2 DEF IInv, TypeOK, NodesLinked, Capacity, WalkInside, PackResult, Callers, SleepersCall
<1> QED
  BY <1>3, <1>4

LEMMA WalkEndIInv ==
  ASSUME IInv, NEW t \in Threads,
         PackShort(t) \/ PackStop(t) \/ PackFull(t), UNCHANGED noMore
  PROVE  IInv'
<1>1. walk.by = t /\ walk.by # NULL
  BY MdBufAssumption DEF PackShort, PackStop, PackFull
<1>2. /\ walk.i \in Nat /\ walk.i \in 0..MaxCount /\ call[t].count \in 0..MaxCount
      /\ Len(list) \in Nat /\ MaxCount \in Nat
      /\ walk.i <= Len(list)
  BY <1>1, MdBufAssumption DEF IInv, TypeOK, WalkInside
<1>3. CASE PackShort(t)
  <2>1. Detach(t, walk.i + 1, "OK", walk.i)
    BY <1>3 DEF PackShort
  <2>2. "OK" \in Codes /\ walk.i + 1 \in Nat
    BY <1>2 DEF Codes
  <2> QED
    BY <1>1, <1>2, <2>1, <2>2, DetachIInv
<1>4. CASE PackStop(t)
  <2>1. /\ Detach(t, walk.i + 2, "NO_DECODERS", walk.i + 1)
        /\ walk.i < call[t].count /\ walk.i < Len(list)
        /\ list[walk.i + 1].chunk \in DoneChunks
    BY <1>4 DEF PackStop, WillStop
  <2>2. /\ "NO_DECODERS" \in Codes /\ walk.i + 2 \in Nat
        /\ walk.i + 1 \in 0..MaxCount /\ walk.i + 1 <= Len(list) /\ walk.i + 1 > 0
        /\ walk.i + 1 <= walk.i + 2
    BY <1>2, <2>1 DEF Codes
  <2> QED
    BY <1>1, <1>2, <2>1, <2>2, DetachIInv
<1>5. CASE PackFull(t)
  <2>1. Detach(t, IF walk.i = 0 THEN 1 ELSE walk.i, "OK", walk.i)
    BY <1>5 DEF PackFull
  <2>2. /\ "OK" \in Codes /\ (IF walk.i = 0 THEN 1 ELSE walk.i) \in Nat
        /\ walk.i <= IF walk.i = 0 THEN 1 ELSE walk.i
    BY <1>2 DEF Codes
  <2> QED
    BY <1>1, <1>2, <2>1, <2>2, DetachIInv
<1> QED
  BY <1>3, <1>4, <1>5

\* Flush, resume and error change no call.
LEMMA ControlIInv ==
  ASSUME IInv, Control, UNCHANGED noMore
  PROVE  IInv'
<1>1. CASE Flush
  <2>1. waiting' \subseteq waiting
    BY <1>1, SignalShrinks DEF Flush
  <2>2. /\ list' = <<>> /\ last' = NULL /\ run' = FALSE /\ walk.by = NULL
        /\ UNCHANGED <<error, call, walk, ret>>
    BY <1>1 DEF Flush
  <2>3. list' \in Seq(Node) /\ Len(list') = 0 /\ MaxBufNum \in Nat
    BY <2>2, MdBufAssumption
  <2>4. NodesLinked' /\ Capacity'
    BY <2>2, <2>3 DEF NodesLinked, Capacity
  <2>5. WalkInside'
    BY <2>2 DEF WalkInside
  <2>6. TypeOK' /\ PackResult' /\ SleepersCall'
    BY <2>1, <2>2, <2>3 DEF IInv, TypeOK, PackResult, SleepersCall
  <2>7. Callers'
    BY <2>2 DEF IInv, Callers
  <2> QED
    BY <2>4, <2>5, <2>6, <2>7 DEF IInv
<1>2. CASE Resume
  BY <1>2 DEF Resume, IInv, TypeOK, NodesLinked, Capacity, WalkInside, PackResult, Callers, SleepersCall
<1>3. CASE SignalError
  <2>1. waiting' \subseteq waiting
    BY <1>3, SignalShrinks DEF SignalError
  <2>2. /\ run' = FALSE /\ error' = TRUE /\ walk.by = NULL
        /\ UNCHANGED <<list, last, call, walk, ret>>
    BY <1>3 DEF SignalError
  <2> QED
    BY <2>1, <2>2 DEF IInv, TypeOK, NodesLinked, Capacity, WalkInside, PackResult, Callers, SleepersCall
<1> QED
  BY <1>1, <1>2, <1>3 DEF Control

LEMMA WakeupIInv ==
  ASSUME IInv, NEW t \in Threads, SpuriousWakeup(t), UNCHANGED noMore
  PROVE  IInv'
  BY DEF IInv, TypeOK, NodesLinked, Capacity, WalkInside, PackResult, Callers, SleepersCall, SpuriousWakeup

-----------------------------------------------------------------------------
LEMMA InitIInv == Init => IInv
<1> SUFFICES ASSUME Init PROVE IInv
  OBVIOUS
<1>1. /\ list = <<>> /\ last = NULL /\ run = TRUE /\ error = FALSE /\ waiting = {}
      /\ call = [t \in Threads |-> NoCall] /\ walk = NoWalk
      /\ ret = [t \in Threads |-> NoRet] /\ noMore = TRUE
  BY DEF Init, InitBuf
<1>2. /\ NoCall \in [op : {"none", "add", "head", "pack"}, chunk : Chunks \cup {NULL},
                     count : 0..MaxCount, mode : Modes]
      /\ NoCall.op = "none"
  BY MdBufAssumption DEF Args, NoCall, Modes
<1>3. /\ NoRet \in [code : Codes, pack : Seq(Chunks), count : 0..MaxCount]
      /\ NoRet.count <= Len(NoRet.pack) /\ NoRet.code # "NO_DECODERS"
  BY MdBufAssumption DEF NoRet, Result, Codes
<1>4. NoWalk \in [by : Threads \cup {NULL}, i : 0..MaxCount] /\ NoWalk.by = NULL
  BY MdBufAssumption DEF NoWalk
<1>5. list \in Seq(Node) /\ Len(list) = 0
  BY <1>1
<1>6. TypeOK
  BY <1>1, <1>2, <1>3, <1>4, <1>5 DEF TypeOK
<1>7. NodesLinked
  BY <1>1, <1>5 DEF NodesLinked
<1>8. Capacity
  BY <1>5, MdBufAssumption DEF Capacity
<1>9. WalkInside /\ PackResult /\ Callers /\ SleepersCall
  BY <1>1, <1>2, <1>3, <1>4 DEF WalkInside, PackResult, Callers, SleepersCall
<1> QED
  BY <1>6, <1>7, <1>8, <1>9 DEF IInv

LEMMA NextIInv == IInv /\ [Next]_vars => IInv'
<1> SUFFICES ASSUME IInv, [Next]_vars PROVE IInv'
  OBVIOUS
<1>1. CASE UNCHANGED vars
  BY <1>1 DEF vars, IInv, TypeOK, NodesLinked, Capacity, WalkInside, PackResult, Callers, SleepersCall
<1>2. CASE DecodersChange
  BY <1>2 DEF DecodersChange, bufVars, IInv, TypeOK, NodesLinked, Capacity, WalkInside,
              PackResult, Callers, SleepersCall
<1>3. CASE Client /\ UNCHANGED noMore
  <2> DEFINE Calls == [op : {"add", "head", "pack"}, chunk : Chunks \cup {NULL},
                       count : 0..MaxCount, mode : Modes]
  <2>1. ASSUME NEW t \in Producers, NEW c \in Chunks, CallAdd(t, c)
        PROVE  IInv'
    <3> DEFINE a == Args("add", c, 0, "EXACT")
    <3>1. a \in Calls /\ a.op = "add" /\ a.chunk = c
      BY MdBufAssumption DEF Args, NoCall, Modes
    <3>2. Begin(t, a) /\ t \in Threads
      BY <2>1 DEF CallAdd, Threads
    <3> HIDE DEF a
    <3> QED
      BY <1>3, <3>1, <3>2, BeginIInv
  <2>2. ASSUME NEW t \in Consumers, CallHead(t)
        PROVE  IInv'
    <3> DEFINE a == Args("head", NULL, 0, "EXACT")
    <3>1. a \in Calls /\ a.op = "head"
      BY MdBufAssumption DEF Args, NoCall, Modes
    <3>2. Begin(t, a) /\ t \in Threads
      BY <2>2 DEF CallHead, Threads
    <3> HIDE DEF a
    <3> QED
      BY <1>3, <3>1, <3>2, BeginIInv
  <2>3. ASSUME NEW t \in Consumers, NEW n \in 0..MaxCount, NEW m \in Modes, CallPack(t, n, m)
        PROVE  IInv'
    <3> DEFINE a == Args("pack", NULL, n, m)
    <3>1. a \in Calls /\ a.op = "pack"
      BY MdBufAssumption DEF Args
    <3>2. Begin(t, a) /\ t \in Threads
      BY <2>3 DEF CallPack, Threads
    <3> HIDE DEF a
    <3> QED
      BY <1>3, <3>1, <3>2, BeginIInv
  <2> QED
    BY <1>3, <2>1, <2>2, <2>3 DEF Client
<1>4. ASSUME NEW t \in Threads, Step(t), UNCHANGED noMore
      PROVE  IInv'
  <2>1. ASSUME AddWait(t) \/ HeadWait(t) \/ PackWait(t)
        PROVE  IInv'
    <3>1. call[t].op # "none" /\ walk.by = NULL /\ Wait(t)
      BY <2>1 DEF AddWait, HeadWait, PackWait, InSection
    <3> QED
      BY <1>4, <3>1, WaitIInv
  <2>2. ASSUME AddStopped(t) \/ PackStopped(t)
        PROVE  IInv'
    <3>1. walk.by = NULL /\ t \notin waiting /\ ReturnStopped(t)
      BY <2>2 DEF AddStopped, PackStopped, InSection
    <3> QED
      BY <1>4, <3>1, ReturnStoppedIInv
  <2>3. ASSUME AddLink(t)
        PROVE  IInv'
    BY <1>4, <2>3, AddLinkIInv
  <2>4. ASSUME HeadReturn(t)
        PROVE  IInv'
    BY <1>4, <2>4, HeadReturnIInv
  <2>5. ASSUME PackBegin(t) \/ PackNext(t)
        PROVE  IInv'
    BY <1>4, <2>5, WalkIInv
  <2>6. ASSUME PackShort(t) \/ PackStop(t) \/ PackFull(t)
        PROVE  IInv'
    BY <1>4, <2>6, WalkEndIInv
  <2> QED
    BY <1>4, <2>1, <2>2, <2>3, <2>4, <2>5, <2>6 DEF Step, AddStep, HeadStep, PackStep
<1>5. ASSUME NEW t \in Threads, SpuriousWakeup(t), UNCHANGED noMore
      PROVE  IInv'
  BY <1>5, WakeupIInv
<1>6. CASE Control /\ UNCHANGED noMore
  BY <1>6, ControlIInv
<1> QED
  BY <1>1, <1>2, <1>3, <1>4, <1>5, <1>6 DEF Next, BufNext

(* For any number of producers and consumers and any capacity: the list and   *)
(* md_buf_last agree, the orders count the nodes, max_buf_num is never        *)
(* passed, md_buf_get_pack never runs past the list, and what it returns is   *)
(* consistent with its return code.                                           *)
THEOREM BufferInvariant == Spec => []IInv
<1>1. Init => IInv
  BY InitIInv
<1>2. IInv /\ [Next]_vars => IInv'
  BY NextIInv
<1> QED
  BY <1>1, <1>2, PTL DEF Spec

(* The parts of it that a caller of the buffer relies on: md_buf_add never    *)
(* lets the list grow past max_buf_num, whichever producers were asleep and   *)
(* whoever was woken first.                                                   *)
THEOREM CapacityKept == Spec => []Capacity
<1>1. IInv => Capacity
  BY DEF IInv
<1> QED
  BY <1>1, BufferInvariant, PTL

(* And the pack, the count and the code that md_buf_get_pack returns agree:   *)
(* MD_BUF_NO_DECODERS comes with a pack whose *count-th chunk is a last one.  *)
THEOREM PackMatchesCount == Spec => []PackResult
<1>1. IInv => PackResult
  BY DEF IInv
<1> QED
  BY <1>1, BufferInvariant, PTL
=============================================================================
