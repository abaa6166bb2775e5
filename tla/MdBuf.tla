------------------------------- MODULE MdBuf --------------------------------
(***************************************************************************)
(* The chunk buffer of core/buffer/mdbufll.c: a linked list of decoded     *)
(* chunks, one mutex, and one condition variable shared by the decoder     *)
(* threads (md_buf_add) and the driver thread (md_buf_get_head,            *)
(* md_buf_get_pack).                                                       *)
(*                                                                         *)
(* A call is opened by CallAdd, CallHead or CallPack; the steps after it   *)
(* are the critical sections of the C function.  One section is one        *)
(* action, with one exception: md_buf_get_pack asks md_no_more_decoders(), *)
(* which takes the decoder mutex, again for every chunk it walks over, so  *)
(* that walk is one action per loop iteration, made while `walk.by' holds  *)
(* the buffer mutex.                                                       *)
(***************************************************************************)
EXTENDS Integers, Sequences, FiniteSets

CONSTANTS
  Producers,    \* threads that call md_buf_add
  Consumers,    \* threads that call md_buf_get_head and md_buf_get_pack
  Chunks,       \* the chunks a decoder may hand over
  DoneChunks,   \* those that carry MD_DECODER_DONE_BIT
  MaxBufNum,    \* get_settings()->max_buf_num
  MaxCount,     \* bound: the largest pack a consumer asks for
  MaxOrder,     \* bound: no call of md_buf_add begins past this node order
  NULL

Threads == Producers \cup Consumers

\* struct md_buf_ll; the link to the next node is the place in the list.
Node == [chunk : Chunks, order : Nat]

ASSUME MdBufAssumption ==
  /\ MaxBufNum \in Nat \ {0}
  /\ MaxCount \in Nat
  /\ MaxOrder \in Nat
  /\ DoneChunks \subseteq Chunks
  /\ NULL \notin Threads
  /\ NULL \notin Chunks
  /\ NULL \notin Node
  /\ Producers \cap Consumers = {}

VARIABLES
  list,       \* the nodes from md_buf_head on: [chunk, order]
  last,       \* md_buf_last
  run,        \* md_bufll.run
  error,      \* md_bufll.error
  waiting,    \* the threads asleep in pthread_cond_wait(&md_bufll.cond)
  call,       \* call[t]: the buffer function t is in, and its arguments
  walk,       \* the thread that walks the list in md_buf_get_pack, and its i
  ret,        \* ret[t]: what the last finished call of t returned
  noMore      \* what md_no_more_decoders() answers; the decoder engine's

bufVars == <<list, last, run, error, waiting, call, walk, ret>>
vars == <<list, last, run, error, waiting, call, walk, ret, noMore>>

Modes == {"EXACT", "ANY"}
Codes == {"NONE", "OK", "HEAD", "EXIT", "ERROR", "NO_DECODERS"}

Args(op, chunk, count, mode) == [op |-> op, chunk |-> chunk, count |-> count, mode |-> mode]
NoCall == Args("none", NULL, 0, "EXACT")
Result(code, pack, count) == [code |-> code, pack |-> pack, count |-> count]
NoRet == Result("NONE", <<>>, 0)
NoWalk == [by |-> NULL, i |-> 0]

ChunksOf(nodes) == [j \in 1..Len(nodes) |-> nodes[j].chunk]

-----------------------------------------------------------------------------
(* Helpers of the C functions. *)

\* get_buf_num()
BufNum == IF list = <<>> THEN 0 ELSE last.order - list[1].order + 1

\* md_buf_add_cond()
AddCond == BufNum >= MaxBufNum

\* md_buf_get_pack_cond(count, mode): must the consumer wait?
PackCond(count, mode) ==
  \/ /\ mode = "EXACT"
     /\ BufNum < count
     /\ ~(last # NULL /\ last.chunk \in DoneChunks /\ noMore)
  \/ /\ mode = "ANY"
     /\ BufNum = 0

SignalLost == UNCHANGED waiting     \* mutant: wakes nobody

\* pthread_cond_signal: wakes one sleeper, if there is one.
Signal ==
  \/ waiting = {} /\ UNCHANGED waiting
  \/ \E t \in waiting : waiting' = waiting \ {t}

\* The thread runs in function op and can take the mutex.
InSection(t, op) ==
  /\ call[t].op = op
  /\ t \notin waiting
  /\ walk.by = NULL

Begin(t, c) ==
  /\ call[t] = NoCall
  /\ call' = [call EXCEPT ![t] = c]
  /\ ret' = [ret EXCEPT ![t] = NoRet]
  /\ UNCHANGED <<list, last, run, error, waiting, walk>>

Wait(t) ==
  /\ waiting' = waiting \cup {t}
  /\ UNCHANGED <<list, last, run, error, call, walk, ret>>

Return(t, r) ==
  /\ call' = [call EXCEPT ![t] = NoCall]
  /\ ret' = [ret EXCEPT ![t] = r]

\* `!md_bufll.run': the call fails, and takes the error flag with it.
ReturnStopped(t) ==
  /\ ~run
  /\ Return(t, Result(IF error THEN "ERROR" ELSE "EXIT", <<>>, 0))
  /\ error' = FALSE
  /\ UNCHANGED <<list, last, run, waiting, walk>>

-----------------------------------------------------------------------------
(* md_buf_add *)

CallAdd(t, c) ==
  /\ last # NULL => last.order < MaxOrder
  /\ Begin(t, Args("add", c, 0, "EXACT"))

AddWait(t) == InSection(t, "add") /\ run /\ AddCond /\ Wait(t)

AddStopped(t) == InSection(t, "add") /\ ReturnStopped(t)

\* mutant: `if' for `while', a producer that was woken does not look again
AddLinkUnchecked(t) ==
  LET node == [chunk |-> call[t].chunk,
               order |-> IF list = <<>> THEN 0 ELSE last.order + 1]
  IN /\ InSection(t, "add")
     /\ run
     /\ list' = Append(list, node)
     /\ last' = node
     /\ Signal
     /\ Return(t, Result("OK", <<>>, 0))
     /\ UNCHANGED <<error, run, walk>>

AddLink(t) ==
  LET node == [chunk |-> call[t].chunk,
               order |-> IF list = <<>> THEN 0 ELSE last.order + 1]
  IN /\ InSection(t, "add")
     /\ run
     /\ ~AddCond
     /\ list' = Append(list, node)
     /\ last' = node
     /\ Signal
     /\ Return(t, Result("OK", <<>>, 0))
     /\ UNCHANGED <<run, error, walk>>

-----------------------------------------------------------------------------
(* md_buf_get_head *)

CallHead(t) == Begin(t, Args("head", NULL, 0, "EXACT"))

HeadWait(t) == InSection(t, "head") /\ list = <<>> /\ run /\ Wait(t)

\* Returns the chunk of the first node, or no chunk if the buffer was stopped.
HeadReturn(t) ==
  /\ InSection(t, "head")
  /\ list # <<>> \/ ~run
  /\ Return(t, Result("HEAD", IF list = <<>> THEN <<>> ELSE <<list[1].chunk>>, 0))
  /\ UNCHANGED <<list, last, run, error, waiting, walk>>

-----------------------------------------------------------------------------
(* md_buf_get_pack *)

CallPack(t, n, m) == Begin(t, Args("pack", NULL, n, m))

PackWait(t) ==
  /\ InSection(t, "pack")
  /\ run
  /\ PackCond(call[t].count, call[t].mode)
  /\ Wait(t)

PackStopped(t) == InSection(t, "pack") /\ ReturnStopped(t)

PackBegin(t) ==
  /\ InSection(t, "pack")
  /\ run
  /\ ~PackCond(call[t].count, call[t].mode)
  /\ walk' = [by |-> t, i |-> 0]
  /\ UNCHANGED <<list, last, run, error, waiting, call, ret>>

\* md_will_stop_on(curr), for the node the loop has reached.
WillStop == list[walk.i + 1].chunk \in DoneChunks /\ noMore

\* md_buf_head and md_buf_last once the first n nodes have left the list.
RestSkips(n) == SubSeq(list, n + 2, Len(list))      \* mutant: skips a node
Rest(n) == SubSeq(list, n + 1, Len(list))
LastKept(n) == last                                 \* mutant: never reset
LastAfter(n) == IF n = Len(list) THEN NULL ELSE last

\* The nodes up to the k-th leave the list; all of them if there is no k-th.
Detach(t, k, code, count) ==
  LET n == IF k <= Len(list) THEN k ELSE Len(list)
  IN /\ list' = Rest(n)
     /\ last' = LastAfter(n)
     /\ Return(t, Result(code, SubSeq(ChunksOf(list), 1, n), count))
     /\ walk' = NoWalk
     /\ Signal
     /\ UNCHANGED <<run, error>>

\* An iteration that goes on to the next node.
PackNext(t) ==
  /\ walk.by = t
  /\ walk.i < call[t].count
  /\ walk.i < Len(list)
  /\ ~WillStop
  /\ walk' = [walk EXCEPT !.i = @ + 1]
  /\ UNCHANGED <<list, last, run, error, waiting, call, ret>>

\* The list ends before count nodes are found.
PackShort(t) ==
  /\ walk.by = t
  /\ walk.i < call[t].count
  /\ walk.i >= Len(list)
  /\ Detach(t, walk.i + 1, "OK", walk.i)

\* mutant: the last chunk is counted and left in the list
PackStopBehind(t) ==
  /\ walk.by = t
  /\ walk.i < call[t].count
  /\ walk.i < Len(list)
  /\ WillStop
  /\ Detach(t, walk.i, "NO_DECODERS", walk.i + 1)

\* The last chunk of the last decoder: the loop steps past it and stops.
PackStop(t) ==
  /\ walk.by = t
  /\ walk.i < call[t].count
  /\ walk.i < Len(list)
  /\ WillStop
  /\ Detach(t, walk.i + 2, "NO_DECODERS", walk.i + 1)

\* The loop ends with curr at the count-th node, or at the first if count is 0.
PackFull(t) ==
  /\ walk.by = t
  /\ walk.i = call[t].count
  /\ Detach(t, IF walk.i = 0 THEN 1 ELSE walk.i, "OK", walk.i)

-----------------------------------------------------------------------------
(* md_buf_flush, md_buf_resume, md_buf_signal_error: any thread calls them. *)

\* mutant: stops the buffer and tells nobody
FlushSilent ==
  /\ walk.by = NULL
  /\ list' = <<>> /\ last' = NULL /\ run' = FALSE
  /\ UNCHANGED <<error, waiting, call, walk, ret>>

Flush ==
  /\ walk.by = NULL
  /\ list' = <<>>
  /\ last' = NULL
  /\ run' = FALSE
  /\ Signal
  /\ UNCHANGED <<error, call, walk, ret>>

Resume ==
  /\ walk.by = NULL
  /\ run' = TRUE
  /\ UNCHANGED <<list, last, error, waiting, call, walk, ret>>

SignalError ==
  /\ walk.by = NULL
  /\ run' = FALSE
  /\ error' = TRUE
  /\ Signal
  /\ UNCHANGED <<list, last, call, walk, ret>>

\* POSIX lets pthread_cond_wait return without a signal.
SpuriousWakeup(t) ==
  /\ t \in waiting
  /\ waiting' = waiting \ {t}
  /\ UNCHANGED <<list, last, run, error, call, walk, ret>>

-----------------------------------------------------------------------------
(* The buffer with any callers, and a decoder engine that changes at will. *)

\* md_buf_init
InitBuf ==
  /\ list = <<>>
  /\ last = NULL
  /\ run = TRUE
  /\ error = FALSE
  /\ waiting = {}
  /\ call = [t \in Threads |-> NoCall]
  /\ walk = NoWalk
  /\ ret = [t \in Threads |-> NoRet]

Init == InitBuf /\ noMore = TRUE

\* The steps of t inside the buffer's functions.
AddStep(t) == AddWait(t) \/ AddStopped(t) \/ AddLink(t)
HeadStep(t) == HeadWait(t) \/ HeadReturn(t)
PackStep(t) ==
  \/ PackWait(t) \/ PackStopped(t) \/ PackBegin(t)
  \/ PackNext(t) \/ PackShort(t) \/ PackStop(t) \/ PackFull(t)
Step(t) == AddStep(t) \/ HeadStep(t) \/ PackStep(t)

Client ==
  \/ \E t \in Producers, c \in Chunks : CallAdd(t, c)
  \/ \E t \in Consumers : CallHead(t)
  \/ \E t \in Consumers, n \in 0..MaxCount, m \in Modes : CallPack(t, n, m)

Control == Flush \/ Resume \/ SignalError

DecodersChange == noMore' = ~noMore /\ UNCHANGED bufVars

BufNext ==
  \/ Client
  \/ \E t \in Threads : Step(t)
  \/ \E t \in Threads : SpuriousWakeup(t)
  \/ Control

Next == (BufNext /\ UNCHANGED noMore) \/ DecodersChange

Spec == Init /\ [][Next]_vars

\* A thread that is awake inside a call and can take the mutex does its next
\* step in the end, and the driver keeps asking for packs: the audio server goes
\* on requesting data, whatever else the driver calls in between (the reason for
\* strong fairness there).  Producers, controllers and the engine owe nothing.
Fairness ==
  /\ \A t \in Threads : WF_vars(Step(t) /\ UNCHANGED noMore)
  /\ \A t \in Consumers :
       SF_vars(\E n \in 1..MaxCount, m \in Modes : CallPack(t, n, m) /\ UNCHANGED noMore)

FairSpec == Spec /\ Fairness

-----------------------------------------------------------------------------
(* Properties. *)

TypeOK ==
  /\ list \in Seq(Node)
  /\ last \in Node \cup {NULL}
  /\ run \in BOOLEAN
  /\ error \in BOOLEAN
  /\ waiting \in SUBSET Threads
  /\ call \in [Threads -> [op : {"none", "add", "head", "pack"},
                           chunk : Chunks \cup {NULL},
                           count : 0..MaxCount, mode : Modes]]
  /\ \A t \in Threads : call[t].op = "add" => call[t].chunk \in Chunks
  /\ walk \in [by : Threads \cup {NULL}, i : 0..MaxCount]
  /\ ret \in [Threads -> [code : Codes, pack : Seq(Chunks), count : 0..MaxCount]]
  /\ noMore \in BOOLEAN

(* md_buf_last is the last node of the list and the orders of the nodes are   *)
(* consecutive, so that get_buf_num(), computed from two orders, is the       *)
(* number of nodes after any mix of adds, packs and flushes.                  *)
NodesLinked ==
  /\ (last = NULL) <=> (list = <<>>)
  /\ list # <<>> => last = list[Len(list)]
  /\ \A j \in 1..Len(list) : list[j].order = list[1].order + j - 1

(* The buffer never holds more than max_buf_num chunks, however many          *)
(* decoder threads wait in md_buf_add and whoever is woken first.             *)
Capacity == Len(list) <= MaxBufNum

(* While md_buf_get_pack walks, its caller is awake inside the call and the   *)
(* loop has not run past the list it reads.                                   *)
WalkInside ==
  walk.by # NULL =>
    /\ walk.by \notin waiting
    /\ call[walk.by].op = "pack"
    /\ walk.i <= call[walk.by].count
    /\ walk.i <= Len(list)

(* A pack holds at least the number of chunks reported through *count, and    *)
(* MD_BUF_NO_DECODERS is returned only for a pack whose *count-th chunk is a  *)
(* decoder's last one.                                                        *)
PackResult ==
  \A t \in Threads :
    /\ ret[t].count <= Len(ret[t].pack)
    /\ ret[t].code = "NO_DECODERS" =>
         ret[t].count > 0 /\ ret[t].pack[ret[t].count] \in DoneChunks

(* Decoders call md_buf_add only, the driver the other functions, and a call  *)
(* has no result before it ends.                                              *)
Callers ==
  \A t \in Threads :
    /\ call[t].op = "add" => t \in Producers
    /\ call[t].op \in {"head", "pack"} => t \in Consumers
    /\ call[t].op # "none" => ret[t] = NoRet

(* Only a thread inside a call of the buffer sleeps.                          *)
SleepersCall == \A t \in waiting : call[t].op # "none"

(* All of them together: each of them needs others to be preserved.           *)
IInv ==
  /\ TypeOK /\ NodesLinked /\ Capacity
  /\ WalkInside /\ PackResult /\ Callers /\ SleepersCall

(* One producer and one consumer, as in the player: a thread is asleep only   *)
(* while the buffer is running and too full, or too empty, for it.  One       *)
(* pthread_cond_signal on the shared condition is then never lost.  The end   *)
(* of the stream is the exception that the condition leaves out: a consumer   *)
(* that sleeps over the last chunk is not woken when noMore becomes true.     *)
HasReason(t) ==
  /\ run
  /\ call[t].op = "add" => AddCond
  /\ call[t].op = "head" => list = <<>>
  /\ call[t].op = "pack" =>
       IF call[t].mode = "EXACT" THEN BufNum < call[t].count ELSE BufNum = 0

NoLostWakeup == \A t \in waiting : HasReason(t)

(* Once the application leaves the player alone (no more stops and resumes),  *)
(* a decoder thread that is in md_buf_add gets out of it: no signal it needs  *)
(* was spent on another thread, and no stop left it asleep.                   *)
AddReturns ==
  <>[][~Control]_vars =>
    \A t \in Producers : call[t].op = "add" ~> call[t].op # "add"

(* The buffer implements the bounded queue: chunks reach the driver in the    *)
(* order the decoders added them, none twice, and none is lost except by      *)
(* md_buf_flush.                                                              *)
Fifo == INSTANCE MdFifo WITH
  queue <- ChunksOf(list),
  taken <- [t \in Threads |-> IF ret[t].code = "HEAD" THEN <<>> ELSE ret[t].pack],
  Capacity <- MaxBufNum

ImplementsFifo == Fifo!Spec
=============================================================================
