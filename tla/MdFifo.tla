------------------------------- MODULE MdFifo -------------------------------
(***************************************************************************)
(* What the chunk buffer promises its callers: a bounded first-in          *)
(* first-out queue of chunks.  A producer puts one chunk at the end, a     *)
(* consumer takes a prefix, and a controller may clear the queue.  Nothing *)
(* is said of mutexes, condition variables, list nodes or orders.          *)
(***************************************************************************)
EXTENDS Integers, Sequences

CONSTANTS
  Chunks,     \* the chunks the queue carries
  Threads,    \* the callers
  Capacity    \* the most chunks the queue holds

VARIABLES
  queue,      \* the chunks in the queue, oldest first
  taken       \* taken[t]: the chunks the last call of t took

fifoVars == <<queue, taken>>

Init ==
  /\ queue = <<>>
  /\ taken = [t \in Threads |-> <<>>]

Put(c) ==
  /\ Len(queue) < Capacity
  /\ queue' = Append(queue, c)
  /\ UNCHANGED taken

Take(t, n) ==
  /\ queue' = SubSeq(queue, n + 1, Len(queue))
  /\ taken' = [taken EXCEPT ![t] = SubSeq(queue, 1, n)]

\* The caller is done with the chunks it took and makes another call.
Forget(t) ==
  /\ taken' = [taken EXCEPT ![t] = <<>>]
  /\ UNCHANGED queue

Clear ==
  /\ queue' = <<>>
  /\ UNCHANGED taken

Next ==
  \/ \E c \in Chunks : Put(c)
  \/ \E t \in Threads, n \in 0..Len(queue) : Take(t, n)
  \/ \E t \in Threads : Forget(t)
  \/ Clear

Spec == Init /\ [][Next]_fifoVars
=============================================================================
