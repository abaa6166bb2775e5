---------------------------- MODULE MdDelayLine -----------------------------
(***************************************************************************)
(* What the garbage promises the driver: a chunk that is handed over stays *)
(* allocated until Delay younger ones have been handed over as well, or    *)
(* the garbage is cleaned; chunks are freed oldest first, each once.       *)
(***************************************************************************)
EXTENDS Integers, Sequences

CONSTANTS
  Chunks,     \* the chunks there may be
  Delay       \* how many chunks the garbage keeps

VARIABLES
  held,       \* the chunks handed over and still allocated, oldest first
  live        \* the chunks that are allocated

delayVars == <<held, live>>

Init == held = <<>> /\ live = {}

\* A decoder allocates a chunk.
Allocate(c) ==
  /\ c \notin live
  /\ live' = live \cup {c}
  /\ UNCHANGED held

\* The driver hands a chunk over, which may cost the oldest one its life.
HandOver(c) ==
  /\ c \in live
  /\ IF Len(held) < Delay
       THEN held' = Append(held, c) /\ UNCHANGED live
       ELSE held' = Append(Tail(held), c) /\ live' = live \ {Head(held)}

FreeOldest ==
  /\ held # <<>>
  /\ held' = Tail(held)
  /\ live' = live \ {Head(held)}

Next == (\E c \in Chunks : Allocate(c) \/ HandOver(c)) \/ FreeOldest

Spec == Init /\ [][Next]_delayVars
=============================================================================
