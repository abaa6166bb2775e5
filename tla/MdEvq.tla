-------------------------------- MODULE MdEvq --------------------------------
(***************************************************************************)
(* The two event queues of a chunk (core/buffer/mdevq.c).  An event stands *)
(* for a callback and its data; a queue is run once, in the order in which *)
(* the events were added, and is empty afterwards.                         *)
(***************************************************************************)
EXTENDS Sequences

\* MD_EVENT_RUN_ON_TAKE_IN and MD_EVENT_RUN_ON_TAKE_OUT
EventTypes == {"in", "out"}

\* md_evq_init; also what md_evq_deinit leaves, which runs nothing.
EmptyEvq == [type \in EventTypes |-> <<>>]

\* md_evq_add_event
AddEvent(evq, type, event) == [evq EXCEPT ![type] = Append(@, event)]

\* md_evq_run_queue: the events it runs, and the queues afterwards.
Events(evq, type) == evq[type]
AfterRunKept(evq, type) == evq          \* mutant: the queue is not reset
AfterRun(evq, type) == [evq EXCEPT ![type] = <<>>]
=============================================================================
