----------------------------- MODULE EventQueue -----------------------------
(***************************************************************************)
(* What the event scheduler promises (app_scheduler.h 40-70): events are   *)
(* run one at a time in the order they were accepted, an accepted event is *)
(* never lost, and no more than Capacity are held, the running one         *)
(* included.                                                               *)
(***************************************************************************)
EXTENDS Naturals, Sequences

CONSTANTS Events, Capacity

VARIABLES queue,     \* the accepted events that have not finished
          busy       \* the first of them is running

vars == <<queue, busy>>

Init == queue = <<>> /\ busy = FALSE

Put(e) == /\ Len(queue) < Capacity
          /\ queue' = Append(queue, e)
          /\ UNCHANGED busy

Start == /\ ~busy
         /\ queue # <<>>
         /\ busy' = TRUE
         /\ UNCHANGED queue

Finish == /\ busy
          /\ queue # <<>>
          /\ queue' = Tail(queue)
          /\ busy' = FALSE

Next == (\E e \in Events : Put(e)) \/ Start \/ Finish

Safety == Init /\ [][Next]_vars

Liveness == WF_vars(Start) /\ WF_vars(Finish)
=============================================================================
