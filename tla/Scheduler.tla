----------------------------- MODULE Scheduler ------------------------------
(***************************************************************************)
(* The event scheduler (app_scheduler.c) as the firmware uses it: the main *)
(* loop queues one event per handler and executes the queue, the UART      *)
(* handler queues the slices of a frame, and timer interrupts queue events *)
(* whenever they like.                                                     *)
(*                                                                         *)
(* An entry is reserved inside a critical region and filled outside it, so *)
(* an interrupt may put its own event between the two.  An event is its    *)
(* handler; the bytes it carries are not modelled.                         *)
(***************************************************************************)
EXTENDS Naturals, Sequences, FiniteSets

CONSTANTS
    QueueSize,    \* SCHED_QUEUE_SIZE
    SliceSize,    \* SCHED_MAX_EVENT_DATA_SIZE
    FrameLengths, \* the values uart_communicate_buf.length takes
    Interrupts,   \* the handlers timer interrupts put: update_wall_clock, ReadAdc
    Burst         \* bound: events interrupts put during one pass of the loop

\* The indices are uint8_t.  A frame holds command, number and checksum, and
\* one of the lengths is the longest.  What interrupts put, the main loop does
\* not.
ASSUME SchedulerAssumption ==
    /\ QueueSize \in 1..255
    /\ SliceSize \in Nat \ {0}
    /\ FrameLengths \subseteq (Nat \ 0..3)
    /\ \E longest \in FrameLengths : \A l \in FrameLengths : l <= longest
    /\ Interrupts \cap {"link", "command", "uart", "status", "slice"} = {}
    /\ Burst \in Nat

VARIABLES
    headers,      \* m_queue_event_headers
    startIx,      \* m_queue_start_index
    endIx,        \* m_queue_end_index
    event_index,  \* the entry app_sched_event_put has reserved, or NoSlot
    toPut,        \* the events the running code has yet to put
    pc,           \* where the main loop is
    burst         \* events interrupts have put in this pass

ring == <<headers, startIx, endIx>>
vars == <<headers, startIx, endIx, event_index, toPut, pc, burst>>

Slots  == 0..QueueSize
NoSlot == QueueSize + 1

\* Bluetooth_ReciveANDSend, BleCmdProcess, UartDataSendrecive, the handler of
\* the status, uart_send_Bty, and what the timer interrupts put.
Handlers   == {"link", "command", "uart", "status", "slice"} \cup Interrupts

next_index(index) == IF index < QueueSize THEN index + 1 ELSE 0

\* The wrong definitions BadX are mutants: the checked properties refute them.
BadQueueFull == FALSE
QueueFull == next_index(endIx) = startIx

BadQueueEmpty == endIx <= startIx
QueueEmpty == endIx = startIx

\* The events of one call of uart_send: the head, the full slices, the rest.
BadUartSlices(length) ==
    [i \in 1..(2 + (length - 2) \div (SliceSize \div 2)) |-> "slice"]
UartSlices(length) ==
    [i \in 1..(2 + (length - 2) \div SliceSize) |-> "slice"]

(* What a handler may put while it runs: bluetoothupdate_F asks for another *)
(* run of the link layer, UartDataSendrecive may send a frame.              *)
PutsOf(handler) ==
    {<<>>} \cup
    (IF handler = "command" THEN {<<"link">>} ELSE {}) \cup
    (IF handler = "uart" THEN {UartSlices(l) : l \in FrameLengths} ELSE {})

Init ==
    /\ headers \in [Slots -> {"link"}]
    /\ startIx = 0 /\ endIx = 0
    /\ event_index = NoSlot
    /\ toPut = <<>>
    /\ pc = "sleep"
    /\ burst = 0

-----------------------------------------------------------------------------
(* app_sched_event_put in the main loop.                                   *)

Reserve ==
    /\ toPut # <<>> /\ event_index = NoSlot
    /\ ~QueueFull
    /\ event_index' = endIx
    /\ endIx' = next_index(endIx)
    /\ UNCHANGED <<headers, startIx, toPut, pc, burst>>

Fill ==
    /\ event_index # NoSlot
    /\ headers' = [headers EXCEPT ![event_index] = Head(toPut)]
    /\ event_index' = NoSlot
    /\ toPut' = Tail(toPut)
    /\ UNCHANGED <<startIx, endIx, pc, burst>>

\* NRF_ERROR_NO_MEM: no caller looks at it, the event is lost.
Refused ==
    /\ toPut # <<>> /\ event_index = NoSlot
    /\ QueueFull
    /\ toPut' = Tail(toPut)
    /\ UNCHANGED <<headers, startIx, endIx, event_index, pc, burst>>

Put == Reserve \/ Fill \/ Refused

-----------------------------------------------------------------------------
(* The main loop.                                                          *)

\* An interrupt ends the sleep; main_loop is entered.  In some states there
\* is no status handler.
Pass ==
    /\ pc = "sleep"
    /\ pc' = "loop"
    /\ \E status \in {<<>>, <<"status">>} :
          toPut' = <<"link", "command", "uart">> \o status
    /\ burst' = 0
    /\ UNCHANGED <<ring, event_index>>

LoopDone ==
    /\ pc = "loop" /\ toPut = <<>>
    /\ pc' = "execute"
    /\ UNCHANGED <<ring, event_index, toPut, burst>>

\* app_sched_execute: the handler runs while its entry is still in the queue.
BeginHandler ==
    /\ pc = "execute" /\ ~QueueEmpty
    /\ toPut' \in PutsOf(headers[startIx])
    /\ pc' = "handler"
    /\ UNCHANGED <<ring, event_index, burst>>

EndHandler ==
    /\ pc = "handler" /\ toPut = <<>>
    /\ startIx' = next_index(startIx)
    /\ pc' = "execute"
    /\ UNCHANGED <<headers, endIx, event_index, toPut, burst>>

BadDrained ==
    /\ pc = "execute"
    /\ pc' = "sleep"
    /\ UNCHANGED <<ring, event_index, toPut, burst>>

Drained ==
    /\ pc = "execute" /\ QueueEmpty
    /\ pc' = "sleep"
    /\ UNCHANGED <<ring, event_index, toPut, burst>>

Main == Put \/ Pass \/ LoopDone \/ BeginHandler \/ EndHandler \/ Drained

-----------------------------------------------------------------------------
(* TimerClock_handler and ADCwork_handler.  Interrupts of one priority do   *)
(* not preempt each other, so their put is one step; a full queue loses it. *)
Interrupt(e) ==
    /\ burst < Burst
    /\ burst' = burst + 1
    /\ IF QueueFull
       THEN UNCHANGED <<headers, endIx>>
       ELSE /\ headers' = [headers EXCEPT ![endIx] = e]
            /\ endIx' = next_index(endIx)
    /\ UNCHANGED <<startIx, event_index, toPut, pc>>

Next == Main \/ \E e \in Interrupts : Interrupt(e)

\* The main loop keeps running: an event put while it is about to sleep wakes
\* it, as the interrupt that put it ends sd_app_evt_wait.
Spec == Init /\ [][Next]_vars /\ WF_vars(Main)

-----------------------------------------------------------------------------
(* Properties.                                                             *)

Pcs == {"sleep", "loop", "execute", "handler"}

\* Every variable holds a value of its type; an entry is reserved only for an
\* event that is being put.
TypeOK ==
    /\ headers \in [Slots -> Handlers]
    /\ startIx \in Slots /\ endIx \in Slots
    /\ event_index \in Slots \cup {NoSlot}
    /\ toPut \in Seq(Handlers)
    /\ event_index # NoSlot => toPut # <<>>
    /\ pc \in Pcs
    /\ burst \in 0..Burst

\* The number of entries in use between two indices, as in
\* app_sched_queue_space_get, and the i-th of them counted from the oldest.
Count(start, end) == IF end >= start THEN end - start
                                     ELSE QueueSize + 1 - start + end
Slot(start, i) == IF start + i <= QueueSize + 1 THEN start + i - 1
                                                ELSE start + i - QueueSize - 2
Used == Count(startIx, endIx)

\* The event an entry stands for: a reserved entry already stands for the
\* event that is about to be written into it.
EventIn(slot) == IF slot = event_index THEN Head(toPut) ELSE headers[slot]

Contents == [i \in 1..Used |-> EventIn(Slot(startIx, i))]

Q == INSTANCE EventQueue WITH
        Events <- Handlers, Capacity <- QueueSize,
        queue <- Contents, busy <- (pc = "handler")

\* The ring is a bounded first-in first-out queue, although interrupts put
\* events between the reservation and the filling of an entry
\* (app_scheduler.c 174-205) and the entry of the running handler is freed
\* only when the handler has returned (281-284).
ImplementsQueue == Q!Safety

\* An accepted event is run and its handler's entry freed, whatever the
\* interrupts do (app_scheduler.c 263-287).
EveryEventRuns == Q!Liveness

\* The most entries the events of the main loop take: while UartDataSendrecive
\* runs its own, that of the status, that of the link layer asked for once more,
\* and the slices of the longest frame, the first two bytes of it one of them.
LoopNeeds ==
    LET longest == CHOOSE l \in FrameLengths : \A k \in FrameLengths : k <= l
    IN  3 + 2 + (longest - 2) \div SliceSize

TimerEvents == Cardinality({i \in 1..Used : Contents[i] \in Interrupts})

\* No event of the main loop or of a frame is refused, unless more timer events
\* are waiting than there are entries left beside those of a pass, however
\* passes, puts and interrupts interleave (uart_bithd.c 189-195 and main.c
\* 929-957 ignore the result of app_sched_event_put; a frame would leave with a
\* hole in it).  The firmware has 20 entries and its longest frame needs 13.
NothingRefused ==
    toPut # <<>> /\ event_index = NoSlot /\ QueueFull
        => TimerEvents > QueueSize - LoopNeeds

\* A frame has left completely before UartDataSendrecive runs again, so the
\* acknowledgements it sends directly (uart_bithd.c 299, 325, 331) never fall
\* into the middle of a frame.
FrameGone ==
    pc = "execute" /\ ~QueueEmpty /\ headers[startIx] = "uart" =>
        \A i \in 1..Used : Contents[i] # "slice"
=============================================================================
