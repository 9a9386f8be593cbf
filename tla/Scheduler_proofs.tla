-------------------------- MODULE Scheduler_proofs --------------------------
(***************************************************************************)
(* The ring of Scheduler is a bounded first-in first-out queue for every   *)
(* queue size an uint8_t index can address and every set of frame lengths. *)
(***************************************************************************)
EXTENDS Scheduler, SequenceTheorems, FiniteSetTheorems, TLAPS

(***************************************************************************)
(* Arithmetic of the ring.                                                 *)
(***************************************************************************)

\* An incremented index is an index.
LEMMA NextInSlots == ASSUME NEW i \in Slots PROVE next_index(i) \in Slots
  BY SchedulerAssumption DEF Slots, next_index

\* The entries in use are entries, none of them is the end index, and at most
\* QueueSize are in use; none or all are in use as the code's tests say.
LEMMA RingShape ==
  ASSUME NEW s \in Slots, NEW e \in Slots
  PROVE  /\ Count(s, e) \in 0..QueueSize
         /\ Count(s, e) = 0 <=> e = s
         /\ Count(s, e) = QueueSize <=> next_index(e) = s
         /\ \A i \in 1..Count(s, e) : Slot(s, i) \in Slots \ {e}
         /\ Slot(s, Count(s, e) + 1) = e
         /\ Count(s, e) > 0 => Slot(s, 1) = s
  BY SchedulerAssumption DEF Slots, Count, Slot, next_index

\* Moving the end of a ring that is not full adds one entry after the others.
LEMMA RingGrows ==
  ASSUME NEW s \in Slots, NEW e \in Slots, next_index(e) # s
  PROVE  Count(s, next_index(e)) = Count(s, e) + 1
  BY SchedulerAssumption DEF Slots, Count, next_index

\* Moving the start of a ring that is not empty removes its oldest entry.
LEMMA RingShrinks ==
  ASSUME NEW s \in Slots, NEW e \in Slots, e # s
  PROVE  /\ Count(next_index(s), e) = Count(s, e) - 1
         /\ \A i \in 1..(Count(s, e) - 1) :
               Slot(next_index(s), i) = Slot(s, i + 1)
  BY SchedulerAssumption DEF Slots, Count, Slot, next_index

\* Division does not reverse an order.
LEMMA DivMonotonic ==
  ASSUME NEW a \in Nat, NEW b \in Nat, a <= b, NEW d \in Nat \ {0}
  PROVE  a \div d <= b \div d
<1>1. a = d * (a \div d) + (a % d) /\ a % d \in 0..(d - 1) /\ a \div d \in Int
  OBVIOUS
<1>2. b = d * (b \div d) + (b % d) /\ b % d \in 0..(d - 1) /\ b \div d \in Int
  OBVIOUS
<1> QED
  BY <1>1, <1>2

(***************************************************************************)
(* Sequences.                                                              *)
(***************************************************************************)

\* A sequence that continues another one by an element is its Append.
LEMMA AppendIs ==
  ASSUME NEW S, NEW s \in Seq(S), NEW e \in S, NEW t \in Seq(S),
         Len(t) = Len(s) + 1,
         \A i \in 1..Len(s) : t[i] = s[i],
         t[Len(s) + 1] = e
  PROVE  t = Append(s, e)
<1>1. Append(s, e) \in Seq(S) /\ Len(Append(s, e)) = Len(s) + 1
  OBVIOUS
<1>2. \A i \in 1..Len(t) : t[i] = Append(s, e)[i]
  OBVIOUS
<1> QED
  BY <1>1, <1>2, SeqEqual

\* A sequence that lacks the first element of another one is its Tail.
LEMMA TailIs ==
  ASSUME NEW S, NEW s \in Seq(S), s # <<>>, NEW t \in Seq(S),
         Len(t) = Len(s) - 1,
         \A i \in 1..(Len(s) - 1) : t[i] = s[i + 1]
  PROVE  t = Tail(s)
<1>1. Tail(s) \in Seq(S) /\ Len(Tail(s)) = Len(s) - 1
  OBVIOUS
<1>2. \A i \in 1..Len(t) : t[i] = Tail(s)[i]
  OBVIOUS
<1> QED
  BY <1>1, <1>2, SeqEqual

\* The events of a frame are events.
LEMMA UartSlicesType ==
  ASSUME NEW l \in FrameLengths PROVE UartSlices(l) \in Seq(Handlers)
<1>1. l \in Nat /\ l >= 4 /\ SliceSize \in Nat \ {0}
  BY SchedulerAssumption
<1>2. (l - 2) \div SliceSize \in Nat
  BY <1>1
<1>3. 2 + (l - 2) \div SliceSize \in Nat
  BY <1>2
<1>4. "slice" \in Handlers
  BY DEF Handlers
<1> QED
  BY <1>3, <1>4 DEF UartSlices

\* Whatever a handler puts is a sequence of events.
LEMMA PutsOfType ==
  ASSUME NEW h \in Handlers, NEW p \in PutsOf(h) PROVE p \in Seq(Handlers)
<1>1. \/ p = <<>>
      \/ p = <<"link">>
      \/ \E l \in FrameLengths : p = UartSlices(l)
  BY DEF PutsOf
<1>2. <<>> \in Seq(Handlers) /\ <<"link">> \in Seq(Handlers)
  BY DEF Handlers
<1> QED
  BY <1>1, <1>2, UartSlicesType

(***************************************************************************)
(* The inductive invariant.  Only code of the main loop puts events with a *)
(* reservation; the reserved entry is in use, so an interrupt, which       *)
(* writes the entry at the end index, never writes it; a handler runs      *)
(* while its entry is in the queue.                                        *)
(***************************************************************************)
IInv ==
  /\ TypeOK
  /\ toPut # <<>> => pc \in {"loop", "handler"}
  /\ event_index # NoSlot => \E i \in 1..Used : event_index = Slot(startIx, i)
  /\ pc = "handler" => startIx # endIx

\* It holds at the start.
LEMMA InitInv == Init => IInv
<1> SUFFICES ASSUME Init PROVE IInv
  OBVIOUS
<1>1. 0 \in Slots /\ 0 \in 0..Burst /\ "link" \in Handlers
  BY SchedulerAssumption DEF Slots, Handlers
<1>2. headers \in [Slots -> Handlers]
  BY <1>1 DEF Init
<1> QED
  BY <1>1, <1>2 DEF Init, IInv, TypeOK, NoSlot, Pcs

\* A reserved entry is not the one at the end of the ring, and no entry is
\* NoSlot.
LEMMA ReservedInUse ==
  ASSUME IInv PROVE event_index # endIx /\ endIx # NoSlot
<1> USE DEF IInv, TypeOK
<1>1. endIx # NoSlot
  BY SchedulerAssumption DEF Slots, NoSlot
<1>2. CASE event_index = NoSlot
  BY <1>1, <1>2
<1>3. CASE event_index # NoSlot
  <2>1. PICK i \in 1..Used : event_index = Slot(startIx, i)
    BY <1>3
  <2>2. Slot(startIx, i) # endIx
    BY <2>1, RingShape DEF Used
  <2> QED
    BY <1>1, <2>1, <2>2
<1> QED
  BY <1>2, <1>3

\* Every step preserves it.
LEMMA StepInv == IInv /\ [Next]_vars => IInv'
<1> SUFFICES ASSUME IInv, [Next]_vars PROVE IInv'
  OBVIOUS
<1> USE DEF IInv, TypeOK
<1>0. NoSlot \notin Slots
  BY SchedulerAssumption DEF Slots, NoSlot
<1>1. CASE Reserve
  <2>1. Used' = Used + 1 /\ Used \in 0..QueueSize
    BY <1>1, RingGrows, RingShape DEF Reserve, QueueFull, Used
  <2>2. endIx = Slot(startIx, Used + 1)
    BY RingShape DEF Used
  <2>3. \E i \in 1..Used' : event_index' = Slot(startIx', i)
    <3>1. Used + 1 \in 1..Used'
      BY <2>1
    <3> QED
      BY <1>1, <2>2, <3>1 DEF Reserve
  <2>4. startIx # endIx'
    BY <1>1 DEF Reserve, QueueFull
  <2>5. endIx' \in Slots
    BY <1>1, NextInSlots DEF Reserve
  <2> QED
    BY <1>1, <2>3, <2>4, <2>5 DEF Reserve
<1>2. CASE Fill
  <2>1. toPut # <<>> /\ Head(toPut) \in Handlers /\ Tail(toPut) \in Seq(Handlers)
    BY <1>2, HeadTailProperties DEF Fill
  <2>2. headers' \in [Slots -> Handlers]
    BY <1>2, <2>1 DEF Fill
  <2> QED
    BY <1>2, <2>1, <2>2 DEF Fill
<1>3. CASE Refused
  <2>1. toPut # <<>> /\ Tail(toPut) \in Seq(Handlers)
    BY <1>3, HeadTailProperties DEF Refused
  <2> QED
    BY <1>3, <2>1 DEF Refused, Used
<1>4. CASE Pass
  <2>1. toPut' \in Seq(Handlers)
    <3>1. PICK status \in {<<>>, <<"status">>} :
             toPut' = <<"link", "command", "uart">> \o status
      BY <1>4 DEF Pass
    <3>2. {"link", "command", "uart", "status"} \subseteq Handlers
      BY DEF Handlers
    <3>3. <<"link", "command", "uart">> \in Seq(Handlers)
      BY <3>2
    <3>4. <<>> \in Seq(Handlers) /\ <<"status">> \in Seq(Handlers)
      BY <3>2
    <3> QED
      BY <3>1, <3>3, <3>4, ConcatProperties
  <2>2. event_index = NoSlot
    BY <1>4 DEF Pass
  <2>3. 0 \in 0..Burst
    BY SchedulerAssumption
  <2> QED
    BY <1>4, <2>1, <2>2, <2>3 DEF Pass, ring, Pcs
<1>5. CASE LoopDone
  BY <1>5 DEF LoopDone, ring, Pcs
<1>6. CASE BeginHandler
  <2>1. toPut' \in Seq(Handlers)
    BY <1>6, PutsOfType DEF BeginHandler
  <2>2. event_index = NoSlot
    BY <1>6 DEF BeginHandler
  <2> QED
    BY <1>6, <2>1, <2>2 DEF BeginHandler, ring, Pcs, QueueEmpty
<1>7. CASE EndHandler
  <2>1. event_index = NoSlot
    BY <1>7 DEF EndHandler
  <2>2. startIx' \in Slots
    BY <1>7, NextInSlots DEF EndHandler
  <2> QED
    BY <1>7, <2>1, <2>2 DEF EndHandler, Pcs
<1>8. CASE Drained
  BY <1>8 DEF Drained, ring, Pcs
<1>9. ASSUME NEW e \in Interrupts, Interrupt(e) PROVE IInv'
  <2>1. burst' \in 0..Burst
    BY <1>9, SchedulerAssumption DEF Interrupt
  <2>2. e \in Handlers
    BY DEF Handlers
  <2>3. CASE QueueFull
    BY <1>9, <2>1, <2>3 DEF Interrupt, Used
  <2>4. CASE ~QueueFull
    <3>1. headers' \in [Slots -> Handlers] /\ endIx' \in Slots
      BY <1>9, <2>2, <2>4, NextInSlots DEF Interrupt
    <3>2. startIx' = startIx /\ startIx # endIx'
      BY <1>9, <2>4 DEF Interrupt, QueueFull
    <3>3. Used' = Used + 1 /\ Used \in 0..QueueSize
      BY <1>9, <2>4, RingGrows, RingShape DEF Interrupt, QueueFull, Used
    <3>4. 1..Used \subseteq 1..Used'
      BY <3>3
    <3>5. event_index' # NoSlot => \E i \in 1..Used' : event_index' = Slot(startIx', i)
      BY <1>9, <3>2, <3>4 DEF Interrupt
    <3> QED
      BY <1>9, <2>1, <3>1, <3>2, <3>5 DEF Interrupt
  <2> QED
    BY <2>3, <2>4
<1>10. CASE UNCHANGED vars
  BY <1>10 DEF vars, Used
<1> QED
  BY <1>1, <1>2, <1>3, <1>4, <1>5, <1>6, <1>7, <1>8, <1>9, <1>10
     DEF Next, Main, Put

(***************************************************************************)
(* The refinement of EventQueue.                                           *)
(***************************************************************************)

\* The contents are a sequence of events, as long as the ring is full.
ContentsOK ==
  /\ Contents \in Seq(Handlers)
  /\ Len(Contents) = Used
  /\ \A i \in 1..Used : Contents[i] = EventIn(Slot(startIx, i))

LEMMA ContentsType == IInv => ContentsOK
<1> SUFFICES ASSUME IInv PROVE ContentsOK
  OBVIOUS
<1>1. Used \in Nat /\ \A i \in 1..Used : Slot(startIx, i) \in Slots
  BY RingShape DEF IInv, TypeOK, Used
<1>2. \A s \in Slots : EventIn(s) \in Handlers
  <2> SUFFICES ASSUME NEW s \in Slots PROVE EventIn(s) \in Handlers
    OBVIOUS
  <2>1. CASE s = event_index
    <3>1. s # NoSlot
      BY SchedulerAssumption DEF Slots, NoSlot
    <3>2. toPut # <<>> /\ toPut \in Seq(Handlers)
      BY <2>1, <3>1 DEF IInv, TypeOK
    <3>3. Head(toPut) \in Handlers
      BY <3>2, HeadTailProperties
    <3> QED
      BY <2>1, <3>3 DEF EventIn
  <2>2. CASE s # event_index
    BY <2>2 DEF IInv, TypeOK, EventIn
  <2> QED
    BY <2>1, <2>2
<1>3. \A i \in 1..Used : EventIn(Slot(startIx, i)) \in Handlers
  BY <1>1, <1>2
<1>4. Contents \in [1..Used -> Handlers]
  BY <1>3 DEF Contents
<1>5. Contents \in Seq(Handlers) /\ Len(Contents) = Used
  BY <1>1, <1>4
<1> QED
  BY <1>5 DEF Contents, ContentsOK

\* The same of the next state.
LEMMA ContentsTypeNext == IInv' => ContentsOK'
<1>1. IInv => ContentsOK
  BY ContentsType
<1> QED
  BY <1>1, PTL

\* An entry that is added at the end is an event appended to the contents.
LEMMA GrownContents ==
  ASSUME IInv, IInv', ~QueueFull,
         startIx' = startIx, endIx' = next_index(endIx),
         NEW e \in Handlers,
         NEW new \in Slots, new = endIx, EventIn(new)' = e,
         \A s \in Slots \ {endIx} : EventIn(s)' = EventIn(s)
  PROVE  Contents' = Append(Contents, e) /\ Len(Contents) < QueueSize
<1>1. /\ Used \in 0..QueueSize /\ Used < QueueSize
      /\ Used' = Used + 1
      /\ \A i \in 1..Used : Slot(startIx, i) \in Slots \ {endIx}
      /\ Slot(startIx, Used + 1) = endIx
  <2>1. startIx \in Slots /\ endIx \in Slots /\ next_index(endIx) # startIx
    BY DEF IInv, TypeOK, QueueFull
  <2>2. Used \in 0..QueueSize /\ Used # QueueSize
    BY <2>1, RingShape DEF Used
  <2>3. Used' = Used + 1
    BY <2>1, RingGrows DEF Used
  <2>4. Used < QueueSize
    BY <2>2, SchedulerAssumption
  <2> QED
    BY <2>1, <2>2, <2>3, <2>4, RingShape DEF Used
<1>2. ContentsOK /\ ContentsOK'
  BY ContentsType, ContentsTypeNext
<1>3. \A i \in 1..Used : Contents'[i] = Contents[i]
  <2> SUFFICES ASSUME NEW i \in 1..Used PROVE Contents'[i] = Contents[i]
    OBVIOUS
  <2>1. i \in 1..Used'
    BY <1>1
  <2>2. Contents'[i] = EventIn(Slot(startIx, i))'
    BY <1>2, <2>1 DEF ContentsOK
  <2>3. Contents[i] = EventIn(Slot(startIx, i))
    BY <1>2 DEF ContentsOK
  <2>4. PICK s \in Slots \ {endIx} : s = Slot(startIx, i)
    BY <1>1
  <2>5. EventIn(Slot(startIx, i))' = EventIn(s)'
    BY <2>4 DEF EventIn
  <2> QED
    BY <2>2, <2>3, <2>4, <2>5
<1>4. Contents'[Used + 1] = e
  <2>1. Used + 1 \in 1..Used'
    BY <1>1
  <2>2. PICK n \in 1..Used' : n = Used + 1
    BY <2>1
  <2>3. Contents'[n] = EventIn(Slot(startIx, n))'
    BY <1>2 DEF ContentsOK
  <2>4. EventIn(Slot(startIx, n))' = EventIn(new)'
    BY <1>1, <2>2 DEF EventIn
  <2> QED
    BY <2>2, <2>3, <2>4
<1>5. Contents' = Append(Contents, e)
  BY <1>1, <1>2, <1>3, <1>4, AppendIs DEF ContentsOK
<1> QED
  BY <1>1, <1>2, <1>5 DEF ContentsOK

\* Where neither the ring nor what an entry stands for changes, nor do the
\* contents.
LEMMA SameContents ==
  ASSUME IInv, startIx' = startIx, endIx' = endIx,
         \A s \in Slots : EventIn(s)' = EventIn(s)
  PROVE  Contents' = Contents
<1>1. Used' = Used /\ \A i \in 1..Used : Slot(startIx, i) \in Slots
  BY RingShape DEF IInv, TypeOK, Used
<1> QED
  BY <1>1 DEF Contents

\* An empty ring is an empty queue.
LEMMA EmptyContents == IInv => (Contents = <<>> <=> startIx = endIx)
<1> SUFFICES ASSUME IInv PROVE Contents = <<>> <=> startIx = endIx
  OBVIOUS
<1>1. Contents \in Seq(Handlers) /\ Len(Contents) = Used
  BY ContentsType DEF ContentsOK
<1>2. Used = 0 <=> startIx = endIx
  BY RingShape DEF IInv, TypeOK, Used
<1> QED
  BY <1>1, <1>2, EmptySeq

\* What a step does to the events in the queue and to those still to be put:
\* the first of them is queued or refused, ...
Rest == IF event_index = NoSlot THEN toPut ELSE Tail(toPut)

Queued ==
  /\ pc \in {"loop", "handler"} /\ pc' = pc
  /\ Rest # <<>> /\ Rest' = Tail(Rest)
  /\ \/ Contents' = Append(Contents, Head(Rest)) /\ Len(Contents) < QueueSize
     \/ Contents' = Contents

\* ... a timer event comes in between, or nothing changes, ...
Quiet ==
  /\ pc' = pc /\ Rest' = Rest
  /\ \/ Contents' = Contents
     \/ \E e \in Interrupts : Contents' = Append(Contents, e) /\ Len(Contents) < QueueSize

\* ... a pass begins and ends, ...
Begun ==
  /\ pc = "sleep" /\ pc' = "loop" /\ Contents' = Contents
  /\ \/ Rest' = <<"link", "command", "uart">>
     \/ Rest' = <<"link", "command", "uart", "status">>

Ended == pc = "loop" /\ pc' = "execute" /\ Contents' = Contents /\ Rest = <<>> /\ Rest' = <<>>

\* ... or a handler is run and its event removed, until none is left.
Run ==
  /\ pc = "execute" /\ pc' = "handler"
  /\ Contents # <<>> /\ Contents' = Contents /\ Rest' \in PutsOf(Contents[1])

Done ==
  /\ pc = "handler" /\ pc' = "execute" /\ Rest = <<>> /\ Rest' = <<>>
  /\ Contents # <<>> /\ Contents' = Tail(Contents)

Sleeps ==
  pc = "execute" /\ pc' = "sleep" /\ Contents = <<>> /\ Contents' = <<>> /\ Rest' = <<>>

\* The event at the start index is the first one of the queue.
LEMMA FirstEvent ==
  ASSUME IInv, startIx # endIx, event_index = NoSlot
  PROVE  Contents[1] = headers[startIx]
<1>1. startIx \in Slots /\ endIx \in Slots
  BY DEF IInv, TypeOK
<1>2. Used > 0 /\ Used \in Nat /\ Slot(startIx, 1) = startIx
  BY <1>1, RingShape DEF Used
<1>3. Contents[1] = EventIn(startIx)
  BY <1>2, ContentsType DEF ContentsOK
<1>4. startIx # NoSlot
  BY <1>1, SchedulerAssumption DEF Slots, NoSlot
<1> QED
  BY <1>3, <1>4 DEF EventIn

\* Every step is one of these.
LEMMA Moves ==
  ASSUME IInv, IInv', [Next]_vars
  PROVE  Queued \/ Quiet \/ Begun \/ Ended \/ Run \/ Done \/ Sleeps
<1>0. NoSlot \notin Slots /\ endIx \in Slots
  BY SchedulerAssumption DEF Slots, NoSlot, IInv, TypeOK
<1>1. CASE Reserve
  <2> DEFINE e == Head(toPut)
  <2>1. e \in Handlers
    BY <1>1, HeadTailProperties DEF Reserve, IInv, TypeOK
  <2>2. PICK new \in Slots : new = endIx
    BY <1>0
  <2>3. EventIn(new)' = e
    BY <1>1, <2>2 DEF Reserve, EventIn
  <2>4. \A s \in Slots \ {endIx} : EventIn(s)' = EventIn(s)
    BY <1>0, <1>1 DEF Reserve, EventIn
  <2>5. startIx' = startIx /\ endIx' = next_index(endIx) /\ ~QueueFull
    BY <1>1 DEF Reserve
  <2> HIDE DEF e
  <2>6. Contents' = Append(Contents, e) /\ Len(Contents) < QueueSize
    BY <2>1, <2>2, <2>3, <2>4, <2>5, GrownContents
  <2>7. Rest = toPut /\ Rest' = Tail(Rest) /\ Rest # <<>> /\ pc' = pc
    BY <1>0, <1>1 DEF Reserve, Rest, IInv, TypeOK
  <2>8. e = Head(Rest) /\ pc \in {"loop", "handler"}
    BY <2>7 DEF e, IInv
  <2> QED
    BY <2>6, <2>7, <2>8 DEF Queued
<1>2. CASE Fill
  <2>1. \A s \in Slots : EventIn(s)' = EventIn(s)
    BY <1>0, <1>2 DEF Fill, EventIn, IInv, TypeOK
  <2>2. Contents' = Contents
    BY <1>2, <2>1, SameContents DEF Fill
  <2> QED
    BY <1>2, <2>2 DEF Fill, Quiet, Rest
<1>3. ASSUME event_index = NoSlot, event_index' = NoSlot,
             UNCHANGED <<headers, startIx, endIx>>
      PROVE  Contents' = Contents
  <2>1. \A s \in Slots : EventIn(s)' = EventIn(s)
    BY <1>0, <1>3 DEF EventIn
  <2> QED
    BY <1>3, <2>1, SameContents
<1>4. CASE Refused
  BY <1>3, <1>4 DEF Refused, Queued, Rest, IInv
<1>5. CASE Pass
  <2>1. event_index = NoSlot
    BY <1>5 DEF Pass, IInv, TypeOK
  <2> DEFINE three == <<"link", "command", "uart">>
             four == <<"link", "command", "uart", "status">>
  <2>2. three \o <<>> = three /\ three \o <<"status">> = four
    <3>1. three \in Seq(Handlers) /\ four \in Seq(Handlers) /\ "status" \in Handlers
      BY DEF Handlers
    <3>2. four = Append(three, "status")
      <4>1. Len(four) = Len(three) + 1 /\ four[Len(three) + 1] = "status"
        OBVIOUS
      <4>2. \A i \in 1..Len(three) : four[i] = three[i]
        OBVIOUS
      <4> HIDE DEF three, four
      <4> QED
        BY <3>1, <4>1, <4>2, AppendIs
    <3> HIDE DEF three, four
    <3> QED
      BY <3>1, <3>2, ConcatEmptySeq, AppendIsConcat
  <2>3. \/ toPut' = <<"link", "command", "uart">>
        \/ toPut' = <<"link", "command", "uart", "status">>
    BY <1>5, <2>2 DEF Pass
  <2>4. Contents' = Contents /\ Rest' = toPut'
    BY <1>3, <1>5, <2>1 DEF Pass, ring, Rest
  <2> QED
    BY <1>5, <2>3, <2>4 DEF Pass, Begun
<1>6. CASE LoopDone
  <2>1. event_index = NoSlot
    BY <1>6 DEF LoopDone, IInv, TypeOK
  <2> QED
    BY <1>3, <1>6, <2>1 DEF LoopDone, ring, Ended, Rest
<1>7. CASE BeginHandler
  <2>1. event_index = NoSlot
    BY <1>7 DEF BeginHandler, IInv, TypeOK
  <2>2. Contents' = Contents
    BY <1>3, <1>7, <2>1 DEF BeginHandler, ring
  <2>3. Contents # <<>>
    BY <1>7, EmptyContents DEF BeginHandler, QueueEmpty
  <2>4. Contents[1] = headers[startIx]
    BY <1>7, <2>1, FirstEvent DEF BeginHandler, QueueEmpty
  <2>5. Rest' \in PutsOf(Contents[1])
    BY <1>7, <2>1, <2>4 DEF BeginHandler, Rest
  <2> QED
    BY <1>7, <2>2, <2>3, <2>5 DEF BeginHandler, Run
<1>8. CASE EndHandler
  <2>1. event_index = NoSlot /\ event_index' = NoSlot
    BY <1>8 DEF EndHandler, IInv, TypeOK
  <2>2. startIx # endIx
    BY <1>8 DEF EndHandler, IInv
  <2>3. Used \in Nat /\ Used' = Used - 1
    BY <1>8, <2>2, RingShrinks, RingShape DEF EndHandler, IInv, TypeOK, Used
  <2>4. ContentsOK /\ ContentsOK'
    BY ContentsType, ContentsTypeNext
  <2>5. \A i \in 1..(Used - 1) : Contents'[i] = Contents[i + 1]
    <3> SUFFICES ASSUME NEW i \in 1..(Used - 1)
                 PROVE  Contents'[i] = Contents[i + 1]
      OBVIOUS
    <3>1. i \in 1..Used' /\ i + 1 \in 1..Used
      BY <2>3
    <3>2. Slot(startIx', i) = Slot(startIx, i + 1)
      BY <1>8, <2>2, RingShrinks DEF EndHandler, IInv, TypeOK, Used
    <3>3. Slot(startIx, i + 1) \in Slots
      BY <3>1, RingShape DEF IInv, TypeOK, Used
    <3>4. EventIn(Slot(startIx, i))' = EventIn(Slot(startIx, i + 1))
      BY <1>0, <1>8, <2>1, <3>2, <3>3 DEF EndHandler, EventIn
    <3> QED
      BY <2>4, <3>1, <3>4 DEF ContentsOK
  <2>6. Contents # <<>>
    BY <2>2, EmptyContents
  <2>7. Contents' = Tail(Contents)
    BY <2>3, <2>4, <2>5, <2>6, TailIs DEF ContentsOK
  <2> QED
    BY <1>8, <2>1, <2>6, <2>7 DEF EndHandler, Done, Rest
<1>9. CASE Drained
  <2>1. event_index = NoSlot
    BY <1>9 DEF Drained, IInv, TypeOK
  <2>2. toPut = <<>> /\ Contents = <<>>
    BY <1>9, EmptyContents DEF Drained, QueueEmpty, IInv
  <2> QED
    BY <1>3, <1>9, <2>1, <2>2 DEF Drained, ring, Sleeps, Rest
<1>10. ASSUME NEW e \in Interrupts, Interrupt(e) PROVE Quiet
  <2>1. event_index' = event_index /\ startIx' = startIx /\ toPut' = toPut /\ pc' = pc
    BY <1>10 DEF Interrupt
  <2>a. Rest' = Rest
    BY <2>1 DEF Rest
  <2>2. CASE QueueFull
    <3>1. Contents' = Contents
      BY <1>10, <2>1, <2>2, SameContents DEF Interrupt, EventIn
    <3> QED
      BY <2>1, <2>a, <3>1 DEF Quiet
  <2>3. CASE ~QueueFull
    <3>1. e \in Handlers
      BY DEF Handlers
    <3>2. event_index # endIx
      BY ReservedInUse
    <3>3. PICK new \in Slots : new = endIx
      BY <1>0
    <3>4. EventIn(new)' = e
      BY <1>10, <2>1, <2>3, <3>2, <3>3 DEF Interrupt, EventIn, IInv, TypeOK
    <3>5. \A s \in Slots \ {endIx} : EventIn(s)' = EventIn(s)
      BY <1>10, <2>1, <2>3 DEF Interrupt, EventIn, IInv, TypeOK
    <3>6. endIx' = next_index(endIx)
      BY <1>10, <2>3 DEF Interrupt
    <3>7. Contents' = Append(Contents, e) /\ Len(Contents) < QueueSize
      BY <2>1, <2>3, <3>1, <3>3, <3>4, <3>5, <3>6, GrownContents
    <3> QED
      BY <2>1, <2>a, <3>7 DEF Quiet
  <2> QED
    BY <2>2, <2>3
<1>11. CASE UNCHANGED vars
  <2>1. Contents' = Contents
    BY <1>11, SameContents DEF vars, EventIn
  <2> QED
    BY <1>11, <2>1 DEF vars, Quiet, Rest
<1> QED
  BY <1>1, <1>2, <1>4, <1>5, <1>6, <1>7, <1>8, <1>9, <1>10, <1>11
     DEF Next, Main, Put

\* Every step of the ring is a step of the queue or leaves it alone.
LEMMA StepRefines == IInv /\ IInv' /\ [Next]_vars => [Q!Next]_Q!vars
<1> SUFFICES ASSUME IInv, IInv', [Next]_vars PROVE [Q!Next]_Q!vars
  OBVIOUS
<1>1. CASE Queued
  <2>1. Rest \in Seq(Handlers)
    BY HeadTailProperties DEF Rest, IInv, TypeOK
  <2>2. Head(Rest) \in Handlers
    BY <1>1, <2>1, HeadTailProperties DEF Queued
  <2> QED
    BY <1>1, <2>2 DEF Queued, Q!Next, Q!Put, Q!vars
<1>2. CASE Quiet
  BY <1>2 DEF Quiet, Q!Next, Q!Put, Q!vars, Handlers
<1>3. CASE Begun \/ Ended \/ Sleeps
  BY <1>3 DEF Begun, Ended, Sleeps, Q!vars
<1>4. CASE Run
  BY <1>4 DEF Run, Q!Next, Q!Start
<1>5. CASE Done
  BY <1>5 DEF Done, Q!Next, Q!Finish
<1> QED
  BY <1>1, <1>2, <1>3, <1>4, <1>5, Moves

(***************************************************************************)
(* What a pass leaves in the queue.  Rest is what the running code has     *)
(* still to put: the head of toPut is in the queue once it is reserved.    *)
(* The main loop puts link, command, uart and status, in this order; the   *)
(* handler "command" may ask for one more link behind them, and "uart" for *)
(* the slices of one frame.                                                *)
(***************************************************************************)

Entries == 1..Len(Contents)
Where(e) == {i \in Entries : Contents[i] = e}

\* The order in which main_loop puts its events.
Rank == [link |-> 1, command |-> 2, uart |-> 3, status |-> 4]

\* When the processor sleeps only timer events wait.
Asleep == pc = "sleep" => Rest = <<>> /\ \A i \in Entries : Contents[i] \in Interrupts

\* While the loop puts its events, what is in the queue precedes what is not.
Looping ==
  pc = "loop" =>
    /\ \A i \in Entries : Contents[i] \in Interrupts \cup DOMAIN Rank
    /\ \A k \in DOMAIN Rest : Rest[k] \in DOMAIN Rank
    /\ \A i \in Entries, k \in DOMAIN Rest :
          Contents[i] \in Interrupts \/ Rank[Contents[i]] < Rank[Rest[k]]
    /\ \A k, l \in DOMAIN Rest : k < l => Rank[Rest[k]] < Rank[Rest[l]]
    /\ \A i, j \in Where("link") : i = j

MaxSlices == LoopNeeds - 3

\* What a handler puts.
Handling ==
  pc = "handler" =>
    /\ Contents[1] = "command" => Rest \in {<<>>, <<"link">>}
    /\ Contents[1] = "uart" =>
         /\ \A k \in DOMAIN Rest : Rest[k] = "slice"
         /\ Cardinality(Where("slice")) + Len(Rest) <= MaxSlices
    /\ Contents[1] \notin {"command", "uart"} => Rest = <<>>

\* The loop's own events are in the queue once, and in the order of its passes.
InOrder ==
  /\ \A e \in {"command", "uart", "status"} : \A i, j \in Where(e) : i = j
  /\ \A i \in Where("uart"), j \in Where("command") : j < i

\* The link layer that a command asked for comes after the command, and once
\* after "uart".
LinkAgain ==
  /\ \A i \in Where("command"), j \in Where("link") :
        j < i \/ (i = 1 /\ pc = "handler" /\ Rest = <<>>)
  /\ \A i \in Where("uart"), j, k \in Where("link") : i < j /\ i < k => j = k

\* No slice of an earlier frame is left while a pass may still send one.
SlicesLast ==
  \A i \in Where("uart") \cup Where("command"), j \in Where("slice") :
     i = 1 /\ Contents[i] = "uart" /\ pc = "handler"

PassInv == Asleep /\ Looping /\ Handling /\ InOrder /\ LinkAgain /\ SlicesLast

\* What the moves say of indices.
LEMMA Typed ==
  ASSUME IInv
  PROVE  /\ Contents \in Seq(Handlers) /\ Rest \in Seq(Handlers)
         /\ Len(Contents) \in Nat /\ Len(Rest) \in Nat
         /\ DOMAIN Rest = 1..Len(Rest)
         /\ pc \in {"sleep", "execute"} => Rest = <<>>
         /\ pc = "handler" => Contents # <<>>
<1>1. Contents \in Seq(Handlers)
  BY ContentsType DEF ContentsOK
<1>2. Rest \in Seq(Handlers)
  BY HeadTailProperties DEF Rest, IInv, TypeOK
<1>3. pc \in {"sleep", "execute"} => Rest = <<>>
  BY DEF IInv, TypeOK, Rest
<1>4. pc = "handler" => Contents # <<>>
  BY EmptyContents DEF IInv
<1> QED
  BY <1>1, <1>2, <1>3, <1>4

\* Timer events and the events of the main loop are different.
LEMMA Disjoint ==
  \A e \in Interrupts : e \notin {"link", "command", "uart", "status", "slice"}
BY SchedulerAssumption

\* An event that is queued takes the entry after the others.
LEMMA Appended ==
  ASSUME IInv, NEW e \in Handlers, Contents' = Append(Contents, e)
  PROVE  /\ Len(Contents) + 1 \in Entries' /\ Contents'[Len(Contents) + 1] = e
         /\ Entries' = Entries \cup {Len(Contents) + 1}
         /\ \A i \in Entries : i < Len(Contents) + 1 /\ Contents'[i] = Contents[i]
         /\ Len(Contents) + 1 \in Nat
<1>1. Contents \in Seq(Handlers)
  BY Typed
<1> QED
  BY <1>1 DEF Entries

\* The number of slices in the queue.
LEMMA SliceCount ==
  ASSUME IInv
  PROVE  /\ IsFiniteSet(Where("slice")) /\ Cardinality(Where("slice")) \in Nat
         /\ Where("slice") = {} => Cardinality(Where("slice")) = 0
<1>1. IsFiniteSet(Entries)
  BY Typed, FS_Interval DEF Entries
<1>2. IsFiniteSet(Where("slice"))
  BY <1>1, FS_Subset DEF Where
<1> QED
  BY <1>2, FS_CardinalityType, FS_EmptySet

\* The bound on the events of a pass is a number.
LEMMA NeedsNat == LoopNeeds \in Nat
<1> DEFINE longest == CHOOSE m \in FrameLengths : \A k \in FrameLengths : k <= m
<1>1. longest \in FrameLengths
  BY SchedulerAssumption
<1> HIDE DEF longest
<1>2. longest \in Nat /\ longest >= 4 /\ SliceSize \in Nat \ {0}
  BY <1>1, SchedulerAssumption
<1>3. (longest - 2) \div SliceSize \in Nat
  BY <1>2
<1> QED
  BY <1>3 DEF LoopNeeds, longest

\* A frame has no more slices than the longest.
LEMMA FrameSlices ==
  ASSUME NEW l \in FrameLengths
  PROVE  /\ UartSlices(l) \in Seq(Handlers)
         /\ Len(UartSlices(l)) <= MaxSlices /\ MaxSlices \in Nat
         /\ \A k \in DOMAIN UartSlices(l) : UartSlices(l)[k] = "slice"
<1> DEFINE longest == CHOOSE m \in FrameLengths : \A k \in FrameLengths : k <= m
<1>1. longest \in FrameLengths /\ l <= longest
  BY SchedulerAssumption
<1> HIDE DEF longest
<1>2. l \in Nat /\ longest \in Nat /\ l >= 4 /\ SliceSize \in Nat \ {0}
  BY <1>1, SchedulerAssumption
<1>3. (l - 2) \div SliceSize \in Nat /\ (longest - 2) \div SliceSize \in Nat
  BY <1>1, <1>2
<1>4. (l - 2) \div SliceSize <= (longest - 2) \div SliceSize
  BY <1>1, <1>2, DivMonotonic
<1>5. MaxSlices = 2 + (longest - 2) \div SliceSize
  BY <1>3 DEF MaxSlices, LoopNeeds, longest
<1>6. UartSlices(l) \in Seq(Handlers) /\ Len(UartSlices(l)) = 2 + (l - 2) \div SliceSize
  BY <1>3, UartSlicesType DEF UartSlices
<1>7. \A k \in DOMAIN UartSlices(l) : UartSlices(l)[k] = "slice"
  BY DEF UartSlices
<1> QED
  BY <1>3, <1>4, <1>5, <1>6, <1>7

\* The events that are not a timer's, and where they are once an event is
\* added or the first is removed.
Kinds == {"link", "command", "uart", "status", "slice"}

LEMMA AppendedWhere ==
  ASSUME IInv, NEW e \in Handlers, Contents' = Append(Contents, e)
  PROVE  /\ \A f \in Kinds : f # e => Where(f)' = Where(f)
         /\ \A f \in Kinds : f = e => Where(f)' = Where(f) \cup {Len(Contents) + 1}
         /\ \A i \in Entries' : (i \in Entries /\ Contents'[i] = Contents[i]) \/ Contents'[i] = e
         /\ Contents # <<>> => Contents'[1] = Contents[1]
<1>1. /\ Len(Contents) + 1 \in Entries' /\ Contents'[Len(Contents) + 1] = e
      /\ Entries' = Entries \cup {Len(Contents) + 1}
      /\ \A i \in Entries : i < Len(Contents) + 1 /\ Contents'[i] = Contents[i]
  BY Appended
<1>2. Contents # <<>> => 1 \in Entries
  BY Typed, EmptySeq DEF Entries
<1> QED
  BY <1>1, <1>2 DEF Where

LEMMA SameWhere ==
  ASSUME Contents' = Contents
  PROVE  Entries' = Entries /\ \A f \in Kinds : Where(f)' = Where(f)
BY DEF Where, Entries

LEMMA TailWhere ==
  ASSUME IInv, Contents # <<>>, Contents' = Tail(Contents)
  PROVE  \A f \in Kinds : \A i \in Where(f)' : i \in Nat /\ i >= 1 /\ i + 1 \in Where(f)
<1>1. Contents \in Seq(Handlers)
  BY Typed
<1>2. Len(Contents') = Len(Contents) - 1 /\ Len(Contents) \in Nat
  BY <1>1
<1>3. \A i \in 1..Len(Contents') : Contents'[i] = Contents[i + 1]
  BY <1>1
<1> QED
  BY <1>2, <1>3 DEF Where, Entries

\* An entry is a number, and every kind of event takes some entries.
LEMMA WhereNat == IInv => \A f \in Kinds : \A i \in Where(f) : i \in Nat /\ i >= 1 /\ Contents[i] = f
BY Typed DEF Where, Entries

\* A timer event changes nothing that PassInv says.
LEMMA QuietPass == ASSUME IInv, PassInv, Quiet PROVE PassInv'
<1>1. pc' = pc /\ Rest' = Rest
  BY DEF Quiet
<1> DEFINE Kept == \A f \in Kinds : Where(f)' = Where(f)
           Old  == \A i \in Entries' : \/ i \in Entries /\ Contents'[i] = Contents[i]
                                     \/ Contents'[i] \in Interrupts
<1>2. Kept /\ Old /\ (Contents # <<>> => Contents'[1] = Contents[1])
  <2>1. CASE Contents' = Contents
    BY <2>1, SameWhere
  <2>2. ASSUME NEW e \in Interrupts, Contents' = Append(Contents, e)
        PROVE  Kept /\ Old /\ (Contents # <<>> => Contents'[1] = Contents[1])
    BY <2>2, AppendedWhere, Disjoint DEF Kinds, Handlers
  <2> QED
    BY <2>1, <2>2 DEF Quiet
<1>3. /\ Where("link")' = Where("link") /\ Where("command")' = Where("command")
      /\ Where("uart")' = Where("uart") /\ Where("status")' = Where("status")
      /\ Where("slice")' = Where("slice")
  BY <1>2 DEF Kinds
<1>4. Asleep'
  BY <1>1, <1>2 DEF PassInv, Asleep
<1>5. Looping'
  BY <1>1, <1>2, <1>3 DEF PassInv, Looping
<1>6. Handling'
  <2>1. pc = "handler" => Contents # <<>>
    BY Typed
  <2> QED
    BY <1>1, <1>2, <1>3, <2>1 DEF PassInv, Handling, MaxSlices, LoopNeeds
<1>7. InOrder'
  BY <1>2, <1>3 DEF PassInv, InOrder, Kinds
<1>8. LinkAgain'
  BY <1>1, <1>3 DEF PassInv, LinkAgain
<1>9. SlicesLast'
  <2>1. ASSUME NEW i \in Where("uart") \cup Where("command"), NEW j \in Where("slice")
        PROVE  i = 1 /\ Contents'[i] = "uart" /\ pc' = "handler"
    <3>1. i = 1 /\ Contents[i] = "uart" /\ pc = "handler"
      BY <2>1 DEF PassInv, SlicesLast
    <3>2. Contents # <<>>
      BY <3>1, Typed
    <3> QED
      BY <1>1, <1>2, <3>1, <3>2
  <2> QED
    BY <1>3, <2>1 DEF SlicesLast
<1> QED
  BY <1>4, <1>5, <1>6, <1>7, <1>8, <1>9 DEF PassInv

\* A pass begins with nothing but timer events in the queue.
LEMMA BegunPass == ASSUME IInv, PassInv, Begun PROVE PassInv'
<1>1. \A i \in Entries : Contents[i] \in Interrupts
  BY DEF PassInv, Asleep, Begun
<1>2. \A f \in Kinds : Where(f) = {}
  BY <1>1, Disjoint DEF Where, Kinds
<1>3. \A f \in Kinds : Where(f)' = {}
  BY <1>2, SameWhere DEF Begun
<1>4. /\ Where("link")' = {} /\ Where("command")' = {} /\ Where("uart")' = {}
      /\ Where("status")' = {} /\ Where("slice")' = {}
  BY <1>3 DEF Kinds
<1>5. \A i \in Entries' : Contents'[i] \in Interrupts
  BY <1>1, SameWhere DEF Begun
<1>6. /\ \A k \in DOMAIN Rest' : Rest'[k] \in DOMAIN Rank
      /\ \A k, l \in DOMAIN Rest' : k < l => Rank[Rest'[k]] < Rank[Rest'[l]]
  <2>1. CASE Rest' = <<"link", "command", "uart">>
    BY <2>1 DEF Rank
  <2>2. CASE Rest' = <<"link", "command", "uart", "status">>
    BY <2>2 DEF Rank
  <2> QED
    BY <2>1, <2>2 DEF Begun
<1>7. pc' = "loop"
  BY DEF Begun
<1>8. Looping'
  BY <1>4, <1>5, <1>6 DEF Looping
<1>9. InOrder'
  BY <1>4 DEF InOrder
<1> QED
  BY <1>4, <1>7, <1>8, <1>9 DEF PassInv, Asleep, Handling, LinkAgain, SlicesLast

\* The end of a pass, the start of a handler and the end of all leave the queue
\* as it is.
LEMMA EndedPass == ASSUME IInv, PassInv, Ended PROVE PassInv'
<1>1. pc = "loop" /\ pc' = "execute"
  BY DEF Ended
<1>2. \A f \in Kinds : Where(f)' = Where(f)
  BY SameWhere DEF Ended
<1>3. /\ Where("link")' = Where("link") /\ Where("command")' = Where("command")
      /\ Where("uart")' = Where("uart") /\ Where("slice")' = Where("slice")
  BY <1>2 DEF Kinds
<1>4. InOrder'
  BY <1>2, <1>3 DEF PassInv, InOrder, Kinds
<1> QED
  BY <1>1, <1>3, <1>4 DEF PassInv, Asleep, Looping, Handling, LinkAgain, SlicesLast

LEMMA SleepsPass == ASSUME IInv, PassInv, Sleeps PROVE PassInv'
<1>1. Entries' = {} /\ Rest' = <<>> /\ pc' = "sleep"
  BY DEF Sleeps, Entries
<1>2. \A f \in Kinds : Where(f)' = {}
  BY <1>1 DEF Where
<1>3. /\ Where("link")' = {} /\ Where("command")' = {} /\ Where("uart")' = {}
      /\ Where("slice")' = {}
  BY <1>2 DEF Kinds
<1>4. InOrder'
  BY <1>2, <1>3 DEF InOrder, Kinds
<1> QED
  BY <1>1, <1>3, <1>4 DEF PassInv, Asleep, Looping, Handling, LinkAgain, SlicesLast

LEMMA RunPass == ASSUME IInv, PassInv, Run PROVE PassInv'
<1>1. pc = "execute" /\ pc' = "handler" /\ Contents' = Contents
  BY DEF Run
<1>2. \A f \in Kinds : Where(f)' = Where(f)
  BY <1>1, SameWhere
<1>3. /\ Where("link")' = Where("link") /\ Where("command")' = Where("command")
      /\ Where("uart")' = Where("uart") /\ Where("slice")' = Where("slice")
  BY <1>2 DEF Kinds
<1>4. Rest' \in PutsOf(Contents[1])
  BY DEF Run
<1>5. Handling'
  <2>1. Contents[1] = "command" => Rest' \in {<<>>, <<"link">>}
    BY <1>4 DEF PutsOf
  <2>2. Contents[1] \notin {"command", "uart"} => Rest' = <<>>
    BY <1>4 DEF PutsOf
  <2>3. ASSUME Contents[1] = "uart"
        PROVE  /\ \A k \in DOMAIN Rest' : Rest'[k] = "slice"
               /\ Cardinality(Where("slice")) + Len(Rest') <= MaxSlices
    <3>1. 1 \in Where("uart")
      BY <2>3, Typed, EmptySeq DEF Run, Where, Entries
    <3>2. Where("slice") = {}
      BY <1>1, <3>1 DEF PassInv, SlicesLast
    <3>3. Cardinality(Where("slice")) = 0
      BY <3>2, SliceCount
    <3>4. CASE Rest' = <<>>
      <4>1. MaxSlices \in Nat
        BY FrameSlices, SchedulerAssumption
      <4> QED
        BY <3>3, <3>4, <4>1
    <3>5. ASSUME NEW l \in FrameLengths, Rest' = UartSlices(l)
          PROVE  <2>3!2
      BY <3>3, <3>5, FrameSlices
    <3> QED
      BY <1>4, <2>3, <3>4, <3>5 DEF PutsOf
  <2> QED
    BY <1>1, <1>3, <2>1, <2>2, <2>3 DEF Handling, MaxSlices, LoopNeeds
<1>6. InOrder'
  BY <1>2, <1>3 DEF PassInv, InOrder, Kinds
<1> QED
  BY <1>1, <1>3, <1>5, <1>6 DEF PassInv, Asleep, Looping, LinkAgain, SlicesLast

\* What was behind the running handler moves up by one.
LEMMA DonePass == ASSUME IInv, PassInv, Done PROVE PassInv'
<1>1. pc' = "execute"
  BY DEF Done
<1>2. \A f \in Kinds : \A i \in Where(f)' : i \in Nat /\ i >= 1 /\ i + 1 \in Where(f)
  BY TailWhere DEF Done
<1>3. /\ \A i \in Where("link")' : i \in Nat /\ i >= 1 /\ i + 1 \in Where("link")
      /\ \A i \in Where("command")' : i \in Nat /\ i >= 1 /\ i + 1 \in Where("command")
      /\ \A i \in Where("uart")' : i \in Nat /\ i >= 1 /\ i + 1 \in Where("uart")
      /\ \A i \in Where("status")' : i \in Nat /\ i >= 1 /\ i + 1 \in Where("status")
      /\ \A i \in Where("slice")' : i \in Nat /\ i >= 1 /\ i + 1 \in Where("slice")
  BY <1>2 DEF Kinds
<1>4. InOrder'
  <2>1. ASSUME NEW e \in {"command", "uart", "status"}, NEW i \in Where(e)', NEW j \in Where(e)'
        PROVE  i = j
    <3>1. i + 1 \in Where(e) /\ j + 1 \in Where(e) /\ i \in Nat /\ j \in Nat
      BY <1>2 DEF Kinds
    <3>2. i + 1 = j + 1
      BY <3>1 DEF PassInv, InOrder
    <3> QED
      BY <3>1, <3>2
  <2>2. ASSUME NEW i \in Where("uart")', NEW j \in Where("command")' PROVE j < i
    <3>1. j + 1 < i + 1
      BY <1>3 DEF PassInv, InOrder
    <3> QED
      BY <1>3, <3>1
  <2> QED
    BY <2>1, <2>2 DEF InOrder
<1>5. LinkAgain'
  <2>1. ASSUME NEW i \in Where("command")', NEW j \in Where("link")' PROVE j < i
    <3>1. j + 1 < i + 1 \/ i + 1 = 1
      BY <1>3 DEF PassInv, LinkAgain
    <3> QED
      BY <1>3, <3>1
  <2>2. ASSUME NEW i \in Where("uart")', NEW j \in Where("link")', NEW k \in Where("link")',
               i < j, i < k
        PROVE  j = k
    <3>1. i + 1 < j + 1 /\ i + 1 < k + 1
      BY <1>3, <2>2
    <3>2. j + 1 = k + 1
      BY <1>3, <3>1 DEF PassInv, LinkAgain
    <3> QED
      BY <1>3, <3>2
  <2> QED
    BY <2>1, <2>2 DEF LinkAgain
<1>6. SlicesLast'
  <2>1. ASSUME NEW i \in Where("uart")' \cup Where("command")', NEW j \in Where("slice")'
        PROVE  FALSE
    <3>1. i + 1 = 1
      BY <1>3 DEF PassInv, SlicesLast
    <3> QED
      BY <1>3, <3>1
  <2> QED
    BY <2>1 DEF SlicesLast
<1> QED
  BY <1>1, <1>4, <1>5, <1>6 DEF PassInv, Asleep, Looping, Handling

\* While the loop puts its events, the next one is none of those in the queue
\* and goes behind them.
LEMMA LoopPass == ASSUME IInv, PassInv, Queued, pc = "loop" PROVE PassInv'
<1>1. /\ Rest \in Seq(Handlers) /\ Rest # <<>> /\ Rest' = Tail(Rest)
      /\ Len(Rest') = Len(Rest) - 1 /\ Len(Rest) \in Nat
      /\ \A k \in DOMAIN Rest' : k + 1 \in DOMAIN Rest /\ Rest'[k] = Rest[k + 1] /\ k \in Nat /\ k >= 1
      /\ 1 \in DOMAIN Rest /\ Head(Rest) = Rest[1]
  BY Typed DEF Queued
<1>2. pc' = "loop"
  BY DEF Queued
<1> DEFINE e == Rest[1]
<1>3. /\ \A i \in Entries : Contents[i] \in Interrupts \cup DOMAIN Rank
      /\ \A k \in DOMAIN Rest : Rest[k] \in DOMAIN Rank
      /\ \A i \in Entries, k \in DOMAIN Rest :
            Contents[i] \in Interrupts \/ Rank[Contents[i]] < Rank[Rest[k]]
      /\ \A k, l \in DOMAIN Rest : k < l => Rank[Rest[k]] < Rank[Rest[l]]
      /\ \A i, j \in Where("link") : i = j
  BY DEF PassInv, Looping
<1>4. e \in {"link", "command", "uart", "status"}
  BY <1>1, <1>3 DEF Rank
<1>5. \A k \in DOMAIN Rest' : Rest'[k] \in DOMAIN Rank /\ Rank[e] < Rank[Rest'[k]]
  BY <1>1, <1>3
<1>6. \A k, l \in DOMAIN Rest' : k < l => Rank[Rest'[k]] < Rank[Rest'[l]]
  BY <1>1, <1>3
<1>7. \A f \in Kinds : \A i \in Where(f) : f \in DOMAIN Rank /\ Rank[f] < Rank[e]
  BY <1>1, <1>3, Disjoint DEF Kinds, Where
<1>8. /\ \A i \in Where("uart") : 3 < Rank[e]
      /\ \A i \in Where("command") : 2 < Rank[e]
      /\ \A i \in Where("status") : 4 < Rank[e]
      /\ \A i \in Where("link") : 1 < Rank[e]
      /\ Where("slice") = {}
  BY <1>7 DEF Kinds, Rank
<1>9. CASE Contents' = Contents
  <2>1. Entries' = Entries /\ \A f \in Kinds : Where(f)' = Where(f)
    BY <1>9, SameWhere
  <2>2. /\ Where("link")' = Where("link") /\ Where("command")' = Where("command")
        /\ Where("uart")' = Where("uart") /\ Where("slice")' = Where("slice")
    BY <2>1 DEF Kinds
  <2>3. \A i \in Entries, k \in DOMAIN Rest' :
            Contents[i] \in Interrupts \/ Rank[Contents[i]] < Rank[Rest'[k]]
    BY <1>1, <1>3
  <2>4. Looping'
    BY <1>3, <1>5, <1>6, <1>9, <2>1, <2>2, <2>3 DEF Looping
  <2>5. InOrder'
    BY <2>1, <2>2 DEF PassInv, InOrder, Kinds
  <2> QED
    BY <1>2, <1>8, <2>2, <2>4, <2>5 DEF PassInv, Asleep, Handling, LinkAgain, SlicesLast
<1>10. CASE Contents' = Append(Contents, e)
  <2> DEFINE n == Len(Contents) + 1
  <2>1. /\ \A f \in Kinds : f # e => Where(f)' = Where(f)
        /\ \A f \in Kinds : f = e => Where(f)' = Where(f) \cup {n}
        /\ \A i \in Entries' : (i \in Entries /\ Contents'[i] = Contents[i]) \/ Contents'[i] = e
    BY <1>4, <1>10, AppendedWhere DEF Handlers
  <2>2. \A f \in Kinds : \A i \in Where(f) : i < n /\ i \in Nat
    BY Typed DEF Where, Entries
  <2>3. n \in Nat
    BY Typed
  <2> HIDE DEF n
  <2>4. \A f \in {"link", "command", "uart", "status"} : \A i, j \in Where(f)' : i = j
    <3> SUFFICES ASSUME NEW f \in {"link", "command", "uart", "status"},
                        NEW i \in Where(f)', NEW j \in Where(f)'
                 PROVE  i = j
      OBVIOUS
    <3>1. CASE f = e
      <4>1. Where(f) = {}
        BY <1>7, <3>1 DEF Rank, Kinds
      <4> QED
        BY <2>1, <3>1, <4>1 DEF Kinds
    <3>2. CASE f # e
      <4>1. i \in Where(f) /\ j \in Where(f)
        BY <2>1, <3>2 DEF Kinds
      <4> QED
        BY <1>3, <4>1 DEF PassInv, InOrder
    <3> QED
      BY <3>1, <3>2
  <2>5. Where("slice")' = {}
    BY <1>4, <1>8, <2>1 DEF Kinds
  <2>6. Looping'
    <3>1. \A i \in Entries' : Contents'[i] \in Interrupts \cup DOMAIN Rank
      BY <1>3, <1>4, <2>1 DEF Rank
    <3>2. \A i \in Entries', k \in DOMAIN Rest' :
             Contents'[i] \in Interrupts \/ Rank[Contents'[i]] < Rank[Rest'[k]]
      BY <1>1, <1>3, <1>5, <2>1
    <3> QED
      BY <1>5, <1>6, <2>4, <3>1, <3>2 DEF Looping
  <2>7. InOrder'
    <3>1. ASSUME NEW i \in Where("uart")', NEW j \in Where("command")' PROVE j < i
      <4>1. i \in Where("uart") \/ (i = n /\ e = "uart")
        BY <2>1 DEF Kinds
      <4>2. j \in Where("command") \/ (j = n /\ e = "command")
        BY <2>1 DEF Kinds
      <4>3. CASE i \in Where("uart")
        <5>1. e # "command"
          BY <1>8, <4>3 DEF Rank
        <5> QED
          BY <4>2, <4>3, <5>1 DEF PassInv, InOrder
      <4>4. CASE i = n /\ e = "uart"
        BY <2>2, <4>2, <4>4 DEF Kinds
      <4> QED
        BY <4>1, <4>3, <4>4
    <3> QED
      BY <2>4, <3>1 DEF InOrder
  <2>8. LinkAgain'
    <3>1. ASSUME NEW i \in Where("command")', NEW j \in Where("link")' PROVE j < i
      <4>1. i \in Where("command") \/ (i = n /\ e = "command")
        BY <2>1 DEF Kinds
      <4>2. j \in Where("link") \/ (j = n /\ e = "link")
        BY <2>1 DEF Kinds
      <4>3. CASE i \in Where("command")
        <5>1. e # "link"
          BY <1>8, <4>3 DEF Rank
        <5> QED
          BY <1>2, <4>2, <4>3, <5>1 DEF PassInv, LinkAgain, Queued
      <4>4. CASE i = n /\ e = "command"
        BY <2>2, <4>2, <4>4 DEF Kinds
      <4> QED
        BY <4>1, <4>3, <4>4
    <3> QED
      BY <2>4, <3>1 DEF LinkAgain
  <2> QED
    BY <1>2, <2>5, <2>6, <2>7, <2>8 DEF PassInv, Asleep, Handling, SlicesLast
<1> QED
  BY <1>1, <1>9, <1>10 DEF Queued

\* The handler "command" asks for the link layer once; there is none behind it.
LEMMA CommandPass ==
  ASSUME IInv, PassInv, Queued, pc = "handler", Contents[1] = "command" PROVE PassInv'
<1>1. Rest = <<"link">> /\ Rest' = <<>> /\ pc' = "handler"
  BY DEF Queued, PassInv, Handling
<1>2. Contents # <<>> /\ 1 \in Where("command")
  BY Typed, EmptySeq DEF Where, Entries
<1>3. CASE Contents' = Contents
  <2>1. \A f \in Kinds : Where(f)' = Where(f)
    BY <1>3, SameWhere
  <2>2. /\ Where("link")' = Where("link") /\ Where("command")' = Where("command")
        /\ Where("uart")' = Where("uart") /\ Where("slice")' = Where("slice")
    BY <2>1 DEF Kinds
  <2>3. InOrder'
    BY <2>1, <2>2 DEF PassInv, InOrder, Kinds
  <2>4. LinkAgain'
    BY <1>1, <2>2 DEF PassInv, LinkAgain
  <2> QED
    BY <1>1, <1>3, <2>2, <2>3, <2>4
       DEF PassInv, Asleep, Looping, Handling, SlicesLast
<1>4. CASE Contents' = Append(Contents, "link")
  <2> DEFINE n == Len(Contents) + 1
  <2>1. /\ \A f \in Kinds : f # "link" => Where(f)' = Where(f)
        /\ \A f \in Kinds : f = "link" => Where(f)' = Where(f) \cup {n}
        /\ Contents'[1] = "command"
    BY <1>2, <1>4, AppendedWhere DEF Handlers
  <2>2. /\ Where("link")' = Where("link") \cup {n}
        /\ Where("command")' = Where("command")
        /\ Where("uart")' = Where("uart") /\ Where("slice")' = Where("slice")
    BY <2>1 DEF Kinds
  <2>3. Where("link") = {}
    <3>1. \A j \in Where("link") : j < 1 /\ j \in Nat /\ j >= 1
      BY <1>1, <1>2, WhereNat DEF PassInv, LinkAgain, Kinds
    <3> QED
      BY <3>1
  <2>4. InOrder'
    BY <2>1, <2>2 DEF PassInv, InOrder, Kinds
  <2>5. LinkAgain'
    <3>1. \A i \in Where("command") : i = 1
      BY <1>2 DEF PassInv, InOrder
    <3> QED
      BY <1>1, <2>2, <2>3, <3>1 DEF LinkAgain
  <2>6. SlicesLast'
    <3>1. Where("slice") = {}
      BY <1>2 DEF PassInv, SlicesLast
    <3> QED
      BY <2>2, <3>1 DEF SlicesLast
  <2> QED
    BY <1>1, <2>1, <2>4, <2>5, <2>6 DEF PassInv, Asleep, Looping, Handling
<1> QED
  BY <1>1, <1>3, <1>4 DEF Queued

\* The handler "uart" puts slices behind all other events of the main loop.
LEMMA UartPass ==
  ASSUME IInv, PassInv, Queued, pc = "handler", Contents[1] = "uart" PROVE PassInv'
<1>1. /\ Rest \in Seq(Handlers) /\ Rest # <<>> /\ Rest' = Tail(Rest)
      /\ Len(Rest') = Len(Rest) - 1 /\ Len(Rest) \in Nat /\ Len(Rest') \in Nat
      /\ \A k \in DOMAIN Rest' : k + 1 \in DOMAIN Rest /\ Rest'[k] = Rest[k + 1]
      /\ 1 \in DOMAIN Rest /\ Head(Rest) = Rest[1]
  BY Typed DEF Queued
<1>2. pc' = "handler"
  BY DEF Queued
<1>3. /\ \A k \in DOMAIN Rest : Rest[k] = "slice"
      /\ Cardinality(Where("slice")) + Len(Rest) <= MaxSlices
  BY DEF PassInv, Handling
<1>4. Contents # <<>> /\ 1 \in Where("uart")
  BY Typed, EmptySeq DEF Where, Entries
<1>5. /\ IsFiniteSet(Where("slice")) /\ Cardinality(Where("slice")) \in Nat
      /\ MaxSlices \in Nat
  BY SliceCount, FrameSlices, SchedulerAssumption
<1>6. CASE Contents' = Contents
  <2>1. \A f \in Kinds : Where(f)' = Where(f)
    BY <1>6, SameWhere
  <2>2. /\ Where("link")' = Where("link") /\ Where("command")' = Where("command")
        /\ Where("uart")' = Where("uart") /\ Where("slice")' = Where("slice")
    BY <2>1 DEF Kinds
  <2>3. Handling'
    <3>1. Cardinality(Where("slice")) + Len(Rest') <= MaxSlices
      BY <1>1, <1>3, <1>5
    <3>2. \A k \in DOMAIN Rest' : Rest'[k] = "slice"
      BY <1>1, <1>3
    <3> QED
      BY <1>6, <2>2, <3>1, <3>2 DEF Handling, MaxSlices, LoopNeeds
  <2>4. InOrder'
    BY <2>1, <2>2 DEF PassInv, InOrder, Kinds
  <2>5. LinkAgain'
    <3>1. \A i \in Where("command") : i # 1
      BY DEF Where
    <3> QED
      BY <1>2, <2>2, <3>1 DEF PassInv, LinkAgain
  <2> QED
    BY <1>2, <1>6, <2>2, <2>3, <2>4, <2>5 DEF PassInv, Asleep, Looping, SlicesLast
<1>7. CASE Contents' = Append(Contents, "slice")
  <2> DEFINE n == Len(Contents) + 1
  <2>1. /\ \A f \in Kinds : f # "slice" => Where(f)' = Where(f)
        /\ \A f \in Kinds : f = "slice" => Where(f)' = Where(f) \cup {n}
        /\ Contents'[1] = "uart"
    BY <1>4, <1>7, AppendedWhere DEF Handlers
  <2>2. /\ Where("slice")' = Where("slice") \cup {n}
        /\ Where("command")' = Where("command")
        /\ Where("uart")' = Where("uart") /\ Where("link")' = Where("link")
    BY <2>1 DEF Kinds
  <2>3. n \notin Where("slice")
    BY Typed DEF Where, Entries
  <2>4. Cardinality(Where("slice"))' = Cardinality(Where("slice")) + 1
    BY <1>5, <2>2, <2>3, FS_AddElement
  <2>5. Handling'
    <3>1. Cardinality(Where("slice"))' + Len(Rest') <= MaxSlices
      BY <1>1, <1>3, <1>5, <2>4
    <3>2. \A k \in DOMAIN Rest' : Rest'[k] = "slice"
      BY <1>1, <1>3
    <3> QED
      BY <2>1, <3>1, <3>2 DEF Handling, MaxSlices, LoopNeeds
  <2>6. InOrder'
    BY <2>1, <2>2 DEF PassInv, InOrder, Kinds
  <2>7. LinkAgain'
    <3>1. \A i \in Where("command") : i # 1
      BY DEF Where
    <3> QED
      BY <1>2, <2>2, <3>1 DEF PassInv, LinkAgain
  <2>8. SlicesLast'
    <3>1. \A i \in Where("uart") : i = 1
      BY <1>4 DEF PassInv, InOrder
    <3>2. Where("command") = {}
      <4>1. \A j \in Where("command") : j < 1 /\ j \in Nat /\ j >= 1
        BY <1>4, WhereNat DEF PassInv, InOrder, Kinds
      <4> QED
        BY <4>1
    <3> QED
      BY <1>2, <2>1, <2>2, <3>1, <3>2 DEF SlicesLast
  <2> QED
    BY <1>2, <2>5, <2>6, <2>7, <2>8 DEF PassInv, Asleep, Looping
<1> QED
  BY <1>1, <1>3, <1>6, <1>7 DEF Queued

\* The invariant of the passes holds at the start and after every step.
LEMMA PassStart == Init => PassInv
<1> SUFFICES ASSUME Init PROVE PassInv
  OBVIOUS
<1>1. IInv /\ Contents = <<>> /\ Rest = <<>> /\ pc = "sleep"
  BY InitInv, EmptyContents DEF Init, Rest
<1>2. Entries = {}
  BY <1>1 DEF Entries
<1>3. \A f \in Kinds : Where(f) = {}
  BY <1>2 DEF Where
<1>4. InOrder
  BY <1>3 DEF InOrder, Kinds
<1> QED
  BY <1>1, <1>2, <1>3, <1>4
     DEF PassInv, Asleep, Looping, Handling, LinkAgain, SlicesLast, Kinds

LEMMA PassStep == IInv /\ IInv' /\ PassInv /\ [Next]_vars => PassInv'
<1> SUFFICES ASSUME IInv, IInv', PassInv, [Next]_vars PROVE PassInv'
  OBVIOUS
<1>1. ASSUME Queued, pc = "handler" PROVE Contents[1] \in {"command", "uart"}
  BY <1>1 DEF Queued, PassInv, Handling
<1>2. CASE Queued
  BY <1>1, <1>2, LoopPass, CommandPass, UartPass DEF Queued
<1> QED
  BY <1>2, Moves, QuietPass, BegunPass, EndedPass, RunPass, DonePass, SleepsPass

\* Sizes of sets.
LEMMA AtMostOne ==
  ASSUME NEW S, \A i, j \in S : i = j
  PROVE  IsFiniteSet(S) /\ Cardinality(S) \in 0..1
<1>1. CASE S = {}
  BY <1>1, FS_EmptySet
<1>2. ASSUME NEW i \in S PROVE IsFiniteSet(S) /\ Cardinality(S) \in 0..1
  <2>1. S = {i}
    OBVIOUS
  <2> QED
    BY <2>1, FS_Singleton
<1> QED
  BY <1>1, <1>2

LEMMA UnionSize ==
  ASSUME NEW S, IsFiniteSet(S), NEW T, IsFiniteSet(T)
  PROVE  /\ IsFiniteSet(S \cup T)
         /\ Cardinality(S \cup T) \in Nat /\ Cardinality(S) \in Nat /\ Cardinality(T) \in Nat
         /\ Cardinality(S \cup T) <= Cardinality(S) + Cardinality(T)
<1>1. IsFiniteSet(S \cap T) /\ IsFiniteSet(S \cup T)
  BY FS_Subset, FS_Union
<1>2. /\ Cardinality(S) \in Nat /\ Cardinality(T) \in Nat
      /\ Cardinality(S \cap T) \in Nat /\ Cardinality(S \cup T) \in Nat
  BY <1>1, FS_CardinalityType
<1>3. Cardinality(S \cup T) = Cardinality(S) + Cardinality(T) - Cardinality(S \cap T)
  BY FS_Union
<1> QED
  BY <1>1, <1>2, <1>3

\* The entries that are not a timer's, and how many there can be while there is
\* still something to put.
Others == Where("link") \cup Where("command") \cup Where("uart")
            \cup Where("status") \cup Where("slice")

LEMMA OthersBound ==
  ASSUME IInv, PassInv, Rest # <<>>
  PROVE  IsFiniteSet(Others) /\ Cardinality(Others) \in Nat /\ Cardinality(Others) < LoopNeeds
<1>1. pc \in {"loop", "handler"} /\ Len(Rest) \in Nat /\ Len(Rest) > 0
  BY Typed, EmptySeq DEF IInv, TypeOK, Pcs
<1>2. MaxSlices \in Nat /\ MaxSlices >= 2 /\ LoopNeeds = 3 + MaxSlices
  <2>1. PICK l \in FrameLengths : TRUE
    BY SchedulerAssumption
  <2>2. MaxSlices \in Nat /\ Len(UartSlices(l)) <= MaxSlices
    BY FrameSlices
  <2>3. l \in Nat /\ l >= 4 /\ SliceSize \in Nat \ {0}
    BY SchedulerAssumption
  <2>4. (l - 2) \div SliceSize \in Nat
    BY <2>3
  <2>5. Len(UartSlices(l)) = 2 + (l - 2) \div SliceSize
    BY <2>4 DEF UartSlices
  <2>6. LoopNeeds \in Nat
    BY NeedsNat
  <2> QED
    BY <2>2, <2>4, <2>5, <2>6 DEF MaxSlices
<1>3. /\ IsFiniteSet(Where("slice")) /\ Cardinality(Where("slice")) \in Nat
      /\ Where("slice") = {} => Cardinality(Where("slice")) = 0
  BY SliceCount
<1>4. \A e \in {"command", "uart", "status"} :
         IsFiniteSet(Where(e)) /\ Cardinality(Where(e)) \in 0..1
  BY AtMostOne DEF PassInv, InOrder
<1>5. Where("command") = {} => Cardinality(Where("command")) = 0
  BY FS_EmptySet
<1>6. /\ \A i, j \in Where("link") : i = j
      /\ \/ Where("slice") = {}
         \/ Where("command") = {} /\ Cardinality(Where("slice")) < MaxSlices
  <2>1. CASE pc = "loop"
    <3>1. \A i \in Entries : Contents[i] \in Interrupts \cup DOMAIN Rank
      BY <2>1 DEF PassInv, Looping
    <3>2. Where("slice") = {}
      BY <3>1, Disjoint DEF Where, Rank
    <3> QED
      BY <2>1, <3>2 DEF PassInv, Looping
  <2>2. CASE pc = "handler" /\ Contents[1] = "command"
    <3>1. 1 \in Where("command")
      BY <2>2, Typed, EmptySeq DEF Where, Entries
    <3>2. \A j \in Where("link") : j < 1 /\ j \in Nat /\ j >= 1
      BY <3>1, WhereNat DEF PassInv, LinkAgain, Kinds
    <3>3. Where("slice") = {}
      BY <2>2, <3>1 DEF PassInv, SlicesLast
    <3> QED
      BY <3>2, <3>3
  <2>3. CASE pc = "handler" /\ Contents[1] = "uart"
    <3>1. 1 \in Where("uart")
      BY <2>3, Typed, EmptySeq DEF Where, Entries
    <3>2. \A j \in Where("command") : j < 1 /\ j \in Nat /\ j >= 1
      BY <3>1, WhereNat DEF PassInv, InOrder, Kinds
    <3>3. \A j \in Where("link") : 1 < j
      BY <2>3, WhereNat DEF Where, Entries, Kinds
    <3>4. \A j, k \in Where("link") : j = k
      BY <3>1, <3>3 DEF PassInv, LinkAgain
    <3>5. Cardinality(Where("slice")) + Len(Rest) <= MaxSlices
      BY <2>3 DEF PassInv, Handling
    <3> QED
      BY <1>1, <1>2, <1>3, <3>2, <3>4, <3>5
  <2> QED
    BY <1>1, <2>1, <2>2, <2>3 DEF PassInv, Handling
<1>7. IsFiniteSet(Where("link")) /\ Cardinality(Where("link")) \in 0..1
  BY <1>6, AtMostOne
<1> DEFINE A == Where("link") \cup Where("command")
           B == A \cup Where("uart")
           C == B \cup Where("status")
<1>8. IsFiniteSet(A) /\ Cardinality(A) \in Nat
      /\ Cardinality(A) <= Cardinality(Where("link")) + Cardinality(Where("command"))
  BY <1>4, <1>7, UnionSize
<1> HIDE DEF A
<1>9. IsFiniteSet(B) /\ Cardinality(B) \in Nat
      /\ Cardinality(B) <= Cardinality(A) + Cardinality(Where("uart"))
  BY <1>4, <1>8, UnionSize
<1> HIDE DEF B
<1>10. IsFiniteSet(C) /\ Cardinality(C) \in Nat
       /\ Cardinality(C) <= Cardinality(B) + Cardinality(Where("status"))
  BY <1>4, <1>9, UnionSize
<1> HIDE DEF C
<1>11. IsFiniteSet(Others) /\ Cardinality(Others) \in Nat
       /\ Cardinality(Others) <= Cardinality(C) + Cardinality(Where("slice"))
  <2>1. Others = C \cup Where("slice")
    BY DEF Others, A, B, C
  <2> QED
    BY <1>3, <1>10, <2>1, UnionSize
<1>12. Cardinality(Where("link")) + Cardinality(Where("command"))
          + Cardinality(Where("slice")) < 1 + MaxSlices
  <2>1. Cardinality(Where("command")) \in 0..1
    BY <1>4
  <2> QED
    BY <1>2, <1>3, <1>5, <1>6, <1>7, <2>1
<1>13. Cardinality(Where("uart")) \in 0..1 /\ Cardinality(Where("status")) \in 0..1
       /\ Cardinality(Where("command")) \in 0..1
  BY <1>4
<1> QED
  BY <1>2, <1>3, <1>7, <1>8, <1>9, <1>10, <1>11, <1>12, <1>13

(***************************************************************************)
(* The theorems.                                                           *)
(***************************************************************************)

\* Every variable of the scheduler holds a value of its type.
THEOREM TypeCorrect == Spec => []TypeOK
<1>1. IInv => TypeOK
  BY DEF IInv
<1> QED
  BY <1>1, InitInv, StepInv, PTL DEF Spec

\* The ring of app_scheduler.c is a bounded first-in first-out queue: no event
\* that was accepted is lost, overtaken or run twice, and an entry is not used
\* again before its handler has returned, however interrupts interleave.
THEOREM RingIsQueue == Spec => ImplementsQueue
<1>1. Init => Q!Init
  <2> SUFFICES ASSUME Init PROVE Q!Init
    OBVIOUS
  <2>1. Contents = <<>>
    BY InitInv, EmptyContents DEF Init
  <2> QED
    BY <2>1 DEF Init, Q!Init
<1> QED
  BY <1>1, InitInv, StepInv, StepRefines, PTL DEF Spec, ImplementsQueue, Q!Safety

\* A frame has left completely before UartDataSendrecive runs again.
THEOREM FramesLeaveWhole == Spec => []FrameGone
<1>1. IInv /\ PassInv => FrameGone
  <2> SUFFICES ASSUME IInv, PassInv, pc = "execute", ~QueueEmpty, headers[startIx] = "uart",
                      NEW i \in 1..Used
               PROVE  Contents[i] # "slice"
    BY DEF FrameGone
  <2>1. event_index = NoSlot
    BY DEF IInv, TypeOK
  <2>2. Contents[1] = "uart"
    BY <2>1, FirstEvent DEF QueueEmpty
  <2>3. Entries = 1..Used
    BY ContentsType DEF ContentsOK, Entries
  <2>4. 1 \in Where("uart")
    BY <2>2, Typed, EmptyContents, EmptySeq DEF QueueEmpty, Where, Entries
  <2>5. i \notin Where("slice")
    BY <2>4 DEF PassInv, SlicesLast
  <2> QED
    BY <2>3, <2>5 DEF Where
<1> QED
  BY <1>1, InitInv, StepInv, PassStart, PassStep, PTL DEF Spec

\* No event of the main loop or of a frame is refused, unless timer events hold
\* more entries than the others leave: app_sched_event_put's result, which no
\* caller looks at, is success.
THEOREM NothingIsRefused == Spec => []NothingRefused
<1>1. IInv /\ PassInv => NothingRefused
  <2> SUFFICES ASSUME IInv, PassInv, toPut # <<>>, event_index = NoSlot, QueueFull
               PROVE  TimerEvents > QueueSize - LoopNeeds
    BY DEF NothingRefused
  <2> DEFINE T == {i \in 1..Used : Contents[i] \in Interrupts}
  <2>1. IsFiniteSet(Others) /\ Cardinality(Others) \in Nat /\ Cardinality(Others) < LoopNeeds
    BY OthersBound DEF Rest
  <2>2. Used = QueueSize /\ QueueSize \in Nat
    BY RingShape, SchedulerAssumption DEF QueueFull, Used, IInv, TypeOK
  <2>3. 1..Used \subseteq T \cup Others
    <3>1. \A i \in 1..Used : Contents[i] \in Handlers
      BY ContentsType DEF ContentsOK
    <3> QED
      BY <3>1, ContentsType DEF ContentsOK, Others, Where, Entries, Handlers
  <2>4. IsFiniteSet(1..Used) /\ Cardinality(1..Used) = QueueSize
    BY <2>2, FS_Interval
  <2>5. IsFiniteSet(T)
    BY <2>4, FS_Subset
  <2>6. IsFiniteSet(T \cup Others) /\ Cardinality(T) \in Nat /\ Cardinality(T \cup Others) \in Nat
        /\ Cardinality(T \cup Others) <= Cardinality(T) + Cardinality(Others)
    BY <2>1, <2>5, UnionSize
  <2>7. QueueSize <= Cardinality(T \cup Others)
    BY <2>3, <2>4, <2>6, FS_Subset
  <2>8. LoopNeeds \in Nat
    BY NeedsNat
  <2>9. TimerEvents = Cardinality(T)
    BY DEF TimerEvents
  <2> HIDE DEF T
  <2> QED
    BY <2>1, <2>2, <2>6, <2>7, <2>8, <2>9
<1> QED
  BY <1>1, InitInv, StepInv, PassStart, PassStep, PTL DEF Spec
=============================================================================
