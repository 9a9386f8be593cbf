--------------------------- MODULE Fds_store_proofs ---------------------------
(***************************************************************************)
(* Proof that Fds implements RecordStore while nothing is collected: every *)
(* step maps to a record that appears because it was asked for, a record   *)
(* that disappears because its deletion was, or a change of the requests.  *)
(* Beyond the invariant of Fds_proofs this takes that the data of a record *)
(* is the data of the write that asked for it, all the way through the     *)
(* queue of chunks (DataOK).                                               *)
(***************************************************************************)
EXTENDS Fds_proofs

----------------------------------------------------------------------------
\* Flash is a record store.  The records are whole and were asked for: the data
\* of a write is under way from its place in the chunk queue to its slot.

Genuine ==
  \A a \in Data : \A i \in Valid(a) :
    Rec(a, i).id # 0 /\ Rec(a, i).file \in Files /\ Rec(a, i).data = Rec(a, i).id

Named ==
  \A i \in 1 .. Len(m_op_queue) :
    m_op_queue[i].code \in Writes => m_op_queue[i].file \in Files

\* What fstorage is to store.
Incoming == request.page.recs[request.slot]

Carries(op) ==
  op.code \in Writes =>
    /\ op.step = "HEADER_FINALIZE" /\ turn = "ok" => New(op).data = op.id
    /\ op.step = "HEADER_FINALIZE" /\ turn = "none" => Incoming.data = op.id
    /\ request.kind = "finalize" => Incoming.file = op.file /\ Incoming.data = op.id

\* The chunks are queued in the order of the writes they belong to.
Earlier(id) == {x \in Holding : x < id}

ChunkOf(id) ==
  m_chunk_queue.chunk[(m_chunk_queue.rp + Cardinality(Earlier(id))) % ChunkQueueSize]

ChunksOK ==
  /\ m_chunk_queue.count = Cardinality(Holding)
  /\ \A id \in Holding : ChunkOf(id) = id

DataOK == Genuine /\ Named /\ (m_op_queue # <<>> => Carries(p_op)) /\ ChunksOK

----------------------------------------------------------------------------
\* The chunk queue.

LEMMA Modulo ==
  ASSUME NEW n \in Nat, n >= 1, NEW a \in 0 .. n - 1
  PROVE  a % n = a /\ (a + n) % n = a
OBVIOUS

\* The k-th place of a ring, from one that is in range.
LEMMA Place ==
  ASSUME NEW n \in Nat, n >= 1, NEW r \in 0 .. n - 1, NEW k \in 0 .. n - 1
  PROVE  (r + k) % n = IF r + k < n THEN r + k ELSE r + k - n
<1>1. CASE r + k < n
  BY <1>1, Modulo
<1>2. CASE r + k >= n
  <2>1. PICK a \in 0 .. n - 1 : r + k = a + n
    <3>1. (r + k) - n \in 0 .. n - 1 /\ r + k = ((r + k) - n) + n
      BY <1>2
    <3> QED
      BY <3>1
  <2> QED
    BY <1>2, <2>1, Modulo
<1> QED
  BY <1>1, <1>2

\* Two places are different.
LEMMA Places ==
  ASSUME NEW n \in Nat, n >= 1, NEW r \in 0 .. n - 1,
         NEW k \in 0 .. n - 1, NEW l \in 0 .. n - 1, k # l
  PROVE  (r + k) % n # (r + l) % n
<1>1. (r + k) % n = IF r + k < n THEN r + k ELSE r + k - n
  BY Place
<1>2. (r + l) % n = IF r + l < n THEN r + l ELSE r + l - n
  BY Place
<1> QED
  BY <1>1, <1>2

\* The places behind the first are those of the ring that begins there.
LEMMA NextPlace ==
  ASSUME NEW n \in Nat, n >= 1, NEW r \in 0 .. n - 1, NEW k \in 1 .. n - 1,
         NEW s, s \in {r + 1, (r + 1) % n}
  PROVE  (s + (k - 1)) % n = (r + k) % n
<1>1. CASE s = r + 1
  BY <1>1
<1>2. CASE r + 1 < n
  <2>1. (r + 1) % n = r + 1
    BY <1>2, Modulo
  <2> QED
    BY <1>1, <2>1
<1>3. CASE s = (r + 1) % n /\ r + 1 = n
  <2>1. s = 0
    <3>1. (0 + n) % n = 0
      BY Modulo
    <3> QED
      BY <1>3, <3>1
  <2>2. PICK l \in 0 .. n - 1 : l = k - 1
    OBVIOUS
  <2>3. s + (k - 1) = l /\ r + k = l + n
    BY <1>3, <2>1, <2>2
  <2> QED
    BY <2>3, Modulo
<1> QED
  BY <1>1, <1>2, <1>3

\* What the invariant says of it, whatever state fds is in.
LEMMA Chunks ==
  ASSUME IInv
  PROVE  /\ Holding \subseteq Ids /\ IsFiniteSet(Holding) /\ Cardinality(Holding) \in Nat
         /\ m_chunk_queue.count \in Nat /\ m_chunk_queue.rp \in Nat
         /\ m_chunk_queue.chunk \in [0 .. ChunkQueueSize - 1 -> Ids]
<1>1. CASE OffState \/ Starting
  <2>1. m_chunk_queue = NoChunks
    BY <1>1 DEF OffState, Starting
  <2>2. m_op_queue \in Seq(OpType)
    <3>1. <<>> \in Seq(OpType)
      OBVIOUS
    <3> QED
      BY <1>1, <3>1 DEF OffState, Starting
  <2>3. /\ m_chunk_queue.count = 0 /\ m_chunk_queue.rp = 0
        /\ m_chunk_queue.chunk = [i \in 0 .. ChunkQueueSize - 1 |-> 0]
    BY <2>1 DEF NoChunks
  <2>4. 0 \in Ids
    BY Sizes DEF Ids
  <2> QED
    BY <2>2, <2>3, <2>4, SetsFinite
<1>2. CASE Running
  <2>1. m_op_queue \in Seq(OpType)
    BY <1>2 DEF Running, QueueOK
  <2> QED
    BY <1>2, <2>1, Sizes, SetsFinite DEF Running, AccountsOK
<1> QED
  BY <1>1, <1>2 DEF IInv

LEMMA EarlierCount ==
  ASSUME IInv, NEW id \in Ids
  PROVE  /\ IsFiniteSet(Earlier(id)) /\ Cardinality(Earlier(id)) \in Nat
         /\ Cardinality(Earlier(id)) <= Cardinality(Holding)
         /\ id \in Holding => Cardinality(Earlier(id)) < Cardinality(Holding)
<1>1. Holding \subseteq Ids /\ IsFiniteSet(Holding) /\ Cardinality(Holding) \in Nat
  BY Chunks
<1>2. Earlier(id) \subseteq Holding /\ id \notin Earlier(id)
  BY Sizes DEF Earlier, Ids
<1>3. /\ IsFiniteSet(Earlier(id)) /\ Cardinality(Earlier(id)) \in Nat
      /\ Cardinality(Earlier(id)) <= Cardinality(Holding)
  BY <1>1, <1>2, CountLess, IdsFinite
<1>4. ASSUME id \in Holding PROVE Cardinality(Earlier(id)) < Cardinality(Holding)
  <2>1. Earlier(id) \subseteq Holding \ {id} /\ Holding \ {id} \subseteq Ids
    BY <1>1, <1>2
  <2>2. /\ Cardinality(Earlier(id)) <= Cardinality(Holding \ {id})
        /\ Cardinality(Holding \ {id}) \in Nat
    BY <2>1, CountLess
  <2>3. Cardinality(Holding \ {id}) = Cardinality(Holding) - 1
    BY <1>1, <1>4, WithMember
  <2> QED
    BY <1>1, <1>3, <2>2, <2>3
<1> QED
  BY <1>3, <1>4

LEMMA RingSame ==
  ASSUME ChunksOK, Holding' = Holding, m_chunk_queue' = m_chunk_queue
  PROVE  ChunksOK'
<1>1. \A id : Earlier(id)' = Earlier(id)
  BY DEF Earlier
<1> QED
  BY <1>1 DEF ChunksOK, ChunkOf

\* A chunk more, of a write that is newer than all others.
LEMMA RingMore ==
  ASSUME IInv, ChunksOK, m_chunk_queue.rp < ChunkQueueSize,
         m_chunk_queue.count < ChunkQueueSize,
         NEW id \in Ids, \A x \in Holding : x < id, Holding' = Holding \cup {id},
         m_chunk_queue'.count = m_chunk_queue.count + 1,
         m_chunk_queue'.rp = m_chunk_queue.rp,
         m_chunk_queue'.chunk = [m_chunk_queue.chunk EXCEPT
             ![(m_chunk_queue.rp + m_chunk_queue.count) % ChunkQueueSize] = id]
  PROVE  ChunksOK'
<1>1. /\ Holding \subseteq Ids /\ IsFiniteSet(Holding) /\ Cardinality(Holding) \in Nat
      /\ m_chunk_queue.chunk \in [0 .. ChunkQueueSize - 1 -> Ids]
  BY Chunks
<1>2. PICK n, r, c : n = ChunkQueueSize /\ r = m_chunk_queue.rp /\ c = m_chunk_queue.count
  OBVIOUS
<1>3. n \in Nat /\ n >= 1 /\ r \in 0 .. n - 1 /\ c \in 0 .. n - 1 /\ c = Cardinality(Holding)
  BY <1>2, Chunks, Sizes DEF ChunksOK
<1>4. id \notin Holding /\ Ids \subseteq Nat
  BY Sizes DEF Ids
<1>5. Cardinality(Holding') = c + 1
  BY <1>1, <1>3, <1>4, WithMore
<1>6. (r + c) % n \in 0 .. n - 1
  <2>1. r + c \in Nat
    BY <1>3
  <2> QED
    BY <1>3, <2>1, Wraps
<1>7. ASSUME NEW x \in Holding PROVE ChunkOf(x)' = x
  <2>1. Earlier(x)' = Earlier(x)
    BY <1>1, <1>4 DEF Earlier
  <2>2. PICK k : k = Cardinality(Earlier(x))
    OBVIOUS
  <2>3. k \in 0 .. n - 1 /\ k # c
    BY <1>1, <1>3, <2>2, EarlierCount
  <2>4. (r + k) % n # (r + c) % n /\ (r + k) % n \in 0 .. n - 1
    <3>1. r + k \in Nat
      BY <1>3, <2>3
    <3> QED
      BY <1>3, <2>3, <3>1, Places, Wraps
  <2>5. m_chunk_queue.chunk[(r + k) % n] = x
    BY <1>2, <2>2 DEF ChunksOK, ChunkOf
  <2>6. m_chunk_queue'.chunk[(r + k) % n] = x
    BY <1>1, <1>2, <2>4, <2>5
  <2> QED
    BY <1>2, <2>1, <2>2, <2>6 DEF ChunkOf
<1>8. ChunkOf(id)' = id
  <2>1. Earlier(id)' = Holding
    BY <1>4 DEF Earlier
  <2>2. m_chunk_queue'.chunk[(r + c) % n] = id
    BY <1>1, <1>2, <1>6
  <2> QED
    BY <1>2, <1>3, <2>1, <2>2 DEF ChunkOf
<1> QED
  BY <1>2, <1>5, <1>7, <1>8 DEF ChunksOK

\* The first chunk is where the read index points.
LEMMA RingFirst ==
  ASSUME IInv, ChunksOK, m_chunk_queue.rp < ChunkQueueSize,
         NEW id \in Holding, \A x \in Holding : x = id \/ id < x
  PROVE  m_chunk_queue.chunk[m_chunk_queue.rp] = id
<1>1. Holding \subseteq Nat /\ m_chunk_queue.rp \in 0 .. ChunkQueueSize - 1
  BY Chunks, Sizes DEF Ids
<1>2. \A x \in Holding : ~(x < id)
  BY <1>1
<1>3. Earlier(id) = {}
  BY <1>2 DEF Earlier
<1>4. Cardinality(Earlier(id)) = 0
  BY <1>3, EmptyCounts
<1>5. (m_chunk_queue.rp + 0) % ChunkQueueSize = m_chunk_queue.rp
  <2>1. m_chunk_queue.rp % ChunkQueueSize = m_chunk_queue.rp
    BY <1>1, Sizes, Modulo
  <2>2. m_chunk_queue.rp + 0 = m_chunk_queue.rp
    BY <1>1
  <2> QED
    BY <2>1, <2>2
<1> QED
  BY <1>4, <1>5 DEF ChunksOK, ChunkOf

\* The first chunk is taken.
LEMMA RingLess ==
  ASSUME IInv, ChunksOK, m_chunk_queue.rp < ChunkQueueSize,
         m_chunk_queue.count <= ChunkQueueSize,
         NEW id \in Holding, \A x \in Holding : x = id \/ id < x, Holding' = Holding \ {id},
         m_chunk_queue'.count = m_chunk_queue.count - 1,
         m_chunk_queue'.rp \in {m_chunk_queue.rp + 1, (m_chunk_queue.rp + 1) % ChunkQueueSize},
         m_chunk_queue'.chunk = m_chunk_queue.chunk
  PROVE  ChunksOK'
<1>1. /\ Holding \subseteq Ids /\ IsFiniteSet(Holding) /\ Cardinality(Holding) \in Nat
      /\ Ids \subseteq Nat
  BY Chunks, Sizes DEF Ids
<1>2. PICK n, r, s : n = ChunkQueueSize /\ r = m_chunk_queue.rp /\ s = m_chunk_queue'.rp
  OBVIOUS
<1>3. n \in Nat /\ n >= 1 /\ r \in 0 .. n - 1 /\ Cardinality(Holding) <= n
  BY <1>2, Chunks, Sizes DEF ChunksOK
<1>4. m_chunk_queue'.count = Cardinality(Holding')
  BY <1>1, WithMember DEF ChunksOK
<1>5. ASSUME NEW x \in Holding' PROVE ChunkOf(x)' = x
  <2>1. x \in Holding /\ id < x /\ x \in Ids
    BY <1>1
  <2>2. Earlier(x)' = Earlier(x) \ {id} /\ id \in Earlier(x)
    BY <2>1 DEF Earlier
  <2>3. PICK k : k = Cardinality(Earlier(x))
    OBVIOUS
  <2>4. k \in 1 .. n - 1 /\ Cardinality(Earlier(x)') = k - 1
    <3>1. k \in Nat /\ k < Cardinality(Holding) /\ IsFiniteSet(Earlier(x))
      BY <2>1, <2>3, EarlierCount
    <3>2. k >= 1 /\ Cardinality(Earlier(x)') = k - 1
      BY <2>2, <2>3, <3>1, WithMember
    <3> QED
      BY <1>1, <1>3, <3>1, <3>2
  <2>5. (s + (k - 1)) % n = (r + k) % n
    BY <1>2, <1>3, <2>4, NextPlace
  <2>6. m_chunk_queue.chunk[(r + k) % n] = x
    BY <1>2, <2>1, <2>3 DEF ChunksOK, ChunkOf
  <2> QED
    BY <1>2, <2>4, <2>5, <2>6 DEF ChunkOf
<1> QED
  BY <1>4, <1>5 DEF ChunksOK

----------------------------------------------------------------------------
\* The operation that is executed keeps the data whole.

\* The chunks behind the one of the operation that is executed.
Later == {m_op_queue[i].id : i \in {j \in 2 .. Len(m_op_queue) : HasChunk(m_op_queue[j])}}

HeadHolds == turn # "event" /\ HasChunk(p_op)

LEMMA HoldingIs ==
  m_op_queue \in Seq(OpType) /\ m_op_queue # <<>> =>
    Holding = IF HeadHolds THEN Later \cup {p_op.id} ELSE Later
<1> SUFFICES ASSUME m_op_queue \in Seq(OpType), m_op_queue # <<>>
             PROVE  Holding = IF HeadHolds THEN Later \cup {p_op.id} ELSE Later
  OBVIOUS
<1>1. PICK n : n = Len(m_op_queue)
  OBVIOUS
<1>2. n \in Nat /\ n >= 1 /\ 1 .. n = {1} \cup 2 .. n
  BY <1>1
<1>3. ToDo = IF turn = "event" THEN 2 .. n ELSE 1 .. n
  BY <1>1 DEF ToDo
<1> QED
  BY <1>1, <1>2, <1>3 DEF Holding, Later, HeadHolds, p_op

LEMMA HoldingNext ==
  (m_op_queue \in Seq(OpType) /\ m_op_queue # <<>> =>
     Holding = IF HeadHolds THEN Later \cup {p_op.id} ELSE Later)'
BY HoldingIs, PTL

\* The chunk of the operation that is executed is the first.
LEMMA LeastHeld ==
  ASSUME IInv, PagesOK, Running, m_op_queue # <<>>, HeadHolds
  PROVE  /\ p_op.id \in Holding /\ Holding \ {p_op.id} = Later
         /\ \A x \in Holding : x = p_op.id \/ p_op.id < x
<1>1. /\ m_op_queue \in Seq(OpType) /\ 1 \in 1 .. Len(m_op_queue) /\ m_op_queue[1] = p_op
      /\ Len(m_op_queue) \in Nat /\ p_op.code \in Writes
  BY HomeFacts DEF HeadHolds, HasChunk, Writes
<1>2. Holding = Later \cup {p_op.id}
  BY <1>1, HoldingIs
<1>3. \A x \in Later : p_op.id < x
  <2> TAKE x \in Later
  <2>1. PICK j \in 2 .. Len(m_op_queue) : HasChunk(m_op_queue[j]) /\ x = m_op_queue[j].id
    BY DEF Later
  <2>2. j \in 1 .. Len(m_op_queue) /\ 1 < j /\ m_op_queue[j].code \in Writes
    BY <1>1, <2>1 DEF HasChunk, Writes
  <2> QED
    BY <1>1, <2>1, <2>2 DEF Running, QueueOK
<1>4. p_op.id \in Nat
  BY <1>1, HomeFacts, Sizes DEF OpType, Ids
<1> QED
  BY <1>2, <1>3, <1>4

ChunkIsTaken ==
  ChunkTaken /\ m_chunk_queue'.rp \in {m_chunk_queue.rp + 1, (m_chunk_queue.rp + 1) % ChunkQueueSize}

LEMMA HeadData ==
  ASSUME IInv, DataOK, PagesOK, Running, turn = "ok", m_op_queue # <<>>,
         m_chunk_queue.rp < ChunkQueueSize, flash' = flash,
         NEW op, Goes(op), SameOp(op, p_op), Carries(op)',
         \/ m_chunk_queue' = m_chunk_queue
            /\ (HasChunk(p_op) <=> turn' # "event" /\ HasChunk(op))
         \/ ChunkIsTaken /\ HasChunk(p_op) /\ ~(turn' # "event" /\ HasChunk(op))
  PROVE  DataOK'
<1>1. /\ m_op_queue \in Seq(OpType) /\ Len(m_op_queue) \in Nat /\ 1 \in 1 .. Len(m_op_queue)
      /\ m_op_queue[1] = p_op
  BY HomeFacts
<1>2. /\ m_op_queue' \in Seq(OpType) /\ m_op_queue' # <<>> /\ p_op' = op
      /\ Len(m_op_queue') = Len(m_op_queue)
      /\ \A i \in 2 .. Len(m_op_queue) : m_op_queue'[i] = m_op_queue[i]
  BY <1>1 DEF Goes, p_op
<1>3. Genuine'
  BY Still DEF DataOK, Genuine
<1>4. Named'
  <2>1. \A i \in 1 .. Len(m_op_queue) : /\ m_op_queue'[i].code = m_op_queue[i].code
                                         /\ m_op_queue'[i].file = m_op_queue[i].file
    BY <1>1 DEF Goes, SameOp
  <2> QED
    BY <1>2, <2>1 DEF DataOK, Named
<1>5. Later' = Later
  <2>1. \A i \in 2 .. Len(m_op_queue) : HasChunk(m_op_queue[i])' <=> HasChunk(m_op_queue[i])
    BY <1>2 DEF HasChunk
  <2> QED
    BY <1>2, <2>1 DEF Later
<1>6. /\ Holding = IF HeadHolds THEN Later \cup {p_op.id} ELSE Later
      /\ Holding' = IF HeadHolds' THEN Later \cup {p_op.id} ELSE Later
  <2>1. Holding' = IF HeadHolds' THEN Later' \cup {p_op'.id} ELSE Later'
    BY <1>2, HoldingNext
  <2> QED
    BY <1>1, <1>2, <1>5, <2>1, HoldingIs DEF SameOp
<1>7. HeadHolds <=> HasChunk(p_op)
  BY DEF HeadHolds
<1>8. HeadHolds' <=> turn' # "event" /\ HasChunk(op)
  BY <1>2 DEF HeadHolds, HasChunk
<1>9. ChunksOK'
  <2>1. CASE m_chunk_queue' = m_chunk_queue
             /\ (HasChunk(p_op) <=> turn' # "event" /\ HasChunk(op))
    BY <1>6, <1>7, <1>8, <2>1, RingSame DEF DataOK
  <2>2. CASE ChunkIsTaken /\ HasChunk(p_op) /\ ~(turn' # "event" /\ HasChunk(op))
    <3>1. /\ p_op.id \in Holding /\ Holding \ {p_op.id} = Later
          /\ \A x \in Holding : x = p_op.id \/ p_op.id < x
      BY <1>7, <2>2, LeastHeld
    <3>2. Holding' = Holding \ {p_op.id}
      BY <1>6, <1>8, <2>2, <3>1
    <3>3. m_chunk_queue.count <= ChunkQueueSize
      BY Sizes DEF Running, AccountsOK
    <3> QED
      BY <2>2, <3>1, <3>2, <3>3, RingLess DEF DataOK, ChunkIsTaken, ChunkTaken
  <2> QED
    BY <2>1, <2>2
<1> QED
  BY <1>2, <1>3, <1>4, <1>9 DEF DataOK, Carries

LEMMA WriteTurn ==
  ASSUME IInv, write_execute
  PROVE  /\ turn = "ok" /\ request = None /\ PagesOK /\ IdsOK /\ Running /\ m_op_queue # <<>>
         /\ p_op \in OpType /\ p_op.code \in Writes /\ flash' = flash
BY TurnOk DEF write_execute, Due, Starting, Writes

\* The operation stays where it is in the queue.
LEMMA StaysAtHead ==
  ASSUME IInv, PagesOK, Running, m_op_queue # <<>>, m_op_queue' = m_op_queue
  PROVE  Goes(p_op) /\ SameOp(p_op, p_op)
BY HomeFacts DEF Goes, SameOp, p_op

\* A step that stores neither the data nor the end of the header.
LEMMA PlainData ==
  ASSUME IInv, DataOK, m_chunk_queue.rp < ChunkQueueSize, write_execute,
         NEW op, Goes(op), SameOp(op, p_op), m_chunk_queue' = m_chunk_queue,
         request'.kind # "finalize",
         op.step # "HEADER_FINALIZE", turn' # "event" \/ ~HasChunk(op),
         HasChunk(p_op) <=> HasChunk(op)
  PROVE  DataOK'
<1>1. Carries(op)'
  BY DEF Carries
<1> QED
  BY <1>1, WriteTurn, HeadData

LEMMA BeginData ==
  ASSUME IInv, DataOK, m_chunk_queue.rp < ChunkQueueSize, write_execute,
         NEW step \in {"HEADER_BEGIN", "FIND_RECORD"}, WriteBegin(step)
  PROVE  DataOK'
<1>1. PICK was, op : was = p_op /\ op = [was EXCEPT !.step = "RECORD_ID"]
  OBVIOUS
<1>2. op.step = "RECORD_ID" /\ Goes(op) /\ SameOp(op, was)
  BY <1>1, StepGoes, WriteTurn DEF WriteBegin
<1>3. /\ was.step = step /\ request'.kind = "begin" /\ turn' = "none"
      /\ m_chunk_queue' = m_chunk_queue
  BY <1>1 DEF WriteBegin, Store, Issue
<1>4. HasChunk(was) /\ HasChunk(op)
  BY <1>1, <1>2, <1>3, WriteTurn DEF HasChunk, SameOp, Writes
<1> QED
  BY <1>1, <1>2, <1>3, <1>4, PlainData

LEMMA IdData ==
  ASSUME IInv, DataOK, m_chunk_queue.rp < ChunkQueueSize, write_execute, WriteId
  PROVE  DataOK'
<1>1. PICK was, op : was = p_op /\ op = [was EXCEPT !.step = "CHUNKS"]
  OBVIOUS
<1>2. op.step = "CHUNKS" /\ Goes(op) /\ SameOp(op, was)
  BY <1>1, StepGoes, WriteTurn DEF WriteId
<1>3. /\ was.step = "RECORD_ID" /\ request'.kind = "id" /\ turn' = "none"
      /\ m_chunk_queue' = m_chunk_queue
  BY <1>1 DEF WriteId, Store, Issue
<1>4. HasChunk(was) /\ HasChunk(op)
  BY <1>1, <1>2, <1>3, WriteTurn DEF HasChunk, SameOp, Writes
<1> QED
  BY <1>1, <1>2, <1>3, <1>4, PlainData

LEMMA OldData ==
  ASSUME IInv, DataOK, m_chunk_queue.rp < ChunkQueueSize, write_execute, DeleteOld
  PROVE  DataOK'
<1>1. PICK was, op : was = p_op /\ op = [was EXCEPT !.step = "DONE"]
  OBVIOUS
<1>2. op.step = "DONE" /\ Goes(op) /\ SameOp(op, was)
  BY <1>1, StepGoes, WriteTurn DEF DeleteOld
<1>3. /\ was.step = "FLAG_DIRTY" /\ request'.kind = "dirty" /\ turn' = "none"
      /\ m_chunk_queue' = m_chunk_queue
  BY <1>1 DEF DeleteOld, FlagDirty, Store, Issue
<1>4. ~HasChunk(was) /\ ~HasChunk(op)
  BY <1>2, <1>3 DEF HasChunk
<1> QED
  BY <1>1, <1>2, <1>3, <1>4, PlainData

LEMMA DoneData ==
  ASSUME IInv, DataOK, m_chunk_queue.rp < ChunkQueueSize, write_execute, WriteDone
  PROVE  DataOK'
<1>1. /\ p_op.step = "DONE" /\ request' = None /\ m_chunk_queue' = m_chunk_queue
      /\ m_op_queue' = m_op_queue
  BY WriteTurn DEF WriteDone, Completed
<1>2. ~HasChunk(p_op) /\ request'.kind # "finalize"
  BY <1>1 DEF HasChunk, None
<1>3. Goes(p_op) /\ SameOp(p_op, p_op)
  BY <1>1, WriteTurn, StaysAtHead
<1> QED
  BY <1>1, <1>2, <1>3, PlainData

LEMMA MissingData ==
  ASSUME IInv, DataOK, m_chunk_queue.rp < ChunkQueueSize, write_execute,
         p_op.step = "FIND_RECORD", Failed("not_found"), m_op_queue' = m_op_queue
  PROVE  DataOK'
<1>1. turn' = "event" /\ request' = None /\ HasChunk(p_op)
  BY WriteTurn DEF Failed, HasChunk, Writes
<1>2. ChunkIsTaken
  <2>1. PICK r : r = m_chunk_queue.rp + 1
    OBVIOUS
  <2>2. m_chunk_queue' = [m_chunk_queue EXCEPT !.rp = r, !.count = m_chunk_queue.count - 1]
    BY <1>1, <2>1 DEF Failed, chunk_queue_skip
  <2>3. r \in Nat
    BY <2>1, WriteTurn DEF Running, AccountsOK
  <2> QED
    BY <2>1, <2>2, <2>3, ChunkSet DEF ChunkIsTaken, ChunkTaken
<1>3. Goes(p_op) /\ SameOp(p_op, p_op)
  BY WriteTurn, StaysAtHead
<1>5. PICK op : op = p_op
  OBVIOUS
<1>6. Carries(op)'
  BY <1>1, <1>5 DEF Carries, None
<1> QED
  BY <1>1, <1>2, <1>3, <1>5, <1>6, WriteTurn, HeadData

\* The slot a store fills.
LEMMA PutThere ==
  ASSUME IInv, NEW a \in Data, NEW i \in 1 .. Top(a) + 1, NEW v \in SlotType, NEW kind,
         Store(kind, a, i, v)
  PROVE  Incoming' = v /\ request'.kind = kind /\ turn' = "none"
<1>1. flash[a] \in PageSet
  BY PageFacts DEF IInv
<1>2. PICK x, y : x = flash[a] /\ y = Put(flash[a], i, v)
  OBVIOUS
<1>3. y.recs[i] = v
  <2>1. Len(y.recs) = (IF i > Len(x.recs) THEN i ELSE Len(x.recs))
        /\ \A k \in 1 .. Len(y.recs) : y.recs[k] = IF k = i THEN v ELSE x.recs[k]
    BY <1>1, <1>2, PutOn DEF Top
  <2>2. i \in 1 .. Len(y.recs)
    BY <1>1, <1>2, <2>1 DEF Top, PageSet
  <2> QED
    BY <2>1, <2>2
<1>4. request' = [kind |-> kind, addr |-> a, slot |-> i, page |-> y] /\ turn' = "none"
  BY <1>2 DEF Store, Issue
<1> QED
  BY <1>3, <1>4 DEF Incoming

LEMMA ChunkData ==
  ASSUME IInv, DataOK, m_chunk_queue.rp < ChunkQueueSize, write_execute, WriteChunk
  PROVE  DataOK'
<1>1. PICK was, op : was = p_op /\ op = [was EXCEPT !.step = "HEADER_FINALIZE"]
  OBVIOUS
<1>2. was.step = "CHUNKS" /\ turn = "ok"
  BY <1>1, WriteTurn DEF WriteChunk
<1>3. op.step = "HEADER_FINALIZE" /\ Goes(op) /\ SameOp(op, was)
  BY <1>1, <1>2, StepGoes DEF WriteChunk
<1>4. /\ Running /\ PagesOK /\ m_op_queue # <<>> /\ was.code \in Writes /\ Was \in SlotType
      /\ Here = Home(was) /\ HereSlot = Top(Home(was)) /\ Top(Home(was)) \in Nat
      /\ Top(Home(was)) > 0 /\ Home(was) \in Data
  BY <1>1, <1>2, IntoStep, HereIs, HomeFacts
<1>5. HasChunk(was) /\ HeadHolds /\ ~HasChunk(op)
  BY <1>1, <1>2, <1>3, <1>4 DEF HasChunk, HeadHolds, Writes
<1>6. PICK d : d = m_chunk_queue.chunk[m_chunk_queue.rp]
  OBVIOUS
<1>7. d = was.id /\ d \in Ids
  <2>1. p_op.id \in Holding /\ \A x \in Holding : x = p_op.id \/ p_op.id < x
    BY <1>4, <1>5, LeastHeld
  <2>2. d = p_op.id
    BY <1>6, <2>1, RingFirst DEF DataOK
  <2> QED
    BY <1>1, <2>1, <2>2, Chunks
<1>8. PICK v : v = [Was EXCEPT !.data = d]
  BY Zenon
<1>9. v \in SlotType /\ v.data = d
  BY <1>4, <1>7, <1>8 DEF SlotType
<1>10. Store("chunk", Here, HereSlot, v)
  BY <1>6, <1>8 DEF WriteChunk
<1>11. Incoming' = v /\ request'.kind = "chunk" /\ turn' = "none"
  <2>1. HereSlot \in 1 .. Top(Here) + 1
    BY <1>4
  <2> QED
    BY <1>4, <1>9, <1>10, <2>1, PutThere
<1>12. Carries(op)'
  BY <1>1, <1>3, <1>7, <1>9, <1>11 DEF Carries, SameOp
<1>13. ChunkIsTaken
  <2>1. PICK r : r = (m_chunk_queue.rp + 1) % ChunkQueueSize
    OBVIOUS
  <2>2. r \in Nat
    BY <1>4, <2>1, Sizes DEF Running, AccountsOK
  <2>3. m_chunk_queue' = [m_chunk_queue EXCEPT !.rp = r, !.count = m_chunk_queue.count - 1]
    BY <2>1 DEF WriteChunk
  <2> QED
    BY <2>1, <2>2, <2>3, ChunkSet DEF ChunkIsTaken, ChunkTaken
<1> QED
  BY <1>1, <1>2, <1>3, <1>4, <1>5, <1>12, <1>13, WriteTurn, HeadData

LEMMA FinalizeData ==
  ASSUME IInv, DataOK, m_chunk_queue.rp < ChunkQueueSize, write_execute, WriteFinalize
  PROVE  DataOK'
<1>1. PICK was, step : was = p_op /\ step = IF was.code = "update" THEN "FLAG_DIRTY" ELSE "DONE"
  OBVIOUS
<1>2. PICK op : op = [was EXCEPT !.step = step]
  OBVIOUS
<1>3. was.step = "HEADER_FINALIZE" /\ turn = "ok"
  BY <1>1, WriteTurn DEF WriteFinalize
<1>4. op.step = step /\ step \in {"FLAG_DIRTY", "DONE"} /\ Goes(op) /\ SameOp(op, was)
  BY <1>1, <1>2, <1>3, StepGoes DEF WriteFinalize
<1>5. /\ Running /\ PagesOK /\ m_op_queue # <<>> /\ was.code \in Writes /\ Was \in SlotType
      /\ Here = Home(was) /\ HereSlot = Top(Home(was)) /\ Top(Home(was)) \in Nat
      /\ Top(Home(was)) > 0 /\ Home(was) \in Data /\ Was = New(was) /\ was \in OpType
  BY <1>1, <1>3, IntoStep, HereIs, HomeFacts
<1>6. New(was).data = was.id
  BY <1>1, <1>3, <1>5 DEF DataOK, Carries
<1>7. PICK v : v = [Was EXCEPT !.st = "valid", !.file = was.file]
  BY Zenon
<1>8. v \in SlotType /\ v.data = was.id /\ v.file = was.file
  <2>1. was.file \in Files \cup {0}
    BY <1>5 DEF OpType
  <2> QED
    BY <1>5, <1>6, <1>7, <2>1 DEF SlotType
<1>9. Store("finalize", Here, HereSlot, v) /\ m_chunk_queue' = m_chunk_queue
  BY <1>1, <1>7 DEF WriteFinalize
<1>10. Incoming' = v /\ request'.kind = "finalize" /\ turn' = "none"
  <2>1. HereSlot \in 1 .. Top(Here) + 1
    BY <1>5
  <2> QED
    BY <1>5, <1>8, <1>9, <2>1, PutThere
<1>11. Carries(op)'
  BY <1>4, <1>8, <1>10 DEF Carries, SameOp
<1>12. ~HasChunk(was) /\ ~HasChunk(op)
  BY <1>3, <1>4 DEF HasChunk
<1> QED
  BY <1>1, <1>3, <1>4, <1>5, <1>9, <1>11, <1>12, WriteTurn, HeadData

LEMMA WriteData ==
  ASSUME IInv, DataOK, m_chunk_queue.rp < ChunkQueueSize, write_execute
  PROVE  DataOK'
<1>1. turn = "ok"
  BY WriteTurn
<1>2. \/ FindOld \/ WriteBegin("HEADER_BEGIN") \/ WriteId \/ WriteChunk
      \/ WriteFinalize \/ DeleteOld \/ WriteDone
  BY <1>1 DEF write_execute
<1>3. FindOld => \/ WriteBegin("FIND_RECORD")
                 \/ p_op.step = "FIND_RECORD" /\ Failed("not_found") /\ m_op_queue' = m_op_queue
  BY DEF FindOld
<1> QED
  BY <1>2, <1>3, BeginData, MissingData, IdData, ChunkData, FinalizeData, OldData, DoneData

LEMMA DeleteData ==
  ASSUME IInv, DataOK, m_chunk_queue.rp < ChunkQueueSize, delete_execute
  PROVE  DataOK'
<1>1. /\ turn = "ok" /\ PagesOK /\ Running /\ m_op_queue # <<>> /\ flash' = flash
      /\ p_op \in OpType /\ p_op.code \in {"delete", "file_delete"} /\ ~HasChunk(p_op)
  BY DeleteTurn
<1>2. m_chunk_queue' = m_chunk_queue
  BY <1>1 DEF delete_execute, DeleteRecord, DeleteFile, DeleteDone, Failed, Completed,
     chunk_queue_skip
<1>3. PICK op : Goes(op) /\ SameOp(op, p_op)
  <2>1. m_op_queue' = m_op_queue \/ StepTo("DEL_DONE")
    BY <1>1 DEF delete_execute, DeleteRecord, DeleteFile, DeleteDone
  <2>2. CASE m_op_queue' = m_op_queue
    BY <1>1, <2>2, StaysAtHead
  <2>3. CASE StepTo("DEL_DONE")
    <3>1. PICK was, op : was = p_op /\ op = [was EXCEPT !.step = "DEL_DONE"]
      OBVIOUS
    <3>2. Goes(op) /\ SameOp(op, was)
      BY <1>1, <2>3, <3>1, StepGoes
    <3> QED
      BY <3>1, <3>2
  <2> QED
    BY <2>1, <2>2, <2>3
<1>4. op.code \notin Writes
  BY <1>1, <1>3 DEF SameOp, Writes
<1>5. ~HasChunk(op) /\ Carries(op)'
  BY <1>4 DEF HasChunk, Carries, Writes
<1> QED
  BY <1>1, <1>2, <1>3, <1>5, HeadData

----------------------------------------------------------------------------
\* Every other step keeps it too.

LEMMA QueueTyped == IInv => m_op_queue \in Seq(OpType)
<1> SUFFICES ASSUME IInv PROVE m_op_queue \in Seq(OpType)
  OBVIOUS
<1>1. <<>> \in Seq(OpType)
  OBVIOUS
<1> QED
  BY <1>1 DEF IInv, OffState, Starting, Running, QueueOK

LEMMA QueueTypedNext == (IInv => m_op_queue \in Seq(OpType))'
BY QueueTyped, PTL

\* No write is in the queue.
NoWrites ==
  /\ m_chunk_queue = NoChunks /\ m_op_queue \in Seq(OpType)
  /\ \A i \in 1 .. Len(m_op_queue) : m_op_queue[i].code \notin Writes

LEMMA NoWritesData ==
  NoWrites => Named /\ ChunksOK /\ (m_op_queue # <<>> => Carries(p_op))
<1> SUFFICES ASSUME NoWrites PROVE Named /\ ChunksOK /\ (m_op_queue # <<>> => Carries(p_op))
  OBVIOUS
<1>1. Named
  BY DEF NoWrites, Named
<1>2. ToDo \subseteq 1 .. Len(m_op_queue)
  BY DEF NoWrites, ToDo
<1>3. Holding = {}
  BY <1>2 DEF NoWrites, Holding, HasChunk, Writes
<1>4. ChunksOK
  BY <1>3, EmptyCounts DEF NoWrites, NoChunks, ChunksOK
<1>5. m_op_queue # <<>> => p_op.code \notin Writes
  BY DEF NoWrites, p_op
<1> QED
  BY <1>1, <1>4, <1>5 DEF Carries

LEMMA NoWritesNext ==
  (NoWrites => Named /\ ChunksOK /\ (m_op_queue # <<>> => Carries(p_op)))'
BY NoWritesData, PTL

LEMMA InitData ==
  ASSUME Init
  PROVE  DataOK
<1>1. \A a \in Data : Valid(a) = {}
  BY DataIsAddr DEF Init, Valid, ValidSlots, Erased
<1>2. NoWrites
  BY DEF Init, NoWrites
<1> QED
  BY <1>1, <1>2, NoWritesData DEF DataOK, Genuine

LEMMA BootData ==
  ASSUME IInv, DataOK, OffState, fds_init, IInv'
  PROVE  DataOK'
<1>1. flash' = flash /\ m_chunk_queue' = NoChunks /\ m_op_queue = <<>>
  BY DEF fds_init, OffState
<1>2. \/ m_op_queue' = <<>>
      \/ \E step : m_op_queue' = <<[NoOp EXCEPT !.code = "init", !.step = step]>>
  BY <1>1 DEF fds_init
<1>3. \A i \in 1 .. Len(m_op_queue') : m_op_queue'[i].code \notin Writes
  <2>1. CASE m_op_queue' = <<>>
    BY <2>1
  <2>2. CASE m_op_queue' # <<>>
    <3>1. PICK step : m_op_queue' = <<[NoOp EXCEPT !.code = "init", !.step = step]>>
      BY <1>2, <2>2
    <3>2. PICK op : op = [NoOp EXCEPT !.code = "init", !.step = step]
      OBVIOUS
    <3>3. op.code = "init"
      BY <3>2 DEF NoOp
    <3>4. m_op_queue' = <<op>>
      BY <3>1, <3>2
    <3> QED
      BY <3>3, <3>4 DEF Writes
  <2> QED
    BY <2>1, <2>2
<1>4. NoWrites'
  BY <1>1, <1>3, QueueTypedNext DEF NoWrites
<1>5. Genuine'
  BY <1>1, Still DEF DataOK, Genuine
<1> QED
  BY <1>4, <1>5, NoWritesNext DEF DataOK

LEMMA StartData ==
  ASSUME IInv, DataOK, init_execute, IInv'
  PROVE  DataOK'
<1>1. Due /\ Starting /\ flash' = flash
  <2>1. Due /\ PagesOK /\ IdsOK /\ (Starting \/ Running) /\ m_op_queue # <<>>
    BY TurnOk DEF init_execute
  <2>2. Starting
    <3> SUFFICES ASSUME Running PROVE FALSE
      BY <2>1
    <3>1. Executing(p_op)
      BY <2>1 DEF Running, HeadOK
    <3> QED
      BY <2>1, <3>1 DEF init_execute, Due, Executing, Starts, AtStart, Opening, Filling, Storing,
         Sealing, Sealed, Replacing, Replaced, Marking, Marked, Sweeping, Clearing, Ended, Writes
  <2> QED
    BY <2>1, <2>2 DEF init_execute
<1>2. /\ m_op_queue \in Seq(OpType) /\ Len(m_op_queue) = 1 /\ p_op.code = "init"
      /\ m_chunk_queue = NoChunks /\ p_op \in OpType
  BY <1>1, TurnOk DEF Starting, Due
<1>3. m_chunk_queue' = NoChunks
  BY <1>1, <1>2 DEF init_execute, Due, InitTagSwap, InitTagData, InitDone, InitEraseSwap,
     InitPromoteSwap, Completed
<1>4. \/ m_op_queue' = m_op_queue
      \/ \E step : SetOp([p_op EXCEPT !.step = step])
  BY <1>1 DEF init_execute, Due, InitTagSwap, InitTagData, InitDone, InitEraseSwap,
     InitPromoteSwap
<1>5. \A i \in 1 .. Len(m_op_queue') : m_op_queue'[i].code \notin Writes
  <2>1. Len(m_op_queue') = 1 /\ m_op_queue'[1].code = "init"
    <3>1. CASE m_op_queue' = m_op_queue
      BY <1>2, <3>1 DEF p_op
    <3>2. CASE \E step : SetOp([p_op EXCEPT !.step = step])
      <4>1. PICK step : SetOp([p_op EXCEPT !.step = step])
        BY <3>2
      <4>2. PICK op : op = [p_op EXCEPT !.step = step]
        BY Zenon
      <4>3. op.code = "init"
        BY <1>2, <4>2 DEF OpType
      <4> QED
        BY <1>2, <4>1, <4>2, <4>3 DEF SetOp
    <3> QED
      BY <1>4, <3>1, <3>2
  <2> QED
    BY <2>1 DEF Writes
<1>6. NoWrites'
  BY <1>3, <1>5, QueueTypedNext DEF NoWrites
<1>7. Genuine'
  BY <1>1, Still DEF DataOK, Genuine
<1> QED
  BY <1>6, <1>7, NoWritesNext DEF DataOK

LEMMA AdvanceData ==
  ASSUME IInv, DataOK, Advance
  PROVE  DataOK'
<1>1. PICK n : n = Len(m_op_queue)
  OBVIOUS
<1>2. /\ flash' = flash /\ m_chunk_queue' = m_chunk_queue /\ request' = request /\ Ended(p_op)
      /\ n \in Nat /\ n >= 1 /\ m_op_queue' \in Seq(OpType) /\ Len(m_op_queue') = n - 1
      /\ \A i \in 1 .. n - 1 : m_op_queue'[i] = m_op_queue[i + 1]
      /\ \A i \in 1 .. n - 1 : i + 1 \in 1 .. n /\ AtStart(m_op_queue'[i])
      /\ Holding' = Holding
  BY <1>1, QueueAdvances
<1>3. Genuine'
  BY <1>2, Still DEF DataOK, Genuine
<1>4. Named'
  BY <1>1, <1>2 DEF DataOK, Named
<1>5. ChunksOK'
  BY <1>2, RingSame DEF DataOK
<1>6. m_op_queue' # <<>> => Carries(p_op)'
  <2> SUFFICES ASSUME m_op_queue' # <<>> PROVE Carries(p_op)'
    OBVIOUS
  <2>1. 1 \in 1 .. n - 1
    BY <1>2
  <2>2. AtStart(m_op_queue'[1]) /\ request' = None
    BY <1>2, <2>1 DEF Ended
  <2>3. p_op'.step # "HEADER_FINALIZE" /\ request'.kind # "finalize"
    BY <2>2 DEF p_op, AtStart, None
  <2> QED
    BY <2>3 DEF Carries
<1> QED
  BY <1>3, <1>4, <1>5, <1>6 DEF DataOK

\* A step that neither stores nor executes nor queues.
LEMMA QuietData ==
  ASSUME DataOK, UNCHANGED <<flash, m_op_queue, m_chunk_queue, turn, request>>
  PROVE  DataOK'
<1>1. Genuine' /\ Named'
  BY Still DEF DataOK, Genuine, Named
<1>2. Holding' = Holding /\ p_op' = p_op
  BY DEF Holding, ToDo, p_op
<1>3. ChunksOK'
  BY <1>2, RingSame DEF DataOK
<1>4. m_op_queue # <<>> => Carries(p_op)'
  <2>1. PICK op : op = p_op
    OBVIOUS
  <2>2. m_op_queue # <<>> => Carries(op)'
    BY <2>1 DEF DataOK, Carries, New, Rec, Top, Home, Incoming
  <2> QED
    BY <1>2, <2>1, <2>2 DEF Carries, New, Rec, Top, Home, Incoming
<1> QED
  BY <1>1, <1>3, <1>4 DEF DataOK

\* A call that is queued; a write comes with its chunk.
LEMMA EnqueueData ==
  ASSUME IInv, DataOK, m_chunk_queue.rp < ChunkQueueSize, NEW call, CanCall(call), HasRoom,
         m_gc' = m_gc, m_latest_rec_id' \in {m_latest_rec_id, m_latest_rec_id + 1},
         NEW op \in OpType, AtStart(op), Enqueue(op),
         \/ op.code \notin Writes /\ m_chunk_queue' = m_chunk_queue
         \/ /\ op.code \in Writes /\ op.file \in Files /\ op.id = m_latest_rec_id + 1
            /\ m_chunk_queue.count < ChunkQueueSize
            /\ m_chunk_queue'.count = m_chunk_queue.count + 1
            /\ m_chunk_queue'.rp = m_chunk_queue.rp
            /\ m_chunk_queue'.chunk = [m_chunk_queue.chunk EXCEPT
                 ![(m_chunk_queue.rp + m_chunk_queue.count) % ChunkQueueSize] = op.id]
  PROVE  DataOK'
<1>1. PICK n : n = Len(m_op_queue)
  OBVIOUS
<1>2. /\ m_op_queue \in Seq(OpType) /\ n \in Nat
      /\ m_op_queue' \in Seq(OpType) /\ Len(m_op_queue') = n + 1 /\ m_op_queue'[n + 1] = op
      /\ \A i \in 1 .. n : m_op_queue'[i] = m_op_queue[i]
      /\ turn' = (IF n = 0 THEN "ok" ELSE turn)
      /\ (m_op_queue = <<>>) <=> (n = 0)
      /\ n = 0 => request = None
      /\ ToDo \subseteq 1 .. n
      /\ Holding' = IF op.code \in Writes THEN Holding \cup {op.id} ELSE Holding
  BY <1>1, QueueGrows
<1>3. /\ PagesOK /\ IdsOK /\ Running /\ flash' = flash /\ request' = request
      /\ m_latest_rec_id \in Nat
  BY CallKeeps
<1>4. Genuine'
  BY <1>3, Still DEF DataOK, Genuine
<1>5. Named'
  <2>1. \A i \in 1 .. n + 1 : i \in 1 .. n \/ i = n + 1
    BY <1>2
  <2> QED
    BY <1>1, <1>2, <2>1 DEF DataOK, Named
<1>6. ChunksOK'
  <2>1. CASE op.code \notin Writes
    BY <1>2, <2>1, RingSame DEF DataOK
  <2>2. CASE op.code \in Writes
    <3>1. op.id \in Ids
      BY DEF OpType
    <3>2. \A x \in Holding : x < op.id
      <4> TAKE x \in Holding
      <4>1. PICK i \in ToDo : HasChunk(m_op_queue[i]) /\ x = m_op_queue[i].id
        BY DEF Holding
      <4>2. i \in 1 .. Len(m_op_queue) /\ m_op_queue[i].code \in Writes
        BY <1>1, <1>2, <4>1 DEF HasChunk, Writes
      <4>3. x <= m_latest_rec_id
        BY <1>3, <4>1, <4>2 DEF Running, QueueOK, WriteOK
      <4>4. x \in Nat
        BY Chunks, Sizes DEF Ids
      <4> QED
        BY <1>3, <2>2, <4>3, <4>4
    <3> QED
      BY <1>2, <2>2, <3>1, <3>2, RingMore DEF DataOK
  <2> QED
    BY <2>1, <2>2
<1>7. Carries(p_op)'
  <2>1. CASE n = 0
    <3>1. p_op' = op /\ request' = None
      <4>1. m_op_queue'[n + 1] = op /\ n + 1 = 1 /\ request = None
        BY <1>2, <2>1
      <4>2. m_op_queue'[1] = op /\ request' = None
        BY <1>3, <4>1
      <4> QED
        BY <4>2 DEF p_op
    <3>2. p_op'.step # "HEADER_FINALIZE" /\ request'.kind # "finalize"
      BY <3>1 DEF AtStart, None
    <3> QED
      BY <3>2 DEF Carries
  <2>2. CASE n # 0
    <3>1. p_op' = p_op /\ turn' = turn /\ m_op_queue # <<>>
      <4>1. 1 \in 1 .. n
        BY <1>2, <2>2
      <4>2. m_op_queue'[1] = m_op_queue[1]
        BY <1>2, <4>1
      <4>3. turn' = turn /\ m_op_queue # <<>>
        BY <1>2, <2>2
      <4> QED
        BY <4>2, <4>3 DEF p_op
    <3>2. PICK o : o = p_op
      OBVIOUS
    <3>3. Carries(o)'
      BY <1>3, <3>1, <3>2 DEF DataOK, Carries, New, Rec, Top, Home, Incoming
    <3> QED
      BY <3>1, <3>2, <3>3 DEF Carries, New, Rec, Top, Home, Incoming
  <2> QED
    BY <2>1, <2>2
<1> QED
  BY <1>4, <1>5, <1>6, <1>7 DEF DataOK

LEMMA WriteCallData ==
  ASSUME IInv, DataOK, m_chunk_queue.rp < ChunkQueueSize, NEW call, CanCall(call),
         NEW op \in OpType, write_enqueue(op), op.code \in Writes, AtStart(op), op.file \in Files
  PROVE  DataOK'
<1>1. m_latest_rec_id' = m_latest_rec_id + 1 /\ m_gc' = m_gc /\ WithSpace # {}
  BY DEF write_enqueue
<1>2. /\ PagesOK /\ IdsOK /\ Running /\ m_latest_rec_id \in Nat /\ m_latest_rec_id + 1 \in Ids
      /\ flash' = flash /\ request' = request
  BY <1>1, CallKeeps
<1>3. CASE UNCHANGED <<m_pages, m_chunk_queue, m_op_queue, m_flags, turn>>
  BY <1>2, <1>3, QuietData
<1>4. ASSUME HasRoom, m_chunk_queue.count < ChunkQueueSize, NEW p, p = Min(WithSpace),
             NEW at, at = (m_chunk_queue.count + m_chunk_queue.rp) % ChunkQueueSize,
             m_chunk_queue' = [m_chunk_queue EXCEPT
                 !.chunk[at] = m_latest_rec_id + 1, !.count = @ + 1],
             Enqueue([op EXCEPT !.page = p, !.id = m_latest_rec_id + 1])
      PROVE  DataOK'
  <2>1. PICK new, id : id = m_latest_rec_id + 1 /\ new = Placed(op, p, id)
    OBVIOUS
  <2>2. /\ new \in OpType /\ new.code = op.code /\ new.step = op.step
        /\ new.id = id /\ new.file = op.file
    BY <1>1, <1>2, <1>4, <2>1, NewWrite
  <2>3. AtStart(new) /\ Enqueue(new)
    <3>1. AtStart(new)
      BY <2>2 DEF AtStart
    <3>2. Enqueue(new)
      BY <1>4, <2>1 DEF Placed
    <3> QED
      BY <3>1, <3>2
  <2>4. at = (m_chunk_queue.rp + m_chunk_queue.count) % ChunkQueueSize
    <3>1. m_chunk_queue.rp + m_chunk_queue.count = m_chunk_queue.count + m_chunk_queue.rp
      BY Chunks
    <3> QED
      BY <1>4, <3>1
  <2>5. PICK ch : ch = [m_chunk_queue.chunk EXCEPT ![at] = id]
    OBVIOUS
  <2>6. m_chunk_queue' = [m_chunk_queue EXCEPT !.chunk = ch, !.count = m_chunk_queue.count + 1]
    BY <1>4, <2>1, <2>5
  <2>7. /\ m_chunk_queue'.chunk = ch /\ m_chunk_queue'.count = m_chunk_queue.count + 1
        /\ m_chunk_queue'.rp = m_chunk_queue.rp
    BY <2>6
  <2> QED
    BY <1>1, <1>4, <2>1, <2>2, <2>3, <2>4, <2>5, <2>7, EnqueueData
<1> QED
  BY <1>3, <1>4 DEF write_enqueue

LEMMA CallData ==
  ASSUME IInv, DataOK, m_chunk_queue.rp < ChunkQueueSize,
         \/ \E f \in Files : \/ fds_record_write(f) \/ fds_file_delete(f)
                             \/ \E id \in 1 .. m_latest_rec_id : fds_record_update(f, id)
         \/ \E id \in 1 .. m_latest_rec_id : fds_record_delete(id)
  PROVE  DataOK'
<1>1. 0 \in Ids /\ 1 \in 1 .. MaxPages
  BY Sizes DEF Ids
<1>2. ASSUME NEW f \in Files, fds_record_write(f)
      PROVE  DataOK'
  <2>1. PICK op : op = [NoOp EXCEPT !.code = "write", !.step = "HEADER_BEGIN", !.file = f]
    OBVIOUS
  <2>2. op = [code |-> "write", step |-> "HEADER_BEGIN", page |-> 1, id |-> 0, file |-> f, old |-> 0]
    BY <2>1 DEF NoOp
  <2>3. op \in OpType /\ op.code = "write" /\ op.step = "HEADER_BEGIN" /\ op.file = f
    BY <1>1, <2>2 DEF OpType
  <2>4. CanCall("write") /\ write_enqueue(op)
    BY <1>2, <2>1 DEF fds_record_write
  <2> QED
    BY <2>3, <2>4, WriteCallData DEF AtStart, Writes
<1>3. ASSUME NEW f \in Files, NEW id \in 1 .. m_latest_rec_id, fds_record_update(f, id)
      PROVE  DataOK'
  <2>1. PICK op : op = [NoOp EXCEPT !.code = "update", !.step = "FIND_RECORD", !.file = f, !.old = id]
    OBVIOUS
  <2>2. op = [code |-> "update", step |-> "FIND_RECORD", page |-> 1, id |-> 0, file |-> f, old |-> id]
    BY <2>1 DEF NoOp
  <2>3. CanCall("update") /\ write_enqueue(op)
    BY <1>3, <2>1 DEF fds_record_update
  <2>4. id \in Ids
    <3>1. m_latest_rec_id' = m_latest_rec_id + 1 /\ m_gc' = m_gc
      BY <2>3 DEF write_enqueue
    <3>2. m_latest_rec_id \in Nat /\ m_latest_rec_id + 1 \in Ids
      BY <2>3, <3>1, CallKeeps
    <3> QED
      BY <3>2, Sizes DEF Ids
  <2>5. op \in OpType /\ op.code = "update" /\ op.step = "FIND_RECORD" /\ op.file = f
    BY <1>1, <2>2, <2>4 DEF OpType
  <2> QED
    BY <2>3, <2>5, WriteCallData DEF AtStart, Writes
<1>4. ASSUME NEW id \in 1 .. m_latest_rec_id, fds_record_delete(id)
      PROVE  DataOK'
  <2>1. PICK op : op = [NoOp EXCEPT !.code = "delete", !.step = "DEL_RECORD", !.old = id]
    OBVIOUS
  <2>2. op = [code |-> "delete", step |-> "DEL_RECORD", page |-> 1, id |-> 0, file |-> 0, old |-> id]
    BY <2>1 DEF NoOp
  <2>3. /\ CanCall("delete") /\ HasRoom /\ Enqueue(op)
        /\ UNCHANGED <<m_latest_rec_id, m_chunk_queue, m_pages, m_gc>>
    BY <1>4, <2>1 DEF fds_record_delete
  <2>4. id \in Ids
    <3>1. m_latest_rec_id \in Nat /\ m_latest_rec_id + 1 \in Ids
      BY <2>3, CallKeeps
    <3> QED
      BY <3>1, Sizes DEF Ids
  <2>5. op \in OpType /\ op.code = "delete" /\ op.step = "DEL_RECORD"
    BY <1>1, <2>2, <2>4 DEF OpType
  <2> QED
    BY <2>3, <2>5, EnqueueData DEF AtStart, Writes
<1>5. ASSUME NEW f \in Files, fds_file_delete(f)
      PROVE  DataOK'
  <2>1. PICK op : op = [NoOp EXCEPT !.code = "file_delete", !.step = "DEL_FILE", !.file = f]
    OBVIOUS
  <2>2. op = [code |-> "file_delete", step |-> "DEL_FILE", page |-> 1, id |-> 0, file |-> f, old |-> 0]
    BY <2>1 DEF NoOp
  <2>3. /\ CanCall("file_delete") /\ HasRoom /\ Enqueue(op)
        /\ UNCHANGED <<m_latest_rec_id, m_chunk_queue, m_pages, m_gc>>
    BY <1>5, <2>1 DEF fds_file_delete
  <2>4. op \in OpType /\ op.code = "file_delete" /\ op.step = "DEL_FILE"
    BY <1>1, <2>2 DEF OpType
  <2> QED
    BY <2>3, <2>4, EnqueueData DEF AtStart, Writes
<1> QED
  BY <1>2, <1>3, <1>4, <1>5

----------------------------------------------------------------------------
\* What fstorage has stored is what was to be stored.

LEMMA AskedComes ==
  ASSUME FlashOK, NEW kind, NEW a, NEW i, NEW v, Asked(kind, a, i, v)
  PROVE  Incoming = v /\ request.kind = kind /\ request.slot = i /\ request.addr = a
<1>1. flash[a] \in PageSet
  BY PageFacts DEF Asked
<1>2. PICK x, y : x = flash[a] /\ y = Put(flash[a], i, v)
  OBVIOUS
<1>3. y.recs[i] = v
  <2>1. Len(y.recs) = (IF i > Len(x.recs) THEN i ELSE Len(x.recs))
        /\ \A k \in 1 .. Len(y.recs) : y.recs[k] = IF k = i THEN v ELSE x.recs[k]
    BY <1>1, <1>2, PutOn DEF Asked, Top
  <2>2. i \in 1 .. Len(y.recs)
    BY <1>1, <1>2, <2>1 DEF Asked, Top, PageSet
  <2> QED
    BY <2>1, <2>2
<1>4. request = [kind |-> kind, addr |-> a, slot |-> i, page |-> y]
  BY <1>2 DEF Asked, Asks
<1> QED
  BY <1>3, <1>4 DEF Incoming

\* A record that becomes valid is the one its write asked for.
LEMMA WrittenIs ==
  ASSUME IInv, DataOK, PagesOK, IdsOK, Running, m_op_queue # <<>>,
         NEW kind, NEW a, NEW i, NEW v, Asked(kind, a, i, v), Means(a, i, v), v.st = "valid"
  PROVE  /\ p_op.code \in Writes /\ ~AtStart(p_op) /\ Fresh(p_op.id)
         /\ v.id = p_op.id /\ v.file = p_op.file /\ v.data = p_op.id
         /\ p_op.file \in Files /\ p_op.id \in 1 .. MaxCalls
<1>1. Incoming = v
  BY AskedComes DEF IInv
<1>2. /\ p_op.code \in Writes /\ ~AtStart(p_op) /\ Fresh(p_op.id)
      /\ v.id = p_op.id /\ request.kind = "finalize"
  BY DEF Means
<1>3. v.file = p_op.file /\ v.data = p_op.id
  BY <1>1, <1>2 DEF DataOK, Carries
<1>4. /\ p_op \in OpType /\ 1 \in 1 .. Len(m_op_queue) /\ m_op_queue[1] = p_op
      /\ p_op.old < p_op.id
  BY <1>2, HomeFacts DEF WriteOK
<1>5. p_op.file \in Files
  BY <1>2, <1>4 DEF DataOK, Named
<1>6. p_op.id \in 1 .. MaxCalls
  <2>1. p_op.id \in Ids /\ p_op.old \in Ids
    BY <1>4 DEF OpType
  <2> QED
    BY <1>4, <2>1, Sizes DEF Ids
<1> QED
  BY <1>2, <1>3, <1>5, <1>6

LEMMA GenuineStays ==
  ASSUME IInv, DataOK, Carried
  PROVE  Genuine'
<1>1. CASE SameRecords
  BY <1>1 DEF SameRecords, DataOK, Genuine
<1>2. CASE ~SameRecords
  <2>1. /\ PagesOK /\ IdsOK /\ Running /\ m_op_queue # <<>>
        /\ \E kind, a, i, v : Asked(kind, a, i, v) /\ Means(a, i, v) /\ StoredAt(a, i, v)
    BY <1>2 DEF Carried
  <2>2. PICK kind, a, i, v : Asked(kind, a, i, v) /\ Means(a, i, v) /\ StoredAt(a, i, v)
    BY <2>1
  <2>3. ASSUME NEW b \in Data, NEW k \in Valid(b)'
        PROVE  Rec(b, k)'.id # 0 /\ Rec(b, k)'.file \in Files /\ Rec(b, k)'.data = Rec(b, k)'.id
    <3>1. CASE b = a /\ k = i /\ v.st = "valid" /\ Rec(b, k)' = v
      <4>1. v.id = p_op.id /\ v.file = p_op.file /\ v.data = p_op.id /\ p_op.file \in Files
            /\ p_op.id \in 1 .. MaxCalls
        BY <2>1, <2>2, <3>1, WrittenIs
      <4> QED
        BY <3>1, <4>1
    <3>2. CASE k \in Valid(b) /\ Rec(b, k)' = Rec(b, k)
      BY <3>2 DEF DataOK, Genuine
    <3> QED
      BY <2>2, <3>1, <3>2 DEF StoredAt
  <2> QED
    BY <2>3 DEF Genuine
<1> QED
  BY <1>1, <1>2

LEMMA StoredData ==
  ASSUME IInv, DataOK, FlashDone
  PROVE  DataOK'
<1>1. /\ turn = "none" /\ turn' = "ok" /\ request # None /\ request' = None /\ calls' = calls
      /\ flash' = [flash EXCEPT ![request.addr] = request.page]
      /\ m_op_queue' = m_op_queue /\ m_chunk_queue' = m_chunk_queue
  BY DEF FlashDone, ram, env
<1>2. PagesOK /\ IdsOK /\ (Starting \/ Running)
  BY <1>1 DEF IInv, OffState
<1>3. Genuine'
  BY <1>1, RequestDone, GenuineStays
<1>4. Named'
  BY <1>1 DEF DataOK, Named
<1>5. Holding' = Holding /\ p_op' = p_op
  BY <1>1 DEF Holding, ToDo, HasChunk, p_op
<1>6. ChunksOK'
  BY <1>1, <1>5, RingSame DEF DataOK
<1>7. PICK op : op = p_op
  OBVIOUS
<1>8. ASSUME m_op_queue # <<>>, op.code \in Writes, op.step = "HEADER_FINALIZE"
      PROVE  New(op)'.data = op.id
  <2>1. Running
    BY <1>2, <1>7, <1>8 DEF Starting, Writes
  <2>2. Storing(p_op)
    <3>1. Executing(op)
      BY <1>7, <1>8, <2>1 DEF Running, HeadOK
    <3>2. Storing(op)
      BY <1>1, <1>8, <3>1 DEF Executing, Starts, Opening, Filling, Sealing, Sealed, Replacing,
         Replaced, Marking, Marked, Sweeping, Clearing, Ended, Due, Writes
    <3> QED
      BY <1>7, <3>2
  <2>3. PICK v \in SlotType, kind \in {"id", "chunk"} :
          v.st = "begun" /\ v.id = p_op.id /\ Asks(kind, Home(p_op), Top(Home(p_op)), v)
    BY <2>2 DEF Storing
  <2>4. PICK a, i : a = Home(p_op) /\ i = Top(Home(p_op))
    OBVIOUS
  <2>5. Asked(kind, a, i, v)
    BY <1>2, <1>8, <2>1, <2>2, <2>3, <2>4, BegunAsks DEF Storing
  <2>6. v.data = p_op.id
    <3>1. Incoming = v
      BY <2>5, AskedComes DEF IInv
    <3> QED
      BY <1>1, <1>7, <1>8, <3>1 DEF DataOK, Carries
  <2>7. StoredAt(a, i, v)
    <3>1. /\ a \in Data /\ flash[a].tag = "data" /\ i \in 1 .. Top(a) + 1 /\ v \in SlotType
          /\ v.st # "hole" /\ (i > Top(a) => OffsetOf(Top(a) + 2) <= PageWords)
          /\ FlashOK /\ flash' = [flash EXCEPT ![a] = Put(flash[a], i, v)]
      BY <1>1, <2>5 DEF Asked, Asks, IInv
    <3> QED
      BY <1>1, <2>3, <3>1, StoreKeeps
  <2>8. Top(a)' = i /\ Rec(a, i)' = v
    <3>1. Top(a) \in Nat
      BY <1>2, <1>8, <2>1, <2>4, HomeFacts
    <3> QED
      BY <2>4, <2>7, <3>1 DEF StoredAt
  <2>9. New(op)' = v
    BY <1>7, <2>4, <2>8 DEF New, Rec, Home, Top
  <2> QED
    BY <1>7, <2>6, <2>9
<1>9. m_op_queue # <<>> => Carries(op)'
  BY <1>1, <1>8 DEF Carries, None
<1> QED
  BY <1>1, <1>3, <1>4, <1>5, <1>6, <1>7, <1>9 DEF DataOK, Carries, New, Rec, Home, Top, Incoming

LEMMA LostData ==
  ASSUME IInv, DataOK, PowerLoss
  PROVE  DataOK'
<1>1. Carried
  BY PowerLossStep
<1>2. Genuine'
  BY <1>1, GenuineStays
<1>3. m_chunk_queue' = NoChunks /\ m_op_queue' = <<>>
  BY DEF PowerLoss
<1>4. NoWrites'
  BY <1>3 DEF NoWrites, NoChunks
<1> QED
  BY <1>2, <1>4, NoWritesNext DEF DataOK

\* The data is kept whole as long as the read index of the chunk queue stays in
\* its range, which an update that fails may end (chunk_queue_skip).
LEMMA DataKept ==
  ASSUME Plain, IInv, DataOK, ChunkIndexInRange, [Next]_vars
  PROVE  DataOK'
<1>1. IInv'
  BY Inductive
<1>2. m_chunk_queue.rp < ChunkQueueSize
  BY DEF ChunkIndexInRange
<1>3. CASE fds_init
  <2>1. OffState
    <3> SUFFICES ASSUME PagesOK PROVE FALSE
      BY DEF IInv
    <3>1. DOMAIN m_pages = 1 .. MaxPages /\ m_pages = <<>>
      BY <1>3 DEF PagesOK, fds_init
    <3>2. 1 \in DOMAIN m_pages
      BY <3>1, Sizes
    <3>3. DOMAIN <<>> = {}
      OBVIOUS
    <3> QED
      BY <3>1, <3>2, <3>3
  <2> QED
    BY <1>1, <1>3, <2>1, BootData
<1>4. CASE gc_execute
  <2>1. turn \in {"ok", "timeout"} /\ p_op.code = "gc"
    BY <1>4 DEF gc_execute
  <2>2. p_op \in OpType
    BY <2>1, TurnOk
  <2> QED
    BY <2>1, <2>2 DEF OpType
<1>5. CASE fds_gc \/ FlashTimeout
  BY <1>5 DEF fds_gc, CanCall, FlashTimeout, Plain
<1>6. CASE UNCHANGED vars
  BY <1>6, QuietData DEF vars, ram, busy
<1>7. CASE \/ \E f \in Files : fds_record_find_in_file(f)
           \/ fds_record_open \/ fds_record_close
  <2>1. Reading
    BY <1>7 DEF fds_record_find_in_file, fds_record_open, fds_record_close
  <2> QED
    BY <2>1, QuietData DEF Reading, busy
<1>8. CASE init_execute
  BY <1>1, <1>8, StartData
<1>9. CASE write_execute
  BY <1>2, <1>9, WriteData
<1>10. CASE delete_execute
  BY <1>2, <1>10, DeleteData
<1>11. CASE Advance
  BY <1>11, AdvanceData
<1>12. CASE FlashDone
  BY <1>12, StoredData
<1>13. CASE PowerLoss
  BY <1>13, LostData
<1>14. CASE \/ \E f \in Files : \/ fds_record_write(f) \/ fds_file_delete(f)
                                \/ \E id \in 1 .. m_latest_rec_id : fds_record_update(f, id)
            \/ \E id \in 1 .. m_latest_rec_id : fds_record_delete(id)
  BY <1>2, <1>14, CallData
<1> QED
  BY <1>3, <1>4, <1>5, <1>6, <1>7, <1>8, <1>9, <1>10, <1>11, <1>12, <1>13, <1>14 DEF Next

----------------------------------------------------------------------------
\* Flash as a set of records.

LEMMA ContentOfNext ==
  (FlashOK => \A r : r \in Content <=> \E a \in Data : \E i \in Valid(a) : r = RecordOf(Rec(a, i)))'
BY ContentOf, PTL

\* What the writes in the queue are to store.
Wanted ==
  {[id |-> m_op_queue[i].id, file |-> m_op_queue[i].file, data |-> m_op_queue[i].id] :
      i \in Queued(Writes)}

AllRecords == [id : 1 .. MaxCalls, file : Files, data : 1 .. MaxCalls]

LEMMA QueuedIs ==
  ASSUME IInv
  PROVE  /\ m_op_queue \in Seq(OpType) /\ Queued(Writes) \subseteq 1 .. Len(m_op_queue)
         /\ \A i \in Queued(Writes) :
              /\ m_op_queue[i].code \in Writes /\ m_op_queue[i] \in OpType /\ Running
              /\ m_op_queue[i].old < m_op_queue[i].id /\ i \in 1 .. Len(m_op_queue)
<1>1. m_op_queue \in Seq(OpType)
  BY QueueTyped
<1>2. /\ Queued(Writes) \subseteq 1 .. Len(m_op_queue)
      /\ \A i \in Queued(Writes) : m_op_queue[i].code \in Writes /\ m_op_queue[i] \in OpType
  BY <1>1 DEF Queued
<1>3. ASSUME NEW i \in Queued(Writes) PROVE Running /\ m_op_queue[i].old < m_op_queue[i].id
  <2>1. ~OffState
    <3>1. Len(<<>>) = 0
      OBVIOUS
    <3> QED
      BY <1>2, <3>1 DEF OffState
  <2>2. ~Starting
    BY <1>2 DEF Starting, Writes, p_op
  <2> QED
    BY <1>2, <2>1, <2>2 DEF IInv, Running, QueueOK, WriteOK
<1> QED
  BY <1>1, <1>2, <1>3

LEMMA Mapped ==
  IInv /\ DataOK =>
    /\ Content \subseteq AllRecords /\ ToWrite \subseteq AllRecords /\ ToDelete \subseteq AllRecords
    /\ ToWrite = Wanted \ Content
<1> SUFFICES ASSUME IInv, DataOK
             PROVE  /\ Content \subseteq AllRecords /\ ToWrite \subseteq AllRecords
                    /\ ToDelete \subseteq AllRecords /\ ToWrite = Wanted \ Content
  OBVIOUS
<1>1. \A x \in Ids : x # 0 => x \in 1 .. MaxCalls
  BY Sizes DEF Ids
<1>2. Content \subseteq AllRecords
  <2>1. ASSUME NEW a \in Data, NEW i \in Valid(a)
        PROVE  RecordOf(Rec(a, i)) \in AllRecords
    <3>1. Rec(a, i).id # 0 /\ Rec(a, i).file \in Files /\ Rec(a, i).data = Rec(a, i).id
      BY DEF DataOK, Genuine
    <3>2. Rec(a, i).id \in Ids
      BY PageFacts DEF IInv, SlotType
    <3> QED
      BY <1>1, <3>1, <3>2 DEF RecordOf, AllRecords
  <2> QED
    BY <2>1, ContentOf DEF IInv
<1>3. Wanted \subseteq AllRecords
  <2>1. ASSUME NEW i \in Queued(Writes)
        PROVE  [id |-> m_op_queue[i].id, file |-> m_op_queue[i].file, data |-> m_op_queue[i].id]
                 \in AllRecords
    <3>1. m_op_queue[i].file \in Files
      BY QueuedIs DEF DataOK, Named
    <3>2. m_op_queue[i].id \in Ids /\ m_op_queue[i].id # 0
      <4>1. m_op_queue[i].id \in Ids /\ m_op_queue[i].old \in Ids
        BY QueuedIs DEF OpType
      <4> QED
        BY <4>1, QueuedIs, Sizes DEF Ids
    <3> QED
      BY <1>1, <3>1, <3>2 DEF AllRecords
  <2> QED
    BY <2>1 DEF Wanted
<1>4. ToWrite = Wanted \ Content
  BY DEF ToWrite, Wanted, Writes
<1>5. ToDelete \subseteq Content
  BY DEF ToDelete
<1> QED
  BY <1>2, <1>3, <1>4, <1>5

LEMMA MappedNext ==
  (IInv /\ DataOK =>
    /\ Content \subseteq AllRecords /\ ToWrite \subseteq AllRecords /\ ToDelete \subseteq AllRecords
    /\ ToWrite = Wanted \ Content)'
BY Mapped, PTL

\* The records stay: only requests come and go.
LEMMA RecordsStay ==
  ASSUME IInv', DataOK', Content' = Content
  PROVE  Store_!Next
<1>1. ToWrite' \subseteq AllRecords /\ ToDelete' \subseteq AllRecords
  BY MappedNext
<1> QED
  BY <1>1 DEF Store_!Next, Store_!Requests, AllRecords

\* A record appears that was asked for.
LEMMA RecordAppears ==
  ASSUME IInv, DataOK, IInv', DataOK', Wanted' \subseteq Wanted,
         NEW r \in Wanted, r \notin Content, Content' = Content \cup {r}
  PROVE  Store_!Next
<1>1. /\ ToWrite = Wanted \ Content /\ ToWrite \subseteq AllRecords
  BY Mapped
<1>2. ToWrite' = Wanted' \ Content' /\ ToDelete' \subseteq AllRecords
  BY MappedNext
<1>3. ToWrite' \subseteq ToWrite \ {r} /\ r \in ToWrite \ Content /\ r \in AllRecords
  BY <1>1, <1>2
<1>4. Store_!Write(r)
  BY <1>2, <1>3 DEF Store_!Write, AllRecords
<1> QED
  BY <1>3, <1>4 DEF Store_!Next, AllRecords

\* A record disappears whose deletion was asked for.
LEMMA RecordDisappears ==
  ASSUME IInv, DataOK, IInv', DataOK', Wanted' \subseteq Wanted,
         NEW r \in Content, r \in ToDelete, r \notin Wanted, Content' = Content \ {r}
  PROVE  Store_!Next
<1>1. /\ ToWrite = Wanted \ Content /\ Content \subseteq AllRecords
  BY Mapped
<1>2. ToWrite' = Wanted' \ Content' /\ ToDelete' \subseteq AllRecords
  BY MappedNext
<1>3. ToWrite' \subseteq ToWrite /\ r \in Content \cap ToDelete /\ r \in AllRecords
  BY <1>1, <1>2
<1>4. Store_!Delete(r)
  BY <1>2, <1>3 DEF Store_!Delete, AllRecords
<1> QED
  BY <1>3, <1>4 DEF Store_!Next, AllRecords

\* What a request that is carried out does to the records.
LEMMA StoreChanges ==
  ASSUME IInv, DataOK, IInv', DataOK', Carried, Wanted' \subseteq Wanted
  PROVE  Store_!Next
<1>1. /\ \A r : r \in Content <=> \E b \in Data : \E k \in Valid(b) : r = RecordOf(Rec(b, k))
      /\ \A r : r \in Content' <=> \E b \in Data : \E k \in Valid(b)' : r = RecordOf(Rec(b, k)')
  <2>1. FlashOK /\ FlashOK'
    BY DEF IInv
  <2>2. (\A r : r \in Content <=> \E b \in Data : \E k \in Valid(b) : r = RecordOf(Rec(b, k)))'
    BY <2>1, ContentOfNext
  <2> QED
    BY <2>1, <2>2, ContentOf DEF RecordOf
<1>2. CASE SameRecords
  <2>1. \A r : r \in Content' <=> r \in Content
    BY <1>1, <1>2 DEF SameRecords
  <2>2. Content' = Content
    BY <2>1
  <2> QED
    BY <2>2, RecordsStay
<1>3. ASSUME PagesOK, IdsOK, Running, m_op_queue # <<>>,
             NEW kind, NEW a, NEW i, NEW v,
             Asked(kind, a, i, v), Means(a, i, v), StoredAt(a, i, v)
      PROVE  Store_!Next
  <2>1. a \in Data /\ FlashOK /\ Unique
    BY <1>3 DEF Asked, IInv, FlashOK
  <2>2. CASE v.st = "begun" /\ i \notin Valid(a)
    <3>1. \A b \in Data : \A k : /\ k \in Valid(b)' <=> k \in Valid(b)
                                 /\ k \in Valid(b) => Rec(b, k)' = Rec(b, k)
      BY <1>3, <2>2 DEF StoredAt
    <3>2. Content' = Content
      BY <1>1, <3>1
    <3> QED
      BY <3>2, RecordsStay
  <2>3. CASE v.st = "valid"
    <3>1. /\ p_op.code \in Writes /\ Fresh(p_op.id)
          /\ v.id = p_op.id /\ v.file = p_op.file /\ v.data = p_op.id
      BY <1>3, <2>3, WrittenIs
    <3>2. i \notin Valid(a)
      <4>1. Rec(a, i).st = "valid" /\ i <= Top(a) => v = Dirtied(a, i)
        BY <1>3 DEF Asked
      <4>2. i \in Valid(a) => /\ i \in 1 .. Top(a) /\ Rec(a, i) \in SlotType /\ Rec(a, i).st = "valid"
                              /\ Top(a) \in Nat
        BY <2>1, PageFacts
      <4>3. i \in Valid(a) => Dirtied(a, i).st = "dirty"
        BY <4>2 DEF Dirtied, SlotType
      <4> QED
        BY <2>3, <4>1, <4>2, <4>3
    <3>3. \A b \in Data : \A k : /\ k \in Valid(b)' <=> k \in Valid(b) \/ (b = a /\ k = i)
                                 /\ k \in Valid(b) => Rec(b, k)' = Rec(b, k)
      BY <1>3, <2>1, <2>3, <3>2 DEF StoredAt
    <3>4. Rec(a, i)' = v
      BY <1>3 DEF StoredAt
    <3>5. PICK r : r = RecordOf(v)
      OBVIOUS
    <3>6. Content' = Content \cup {r}
      <4>1. \A x : x \in Content' <=> x \in Content \/ x = r
        BY <1>1, <2>1, <3>3, <3>4, <3>5
      <4> QED
        BY <4>1
    <3>7. r \in Wanted
      <4>1. 1 \in 1 .. Len(m_op_queue) /\ m_op_queue[1] = p_op /\ m_op_queue \in Seq(OpType)
        BY <1>3, HomeFacts
      <4>2. 1 \in Queued(Writes)
        BY <3>1, <4>1 DEF Queued
      <4>3. r = [id |-> p_op.id, file |-> p_op.file, data |-> p_op.id]
        BY <3>1, <3>5 DEF RecordOf
      <4> QED
        BY <4>1, <4>2, <4>3 DEF Wanted
    <3>8. r \notin Content
      <4>1. r.id = p_op.id
        BY <3>1, <3>5 DEF RecordOf
      <4>2. \A b \in Data : \A k \in Valid(b) : RecordOf(Rec(b, k)).id # p_op.id
        BY <3>1 DEF Fresh, RecordOf
      <4> QED
        BY <1>1, <4>1, <4>2
    <3> QED
      BY <3>6, <3>7, <3>8, RecordAppears
  <2>4. CASE i \in Valid(a) /\ v.st = "dirty" /\ Doomed(Rec(a, i))
    <3>1. PICK r : r = RecordOf(Rec(a, i))
      OBVIOUS
    <3>2. r.id = Rec(a, i).id /\ r.file = Rec(a, i).file /\ r \in Content
      BY <1>1, <2>1, <2>4, <3>1 DEF RecordOf
    <3>3. \A b \in Data : \A k : /\ k \in Valid(b)' <=> k \in Valid(b) /\ ~(b = a /\ k = i)
                                 /\ k \in Valid(b)' => Rec(b, k)' = Rec(b, k)
      BY <1>3, <2>1, <2>4 DEF StoredAt
    <3>4. \A b \in Data : \A k \in Valid(b) : r = RecordOf(Rec(b, k)) => b = a /\ k = i
      BY <2>1, <2>4, <3>2 DEF Unique, RecordOf
    <3>5. Content' = Content \ {r}
      <4>1. ASSUME NEW x \in Content' PROVE x \in Content /\ x # r
        <5>1. PICK b \in Data : \E k \in Valid(b)' : x = RecordOf(Rec(b, k)')
          BY <1>1
        <5>2. PICK k \in Valid(b)' : x = RecordOf(Rec(b, k)')
          BY <5>1
        <5>3. k \in Valid(b) /\ ~(b = a /\ k = i) /\ x = RecordOf(Rec(b, k))
          BY <3>3, <5>2
        <5> QED
          BY <1>1, <3>4, <5>3
      <4>2. ASSUME NEW x \in Content, x # r PROVE x \in Content'
        <5>1. PICK b \in Data : \E k \in Valid(b) : x = RecordOf(Rec(b, k))
          BY <1>1
        <5>2. PICK k \in Valid(b) : x = RecordOf(Rec(b, k))
          BY <5>1
        <5>3. k \in Valid(b)' /\ Rec(b, k)' = Rec(b, k)
          BY <3>1, <3>3, <4>2, <5>2
        <5> QED
          BY <1>1, <5>2, <5>3
      <4> QED
        BY <4>1, <4>2
    <3>6. 1 \in 1 .. Len(m_op_queue) /\ m_op_queue[1] = p_op /\ m_op_queue \in Seq(OpType)
      BY <1>3, HomeFacts
    <3>7. r \in ToDelete
      <4>1. p_op.code = "update" /\ r.id = p_op.old /\ Stands(p_op) => \E n \in Content : n.id = p_op.id
        <5> SUFFICES ASSUME Stands(p_op) PROVE \E n \in Content : n.id = p_op.id
          OBVIOUS
        <5>1. PICK h, t : h = Home(p_op) /\ t = Top(Home(p_op))
          OBVIOUS
        <5>2. h \in Data /\ t \in Nat /\ t > 0 /\ Rec(h, t).st = "valid" /\ Rec(h, t).id = p_op.id
          BY <1>3, <5>1, HomeFacts DEF Stands, New
        <5>3. t \in Valid(h)
          BY <2>1, <5>1, <5>2, PageFacts
        <5>4. RecordOf(Rec(h, t)) \in Content /\ RecordOf(Rec(h, t)).id = p_op.id
          BY <1>1, <5>2, <5>3 DEF RecordOf
        <5> QED
          BY <5>4
      <4>2. \/ p_op.code = "delete" /\ p_op.old = r.id
            \/ p_op.code = "update" /\ p_op.old = r.id /\ \E n \in Content : n.id = p_op.id
            \/ p_op.code = "file_delete" /\ p_op.file = r.file
        BY <2>4, <3>2, <4>1 DEF Doomed
      <4> QED
        BY <3>2, <3>6, <4>2 DEF ToDelete
    <3>8. r \notin Wanted
      <4> SUFFICES ASSUME NEW j \in Queued(Writes),
                          r = [id |-> m_op_queue[j].id, file |-> m_op_queue[j].file,
                               data |-> m_op_queue[j].id]
                   PROVE  FALSE
        BY DEF Wanted
      <4>1. /\ r.id = m_op_queue[j].id /\ j \in 1 .. Len(m_op_queue)
            /\ m_op_queue[j].code \in Writes /\ m_op_queue[j].old < m_op_queue[j].id
            /\ m_op_queue[j] \in OpType
        BY QueuedIs
      <4>2. CASE j = 1
        <5>1. p_op.old < p_op.id /\ r.id = p_op.id /\ p_op.code \in Writes /\ p_op \in OpType
          BY <3>6, <4>1, <4>2
        <5>2. p_op.old # p_op.id
          BY <5>1, Sizes DEF OpType, Ids
        <5> QED
          BY <2>4, <3>2, <5>1, <5>2 DEF Doomed, Writes
      <4>3. CASE j # 1
        <5>1. j \in 2 .. Len(m_op_queue)
          BY <3>6, <4>1, <4>3
        <5>2. Fresh(m_op_queue[j].id)
          BY <1>3, <4>1, <5>1 DEF Running, QueueOK, WriteOK
        <5> QED
          BY <2>1, <2>4, <3>2, <4>1, <5>2 DEF Fresh
      <4> QED
        BY <4>2, <4>3
    <3> QED
      BY <3>2, <3>5, <3>7, <3>8, RecordDisappears
  <2> QED
    BY <1>3, <2>2, <2>3, <2>4 DEF Means
<1> QED
  BY <1>2, <1>3 DEF Carried

\* Only fstorage changes flash.
LEMMA FlashStays ==
  ASSUME [Next]_vars, ~FlashDone, ~PowerLoss
  PROVE  flash' = flash
<1>1. CASE UNCHANGED vars
  BY <1>1 DEF vars
<1>2. CASE \/ fds_init \/ init_execute \/ write_execute \/ delete_execute \/ gc_execute \/ Advance
           \/ FlashTimeout
  BY <1>2 DEF fds_init, init_execute, write_execute, delete_execute, gc_execute, Advance,
     FlashTimeout
<1>3. CASE \/ \E f \in Files : fds_record_find_in_file(f)
           \/ fds_record_open \/ fds_record_close
  BY <1>3 DEF fds_record_find_in_file, fds_record_open, fds_record_close, Reading
<1>4. CASE \/ \E f \in Files : \/ fds_record_write(f) \/ fds_file_delete(f)
                               \/ \E id \in 1 .. m_latest_rec_id : fds_record_update(f, id)
           \/ \E id \in 1 .. m_latest_rec_id : fds_record_delete(id)
           \/ fds_gc
  BY <1>4 DEF fds_record_write, fds_file_delete, fds_record_update, fds_record_delete, fds_gc,
     CanCall
<1> QED
  BY <1>1, <1>2, <1>3, <1>4 DEF Next

LEMMA StoreStep ==
  ASSUME Plain, IInv, DataOK, ChunkIndexInRange, [Next]_vars
  PROVE  Store_!Next
<1>1. IInv' /\ DataOK'
  BY Inductive, DataKept
<1>2. CASE FlashDone
  <2>1. Carried
    BY <1>2, RequestDone DEF FlashDone, env
  <2>2. Wanted' = Wanted
    BY <1>2 DEF FlashDone, ram, Wanted, Queued
  <2> QED
    BY <1>1, <2>1, <2>2, StoreChanges
<1>3. CASE PowerLoss
  <2>1. Carried
    BY <1>3, PowerLossStep
  <2>2. Wanted' = {}
    <3>1. m_op_queue' = <<>> /\ DOMAIN <<>> = {}
      BY <1>3 DEF PowerLoss
    <3> QED
      BY <3>1 DEF Wanted, Queued
  <2> QED
    BY <1>1, <2>1, <2>2, StoreChanges
<1>4. CASE ~FlashDone /\ ~PowerLoss
  <2>1. flash' = flash
    BY <1>4, FlashStays
  <2>2. Content' = Content
    BY <2>1 DEF Content, Tagged, LiveOn
  <2> QED
    BY <1>1, <2>2, RecordsStay
<1> QED
  BY <1>2, <1>3, <1>4

LEMMA StoreBegins ==
  ASSUME Init
  PROVE  Store_!Init
<1>1. \A a \in Addrs : flash[a] = Erased /\ flash[a].tag = "erased"
  BY DEF Init, Erased
<1>2. Content = {}
  BY <1>1 DEF Content, Tagged
<1>3. ToWrite = {} /\ ToDelete = {}
  <2>1. m_op_queue = <<>> /\ DOMAIN <<>> = {}
    BY DEF Init
  <2> QED
    BY <1>2, <2>1 DEF ToWrite, ToDelete, Queued
<1> QED
  BY <1>2, <1>3 DEF Store_!Init

----------------------------------------------------------------------------
\* As long as no record is updated the read index stays in its range: only an
\* update fails with its chunk still queued.

NoUpdates == \A i \in 1 .. Len(m_op_queue) : m_op_queue[i].code # "update"

IndexOK == NoUpdates /\ ChunkIndexInRange

LEMMA NoUpdatesStep ==
  ASSUME m_op_queue \in Seq(OpType), m_op_queue # <<>>, NoUpdates,
         m_op_queue' = m_op_queue \/ \E step : SetOp([p_op EXCEPT !.step = step])
  PROVE  NoUpdates'
<1>1. CASE m_op_queue' = m_op_queue
  BY <1>1 DEF NoUpdates
<1>2. CASE \E step : SetOp([p_op EXCEPT !.step = step])
  <2>1. PICK step : SetOp([p_op EXCEPT !.step = step])
    BY <1>2
  <2>2. PICK op : op = [p_op EXCEPT !.step = step]
    BY Zenon
  <2>3. p_op \in OpType /\ 1 \in 1 .. Len(m_op_queue) /\ p_op = m_op_queue[1]
    BY DEF p_op
  <2>4. op.code = p_op.code
    BY <2>2, <2>3 DEF OpType
  <2>5. m_op_queue' = [m_op_queue EXCEPT ![1] = op]
    BY <2>1, <2>2 DEF SetOp
  <2>6. /\ Len(m_op_queue') = Len(m_op_queue)
        /\ \A i \in 1 .. Len(m_op_queue) : m_op_queue'[i] = IF i = 1 THEN op ELSE m_op_queue[i]
    BY <2>5
  <2> QED
    BY <2>3, <2>4, <2>6 DEF NoUpdates
<1> QED
  BY <1>1, <1>2

LEMMA NoUpdatesMore ==
  ASSUME m_op_queue \in Seq(OpType), NoUpdates, NEW op, Enqueue(op), op.code # "update"
  PROVE  NoUpdates'
<1>1. PICK n : n = Len(m_op_queue)
  OBVIOUS
<1>2. n \in Nat /\ m_op_queue' = Append(m_op_queue, op)
  BY <1>1 DEF Enqueue
<1>3. /\ Len(m_op_queue') = n + 1 /\ m_op_queue'[n + 1] = op
      /\ \A i \in 1 .. n : m_op_queue'[i] = m_op_queue[i]
  BY <1>1, <1>2
<1>4. \A i \in 1 .. n + 1 : i \in 1 .. n \/ i = n + 1
  BY <1>2
<1> QED
  BY <1>1, <1>3, <1>4 DEF NoUpdates

LEMMA BootIndex ==
  ASSUME IndexOK, fds_init
  PROVE  IndexOK'
<1>1. m_chunk_queue' = m_chunk_queue
  BY DEF fds_init
<1>2. \/ m_op_queue' = m_op_queue
      \/ \E step : m_op_queue' = <<[NoOp EXCEPT !.code = "init", !.step = step]>>
  BY DEF fds_init
<1>3. CASE m_op_queue' = m_op_queue
  BY <1>1, <1>3 DEF IndexOK, NoUpdates, ChunkIndexInRange
<1>4. CASE \E step : m_op_queue' = <<[NoOp EXCEPT !.code = "init", !.step = step]>>
  <2>1. PICK step : m_op_queue' = <<[NoOp EXCEPT !.code = "init", !.step = step]>>
    BY <1>4
  <2>2. PICK op : op = [NoOp EXCEPT !.code = "init", !.step = step]
    OBVIOUS
  <2>3. op.code = "init" /\ m_op_queue' = <<op>>
    BY <2>1, <2>2 DEF NoOp
  <2> QED
    BY <1>1, <2>3 DEF IndexOK, NoUpdates, ChunkIndexInRange
<1> QED
  BY <1>2, <1>3, <1>4

LEMMA StartIndex ==
  ASSUME IInv, IndexOK, init_execute
  PROVE  IndexOK'
<1>1. Due /\ m_op_queue # <<>> /\ p_op.code = "init"
  BY TurnOk DEF init_execute
<1>2. m_chunk_queue' = m_chunk_queue
  BY <1>1 DEF init_execute, Due, InitTagSwap, InitTagData, InitDone, InitEraseSwap,
     InitPromoteSwap, Completed
<1>3. \/ m_op_queue' = m_op_queue
      \/ \E step : SetOp([p_op EXCEPT !.step = step])
  BY <1>1 DEF init_execute, Due, InitTagSwap, InitTagData, InitDone, InitEraseSwap,
     InitPromoteSwap
<1> QED
  BY <1>1, <1>2, <1>3, QueueTyped, NoUpdatesStep DEF IndexOK, ChunkIndexInRange

LEMMA WriteIndex ==
  ASSUME IInv, IndexOK, write_execute
  PROVE  IndexOK'
<1>1. /\ turn = "ok" /\ Running /\ PagesOK /\ m_op_queue # <<>> /\ p_op.code = "write"
      /\ m_op_queue \in Seq(OpType)
  <2>1. p_op.code # "update"
    BY WriteTurn, HomeFacts DEF IndexOK, NoUpdates
  <2> QED
    BY <2>1, WriteTurn, HomeFacts DEF Writes
<1>2. p_op.step # "FIND_RECORD"
  <2>1. Executing(p_op)
    BY <1>1 DEF Running, HeadOK
  <2> QED
    BY <1>1, <2>1 DEF Executing, Starts, AtStart, Opening, Filling, Storing, Sealing, Sealed,
       Replacing, Replaced, Marking, Marked, Sweeping, Clearing, Ended, Writes, Due, InFlight
<1>3. WriteBegin("HEADER_BEGIN") \/ WriteId \/ WriteChunk \/ WriteFinalize \/ DeleteOld \/ WriteDone
  BY <1>1, <1>2 DEF write_execute, FindOld, WriteBegin
<1>4. m_op_queue' = m_op_queue \/ \E step : SetOp([p_op EXCEPT !.step = step])
  BY <1>3 DEF WriteBegin, WriteId, WriteChunk, WriteFinalize, DeleteOld, WriteDone, StepTo
<1>5. ChunkIndexInRange'
  <2>1. CASE WriteChunk
    <3>1. PICK r : r = (m_chunk_queue.rp + 1) % ChunkQueueSize
      OBVIOUS
    <3>2. r < ChunkQueueSize
      <4>1. m_chunk_queue.rp + 1 \in Nat
        BY Chunks
      <4>2. r \in 0 .. ChunkQueueSize - 1
        BY <3>1, <4>1, Wraps, Sizes
      <4> QED
        BY <4>2, Sizes
    <3>3. m_chunk_queue' = [m_chunk_queue EXCEPT !.rp = r, !.count = m_chunk_queue.count - 1]
      BY <2>1, <3>1 DEF WriteChunk
    <3>4. m_chunk_queue'.rp = r
      BY <3>3, ChunkSet
    <3> QED
      BY <3>2, <3>4 DEF ChunkIndexInRange
  <2>2. CASE m_chunk_queue' = m_chunk_queue
    BY <2>2 DEF IndexOK, ChunkIndexInRange
  <2> QED
    BY <1>3, <2>1, <2>2 DEF WriteBegin, WriteId, WriteFinalize, DeleteOld, WriteDone, Completed
<1> QED
  BY <1>1, <1>4, <1>5, NoUpdatesStep DEF IndexOK

LEMMA DeleteIndex ==
  ASSUME IInv, IndexOK, delete_execute
  PROVE  IndexOK'
<1>1. /\ turn = "ok" /\ m_op_queue # <<>> /\ ~HasChunk(p_op)
  BY DeleteTurn
<1>2. m_chunk_queue' = m_chunk_queue
  BY <1>1 DEF delete_execute, DeleteRecord, DeleteFile, DeleteDone, Failed, Completed,
     chunk_queue_skip
<1>3. m_op_queue' = m_op_queue \/ \E step : SetOp([p_op EXCEPT !.step = step])
  BY <1>1 DEF delete_execute, DeleteRecord, DeleteFile, DeleteDone, StepTo
<1> QED
  BY <1>1, <1>2, <1>3, QueueTyped, NoUpdatesStep DEF IndexOK, ChunkIndexInRange

LEMMA AdvanceIndex ==
  ASSUME IInv, IndexOK, Advance
  PROVE  IndexOK'
<1>1. PICK n : n = Len(m_op_queue)
  OBVIOUS
<1>2. /\ m_chunk_queue' = m_chunk_queue /\ Len(m_op_queue') = n - 1
      /\ \A i \in 1 .. n - 1 : m_op_queue'[i] = m_op_queue[i + 1]
      /\ \A i \in 1 .. n - 1 : i + 1 \in 1 .. n
  BY <1>1, QueueAdvances
<1> QED
  BY <1>1, <1>2 DEF IndexOK, NoUpdates, ChunkIndexInRange

LEMMA CallIndex ==
  ASSUME Plain, "update" \notin Calls, IInv, IndexOK,
         \/ \E f \in Files : \/ fds_record_write(f) \/ fds_file_delete(f)
                             \/ \E id \in 1 .. m_latest_rec_id : fds_record_update(f, id)
         \/ \E id \in 1 .. m_latest_rec_id : fds_record_delete(id)
  PROVE  IndexOK'
<1>1. ASSUME NEW op, op.code # "update", Enqueue(op), m_chunk_queue' = m_chunk_queue
      PROVE  IndexOK'
  BY <1>1, QueueTyped, NoUpdatesMore DEF IndexOK, ChunkIndexInRange
<1>2. ASSUME NEW f \in Files, fds_record_write(f)
      PROVE  IndexOK'
  <2>1. PICK op : op = [NoOp EXCEPT !.code = "write", !.step = "HEADER_BEGIN", !.file = f]
    OBVIOUS
  <2>2. op = [code |-> "write", step |-> "HEADER_BEGIN", page |-> 1, id |-> 0, file |-> f, old |-> 0]
    BY <2>1 DEF NoOp
  <2>3. write_enqueue(op)
    BY <1>2, <2>1 DEF fds_record_write
  <2>4. CASE UNCHANGED <<m_pages, m_chunk_queue, m_op_queue, m_flags, turn>>
    BY <2>4 DEF IndexOK, NoUpdates, ChunkIndexInRange
  <2>5. ASSUME NEW p, NEW at,
               m_chunk_queue' = [m_chunk_queue EXCEPT
                   !.chunk[at] = m_latest_rec_id + 1, !.count = @ + 1],
               Enqueue([op EXCEPT !.page = p, !.id = m_latest_rec_id + 1])
        PROVE  IndexOK'
    <3>1. PICK ch, id : id = m_latest_rec_id + 1 /\ ch = [m_chunk_queue.chunk EXCEPT ![at] = id]
      OBVIOUS
    <3>2. m_chunk_queue' = [m_chunk_queue EXCEPT !.chunk = ch, !.count = m_chunk_queue.count + 1]
      BY <2>5, <3>1
    <3>3. m_chunk_queue'.rp = m_chunk_queue.rp
      BY <3>2
    <3>4. PICK new : new = Placed(op, p, id)
      OBVIOUS
    <3>5. Enqueue(new)
      BY <2>5, <3>1, <3>4 DEF Placed
    <3>6. new.code = "write"
      BY <2>2, <3>4 DEF Placed
    <3>7. NoUpdates'
      BY <3>5, <3>6, QueueTyped, NoUpdatesMore DEF IndexOK
    <3> QED
      BY <3>3, <3>7 DEF IndexOK, ChunkIndexInRange
  <2> QED
    BY <2>3, <2>4, <2>5 DEF write_enqueue
<1>3. ASSUME NEW id \in 1 .. m_latest_rec_id, fds_record_delete(id)
      PROVE  IndexOK'
  <2>1. PICK op : op = [NoOp EXCEPT !.code = "delete", !.step = "DEL_RECORD", !.old = id]
    OBVIOUS
  <2>2. op.code = "delete"
    BY <2>1 DEF NoOp
  <2> QED
    BY <1>1, <1>3, <2>1, <2>2 DEF fds_record_delete
<1>4. ASSUME NEW f \in Files, fds_file_delete(f)
      PROVE  IndexOK'
  <2>1. PICK op : op = [NoOp EXCEPT !.code = "file_delete", !.step = "DEL_FILE", !.file = f]
    OBVIOUS
  <2>2. op.code = "file_delete"
    BY <2>1 DEF NoOp
  <2> QED
    BY <1>1, <1>4, <2>1, <2>2 DEF fds_file_delete
<1>5. ASSUME NEW f, NEW id, fds_record_update(f, id)
      PROVE  FALSE
  BY <1>5 DEF fds_record_update, CanCall
<1> QED
  BY <1>2, <1>3, <1>4, <1>5

LEMMA IndexKept ==
  ASSUME Plain, "update" \notin Calls, IInv, IndexOK, [Next]_vars
  PROVE  IndexOK'
<1>1. CASE fds_init
  BY <1>1, BootIndex
<1>2. CASE gc_execute
  <2>1. turn \in {"ok", "timeout"} /\ p_op.code = "gc"
    BY <1>2 DEF gc_execute
  <2>2. p_op \in OpType
    BY <2>1, TurnOk
  <2> QED
    BY <2>1, <2>2 DEF OpType
<1>3. CASE fds_gc \/ FlashTimeout
  BY <1>3 DEF fds_gc, CanCall, FlashTimeout, Plain
<1>4. CASE UNCHANGED vars \/ FlashDone
  BY <1>4 DEF vars, ram, FlashDone, IndexOK, NoUpdates, ChunkIndexInRange
<1>5. CASE \/ \E f \in Files : fds_record_find_in_file(f)
           \/ fds_record_open \/ fds_record_close
  <2>1. Reading
    BY <1>5 DEF fds_record_find_in_file, fds_record_open, fds_record_close
  <2> QED
    BY <2>1 DEF Reading, IndexOK, NoUpdates, ChunkIndexInRange
<1>6. CASE init_execute
  BY <1>6, StartIndex
<1>7. CASE write_execute
  BY <1>7, WriteIndex
<1>8. CASE delete_execute
  BY <1>8, DeleteIndex
<1>9. CASE Advance
  BY <1>9, AdvanceIndex
<1>10. CASE PowerLoss
  <2>1. m_op_queue' = <<>> /\ m_chunk_queue'.rp = 0
    BY <1>10 DEF PowerLoss, NoChunks
  <2> QED
    BY <2>1, Sizes DEF IndexOK, NoUpdates, ChunkIndexInRange
<1>11. CASE \/ \E f \in Files : \/ fds_record_write(f) \/ fds_file_delete(f)
                                \/ \E id \in 1 .. m_latest_rec_id : fds_record_update(f, id)
            \/ \E id \in 1 .. m_latest_rec_id : fds_record_delete(id)
  BY <1>11, CallIndex
<1> QED
  BY <1>1, <1>2, <1>3, <1>4, <1>5, <1>6, <1>7, <1>8, <1>9, <1>10, <1>11 DEF Next

LEMMA IndexBegins ==
  ASSUME Init
  PROVE  IndexOK
<1>1. m_op_queue = <<>> /\ m_chunk_queue.rp = 0
  BY DEF Init, NoChunks
<1> QED
  BY <1>1, Sizes DEF IndexOK, NoUpdates, ChunkIndexInRange

----------------------------------------------------------------------------
\* The theorems.

\* Flash is a record store, of any size, whatever the application writes,
\* updates and deletes and whenever the power fails: only records that were asked
\* for appear, whole, and only records whose deletion was asked for disappear.
\* The code keeps this as long as the read index of the chunk queue stays in its
\* range; an update that fails to find its record may leave it there for the
\* next write to store data from elsewhere (chunk_queue_skip).
THEOREM FlashIsRecordStore ==
  ASSUME Plain PROVE Spec /\ []ChunkIndexInRange => ImplementsStore
<1>1. Init => IInv /\ DataOK /\ Store_!Init
  BY InitHolds, InitData, StoreBegins
<1>2. IInv /\ DataOK /\ ChunkIndexInRange /\ [Next]_vars =>
        IInv' /\ DataOK' /\ [Store_!Next]_Store_!vars
  BY Inductive, DataKept, StoreStep
<1> QED
  BY <1>1, <1>2, PTL DEF Spec, ImplementsStore, Store_!Spec

\* An application that never updates a record has a record store without any
\* condition (write_execute, delete_execute, pages_init).
THEOREM FlashIsRecordStoreWithoutUpdates ==
  ASSUME Plain, "update" \notin Calls PROVE Spec => ImplementsStore
<1>1. Init => IInv /\ DataOK /\ IndexOK /\ Store_!Init
  BY InitHolds, InitData, IndexBegins, StoreBegins
<1>2. IInv /\ DataOK /\ IndexOK /\ [Next]_vars =>
        IInv' /\ DataOK' /\ IndexOK' /\ [Store_!Next]_Store_!vars
  BY Inductive, DataKept, IndexKept, StoreStep DEF IndexOK
<1> QED
  BY <1>1, <1>2, PTL DEF Spec, ImplementsStore, Store_!Spec
=============================================================================
