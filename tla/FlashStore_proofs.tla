------------------------- MODULE FlashStore_proofs -------------------------
(***************************************************************************)
(* Proofs about FlashStore, for any files, values, sizes and bounds.  What *)
(* is stored, acknowledged and shown is proved for a phone that lets flash *)
(* finish before it goes on (Patient).                                     *)
(***************************************************************************)
EXTENDS FlashStore, SequenceTheorems, TLAPS

(***************************************************************************)
(* The inductive invariant.  The buffer holds what the operations in the   *)
(* queue and the command under way are to write; a file is deleted before  *)
(* it is written; and a value is on its way to a file or its last record.  *)
(***************************************************************************)

Operation(code, f) == [code |-> code, file |-> f]

Asked == ToSet(queue)

Pending(code, f) == Operation(code, f) \in Asked

\* The value v is the last record of f, or about to be.
Held(f, v) ==
    IF Pending("write", f) THEN g_flashbuff = v
    ELSE ~Pending("file_delete", f) /\ stored[f] # <<>> /\ Last(stored[f]) = v

DeletesFirst ==
    \A i, j \in 1 .. Len(queue) :
        queue[i].code = "file_delete" /\ queue[j].code = "write" => i < j

Composed ==
    /\ pc = "off" => queue = <<>>
    /\ pc = "write" =>
         /\ g_flashbuff = cmd.value /\ cmd.value \in wrote[cmd.file]
         /\ acked[cmd.file] = Zero
         /\ \A f \in AllFiles : ~Pending("write", f)
    /\ \A f \in AllFiles : Pending("write", f) => g_flashbuff \in wrote[f]

\* The value v is to be the last record of f: flash is waited for, or it was
\* acknowledged, and flash did not fail.
Due(f, v) ==
    f \notin lost /\ ((pc = "wait" /\ cmd.file = f /\ cmd.value = v) \/ (acked[f] = v /\ v # Zero))

Acknowledged == \A f \in AllFiles, v \in Data : Due(f, v) => Held(f, v)

SetsBalance == pc = "write" /\ cmd.file = Balance

Shown ==
    ~late /\ pc # "off" =>
        /\ ready
        /\ Pending("write", Balance) \/ SetsBalance => coinbalance = g_flashbuff
        /\ \/ Pending("write", Balance) \/ SetsBalance \/ Balance \in lost
           \/ /\ ~Pending("file_delete", Balance)
              /\ stored[Balance] = <<>> \/ coinbalance = Last(stored[Balance])

IInv == TypeOK /\ DeletesFirst /\ Composed /\ RecordsGenuine /\ Acknowledged /\ Shown

(***************************************************************************)
(* The queue.                                                              *)
(***************************************************************************)

\* What is asked for after an operation is put into the queue.
LEMMA OnAppend ==
  ASSUME NEW o \in Ops, queue \in Seq(Ops), queue' = Append(queue, o)
  PROVE  Asked' = Asked \cup {o}
<1>1. Len(queue') = Len(queue) + 1 /\ queue'[Len(queue) + 1] = o
      /\ (\A i \in 1 .. Len(queue) : queue'[i] = queue[i]) /\ Len(queue) \in Nat
      /\ DOMAIN queue = 1 .. Len(queue) /\ DOMAIN queue' = 1 .. Len(queue')
  OBVIOUS
<1> QED BY <1>1 DEF Asked, ToSet

\* What is asked for when the first operation is done.
LEMMA OnTail ==
  ASSUME queue \in Seq(Ops), queue # <<>>, queue' = Tail(queue)
  PROVE  Asked' \subseteq Asked /\ Asked \subseteq Asked' \cup {queue[1]}
<1>1. Len(queue') = Len(queue) - 1 /\ Len(queue) \in Nat \ {0}
      /\ (\A i \in 1 .. Len(queue') : queue'[i] = queue[i + 1])
      /\ DOMAIN queue = 1 .. Len(queue) /\ DOMAIN queue' = 1 .. Len(queue')
  OBVIOUS
<1>2. ASSUME NEW o \in Asked' PROVE o \in Asked
  <2>1. PICK i \in 1 .. Len(queue') : queue'[i] = o
    BY <1>1, <1>2 DEF Asked, ToSet
  <2>2. i + 1 \in 1 .. Len(queue) /\ queue[i + 1] = o
    BY <1>1, <2>1
  <2> QED BY <1>1, <2>2 DEF Asked, ToSet
<1>3. ASSUME NEW o \in Asked, queue[1] # o PROVE o \in Asked'
  <2>1. PICK i \in 1 .. Len(queue) : queue[i] = o
    BY <1>1, <1>3 DEF Asked, ToSet
  <2>2. i - 1 \in 1 .. Len(queue') /\ queue'[i - 1] = o
    BY <1>1, <1>3, <2>1
  <2> QED BY <1>1, <2>2 DEF Asked, ToSet
<1> QED BY <1>2, <1>3

\* Nothing is asked for in an empty queue.
LEMMA OnEmpty == ASSUME queue = <<>> PROVE Asked = {}
BY DEF Asked, ToSet

\* The first operation is asked for.
LEMMA OnHead ==
  ASSUME queue \in Seq(Ops), queue # <<>>
  PROVE  /\ queue[1] \in Ops /\ queue[1] \in Asked
         /\ queue[1] = Operation(queue[1].code, queue[1].file)
<1>1. 1 \in 1 .. Len(queue) /\ DOMAIN queue = 1 .. Len(queue)
  OBVIOUS
<1>2. queue[1] \in Ops
  BY <1>1
<1>3. queue[1] = Operation(queue[1].code, queue[1].file)
  BY <1>2 DEF Ops, Operation
<1> QED BY <1>1, <1>2, <1>3 DEF Asked, ToSet

\* A write that is begun finds no deletion behind it.
LEMMA NothingToDelete ==
  ASSUME NEW f, queue \in Seq(Ops), queue # <<>>, DeletesFirst, queue[1].code = "write"
  PROVE  ~Pending("file_delete", f)
<1> SUFFICES ASSUME NEW i \in 1 .. Len(queue), queue[i] = Operation("file_delete", f)
             PROVE  FALSE
  BY DEF Pending, Asked, ToSet
<1>1. 1 \in 1 .. Len(queue) /\ queue[i].code = "file_delete"
  BY DEF Operation
<1>2. i < 1
  BY <1>1 DEF DeletesFirst
<1> QED BY <1>2

\* Deletions stay before writes.
LEMMA OrderOnAppend ==
  ASSUME NEW o \in Ops, queue \in Seq(Ops), queue' = Append(queue, o), DeletesFirst,
         o.code = "file_delete" => \A f \in AllFiles : ~Pending("write", f)
  PROVE  DeletesFirst'
<1>1. Len(queue') = Len(queue) + 1 /\ Len(queue) \in Nat /\ queue'[Len(queue) + 1] = o
      /\ \A i \in 1 .. Len(queue) : queue'[i] = queue[i] /\ queue[i] \in Ops
  OBVIOUS
<1> SUFFICES ASSUME NEW i \in 1 .. Len(queue'), NEW j \in 1 .. Len(queue'),
                    queue'[i].code = "file_delete", queue'[j].code = "write"
             PROVE  i < j
  BY DEF DeletesFirst
<1>2. CASE i = Len(queue) + 1
  <2>1. j \in 1 .. Len(queue) /\ queue[j].code = "write" /\ o.code = "file_delete"
    BY <1>1, <1>2
  <2>2. queue[j] = Operation("write", queue[j].file) /\ queue[j].file \in AllFiles
    BY <1>1, <2>1 DEF Ops, Operation
  <2> QED BY <2>1, <2>2 DEF Pending, Asked, ToSet
<1>3. CASE i # Len(queue) + 1 /\ j = Len(queue) + 1
  BY <1>1, <1>3
<1>4. CASE i # Len(queue) + 1 /\ j # Len(queue) + 1
  <2>1. i \in 1 .. Len(queue) /\ j \in 1 .. Len(queue)
    BY <1>1, <1>4
  <2> QED BY <1>1, <2>1 DEF DeletesFirst
<1> QED BY <1>2, <1>3, <1>4

LEMMA OrderOnTail ==
  ASSUME queue \in Seq(Ops), queue # <<>>, queue' = Tail(queue), DeletesFirst
  PROVE  DeletesFirst'
<1>1. Len(queue') = Len(queue) - 1 /\ Len(queue) \in Nat \ {0}
      /\ \A i \in 1 .. Len(queue') : queue'[i] = queue[i + 1] /\ i + 1 \in 1 .. Len(queue)
  OBVIOUS
<1> SUFFICES ASSUME NEW i \in 1 .. Len(queue'), NEW j \in 1 .. Len(queue'),
                    queue'[i].code = "file_delete", queue'[j].code = "write"
             PROVE  i < j
  BY DEF DeletesFirst
<1>2. i + 1 < j + 1
  BY <1>1 DEF DeletesFirst
<1> QED BY <1>1, <1>2

\* A record that is appended is the last.
LEMMA LastOfAppend ==
  ASSUME NEW s \in Seq(Data), NEW v \in Data
  PROVE  Append(s, v) # <<>> /\ Last(Append(s, v)) = v
BY DEF Last

\* What is left when a record is deleted was there before.
LEMMA OnRemoveAt ==
  ASSUME NEW s \in Seq(Data), NEW i \in 1 .. Len(s)
  PROVE  /\ RemoveAt(s, i) \in Seq(Data)
         /\ \A j \in DOMAIN RemoveAt(s, i) : \E k \in DOMAIN s : RemoveAt(s, i)[j] = s[k]
<1> DEFINE a == SubSeq(s, 1, i - 1)
           b == SubSeq(s, i + 1, Len(s))
<1>1. a \in Seq(Data) /\ Len(a) = i - 1 /\ \A j \in 1 .. Len(a) : a[j] = s[j]
  OBVIOUS
<1>2. b \in Seq(Data) /\ Len(b) = Len(s) - i /\ \A j \in 1 .. Len(b) : b[j] = s[i + j]
  <2>1. CASE i = Len(s)
    BY <2>1
  <2>2. CASE i < Len(s)
    BY <2>2
  <2> QED BY <2>1, <2>2
<1>3. RemoveAt(s, i) = a \o b
  BY DEF RemoveAt
<1> HIDE DEF a, b
<1>4. a \o b \in Seq(Data) /\ Len(a \o b) = Len(s) - 1
      /\ \A j \in 1 .. Len(a \o b) : (a \o b)[j] = IF j <= Len(a) THEN a[j] ELSE b[j - Len(a)]
  <2>1. Len(a) + Len(b) = Len(s) - 1
    BY <1>1, <1>2
  <2>2. a \in Seq(Data) /\ b \in Seq(Data)
    BY <1>1, <1>2
  <2>3. /\ a \o b \in Seq(Data) /\ Len(a \o b) = Len(a) + Len(b)
        /\ \A j \in 1 .. Len(a) + Len(b) :
              (a \o b)[j] = IF j <= Len(a) THEN a[j] ELSE b[j - Len(a)]
    BY ONLY <2>2, ConcatProperties
  <2> QED BY <2>1, <2>3
<1>5. ASSUME NEW j \in 1 .. Len(a \o b) PROVE \E k \in 1 .. Len(s) : (a \o b)[j] = s[k]
  <2>1. CASE j <= Len(a)
    BY <1>1, <1>4, <2>1
  <2>2. CASE j > Len(a)
    <3>1. j - Len(a) \in 1 .. Len(b) /\ j + 1 \in 1 .. Len(s) /\ i + (j - Len(a)) = j + 1
      BY <1>1, <1>2, <1>4, <2>2
    <3>2. (a \o b)[j] = s[j + 1]
      BY <1>2, <1>4, <2>2, <3>1
    <3> QED BY <3>1, <3>2
  <2> QED BY <1>1, <2>1, <2>2
<1>6. DOMAIN (a \o b) = 1 .. Len(a \o b) /\ DOMAIN s = 1 .. Len(s)
  BY <1>4
<1> QED BY <1>3, <1>4, <1>5, <1>6

LEMMA LastIsData ==
  ASSUME NEW s \in Seq(Data), s # <<>>
  PROVE  Last(s) \in Data /\ Head(s) \in Data
BY DEF Last

(***************************************************************************)
(* Types.                                                                  *)
(***************************************************************************)

\* Every step keeps the types.
LEMMA TypeStep == TypeOK /\ [Next]_vars => TypeOK'
<1> SUFFICES ASSUME TypeOK, [Next]_vars PROVE TypeOK'
  OBVIOUS
<1> USE FlashAssumption DEF TypeOK
<1>0. {Zero, Oversize} \subseteq Data /\ Balance \in AllFiles /\ Values \subseteq Data /\ Files \subseteq AllFiles
  BY DEF Data, AllFiles
<1>a. ASSUME NEW k \in {"balance", "write"}, NEW f \in AllFiles, NEW v \in Values,
             NewCommand, StartWrite(k, f, v), g_flashbuff' = v, coinbalance' \in Data
      PROVE  TypeOK'
  <2>1. cmd' \in Cmds /\ answer' \in Answers
    BY <1>0, <1>a DEF StartWrite, Cmds, Answers, NoAnswer
  <2>2. queue' \in Seq(Ops) /\ Len(queue') <= OpQueueSize
    <3>1. CASE queue' = queue
      BY <3>1
    <3>2. CASE ready /\ HasRoom /\ Enqueue("file_delete", f)
      <4>1. Operation("file_delete", f) \in Ops
        BY <1>a DEF Operation, Ops
      <4> QED BY <3>2, <4>1 DEF Enqueue, HasRoom, Operation
    <3> QED BY <1>a, <3>1, <3>2 DEF StartWrite
  <2>3. wrote' \in [AllFiles -> SUBSET Data] /\ acked' \in [AllFiles -> Data]
    BY <1>0, <1>a DEF StartWrite
  <2>4. cmds' \in 0 .. MaxCmd
    BY <1>a DEF NewCommand
  <2> QED BY <1>0, <1>a, <2>1, <2>2, <2>3, <2>4 DEF StartWrite
<1>1. CASE Boot
  <2>1. coinbalance' \in Data
    BY <1>0, <1>1, LastIsData DEF Boot, usr_data_init, fds_read
  <2> QED BY <1>1, <2>1 DEF Boot
<1>2. CASE Recovered
  BY <1>2 DEF Recovered, ram, ghost
<1>3. ASSUME NEW v \in Values, setup_balance_f(v) PROVE TypeOK'
  BY <1>0, <1>3, <1>a DEF setup_balance_f
<1>4. ASSUME NEW v \in Values, NEW f \in Files, blue_writeflash(f, v) PROVE TypeOK'
  BY <1>0, <1>4, <1>a DEF blue_writeflash
<1>5. ASSUME NEW f \in Files, WriteTooLong(f) PROVE TypeOK'
  <2>1. answer' \in Answers
    BY <1>0, <1>5 DEF WriteTooLong, Answers
  <2> QED BY <1>0, <1>5, <2>1 DEF WriteTooLong, NewCommand, flash
<1>6. ASSUME NEW f \in AllFiles, blue_readflash(f) PROVE TypeOK'
  <2>1. g_flashbuff' \in Data
    BY <1>0, <1>6, LastIsData DEF blue_readflash, fds_read
  <2>2. answer' \in Answers
    BY <1>0, <1>6, <2>1 DEF blue_readflash, Answers
  <2> QED BY <1>6, <2>1, <2>2 DEF blue_readflash, NewCommand
<1>7. CASE RecordWrite
  <2>1. cmd.file \in AllFiles
    BY DEF Cmds
  <2>2. CASE Accepted /\ Enqueue("write", cmd.file) /\ pc' = "wait" /\ UNCHANGED <<answer, cmd, lost>>
    <3>1. Operation("write", cmd.file) \in Ops
      BY <2>1 DEF Operation, Ops
    <3>2. queue' \in Seq(Ops) /\ Len(queue') <= OpQueueSize
      BY <2>2, <3>1 DEF Enqueue, Accepted, HasRoom, Operation
    <3> QED BY <1>7, <2>2, <3>2 DEF RecordWrite
  <2>3. CASE Answer("error") /\ lost' = lost \cup {cmd.file} /\ UNCHANGED queue
    <3>1. answer' \in Answers /\ cmd' \in Cmds
      BY <1>0, <2>3 DEF Answer, Answers, Cmds, NoCmd
    <3> QED BY <1>7, <2>1, <2>3, <3>1 DEF RecordWrite, Answer
  <2> QED BY <1>7, <2>2, <2>3 DEF RecordWrite
<1>8. CASE WaitWritten
  <2>1. answer' \in Answers /\ cmd' \in Cmds /\ acked' \in [AllFiles -> Data]
    BY <1>0, <1>8 DEF WaitWritten, Answer, Answers, Cmds, NoCmd
  <2> QED BY <1>8, <2>1 DEF WaitWritten, Answer, flash
<1>9. CASE DeleteFile
  <2>1. CASE queue' = Tail(queue) /\ tok' = 0 /\ UNCHANGED stored
    BY <1>9, <2>1 DEF DeleteFile, ram, ghost
  <2>2. CASE /\ ~(Len(stored[Op.file]) <= tok)
             /\ stored' = [stored EXCEPT ![Op.file] = RemoveAt(@, tok + 1)]
             /\ UNCHANGED <<queue, tok>>
    <3>1. Op.file \in AllFiles /\ stored[Op.file] \in Seq(Data)
          /\ tok + 1 \in 1 .. Len(stored[Op.file])
      BY <1>9, <2>2, OnHead DEF DeleteFile, Op, Ops
    <3>2. stored' \in [AllFiles -> Seq(Data)]
      BY <2>2, <3>1, OnRemoveAt
    <3> QED BY <1>9, <2>2, <3>2 DEF DeleteFile, ram, ghost
  <2> QED BY <1>9, <2>1, <2>2 DEF DeleteFile
<1>10. CASE WriteRecord
  <2>a. Op.file \in AllFiles
    BY <1>10, OnHead DEF WriteRecord, Op, Ops
  <2>b. \/ stored' = [stored EXCEPT ![Op.file] = Append(@, g_flashbuff)] /\ lost' = lost
        \/ stored' = stored /\ lost' = lost \cup {Op.file}
    BY <1>10 DEF WriteRecord
  <2>1. lost' \in SUBSET AllFiles
    BY <2>a, <2>b
  <2>2. stored' \in [AllFiles -> Seq(Data)]
    <3> DEFINE w == Append(stored[Op.file], g_flashbuff)
    <3>1. w \in Seq(Data)
      BY <2>a, AppendProperties
    <3>2. stored' = stored \/ stored' = [stored EXCEPT ![Op.file] = w]
      BY <2>b
    <3> HIDE DEF w
    <3> QED BY <2>a, <3>1, <3>2
  <2>3. write_flag' \in {0, 1}
    BY <1>10 DEF WriteRecord, my_fds_evt_handler
  <2> QED BY <1>10, <2>1, <2>2, <2>3 DEF WriteRecord
<1>11. CASE PeerAsks
  <2>1. Operation("peer", Balance) \in Ops
    BY <1>0 DEF Operation, Ops
  <2> QED BY <1>11, <2>1 DEF PeerAsks, Enqueue, HasRoom, Operation, ram
<1>12. CASE PeerWritten
  BY <1>12 DEF PeerWritten, my_fds_evt_handler, ghost
<1>13. CASE PowerLoss
  <2>1. answer' \in Answers /\ cmd' \in Cmds /\ acked' \in [AllFiles -> Data]
    BY <1>0, <1>13 DEF PowerLoss, Answers, Cmds, NoCmd, NoAnswer
  <2>2. resets' \in 0 .. MaxPower
    BY <1>13 DEF PowerLoss
  <2>3. queue' \in Seq(Ops) /\ Len(queue') <= OpQueueSize /\ lost' \in SUBSET AllFiles
        /\ tok' \in 0 .. Capacity
    BY <1>13 DEF PowerLoss
  <2>4. /\ UNCHANGED <<stored, used, wrote, late, cmds>>
        /\ ready' = FALSE /\ g_flashbuff' = Zero /\ coinbalance' = Zero /\ write_flag' = 0
        /\ pc' = "off"
    BY <1>13 DEF PowerLoss
  <2> QED BY <1>0, <2>1, <2>2, <2>3, <2>4
<1>14. CASE DeleteFails
  <2>1. queue' \in Seq(Ops) /\ Len(queue') <= OpQueueSize
    BY <1>14 DEF DeleteFails
  <2> QED BY <1>14, <2>1 DEF DeleteFails, ram, ghost
<1>15. CASE UNCHANGED vars
  BY <1>15 DEF vars, flash, ram, ghost
<1> QED
  BY <1>1, <1>2, <1>3, <1>4, <1>5, <1>6, <1>7, <1>8, <1>9, <1>10, <1>11, <1>12, <1>13,
     <1>14, <1>15 DEF Next

(***************************************************************************)
(* What the commands keep.                                                 *)
(***************************************************************************)

\* The invariant without the types.
Kept == DeletesFirst /\ Composed /\ RecordsGenuine /\ Acknowledged /\ Shown

\* Init establishes the invariant.
LEMMA InitStep == Init => IInv
<1> SUFFICES ASSUME Init PROVE IInv
  OBVIOUS
<1> USE FlashAssumption DEF Init
<1>1. TypeOK
  <2>1. Zero \in Data /\ Balance \in AllFiles
    BY DEF Data, AllFiles
  <2>2. NoCmd \in Cmds /\ NoAnswer \in Answers
    BY <2>1 DEF Cmds, Answers, NoCmd, NoAnswer
  <2>3. stored \in [AllFiles -> Seq(Data)] /\ wrote \in [AllFiles -> SUBSET Data]
        /\ acked \in [AllFiles -> Data]
    BY <2>1
  <2>4. queue \in Seq(Ops) /\ Len(queue) <= OpQueueSize /\ cmds \in 0 .. MaxCmd
        /\ resets \in 0 .. MaxPower /\ tok \in 0 .. Capacity
    OBVIOUS
  <2> QED BY <2>1, <2>2, <2>3, <2>4 DEF TypeOK
<1>2. Asked = {}
  BY OnEmpty
<1> QED
  BY <1>1, <1>2 DEF IInv, DeletesFirst, Composed, RecordsGenuine, Acknowledged, Due, Shown,
                    Pending

\* A step that leaves what the invariant is about alone keeps it.
LEMMA SameStep ==
  ASSUME IInv, UNCHANGED <<stored, queue, ready, g_flashbuff, coinbalance, pc, cmd, wrote,
                           acked, lost, late>>
  PROVE  Kept'
<1>1. Asked' = Asked
  BY DEF Asked
<1> QED
  BY <1>1 DEF IInv, Kept, DeletesFirst, Composed, RecordsGenuine, Acknowledged, Due, Held,
              Shown, SetsBalance, Pending

\* Boot reads the last record of the balance, once fds is ready.
LEMMA BootStep == ASSUME IInv, Boot PROVE Kept'
<1> USE DEF IInv, Boot
<1>1. Asked = {} /\ Asked' = {}
  BY OnEmpty DEF Composed, Asked
<1>2. DeletesFirst' /\ RecordsGenuine'
  BY DEF DeletesFirst, RecordsGenuine
<1>3. Composed'
  BY <1>1 DEF Composed, Pending
<1>4. Acknowledged'
  BY <1>1 DEF Acknowledged, Due, Held, Pending
<1>5. Shown'
  BY <1>1 DEF Shown, SetsBalance, Pending, usr_data_init, fds_read
<1> QED BY <1>2, <1>3, <1>4, <1>5 DEF Kept

\* Fds becomes ready.
LEMMA RecoveredStep == ASSUME IInv, Recovered PROVE Kept'
<1> USE DEF IInv, Recovered, ram, ghost
<1>1. Asked' = Asked
  BY DEF Asked
<1> QED
  BY <1>1 DEF Kept, DeletesFirst, Composed, RecordsGenuine, Acknowledged, Due, Held,
              Shown, SetsBalance, Pending

\* A write is begun when fds is at rest: the file's deletion is the one operation.
LEMMA BeginStep ==
  ASSUME IInv, Patient, NewCommand,
         NEW k \in {"balance", "write"}, NEW f \in AllFiles, NEW v \in Values,
         StartWrite(k, f, v), g_flashbuff' = v,
         coinbalance' = IF f = Balance THEN v ELSE coinbalance
  PROVE  Kept'
<1> USE FlashAssumption DEF IInv, StartWrite
<1>0. queue = <<>> /\ Asked = {} /\ pc = "idle" /\ Zero \notin Values
      /\ queue \in Seq(Ops) /\ v \in Data
  BY OnEmpty DEF NewCommand, TypeOK, Data
<1>1. /\ Asked' \subseteq {Operation("file_delete", f)}
      /\ ready => Asked' = {Operation("file_delete", f)}
      /\ DeletesFirst'
  <2>1. CASE queue' = queue /\ ~(ready /\ HasRoom)
    <3>1. ~ready
      BY <1>0, <2>1 DEF HasRoom
    <3> QED BY <1>0, <2>1, <3>1 DEF Asked, DeletesFirst
  <2>2. CASE ready /\ HasRoom /\ queue' = Append(queue, Operation("file_delete", f))
    <3>1. Operation("file_delete", f) \in Ops
      BY DEF Operation, Ops
    <3>2. Asked' = {Operation("file_delete", f)}
      BY <1>0, <2>2, <3>1, OnAppend
    <3>3. DeletesFirst'
      BY <1>0, <2>2, <3>1, OrderOnAppend DEF Pending
    <3> QED BY <3>2, <3>3
  <2> QED BY <2>1, <2>2 DEF Enqueue, Operation
<1>2. \A g : ~Pending("write", g)' /\ ~Pending("write", g) /\ ~Pending("file_delete", g)
      /\ (Pending("file_delete", g)' => g = f)
  BY <1>0, <1>1 DEF Pending, Operation
<1>3. wrote' \in [AllFiles -> SUBSET Data] /\ v \in wrote'[f] /\ acked'[f] = Zero
      /\ \A g \in AllFiles : wrote[g] \subseteq wrote'[g] /\ (g # f => acked'[g] = acked[g])
  BY <1>0 DEF TypeOK
<1>4. Composed'
  BY <1>2, <1>3 DEF Composed
<1>5. RecordsGenuine'
  BY <1>3 DEF RecordsGenuine
<1>6. Acknowledged'
  BY <1>0, <1>2, <1>3 DEF Acknowledged, Due, Held
<1>7. Shown'
  BY <1>0, <1>1, <1>2 DEF Shown, SetsBalance, Pending
<1> QED BY <1>1, <1>4, <1>5, <1>6, <1>7 DEF Kept

\* A command that is refused, or reads a file, uses the buffer no operation needs.
LEMMA TooLongStep ==
  ASSUME IInv, Patient, NEW f \in Files, WriteTooLong(f)
  PROVE  Kept'
<1> USE DEF IInv, WriteTooLong, flash
<1>1. Asked = {} /\ Asked' = {} /\ pc = "idle"
  BY OnEmpty DEF NewCommand, Asked
<1> QED
  BY <1>1 DEF Kept, DeletesFirst, Composed, RecordsGenuine, Acknowledged, Due, Held,
              Shown, SetsBalance, Pending

LEMMA ReadStep ==
  ASSUME IInv, Patient, NEW f \in AllFiles, blue_readflash(f)
  PROVE  Kept'
<1> USE DEF IInv, blue_readflash
<1>1. Asked = {} /\ Asked' = {} /\ pc = "idle"
  BY OnEmpty DEF NewCommand, Asked
<1> QED
  BY <1>1 DEF Kept, DeletesFirst, Composed, RecordsGenuine, Acknowledged, Due, Held,
              Shown, SetsBalance, Pending

\* The record is asked for, or the command given up.
LEMMA RecordStep == ASSUME IInv, RecordWrite PROVE Kept'
<1> USE DEF IInv, RecordWrite
<1>0. cmd.file \in AllFiles /\ cmd.value \in Data /\ queue \in Seq(Ops) /\ pc = "write"
  BY DEF TypeOK, Cmds
<1>1. CASE Accepted /\ Enqueue("write", cmd.file) /\ pc' = "wait"
           /\ UNCHANGED <<answer, cmd, lost>>
  <2>0. DEFINE o == Operation("write", cmd.file)
  <2>1. o \in Ops /\ queue' = Append(queue, o)
    BY <1>0, <1>1 DEF Operation, Ops, Enqueue
  <2>2. Asked' = Asked \cup {o}
    BY <1>0, <2>1, OnAppend
  <2>3. DeletesFirst'
    BY <1>0, <2>1, OrderOnAppend DEF Operation
  <2>4. \A g \in AllFiles : /\ Pending("write", g)' <=> g = cmd.file
                            /\ ~Pending("write", g)
                            /\ Pending("file_delete", g)' <=> Pending("file_delete", g)
    BY <1>0, <2>2 DEF Pending, Operation, Composed
  <2>5. Composed' /\ RecordsGenuine'
    BY <1>0, <1>1, <2>4 DEF Composed, RecordsGenuine
  <2>6. Acknowledged'
    BY <1>0, <1>1, <2>4 DEF Acknowledged, Due, Held, Composed
  <2>7. Shown'
    <3>1. Balance \in AllFiles
      BY DEF AllFiles
    <3> QED BY <1>0, <1>1, <2>4, <3>1 DEF Shown, SetsBalance, Composed
  <2> QED BY <2>3, <2>5, <2>6, <2>7 DEF Kept
<1>2. CASE Answer("error") /\ lost' = lost \cup {cmd.file} /\ UNCHANGED queue
  <2>1. Asked' = Asked
    BY <1>2 DEF Asked
  <2>2. pc' = "idle"
    BY <1>2 DEF Answer
  <2>3. Acknowledged'
    BY <1>0, <1>2, <2>1, <2>2 DEF Acknowledged, Due, Held, Pending
  <2>4. Shown'
    <3>1. Balance \in AllFiles
      BY DEF AllFiles
    <3> QED BY <1>0, <1>2, <2>1, <2>2, <3>1 DEF Shown, SetsBalance, Pending, Composed
  <2> QED BY <1>2, <2>1, <2>2, <2>3, <2>4
          DEF Kept, DeletesFirst, Composed, RecordsGenuine, Pending
<1> QED BY <1>1, <1>2

\* A write is acknowledged.
LEMMA WaitStep == ASSUME IInv, WaitWritten PROVE Kept'
<1> USE DEF IInv, WaitWritten, flash
<1>1. Asked' = Asked /\ pc' = "idle"
  BY DEF Asked, Answer
<1>2. cmd.file \in AllFiles /\ cmd.value \in Data
      /\ acked' = [acked EXCEPT ![cmd.file] = cmd.value] /\ acked \in [AllFiles -> Data]
  BY DEF TypeOK, Cmds
<1>3. Acknowledged'
  BY <1>1, <1>2 DEF Acknowledged, Due, Held, Pending
<1> QED
  BY <1>1, <1>3 DEF Kept, DeletesFirst, Composed, RecordsGenuine, Shown, SetsBalance, Pending

(***************************************************************************)
(* What flash and a reset keep.                                            *)
(***************************************************************************)

\* An operation that is asked for, or done, and writes nothing.
LEMMA QueueStep ==
  ASSUME IInv, pc # "off", DeletesFirst',
         UNCHANGED <<stored, ready, g_flashbuff, coinbalance, pc, cmd, wrote, acked, lost, late>>,
         \A f \in AllFiles : Pending("write", f)' <=> Pending("write", f),
         \A f \in AllFiles : Pending("file_delete", f)' => Pending("file_delete", f)
  PROVE  Kept'
<1> USE DEF Pending
<1>1. Composed'
  BY DEF IInv, Composed
<1>2. RecordsGenuine'
  BY DEF IInv, RecordsGenuine
<1>3. Acknowledged'
  BY DEF IInv, Acknowledged, Due, Held
<1>4. Shown'
  <2>1. Balance \in AllFiles
    BY DEF AllFiles
  <2> QED BY <2>1 DEF IInv, Shown, SetsBalance
<1> QED BY <1>1, <1>2, <1>3, <1>4 DEF Kept

\* A deletion ends, all records marked or one given up.
LEMMA DeletionEnds ==
  ASSUME IInv, queue # <<>>, Op.code = "file_delete", queue' = Tail(queue),
         UNCHANGED <<stored, ready, g_flashbuff, coinbalance, pc, cmd, wrote, acked, lost, late>>
  PROVE  Kept'
<1> USE DEF IInv, Op
<1>0. /\ queue \in Seq(Ops) /\ queue[1] = Operation("file_delete", queue[1].file)
  BY OnHead DEF TypeOK
<1>1. Asked' \subseteq Asked /\ Asked \subseteq Asked' \cup {queue[1]}
  BY <1>0, OnTail
<1>2. \A f \in AllFiles : /\ Pending("write", f)' <=> Pending("write", f)
                          /\ Pending("file_delete", f)' => Pending("file_delete", f)
  BY <1>0, <1>1 DEF Pending, Operation
<1>3. DeletesFirst'
  BY <1>0, OrderOnTail
<1>4. pc # "off"
  BY DEF Composed
<1> QED BY <1>2, <1>3, <1>4, QueueStep

LEMMA DeleteFailsStep == ASSUME IInv, DeleteFails PROVE Kept'
BY DeletionEnds DEF DeleteFails, ram, ghost

\* A deletion takes a record of the file.
LEMMA DeleteStep == ASSUME IInv, DeleteFile PROVE Kept'
<1> USE DEF IInv, DeleteFile, Op, ram, ghost
<1>0. /\ queue \in Seq(Ops) /\ queue # <<>> /\ stored \in [AllFiles -> Seq(Data)]
      /\ queue[1].file \in AllFiles /\ Balance \in AllFiles /\ tok \in 0 .. Capacity
      /\ queue[1] = Operation("file_delete", queue[1].file) /\ queue[1] \in Asked
  BY OnHead DEF TypeOK, Ops, AllFiles
<1>1. CASE queue' = Tail(queue) /\ UNCHANGED stored
  BY <1>1, DeletionEnds
<1>2. CASE /\ ~(Len(stored[Op.file]) <= tok)
           /\ stored' = [stored EXCEPT ![Op.file] = RemoveAt(@, tok + 1)]
           /\ UNCHANGED queue
  <2>1. Asked' = Asked /\ Pending("file_delete", queue[1].file)
    BY <1>0, <1>2 DEF Asked, Pending
  <2>2. \A f \in AllFiles : f # queue[1].file => stored'[f] = stored[f]
    BY <1>0, <1>2
  <2>3. RecordsGenuine'
    <3> SUFFICES ASSUME NEW f \in AllFiles, NEW i \in DOMAIN stored'[f]
                 PROVE  stored'[f][i] \in wrote[f]
      BY DEF RecordsGenuine
    <3>1. CASE f # queue[1].file
      BY <2>2, <3>1 DEF RecordsGenuine
    <3>2. CASE f = queue[1].file
      <4>1. stored[f] \in Seq(Data) /\ tok + 1 \in 1 .. Len(stored[f])
            /\ stored'[f] = RemoveAt(stored[f], tok + 1)
        BY <1>0, <1>2, <3>2
      <4>2. \E k \in DOMAIN stored[f] : stored'[f][i] = stored[f][k]
        BY <4>1, OnRemoveAt
      <4> QED BY <4>2 DEF RecordsGenuine
    <3> QED BY <3>1, <3>2
  <2>4. Acknowledged'
    BY <2>1, <2>2 DEF Acknowledged, Due, Held, Pending
  <2>5. Shown'
    BY <1>0, <2>1, <2>2 DEF Shown, SetsBalance, Pending
  <2> QED BY <1>2, <2>1, <2>3, <2>4, <2>5 DEF Kept, DeletesFirst, Composed, Pending
<1> QED BY <1>1, <1>2

\* A record is written: it is the last of its file, and no deletion is to come.
\* One that fails is lost.
LEMMA WriteStep == ASSUME IInv, WriteRecord PROVE Kept'
<1>0. /\ queue \in Seq(Ops) /\ queue # <<>> /\ stored \in [AllFiles -> Seq(Data)]
      /\ queue[1].file \in AllFiles /\ Balance \in AllFiles /\ g_flashbuff \in Data
      /\ queue[1] = Operation("write", queue[1].file) /\ queue[1] \in Asked
      /\ queue' = Tail(queue)
  BY OnHead DEF IInv, TypeOK, Ops, AllFiles, WriteRecord, Op
<1>1. Asked' \subseteq Asked /\ Asked \subseteq Asked' \cup {queue[1]}
  BY <1>0, OnTail
<1>2. \A f \in AllFiles :
         /\ ~Pending("file_delete", f) /\ ~Pending("file_delete", f)'
         /\ Pending("write", f)' => Pending("write", f)
         /\ Pending("write", f) => Pending("write", f)' \/ f = queue[1].file
         /\ f = queue[1].file => Pending("write", f)
  <2>1. \A f \in AllFiles : ~Pending("file_delete", f)
    BY <1>0, NothingToDelete DEF IInv, WriteRecord, Op
  <2>2. \A f \in AllFiles : f = queue[1].file => Pending("write", f)
    BY <1>0 DEF Pending
  <2>3. \A f \in AllFiles : f # queue[1].file => Operation("write", f) # queue[1]
    BY <1>0 DEF Operation
  <2>4. \A f \in AllFiles : Pending("write", f) => Pending("write", f)' \/ f = queue[1].file
    BY <1>1, <2>3 DEF Pending
  <2>5. \A f \in AllFiles : Pending("write", f)' => Pending("write", f)
    BY <1>1 DEF Pending
  <2> QED BY <1>1, <2>1, <2>2, <2>4, <2>5 DEF Pending
<1>3. pc # "write" /\ pc # "off" /\ g_flashbuff \in wrote[queue[1].file]
  BY <1>0, <1>2 DEF IInv, Composed, Pending
<1>u. UNCHANGED <<ready, g_flashbuff, coinbalance, pc, cmd, wrote, acked, late>>
  BY DEF WriteRecord
<1>5. DeletesFirst'
  BY <1>0, OrderOnTail DEF IInv
<1>6. Composed'
  BY <1>u, <1>2, <1>3 DEF IInv, Composed, Pending
<1>a. CASE lost' = lost \cup {queue[1].file} /\ UNCHANGED stored
  <2>1. RecordsGenuine'
    BY <1>u, <1>a DEF IInv, RecordsGenuine
  <2>2. Acknowledged'
    BY <1>u, <1>a, <1>2 DEF IInv, Acknowledged, Due, Held, Pending
  <2>3. Shown'
    BY <1>u, <1>a, <1>0, <1>2, <1>3 DEF IInv, Shown, SetsBalance, Pending
  <2> QED BY <1>5, <1>6, <2>1, <2>2, <2>3 DEF Kept
<1>b. CASE UNCHANGED lost /\ stored' = [stored EXCEPT ![queue[1].file] = Append(@, g_flashbuff)]
  <2>1. \A f \in AllFiles :
          IF f = queue[1].file
          THEN stored'[f] = Append(stored[f], g_flashbuff) /\ stored'[f] # <<>>
               /\ Last(stored'[f]) = g_flashbuff
          ELSE stored'[f] = stored[f]
    BY <1>0, <1>b, LastOfAppend
  <2>2. RecordsGenuine'
    <3> SUFFICES ASSUME NEW f \in AllFiles, NEW i \in DOMAIN stored'[f]
                 PROVE  stored'[f][i] \in wrote[f]
      BY <1>u DEF RecordsGenuine
    <3>1. CASE f # queue[1].file
      BY <2>1, <3>1 DEF IInv, RecordsGenuine
    <3>2. CASE f = queue[1].file
      <4>1. stored[f] \in Seq(Data) /\ stored'[f] = Append(stored[f], g_flashbuff)
        BY <1>0, <2>1, <3>2
      <4>2. \/ i \in DOMAIN stored[f] /\ stored'[f][i] = stored[f][i]
            \/ stored'[f][i] = g_flashbuff
        BY <1>0, <4>1
      <4> QED BY <1>3, <3>2, <4>2 DEF IInv, RecordsGenuine
    <3> QED BY <3>1, <3>2
  <2>3. Acknowledged'
    BY <1>u, <1>b, <1>2, <2>1 DEF IInv, Acknowledged, Due, Held, Pending
  <2>4. Shown'
    BY <1>u, <1>b, <1>0, <1>2, <1>3, <2>1 DEF IInv, Shown, SetsBalance, Pending
  <2> QED BY <1>5, <1>6, <2>2, <2>3, <2>4 DEF Kept
<1> QED BY <1>a, <1>b DEF WriteRecord, Op

\* The peer manager's operations are of no file of the application.
LEMMA PeerAsksStep == ASSUME IInv, PeerAsks PROVE Kept'
<1>1. Operation("peer", Balance) \in Ops /\ queue \in Seq(Ops)
      /\ queue' = Append(queue, Operation("peer", Balance))
  BY DEF IInv, Operation, Ops, AllFiles, TypeOK, Enqueue, PeerAsks
<1>2. Asked' = Asked \cup {Operation("peer", Balance)}
  BY <1>1, OnAppend
<1>3. /\ \A f \in AllFiles : Pending("write", f)' <=> Pending("write", f)
      /\ \A f \in AllFiles : Pending("file_delete", f)' => Pending("file_delete", f)
  BY <1>2 DEF Pending, Operation
<1>4. DeletesFirst'
  BY <1>1, OrderOnAppend DEF IInv, Operation
<1>u. UNCHANGED <<stored, ready, g_flashbuff, coinbalance, pc, cmd, wrote, acked, lost, late>>
      /\ pc # "off"
  BY DEF PeerAsks, ram
<1> QED BY <1>u, <1>3, <1>4, QueueStep DEF Pending

LEMMA PeerWrittenStep == ASSUME IInv, PeerWritten PROVE Kept'
<1>1. queue \in Seq(Ops) /\ queue # <<>> /\ queue[1] = Operation("peer", queue[1].file)
      /\ queue' = Tail(queue)
  BY OnHead DEF IInv, TypeOK, PeerWritten, Op
<1>2. Asked' \subseteq Asked /\ Asked \subseteq Asked' \cup {queue[1]}
  BY <1>1, OnTail
<1>3. /\ \A f \in AllFiles : Pending("write", f)' <=> Pending("write", f)
      /\ \A f \in AllFiles : Pending("file_delete", f)' => Pending("file_delete", f)
  BY <1>1, <1>2 DEF Pending, Operation
<1>4. DeletesFirst'
  BY <1>1, OrderOnTail DEF IInv
<1>u. UNCHANGED <<stored, ready, g_flashbuff, coinbalance, pc, cmd, wrote, acked, lost, late>>
      /\ pc # "off"
  BY <1>1 DEF IInv, PeerWritten, ghost, Composed
<1> QED BY <1>u, <1>3, <1>4, QueueStep DEF Pending

\* A reset forgets what was asked for, and with it what is due of those files.
LEMMA PowerStep == ASSUME IInv, PowerLoss PROVE Kept'
<1> USE DEF IInv, PowerLoss
<1>1. Asked' = {}
  BY DEF Asked, ToSet
<1>2. ASSUME NEW f \in AllFiles, acked'[f] # Zero
      PROVE  acked'[f] = acked[f] /\ ~Pending("write", f) /\ f \notin lost
  <2>1. ~\E i \in DOMAIN queue : queue[i].file = f /\ queue[i].code # "peer"
    BY <1>2
  <2> QED BY <1>2, <2>1 DEF Pending, Asked, ToSet, Operation
<1>3. DeletesFirst'
  BY DEF DeletesFirst
<1>4. Composed' /\ RecordsGenuine' /\ Shown'
  BY <1>1 DEF Composed, RecordsGenuine, Shown, Pending
<1>5. Acknowledged'
  BY <1>1, <1>2 DEF Acknowledged, Due, Held, Pending
<1> QED BY <1>3, <1>4, <1>5 DEF Kept

(***************************************************************************)
(* Theorems.                                                               *)
(***************************************************************************)

\* The types of the queue of fds, the files and the commands
\* (flashmcu_bithd.c), whatever the phone does.
THEOREM TypeCorrect == Spec => []TypeOK
<1>1. Init => TypeOK
  BY InitStep DEF IInv
<1> QED BY <1>1, TypeStep, PTL DEF Spec

\* The invariant, for a phone that lets flash finish before it goes on.
THEOREM InvCorrect == Patient /\ Spec => []IInv
<1> SUFFICES ASSUME Patient PROVE Spec => []IInv
  OBVIOUS
<1>1. IInv /\ [Next]_vars => IInv'
  <2> SUFFICES ASSUME IInv, [Next]_vars PROVE Kept'
    BY TypeStep DEF IInv, Kept
  <2>1. ASSUME NEW v \in Values, setup_balance_f(v) PROVE Kept'
    <3>1. Balance \in AllFiles
      BY DEF AllFiles
    <3> QED BY <2>1, <3>1, BeginStep DEF setup_balance_f
  <2>2. ASSUME NEW v \in Values, NEW f \in Files, blue_writeflash(f, v) PROVE Kept'
    <3>1. f \in AllFiles /\ f # Balance
      BY FlashAssumption DEF AllFiles
    <3> QED BY <2>2, <3>1, BeginStep DEF blue_writeflash
  <2>3. CASE UNCHANGED vars
    BY <2>3, SameStep DEF vars, flash, ram, ghost
  <2> QED
    BY <2>1, <2>2, <2>3, BootStep, RecoveredStep, TooLongStep, ReadStep, RecordStep, WaitStep,
       DeleteStep, DeleteFailsStep, WriteStep, PeerAsksStep, PeerWrittenStep, PowerStep DEF Next
<1> QED BY <1>1, InitStep, PTL DEF Spec

\* A file holds what the phone wrote to it, although the record is taken from a
\* buffer all commands share (g_flashbuff).
THEOREM RecordsCorrect == Patient /\ Spec => []RecordsGenuine
BY InvCorrect, PTL DEF IInv

\* A read once fds is ready answers with what was acknowledged, over resets, late
\* recoveries and failed deletions, unless flash failed that very write
\* (fds_test_write, fds_read).
THEOREM ReadBackCorrect == Patient /\ Spec => ReadBack
<1> SUFFICES ASSUME Patient PROVE Spec => ReadBack
  OBVIOUS
<1>1. ASSUME IInv, NEW f \in AllFiles, blue_readflash(f), ready, acked[f] # Zero, f \notin lost
      PROVE  answer'.value = acked[f]
  <2>1. queue = <<>> /\ acked[f] \in Data /\ ~Pending("write", f)
    BY <1>1, OnEmpty DEF IInv, TypeOK, Pending, blue_readflash, NewCommand
  <2>2. stored[f] # <<>> /\ Last(stored[f]) = acked[f]
    BY <1>1, <2>1 DEF IInv, Acknowledged, Due, Held
  <2> QED BY <1>1, <2>2 DEF blue_readflash, fds_read
<1>2. IInv /\ [Next]_vars
        => [\A f \in AllFiles : blue_readflash(f) /\ ready /\ acked[f] # Zero /\ f \notin lost
                                 => answer'.value = acked[f]]_vars
  BY <1>1
<1>3. Spec => []IInv
  BY InvCorrect
<1> QED BY <1>2, <1>3, PTL DEF Spec, ReadBack

\* The balance shown is the one in flash (usr_data_init, setup_balance_f).
THEOREM BalanceCorrect == Patient /\ Spec => []BalanceRestored
<1>1. IInv => BalanceRestored
  BY OnEmpty DEF IInv, Shown, BalanceRestored, SetsBalance, Pending
<1> QED BY <1>1, InvCorrect, PTL

=============================================================================
