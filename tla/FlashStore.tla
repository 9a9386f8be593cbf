----------------------------- MODULE FlashStore -----------------------------
(***************************************************************************)
(* What the application keeps in flash (flashmcu_bithd.c and the handlers  *)
(* of commands 3 and 7): files of one record each, the balance among them. *)
(* A file is written by asking fds to delete it and to write a new record, *)
(* whose data stay in the one buffer g_flashbuff until flash has them.     *)
(* The flash works in interrupts, between any two steps of the handlers.   *)
(*                                                                         *)
(* Fds itself is the subject of module Fds; here an operation of its queue *)
(* is one step for each record it touches, and may fail: flash gives it up *)
(* halfway and fds reports that.  What a failure can do to fds itself      *)
(* (README, Weaknesses) is left to module Fds.  A value stands for the     *)
(* bytes of a record, its length included.                                 *)
(***************************************************************************)
EXTENDS SequencesExt

CONSTANTS
    Files,          \* written by the phone with command 7
    Values,         \* what the phone writes
    OpQueueSize,    \* FDS_OP_QUEUE_SIZE
    Capacity,       \* records the data pages hold, deleted ones included
    Patient,        \* whether the phone lets flash finish before it goes on
    Recovery,       \* whether fds may have work to do at boot
    PeerManager,    \* whether the peer manager writes to flash, too
    Failing,        \* whether flash may fail an operation
    MaxCmd, MaxPower  \* bounds: commands and writes of the peer manager; resets

Balance  == "balance"                   \* file 3
AllFiles == Files \cup {Balance}
Zero     == "zero"                      \* memory after a reset
Oversize == "oversize"                  \* more bytes than a command may write

ASSUME FlashAssumption ==
    /\ Balance \notin Files /\ Zero \notin Values /\ Oversize \notin Values
    /\ {OpQueueSize, Capacity} \subseteq Nat \ {0}
    /\ {Patient, Recovery, PeerManager, Failing} \subseteq BOOLEAN
    /\ {MaxCmd, MaxPower} \subseteq Nat

VARIABLES
    stored,        \* the valid records of every file, in the order written
    used,          \* records the data pages hold, deleted ones included
    queue,         \* fds's operations
    ready,         \* fds is initialized
    tok,           \* records of the file that the next deletion passes over
    g_flashbuff, coinbalance, write_flag,
    pc,            \* where fds_test_write is: "idle", "write", "wait"; "off"
    cmd,           \* the command that is executed
    answer,        \* the last one
    wrote,         \* what the phone ever wrote to a file
    acked,         \* the value last acknowledged, if it must be there
    lost,          \* files whose last write was refused or failed since the reset
    late,          \* fds became ready after usr_data_init had read the balance
    cmds, resets   \* counters of the bounds

flash == <<stored, used, queue, ready, tok>>
ram   == <<g_flashbuff, coinbalance, write_flag, pc, cmd>>
ghost == <<wrote, acked, lost, late, cmds, resets>>
vars  == <<flash, ram, answer, ghost>>

NoCmd  == [kind |-> "none", file |-> Balance, value |-> Zero]
NoAnswer == [kind |-> "none", file |-> Balance, value |-> Zero]

Init ==
    /\ stored = [f \in AllFiles |-> <<>>] /\ used = 0
    /\ queue = <<>> /\ ready = FALSE /\ tok = 0
    /\ g_flashbuff = Zero /\ coinbalance = Zero /\ write_flag = 0
    /\ pc = "off" /\ cmd = NoCmd /\ answer = NoAnswer
    /\ wrote = [f \in AllFiles |-> {}] /\ acked = [f \in AllFiles |-> Zero]
    /\ lost = {} /\ late = FALSE /\ cmds = 0 /\ resets = 0

----------------------------------------------------------------------------
\* Boot: fds_usr_init and usr_data_init.

\* Mutant: only the first record found is copied.
BadFds_read(f, before) ==
    IF ready' /\ stored[f] # <<>> THEN Head(stored[f]) ELSE before

\* fds_read: every record of the file is copied to the same place.
fds_read(f, before) ==
    IF ready' /\ stored[f] # <<>> THEN Last(stored[f]) ELSE before

\* Mutant: what is read at boot is what memory holds.
BadUsr_data_init == coinbalance' = coinbalance

\* The balance is zero if nothing is read.
usr_data_init == coinbalance' = fds_read(Balance, Zero)

\* fds_init returns before a recovery is done, and usr_data_init does not wait.
Boot ==
    /\ pc = "off" /\ pc' = "idle"
    /\ ready' \in IF Recovery THEN BOOLEAN ELSE {TRUE}
    /\ usr_data_init
    /\ late' = ~ready'
    /\ UNCHANGED <<stored, used, queue, tok, g_flashbuff, write_flag, cmd, answer, wrote, acked,
                   lost, cmds, resets>>

Recovered ==
    /\ pc # "off" /\ ~ready /\ ready' = TRUE
    /\ UNCHANGED <<stored, used, queue, tok, ram, answer, ghost>>

----------------------------------------------------------------------------
\* Commands.

HasRoom == Len(queue) < OpQueueSize

Enqueue(code, f) == queue' = Append(queue, [code |-> code, file |-> f])

\* The next command of the phone.
NewCommand ==
    /\ pc = "idle" /\ cmds < MaxCmd /\ cmds' = cmds + 1
    /\ Patient => queue = <<>>

\* fds_test_write up to the call of fds_file_delete, whose result is ignored.
StartWrite(kind, f, v) ==
    /\ cmd' = [kind |-> kind, file |-> f, value |-> v]
    /\ pc' = "write" /\ answer' = NoAnswer
    /\ IF ready /\ HasRoom THEN Enqueue("file_delete", f) ELSE UNCHANGED queue
    /\ wrote' = [wrote EXCEPT ![f] = @ \cup {v}]
    /\ acked' = [acked EXCEPT ![f] = Zero] /\ lost' = lost \ {f}
    /\ UNCHANGED <<stored, used, ready, tok, write_flag, late, resets>>

setup_balance_f(v) ==
    /\ NewCommand
    /\ coinbalance' = v /\ g_flashbuff' = v
    /\ StartWrite("balance", Balance, v)

\* Mutant: the buffer is filled after the write is asked for.
BadBlue_writeflash(f, v) ==
    /\ NewCommand
    /\ StartWrite("write", f, v)
    /\ UNCHANGED <<g_flashbuff, coinbalance>>

blue_writeflash(f, v) ==
    /\ NewCommand
    /\ g_flashbuff' = v /\ UNCHANGED coinbalance
    /\ StartWrite("write", f, v)

\* More than 128 bytes: the buffer is filled, and then the command refused.
WriteTooLong(f) ==
    /\ NewCommand
    /\ g_flashbuff' = Oversize
    /\ answer' = [kind |-> "error", file |-> f, value |-> Oversize]
    /\ UNCHANGED <<flash, coinbalance, write_flag, pc, cmd, wrote, acked, lost, late, resets>>

\* A file without a record, or of an fds that is not ready, is answered with what
\* the buffer holds, if its length can be answered: fds_read finds nothing
\* and succeeds.
blue_readflash(f) ==
    /\ NewCommand
    /\ UNCHANGED ready
    /\ g_flashbuff' = fds_read(f, g_flashbuff)
    /\ \E kind \in IF g_flashbuff' = Oversize THEN {"read", "error"} ELSE {"read"} :
         answer' = [kind |-> kind, file |-> f, value |-> g_flashbuff']
    /\ UNCHANGED <<stored, used, queue, tok, coinbalance, write_flag, pc, cmd, wrote, acked,
                   lost, late, resets>>

\* fds_record_write.
Accepted == ready /\ HasRoom /\ used + Len(SelectSeq(queue, LAMBDA o : o.code = "write"))
                                 < Capacity

\* The answer after a write; setup_balance_f ignores what fds answers.
Answer(kind) ==
    /\ answer' = [kind |-> IF cmd.kind = "balance" THEN "ok" ELSE kind, file |-> cmd.file,
                  value |-> cmd.value]
    /\ pc' = "idle" /\ cmd' = NoCmd

\* The rest of fds_test_write.
RecordWrite ==
    /\ pc = "write"
    /\ \/ /\ Accepted
          /\ Enqueue("write", cmd.file)
          /\ pc' = "wait" /\ UNCHANGED <<answer, cmd, lost>>
       \/ /\ ~Accepted
          /\ Answer("error") /\ lost' = lost \cup {cmd.file} /\ UNCHANGED queue
    /\ UNCHANGED <<stored, used, ready, tok, g_flashbuff, coinbalance, write_flag, wrote, acked,
                   late, cmds, resets>>

\* "while (write_flag==0);"
WaitWritten ==
    /\ pc = "wait" /\ write_flag = 1
    /\ Answer("ok")
    /\ acked' = [acked EXCEPT ![cmd.file] = cmd.value]
    /\ UNCHANGED <<flash, g_flashbuff, coinbalance, write_flag, wrote, lost, late, cmds, resets>>

----------------------------------------------------------------------------
\* Flash.

Op == queue[1]

Results == IF Failing THEN {"FDS_SUCCESS", "FDS_ERR_OPERATION_TIMEOUT"} ELSE {"FDS_SUCCESS"}

\* A deleted record stays where it is; its page is not collected.
DeleteFile ==
    /\ queue # <<>> /\ Op.code = "file_delete"
    /\ IF Len(stored[Op.file]) <= tok
       THEN queue' = Tail(queue) /\ tok' = 0 /\ UNCHANGED stored
       ELSE /\ stored' = [stored EXCEPT ![Op.file] = RemoveAt(@, tok + 1)]
            /\ UNCHANGED <<queue, tok>>
    /\ UNCHANGED <<used, ready, ram, answer, ghost>>

\* A record cannot be marked, and the deletion is given up.  The token that
\* persists across calls stays where it is: the next deletion goes on there.
DeleteFails ==
    /\ Failing /\ queue # <<>> /\ Op.code = "file_delete" /\ stored[Op.file] # <<>>
    /\ queue' = Tail(queue) /\ tok' \in 0 .. Capacity
    /\ UNCHANGED <<stored, used, ready, ram, answer, ghost>>

\* Mutant: my_fds_evt_handler does not report the end of a write.
BadMy_fds_evt_handler(result) == UNCHANGED write_flag

\* The flag is never set back.
my_fds_evt_handler(result) == write_flag' = IF result = "FDS_SUCCESS" THEN 1 ELSE write_flag

\* The record takes what the buffer holds now; one that fails takes room, too.
WriteRecord ==
    /\ queue # <<>> /\ Op.code = "write"
    /\ used' = used + 1
    /\ \E result \in Results :
         /\ my_fds_evt_handler(result)
         /\ IF result = "FDS_SUCCESS"
            THEN /\ stored' = [stored EXCEPT ![Op.file] = Append(@, g_flashbuff)]
                 /\ UNCHANGED lost
            ELSE lost' = lost \cup {Op.file} /\ UNCHANGED stored
    /\ queue' = Tail(queue)
    /\ UNCHANGED <<ready, tok, g_flashbuff, coinbalance, pc, cmd, answer, wrote, acked, late,
                   cmds, resets>>

\* The peer manager writes a bond; the event reaches the application, too.
PeerAsks ==
    /\ PeerManager /\ pc # "off" /\ ready /\ HasRoom
    /\ cmds < MaxCmd /\ cmds' = cmds + 1
    /\ Enqueue("peer", Balance)
    /\ UNCHANGED <<stored, used, ready, tok, ram, answer, wrote, acked, lost, late, resets>>

PeerWritten ==
    /\ queue # <<>> /\ Op.code = "peer"
    /\ \E result \in Results : my_fds_evt_handler(result)
    /\ queue' = Tail(queue)
    /\ UNCHANGED <<stored, used, ready, tok, g_flashbuff, coinbalance, pc, cmd, answer, ghost>>

\* A reset forgets what is not in flash.  A value acknowledged is due only if
\* flash had finished with it and not failed.
PowerLoss ==
    /\ pc # "off" /\ resets < MaxPower /\ resets' = resets + 1
    /\ queue' = <<>> /\ ready' = FALSE /\ tok' = 0 /\ lost' = {}
    /\ g_flashbuff' = Zero /\ coinbalance' = Zero /\ write_flag' = 0
    /\ pc' = "off" /\ cmd' = NoCmd /\ answer' = NoAnswer
    /\ acked' = [f \in AllFiles |->
                    IF \/ f \in lost
                       \/ \E i \in DOMAIN queue : queue[i].file = f /\ queue[i].code # "peer"
                    THEN Zero ELSE acked[f]]
    /\ UNCHANGED <<stored, used, wrote, late, cmds>>

Next ==
    \/ Boot \/ Recovered
    \/ \E v \in Values : setup_balance_f(v) \/ \E f \in Files : blue_writeflash(f, v)
    \/ \E f \in Files : WriteTooLong(f)
    \/ \E f \in AllFiles : blue_readflash(f)
    \/ RecordWrite \/ WaitWritten
    \/ DeleteFile \/ DeleteFails \/ WriteRecord \/ PeerAsks \/ PeerWritten
    \/ PowerLoss

Spec == Init /\ [][Next]_vars

\* The processor runs and the flash ends what it begins, one way or the other.
Fairness ==
    /\ WF_vars(Boot) /\ WF_vars(RecordWrite) /\ WF_vars(WaitWritten)
    /\ WF_vars(DeleteFile) /\ WF_vars(WriteRecord) /\ WF_vars(PeerWritten)

FairSpec == Spec /\ Fairness

----------------------------------------------------------------------------
\* Properties.

Data    == Values \cup {Zero, Oversize}
Ops     == [code : {"file_delete", "write", "peer"}, file : AllFiles]
Cmds    == [kind : {"none", "balance", "write"}, file : AllFiles, value : Data]
Answers == [kind : {"none", "ok", "error", "read"}, file : AllFiles, value : Data]

TypeOK ==
    /\ stored \in [AllFiles -> Seq(Data)] /\ used \in Nat
    /\ queue \in Seq(Ops) /\ Len(queue) <= OpQueueSize
    /\ ready \in BOOLEAN /\ late \in BOOLEAN /\ tok \in 0 .. Capacity
    /\ lost \in SUBSET AllFiles
    /\ g_flashbuff \in Data /\ coinbalance \in Data /\ write_flag \in {0, 1}
    /\ pc \in {"off", "idle", "write", "wait"}
    /\ cmd \in Cmds /\ answer \in Answers
    /\ wrote \in [AllFiles -> SUBSET Data] /\ acked \in [AllFiles -> Data]
    /\ cmds \in 0 .. MaxCmd /\ resets \in 0 .. MaxPower

\* A file holds what the phone wrote to it, never what it wrote elsewhere or
\* what a command that was read or refused left in the buffer (g_flashbuff).
RecordsGenuine ==
    \A f \in AllFiles : \A i \in DOMAIN stored[f] : stored[f][i] \in wrote[f]

\* A read once fds is ready answers with what was last acknowledged, over resets,
\* and although an older record stayed in the file because a deletion failed or
\* fds became ready only between fds_file_delete and fds_record_write; unless
\* flash failed the write behind the acknowledgement (fds_test_write, fds_read).
ReadBack ==
    [][\A f \in AllFiles : blue_readflash(f) /\ ready /\ acked[f] # Zero /\ f \notin lost
                          => answer'.value = acked[f]]_vars

\* The balance shown is the one in flash, over resets and whichever operations
\* of a write flash has done or failed, if there is one, its last write was not
\* refused or failed, and fds was ready when the balance was read
\* (usr_data_init, setup_balance_f).
BalanceRestored ==
    ~late /\ Balance \notin lost /\ pc = "idle" /\ queue = <<>> /\ stored[Balance] # <<>>
        => coinbalance = Last(stored[Balance])

\* Every command is answered: the wait for flash ends, unless flash fails that
\* very write and no write has succeeded since the reset (fds_test_write,
\* my_fds_evt_handler).
Answered ==
    []<>(pc \in {"idle", "off"} \/ (write_flag = 0 /\ cmd.file \in lost))

-----------------------------------------------------------------------------
(* What the code does not keep: no run checks it, TLC refutes it (README,  *)
(* Weaknesses).                                                            *)

\* A balance that was set is in flash when fds is at rest, or a newer one; the
\* answer says so whatever fds answered (setup_balance_f, fds_test_write).
BalanceSaved ==
    answer.kind = "ok" /\ answer.file = Balance /\ queue = <<>>
        => stored[Balance] = <<answer.value>>

\* What was acknowledged is read back, whether fds is ready or not
\* (blue_readflash).
ReadAtOnce ==
    [][\A f \in AllFiles : blue_readflash(f) /\ acked[f] # Zero /\ f \notin lost
                          => answer'.value = acked[f]]_vars

\* What is acknowledged is in flash when fds is at rest (fds_test_write).
AckedSaved ==
    answer.kind = "ok" /\ answer.file \in Files /\ queue = <<>>
        => stored[answer.file] # <<>> /\ Last(stored[answer.file]) = answer.value

\* The wait for the first write ends (fds_test_write).
WaitEnds == []<>(pc # "wait")
=============================================================================
