-------------------------- MODULE UartLink_proofs ---------------------------
(***************************************************************************)
(* What the UART link guarantees for every MAX_resend, every numbering and *)
(* every set of payloads.                                                  *)
(*                                                                         *)
(* The first part assumes nothing of the line or of the phone: variables   *)
(* keep their ranges, no command is transmitted more than MAX_resend       *)
(* times, and no wait leaves its timer running.                            *)
(*                                                                         *)
(* The second part (from Framed on) takes a phone that waits for its reply *)
(* and a line that spoils frames without going silent, and shows that the  *)
(* STM32 gets only commands the phone sent and the phone only the reply of *)
(* the command it waits for.                                               *)
(*                                                                         *)
(* The third (from RepliesSafe on) has replies arrive undamaged and shows  *)
(* that they are confirmed only when the phone has them.                   *)
(***************************************************************************)
EXTENDS UartLink, SequenceTheorems, TLAPS

\* Transmissions and counted attempts go together: while a command is flagged
\* for sending, ACC_resend has counted every transmission it had; while its
\* acknowledgement is awaited, all but the last.
Counted ==
    /\ uart_send_flag = 1 => sends <= ACC_resend
    /\ uart_send_flag = 0 /\ Ack_recive_enable = 1 => sends <= ACC_resend + 1

\* Nothing is flagged for sending where ACC_resend is reset: from uart_send to
\* the end of the wait for an acknowledgement, and where a refused frame is
\* awaited.
NoneFlagged ==
    /\ pc \in {"waitack", "receive", "ack"} => uart_send_flag = 0
    /\ pc = "nack" /\ uart_send_flag = 1 => Ack_recive_enable = 1

\* CRC_old is forgotten with every transmission, so that no frame received
\* while its acknowledgement is awaited counts as repeated.
CRCForgotten == Ack_recive_enable = 1 => CRC_old = 0

Retries == BoundedRetries /\ Counted /\ NoneFlagged /\ CRCForgotten /\ NoStrayTimeout

\* The inductive invariant.
IInv == TypeOK /\ Retries

(***************************************************************************)
(* Helpers.                                                                *)
(***************************************************************************)

\* A checksum is never 0, the value CRC_old has when it is forgotten.
LEMMA CrcPositive ==
  ASSUME NEW l \in Nat, NEW c \in Nat, NEW n \in Nat, NEW p \in Nat
  PROVE  Crc(l, c, n, p) \in Nat \ {0}
  BY UartAssumption DEF Crc, FrameLen, Apdu, Change

\* The payloads of the phone and the disturbed bytes are numbers.
LEMMA PayloadType == Apdus \subseteq Nat /\ Garbles \subseteq Nat
<1>1. Apdus \subseteq 1..39 /\ Garbles \subseteq 0..255
  BY UartAssumption
<1> QED
  BY <1>1

\* What does not change keeps its type.
LEMMA Kept ==
  ASSUME TypeOK
  PROVE  /\ UNCHANGED pass => PassType'
         /\ UNCHANGED rx => RxType'
         /\ UNCHANGED memory => MemoryType'
         /\ UNCHANGED tx => TxType'
         /\ UNCHANGED wait => WaitType'
         /\ UNCHANGED mode => ModeType'
         /\ UNCHANGED air => AirType'
         /\ UNCHANGED stm => StmType'
         /\ UNCHANGED line => LineType'
<1> USE DEF TypeOK
<1>1. UNCHANGED pass => PassType'
  BY DEF pass, PassType
<1>2. UNCHANGED rx => RxType'
  BY DEF rx, RxType
<1>3. UNCHANGED memory => MemoryType'
  BY DEF memory, MemoryType
<1>4. UNCHANGED tx => TxType'
  BY DEF tx, TxType
<1>5. UNCHANGED wait => WaitType'
  BY DEF wait, WaitType
<1>6. UNCHANGED mode => ModeType'
  BY DEF mode, ModeType
<1>7. UNCHANGED air => AirType'
  BY DEF air, AirType
<1>8. UNCHANGED stm => StmType'
  BY DEF stm, StmType
<1>9. UNCHANGED line => LineType'
  BY DEF line, LineType
<1> QED
  BY <1>1, <1>2, <1>3, <1>4, <1>5, <1>6, <1>7, <1>8, <1>9

\* A command and its checksum.
LEMMA CommandType ==
  ASSUME TypeOK, NEW cmd \in Nat, NEW a \in Areas, NEW p \in Nat, NEW n \in 0..(NumMod - 1),
         CmdSendUart(cmd, a, p, n)
  PROVE  MemoryType' /\ TxType' /\ sends' = 0
<1>1. Crc(FrameLen, cmd, n, p) \in Nat
  <2>1. n \in Nat /\ FrameLen \in Nat
    BY UartAssumption DEF FrameLen
  <2> QED
    BY <2>1, CrcPositive
<1>2. MemoryType'
  BY <1>1, UartAssumption DEF CmdSendUart, TypeOK, MemoryType, FrameLen
<1> QED
  BY <1>2 DEF CmdSendUart, TypeOK, TxType

\* Switching the STM32 off and on.
LEMMA RestartType ==
  ASSUME TypeOK, NEW p \in Nat, Restart(p)
  PROVE  /\ MemoryType' /\ TxType' /\ RxType' /\ WaitType' /\ LineType'
         /\ sends' = 0 /\ CRC_old' = 0 /\ uart_enable_flag' = 1
<1>1. (Closed(uartnum, 0) + 1) % NumMod \in 0..(NumMod - 1)
  BY UartAssumption DEF TypeOK, TxType, Closed
<1>2. MemoryType' /\ TxType' /\ sends' = 0
  BY <1>1, CommandType DEF Restart, Areas, Change
<1>3. RxType' /\ WaitType'
  BY UartAssumption DEF Restart, PowerOff_key, Closed, TypeOK, RxType, WaitType
<1>4. LineType'
  BY DEF Restart, PowerOff_key, LineType
<1> QED
  BY <1>2, <1>3, <1>4 DEF Restart, PowerOff_key

\* A frame is a message; so is an acknowledgement.
LEMMA TransmitType ==
  ASSUME TypeOK, NEW m \in Frames \union Acks, Transmit(m), UNCHANGED fromStm
  PROVE  LineType'
  BY DEF Transmit, TypeOK, LineType

LEMMA AckType == \A ok \in BOOLEAN : Ack(ok) \in Acks
  BY DEF Ack, Acks

(***************************************************************************)
(* Types: one step for each action of the main loop.                       *)
(***************************************************************************)

LEMMA CommandsKeepType == ASSUME TypeOK, BleCmdProcess PROVE TypeOK'
<1> USE Kept
<1>1. CASE NoRequest
  BY <1>1 DEF NoRequest, TypeOK, env
<1>2. CASE EnterKeyMode
  <2>1. Restart(KeyMode) /\ KeyMode \in Nat
    BY <1>2 DEF EnterKeyMode, KeyMode
  <2>2. ModeType' /\ AirType' /\ StmType'
    BY <1>2, <2>1, RestartType DEF EnterKeyMode, TypeOK, ModeType, AirType, StmType
  <2> QED
    BY <1>2, <2>1, <2>2, RestartType DEF EnterKeyMode, TypeOK, env
<1>3. CASE LeaveKeyMode
  <2>1. Restart(TimeMode) /\ TimeMode \in Nat
    BY <1>3 DEF LeaveKeyMode, TimeMode
  <2>2. ModeType' /\ AirType' /\ StmType'
    BY <1>3, <2>1, RestartType
    DEF LeaveKeyMode, Send_bluetoothdata, TypeOK, ModeType, AirType, StmType, Answers
  <2> QED
    BY <1>3, <2>1, <2>2, RestartType DEF LeaveKeyMode, TypeOK, env
<1>4. CASE TakeApdu
  <2>1. AirType'
    BY <1>4 DEF TakeApdu, TypeOK, AirType
  <2> QED
    BY <1>4, <2>1 DEF TakeApdu, TypeOK, env
<1> QED
  BY <1>1, <1>2, <1>3, <1>4 DEF BleCmdProcess

\* What the phone is sent is an answer, or nothing.
LEMMA AnswerType ==
  ASSUME TypeOK, NEW answer \in Answers, Send_bluetoothdata(answer),
         UNCHANGED <<request, phone, connected, heard>>
  PROVE  AirType'
  BY DEF Send_bluetoothdata, TypeOK, AirType

\* Handing a frame over changes the buffer and the answer only.
LEMMA CmdprogamType ==
  ASSUME TypeOK, Uart_cmdprogam, UNCHANGED <<buf, request, phone, connected, heard>>
  PROVE  MemoryType' /\ AirType' /\ uart_waitack_flag' \in 0..2
<1>1. CASE buf.cmd = Apdu
  <2>1. mem[buf.data].pay \in Nat
    BY DEF TypeOK, MemoryType
  <2>2. MemoryType'
    BY <1>1, <2>1 DEF Uart_cmdprogam, TypeOK, MemoryType, BleCrc
  <2>3. [kind |-> "reply", pay |-> mem[buf.data].pay] \in Answers
    BY <2>1 DEF Answers
  <2>4. AirType'
    BY <1>1, <2>3, AnswerType DEF Uart_cmdprogam
  <2> QED
    BY <1>1, <2>2, <2>4 DEF Uart_cmdprogam
<1>2. CASE buf.cmd # Apdu
  BY <1>2 DEF Uart_cmdprogam, TypeOK, MemoryType, AirType
<1> QED
  BY <1>1, <1>2

\* One attempt more, or none; one refusal more, or none.
LEMMA AgainType ==
  ASSUME TypeOK, Again, UNCHANGED <<uartnum, sends>>,
         Timeout1Sec_Uart' \in {"close", "open", "timeout"}
  PROVE  TxType' /\ WaitType'
  BY UartAssumption DEF Again, TypeOK, TxType, WaitType

LEMMA RefuseAgainType ==
  ASSUME TypeOK, RefuseAgain, UNCHANGED fromStm,
         Timeout1Sec_Uart' \in {"close", "open", "timeout"}
  PROVE  WaitType' /\ LineType'
<1>1. WaitType'
  <2>1. CASE ACC_resend + 1 < MaxResend
    <3>1. ACC_resend' = ACC_resend + 1 /\ UNCHANGED Ack_recive_enable
      BY <2>1 DEF RefuseAgain
    <3> QED
      BY <2>1, <3>1, UartAssumption DEF TypeOK, WaitType
  <2>2. CASE ~(ACC_resend + 1 < MaxResend)
    <3>1. ACC_resend' = 0 /\ Ack_recive_enable' = 0
      BY <2>2 DEF RefuseAgain
    <3> QED
      BY <3>1, UartAssumption DEF TypeOK, WaitType
  <2> QED
    BY <2>1, <2>2
<1>2. LineType'
  BY TransmitType, AckType DEF RefuseAgain, TypeOK, LineType
<1> QED
  BY <1>1, <1>2

LEMMA UartKeepsType == ASSUME TypeOK, UartDataSendrecive PROVE TypeOK'
<1> USE Kept
<1>1. CASE UartClosed
  BY <1>1 DEF UartClosed, TypeOK, env
<1>2. CASE uart_send
  <2>1. Frame \in Frames
    BY UartAssumption DEF Frame, Frames, TypeOK, MemoryType
  <2>2. PassType' /\ TxType' /\ WaitType'
    BY <1>2, <2>1, UartAssumption DEF uart_send, TypeOK, PassType, TxType, WaitType
  <2> QED
    BY <1>2, <2>2 DEF uart_send, TypeOK, env
<1>3. CASE successAck
  <2>1. LineType'
    BY <1>3, TransmitType, AckType DEF successAck, TypeOK, LineType
  <2>2. uart_waitack_flag' \in 0..2
    <3>1. uart_waitack_flag' \in {0, uart_waitack_flag}
      BY <1>3 DEF successAck
    <3> QED
      BY <3>1 DEF TypeOK
  <2> QED
    BY <1>3, <2>1, <2>2 DEF successAck, TypeOK, env
<1>4. CASE NothingReceived
  BY <1>4 DEF NothingReceived, TypeOK, env
<1>5. CASE FrameRefused
  <2>1. LineType'
    BY <1>5, TransmitType, AckType DEF FrameRefused, FrameTaken
  <2>2. RxType' /\ WaitType' /\ MemoryType' /\ AirType'
    BY <1>5, UartAssumption
    DEF FrameRefused, FrameTaken, TypeOK, RxType, WaitType, MemoryType, AirType
  <2> QED
    BY <1>5, <2>1, <2>2 DEF FrameRefused, FrameTaken, TypeOK, env
<1>6. CASE FrameRepeated
  <2>1. RxType' /\ WaitType' /\ MemoryType' /\ AirType' /\ LineType'
    BY <1>6, UartAssumption
    DEF FrameRepeated, FrameTaken, TypeOK, RxType, WaitType, MemoryType, AirType, LineType
  <2> QED
    BY <1>6, <2>1 DEF FrameRepeated, FrameTaken, TypeOK, env
<1>7. CASE FrameAccepted
  <2>1. MemoryType' /\ AirType' /\ uart_waitack_flag' \in 0..2
    BY <1>7, CmdprogamType DEF FrameAccepted, FrameTaken
  <2>2. RxType' /\ WaitType' /\ LineType'
    BY <1>7, UartAssumption
    DEF FrameAccepted, FrameTaken, TypeOK, RxType, WaitType, LineType
  <2>3. CRC_old' \in Nat
    BY <1>7 DEF FrameAccepted, TypeOK, MemoryType
  <2> QED
    BY <1>7, <2>1, <2>2, <2>3 DEF FrameAccepted, FrameTaken, TypeOK, env
<1>8. CASE NotWaiting
  BY <1>8 DEF NotWaiting, TypeOK, env
<1>9. CASE AckFailed
  <2>1. TxType' /\ WaitType'
    BY <1>9, AgainType DEF AckFailed, AckTaken
  <2>2. RxType' /\ AirType'
    BY <1>9 DEF AckFailed, AckTaken, TypeOK, RxType, AirType
  <2> QED
    BY <1>9, <2>1, <2>2 DEF AckFailed, AckTaken, TypeOK, env
<1>10. CASE AckSucceeded
  <2>1. AirType'
    BY <1>10, AnswerType DEF AckSucceeded, AckTaken, Answers, TypeOK, AirType
  <2>2. RxType' /\ TxType' /\ WaitType'
    BY <1>10, UartAssumption DEF AckSucceeded, AckTaken, TypeOK, RxType, TxType, WaitType
  <2>3. uart_waitack_flag' \in 0..2
    BY <1>10 DEF AckSucceeded, TypeOK
  <2> QED
    BY <1>10, <2>1, <2>2, <2>3 DEF AckSucceeded, AckTaken, TypeOK, env
<1>11. CASE AckAwaited
  <2>1. TxType' /\ WaitType'
    BY <1>11, AgainType DEF AckAwaited, TypeOK, TxType, WaitType
  <2> QED
    BY <1>11, <2>1 DEF AckAwaited, TypeOK, env
<1>12. CASE NotRefusing
  BY <1>12 DEF NotRefusing, TypeOK, env
<1>13. CASE RefusalAwaited
  <2>1. WaitType' /\ LineType'
    BY <1>13, RefuseAgainType DEF RefusalAwaited, TypeOK, WaitType, LineType
  <2> QED
    BY <1>13, <2>1 DEF RefusalAwaited, TypeOK, env
<1>14. CASE RepetitionTaken
  <2>1. UNCHANGED <<buf, uart_recive_l, request, phone, connected, heard, fromStm>>
    BY <1>14 DEF RepetitionTaken
  <2>2. RxType' /\ MemoryType' /\ AirType' /\ uart_waitack_flag' \in 0..2
        /\ WaitType' /\ LineType'
    <3>1. CASE CRC16_check /\ buf.no_use = uartnum
      <4>1. /\ olddata' = 0 /\ uart_recive_All' = 0 /\ ACK_recive_satus' = 0
            /\ ACC_resend' = 0 /\ Ack_recive_enable' = 0 /\ Timeout1Sec_Uart' = "close"
            /\ Transmit(Ack(TRUE)) /\ Uart_cmdprogam
        BY <1>14, <3>1 DEF RepetitionTaken
      <4>2. RxType' /\ WaitType'
        BY <2>1, <4>1, UartAssumption DEF TypeOK, RxType, WaitType
      <4> QED
        BY <2>1, <4>1, <4>2, TransmitType, AckType, CmdprogamType
    <3>2. CASE ~(CRC16_check /\ buf.no_use = uartnum)
      <4>1. /\ olddata' = 0 /\ uart_recive_All' = 0 /\ Timeout1Sec_Uart' = "close"
            /\ ACK_recive_satus' = IF ACC_resend' = 0 THEN 0 ELSE ACK_recive_satus
            /\ RefuseAgain /\ UNCHANGED <<mem, ble, uart_waitack_flag>>
        BY <1>14, <3>2 DEF RepetitionTaken
      <4>2. RxType' /\ MemoryType' /\ AirType' /\ uart_waitack_flag' \in 0..2
        BY <2>1, <4>1 DEF TypeOK, RxType, MemoryType, AirType
      <4> QED
        BY <2>1, <4>1, <4>2, RefuseAgainType
    <3> QED
      BY <3>1, <3>2
  <2> QED
    BY <1>14, <2>2 DEF RepetitionTaken, TypeOK, env
<1> QED
  BY <1>1, <1>2, <1>3, <1>4, <1>5, <1>6, <1>7, <1>8, <1>9, <1>10, <1>11, <1>12,
     <1>13, <1>14
  DEF UartDataSendrecive, Receive

LEMMA StatusKeepsType == ASSUME TypeOK, Bluetooyhkeydisplay PROVE TypeOK'
<1> USE Kept
<1>1. CASE NothingToDo
  BY <1>1 DEF NothingToDo, TypeOK, env
<1>2. CASE SendApdu
  <2>1. (uartnum + 1) % NumMod \in 0..(NumMod - 1) /\ mem["apdu"].pay \in Nat
    BY UartAssumption DEF TypeOK, TxType, MemoryType, Areas
  <2>2. MemoryType' /\ TxType'
    BY <1>2, <2>1, CommandType DEF SendApdu, Areas, Apdu
  <2> QED
    BY <1>2, <2>2 DEF SendApdu, TypeOK, env
<1>3. CASE PhoneIsGone
  <2>1. Restart(TimeMode) /\ TimeMode \in Nat
    BY <1>3 DEF PhoneIsGone, TimeMode
  <2>2. ModeType'
    BY <1>3, <2>1, RestartType DEF PhoneIsGone, TypeOK, ModeType
  <2> QED
    BY <1>3, <2>1, <2>2, RestartType DEF PhoneIsGone, TypeOK, env
<1> QED
  BY <1>1, <1>2, <1>3 DEF Bluetooyhkeydisplay

LEMMA SlicesKeepType == ASSUME TypeOK, uart_send_Bty PROVE TypeOK'
<1>1. PassType'
  BY DEF uart_send_Bty, TypeOK, PassType, ModeType
<1>2. LineType'
  <2>1. CASE queued = Nothing
    BY <2>1 DEF uart_send_Bty, TypeOK, LineType
  <2>2. CASE queued # Nothing
    <3>1. queued \in Frames \union Acks /\ Transmit(queued)
      BY <2>2 DEF uart_send_Bty, TypeOK, PassType
    <3> QED
      BY <3>1, TransmitType DEF uart_send_Bty
  <2> QED
    BY <2>1, <2>2
<1> QED
  BY <1>1, <1>2, Kept DEF uart_send_Bty, TypeOK, env

(***************************************************************************)
(* Types: the interrupts and the environment.                              *)
(***************************************************************************)

LEMMA InterruptKeepsType == ASSUME TypeOK, uart_event_handle PROVE TypeOK'
<1> DEFINE b == Head(fromStm)
<1>1. b \in Nat /\ Tail(fromStm) \in Seq(Nat)
  BY DEF uart_event_handle, TypeOK, LineType
<1>2. LineType'
  BY <1>1 DEF uart_event_handle, TypeOK, LineType
<1> HIDE DEF b
<1>3. FirstByte(b) => RxType' /\ MemoryType'
  BY DEF FirstByte, TypeOK, RxType, MemoryType, memory
<1>4. SecondByte(b) => RxType' /\ MemoryType'
  BY DEF SecondByte, TypeOK, RxType, MemoryType, memory
<1>5. HeaderByte(b) => RxType' /\ MemoryType'
  <2>1. b \in Nat /\ b % 256 \in Nat
    BY <1>1
  <2>2. ASSUME HeaderByte(b) PROVE MemoryType'
    <3>1. CASE olddata = 2
      BY <2>1, <2>2, <3>1 DEF HeaderByte, TypeOK, MemoryType
    <3>2. CASE olddata = 3
      BY <2>1, <2>2, <3>2 DEF HeaderByte, TypeOK, MemoryType
    <3>3. CASE olddata = 4
      BY <2>1, <2>2, <3>3 DEF HeaderByte, TypeOK, MemoryType
    <3>4. CASE olddata = 5
      BY <2>1, <2>2, <3>4 DEF HeaderByte, TypeOK, MemoryType
    <3> QED
      BY <2>2, <3>1, <3>2, <3>3, <3>4 DEF HeaderByte
  <2> QED
    BY <2>2 DEF HeaderByte, TypeOK, RxType
<1>6. DataByte(b) => RxType' /\ MemoryType'
  <2>1. ASSUME DataByte(b) PROVE MemoryType'
    BY <1>1, <2>1 DEF DataByte, TypeOK, MemoryType
  <2> QED
    BY <2>1 DEF DataByte, TypeOK, RxType
<1>7. LateByte => RxType' /\ MemoryType'
  BY Kept DEF LateByte
<1>8. AckByte(b) => RxType' /\ MemoryType'
  BY DEF AckByte, TypeOK, RxType, MemoryType, memory
<1>9. RxType' /\ MemoryType'
  BY <1>3, <1>4, <1>5, <1>6, <1>7, <1>8 DEF uart_event_handle, b
<1> QED
  BY <1>2, <1>9, Kept DEF uart_event_handle, TypeOK, env

LEMMA TimerKeepsType == ASSUME TypeOK, TimeOutUart PROVE TypeOK'
<1>1. WaitType'
  BY DEF TimeOutUart, TypeOK, WaitType
<1> QED
  BY <1>1, Kept DEF TimeOutUart, TypeOK, env

LEMMA PhoneKeepsType == ASSUME TypeOK, Phone PROVE TypeOK'
<1> USE Kept
<1>1. CASE PhoneAsks
  <2>1. PICK r \in {[kind |-> "enter", pay |-> 0], [kind |-> "leave", pay |-> 0]}
                   \union [kind : {"apdu"}, pay : Apdus] :
           /\ request' = r /\ phone' = r
           /\ mem' = [mem EXCEPT !["apdu"] = [pay |-> r.pay, crc |-> BleCrc]]
    BY <1>1 DEF PhoneAsks
  <2>2. r \in Asked /\ r.pay \in Nat
    <3>1. CASE r \in [kind : {"apdu"}, pay : Apdus]
      <4>1. r.kind = "apdu" /\ r.pay \in Apdus /\ r = [kind |-> r.kind, pay |-> r.pay]
        BY <3>1
      <4>2. r.pay \in Nat
        BY <4>1, PayloadType
      <4> QED
        BY <4>1, <4>2 DEF Asked
    <3>2. CASE r \in {[kind |-> "enter", pay |-> 0], [kind |-> "leave", pay |-> 0]}
      BY <3>2 DEF Asked
    <3> QED
      BY <3>1, <3>2
  <2>3. AirType'
    BY <1>1, <2>1, <2>2 DEF PhoneAsks, TypeOK, AirType
  <2>4. MemoryType'
    <3>1. [pay |-> r.pay, crc |-> BleCrc] \in [pay : Nat, crc : Nat] /\ "apdu" \in Areas
      BY <2>2 DEF BleCrc, Areas
    <3> QED
      BY <1>1, <2>1, <3>1 DEF PhoneAsks, TypeOK, MemoryType
  <2> QED
    BY <1>1, <2>3, <2>4 DEF PhoneAsks, TypeOK
<1>2. CASE PhoneGets
  <2>1. AirType'
    BY <1>2 DEF PhoneGets, TypeOK, AirType, Answers
  <2> QED
    BY <1>2, <2>1 DEF PhoneGets, TypeOK, env
<1>3. CASE Disconnect
  <2>1. AirType'
    BY <1>3 DEF Disconnect, TypeOK, AirType
  <2> QED
    BY <1>3, <2>1 DEF Disconnect, TypeOK
<1>4. CASE Connect
  <2>1. AirType'
    BY <1>4 DEF Connect, TypeOK, AirType
  <2> QED
    BY <1>4, <2>1 DEF Connect, TypeOK, env
<1> QED
  BY <1>1, <1>2, <1>3, <1>4 DEF Phone

\* The bytes the STM32 sends.
LEMMA StmSendsType ==
  ASSUME TypeOK, NEW bytes \in Seq(Nat), StmSends(bytes)
  PROVE  fromStm' \in Seq(Nat)
  BY DEF StmSends, TypeOK, LineType

LEMMA ReplyBytesType ==
  ASSUME NEW r, r.no \in Nat, r.pay \in Nat PROVE ReplyBytes(r) \in Seq(Nat)
<1>1. Crc(FrameLen, Apdu, r.no, r.pay) \in Nat
  <2>1. FrameLen \in Nat /\ Apdu \in Nat
    BY DEF FrameLen, Apdu
  <2> QED
    BY <2>1, CrcPositive
<1>2. A5 \in Nat /\ S5A \in Nat /\ FrameLen \in Nat /\ Apdu \in Nat
  BY DEF A5, S5A, FrameLen, Apdu
<1> QED
  BY <1>1, <1>2 DEF ReplyBytes

LEMMA AckBytesType == \A ok \in BOOLEAN : AckBytes(ok) \in Seq(Nat)
  BY DEF AckBytes, A5, S5A

\* A job of the STM32 carries a payload and a number.
LEMMA JobType ==
  ASSUME NEW r \in Jobs \union {Nothing}, r # Nothing
  PROVE  r.no \in Nat /\ r.pay \in Nat
  BY DEF Jobs

LEMMA StmKeepsType == ASSUME TypeOK, Stm32 PROVE TypeOK'
<1>1. CASE StmReceives
  <2> DEFINE m == Head(toStm)
  <2>1. m \in Frames \union Acks /\ Tail(toStm) \in Seq(Frames \union Acks)
    BY <1>1 DEF StmReceives, TypeOK, LineType
  <2>2. StmTakes(m) /\ toStm' = Tail(toStm)
    BY <1>1 DEF StmReceives
  <2> HIDE DEF m
  <2>3. stmReply # Nothing => ReplyBytes(stmReply) \in Seq(Nat)
    BY JobType, ReplyBytesType DEF TypeOK, StmType
  <2>4. fromStm' \in Seq(Nat)
    BY <2>2, <2>3, StmSendsType, AckBytesType DEF StmTakes, TypeOK, LineType
  <2>5. StmType'
    <3>1. CASE UNCHANGED stm
      BY <3>1, Kept
    <3>2. CASE stmReply' = Nothing /\ stmWork' \in {stmWork, Nothing}
      BY <3>2 DEF TypeOK, StmType
    <3>3. CASE /\ stmReply' = Nothing /\ m.kind = "frame"
               /\ stmWork' = [kind |-> "apdu", pay |-> m.pay, no |-> m.no]
      <4>1. m.pay \in Nat /\ m.no \in Nat
        BY <2>1, <3>3 DEF Frames, Acks
      <4> QED
        BY <3>3, <4>1 DEF StmType, Jobs
    <3> QED
      BY <2>2, <3>1, <3>2, <3>3 DEF StmTakes, stm
  <2> QED
    BY <1>1, <2>1, <2>2, <2>4, <2>5, Kept DEF StmReceives, TypeOK, LineType, env
<1>2. CASE StmAnswers
  <2> DEFINE r == [kind |-> "reply", pay |-> Reply(stmWork.pay), no |-> stmWork.no]
  <2>1. r.no \in Nat /\ r.pay \in Nat /\ r \in Jobs
    BY <1>2, JobType DEF StmAnswers, TypeOK, StmType, Reply, Jobs
  <2>2. StmSends(ReplyBytes(r)) /\ stmReply' = r /\ stmWork' = Nothing
    BY <1>2 DEF StmAnswers
  <2> HIDE DEF r
  <2>3. fromStm' \in Seq(Nat)
    BY <2>1, <2>2, ReplyBytesType, StmSendsType
  <2>4. StmType'
    BY <2>1, <2>2 DEF StmType
  <2> QED
    BY <1>2, <2>3, <2>4, Kept DEF StmAnswers, TypeOK, LineType, env
<1> QED
  BY <1>1, <1>2 DEF Stm32

\* What remains of a sequence is a sequence.
LEMMA RemoveAtType ==
  ASSUME NEW S, NEW s \in Seq(S), NEW i \in DOMAIN s PROVE RemoveAt(s, i) \in Seq(S)
<1>1. i \in 1..Len(s)
  OBVIOUS
<1>2. SubSeq(s, 1, i - 1) \in Seq(S) /\ SubSeq(s, i + 1, Len(s)) \in Seq(S)
  BY <1>1
<1> QED
  BY <1>2 DEF RemoveAt

LEMMA LineKeepsType == ASSUME TypeOK, Line PROVE TypeOK'
<1>1. ASSUME NEW k, Fault(k), LineType' PROVE TypeOK'
  BY <1>1, Kept DEF Fault, TypeOK
<1>2. CASE FrameDamaged
  <2>1. PICK i \in DOMAIN toStm : toStm[i].kind = "frame" /\ toStm' = [toStm EXCEPT ![i].crc = 0]
    BY <1>2 DEF FrameDamaged
  <2>2. toStm[i] \in Frames
    BY <2>1 DEF TypeOK, LineType, Acks
  <2>3. [toStm[i] EXCEPT !.crc = 0] \in Frames
    BY <2>2 DEF Frames
  <2>4. LineType'
    <3> DEFINE f == [toStm[i] EXCEPT !.crc = 0]
    <3>1. toStm' = [toStm EXCEPT ![i] = f] /\ UNCHANGED fromStm
      BY <1>2, <2>1 DEF FrameDamaged
    <3>2. f \in Frames \union Acks
      BY <2>3
    <3> HIDE DEF f
    <3> QED
      BY <3>1, <3>2 DEF TypeOK, LineType
  <2> QED
    BY <1>1, <1>2, <2>4 DEF FrameDamaged
<1>3. CASE MessageLost
  <2>1. LineType'
    BY <1>3, RemoveAtType DEF MessageLost, TypeOK, LineType
  <2> QED
    BY <1>1, <1>3, <2>1 DEF MessageLost
<1>4. CASE ReplyDamaged
  <2>1. LineType'
    BY <1>4 DEF ReplyDamaged, TypeOK, LineType
  <2> QED
    BY <1>1, <1>4, <2>1 DEF ReplyDamaged
<1>5. CASE ReplyRepeated
  <2>1. ReplyBytes(stmReply) \in Seq(Nat)
    BY <1>5, JobType, ReplyBytesType DEF ReplyRepeated, TypeOK, StmType
  <2>2. LineType'
    BY <1>5, <2>1, StmSendsType DEF ReplyRepeated, TypeOK, LineType
  <2> QED
    BY <1>1, <1>5, <2>2 DEF ReplyRepeated
<1>6. CASE ByteDamaged
  <2>1. LineType'
    BY <1>6, PayloadType DEF ByteDamaged, TypeOK, LineType
  <2> QED
    BY <1>1, <1>6, <2>1 DEF ByteDamaged
<1>7. CASE ByteLost
  <2>1. LineType'
    BY <1>7, RemoveAtType DEF ByteLost, TypeOK, LineType
  <2> QED
    BY <1>1, <1>7, <2>1 DEF ByteLost
<1> QED
  BY <1>2, <1>3, <1>4, <1>5, <1>6, <1>7 DEF Line

LEMMA InitType == Init => TypeOK
<1> SUFFICES ASSUME Init PROVE TypeOK
  OBVIOUS
<1>1. PassType /\ RxType /\ TxType /\ WaitType /\ ModeType /\ StmType /\ LineType
  BY UartAssumption
  DEF Init, PassType, RxType, TxType, WaitType, ModeType, StmType, LineType
<1>2. MemoryType
  BY DEF Init, MemoryType, Areas
<1>3. AirType
  BY DEF Init, AirType
<1> QED
  BY <1>1, <1>2, <1>3 DEF Init, TypeOK

LEMMA TypeStep == TypeOK /\ [Next]_vars => TypeOK'
<1> SUFFICES ASSUME TypeOK, [Next]_vars PROVE TypeOK'
  OBVIOUS
<1>1. CASE Next
  <2>1. MainLoop => TypeOK'
    BY CommandsKeepType, UartKeepsType, StatusKeepsType, SlicesKeepType DEF MainLoop
  <2> QED
    BY <1>1, <2>1, InterruptKeepsType, TimerKeepsType, PhoneKeepsType, StmKeepsType,
       LineKeepsType
    DEF Next
<1>2. CASE UNCHANGED vars
  BY <1>2, Kept DEF vars, TypeOK, env
<1> QED
  BY <1>1, <1>2

\* Every variable of the link keeps its type and range, and the count of
\* attempts stays below MAX_resend, for any line, STM32, phone and timer.
THEOREM TypeCorrect == Spec => []TypeOK
  BY InitType, TypeStep, PTL DEF Spec

(***************************************************************************)
(* The invariant: one step for each action that touches what it relates.   *)
(***************************************************************************)

\* What the parts besides TypeOK speak of.
Watched == <<pc, uart_send_flag, sends, Ack_recive_enable, ACC_resend, CRC_old,
             Timeout1Sec_Uart>>

LEMMA WatchedKept == ASSUME Retries, UNCHANGED Watched PROVE Retries'
  BY DEF Watched, Retries, BoundedRetries, Counted, NoneFlagged, CRCForgotten, NoStrayTimeout

LEMMA MainLoopRetries == ASSUME TypeOK, Retries, MainLoop PROVE Retries'
<1> USE DEF Retries, BoundedRetries, Counted, NoneFlagged, CRCForgotten, NoStrayTimeout,
            tx, wait
<1>0. /\ sends \in Nat /\ ACC_resend \in 0..(MaxResend - 1) /\ MaxResend \in Nat \ {0}
      /\ uart_send_flag \in 0..1 /\ Ack_recive_enable \in 0..2
  BY UartAssumption DEF TypeOK, TxType, WaitType
<1>1. ASSUME NEW p \in Nat, Restart(p), pc' \in {"send", "slices"} PROVE Retries'
  BY <1>0, <1>1 DEF Restart, PowerOff_key, Closed, CmdSendUart
<1>2. BleCmdProcess => Retries'
  BY <1>0, <1>1 DEF BleCmdProcess, NoRequest, EnterKeyMode, LeaveKeyMode, TakeApdu,
     KeyMode, TimeMode
<1>3. UartClosed \/ uart_send => Retries'
  BY <1>0 DEF UartClosed, uart_send
<1>4. successAck \/ NothingReceived => Retries'
  BY <1>0 DEF successAck, NothingReceived
<1>5. FrameRefused => Retries'
  BY <1>0 DEF FrameRefused, FrameTaken
<1>6. FrameRepeated => Retries'
  <2>1. buf.crc16 # 0 \/ ~CRC16_check
    <3>1. mem[buf.data].pay \in Nat /\ buf.length \in Nat /\ buf.cmd \in Nat /\ buf.no_use \in Nat
      BY DEF TypeOK, MemoryType
    <3> QED
      BY <3>1, CrcPositive DEF CRC16_check
  <2> QED
    BY <1>0, <2>1 DEF FrameRepeated, FrameTaken
<1>7. FrameAccepted => Retries'
  BY <1>0 DEF FrameAccepted, FrameTaken
<1>8. NotWaiting \/ NotRefusing => Retries'
  BY <1>0 DEF NotWaiting, NotRefusing
<1>9. AckFailed \/ AckSucceeded => Retries'
  BY <1>0 DEF AckFailed, AckSucceeded, AckTaken, Again
<1>10. AckAwaited => Retries'
  BY <1>0 DEF AckAwaited, Again
<1>11. RefuseAgain => Ack_recive_enable' \in {Ack_recive_enable, 0}
  <2>1. CASE ACC_resend + 1 < MaxResend
    BY <2>1 DEF RefuseAgain
  <2>2. CASE ~(ACC_resend + 1 < MaxResend)
    BY <2>2 DEF RefuseAgain
  <2> QED
    BY <2>1, <2>2
<1>12. RefusalAwaited \/ RepetitionTaken => Retries'
  <2> SUFFICES ASSUME RefusalAwaited \/ RepetitionTaken PROVE Retries'
    OBVIOUS
  <2>1. /\ uart_send_flag' = 0 /\ pc' = "status"
        /\ UNCHANGED <<sends, CRC_old>>
    <3>1. pc = "nack" /\ Ack_recive_enable = 2 /\ UNCHANGED <<uart_send_flag, sends, CRC_old>>
      BY DEF RefusalAwaited, RepetitionTaken
    <3>2. pc' = "status"
      BY DEF RefusalAwaited, RepetitionTaken
    <3> QED
      BY <1>0, <3>1, <3>2
  <2>2. Ack_recive_enable' \in {2, 0} /\ (Timeout1Sec_Uart' # "close" => Ack_recive_enable' = 2)
    <3>1. CASE RefusalAwaited
      BY <3>1, <1>11 DEF RefusalAwaited
    <3>2. CASE RepetitionTaken
      BY <3>2, <1>11 DEF RepetitionTaken
    <3> QED
      BY <3>1, <3>2
  <2> QED
    BY <1>0, <2>1, <2>2
<1>13. Bluetooyhkeydisplay => Retries'
  BY <1>0, <1>1 DEF Bluetooyhkeydisplay, NothingToDo, SendApdu, PhoneIsGone, CmdSendUart,
     TimeMode
<1>14. uart_send_Bty => Retries'
  BY <1>0 DEF uart_send_Bty
<1> QED
  BY <1>2, <1>3, <1>4, <1>5, <1>6, <1>7, <1>8, <1>9, <1>10, <1>11, <1>12, <1>13, <1>14
  DEF MainLoop, UartDataSendrecive, Receive

\* Outside the main loop only the timer matters, and it expires only when it
\* runs.
LEMMA OtherRetries ==
  ASSUME TypeOK, Retries, uart_event_handle \/ TimeOutUart \/ Phone \/ Stm32 \/ Line
  PROVE  Retries'
<1>1. CASE TimeOutUart
  BY <1>1 DEF TimeOutUart, Retries, BoundedRetries, Counted, NoneFlagged, CRCForgotten,
     NoStrayTimeout, tx
<1>2. uart_event_handle => UNCHANGED Watched
  BY DEF uart_event_handle, Watched, tx, wait
<1>3. Phone => UNCHANGED Watched
  BY DEF Phone, PhoneAsks, PhoneGets, Disconnect, Connect, Watched, tx, wait
<1>4. Stm32 => UNCHANGED Watched
  BY DEF Stm32, StmReceives, StmAnswers, Watched, tx, wait
<1>5. Line => UNCHANGED Watched
  BY DEF Line, FrameDamaged, MessageLost, ReplyDamaged, ReplyRepeated, ByteDamaged, ByteLost,
     Fault, Watched, tx, wait
<1> QED
  BY <1>1, <1>2, <1>3, <1>4, <1>5, WatchedKept

LEMMA InitRetries == Init => Retries
  BY UartAssumption
  DEF Init, Retries, BoundedRetries, Counted, NoneFlagged, CRCForgotten, NoStrayTimeout

LEMMA Invariant == Spec => []IInv
<1>1. Init => IInv
  BY InitType, InitRetries DEF IInv
<1>2. IInv /\ [Next]_vars => IInv'
  <2> SUFFICES ASSUME TypeOK, Retries, [Next]_vars PROVE TypeOK' /\ Retries'
    BY DEF IInv
  <2>0. TypeOK'
    BY TypeStep
  <2>1. Next => Retries'
    BY MainLoopRetries, OtherRetries DEF Next
  <2>2. UNCHANGED vars => Retries'
    BY WatchedKept DEF vars, Watched, tx, wait
  <2> QED
    BY <2>0, <2>1, <2>2
<1> QED
  BY <1>1, <1>2, PTL DEF Spec

\* A command is transmitted at most MAX_resend times, whatever the line, the
\* STM32 and the timer do.
THEOREM RetriesAreBounded == Spec => []BoundedRetries
<1>1. IInv => BoundedRetries
  BY DEF IInv, Retries
<1> QED
  BY <1>1, Invariant, PTL

\* No wait for the STM32 leaves its timer running.
THEOREM TimersAreStopped == Spec => []NoStrayTimeout
<1>1. IInv => NoStrayTimeout
  BY DEF IInv, Retries
<1> QED
  BY <1>1, Invariant, PTL

(***************************************************************************)
(* A command and its reply.  Over a line that damages and loses commands   *)
(* and replies, but garbles no header, as long as the phone is connected,  *)
(* and with a timer that expires only when nothing is under way, one       *)
(* message belonging to the command in work is somewhere between the main  *)
(* loop and the STM32, or none.                                            *)
(***************************************************************************)

Framed == Patient /\ Faults \subseteq {"frame", "lost", "reply"}

\* What the main loop sends besides commands.
Confirmation == Ack(TRUE)
Refusal == Ack(FALSE)

\* Nothing but confirmations is on its way to the STM32; or one message else.
Clear(s) == \A i \in DOMAIN s : s[i] = Confirmation

Carries(s, m) ==
  \E i \in DOMAIN s : s[i] = m /\ \A j \in DOMAIN s : j # i => s[j] = Confirmation

\* Nothing is on its way from the STM32.
Silent ==
  olddata = 0 /\ uart_recive_All = 0 /\ ACK_recive_satus = 0 /\ fromStm = <<>>

\* The descriptor and its area still hold the command last handed over.
Loaded ==
  /\ buf.length = FrameLen /\ buf.no_use = uartnum
  /\ mem[buf.data].crc = Crc(FrameLen, buf.cmd, uartnum, mem[buf.data].pay)
  /\ \/ buf.cmd = Apdu /\ buf.data = "apdu" /\ mem["apdu"].pay = phone.pay
     \/ buf.cmd = Change /\ buf.data = "status"

Waits == Ack_recive_enable = 1 /\ uart_send_flag = 0 /\ Loaded

\* That command, whole or damaged.
Current(f) ==
  /\ f.kind = "frame" /\ f.length = FrameLen /\ f.no = uartnum /\ f.cmd = buf.cmd
  /\ f.pay = mem[buf.data].pay
  /\ f.crc = 0 \/ Whole(f)

\* Where the message is: nowhere, ...
Idle == queued = Nothing /\ Clear(toStm) /\ stmWork = Nothing /\ Silent

\* ... in the event queue, ...
Queued ==
  /\ queued # Nothing /\ Current(queued) /\ Whole(queued) /\ Waits
  /\ Clear(toStm) /\ stmWork = Nothing /\ Silent

\* ... a command on the line, ...
Sent ==
  /\ queued = Nothing /\ Waits /\ stmWork = Nothing /\ Silent
  /\ \E f : Current(f) /\ Carries(toStm, f)

\* ... a refusal on the line, ...
Refused ==
  /\ queued = Nothing /\ Carries(toStm, Refusal) /\ stmWork = Nothing /\ Silent
  /\ Ack_recive_enable = 2

\* ... in work, ...
Working ==
  /\ queued = Nothing /\ Clear(toStm) /\ Silent
  /\ stmWork = [kind |-> "apdu", pay |-> phone.pay, no |-> uartnum]
  /\ stmReply = Nothing /\ Waits /\ buf.data = "apdu"

\* ... an acknowledgement on its way back, a positive one only to a change of
\* status, ...
Answering ==
  /\ queued = Nothing /\ Clear(toStm) /\ stmWork = Nothing /\ Waits
  /\ uart_recive_All = 0
  /\ \E ok \in {0, 1} :
       /\ ok = 0 => buf.data = "status"
       /\ \/ olddata = 0 /\ ACK_recive_satus = 0 /\ fromStm = <<S5A, A5, ok>>
          \/ olddata = 8 /\ ACK_recive_satus = 0 /\ fromStm = <<A5, ok>>
          \/ olddata = 9 /\ ACK_recive_satus = 0 /\ fromStm = <<ok>>
          \/ olddata = 9 /\ ACK_recive_satus = ok + 1 /\ ok = 1 /\ fromStm = <<>>
          \/ olddata = 9 /\ ACK_recive_satus = ok + 1 /\ ok = 0 /\ fromStm = <<>>

\* ... or the reply, some of its bytes already in the descriptor and in the
\* area; its number and its payload may be damaged.
Sum == Crc(FrameLen, Apdu, uartnum, Reply(phone.pay))

Coming(n, p) ==
  \/ olddata = 0 /\ fromStm = <<A5, S5A, 0, FrameLen, Apdu, n, p, Sum>>
  \/ olddata = 1 /\ fromStm = <<S5A, 0, FrameLen, Apdu, n, p, Sum>>
  \/ olddata = 2 /\ fromStm = <<0, FrameLen, Apdu, n, p, Sum>>
  \/ olddata = 3 /\ buf.length = 0 /\ fromStm = <<FrameLen, Apdu, n, p, Sum>>
  \/ /\ buf.length = FrameLen
     /\ \/ olddata = 4 /\ fromStm = <<Apdu, n, p, Sum>>
        \/ /\ buf.cmd = Apdu
           /\ \/ olddata = 5 /\ fromStm = <<n, p, Sum>>
              \/ olddata = 6 /\ uart_recive_l = 0 /\ fromStm = <<p, Sum>>
              \/ olddata = 6 /\ uart_recive_l = 1 /\ fromStm = <<Sum>>
              \/ olddata = 7 /\ buf.crc16 = Sum /\ fromStm = <<>>

\* The reply the STM32 keeps is not one to an earlier command.
ReplyIsNew == stmReply = Nothing \/ stmReply.no = uartnum

Replying ==
  /\ queued = Nothing /\ Clear(toStm) /\ stmWork = Nothing
  /\ uart_send_flag = 0 /\ Ack_recive_enable # 0 /\ buf.data = "apdu" /\ ReplyIsNew
  /\ ACK_recive_satus = 0 /\ (uart_recive_All = 1 <=> olddata = 7)
  /\ \E n \in {uartnum, 256}, p \in {Reply(phone.pay), 256} : Coming(n, p)

Stage == Idle \/ Queued \/ Sent \/ Refused \/ Working \/ Answering \/ Replying

\* What is flagged for sending and what the timer interrupts is at rest.
Busy == uart_send_flag = 1 \/ Ack_recive_enable # 0

RestOK ==
  /\ ~Busy => Idle
  /\ uart_send_flag = 1 => Idle /\ Loaded /\ Timeout1Sec_Uart = "close"
  /\ Timeout1Sec_Uart = "timeout" => Idle
  /\ Ack_recive_enable = 1 => Loaded \/ Replying
  /\ Ack_recive_enable = 2 => uart_send_flag = 0 /\ buf.data = "apdu" /\ ReplyIsNew
  /\ pc \in {"cmd", "send"} => queued = Nothing

\* The phone waits while its command is in the link, so that it cannot
\* overwrite the area of the APDUs.
PhoneOK ==
  /\ connected
  /\ KEYwork_flag = 1 <=> Main_status = "blekey"
  /\ KEYwork_flag = 1 => uart_enable_flag = 1
  /\ uart_enable_flag = 0 => ~Busy
  /\ Busy /\ buf.data = "apdu" =>
       phone.kind = "apdu" /\ request = Nothing /\ ble = Nothing /\ Apdu_len_blekey = 0
  /\ Busy /\ buf.data = "status" /\ KEYwork_flag = 1 =>
       phone.kind = "enter" /\ request = Nothing /\ ble = Nothing /\ Apdu_len_blekey = 0
  /\ request # Nothing =>
       phone = request /\ mem["apdu"].pay = request.pay /\ ble = Nothing /\ Apdu_len_blekey = 0
  /\ Apdu_len_blekey = 1 =>
       /\ phone.kind = "apdu" /\ mem["apdu"].pay = phone.pay /\ ble = Nothing
       /\ ~Busy
  /\ ble # Nothing => phone # Nothing
  /\ phone.kind = "apdu" => phone.pay \in Apdus

\* The reply the STM32 keeps belongs to the number it carries: to the command
\* in work, or to one the phone has the answer to.
KeptOK ==
  /\ Busy /\ buf.data = "apdu" /\ stmReply # Nothing /\ stmReply.no = uartnum
       => stmReply.pay = Reply(phone.pay)
  /\ Busy /\ buf.data = "status" => stmReply = Nothing
  /\ phone = Nothing \/ ble # Nothing \/ request # Nothing \/ Apdu_len_blekey = 1
       => ReplyIsNew

\* The inductive invariant.
LinkOK == Stage /\ RestOK /\ PhoneOK /\ KeptOK /\ ReplyMatches

(***************************************************************************)
(* Messages on their way to the STM32.                                     *)
(***************************************************************************)

\* The messages of the link differ.
LEMMA MessagesDiffer ==
  /\ Confirmation \in Acks /\ Refusal \in Acks
  /\ Confirmation.kind = "ack" /\ Refusal.kind = "ack" /\ Refusal # Confirmation
  /\ Confirmation.pay = 0 /\ Refusal.pay = 1
  /\ \A f : f.kind = "frame" => f # Confirmation /\ f # Refusal
  BY DEF Ack, Acks, Confirmation, Refusal

\* One message more.
LEMMA OneMore ==
  ASSUME NEW s \in Seq(Frames \union Acks), NEW m \in Frames \union Acks
  PROVE  /\ Clear(s) => Clear(Append(s, Confirmation)) /\ Carries(Append(s, m), m)
         /\ \A f : Carries(s, f) => Carries(Append(s, Confirmation), f)
<1>1. Confirmation \in Frames \union Acks
  BY MessagesDiffer
<1>2. ASSUME NEW a \in Frames \union Acks
      PROVE  /\ DOMAIN Append(s, a) = 1 .. Len(s) + 1 /\ DOMAIN s = 1 .. Len(s)
             /\ Len(s) \in Nat
             /\ Append(s, a)[Len(s) + 1] = a /\ \A i \in DOMAIN s : Append(s, a)[i] = s[i]
  OBVIOUS
<1>3. ASSUME Clear(s) PROVE Clear(Append(s, Confirmation)) /\ Carries(Append(s, m), m)
  <2>1. \A i \in DOMAIN s : s[i] = Confirmation
    BY <1>3 DEF Clear
  <2>2. Clear(Append(s, Confirmation))
    BY <1>1, <1>2, <2>1 DEF Clear
  <2>3. Carries(Append(s, m), m)
    <3> DEFINE t == Append(s, m)
    <3>1. Len(s) + 1 \in DOMAIN t /\ t[Len(s) + 1] = m
      BY <1>2
    <3>2. \A j \in DOMAIN t : j # Len(s) + 1 => t[j] = Confirmation
      <4> TAKE j \in DOMAIN t
      <4> HAVE j # Len(s) + 1
      <4>1. j \in DOMAIN s
        BY <1>2
      <4> QED
        BY <1>2, <2>1, <4>1
    <3> HIDE DEF t
    <3> QED
      BY <3>1, <3>2 DEF Carries, t
  <2> QED
    BY <2>2, <2>3
<1>4. ASSUME NEW f, Carries(s, f) PROVE Carries(Append(s, Confirmation), f)
  <2> DEFINE t == Append(s, Confirmation)
  <2>1. PICK i \in DOMAIN s : s[i] = f /\ \A j \in DOMAIN s : j # i => s[j] = Confirmation
    BY <1>4 DEF Carries
  <2>2. i \in DOMAIN t /\ t[i] = f
    BY <1>1, <1>2, <2>1
  <2>3. \A j \in DOMAIN t : j # i => t[j] = Confirmation
    <3> TAKE j \in DOMAIN t
    <3> HAVE j # i
    <3>1. CASE j \in DOMAIN s
      BY <1>1, <1>2, <2>1, <3>1
    <3>2. CASE j \notin DOMAIN s
      BY <1>1, <1>2, <3>2
    <3> QED
      BY <3>1, <3>2
  <2> HIDE DEF t
  <2> QED
    BY <2>2, <2>3 DEF Carries, t
<1> QED
  BY <1>3, <1>4

\* One message less.
LEMMA ElementsOfRest ==
  ASSUME NEW s \in Seq(Frames \union Acks), NEW k \in DOMAIN s
  PROVE  /\ DOMAIN RemoveAt(s, k) = 1 .. Len(s) - 1 /\ DOMAIN s = 1 .. Len(s) /\ Len(s) \in Nat
         /\ \A j \in 1 .. Len(s) - 1 : RemoveAt(s, k)[j] = s[IF j < k THEN j ELSE j + 1]
<1> DEFINE a == SubSeq(s, 1, k - 1)
           b == SubSeq(s, k + 1, Len(s))
<1>1. k \in 1 .. Len(s) /\ Len(s) \in Nat
  OBVIOUS
<1>2. a \in Seq(Frames \union Acks) /\ Len(a) = k - 1 /\ \A j \in 1 .. k - 1 : a[j] = s[j]
  BY <1>1
<1>3. b \in Seq(Frames \union Acks) /\ Len(b) = Len(s) - k
      /\ \A j \in 1 .. Len(s) - k : b[j] = s[k + j]
  BY <1>1
<1>4. RemoveAt(s, k) = a \o b
  BY DEF RemoveAt
<1> HIDE DEF a, b
<1>5. Len(a \o b) = Len(s) - 1 /\ a \o b \in Seq(Frames \union Acks)
  BY <1>1, <1>2, <1>3
<1>6. ASSUME NEW j \in 1 .. Len(s) - 1
      PROVE  (a \o b)[j] = s[IF j < k THEN j ELSE j + 1]
  <2>1. CASE j < k
    BY <1>1, <1>2, <1>3, <1>6, <2>1
  <2>2. CASE ~(j < k)
    <3>1. (a \o b)[j] = b[j - (k - 1)]
      BY <1>1, <1>2, <1>3, <1>6, <2>2
    <3>2. j - (k - 1) \in 1 .. Len(s) - k /\ k + (j - (k - 1)) = j + 1
      BY <1>1, <1>6, <2>2
    <3> QED
      BY <1>3, <2>2, <3>1, <3>2
  <2> QED
    BY <2>1, <2>2
<1> QED
  BY <1>1, <1>4, <1>5, <1>6

LEMMA OneLess ==
  ASSUME NEW s \in Seq(Frames \union Acks), NEW k \in DOMAIN s
  PROVE  /\ Clear(s) => Clear(RemoveAt(s, k)) /\ s[k] = Confirmation
         /\ \A f : Carries(s, f) /\ f # Confirmation =>
              \/ s[k] = f /\ Clear(RemoveAt(s, k))
              \/ s[k] = Confirmation /\ Carries(RemoveAt(s, k), f)
<1> DEFINE t == RemoveAt(s, k)
<1>1. DOMAIN t = 1 .. Len(s) - 1 /\ DOMAIN s = 1 .. Len(s) /\ Len(s) \in Nat /\ k \in 1 .. Len(s)
  BY ElementsOfRest
<1>2. \A j \in 1 .. Len(s) - 1 : t[j] = s[IF j < k THEN j ELSE j + 1]
  BY ElementsOfRest
<1> HIDE DEF t
<1>3. ASSUME Clear(s) PROVE Clear(t) /\ s[k] = Confirmation
  BY <1>1, <1>2, <1>3 DEF Clear
<1>4. ASSUME NEW f, Carries(s, f), f # Confirmation
      PROVE  (s[k] = f /\ Clear(t)) \/ (s[k] = Confirmation /\ Carries(t, f))
  <2>1. PICK i \in DOMAIN s : s[i] = f /\ \A j \in DOMAIN s : j # i => s[j] = Confirmation
    BY <1>4 DEF Carries
  <2>2. CASE i = k
    <3>1. \A j \in DOMAIN t : t[j] = Confirmation
      BY <1>1, <1>2, <2>1, <2>2
    <3> QED
      BY <2>1, <2>2, <3>1 DEF Clear
  <2>3. CASE i # k
    <3> DEFINE h == IF i < k THEN i ELSE i - 1
    <3>1. h \in DOMAIN t /\ t[h] = f
      BY <1>1, <1>2, <2>1, <2>3
    <3>2. \A j \in DOMAIN t : j # h => t[j] = Confirmation
      <4> TAKE j \in DOMAIN t
      <4> HAVE j # h
      <4>1. j \in 1 .. Len(s) - 1 /\ i \in 1 .. Len(s)
        BY <1>1, <2>1
      <4>2. CASE j < k
        BY <1>1, <1>2, <2>1, <2>3, <4>1, <4>2
      <4>3. CASE ~(j < k)
        <5>1. j + 1 # i /\ j + 1 \in DOMAIN s
          BY <1>1, <2>3, <4>1, <4>3
        <5> QED
          BY <1>2, <2>1, <4>1, <4>3, <5>1
      <4> QED
        BY <4>2, <4>3
    <3>3. s[k] = Confirmation
      BY <2>1, <2>3
    <3> HIDE DEF h
    <3> QED
      BY <3>1, <3>2, <3>3 DEF Carries
  <2> QED
    BY <2>2, <2>3
<1> QED
  BY <1>3, <1>4 DEF t

\* The first message is taken.
LEMMA FirstTaken ==
  ASSUME NEW s \in Seq(Frames \union Acks), s # <<>>
  PROVE  /\ Clear(s) => Clear(Tail(s)) /\ Head(s) = Confirmation
         /\ \A f : Carries(s, f) /\ f # Confirmation =>
              \/ Head(s) = f /\ Clear(Tail(s))
              \/ Head(s) = Confirmation /\ Carries(Tail(s), f)
<1> DEFINE t == Tail(s)
<1>1. /\ 1 \in DOMAIN s /\ Head(s) = s[1]
      /\ DOMAIN t = 1 .. Len(s) - 1 /\ DOMAIN s = 1 .. Len(s) /\ Len(s) \in Nat \ {0}
      /\ \A j \in 1 .. Len(s) - 1 : t[j] = s[j + 1]
  OBVIOUS
<1> HIDE DEF t
<1>2. ASSUME Clear(s) PROVE Clear(t) /\ s[1] = Confirmation
  BY <1>1, <1>2 DEF Clear
<1>3. ASSUME NEW f, Carries(s, f), f # Confirmation
      PROVE  (s[1] = f /\ Clear(t)) \/ (s[1] = Confirmation /\ Carries(t, f))
  <2>1. PICK i \in DOMAIN s : s[i] = f /\ \A j \in DOMAIN s : j # i => s[j] = Confirmation
    BY <1>3 DEF Carries
  <2>2. CASE i = 1
    <3>1. \A j \in DOMAIN t : t[j] = Confirmation
      BY <1>1, <2>1, <2>2
    <3> QED
      BY <2>1, <2>2, <3>1 DEF Clear
  <2>3. CASE i # 1
    <3>1. i - 1 \in DOMAIN t /\ t[i - 1] = f
      BY <1>1, <2>1, <2>3
    <3>2. \A j \in DOMAIN t : j # i - 1 => t[j] = Confirmation
      BY <1>1, <2>1, <2>3
    <3>3. s[1] = Confirmation
      BY <1>1, <2>1, <2>3
    <3> QED
      BY <3>1, <3>2, <3>3 DEF Carries
  <2> QED
    BY <2>2, <2>3
<1> QED
  BY <1>1, <1>2, <1>3 DEF t

\* A command is damaged.
LEMMA OneDamaged ==
  ASSUME NEW s \in Seq(Frames \union Acks), NEW k \in DOMAIN s, s[k].kind = "frame",
         NEW d, NEW f, Carries(s, f)
  PROVE  s[k] = f /\ Carries([s EXCEPT ![k] = d], d)
<1>1. PICK i \in DOMAIN s : s[i] = f /\ \A j \in DOMAIN s : j # i => s[j] = Confirmation
  BY DEF Carries
<1>2. i = k
  BY <1>1, MessagesDiffer
<1> DEFINE t == [s EXCEPT ![k] = d]
<1>3. DOMAIN t = DOMAIN s /\ t[k] = d /\ \A j \in DOMAIN s : j # k => t[j] = s[j]
  OBVIOUS
<1> HIDE DEF t
<1>4. Carries(t, d)
  BY <1>1, <1>2, <1>3 DEF Carries
<1> QED
  BY <1>1, <1>2, <1>4 DEF t

(***************************************************************************)
(* What does not change.                                                   *)
(***************************************************************************)

\* What tells where the message is, and what the phone's command depends on.
Place == <<queued, toStm, fromStm, stmWork, stmReply, olddata, uart_recive_l,
           uart_recive_All, ACK_recive_satus, uart_send_flag, uartnum,
           Ack_recive_enable, buf, mem, phone>>

Talk == <<connected, KEYwork_flag, Main_status, uart_enable_flag, Apdu_len_blekey,
          ble, request>>

LEMMA PlaceKept ==
  ASSUME UNCHANGED Place
  PROVE  /\ Stage => Stage'
         /\ Idle => Idle'
         /\ Loaded => Loaded'
         /\ Replying => Replying'
<1>1. /\ queued' = queued /\ toStm' = toStm /\ fromStm' = fromStm /\ stmWork' = stmWork
      /\ stmReply' = stmReply /\ olddata' = olddata /\ uart_recive_l' = uart_recive_l
      /\ uart_recive_All' = uart_recive_All /\ ACK_recive_satus' = ACK_recive_satus
      /\ uart_send_flag' = uart_send_flag /\ uartnum' = uartnum
      /\ Ack_recive_enable' = Ack_recive_enable /\ buf' = buf /\ mem' = mem /\ phone' = phone
  BY DEF Place
<1>2. Silent => Silent'
  BY <1>1 DEF Silent
<1>3. Clear(toStm) => Clear(toStm)'
  BY <1>1
<1>4. Idle => Idle'
  BY <1>1, <1>2, <1>3 DEF Idle
<1>5. Loaded => Loaded'
  BY <1>1 DEF Loaded
<1>6. Waits => Waits'
  BY <1>1, <1>5 DEF Waits
<1>7. \A f : Current(f) => Current(f)'
  BY <1>1 DEF Current
<1>8. Queued => Queued'
  BY <1>1, <1>2, <1>3, <1>6, <1>7 DEF Queued
<1>9. Sent => Sent'
  BY <1>1, <1>2, <1>6, <1>7 DEF Sent
<1>10. Refused => Refused'
  BY <1>1, <1>2 DEF Refused
<1>11. Working => Working'
  BY <1>1, <1>2, <1>3, <1>6 DEF Working
<1>12. Answering => Answering'
  BY <1>1, <1>3, <1>6 DEF Answering
<1>13. Replying => Replying'
  <2>1. Sum' = Sum
    BY <1>1 DEF Sum
  <2>2. \A n, p : Coming(n, p) => Coming(n, p)'
    BY <1>1, <2>1 DEF Coming
  <2> QED
    BY <1>1, <1>3, <2>2 DEF Replying, ReplyIsNew
<1> QED
  BY <1>4, <1>5, <1>8, <1>9, <1>10, <1>11, <1>12, <1>13 DEF Stage

LEMMA RestKept ==
  ASSUME RestOK, UNCHANGED Place,
         Timeout1Sec_Uart' = Timeout1Sec_Uart,
         pc' \in {"cmd", "send"} => queued = Nothing
  PROVE  RestOK'
<1>1. /\ queued' = queued /\ stmReply' = stmReply /\ uart_send_flag' = uart_send_flag
      /\ uartnum' = uartnum /\ Ack_recive_enable' = Ack_recive_enable /\ buf' = buf
  BY DEF Place
<1> QED
  BY <1>1, PlaceKept DEF RestOK, Busy, ReplyIsNew

LEMMA TalkKept ==
  ASSUME PhoneOK, KeptOK, ReplyMatches, UNCHANGED Place, UNCHANGED Talk
  PROVE  PhoneOK' /\ KeptOK' /\ ReplyMatches'
<1>1. /\ stmReply' = stmReply /\ uart_send_flag' = uart_send_flag
      /\ uartnum' = uartnum /\ Ack_recive_enable' = Ack_recive_enable /\ buf' = buf
      /\ mem' = mem /\ phone' = phone
  BY DEF Place
<1>2. /\ connected' = connected /\ KEYwork_flag' = KEYwork_flag
      /\ Main_status' = Main_status /\ uart_enable_flag' = uart_enable_flag
      /\ Apdu_len_blekey' = Apdu_len_blekey /\ ble' = ble /\ request' = request
  BY DEF Talk
<1>3. Busy' = Busy /\ ReplyIsNew' = ReplyIsNew
  BY <1>1 DEF Busy, ReplyIsNew
<1> HIDE DEF Busy, ReplyIsNew
<1>4. PhoneOK'
  BY <1>1, <1>2, <1>3 DEF PhoneOK
<1>5. KeptOK'
  BY <1>1, <1>2, <1>3 DEF KeptOK
<1>6. ReplyMatches'
  BY <1>1, <1>2 DEF ReplyMatches
<1> QED
  BY <1>4, <1>5, <1>6

\* A step that changes nothing of all this but the place in the pass.
LEMMA PassGoesOn ==
  ASSUME LinkOK, UNCHANGED Place, UNCHANGED Talk, Timeout1Sec_Uart' = Timeout1Sec_Uart,
         pc' \in {"cmd", "send"} => queued = Nothing
  PROVE  LinkOK'
  BY PlaceKept, RestKept, TalkKept DEF LinkOK

(***************************************************************************)
(* The main loop: commands of the phone.                                   *)
(***************************************************************************)

LEMMA NothingIsNone == Nothing.kind = "none" /\ Nothing.pay = 0
  BY DEF Nothing

LEMMA QuietSteps ==
  ASSUME LinkOK, \/ NoRequest \/ UartClosed \/ NothingReceived \/ NotWaiting
                 \/ NotRefusing \/ NothingToDo
  PROVE  LinkOK'
<1>1. /\ UNCHANGED <<pass, rx, memory, tx, wait, mode, Apdu_len_blekey, air, stm, line>>
      /\ pc' \in {"cmd", "send"} => pc = "cmd"
  BY DEF NoRequest, UartClosed, NothingReceived, NotWaiting, NotRefusing, NothingToDo
<1>2. UNCHANGED Place /\ UNCHANGED Talk /\ Timeout1Sec_Uart' = Timeout1Sec_Uart
  BY <1>1 DEF pass, rx, memory, tx, wait, mode, air, stm, line, Place, Talk
<1>3. pc = "cmd" => queued = Nothing
  BY DEF LinkOK, RestOK
<1> QED
  BY <1>1, <1>2, <1>3, PassGoesOn

\* A command is written.
LEMMA CommandLoaded ==
  ASSUME TypeOK, NEW cmd, NEW a \in Areas, NEW p, NEW n, CmdSendUart(cmd, a, p, n),
         \/ cmd = Apdu /\ a = "apdu" /\ p = phone'.pay
         \/ cmd = Change /\ a = "status"
  PROVE  Loaded' /\ buf'.data = a /\ uart_send_flag' = 1
<1>1. /\ buf'.length = FrameLen /\ buf'.cmd = cmd /\ buf'.no_use = n /\ buf'.data = a
      /\ uartnum' = n /\ uart_send_flag' = 1
      /\ mem' = [mem EXCEPT ![a] = [pay |-> p, crc |-> Crc(FrameLen, cmd, n, p)]]
  BY DEF CmdSendUart
<1>2. mem'[a].pay = p /\ mem'[a].crc = Crc(FrameLen, cmd, n, p)
  BY <1>1 DEF TypeOK, MemoryType
<1> HIDE DEF Crc
<1> QED
  BY <1>1, <1>2 DEF Loaded

\* The STM32 is switched off and on: nothing is under way.
LEMMA Restarted ==
  ASSUME TypeOK, NoStrayTimeout, LinkOK, NEW p, Restart(p),
         queued' = queued, queued = Nothing, stmWork' = Nothing
  PROVE  /\ Idle' /\ Loaded' /\ buf'.data = "status"
         /\ uart_send_flag' = 1 /\ Ack_recive_enable' = 0 /\ Timeout1Sec_Uart' = "close"
         /\ uart_enable_flag' = 1
<1>1. Loaded' /\ buf'.data = "status" /\ uart_send_flag' = 1
  BY CommandLoaded DEF Restart, Areas
<1>2. toStm' = <<>> /\ fromStm' = <<>> /\ uart_enable_flag' = 1
  BY DEF Restart, PowerOff_key
<1>3. uart_enable_flag = 0 =>
        /\ Idle /\ Ack_recive_enable = 0 /\ Timeout1Sec_Uart = "close"
  BY DEF LinkOK, PhoneOK, RestOK, Busy, NoStrayTimeout
<1>4. uart_enable_flag \in 0..1
  BY DEF TypeOK, ModeType
<1>5. /\ olddata' = 0 /\ uart_recive_All' = 0 /\ ACK_recive_satus' = 0
      /\ Ack_recive_enable' = 0 /\ Timeout1Sec_Uart' = "close"
  <2>1. CASE uart_enable_flag = 0
    BY <1>3, <2>1 DEF Restart, PowerOff_key, Closed, Idle, Silent
  <2>2. CASE uart_enable_flag = 1
    BY <2>2 DEF Restart, PowerOff_key, Closed
  <2> QED
    BY <1>4, <2>1, <2>2
<1>6. Clear(toStm)'
  BY <1>2 DEF Clear
<1>7. Silent'
  BY <1>2, <1>5 DEF Silent
<1> QED
  BY <1>1, <1>2, <1>5, <1>6, <1>7 DEF Idle

\* What follows, whatever the phone is told.
LEMMA RestartedRests ==
  ASSUME Idle', Loaded', uart_send_flag' = 1, Ack_recive_enable' = 0,
         Timeout1Sec_Uart' = "close"
  PROVE  Stage' /\ RestOK'
  BY DEF Stage, RestOK, Busy, Idle

LEMMA CommandsKeepLink ==
  ASSUME TypeOK, NoStrayTimeout, LinkOK, BleCmdProcess PROVE LinkOK'
<1>0. queued = Nothing /\ connected
  BY DEF LinkOK, RestOK, PhoneOK, BleCmdProcess, NoRequest, EnterKeyMode, LeaveKeyMode, TakeApdu
<1>1. CASE NoRequest
  BY <1>1, QuietSteps
<1>2. request # Nothing =>
        phone = request /\ mem["apdu"].pay = request.pay /\ ble = Nothing /\ Apdu_len_blekey = 0
  BY DEF LinkOK, PhoneOK
<1>3. CASE EnterKeyMode
  <2>1. /\ Restart(KeyMode) /\ queued' = queued /\ stmWork' = Nothing /\ stmReply' = Nothing
        /\ KEYwork_flag' = 1 /\ Main_status' = "blekey" /\ request' = Nothing
        /\ Apdu_len_blekey' = Apdu_len_blekey /\ ble' = ble /\ phone' = phone
        /\ connected' = connected /\ request.kind = "enter"
    BY <1>3 DEF EnterKeyMode, pass
  <2>2. /\ Idle' /\ Loaded' /\ buf'.data = "status"
        /\ uart_send_flag' = 1 /\ Ack_recive_enable' = 0 /\ Timeout1Sec_Uart' = "close"
        /\ uart_enable_flag' = 1
    BY <1>0, <2>1, Restarted
  <2>3. phone.kind = "enter" /\ ble = Nothing /\ Apdu_len_blekey = 0 /\ phone # Nothing
    BY <1>2, <2>1, NothingIsNone
  <2>4. PhoneOK'
    BY <1>0, <2>1, <2>2, <2>3 DEF PhoneOK, Busy
  <2>5. KeptOK'
    BY <2>1 DEF KeptOK, ReplyIsNew
  <2>6. ReplyMatches'
    BY <2>1, <2>3, NothingIsNone DEF ReplyMatches
  <2> QED
    BY <2>2, <2>4, <2>5, <2>6, RestartedRests DEF LinkOK
<1>4. CASE LeaveKeyMode
  <2>1. /\ Restart(TimeMode) /\ queued' = queued /\ stmWork' = Nothing /\ stmReply' = Nothing
        /\ KEYwork_flag' = 0 /\ Main_status' = "timedisplay" /\ request' = Nothing
        /\ Apdu_len_blekey' = Apdu_len_blekey /\ phone' = phone
        /\ connected' = connected /\ request.kind = "leave"
        /\ Send_bluetoothdata([kind |-> "ok", pay |-> 0])
    BY <1>4 DEF LeaveKeyMode, pass
  <2>2. /\ Idle' /\ Loaded' /\ buf'.data = "status"
        /\ uart_send_flag' = 1 /\ Ack_recive_enable' = 0 /\ Timeout1Sec_Uart' = "close"
        /\ uart_enable_flag' = 1
    BY <1>0, <2>1, Restarted
  <2>3. phone.kind = "leave" /\ Apdu_len_blekey = 0 /\ phone # Nothing
    BY <1>2, <2>1, NothingIsNone
  <2>4. ble' = [kind |-> "ok", pay |-> 0]
    BY <1>0, <2>1 DEF Send_bluetoothdata
  <2>5. PhoneOK'
    BY <1>0, <2>1, <2>2, <2>3 DEF PhoneOK, Busy
  <2>6. KeptOK'
    BY <2>1 DEF KeptOK, ReplyIsNew
  <2>7. ReplyMatches'
    BY <2>4 DEF ReplyMatches
  <2> QED
    BY <2>2, <2>5, <2>6, <2>7, RestartedRests DEF LinkOK
<1>5. CASE TakeApdu
  <2>1. /\ pc' = "send" /\ request.kind = "apdu" /\ request' = Nothing
        /\ Apdu_len_blekey' = IF KEYwork_flag = 1 THEN 1 ELSE Apdu_len_blekey
        /\ UNCHANGED <<queued, toStm, fromStm, stmWork, stmReply, rx, uart_send_flag, uartnum,
                       Ack_recive_enable, Timeout1Sec_Uart, buf, mem, phone, connected, mode, ble>>
    BY <1>5 DEF TakeApdu, pass, rx, memory, tx, wait, stm, line
  <2>2. UNCHANGED Place /\ Timeout1Sec_Uart' = Timeout1Sec_Uart
    BY <2>1 DEF Place, rx
  <2>3. Stage' /\ RestOK'
    BY <1>0, <2>2, PlaceKept, RestKept DEF LinkOK
  <2>4. request # Nothing /\ phone = request /\ mem["apdu"].pay = request.pay /\ ble = Nothing
        /\ Apdu_len_blekey = 0 /\ phone # Nothing
    BY <1>2, <2>1, NothingIsNone
  <2>5. Busy' = Busy
    BY <2>1 DEF Busy
  <2>6. Busy => buf.data = "status" /\ KEYwork_flag # 1
    BY <2>4 DEF LinkOK, PhoneOK, TypeOK, MemoryType, Areas
  <2>7. PhoneOK'
    BY <2>1, <2>4, <2>5, <2>6 DEF LinkOK, PhoneOK, mode
  <2>8. KeptOK'
    BY <2>1, <2>4, <2>5, <2>6 DEF LinkOK, KeptOK, ReplyIsNew
  <2>9. ReplyMatches'
    BY <2>1, <2>4, NothingIsNone DEF ReplyMatches
  <2> QED
    BY <2>3, <2>7, <2>8, <2>9 DEF LinkOK
<1> QED
  BY <1>1, <1>3, <1>4, <1>5 DEF BleCmdProcess

(***************************************************************************)
(* The main loop: sending and receiving.                                   *)
(***************************************************************************)

\* A step that ends a wait, or none, changes nothing for the phone.
LEMMA TalkCalmer ==
  ASSUME PhoneOK, KeptOK, ReplyMatches, UNCHANGED <<stmReply, uartnum, buf, mem, phone>>,
         UNCHANGED Talk, Busy' => Busy
  PROVE  PhoneOK' /\ KeptOK' /\ ReplyMatches'
<1>1. /\ stmReply' = stmReply /\ uartnum' = uartnum /\ buf' = buf
      /\ mem' = mem /\ phone' = phone
  OBVIOUS
<1>2. /\ connected' = connected /\ KEYwork_flag' = KEYwork_flag
      /\ Main_status' = Main_status /\ uart_enable_flag' = uart_enable_flag
      /\ Apdu_len_blekey' = Apdu_len_blekey /\ ble' = ble /\ request' = request
  BY DEF Talk
<1>3. ReplyIsNew' = ReplyIsNew
  BY <1>1 DEF ReplyIsNew
<1> HIDE DEF Busy, ReplyIsNew
<1>4. PhoneOK'
  BY <1>1, <1>2 DEF PhoneOK
<1>5. KeptOK'
  BY <1>1, <1>2, <1>3 DEF KeptOK
<1>6. ReplyMatches'
  BY <1>1, <1>2 DEF ReplyMatches
<1> QED
  BY <1>4, <1>5, <1>6

\* The wait is over and the link at rest.
LEMMA Rests ==
  ASSUME Idle', uart_send_flag' = 0, Ack_recive_enable' = 0, Timeout1Sec_Uart' = "close"
  PROVE  Stage' /\ RestOK'
  BY DEF Stage, RestOK, Busy, Idle

\* A confirmation joins the messages on their way.
LEMMA ConfirmationSent ==
  ASSUME TypeOK, LinkOK, toStm' = Append(toStm, Confirmation),
         UNCHANGED <<queued, fromStm, stmWork, stmReply, rx, uart_send_flag, uartnum,
                     Ack_recive_enable, buf, mem, phone, Timeout1Sec_Uart>>,
         UNCHANGED Talk, pc' \notin {"cmd", "send"}
  PROVE  LinkOK'
<1>1. /\ queued' = queued /\ fromStm' = fromStm /\ stmWork' = stmWork
      /\ stmReply' = stmReply /\ olddata' = olddata /\ uart_recive_l' = uart_recive_l
      /\ uart_recive_All' = uart_recive_All /\ ACK_recive_satus' = ACK_recive_satus
      /\ uart_send_flag' = uart_send_flag /\ uartnum' = uartnum
      /\ Ack_recive_enable' = Ack_recive_enable /\ buf' = buf /\ mem' = mem /\ phone' = phone
  BY DEF rx
<1>2. Silent => Silent'
  BY <1>1 DEF Silent
<1>3. Clear(toStm) => Clear(toStm)'
  BY OneMore, MessagesDiffer DEF TypeOK, LineType
<1>4. Idle => Idle'
  BY <1>1, <1>2, <1>3 DEF Idle
<1>5. Loaded => Loaded'
  BY <1>1 DEF Loaded
<1>6. Waits => Waits'
  BY <1>1, <1>5 DEF Waits
<1>7. \A f : /\ Current(f) => Current(f)'
             /\ Carries(toStm, f) => Carries(toStm, f)'
  <2>1. \A f : Current(f) => Current(f)'
    BY <1>1 DEF Current
  <2>2. \A f : Carries(toStm, f) => Carries(toStm, f)'
    BY OneMore, MessagesDiffer DEF TypeOK, LineType
  <2> QED
    BY <2>1, <2>2
<1>8. Queued => Queued'
  BY <1>1, <1>2, <1>3, <1>6, <1>7 DEF Queued
<1>9. Sent => Sent'
  BY <1>1, <1>2, <1>6, <1>7 DEF Sent
<1>10. Refused => Refused'
  BY <1>1, <1>2, <1>7 DEF Refused
<1>11. Working => Working'
  BY <1>1, <1>2, <1>3, <1>6 DEF Working
<1>12. Answering => Answering'
  BY <1>1, <1>3, <1>6 DEF Answering
<1>13. Replying => Replying'
  <2>1. Sum' = Sum
    BY <1>1 DEF Sum
  <2>2. \A n, p : Coming(n, p) => Coming(n, p)'
    BY <1>1, <2>1 DEF Coming
  <2> QED
    BY <1>1, <1>3, <2>2 DEF Replying, ReplyIsNew
<1>14. Stage'
  BY <1>4, <1>8, <1>9, <1>10, <1>11, <1>12, <1>13 DEF LinkOK, Stage
<1>15. RestOK'
  BY <1>1, <1>4, <1>5, <1>13 DEF LinkOK, RestOK, Busy, ReplyIsNew
<1>16. PhoneOK' /\ KeptOK' /\ ReplyMatches'
  BY <1>1, TalkCalmer DEF LinkOK, Busy
<1> QED
  BY <1>14, <1>15, <1>16 DEF LinkOK

LEMMA SendKeepsLink == ASSUME TypeOK, LinkOK, uart_send PROVE LinkOK'
<1>1. /\ UNCHANGED <<toStm, fromStm, stmWork, stmReply, rx, uartnum, buf, mem, phone,
                     Timeout1Sec_Uart, mode, Apdu_len_blekey, air>>
      /\ pc' = "waitack"
  BY DEF uart_send, memory, stm, line, air
<1>2. UNCHANGED Talk
  BY <1>1 DEF Talk, mode, air
<1>3. CASE uart_send_flag # 1
  <2>1. UNCHANGED Place
    BY <1>1, <1>3 DEF uart_send, Place, rx
  <2> QED
    BY <1>1, <1>2, <2>1, PassGoesOn
<1>4. CASE uart_send_flag = 1
  <2>1. queued' = Frame /\ uart_send_flag' = 0 /\ Ack_recive_enable' = 1
    BY <1>4 DEF uart_send
  <2>2. Idle /\ Loaded /\ Timeout1Sec_Uart = "close"
    BY <1>4 DEF LinkOK, RestOK
  <2>3. Loaded'
    BY <1>1, <2>2 DEF Loaded
  <2>4. /\ Whole(Frame) /\ Frame.kind = "frame" /\ Frame.length = FrameLen /\ Frame.no = uartnum
        /\ Frame.cmd = buf.cmd /\ Frame.pay = mem[buf.data].pay
    BY <2>2 DEF Frame, Whole, Loaded
  <2>5. Silent' /\ Clear(toStm)' /\ stmWork' = Nothing
    BY <1>1, <2>2 DEF Idle, Silent, rx
  <2>6. Queued'
    <3>1. Whole(queued)'
      BY <2>1, <2>4 DEF Whole
    <3>2. Current(queued)' /\ queued' # Nothing
      BY <1>1, <2>1, <2>4, <3>1, NothingIsNone DEF Current
    <3> QED
      BY <2>1, <2>3, <2>5, <3>1, <3>2 DEF Queued, Waits
  <2>7. RestOK'
    BY <1>1, <2>1, <2>2, <2>3 DEF RestOK, Busy
  <2>8. PhoneOK' /\ KeptOK' /\ ReplyMatches'
    <3>1. Busy' => Busy
      BY <1>4 DEF Busy
    <3> QED
      BY <1>1, <1>2, <3>1, TalkCalmer DEF LinkOK
  <2> QED
    BY <2>6, <2>7, <2>8 DEF LinkOK, Stage
<1> QED
  BY <1>3, <1>4

LEMMA SuccessAckKeepsLink == ASSUME TypeOK, LinkOK, successAck PROVE LinkOK'
<1>1. /\ UNCHANGED <<queued, fromStm, stmWork, stmReply, rx, uart_send_flag, uartnum,
                     Ack_recive_enable, buf, mem, phone, Timeout1Sec_Uart>>
      /\ pc' = "receive"
  BY DEF successAck, pass, memory, tx, wait, stm, air
<1>2. UNCHANGED Talk
  BY DEF successAck, Talk, mode, air
<1>3. CASE uart_waitack_flag = 2
  <2>1. toStm' = Append(toStm, Confirmation)
    BY <1>3 DEF successAck, Transmit, Confirmation
  <2> QED
    BY <1>1, <1>2, <2>1, ConfirmationSent
<1>4. CASE uart_waitack_flag # 2
  <2>1. UNCHANGED Place
    BY <1>1, <1>4 DEF successAck, Place, rx
  <2> QED
    BY <1>1, <1>2, <2>1, PassGoesOn
<1> QED
  BY <1>3, <1>4

\* A checksum tells payloads apart.
LEMMA CrcInjective ==
  ASSUME NEW n \in 0 .. NumMod - 1, NEW p \in Nat, NEW q \in Nat,
         Crc(FrameLen, Apdu, n, p) = Crc(FrameLen, Apdu, n, q)
  PROVE  p = q
<1>1. NumMod \in Nat \ {0}
  BY UartAssumption
<1> DEFINE a == p * NumMod
           b == q * NumMod
<1>2. a \in Nat /\ b \in Nat /\ n \in Nat /\ n < NumMod
  BY <1>1
<1>3. Crc(FrameLen, Apdu, n, p) = 1000 + ((a + n) * 4 + Apdu)
  BY <1>2 DEF Crc
<1>4. Crc(FrameLen, Apdu, n, q) = 1000 + ((b + n) * 4 + Apdu)
  BY <1>2 DEF Crc
<1> HIDE DEF a, b
<1>5. a = b
  BY <1>2, <1>3, <1>4 DEF Apdu
<1>6. (p - q) * NumMod = 0
  BY <1>1, <1>5 DEF a, b
<1> QED
  BY <1>1, <1>6

\* A frame is complete: it is the reply to the command in work.
LEMMA Complete ==
  ASSUME TypeOK, LinkOK, uart_recive_All = 1
  PROVE  /\ queued = Nothing /\ Clear(toStm) /\ stmWork = Nothing /\ fromStm = <<>>
         /\ uart_send_flag = 0 /\ Ack_recive_enable # 0 /\ ACK_recive_satus = 0
         /\ buf.data = "apdu" /\ buf.length = FrameLen /\ buf.cmd = Apdu /\ buf.crc16 = Sum
         /\ ReplyIsNew /\ Busy /\ connected
         /\ phone.kind = "apdu" /\ phone.pay \in Apdus
         /\ request = Nothing /\ ble = Nothing /\ Apdu_len_blekey = 0
<1>1. Replying
  BY DEF LinkOK, Stage, Idle, Queued, Sent, Refused, Working, Answering, Silent
<1>2. olddata = 7
  BY <1>1 DEF Replying
<1>3. buf.length = FrameLen /\ buf.cmd = Apdu /\ buf.crc16 = Sum /\ fromStm = <<>>
  BY <1>1, <1>2 DEF Replying, Coming
<1>4. Busy /\ buf.data = "apdu"
  BY <1>1 DEF Replying, Busy
<1>5. /\ phone.kind = "apdu" /\ phone.pay \in Apdus /\ connected
      /\ request = Nothing /\ ble = Nothing /\ Apdu_len_blekey = 0
  BY <1>4 DEF LinkOK, PhoneOK
<1> QED
  BY <1>1, <1>3, <1>4, <1>5 DEF Replying

LEMMA RightReply ==
  ASSUME TypeOK, LinkOK, uart_recive_All = 1, CRC16_check, buf.no_use = uartnum
  PROVE  mem["apdu"].pay = Reply(phone.pay)
<1>1. /\ buf.data = "apdu" /\ buf.length = FrameLen /\ buf.cmd = Apdu /\ buf.crc16 = Sum
      /\ phone.pay \in Apdus
  BY Complete
<1>2. Crc(FrameLen, Apdu, uartnum, mem["apdu"].pay) = Crc(FrameLen, Apdu, uartnum, Reply(phone.pay))
  BY <1>1 DEF CRC16_check, Sum
<1>3. uartnum \in 0 .. NumMod - 1 /\ mem["apdu"].pay \in Nat
  BY DEF TypeOK, TxType, MemoryType, Areas
<1>4. Reply(phone.pay) \in Nat
  <2>1. phone.pay \in Nat
    BY <1>1, PayloadType
  <2> QED
    BY <2>1 DEF Reply
<1> HIDE DEF Crc, Reply
<1> QED
  BY <1>2, <1>3, <1>4, CrcInjective

\* A reply is handed over.
LEMMA ReplyTaken ==
  ASSUME TypeOK, LinkOK, uart_recive_All = 1, CRC16_check, buf.no_use = uartnum,
         Uart_cmdprogam, Clear(toStm)', Silent', Ack_recive_enable' = 0,
         Timeout1Sec_Uart' = "close",
         UNCHANGED <<queued, buf, uart_send_flag, uartnum, mode, Apdu_len_blekey, request,
                     phone, connected, stm>>
  PROVE  LinkOK'
<1>1. /\ queued = Nothing /\ stmWork = Nothing /\ uart_send_flag = 0
      /\ buf.data = "apdu" /\ buf.cmd = Apdu /\ ReplyIsNew /\ connected
      /\ phone.kind = "apdu" /\ phone.pay \in Apdus
      /\ request = Nothing /\ Apdu_len_blekey = 0
  BY Complete
<1>2. mem["apdu"].pay = Reply(phone.pay)
  BY RightReply
<1>3. ble' = [kind |-> "reply", pay |-> Reply(phone.pay)]
  BY <1>1, <1>2 DEF Uart_cmdprogam, Send_bluetoothdata
<1>4. Idle'
  BY <1>1 DEF Idle, stm
<1>5. Stage' /\ RestOK'
  BY <1>1, <1>4, Rests
<1>6. ~Busy'
  BY <1>1 DEF Busy
<1>7. PhoneOK'
  BY <1>1, <1>3, <1>6, NothingIsNone DEF LinkOK, PhoneOK, mode
<1>8. KeptOK'
  BY <1>1, <1>6 DEF KeptOK, ReplyIsNew, stm
<1>9. ReplyMatches'
  BY <1>1, <1>3 DEF ReplyMatches
<1> QED
  BY <1>5, <1>7, <1>8, <1>9 DEF LinkOK

\* A refusal is sent, or the reply given up.
LEMMA RefusalSent ==
  ASSUME TypeOK, queued' = Nothing, Clear(toStm), stmWork' = Nothing, Silent',
         toStm' = Append(toStm, Refusal), Ack_recive_enable' = 2,
         uart_send_flag' = 0, buf'.data = "apdu", ReplyIsNew', Timeout1Sec_Uart' = "close"
  PROVE  Stage' /\ RestOK'
<1>1. Carries(toStm, Refusal)'
  BY OneMore, MessagesDiffer DEF TypeOK, LineType
<1>2. Refused'
  BY <1>1 DEF Refused, Refusal
<1> QED
  BY <1>2 DEF Stage, RestOK, Busy

LEMMA RefusesAgain ==
  ASSUME TypeOK, queued' = Nothing, Clear(toStm), stmWork' = Nothing, Silent',
         RefuseAgain, Ack_recive_enable = 2,
         uart_send_flag' = 0, buf'.data = "apdu", ReplyIsNew', Timeout1Sec_Uart' = "close"
  PROVE  Stage' /\ RestOK'
<1>1. CASE ACC_resend + 1 < MaxResend
  <2>1. toStm' = Append(toStm, Refusal) /\ Ack_recive_enable' = 2
    BY <1>1 DEF RefuseAgain, Transmit, Refusal
  <2> QED
    BY <2>1, RefusalSent
<1>2. CASE ~(ACC_resend + 1 < MaxResend)
  <2>1. Ack_recive_enable' = 0 /\ toStm' = toStm
    BY <1>2 DEF RefuseAgain
  <2>2. Idle'
    BY <2>1 DEF Idle
  <2> QED
    BY <2>1, <2>2, Rests
<1> QED
  BY <1>1, <1>2

\* What taking a frame leaves behind.
LEMMA AfterFrame ==
  ASSUME TypeOK, LinkOK, FrameTaken
  PROVE  /\ uart_recive_All = 1 /\ Silent' /\ Timeout1Sec_Uart' = "close"
         /\ UNCHANGED <<queued, buf, uart_send_flag, uartnum, mode, Apdu_len_blekey, request,
                        phone, connected, stmWork, stmReply, stm>>
  BY Complete DEF FrameTaken, Silent, pass, tx, stm

LEMMA ReceiveKeepsLink ==
  ASSUME TypeOK, Retries, LinkOK, Receive PROVE LinkOK'
<1>1. CASE NothingReceived
  BY <1>1, QuietSteps
<1>2. ASSUME FrameTaken
      PROVE  /\ uart_recive_All = 1 /\ Silent' /\ Timeout1Sec_Uart' = "close"
             /\ queued' = Nothing /\ Clear(toStm) /\ stmWork' = Nothing
             /\ uart_send_flag' = 0 /\ buf'.data = "apdu" /\ ReplyIsNew' /\ Busy
             /\ UNCHANGED <<buf, uart_send_flag, uartnum, mode, Apdu_len_blekey, request,
                            phone, connected, stmReply>>
  <2> QED
    BY <1>2, AfterFrame, Complete DEF ReplyIsNew
<1>3. CASE FrameRefused
  <2>1. /\ toStm' = Append(toStm, Refusal) /\ Ack_recive_enable' = 2 /\ mem' = mem /\ ble' = ble
        /\ FrameTaken
    BY <1>3 DEF FrameRefused, Transmit, Refusal
  <2>2. Stage' /\ RestOK'
    BY <1>2, <2>1, RefusalSent
  <2>3. UNCHANGED Talk
    BY <1>2, <2>1 DEF Talk, mode
  <2>4. PhoneOK' /\ KeptOK' /\ ReplyMatches'
    BY <1>2, <2>1, <2>3, TalkCalmer DEF LinkOK
  <2> QED
    BY <2>2, <2>4 DEF LinkOK
<1>4. CASE FrameRepeated
  <2>1. /\ toStm' = toStm /\ Ack_recive_enable' = Ack_recive_enable /\ mem' = mem /\ ble' = ble
        /\ FrameTaken /\ pc' = "ack" /\ CRC16_check /\ buf.crc16 = CRC_old
    BY <1>4 DEF FrameRepeated
  <2>2. Ack_recive_enable = 2
    <3>1. Ack_recive_enable \in 0..2 /\ Ack_recive_enable # 0
      BY <1>2, <2>1, Complete DEF TypeOK, WaitType
    <3>2. buf.crc16 # 0
      <4>1. mem[buf.data].pay \in Nat /\ buf.length \in Nat /\ buf.cmd \in Nat /\ buf.no_use \in Nat
        BY DEF TypeOK, MemoryType
      <4> QED
        BY <2>1, <4>1, CrcPositive DEF CRC16_check
    <3> QED
      BY <2>1, <3>1, <3>2 DEF Retries, CRCForgotten
  <2>3. Idle'
    BY <1>2, <2>1 DEF Idle
  <2>4. Stage' /\ RestOK'
    BY <1>2, <2>1, <2>2, <2>3 DEF Stage, RestOK, Busy
  <2>5. UNCHANGED Talk
    BY <1>2, <2>1 DEF Talk, mode
  <2>6. PhoneOK' /\ KeptOK' /\ ReplyMatches'
    BY <1>2, <2>1, <2>5, TalkCalmer DEF LinkOK
  <2> QED
    BY <2>4, <2>6 DEF LinkOK
<1>5. CASE FrameAccepted
  <2>1. /\ toStm' = toStm /\ Ack_recive_enable' = 0 /\ FrameTaken /\ CRC16_check
        /\ buf.no_use = uartnum /\ Uart_cmdprogam
    BY <1>5 DEF FrameAccepted
  <2>2. Clear(toStm)'
    BY <1>2, <2>1
  <2> QED
    BY <1>2, <2>1, <2>2, AfterFrame, ReplyTaken
<1> QED
  BY <1>1, <1>3, <1>4, <1>5 DEF Receive

(***************************************************************************)
(* The main loop: waiting.                                                 *)
(***************************************************************************)

\* An acknowledgement is complete; the STM32 accepts a change of status only.
LEMMA Acknowledged ==
  ASSUME TypeOK, LinkOK, ACK_recive_satus # 0
  PROVE  /\ queued = Nothing /\ Clear(toStm) /\ stmWork = Nothing /\ fromStm = <<>>
         /\ Waits /\ Busy
         /\ ACK_recive_satus = 1 => buf.data = "status"
<1>1. Answering
  BY DEF LinkOK, Stage, Idle, Queued, Sent, Refused, Working, Replying, Silent
<1>2. fromStm = <<>> /\ (ACK_recive_satus = 1 => buf.data = "status")
  <2>1. PICK ok \in {0, 1} :
          /\ ok = 0 => buf.data = "status"
          /\ fromStm = <<>> /\ ACK_recive_satus = ok + 1
    BY <1>1 DEF Answering
  <2> QED
    BY <2>1
<1> QED
  BY <1>1, <1>2 DEF Answering, Busy, Waits

\* One attempt more, or none.
LEMMA TriesAgain ==
  ASSUME Idle', Loaded', Again, Ack_recive_enable = 1, uart_send_flag = 0,
         Timeout1Sec_Uart' = "close"
  PROVE  Stage' /\ RestOK'
<1>1. CASE ACC_resend + 1 < MaxResend
  <2>1. uart_send_flag' = 1 /\ Ack_recive_enable' = 1
    BY <1>1 DEF Again
  <2> QED
    BY <2>1 DEF Stage, RestOK, Busy, Idle
<1>2. CASE ~(ACC_resend + 1 < MaxResend)
  <2>1. uart_send_flag' = 0 /\ Ack_recive_enable' = 0
    BY <1>2 DEF Again
  <2> QED
    BY <2>1, Rests
<1> QED
  BY <1>1, <1>2

LEMMA AckKeepsLink ==
  ASSUME TypeOK, Retries, LinkOK, AckFailed \/ AckSucceeded PROVE LinkOK'
<1>1. /\ ACK_recive_satus # 0 /\ Ack_recive_enable = 1
      /\ Timeout1Sec_Uart' = "close" /\ ACK_recive_satus' = 0 /\ uart_recive_All' = 0
      /\ olddata' = 0 /\ pc' = "nack"
      /\ UNCHANGED <<queued, buf, mem, uartnum, mode, Apdu_len_blekey, request, phone,
                     connected, stmWork, stmReply, toStm, fromStm>>
  BY DEF AckFailed, AckSucceeded, AckTaken, pass, memory, stm, line
<1>2. /\ queued = Nothing /\ Clear(toStm) /\ stmWork = Nothing /\ fromStm = <<>>
      /\ Waits /\ Busy
      /\ ACK_recive_satus = 1 => buf.data = "status"
  BY <1>1, Acknowledged
<1>3. Idle' /\ Loaded'
  BY <1>1, <1>2 DEF Idle, Silent, Loaded, Waits
<1>4. uart_send_flag = 0
  BY <1>2 DEF Waits
<1>5. CASE AckFailed
  <2>1. Again /\ ble' = ble
    BY <1>5 DEF AckFailed
  <2>2. Stage' /\ RestOK'
    BY <1>1, <1>3, <1>4, <2>1, TriesAgain
  <2>3. UNCHANGED Talk
    BY <1>1, <2>1 DEF Talk, mode
  <2>4. PhoneOK' /\ KeptOK' /\ ReplyMatches'
    BY <1>1, <1>2, <2>3, TalkCalmer DEF LinkOK
  <2> QED
    BY <2>2, <2>4 DEF LinkOK
<1>6. CASE AckSucceeded
  <2>1. /\ Ack_recive_enable' = 0 /\ uart_send_flag' = 0 /\ ACK_recive_satus = 1
        /\ IF Main_status = "blekey" THEN Send_bluetoothdata([kind |-> "ok", pay |-> 0])
                                     ELSE ble' = ble
    BY <1>4, <1>6 DEF AckSucceeded
  <2>2. Stage' /\ RestOK'
    BY <1>1, <1>3, <2>1, Rests
  <2>3. ~Busy'
    BY <2>1 DEF Busy
  <2>4. CASE Main_status # "blekey"
    <3>1. UNCHANGED Talk
      BY <1>1, <2>1, <2>4 DEF Talk, mode
    <3>2. PhoneOK' /\ KeptOK' /\ ReplyMatches'
      BY <1>1, <2>3, <3>1, TalkCalmer DEF LinkOK
    <3> QED
      BY <2>2, <3>2 DEF LinkOK
  <2>5. CASE Main_status = "blekey"
    <3>1. /\ phone.kind = "enter" /\ request = Nothing /\ Apdu_len_blekey = 0 /\ connected
          /\ stmReply = Nothing
      BY <1>2, <2>1, <2>5 DEF LinkOK, PhoneOK, KeptOK
    <3>2. ble' = [kind |-> "ok", pay |-> 0]
      BY <2>1, <2>5, <3>1 DEF Send_bluetoothdata
    <3>3. PhoneOK'
      BY <1>1, <2>3, <3>1, NothingIsNone DEF LinkOK, PhoneOK, mode
    <3>4. KeptOK'
      BY <1>1, <3>1 DEF KeptOK, ReplyIsNew
    <3>5. ReplyMatches'
      BY <3>2 DEF ReplyMatches
    <3> QED
      BY <2>2, <3>3, <3>4, <3>5 DEF LinkOK
  <2> QED
    BY <2>4, <2>5
<1> QED
  BY <1>5, <1>6

\* The timer is started, or a wait goes on.
LEMMA WaitGoesOn ==
  ASSUME LinkOK, UNCHANGED Place, UNCHANGED Talk, pc' \notin {"cmd", "send"},
         uart_send_flag = 0,
         \/ Timeout1Sec_Uart' = "open"
         \/ Timeout1Sec_Uart' = Timeout1Sec_Uart
  PROVE  LinkOK'
<1>1. Stage' /\ (Idle => Idle') /\ (Loaded => Loaded') /\ (Replying => Replying')
  BY PlaceKept DEF LinkOK
<1>2. /\ stmReply' = stmReply /\ uart_send_flag' = uart_send_flag
      /\ uartnum' = uartnum /\ Ack_recive_enable' = Ack_recive_enable /\ buf' = buf
  BY DEF Place
<1>3. RestOK'
  BY <1>1, <1>2 DEF LinkOK, RestOK, Busy, ReplyIsNew
<1> QED
  BY <1>1, <1>3, TalkKept DEF LinkOK

LEMMA AckAwaitedKeepsLink ==
  ASSUME TypeOK, Retries, LinkOK, AckAwaited PROVE LinkOK'
<1>1. /\ pc = "ack" /\ pc' = "nack" /\ Ack_recive_enable = 1
      /\ UNCHANGED <<queued, toStm, fromStm, stmWork, stmReply, rx, uartnum, buf, mem, phone,
                     mode, Apdu_len_blekey, air>>
  BY DEF AckAwaited, pass, memory, stm, line, air
<1>2. uart_send_flag = 0
  BY <1>1 DEF Retries, NoneFlagged
<1>3. UNCHANGED Talk
  BY <1>1 DEF Talk, mode, air
<1>4. CASE Timeout1Sec_Uart # "timeout"
  <2>1. UNCHANGED Place /\ Timeout1Sec_Uart' \in {"open", Timeout1Sec_Uart}
    BY <1>1, <1>4 DEF AckAwaited, Place, rx
  <2> QED
    BY <1>1, <1>2, <1>3, <2>1, WaitGoesOn
<1>5. CASE Timeout1Sec_Uart = "timeout"
  <2>1. Timeout1Sec_Uart' = "close" /\ Again
    BY <1>5 DEF AckAwaited
  <2>2. Idle /\ Loaded
    <3>1. Idle
      BY <1>5 DEF LinkOK, RestOK
    <3>2. ~Replying
      BY <3>1 DEF Idle, Silent, Replying, Coming
    <3> QED
      BY <1>1, <3>1, <3>2 DEF LinkOK, RestOK
  <2>3. Idle' /\ Loaded'
    <3>1. Idle'
      BY <1>1, <2>2 DEF Idle, Silent, rx
    <3>2. Loaded'
      BY <1>1, <2>2 DEF Loaded
    <3> QED
      BY <3>1, <3>2
  <2>4. Stage' /\ RestOK'
    BY <1>1, <1>2, <2>1, <2>3, TriesAgain
  <2>5. Busy
    BY <1>1 DEF Busy
  <2>6. PhoneOK' /\ KeptOK' /\ ReplyMatches'
    BY <1>1, <1>3, <2>5, TalkCalmer DEF LinkOK
  <2> QED
    BY <2>4, <2>6 DEF LinkOK
<1> QED
  BY <1>4, <1>5

LEMMA RefusalAwaitedKeepsLink ==
  ASSUME TypeOK, LinkOK, RefusalAwaited PROVE LinkOK'
<1>1. /\ pc' = "status" /\ Ack_recive_enable = 2
      /\ UNCHANGED <<queued, fromStm, stmWork, stmReply, rx, uart_send_flag, uartnum, buf, mem,
                     phone, mode, Apdu_len_blekey, air>>
  BY DEF RefusalAwaited, pass, memory, tx, stm, air
<1>2. uart_send_flag = 0 /\ buf.data = "apdu" /\ ReplyIsNew
  BY <1>1 DEF LinkOK, RestOK
<1>3. UNCHANGED Talk
  BY <1>1 DEF Talk, mode, air
<1>4. CASE Timeout1Sec_Uart # "timeout"
  <2>1. UNCHANGED Place /\ Timeout1Sec_Uart' \in {"open", Timeout1Sec_Uart}
    BY <1>1, <1>4 DEF RefusalAwaited, Place, rx
  <2> QED
    BY <1>1, <1>2, <1>3, <2>1, WaitGoesOn
<1>5. CASE Timeout1Sec_Uart = "timeout"
  <2>1. Timeout1Sec_Uart' = "close" /\ RefuseAgain
    BY <1>5 DEF RefusalAwaited
  <2>2. Idle
    BY <1>5 DEF LinkOK, RestOK
  <2>3. /\ queued' = Nothing /\ Clear(toStm) /\ stmWork' = Nothing /\ Silent'
        /\ uart_send_flag' = 0 /\ buf'.data = "apdu" /\ ReplyIsNew'
    BY <1>1, <1>2, <2>2 DEF Idle, Silent, rx, ReplyIsNew
  <2>4. Stage' /\ RestOK'
    BY <1>1, <2>1, <2>3, RefusesAgain
  <2>5. Busy
    BY <1>1 DEF Busy
  <2>6. PhoneOK' /\ KeptOK' /\ ReplyMatches'
    BY <1>1, <1>3, <2>5, TalkCalmer DEF LinkOK
  <2> QED
    BY <2>4, <2>6 DEF LinkOK
<1> QED
  BY <1>4, <1>5

LEMMA RepetitionKeepsLink ==
  ASSUME TypeOK, LinkOK, RepetitionTaken PROVE LinkOK'
<1>1. /\ pc' = "status" /\ Ack_recive_enable = 2 /\ uart_recive_All = 1
      /\ Timeout1Sec_Uart' = "close" /\ olddata' = 0 /\ uart_recive_All' = 0
      /\ UNCHANGED <<queued, fromStm, stmWork, stmReply, stm, uart_send_flag, uartnum, buf,
                     phone, mode, Apdu_len_blekey, request, connected>>
  BY DEF RepetitionTaken, pass, tx, stm
<1>2. /\ queued = Nothing /\ Clear(toStm) /\ stmWork = Nothing /\ fromStm = <<>>
      /\ uart_send_flag = 0 /\ ACK_recive_satus = 0 /\ buf.data = "apdu" /\ ReplyIsNew /\ Busy
  BY <1>1, Complete
<1>3. CASE CRC16_check /\ buf.no_use = uartnum
  <2>1. /\ ACK_recive_satus' = 0 /\ Ack_recive_enable' = 0 /\ Uart_cmdprogam
        /\ toStm' = Append(toStm, Confirmation)
    BY <1>3 DEF RepetitionTaken, Transmit, Confirmation
  <2>2. Clear(toStm)'
    BY <1>2, <2>1, OneMore, MessagesDiffer DEF TypeOK, LineType
  <2>3. Silent'
    BY <1>1, <1>2, <2>1 DEF Silent
  <2> QED
    BY <1>1, <1>3, <2>1, <2>2, <2>3, ReplyTaken
<1>4. CASE ~(CRC16_check /\ buf.no_use = uartnum)
  <2>1. /\ RefuseAgain /\ ACK_recive_satus' \in {0, ACK_recive_satus}
        /\ mem' = mem /\ ble' = ble
    BY <1>4 DEF RepetitionTaken
  <2>2. Silent' /\ queued' = Nothing /\ stmWork' = Nothing /\ uart_send_flag' = 0
        /\ buf'.data = "apdu" /\ ReplyIsNew'
    BY <1>1, <1>2, <2>1 DEF Silent, ReplyIsNew
  <2>3. Stage' /\ RestOK'
    BY <1>1, <1>2, <2>1, <2>2, RefusesAgain
  <2>4. UNCHANGED Talk
    BY <1>1, <2>1 DEF Talk, mode
  <2>5. PhoneOK' /\ KeptOK' /\ ReplyMatches'
    BY <1>1, <1>2, <2>1, <2>4, TalkCalmer DEF LinkOK
  <2> QED
    BY <2>3, <2>5 DEF LinkOK
<1> QED
  BY <1>3, <1>4

(***************************************************************************)
(* The main loop: the status handler and the slices.                       *)
(***************************************************************************)

\* A new command has a new number.
LEMMA NextNumber ==
  ASSUME TypeOK
  PROVE  (uartnum + 1) % NumMod # uartnum
<1>1. NumMod \in Nat \ {0, 1} /\ uartnum \in 0 .. NumMod - 1
  BY UartAssumption DEF TypeOK, TxType
<1>2. CASE uartnum + 1 < NumMod
  BY <1>1, <1>2
<1>3. CASE uartnum + 1 = NumMod
  <2>1. NumMod % NumMod = 0
    BY <1>1
  <2> QED
    BY <1>1, <1>3, <2>1
<1> QED
  BY <1>1, <1>2, <1>3

LEMMA StatusKeepsLink ==
  ASSUME TypeOK, NoStrayTimeout, LinkOK, Bluetooyhkeydisplay PROVE LinkOK'
<1>1. CASE NothingToDo
  BY <1>1, QuietSteps
<1>2. CASE SendApdu
  <2>1. /\ CmdSendUart(Apdu, "apdu", mem["apdu"].pay, (uartnum + 1) % NumMod)
        /\ Main_status = "blekey" /\ Apdu_len_blekey = 1 /\ Apdu_len_blekey' = 0
        /\ pc' = "slices"
        /\ UNCHANGED <<queued, rx, wait, mode, air, stm, line>>
    BY <1>2 DEF SendApdu, pass
  <2>2. /\ UNCHANGED <<Ack_recive_enable, Timeout1Sec_Uart, KEYwork_flag, Main_status,
                       uart_enable_flag, ble, request, phone, connected, stmWork, stmReply,
                       toStm, fromStm>>
        /\ uartnum' = (uartnum + 1) % NumMod
    BY <2>1 DEF wait, mode, air, stm, line, CmdSendUart
  <2>3. /\ phone.kind = "apdu" /\ mem["apdu"].pay = phone.pay /\ ble = Nothing /\ ~Busy
        /\ request = Nothing /\ connected /\ KEYwork_flag = 1 /\ uart_enable_flag = 1
        /\ ReplyIsNew /\ Idle /\ phone.pay \in Apdus
    BY <2>1 DEF LinkOK, PhoneOK, KeptOK, RestOK
  <2>4. Loaded' /\ buf'.data = "apdu" /\ uart_send_flag' = 1
    BY <2>1, <2>2, <2>3, CommandLoaded DEF Areas
  <2>5. Idle'
    BY <2>1, <2>2, <2>3 DEF Idle, Silent, rx
  <2>6. Ack_recive_enable' = 0 /\ Timeout1Sec_Uart' = "close"
    BY <2>2, <2>3 DEF Busy, NoStrayTimeout
  <2>7. Stage' /\ RestOK'
    BY <2>4, <2>5, <2>6, RestartedRests
  <2>8. PhoneOK'
    BY <2>1, <2>2, <2>3, <2>4 DEF LinkOK, PhoneOK
  <2>9. KeptOK'
    <3>1. stmReply' = Nothing \/ stmReply'.no # uartnum'
      BY <2>2, <2>3, NextNumber DEF ReplyIsNew
    <3>2. phone' # Nothing /\ ble' = Nothing /\ request' = Nothing
      BY <2>2, <2>3, NothingIsNone
    <3> QED
      BY <2>1, <2>4, <3>1, <3>2 DEF KeptOK
  <2>10. ReplyMatches'
    BY <2>2, <2>3, NothingIsNone DEF ReplyMatches
  <2> QED
    BY <2>7, <2>8, <2>9, <2>10 DEF LinkOK
<1>3. CASE PhoneIsGone
  BY <1>3 DEF PhoneIsGone, LinkOK, PhoneOK
<1> QED
  BY <1>1, <1>2, <1>3 DEF Bluetooyhkeydisplay

LEMMA SlicesKeepLink ==
  ASSUME TypeOK, LinkOK, uart_send_Bty PROVE LinkOK'
<1>1. /\ queued' = Nothing /\ pc' = "cmd"
      /\ UNCHANGED <<fromStm, stmWork, stmReply, rx, uart_send_flag, uartnum, buf, mem, phone,
                     Ack_recive_enable, Timeout1Sec_Uart, mode, Apdu_len_blekey, air>>
  BY DEF uart_send_Bty, memory, tx, wait, stm, air
<1>2. UNCHANGED Talk
  BY <1>1 DEF Talk, mode, air
<1>3. CASE queued = Nothing
  <2>1. UNCHANGED Place
    BY <1>1, <1>3 DEF uart_send_Bty, Place, rx
  <2> QED
    BY <1>1, <1>2, <1>3, <2>1, PassGoesOn
<1>4. CASE queued # Nothing
  <2>1. Queued
    BY <1>4 DEF LinkOK, Stage, Idle, Sent, Refused, Working, Answering, Replying
  <2>2. toStm' = Append(toStm, queued) /\ queued \in Frames
    BY <1>4 DEF uart_send_Bty, Transmit, TypeOK, PassType
  <2>3. Carries(toStm', queued)
    BY <2>1, <2>2, OneMore DEF TypeOK, LineType, Queued
  <2>4. Loaded' /\ Waits' /\ Silent'
    BY <1>1, <2>1 DEF Queued, Waits, Loaded, Silent, rx
  <2>5. Sent'
    <3>1. \A f : Current(f) => Current(f)'
      BY <1>1 DEF Current
    <3>2. \E f : Current(f)' /\ Carries(toStm', f)
      BY <2>1, <2>3, <3>1 DEF Queued
    <3> QED
      BY <1>1, <2>1, <2>4, <3>2 DEF Sent, Queued
  <2>6. RestOK'
    <3>1. ~Idle /\ uart_send_flag = 0 /\ Ack_recive_enable = 1
      BY <1>4, <2>1 DEF Idle, Queued, Waits
    <3> QED
      BY <1>1, <2>4, <3>1 DEF LinkOK, RestOK, Busy
  <2>7. PhoneOK' /\ KeptOK' /\ ReplyMatches'
    <3>1. Busy' => Busy
      BY <1>1 DEF Busy
    <3> QED
      BY <1>1, <1>2, <3>1, TalkCalmer DEF LinkOK
  <2> QED
    BY <2>5, <2>6, <2>7 DEF LinkOK, Stage
<1> QED
  BY <1>3, <1>4

LEMMA MainLoopKeepsLink ==
  ASSUME TypeOK, Retries, LinkOK, MainLoop PROVE LinkOK'
<1>1. NoStrayTimeout
  BY DEF Retries
<1>2. UartDataSendrecive => LinkOK'
  BY QuietSteps, SendKeepsLink, SuccessAckKeepsLink, ReceiveKeepsLink, AckKeepsLink,
     AckAwaitedKeepsLink, RefusalAwaitedKeepsLink, RepetitionKeepsLink
  DEF UartDataSendrecive
<1> QED
  BY <1>1, <1>2, CommandsKeepLink, StatusKeepsLink, SlicesKeepLink DEF MainLoop

(***************************************************************************)
(* The interrupts.                                                         *)
(***************************************************************************)

\* Something arrives: an acknowledgement or a reply is on its way.
LEMMA ByteExpected ==
  ASSUME LinkOK, fromStm # <<>>
  PROVE  /\ Answering \/ Replying
         /\ ~Idle /\ uart_send_flag = 0 /\ Ack_recive_enable # 0 /\ Busy
         /\ queued = Nothing /\ Clear(toStm) /\ stmWork = Nothing
<1>1. Answering \/ Replying
  BY DEF LinkOK, Stage, Idle, Queued, Sent, Refused, Working, Silent
<1> QED
  BY <1>1 DEF Answering, Replying, Waits, Busy, Idle, Silent

\* The first byte is taken.
LEMMA ByteTaken ==
  /\ \A a : Head(<<a>>) = a /\ Tail(<<a>>) = <<>>
  /\ \A a, b : Head(<<a, b>>) = a /\ Tail(<<a, b>>) = <<b>>
  /\ \A a, b, c : Head(<<a, b, c>>) = a /\ Tail(<<a, b, c>>) = <<b, c>>
  /\ \A a, b, c, d : Head(<<a, b, c, d>>) = a /\ Tail(<<a, b, c, d>>) = <<b, c, d>>
  /\ \A a, b, c, d, e : Head(<<a, b, c, d, e>>) = a /\ Tail(<<a, b, c, d, e>>) = <<b, c, d, e>>
  /\ \A a, b, c, d, e, f : Head(<<a, b, c, d, e, f>>) = a /\ Tail(<<a, b, c, d, e, f>>) = <<b, c, d, e, f>>
  /\ \A a, b, c, d, e, f, g : Head(<<a, b, c, d, e, f, g>>) = a /\ Tail(<<a, b, c, d, e, f, g>>) = <<b, c, d, e, f, g>>
  /\ \A a, b, c, d, e, f, g, h : Head(<<a, b, c, d, e, f, g, h>>) = a /\ Tail(<<a, b, c, d, e, f, g, h>>) = <<b, c, d, e, f, g, h>>
OBVIOUS

\* A byte of an acknowledgement.
LEMMA AckByteArrives ==
  ASSUME TypeOK, LinkOK, Answering, uart_event_handle
  PROVE  Answering' /\ UNCHANGED <<buf, mem>>
<1> DEFINE b == Head(fromStm)
<1>1. /\ fromStm # <<>> /\ fromStm' = Tail(fromStm)
      /\ \/ FirstByte(b) \/ SecondByte(b) \/ HeaderByte(b)
         \/ DataByte(b) \/ LateByte \/ AckByte(b)
      /\ UNCHANGED <<queued, toStm, stmWork, stmReply, uart_send_flag, uartnum,
                     Ack_recive_enable, phone>>
  BY DEF uart_event_handle, pass, tx, wait, air, stm
<1>2. Ack_recive_enable = 1
  BY DEF Answering, Waits
<1>3. PICK ok \in {0, 1} :
       /\ ok = 0 => buf.data = "status"
       /\ ACK_recive_satus = 0
       /\ \/ olddata = 0 /\ fromStm = <<S5A, A5, ok>>
          \/ olddata = 8 /\ fromStm = <<A5, ok>>
          \/ olddata = 9 /\ fromStm = <<ok>>
  BY <1>1 DEF Answering
<1>4. A5 # S5A
  BY DEF A5, S5A
<1>5. CASE olddata = 0
  <2>0. fromStm = <<S5A, A5, ok>>
    BY <1>3, <1>5
  <2>1. b = S5A /\ fromStm' = <<A5, ok>>
    BY <1>1, <2>0, ByteTaken
  <2> HIDE DEF b
  <2>2. FirstByte(b)
    BY <1>1, <1>5 DEF SecondByte, HeaderByte, DataByte, LateByte, AckByte
  <2>3. olddata' = 8 /\ UNCHANGED <<buf, mem, uart_recive_All, ACK_recive_satus>>
    BY <1>2, <1>4, <2>1, <2>2 DEF FirstByte, memory
  <2> QED
    BY <1>1, <1>3, <2>1, <2>3 DEF Answering, Waits, Loaded
<1>6. CASE olddata = 8
  <2>0. fromStm = <<A5, ok>>
    BY <1>3, <1>6
  <2>1. b = A5 /\ fromStm' = <<ok>>
    BY <1>1, <2>0, ByteTaken
  <2> HIDE DEF b
  <2>2. SecondByte(b)
    BY <1>1, <1>6 DEF FirstByte, HeaderByte, DataByte, LateByte, AckByte
  <2>3. olddata' = 9 /\ UNCHANGED <<buf, mem, uart_recive_All, ACK_recive_satus>>
    BY <1>6, <2>1, <2>2 DEF SecondByte, memory
  <2> QED
    BY <1>1, <1>3, <2>1, <2>3 DEF Answering, Waits, Loaded
<1>7. CASE olddata = 9
  <2>0. fromStm = <<ok>>
    BY <1>3, <1>7
  <2>1. b = ok /\ fromStm' = <<>>
    BY <1>1, <2>0, ByteTaken
  <2> HIDE DEF b
  <2>2. AckByte(b)
    BY <1>1, <1>7 DEF FirstByte, SecondByte, HeaderByte, DataByte, LateByte
  <2>3. ACK_recive_satus' = ok + 1 /\ olddata' = 9 /\ UNCHANGED <<buf, mem, uart_recive_All>>
    BY <1>7, <2>1, <2>2 DEF AckByte, memory
  <2> QED
    BY <1>1, <1>3, <2>1, <2>3 DEF Answering, Waits, Loaded
<1> QED
  BY <1>3, <1>5, <1>6, <1>7

\* A byte of a reply.
LEMMA ReplyByteComes ==
  ASSUME TypeOK, Replying, uart_event_handle, NEW n, NEW p, Coming(n, p)
  PROVE  /\ Coming(n, p)' /\ ACK_recive_satus' = 0 /\ buf'.data = buf.data
         /\ uart_recive_All' = 1 <=> olddata' = 7
<1> DEFINE b == Head(fromStm)
<1>1. /\ fromStm # <<>> /\ fromStm' = Tail(fromStm)
      /\ \/ FirstByte(b) \/ SecondByte(b) \/ HeaderByte(b)
         \/ DataByte(b) \/ LateByte \/ AckByte(b)
      /\ UNCHANGED <<queued, toStm, stmWork, stmReply, uart_send_flag, uartnum,
                     Ack_recive_enable, phone>>
  BY DEF uart_event_handle, pass, tx, wait, air, stm
<1>2. Coming(n, p)
  OBVIOUS
<1>3. Sum' = Sum
  BY <1>1 DEF Sum
<1>4. ASSUME Coming(n, p)', ACK_recive_satus' = 0, buf'.data = buf.data,
             uart_recive_All' = 1 <=> olddata' = 7
      PROVE  /\ Coming(n, p)' /\ ACK_recive_satus' = 0 /\ buf'.data = buf.data
             /\ uart_recive_All' = 1 <=> olddata' = 7
  BY <1>4
<1>5. buf \in [length : Nat, cmd : Nat, no_use : Nat, data : Areas, crc16 : Nat]
      /\ ACK_recive_satus = 0 /\ (uart_recive_All = 1 <=> olddata = 7)
      /\ uart_recive_All \in 0..1
  BY DEF TypeOK, MemoryType, Replying, RxType
<1>6. A5 = 165 /\ S5A = 90 /\ FrameLen = 4
  BY DEF A5, S5A, FrameLen
<1>7. CASE olddata = 0
  <2>0. fromStm = <<A5, S5A, 0, FrameLen, Apdu, n, p, Sum>>
    BY <1>2, <1>7 DEF Coming
  <2>1. b = A5 /\ fromStm' = <<S5A, 0, FrameLen, Apdu, n, p, Sum>>
    BY <1>1, <2>0, ByteTaken
  <2> HIDE DEF b
  <2>2. FirstByte(b)
    BY <1>1, <1>7 DEF SecondByte, HeaderByte, DataByte, LateByte, AckByte
  <2>3. olddata' = 1 /\ UNCHANGED <<buf, uart_recive_All, ACK_recive_satus>>
    BY <2>1, <2>2 DEF FirstByte, memory
  <2> QED
    BY <1>3, <1>4, <1>5, <1>7, <2>1, <2>3 DEF Coming
<1>8. CASE olddata = 1
  <2>0. fromStm = <<S5A, 0, FrameLen, Apdu, n, p, Sum>>
    BY <1>2, <1>8 DEF Coming
  <2>1. b = S5A /\ fromStm' = <<0, FrameLen, Apdu, n, p, Sum>>
    BY <1>1, <2>0, ByteTaken
  <2> HIDE DEF b
  <2>2. SecondByte(b)
    BY <1>1, <1>8 DEF FirstByte, HeaderByte, DataByte, LateByte, AckByte
  <2>3. olddata' = 2 /\ UNCHANGED <<buf, uart_recive_All, ACK_recive_satus>>
    BY <1>8, <2>1, <2>2 DEF SecondByte, memory
  <2> QED
    BY <1>3, <1>4, <1>5, <1>8, <2>1, <2>3 DEF Coming
<1>9. ASSUME olddata \in 2 .. 5
      PROVE  /\ HeaderByte(b) /\ olddata' = olddata + 1
             /\ UNCHANGED <<uart_recive_All, ACK_recive_satus>> /\ buf'.data = buf.data
             /\ uart_recive_All = 0
  <2>1. HeaderByte(b)
    BY <1>1, <1>9 DEF FirstByte, SecondByte, DataByte, LateByte, AckByte
  <2> HIDE DEF b
  <2> QED
    BY <1>5, <1>9, <2>1 DEF HeaderByte
<1>10. CASE olddata = 2
  <2>0. fromStm = <<0, FrameLen, Apdu, n, p, Sum>>
    BY <1>2, <1>10 DEF Coming
  <2>1. b = 0 /\ fromStm' = <<FrameLen, Apdu, n, p, Sum>>
    BY <1>1, <2>0, ByteTaken
  <2>2. HeaderByte(b) /\ olddata' = 3 /\ ACK_recive_satus' = 0 /\ buf'.data = buf.data
        /\ uart_recive_All' = 0
    BY <1>5, <1>9, <1>10
  <2> HIDE DEF b
  <2>3. buf' = [buf EXCEPT !.length = (b % 256) * 256]
    BY <1>10, <2>2 DEF HeaderByte
  <2>4. (0 % 256) * 256 = 0
    OBVIOUS
  <2>5. buf'.length = 0
    BY <1>5, <2>1, <2>3, <2>4
  <2> QED
    BY <1>3, <1>4, <2>1, <2>2, <2>5 DEF Coming
<1>11. CASE olddata = 3
  <2>0. fromStm = <<FrameLen, Apdu, n, p, Sum>> /\ buf.length = 0
    BY <1>2, <1>11 DEF Coming
  <2>1. b = 4 /\ fromStm' = <<Apdu, n, p, Sum>>
    BY <1>1, <1>6, <2>0, ByteTaken
  <2>2. HeaderByte(b) /\ olddata' = 4 /\ ACK_recive_satus' = 0 /\ buf'.data = buf.data
        /\ uart_recive_All' = 0
    BY <1>5, <1>9, <1>11
  <2> HIDE DEF b
  <2>3. buf' = [buf EXCEPT !.length = @ + (b % 256)]
    BY <1>11, <2>2 DEF HeaderByte
  <2>4. buf'.length = FrameLen
    BY <1>5, <1>6, <2>0, <2>1, <2>3
  <2> QED
    BY <1>3, <1>4, <2>1, <2>2, <2>4 DEF Coming
<1>12. CASE olddata = 4
  <2>0. fromStm = <<Apdu, n, p, Sum>> /\ buf.length = FrameLen
    BY <1>2, <1>12 DEF Coming
  <2>1. b = Apdu /\ fromStm' = <<n, p, Sum>>
    BY <1>1, <2>0, ByteTaken
  <2>2. HeaderByte(b) /\ olddata' = 5 /\ ACK_recive_satus' = 0 /\ buf'.data = buf.data
        /\ uart_recive_All' = 0
    BY <1>5, <1>9, <1>12
  <2> HIDE DEF b
  <2>3. buf' = [buf EXCEPT !.cmd = b]
    BY <1>12, <2>2 DEF HeaderByte
  <2>4. buf'.length = FrameLen /\ buf'.cmd = Apdu
    BY <1>5, <2>0, <2>1, <2>3
  <2> QED
    BY <1>3, <1>4, <2>1, <2>2, <2>4 DEF Coming
<1>13. CASE olddata = 5
  <2>0. fromStm = <<n, p, Sum>> /\ buf.length = FrameLen /\ buf.cmd = Apdu
    BY <1>2, <1>13 DEF Coming
  <2>1. fromStm' = <<p, Sum>>
    BY <1>1, <2>0, ByteTaken
  <2>2. HeaderByte(b) /\ olddata' = 6 /\ ACK_recive_satus' = 0 /\ buf'.data = buf.data
        /\ uart_recive_All' = 0
    BY <1>5, <1>9, <1>13
  <2> HIDE DEF b
  <2>3. buf' = [buf EXCEPT !.no_use = b] /\ uart_recive_l' = 0
    BY <1>13, <2>2 DEF HeaderByte
  <2>4. buf'.length = FrameLen /\ buf'.cmd = Apdu
    BY <1>5, <2>0, <2>1, <2>3
  <2> QED
    BY <1>3, <1>4, <2>1, <2>2, <2>3, <2>4 DEF Coming
<1>14. CASE olddata = 6
  <2>1. DataByte(b) /\ ACK_recive_satus' = 0
    BY <1>1, <1>5, <1>14 DEF FirstByte, SecondByte, HeaderByte, LateByte, AckByte, DataByte
  <2>2. buf.length = FrameLen /\ buf.cmd = Apdu
    BY <1>2, <1>14 DEF Coming
  <2>3. CASE uart_recive_l = 0
    <3>0. fromStm = <<p, Sum>>
      BY <1>2, <1>14, <2>3 DEF Coming
    <3>1. fromStm' = <<Sum>>
      BY <1>1, <3>0, ByteTaken
    <3> HIDE DEF b
    <3>2. uart_recive_l' = 1 /\ olddata' = 6 /\ UNCHANGED <<buf, uart_recive_All>>
      BY <1>6, <1>14, <2>1, <2>2, <2>3 DEF DataByte
    <3> QED
      BY <1>3, <1>4, <1>5, <1>14, <2>1, <2>2, <3>1, <3>2 DEF Coming
  <2>4. CASE uart_recive_l # 0
    <3>0. fromStm = <<Sum>> /\ uart_recive_l = 1
      BY <1>2, <1>14, <2>4 DEF Coming
    <3>1. fromStm' = <<>> /\ b = Sum
      BY <1>1, <3>0, ByteTaken
    <3> HIDE DEF b
    <3>2. /\ uart_recive_l' = 2 /\ olddata' = 7 /\ uart_recive_All' = 1
          /\ buf' = [buf EXCEPT !.crc16 = b]
      BY <1>6, <1>14, <2>1, <2>2, <3>0, <3>1 DEF DataByte
    <3>3. buf'.length = FrameLen /\ buf'.cmd = Apdu /\ buf'.data = buf.data /\ buf'.crc16 = Sum
      BY <1>5, <2>2, <3>1, <3>2
    <3> QED
      BY <1>3, <1>4, <2>1, <3>1, <3>2, <3>3 DEF Coming
  <2> QED
    BY <2>3, <2>4
<1>15. olddata \in {0, 1, 2, 3, 4, 5, 6}
  BY <1>1, <1>2 DEF Coming
<1> QED
  BY <1>7, <1>8, <1>10, <1>11, <1>12, <1>13, <1>14, <1>15

LEMMA ReplyByteArrives ==
  ASSUME TypeOK, LinkOK, Replying, uart_event_handle
  PROVE  Replying' /\ buf'.data = buf.data
<1>1. UNCHANGED <<queued, toStm, stmWork, stmReply, uart_send_flag, uartnum,
                  Ack_recive_enable, phone>>
  BY DEF uart_event_handle, pass, tx, wait, air, stm
<1>2. PICK n \in {uartnum, 256}, p \in {Reply(phone.pay), 256} : Coming(n, p)
  BY DEF Replying
<1>3. /\ Coming(n, p)' /\ ACK_recive_satus' = 0 /\ buf'.data = buf.data
      /\ uart_recive_All' = 1 <=> olddata' = 7
  BY <1>2, ReplyByteComes
<1>4. n \in {uartnum, 256}' /\ p \in {Reply(phone.pay), 256}'
  BY <1>1, <1>2
<1> QED
  BY <1>1, <1>3, <1>4 DEF Replying, ReplyIsNew

LEMMA InterruptKeepsLink ==
  ASSUME TypeOK, LinkOK, uart_event_handle PROVE LinkOK'
<1>1. /\ fromStm # <<>>
      /\ UNCHANGED <<pc, queued, toStm, stmWork, stmReply, uart_send_flag, uartnum,
                     Ack_recive_enable, Timeout1Sec_Uart, phone, mode, Apdu_len_blekey, air>>
  BY DEF uart_event_handle, pass, tx, wait, air, stm
<1>2. /\ Answering \/ Replying
      /\ ~Idle /\ uart_send_flag = 0 /\ Ack_recive_enable # 0 /\ Busy
      /\ queued = Nothing
  BY <1>1, ByteExpected
<1>3. UNCHANGED Talk
  BY <1>1 DEF Talk, mode, air
<1>4. Busy'
  BY <1>1, <1>2 DEF Busy
<1>5. CASE Answering
  <2>1. Answering' /\ UNCHANGED <<buf, mem>>
    BY <1>5, AckByteArrives
  <2>2. RestOK'
    BY <1>1, <1>2, <1>4, <2>1 DEF LinkOK, RestOK, Answering, Waits, ReplyIsNew
  <2>3. PhoneOK' /\ KeptOK' /\ ReplyMatches'
    BY <1>1, <1>2, <1>3, <2>1, TalkCalmer DEF LinkOK
  <2> QED
    BY <2>1, <2>2, <2>3 DEF LinkOK, Stage
<1>6. CASE Replying
  <2>1. Replying' /\ buf'.data = "apdu" /\ buf.data = "apdu"
    BY <1>6, ReplyByteArrives DEF Replying
  <2>2. RestOK'
    BY <1>1, <1>2, <1>4, <2>1 DEF LinkOK, RestOK, Replying
  <2>3. request = Nothing /\ Apdu_len_blekey = 0
    BY <1>2, <2>1 DEF LinkOK, PhoneOK
  <2>4. PhoneOK'
    BY <1>1, <1>2, <1>3, <2>1, <2>3 DEF LinkOK, PhoneOK, Talk
  <2>5. KeptOK'
    BY <1>1, <1>2, <1>3, <2>1 DEF LinkOK, KeptOK, Talk, ReplyIsNew
  <2>6. ReplyMatches'
    BY <1>1, <1>3 DEF LinkOK, ReplyMatches, Talk
  <2> QED
    BY <2>1, <2>2, <2>4, <2>5, <2>6 DEF LinkOK, Stage
<1> QED
  BY <1>2, <1>5, <1>6

\* The timer of a patient line expires only at rest.
LEMMA TimerKeepsLink ==
  ASSUME TypeOK, Framed, LinkOK, TimeOutUart PROVE LinkOK'
<1>1. /\ Timeout1Sec_Uart = "open" /\ Timeout1Sec_Uart' = "timeout"
      /\ toStm = <<>> /\ fromStm = <<>> /\ stmWork = Nothing /\ queued = Nothing
      /\ uart_recive_All = 0 /\ ACK_recive_satus = 0
      /\ UNCHANGED <<pc, pass, rx, memory, tx, Ack_recive_enable, mode, Apdu_len_blekey, air,
                     stm, line>>
  BY DEF TimeOutUart, Framed
<1>2. UNCHANGED Place /\ UNCHANGED Talk
  BY <1>1 DEF pass, rx, memory, tx, mode, air, stm, line, Place, Talk
<1>3. Idle
  <2>1. \A f : ~Carries(toStm, f)
    BY <1>1 DEF Carries
  <2>2. ~Sent /\ ~Refused
    BY <2>1 DEF Sent, Refused
  <2>3. ~Queued /\ ~Working
    BY <1>1, NothingIsNone DEF Queued, Working
  <2>4. ~Answering
    BY <1>1 DEF Answering
  <2>5. ~Replying
    BY <1>1 DEF Replying, Coming
  <2> QED
    BY <2>2, <2>3, <2>4, <2>5 DEF LinkOK, Stage
<1>4. Stage' /\ Idle' /\ (Loaded => Loaded')
  BY <1>2, <1>3, PlaceKept DEF LinkOK
<1>5. ~Replying
  BY <1>1 DEF Replying, Coming
<1>6. RestOK'
  <2>1. /\ stmReply' = stmReply /\ uart_send_flag' = uart_send_flag /\ queued' = queued
        /\ uartnum' = uartnum /\ Ack_recive_enable' = Ack_recive_enable /\ buf' = buf
    BY <1>2 DEF Place
  <2> QED
    BY <1>1, <1>4, <1>5, <2>1 DEF LinkOK, RestOK, Busy, ReplyIsNew
<1> QED
  BY <1>2, <1>4, <1>6, TalkKept DEF LinkOK

(***************************************************************************)
(* The phone.                                                              *)
(***************************************************************************)

\* The area of the APDUs and the phone matter only to an APDU in work.
LEMMA PhoneElsewhere ==
  ASSUME TypeOK, LinkOK, ~(Busy /\ buf.data = "apdu"), mem'["status"] = mem["status"],
         UNCHANGED <<pc, queued, toStm, fromStm, stmWork, stmReply, rx, uart_send_flag, uartnum,
                     Ack_recive_enable, Timeout1Sec_Uart, buf>>
  PROVE  Stage' /\ RestOK'
<1>1. Busy' = Busy
  BY DEF Busy
<1>2. Idle => Idle'
  BY DEF Idle, Silent, rx
<1>3. CASE ~Busy
  <2>1. Idle /\ uart_send_flag = 0 /\ Ack_recive_enable = 0 /\ Timeout1Sec_Uart' = Timeout1Sec_Uart
    BY <1>3 DEF LinkOK, RestOK, Busy, TypeOK, TxType
  <2> QED
    BY <1>1, <1>2, <1>3, <2>1 DEF Stage, LinkOK, RestOK
<1>4. CASE Busy
  <2>1. buf.data = "status" /\ buf'.data = "status"
    BY <1>4 DEF TypeOK, MemoryType, Areas
  <2>2. Loaded => Loaded'
    BY <2>1 DEF Loaded
  <2>3. Waits => Waits'
    BY <2>2 DEF Waits
  <2>4. \A f : Current(f) => Current(f)'
    BY <2>1 DEF Current
  <2>5. ~Refused /\ ~Working /\ ~Replying /\ Ack_recive_enable # 2
    BY <2>1 DEF LinkOK, RestOK, Refused, Working, Replying
  <2>6. Queued => Queued'
    BY <2>3, <2>4 DEF Queued, Silent, rx
  <2>7. Sent => Sent'
    BY <2>3, <2>4 DEF Sent, Silent, rx
  <2>8. Answering => Answering'
    BY <2>1, <2>3 DEF Answering, rx
  <2>9. Stage'
    BY <1>2, <2>5, <2>6, <2>7, <2>8 DEF LinkOK, Stage
  <2>10. RestOK'
    BY <1>1, <1>2, <1>4, <2>2, <2>5 DEF LinkOK, RestOK
  <2> QED
    BY <2>9, <2>10
<1> QED
  BY <1>3, <1>4

LEMMA PhoneKeepsLink == ASSUME TypeOK, LinkOK, Phone, downs' = 0 PROVE LinkOK'
<1>1. CASE PhoneAsks
  <2>1. /\ phone = Nothing /\ ble = Nothing /\ request = Nothing
        /\ UNCHANGED <<pc, queued, toStm, fromStm, stmWork, stmReply, rx, uart_send_flag, uartnum,
                       Ack_recive_enable, Timeout1Sec_Uart, buf, mode, Apdu_len_blekey, ble,
                       connected>>
    BY <1>1 DEF PhoneAsks, pass, tx, wait, stm, line
  <2>2. PICK r \in {[kind |-> "enter", pay |-> 0], [kind |-> "leave", pay |-> 0]}
                   \union [kind : {"apdu"}, pay : Apdus] :
           /\ request' = r /\ phone' = r
           /\ mem' = [mem EXCEPT !["apdu"] = [pay |-> r.pay, crc |-> BleCrc]]
    BY <1>1 DEF PhoneAsks
  <2>3. mem'["status"] = mem["status"] /\ mem'["apdu"].pay = r.pay
    BY <2>2 DEF TypeOK, MemoryType, Areas
  <2>4. r.kind = "apdu" => r.pay \in Apdus
    BY <2>2
  <2>5. ~(Busy /\ buf.data = "apdu") /\ ~(Busy /\ buf.data = "status" /\ KEYwork_flag = 1)
        /\ Apdu_len_blekey = 0
    BY <2>1, NothingIsNone DEF LinkOK, PhoneOK, TypeOK
  <2>6. Stage' /\ RestOK'
    BY <2>1, <2>3, <2>5, PhoneElsewhere
  <2>7. Busy' = Busy
    BY <2>1 DEF Busy
  <2>8. PhoneOK'
    BY <2>1, <2>2, <2>3, <2>4, <2>5, <2>7 DEF LinkOK, PhoneOK, mode
  <2>9. KeptOK'
    BY <2>1, <2>5, <2>7 DEF LinkOK, KeptOK, ReplyIsNew
  <2>10. ReplyMatches'
    BY <2>1, NothingIsNone DEF ReplyMatches
  <2> QED
    BY <2>6, <2>8, <2>9, <2>10 DEF LinkOK
<1>2. CASE PhoneGets
  <2>1. /\ ble # Nothing /\ ble' = Nothing /\ phone' = Nothing
        /\ UNCHANGED <<pc, queued, toStm, fromStm, stmWork, stmReply, rx, uart_send_flag, uartnum,
                       Ack_recive_enable, Timeout1Sec_Uart, buf, mem, mode, Apdu_len_blekey,
                       request, connected>>
    BY <1>2 DEF PhoneGets, pass, memory, tx, wait, stm, line
  <2>2. ~(Busy /\ buf.data = "apdu") /\ ~(Busy /\ buf.data = "status" /\ KEYwork_flag = 1)
        /\ request = Nothing /\ Apdu_len_blekey = 0
    BY <2>1 DEF LinkOK, PhoneOK, TypeOK
  <2>3. Stage' /\ RestOK'
    BY <2>1, <2>2, PhoneElsewhere
  <2>4. Busy' = Busy
    BY <2>1 DEF Busy
  <2>5. PhoneOK'
    BY <2>1, <2>2, <2>4, NothingIsNone DEF LinkOK, PhoneOK, mode
  <2>6. KeptOK'
    BY <2>1, <2>2, <2>4 DEF LinkOK, KeptOK, ReplyIsNew
  <2>7. ReplyMatches'
    BY <2>1, NothingIsNone DEF ReplyMatches
  <2> QED
    BY <2>3, <2>5, <2>6, <2>7 DEF LinkOK
<1>3. ~Disconnect
  BY DEF Disconnect, TypeOK
<1>4. ~Connect
  BY DEF Connect, LinkOK, PhoneOK
<1> QED
  BY <1>1, <1>2, <1>3, <1>4 DEF Phone

(***************************************************************************)
(* The STM32.                                                              *)
(***************************************************************************)

LEMMA NotBoth ==
  ASSUME NEW s, NEW f, Carries(s, f), f # Confirmation PROVE ~Clear(s)
  BY DEF Carries, Clear

\* Bytes for an open UART on a silent line.
LEMMA BytesSent ==
  ASSUME NEW bytes \in Seq(Nat), StmSends(bytes), fromStm = <<>>, uart_enable_flag = 1
  PROVE  fromStm' = bytes
<1>1. fromStm' = <<>> \o bytes
  BY DEF StmSends
<1> QED
  BY <1>1

\* The reply is sent, again perhaps.
LEMMA ReplySent ==
  ASSUME TypeOK, NEW r, r.no = uartnum, r.pay = Reply(phone.pay), phone.pay \in Apdus,
         StmSends(ReplyBytes(r)), fromStm = <<>>, uart_enable_flag = 1, olddata = 0,
         UNCHANGED <<olddata, phone, uartnum>>
  PROVE  /\ Coming(uartnum, Reply(phone.pay))'
         /\ \E n \in {uartnum, 256}', p \in {Reply(phone.pay), 256}' : Coming(n, p)'
<1>1. r.no \in Nat /\ r.pay \in Nat
  <2>1. phone.pay \in Nat
    BY PayloadType
  <2>2. uartnum \in Nat
    BY UartAssumption DEF TypeOK, TxType
  <2> QED
    BY <2>1, <2>2 DEF Reply
<1>2. fromStm' = ReplyBytes(r)
  BY <1>1, ReplyBytesType, BytesSent
<1>3. ReplyBytes(r) = <<A5, S5A, 0, FrameLen, Apdu, uartnum, Reply(phone.pay), Sum>>
  BY DEF ReplyBytes, Sum
<1>4. Sum' = Sum
  BY DEF Sum
<1>5. Coming(uartnum, Reply(phone.pay))'
  BY <1>2, <1>3, <1>4 DEF Coming
<1> QED
  BY <1>5

LEMMA ConfirmationReceived ==
  ASSUME TypeOK, LinkOK, StmReceives, Head(toStm) = Confirmation PROVE LinkOK'
<1>1. /\ toStm # <<>> /\ toStm' = Tail(toStm)
      /\ stmReply' = Nothing /\ stmWork' = stmWork /\ fromStm' = fromStm
      /\ UNCHANGED <<pc, queued, rx, uart_send_flag, uartnum, Ack_recive_enable,
                     Timeout1Sec_Uart, buf, mem, phone, mode, Apdu_len_blekey, air>>
  <2>1. /\ toStm # <<>> /\ toStm' = Tail(toStm) /\ StmTakes(Confirmation)
        /\ UNCHANGED <<pc, queued, rx, uart_send_flag, uartnum, Ack_recive_enable,
                       Timeout1Sec_Uart, buf, mem, phone, mode, Apdu_len_blekey, air>>
    BY DEF StmReceives, pass, memory, tx, wait, air
  <2>2. stmReply' = Nothing /\ UNCHANGED <<stmWork, fromStm>>
    BY <2>1, MessagesDiffer DEF StmTakes
  <2> QED
    BY <2>1, <2>2
<1>2. /\ olddata' = olddata /\ uart_recive_l' = uart_recive_l
      /\ uart_recive_All' = uart_recive_All /\ ACK_recive_satus' = ACK_recive_satus
  BY <1>1 DEF rx
<1>3. Clear(toStm) => Clear(toStm)'
  BY <1>1, FirstTaken DEF TypeOK, LineType
<1>4. \A f : Carries(toStm, f) /\ f # Confirmation => Carries(toStm', f)
  BY <1>1, FirstTaken DEF TypeOK, LineType
<1>5. Silent => Silent'
  BY <1>1, <1>2 DEF Silent
<1>6. Idle => Idle'
  BY <1>1, <1>3, <1>5 DEF Idle
<1>7. Loaded => Loaded'
  BY <1>1 DEF Loaded
<1>8. Waits => Waits'
  BY <1>1, <1>7 DEF Waits
<1>9. \A f : Current(f) => Current(f)' /\ f # Confirmation
  BY <1>1, MessagesDiffer DEF Current
<1>10. Queued => Queued'
  BY <1>1, <1>3, <1>5, <1>8, <1>9 DEF Queued
<1>11. Sent => Sent'
  <2>1. (\E f : Current(f) /\ Carries(toStm, f)) => \E f : Current(f)' /\ Carries(toStm', f)
    BY <1>4, <1>9
  <2> QED
    BY <1>1, <1>5, <1>8, <2>1 DEF Sent
<1>12. Refused => Refused'
  <2>1. Carries(toStm, Refusal) => Carries(toStm', Refusal)
    BY <1>4, MessagesDiffer
  <2> QED
    BY <1>1, <1>5, <2>1 DEF Refused, Refusal
<1>13. Working => Working'
  BY <1>1, <1>3, <1>5, <1>8 DEF Working
<1>14. Answering => Answering'
  BY <1>1, <1>2, <1>3, <1>8 DEF Answering
<1>15. Replying => Replying'
  <2>1. Sum' = Sum
    BY <1>1 DEF Sum
  <2>2. \A n, p : Coming(n, p) => Coming(n, p)'
    BY <1>1, <1>2, <2>1 DEF Coming
  <2> QED
    BY <1>1, <1>2, <1>3, <2>2 DEF Replying, ReplyIsNew
<1>16. Stage'
  BY <1>6, <1>10, <1>11, <1>12, <1>13, <1>14, <1>15 DEF LinkOK, Stage
<1>17. RestOK'
  BY <1>1, <1>6, <1>7, <1>15 DEF LinkOK, RestOK, Busy, ReplyIsNew
<1>18. PhoneOK'
  BY <1>1 DEF LinkOK, PhoneOK, Busy, mode, air
<1>19. KeptOK'
  BY <1>1 DEF KeptOK, ReplyIsNew
<1>20. ReplyMatches'
  BY <1>1 DEF LinkOK, ReplyMatches, air
<1> QED
  BY <1>16, <1>17, <1>18, <1>19, <1>20 DEF LinkOK

\* What a step of the STM32 leaves to be shown: where the message is then.
LEMMA StmStep ==
  ASSUME LinkOK, Stage', ~Idle, Busy,
         Ack_recive_enable = 1 => Loaded,
         \/ stmReply' = stmReply
         \/ stmReply' = Nothing
         \/ stmReply'.no = uartnum /\ stmReply'.pay = Reply(phone.pay) /\ buf.data = "apdu",
         UNCHANGED <<pc, queued, uart_send_flag, uartnum, Ack_recive_enable,
                     Timeout1Sec_Uart, buf, mem, phone, mode, Apdu_len_blekey, air>>
  PROVE  LinkOK'
<1>1. Busy' = Busy
  BY DEF Busy
<1>2. Loaded => Loaded'
  BY DEF Loaded
<1>3. ReplyIsNew => ReplyIsNew'
  BY DEF ReplyIsNew
<1>4. RestOK'
  BY <1>1, <1>2, <1>3 DEF LinkOK, RestOK
<1>5. PhoneOK'
  BY <1>1 DEF LinkOK, PhoneOK, mode, air
<1>6. KeptOK'
  <2>1. Busy' /\ buf'.data = "apdu" /\ stmReply' # Nothing /\ stmReply'.no = uartnum'
          => stmReply'.pay = Reply(phone'.pay)
    BY <1>1 DEF LinkOK, KeptOK
  <2>2. Busy' /\ buf'.data = "status" => stmReply' = Nothing
    BY <1>1 DEF LinkOK, KeptOK
  <2>3. (phone' = Nothing \/ ble' # Nothing \/ request' # Nothing \/ Apdu_len_blekey' = 1)
          => ReplyIsNew'
    BY <1>3 DEF LinkOK, KeptOK, air
  <2> QED
    BY <2>1, <2>2, <2>3 DEF KeptOK
<1>7. ReplyMatches'
  BY DEF LinkOK, ReplyMatches, air
<1> QED
  BY <1>4, <1>5, <1>6, <1>7 DEF LinkOK

\* The command arrives.
LEMMA CommandReceived ==
  ASSUME TypeOK, LinkOK, StmReceives, Head(toStm) # Confirmation, Sent PROVE LinkOK'
<1> DEFINE m == Head(toStm)
<1>1. /\ toStm # <<>> /\ toStm' = Tail(toStm) /\ StmTakes(m)
      /\ UNCHANGED <<pc, queued, rx, uart_send_flag, uartnum, Ack_recive_enable,
                     Timeout1Sec_Uart, buf, mem, phone, mode, Apdu_len_blekey, air>>
  BY DEF StmReceives, pass, memory, tx, wait, air
<1>2. UNCHANGED <<olddata, uart_recive_l, uart_recive_All, ACK_recive_satus>>
  BY <1>1 DEF rx
<1>3. PICK f : Current(f) /\ Carries(toStm, f)
  BY DEF Sent
<1>4. f # Confirmation /\ f.kind = "frame"
  BY <1>3, MessagesDiffer DEF Current
<1>5. m = f /\ Clear(toStm')
  BY <1>1, <1>3, <1>4, FirstTaken DEF TypeOK, LineType
<1> HIDE DEF m
<1>6. /\ queued = Nothing /\ Waits /\ stmWork = Nothing /\ fromStm = <<>>
      /\ olddata = 0 /\ uart_recive_All = 0 /\ ACK_recive_satus = 0
      /\ Ack_recive_enable = 1 /\ uart_send_flag = 0 /\ Loaded /\ Busy
  BY DEF Sent, Waits, Busy, Silent
<1>7. ~Idle
  BY <1>3, <1>4, NotBoth DEF Idle
<1>8. /\ uart_enable_flag = 1
      /\ buf.data = "apdu" => phone.kind = "apdu" /\ phone.pay \in Apdus
  BY <1>6 DEF LinkOK, PhoneOK, TypeOK, ModeType
<1>9. Waits'
  BY <1>1, <1>6 DEF Waits, Loaded
<1>10. /\ m.kind = "frame" /\ m.no = uartnum /\ m.cmd = buf.cmd /\ m.pay = mem[buf.data].pay
  BY <1>3, <1>5 DEF Current
<1>11. ASSUME NEW ok \in {0, 1}, fromStm' = <<S5A, A5, ok>>, ok = 0 => buf.data = "status",
              stmWork' = Nothing
       PROVE  Stage'
  BY <1>1, <1>2, <1>5, <1>6, <1>9, <1>11 DEF Answering, Stage
<1>12. CASE ~Whole(m)
  <2>1. StmSends(AckBytes(FALSE)) /\ stmWork' = stmWork /\ stmReply' = stmReply
    BY <1>1, <1>10, <1>12 DEF StmTakes, stm
  <2>2. AckBytes(FALSE) \in Seq(Nat) /\ AckBytes(FALSE) = <<S5A, A5, 1>>
    BY AckBytesType DEF AckBytes
  <2>3. fromStm' = <<S5A, A5, 1>>
    BY <1>6, <1>8, <2>1, <2>2, BytesSent
  <2>4. Stage'
    BY <1>6, <1>11, <2>1, <2>3
  <2> QED
    BY <1>1, <1>6, <1>7, <2>1, <2>4, StmStep
<1>13. CASE Whole(m) /\ m.cmd = Change
  <2>0. m.cmd # Apdu /\ m.kind # "ack"
    BY <1>10, <1>13 DEF Apdu, Change
  <2>1. StmSends(AckBytes(TRUE)) /\ stmWork' = Nothing /\ stmReply' = Nothing
    <3>1. \/ ~Whole(m)
          \/ StmSends(AckBytes(TRUE)) /\ stmWork' = Nothing /\ stmReply' = Nothing
      BY <1>1, <2>0, ZenonT(30) DEF StmTakes
    <3> QED
      BY <1>13, <3>1
  <2>2. AckBytes(TRUE) \in Seq(Nat) /\ AckBytes(TRUE) = <<S5A, A5, 0>>
    BY AckBytesType DEF AckBytes
  <2>3. fromStm' = <<S5A, A5, 0>>
    BY <1>6, <1>8, <2>1, <2>2, BytesSent
  <2>4. buf.data = "status"
    BY <1>6, <1>10, <1>13 DEF Loaded, Apdu, Change
  <2>5. Stage'
    BY <1>11, <2>1, <2>3, <2>4
  <2> QED
    BY <1>1, <1>6, <1>7, <2>1, <2>5, StmStep
<1>14. CASE Whole(m) /\ m.cmd = Apdu
  <2>1. buf.data = "apdu" /\ mem["apdu"].pay = phone.pay
    BY <1>6, <1>10, <1>14 DEF Loaded, Apdu, Change
  <2>2. IF stmReply # Nothing /\ stmReply.no = m.no
        THEN StmSends(ReplyBytes(stmReply)) /\ UNCHANGED stm
        ELSE /\ stmWork' = [kind |-> "apdu", pay |-> m.pay, no |-> m.no]
             /\ stmReply' = Nothing
             /\ UNCHANGED fromStm
    BY <1>1, <1>10, <1>14 DEF StmTakes, Apdu, Change
  <2>3. CASE stmReply # Nothing /\ stmReply.no = m.no
    <3>1. StmSends(ReplyBytes(stmReply)) /\ stmWork' = stmWork /\ stmReply' = stmReply
      BY <2>2, <2>3 DEF stm
    <3>2. stmReply.no = uartnum /\ stmReply.pay = Reply(phone.pay)
      BY <1>6, <1>10, <2>1, <2>3 DEF LinkOK, KeptOK
    <3>3. \E n \in {uartnum, 256}', p \in {Reply(phone.pay), 256}' : Coming(n, p)'
      BY <1>1, <1>2, <1>6, <1>8, <2>1, <3>1, <3>2, ReplySent
    <3>4. Replying'
      BY <1>1, <1>2, <1>5, <1>6, <2>1, <3>1, <3>2, <3>3 DEF Replying, ReplyIsNew
    <3> QED
      BY <1>1, <1>6, <1>7, <3>1, <3>4, StmStep DEF Stage
  <2>4. CASE ~(stmReply # Nothing /\ stmReply.no = m.no)
    <3>1. /\ stmWork' = [kind |-> "apdu", pay |-> m.pay, no |-> m.no]
          /\ stmReply' = Nothing /\ fromStm' = fromStm
      BY <2>2, <2>4
    <3>2. stmWork' = [kind |-> "apdu", pay |-> phone'.pay, no |-> uartnum']
      BY <1>1, <1>10, <2>1, <3>1
    <3>3. Working'
      BY <1>1, <1>2, <1>5, <1>6, <1>9, <2>1, <3>1, <3>2 DEF Working, Silent
    <3> QED
      BY <1>1, <1>6, <1>7, <3>1, <3>3, StmStep DEF Stage
  <2> QED
    BY <2>3, <2>4
<1> QED
  <2>1. m.cmd \in {Apdu, Change}
    BY <1>6, <1>10 DEF Loaded
  <2> QED
    BY <1>12, <1>13, <1>14, <2>1

\* A refusal arrives.
LEMMA RefusalReceived ==
  ASSUME TypeOK, LinkOK, StmReceives, Head(toStm) # Confirmation, Refused PROVE LinkOK'
<1> DEFINE m == Head(toStm)
<1>1. /\ toStm # <<>> /\ toStm' = Tail(toStm) /\ StmTakes(m)
      /\ UNCHANGED <<pc, queued, rx, uart_send_flag, uartnum, Ack_recive_enable,
                     Timeout1Sec_Uart, buf, mem, phone, mode, Apdu_len_blekey, air>>
  BY DEF StmReceives, pass, memory, tx, wait, air
<1>2. UNCHANGED <<olddata, uart_recive_l, uart_recive_All, ACK_recive_satus>>
  BY <1>1 DEF rx
<1>3. Carries(toStm, Refusal) /\ Refusal # Confirmation
  BY MessagesDiffer DEF Refused, Refusal
<1>4. m = Refusal /\ Clear(toStm')
  BY <1>1, <1>3, FirstTaken DEF TypeOK, LineType
<1> HIDE DEF m
<1>5. /\ queued = Nothing /\ stmWork = Nothing /\ fromStm = <<>>
      /\ olddata = 0 /\ uart_recive_All = 0 /\ ACK_recive_satus = 0
      /\ Ack_recive_enable = 2 /\ Busy
  BY DEF Refused, Busy, Silent
<1>6. ~Idle
  BY <1>3, NotBoth DEF Idle
<1>7. uart_send_flag = 0 /\ buf.data = "apdu" /\ ReplyIsNew
  BY <1>5 DEF LinkOK, RestOK
<1>8. uart_enable_flag = 1 /\ phone.pay \in Apdus
  BY <1>5, <1>7 DEF LinkOK, PhoneOK, TypeOK, ModeType
<1>9. /\ stmWork' = stmWork /\ stmReply' = stmReply
      /\ IF stmReply = Nothing THEN fromStm' = fromStm ELSE StmSends(ReplyBytes(stmReply))
  BY <1>1, <1>4, MessagesDiffer DEF StmTakes, stm
<1>10. Stage'
  <2>1. CASE stmReply = Nothing
    BY <1>1, <1>2, <1>4, <1>5, <1>9, <2>1 DEF Idle, Silent, Stage
  <2>2. CASE stmReply # Nothing
    <3>1. stmReply.no = uartnum /\ stmReply.pay = Reply(phone.pay)
      BY <1>5, <1>7, <2>2 DEF ReplyIsNew, LinkOK, KeptOK
    <3>2. StmSends(ReplyBytes(stmReply))
      BY <1>9, <2>2
    <3>3. \E n \in {uartnum, 256}', p \in {Reply(phone.pay), 256}' : Coming(n, p)'
      BY <1>1, <1>2, <1>5, <1>8, <3>1, <3>2, ReplySent
    <3>4. Replying'
      BY <1>1, <1>2, <1>4, <1>5, <1>7, <1>9, <3>3 DEF Replying, ReplyIsNew
    <3> QED
      BY <3>4 DEF Stage
  <2> QED
    BY <2>1, <2>2
<1> QED
  BY <1>1, <1>5, <1>6, <1>9, <1>10, StmStep

LEMMA StmKeepsLink == ASSUME TypeOK, LinkOK, Stm32 PROVE LinkOK'
<1>1. CASE StmReceives
  <2>1. toStm # <<>>
    BY <1>1 DEF StmReceives
  <2>2. Head(toStm) # Confirmation => Sent \/ Refused
    <3>1. Head(toStm) # Confirmation => ~Clear(toStm)
      BY <2>1, FirstTaken DEF TypeOK, LineType
    <3> QED
      BY <3>1 DEF LinkOK, Stage, Idle, Queued, Working, Answering, Replying
  <2> QED
    BY <1>1, <2>2, ConfirmationReceived, CommandReceived, RefusalReceived
<1>2. CASE StmAnswers
  <2> DEFINE r == [kind |-> "reply", pay |-> Reply(stmWork.pay), no |-> stmWork.no]
  <2>1. Working
    BY <1>2 DEF StmAnswers, LinkOK, Stage, Idle, Queued, Sent, Refused, Answering, Replying
  <2>2. /\ StmSends(ReplyBytes(r)) /\ stmReply' = r /\ stmWork' = Nothing
        /\ UNCHANGED <<pc, queued, rx, uart_send_flag, uartnum, Ack_recive_enable,
                       Timeout1Sec_Uart, buf, mem, phone, mode, Apdu_len_blekey, air, toStm>>
    BY <1>2 DEF StmAnswers, pass, memory, tx, wait, air
  <2>3. r.no = uartnum /\ r.pay = Reply(phone.pay)
    BY <2>1 DEF Working
  <2> HIDE DEF r
  <2>4. UNCHANGED <<olddata, uart_recive_l, uart_recive_All, ACK_recive_satus>>
    BY <2>2 DEF rx
  <2>5. /\ queued = Nothing /\ Clear(toStm) /\ fromStm = <<>> /\ Waits /\ Loaded
        /\ olddata = 0 /\ uart_recive_All = 0 /\ ACK_recive_satus = 0
        /\ Ack_recive_enable = 1 /\ uart_send_flag = 0 /\ Busy /\ buf.data = "apdu"
    BY <2>1 DEF Working, Silent, Waits, Busy
  <2>6. ~Idle
    BY <2>1, NothingIsNone DEF Working, Idle
  <2>7. uart_enable_flag = 1 /\ phone.pay \in Apdus
    BY <2>5 DEF LinkOK, PhoneOK, TypeOK, ModeType
  <2>8. \E n \in {uartnum, 256}', p \in {Reply(phone.pay), 256}' : Coming(n, p)'
    BY <2>2, <2>3, <2>4, <2>5, <2>7, ReplySent
  <2>9. Replying'
    BY <2>2, <2>3, <2>4, <2>5, <2>8 DEF Replying, ReplyIsNew
  <2> QED
    BY <2>2, <2>3, <2>5, <2>6, <2>9, StmStep DEF Stage
<1> QED
  BY <1>1, <1>2 DEF Stm32

(***************************************************************************)
(* The line.                                                               *)
(***************************************************************************)

\* A disturbance leaves to be shown where the message is then.
LEMMA LineStep ==
  ASSUME LinkOK, NEW k, Fault(k), Stage', ~Idle,
         Ack_recive_enable = 1 => Loaded \/ Replying',
         uart_send_flag = 0
  PROVE  LinkOK'
<1>1. /\ pc' = pc /\ Timeout1Sec_Uart' = Timeout1Sec_Uart /\ queued' = queued
      /\ Busy' = Busy /\ ReplyIsNew' = ReplyIsNew
      /\ UNCHANGED <<stmReply, uartnum, buf, mem, phone, uart_send_flag, Ack_recive_enable>>
      /\ UNCHANGED Talk
  BY DEF Fault, pass, memory, tx, wait, mode, air, stm, Talk, Busy, ReplyIsNew
<1>2. Loaded => Loaded'
  BY <1>1 DEF Loaded
<1>3. Busy
  BY DEF LinkOK, RestOK
<1>4. RestOK'
  BY <1>1, <1>2, <1>3 DEF LinkOK, RestOK
<1>5. PhoneOK' /\ KeptOK' /\ ReplyMatches'
  BY <1>1, TalkCalmer DEF LinkOK
<1> QED
  BY <1>4, <1>5 DEF LinkOK

\* A disturbance that touches only confirmations.
LEMMA ConfirmationsLost ==
  ASSUME LinkOK, NEW k, Fault(k), UNCHANGED fromStm, Clear(toStm) => Clear(toStm'),
         \A f : Carries(toStm, f) /\ f # Confirmation => Carries(toStm', f)
  PROVE  LinkOK'
<1>1. /\ UNCHANGED <<pc, queued, fromStm, stmWork, stmReply, rx, uart_send_flag, uartnum,
                     Ack_recive_enable, Timeout1Sec_Uart, buf, mem, phone>>
      /\ UNCHANGED Talk
  BY DEF Fault, pass, memory, tx, wait, mode, air, stm, Talk
<1>2. /\ olddata' = olddata /\ uart_recive_l' = uart_recive_l
      /\ uart_recive_All' = uart_recive_All /\ ACK_recive_satus' = ACK_recive_satus
  BY <1>1 DEF rx
<1>3. Silent => Silent'
  BY <1>1, <1>2 DEF Silent
<1>4. Idle => Idle'
  BY <1>1, <1>3 DEF Idle
<1>5. Loaded => Loaded'
  BY <1>1 DEF Loaded
<1>6. Waits => Waits'
  BY <1>1, <1>5 DEF Waits
<1>7. \A f : Current(f) => Current(f)' /\ f # Confirmation
  BY <1>1, MessagesDiffer DEF Current, Confirmation
<1>8. Queued => Queued'
  BY <1>1, <1>3, <1>6, <1>7 DEF Queued
<1>9. Sent => Sent'
  <2>1. (\E f : Current(f) /\ Carries(toStm, f)) => \E f : Current(f)' /\ Carries(toStm', f)
    BY <1>7
  <2> QED
    BY <1>1, <1>3, <1>6, <2>1 DEF Sent
<1>10. Refused => Refused'
  <2>1. Carries(toStm, Refusal) => Carries(toStm', Refusal)
    BY MessagesDiffer
  <2> QED
    BY <1>1, <1>3, <2>1 DEF Refused, Refusal
<1>11. Working => Working'
  BY <1>1, <1>3, <1>6 DEF Working
<1>12. Answering => Answering'
  BY <1>1, <1>2, <1>6 DEF Answering
<1>13. Replying => Replying'
  <2>1. Sum' = Sum
    BY <1>1 DEF Sum
  <2>2. \A n, p : Coming(n, p) => Coming(n, p)'
    BY <1>1, <1>2, <2>1 DEF Coming
  <2> QED
    BY <1>1, <1>2, <2>2 DEF Replying, ReplyIsNew
<1>14. Stage'
  BY <1>4, <1>8, <1>9, <1>10, <1>11, <1>12, <1>13 DEF LinkOK, Stage
<1>15. RestOK'
  BY <1>1, <1>4, <1>5, <1>13 DEF LinkOK, RestOK, Busy, ReplyIsNew
<1>16. PhoneOK' /\ KeptOK' /\ ReplyMatches'
  BY <1>1, TalkCalmer DEF LinkOK, Busy
<1> QED
  BY <1>14, <1>15, <1>16 DEF LinkOK

\* A command or a refusal is on its way: what its wait has.
LEMMA OnItsWay ==
  ASSUME TypeOK, LinkOK, Sent \/ Refused
  PROVE  /\ ~Idle /\ uart_send_flag = 0 /\ (Ack_recive_enable = 1 => Loaded) /\ Silent
         /\ queued = Nothing /\ stmWork = Nothing
<1>1. CASE Sent
  <2>1. PICK f : Current(f) /\ Carries(toStm, f)
    BY <1>1 DEF Sent
  <2>2. ~Idle
    BY <2>1, NotBoth, MessagesDiffer DEF Idle, Current
  <2> QED
    BY <1>1, <2>2 DEF Sent, Waits
<1>2. CASE Refused
  <2>1. ~Idle
    BY <1>2, NotBoth, MessagesDiffer DEF Idle, Refused, Refusal
  <2> QED
    BY <1>2, <2>1 DEF Refused, LinkOK, RestOK
<1> QED
  BY <1>1, <1>2

\* Stages of a line with a message other than a confirmation.
LEMMA NotClear ==
  ASSUME LinkOK, ~Clear(toStm) PROVE Sent \/ Refused
  BY DEF LinkOK, Stage, Idle, Queued, Working, Answering, Replying

LEMMA FrameDamagedKeepsLink ==
  ASSUME TypeOK, LinkOK, FrameDamaged PROVE LinkOK'
<1>1. PICK i \in DOMAIN toStm :
        toStm[i].kind = "frame" /\ toStm' = [toStm EXCEPT ![i].crc = 0]
  BY DEF FrameDamaged
<1>2. Fault("frame") /\ fromStm' = fromStm
  BY DEF FrameDamaged
<1>3. ~Clear(toStm) /\ ~Refused
  <2>1. toStm[i] # Confirmation /\ toStm[i] # Refusal
    BY <1>1, MessagesDiffer
  <2>2. ~Carries(toStm, Refusal)
    BY <2>1 DEF Carries
  <2> QED
    BY <2>1, <2>2 DEF Clear, Refused, Refusal
<1>4. Sent
  BY <1>3, NotClear
<1>5. PICK f : Current(f) /\ Carries(toStm, f)
  BY <1>4 DEF Sent
<1>6. PICK d : d = [toStm[i] EXCEPT !.crc = 0] /\ toStm' = [toStm EXCEPT ![i] = d]
  BY <1>1
<1>7. toStm[i] = f /\ toStm[i] \in Frames
  <2>1. toStm[i] = f
    BY <1>1, <1>5, OneDamaged DEF TypeOK, LineType
  <2>2. toStm[i] \in Frames
    BY <1>1 DEF TypeOK, LineType, Acks
  <2> QED
    BY <2>1, <2>2
<1>8. /\ d.kind = f.kind /\ d.length = f.length /\ d.no = f.no /\ d.cmd = f.cmd
      /\ d.pay = f.pay /\ d.crc = 0
  BY <1>6, <1>7 DEF Frames
<1>9. Carries(toStm', d)
  <2>1. Carries([toStm EXCEPT ![i] = d], d)
    BY <1>1, <1>5, OneDamaged DEF TypeOK, LineType
  <2> QED
    BY <1>6, <2>1
<1>10. UNCHANGED <<queued, stmWork, rx, uart_send_flag, uartnum, Ack_recive_enable, buf, mem, phone>>
  BY <1>2 DEF Fault, pass, memory, tx, wait, air, stm
<1>11. Current(d)'
  BY <1>5, <1>8, <1>10 DEF Current
<1>12. Sent'
  <2>1. Silent' /\ Waits'
    BY <1>2, <1>4, <1>10 DEF Sent, Silent, Waits, Loaded, rx
  <2>2. \E g : Current(g)' /\ Carries(toStm', g)
    BY <1>9, <1>11
  <2> QED
    BY <1>4, <1>10, <2>1, <2>2 DEF Sent
<1> QED
  BY <1>2, <1>4, <1>12, OnItsWay, LineStep DEF Stage

LEMMA MessageLostKeepsLink ==
  ASSUME TypeOK, LinkOK, MessageLost PROVE LinkOK'
<1>1. PICK i \in DOMAIN toStm : toStm' = RemoveAt(toStm, i)
  BY DEF MessageLost
<1>2. Fault("lost") /\ fromStm' = fromStm
  BY DEF MessageLost
<1>3. /\ Clear(toStm) => Clear(toStm') /\ toStm[i] = Confirmation
      /\ \A f : Carries(toStm, f) /\ f # Confirmation =>
           \/ toStm[i] = f /\ Clear(toStm')
           \/ toStm[i] = Confirmation /\ Carries(toStm', f)
  BY <1>1, OneLess DEF TypeOK, LineType
<1>4. CASE toStm[i] = Confirmation
  BY <1>2, <1>3, <1>4, ConfirmationsLost
<1>5. CASE toStm[i] # Confirmation
  <2>1. Sent \/ Refused
    BY <1>3, <1>5, NotClear
  <2>2. Clear(toStm')
    <3>1. CASE Sent
      <4>1. PICK f : Current(f) /\ Carries(toStm, f)
        BY <3>1 DEF Sent
      <4>2. f # Confirmation
        BY <4>1, MessagesDiffer DEF Current, Confirmation
      <4> QED
        BY <1>3, <1>5, <4>1, <4>2
    <3>2. CASE Refused
      BY <1>3, <1>5, <3>2, MessagesDiffer DEF Refused, Refusal
    <3> QED
      BY <2>1, <3>1, <3>2
  <2>3. UNCHANGED <<queued, stmWork, rx>>
    BY <1>2 DEF Fault, pass, stm
  <2>4. Idle'
    BY <1>2, <2>1, <2>2, <2>3, OnItsWay DEF Idle, Silent, rx
  <2> QED
    BY <1>2, <2>1, <2>4, OnItsWay, LineStep DEF Stage
<1> QED
  BY <1>4, <1>5

\* Where a payload can be among the bytes of a reply: a damaged byte leaves a
\* reply with a damaged number or a damaged payload.
LEMMA BytesDamaged ==
  /\ \A a, b, c, d, e, n, p, s, v :
       /\ [<<a, b, c, d, e, n, p, s>> EXCEPT ![6] = v] = <<a, b, c, d, e, v, p, s>>
       /\ [<<a, b, c, d, e, n, p, s>> EXCEPT ![7] = v] = <<a, b, c, d, e, n, v, s>>
       /\ [<<b, c, d, e, n, p, s>> EXCEPT ![5] = v] = <<b, c, d, e, v, p, s>>
       /\ [<<b, c, d, e, n, p, s>> EXCEPT ![6] = v] = <<b, c, d, e, n, v, s>>
       /\ [<<c, d, e, n, p, s>> EXCEPT ![4] = v] = <<c, d, e, v, p, s>>
       /\ [<<c, d, e, n, p, s>> EXCEPT ![5] = v] = <<c, d, e, n, v, s>>
       /\ [<<d, e, n, p, s>> EXCEPT ![3] = v] = <<d, e, v, p, s>>
       /\ [<<d, e, n, p, s>> EXCEPT ![4] = v] = <<d, e, n, v, s>>
       /\ [<<e, n, p, s>> EXCEPT ![2] = v] = <<e, v, p, s>>
       /\ [<<e, n, p, s>> EXCEPT ![3] = v] = <<e, n, v, s>>
       /\ [<<n, p, s>> EXCEPT ![1] = v] = <<v, p, s>>
       /\ [<<n, p, s>> EXCEPT ![2] = v] = <<n, v, s>>
       /\ [<<p, s>> EXCEPT ![1] = v] = <<v, s>>
OBVIOUS

LEMMA ReplyDamagedKeepsLink ==
  ASSUME TypeOK, LinkOK, ReplyDamaged PROVE LinkOK'
<1>1. PICK i \in DOMAIN fromStm :
        fromStm[i] \in {Reply(p) : p \in Apdus} /\ fromStm' = [fromStm EXCEPT ![i] = 256]
  BY DEF ReplyDamaged
<1>2. Fault("reply") /\ toStm' = toStm
  BY DEF ReplyDamaged
<1>3. fromStm[i] \in 101 .. 139
  <2>1. PICK p \in Apdus : fromStm[i] = Reply(p)
    BY <1>1
  <2>2. p \in 1..39
    BY UartAssumption
  <2> QED
    BY <2>1, <2>2 DEF Reply
<1>4. A5 = 165 /\ S5A = 90 /\ FrameLen = 4 /\ Apdu = 1
  BY DEF A5, S5A, FrameLen, Apdu
<1>5. ~Answering
  <2> SUFFICES ASSUME Answering PROVE FALSE
    OBVIOUS
  <2>1. PICK ok \in {0, 1} : \/ fromStm = <<S5A, A5, ok>>
                             \/ fromStm = <<A5, ok>>
                             \/ fromStm = <<ok>>
                             \/ fromStm = <<>>
    BY DEF Answering
  <2>2. CASE fromStm = <<S5A, A5, ok>>
    BY <1>1, <1>3, <1>4, <2>2
  <2>3. CASE fromStm = <<A5, ok>>
    BY <1>1, <1>3, <1>4, <2>3
  <2>4. CASE fromStm = <<ok>>
    BY <1>1, <1>3, <1>4, <2>4
  <2>5. CASE fromStm = <<>>
    BY <1>1, <2>5
  <2> QED
    BY <2>1, <2>2, <2>3, <2>4, <2>5
<1>6. Replying
  <2>1. fromStm # <<>>
    BY <1>1
  <2> QED
    BY <1>5, <2>1, ByteExpected
<1>7. /\ UNCHANGED <<queued, stmWork, stmReply, rx, uart_send_flag, uartnum, Ack_recive_enable,
                     buf, mem, phone>>
      /\ uart_send_flag = 0 /\ ~Idle
  <2>1. fromStm # <<>>
    BY <1>1
  <2> QED
    BY <1>2, <2>1, ByteExpected DEF Fault, pass, memory, tx, wait, air, stm
<1>8. UNCHANGED <<olddata, uart_recive_l, uart_recive_All, ACK_recive_satus>> /\ Sum' = Sum
  BY <1>7 DEF rx, Sum
<1>9. Sum >= 1000
  <2>1. phone.pay \in Apdus
    BY <1>6 DEF LinkOK, PhoneOK, Replying, Busy
  <2>2. phone.pay \in Nat /\ uartnum \in Nat /\ uartnum < NumMod /\ NumMod \in Nat
    <3>0. Apdus \subseteq Nat
      BY PayloadType
    <3>1. phone.pay \in Nat
      BY <2>1, <3>0
    <3>2. uartnum \in Nat /\ uartnum < NumMod /\ NumMod \in Nat
      BY UartAssumption DEF TypeOK, TxType
    <3> QED
      BY <3>1, <3>2
  <2>3. Reply(phone.pay) * NumMod \in Nat
    BY <2>2 DEF Reply
  <2>4. Sum = 1000 + ((Reply(phone.pay) * NumMod + uartnum) * 4 + Apdu)
    BY <2>2 DEF Sum, Crc
  <2> QED
    BY <1>4, <2>2, <2>3, <2>4
<1>10. PICK n \in {uartnum, 256}, p \in {Reply(phone.pay), 256} : Coming(n, p)
  BY <1>6 DEF Replying
<1>11. Coming(256, p)' \/ Coming(n, 256)'
  <2>1. CASE olddata = 0
    <3>1. fromStm = <<A5, S5A, 0, FrameLen, Apdu, n, p, Sum>>
      BY <1>10, <2>1 DEF Coming
    <3>2. i = 6 \/ i = 7
      BY <1>1, <1>3, <1>4, <1>9, <3>1
    <3>3. \/ fromStm' = <<A5, S5A, 0, FrameLen, Apdu, 256, p, Sum>>
          \/ fromStm' = <<A5, S5A, 0, FrameLen, Apdu, n, 256, Sum>>
      BY <1>1, <3>1, <3>2, BytesDamaged
    <3> QED
      BY <1>7, <1>8, <1>10, <2>1, <3>3 DEF Coming
  <2>2. CASE olddata = 1
    <3>1. fromStm = <<S5A, 0, FrameLen, Apdu, n, p, Sum>>
      BY <1>10, <2>2 DEF Coming
    <3>2. i = 5 \/ i = 6
      BY <1>1, <1>3, <1>4, <1>9, <3>1
    <3>3. \/ fromStm' = <<S5A, 0, FrameLen, Apdu, 256, p, Sum>>
          \/ fromStm' = <<S5A, 0, FrameLen, Apdu, n, 256, Sum>>
      BY <1>1, <3>1, <3>2, BytesDamaged
    <3> QED
      BY <1>7, <1>8, <1>10, <2>2, <3>3 DEF Coming
  <2>3. CASE olddata = 2
    <3>1. fromStm = <<0, FrameLen, Apdu, n, p, Sum>>
      BY <1>10, <2>3 DEF Coming
    <3>2. i = 4 \/ i = 5
      BY <1>1, <1>3, <1>4, <1>9, <3>1
    <3>3. \/ fromStm' = <<0, FrameLen, Apdu, 256, p, Sum>>
          \/ fromStm' = <<0, FrameLen, Apdu, n, 256, Sum>>
      BY <1>1, <3>1, <3>2, BytesDamaged
    <3> QED
      BY <1>7, <1>8, <1>10, <2>3, <3>3 DEF Coming
  <2>4. CASE olddata = 3
    <3>1. fromStm = <<FrameLen, Apdu, n, p, Sum>>
      BY <1>10, <2>4 DEF Coming
    <3>2. i = 3 \/ i = 4
      BY <1>1, <1>3, <1>4, <1>9, <3>1
    <3>3. \/ fromStm' = <<FrameLen, Apdu, 256, p, Sum>>
          \/ fromStm' = <<FrameLen, Apdu, n, 256, Sum>>
      BY <1>1, <3>1, <3>2, BytesDamaged
    <3> QED
      BY <1>7, <1>8, <1>10, <2>4, <3>3 DEF Coming
  <2>5. CASE olddata = 4
    <3>1. fromStm = <<Apdu, n, p, Sum>>
      BY <1>10, <2>5 DEF Coming
    <3>2. i = 2 \/ i = 3
      BY <1>1, <1>3, <1>4, <1>9, <3>1
    <3>3. \/ fromStm' = <<Apdu, 256, p, Sum>>
          \/ fromStm' = <<Apdu, n, 256, Sum>>
      BY <1>1, <3>1, <3>2, BytesDamaged
    <3> QED
      BY <1>7, <1>8, <1>10, <2>5, <3>3 DEF Coming
  <2>6. CASE olddata = 5
    <3>1. fromStm = <<n, p, Sum>>
      BY <1>10, <2>6 DEF Coming
    <3>2. i = 1 \/ i = 2
      BY <1>1, <1>3, <1>4, <1>9, <3>1
    <3>3. \/ fromStm' = <<256, p, Sum>>
          \/ fromStm' = <<n, 256, Sum>>
      BY <1>1, <3>1, <3>2, BytesDamaged
    <3> QED
      BY <1>7, <1>8, <1>10, <2>6, <3>3 DEF Coming
  <2>7. CASE olddata = 6 /\ uart_recive_l = 0
    <3>1. fromStm = <<p, Sum>>
      BY <1>10, <2>7 DEF Coming
    <3>2. i = 1
      BY <1>1, <1>3, <1>4, <1>9, <3>1
    <3>3. fromStm' = <<256, Sum>>
      BY <1>1, <3>1, <3>2, BytesDamaged
    <3> QED
      BY <1>7, <1>8, <1>10, <2>7, <3>3 DEF Coming
  <2>8. CASE olddata = 6 /\ uart_recive_l = 1
    <3>1. fromStm = <<Sum>>
      BY <1>10, <2>8 DEF Coming
    <3> QED
      BY <1>1, <1>3, <1>9, <3>1
  <2>9. CASE olddata = 7
    <3>1. fromStm = <<>>
      BY <1>10, <2>9 DEF Coming
    <3> QED
      BY <1>1, <3>1
  <2> QED
    BY <1>10, <2>1, <2>2, <2>3, <2>4, <2>5, <2>6, <2>7, <2>8, <2>9 DEF Coming
<1>12. Replying'
  <2>1. \E a \in {uartnum, 256}', b \in {Reply(phone.pay), 256}' : Coming(a, b)'
    BY <1>7, <1>10, <1>11
  <2> QED
    BY <1>2, <1>6, <1>7, <1>8, <2>1 DEF Replying, ReplyIsNew
<1> QED
  BY <1>2, <1>7, <1>12, LineStep DEF Stage

LEMMA LineKeepsLink ==
  ASSUME TypeOK, Framed, LinkOK, Line PROVE LinkOK'
<1>1. ~ReplyRepeated /\ ~ByteDamaged /\ ~ByteLost
  BY DEF ReplyRepeated, ByteDamaged, ByteLost, Fault, Framed
<1> QED
  BY <1>1, FrameDamagedKeepsLink, MessageLostKeepsLink, ReplyDamagedKeepsLink DEF Line

LEMMA InitLink == Init => LinkOK
<1> SUFFICES ASSUME Init PROVE LinkOK
  OBVIOUS
<1>1. Idle
  BY DEF Init, Idle, Clear, Silent
<1>2. RestOK /\ Stage
  BY <1>1 DEF Init, RestOK, Stage, Busy, Idle
<1>3. PhoneOK /\ KeptOK /\ ReplyMatches
  BY NothingIsNone DEF Init, PhoneOK, KeptOK, ReplyMatches, Busy, ReplyIsNew
<1> QED
  BY <1>2, <1>3 DEF LinkOK

\* The counter of disconnections.
LEMMA DownsCounted ==
  ASSUME TypeOK, [Next]_vars
  PROVE  downs' = downs \/ (downs' = downs + 1 /\ downs < MaxDown)
<1>1. MainLoop \/ uart_event_handle \/ TimeOutUart => downs' = downs
  <2>1. BleCmdProcess => downs' = downs
    BY DEF BleCmdProcess, NoRequest, EnterKeyMode, LeaveKeyMode, TakeApdu, env
  <2>2. UartClosed \/ uart_send \/ successAck \/ NotWaiting \/ AckAwaited \/ NotRefusing
          \/ RefusalAwaited \/ RepetitionTaken => downs' = downs
    BY DEF UartClosed, uart_send, successAck, NotWaiting, AckAwaited, NotRefusing,
           RefusalAwaited, RepetitionTaken, env
  <2>3. Receive => downs' = downs
    BY DEF Receive, NothingReceived, FrameRefused, FrameRepeated, FrameAccepted, FrameTaken, env
  <2>4. AckFailed \/ AckSucceeded => downs' = downs
    BY DEF AckFailed, AckSucceeded, AckTaken, env
  <2>5. Bluetooyhkeydisplay \/ uart_send_Bty => downs' = downs
    BY DEF Bluetooyhkeydisplay, NothingToDo, SendApdu, PhoneIsGone, uart_send_Bty, env
  <2>6. uart_event_handle \/ TimeOutUart => downs' = downs
    BY DEF uart_event_handle, TimeOutUart, env
  <2> QED
    BY <2>1, <2>2, <2>3, <2>4, <2>5, <2>6 DEF MainLoop, UartDataSendrecive
<1>2. Stm32 \/ Line => downs' = downs
  BY DEF Stm32, StmReceives, StmAnswers, Line, FrameDamaged, MessageLost, ReplyDamaged,
         ReplyRepeated, ByteDamaged, ByteLost, Fault, env
<1>3. Phone => downs' = downs \/ (downs' = downs + 1 /\ downs < MaxDown)
  BY DEF Phone, PhoneAsks, PhoneGets, Disconnect, Connect, env
<1>4. UNCHANGED vars => downs' = downs
  BY DEF vars, env
<1> QED
  BY <1>1, <1>2, <1>3, <1>4 DEF Next

LEMMA LinkStep ==
  ASSUME Framed, TypeOK, Retries, LinkOK, [Next]_vars, downs' = 0
  PROVE  LinkOK'
<1>1. Next => LinkOK'
  BY MainLoopKeepsLink, InterruptKeepsLink, TimerKeepsLink, PhoneKeepsLink, StmKeepsLink,
     LineKeepsLink
  DEF Next
<1>2. ASSUME UNCHANGED vars PROVE LinkOK'
  <2>1. UNCHANGED Place /\ UNCHANGED Talk /\ UNCHANGED <<Timeout1Sec_Uart, pc>>
    BY <1>2 DEF vars, pass, rx, memory, tx, wait, mode, air, stm, line, Place, Talk
  <2>2. pc \in {"cmd", "send"} => queued = Nothing
    BY DEF LinkOK, RestOK
  <2> QED
    BY <2>1, <2>2, PassGoesOn
<1> QED
  BY <1>1, <1>2

LEMMA LinkInvariant ==
  ASSUME Framed PROVE Spec => [](TypeOK /\ downs <= MaxDown /\ (downs = 0 => LinkOK))
<1> DEFINE Inv == TypeOK /\ downs <= MaxDown /\ (downs = 0 => LinkOK)
<1>1. Init => Inv
  BY InitType, InitLink, UartAssumption DEF Init
<1>2. IInv /\ Inv /\ [Next]_vars => Inv'
  <2> SUFFICES ASSUME TypeOK, Retries, downs <= MaxDown, downs = 0 => LinkOK, [Next]_vars
               PROVE  Inv'
    BY DEF IInv
  <2>1. TypeOK'
    BY TypeStep
  <2>2. downs' = downs \/ (downs' = downs + 1 /\ downs < MaxDown)
    BY DownsCounted
  <2>3. downs' <= MaxDown /\ (downs' = 0 => downs = 0)
    BY <2>2, UartAssumption DEF TypeOK
  <2>4. downs' = 0 => LinkOK'
    BY <2>3, LinkStep
  <2> QED
    BY <2>1, <2>3, <2>4
<1> QED
  BY <1>1, <1>2, Invariant, PTL DEF Spec

\* A phone that cannot disconnect.
LEMMA StaysConnected ==
  ASSUME Framed, MaxDown = 0 PROVE Spec => [](TypeOK /\ LinkOK)
<1>1. TypeOK /\ downs <= MaxDown /\ (downs = 0 => LinkOK) => TypeOK /\ LinkOK
  BY DEF TypeOK
<1> QED
  BY <1>1, LinkInvariant, PTL

\* Over a line that damages and loses commands and replies, the main loop
\* transmits no frame but the command in work with its own checksum, however
\* often it is repeated and whatever bytes of a reply have been received into
\* the same buffer (uart_send, uart_event_handle).
THEOREM FramesAreWhole == ASSUME Framed, MaxDown = 0 PROVE Spec => []FramesWhole
<1>1. TypeOK /\ LinkOK => FramesWhole
  <2> SUFFICES ASSUME TypeOK, LinkOK,
                      NEW i \in DOMAIN toStm, toStm[i].kind = "frame", toStm[i].crc # 0
               PROVE  Whole(toStm[i])
    BY DEF FramesWhole
  <2>1. toStm[i] # Confirmation /\ toStm[i] # Refusal
    BY MessagesDiffer
  <2>2. ~Clear(toStm) /\ ~Carries(toStm, Refusal)
    BY <2>1 DEF Clear, Carries
  <2>3. Sent
    BY <2>2, NotClear DEF Refused, Refusal
  <2>4. PICK f : Current(f) /\ Carries(toStm, f)
    BY <2>3 DEF Sent
  <2>5. toStm[i] = f
    BY <2>1, <2>4 DEF Carries
  <2> QED
    BY <2>4, <2>5 DEF Current
<1> QED
  BY <1>1, StaysConnected, PTL

\* Over such a line the phone gets a reply only to an APDU, and to that APDU:
\* numbers and checksum keep an earlier reply and a damaged one out.
THEOREM RepliesMatch == ASSUME Framed, MaxDown = 0 PROVE Spec => []ReplyMatches
<1>1. LinkOK => ReplyMatches
  BY DEF LinkOK
<1> QED
  BY <1>1, StaysConnected, PTL

(***************************************************************************)
(* Confirmations.  On a line that damages and loses what goes to the STM32 *)
(* and nothing that comes from it, the phone has its reply before the      *)
(* STM32 is told that it arrived.                                          *)
(***************************************************************************)

RepliesSafe == Patient /\ Faults \subseteq {"frame", "lost"}

\* A byte of a reply is received next, or a reply has been.
ReplyComes ==
  olddata \in 1 .. 7 \/ (olddata = 0 /\ fromStm # <<>> /\ Head(fromStm) = A5)

\* Replies are what the STM32 sent, so that none is refused.
Untouched ==
  /\ Ack_recive_enable # 2
  /\ ReplyComes =>
       /\ Coming(uartnum, Reply(phone.pay))
       /\ olddata \in {6, 7} => buf.no_use = uartnum
       /\ olddata = 7 \/ (olddata = 6 /\ uart_recive_l = 1) => mem["apdu"].pay = Reply(phone.pay)

\* A confirmation on the line, or one due, is of the reply the phone has: it
\* is sent before the next APDU, which waits for the phone's acknowledgement.
Told ==
  /\ uart_waitack_flag = 1 => ble # Nothing
  /\ Apdu_len_blekey = 1 =>
       uart_enable_flag = 1 /\ (pc \in {"send", "waitack"} \/ uart_waitack_flag = 0)
  /\ Busy /\ buf.data = "apdu" => uart_waitack_flag = 0
  /\ \A i, j \in DOMAIN toStm :
        toStm[i] = Confirmation /\ toStm[j].kind = "frame" /\ toStm[j].cmd = Apdu => i < j
  /\ stmWork # Nothing => toStm = <<>>
  /\ ble.kind = "ok" => stmReply = Nothing
  /\ ble.kind = "reply" /\ stmReply # Nothing => ble.pay = stmReply.pay
  /\ uart_waitack_flag = 2 \/ (\E i \in DOMAIN toStm : toStm[i] = Confirmation) =>
       stmReply = Nothing \/ heard = stmReply.pay

HeardOK == Untouched /\ Told

\* Where a reply is expected.
LEMMA ReplyExpected ==
  ASSUME LinkOK, ReplyComes
  PROVE  Replying /\ Busy /\ buf.data = "apdu" /\ phone.kind = "apdu" /\ ble = Nothing
         /\ request = Nothing
<1>1. ~Silent
  BY DEF ReplyComes, Silent
<1>2. ~Answering
  <2>1. A5 # S5A
    BY DEF A5, S5A
  <2>2. ASSUME Answering PROVE FALSE
    <3>1. PICK ok \in {0, 1} : \/ olddata = 0 /\ fromStm = <<S5A, A5, ok>>
                               \/ olddata \in {8, 9}
      BY <2>2 DEF Answering
    <3>2. olddata = 0 /\ fromStm = <<S5A, A5, ok>>
      BY <3>1 DEF ReplyComes
    <3>3. Head(fromStm) = S5A
      BY <3>2, ByteTaken
    <3> QED
      BY <2>1, <3>2, <3>3 DEF ReplyComes
  <2> QED
    BY <2>2
<1>3. Replying
  BY <1>1, <1>2 DEF LinkOK, Stage, Idle, Queued, Sent, Refused, Working
<1>4. Busy /\ buf.data = "apdu"
  BY <1>3 DEF Replying, Busy
<1> QED
  BY <1>3, <1>4 DEF LinkOK, PhoneOK

\* A line on which nothing comes, or an acknowledgement.
LEMMA NoReplyComes ==
  ASSUME \/ Silent
         \/ olddata = 0 /\ \E ok : fromStm = <<S5A, A5, ok>>
         \/ olddata \in {8, 9}
  PROVE  ~ReplyComes
<1>1. A5 # S5A
  BY DEF A5, S5A
<1>2. \A ok : Head(<<S5A, A5, ok>>) = S5A
  BY ByteTaken
<1> QED
  BY <1>1, <1>2 DEF Silent, ReplyComes

LEMMA QuietUntouched ==
  ASSUME Silent', Ack_recive_enable' # 2 PROVE Untouched'
<1>1. ~ReplyComes'
  BY DEF Silent, ReplyComes
<1> QED
  BY <1>1 DEF Untouched

\* Nothing the bytes of a reply depend on changes.
LEMMA UntouchedKept ==
  ASSUME Untouched, Ack_recive_enable' # 2,
         UNCHANGED <<olddata, uart_recive_l, fromStm, buf, uartnum>>,
         ReplyComes => mem'["apdu"] = mem["apdu"] /\ phone' = phone
  PROVE  Untouched'
<1>1. ReplyComes' = ReplyComes
  BY DEF ReplyComes
<1>2. ReplyComes => Sum' = Sum
  BY DEF Sum
<1>3. ReplyComes => Coming(uartnum, Reply(phone.pay))'
  BY <1>1, <1>2 DEF Untouched, Coming
<1> QED
  BY <1>1, <1>3 DEF Untouched

\* Nothing a confirmation depends on changes.
LEMMA ToldKept ==
  ASSUME Told, UNCHANGED <<uart_waitack_flag, ble, uart_enable_flag, toStm, stmWork,
                           stmReply, heard>>,
         Busy' /\ buf'.data = "apdu" => Busy /\ buf.data = "apdu",
         Apdu_len_blekey' = 1 => Apdu_len_blekey = 1,
         \/ pc' = pc
         \/ pc' \in {"send", "waitack"}
         \/ pc \notin {"send", "waitack"}
         \/ Apdu_len_blekey = 0
  PROVE  Told'
  BY DEF Told

\* The commands of the phone.
LEMMA CommandsHeard ==
  ASSUME TypeOK, NoStrayTimeout, LinkOK, HeardOK, BleCmdProcess PROVE HeardOK'
<1>1. queued = Nothing /\ connected
  BY DEF LinkOK, RestOK, PhoneOK, BleCmdProcess, NoRequest, EnterKeyMode, LeaveKeyMode, TakeApdu
<1>2. request # Nothing => ble = Nothing /\ Apdu_len_blekey = 0
  BY DEF LinkOK, PhoneOK
<1>3. ASSUME NEW p, Restart(p), queued' = queued, stmWork' = Nothing, stmReply' = Nothing,
             Apdu_len_blekey' = 0, uart_waitack_flag = 1 => ble' # Nothing,
             uart_waitack_flag' = uart_waitack_flag
      PROVE  HeardOK'
  <2>1. Idle' /\ buf'.data = "status" /\ Ack_recive_enable' = 0
    BY <1>1, <1>3, Restarted
  <2>2. Untouched'
    BY <2>1, QuietUntouched DEF Idle
  <2>3. toStm' = <<>>
    BY <1>3 DEF Restart, PowerOff_key
  <2>4. Told'
    BY <1>3, <2>1, <2>3 DEF Told
  <2> QED
    BY <2>2, <2>4 DEF HeardOK
<1>4. CASE NoRequest
  <2>1. UNCHANGED <<rx, memory, tx, wait, mode, Apdu_len_blekey, uart_waitack_flag, air, stm, line>>
        /\ pc' = "send"
    BY <1>4 DEF NoRequest
  <2>2. Untouched'
    BY <2>1, UntouchedKept DEF HeardOK, Untouched, rx, memory, tx, wait, air, line
  <2>3. Told'
    BY <2>1, ToldKept DEF HeardOK, memory, tx, wait, mode, air, stm, line, Busy
  <2> QED
    BY <2>2, <2>3 DEF HeardOK
<1>5. CASE EnterKeyMode
  <2>1. /\ Restart(KeyMode) /\ queued' = queued /\ stmWork' = Nothing /\ stmReply' = Nothing
        /\ Apdu_len_blekey' = Apdu_len_blekey /\ ble' = ble /\ request.kind = "enter"
        /\ uart_waitack_flag' = uart_waitack_flag
    BY <1>5 DEF EnterKeyMode, pass
  <2>2. Apdu_len_blekey' = 0
    BY <1>2, <2>1, NothingIsNone
  <2> QED
    BY <1>3, <2>1, <2>2 DEF HeardOK, Told
<1>6. CASE LeaveKeyMode
  <2>1. /\ Restart(TimeMode) /\ queued' = queued /\ stmWork' = Nothing /\ stmReply' = Nothing
        /\ Apdu_len_blekey' = Apdu_len_blekey /\ request.kind = "leave"
        /\ Send_bluetoothdata([kind |-> "ok", pay |-> 0])
        /\ uart_waitack_flag' = uart_waitack_flag
    BY <1>6 DEF LeaveKeyMode, pass
  <2>2. Apdu_len_blekey' = 0
    BY <1>2, <2>1, NothingIsNone
  <2>3. ble' # Nothing
    BY <1>1, <2>1, NothingIsNone DEF Send_bluetoothdata
  <2> QED
    BY <1>3, <2>1, <2>2, <2>3
<1>7. CASE TakeApdu
  <2>1. /\ UNCHANGED <<rx, memory, tx, wait, mode, uart_waitack_flag, ble, phone, heard, stm, line>>
        /\ pc' = "send"
        /\ Apdu_len_blekey' = IF KEYwork_flag = 1 THEN 1 ELSE Apdu_len_blekey
    BY <1>7 DEF TakeApdu
  <2>2. Untouched'
    BY <2>1, UntouchedKept DEF HeardOK, Untouched, rx, memory, tx, wait, line
  <2>3. Apdu_len_blekey' = 1 => uart_enable_flag' = 1
    BY <2>1 DEF LinkOK, PhoneOK, HeardOK, Told, mode
  <2>4. Told'
    <3>1. UNCHANGED <<ble, heard, stmWork, stmReply, toStm, uart_waitack_flag, buf>> /\ Busy' = Busy
      BY <2>1 DEF memory, tx, wait, stm, line, Busy
    <3> QED
      BY <2>1, <2>3, <3>1 DEF HeardOK, Told
  <2> QED
    BY <2>2, <2>4 DEF HeardOK
<1> QED
  BY <1>4, <1>5, <1>6, <1>7 DEF BleCmdProcess

\* Steps that change neither what arrives nor what was told.
LEMMA QuietHeard ==
  ASSUME LinkOK, HeardOK, \/ UartClosed \/ NothingReceived \/ NotWaiting \/ NotRefusing
                          \/ NothingToDo \/ uart_send
  PROVE  HeardOK'
<1>1. /\ UNCHANGED <<rx, memory, uartnum, mode, Apdu_len_blekey, uart_waitack_flag, air, stm, line>>
      /\ \/ UNCHANGED <<uart_send_flag, Ack_recive_enable>>
         \/ uart_send_flag = 1 /\ Ack_recive_enable' = 1
      /\ \/ pc' \in {"send", "waitack"}
         \/ pc \notin {"send", "waitack"}
         \/ uart_enable_flag = 0
  BY DEF UartClosed, NothingReceived, NotWaiting, NotRefusing, NothingToDo, uart_send, tx, wait,
         rx, memory, mode, air, stm, line
<1>2. Untouched'
  BY <1>1, UntouchedKept DEF HeardOK, Untouched, rx, memory, air, line
<1>3. uart_enable_flag = 0 => Apdu_len_blekey # 1
  BY DEF HeardOK, Told
<1>4. Busy' => Busy
  BY <1>1 DEF Busy
<1>5. Told'
  BY <1>1, <1>3, <1>4 DEF HeardOK, Told, memory, mode, air, stm, line
<1> QED
  BY <1>2, <1>5 DEF HeardOK

\* The phone's acknowledgement is passed on.
LEMMA SuccessAckHeard ==
  ASSUME TypeOK, LinkOK, HeardOK, successAck PROVE HeardOK'
<1>1. /\ UNCHANGED <<rx, memory, tx, wait, mode, Apdu_len_blekey, air, stm, fromStm>>
      /\ pc' = "receive"
  BY DEF successAck
<1>2. Untouched'
  BY <1>1, UntouchedKept DEF HeardOK, Untouched, rx, memory, tx, wait, air
<1>3. Busy' = Busy /\ buf' = buf
  BY <1>1 DEF tx, wait, memory, Busy
<1>4. CASE uart_waitack_flag = 2
  <2>1. toStm' = Append(toStm, Confirmation) /\ uart_waitack_flag' = 0
    BY <1>4 DEF successAck, Transmit, Confirmation
  <2>2. ~(Busy /\ buf.data = "apdu")
    BY <1>4 DEF HeardOK, Told
  <2>3. \A j \in DOMAIN toStm : ~(toStm[j].kind = "frame" /\ toStm[j].cmd = Apdu)
    <3> SUFFICES ASSUME NEW j \in DOMAIN toStm, toStm[j].kind = "frame", toStm[j].cmd = Apdu
                 PROVE  FALSE
      OBVIOUS
    <3>1. Sent
      BY MessagesDiffer, NotClear DEF Clear, Refused, HeardOK, Untouched
    <3>2. PICK f : Current(f) /\ Carries(toStm, f)
      BY <3>1 DEF Sent
    <3>3. toStm[j] = f
      BY <3>2, MessagesDiffer DEF Carries
    <3>4. buf.cmd = Apdu
      BY <3>2, <3>3 DEF Current
    <3> QED
      BY <2>2, <3>1, <3>4 DEF Sent, Waits, Loaded, Busy, Apdu, Change
  <2>4. stmWork = Nothing
    <3>1. ~Working
      BY <2>2 DEF Working, Waits, Busy
    <3> QED
      BY <3>1 DEF LinkOK, Stage, Idle, Queued, Sent, Refused, Answering, Replying
  <2>5. \A i, j \in DOMAIN toStm' :
           toStm'[i] = Confirmation /\ toStm'[j].kind = "frame" /\ toStm'[j].cmd = Apdu => i < j
    <3> SUFFICES ASSUME NEW j \in DOMAIN toStm', toStm'[j].kind = "frame", toStm'[j].cmd = Apdu
                 PROVE  FALSE
      OBVIOUS
    <3>1. Confirmation \in Frames \union Acks /\ toStm \in Seq(Frames \union Acks)
      BY MessagesDiffer DEF TypeOK, LineType
    <3>2. j = Len(toStm) + 1 \/ (j \in DOMAIN toStm /\ toStm'[j] = toStm[j])
      BY <2>1, <3>1
    <3>3. toStm'[Len(toStm) + 1] = Confirmation
      BY <2>1, <3>1
    <3> QED
      BY <2>3, <3>2, <3>3, MessagesDiffer
  <2>6. stmReply = Nothing \/ heard = stmReply.pay
    BY <1>4 DEF HeardOK, Told
  <2>7. UNCHANGED <<ble, heard, stmWork, stmReply, uart_enable_flag, Apdu_len_blekey>>
    BY <1>1 DEF air, stm, mode
  <2>8. Told'
    <3>1. uart_waitack_flag' # 1 /\ uart_waitack_flag' # 2
      BY <2>1
    <3> QED
      BY <2>1, <2>4, <2>5, <2>6, <2>7, <3>1 DEF HeardOK, Told
  <2> QED
    BY <1>2, <2>8 DEF HeardOK
<1>5. CASE uart_waitack_flag # 2
  <2>1. toStm' = toStm /\ uart_waitack_flag' = uart_waitack_flag
    BY <1>5 DEF successAck
  <2>2. Apdu_len_blekey = 1 => uart_waitack_flag = 0
    BY <1>5 DEF LinkOK, PhoneOK, HeardOK, Told, TypeOK
  <2>3. Told'
    BY <1>1, <1>3, <2>1, <2>2 DEF HeardOK, Told, mode, air, stm
  <2> QED
    BY <1>2, <2>3 DEF HeardOK
<1> QED
  BY <1>4, <1>5

\* A frame that is received is the reply, whole.
LEMMA FrameIsReply ==
  ASSUME TypeOK, LinkOK, HeardOK, uart_recive_All = 1
  PROVE  CRC16_check /\ buf.no_use = uartnum /\ mem["apdu"].pay = Reply(phone.pay)
<1>1. /\ buf.data = "apdu" /\ buf.length = FrameLen /\ buf.cmd = Apdu /\ buf.crc16 = Sum
  BY Complete
<1>2. Replying
  BY DEF LinkOK, Stage, Idle, Queued, Sent, Refused, Working, Answering, Silent
<1>3. olddata = 7
  BY <1>2 DEF Replying
<1>4. buf.no_use = uartnum /\ mem["apdu"].pay = Reply(phone.pay)
  BY <1>3 DEF HeardOK, Untouched, ReplyComes
<1> QED
  BY <1>1, <1>4 DEF CRC16_check, Sum

LEMMA ReceiveHeard ==
  ASSUME TypeOK, Retries, LinkOK, HeardOK, Receive PROVE HeardOK'
<1>1. CASE NothingReceived
  BY <1>1, QuietHeard
<1>2. CASE FrameRefused
  BY <1>2, FrameIsReply DEF FrameRefused, FrameTaken
<1>3. CASE FrameRepeated
  <2>1. uart_recive_All = 1 /\ CRC16_check /\ buf.crc16 = CRC_old
    BY <1>3 DEF FrameRepeated, FrameTaken
  <2>2. Ack_recive_enable = 1
    BY <2>1, Complete DEF TypeOK, WaitType, HeardOK, Untouched
  <2>3. buf.crc16 = 0
    BY <2>1, <2>2 DEF Retries, CRCForgotten
  <2>4. mem[buf.data].pay \in Nat /\ buf.length \in Nat /\ buf.cmd \in Nat /\ buf.no_use \in Nat
    BY DEF TypeOK, MemoryType
  <2> QED
    BY <2>1, <2>3, <2>4, CrcPositive DEF CRC16_check
<1>4. CASE FrameAccepted
  <2>1. /\ FrameTaken /\ toStm' = toStm /\ Ack_recive_enable' = 0 /\ Uart_cmdprogam
        /\ heard' = heard /\ uart_recive_All = 1
    BY <1>4 DEF FrameAccepted, FrameTaken
  <2>2. /\ Silent' /\ stmWork' = stmWork /\ stmReply' = stmReply /\ uart_send_flag' = uart_send_flag
        /\ Apdu_len_blekey' = Apdu_len_blekey
    BY <2>1, AfterFrame
  <2>3. /\ stmWork = Nothing /\ uart_send_flag = 0 /\ buf.data = "apdu" /\ buf.cmd = Apdu
        /\ ReplyIsNew /\ Busy /\ connected /\ Apdu_len_blekey = 0
    BY <2>1, Complete
  <2>4. mem["apdu"].pay = Reply(phone.pay)
    BY <2>1, FrameIsReply
  <2>5. ble' = [kind |-> "reply", pay |-> Reply(phone.pay)] /\ uart_waitack_flag' = 1
    BY <2>1, <2>3, <2>4 DEF Uart_cmdprogam, Send_bluetoothdata
  <2>6. stmReply # Nothing => stmReply.pay = Reply(phone.pay)
    BY <2>3 DEF ReplyIsNew, LinkOK, KeptOK
  <2>7. Untouched'
    BY <2>1, <2>2, QuietUntouched
  <2>8. Told'
    <3>1. ~Busy' /\ ble' # Nothing /\ uart_waitack_flag' # 2
      BY <2>1, <2>2, <2>3, <2>5, NothingIsNone DEF Busy
    <3> QED
      BY <2>1, <2>2, <2>3, <2>5, <2>6, <3>1 DEF HeardOK, Told
  <2> QED
    BY <2>7, <2>8 DEF HeardOK
<1> QED
  BY <1>1, <1>2, <1>3, <1>4 DEF Receive

LEMMA AckHeard ==
  ASSUME TypeOK, Retries, LinkOK, HeardOK, AckFailed \/ AckSucceeded PROVE HeardOK'
<1>1. /\ ACK_recive_satus # 0 /\ Ack_recive_enable = 1
      /\ ACK_recive_satus' = 0 /\ uart_recive_All' = 0 /\ olddata' = 0
      /\ pc = "ack" /\ pc' = "nack"
      /\ UNCHANGED <<buf, mem, uartnum, mode, Apdu_len_blekey, phone,
                     connected, heard, stmWork, stmReply, toStm, fromStm>>
  BY DEF AckFailed, AckSucceeded, AckTaken, pass, memory, stm, line
<1>2. /\ fromStm = <<>> /\ Waits /\ Busy /\ (ACK_recive_satus = 1 => buf.data = "status")
  BY <1>1, Acknowledged
<1>3. Silent' /\ (Busy' => Busy)
  BY <1>1, <1>2 DEF Silent
<1>4. CASE AckFailed
  <2>1. Again /\ ble' = ble /\ uart_waitack_flag' = uart_waitack_flag
    BY <1>4 DEF AckFailed
  <2>2. Ack_recive_enable' # 2
    BY <1>1, <2>1 DEF Again
  <2>3. Untouched'
    BY <1>3, <2>2, QuietUntouched
  <2>4. Told'
    BY <1>1, <1>2, <2>1, ToldKept DEF HeardOK, mode
  <2> QED
    BY <2>3, <2>4 DEF HeardOK
<1>5. CASE AckSucceeded
  <2>1. /\ Ack_recive_enable' = 0 /\ uart_send_flag' = 0 /\ buf.data = "status"
        /\ IF Main_status = "blekey"
           THEN Send_bluetoothdata([kind |-> "ok", pay |-> 0]) /\ uart_waitack_flag' = 1
           ELSE ble' = ble /\ uart_waitack_flag' = uart_waitack_flag
    BY <1>2, <1>5 DEF AckSucceeded, Waits
  <2>2. Untouched'
    BY <1>3, <2>1, QuietUntouched
  <2>3. ~Busy'
    BY <2>1 DEF Busy
  <2>4. CASE Main_status # "blekey"
    <3>1. Told'
      BY <1>1, <2>1, <2>3, <2>4, ToldKept DEF HeardOK, mode
    <3> QED
      BY <2>2, <3>1 DEF HeardOK
  <2>5. CASE Main_status = "blekey"
    <3>1. Apdu_len_blekey = 0 /\ connected /\ stmReply = Nothing
      BY <1>2, <2>1, <2>5 DEF LinkOK, PhoneOK, KeptOK
    <3>2. ble' = [kind |-> "ok", pay |-> 0] /\ uart_waitack_flag' = 1
      BY <2>1, <2>5, <3>1 DEF Send_bluetoothdata
    <3>3. Told'
      BY <1>1, <2>3, <3>1, <3>2, NothingIsNone DEF HeardOK, Told
    <3> QED
      BY <2>2, <3>3 DEF HeardOK
  <2> QED
    BY <2>4, <2>5
<1> QED
  BY <1>4, <1>5

LEMMA AckAwaitedHeard ==
  ASSUME TypeOK, LinkOK, HeardOK, AckAwaited PROVE HeardOK'
<1>1. /\ pc = "ack" /\ Ack_recive_enable = 1
      /\ UNCHANGED <<rx, memory, uartnum, mode, Apdu_len_blekey, uart_waitack_flag, air, stm, line>>
  BY DEF AckAwaited
<1>2. Ack_recive_enable' # 2
  BY <1>1 DEF AckAwaited, Again
<1>3. Untouched'
  BY <1>1, <1>2, UntouchedKept DEF HeardOK, rx, memory, air, line
<1>4. Busy
  BY <1>1 DEF Busy
<1>5. Told'
  BY <1>1, <1>4, ToldKept DEF HeardOK, memory, mode, air, stm, line
<1> QED
  BY <1>3, <1>5 DEF HeardOK

LEMMA StatusHeard ==
  ASSUME TypeOK, LinkOK, HeardOK, Bluetooyhkeydisplay PROVE HeardOK'
<1>1. CASE NothingToDo
  BY <1>1, QuietHeard
<1>2. CASE SendApdu
  <2>1. /\ pc = "status" /\ Apdu_len_blekey = 1 /\ Apdu_len_blekey' = 0
        /\ UNCHANGED <<rx, wait, mode, uart_waitack_flag, air, stm, line>>
    BY <1>2 DEF SendApdu
  <2>2. uart_waitack_flag = 0
    BY <2>1 DEF HeardOK, Told
  <2>3. Idle
    BY <2>1 DEF LinkOK, PhoneOK, RestOK
  <2>4. Silent' /\ Ack_recive_enable' # 2
    BY <2>1, <2>3 DEF Idle, Silent, rx, line, wait, HeardOK, Untouched
  <2>5. Told'
    BY <2>1, <2>2 DEF HeardOK, Told, mode, air, stm, line
  <2> QED
    BY <2>4, <2>5, QuietUntouched DEF HeardOK
<1>3. CASE PhoneIsGone
  BY <1>3 DEF PhoneIsGone, LinkOK, PhoneOK
<1> QED
  BY <1>1, <1>2, <1>3 DEF Bluetooyhkeydisplay

\* The command joins the confirmations, behind them.
LEMMA SlicesHeard ==
  ASSUME TypeOK, LinkOK, HeardOK, uart_send_Bty PROVE HeardOK'
<1>1. /\ pc = "slices"
      /\ UNCHANGED <<rx, memory, tx, wait, mode, Apdu_len_blekey, uart_waitack_flag, air,
                     stm, fromStm>>
  BY DEF uart_send_Bty
<1>2. Untouched'
  BY <1>1, UntouchedKept DEF HeardOK, Untouched, rx, memory, tx, wait, air
<1>3. Busy' = Busy /\ buf' = buf
  BY <1>1 DEF tx, wait, memory, Busy
<1>4. CASE queued = Nothing
  <2>1. toStm' = toStm
    BY <1>4 DEF uart_send_Bty
  <2>2. Told'
    BY <1>1, <1>3, <2>1, ToldKept DEF HeardOK, mode, air, stm
  <2> QED
    BY <1>2, <2>2 DEF HeardOK
<1>5. CASE queued # Nothing
  <2>1. Queued
    BY <1>5 DEF LinkOK, Stage, Idle, Sent, Refused, Working, Answering, Replying
  <2>2. toStm' = Append(toStm, queued) /\ queued \in Frames
    BY <1>5 DEF uart_send_Bty, Transmit, TypeOK, PassType
  <2>3. /\ DOMAIN toStm' = 1 .. Len(toStm) + 1 /\ DOMAIN toStm = 1 .. Len(toStm)
        /\ Len(toStm) \in Nat
        /\ toStm'[Len(toStm) + 1] = queued /\ \A i \in DOMAIN toStm : toStm'[i] = toStm[i]
    <3>1. toStm \in Seq(Frames \union Acks)
      BY DEF TypeOK, LineType
    <3> QED
      BY <2>2, <3>1
  <2>4. Clear(toStm) /\ stmWork = Nothing /\ queued.kind = "frame" /\ queued # Confirmation
    BY <2>1, <2>2, MessagesDiffer DEF Queued, Current
  <2>5. \A i, j \in DOMAIN toStm' :
           toStm'[i] = Confirmation /\ toStm'[j].kind = "frame" /\ toStm'[j].cmd = Apdu => i < j
    <3> SUFFICES ASSUME NEW i \in DOMAIN toStm', NEW j \in DOMAIN toStm',
                        toStm'[i] = Confirmation, toStm'[j].kind = "frame"
                 PROVE  i < j
      OBVIOUS
    <3>1. i \in DOMAIN toStm
      BY <2>3, <2>4
    <3>2. j = Len(toStm) + 1
      BY <2>3, <2>4, MessagesDiffer DEF Clear
    <3> QED
      BY <2>3, <3>1, <3>2
  <2>6. (\E i \in DOMAIN toStm' : toStm'[i] = Confirmation)
          => \E i \in DOMAIN toStm : toStm[i] = Confirmation
    BY <2>3, <2>4
  <2>7. UNCHANGED <<ble, heard, stmWork, stmReply, uart_enable_flag, Apdu_len_blekey,
                    uart_waitack_flag>>
    BY <1>1 DEF air, stm, mode
  <2>8. Told'
    BY <1>1, <1>3, <2>4, <2>5, <2>6, <2>7 DEF HeardOK, Told
  <2> QED
    BY <1>2, <2>8 DEF HeardOK
<1> QED
  BY <1>4, <1>5

LEMMA MainLoopHeard ==
  ASSUME TypeOK, Retries, LinkOK, HeardOK, MainLoop PROVE HeardOK'
<1>1. NoStrayTimeout
  BY DEF Retries
<1>2. ~RefusalAwaited /\ ~RepetitionTaken
  BY DEF RefusalAwaited, RepetitionTaken, HeardOK, Untouched
<1>3. UartDataSendrecive => HeardOK'
  BY <1>2, QuietHeard, SuccessAckHeard, ReceiveHeard, AckHeard, AckAwaitedHeard
  DEF UartDataSendrecive
<1> QED
  BY <1>1, <1>3, CommandsHeard, StatusHeard, SlicesHeard DEF MainLoop

\* What of a reply is stored, besides what Coming tells.
LEMMA ReplyByteStored ==
  ASSUME TypeOK, Replying, uart_event_handle, NEW n, NEW p, Coming(n, p)
  PROVE  /\ olddata \in {0, 1, 2, 3, 4} => olddata' \notin {6, 7}
         /\ olddata = 5 => buf'.no_use = n /\ olddata' = 6 /\ uart_recive_l' = 0
         /\ olddata = 6 => /\ buf'.no_use = buf.no_use
                           /\ uart_recive_l = 0 => mem'["apdu"].pay = p
                           /\ uart_recive_l = 1 => mem'["apdu"].pay = mem["apdu"].pay
         /\ olddata \in 0 .. 6
<1> DEFINE b == Head(fromStm)
<1>1. /\ fromStm # <<>>
      /\ \/ FirstByte(b) \/ SecondByte(b) \/ HeaderByte(b)
         \/ DataByte(b) \/ LateByte \/ AckByte(b)
  BY DEF uart_event_handle
<1>2. olddata \in 0 .. 6
  BY <1>1 DEF Coming
<1>3. ASSUME olddata \in {0, 1, 2, 3, 4} PROVE olddata' \notin {6, 7}
  <2>1. FirstByte(b) \/ SecondByte(b) \/ HeaderByte(b)
    BY <1>1, <1>3 DEF DataByte, LateByte, AckByte
  <2> HIDE DEF b
  <2> QED
    BY <1>3, <2>1 DEF FirstByte, SecondByte, HeaderByte
<1>4. ASSUME olddata = 5 PROVE buf'.no_use = n /\ olddata' = 6 /\ uart_recive_l' = 0
  <2>0. fromStm = <<n, p, Sum>>
    BY <1>4 DEF Coming
  <2>1. b = n
    BY <2>0, ByteTaken
  <2>2. HeaderByte(b)
    BY <1>1, <1>4 DEF FirstByte, SecondByte, DataByte, LateByte, AckByte
  <2> HIDE DEF b
  <2>3. buf' = [buf EXCEPT !.no_use = b] /\ uart_recive_l' = 0 /\ olddata' = 6
    BY <1>4, <2>2 DEF HeaderByte
  <2> QED
    BY <2>1, <2>3 DEF TypeOK, MemoryType
<1>5. ASSUME olddata = 6
      PROVE  /\ buf'.no_use = buf.no_use
             /\ uart_recive_l = 0 => mem'["apdu"].pay = p
             /\ uart_recive_l = 1 => mem'["apdu"].pay = mem["apdu"].pay
  <2>1. DataByte(b)
    BY <1>1, <1>5 DEF FirstByte, SecondByte, HeaderByte, LateByte, AckByte
  <2>2. uart_recive_l = 0 => b = p
    <3>1. uart_recive_l = 0 => fromStm = <<p, Sum>>
      BY <1>5 DEF Coming
    <3> QED
      BY <3>1, ByteTaken
  <2> HIDE DEF b
  <2>3. buf.data = "apdu"
    BY DEF Replying
  <2>4. mem' = [mem EXCEPT !["apdu"] = [pay |-> IF uart_recive_l = 0 THEN b ELSE @.pay,
                                        crc |-> IF uart_recive_l = 1 THEN b ELSE @.crc]]
    BY <2>1, <2>3 DEF DataByte
  <2>5. buf' = buf \/ buf' = [buf EXCEPT !.crc16 = b]
    BY <2>1 DEF DataByte
  <2>6. mem'["apdu"].pay = IF uart_recive_l = 0 THEN b ELSE mem["apdu"].pay
    BY <2>4 DEF TypeOK, MemoryType, Areas
  <2> QED
    BY <2>2, <2>5, <2>6 DEF TypeOK, MemoryType
<1> QED
  BY <1>2, <1>3, <1>4, <1>5

LEMMA InterruptHeard ==
  ASSUME TypeOK, LinkOK, HeardOK, uart_event_handle PROVE HeardOK'
<1>1. /\ fromStm # <<>>
      /\ UNCHANGED <<pc, uart_send_flag, uartnum, Ack_recive_enable, phone, mode,
                     Apdu_len_blekey, uart_waitack_flag, air, stm, toStm>>
  BY DEF uart_event_handle, tx, wait, air
<1>2. Answering \/ Replying
  BY <1>1, ByteExpected
<1>3. CASE Answering
  <2>1. Answering' /\ buf' = buf
    BY <1>3, AckByteArrives
  <2>2. ~ReplyComes'
    <3>1. PICK ok \in {0, 1} : \/ olddata' = 0 /\ fromStm' = <<S5A, A5, ok>>
                               \/ olddata' \in {8, 9}
      BY <2>1 DEF Answering
    <3>2. Head(<<S5A, A5, ok>>) = S5A /\ A5 # S5A
      BY ByteTaken DEF A5, S5A
    <3> QED
      BY <3>1, <3>2 DEF ReplyComes
  <2>3. Untouched'
    BY <1>1, <2>2 DEF HeardOK, Untouched
  <2>4. Told'
    BY <1>1, <2>1, ToldKept DEF HeardOK, mode, air, stm, Busy
  <2> QED
    BY <2>3, <2>4 DEF HeardOK
<1>4. CASE Replying
  <2>1. ReplyComes
    BY <1>4, ByteTaken DEF Replying, Coming, ReplyComes
  <2>2. PICK n, p : n = uartnum /\ p = Reply(phone.pay)
    OBVIOUS
  <2>3. Coming(n, p)
    BY <2>1, <2>2 DEF HeardOK, Untouched
  <2>4. /\ Coming(n, p)' /\ buf'.data = buf.data
    BY <1>4, <2>3, ReplyByteComes
  <2>5. n = uartnum' /\ p = Reply(phone.pay)'
    BY <1>1, <2>2
  <2>6. Coming(uartnum, Reply(phone.pay))'
    BY <2>4, <2>5
  <2>7. /\ olddata' \in {6, 7} => buf'.no_use = uartnum'
        /\ olddata' = 7 \/ (olddata' = 6 /\ uart_recive_l' = 1)
             => mem'["apdu"].pay = Reply(phone.pay)'
    <3>1. CASE olddata \in {0, 1, 2, 3, 4}
      BY <1>4, <2>3, <3>1, ReplyByteStored
    <3>2. CASE olddata = 5
      BY <1>4, <2>3, <2>5, <3>2, ReplyByteStored
    <3>3. CASE olddata = 6
      <4>1. buf.no_use = uartnum /\ (uart_recive_l = 1 => mem["apdu"].pay = p)
        BY <2>1, <2>2, <3>3 DEF HeardOK, Untouched
      <4>2. uart_recive_l \in {0, 1}
        BY <2>3, <3>3 DEF Coming
      <4> QED
        BY <1>1, <1>4, <2>3, <2>5, <3>3, <4>1, <4>2, ReplyByteStored
    <3> QED
      BY <1>4, <2>3, <3>1, <3>2, <3>3, ReplyByteStored
  <2>8. Untouched'
    BY <1>1, <2>6, <2>7 DEF HeardOK, Untouched
  <2>9. Told'
    BY <1>1, <2>4, ToldKept DEF HeardOK, mode, air, stm, Busy
  <2> QED
    BY <2>8, <2>9 DEF HeardOK
<1> QED
  BY <1>2, <1>3, <1>4

\* The timer and the phone.
LEMMA TimerHeard ==
  ASSUME HeardOK, TimeOutUart PROVE HeardOK'
<1>1. UNCHANGED <<pc, rx, memory, tx, Ack_recive_enable, mode, Apdu_len_blekey,
                  uart_waitack_flag, air, stm, line>>
  BY DEF TimeOutUart
<1>2. Untouched'
  BY <1>1, UntouchedKept DEF HeardOK, Untouched, rx, memory, tx, air, line
<1>3. Told'
  BY <1>1, ToldKept DEF HeardOK, memory, tx, mode, air, stm, line, Busy
<1> QED
  BY <1>2, <1>3 DEF HeardOK

LEMMA PhoneHeard ==
  ASSUME TypeOK, LinkOK, HeardOK, Phone, downs' = 0 PROVE HeardOK'
<1>1. CASE PhoneAsks
  <2>1. /\ phone = Nothing
        /\ UNCHANGED <<pc, rx, buf, tx, wait, mode, Apdu_len_blekey, uart_waitack_flag, ble,
                       heard, stm, line>>
    BY <1>1 DEF PhoneAsks
  <2>2. ~ReplyComes
    BY <2>1, ReplyExpected, NothingIsNone
  <2>3. Untouched'
    BY <2>1, <2>2, UntouchedKept DEF HeardOK, Untouched, rx, tx, wait, line
  <2>4. Told'
    BY <2>1, ToldKept DEF HeardOK, tx, wait, mode, stm, line, Busy
  <2> QED
    BY <2>3, <2>4 DEF HeardOK
<1>2. CASE PhoneGets
  <2>1. /\ ble # Nothing /\ ble' = Nothing
        /\ heard' = IF ble.kind = "reply" THEN ble.pay ELSE heard
        /\ uart_waitack_flag' = IF uart_waitack_flag = 1 THEN 2 ELSE uart_waitack_flag
        /\ UNCHANGED <<pc, rx, memory, tx, wait, mode, Apdu_len_blekey, stm, line>>
    BY <1>2 DEF PhoneGets
  <2>2. ~ReplyComes
    BY <2>1, ReplyExpected
  <2>3. Untouched'
    BY <2>1, <2>2, UntouchedKept DEF HeardOK, Untouched, rx, memory, tx, wait, line
  <2>4. Apdu_len_blekey # 1 /\ ~(Busy /\ buf.data = "apdu")
    BY <2>1 DEF LinkOK, PhoneOK
  <2>5. ble.kind \in {"ok", "reply"}
    BY <2>1 DEF TypeOK, AirType, Answers
  <2>6. stmReply = Nothing \/ ble.kind = "reply"
    BY <2>5 DEF HeardOK, Told
  <2>7. stmReply = Nothing \/ heard' = stmReply.pay
    BY <2>1, <2>6 DEF HeardOK, Told
  <2>8. /\ UNCHANGED <<stmWork, stmReply, toStm, uart_enable_flag, buf>> /\ Busy' = Busy
        /\ ble'.kind = "none" /\ uart_waitack_flag' # 1
    BY <2>1, NothingIsNone DEF memory, tx, wait, mode, stm, line, Busy
  <2>9. Told'
    BY <2>1, <2>4, <2>7, <2>8 DEF HeardOK, Told
  <2> QED
    BY <2>3, <2>9 DEF HeardOK
<1>3. ~Disconnect /\ ~Connect
  BY DEF Disconnect, Connect, TypeOK, LinkOK, PhoneOK
<1> QED
  BY <1>1, <1>2, <1>3 DEF Phone

\* The STM32 takes a message: what is left to be shown.
LEMMA TakenTold ==
  ASSUME TypeOK, Told, toStm # <<>>, toStm' = Tail(toStm),
         stmReply' = stmReply \/ stmReply' = Nothing,
         stmWork' # Nothing => toStm' = <<>>,
         UNCHANGED <<pc, uart_send_flag, Ack_recive_enable, buf, mode, Apdu_len_blekey,
                     uart_waitack_flag, ble, heard>>
  PROVE  Told'
<1>1. /\ DOMAIN toStm' = 1 .. Len(toStm) - 1 /\ DOMAIN toStm = 1 .. Len(toStm)
      /\ Len(toStm) \in Nat /\ \A j \in DOMAIN toStm' : toStm'[j] = toStm[j + 1]
  <2>1. toStm \in Seq(Frames \union Acks)
    BY DEF TypeOK, LineType
  <2> QED
    BY <2>1
<1>2. \A i, j \in DOMAIN toStm' :
        toStm'[i] = Confirmation /\ toStm'[j].kind = "frame" /\ toStm'[j].cmd = Apdu => i < j
  <2> SUFFICES ASSUME NEW i \in DOMAIN toStm', NEW j \in DOMAIN toStm',
                      toStm'[i] = Confirmation, toStm'[j].kind = "frame", toStm'[j].cmd = Apdu
               PROVE  i < j
    OBVIOUS
  <2>1. i + 1 \in DOMAIN toStm /\ j + 1 \in DOMAIN toStm /\ i \in Nat /\ j \in Nat
    BY <1>1
  <2>2. toStm[i + 1] = Confirmation /\ toStm[j + 1].kind = "frame" /\ toStm[j + 1].cmd = Apdu
    BY <1>1
  <2>3. i + 1 < j + 1
    BY <2>1, <2>2 DEF Told
  <2> QED
    BY <2>1, <2>3
<1>3. (\E i \in DOMAIN toStm' : toStm'[i] = Confirmation)
        => \E i \in DOMAIN toStm : toStm[i] = Confirmation
  BY <1>1
<1>4. Busy' = Busy /\ uart_enable_flag' = uart_enable_flag
  BY DEF Busy, mode
<1> QED
  BY <1>2, <1>3, <1>4 DEF Told

\* A command arrives; an APDU is then the last message of the line.
LEMMA CommandHeard ==
  ASSUME TypeOK, LinkOK, HeardOK, StmReceives, Head(toStm) # Confirmation, Sent PROVE HeardOK'
<1> DEFINE m == Head(toStm)
<1>1. /\ toStm # <<>> /\ toStm' = Tail(toStm) /\ StmTakes(m)
      /\ UNCHANGED <<pc, rx, uart_send_flag, uartnum, Ack_recive_enable, buf, mem, phone, mode,
                     Apdu_len_blekey, uart_waitack_flag, ble, heard>>
  BY DEF StmReceives, memory, tx, wait, air
<1>2. PICK f : Current(f) /\ Carries(toStm, f)
  BY DEF Sent
<1>3. m = f /\ Clear(toStm') /\ m.kind = "frame"
  <2>1. f # Confirmation /\ f.kind = "frame"
    BY <1>2, MessagesDiffer DEF Current
  <2> QED
    BY <1>1, <1>2, <2>1, FirstTaken DEF TypeOK, LineType
<1>4. m.cmd = Apdu => toStm' = <<>>
  <2> SUFFICES ASSUME m.cmd = Apdu, toStm' # <<>> PROVE FALSE
    OBVIOUS
  <2>1. toStm \in Seq(Frames \union Acks)
    BY DEF TypeOK, LineType
  <2>2. /\ DOMAIN toStm' = 1 .. Len(toStm) - 1 /\ DOMAIN toStm = 1 .. Len(toStm)
        /\ Len(toStm) \in Nat /\ toStm[1] = m /\ Len(toStm) > 1 /\ toStm'[1] = toStm[2]
    BY <1>1, <2>1
  <2>3. toStm[2] = Confirmation
    BY <1>3, <2>2 DEF Clear
  <2> HIDE DEF m
  <2>4. 2 < 1
    BY <1>3, <2>2, <2>3 DEF HeardOK, Told
  <2> QED
    BY <2>4
<1> HIDE DEF m
<1>5. /\ Waits /\ stmWork = Nothing /\ fromStm = <<>> /\ olddata = 0 /\ Busy
      /\ Ack_recive_enable = 1 /\ Loaded
  BY DEF Sent, Waits, Busy, Silent
<1>6. /\ uart_enable_flag = 1
      /\ buf.data = "apdu" => phone.pay \in Apdus
  BY <1>5 DEF LinkOK, PhoneOK, TypeOK, ModeType
<1>7. m.no = uartnum /\ m.cmd = buf.cmd
  BY <1>2, <1>3 DEF Current
<1>8. olddata' = 0
  BY <1>1, <1>5 DEF rx
<1>9. ASSUME stmReply' = stmReply \/ stmReply' = Nothing,
             stmWork' # Nothing => m.cmd = Apdu
      PROVE  Told'
  BY <1>1, <1>4, <1>9, TakenTold DEF HeardOK
<1>10. ASSUME ~ReplyComes' PROVE Untouched'
  BY <1>1, <1>10 DEF HeardOK, Untouched
<1>11. CASE ~Whole(m)
  <2>1. StmSends(AckBytes(FALSE)) /\ stmWork' = stmWork /\ stmReply' = stmReply
    BY <1>1, <1>3, <1>11 DEF StmTakes, stm
  <2>2. AckBytes(FALSE) \in Seq(Nat) /\ AckBytes(FALSE) = <<S5A, A5, 1>>
    BY AckBytesType DEF AckBytes
  <2>3. fromStm' = <<S5A, A5, 1>>
    BY <1>5, <1>6, <2>1, <2>2, BytesSent
  <2>4. ~ReplyComes'
    <3>1. Head(<<S5A, A5, 1>>) = S5A /\ A5 # S5A
      BY ByteTaken DEF A5, S5A
    <3> QED
      BY <1>8, <2>3, <3>1 DEF ReplyComes
  <2> QED
    BY <1>5, <1>9, <1>10, <2>1, <2>4 DEF HeardOK
<1>12. CASE Whole(m) /\ m.cmd = Change
  <2>0. m.cmd # Apdu /\ m.kind # "ack"
    BY <1>3, <1>12 DEF Apdu, Change
  <2>1. StmSends(AckBytes(TRUE)) /\ stmWork' = Nothing /\ stmReply' = Nothing
    <3>1. \/ ~Whole(m)
          \/ StmSends(AckBytes(TRUE)) /\ stmWork' = Nothing /\ stmReply' = Nothing
      BY <1>1, <2>0, ZenonT(30) DEF StmTakes
    <3> QED
      BY <1>12, <3>1
  <2>2. AckBytes(TRUE) \in Seq(Nat) /\ AckBytes(TRUE) = <<S5A, A5, 0>>
    BY AckBytesType DEF AckBytes
  <2>3. fromStm' = <<S5A, A5, 0>>
    BY <1>5, <1>6, <2>1, <2>2, BytesSent
  <2>4. ~ReplyComes'
    <3>1. Head(<<S5A, A5, 0>>) = S5A /\ A5 # S5A
      BY ByteTaken DEF A5, S5A
    <3> QED
      BY <1>8, <2>3, <3>1 DEF ReplyComes
  <2> QED
    BY <1>9, <1>10, <2>1, <2>4 DEF HeardOK
<1>13. CASE Whole(m) /\ m.cmd = Apdu
  <2>1. buf.data = "apdu"
    BY <1>5, <1>7, <1>13 DEF Loaded, Apdu, Change
  <2>2. IF stmReply # Nothing /\ stmReply.no = m.no
        THEN StmSends(ReplyBytes(stmReply)) /\ UNCHANGED stm
        ELSE /\ stmWork' = [kind |-> "apdu", pay |-> m.pay, no |-> m.no]
             /\ stmReply' = Nothing
             /\ UNCHANGED fromStm
    BY <1>1, <1>3, <1>13 DEF StmTakes, Apdu, Change
  <2>3. CASE stmReply # Nothing /\ stmReply.no = m.no
    <3>1. StmSends(ReplyBytes(stmReply)) /\ stmWork' = stmWork /\ stmReply' = stmReply
      BY <2>2, <2>3 DEF stm
    <3>2. stmReply.no = uartnum /\ stmReply.pay = Reply(phone.pay)
      BY <1>5, <1>7, <2>1, <2>3 DEF LinkOK, KeptOK
    <3>3. olddata' = olddata
      BY <1>5, <1>8
    <3>4. Coming(uartnum, Reply(phone.pay))'
      BY <1>1, <1>5, <1>6, <2>1, <3>1, <3>2, <3>3, ReplySent
    <3>5. Untouched'
      BY <1>1, <1>8, <3>4 DEF HeardOK, Untouched
    <3> QED
      BY <1>5, <1>9, <3>1, <3>5 DEF HeardOK
  <2>4. CASE ~(stmReply # Nothing /\ stmReply.no = m.no)
    <3>1. stmReply' = Nothing /\ fromStm' = fromStm
      BY <2>2, <2>4
    <3>2. ~ReplyComes'
      BY <1>5, <1>8, <3>1 DEF ReplyComes
    <3> QED
      BY <1>9, <1>10, <1>13, <3>1, <3>2 DEF HeardOK
  <2> QED
    BY <2>3, <2>4
<1> QED
  <2>1. m.cmd \in {Apdu, Change}
    BY <1>5, <1>7 DEF Loaded
  <2> QED
    BY <1>11, <1>12, <1>13, <2>1

LEMMA ConfirmationHeard ==
  ASSUME TypeOK, HeardOK, StmReceives, Head(toStm) = Confirmation PROVE HeardOK'
<1>1. /\ toStm # <<>> /\ toStm' = Tail(toStm) /\ StmTakes(Confirmation)
      /\ UNCHANGED <<pc, rx, uart_send_flag, uartnum, Ack_recive_enable, buf, mem, phone, mode,
                     Apdu_len_blekey, uart_waitack_flag, ble, heard>>
  BY DEF StmReceives, memory, tx, wait, air
<1>2. stmReply' = Nothing /\ UNCHANGED <<stmWork, fromStm>>
  BY <1>1, MessagesDiffer DEF StmTakes
<1>3. stmWork = Nothing
  BY <1>1 DEF HeardOK, Told
<1>4. Told'
  BY <1>1, <1>2, <1>3, TakenTold DEF HeardOK
<1>5. Untouched'
  BY <1>1, <1>2, UntouchedKept DEF HeardOK, Untouched, rx
<1> QED
  BY <1>4, <1>5 DEF HeardOK

LEMMA StmHeard == ASSUME TypeOK, LinkOK, HeardOK, Stm32 PROVE HeardOK'
<1>1. CASE StmReceives
  <2>1. toStm # <<>>
    BY <1>1 DEF StmReceives
  <2>2. Head(toStm) # Confirmation => Sent
    <3>1. Head(toStm) # Confirmation => ~Clear(toStm)
      BY <2>1, FirstTaken DEF TypeOK, LineType
    <3> QED
      BY <3>1, NotClear DEF Refused, HeardOK, Untouched
  <2> QED
    BY <1>1, <2>2, ConfirmationHeard, CommandHeard
<1>2. CASE StmAnswers
  <2> DEFINE r == [kind |-> "reply", pay |-> Reply(stmWork.pay), no |-> stmWork.no]
  <2>1. Working /\ toStm = <<>>
    BY <1>2 DEF StmAnswers, LinkOK, Stage, Idle, Queued, Sent, Refused, Answering, Replying,
                HeardOK, Told
  <2>2. /\ StmSends(ReplyBytes(r)) /\ stmReply' = r /\ stmWork' = Nothing
        /\ UNCHANGED <<pc, rx, uart_send_flag, uartnum, Ack_recive_enable, buf, mem, phone, mode,
                       Apdu_len_blekey, uart_waitack_flag, ble, heard, toStm>>
    BY <1>2 DEF StmAnswers, memory, tx, wait, air
  <2>3. r.no = uartnum /\ r.pay = Reply(phone.pay)
    BY <2>1 DEF Working
  <2> HIDE DEF r
  <2>4. olddata' = olddata
    BY <2>2 DEF rx
  <2>5. fromStm = <<>> /\ olddata = 0 /\ Busy /\ buf.data = "apdu"
    BY <2>1 DEF Working, Silent, Waits, Busy
  <2>6. uart_enable_flag = 1 /\ phone.pay \in Apdus /\ ble = Nothing
    BY <2>5 DEF LinkOK, PhoneOK, TypeOK, ModeType
  <2>7. Coming(uartnum, Reply(phone.pay))'
    BY <2>2, <2>3, <2>4, <2>5, <2>6, ReplySent
  <2>8. Untouched'
    BY <2>2, <2>4, <2>5, <2>7 DEF HeardOK, Untouched
  <2>9. uart_waitack_flag = 0
    BY <2>5 DEF HeardOK, Told
  <2>10. Told'
    <3>1. Busy' = Busy /\ uart_enable_flag' = uart_enable_flag
      BY <2>2 DEF Busy, mode
    <3>2. ble.kind = "none" /\ DOMAIN toStm = {}
      BY <2>1, <2>6, NothingIsNone
    <3> QED
      BY <2>1, <2>2, <2>9, <3>1, <3>2 DEF HeardOK, Told
  <2> QED
    BY <2>8, <2>10 DEF HeardOK
<1> QED
  BY <1>1, <1>2 DEF Stm32

\* What a disturbance of the way to the STM32 leaves to be shown.
LEMMA DisturbedHeard ==
  ASSUME HeardOK, NEW k, Fault(k), fromStm' = fromStm, toStm # <<>>,
         \A i, j \in DOMAIN toStm' :
            toStm'[i] = Confirmation /\ toStm'[j].kind = "frame" /\ toStm'[j].cmd = Apdu => i < j,
         (\E i \in DOMAIN toStm' : toStm'[i] = Confirmation)
           => \E i \in DOMAIN toStm : toStm[i] = Confirmation
  PROVE  HeardOK'
<1>1. UNCHANGED <<pc, rx, uart_send_flag, uartnum, Ack_recive_enable, buf, mem, phone,
                  uart_enable_flag, Apdu_len_blekey, uart_waitack_flag, ble, heard, stmWork,
                  stmReply>>
  BY DEF Fault, memory, tx, wait, mode, air, stm
<1>2. Untouched'
  BY <1>1, UntouchedKept DEF HeardOK, Untouched, rx
<1>3. Busy' = Busy
  BY <1>1 DEF Busy
<1>4. Told'
  BY <1>1, <1>3 DEF HeardOK, Told
<1> QED
  BY <1>2, <1>4 DEF HeardOK

LEMMA LineHeard ==
  ASSUME TypeOK, RepliesSafe, HeardOK, Line PROVE HeardOK'
<1>1. ~ReplyDamaged /\ ~ReplyRepeated /\ ~ByteDamaged /\ ~ByteLost
  BY DEF ReplyDamaged, ReplyRepeated, ByteDamaged, ByteLost, Fault, RepliesSafe
<1>2. toStm \in Seq(Frames \union Acks)
  BY DEF TypeOK, LineType
<1>3. CASE FrameDamaged
  <2>1. PICK k \in DOMAIN toStm :
          toStm[k].kind = "frame" /\ toStm' = [toStm EXCEPT ![k].crc = 0]
    BY <1>3 DEF FrameDamaged
  <2>2. PICK d : d = [toStm[k] EXCEPT !.crc = 0] /\ toStm' = [toStm EXCEPT ![k] = d]
    BY <2>1
  <2>3. d.kind = "frame" /\ d.cmd = toStm[k].cmd
    <3>1. toStm[k] \in Frames
      BY <1>2, <2>1 DEF Acks
    <3> QED
      BY <2>1, <2>2, <3>1 DEF Frames
  <2>4. DOMAIN toStm' = DOMAIN toStm /\ toStm'[k] = d
        /\ \A j \in DOMAIN toStm : j # k => toStm'[j] = toStm[j]
    BY <2>2
  <2>5. \A j \in DOMAIN toStm : /\ toStm'[j].kind = toStm[j].kind
                                /\ toStm'[j].kind = "frame" => toStm'[j].cmd = toStm[j].cmd
                                /\ toStm'[j] = Confirmation => toStm[j] = Confirmation
    BY <2>1, <2>3, <2>4, MessagesDiffer
  <2>6. Fault("frame") /\ fromStm' = fromStm /\ toStm # <<>>
    BY <1>3, <2>1 DEF FrameDamaged
  <2>7. \A i, j \in DOMAIN toStm' :
          toStm'[i] = Confirmation /\ toStm'[j].kind = "frame" /\ toStm'[j].cmd = Apdu => i < j
    BY <2>4, <2>5 DEF HeardOK, Told
  <2>8. (\E i \in DOMAIN toStm' : toStm'[i] = Confirmation)
          => \E i \in DOMAIN toStm : toStm[i] = Confirmation
    BY <2>4, <2>5
  <2> QED
    BY <2>6, <2>7, <2>8, DisturbedHeard
<1>4. CASE MessageLost
  <2>1. PICK k \in DOMAIN toStm : toStm' = RemoveAt(toStm, k)
    BY <1>4 DEF MessageLost
  <2>2. Fault("lost") /\ fromStm' = fromStm /\ toStm # <<>>
    BY <1>4, <2>1 DEF MessageLost
  <2> DEFINE old(j) == IF j < k THEN j ELSE j + 1
  <2>3. /\ DOMAIN toStm' = 1 .. Len(toStm) - 1 /\ DOMAIN toStm = 1 .. Len(toStm)
        /\ Len(toStm) \in Nat /\ k \in 1 .. Len(toStm)
        /\ \A j \in 1 .. Len(toStm) - 1 : toStm'[j] = toStm[old(j)]
    BY <1>2, <2>1, ElementsOfRest
  <2>4. \A j \in DOMAIN toStm' : old(j) \in DOMAIN toStm /\ toStm'[j] = toStm[old(j)]
    BY <2>3
  <2>5. \A i, j \in DOMAIN toStm' : old(i) < old(j) => i < j
    BY <2>3
  <2> HIDE DEF old
  <2>6. \A i, j \in DOMAIN toStm' :
          toStm'[i] = Confirmation /\ toStm'[j].kind = "frame" /\ toStm'[j].cmd = Apdu => i < j
    BY <2>4, <2>5 DEF HeardOK, Told
  <2>7. (\E i \in DOMAIN toStm' : toStm'[i] = Confirmation)
          => \E i \in DOMAIN toStm : toStm[i] = Confirmation
    BY <2>4
  <2> QED
    BY <2>2, <2>6, <2>7, DisturbedHeard
<1> QED
  BY <1>1, <1>3, <1>4 DEF Line

LEMMA InitHeard == Init => HeardOK
<1> SUFFICES ASSUME Init PROVE HeardOK
  OBVIOUS
<1>1. ~ReplyComes
  BY DEF Init, ReplyComes
<1>2. Untouched
  BY <1>1 DEF Init, Untouched
<1>3. Told
  BY NothingIsNone DEF Init, Told, Busy
<1> QED
  BY <1>2, <1>3 DEF HeardOK

LEMMA HeardStep ==
  ASSUME RepliesSafe, TypeOK, Retries, LinkOK, HeardOK, [Next]_vars, downs' = 0
  PROVE  HeardOK'
<1>1. Next => HeardOK'
  BY MainLoopHeard, InterruptHeard, TimerHeard, PhoneHeard, StmHeard, LineHeard DEF Next
<1>2. ASSUME UNCHANGED vars PROVE HeardOK'
  <2>1. UNCHANGED <<pc, rx, memory, tx, wait, mode, Apdu_len_blekey, uart_waitack_flag, air,
                    stm, line>>
    BY <1>2 DEF vars
  <2>2. Untouched'
    BY <2>1, UntouchedKept DEF HeardOK, Untouched, rx, memory, tx, wait, air, line
  <2>3. Told'
    BY <2>1, ToldKept DEF HeardOK, memory, tx, wait, mode, air, stm, line, Busy
  <2> QED
    BY <2>2, <2>3 DEF HeardOK
<1> QED
  BY <1>1, <1>2

LEMMA HeardInvariant ==
  ASSUME RepliesSafe PROVE Spec => [](downs = 0 => HeardOK)
<1> DEFINE Link == TypeOK /\ downs <= MaxDown /\ (downs = 0 => LinkOK)
           Heard == downs = 0 => HeardOK
<1>1. Init => Heard
  BY InitHeard
<1>2. IInv /\ Link /\ Heard /\ [Next]_vars => Heard'
  <2> SUFFICES ASSUME TypeOK, Retries, downs = 0 => LinkOK, Heard, [Next]_vars, downs' = 0
               PROVE  HeardOK'
    BY DEF IInv
  <2>1. downs = 0
    BY DownsCounted DEF TypeOK
  <2> QED
    BY <2>1, HeardStep
<1>3. Spec => []Link
  BY LinkInvariant DEF RepliesSafe, Framed
<1> HIDE DEF Link
<1> QED
  BY <1>1, <1>2, <1>3, Invariant, PTL DEF Spec

\* Over a line that damages and loses what goes to the STM32, the STM32 is told
\* that its reply has arrived only when the phone has it, as long as the phone
\* has not disconnected: the main loop confirms a reply on the phone's
\* acknowledgement (uart_waitack_flag, lines 291-300), and a confirmation still
\* on the line is taken before the next command can be worked on.
THEOREM ConfirmedWhenHeard == ASSUME RepliesSafe PROVE Spec => Confirmed
<1>1. TypeOK /\ (downs = 0 => HeardOK) =>
        (downs = 0 /\ toStm # <<>> /\ Head(toStm) = Ack(TRUE) /\ stmReply # Nothing
           /\ stmReply' = Nothing => heard = stmReply.pay)
  <2> SUFFICES ASSUME TypeOK, HeardOK, toStm # <<>>, Head(toStm) = Confirmation,
                      stmReply # Nothing
               PROVE  heard = stmReply.pay
    BY DEF Confirmation
  <2>1. toStm \in Seq(Frames \union Acks)
    BY DEF TypeOK, LineType
  <2>2. 1 \in DOMAIN toStm /\ toStm[1] = Confirmation
    BY <2>1
  <2> QED
    BY <2>2 DEF HeardOK, Told
<1> QED
  BY <1>1, TypeCorrect, HeardInvariant, PTL DEF Confirmed
=============================================================================
