------------------------------ MODULE UartLink ------------------------------
(***************************************************************************)
(* The UART link to the STM32 (uart_bithd.c) in the key mode of the        *)
(* firmware: the phone asks for key mode and sends APDUs, the link carries *)
(* them to the STM32 and its replies back.                                 *)
(*                                                                         *)
(* Bytes arrive in an interrupt, between any two steps of the main loop's  *)
(* pass.  Commands and replies share one descriptor, uart_communicate_buf, *)
(* and, through its pointer, one buffer.                                   *)
(*                                                                         *)
(* A frame is a5 5a length(2) cmd no_use payload checksum.  The payload is *)
(* one symbol and the two bytes of the checksum are one symbol, an         *)
(* injective code of what they protect.                                    *)
(***************************************************************************)
EXTENDS Naturals, Sequences, SequencesExt

CONSTANTS
    MaxResend,     \* MAX_resend
    NumMod,        \* uartnum is an unsigned char: 256
    Apdus,         \* payloads of the phone's APDUs
    Patient,       \* the one-second timer expires only when nothing is under way
    Faults,        \* what may happen on the line, see below
    Garbles,       \* what a disturbed byte may become
    MaxAsk,        \* bound: requests of the phone
    MaxFault,      \* bound: disturbances of the line
    MaxDown,       \* bound: disconnections
    MaxWire,       \* bound: bytes on the way from the STM32
    MaxOut         \* messages the transmit buffer holds

Nothing  == [kind |-> "none", pay |-> 0]
Apdu     == 1                          \* Apducmd_uart
Change   == 2                          \* Changestatuscmd_uart
Reply(p) == p + 100                    \* what the STM32 makes of an APDU
KeyMode  == 40                         \* bluekeystm32, as a symbol no APDU has
TimeMode == 41                         \* timerstm32
BleCrc   == 999                        \* a checksum of the Bluetooth protocol
FrameLen == 4                          \* 1+1+apdulength+checksum
Areas    == {"apdu", "status"}         \* g_apdu, and g_apdu from stm32uartBUFstar on

ASSUME UartAssumption ==
    /\ MaxResend \in Nat \ {0} /\ NumMod \in Nat \ {0, 1}
    /\ Apdus \subseteq 1..39
    /\ Garbles \subseteq 0..255
    /\ Faults \subseteq {"frame", "lost", "reply", "repeat", "byte", "cut"}
    /\ Patient \in BOOLEAN
    /\ {MaxAsk, MaxFault, MaxDown, MaxWire, MaxOut} \subseteq Nat

VARIABLES
    pc,                    \* next step of the main loop's pass
    handler,               \* the status whose handler this pass has queued
    queued,                \* the frame whose slices are in the event queue
    buf,                   \* uart_communicate_buf; .data names an area
    mem,                   \* the areas
    olddata, uart_recive_l, uart_recive_All, ACK_recive_satus,
    uart_send_flag, uartnum, Ack_recive_enable, ACC_resend, CRC_old,
    Timeout1Sec_Uart,      \* "close", "open", "timeout"
    uart_enable_flag, Main_status, KEYwork_flag,
    Apdu_len_blekey,       \* an APDU waits for the status handler
    uart_waitack_flag,
    ble,                   \* the answer on its way to the phone
    request,               \* the phone's command, not yet processed
    phone,                 \* what the phone waits for
    connected,
    toStm, fromStm,        \* messages and bytes on the line
    stmWork, stmReply,     \* the STM32: command in work, reply not yet confirmed
    sends, heard,          \* history: transmissions of the command, last reply
    asks, faults, downs    \* counters of the environment, bounded

rx     == <<olddata, uart_recive_l, uart_recive_All, ACK_recive_satus>>
memory == <<buf, mem>>
tx     == <<uart_send_flag, uartnum, sends>>
wait   == <<Ack_recive_enable, ACC_resend, Timeout1Sec_Uart>>
mode   == <<uart_enable_flag, Main_status, KEYwork_flag>>
air    == <<ble, request, phone, connected, heard>>
stm    == <<stmWork, stmReply>>
line   == <<toStm, fromStm>>
pass   == <<handler, queued>>
env    == <<asks, faults, downs>>
vars   == <<pc, pass, rx, memory, tx, wait, CRC_old, mode, Apdu_len_blekey,
            uart_waitack_flag, air, stm, line, env>>

\* The checksum of a frame; a frame nobody sends has that of no other.
Crc(length, cmd, no, payload) ==
    IF length = FrameLen /\ cmd \in {Apdu, Change} /\ no < NumMod
    THEN 1000 + ((payload * NumMod + no) * 4 + cmd)
    ELSE 998

Init ==
    /\ pc = "cmd" /\ handler = "closeoled" /\ queued = Nothing
    /\ buf = [length |-> 0, cmd |-> 0, no_use |-> 0, data |-> "apdu", crc16 |-> 0]
    /\ mem = [a \in Areas |-> [pay |-> 0, crc |-> 0]]
    /\ olddata = 0 /\ uart_recive_l = 0 /\ uart_recive_All = 0 /\ ACK_recive_satus = 0
    /\ uart_send_flag = 0 /\ uartnum = 0 /\ sends = 0
    /\ Ack_recive_enable = 0 /\ ACC_resend = 0 /\ Timeout1Sec_Uart = "close"
    /\ CRC_old = 0
    /\ uart_enable_flag = 0 /\ Main_status = "closeoled" /\ KEYwork_flag = 0
    /\ Apdu_len_blekey = 0 /\ uart_waitack_flag = 0
    /\ ble = Nothing /\ request = Nothing /\ phone = Nothing /\ connected = TRUE /\ heard = 0
    /\ toStm = <<>> /\ fromStm = <<>>
    /\ stmWork = Nothing /\ stmReply = Nothing
    /\ asks = 0 /\ faults = 0 /\ downs = 0

-----------------------------------------------------------------------------
(* The receive interrupt, uart_event_handle: one action for each value of  *)
(* olddata, which keeps the code's numbers.                                *)

A5 == 165
S5A == 90

\* default: the first byte of a frame or, while one is awaited, of an
\* acknowledgement.
FirstByte(b) ==
    /\ olddata = 0
    /\ olddata' = IF b = A5 THEN 1
                  ELSE IF b = S5A /\ Ack_recive_enable = 1 THEN 8 ELSE 0
    /\ UNCHANGED <<memory, uart_recive_l, uart_recive_All, ACK_recive_satus>>

SecondByte(b) ==
    /\ \/ olddata = 1 /\ olddata' = IF b = S5A THEN 2 ELSE 0
       \/ olddata = 8 /\ olddata' = IF b = A5 THEN 9 ELSE 0
    /\ UNCHANGED <<memory, uart_recive_l, uart_recive_All, ACK_recive_satus>>

HeaderByte(b) ==
    /\ \/ olddata = 2 /\ buf' = [buf EXCEPT !.length = (b % 256) * 256]
       \/ olddata = 3 /\ buf' = [buf EXCEPT !.length = @ + (b % 256)]
       \/ olddata = 4 /\ buf' = [buf EXCEPT !.cmd = b]
       \/ olddata = 5 /\ buf' = [buf EXCEPT !.no_use = b]
    /\ uart_recive_l' = IF olddata = 5 THEN 0 ELSE uart_recive_l
    /\ olddata' = olddata + 1
    /\ UNCHANGED <<mem, uart_recive_All, ACK_recive_satus>>

\* The last byte is the checksum; what lies behind it is not modelled.
DataByte(b) ==
    /\ olddata = 6
    /\ uart_recive_l' = uart_recive_l + 1
    /\ mem' = [mem EXCEPT ![buf.data] = [pay |-> IF uart_recive_l = 0 THEN b ELSE @.pay,
                                         crc |-> IF uart_recive_l = 1 THEN b ELSE @.crc]]
    /\ IF uart_recive_l' + 2 < buf.length
       THEN UNCHANGED <<buf, olddata, uart_recive_All>>
       ELSE /\ uart_recive_All' = 1
            /\ olddata' = 7
            /\ buf' = [buf EXCEPT !.crc16 = b]
    /\ UNCHANGED ACK_recive_satus

\* Until the main loop has taken the frame further bytes are dropped.
LateByte ==
    /\ olddata = 7
    /\ UNCHANGED <<memory, rx>>

AckByte(b) ==
    /\ olddata = 9
    /\ ACK_recive_satus' = IF b = 0 THEN 1 ELSE 2     \* SuccsACK, FailACK
    /\ UNCHANGED <<memory, olddata, uart_recive_l, uart_recive_All>>

uart_event_handle ==
    LET b == Head(fromStm) IN
    /\ uart_enable_flag = 1 /\ fromStm # <<>>
    /\ fromStm' = Tail(fromStm)
    /\ \/ FirstByte(b) \/ SecondByte(b) \/ HeaderByte(b)
       \/ DataByte(b) \/ LateByte \/ AckByte(b)
    /\ UNCHANGED <<pc, pass, tx, wait, CRC_old, mode, Apdu_len_blekey,
                   uart_waitack_flag, air, stm, toStm, env>>

\* The one-second timer, TimeOutUart_handler.
TimeOutUart ==
    /\ Timeout1Sec_Uart = "open"
    /\ Patient => queued = Nothing /\ toStm = <<>> /\ fromStm = <<>> /\ stmWork = Nothing /\
                  uart_recive_All = 0 /\ ACK_recive_satus = 0
    /\ Timeout1Sec_Uart' = "timeout"
    /\ UNCHANGED <<pc, pass, rx, memory, tx, Ack_recive_enable, ACC_resend, CRC_old, mode,
                   Apdu_len_blekey, uart_waitack_flag, air, stm, line, env>>

-----------------------------------------------------------------------------
(* Sending.  A full transmit buffer (UART_TX_BUF_SIZE) holds the main loop  *)
(* up; acknowledgements go into it at once, frames by way of the event     *)
(* queue, which is empty again when the pass is over.                      *)

Ack(ok) == [kind |-> "ack", pay |-> IF ok THEN 0 ELSE 1]

Transmit(m) ==
    /\ Len(toStm) < MaxOut
    /\ toStm' = Append(toStm, m)

\* uart_send copies descriptor and area into the event queue.
Frame == [kind |-> "frame", length |-> buf.length, cmd |-> buf.cmd, no |-> buf.no_use,
          pay |-> mem[buf.data].pay, crc |-> mem[buf.data].crc]

\* Mutant: the checksum is taken before the number counts on.
BadCmdSendUart(cmd, area, payload, number) ==
    LET crc == Crc(FrameLen, cmd, uartnum, payload) IN
    /\ buf' = [length |-> FrameLen, cmd |-> cmd, no_use |-> number, data |-> area,
               crc16 |-> crc]
    /\ mem' = [mem EXCEPT ![area] = [pay |-> payload, crc |-> crc]]
    /\ uartnum' = number
    /\ uart_send_flag' = 1
    /\ sends' = 0

CmdSendUart(cmd, area, payload, number) ==
    LET crc == Crc(FrameLen, cmd, number, payload) IN
    /\ buf' = [length |-> FrameLen, cmd |-> cmd, no_use |-> number, data |-> area,
               crc16 |-> crc]
    /\ mem' = [mem EXCEPT ![area] = [pay |-> payload, crc |-> crc]]
    /\ uartnum' = number
    /\ uart_send_flag' = 1
    /\ sends' = 0

\* Send_bluetoothdata; nobody hears it while the link is down.
Send_bluetoothdata(answer) == ble' = IF connected THEN answer ELSE Nothing

\* Mutant: the frame is confirmed without waiting for the phone.
BadUart_cmdprogam ==
    IF buf.cmd = Apdu
    THEN LET payload == mem[buf.data].pay IN
         /\ mem' = [mem EXCEPT !["apdu"] = [pay |-> payload, crc |-> BleCrc]]
         /\ Send_bluetoothdata([kind |-> "reply", pay |-> payload])
         /\ uart_waitack_flag' = 2
    ELSE UNCHANGED <<mem, ble, uart_waitack_flag>>

\* Uart_cmdprogam, case 0x01: the payload is moved to the Bluetooth buffer and
\* the Bluetooth checksum put behind it.
Uart_cmdprogam ==
    IF buf.cmd = Apdu
    THEN LET payload == mem[buf.data].pay IN
         /\ mem' = [mem EXCEPT !["apdu"] = [pay |-> payload, crc |-> BleCrc]]
         /\ Send_bluetoothdata([kind |-> "reply", pay |-> payload])
         /\ uart_waitack_flag' = 1
    ELSE UNCHANGED <<mem, ble, uart_waitack_flag>>

\* Mutant: the payload is not covered.
BadCRC16_check == buf.length = FrameLen

CRC16_check == Crc(buf.length, buf.cmd, buf.no_use, mem[buf.data].pay) = buf.crc16

\* What Uart_close resets, if the UART is open.
Closed(v, reset) == IF uart_enable_flag = 1 THEN reset ELSE v

PowerOff_key ==
    /\ olddata' = Closed(olddata, 0) /\ uart_recive_l' = Closed(uart_recive_l, 0)
    /\ uart_recive_All' = Closed(uart_recive_All, 0)
    /\ ACK_recive_satus' = Closed(ACK_recive_satus, 0)
    /\ Ack_recive_enable' = Closed(Ack_recive_enable, 0)
    /\ ACC_resend' = Closed(ACC_resend, 0)
    /\ Timeout1Sec_Uart' = Closed(Timeout1Sec_Uart, "close")
    /\ CRC_old' = 0
    /\ toStm' = <<>> /\ fromStm' = <<>>

\* PowerOff_key, PowerOn_key and the command that tells the STM32 its mode.
Restart(payload) ==
    /\ PowerOff_key
    /\ uart_enable_flag' = 1
    /\ CmdSendUart(Change, "status", payload, (Closed(uartnum, 0) + 1) % NumMod)

-----------------------------------------------------------------------------
(* BleCmdProcess and blueKEY_cmdid_F.                                      *)

NoRequest ==
    /\ pc = "cmd" /\ request = Nothing
    /\ pc' = "send"
    /\ UNCHANGED <<pass, rx, memory, tx, wait, CRC_old, mode, Apdu_len_blekey,
                   uart_waitack_flag, air, stm, line, env>>

\* STM_POWER_OFF, STM_POWER_ON: the STM32 forgets what it was doing.
EnterKeyMode ==
    /\ pc = "cmd" /\ request.kind = "enter"
    /\ Restart(KeyMode)
    /\ stmWork' = Nothing /\ stmReply' = Nothing
    /\ KEYwork_flag' = 1 /\ Main_status' = "blekey"
    /\ request' = Nothing
    /\ pc' = "send"
    /\ UNCHANGED <<pass, Apdu_len_blekey, uart_waitack_flag, ble, phone, connected, heard, env>>

LeaveKeyMode ==
    /\ pc = "cmd" /\ request.kind = "leave"
    /\ Restart(TimeMode)
    /\ stmWork' = Nothing /\ stmReply' = Nothing
    /\ KEYwork_flag' = 0 /\ Main_status' = "timedisplay"
    /\ Send_bluetoothdata([kind |-> "ok", pay |-> 0])
    /\ request' = Nothing
    /\ pc' = "send"
    /\ UNCHANGED <<pass, Apdu_len_blekey, uart_waitack_flag, phone, connected, heard, env>>

\* Outside key mode an APDU is ignored.
TakeApdu ==
    /\ pc = "cmd" /\ request.kind = "apdu"
    /\ Apdu_len_blekey' = IF KEYwork_flag = 1 THEN 1 ELSE Apdu_len_blekey
    /\ request' = Nothing
    /\ pc' = "send"
    /\ UNCHANGED <<pass, rx, memory, tx, wait, CRC_old, mode, uart_waitack_flag,
                   ble, phone, connected, heard, stm, line, env>>

-----------------------------------------------------------------------------
(* UartDataSendrecive.                                                     *)

UartClosed ==
    /\ pc = "send" /\ uart_enable_flag = 0
    /\ pc' = "status"
    /\ UNCHANGED <<pass, rx, memory, tx, wait, CRC_old, mode, Apdu_len_blekey,
                   uart_waitack_flag, air, stm, line, env>>

uart_send ==
    /\ pc = "send" /\ uart_enable_flag = 1
    /\ pc' = "waitack"
    /\ IF uart_send_flag = 1
       THEN /\ queued' = Frame
            /\ uart_send_flag' = 0 /\ CRC_old' = 0 /\ Ack_recive_enable' = 1
            /\ sends' = sends + 1
       ELSE UNCHANGED <<queued, uart_send_flag, CRC_old, Ack_recive_enable, sends>>
    /\ UNCHANGED <<handler, rx, memory, uartnum, ACC_resend, Timeout1Sec_Uart, mode,
                   Apdu_len_blekey, uart_waitack_flag, air, stm, line, env>>

\* The phone has confirmed the answer: confirm the frame to the STM32.
successAck ==
    /\ pc = "waitack"
    /\ pc' = "receive"
    /\ IF uart_waitack_flag = 2
       THEN /\ Transmit(Ack(TRUE))
            /\ uart_waitack_flag' = 0
       ELSE UNCHANGED <<toStm, uart_waitack_flag>>
    /\ UNCHANGED <<pass, rx, memory, tx, wait, CRC_old, mode, Apdu_len_blekey,
                   air, stm, fromStm, env>>

\* Lines 303-336.
NothingReceived ==
    /\ pc = "receive" /\ uart_recive_All = 0
    /\ pc' = "ack"
    /\ UNCHANGED <<pass, rx, memory, tx, wait, CRC_old, mode, Apdu_len_blekey,
                   uart_waitack_flag, air, stm, line, env>>

\* Mutant: the timer of the wait goes on.
BadFrameTaken ==
    /\ uart_recive_All = 1
    /\ ACK_recive_satus' = 0 /\ uart_recive_All' = 0 /\ olddata' = 0
    /\ ACC_resend' = 0
    /\ UNCHANGED <<pass, buf, tx, mode, Apdu_len_blekey, uart_recive_l, request, phone,
                   connected, heard, stm, fromStm, env, Timeout1Sec_Uart>>

FrameTaken ==
    /\ uart_recive_All = 1
    /\ ACK_recive_satus' = 0 /\ uart_recive_All' = 0 /\ olddata' = 0
    /\ Timeout1Sec_Uart' = "close"
    /\ ACC_resend' = 0
    /\ UNCHANGED <<pass, buf, tx, mode, Apdu_len_blekey, uart_recive_l, request, phone,
                   connected, heard, stm, fromStm, env>>

FrameRefused ==
    /\ pc = "receive" /\ FrameTaken
    /\ ~CRC16_check \/ buf.no_use # uartnum
    /\ Ack_recive_enable' = 2
    /\ Transmit(Ack(FALSE))
    /\ pc' = "ack"
    /\ UNCHANGED <<mem, CRC_old, uart_waitack_flag, ble>>

FrameRepeated ==
    /\ pc = "receive" /\ FrameTaken
    /\ CRC16_check /\ buf.no_use = uartnum /\ buf.crc16 = CRC_old
    /\ pc' = "ack"
    /\ UNCHANGED <<mem, Ack_recive_enable, CRC_old, toStm, uart_waitack_flag, ble>>

FrameAccepted ==
    /\ pc = "receive" /\ FrameTaken
    /\ CRC16_check /\ buf.no_use = uartnum /\ buf.crc16 # CRC_old
    /\ CRC_old' = buf.crc16
    /\ Ack_recive_enable' = 0
    /\ Uart_cmdprogam
    /\ pc' = "ack"
    /\ UNCHANGED toStm

Receive == NothingReceived \/ FrameRefused \/ FrameRepeated \/ FrameAccepted

\* Lines 338-404, while an acknowledgement or a reply is awaited.
NotWaiting ==
    /\ pc = "ack" /\ Ack_recive_enable # 1
    /\ pc' = "nack"
    /\ UNCHANGED <<pass, rx, memory, tx, wait, CRC_old, mode, Apdu_len_blekey,
                   uart_waitack_flag, air, stm, line, env>>

\* Mutants: an attempt not counted; an attempt only counted; no end.
BadAgainUncounted ==
    IF ACC_resend + 1 < MaxResend
    THEN uart_send_flag' = 1 /\ UNCHANGED <<ACC_resend, Ack_recive_enable>>
    ELSE ACC_resend' = 0 /\ Ack_recive_enable' = 0 /\ UNCHANGED uart_send_flag
BadAgainCounted ==
    IF ACC_resend + 1 < MaxResend
    THEN ACC_resend' = ACC_resend + 1 /\ UNCHANGED <<uart_send_flag, Ack_recive_enable>>
    ELSE ACC_resend' = 0 /\ Ack_recive_enable' = 0 /\ UNCHANGED uart_send_flag
BadAgainEndless ==
    IF ACC_resend + 1 < MaxResend
    THEN ACC_resend' = ACC_resend + 1 /\ uart_send_flag' = 1 /\ UNCHANGED Ack_recive_enable
    ELSE UNCHANGED <<ACC_resend, uart_send_flag, Ack_recive_enable>>

\* One attempt more: send the command again, or give it up.
Again ==
    IF ACC_resend + 1 < MaxResend
    THEN ACC_resend' = ACC_resend + 1 /\ uart_send_flag' = 1 /\ UNCHANGED Ack_recive_enable
    ELSE ACC_resend' = 0 /\ Ack_recive_enable' = 0 /\ UNCHANGED uart_send_flag

AckTaken ==
    /\ pc = "ack" /\ Ack_recive_enable = 1 /\ ACK_recive_satus # 0
    /\ Timeout1Sec_Uart' = "close"
    /\ ACK_recive_satus' = 0 /\ uart_recive_All' = 0 /\ olddata' = 0
    /\ pc' = "nack"
    /\ UNCHANGED <<pass, memory, uart_recive_l, uartnum, sends, CRC_old, mode, Apdu_len_blekey,
                   request, phone, connected, heard, stm, line, env>>

AckFailed ==
    /\ AckTaken
    /\ ACK_recive_satus = 2
    /\ Again
    /\ UNCHANGED <<uart_waitack_flag, ble>>

\* In key mode the phone gets an empty answer.
AckSucceeded ==
    /\ AckTaken
    /\ ACK_recive_satus = 1
    /\ Ack_recive_enable' = 0 /\ ACC_resend' = 0
    /\ IF Main_status = "blekey"
       THEN Send_bluetoothdata([kind |-> "ok", pay |-> 0]) /\ uart_waitack_flag' = 1
       ELSE UNCHANGED <<ble, uart_waitack_flag>>
    /\ UNCHANGED uart_send_flag

AckAwaited ==
    /\ pc = "ack" /\ Ack_recive_enable = 1 /\ ACK_recive_satus = 0
    /\ \/ /\ Timeout1Sec_Uart = "close" /\ Timeout1Sec_Uart' = "open"
          /\ UNCHANGED <<uart_send_flag, Ack_recive_enable, ACC_resend>>
       \/ /\ Timeout1Sec_Uart = "timeout" /\ Timeout1Sec_Uart' = "close"
          /\ Again
       \/ /\ Timeout1Sec_Uart = "open"
          /\ UNCHANGED <<Timeout1Sec_Uart, uart_send_flag, Ack_recive_enable, ACC_resend>>
    /\ pc' = "nack"
    /\ UNCHANGED <<pass, rx, memory, uartnum, sends, CRC_old, mode, Apdu_len_blekey,
                   uart_waitack_flag, air, stm, line, env>>

\* Lines 406-484, while the repetition of a refused frame is awaited.
NotRefusing ==
    /\ pc = "nack" /\ Ack_recive_enable # 2
    /\ pc' = "status"
    /\ UNCHANGED <<pass, rx, memory, tx, wait, CRC_old, mode, Apdu_len_blekey,
                   uart_waitack_flag, air, stm, line, env>>

\* One refusal more, or give the frame up.
RefuseAgain ==
    IF ACC_resend + 1 < MaxResend
    THEN /\ ACC_resend' = ACC_resend + 1
         /\ Transmit(Ack(FALSE))
         /\ UNCHANGED Ack_recive_enable
    ELSE ACC_resend' = 0 /\ Ack_recive_enable' = 0 /\ UNCHANGED toStm

RefusalAwaited ==
    /\ pc = "nack" /\ Ack_recive_enable = 2
    /\ \/ /\ Timeout1Sec_Uart = "close" /\ Timeout1Sec_Uart' = "open"
          /\ UNCHANGED <<Ack_recive_enable, ACC_resend, toStm>>
       \/ /\ Timeout1Sec_Uart = "timeout" /\ Timeout1Sec_Uart' = "close"
          /\ RefuseAgain
       \/ /\ Timeout1Sec_Uart = "open" /\ uart_recive_All = 0
          /\ UNCHANGED <<Timeout1Sec_Uart, Ack_recive_enable, ACC_resend, toStm>>
    /\ pc' = "status"
    /\ UNCHANGED <<pass, rx, memory, tx, CRC_old, mode, Apdu_len_blekey,
                   uart_waitack_flag, air, stm, fromStm, env>>

\* A frame that became complete after line 303 was passed.
RepetitionTaken ==
    /\ pc = "nack" /\ Ack_recive_enable = 2
    /\ Timeout1Sec_Uart = "open" /\ uart_recive_All = 1
    /\ Timeout1Sec_Uart' = "close"
    /\ IF CRC16_check /\ buf.no_use = uartnum
       THEN /\ ACK_recive_satus' = 0 /\ ACC_resend' = 0 /\ Ack_recive_enable' = 0
            /\ Transmit(Ack(TRUE))
            /\ Uart_cmdprogam
       ELSE /\ RefuseAgain
            /\ ACK_recive_satus' = IF ACC_resend' = 0 THEN 0 ELSE ACK_recive_satus
            /\ UNCHANGED <<mem, ble, uart_waitack_flag>>
    /\ olddata' = 0 /\ uart_recive_All' = 0
    /\ pc' = "status"
    /\ UNCHANGED <<pass, buf, uart_recive_l, tx, CRC_old, mode, Apdu_len_blekey,
                   request, phone, connected, heard, stm, fromStm, env>>

UartDataSendrecive ==
    \/ UartClosed \/ uart_send \/ successAck \/ Receive
    \/ NotWaiting \/ AckFailed \/ AckSucceeded \/ AckAwaited
    \/ NotRefusing \/ RefusalAwaited \/ RepetitionTaken

-----------------------------------------------------------------------------
(* The handler the pass has queued, Bluetooyhkeydisplay or another's.  The *)
(* long press and the time-out that lines 66-88 wait for never come:       *)
(* nothing sets touch_key to KEY_LongTouch, and TimeOutMain_handler is     *)
(* empty.                                                                  *)

NothingToDo ==
    /\ pc = "status"
    /\ \/ handler # "blekey"
       \/ connected /\ (Main_status # "blekey" \/ Apdu_len_blekey = 0)
    /\ pc' = "slices"
    /\ UNCHANGED <<pass, rx, memory, tx, wait, CRC_old, mode, Apdu_len_blekey,
                   uart_waitack_flag, air, stm, line, env>>

SendApdu ==
    /\ pc = "status" /\ handler = "blekey" /\ connected
    /\ Main_status = "blekey" /\ Apdu_len_blekey = 1
    /\ CmdSendUart(Apdu, "apdu", mem["apdu"].pay, (uartnum + 1) % NumMod)
    /\ Apdu_len_blekey' = 0
    /\ pc' = "slices"
    /\ UNCHANGED <<pass, rx, wait, CRC_old, mode, uart_waitack_flag, air, stm, line, env>>

\* Mutant: the status stays.
BadPhoneIsGone ==
    /\ pc = "status" /\ handler = "blekey" /\ ~connected
    /\ Restart(TimeMode)
    /\ KEYwork_flag' = 0
    /\ pc' = "slices"
    /\ UNCHANGED <<pass, Apdu_len_blekey, uart_waitack_flag, air, stm, env, Main_status>>

\* The STM32 is not switched off, but what was on the line is lost.
PhoneIsGone ==
    /\ pc = "status" /\ handler = "blekey" /\ ~connected
    /\ Restart(TimeMode)
    /\ Main_status' = "timedisplay" /\ KEYwork_flag' = 0
    /\ pc' = "slices"
    /\ UNCHANGED <<pass, Apdu_len_blekey, uart_waitack_flag, air, stm, env>>

Bluetooyhkeydisplay == NothingToDo \/ SendApdu \/ PhoneIsGone

\* The slices of the frame, uart_send_Bty; then main_loop queues the next pass.
uart_send_Bty ==
    /\ pc = "slices"
    /\ IF queued = Nothing THEN UNCHANGED toStm ELSE Transmit(queued)
    /\ queued' = Nothing
    /\ handler' = Main_status
    /\ pc' = "cmd"
    /\ UNCHANGED <<rx, memory, tx, wait, CRC_old, mode, Apdu_len_blekey,
                   uart_waitack_flag, air, stm, fromStm, env>>

BleCmdProcess == NoRequest \/ EnterKeyMode \/ LeaveKeyMode \/ TakeApdu

MainLoop == BleCmdProcess \/ UartDataSendrecive \/ Bluetooyhkeydisplay \/ uart_send_Bty

-----------------------------------------------------------------------------
(* The phone, behind the Bluetooth link.  It has one request at a time.    *)

\* A command is stored in the buffer the answers are composed in.
PhoneAsks ==
    /\ connected /\ phone = Nothing /\ ble = Nothing /\ request = Nothing
    /\ asks < MaxAsk /\ asks' = asks + 1
    /\ \E r \in {[kind |-> "enter", pay |-> 0], [kind |-> "leave", pay |-> 0]}
             \union [kind : {"apdu"}, pay : Apdus] :
          /\ request' = r /\ phone' = r
          /\ mem' = [mem EXCEPT !["apdu"] = [pay |-> r.pay, crc |-> BleCrc]]
    /\ UNCHANGED <<pc, pass, rx, buf, tx, wait, CRC_old, mode, Apdu_len_blekey,
                   uart_waitack_flag, ble, connected, heard, stm, line, faults, downs>>

\* It acknowledges every answer; phone_to_ble_data_parse notes it.
PhoneGets ==
    /\ connected /\ ble # Nothing
    /\ heard' = IF ble.kind = "reply" THEN ble.pay ELSE heard
    /\ ble' = Nothing /\ phone' = Nothing
    /\ uart_waitack_flag' = IF uart_waitack_flag = 1 THEN 2 ELSE uart_waitack_flag
    /\ UNCHANGED <<pc, pass, rx, memory, tx, wait, CRC_old, mode, Apdu_len_blekey,
                   request, connected, stm, line, env>>

Disconnect ==
    /\ connected /\ downs < MaxDown
    /\ connected' = FALSE /\ downs' = downs + 1
    /\ phone' = Nothing /\ ble' = Nothing
    /\ UNCHANGED <<pc, pass, rx, memory, tx, wait, CRC_old, mode, Apdu_len_blekey,
                   uart_waitack_flag, request, heard, stm, line, asks, faults>>

Connect ==
    /\ ~connected /\ connected' = TRUE
    /\ UNCHANGED <<pc, pass, rx, memory, tx, wait, CRC_old, mode, Apdu_len_blekey,
                   uart_waitack_flag, ble, request, phone, heard, stm, line, env>>

Phone == PhoneAsks \/ PhoneGets \/ Disconnect \/ Connect

-----------------------------------------------------------------------------
(* The STM32 runs the command of a number once and keeps its reply until   *)
(* it is confirmed.  What it sends to a closed UART is lost.               *)

ReplyBytes(r) ==
    <<A5, S5A, 0, FrameLen, Apdu, r.no, r.pay, Crc(FrameLen, Apdu, r.no, r.pay)>>

AckBytes(ok) == <<S5A, A5, IF ok THEN 0 ELSE 1>>

StmSends(bytes) ==
    /\ Len(fromStm) + Len(bytes) <= MaxWire
    /\ fromStm' = IF uart_enable_flag = 1 THEN fromStm \o bytes ELSE fromStm

Whole(f) == Crc(f.length, f.cmd, f.no, f.pay) = f.crc

StmTakes(m) ==
    \/ /\ m.kind = "ack" /\ m.pay = 0
       /\ stmReply' = Nothing
       /\ UNCHANGED <<stmWork, fromStm>>
    \/ /\ m.kind = "ack" /\ m.pay = 1
       /\ IF stmReply = Nothing THEN UNCHANGED fromStm ELSE StmSends(ReplyBytes(stmReply))
       /\ UNCHANGED stm
    \/ /\ m.kind = "frame" /\ ~Whole(m)
       /\ StmSends(AckBytes(FALSE))
       /\ UNCHANGED stm
    \/ /\ m.kind = "frame" /\ Whole(m) /\ m.cmd = Change
       /\ StmSends(AckBytes(TRUE))
       /\ stmWork' = Nothing /\ stmReply' = Nothing
    \/ /\ m.kind = "frame" /\ Whole(m) /\ m.cmd = Apdu
       /\ IF stmReply # Nothing /\ stmReply.no = m.no
          THEN StmSends(ReplyBytes(stmReply)) /\ UNCHANGED stm
          ELSE /\ stmWork' = [kind |-> "apdu", pay |-> m.pay, no |-> m.no]
               /\ stmReply' = Nothing
               /\ UNCHANGED fromStm

StmReceives ==
    /\ toStm # <<>>
    /\ StmTakes(Head(toStm))
    /\ toStm' = Tail(toStm)
    /\ UNCHANGED <<pc, pass, rx, memory, tx, wait, CRC_old, mode, Apdu_len_blekey,
                   uart_waitack_flag, air, env>>

StmAnswers ==
    /\ stmWork # Nothing
    /\ LET r == [kind |-> "reply", pay |-> Reply(stmWork.pay), no |-> stmWork.no] IN
       /\ StmSends(ReplyBytes(r))
       /\ stmReply' = r
    /\ stmWork' = Nothing
    /\ UNCHANGED <<pc, pass, rx, memory, tx, wait, CRC_old, mode, Apdu_len_blekey,
                   uart_waitack_flag, air, toStm, env>>

-----------------------------------------------------------------------------
(* The line: each disturbance is a kind of fault, and Faults names those   *)
(* of the instance.                                                        *)

Fault(k) ==
    /\ k \in Faults
    /\ faults < MaxFault /\ faults' = faults + 1
    /\ UNCHANGED <<pc, pass, rx, memory, tx, wait, CRC_old, mode, Apdu_len_blekey,
                   uart_waitack_flag, air, stm, asks, downs>>

FrameDamaged ==
    /\ Fault("frame")
    /\ \E i \in DOMAIN toStm :
          /\ toStm[i].kind = "frame"
          /\ toStm' = [toStm EXCEPT ![i].crc = 0]
    /\ UNCHANGED fromStm

MessageLost ==
    /\ Fault("lost")
    /\ \E i \in DOMAIN toStm : toStm' = RemoveAt(toStm, i)
    /\ UNCHANGED fromStm

ReplyDamaged ==
    /\ Fault("reply")
    /\ \E i \in DOMAIN fromStm :
          /\ fromStm[i] \in {Reply(p) : p \in Apdus}
          /\ fromStm' = [fromStm EXCEPT ![i] = 256]
    /\ UNCHANGED toStm

\* The STM32 sends an unconfirmed reply again of its own accord.
ReplyRepeated ==
    /\ Fault("repeat")
    /\ stmReply # Nothing
    /\ StmSends(ReplyBytes(stmReply))
    /\ UNCHANGED toStm

ByteDamaged ==
    /\ Fault("byte")
    /\ \E i \in DOMAIN fromStm, b \in Garbles : fromStm' = [fromStm EXCEPT ![i] = b]
    /\ UNCHANGED toStm

ByteLost ==
    /\ Fault("cut")
    /\ \E i \in DOMAIN fromStm : fromStm' = RemoveAt(fromStm, i)
    /\ UNCHANGED toStm

Line == FrameDamaged \/ MessageLost \/ ReplyDamaged \/ ReplyRepeated \/ ByteDamaged \/ ByteLost

Stm32 == StmReceives \/ StmAnswers

Next ==
    \/ MainLoop \/ uart_event_handle \/ TimeOutUart
    \/ Phone \/ Stm32 \/ Line

Spec == Init /\ [][Next]_vars

Fairness ==
    /\ WF_vars(MainLoop) /\ WF_vars(uart_event_handle) /\ WF_vars(TimeOutUart)
    /\ WF_vars(PhoneGets) /\ WF_vars(Stm32)

FairSpec == Spec /\ Fairness

-----------------------------------------------------------------------------
Frames  == [kind : {"frame"}, length : Nat, cmd : Nat, no : Nat, pay : Nat, crc : Nat]
Acks    == [kind : {"ack"}, pay : 0..1]
Jobs    == [kind : {"apdu", "reply"}, pay : Nat, no : Nat]
Answers == [kind : {"ok", "reply"}, pay : Nat]
Asked   == [kind : {"enter", "leave", "apdu"}, pay : Nat]

PassType == handler \in {"closeoled", "blekey", "timedisplay"} /\ queued \in Frames \union {Nothing}
RxType ==
    /\ olddata \in 0..9 /\ uart_recive_l \in Nat
    /\ uart_recive_All \in 0..1 /\ ACK_recive_satus \in 0..2
MemoryType ==
    /\ buf \in [length : Nat, cmd : Nat, no_use : Nat, data : Areas, crc16 : Nat]
    /\ mem \in [Areas -> [pay : Nat, crc : Nat]]
TxType == uart_send_flag \in 0..1 /\ uartnum \in 0..(NumMod - 1) /\ sends \in Nat
WaitType ==
    /\ Ack_recive_enable \in 0..2 /\ ACC_resend \in 0..(MaxResend - 1)
    /\ Timeout1Sec_Uart \in {"close", "open", "timeout"}
ModeType ==
    /\ uart_enable_flag \in 0..1 /\ KEYwork_flag \in 0..1
    /\ Main_status \in {"closeoled", "blekey", "timedisplay"}
AirType ==
    /\ ble \in Answers \union {Nothing} /\ heard \in Nat
    /\ request \in Asked \union {Nothing} /\ phone \in Asked \union {Nothing}
    /\ connected \in BOOLEAN
StmType == stmWork \in Jobs \union {Nothing} /\ stmReply \in Jobs \union {Nothing}
LineType == toStm \in Seq(Frames \union Acks) /\ fromStm \in Seq(Nat)

\* Type correctness; the count of attempts stays below MAX_resend.
TypeOK ==
    /\ pc \in {"cmd", "send", "waitack", "receive", "ack", "nack", "status", "slices"}
    /\ CRC_old \in Nat /\ Apdu_len_blekey \in 0..1 /\ uart_waitack_flag \in 0..2
    /\ asks \in Nat /\ faults \in Nat /\ downs \in Nat
    /\ PassType /\ RxType /\ MemoryType /\ TxType /\ WaitType
    /\ ModeType /\ AirType /\ StmType /\ LineType

\* A command is transmitted at most MAX_resend times, whatever the line, the
\* STM32 and the timer do: every repetition is counted in ACC_resend, and the
\* reset of that count at line 308 never meets a command still to be repeated.
BoundedRetries == sends <= MaxResend

\* The one-second timer runs only while something is awaited: no wait leaves
\* its timer behind to cut a later one short.
NoStrayTimeout == Timeout1Sec_Uart # "close" => Ack_recive_enable # 0

\* What is transmitted, a repetition included, is a frame with its own
\* checksum: uart_send takes it from the buffer bytes are received into.
FramesWhole ==
    \A i \in DOMAIN toStm : toStm[i].kind = "frame" /\ toStm[i].crc # 0 => Whole(toStm[i])

\* The phone gets a reply only to an APDU, and the reply to that one.
ReplyMatches ==
    ble.kind = "reply" /\ phone # Nothing => phone.kind = "apdu" /\ ble.pay = Reply(phone.pay)

\* The STM32 is told that its reply has arrived only when the phone has it, if
\* the phone has stayed connected.
Confirmed ==
    [][downs = 0 /\ toStm # <<>> /\ Head(toStm) = Ack(TRUE) /\ stmReply # Nothing /\ stmReply' = Nothing
       => heard = stmReply.pay]_vars

\* Every transmission ends: it is answered, or given up after MAX_resend
\* attempts (lines 338-484).
Settles ==
    uart_send_flag = 1 \/ Ack_recive_enable # 0
        ~> uart_send_flag = 0 /\ Ack_recive_enable = 0

\* The phone gets an answer to every request, if it sends APDUs in key mode,
\* unless the line is disturbed as often as a command is sent at all.
Answered ==
    phone # Nothing /\ (phone.kind = "apdu" => KEYwork_flag = 1)
        ~> phone = Nothing \/ faults >= MaxResend

\* Key mode ends when the phone stays away, though the handler only polls the
\* connection.
LeavesKeyMode == <>[]~connected => <>[](Main_status # "blekey")
=============================================================================
