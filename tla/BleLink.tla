------------------------------- MODULE BleLink -------------------------------
(***************************************************************************)
(* The BLE link layer of the firmware: Bluetooth_HWprotocol.c, with the    *)
(* parts of main.c, Bluetooth_APPprotocol.c and uart_bithd.c that share    *)
(* its variables.                                                          *)
(*                                                                         *)
(* Two contexts run.  The SoftDevice's events arrive in an interrupt: data *)
(* packets, control packets, connection and disconnection.  The main loop  *)
(* runs Bluetooth_ReciveANDSend, BleCmdProcess and UartDataSendrecive in   *)
(* every pass; "pc" is the next step of the pass, and interrupts fall      *)
(* between any two steps.                                                  *)
(*                                                                         *)
(* The phone and the STM32 are the environment.  The contents of g_apdu,   *)
(* which commands and replies share, are abstracted to one tag for each    *)
(* packet-sized slot: the message whose bytes the slot holds.  Lengths     *)
(* stay in bytes, as in the code.                                          *)
(***************************************************************************)
EXTENDS PackBitmap, Integers, Sequences

CONSTANTS
  Msgs,       \* commands the phone may send
  Size,       \* their bytes, the two-byte length header included
  Replies,    \* replies the application may send back
  RSize,      \* their bytes
  NoTag,      \* the tag of a slot never written
  Slots,      \* slots of g_apdu: APDU_MAX_LEN / 18, 57 in the code
  Body,       \* payload bytes of a packet: PackRecive - 2, 18 in the code
  MaxRetry,   \* WaitRertyTims, 3 in the code
  U8, U16,    \* number of values of a uint8_t and of a uint16_t
  QueueCap,   \* notifications the SoftDevice queues before it refuses one
  Polite,     \* assumption: the phone sends nothing the protocol did not ask for
  Prompts,    \* assumption: whether the phone answers within TimeOver
  Patient,    \* assumption: the STM32 replies once to a command, when the link is free
  MaxLoss,    \* bound: packets from the phone that get lost
  MaxDown,    \* bound: disconnections
  MaxStray    \* bound: packets and acknowledgements the phone sends unasked

Tags == Msgs \cup Replies \cup {NoTag}
First == Body - 2     \* payload of a reply's packet 0: PackRecive - 4
Packets(m) == (Size[m] + Body - 1) \div Body
PacketBytes(m, n) == IF n + 1 < Packets(m) THEN Body ELSE Size[m] - n * Body

\* SumPackNumber, as ble_to_phone_msg computes it for a reply of len bytes.
Fragments(len) ==
  IF len <= First THEN 1
  ELSE LET sum == (len - First) \div Body + 1
       IN IF len > First + (sum - 1) * Body THEN sum + 1 ELSE sum

ASSUME LinkAssumption ==
  /\ Body \in Nat /\ Body > 2 /\ Slots \in Nat \ {0}
  /\ Size \in [Msgs -> Nat \ {0}] /\ RSize \in [Replies -> Nat \ {0}]
  /\ \A m \in Msgs : Packets(m) \in 1 .. Slots
  /\ \A r \in Replies : Fragments(RSize[r]) \in 1 .. Slots
  /\ NoTag \notin Msgs \cup Replies
  /\ {MaxRetry, U8, U16, QueueCap} \subseteq Nat \ {0}
  /\ {Polite, Patient} \cup Prompts \subseteq BOOLEAN
  /\ {MaxLoss, MaxDown, MaxStray} \subseteq Nat

VARIABLES
  connected,                            \* Ble_ConnnectFlag
  Recivedataflag, blueRecivSendflag, uart_waitack_flag,
  Apdufinsh,                            \* 0 idle, 2 collecting, 1 complete
  g_apdu, g_apdu_length, ucaRevPackN, ucaPackMsg, ucReTry, T_Connect,
  ucResend, remberPackn, ucExpPackN_,   \* ucExpPackN_: local to ReSendNotification
  SumPackNumber, Sendlenth, lr,
  pc,                                   \* next step of the main loop
  hvn,                                  \* notifications not yet at the phone
  phone,                                \* the phone's end of the protocol
  owed,                                 \* the STM32 has a command to answer
  losses, downs, strays                 \* used up of MaxLoss, MaxDown, MaxStray

rx   == <<Apdufinsh, g_apdu, g_apdu_length, ucaRevPackN>>
tx   == <<SumPackNumber, Sendlenth, lr>>
mark == <<remberPackn, ucExpPackN_>>
redo == <<ucResend, mark>>
flow == <<connected, blueRecivSendflag, uart_waitack_flag>>
env  == <<phone, owed, losses, downs, strays>>
vars == <<flow, Recivedataflag, rx, ucaPackMsg, ucReTry, T_Connect, redo, tx,
          pc, hvn, env>>

\* The phone's end: its command, the packets of it still to send and those that
\* were lost on the way, the fragments of the reply it holds and their total; and
\* whether it always answers within TimeOver.
Idle(p) == [msg |-> NoTag, todo |-> {}, lost |-> {}, got |-> {}, total |-> 0,
            prompt |-> p]
Asking == phone.msg # NoTag

Init ==
  /\ connected = FALSE /\ blueRecivSendflag = "NOdata"
  /\ uart_waitack_flag = 0 /\ Recivedataflag = 0
  /\ Apdufinsh = 0 /\ g_apdu = [i \in Upto(Slots) |-> NoTag]
  /\ g_apdu_length = 0 /\ ucaRevPackN = {} /\ ucaPackMsg = NoReport
  /\ ucReTry = 0 /\ T_Connect = "off" /\ ucResend = 0
  /\ remberPackn = 0 /\ ucExpPackN_ = 0
  /\ SumPackNumber = 0 /\ Sendlenth = 0 /\ lr = 0
  /\ pc = "entry" /\ hvn = <<>> /\ phone \in {Idle(p) : p \in Prompts}
  /\ owed = FALSE /\ losses = 0 /\ downs = 0 /\ strays = 0

\* ble_nus_string_send: refused when the link is down or the queue is full, and
\* no caller looks at the result.
Notify(x) ==
  hvn' = IF connected /\ Len(hvn) < QueueCap THEN Append(hvn, x) ELSE hvn

\* tell_phone_missed_packets, with the report as it is after the step.
TellMissed(report) == Notify([kind |-> "report", missing |-> report.missing])

\* ble_transfer_init
ble_transfer_init ==
  /\ ucaRevPackN' = {} /\ ucaPackMsg' = NoReport
  /\ ucReTry' = 0 /\ ucResend' = 0

\* The three places that end a reply: acknowledged, given up, link down.  (The
\* variants named "Bad..." in this module hold a slip the properties must catch.)
BadForgetReply == SumPackNumber' = 0 /\ lr' = 0 /\ UNCHANGED Sendlenth
ForgetReply == SumPackNumber' = 0 /\ Sendlenth' = 0 /\ lr' = 0

\* The timer T_Connect, TimeOver seconds: stopped, it never counts as expired.
BadTP_START == UNCHANGED T_Connect
TP_START == T_Connect' = "running"
TP_CLOSE == T_Connect' = "off"

\* ucReTry<(WaitRertyTims)
RetriesLeft == ucReTry < MaxRetry

-----------------------------------------------------------------------------
(* Interrupt context: phone_to_ble_data_parse and the connection events.   *)

\* A data packet that is not looked at: a reply is going out, or the packet is
\* too short.  The timer has been stopped and the retries forgotten by then.
PacketDropped(n, bytes) ==
  /\ SumPackNumber # 0 \/ bytes < (IF n = 0 THEN 2 ELSE 1)
  /\ Recivedataflag' = 1 /\ ucReTry' = 0 /\ TP_CLOSE
  /\ UNCHANGED <<rx, ucaPackMsg, hvn>>

\* A packet that is already there only restarts the timer.
PacketRepeated(n, bytes) ==
  /\ SumPackNumber = 0 /\ bytes >= (IF n = 0 THEN 2 ELSE 1)
  /\ CheckExist(n, ucaRevPackN)
  /\ Recivedataflag' = 1 /\ ucReTry' = 0 /\ TP_START
  /\ UNCHANGED <<rx, ucaPackMsg, hvn>>

\* A new packet, number n of total, with so many bytes of message m.
PacketStored(m, n, total, bytes) ==
  LET rev == MarkRev(n, ucaRevPackN)
      report == MarkMissing(total, rev)
  IN
  /\ SumPackNumber = 0 /\ bytes >= (IF n = 0 THEN 2 ELSE 1)
  /\ ~CheckExist(n, ucaRevPackN)
  /\ Recivedataflag' = 1
  /\ g_apdu' = [g_apdu EXCEPT ![n] = m]
  /\ ucaRevPackN' = rev /\ ucaPackMsg' = report
  /\ g_apdu_length' = 
       (IF Apdufinsh = 0 THEN bytes ELSE g_apdu_length + bytes) % U16
  /\ \E mask \in RemMasks(total) :
       LET last == AllPacketReceived(n, total, rev, mask)
           started == IF Apdufinsh = 0 THEN 2 ELSE Apdufinsh
       IN \/ /\ ~last
             /\ Apdufinsh' = started /\ TP_START /\ ucReTry' = 0
             /\ UNCHANGED hvn
          \/ /\ last /\ ~Incomplete(report)
             /\ Apdufinsh' = 1 /\ TP_CLOSE /\ ucReTry' = 0
             /\ UNCHANGED hvn
          \/ /\ last /\ Incomplete(report)
             /\ Apdufinsh' = started /\ TP_CLOSE /\ ucReTry' = 1
             /\ TellMissed(report)

PacketArrives(m, n, bytes) ==
  /\ connected
  /\ \/ PacketDropped(n, bytes)
     \/ PacketRepeated(n, bytes)
     \/ PacketStored(m, n, Packets(m), bytes)
  /\ UNCHANGED <<flow, redo, tx, pc>>

\* A control packet counts only while a reply is out: the phone lists the
\* fragments it misses ...
ResendArrives(missing) ==
  /\ connected
  /\ Recivedataflag' = 1 /\ ucReTry' = 0 /\ TP_CLOSE
  /\ IF SumPackNumber # 0
     THEN ucaPackMsg' = Report(missing) /\ ucResend' = 1
     ELSE UNCHANGED <<ucaPackMsg, ucResend>>
  /\ UNCHANGED <<flow, rx, mark, tx, pc, hvn>>

\* ... or acknowledges the reply, which also releases the STM32's frame.
AckArrives ==
  /\ connected
  /\ Recivedataflag' = 1 /\ ucReTry' = 0 /\ TP_CLOSE
  /\ IF SumPackNumber # 0
     THEN /\ ucaPackMsg' = NoReport /\ ucaRevPackN' = {}
          /\ ForgetReply
          /\ uart_waitack_flag' =
               IF uart_waitack_flag = 1 THEN 2 ELSE uart_waitack_flag
     ELSE UNCHANGED <<ucaPackMsg, ucaRevPackN, tx, uart_waitack_flag>>
  /\ UNCHANGED <<connected, blueRecivSendflag, Apdufinsh, g_apdu,
                 g_apdu_length, redo, pc, hvn>>

\* No reply is on its way to the phone.
Free == SumPackNumber = 0 /\ lr = 0 /\ blueRecivSendflag = "NOdata"

\* on_ble_evt and nrf_ble_gatt_on_ble_evt set the flag the main loop polls.
Connect ==
  /\ ~connected /\ connected' = TRUE
  /\ UNCHANGED <<blueRecivSendflag, uart_waitack_flag, Recivedataflag, rx,
                 ucaPackMsg, ucReTry, T_Connect, redo, tx, pc, hvn, env>>

Disconnect ==
  /\ connected /\ downs < MaxDown
  /\ connected' = FALSE /\ hvn' = <<>> /\ phone' = Idle(phone.prompt)
  /\ downs' = downs + 1
  /\ UNCHANGED <<blueRecivSendflag, uart_waitack_flag, Recivedataflag, rx,
                 ucaPackMsg, ucReTry, T_Connect, redo, tx, pc, owed, losses,
                 strays>>

-----------------------------------------------------------------------------
(* Main loop: Bluetooth_ReciveANDSend.                                     *)

At(step, next) == pc = step /\ pc' = next

\* Without a connection everything is reset and the pass goes on.
ResetWhenDown ==
  /\ At("entry", "cmd") /\ ~connected
  /\ Apdufinsh' = 0 /\ g_apdu_length' = 0
  /\ ForgetReply
  /\ ble_transfer_init /\ blueRecivSendflag' = "NOdata"
  /\ UNCHANGED <<connected, uart_waitack_flag, Recivedataflag, g_apdu,
                 T_Connect, mark, hvn, env>>

\* A reply is waiting: its length becomes the length to send.
TakeReply ==
  /\ At("entry", "recv") /\ connected
  /\ IF blueRecivSendflag = "Senddata"
     THEN lr' = g_apdu_length /\ blueRecivSendflag' = "NOdata"
     ELSE UNCHANGED <<lr, blueRecivSendflag>>
  /\ UNCHANGED <<connected, uart_waitack_flag, Recivedataflag, rx, ucaPackMsg,
                 ucReTry, T_Connect, redo, SumPackNumber, Sendlenth, hvn, env>>

\* All packets arrived: the length header is cut off and the command handed to
\* BleCmdProcess.  Apdufinsh is cleared by a later instruction (ClearFinish).
HandOver ==
  /\ At("recv", "clear") /\ Recivedataflag = 1 /\ Apdufinsh = 1
  /\ Recivedataflag' = 0 /\ g_apdu_length' = (g_apdu_length - 2) % U16
  /\ blueRecivSendflag' = "Recivedata" /\ ble_transfer_init
  /\ UNCHANGED <<connected, uart_waitack_flag, Apdufinsh, g_apdu, T_Connect,
                 mark, tx, hvn, env>>

ClearFinish ==
  /\ At("clear", "send") /\ Apdufinsh' = 0
  /\ UNCHANGED <<flow, Recivedataflag, g_apdu, g_apdu_length, ucaRevPackN,
                 ucaPackMsg, ucReTry, T_Connect, redo, tx, hvn, env>>

NothingToHandOver ==
  /\ At("recv", "send") /\ ~(Recivedataflag = 1 /\ Apdufinsh = 1)
  /\ Recivedataflag' = 0
  /\ UNCHANGED <<flow, rx, ucaPackMsg, ucReTry, T_Connect, redo, tx, hvn, env>>

\* The bytes of a fragment come from the slot it is read at.
Fragment(num, total, slot) ==
  Notify([kind |-> "fragment", num |-> num, total |-> total,
          tag |-> IF slot \in Upto(Slots) THEN g_apdu[slot] ELSE NoTag])

\* ble_to_phone_msg: one fragment in each pass.  The offset moves on after the
\* notification is queued, and an interrupt may come in between.
SendSingle ==
  /\ At("send", "sentLast") /\ lr > 0 /\ lr <= First
  /\ SumPackNumber' = 1 /\ Fragment(0, 1, 0)
  /\ UNCHANGED <<flow, Recivedataflag, rx, ucaPackMsg, ucReTry, T_Connect, redo,
                 Sendlenth, lr, env>>

SendFirst ==
  /\ At("send", "sentFirst") /\ lr > First /\ Sendlenth = 0
  /\ SumPackNumber' = Fragments(lr) /\ Fragment(0, Fragments(lr), 0)
  /\ UNCHANGED <<flow, Recivedataflag, rx, ucaPackMsg, ucReTry, T_Connect, redo,
                 Sendlenth, lr, env>>

\* The number of the fragment at offset Sendlenth; C division truncates to zero.
NextNumber ==
  IF Sendlenth < First THEN 1 ELSE (Sendlenth - First) \div Body + 1

SendNext ==
  /\ At("send", IF Fragments(lr) - (NextNumber % U8) = 1
                THEN "sentLast" ELSE "sentNext")
  /\ lr > First /\ Sendlenth # 0
  /\ SumPackNumber' = Fragments(lr)
  /\ Fragment(NextNumber % U8, Fragments(lr), NextNumber)
  /\ UNCHANGED <<flow, Recivedataflag, rx, ucaPackMsg, ucReTry, T_Connect, redo,
                 Sendlenth, lr, env>>

FirstSent ==
  /\ At("sentFirst", "resend") /\ Sendlenth' = First
  /\ UNCHANGED <<flow, Recivedataflag, rx, ucaPackMsg, ucReTry, T_Connect, redo,
                 SumPackNumber, lr, hvn, env>>

BadNextOffset == (Sendlenth + First) % U16
NextOffset == (Sendlenth + Body) % U16

NextSent ==
  /\ At("sentNext", "resend") /\ Sendlenth' = NextOffset
  /\ UNCHANGED <<flow, Recivedataflag, rx, ucaPackMsg, ucReTry, T_Connect, redo,
                 SumPackNumber, lr, hvn, env>>

LastSent ==
  /\ At("sentLast", "resend")
  /\ Sendlenth' = lr /\ lr' = 0 /\ TP_START
  /\ UNCHANGED <<flow, Recivedataflag, rx, ucaPackMsg, ucReTry, redo,
                 SumPackNumber, hvn, env>>

NothingToSend ==
  /\ At("send", "resend") /\ lr = 0
  /\ UNCHANGED <<flow, Recivedataflag, rx, ucaPackMsg, ucReTry, T_Connect,
                 redo, tx, hvn, env>>

\* ReSendNotification looks at one bit of the phone's list in each pass, sends
\* the fragment it stands for and waits 20 ms, in which the phone may answer.
Positions == (ucaPackMsg.len - 1) * Word
Wanted ==
  IF remberPackn < Positions THEN NextExpPack(remberPackn, ucaPackMsg) ELSE 0

ReSendNotification ==
  /\ At("resend", "resent") /\ ucResend = 1
  /\ ucExpPackN_' = Wanted
  /\ IF Wanted # 0 THEN Fragment(Wanted - 1, SumPackNumber, Wanted - 1)
                   ELSE UNCHANGED hvn
  /\ UNCHANGED <<flow, Recivedataflag, rx, ucaPackMsg, ucReTry, T_Connect,
                 ucResend, remberPackn, tx, env>>

\* The last fragment has been sent again, or the list is exhausted.
BadResendOver == ucExpPackN_ = SumPackNumber
ResendOver == ucExpPackN_ = SumPackNumber \/ Positions = remberPackn

Resent ==
  /\ At("resent", "timeout") /\ ucExpPackN_' = 0
  /\ IF ResendOver
     THEN ucResend' = 0 /\ remberPackn' = 0 /\ TP_START
     ELSE /\ remberPackn' = (remberPackn + 1) % U8
          /\ UNCHANGED <<ucResend, T_Connect>>
  /\ UNCHANGED <<flow, Recivedataflag, rx, ucaPackMsg, ucReTry, tx, hvn, env>>

NothingToResend ==
  /\ At("resend", "timeout") /\ ucResend = 0
  /\ UNCHANGED <<flow, Recivedataflag, rx, ucaPackMsg, ucReTry, T_Connect,
                 redo, tx, hvn, env>>

NotExpired ==
  /\ At("timeout", "cmd") /\ T_Connect # "expired"
  /\ UNCHANGED <<flow, Recivedataflag, rx, ucaPackMsg, ucReTry, T_Connect,
                 redo, tx, hvn, env>>

\* A command is incomplete: ask again, without restarting the timer ...
AskMissing ==
  /\ At("timeout", "txtimeout") /\ T_Connect = "expired"
  /\ IF Apdufinsh = 2
     THEN RetriesLeft /\ TellMissed(ucaPackMsg) /\ ucReTry' = ucReTry + 1
     ELSE UNCHANGED <<ucReTry, hvn>>
  /\ UNCHANGED <<flow, Recivedataflag, rx, ucaPackMsg, T_Connect, redo, tx, env>>

\* ... or drop it.  The bitmap is cleared before the rest (DropRest).
DropCommand ==
  /\ At("timeout", "drop") /\ T_Connect = "expired"
  /\ Apdufinsh = 2 /\ ~RetriesLeft
  /\ TP_CLOSE /\ ble_transfer_init
  /\ UNCHANGED <<flow, Recivedataflag, Apdufinsh, g_apdu, g_apdu_length,
                 mark, tx, hvn, env>>

DropRest ==
  /\ At("drop", "txtimeout")
  /\ Apdufinsh' = 0 /\ g_apdu_length' = 0 /\ lr' = 0
  /\ UNCHANGED <<flow, Recivedataflag, g_apdu, ucaRevPackN, ucaPackMsg, ucReTry,
                 T_Connect, redo, SumPackNumber, Sendlenth, hvn, env>>

\* A reply is not acknowledged: wait again, or give it up, in two steps as well.
WaitAgain ==
  /\ At("txtimeout", "cmd")
  /\ IF SumPackNumber = 0 THEN UNCHANGED <<T_Connect, ucReTry>>
     ELSE RetriesLeft /\ TP_START /\ ucReTry' = ucReTry + 1
  /\ UNCHANGED <<flow, Recivedataflag, rx, ucaPackMsg, redo, tx, hvn, env>>

AbandonReply ==
  /\ At("txtimeout", "abandon") /\ SumPackNumber # 0 /\ ~RetriesLeft
  /\ TP_CLOSE /\ ble_transfer_init
  /\ UNCHANGED <<flow, Recivedataflag, Apdufinsh, g_apdu, g_apdu_length, mark,
                 tx, hvn, env>>

AbandonRest ==
  /\ At("abandon", "cmd") /\ ForgetReply
  /\ UNCHANGED <<flow, Recivedataflag, rx, ucaPackMsg, ucReTry, T_Connect, redo,
                 hvn, env>>

-----------------------------------------------------------------------------
(* Main loop: the application's side of the flags.                         *)

\* Send_bluetoothdata: reply r is composed in g_apdu and handed to the link.
Send_bluetoothdata(r) ==
  /\ g_apdu' = [i \in Upto(Slots) |->
                  IF i < Fragments(RSize[r]) THEN r ELSE g_apdu[i]]
  /\ g_apdu_length' = RSize[r] /\ blueRecivSendflag' = "Senddata"

\* BleCmdProcess: a command whose header agrees with the length counted is
\* taken; it is answered here, or passed to the STM32 for a later answer.
Acceptable ==
  /\ blueRecivSendflag = "Recivedata" /\ g_apdu[0] \in Msgs
  /\ g_apdu_length = Size[g_apdu[0]] - 2

BleCmdProcess ==
  /\ At("cmd", "uart")
  /\ \/ /\ Acceptable
        /\ \/ \E r \in Replies : Send_bluetoothdata(r) /\ UNCHANGED owed
           \/ /\ blueRecivSendflag' = "NOdata"
              /\ owed' \in IF Patient THEN {TRUE} ELSE BOOLEAN
              /\ UNCHANGED <<g_apdu, g_apdu_length>>
     \/ ~Acceptable /\ UNCHANGED <<blueRecivSendflag, g_apdu, g_apdu_length, owed>>
  /\ UNCHANGED <<connected, uart_waitack_flag, Recivedataflag, Apdufinsh,
                 ucaRevPackN, ucaPackMsg, ucReTry, T_Connect, redo, tx, hvn,
                 phone, losses, downs, strays>>

\* UartDataSendrecive: the phone's acknowledgement is passed to the STM32, and
\* a frame that came from the STM32 is forwarded (Uart_cmdprogam).
UartIdle ==
  /\ At("uart", "entry")
  /\ uart_waitack_flag' = IF uart_waitack_flag = 2 THEN 0 ELSE uart_waitack_flag
  /\ UNCHANGED <<connected, blueRecivSendflag, Recivedataflag, rx, ucaPackMsg,
                 ucReTry, T_Connect, redo, tx, hvn, env>>

Uart_cmdprogam ==
  /\ At("uart", "entry")
  /\ Patient => owed /\ Free
  /\ \E r \in Replies : Send_bluetoothdata(r)
  /\ uart_waitack_flag' = 1 /\ owed' = FALSE
  /\ UNCHANGED <<connected, Recivedataflag, Apdufinsh, ucaRevPackN, ucaPackMsg,
                 ucReTry, T_Connect, redo, tx, hvn, phone, losses, downs, strays>>

MainLoop ==
  \/ ResetWhenDown \/ TakeReply \/ HandOver \/ ClearFinish \/ NothingToHandOver
  \/ SendSingle \/ SendFirst \/ SendNext \/ NothingToSend
  \/ FirstSent \/ NextSent \/ LastSent
  \/ ReSendNotification \/ Resent \/ NothingToResend
  \/ NotExpired \/ AskMissing \/ DropCommand \/ DropRest
  \/ WaitAgain \/ AbandonReply \/ AbandonRest
  \/ BleCmdProcess \/ UartIdle \/ Uart_cmdprogam

-----------------------------------------------------------------------------
(* The environment: time and the phone.                                    *)

Complete ==
  phone.total > 0 /\ Upto(phone.total) \subseteq {f[1] : f \in phone.got}

\* Something the phone will do without waiting for the device.
PhoneBusy == phone.todo # {} \/ hvn # <<>> \/ phone.got # {}

Expire ==
  /\ T_Connect = "running" /\ T_Connect' = "expired"
  /\ phone.prompt => ~PhoneBusy
  /\ UNCHANGED <<flow, Recivedataflag, rx, ucaPackMsg, ucReTry, redo, tx, pc,
                 hvn, env>>

PhoneOnly == UNCHANGED <<flow, Recivedataflag, rx, ucaPackMsg, ucReTry,
                         T_Connect, redo, tx, pc, owed, downs, strays>>

PhoneStarts(m) ==
  /\ connected /\ ~Asking
  /\ Polite => ucResend = 0
  /\ phone' = [Idle(phone.prompt) EXCEPT !.msg = m, !.todo = Upto(Packets(m))]
  /\ PhoneOnly /\ UNCHANGED <<hvn, losses>>

PhoneSends(n) ==
  /\ Asking /\ n \in phone.todo /\ \A k \in phone.todo : n <= k
  /\ PacketArrives(phone.msg, n, PacketBytes(phone.msg, n))
  /\ phone' = [phone EXCEPT !.todo = @ \ {n}]
  /\ UNCHANGED <<owed, losses, downs, strays>>

PacketLost(n) ==
  /\ losses < MaxLoss /\ losses' = losses + 1
  /\ n \in phone.todo /\ \A k \in phone.todo : n <= k
  /\ phone.prompt => phone.todo # {n}
  /\ phone' = [phone EXCEPT !.todo = @ \ {n}, !.lost = @ \cup {n}]
  /\ PhoneOnly /\ UNCHANGED hvn

\* The phone reads a notification: a list of packets to send again (a polite
\* phone knows which of them did arrive), or a fragment of the reply.
PhoneReads ==
  /\ hvn # <<>> /\ hvn' = Tail(hvn)
  /\ LET x == Head(hvn)
         again == IF Polite THEN x.missing \cap phone.lost
                  ELSE x.missing \cap Upto(Packets(phone.msg))
     IN phone' = IF x.kind = "fragment"
                 THEN [phone EXCEPT !.got = @ \cup {<<x.num, x.tag>>},
                                    !.total = x.total]
                 ELSE IF Asking
                 THEN [phone EXCEPT !.todo = @ \cup again, !.lost = @ \ again]
                 ELSE phone
  /\ PhoneOnly /\ UNCHANGED losses

PhoneAcks ==
  /\ Complete /\ AckArrives /\ phone' = Idle(phone.prompt)
  /\ UNCHANGED <<owed, losses, downs, strays>>

PhoneAsks ==
  /\ phone.got # {} /\ ~Complete /\ hvn = <<>>
  /\ Polite => lr = 0 /\ ucResend = 0
  /\ ResendArrives(Upto(phone.total) \ {f[1] : f \in phone.got})
  /\ UNCHANGED env

\* The user cancels; a polite phone does so only when nothing is under way.
PhoneGivesUp ==
  /\ Asking /\ ~phone.prompt
  /\ Polite => ~PhoneBusy /\ Free /\ ~owed /\ Apdufinsh = 0 /\ pc = "entry"
  /\ phone' = Idle(phone.prompt)
  /\ PhoneOnly /\ UNCHANGED <<hvn, losses>>

\* Any packet, well-formed or cut short, or an acknowledgement, at any time.
Stray ==
  /\ strays < MaxStray /\ strays' = strays + 1
  /\ \/ \E m \in Msgs : \E n \in Upto(Packets(m)) :
          \E bytes \in {0, PacketBytes(m, n)} : PacketArrives(m, n, bytes)
     \/ AckArrives
  /\ UNCHANGED <<phone, owed, losses, downs>>

Phone ==
  \/ \E n \in Upto(Slots) : PhoneSends(n)
  \/ PhoneReads \/ PhoneAcks \/ PhoneAsks

Next ==
  \/ MainLoop \/ Phone \/ Expire \/ Connect \/ Disconnect
  \/ \E m \in Msgs : PhoneStarts(m)
  \/ \E n \in Upto(Slots) : PacketLost(n)
  \/ PhoneGivesUp \/ Stray

Spec == Init /\ [][Next]_vars

\* The main loop never stops and the timer fires.
DeviceFairness == WF_vars(MainLoop) /\ WF_vars(Expire)
FairSpec == Spec /\ DeviceFairness

\* A phone that keeps the link up goes on with what it began, and the STM32
\* answers what it was sent.
PhoneFairness == WF_vars(Phone) /\ SF_vars(Uart_cmdprogam)

-----------------------------------------------------------------------------
(* Properties.                                                             *)

Notification ==
  [kind : {"report"}, missing : SUBSET Nat]
    \cup [kind : {"fragment"}, num : Int, total : Nat,
          tag : Tags]

BoolType == connected \in BOOLEAN /\ owed \in BOOLEAN

FlagType ==
  /\ Recivedataflag \in {0, 1}
  /\ blueRecivSendflag \in {"NOdata", "Recivedata", "Senddata"}
  /\ uart_waitack_flag \in {0, 1, 2}
  /\ ucReTry \in 0 .. MaxRetry /\ T_Connect \in {"off", "running", "expired"}
  /\ pc \in {"entry", "recv", "clear", "send", "sentFirst", "sentNext",
             "sentLast", "resend", "resent", "timeout", "drop", "txtimeout",
             "abandon", "cmd", "uart"}

RxType ==
  /\ Apdufinsh \in {0, 1, 2} /\ g_apdu \in [Upto(Slots) -> Tags]
  /\ g_apdu_length \in Nat /\ ucaRevPackN \subseteq Upto(Slots)

ListType ==
  /\ ucaPackMsg \in [len : Nat, missing : SUBSET Nat]
  /\ ucResend \in {0, 1} /\ remberPackn \in Upto(U8) /\ ucExpPackN_ \in Nat

TxType == SumPackNumber \in Nat /\ Sendlenth \in Nat /\ lr \in Nat

EnvType ==
  /\ hvn \in Seq(Notification)
  /\ phone \in [msg : Msgs \cup {NoTag}, todo : SUBSET Upto(Slots),
                lost : SUBSET Upto(Slots), got : SUBSET (Int \X Tags),
                total : Nat, prompt : BOOLEAN]
  /\ losses \in 0 .. MaxLoss /\ downs \in 0 .. MaxDown /\ strays \in 0 .. MaxStray

TypeOK == BoolType /\ FlagType /\ RxType /\ ListType /\ TxType /\ EnvType

\* When no reply is outstanding the send offset is back at zero, whichever way
\* the last reply ended; ble_to_phone_msg would otherwise start the next reply
\* in the middle.
IdleMeansFresh == SumPackNumber = 0 => Sendlenth = 0

\* The list of missing packets and the bitmap share their bytes with what the
\* phone reports about replies; unless a reply is out, the list never names a
\* packet that is there, so the phone is not asked for what the device has.
ReportTruthful == SumPackNumber = 0 => ucaPackMsg.missing \cap ucaRevPackN = {}

\* In the middle of a reply the send offset is at the start of one of its
\* fragments but the first, however passes, timeouts and requests interleave.
TxAligned ==
  lr > First /\ Sendlenth # 0 =>
    \E k \in 1 .. SumPackNumber - 1 : Sendlenth = First + Body * (k - 1)

\* What is handed to BleCmdProcess is what the phone is asking, and the length
\* counted packet by packet in the interrupt is that of the command, if the phone
\* answers in time.
DeliveredIntact ==
  phone.prompt /\ blueRecivSendflag = "Recivedata" /\ Asking =>
    /\ \A i \in Upto(Packets(phone.msg)) : g_apdu[i] = phone.msg
    /\ g_apdu_length = Size[phone.msg] - 2

\* The fragments the phone holds are all of one reply and numbered within it,
\* sent once or again: nothing overwrote g_apdu while they went out, if the phone
\* answers in time.
ReplyIntact ==
  phone.prompt /\ phone.got # {} =>
    \E x \in Replies : /\ First + (phone.total - 1) * Body >= RSize[x]
                       /\ \A f \in phone.got : f[1] < phone.total /\ f[2] = x

\* The wait for an acknowledgement is timed: "TP_START(...);//wait ack".
WaitAckTimerRuns ==
  SumPackNumber # 0 /\ lr = 0 /\ ucResend = 0 => T_Connect # "off"

\* A phone that falls silent does not block the sender: the reply is given up.
TxReturnsToIdle == SumPackNumber # 0 /\ ~phone.prompt ~> SumPackNumber = 0

\* Serving a list of missing fragments comes to an end, wherever the list ends
\* and wherever remberPackn was left by an earlier one.
ResendEnds == ucResend = 1 ~> ucResend = 0

\* Every command of a phone that answers in time is answered and acknowledged,
\* through two losses of packets and notifications refused by a full queue.  With
\* a third one the reports, which follow each other without the timer (line 524),
\* are used up before the packets are back, and the command is dropped.
RoundTrip == PhoneFairness => (Asking /\ phone.prompt ~> ~Asking)
=============================================================================
