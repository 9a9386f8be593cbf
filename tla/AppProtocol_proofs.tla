------------------------- MODULE AppProtocol_proofs -------------------------
(***************************************************************************)
(* Proofs about AppProtocol, for any number of labels above two, any       *)
(* commands, any number of repetitions and any of the faults.              *)
(***************************************************************************)
EXTENDS AppProtocol, TLAPS

(***************************************************************************)
(* The inductive invariant.  One message is under way at a time.  While it *)
(* is a command the phone waits; unless it was damaged it is the phone's;  *)
(* it may have run before only if the phone repeats it, and then it is not *)
(* damaged and the filter holds exactly what it carries.                   *)
(***************************************************************************)

OneMessage ==
    /\ toDevice # None => blueRecivSendflag = "NOdata" /\ toPhone = None
    /\ toPhone # None => blueRecivSendflag = "NOdata"

\* A message on its way to BleCmdProcess.
Asked(m) ==
    /\ m.cmd = "ask" => state = "asks"
    /\ m.cmd = "work" =>
         /\ state = "waits"
         /\ m.intact => m = Command(label, body)
         /\ ~m.intact => repeats = Once
         /\ repeats = Once => ran = 0

\* A message on its way from it.
Told(m) ==
    /\ m.cmd = "status" =>
         state = "asks" /\ m.old = CMD09_oldlabel /\ m.sw = CMD09_SW
    /\ m.cmd = "done" => state = "waits" /\ ran = 1

UnderWay ==
    /\ toDevice # None => Asked(toDevice)
    /\ blueRecivSendflag = "Recivedata" =>
         g_apdu \in WorkMsgs \cup {Query} /\ Asked(g_apdu)
    /\ blueRecivSendflag = "Senddata" =>
         g_apdu \in DoneMsgs \cup StatusMsgs /\ Told(g_apdu)
    /\ toPhone # None => Told(toPhone)

Record ==
    /\ ran = 1 => /\ CMD09_oldlabel = label /\ oldCRC = <<label, body>>
                  /\ CMD09_SW = 144
    /\ state # "idle" /\ ran = 0 /\ CMD09_oldlabel = label => CMD09_SW = 103
    /\ state # "idle" => body \in Bodies
    /\ ran \in {0, 1}
    /\ believes => ran = 1

IInv == TypeOK /\ OneMessage /\ UnderWay /\ Record


(***************************************************************************)
(* The messages.                                                           *)
(***************************************************************************)

\* Messages are told apart by their commands, and carry what their sender put.
LEMMA Messages ==
    /\ None.cmd = "none" /\ Query.cmd = "ask" /\ None # Query
    /\ None \notin WorkMsgs \cup DoneMsgs \cup StatusMsgs
    /\ Query \notin WorkMsgs \cup DoneMsgs \cup StatusMsgs
    /\ \A m \in WorkMsgs : m.cmd = "work" /\ m.label \in Labels /\ m.body \in Bodies
                           /\ m.crc \in Intact \cup {BadCRC} /\ m.intact \in BOOLEAN
    /\ \A m \in DoneMsgs : m.cmd = "done" /\ m.label \in Labels
    /\ \A m \in StatusMsgs : m.cmd = "status"
BY DEF None, Query, WorkMsgs, DoneMsgs, StatusMsgs

\* A command as the phone sends it.
LEMMA CommandType ==
  ASSUME NEW l \in Labels, NEW b \in Bodies
  PROVE  /\ Command(l, b) \in WorkMsgs
         /\ Command(l, b).cmd = "work" /\ Command(l, b).intact
         /\ Command(l, b).label = l /\ Command(l, b).body = b
         /\ Command(l, b).crc = <<l, b>>
BY DEF Command, WorkMsgs, Intact

\* The answers as the device sends them.
LEMMA AnswerTypes ==
  ASSUME NEW l \in Labels, NEW s \in {0, 144, 103}
  PROVE  /\ Answer(l) \in DoneMsgs /\ Answer(l).cmd = "done"
         /\ Status(l, s) \in StatusMsgs /\ Status(l, s).cmd = "status"
         /\ Status(l, s).old = l /\ Status(l, s).sw = s
BY DEF Answer, Status, DoneMsgs, StatusMsgs

(***************************************************************************)
(* The invariant holds at the start and every step keeps it.               *)
(***************************************************************************)

LEMMA InitInv == Init => IInv
<1> SUFFICES ASSUME Init PROVE IInv
  OBVIOUS
<1>1. 0 \in Labels /\ 0 \in 0 .. Once /\ 0 \in 0 .. MaxCmd /\ 0 \in 0 .. MaxFault
  BY AppAssumption DEF Labels, Once
<1>2. TypeOK
  BY <1>1 DEF Init, TypeOK
<1>3. OneMessage /\ UnderWay /\ Record
  BY DEF Init, OneMessage, UnderWay, Record
<1>. QED
  BY <1>2, <1>3 DEF IInv

\* The device takes a message over.
LEMMA ReceiveInv == IInv /\ Receive => IInv'
<1> SUFFICES ASSUME IInv, Receive PROVE IInv'
  OBVIOUS
<1>1. TypeOK'
  BY DEF IInv, TypeOK, Receive, filter, phone
<1>2. OneMessage'
  BY DEF IInv, OneMessage, Receive
<1>3. UnderWay'
  BY DEF IInv, TypeOK, OneMessage, UnderWay, Asked, Told, Receive, filter, phone
<1>4. Record'
  BY DEF IInv, Record, Receive, filter, phone
<1>. QED
  BY <1>1, <1>2, <1>3, <1>4 DEF IInv

\* The device acts on it.
LEMMA ProcessInv == IInv /\ BleCmdProcess => IInv'
<1> SUFFICES ASSUME IInv, BleCmdProcess PROVE IInv'
  OBVIOUS
<1>0. /\ blueRecivSendflag = "Recivedata" /\ toDevice = None /\ toPhone = None
      /\ UNCHANGED <<line, phone, cmds, faults>>
      /\ g_apdu \in WorkMsgs \cup {Query} /\ Asked(g_apdu)
  BY DEF IInv, OneMessage, UnderWay, BleCmdProcess
<1>1. CASE g_apdu.cmd = "ask" /\ recivestatus_F
  <2>1. /\ g_apdu' = Status(CMD09_oldlabel, CMD09_SW)
        /\ blueRecivSendflag' = "Senddata" /\ UNCHANGED <<filter, ran>>
        /\ state = "asks"
    BY <1>0, <1>1 DEF recivestatus_F, Send_bluetoothdata, Asked
  <2>2. /\ g_apdu' \in StatusMsgs /\ g_apdu'.cmd = "status"
        /\ g_apdu'.old = CMD09_oldlabel /\ g_apdu'.sw = CMD09_SW
    BY <2>1, AnswerTypes DEF IInv, TypeOK
  <2>3. TypeOK'
    BY <1>0, <2>1, <2>2 DEF IInv, TypeOK, filter, line, phone
  <2>4. OneMessage'
    BY <1>0 DEF OneMessage, line
  <2>5. UnderWay'
    BY <1>0, <2>1, <2>2 DEF UnderWay, Told, filter, line, phone
  <2>6. Record'
    BY <1>0, <2>1 DEF IInv, Record, filter, phone
  <2>. QED
    BY <2>3, <2>4, <2>5, <2>6 DEF IInv
<1>2. CASE g_apdu.cmd = "work" /\ Repeated /\ NoAnswer /\ UNCHANGED <<filter, ran>>
  <2>1. /\ UNCHANGED g_apdu /\ blueRecivSendflag' = "NOdata"
        /\ UNCHANGED <<filter, ran>>
    BY <1>2 DEF NoAnswer
  <2>3. TypeOK'
    BY <1>0, <2>1 DEF IInv, TypeOK, filter, line, phone
  <2>4. OneMessage'
    BY <1>0 DEF OneMessage, line
  <2>5. UnderWay'
    BY <1>0, <2>1 DEF UnderWay, line
  <2>6. Record'
    BY <1>0, <2>1 DEF IInv, Record, filter, phone
  <2>. QED
    BY <2>3, <2>4, <2>5, <2>6 DEF IInv
<1>3. CASE /\ g_apdu.cmd = "work" /\ ~Repeated /\ Remember
           /\ bluetoothjudge_crc16
           /\ CMD09_SW' = 144 /\ BluetoothWork
  <2>1. /\ state = "waits" /\ g_apdu = Command(label, body)
        /\ CMD09_oldlabel' = g_apdu.label /\ oldCRC' = g_apdu.crc
        /\ CMD09_SW' = 144 /\ ran' = ran + 1
    BY <1>0, <1>3 DEF Asked, bluetoothjudge_crc16, Remember, BluetoothWork
  <2>2. label \in Labels /\ body \in Bodies
    BY <2>1 DEF IInv, TypeOK, Record
  <2>3. g_apdu.label = label /\ g_apdu.crc = <<label, body>>
    BY <2>1, <2>2, CommandType
  <2>4. ran = 0
    BY <1>3, <2>3 DEF IInv, Record, Repeated
  <2>5. \/ g_apdu' = g_apdu /\ blueRecivSendflag' = "NOdata"
        \/ g_apdu' = Answer(label) /\ blueRecivSendflag' = "Senddata"
    BY <1>3, <2>3 DEF BluetoothWork, NoAnswer, Send_bluetoothdata
  <2>6. Answer(label) \in DoneMsgs /\ Answer(label).cmd = "done"
    BY <2>2, AnswerTypes
  <2>7. TypeOK'
    BY <1>0, <2>1, <2>2, <2>3, <2>4, <2>5, <2>6
       DEF IInv, TypeOK, line, phone, Intact
  <2>8. OneMessage'
    BY <1>0 DEF OneMessage, line
  <2>9. UnderWay'
    <3>1. CASE g_apdu' = g_apdu /\ blueRecivSendflag' = "NOdata"
      BY <1>0, <3>1 DEF UnderWay, line
    <3>2. CASE g_apdu' = Answer(label) /\ blueRecivSendflag' = "Senddata"
      BY <1>0, <2>1, <2>4, <2>6, <3>2 DEF UnderWay, Told, line, phone
    <3>. QED
      BY <2>5, <3>1, <3>2
  <2>10. Record'
    BY <1>0, <2>1, <2>2, <2>3, <2>4 DEF IInv, Record, phone
  <2>. QED
    BY <2>7, <2>8, <2>9, <2>10 DEF IInv
<1>4. CASE /\ g_apdu.cmd = "work" /\ ~Repeated /\ Remember
           /\ ~bluetoothjudge_crc16 /\ Refuse
  <2>1. /\ state = "waits"
        /\ CMD09_oldlabel' = g_apdu.label /\ oldCRC' = g_apdu.crc
        /\ CMD09_SW' = 103 /\ UNCHANGED <<g_apdu, ran>>
        /\ blueRecivSendflag' = "NOdata"
    BY <1>0, <1>4 DEF Asked, Remember, Refuse, NoAnswer
  <2>2. g_apdu.label \in Labels /\ g_apdu.crc \in Intact \cup {BadCRC}
    BY <1>0, <1>4, Messages
  <2>3. label \in Labels /\ body \in Bodies
    BY <2>1 DEF IInv, TypeOK, Record
  <2>4. ~g_apdu.intact
    BY <1>0, <1>4, <2>3, CommandType DEF Asked, bluetoothjudge_crc16
  <2>5. ran = 0
    BY <1>0, <1>4, <2>4 DEF Asked
  <2>6. TypeOK'
    BY <1>0, <2>1, <2>2 DEF IInv, TypeOK, line, phone
  <2>7. OneMessage'
    BY <1>0 DEF OneMessage, line
  <2>8. UnderWay'
    BY <1>0, <2>1 DEF UnderWay, line
  <2>9. Record'
    BY <1>0, <2>1, <2>3, <2>5 DEF IInv, Record, phone
  <2>. QED
    BY <2>6, <2>7, <2>8, <2>9 DEF IInv
<1>. QED
  BY <1>1, <1>2, <1>3, <1>4 DEF BleCmdProcess

\* The device hands its answer over.
LEMMA SendAnswerInv == IInv /\ SendAnswer => IInv'
<1> SUFFICES ASSUME IInv, SendAnswer PROVE IInv'
  OBVIOUS
<1>1. TypeOK'
  BY DEF IInv, TypeOK, UnderWay, SendAnswer, filter, phone
<1>2. OneMessage'
  BY DEF IInv, OneMessage, SendAnswer
<1>3. UnderWay'
  BY DEF IInv, OneMessage, UnderWay, Told, SendAnswer, filter, phone
<1>4. Record'
  BY DEF IInv, Record, SendAnswer, filter, phone
<1>. QED
  BY <1>1, <1>2, <1>3, <1>4 DEF IInv

\* Whatever the phone transmits keeps the invariant, if it is a repetition of
\* a command that is repeated or if the command has not run and its label is new.
LEMMA TransmitInv ==
  ASSUME IInv, UNCHANGED device, toPhone' = None,
         blueRecivSendflag = "NOdata",
         NEW l \in Labels, NEW b \in Bodies, Transmit(l, b), body' = b,
         repeats' \in 0 .. Once, cmds' \in 0 .. MaxCmd, faults' \in 0 .. MaxFault,
         believes' \in BOOLEAN,
         \/ ran' = 0 /\ l # CMD09_oldlabel /\ ~believes'
         \/ UNCHANGED <<label, body, ran, believes>> /\ state # "idle" /\ repeats' # Once
  PROVE  IInv'
<1>1. /\ toDevice' = Command(l, b) /\ label' = l /\ state' = "waits"
      /\ UNCHANGED <<CMD09_oldlabel, oldCRC, CMD09_SW, blueRecivSendflag, g_apdu>>
  BY DEF Transmit, device, filter
<1>2. /\ Command(l, b) \in WorkMsgs /\ Command(l, b).cmd = "work"
      /\ Command(l, b).intact
  BY CommandType
<1>3. ran' \in {0, 1}
  BY DEF IInv, Record
<1>4. TypeOK'
  BY <1>1, <1>2, <1>3, Messages DEF IInv, TypeOK
<1>5. OneMessage'
  BY <1>1 DEF OneMessage
<1>6. UnderWay'
  <2>1. Asked(toDevice)'
    <3>1. toDevice'.cmd = "work" /\ toDevice'.intact /\ toDevice' = Command(label', body')
      BY <1>1, <1>2
    <3>2. repeats' = Once => ran' = 0
      OBVIOUS
    <3>. QED
      BY <1>1, <3>1, <3>2 DEF Asked
  <2>. QED
    BY <1>1, <2>1 DEF UnderWay
<1>7. Record'
  BY <1>1, <1>3 DEF IInv, Record
<1>. QED
  BY <1>4, <1>5, <1>6, <1>7 DEF IInv

LEMMA BeginInv == ASSUME NEW b \in Bodies, IInv, Begin(b) PROVE IInv'
<1>1. PICK l \in Fresh : Transmit(l, b)
  BY DEF Begin
<1>2. l \in Labels /\ l # CMD09_oldlabel
  BY DEF Fresh
<1>3. /\ UNCHANGED device /\ toPhone' = None
      /\ blueRecivSendflag = "NOdata" /\ body' = b
      /\ ran' = 0 /\ believes' = FALSE
  BY DEF Begin, Quiet
<1>4. repeats' \in 0 .. Once /\ cmds' \in 0 .. MaxCmd /\ faults' \in 0 .. MaxFault
  BY AppAssumption DEF Begin, IInv, TypeOK, Once
<1>. QED
  BY <1>1, <1>2, <1>3, <1>4, TransmitInv

LEMMA RepeatInv == IInv /\ Repeat => IInv'
<1> SUFFICES ASSUME IInv, Repeat PROVE IInv'
  OBVIOUS
<1>1. /\ UNCHANGED device /\ toPhone' = None
      /\ blueRecivSendflag = "NOdata"
      /\ Transmit(label, body) /\ body' = body /\ state = "waits"
      /\ UNCHANGED <<ran, believes, cmds, faults>>
  BY DEF Repeat, Quiet
<1>2. UNCHANGED <<label, body>>
  BY <1>1 DEF Transmit
<1>3. label \in Labels /\ body \in Bodies /\ believes' \in BOOLEAN
  BY <1>1 DEF IInv, TypeOK, Record
<1>4. /\ repeats' \in 0 .. Once /\ cmds' \in 0 .. MaxCmd
      /\ faults' \in 0 .. MaxFault /\ repeats' # Once
  BY <1>1, AppAssumption DEF Repeat, IInv, TypeOK, Once
<1>. QED
  BY <1>1, <1>2, <1>3, <1>4, TransmitInv

LEMMA AskInv == IInv /\ Ask => IInv'
<1> SUFFICES ASSUME IInv, Ask PROVE IInv'
  OBVIOUS
<1>1. /\ toDevice' = Query /\ toPhone' = None /\ state' = "asks" /\ state # "idle"
      /\ blueRecivSendflag = "NOdata"
      /\ UNCHANGED <<CMD09_oldlabel, oldCRC, CMD09_SW, blueRecivSendflag, g_apdu>>
      /\ UNCHANGED <<label, body, repeats, believes, ran, cmds, faults>>
  BY DEF Ask, Quiet, device, filter
<1>2. TypeOK'
  BY <1>1 DEF IInv, TypeOK
<1>3. OneMessage'
  BY <1>1 DEF OneMessage
<1>4. UnderWay'
  BY <1>1, Messages DEF UnderWay, Asked
<1>5. Record'
  BY <1>1 DEF IInv, Record
<1>. QED
  BY <1>2, <1>3, <1>4, <1>5 DEF IInv

\* The phone takes a command for done only after it ran, and starts it anew
\* only when it has not.
LEMMA GetAnswerInv == IInv /\ GetAnswer => IInv'
<1> SUFFICES ASSUME IInv, GetAnswer PROVE IInv'
  OBVIOUS
<1>1. /\ toPhone # None /\ toPhone' = None /\ toDevice = None
      /\ blueRecivSendflag = "NOdata" /\ Told(toPhone)
      /\ UNCHANGED <<device, ran, cmds, faults>>
      /\ UNCHANGED <<CMD09_oldlabel, oldCRC, CMD09_SW, blueRecivSendflag, g_apdu>>
  BY DEF GetAnswer, IInv, OneMessage, UnderWay, device, filter
<1>2. ASSUME Finish, ran = 1 PROVE IInv'
  <2>1. /\ state' = "idle" /\ believes' = TRUE
        /\ UNCHANGED <<label, body, repeats, toDevice>>
    BY <1>2 DEF Finish
  <2>2. TypeOK'
    BY <1>1, <2>1 DEF IInv, TypeOK
  <2>3. OneMessage'
    BY <1>1, <2>1 DEF OneMessage
  <2>4. UnderWay'
    BY <1>1, <2>1 DEF UnderWay
  <2>5. Record'
    BY <1>1, <1>2, <2>1 DEF IInv, Record
  <2>. QED
    BY <2>2, <2>3, <2>4, <2>5 DEF IInv
<1>3. CASE toPhone.cmd = "done" /\ Finish
  BY <1>1, <1>2, <1>3 DEF Told
<1>4. CASE toPhone.cmd = "status" /\ state = "asks" /\ ItRan /\ Finish
  <2>1. ran = 1
    BY <1>1, <1>4 DEF Told, ItRan, IInv, Record
  <2>. QED
    BY <1>2, <1>4, <2>1
<1>5. CASE /\ toPhone.cmd = "status" /\ state = "asks" /\ ~ItRan
           /\ \E l \in Fresh : Transmit(l, body)
           /\ repeats' \in {0, Once} /\ UNCHANGED <<body, believes>>
  <2>1. ran = 0
    BY <1>1, <1>5 DEF Told, ItRan, IInv, Record
  <2>2. PICK l \in Fresh : Transmit(l, body)
    BY <1>5
  <2>3. l \in Labels /\ l # CMD09_oldlabel
    BY DEF Fresh
  <2>4. body \in Bodies /\ body' = body /\ ran' = 0 /\ believes' = FALSE
    BY <1>1, <1>5, <2>1 DEF IInv, TypeOK, Record
  <2>5. /\ repeats' \in 0 .. Once /\ cmds' \in 0 .. MaxCmd
        /\ faults' \in 0 .. MaxFault
    BY <1>1, <1>5, AppAssumption DEF IInv, TypeOK, Once
  <2>6. toPhone' = None /\ UNCHANGED device
    BY <1>1
  <2>. QED
    BY <1>1, <2>2, <2>3, <2>4, <2>5, <2>6, TransmitInv
<1>. QED
  BY <1>1, <1>3, <1>4, <1>5 DEF GetAnswer

\* The bound on faults is a bound.
LEMMA FaultRange ==
  ASSUME TypeOK, faults < MaxFault, faults' = faults + 1
  PROVE  faults' \in 0 .. MaxFault
BY AppAssumption DEF TypeOK

\* A message is lost.
LEMMA LoseInv == IInv /\ Lose => IInv'
<1> SUFFICES ASSUME IInv, Lose PROVE IInv'
  OBVIOUS
<1>0. faults' \in 0 .. MaxFault
  BY FaultRange DEF IInv, Lose
<1>1. TypeOK'
  BY <1>0 DEF IInv, TypeOK, Lose, device, filter, phone
<1>2. OneMessage'
  BY DEF IInv, OneMessage, Lose, device
<1>3. UnderWay'
  BY DEF IInv, UnderWay, Asked, Told, Lose, device, filter, phone
<1>4. Record'
  BY DEF IInv, Record, Lose, device, filter, phone
<1>. QED
  BY <1>1, <1>2, <1>3, <1>4 DEF IInv

\* A command is damaged.
LEMMA DamageInv == IInv /\ DamageCommand => IInv'
<1> SUFFICES ASSUME IInv, DamageCommand PROVE IInv'
  OBVIOUS
<1>1. /\ toDevice # None /\ toDevice.cmd = "work" /\ toDevice.intact
      /\ UNCHANGED <<device, toPhone, phone, ran, cmds>>
      /\ toDevice \in WorkMsgs
  BY Messages DEF DamageCommand, IInv, TypeOK
<1>2. repeats = Once
  BY DEF DamageCommand
<1>3. toDevice' \in WorkMsgs /\ ~toDevice'.intact /\ toDevice'.cmd = "work"
  BY <1>1 DEF DamageCommand, WorkMsgs
<1>4. Asked(toDevice)'
  BY <1>1, <1>2, <1>3 DEF IInv, UnderWay, Asked, phone
<1>5. TypeOK'
  <2>1. faults' \in 0 .. MaxFault
    BY FaultRange DEF IInv, DamageCommand
  <2>. QED
    BY <1>1, <1>3, <2>1 DEF IInv, TypeOK, device, filter, phone
<1>6. OneMessage'
  BY <1>1 DEF IInv, OneMessage, device
<1>7. UnderWay'
  BY <1>1, <1>4 DEF IInv, OneMessage, UnderWay, device
<1>8. Record'
  BY <1>1 DEF IInv, Record, device, filter, phone
<1>. QED
  BY <1>5, <1>6, <1>7, <1>8 DEF IInv

\* Nothing happens.
LEMMA StutterInv == IInv /\ UNCHANGED vars => IInv'
BY DEF IInv, TypeOK, OneMessage, UnderWay, Asked, Told, Record, vars, device,
       filter, line, phone

LEMMA StepInv == IInv /\ [Next]_vars => IInv'
BY ReceiveInv, ProcessInv, SendAnswerInv, BeginInv, RepeatInv, AskInv,
   GetAnswerInv, LoseInv, DamageInv, StutterInv DEF Next

LEMMA Invariance == Spec => []IInv
BY InitInv, StepInv, PTL DEF Spec

(***************************************************************************)
(* The theorems.                                                           *)
(***************************************************************************)

\* Every variable of the duplicate filter, the buffer and the line stays in
\* its range (AP 24-78, 465-520).
THEOREM TypeCorrect == Spec => []TypeOK
<1>1. IInv => TypeOK
  BY DEF IInv
<1>. QED
  BY <1>1, Invariance, PTL

\* A command of the phone never runs twice and is taken for done only when it
\* ran, whatever is lost, repeated or damaged (BleCmdProcess).
THEOREM AtMostOnce == Spec => []RunsOnce
<1>1. IInv => RunsOnce
  BY DEF IInv, Record, RunsOnce
<1>. QED
  BY <1>1, Invariance, PTL

\* Command 9 tells the truth about the phone's latest command
\* (recivestatus_F and the order of assignments in BleCmdProcess).
THEOREM TruthfulStatus == Spec => []StatusTruthful
<1>1. IInv => StatusTruthful
  BY DEF IInv, UnderWay, Told, Record, StatusTruthful
<1>. QED
  BY <1>1, Invariance, PTL

=============================================================================
