---------------------------- MODULE AppProtocol ----------------------------
(***************************************************************************)
(* Commands of the phone at the application level                          *)
(* (Bluetooth_APPprotocol.c): the duplicate filter of BleCmdProcess, the   *)
(* checksum, the dispatch, the answer, and command 9, by which the phone   *)
(* asks what became of a command.                                          *)
(*                                                                         *)
(* The link below carries whole messages (module BleLink); here it may     *)
(* lose or damage one.  The checksum is a symbol, an injective code of the *)
(* label and the body it was computed for.                                 *)
(***************************************************************************)
EXTENDS Naturals

CONSTANTS
    LabelMod,    \* a label is one byte: 256
    Bodies,      \* command identifier and data of the phone's commands
    Silent,      \* the bodies whose handler may send no answer
    MaxRepeat,   \* repetitions of the phone before it asks: 0, it asks at once
    Faults,      \* what may happen to a message, see Damage
    MaxCmd,      \* bound: commands of the phone
    MaxFault     \* bound: messages lost or damaged

Labels == 0 .. LabelMod - 1
Damage == {"data", "label", "crc"}   \* the part of a command that is damaged
Once   == MaxRepeat + 1              \* repeats of a command that is sent only once

ASSUME AppAssumption ==
    /\ LabelMod \in Nat \ {0, 1, 2}
    /\ Silent \subseteq Bodies
    /\ Faults \subseteq Damage \cup {"lose", "answer"}
    /\ {MaxRepeat, MaxCmd, MaxFault} \subseteq Nat

None   == [cmd |-> "none"]
NoBody == "none"
Intact == Labels \X Bodies           \* the checksums a sender computes
NoCRC  == <<0, "zero">>              \* oldCRC after a reset
BadCRC == <<0, "bad">>                      \* a checksum that fits nothing

VARIABLES
    CMD09_oldlabel, oldCRC, CMD09_SW,  \* what command 9 reports
    blueRecivSendflag,
    g_apdu,                            \* the one buffer: a command or an answer
    toDevice, toPhone,                 \* the message on its way
    label,                             \* of the phone's latest command
    body,                              \* the command the phone wants done
    state,                             \* the phone: "idle", "waits", "asks"
    repeats,                           \* repetitions so far
    believes,                          \* the phone takes its command for done
    ran,                               \* history: executions of the command
    cmds, faults

filter == <<CMD09_oldlabel, oldCRC, CMD09_SW>>
device == <<filter, blueRecivSendflag, g_apdu>>
line   == <<toDevice, toPhone>>
phone  == <<label, body, state, repeats, believes>>
vars   == <<device, line, phone, ran, cmds, faults>>

Command(l, b)   == [cmd |-> "work", label |-> l, body |-> b,
                    crc |-> <<l, b>>, intact |-> TRUE]
Query           == [cmd |-> "ask"]
Answer(l)       == [cmd |-> "done", label |-> l]
Status(o, s)    == [cmd |-> "status", old |-> o, sw |-> s]

WorkMsgs   == [cmd : {"work"}, label : Labels, body : Bodies,
               crc : Intact \cup {BadCRC}, intact : BOOLEAN]
DoneMsgs   == [cmd : {"done"}, label : Labels]
StatusMsgs == [cmd : {"status"}, old : Labels, sw : {0, 144, 103}]

TypeOK ==
    /\ CMD09_oldlabel \in Labels
    /\ oldCRC \in Intact \cup {NoCRC, BadCRC}
    /\ CMD09_SW \in {0, 144, 103}                        \* 0, 0x90, 0x67
    /\ blueRecivSendflag \in {"NOdata", "Recivedata", "Senddata"}
    /\ g_apdu \in WorkMsgs \cup DoneMsgs \cup StatusMsgs \cup {Query, None}
    /\ toDevice \in WorkMsgs \cup {Query, None}
    /\ toPhone \in DoneMsgs \cup StatusMsgs \cup {None}
    /\ label \in Labels
    /\ body \in Bodies \cup {NoBody}
    /\ state \in {"idle", "waits", "asks"} /\ believes \in BOOLEAN
    /\ repeats \in 0 .. Once
    /\ ran \in Nat /\ cmds \in 0 .. MaxCmd /\ faults \in 0 .. MaxFault

Init ==
    /\ CMD09_oldlabel = 0 /\ oldCRC = NoCRC /\ CMD09_SW = 0
    /\ blueRecivSendflag = "NOdata" /\ g_apdu = None
    /\ toDevice = None /\ toPhone = None
    /\ label = 0 /\ body = NoBody
    /\ state = "idle" /\ repeats = 0 /\ believes = FALSE
    /\ ran = 0 /\ cmds = 0 /\ faults = 0

----------------------------------------------------------------------------
\* The device.  The wrong definitions BadX are mutants: the checked properties
\* refute them.

\* The link hands a whole command over.
Receive ==
    /\ toDevice # None /\ blueRecivSendflag = "NOdata"
    /\ g_apdu' = toDevice /\ toDevice' = None
    /\ blueRecivSendflag' = "Recivedata"
    /\ UNCHANGED <<filter, toPhone, phone, ran, cmds, faults>>

\* The answer takes the place of the command in the buffer.
Send_bluetoothdata(m) == g_apdu' = m /\ blueRecivSendflag' = "Senddata"

BadNoAnswer == UNCHANGED <<g_apdu, blueRecivSendflag>>

NoAnswer == UNCHANGED g_apdu /\ blueRecivSendflag' = "NOdata"

\* Command 9; its checksum is not looked at.
recivestatus_F ==
    /\ Send_bluetoothdata(Status(CMD09_oldlabel, CMD09_SW))
    /\ UNCHANGED <<filter, ran>>

\* A command with the label and the checksum of the last one is a repetition.
Repeated == CMD09_oldlabel = g_apdu.label /\ oldCRC = g_apdu.crc

BadRemember == CMD09_oldlabel' = g_apdu.label /\ UNCHANGED oldCRC

Remember == CMD09_oldlabel' = g_apdu.label /\ oldCRC' = g_apdu.crc

bluetoothjudge_crc16 ==
    g_apdu.intact /\ g_apdu.crc = <<g_apdu.label, g_apdu.body>>

\* The handlers, seen from here: what they did and whether they answer.
BluetoothWork ==
    /\ ran' = ran + 1
    /\ \/ g_apdu.body \in Silent /\ NoAnswer
       \/ Send_bluetoothdata(Answer(g_apdu.label))

BadRefuse == UNCHANGED CMD09_SW /\ NoAnswer /\ UNCHANGED ran

Refuse == CMD09_SW' = 103 /\ NoAnswer /\ UNCHANGED ran

BleCmdProcess ==
    /\ blueRecivSendflag = "Recivedata"
    /\ \/ g_apdu.cmd = "ask" /\ recivestatus_F
       \/ /\ g_apdu.cmd = "work" /\ Repeated
          /\ NoAnswer /\ UNCHANGED <<filter, ran>>
       \/ /\ g_apdu.cmd = "work" /\ ~Repeated /\ Remember
          /\ bluetoothjudge_crc16
          /\ CMD09_SW' = 144 /\ BluetoothWork
       \/ /\ g_apdu.cmd = "work" /\ ~Repeated /\ Remember
          /\ ~bluetoothjudge_crc16 /\ Refuse
    /\ UNCHANGED <<line, phone, cmds, faults>>

\* The link takes the answer.
SendAnswer ==
    /\ blueRecivSendflag = "Senddata" /\ toPhone = None
    /\ toPhone' = g_apdu /\ blueRecivSendflag' = "NOdata"
    /\ UNCHANGED <<filter, g_apdu, toDevice, phone, ran, cmds, faults>>

----------------------------------------------------------------------------
\* The phone: one command at a time, a new label for every message but a
\* repetition.  Labels come round after 256; the phone does not lose so many
\* messages in a row that it uses the label the device remembers.

Quiet == toDevice = None /\ toPhone = None /\ blueRecivSendflag = "NOdata"

Fresh == Labels \ {label, CMD09_oldlabel}

Transmit(l, b) ==
    /\ toDevice' = Command(l, b) /\ label' = l /\ state' = "waits"

Begin(b) ==
    /\ state = "idle" /\ cmds < MaxCmd /\ Quiet
    /\ body' = b /\ believes' = FALSE /\ ran' = 0 /\ repeats' \in {0, Once}
    /\ cmds' = cmds + 1
    /\ \E l \in Fresh : Transmit(l, b)
    /\ UNCHANGED <<device, toPhone, faults>>

\* Nothing came back.  The phone waits longer than the link below needs, so
\* nothing is under way any more.  A repetition is the same message again.
Repeat ==
    /\ state = "waits" /\ Quiet /\ repeats < MaxRepeat
    /\ repeats' = repeats + 1
    /\ Transmit(label, body)
    /\ UNCHANGED <<device, toPhone, body, believes, ran, cmds, faults>>

\* Not every command has an answer: in the end the phone asks.
Ask ==
    /\ state = "asks" \/ (state = "waits" /\ repeats >= MaxRepeat)
    /\ Quiet
    /\ state' = "asks" /\ toDevice' = Query
    /\ UNCHANGED <<device, toPhone, label, body, repeats, believes, ran, cmds, faults>>

Finish ==
    /\ state' = "idle" /\ believes' = TRUE
    /\ UNCHANGED <<label, body, repeats, toDevice>>

ItRan == toPhone.old = label /\ toPhone.sw = 144

GetAnswer ==
    /\ toPhone # None /\ toPhone' = None /\ toDevice = None
    /\ \/ toPhone.cmd = "done" /\ toPhone.label = label /\ state = "waits" /\ Finish
       \/ toPhone.cmd = "status" /\ state = "asks" /\ ItRan /\ Finish
       \/ /\ toPhone.cmd = "status" /\ state = "asks" /\ ~ItRan
          /\ \E l \in Fresh : Transmit(l, body)
          /\ repeats' \in {0, Once}
          /\ UNCHANGED <<body, believes>>
    /\ UNCHANGED <<device, ran, cmds, faults>>

----------------------------------------------------------------------------
\* The line.

Lose ==
    /\ faults < MaxFault /\ faults' = faults + 1
    /\ \/ "lose" \in Faults /\ toDevice # None /\ toDevice' = None
          /\ UNCHANGED toPhone
       \/ "answer" \in Faults /\ toPhone # None /\ toPhone' = None
          /\ UNCHANGED toDevice
    /\ UNCHANGED <<device, phone, ran, cmds>>

\* A command is damaged, if the phone does not repeat it; its identifier stays
\* one of a command.
DamageCommand ==
    /\ repeats = Once
    /\ toDevice # None /\ toDevice.cmd = "work" /\ toDevice.intact
    /\ faults < MaxFault /\ faults' = faults + 1
    /\ \/ "data" \in Faults /\ toDevice' = [toDevice EXCEPT !.intact = FALSE]
       \/ /\ "label" \in Faults
          /\ \E l \in Labels \ {toDevice.label} :
                toDevice' = [toDevice EXCEPT !.label = l, !.intact = FALSE]
       \/ /\ "crc" \in Faults
          /\ \E c \in (Intact \cup {BadCRC}) \ {toDevice.crc} :
                toDevice' = [toDevice EXCEPT !.crc = c, !.intact = FALSE]
    /\ UNCHANGED <<device, toPhone, phone, ran, cmds>>

Next ==
    \/ Receive \/ BleCmdProcess \/ SendAnswer
    \/ \E b \in Bodies : Begin(b)
    \/ Repeat \/ Ask \/ GetAnswer
    \/ Lose \/ DamageCommand

Spec == Init /\ [][Next]_vars

\* The main loop runs its handlers, the link delivers, the phone goes on.
Fairness ==
    /\ WF_vars(Receive) /\ WF_vars(BleCmdProcess) /\ WF_vars(SendAnswer)
    /\ WF_vars(Repeat) /\ WF_vars(Ask) /\ WF_vars(GetAnswer)

FairSpec == Spec /\ Fairness

----------------------------------------------------------------------------
\* However often its messages are lost or damaged, a command of the phone never
\* runs twice, and what the phone takes for done has run
\* (BleCmdProcess: the filter, the order in which label, checksum and SW are
\* recorded, and what command 9 reports).
RunsOnce == ran <= 1 /\ (believes => ran = 1)

\* What command 9 reports of the phone's latest command is true: 0x67 says that
\* it has not run, 0x90 that it has (recivestatus_F, CMD09_SW).
StatusTruthful ==
    toPhone # None /\ state = "asks" /\ toPhone.cmd = "status" /\ toPhone.old = label =>
        toPhone.sw = (IF ran = 1 THEN 144 ELSE 103)

\* Every command of the phone is done in the end, the ones without an answer
\* included, and the phone knows it.
Resolved == state = "waits" ~> state = "idle"

=============================================================================
