------------------------------- MODULE Status -------------------------------
(***************************************************************************)
(* What the device is doing: Main_status, the handler of each status, the  *)
(* commands of the phone that change it, and the interrupts that do: the   *)
(* timers of the display, the passkey, the keys and the charger            *)
(* (program.c, timedis.c, closeoled.c, bluetoothKEY_bithd.c, sys.c,        *)
(* Timer_Interrupt_Function.c, ADC_BITHD.c).  They share one command for   *)
(* the STM32, the one CmdSendUart composed last, and the UART.             *)
(*                                                                         *)
(* Interrupts fall between the parts of a pass, into the 100 ms a handler  *)
(* waits for the STM32 (PowerOn_key), between the transmission of a        *)
(* command and the moment it is no longer flagged, and between the two     *)
(* looks at the charger under the low battery's picture.  The UART link    *)
(* itself is module UartLink; here a transmission is confirmed or given    *)
(* up, and a frame of the STM32 may be taken or refused at any time, which *)
(* decides whether commands are held back (Ack_recive_enable).             *)
(* Timeout3Sec_id runs to no effect (its handler is empty,                 *)
(* Timer_Interrupt_Function.c 73-76), and what needs it to have run out,   *)
(* or a long touch, which no code reports, is left out.                    *)
(***************************************************************************)
EXTENDS Naturals

CONSTANTS
    Requests,      \* the commands of the phone, see Commands
    MaxResend,     \* MAX_resend
    ChargedAfter, UnpluggedAfter, RemovedAfter,  \* ticks the charger's pin must last
    MaxEvent       \* bound: acts of the phone, its user and the charger

Commands == {"time", "turnoff", "download", "update", "update_end",
             "enter", "leave", "apdu", "firmware"}

ASSUME StatusAssumption ==
    /\ Requests \subseteq Commands
    /\ MaxResend \in Nat \ {0}
    /\ {ChargedAfter, UnpluggedAfter, RemovedAfter, MaxEvent} \subseteq Nat

VARIABLES
    pc,            \* where the pass is
    handler,       \* the status whose handler this pass has queued
    todo,          \* what goes on after the wait of PowerOn_key
    Main_status, Time_stuts, KEYwork_flag, Apdu_len_blekey,
    touch_key, g_Key1Status,
    Ble_ConnnectFlag, Ble_AuthFlag, ParingDataDisFlag,
    request,       \* the phone's command, not yet processed
    Timeout1Sec_f, \* "close", "open", "out"
    flagtimerstm32, flagbalancestm32,
    motor, balance,      \* the timers Motor_id and balance_id run
    pin,                 \* CHARG_STA_PIN says that the battery is charged
    USB_connectFLag, USB_ChangingFLAG, chargflag, chargstatustime_flag,
    H_count, L_count,
    poweronkey_flag, uart_enable_flag, uart_send_flag, Ack_recive_enable, ACC_resend,
    buf,           \* the command CmdSendUart composed last
    slices,        \* its bytes wait in the event queue for the end of the pass
    stm,           \* the STM32: "off", "boot" (waits for an update), "app"
    fwpin,         \* pin 14: whether the STM32 starts into its application
    events         \* counter of the bound

pass   == <<handler, todo>>
mode   == <<Main_status, Time_stuts, KEYwork_flag>>
keys   == <<touch_key, g_Key1Status>>
radio  == <<Ble_ConnnectFlag, Ble_AuthFlag, ParingDataDisFlag>>
timers == <<Timeout1Sec_f, flagtimerstm32, flagbalancestm32, motor, balance>>
usb    == <<USB_connectFLag, USB_ChangingFLAG, chargflag, chargstatustime_flag,
            H_count, L_count>>
uart   == <<poweronkey_flag, uart_enable_flag, uart_send_flag, Ack_recive_enable, ACC_resend>>
cmd    == <<buf, slices>>
chip   == <<stm, fwpin>>
vars   == <<pc, pass, mode, Apdu_len_blekey, keys, radio, request, timers, pin, usb, uart,
            cmd, chip, events>>

Statuses == {"closeoled", "changbatlowpower", "timedisplay", "firmware", "download",
             "blekey", "ParingDis"}
Cmds     == {"time", "balance", "name", "key", "passkey", "clock", "coins", "apdu"}

Init ==
    /\ pc = "pass" /\ handler = "closeoled" /\ todo = "none"
    /\ Main_status = "closeoled" /\ Time_stuts = "TimeDataDisPl" /\ KEYwork_flag = 0
    /\ Apdu_len_blekey = 0
    /\ touch_key = 1 /\ g_Key1Status = "PUT_UP"
    /\ Ble_ConnnectFlag = 0 /\ Ble_AuthFlag = 0 /\ ParingDataDisFlag = 0
    /\ request = "none"
    /\ Timeout1Sec_f = "close" /\ flagtimerstm32 = 0 /\ flagbalancestm32 = 0
    /\ motor = 0 /\ balance = 0
    /\ pin = FALSE /\ USB_connectFLag = 0 /\ USB_ChangingFLAG = 0
    /\ chargflag = "NoCharg" /\ chargstatustime_flag = 0 /\ H_count = 0 /\ L_count = 0
    /\ poweronkey_flag = 0 /\ uart_enable_flag = 0 /\ uart_send_flag = 0
    /\ Ack_recive_enable = 0 /\ ACC_resend = 0
    /\ buf = "none" /\ slices = 0
    /\ stm = "app" /\ fwpin = "H"
    /\ events = 0

-----------------------------------------------------------------------------
(* What handlers and interrupts share.                                     *)

CmdSendUart(c) == buf' = c /\ uart_send_flag' = 1 /\ UNCHANGED slices

\* Uart_close forgets what was flagged or awaited; the STM32 keeps its power.
PowerOff_key ==
    /\ poweronkey_flag' = 0 /\ uart_enable_flag' = 0
    /\ IF uart_enable_flag = 1
       THEN uart_send_flag' = 0 /\ Ack_recive_enable' = 0 /\ ACC_resend' = 0
       ELSE UNCHANGED <<uart_send_flag, Ack_recive_enable, ACC_resend>>

\* PowerOn_key opens the UART; it does not power the STM32.
PowerOn_key == poweronkey_flag' = 1 /\ uart_enable_flag' = 1

STM_POWER_OFF == stm' = "off"

STM_POWER_ON(low) ==
    stm' = IF stm # "off" THEN stm ELSE IF low = "L" THEN "boot" ELSE "app"

BadRestarted == STM_POWER_OFF /\ fwpin' = "H"
\* STM_POWER_OFF and STM_POWER_ON one after the other.
Restarted == stm' = "app" /\ fwpin' = "H"

\* The timers that repeat the time and the balance.
BadMotorStops == motor' = 0 /\ UNCHANGED flagtimerstm32
MotorStops == motor' = 0 /\ flagtimerstm32' = 0
MotorStarts == flagtimerstm32' = 1 /\ IF flagtimerstm32 = 0 THEN motor' = 1 ELSE UNCHANGED motor
BalanceStops == balance' = 0 /\ flagbalancestm32' = 0
BalanceStarts ==
    flagbalancestm32' = 1 /\ IF flagbalancestm32 = 0 THEN balance' = 1 ELSE UNCHANGED balance

BadPhoneGone == Ble_ConnnectFlag = 0 /\ Ble_AuthFlag = 1
PhoneGone == Ble_ConnnectFlag = 0

\* A handler waits for the STM32, and goes on with t after that.
Wait(t) == pc' = "delay" /\ todo' = t

\* The command that brings the STM32 back to the time.
BadShowTime ==
    /\ CmdSendUart("time")
    /\ Main_status' = "timedisplay" /\ UNCHANGED KEYwork_flag
ShowTime ==
    /\ CmdSendUart("time")
    /\ Main_status' = "timedisplay" /\ KEYwork_flag' = 0

-----------------------------------------------------------------------------
(* A pass of the main loop: the command of the phone, the UART, and the    *)
(* handler of the status the pass began with (main_loop).  Bytes a pass    *)
(* has queued are sent before the next one, which waits for ever if the    *)
(* UART has been closed (uart_bithd.c 40).                                 *)

main_loop ==
    /\ pc = "pass" /\ pc' = "cmd"
    /\ slices = 1 => uart_enable_flag = 1
    /\ slices' = 0
    /\ handler' = Main_status
    /\ chargstatustime_flag' = IF pin /\ USB_connectFLag = 0 THEN 1 ELSE chargstatustime_flag
    /\ UNCHANGED <<todo, mode, Apdu_len_blekey, keys, radio, request, timers, pin,
                   USB_connectFLag, USB_ChangingFLAG, chargflag, H_count, L_count, uart,
                   buf, chip, events>>

Processed == request' = "none"
Command(r) == pc = "cmd" /\ request = r /\ Processed
CommandDone == pc' = "uart" /\ UNCHANGED todo

NoCommand ==
    /\ pc = "cmd" /\ request = "none" /\ pc' = "uart"
    /\ UNCHANGED <<pass, mode, Apdu_len_blekey, touch_key, Ble_AuthFlag, request, timers,
                   uart, cmd, chip>>

\* The rest of setup_time_f.
TimeWanted ==
    IF Main_status # "timedisplay" /\ Ack_recive_enable = 0
    THEN ShowTime /\ UNCHANGED Time_stuts
    ELSE UNCHANGED <<mode, uart_send_flag, cmd>>

setup_time_f ==
    /\ Command("time")
    /\ \/ /\ poweronkey_flag = 0 /\ fwpin' = "H"
          /\ Wait("time") /\ UNCHANGED <<mode, uart, cmd>>
       \/ /\ poweronkey_flag = 1 /\ UNCHANGED fwpin
          /\ TimeWanted /\ CommandDone
          /\ UNCHANGED <<poweronkey_flag, uart_enable_flag, Ack_recive_enable, ACC_resend>>
    /\ UNCHANGED <<Apdu_len_blekey, touch_key, Ble_AuthFlag, timers, stm>>

setup_turnoff_f ==
    /\ Command("turnoff")
    /\ Time_stuts' = "TimeDataDisPl" /\ Main_status' = "closeoled"
    /\ STM_POWER_OFF /\ PowerOff_key
    /\ CommandDone
    /\ UNCHANGED <<KEYwork_flag, Apdu_len_blekey, touch_key, Ble_AuthFlag, timers, cmd, fwpin>>

\* download_cmdid_F: the update begins, if the display is off.
StartUpdate ==
    /\ Command("download")
    /\ \/ /\ Main_status = "closeoled"
          /\ fwpin' = "L" /\ STM_POWER_ON("L") /\ Wait("download")
       \/ Main_status # "closeoled" /\ UNCHANGED chip /\ CommandDone
    /\ UNCHANGED <<mode, Apdu_len_blekey, touch_key, Ble_AuthFlag, timers, uart, cmd>>

\* An APDU of an update, or one in key mode.
TakeApdu ==
    /\ \/ Command("update") /\ Apdu_len_blekey' = IF Main_status = "download" THEN 1
                                                  ELSE Apdu_len_blekey
       \/ Command("apdu") /\ Apdu_len_blekey' = IF Main_status # "download" /\ KEYwork_flag = 1
                                                THEN 1 ELSE Apdu_len_blekey
    /\ CommandDone
    /\ UNCHANGED <<mode, touch_key, Ble_AuthFlag, timers, uart, cmd, chip>>

EndUpdate ==
    /\ Command("update_end")
    /\ \/ /\ Main_status = "download"
          /\ STM_POWER_OFF /\ PowerOff_key /\ Wait("update_end") /\ UNCHANGED fwpin
       \/ Main_status # "download" /\ UNCHANGED <<uart, chip>> /\ CommandDone
    /\ UNCHANGED <<mode, Apdu_len_blekey, touch_key, Ble_AuthFlag, timers, cmd>>

\* blueKEY_cmdid_F.
EnterKeyMode ==
    /\ Command("enter")
    /\ \/ Main_status # "download" /\ PowerOff_key /\ Restarted /\ Wait("enter")
       \/ Main_status = "download" /\ UNCHANGED <<uart, chip>> /\ CommandDone
    /\ UNCHANGED <<mode, Apdu_len_blekey, touch_key, Ble_AuthFlag, timers, cmd>>

LeaveKeyMode ==
    /\ Command("leave")
    /\ \/ /\ Main_status # "download"
          /\ STM_POWER_OFF /\ PowerOff_key /\ Wait("leave") /\ UNCHANGED fwpin
       \/ Main_status = "download" /\ UNCHANGED <<uart, chip>> /\ CommandDone
    /\ UNCHANGED <<mode, Apdu_len_blekey, touch_key, Ble_AuthFlag, timers, cmd>>

firmware_signed_F ==
    /\ Command("firmware")
    /\ STM_POWER_ON(fwpin) /\ Wait("firmware") /\ UNCHANGED fwpin
    /\ UNCHANGED <<mode, Apdu_len_blekey, touch_key, Ble_AuthFlag, timers, uart, cmd>>

BleCmdProcess ==
    /\ \/ NoCommand \/ setup_time_f \/ setup_turnoff_f \/ StartUpdate \/ TakeApdu
       \/ EndUpdate \/ EnterKeyMode \/ LeaveKeyMode \/ firmware_signed_F
    /\ UNCHANGED <<handler, g_Key1Status, Ble_ConnnectFlag, ParingDataDisFlag, pin, usb, events>>

\* After the wait: the UART is open, and the handler does the rest, whatever
\* interrupts have done meanwhile.
Waited(t) == pc = "delay" /\ todo = t /\ todo' = "none" /\ PowerOn_key

CommandWaited ==
    /\ \/ /\ Waited("time") /\ TimeWanted /\ UNCHANGED <<chip, Apdu_len_blekey>>
       \/ /\ Waited("download")
          /\ Main_status' = "download" /\ KEYwork_flag' = 1
          /\ UNCHANGED <<Time_stuts, uart_send_flag, cmd, chip>>
       \/ /\ Waited("update_end") /\ Restarted
          /\ ShowTime /\ UNCHANGED Time_stuts
       \/ /\ Waited("enter")
          /\ CmdSendUart("key")
          /\ KEYwork_flag' = 1 /\ Main_status' = "blekey"
          /\ UNCHANGED <<Time_stuts, chip>>
       \/ /\ Waited("leave") /\ Restarted
          /\ ShowTime /\ Time_stuts' = "TimeDataDisPl"
       \/ /\ Waited("firmware") /\ Main_status' = "firmware"
          /\ UNCHANGED <<Time_stuts, KEYwork_flag, uart_send_flag, cmd, chip>>
    /\ pc' = "uart"
    /\ UNCHANGED <<handler, Apdu_len_blekey, keys, radio, request, timers, pin, usb,
                   Ack_recive_enable, ACC_resend, events>>

-----------------------------------------------------------------------------
(* UartDataSendrecive, as far as commands are concerned.                   *)

UartClosed ==
    /\ pc = "uart" /\ uart_enable_flag = 0 /\ pc' = "status"
    /\ UNCHANGED <<uart_send_flag, Ack_recive_enable, ACC_resend, slices>>

\* uart_send queues the bytes; the flag falls after that.
uart_send ==
    /\ pc = "uart" /\ uart_enable_flag = 1
    /\ pc' = IF uart_send_flag = 1 THEN "sent" ELSE "await"
    /\ UNCHANGED <<uart_send_flag, Ack_recive_enable, ACC_resend, slices>>

\* Mutant: the flag of a command stays when it is sent.
BadSent ==
    /\ pc = "sent" /\ pc' = "await"
    /\ Ack_recive_enable' = 1 /\ slices' = 1
    /\ UNCHANGED <<uart_send_flag, ACC_resend>>

Sent ==
    /\ pc = "sent" /\ pc' = "await"
    /\ uart_send_flag' = 0 /\ Ack_recive_enable' = 1 /\ slices' = 1
    /\ UNCHANGED ACC_resend

\* The STM32 has confirmed the command.
Confirmed ==
    /\ Ack_recive_enable = 1 /\ stm # "off"
    /\ Ack_recive_enable' = 0 /\ ACC_resend' = 0
    /\ UNCHANGED uart_send_flag

\* It has refused it, or the timer has expired.
Failed ==
    /\ Ack_recive_enable = 1
    /\ IF ACC_resend + 1 < MaxResend
       THEN uart_send_flag' = 1 /\ ACC_resend' = ACC_resend + 1 /\ UNCHANGED Ack_recive_enable
       ELSE Ack_recive_enable' = 0 /\ ACC_resend' = 0 /\ UNCHANGED uart_send_flag

\* A frame of the STM32 is damaged, or has another number than the last command:
\* it is asked for again, and the attempts are forgotten.
Refused ==
    /\ stm # "off"
    /\ Ack_recive_enable' = 2 /\ ACC_resend' = 0
    /\ UNCHANGED uart_send_flag

\* The frame that was refused has come, or the timer has expired.
Retaken ==
    /\ Ack_recive_enable = 2 /\ UNCHANGED uart_send_flag
    /\ \/ stm # "off" /\ Ack_recive_enable' = 0 /\ ACC_resend' = 0
       \/ /\ ACC_resend + 1 < MaxResend
          /\ ACC_resend' = ACC_resend + 1 /\ UNCHANGED Ack_recive_enable
       \/ ACC_resend + 1 >= MaxResend /\ Ack_recive_enable' = 0 /\ ACC_resend' = 0

NoAnswer == UNCHANGED <<uart_send_flag, Ack_recive_enable, ACC_resend>>

\* A command sent in this pass has not reached the STM32; what is answered is
\* an earlier transmission of it, and what is refused may be any frame.
Awaited ==
    /\ pc = "await" /\ pc' = "status"
    /\ \/ NoAnswer \/ Refused \/ Retaken
       \/ (slices = 0 \/ ACC_resend > 0) /\ (Confirmed \/ Failed)
    /\ UNCHANGED slices

UartDataSendrecive ==
    /\ UartClosed \/ uart_send \/ Sent \/ Awaited
    /\ UNCHANGED <<pass, mode, Apdu_len_blekey, keys, radio, request, timers, pin, usb,
                   poweronkey_flag, uart_enable_flag, buf, stm, fwpin, events>>

-----------------------------------------------------------------------------
(* The handlers of the statuses.                                           *)

Handles(s) == pc = "status" /\ handler = s
PassDone == pc' = "pass" /\ UNCHANGED todo

\* A key or the charger ends the darkness.
progam_closeoled ==
    /\ Handles("closeoled")
    /\ \/ USB_ChangingFLAG = 1 /\ Wait("usb") /\ fwpin' = "H"
          /\ UNCHANGED <<mode, touch_key, uart, cmd>>
       \/ /\ USB_ChangingFLAG = 0 /\ touch_key = 1 /\ touch_key' = 0 /\ fwpin' = "H"
          /\ PowerOn_key
          /\ CmdSendUart("time")
          /\ \/ USB_connectFLag = 0 /\ Main_status' = "changbatlowpower" /\ UNCHANGED KEYwork_flag
             \/ Main_status' = "timedisplay" /\ KEYwork_flag' = 0
          /\ UNCHANGED <<Time_stuts, Ack_recive_enable, ACC_resend>>
          /\ PassDone
       \/ /\ USB_ChangingFLAG = 0 /\ touch_key = 0 /\ PassDone
          /\ UNCHANGED <<mode, touch_key, uart, cmd, fwpin>>
    /\ UNCHANGED <<Apdu_len_blekey, Ble_AuthFlag, timers>>

\* The picture of the low battery stays for a while, or until a key is pressed.
PictureStays ==
    /\ Timeout1Sec_f = "open"
    /\ UNCHANGED <<Main_status, KEYwork_flag, touch_key, Timeout1Sec_f, uart_send_flag, cmd>>

PictureTimer ==
    /\ UNCHANGED touch_key
    /\ \/ /\ Timeout1Sec_f = "close" /\ Timeout1Sec_f' = "open"
          /\ UNCHANGED <<Main_status, KEYwork_flag, uart_send_flag, cmd>>
       \/ Timeout1Sec_f = "out" /\ Timeout1Sec_f' = "close" /\ ShowTime

Chargingandmanagerdisplay ==
    /\ Handles("changbatlowpower")
    /\ \/ USB_connectFLag = 1 /\ PassDone /\ (PictureTimer \/ PictureStays)
       \/ /\ USB_connectFLag = 0 /\ pc' = "nocharger" /\ UNCHANGED todo
          /\ UNCHANGED <<Main_status, KEYwork_flag, touch_key, Timeout1Sec_f, uart_send_flag, cmd>>
    /\ UNCHANGED <<Time_stuts, Apdu_len_blekey, Ble_AuthFlag, flagtimerstm32, flagbalancestm32,
                   motor, balance, poweronkey_flag, uart_enable_flag, Ack_recive_enable,
                   ACC_resend, fwpin>>

\* Without a charger, unless one has just come: the comment "USB Just remove ?" is
\* of a flag that says so since the handler looked for the charger.
NoCharger ==
    /\ pc = "nocharger" /\ PassDone
    /\ \/ /\ USB_ChangingFLAG = 1 /\ fwpin' = "H" /\ PowerOn_key /\ ShowTime
          /\ UNCHANGED <<touch_key, Timeout1Sec_f>>
       \/ /\ USB_ChangingFLAG = 0
          /\ \/ PictureTimer
             \/ touch_key = 0 /\ PictureStays
             \/ /\ Timeout1Sec_f = "open" /\ touch_key = 1
                /\ Timeout1Sec_f' = "close" /\ touch_key' = 0 /\ ShowTime
          /\ UNCHANGED <<poweronkey_flag, uart_enable_flag, fwpin>>
    /\ UNCHANGED <<Time_stuts, Apdu_len_blekey, Ble_AuthFlag, flagtimerstm32, flagbalancestm32,
                   motor, balance, Ack_recive_enable, ACC_resend>>

\* The key goes from one display to the next.
NextDisplay(next, c) ==
    /\ touch_key = 1 /\ Ack_recive_enable = 0 /\ touch_key' = 0
    /\ Time_stuts' = IF Main_status = "timedisplay" THEN next ELSE "TimeDataDisPl"
    /\ CmdSendUart(c)

KeepDisplay ==
    /\ Time_stuts' = IF Main_status = "timedisplay" THEN Time_stuts ELSE "TimeDataDisPl"
    /\ UNCHANGED <<touch_key, uart_send_flag, cmd>>

f_TimeDataDisPl ==
    /\ Time_stuts = "TimeDataDisPl" /\ UNCHANGED <<flagbalancestm32, balance>>
    /\ \/ NextDisplay("BalanceDisplay", "balance") /\ MotorStops
       \/ /\ touch_key = 1 /\ Ack_recive_enable # 0 /\ KeepDisplay
          /\ UNCHANGED <<flagtimerstm32, motor>>
       \/ /\ touch_key = 0 /\ KeepDisplay /\ MotorStarts

f_BalanceDisplay ==
    /\ Time_stuts = "BalanceDisplay" /\ UNCHANGED <<flagtimerstm32, motor>>
    /\ \/ NextDisplay("BrodcastnameDisplay", "name") /\ BalanceStops
       \/ /\ touch_key = 1 /\ Ack_recive_enable # 0 /\ KeepDisplay
          /\ UNCHANGED <<flagbalancestm32, balance>>
       \/ /\ touch_key = 0 /\ KeepDisplay /\ BalanceStarts

f_BrodcastnameDisplay ==
    /\ Time_stuts = "BrodcastnameDisplay"
    /\ UNCHANGED <<flagtimerstm32, motor, flagbalancestm32, balance>>
    /\ \/ NextDisplay("TimeDataDisPl", "time")
       \/ touch_key = 1 /\ Ack_recive_enable # 0 /\ KeepDisplay
       \/ touch_key = 0 /\ KeepDisplay

timedisplay ==
    /\ Handles("timedisplay") /\ PassDone
    /\ f_TimeDataDisPl \/ f_BalanceDisplay \/ f_BrodcastnameDisplay
    /\ UNCHANGED <<Main_status, KEYwork_flag, Apdu_len_blekey, Ble_AuthFlag, Timeout1Sec_f,
                   poweronkey_flag, uart_enable_flag, Ack_recive_enable, ACC_resend, fwpin>>

\* The APDU that waits, if there is one.
SendApdu ==
    /\ Apdu_len_blekey' = 0
    /\ IF Apdu_len_blekey = 1 THEN CmdSendUart("apdu") ELSE UNCHANGED <<uart_send_flag, cmd>>

BlueUPfirmware ==
    /\ Handles("download") /\ PassDone
    /\ \/ ~PhoneGone /\ SendApdu /\ UNCHANGED mode
       \/ PhoneGone /\ ShowTime /\ UNCHANGED <<Time_stuts, Apdu_len_blekey>>
    /\ UNCHANGED <<touch_key, Ble_AuthFlag, timers, poweronkey_flag, uart_enable_flag,
                   Ack_recive_enable, ACC_resend, fwpin>>

Bluetooyhkeydisplay ==
    /\ Handles("blekey")
    /\ \/ /\ ~PhoneGone /\ PassDone
          /\ IF Main_status = "blekey" THEN SendApdu
             ELSE UNCHANGED <<Apdu_len_blekey, uart_send_flag, cmd>>
          /\ UNCHANGED <<poweronkey_flag, uart_enable_flag, Ack_recive_enable, ACC_resend>>
       \/ /\ PhoneGone /\ PowerOff_key /\ Wait("show")
          /\ UNCHANGED <<Apdu_len_blekey, cmd>>
    /\ UNCHANGED <<mode, touch_key, Ble_AuthFlag, timers, fwpin>>

\* The passkey is shown until the phone has authenticated itself or gone.
Bluetooyparingdisplay ==
    /\ Handles("ParingDis")
    /\ \/ /\ Ack_recive_enable = 0
          /\ \/ ~PhoneGone /\ Ble_AuthFlag = 1 /\ Wait("authenticated")
             \/ PhoneGone /\ Wait("gone")
          /\ PowerOff_key /\ UNCHANGED touch_key
       \/ /\ \/ Ack_recive_enable # 0
             \/ ~PhoneGone /\ Ble_AuthFlag = 0
          /\ touch_key' = 0 /\ PassDone /\ UNCHANGED uart
    /\ UNCHANGED <<mode, Apdu_len_blekey, Ble_AuthFlag, timers, cmd, fwpin>>

firmwaresigned ==
    /\ Handles("firmware") /\ PassDone
    /\ touch_key' = 0
    /\ \/ /\ PhoneGone /\ Ack_recive_enable = 0
          /\ PowerOff_key /\ KEYwork_flag' = 0 /\ Main_status' = "closeoled"
       \/ /\ ~PhoneGone \/ Ack_recive_enable # 0
          /\ UNCHANGED <<KEYwork_flag, Main_status, uart>>
    /\ UNCHANGED <<Time_stuts, Apdu_len_blekey, Ble_AuthFlag, timers, cmd, fwpin>>

StatusHandler ==
    /\ \/ progam_closeoled \/ Chargingandmanagerdisplay \/ NoCharger \/ timedisplay
       \/ BlueUPfirmware \/ Bluetooyhkeydisplay \/ Bluetooyparingdisplay \/ firmwaresigned
    /\ UNCHANGED <<handler, g_Key1Status, Ble_ConnnectFlag, ParingDataDisFlag, request, pin,
                   usb, stm, events>>

StatusWaited ==
    /\ \/ Waited("usb") /\ UNCHANGED <<touch_key, Ble_AuthFlag>>
       \/ Waited("show") /\ UNCHANGED <<touch_key, Ble_AuthFlag>>
       \/ Waited("authenticated") /\ touch_key' = 0 /\ Ble_AuthFlag' = 0
       \/ Waited("gone") /\ touch_key' = 0 /\ UNCHANGED Ble_AuthFlag
    /\ ShowTime /\ fwpin' = "H"
    /\ pc' = "pass"
    /\ UNCHANGED <<handler, Time_stuts, Apdu_len_blekey, g_Key1Status, Ble_ConnnectFlag,
                   ParingDataDisFlag, request, timers, pin, usb, Ack_recive_enable,
                   ACC_resend, stm, events>>

MainLoop ==
    \/ main_loop \/ BleCmdProcess \/ CommandWaited \/ UartDataSendrecive
    \/ StatusHandler \/ StatusWaited

-----------------------------------------------------------------------------
(* The interrupts.                                                         *)

\* vSYS_Timer1SHandler: a passkey waits for the UART, and replaces what is shown
\* unless the phone works in key mode or on an update.
ShowPasskey ==
    /\ ParingDataDisFlag = 1 /\ Ack_recive_enable = 0
    /\ ParingDataDisFlag' = 0
    /\ IF Main_status \in {"download", "blekey"}
       THEN UNCHANGED <<mode, timers, uart, cmd, fwpin>>
       ELSE /\ PowerOn_key /\ fwpin' = IF poweronkey_flag = 0 THEN "H" ELSE fwpin
            /\ CmdSendUart("passkey")
            /\ Timeout1Sec_f' = "close"
            /\ Time_stuts' = "TimeDataDisPl" /\ Main_status' = "ParingDis"
            /\ UNCHANGED <<KEYwork_flag, flagtimerstm32, flagbalancestm32, motor, balance,
                           Ack_recive_enable, ACC_resend>>
    /\ UNCHANGED <<pc, pass, Apdu_len_blekey, keys, Ble_ConnnectFlag, Ble_AuthFlag, request,
                   pin, usb, stm, events>>

\* The time is sent again and again, as long as it is shown.
Motor_timeout_handler ==
    /\ motor = 1
    /\ IF flagtimerstm32 = 1 /\ Main_status = "timedisplay"
       THEN /\ IF Ack_recive_enable = 0 THEN CmdSendUart("clock")
               ELSE UNCHANGED <<uart_send_flag, cmd>>
            /\ UNCHANGED <<motor, flagtimerstm32>>
       ELSE MotorStops /\ UNCHANGED <<uart_send_flag, cmd>>
    /\ UNCHANGED <<pc, pass, mode, Apdu_len_blekey, keys, radio, request, Timeout1Sec_f,
                   flagbalancestm32, balance, pin, usb, poweronkey_flag, uart_enable_flag,
                   Ack_recive_enable, ACC_resend, chip, events>>

Balance_handler ==
    /\ balance = 1
    /\ IF flagbalancestm32 = 1 /\ Main_status = "timedisplay" /\ Time_stuts = "BalanceDisplay"
       THEN /\ IF Ack_recive_enable = 0 THEN CmdSendUart("coins")
               ELSE UNCHANGED <<uart_send_flag, cmd>>
            /\ UNCHANGED <<balance, flagbalancestm32>>
       ELSE BalanceStops /\ UNCHANGED <<uart_send_flag, cmd>>
    /\ UNCHANGED <<pc, pass, mode, Apdu_len_blekey, keys, radio, request, Timeout1Sec_f,
                   flagtimerstm32, motor, pin, usb, poweronkey_flag, uart_enable_flag,
                   Ack_recive_enable, ACC_resend, chip, events>>

TimeOut1sec_handler ==
    /\ Timeout1Sec_f = "open" /\ Timeout1Sec_f' = "out"
    /\ UNCHANGED <<pc, pass, mode, Apdu_len_blekey, keys, radio, request, flagtimerstm32,
                   flagbalancestm32, motor, balance, pin, usb, uart, cmd, chip, events>>

\* Timechargestatus_handler.
BadUnplugged == chargflag' = "NoCharg" /\ chargstatustime_flag' = 0 /\ UNCHANGED USB_connectFLag
Unplugged == chargflag' = "NoCharg" /\ chargstatustime_flag' = 0 /\ USB_connectFLag' = 0

NotCharging ==
    /\ chargflag = "NoCharg"
    /\ IF pin THEN /\ USB_ChangingFLAG' = 1 /\ USB_connectFLag' = 1 /\ chargflag' = "Charging"
                   /\ H_count' = H_count + 1 /\ UNCHANGED <<L_count, chargstatustime_flag>>
       ELSE USB_ChangingFLAG' = 0 /\ H_count' = 0 /\ L_count' = 0 /\ Unplugged

\* The two counters say how long the pin has had its level.
Charging ==
    /\ chargflag = "Charging" /\ USB_ChangingFLAG' = 0
    /\ \/ /\ pin /\ L_count' = 0 /\ UNCHANGED <<USB_connectFLag, chargstatustime_flag>>
          /\ IF H_count + 1 > ChargedAfter THEN chargflag' = "Charged" /\ H_count' = 0
             ELSE H_count' = H_count + 1 /\ UNCHANGED chargflag
       \/ /\ ~pin /\ H_count' = 0
          /\ IF L_count + 1 > UnpluggedAfter THEN L_count' = 0 /\ Unplugged
             ELSE L_count' = L_count + 1
                  /\ UNCHANGED <<USB_connectFLag, chargflag, chargstatustime_flag>>

Charged ==
    /\ chargflag = "Charged" /\ USB_ChangingFLAG' = 0
    /\ \/ /\ ~pin
          /\ IF L_count + 1 > RemovedAfter THEN L_count' = 0 /\ Unplugged
             ELSE L_count' = L_count + 1
                  /\ UNCHANGED <<USB_connectFLag, chargflag, chargstatustime_flag>>
          /\ UNCHANGED H_count
       \/ /\ pin /\ L_count' = 0 /\ H_count' = 0
          /\ UNCHANGED <<USB_connectFLag, chargflag, chargstatustime_flag>>

Timechargestatus_handler ==
    /\ chargstatustime_flag = 1
    /\ NotCharging \/ Charging \/ Charged
    /\ UNCHANGED <<pc, pass, mode, Apdu_len_blekey, keys, radio, request, timers, pin, uart,
                   cmd, chip, events>>

\* vSYS_Timer50MSHandler: a key counts when it is released.
KeyReleased ==
    /\ g_Key1Status = "PRESS_DOWN" /\ g_Key1Status' = "PUT_UP" /\ touch_key' = 1
    /\ UNCHANGED <<pc, pass, mode, Apdu_len_blekey, radio, request, timers, pin, usb, uart,
                   cmd, chip, events>>

-----------------------------------------------------------------------------
(* The phone, the user and the charger.                                    *)

Act == events < MaxEvent /\ events' = events + 1

KeyPressed ==
    /\ Act /\ g_Key1Status = "PUT_UP" /\ Main_status \notin {"download", "blekey"}
    /\ g_Key1Status' = "PRESS_DOWN"
    /\ UNCHANGED <<touch_key, radio, request, pin>>

Charger == Act /\ pin' = ~pin /\ UNCHANGED <<keys, radio, request>>

Connect ==
    /\ Act /\ Ble_ConnnectFlag = 0 /\ Ble_ConnnectFlag' = 1
    /\ UNCHANGED <<keys, Ble_AuthFlag, ParingDataDisFlag, request, pin>>

Disconnect ==
    /\ Ble_ConnnectFlag = 1 /\ Act
    /\ Ble_ConnnectFlag' = 0 /\ Ble_AuthFlag' = 0
    /\ UNCHANGED <<keys, ParingDataDisFlag, request, pin>>

PairingStarts ==
    /\ Act /\ Ble_ConnnectFlag = 1 /\ Ble_AuthFlag = 0 /\ ParingDataDisFlag' = 1
    /\ UNCHANGED <<keys, Ble_ConnnectFlag, Ble_AuthFlag, request, pin>>

PairingEnds ==
    /\ Act /\ Ble_ConnnectFlag = 1 /\ Ble_AuthFlag' = 1
    /\ UNCHANGED <<keys, Ble_ConnnectFlag, ParingDataDisFlag, request, pin>>

PhoneCommands ==
    /\ Act /\ Ble_ConnnectFlag = 1 /\ request = "none" /\ request' \in Requests
    /\ UNCHANGED <<keys, radio, pin>>

World ==
    /\ KeyPressed \/ Charger \/ Connect \/ Disconnect \/ PairingStarts \/ PairingEnds
       \/ PhoneCommands
    /\ UNCHANGED <<pc, pass, mode, Apdu_len_blekey, timers, usb, uart, cmd, chip>>

Interrupt ==
    \/ ShowPasskey \/ Motor_timeout_handler \/ Balance_handler \/ TimeOut1sec_handler
    \/ Timechargestatus_handler \/ KeyReleased

Next == MainLoop \/ Interrupt \/ World

Spec == Init /\ [][Next]_vars

\* The main loop and the timers run.  What is awaited from the STM32 comes, or the
\* timer that UartDataSendrecive starts expires and an attempt is counted.  Frames
\* that are refused again and again forget the attempts, and nothing ends that.
Fairness ==
    /\ WF_vars(MainLoop) /\ WF_vars(Motor_timeout_handler) /\ WF_vars(TimeOut1sec_handler)
    /\ WF_vars(Timechargestatus_handler)
    /\ SF_vars(UartDataSendrecive /\ (Confirmed \/ Failed \/ Retaken))

FairSpec == Spec /\ Fairness

-----------------------------------------------------------------------------
PassType ==
    /\ pc \in {"pass", "cmd", "uart", "sent", "await", "status", "nocharger",
           "delay"}
    /\ handler \in Statuses
    /\ todo \in {"none", "time", "download", "update_end", "enter", "leave", "firmware",
                 "usb", "show", "authenticated", "gone"}
    /\ pc = "delay" <=> todo # "none"
ModeType ==
    /\ Main_status \in Statuses
    /\ Time_stuts \in {"TimeDataDisPl", "BalanceDisplay", "BrodcastnameDisplay"}
    /\ KEYwork_flag \in {0, 1} /\ Apdu_len_blekey \in {0, 1}
WorldType ==
    /\ touch_key \in {0, 1} /\ g_Key1Status \in {"PUT_UP", "PRESS_DOWN"}
    /\ Ble_ConnnectFlag \in {0, 1} /\ Ble_AuthFlag \in {0, 1} /\ ParingDataDisFlag \in {0, 1}
    /\ request \in Requests \cup {"none"}
    /\ pin \in BOOLEAN /\ events \in 0 .. MaxEvent
TimerType ==
    /\ Timeout1Sec_f \in {"close", "open", "out"}
    /\ flagtimerstm32 \in {0, 1} /\ flagbalancestm32 \in {0, 1}
    /\ motor \in {0, 1} /\ balance \in {0, 1}
UsbType ==
    /\ USB_connectFLag \in {0, 1} /\ USB_ChangingFLAG \in {0, 1}
    /\ chargstatustime_flag \in {0, 1}
    /\ chargflag \in {"NoCharg", "Charging", "Charged"}
    /\ H_count \in 0 .. (ChargedAfter + 1)
    /\ L_count \in 0 .. (UnpluggedAfter + RemovedAfter)
UartType ==
    /\ poweronkey_flag \in {0, 1} /\ uart_enable_flag \in {0, 1} /\ uart_send_flag \in {0, 1}
    /\ Ack_recive_enable \in 0 .. 2 /\ ACC_resend \in 0 .. (MaxResend - 1)
    /\ buf \in Cmds \cup {"none"} /\ slices \in {0, 1}
    /\ stm \in {"off", "boot", "app"} /\ fwpin \in {"L", "H"}

\* Type correctness; attempts and the charger's counters stay in their bounds.
TypeOK ==
    /\ PassType /\ ModeType /\ WorldType /\ TimerType /\ UsbType /\ UartType

\* Whatever brings the time back, a handler after its wait or a command, has
\* ended key mode: no APDU of the phone is accepted while the time is shown.
KeyModeOver == Main_status = "timedisplay" => KEYwork_flag = 0

\* The flags that keep the main loop from starting a timer twice say whether it
\* runs, though interrupts stop it (timedis.c 86, 132; Motor_timeout_handler).
TimersOwned == motor = flagtimerstm32 /\ balance = flagbalancestm32

\* The timer that samples the charger runs as long as the charger is thought to
\* be there, and only its arrival is ever reported as a change, for one sample.
\* The branch "USB Just remove ?" (ADC_BITHD.c 82) is so taken only if the charger
\* comes after the handler has looked for it (57).
ChargerWatched ==
    /\ USB_connectFLag = 1 => chargstatustime_flag = 1
    /\ chargflag = "NoCharg" <=> USB_connectFLag = 0
    /\ USB_ChangingFLAG = 1 => USB_connectFLag = 1

\* Key mode finds the STM32 in its application, and an update finds it running,
\* unless a command is about to end them.
StmServes ==
    pc # "delay" => /\ Main_status = "blekey" => stm = "app"
                    /\ Main_status = "download" => stm # "off"

\* The STM32 does not send frames for ever that are refused.
RefusalsEnd == <>[](Ack_recive_enable # 2)

Left == <>[](Main_status \in {"timedisplay", "closeoled", "changbatlowpower"})

\* Key mode, an update, pairing and the signing of firmware end when the phone
\* stays away, though each handler only polls the connection, and two of them
\* only while nothing is awaited from the STM32; unless its frames are refused
\* for ever.
StatusLeft == <>[](Ble_ConnnectFlag = 0) /\ RefusalsEnd => Left

\* A clock that stays on is flagged for the STM32 again and again: no interrupt
\* leaves its timer stopped and its flag set, and no command stays awaited;
\* unless frames of the STM32 are refused for ever (Motor_timeout_handler).
ClockRefreshed ==
    <>[](Main_status = "timedisplay" /\ Time_stuts = "TimeDataDisPl") /\ RefusalsEnd
        => []<>(buf = "clock" /\ uart_send_flag = 1)

\* A charger that is taken away for good is noticed.
UnplugNoticed == <>[]~pin => <>[](USB_connectFLag = 0)

-----------------------------------------------------------------------------
(* What the code does not keep: no run checks these, TLC refutes each      *)
(* (README, Weaknesses).                                                   *)

\* The time is shown by an STM32 that has power, and runs its application.
ScreenOn == Main_status = "timedisplay" => stm # "off"
ScreenTold ==
    Main_status = "timedisplay" /\ pc = "pass" /\ uart_send_flag = 0 /\ Ack_recive_enable = 0
        => stm # "boot"

\* A passkey that is to be sent is not overwritten.
PasskeyKept == [][buf = "passkey" /\ uart_send_flag = 1 => buf' = "passkey"]_vars

\* The warning begins with its timer stopped.
WarningFresh ==
    [][Main_status' = "changbatlowpower" /\ Main_status # "changbatlowpower"
       => Timeout1Sec_f = "close"]_vars

\* Key mode begins without an APDU left from before, and none is sent by a
\* handler queued for a status that a command has just ended.
ApduFresh == [][Main_status' = "blekey" /\ Main_status # "blekey" => Apdu_len_blekey = 0]_vars
ApduInMode ==
    [][buf' = "apdu" /\ buf # "apdu" => Main_status \in {"blekey", "download"}]_vars

\* A status ends when the phone stays away, whatever the STM32 sends: but a frame
\* that is refused is sent again and refused again (uart_bithd.c 324), and a
\* passkey and a signature wait for that to end.
StatusLeftAlways == <>[](Ble_ConnnectFlag = 0) => Left

\* The bytes a pass has queued find the UART open.
SlicesLeave == pc = "pass" /\ slices = 1 => uart_enable_flag = 1
=============================================================================
