--------------------------- MODULE Status_proofs ---------------------------
(***************************************************************************)
(* Proofs about Status, for any bounds, any number of attempts and any     *)
(* times the charger's pin must last.                                      *)
(***************************************************************************)
EXTENDS Status, TLAPS

(***************************************************************************)
(* The inductive invariant.  The charger's counter of one level starts     *)
(* from zero; key mode and an update find the STM32 serving them unless    *)
(* the command that waits has just switched it off.                        *)
(***************************************************************************)

Counted == chargflag # "Charging" => H_count = 0

Serving ==
    /\ todo = "enter" => stm = "app"
    /\ todo = "download" => stm # "off"
    /\ todo \notin {"leave", "update_end"} =>
         /\ Main_status = "blekey" => stm = "app"
         /\ Main_status = "download" => stm # "off"

IInv == TypeOK /\ Counted /\ KeyModeOver /\ TimersOwned /\ ChargerWatched /\ Serving

\* The beginning of a pass.
LEMMA LoopStep ==
  ASSUME IInv, main_loop
  PROVE  IInv'
<1> USE StatusAssumption DEF IInv, TypeOK, PassType, ModeType, WorldType, TimerType,
        UsbType, UartType, Counted, KeyModeOver, TimersOwned, ChargerWatched, Serving,
        vars, pass, mode, keys, radio, timers, usb, uart, cmd, chip,
        Statuses, Cmds
<1> QED BY DEF main_loop

\* Commands of the phone.
LEMMA CommandStep ==
  ASSUME IInv, BleCmdProcess
  PROVE  IInv'
<1> USE StatusAssumption DEF IInv, TypeOK, PassType, ModeType, WorldType, TimerType,
        UsbType, UartType, Counted, KeyModeOver, TimersOwned, ChargerWatched, Serving,
        vars, pass, mode, keys, radio, timers, usb, uart, cmd, chip,
        Statuses, Cmds, CmdSendUart, PowerOff_key, PowerOn_key, STM_POWER_OFF,
        STM_POWER_ON, Restarted, Wait, ShowTime, PhoneGone, Command, Processed,
        CommandDone
<1>1. CASE NoCommand
  BY <1>1 DEF BleCmdProcess, NoCommand
<1>2. CASE setup_time_f
  BY <1>2 DEF BleCmdProcess, setup_time_f, TimeWanted
<1>3. CASE setup_turnoff_f
  BY <1>3 DEF BleCmdProcess, setup_turnoff_f
<1>4. CASE StartUpdate
  BY <1>4 DEF BleCmdProcess, StartUpdate
<1>5. CASE TakeApdu
  BY <1>5 DEF BleCmdProcess, TakeApdu
<1>6. CASE EndUpdate
  BY <1>6 DEF BleCmdProcess, EndUpdate
<1>7. CASE EnterKeyMode
  BY <1>7 DEF BleCmdProcess, EnterKeyMode
<1>8. CASE LeaveKeyMode
  BY <1>8 DEF BleCmdProcess, LeaveKeyMode
<1>9. CASE firmware_signed_F
  BY <1>9 DEF BleCmdProcess, firmware_signed_F
<1> QED BY <1>1, <1>2, <1>3, <1>4, <1>5, <1>6, <1>7, <1>8, <1>9 DEF BleCmdProcess

\* What a command does after its wait.
LEMMA CommandWaitedStep ==
  ASSUME IInv, CommandWaited
  PROVE  IInv'
<1> USE StatusAssumption DEF IInv, TypeOK, PassType, ModeType, WorldType, TimerType,
        UsbType, UartType, Counted, KeyModeOver, TimersOwned, ChargerWatched, Serving,
        vars, pass, mode, keys, radio, timers, usb, uart, cmd, chip,
        Statuses, Cmds, CmdSendUart, PowerOff_key, PowerOn_key, STM_POWER_OFF,
        STM_POWER_ON, Restarted, Wait, ShowTime, PhoneGone, Waited, TimeWanted
<1> QED BY DEF CommandWaited

\* The UART.
LEMMA UartStep ==
  ASSUME IInv, UartDataSendrecive
  PROVE  IInv'
<1> USE StatusAssumption DEF IInv, TypeOK, PassType, ModeType, WorldType, TimerType,
        UsbType, UartType, Counted, KeyModeOver, TimersOwned, ChargerWatched, Serving,
        vars, pass, mode, keys, radio, timers, usb, uart, cmd, chip,
        Statuses, Cmds
<1>1. CASE UartClosed
  BY <1>1 DEF UartDataSendrecive, UartClosed
<1>2. CASE uart_send
  BY <1>2 DEF UartDataSendrecive, uart_send
<1>3. CASE Sent
  BY <1>3 DEF UartDataSendrecive, Sent
<1>4. CASE Awaited
  BY <1>4 DEF UartDataSendrecive, Awaited, Confirmed, Failed, Refused, Retaken, NoAnswer
<1> QED BY <1>1, <1>2, <1>3, <1>4 DEF UartDataSendrecive

\* The handlers of the statuses.
LEMMA HandlerStep ==
  ASSUME IInv, StatusHandler
  PROVE  IInv'
<1> USE StatusAssumption DEF IInv, TypeOK, PassType, ModeType, WorldType, TimerType,
        UsbType, UartType, Counted, KeyModeOver, TimersOwned, ChargerWatched, Serving,
        vars, pass, mode, keys, radio, timers, usb, uart, cmd, chip,
        Statuses, Cmds, CmdSendUart, PowerOff_key, PowerOn_key, STM_POWER_OFF,
        STM_POWER_ON, Restarted, Wait, ShowTime, PhoneGone, Handles, PassDone
<1>1. CASE progam_closeoled
  BY <1>1 DEF StatusHandler, progam_closeoled
<1>2. CASE Chargingandmanagerdisplay
  BY <1>2 DEF StatusHandler, Chargingandmanagerdisplay, PictureTimer, PictureStays
<1>3. CASE timedisplay
  BY <1>3 DEF StatusHandler, timedisplay, f_TimeDataDisPl, f_BalanceDisplay,
     f_BrodcastnameDisplay, NextDisplay, KeepDisplay, MotorStops, MotorStarts,
     BalanceStops, BalanceStarts
<1>4. CASE BlueUPfirmware
  BY <1>4 DEF StatusHandler, BlueUPfirmware, SendApdu
<1>5. CASE Bluetooyhkeydisplay
  BY <1>5 DEF StatusHandler, Bluetooyhkeydisplay, SendApdu
<1>6. CASE Bluetooyparingdisplay
  BY <1>6 DEF StatusHandler, Bluetooyparingdisplay
<1>7. CASE firmwaresigned
  BY <1>7 DEF StatusHandler, firmwaresigned
<1>8. CASE NoCharger
  BY <1>8 DEF StatusHandler, NoCharger, PictureTimer, PictureStays
<1> QED BY <1>1, <1>2, <1>3, <1>4, <1>5, <1>6, <1>7, <1>8 DEF StatusHandler

\* What a handler does after its wait.
LEMMA HandlerWaitedStep ==
  ASSUME IInv, StatusWaited
  PROVE  IInv'
<1> USE StatusAssumption DEF IInv, TypeOK, PassType, ModeType, WorldType, TimerType,
        UsbType, UartType, Counted, KeyModeOver, TimersOwned, ChargerWatched, Serving,
        vars, pass, mode, keys, radio, timers, usb, uart, cmd, chip,
        Statuses, Cmds, CmdSendUart, PowerOff_key, PowerOn_key, STM_POWER_OFF,
        STM_POWER_ON, Restarted, Wait, ShowTime, PhoneGone, Waited
<1> QED BY DEF StatusWaited

\* The interrupts.
LEMMA InterruptStep ==
  ASSUME IInv, Interrupt
  PROVE  IInv'
<1> USE StatusAssumption DEF IInv, TypeOK, PassType, ModeType, WorldType, TimerType,
        UsbType, UartType, Counted, KeyModeOver, TimersOwned, ChargerWatched, Serving,
        vars, pass, mode, keys, radio, timers, usb, uart, cmd, chip,
        Statuses, Cmds, CmdSendUart, PowerOff_key, PowerOn_key, STM_POWER_OFF,
        STM_POWER_ON, Restarted, Wait, ShowTime, PhoneGone
<1>1. CASE ShowPasskey
  BY <1>1 DEF Interrupt, ShowPasskey
<1>2. CASE Motor_timeout_handler
  BY <1>2 DEF Interrupt, Motor_timeout_handler, MotorStops
<1>3. CASE Balance_handler
  BY <1>3 DEF Interrupt, Balance_handler, BalanceStops
<1>4. CASE TimeOut1sec_handler
  BY <1>4 DEF Interrupt, TimeOut1sec_handler
<1>5. CASE Timechargestatus_handler
  BY <1>5 DEF Interrupt, Timechargestatus_handler, NotCharging, Charging, Charged,
     Unplugged
<1>6. CASE KeyReleased
  BY <1>6 DEF Interrupt, KeyReleased
<1> QED BY <1>1, <1>2, <1>3, <1>4, <1>5, <1>6 DEF Interrupt

\* The phone, the user and the charger.
LEMMA WorldStep ==
  ASSUME IInv, World
  PROVE  IInv'
<1> USE StatusAssumption DEF IInv, TypeOK, PassType, ModeType, WorldType, TimerType,
        UsbType, UartType, Counted, KeyModeOver, TimersOwned, ChargerWatched, Serving,
        vars, pass, mode, keys, radio, timers, usb, uart, cmd, chip,
        Statuses, Cmds
<1>1. CASE KeyPressed
  BY <1>1 DEF World, KeyPressed, Act
<1>2. CASE Charger
  BY <1>2 DEF World, Charger, Act
<1>3. CASE Connect
  BY <1>3 DEF World, Connect, Act
<1>4. CASE Disconnect
  BY <1>4 DEF World, Disconnect, Act
<1>5. CASE PairingStarts
  BY <1>5 DEF World, PairingStarts, Act
<1>6. CASE PairingEnds
  BY <1>6 DEF World, PairingEnds, Act
<1>7. CASE PhoneCommands
  BY <1>7 DEF World, PhoneCommands, Act
<1> QED BY <1>1, <1>2, <1>3, <1>4, <1>5, <1>6, <1>7 DEF World

\* The first state.
LEMMA InitInv == Init => IInv
<1> SUFFICES ASSUME Init PROVE IInv
  OBVIOUS
<1>1. PassType /\ ModeType /\ TimerType
  BY DEF Init, PassType, ModeType, TimerType, Statuses
<1>2. WorldType
  <2>1. pin = FALSE /\ pin \in BOOLEAN
    BY Zenon DEF Init
  <2>2. touch_key = 1 /\ events = 0 /\ request = "none" /\ g_Key1Status = "PUT_UP"
        /\ Ble_ConnnectFlag = 0 /\ Ble_AuthFlag = 0 /\ ParingDataDisFlag = 0
    BY DEF Init
  <2>3. events \in 0 .. MaxEvent
    BY <2>2, StatusAssumption
  <2> QED BY <2>1, <2>2, <2>3 DEF WorldType
<1>3. UsbType /\ UartType
  BY StatusAssumption DEF Init, UsbType, UartType, Cmds
<1>4. Counted /\ KeyModeOver /\ TimersOwned /\ ChargerWatched /\ Serving
  BY DEF Init, Counted, KeyModeOver, TimersOwned, ChargerWatched, Serving
<1> QED BY <1>1, <1>2, <1>3, <1>4 DEF IInv, TypeOK

\* The invariant holds in every reachable state.
LEMMA Invariance == Spec => []IInv
<1>1. IInv /\ [Next]_vars => IInv'
  <2> SUFFICES ASSUME IInv, [Next]_vars PROVE IInv'
    OBVIOUS
  <2>1. CASE MainLoop
    BY <2>1, LoopStep, CommandStep, CommandWaitedStep, UartStep, HandlerStep,
       HandlerWaitedStep DEF MainLoop
  <2>2. CASE Interrupt
    BY <2>2, InterruptStep
  <2>3. CASE World
    BY <2>3, WorldStep
  <2>4. CASE UNCHANGED vars
    BY <2>4 DEF IInv, TypeOK, PassType, ModeType, WorldType, TimerType, UsbType, UartType,
       Counted, KeyModeOver, TimersOwned, ChargerWatched, Serving,
       vars, pass, mode, keys, radio, timers, usb, uart, cmd, chip
  <2> QED BY <2>1, <2>2, <2>3, <2>4 DEF Next
<1> QED BY InitInv, <1>1, PTL DEF Spec

\* Every variable keeps its type and range, and attempts and counters their bounds.
THEOREM TypeCorrect == Spec => []TypeOK
<1>1. IInv => TypeOK
  BY DEF IInv
<1> QED BY <1>1, Invariance, PTL

\* While the time is shown key mode is over, whatever handler or command showed it.
THEOREM NoKeyModeWithTheTime == Spec => []KeyModeOver
<1>1. IInv => KeyModeOver
  BY DEF IInv
<1> QED BY <1>1, Invariance, PTL

\* The flags of the two repeating timers say whether they run, whatever interrupts do.
THEOREM FlagsOwnTimers == Spec => []TimersOwned
<1>1. IInv => TimersOwned
  BY DEF IInv
<1> QED BY <1>1, Invariance, PTL

\* A charger that is thought to be there is sampled, and only its arrival reported.
THEOREM ChargerIsWatched == Spec => []ChargerWatched
<1>1. IInv => ChargerWatched
  BY DEF IInv
<1> QED BY <1>1, Invariance, PTL

\* Key mode and an update find the STM32 running.
THEOREM StmServesItsModes == Spec => []StmServes
<1>1. IInv => StmServes
  BY DEF IInv, TypeOK, PassType, Serving, StmServes
<1> QED BY <1>1, Invariance, PTL
=============================================================================
