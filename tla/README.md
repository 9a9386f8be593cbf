# Verification of the BITHD Razor BLE firmware

TLA+ models of the firmware of the BLE co-processor (nRF52) of a hardware
wallet, checked with TLC on small instances and proved with TLAPS for every
value of the constants.  The firmware is in
`src/examples/ble_peripheral/ble_app_uart/`; the rest of the repository is
Nordic's SDK, of which the event scheduler and flash data storage are modelled
too.  File names below are those of the firmware, or `fds.c` and
`app_scheduler.c`.

## The system

The co-processor sits between a phone (Bluetooth LE, the Nordic UART service)
and the wallet's main processor, an STM32 (a UART).  It passes commands from
the phone to the STM32 and replies back, answers some commands itself, and
looks after the battery, the real-time clock, pairing, power and a small store
in flash.

Two contexts run.  BLE events, timers, flash events and the UART share one
interrupt priority, so interrupt handlers do not preempt each other, but they
preempt the main loop.  Each pass of the main loop (`main.c` 927-1009) queues
`Bluetooth_ReciveANDSend`, `BleCmdProcess`, `UartDataSendrecive` and the handler
of the current status, executes the queue, and sleeps until the next interrupt.
All communication is by global flags and one shared buffer, `g_apdu`.

| Component | Code | State | Operations | Hard behaviour |
|---|---|---|---|---|
| BLE link layer | `Bluetooth_HWprotocol.c` | bitmap of received packets, list of missing ones, `Apdufinsh`, `g_apdu`, `SumPackNumber`, `Sendlenth`, `lr`, timer, retries | reassemble, report missing packets, fragment, resend, acknowledge, time out | interrupts in the middle of a pass; lost packets; refused notifications; the list of missing packets is shared by both directions |
| Application protocol | `Bluetooth_APPprotocol.c` | label and CRC of the last command, status words | check, filter duplicates, dispatch, answer | repetitions of lost and damaged commands; the answer is composed over the command |
| STM32 UART link | `uart_bithd.c` | receive machine, `Ack_recive_enable`, `ACC_resend`, sequence number | send a frame, wait for its acknowledgement, repeat, receive, refuse | byte interrupts against the main loop, timeouts, a buffer shared by both directions |
| Event scheduler | `app_scheduler.c` | ring of events, two indices | put (any context), execute (main loop) | reservation and filling of an entry are separate; a full queue |
| Flash data storage | `fds.c` | pages, the swap page, queues of operations and chunks, state of the collection | initialise, write, update, delete, collect, open, close | power lost at any step; failing flash; calls while a collection runs |
| Flash storage | `flashmcu_bithd.c` | busy flag, the one buffer, the balance | write, read, restore at start | completion callbacks that may be somebody else's; resets |
| Status and display | `program.c`, `timedis.c`, `bluetoothKEY_bithd.c`, `closeoled.c` | `Main_status`, what is displayed, timer flags, key mode | one handler per status | a handler that waits 100 ms, or runs after a command has changed the status; timers that outlive the status that started them |
| Timers and power | `Timer_Interrupt_Function.c`, `sys.c`, `IO_CTL.c` | timers, keys, power of the STM32 | handlers that set flags or compose a command | a timer handler against the main loop |
| Battery and ADC | `ADC_BITHD.c`, `Usr_Battery.c` | samples, averages, charger state | sample, average, classify, watch the charger | the charger against the display |
| Main loop, SoftDevice events | `main.c`, `ble_nus.c`, `nrf_ble_gatt.c` | connection and pairing flags | dispatch | flags that are polled |
| Bonding | `Usr_Bonding.c` | peer-manager events | react | vendored module behind it |

What makes each of them correct: the link layer hands over a command only when
it is whole, sends back exactly the reply, and returns to idle whatever the
phone does; the application protocol runs a command once and says truthfully
what became of it; the UART link delivers a frame or gives up; the scheduler runs
every accepted event once and in order; flash data storage loses no record and
invents none, whenever the power fails; what the application stored is read
back; a status that needs the phone ends when the phone has gone, and flags and
timers agree.

## Modules

| Module | What it is |
|---|---|
| `PackBitmap` | the packet bitmap and the list of missing packets as sets: `CheckExist`, `MarkPackNum`, `NextExpPack`, `all_packet_received` |
| `BleLink`, `MCBleLink` | the link layer with its phone, its STM32, the radio and time; the small instances TLC checks |
| `AppProtocol` | commands of the phone over a link that loses and damages messages |
| `UartLink` | the UART link with the STM32, the line, the phone behind the Bluetooth link, and key mode |
| `EventQueue` | what the scheduler promises: a bounded first-in first-out queue that gives an event away when its handler has returned |
| `Scheduler` | the ring of `app_scheduler.c` with the main loop and the interrupts that use it |
| `RecordStore` | what flash data storage promises: a set of whole records |
| `Fds` | `fds.c` on pages of flash, with its garbage collection and recovery |
| `FlashStore` | what the application keeps in flash, on top of fds |
| `Status` | `Main_status` with its handlers, the commands, timers, keys and charger that change it |
| `BleLink_proofs`, `AppProtocol_proofs`, `UartLink_proofs`, `Scheduler_proofs`, `Status_proofs`, `FlashStore_proofs`, `Fds_proofs` | the inductive invariant of each and its theorems |
| `Fds_store_proofs` | that `Fds` implements `RecordStore` |

In every module a definition `BadX` before `X` is `X` with a mistake in it; it is
used by no specification, and stands there because the properties are known to
refute it.

### BleLink

State.  The variables have the names of the code's globals.  `pc` is the next
step of the main loop's pass; interrupt actions do not look at it, so an
interrupt falls between any two steps.  A step ends wherever the code leaves
variables that an interrupt reads or writes half updated, or waits:
`HandOver`/`ClearFinish`, `DropCommand`/`DropRest` and
`AbandonReply`/`AbandonRest` (the bitmap is cleared before the rest),
`SendFirst`/`FirstSent`, `SendNext`/`NextSent`, `SendSingle`/`LastSent` (the
offset moves on after the notification is queued),
`ReSendNotification`/`Resent` (20 ms of delay).  `ucExpPackN_` is the local
variable that lives through that delay.

Data.  A bitmap is the set of packets whose bit is set; a byte of it has `Word`
bits.  `g_apdu` is one tag per packet-sized slot, the message whose bytes the
slot holds; lengths are in bytes and wrap at `U16`, as in the code.  The check
of a command's own length header against the bytes counted (`Acceptable`) is
kept, its CRC is not.  `SumPackNumber` is an `unsigned char` in the code; a
reply in `g_apdu` has at most 58 fragments, so it is not reduced.

| Code | Actions |
|---|---|
| `phone_to_ble_data_parse`, data packet | `PacketDropped`, `PacketRepeated`, `PacketStored` |
| `phone_to_ble_data_parse`, control packet | `ResendArrives`, `AckArrives` |
| `nrf_ble_gatt_on_ble_evt` | `Connect`, `Disconnect` |
| `Bluetooth_ReciveANDSend` 470-508 | `ResetWhenDown`, `TakeReply`, `HandOver`, `ClearFinish`, `NothingToHandOver` |
| `ble_to_phone_msg` | `SendSingle`, `SendFirst`, `SendNext`, `FirstSent`, `NextSent`, `LastSent`, `NothingToSend` |
| `ReSendNotification`, `SendPackNumber` | `ReSendNotification`, `Resent`, `NothingToResend` |
| `Bluetooth_ReciveANDSend` 517-552 | `NotExpired`, `AskMissing`, `DropCommand`, `DropRest`, `WaitAgain`, `AbandonReply`, `AbandonRest` |
| `BleCmdProcess` | `BleCmdProcess` |
| `UartDataSendrecive` (what touches the link) | `UartIdle`, `Uart_cmdprogam` |

`all_packet_received` reads an uninitialised variable when the number of
packets is a multiple of eight; `RemMasks` lets it have any value.

Environment.  The phone sends the packets of one command in order, sends again
what the device reports missing, collects fragments, asks for those it lacks,
and acknowledges a whole reply.  Packets get lost; a notification is refused
when the queue is full or the link is down.  Three constants say how well
behaved the environment is:

- `Polite`: the phone sends again only packets that really were lost, starts a
  command only when the device has finished resending, and gives up only when
  nothing is under way.
- `Prompts`: the phones of the instance.  `phone.prompt` is chosen from it at the
  start: a prompt phone does what it can do before the one-second timer expires,
  and the last packet of a burst is not lost; any other may be late, silent, or
  give up.
- `Patient`: the STM32 answers a command once, when no reply is on its way.

Without them TLC finds, within seconds, the weaknesses listed at the end; they
are the conditions under which the protocol works.

Fairness.  The main loop never stops (the loop has no exit and the handlers
return) and the timer fires.  That the phone goes on with what it began, and that
the STM32 answers a command it was sent (`SF`: it may answer only when the link is
free), is `PhoneFairness`, a premise of `RoundTrip` alone, so that the properties
about a silent phone do not rest on it.  No fairness is given to connections,
losses or new commands.

### AppProtocol

State.  The three variables of the duplicate filter (`CMD09_oldlabel`, `oldCRC`,
`CMD09_SW`), `blueRecivSendflag`, and `g_apdu`, which holds a command or the
answer composed over it.  `ran` is history: how often the phone's command was
executed.  `toDevice` and `toPhone` are the link below as `BleLink` provides it, a
whole message at a time.

Data.  A checksum is an injective code of the label and the body it was computed
for; a damaged command differs in its data, its label or its checksum.

| Code | Actions |
|---|---|
| `Bluetooth_ReciveANDSend`, hand-over | `Receive`, `SendAnswer` |
| `BleCmdProcess` | `BleCmdProcess`: a query (`recivestatus_F`), a repetition (`Repeated`), a refusal (`Refuse`), an execution (`BluetoothWork`) |

Environment, read from the code.  A phone has one command at a time and gives every
command but a repetition a new label.  It repeats a command that is not answered
up to `MaxRepeat` times and then asks with command 9, because commands of `Silent`
may have no answer; or it sends it once (`Once`) and asks.  Only a command that is
sent once may be damaged: see Weaknesses.  A label is not the one the device
remembers, so labels do not come round after 256 losses in a row.

Fairness.  The main loop, the link and the phone go on; no fairness for losses,
damage and new commands.

### UartLink

State.  The variables have the names of the globals of `uart_bithd.c`, and
`buf` is its descriptor `uart_communicate_buf`, through which the interrupt
stores what it receives and `uart_send` reads what it transmits: `buf.data` names
one of the two areas of `g_apdu` it may point at.  `sends` and `heard` are
history: how often the command in the buffer was transmitted, and the last reply
the phone got.

Data.  A frame is `a5 5a`, two bytes of length, command, number, a payload of one
symbol and a checksum of one symbol.  `Crc` is an injective code of what it
protects, and never 0; a real checksum collides and may be 0.

Steps.  A pass of the main loop is `BleCmdProcess`, the steps of
`UartDataSendrecive`, the status handler, and the transmission of the slices
that `uart_send` queued.  The pass queues the handler of the status it starts
with (`handler`), runs `Bluetooyhkeydisplay` when that was key mode, and the
slices go out after it; acknowledgements are written at once.  A full transmit
buffer (`MaxOut`) holds the loop up.

| Code | Actions |
|---|---|
| `uart_event_handle`, by `olddata` | `FirstByte`, `SecondByte`, `HeaderByte`, `DataByte`, `LateByte`, `AckByte` |
| `TimeOutUart_handler` | `TimeOutUart` |
| `blueKEY_cmdid_F` | `EnterKeyMode`, `LeaveKeyMode`, `TakeApdu`, `NoRequest` |
| `UartDataSendrecive` 282-301 | `UartClosed`, `uart_send`, `successAck` |
| 303-336 | `NothingReceived`, `FrameRefused`, `FrameRepeated`, `FrameAccepted` |
| 338-404 | `NotWaiting`, `AckFailed`, `AckSucceeded`, `AckAwaited` |
| 406-484 | `NotRefusing`, `RefusalAwaited`, `RepetitionTaken` |
| `Bluetooyhkeydisplay` | `NothingToDo`, `SendApdu`, `PhoneIsGone` |
| `Uart_close`, `PowerOff_key`, `PowerOn_key` | `Closed`, `PowerOff_key`, `Restart` |

The three events of a frame are put in one step: an interrupt that stores a byte
between two of them is not modelled.  The long press and the time-out that
`Bluetooyhkeydisplay` waits for (lines 66-88) never come, because nothing sets
`touch_key` to `KEY_LongTouch` and the body of `TimeOutMain_handler` is commented
out; these branches are left out.

Environment, read from how the code uses it.  The STM32 runs a command once per
number, keeps its reply until it is confirmed, sends it again when it is refused
or when the command comes again, and acknowledges a change of mode.  The phone has one request
at a time and acknowledges every answer.  `Faults` lists what may happen on the
line: `frame` damages a frame to the STM32, `lost` loses a frame or an
acknowledgement to it, `reply` damages the payload of a reply, `repeat` sends a
reply again unasked, `byte` and `cut` garble and lose a byte from the STM32.
`Patient` is the assumption that an answer arrives within the timer's 500 ms.

Fairness.  The main loop, the receive interrupt, the timer, the STM32, and the
phone that takes the answers it is sent.  None for requests, disconnections and
faults.

### Scheduler

State.  The two indices of the code and, for each entry of the ring, the
handler it holds, `NoSlot` while it is reserved and not filled.  An event is its
handler; the bytes it carries are not modelled, its number of slices is
(`UartSlices`, translated from `uart_send`).

Steps.  `app_sched_event_put` reserves an entry in a critical region and fills
it outside (`Reserve`, `Fill`); an interrupt may put its own event in between.
All interrupts have the same priority, so a put from an interrupt is one step.
`app_sched_execute` is `BeginHandler` (the handler runs, and may put events) and
`EndHandler` (only then the start index moves on).  A put into a full ring is
`Refused`, and the callers ignore it, as in the code.  `Pass` is `main_loop`:
what a pass queues, with the handlers that queue more.

Refinement.  `EventQueue` is a sequence with `Put`, `Start` and `Finish`.  The mapping reads
the ring from start to end; an entry that is reserved and not yet filled already
stands for the event that is about to be written into it.

`NothingRefused` counts: `LoopNeeds` is the most entries the main loop takes at
a time, computed from the slices of the longest frame, and an event of the main
loop may be refused only when more timer events wait than there are entries left.
With the firmware's numbers `LoopNeeds` is 13 of 20 entries, and one timer event
a second comes.

Fairness.  `WF(Main)`: the main loop always goes on, because an interrupt that
puts an event also ends the wait in `sd_app_evt_wait`.

### Fds and RecordStore

State.  `flash` is the pages; `m_flags`, `m_op_queue`, `m_chunk_queue`, `m_pages`,
`m_swap_page`, `m_gc` and `m_latest_rec_id` are the code's globals, `tok` and
`desc` its static locals, `request` the one operation fstorage is busy with.
`turn` says what the processor does next: go on with the operation at the head
of the queue, deliver its event, or wait for flash.

Data.  A page is a tag and a sequence of slots, each as long as a record; a slot is
a hole, a begun, valid or dirty record.  Writing a record is the five steps of the
code (header begun, identifier, data, header finished, and the mark on the old copy
for an update), each an operation of flash.  Offsets are in words.  Records have one
length and belong to files; the key is left out, it selects records the way the
file does.  The CRC is not enabled in the build.

| Code | Actions |
|---|---|
| `fds_init`, `pages_init` | `fds_init` |
| `init_execute` | `InitTagSwap`, `InitTagData`, `InitDone`, `InitEraseSwap`, `InitPromoteSwap`, `InitTimeout` |
| `write_execute` | `FindOld`, `WriteBegin`, `WriteId`, `WriteChunk`, `WriteFinalize`, `DeleteOld`, `WriteDone`, `WriteTimeout` |
| `delete_execute` | `DeleteRecord`, `DeleteFile`, `DeleteDone` |
| `gc_execute`, `gc_state_advance`, `gc_swap_pages` | `GcStep` with `Gc`, `GcPages`, `GcSwap` |
| `queue_process`, `fs_event_handler`, `event_prepare` | `Advance`, `FlashDone`, `FlashTimeout` |
| the interface | `fds_record_write`, `fds_record_update`, `fds_record_delete`, `fds_file_delete`, `fds_gc`, `fds_record_find_in_file`, `fds_record_open`, `fds_record_close` |
| a reset | `PowerLoss` |

Environment.  Calls come while flash is busy and in the callback of an event.  The
power may fail at any moment: an operation under way is done, not done, or a copy
is half done (tags and erasures are taken to be done or not).  Flash may refuse a
request as often as fstorage tries.

Refinement.  `RecordStore` is a set of whole records: only one that somebody asked to
write appears, only one that somebody asked to delete disappears.  `Content` maps
the pages to it: the records of the data pages and, once the page they were copied
from is erased, those of the swap.  So a collection and its recovery are
stutters, an update never loses both copies, and a torn record is never seen.

Fairness.  The SoftDevice ends every request and fds goes on with it at once.
`Settles` needs nothing from the caller or the power.

### FlashStore

State.  `stored`, the valid records of each file, `queue`, what fds has been asked
for, `tok`, how many records of the file the token of `file_find_and_delete` is past,
and the globals `g_flashbuff`, `coinbalance`, `write_flag`; `pc` is where
`fds_test_write` is.  `wrote`, `acked` and `lost` are history: what the phone wrote,
the value last acknowledged, and the files whose last write was refused or failed.  An
operation of fds is one step for each record it touches; fds itself is the subject of
`Fds`.

| Code | Actions |
|---|---|
| `fds_usr_init`, `usr_data_init` | `Boot`, `Recovered` |
| `setup_balance_f`, `blue_writeflash`, `blue_readflash` | the same names, `WriteTooLong` |
| `fds_test_write` | `StartWrite` (up to `fds_file_delete`), `RecordWrite`, `WaitWritten` (the busy wait) |
| `my_fds_evt_handler`, fds | `DeleteFile`, `DeleteFails`, `WriteRecord`, `PeerWritten` |
| a reset | `PowerLoss` |

Environment.  The phone writes and reads files and sets the balance; with `Patient` it
lets flash finish first.  `Recovery`: fds may have work to do at boot, so that it
becomes ready after `usr_data_init` has read the balance.  `PeerManager`: the peer
manager writes bonds, whose events the handler of the application takes for its own.
`Failing`: any operation may fail; its event carries the failure, and the handler looks
at it (`flashmcu_bithd.c` 155).  A record that failed takes room and is not found; a
deletion that failed leaves the rest of the file, and its token, where they are.
That fds is otherwise as good as before is an assumption: the gap such a failure may
leave on a page is in `Fds` (Weaknesses).

A read is answered with the buffer whenever fds finds nothing, because the file does not
exist or fds is not ready yet: `fds_read` succeeds in either case (lines 118-140).

Fairness.  The processor runs, and flash ends what it begins, well or not.

### Status

State.  `Main_status` and what goes with it: the display the key steps through
(`Time_stuts`), key mode, the APDU that waits, the flags of keys, connection,
pairing and charger, the flags and timers of the clock, the balance and the
warning, whether the UART is open, the command `CmdSendUart` composed last and
where its transmission stands, and whether the STM32 has power and what it starts
into (`stm`, `fwpin`).  `pc` and `handler` are as in `UartLink`; `todo` is what a
handler or command goes on with after it has waited 100 ms for the STM32.

| Code | Actions |
|---|---|
| `main_loop` | `main_loop` |
| `BleCmdProcess` and its handlers | `NoCommand`, `setup_time_f`, `setup_turnoff_f`, `StartUpdate`, `TakeApdu`, `EndUpdate` (`download_cmdid_F`), `EnterKeyMode`, `LeaveKeyMode` (`blueKEY_cmdid_F`), `firmware_signed_F`, and `CommandWaited` |
| `UartDataSendrecive` | `UartClosed`, `uart_send`, `Sent`, `Awaited` (with `Confirmed`, `Failed`, `Refused` or `Retaken`) |
| the handlers of the statuses | `progam_closeoled`, `Chargingandmanagerdisplay` with `NoCharger`, `timedisplay`, `BlueUPfirmware`, `Bluetooyhkeydisplay`, `Bluetooyparingdisplay`, `firmwaresigned`, and `StatusWaited` |
| timers | `ShowPasskey` (`vSYS_Timer1SHandler`), `Motor_timeout_handler`, `Balance_handler`, `TimeOut1sec_handler`, `Timechargestatus_handler`, `KeyReleased` (`vSYS_Timer50MSHandler`) |
| SoftDevice events | `Connect`, `Disconnect`, `PairingStarts`, `PairingEnds` |

An interrupt falls between the parts of a pass, into the wait of a handler,
between the transmission of a command and the moment it is no longer flagged
(`uart_bithd.c` 292), and between the two looks at the charger (`ADC_BITHD.c` 57 and
82).  The UART link is reduced to what the statuses see of it, `Ack_recive_enable`: a
transmission is confirmed, or given up after MAX_resend attempts; a reply of an
earlier transmission may arrive in the pass of a repetition; and at any time a frame of
an STM32 that has power may be refused (308-325), which sets `Ack_recive_enable` to 2 until
the frame is taken or given up.  A frame whose
transmission a closed UART holds up stops the main loop (`uart_bithd.c` 40), which is
why the run does not check deadlock.

Left out: what is drawn, the second key (it does what the first does), and what
needs `Timeout3Sec_StarFlag==TimeOut` or `KEY_LongTouch`, which no code sets
(`Timer_Interrupt_Function.c` 73-76 is commented out).  Whether the battery is low
is a free choice.

Fairness.  The main loop and the timers that are started run.  What is awaited from the
STM32 comes, or the timer that `UartDataSendrecive` starts for it (375-400, 408-432) expires
and an attempt is counted (`SF`, because most passes find the timer still running).
This does not end a wait whose attempts are forgotten: each frame that is refused
starts them anew (308), and nothing keeps the STM32 from repeating such a frame for ever.
The two properties that need an end of it have it as a premise, `RefusalsEnd`.  No
fairness for the phone, the keys, the charger and pairing.

## Runs

| Run | Instance | Shows |
|---|---|---|
| `ble_link` | two commands (2 and 3 packets), two replies (1 and 3 fragments), 2 losses, queue of 2, 3 retries; a polite phone, prompt or not; a patient STM32 | `DeliveredIntact`, `ReplyIntact`, `RoundTrip`: every exchange of a prompt phone completes with the right bytes; `IdleMeansFresh`, `TxAligned`, `TxReturnsToIdle`, `ResendEnds`: a phone that is late or silent leaves nothing behind |
| `ble_faults` | one command, one reply, a queue of 1, a disconnection and a stray packet or acknowledgement at any time | `ReportTruthful` |
| `ble_wait_ack` | the same | `WaitAckTimerRuns` is violated: see Findings |
| `app_faults` | two kinds of command, one without an answer, labels modulo 4, 3 commands, 2 repetitions, 3 messages lost or damaged | `RunsOnce`: a command never runs twice; `StatusTruthful`: what command 9 says is true; `Resolved`: the phone learns what became of every command |
| `uart_round_trip` | MAX_resend 2, two APDUs, 4 requests, 2 faults (`frame`, `lost`, `reply`), patient | `FramesWhole`, `ReplyMatches`, `Answered`, `Settles`: no endless repetition |
| `uart_rough` | MAX_resend 3, 2 requests, 1 fault (`byte`, `cut`, `repeat`), a timer that may expire at any moment | `BoundedRetries`, `NoStrayTimeout` |
| `uart_disconnect` | MAX_resend 2, 3 requests, 1 disconnection at any moment, 1 fault (`frame`, `lost`), patient | `LeavesKeyMode`; `Confirmed`: no reply is confirmed before the phone has it |
| `sched_fifo` | a queue of 6, frames of 3 and 5 events, timer events in bursts of 2 | `ImplementsQueue` (the ring is the queue), `EveryEventRuns`, `NothingRefused`, `FrameGone` |
| `fds_power` | 3 pages of 2 records, queues of 2 operations and 6 chunks, 6 calls, one collection, the power lost once at any step | `ImplementsStore`, `Visible`, `NoOverwrite`, `SwapIsTagged`, `EventTruthful`, `TypeOK`, which also keeps records within their pages |
| `fds_settles` | 2 pages, 5 calls, 2 calls of `fds_gc` at any time, records read, flash failing once | `Settles`: every operation ends |
| `flash_store` | one file and the balance, 2 values, 4 commands or writes of the peer manager, 2 resets, recoveries at boot, a patient phone, flash that may fail any operation | `RecordsGenuine`; `ReadBack`: once fds is ready a read answers what was acknowledged, unless flash failed that very write; `BalanceRestored`; `Answered`: every command is answered, unless flash fails the first write |
| `status` | all nine commands, MAX_resend 2, the charger's pin for 2 or 3 samples, 4 acts of the phone, its user and the charger | `KeyModeOver`: what shows the time has ended key mode; `TimersOwned`, `StmServes`; `StatusLeft`: statuses that need the phone end without it, `ClockRefreshed`: the clock is flagged again and again, both unless frames of the STM32 are refused for ever; `UnplugNoticed` |

The type invariants of `BleLink`, `AppProtocol`, `UartLink`, `Scheduler`, `Status` and
`FlashStore`, and `ChargerWatched` of `Status`, are
proved and not in the runs.

Bounds.

*Link layer.*  Packets carry 3 bytes and bitmap bytes have 2 bits, so that messages
of 2 and 3 packets are a whole number of bitmap bytes and not, a reply of three
fragments has a first, a middle and a last one, and a reply of one byte takes
the single-packet path.  `U8` is 8, so `remberPackn` could wrap.  Two losses
allow a packet and its repetition to be lost, and are all that `RoundTrip` bears: with
three TLC refutes it, because a report of missing packets does not restart the timer
(line 524).  The reports then go out in consecutive passes, before the packets they ask
for are back, and the command is dropped with the packets it had; those the phone sends
afterwards do not complete it.  The theorems of `BleLink_proofs` about an exchange hold for any number of losses.
`MaxLoss`, `MaxDown` and `MaxStray` are guards of the environment's actions only.

*Application protocol.*  Three faults lose a command, its repetition and the
question about it; three commands with labels modulo 4 let a label come round.
The link repeats without end in none of this; `MaxRepeat`, `MaxCmd` and `MaxFault`
bound the environment.

*UART.*  Numbers are taken modulo 4, so that they wrap within a few
requests; MAX_resend (10 in the code) of 2 or 3 lets a command be given up within
the faults of the run; two faults hit a frame and its repetition, or a frame and
the refusal of its answer.  As many faults as attempts can use all attempts up,
which is the alternative `Answered` allows.  `MaxWire` holds two replies.

*Scheduler.*  The ring has room for the six events of the longest pass; a burst brings two
more, so it fills, refuses and wraps around.

*Fds.*  A page of 11 words is its tag and two records of four words, with the last
word left over as in the code (a record must end before the end of the page).  Three
pages, one of them the swap, let a record be on either data page.  Six calls write
two pages full, delete and collect.  More chunks than writes keep the chunk queue
from being full, and `MaxGc` of 1 and the calls left out of `fds_power` keep away
what TLC refutes, as does the assumption on flash faults with `file_delete` and
`gc`: see Weaknesses.  `fds_power` may stop: when all calls are made nothing is due.
The queue of fstorage is never full, because fds has one request at a time.

*FlashStore.*  With 3 records of capacity and 4 commands flash fills up, and a failed
deletion is followed by a write, a deletion that goes on at its token, and a read; two
resets hit a write and the recovery after it.  Failures are not bounded.

*Status.*  Four acts are enough for a phone to connect, command, and leave with one
act to spare, for a pairing and a command, or for the charger to come and go
twice; interrupts are not bounded.  The thresholds of the charger, 2 or 3 samples,
are what tells its two counters apart.

## Findings

`ble_wait_ack`: `phone_to_ble_data_parse` stops the timer `T_Connect` before it
looks at the packet (line 251) and returns at line 283 when the packet is a data
packet and a reply is out, without starting the timer again.  The wait that
line 350 announces (`//wait ack`) then never times out: `SumPackNumber` stays
set until the phone acknowledges or disconnects, and every command is dropped
meanwhile.

## Proofs

`BleLink_proofs` proves, for every value of the constants allowed by
`LinkAssumption` (any sizes, any phone and STM32, any number of faults):

- `TypeCorrect`: `Spec => []TypeOK`.
- `ReportsAreTruthful`: `Spec => []ReportTruthful`.  While a reply is out the
  list in `ucaPackMsg` is the phone's and may name anything, so `ReportTruthful`
  speaks of the other times, and a step that ends a reply could break it.  An
  acknowledgement and the reset clear the list.  Giving a reply up clears it one
  step before the reply ends, and a request of the phone may fill it again in
  between: there the invariant needs `AbandonCleared`, that no packet was stored
  since the bitmap was cleared unless the reply ended some other way.

The inductive invariant is `IInv == TypeOK /\ ReportTruthful /\ AbandonCleared`.
The proof has a step for each action of the main loop (`MainLoopStep`), a lemma
for each kind of packet (`PacketStep`, `AckStep`, `ResendStep`) and the steps of
the environment.  `TopExists`, that a non-empty set of packet numbers has a
greatest element, rests on the library's theorem about minimal elements.

Its second part proves what an exchange needs, for every number of
packets lost, every queue, every set of commands and replies and every interleaving,
under two hypotheses: `Undisturbed`, a polite phone, a patient STM32 and a connection
that stays up without stray packets, and `SizesFit`, lengths that fit their
`uint16_t` and lists whose end `remberPackn`, a `uint8_t`, reaches.

- `CommandsArriveWhole`: `Spec => []DeliveredIntact`.
- `RepliesArriveWhole`: `Spec => []ReplyIntact`.
- `OffsetComesBack`, `OffsetStaysAligned`: `Spec => [](phone.prompt => IdleMeansFresh)`
  and the same of `TxAligned`.  Of a phone that is late or silent these two are
  model-checked only.

The invariant, `phone.prompt => ExchangeOK`, follows the exchange of one command.
`AskingOK`: a phone that asks nothing finds nothing left of an earlier exchange.
`CollectOK`: what is marked in the bitmap was counted and stored, or packets were
dropped and the command will never be complete, so that `HandOver` sees all bytes
or does not happen.  `StageOK`: one command is taken, worked on, answered and
sent, and each stage excludes the others, so that `g_apdu` has one user.  `OffsetOK`
relates `Sendlenth` to the number of the fragment being sent, at every step between
two interrupts.  `AirOK`: fragments on the way are of this reply and not among those
the phone has.  `ResendOK` is the same of the list it asks for: a fragment not yet
looked at is not on its way.  `GiveUpOK` is why a reply is never given up in front of a
phone that is about to acknowledge it.  There is one lemma per action, and lemmas for
the arithmetic of packets and fragments (`PacketsFit`, `FragmentsFit`).

`AppProtocol_proofs` proves, for any commands, repetitions and faults and any number
of labels:

- `TypeCorrect`: `Spec => []TypeOK`.
- `AtMostOnce`: `Spec => []RunsOnce`.
- `TruthfulStatus`: `Spec => []StatusTruthful`.

The invariant is `IInv == TypeOK /\ OneMessage /\ UnderWay /\ Record`.  `OneMessage`
says that at most one message exists, on the line or in the buffer.  `UnderWay` says
of the message what it may be: an undamaged command is the phone's current one, a
damaged one is sent only once, and what is sent only once has not run before; an
answer or a status agrees with what the device remembers now.  `Record`, the core of
the argument, relates what the device remembers to the history: a command that has
run is the one remembered, label and checksum, and `CMD09_SW` is 0x90; one that has
not run and whose label is remembered was refused.  The checksum matters: a command
damaged in its checksum leaves its label behind, and only because it was sent once does
no repetition of it run.

`Scheduler_proofs` proves, for every queue size an `uint8_t` index can address
(up to 255) and every set of frame lengths:

- `TypeCorrect`: `Spec => []TypeOK`.
- `RingIsQueue`: `Spec => ImplementsQueue`, every step of the ring is a step of
  `EventQueue` or a stutter.  The invariant says that the entry reserved by a
  put under way is in use, and that while a handler runs its entry is still in
  the queue.  `RingShape`, `RingGrows` and `RingShrinks` are the arithmetic of
  the indices, `StepRefines` the case analysis of the steps.
- `FramesLeaveWhole`: `Spec => []FrameGone`.
- `NothingIsRefused`: `Spec => []NothingRefused`.

The last two count what is in the queue and what the running code is still to put,
over a whole pass.  `PassInv` says how a pass goes: nothing of the loop's is queued while
it sleeps (`Asleep`); the loop's events are in the queue once and in the order of the
pass (`InOrder`), the link layer a second time only after the command that asks for
it (`LinkAgain`); slices come after everything that may send a frame (`SlicesLast`);
and entries in use and puts to come together stay within `LoopNeeds` and the timer
events (`Looping`, `Handling`).  It needs of the constants that there is a longest
frame, and that the interrupts' handlers are not the loop's.

`Status_proofs` proves, for every MAX_resend, every threshold of the charger and
any number of acts of the phone and its user:

- `TypeCorrect`, `NoKeyModeWithTheTime` (`KeyModeOver`), `FlagsOwnTimers`
  (`TimersOwned`), `ChargerIsWatched` (`ChargerWatched`), `StmServesItsModes`
  (`StmServes`).

The invariant adds to these properties two parts.  `Counted`: the count of one level of the charger's
pin starts from zero when charging is over.  `Serving` strengthens `StmServes` to
the middle of a command's wait: a command that has cut the STM32's power and waits
keeps the old status for 100 ms, so the status alone says nothing then; what holds is
that the wait of `enter` has a running application and that of `download` a powered
STM32, and that no other wait but the two that end key mode and an update
contradicts the status.

`FlashStore_proofs` proves, for any files, values, queue size and capacity, with or
without late recoveries, the peer manager's writes and resets:

- `TypeCorrect`: `Spec => []TypeOK`.
- `RecordsCorrect`, `BalanceCorrect`: `Patient /\ Spec => []...` for `RecordsGenuine`
  and `BalanceRestored`.
- `ReadBackCorrect`: `Patient /\ Spec => ReadBack`, an action property.

All hold whether flash fails or not.  Without `Patient` the three are false: a command
that arrives while the record of the last one is not yet written takes the buffer
(Weaknesses).

The invariant is `IInv == TypeOK /\ DeletesFirst /\ Composed /\ RecordsGenuine /\
Acknowledged /\ Shown`.  Each part says of a file what is true before its operations
are done: `Composed`, that the buffer holds what a pending write is to write, something
the phone wrote to that file; `Acknowledged`, that a value that is due, one waited for or acknowledged whose
write has not failed, is in the buffer while its write is pending, and otherwise the last
record with no deletion to come; `Shown`, that the balance in memory is the pending one, or
the one in flash, unless its last write was refused or failed.  `DeletesFirst` is why a
record just written is not deleted: no deletion stands behind a write in the queue.  An
older record that a failed deletion has left does no harm, since what counts is the last
one.  There is one lemma per action, `DeletionEnds` for a deletion that is done or given
up, and `QueueStep` for the operations that write nothing.

`UartLink_proofs` proves, for every MAX_resend, every kind of fault, any number
of requests, disconnections and faults, and a timer that expires at any moment:

- `TypeCorrect`: `Spec => []TypeOK`.
- `RetriesAreBounded`: `Spec => []BoundedRetries`.  Line 308 resets the count of
  attempts with every frame received, so the bound needs an argument.  `Counted`
  relates transmissions to `ACC_resend`; `NoneFlagged` says that nothing is
  flagged for sending where the count is reset; and `CRCForgotten`, that
  `CRC_old` is 0 while an acknowledgement is awaited, shows that a frame received
  then is accepted or refused but never taken for a repeated one, the only case
  that would reset the count and go on waiting.
- `TimersAreStopped`: `Spec => []NoStrayTimeout`.

It proves two more of a line that is `Framed`, that is `Patient` and with faults among
`frame`, `lost` and `reply`, any number of them, and of a phone that does not
disconnect (`MaxDown = 0`):

- `FramesAreWhole`: `Spec => []FramesWhole`.
- `RepliesMatch`: `Spec => []ReplyMatches`.

The invariant is `LinkOK == Stage /\ RestOK /\ PhoneOK /\ KeptOK /\ ReplyMatches`.
`Stage` says where the one message of the command in work is: in the event queue,
on the line, in work at the STM32, on its way back as an acknowledgement or a reply,
byte by byte in the receive machine, a refusal on the line, or nowhere.  Confirmations
may be on the line beside it.  The same buffer serves both directions, so `Loaded`
says when it still holds the command: until the reply begins to arrive.  `RestOK`
relates the stages to the flags and the timer; `PhoneOK` says that the phone waits while
its command is in the link, so nothing writes the buffer; `KeptOK`, that a reply
the STM32 keeps is of the number it carries.  A damaged reply is refused because the
checksum of the model is injective (`CrcInjective`); an earlier one, because its number
differs.

It proves one action property where replies come back undamaged (`RepliesSafe`:
`Patient` and faults among `frame` and `lost`), with any number of disconnections:

- `ConfirmedWhenHeard`: `Spec => Confirmed`.

`Confirmed` speaks of the time before the first disconnection, and so does the
invariant, `downs = 0 => LinkOK /\ HeardOK`.  Of `HeardOK`, `Untouched` says that what
arrives of a reply is the reply, byte by byte, so that no reply is ever refused; this is
what damaged replies take away, since the repetition of a refused reply is confirmed at
once (line 446, `RepetitionTaken`).  `Told` follows the confirmation: it waits for the
phone's acknowledgement (`uart_waitack_flag`), it goes out before the next APDU is sent,
and it stays in front of that APDU on the line, so that the STM32 cannot have a newer
reply to confirm when it gets it.

The first proof has lemmas for what the actions share (`CommandType`, `RestartType`,
`TransmitType`, `CmdprogamType`, `AgainType`, `RefuseAgainType`), one lemma per
part of the pass and of the environment for the types, and `MainLoopRetries` and
`OtherRetries` for the rest; the other two, one lemma per action that moves the message.

`Fds_proofs` proves, for any number of pages, any sizes of pages, records and queues,
any files and any number of calls, under the hypothesis `Plain`: nothing is collected
(`fds_gc` is not among the calls) and fstorage does not fail; the power may fail at any
step, of the initialization too, any number of times.

- `PagesKeepTheirSize`: `Spec => []TypeOK`.
- `RecordsAreVisible`: `Spec => []Visible`.
- `EventsAreTruthful`: `Spec => []EventTruthful`.
- `SwapStaysTagged`: `Spec => []SwapIsTagged`.
- `NothingIsOverwritten`: `Spec => []NoOverwrite`.

`Plain` is needed: with two collections `SwapIsTagged` is false, and with a failure of
flash `EventTruthful` is (Weaknesses).  The firmware calls `fds_gc` only when
the peer manager reports a bond deleted or flash full (`Usr_Bonding.c` 113, 134), so
the theorems speak of everything up to then; one collection is model-checked
(`fds_power`).

The invariant `IInv` has three cases.  `OffState`: after a reset only flash remains.
`FlashOK` says what that may be: the page at the first address is the swap, tagged and
empty, or the initialization has not tagged it and all of flash is erased;
the other pages are data or erased, without a slot passed over; no two valid records
have one identifier.  `Starting`: the initialization, where the types of `m_pages` run
ahead of the tags (`Tagging` says by how much at each step).  `Running`: `HeadOK` says of
the operation at the head of the queue, step by step, what its slot holds and what
fstorage was asked for, and where the write offset of its page stands: behind the slot
from the moment its header is begun.  `QueueOK` orders the identifiers of the writes
waiting; an identifier is `Fresh`, on no valid record, until its record is
finished, which is why a scan after a reset never finds two of one.  `AccountsOK` bounds
from below what is reserved on a page and in the chunk queue by the writes that still
need it; equality is false (`ReservedAccounted`, Weaknesses), the bound is what keeps
records within their pages.  `ReaderOK` relates `records_open` to the descriptor
of the application.  For `file_delete` the invariant is that what is left of the
file is behind the token.

The proof has one lemma per action, and per step of an operation.  `ScanEnds` proves that the
loop of `pages_init` finds the pages as they are: a function of the number of pages
scanned, equal to a definition without recursion by the least page where they
would differ.  `StoreEffect` and `StoreKeeps` say what a store of one slot does to flash,
`FirstIn` and `SearchFile` what a search returns, `GoesOn` and `EndsOp` what every step of an
operation keeps.  TLC finds `IInv` true of the instance of `fds_power` with `read` for
`gc`, 4 calls and two failures of the power.

`Fds_store_proofs` proves, under `Plain` and for the same constants, that `Fds`
implements `RecordStore`:

- `FlashIsRecordStore`: `Spec /\ []ChunkIndexInRange => ImplementsStore`.  The premise is
  needed: an update that fails to find its record advances the read index of the
  chunk queue without wrapping it (`chunk_queue_skip`, `fds.c` 614), and the write
  behind it then stores data from elsewhere.  TLC refutes the theorem without it.
- `FlashIsRecordStoreWithoutUpdates`: `Spec => ImplementsStore` for an application that
  does not update records, as the firmware does not (`flashmcu_bithd.c` writes and
  deletes only; the peer manager updates).

Every step maps to one of `RecordStore` or to a stutter: the last step of a header is its
`Write`, a record marked dirty its `Delete`, a power failure one of these two, if flash had
done the step under way, or a change of the requests, and so are the calls.  Beyond
`IInv` this takes `DataOK`, that a record holds the data of the write that asked for it:
`ChunksOK` says that the k-th chunk in the queue is of the k-th write that still needs
one, `Carries` that the data are in the slot from the moment they are stored, `Genuine` that
every valid record was asked for and is whole, and `Named` that writes are of the
application's files.  `IndexOK` is, for the second theorem, why the index stays in
range.

Model-checked only: all liveness properties (the prover has no rule for fairness);
`IdleMeansFresh` and `TxAligned` for phones that are late or silent; and of `Fds`, what
a collection does.

## Not modelled

- The SoftDevice, the peer manager, GATT and NUS services, drivers, start-up code and
  the rest of the SDK under `src/components` are libraries this program calls, and
  most of `src/` is such code, vendored headers and register definitions, of which
  nothing but what the firmware sees of it can be said.  `fds.c` and
  `app_scheduler.c` are the two parts with a state machine of their own that the
  firmware relies on, and are modelled.
- `fds_reserve` and its cancellation, the record iterator and the statistics of
  `fds.c`, which the firmware does not call, and records of different lengths: with
  them the layout of a page is arithmetic the model would have to repeat byte by byte.
- The composition of `BleLink` with `UartLink`, which would discharge `Patient` of the
  first and the polite phone of the second: either has several hundred thousand states
  alone, and the product is out of TLC's reach.  `AppProtocol` and `Status` are checked
  against what the link and the UART promise instead.
- Battery sampling and averaging: arithmetic on analogue samples in one context.
- Bonding reactions (`Usr_Bonding.c`): calls back into the peer manager.
- Setters that draw, fill an answer or set a pin, without a state the others read.

## Weaknesses

What the assumptions and bounds above keep out, and what TLC shows without them.
The formulas named here without a run are in the last section of their module,
which says that the code does not keep them; the constants are those that refute
them.

**Link layer.**  A packet between `HandOver` and
`ClearFinish` (or in the window of `DropCommand`) spoils the length of the next
command; an acknowledgement does not clear `ucResend`, so that a new
command can be read as a list of missing fragments; a connection lost and
made again within one pass is not noticed; the reports of missing packets
go out in consecutive passes because the timer is not restarted; a late
reply of the STM32 and a new command overwrite each other in `g_apdu`; and
an acknowledgement while a fragment is being queued leaves `Sendlenth` at a
fragment boundary, so that the next reply starts in the middle.

**Application protocol.**  `Bluetooth_APPprotocol.c` records label and checksum
before it tests the checksum (line 499).  The correct repetition of a command whose
data were damaged is therefore dropped; a repeated command whose label or checksum
was damaged in one copy runs twice; and the first command after a reset is dropped
if its label and checksum are 0.  This is why only a command that is sent once is
damaged in `app_faults`.  The checksum of command 9 is not looked at, and a command
whose identifier was damaged into that of a query overwrites the record.  The
identifier indexes a table of eight handlers, two of them null (line 480).  A command
whose length does not match leaves `blueRecivSendflag` at `Recivedata`.

**UART.**  Outside the assumptions of the runs: a reply that arrives while its
command is transmitted again, or an APDU the phone writes before the previous
frame has left, tears the frame (both use the same buffer); a reply repeated by
the STM32 while the next command is sent is received over that command and then
taken for its reply; a damaged reply whose repetition completes within the pass
that refused it is confirmed before the phone has it (line 446); after a
disconnection numbers start again while the STM32 runs on, and a reply that was
on its way is refused and repeated for ever; an APDU that was waiting when key
mode ended is sent when key mode is entered again; a garbled length swallows what
follows.

**Flash data storage.**

| Refuted | Constants | What happens |
|---|---|---|
| `SwapIsTagged` | 3 pages, queues of 1, 7 calls, `MaxGc` 2 | the page that becomes the swap is chosen while pages are scanned, and only if it lies behind the swap (`fds.c` 690); otherwise a data page is taken for it |
| `ImplementsStore`, `GcKnowsItsState` | `gc_again` and `read`, 6 calls, `MaxGc` 2, 2 pages | `fds_gc` during a collection repeats its last step (1967): the erasure of a page that has changed places, or a state the switch does not know (1398) |
| `OpenIntact` | `write`, `delete`, `gc`, `read`, 5 calls, `MaxGc` 2 | a record opened through a stale address (978) is collected |
| `OpensLive` | `write`, `delete`, `read`, 3 calls | a record is opened after it was deleted (446) |
| `ReservedAccounted`, `ChunkIndexInRange` | `write`, `update`, `delete`, 2 chunks, 5 calls, no faults | an update that fails keeps its words reserved (1255) and advances the read index without wrapping it (614) |
| `EventTruthful` | pages of 15 words, `write`, one flash failure | after a timeout the offset moves on over an erased slot (1235), and a later record is written behind a gap a scan does not cross |
| `LayoutKnown` | `write`, `delete`, `gc`, `gc_again`, one failure of the power and one of flash | the reset finds a mixture of pages `fds_init` calls undefined (1697) |

**Flash storage.**  `write_flag` is never set back, so that only the first write waits
for flash (`flashmcu_bithd.c` 100) and a command that follows refills the buffer flash
still reads: `RecordsGenuine`, `ReadBack` and `BalanceRestored` are each refuted with
`Patient` FALSE and the other constants of `flash_store`.  With those constants as they
are, TLC refutes four formulas.  `WaitEnds`: the first write waits for ever if its event
is a failure (line 155).  `AckedSaved`: a later write is acknowledged because an earlier
one succeeded, and may then fail.  `BalanceSaved`: the phone is told that the balance is
set whatever fds answers.  `ReadAtOnce`: a file that is read before fds is ready, after a
reset with a recovery, is answered with the buffer as if it were the file
(`Bluetooth_APPprotocol.c` 398, `flashmcu_bithd.c` 118-140).
Only the peer manager's events lead to `fds_gc` (`Usr_Bonding.c` 113, 134): when flash is
full the old balance is deleted, the new one refused, and the phone told that it was
written (`Bluetooth_APPprotocol.c` 134-136): `BalanceSaved` is refuted with `Failing`
FALSE, too (`Capacity` 2, no resets).  `BalanceRestored` without its condition `~late` is refuted:
the balance is read before a recovery is done.  A `fds_file_delete` whose result is
ignored leaves two records.  Reading a file that does not exist answers with what the
buffer holds (line 400).

**Status.**  With all requests and 4 acts unless more is said:

| Refuted | What happens |
|---|---|
| `ScreenOn` | `setup_turnoff_f` cuts the power of the STM32 (`Bluetooth_APPprotocol.c` 197), and `PowerOn_key` does not switch it on again (`IO_CTL.c` 264-266 are commented out): a key then shows the time on an STM32 without power |
| `ScreenTold` | a command for the time, or a disconnection, during an update leaves the STM32 waiting for one |
| `PasskeyKept` | a passkey that is to be sent is replaced by another command |
| `WarningFresh` | `setup_time_f` leaves the timer of the warning running, so that the next warning is cut short |
| `ApduFresh` (5 acts; enter, turnoff, apdu) | `setup_turnoff_f` leaves `KEYwork_flag` set: an APDU is kept and sent when key mode begins again.  A key pressed just before key mode is entered ends it, too: the handler of the darkness was queued before the command |
| `ApduInMode` (6 acts; enter, turnoff, apdu, download) | a handler queued for a status sends its APDU although a command of the same pass has ended the status |
| `StatusLeftAlways` | `StatusLeft` without `RefusalsEnd`: an STM32 whose frame is refused for its number (`uart_bithd.c` 324; numbers restart with `Uart_close`, 167) sends it again and is refused again, `Ack_recive_enable` stays 2, and the signing of firmware (`program.c` 110) and a passkey (62) are never left, though the phone has gone.  The clock is then not sent either (`ClockRefreshed` without the premise) |
| `SlicesLeave` | `firmwaresigned` may close the UART in a pass that has queued the repetition of a command whose first transmission is answered late: the main loop then waits in `app_uart_put` for ever (`uart_bithd.c` 40) |

Every time-out that waits for `Timeout3Sec_StarFlag==TimeOut` is dead.  The branch "USB
Just remove ?" (`ADC_BITHD.c` 82) is never taken because a charger was removed:
`ChargerWatched` shows that a change is flagged only with the charger, so only one that
comes between lines 57 and 82 takes it (`NoCharger`).

The hazards behind these are listed at their lines in `PROJECT.json`.
