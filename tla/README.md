# A TLA+ verification of the esk8 board firmware

esk8 is the firmware of an electric longboard, C on an ESP32 with ESP-IDF and
FreeRTOS. The repository builds two programs from `mcu/main`: the *board*, which
drives the motor, reads the battery management systems and serves Bluetooth LE
peers, and the *remote*, which reads a mouse sensor and is meant to become such a
peer. This project models the parts whose correctness depends on order: who may
set the speed of the motor, what happens when that peer disappears, what
the tasks of the board may do to each other while it starts, fails and restarts,
and the drivers and stores beneath them: button, batteries, PS/2 link,
settings in flash and the authentication key; and, on the other side, the remote.

Source paths below are relative to `mcu/main/lib` unless they say otherwise.

## 1. Inventory of the system

| component | source | state | operations |
|---|---|---|---|
| app_main | `../src/main/app_main.c` | none of its own | initialise the framework, register the applications, start the ride |
| BLE application framework | `ble/esk8_ble_apps.c`, `_util.c` | `apps_list`, `curr_app_id`, per application a table of connection slots and of attribute handles | init, register, the GATT server event handler, update and notify |
| control service | `ble/ble_apps/app_ble_srvc_ctrl.c` | `conn_id`, the controlling connection | `app_init`, `app_conn_add`, `app_conn_del`, `app_conn_write` |
| status service | `ble/ble_apps/app_ble_srvc_status.c` | values of its characteristics (kept by the stack) | `status_speed`, `status_bms_shallow`, `status_bms_deep` |
| auth service | `ble/ble_apps/app_ble_srvc_auth.c` | one authentication context per connection | the four callbacks |
| ride state | `onboard/` | `esk8_onboard`: state, speed, error, the handles of BMS, PWM and button, the two tasks | start, stop, set_speed, the BMS task, the button task |
| PWM output | `pwm/` | a handle; the LEDC channel | init, set, stop |
| BMS driver and UART codec | `bms/`, `uart/` | the UART and the select pin | init, select, status, deep status; message serialise and parse |
| PS/2 driver | `ps2/` | the frame in flight, a state, two queues | init, deinit, the clock interrupt, send, await |
| button | `btn/` | a timer, an event queue of one | init, deinit, the edge interrupt, the timer, await |
| settings and authentication | `nvs/`, `auth/` | `ESK8_SETTINGS` in memory, its copy in flash, the salted hash of the key | init, get, set, commit, deinit; register, auth, chunk_auth |
| remote | `remote/` | `esk8_remote`: state, speed, the handles of PWM, PS/2 and button, two tasks | start, stop, speed steps, the tasks, connect, the GAP and GATT client handlers |
| logging, error names, configuration | `log/`, `err/`, `config/` | none | none |

**Who calls whom.** On the board, `app_main` calls `esk8_ble_apps_init`, registers
the applications with the Bluedroid stack and ends with `esk8_onboard_start`,
which creates the BMS task and the button task. Bluedroid's BTC task delivers GATT
server events, one at a time, to `esk8_ble_apps_gatts_evt_hndl`, which finds the
application of the interface and calls its callbacks. The control service's
callbacks call `esk8_onboard_set_speed`, which writes the PWM output and asks the
status service to update the speed characteristic. The BMS task hands every
status it reads to the status service, which publishes it and notifies the listed
connections. On the remote, `app_main` calls `esk8_remote_start`; the PS/2 task adds
the movements of the mouse sensor to a speed and writes it to a PWM output of
the remote's own, the button task logs. The scan for a board is begun by
`esk8_remote_connect`, which nothing calls yet.

**Shared state.** `esk8_onboard` is written by `app_main` (start, stop), by the BTC
task (set_speed) and read by the BMS task, without a lock. `esk8_ble_apps` is
written by `app_main` (register) and by the BTC task, and read by the BMS task, which
walks the connection tables slot by slot.
`conn_id` of the control service belongs to the BTC task.

**What is hard.**

- The stack announces a link once per registered interface, in an order the
  applications do not control; links may exist before an application is
  registered, and identifiers are reused as soon as a link has ended.
- The slot table of an application can be full; the extra peer is refused by
  terminating its link for everybody.
- Advertising begins long before the ride is started: a peer may connect,
  take the control, write a speed and leave between any two steps of the start.
- Every allocation may fail, and the code's clean-up differs from place to place:
  tasks already created, and interrupts already attached, run on meanwhile.
- A crash restarts the chip and forgets everything but the flash, which holds what
  was committed and perhaps some of what was not.
- Interrupt handlers, the timer task and tasks share driver state without locks.
- Batteries and the PS/2 device answer late, badly or never, and an answer does not
  say which request it belongs to.

**What makes the components correct.**

- Framework: application identifiers and table entries stay aligned; a connection
  is listed while its link lives, once, and forgotten afterwards; no link is left
  half connected.
- Control: at most one connection sets the speed; its disconnection stops the
  motor; the motor turns at the recorded speed or not at all.
- Ride state: set_speed and the tasks meet a NULL handle in a start or after one that
  failed only; a failed start leaves the motor off.
- Status: who is listed and stays is notified of a
  battery's report, once, and can then read it.
- Button: one press is one event, and every press ends.
- Messages: the parser reads nothing outside its buffer, takes only what was sent, and
  finds what was sent.
- Batteries: a record reported without an error is right, its fields are of its own
  battery, and none keeps the others from being polled.
- PS/2: a movement is made of one packet, a command succeeds when the device
  acknowledged it, and the stream is always started again.
- Remote: no task uses a handle that is gone; the output is the speed, within its eight
  bits, and zero after a failed start or a stop.
- Settings and key: what was acknowledged survives; a retired key opens nothing.

## 2. Modules

| module | models | composes |
|---|---|---|
| `BleApps` | the framework, and the part of Bluedroid it relies on | |
| `Onboard` | the ride state, the PWM output, the BMS task's use of both | |
| `Board` | `app_main`, the control service, the BMS task's use of the status service, restarts | `BleApps`, `Onboard` |
| `SpeedAuthority` | abstract: who may set the speed, and when it must be zero | refined by `Board` |
| `StatusNotify` | the report of a battery: record, characteristic, notification loop | extends `BleApps` |
| `Btn` | the button driver: interrupt, timer callback, queue | |
| `Remote` | start and stop of the remote, its tasks, speed and scan; init and deinit of the drivers | extends `Btn` |
| `UartMsg` | the messages byte by byte: layout, check sum, parser (operators only) | |
| `BmsPoll` | the BMS task's loop, the register reads, the parser's acceptance | |
| `BatteryReports` | abstract: which report is due, and when it may say ESK8_OK | refined by `BmsPoll` |
| `BmsUart` | the bytes of `BmsPoll`'s units, and the comparison of its acceptance with the parser's | extends `BmsPoll` and `UartMsg` |
| `NvsAuth` | the settings, their copy in flash, the authentication key and its contexts | |
| `Ps2Link` | the PS/2 interrupt and commands, and the remote's PS/2 task | |
| `MCBleApps`, `MCBoard`, `MCStatusNotify`, `MCRemote`, `MCBmsPoll`, `MCNvsAuth` | constants and initial states for TLC | |
| `BleAppsProofs`, `BoardProofs`, `BmsPollProofs`, `NvsAuthProofs`, `Ps2LinkProofs`, `StatusNotifyProofs` (on top of `BleAppsProofs`), `RemoteProofs` (with those of `Btn`), `UartMsgProofs` | theorems and proofs | |

`Board` is the composition the safety of the ride depends on. `StatusNotify` adds the
BMS task's walk to the same framework, without the ride, which has no part in it.
The drivers and stores meet the rest in one step each (a BMS poll, a connection
of the auth service, the two button tasks, the remote's PS/2 task), have no
state in common with it, and are modelled on their own; `Remote` composes the one
driver whose interrupt it attaches and detaches.

### BleApps

`boot` is the position of `app_main` in its registration loop. `apps_list`,
`curr_app_id`, `has_ctx` (`_conn_ctx_list` is allocated), `attr_hndl`
(`_attr_hndl_list`), `ble_if` and `conn_ctx` are the code's fields. The rest is the
stack: `if_phase` follows each interface through `ESP_GATTS_REG_EVT` and
`ESP_GATTS_CREAT_ATTR_TAB_EVT`; `links` are the links that are up, `told[i]` those
interface `i` was told of; `evq` is the queue of the BTC task, each entry with the
set of interfaces still to be served; `kicked` are links the code asked to
terminate with `esp_ble_gap_disconnect`.

Each branch of the event handler is one action, named after the event:
`RegEvt`, `TableCreated`/`TableIgnored`, `ConnectEvt`/`ConnectFull`,
`DisconnectEvt`, `WriteEvt`, `UnlistedEvt` (a disconnection or a write of a
connection that is not listed) and `EvtIgnored` (no application answers to the
interface). `AppsInit`, `Register` and `RegisterRefused` are `app_main`'s calls.
`LinkUp`, `LinkDown`, `StartIf` and `ClientWrite` are the stack and the peers.

Why a handler is one step: the BTC task has a higher priority than `app_main` and
both are on core 0 by default, so a handler runs to its end between two steps of
`app_main`. `esk8_ble_app_register` is one step because the stack only calls back
after `esp_ble_gatts_app_register`, the last thing it does.

### Onboard

`main_pc` walks through `esk8_onboard_start`: each allocation, peripheral and task
is a step (`StartField`, `PwmAlloc`, `PwmConfig`) that may fail. `fields` is the set of
pointers of the structure that are set. `hndl_pwm` is "raw" between the moment
`esk8_pwm_sgnl_init` publishes the handle and the moment the channel is
configured, and "freed" when the configuration failed. `duty` is what the
motor is driven with. A NULL dereference, a use of the zeroed structure by the BMS
task and a task function that returns are recorded in `fault`; they all end in
the panic handler.

### Board

Conjoins each callback with the event that calls it: `CtrlInit` with
`TableCreated`, `CtrlConnAdd` with `ConnectEvt`, `CtrlConnDel` with `DisconnectEvt`,
`CtrlConnWrite` with `WriteEvt`. The last two call `Onboard`'s `SetSpeed`. What
`esk8_onboard_set_speed` tells the status service is left out: calls queued to
the stack behind the callback, or none while that service has no connection list;
nothing modelled here depends on them. `Reboot` is the panic handler's restart. `setter` is
a history variable, read by no action: the connection whose write set `now_speed`.

### SpeedAuthority

Two variables, `owner` and `speed`, and four actions: acquire, drive, release,
halt. It is deliberately as permissive about connection 0 as the code is (see
Findings), so that the refinement says exactly what the code guarantees: besides
connection 0, nobody loses the authority to a newcomer, and the speed is zero
in the very step in which an owner leaves.

### StatusNotify

`esk8_ble_app_status_bms_shallow` in the steps another task can come between: `StoreRecord`
(the record enters `cache`, the array of all batteries), `Publish`, the allocation
(`MsgOom` or `NotifyBegin`), and for every slot `Look`, which reads its `conn_id`, and
`SendIndicate`, which notifies whoever that was. `esk8_ble_app_status_bms_deep` does the same
with the other characteristic. `calls` is the queue of what the BMS task asked
of the stack; `ServeValue` and `ServeIndicate` serve it later, which is why a value
set before a notification is also there before it. `BleStep` and its neighbours are
the actions of `BleApps` without writes, which this service only logs.
`app_init` (`AppInit`) zeroes the arrays while the BMS task may be in the middle of a
report. `due`, `got`, `rec` and `zeroed` are history.

### Btn

`hndl_state`, `tmr` and `que` are the driver's state, its one-shot timer and its
queue of one. Time is `recent`: whether the debounce period since the last accepted
edge has passed. `esk8_btn_isr` is one step, since nothing on its core interrupts it:
`IsrBounce`, `IsrRelease`, `IsrPress`, `IsrNothing` are its four ways out.
`esk8_tmr_isr` runs in the esp_timer task, some time after the expiry (`Expire`,
`cb = "called"`), and the interrupt may come between its two statements (`TmrState`,
`TmrSend`). `balance` and `raced` are history variables: presses accepted less
events sent, suspended from the moment an edge is handled between an expiry and
its callback until timer and callback are at rest again.

### Remote

`pc` walks through `esk8_remote_start` and `esk8_remote_stop`; each step of the start succeeds or
fails as the code does, with `esk8_remote_stop` or (PWM, flash) without it. The
values of the three handles say what is left of them: `hndl_pwm` and `hndl_ps2` may
be published and freed, and `hndl_btn` names what of the button `esk8_btn_deinit` has
deleted so far, queue and timer before the interrupt that uses them. `IncrSpeed` and
`SetDuty` are the two statements of the PS/2 task that matter, `BtnTask` the button
task; the interrupt and the timer are `Btn`'s actions, guarded by what is attached
(`Attached`), with `fault` set when they use what is gone. Use of freed memory may
crash or go unnoticed: `fault'` is chosen. `Connect` and `ScanEnds` are the scan.

### UartMsg and BmsUart

`UartMsg` has one operator per function of `esk8_uart.c`. `parse_err` keeps the order of the
tests and the width of `remBufferLen`, a `uint8_t`; a message is a record and a buffer
a sequence of bytes. The check sum is the function `sums` of how many bytes have been
added, kept in 16 bits (`add16`) and inverted (`stored`). `BmsUart` spells out `BmsPoll`'s units: one unit is five bytes of
a message, whose payload is a constant (`Reading`: for TLC, bytes that say battery and
register; for the proofs, any bytes without a packet header), so that
`res_buf`, the bytes `uart_read_bytes` returned, can be given to the parser in every state
that `BmsPoll` reaches. `ParserAgrees` says that parser and model then decide
alike, for each of the three ways an answer can be unfit, that what is copied is what
the model stores, and that the request can be read back.

### BmsPoll

`Select`, `Send`, `TimeOut`/`Refuse`/`Accept` and `Report` are the parts of one turn of
`esk8_onboard_task_bms`. Bytes are grouped in units; only the first of a message
holds a header. `Accept` keeps what the code compares (a whole message behind the first header,
check sum, source, argument: `fit`) and what it does not (the register), and what
`memcpy` then copies, past the end of a payload that is too short (`Junk`). `Spill` says
which field of the deep record is filled beyond its end (`Filled`), since its
register is that of a longer one. A
battery's answer is sent through its own pin: switching pins loses the rest of it,
but not what is in the receive buffer.

### BatteryReports

What the status service can rely on, without registers, retries and answers: `due` is
the status and the battery of the next report, `got` whether its record was obtained,
`shallow` the shallow records and `last` the last report. `Obtain` puts a whole record in
place of a shallow one; `Deliver` reports it, with ESK8_OK if it was obtained since the last
report and with an error if not. The deep record is written in place by the code, so
that nothing is promised of it before it is reported. `BmsPoll` refines it with `got`
as "the loop stands before a report and `err` is ESK8_OK".

### NvsAuth

The calls of one task at a time, with a restart between any two steps. `val` and
`mem` are the settings in memory and the memory behind them; `flash` is committed,
`pend` written and not committed: a restart keeps any part of `pend`. A commit is
one `Write` per setting, any of which may fail, and one `CommitEnds`.
`esk8_auth_register` is `Register`, a write, `RegisterHalf`, a write, `RegisterEnds`. The
union `esk8_nvs_val_t` appears as what it does: `Torn` is a digest whose first four
bytes were zeroed through `auth_hash_n`. `acked`, `later`, `clean`, `registered`,
`tried` and the contexts' `since` are history.

### Ps2Link

`fr` is the frame in flight: how many edges it counted, and the byte they are all
bits of, or `Junk`. The device's clock edges are the steps of `DevTake` and `DevGive`,
each of which runs the interrupt handler. The task's steps are its calls:
`SendByte`, `AwaitRsp`/`RspTimeout`, `Cleanup`, `Flush` (between the two commands of
`esk8_ps2_mvmt_sync`), `MvmtByte`/`MvmtTimeout`/`MvmtDone`. `spoilt` is history: the
stream lost bits (the clean-up of a command found a frame begun) or bytes (a full
queue) since it was last synchronised. `tx_lock` is left out: one task uses it,
and it is a binary semaphore, so that the second `xSemaphoreGive` of `mvmt_sync` changes nothing.

## 3. Runs

| run | instance | question |
|---|---|---|
| `ble_links` | 2 applications, links 0 and 1, 1 slot, every allocation and table may fail | Do links settle, and are they forgotten, in every order of announcements? Is every application served when nothing fails? |
| `status_notify` | 1 application, links 0 to 2, 2 slots, 2 batteries | Is a peer that is listed and stays notified once, and can it then read the record? |
| `board_failures` | 2 applications, links 0 and 1, 1 slot, power-on to ride; every allocation, table and start step may fail, crashes and restarts | May a peer's actions between any two steps harm the ride? Can the disconnection of the driver be lost? Do identifiers and entries stay aligned? Does the authority over the speed survive failures? When does the board crash? |
| `board_ride` | links 0, 1, 2, 2 slots, a running board | Does the competition for slots and control keep its rules? Is the disconnection of a controller overtaken by a newcomer, or let go by with a speed? |
| `board_takeover` | links 0 and 1, 2 slots | violation: finding 1 |
| `board_halfstart` | 3 applications, link 0, start may fail | violation: finding 2 |
| `remote` | movements of -256, -100, 100 and 255; every step may fail, stop at any time, crashes and restarts | What may use a handle that is gone? What is the output? Is a press one event, and does it always end? |
| `bms_poll` | 2 batteries, 2 registers each, 2 tries, 2 answers under way; late answers in half of the behaviours | Does a value ever land in another battery's record? Is every report the one that is due, with ESK8_OK only for a new record, and is the shallow record torn in between? Is a report right when nothing is late? Does the parser, on the bytes, decide as the model does? Does every battery get its turn? |
| `bms_late` | as `bms_poll` | violation: finding 3 |
| `nvs_auth` | 2 keys, 2 contexts, another setting that callers set | Does a retired key ever open a context again? Is what was acknowledged durable, and is memory the flash? |
| `nvs_register` | 2 keys, 1 context | violation: finding 4 |
| `ps2_link` | 4 edges, queues of 2; late, refused and missing answers in half of the behaviours | Are movements whole after resynchronisations, is a success an acknowledge, and does the stream always run again? |

**Bounds.** `ConnIds` always includes the identifier the code treats specially (0). One
slot is enough for a table to be full with two links; two slots and three links let a
controller, a waiting peer and a refused peer coexist. The boards of TLC's passing
runs have the control and the status service; a third application, between which
and the others nothing is shared but the order of registration, is in
`board_halfstart` and in the theorems, which are about any number of them.
`board_failures` leaves out the write of speed zero (`Payloads`), `board_ride` has it. `QueueMax` bounds only what peers
add to the queue (new links and writes); disconnections and late announcements are
never held back, so that the queue may grow beyond it, and a queue of one or two
already contains a stale write behind a disconnection, and a connection behind
the disconnection of the previous user of the same identifier. Two speeds, zero
and not zero, are all the code distinguishes. `board_ride` starts from
`RideInit`, the state in which a start that nobody disturbed ends, because the start
itself is the subject of the other runs.

In `StatusNotify` the next report begins when the stack has served the calls of the
last: they are seconds apart. One reading besides the zeroed record is enough,
since the properties compare what is published with the last record only; two
slots are a first and a last, and the third link takes the place of one that left.
`SomeMoves` reach both bounds of the speed exactly and beyond them. The button has
no parameters.

For the drivers: two batteries are one and another; a long answer (serial number, 3
units) is filled by short ones (2 units; in the code 23 bytes by three of 11), so that
a payload that is too short is met (in `BmsUart` 10 bytes with a payload of one, and
15 with one of 6: a unit is five bytes, and a header is never divided); what precedes a header
is the tail of a cut answer, not arbitrary noise, which `ParseFindsMessage` covers; two tries are a first and a last; `MaxOwed` of 2 lets a late answer
wait in front of the one asked for. The deep registers are taken from the
manufacture date on: a field whose answer fills the next one too, and that one
(in the code six fields, all of them read later). Two keys are a retired and a registered one, and
two contexts the one a key is registered through and another. A PS/2 frame keeps
its start, parity and stop bit and one data bit (`Edges` = 4): what the
properties tell apart is only at which edge a frame begins. Commands and packets are told apart
modulo `Nums` = 2, which separates neighbours; the queues (`QLen` = 2) are shorter than a
packet, so that they do overflow.

In `BmsPoll` and `Ps2Link` the variable `late` is chosen initially and never
changes: "yes" lets answers come after their timeout (and the PS/2 device refuse
a command or not answer it), "no" is a battery or a device in time. One run so
checks both worlds, and the properties that only the second keeps say so
(`PromptOkIsRight`, `StreamRuns`).

**Fairness.** `app_main` and the BTC task are FreeRTOS tasks with work to do: weak
fairness of their steps. BTC takes its events in order, so fairness is on the
step "the event at the head is served" and not on any one event. Bluedroid
announces existing links to a new interface and carries out a requested
disconnection. Peers owe nothing: they may stay for ever, never write, or
never leave. The panic handler does restart the chip. The BMS task has no
fairness, no property of `Board` needs it; in `BmsPoll`, where it is the subject, the
task, or what is under way, goes on: since only the task asks for answers, that
is enough. In `Btn` time
passes, and interrupts and timers are served; users owe nothing, and neither do
the tasks and `app_main` in `Remote`, which assumes the same. In `Ps2Link` the
task runs, and a device that has begun a byte, or is asked for its clock, goes on;
`StreamRuns` is stated for a device that also answers in time (`late` = "no"), since one
that never does keeps the remote in its retries by design. `DeadMan` is checked from a
running board (`board_ride`).

**Deadlock** is checked in every run but `remote`: a remote that was stopped, or whose
start failed, with a button at rest, has nothing left to do.

## 4. What is proved

For every number of applications, connections, slots, speeds and payloads,
with failures or without; of batteries, registers, fields they spill into, tries and answers under way;
for every set of keys and contexts, of movements of the sensor; for PS/2 frames and
queues of any length, and for buffers of any length and content:

| theorem | says |
|---|---|
| `BleInvariance`, `OneAppPerInterfaceHolds` | an interface answers to one application, the one whose table entry has the interface's index, whatever failed before |
| `LinkInvariance`, `BleTypeHolds` | the inductive invariant of the connection tables and the queue of events, and the types |
| `ListedIsKnownHolds` | an application lists a connection once, and not longer than until its disconnection is handled |
| `NoneStrandedHolds` | a link an interface knows is listed, about to be, or being terminated |
| `ReportInvariance`, `NotifyInvariance` | the inductive invariant of the report of a battery, on its own and with that of the tables |
| `ExactlyOnceHolds` | who is listed when a report begins and stays is notified once |
| `PublishedFirstHolds` | who is notified can read the record, if the service was not initialised meanwhile |
| `FrameworkAlone`, `ReportedListsHold` | with the BMS task at its table the framework takes only the steps of `BleApps`, and keeps its properties |
| `BoardInvariance`, `TypeCorrect` | the inductive invariant of the board, and its types |
| `DriveNeedsControllerHolds` | a speed other than zero has a controller, which the framework still lists |
| `BoardLinkInvariance` | the invariant of the connection tables holds on the board, under callbacks and restarts |
| `DriverIsKnownHolds` | who drives is a link that is up, or one whose disconnection is queued for the control service |
| `DriverIsStoppedHolds` | a queued disconnection of a controller other than 0 is neither lost nor overtaken, and its delivery zeroes the speed |
| `SetterStaysHolds` | a speed set by a connection other than 0 stays with it |
| `MotorIsRecordedHolds` | the motor is off, or at the recorded speed, or the start has failed |
| `FaultsHaveCauseHolds` | a board crashes in a start that has no BMS task yet, after a start that failed, or for want of the status service's connection list, and in no other way |
| `BoardImplementsAuthority` | `Board` implements `SpeedAuthority` |
| `BtnInvariance`, `PressedHasTimerHolds`, `OneEventPerPressHolds` | a press has a timer that ends it, and one event, but for a race |
| `PollInvariance`, `OwnBatteryHolds` | every field of a record is of its own battery |
| `PollingInvariance`, `NotTornHolds` | a shallow record has all of its fields or none, and so has what is reported without error |
| `PollImplementsReports` | `BmsPoll` implements `BatteryReports` |
| `OrderInvariance` | the units of answers stand in the receive buffer in order and without a gap |
| `ParserAgreesHolds` | the parser decides on the bytes as the polling loop does on the units, and what it copies is what the loop stores |
| `PromptOkIsRightHolds` | when no answer is late, what is reported without error is what the registers asked for hold |
| `SaveInvariance`, `DurableHolds` | what a commit acknowledged is in the flash, or newer |
| `KeyInvariance`, `KeyRetiredHolds` | contexts opened since a registration accept no key registered before it |
| `SettingsInvariance`, `MemoryIsFlashHolds` | a setting loaded or committed, and not set since, is in memory as in the flash |
| `Ps2Invariance`, `TypeHolds` | the inductive invariant of the PS/2 link, and its types |
| `OkIsAnsweredHolds` | a command sent with an empty queue succeeds when the device acknowledged it, and only then |
| `StreamWholeHolds` | until bits or bytes are lost, a movement is made of one packet |
| `RemoteInvariance`, `FaultsAreLateHolds` | no task of the remote uses a handle that is gone, and nothing does before a stop, but for one allocation that `esk8_ps2_init` does not check |
| `DutyIsSpeedHolds` | the remote's output is its speed, which stays within eight bits |
| `StoppedIsStillHolds` | a failed start or a stop leaves the output at zero, and no task to set it |
| `OneEventInRemote` | one event per press, whenever the interrupt is attached or detached |
| `ParseReadsInside` | the parser reads nothing outside the buffer, and what it hands out is a well-formed message |
| `ParseIsSound` | what it accepts stands in the buffer, at the first header, with its check sum |
| `ParseFindsMessage` | it finds every serialized message behind bytes without a header, if 255 bytes remain at most |
| `DamageIsNoticed` | it refuses a message of which one byte behind the length has changed |

**Assumptions** are those on the constants: the applications have distinct names,
"ctrl" and "status" are among them, identifiers are natural numbers, 0 is a
speed and payloads carry speeds (`Board`); there are registers to read, answers have a
length, what spills stays in the record, and there is a battery and a try (`BmsPoll`); answers have
the length of their register, of 1 to 246 bytes of payload, and no bytes of a packet header but in front,
and register numbers are bytes other than 0, which the code compares them with (`BmsUart`); callers do not set the digest,
which is `esk8_auth_register`'s, and values other than digests differ from them
(`NvsAuth`); movements have nine bits (`Remote`); a frame has four edges at least, queues have a
length, 0 included, and histories a modulus, 1 included (`Ps2Link`). `UartMsg` needs none. Digests of different keys differ by definition.

**The argument.** `BleInv` says that `apps_list` is filled from the front by distinct
applications already registered, that `curr_app_id` never runs ahead of the filled
entries (a registration that runs out of memory keeps its entry and consumes no
identifier, so the two may differ), and that an application's interface is the
one of the entry it occupies. Without the first two parts a second `ESP_GATTS_REG_EVT`
could not be excluded from giving an application a second interface, so
`OneAppPerInterface` is not inductive as it stands.

`LinkInv` relates three records of one link, which change at different times: what the
stack has told an interface, what waits in the queue, and what the application has
listed. `ListedIsKnown` and `NoneStranded` say how they may differ, and neither is
inductive without the order of the events. `TurnOrder` gives it: an interface is told of
connections and disconnections of a link in turn, the last of which agrees with `told`, and a
disconnection queued behind a connection is also for the interfaces of that connection, although
the two were addressed at different times. `ListOrder` adds that a connection of a listed
link waits behind its disconnection: it is that of the next user of the identifier.
The proof has one lemma for each way the queue changes (an event added at
the end, the head served for one interface, the head consumed, which moves all
others up), and each action is one or two of them. `FrameworkAlone` shows that `StatusNotify` takes
no other steps, so that all of this holds while reports are sent.

`ReportInv` orders a report. The calls that wait are the value's, first, and then at most one
for each slot passed (`CallOrder`); the record is in the cache, then in the
value that waits, then in the attribute, so that no notification is served before
(`Published`), which is `PublishedFirst`; and a link that is due was notified, or has
one call waiting, exactly when the task is past its slot (`DueOnce`), so that at the end
of the walk it was notified once. A slot keeps its link while no disconnection
of it waits, which is where the order of the queue is needed.

`BoardInv` adds five parts, and `FaultsHaveCause` itself. `Control` carries the key observation: a speed can
only be other than zero after the control service got its handles, that is after the
`app_init` that forgets the controller. Hence the forgetful `app_init` finds the
speed at zero, and `DriveNeedsController` survives it. `SetterKnown` relates the
history variable to `conn_id`; `Motor` ties the output to the progress of the
start; `Obtained` says what is allocated at each step of it, and `Begun` that a BMS task
outside a stopped board has the battery driver, its arrays and a configured PWM output.
`FaultsHaveCause` follows step by step: a speed that meets a NULL handle finds a
start without a BMS task, since one that has it has the output; the BMS task finds something
missing only after `esk8_onboard_stop`, or a connection list that was never obtained. So a
running board whose status service is registered does not crash. `LinkInv` holds on the board as well (`BoardLinkInvariance`),
since each of its steps is one of the framework's or a restart to `Init`; with `Control`, which
has the driver listed, it yields `DriverIsKnown`: the event that stops
the motor is queued for the control service, or the stack will address it there when the link ends.
`DriverIsStopped` is about the steps from then on: the queue only loses an event to the
interface it is for (`DisconnectionStays`), the interface has one application
(`OneAppPerInterface`), and that one lists its controller (`Control`), so that the event can be neither
ignored nor dropped as unlisted; it ends in `CtrlConnDel`. The refinement maps every step to one of
the four abstract actions or to a stutter, and its one interesting case is again
`app_init`.

`BtnInv` pins the history count to what the state and the callback still have to
send; the property alone says nothing about a press in progress. `PollInv` follows a
value backwards: what is under way comes from the battery on the wire, what is in
the buffer after a request comes from the battery of this turn (which needs the
flush, since what the previous battery left there survives the switch of pins),
and so does what the read has collected. `WholeInv` adds that
the fields before the register being read have been read, of the record itself for the deep
status, whatever was spilt behind them. `PromptInv` is about a battery in time: no
answer outlives its attempt (`AnswersAsked`), so that what arrives is of the register
asked for, and the fields read so far are right one by one (`ReadRight`); what a long
answer spilt is behind them and will be overwritten. `OrderInv` is what the bytes rest on:
units arrive in order, and only the message that stands first may lack its front.
`BatteryReports` needs `WholeInv` alone: the record of a read that ended is whole, and the
shallow one is put in place by the same step. `SaveInv` says that a commit that has
written all it has to has written what is in memory, and that what is written is newer than
what was acknowledged, so that neither its end nor a restart in its middle
brings anything older back. `KeyInv` adds the places where a digest may be: memory,
flash, on its way there, and in contexts, and that a registration that ends
leaves only its own. `MemInv` says that what is
written of a clean setting is what is in memory (`CleanWritten`), so that no end of a commit and no
restart can part the two, and that nothing is clean before the settings are loaded.

`Ps2Inv` is about the window that `fresh` opens. A command sent with an empty queue is
`Asked` for or being taken, with handler and device at the same edge; or it is
`Answering`, with a frame of which every bit is the answer's; or `Answered`, and the
queue has the answer or nothing. No other byte can enter the queue, since the handler leaves
RECV with the first; hence `OkIsAnswered`. The first acknowledge also means that
the device stopped streaming before it was given, so that device and handler are
at rest (`Quiet`) when `esk8_ps2_mvmt_sync` empties the queue, and in step when the second
starts the stream: from there `Stream` says that what was put together and
what waits runs up to the byte the device gives next. The clean-up of the
second command may come when the stream runs already, and keeps the two in step only if
no frame had begun: that is what `spoilt` records.

`RemoteInv` lists what exists at each step of the start and of the stop. Two of
its parts carry the properties: a PS/2 task exists only while the handles of PS/2
and PWM are live, which is why deleting it first, wherever it stands, is enough
for `FaultsAreLate` and `StoppedIsStill`; and before that task nothing has touched the output.
`BtnInv` (proved of `Btn` in the same module) is reused as it stands: the remote's steps leave the driver's variables
alone, and its guards only take behaviour away from `Btn`.

No theorem about the parser itself needs the value of the check sum, but only that both
sides compute it alike. `DamageIsNoticed` does: two messages that differ in one byte
have the same sum up to it, different ones behind it, and equal bytes added to different sums of
16 bits keep them different. That is an induction over the bytes, and the library's induction
theorems cannot be used with the provers at hand; it is done over a set instead (`RangeInduction`: a
set of numbers with a first, and with every successor in the range, has all of it, for otherwise there is a
least counterexample).
`ParseReadsInside` follows the three length tests with the width of `remBufferLen`: the
remainder modulo 256 is never more than what is there, so that the truncation can
refuse a message but not read beyond the buffer. `ParseFindsMessage` needs that no header
stands before; that `find_header` then returns the message's own rests on the first of
a set of offsets, which exists because the naturals are well-founded.
`ParserAgreesHolds` brings the two levels together: by `OrderInv` the bytes in front are the end of one
message, in which no header stands, and a header is where a unit is the first of its
message (`FirstIsFound`); a whole message is read as it was serialized (`WholeIsRead`), and one that
is cut by the end of the buffer fails a test of its length (`CutIsRefused`).

**Only model-checked.** The liveness properties `EveryLinkSettles`, `EveryAppServed`, `DeadMan`,
`PressReleased`, `EveryBatteryReported` and `StreamRuns`: liveness under fairness and
`ENABLED` are out of the prover's reach. (Of `DeadMan` the theorems leave what fairness gives:
that the BTC task comes to the event; `EveryBatteryReported` says that the rounds of the loop never
end, and `PollImplementsReports` that a round leaves no battery out.) What the violated runs refute
(section 5). Every other invariant and action property of the
passing runs, and both refinements, are theorems, and every inductive invariant is itself a
property of a run, or a conjunct of one.

## 5. Findings

1. **A newcomer takes the control from connection 0, and the speed outlives it**
   (`board_takeover`). `app_conn_add` keeps the present controller only
   `if (conn_id > 0)`, while unused slots are marked with -1 everywhere: 0 is a valid
   identifier. When 0 set a speed, 1 connects and 0 leaves, `app_conn_del` returns
   early and the speed stays until 1 writes or leaves.
2. **A start that fails late leaves the motor on** (`board_halfstart`).
   `esk8_onboard_stop` zeroes the structure and does not stop the PWM output. A
   speed written during the start stays on the motor, and no disconnection can
   reset it, since `esk8_onboard_set_speed` refuses to act on a stopped board.
3. **Any answer is the answer** (`bms_late`). `get_data_with_response` compares the
   register of the answer with `err`, which is 0 there, and not with `reg`. An
   answer that arrives late is stored as the value of the next attempt or register, and
   the status is reported as read without error. (A BMS that echoed the register
   would be refused every time; the model takes `fit` for "passes the test".)
4. **A registered key does not open** (`nvs_register`). The count that `esk8_auth_register`
   resets is a member of the union that holds the digest and is stored under the index of
   the digest: four bytes of it are lost, in memory and in flash. Only the
   context of the registration accepts the key.

**Behaviour worth knowing**, which the passing runs contain and no run of its own
singles out:

- When the controller leaves, no other listed connection is promoted, and
  `app_init` forgets a controller that connected before the control service had its
  table. In both cases the peer must reconnect to drive.
- The long-press callback may end the wrong press: it sets the state to RELEASED
  whatever it is. When a release and a new press are handled between the expiry
  and the callback, the new press is taken for released while its timer runs on: it
  yields a long press at once and another when the timer expires, and its
  release nothing. This is what `OneEventPerPress` excepts (`raced`); the comments of
  `esk8_btn_isr` (`btn/esk8_btn.c:186`, `194`) say that in RELEASED there is no timer.
- A speed written while the start has not published its PWM handle crashes the board. A start that
  fails at its first allocation never calls `esk8_onboard_stop`, so that it stays in that state; one that
  fails at the button leaves the BMS task behind on a zeroed structure. `FaultsHaveCause` says that
  these, and a status service without its connection list, are all.
- An event for a full button queue is dropped, and `OneEventPerPress` counts it as sent.
- A failed `esk8_nvs_init` frees the memory of the settings and leaves the handle open; the
  next one returns `ESK8_OK` and the first `esk8_nvs_settings_set` copies to NULL,
  which the model takes for a restart (`LoadOom`).
- `esk8_btn_deinit` deletes the queue and the timer before it detaches the interrupt, and
  does not wait for a timer callback already called; `esk8_ps2_deinit` frees the handle and
  leaves the interrupt attached. After a stop of the remote an edge may use freed
  memory. After an initialisation of PS/2 that ran out of memory, the handle it
  freed is freed again. `FaultsAreLate` says that this is all, and that it comes late.
- `esk8_ps2_init` tests the address of its handle and not the handle
  (`ps2/esk8_ps2_init.c:123`): without memory it writes through NULL.
- A stop of the remote leaves `esk8_remote.state` as it was.
- The remote's first scan result stops its scan, whichever device it is from:
  the state is never `ESK8_REMOTE_STATE_SEARCHING`.
- A status service initialised during a report loses that report: a peer may be
  notified of a record that was zeroed or not published. This is what
  `PublishedFirst` excepts (`zeroed`).
- A peer given the identifier of one that left may receive the other's notification:
  `esk8_ble_apps_notify_all` notifies whom it has read in the slot.
- `esk8_uart.h:58` and `59` give the manufacture date and the serial number the same register,
  0x10, and the length of a read is chosen by the register: 14 bytes are copied to
  the date's two and over the six fields behind it. The reads that follow put
  those right (`PromptOkIsRight`); when one of them fails, the record keeps, and
  publishes with the error, parts of a serial number as percentages and charges.
  The date itself always is one.
- Nothing empties the PS/2 receive queue before a command: an answer that came after
  its timeout is taken for that of the next command, and so on until a command
  times out. `OkIsAnswered` therefore speaks of commands sent with an empty queue.

## 6. What the model leaves out

- The content of messages other than the written speed; advertising data, MTU and
  parameter updates, prepared and read events (the handler ignores them).
- `ESP_ERROR_CHECK` aborts of `app_main` and errors of LEDC calls with constant,
  valid parameters. `esk8_ble_apps_deinit`: nothing calls it. The second `vTaskDelete(task_btn)` of `esk8_onboard_stop`: the only caller runs
  before the task exists.
- Bluedroid hands out identifiers in its own way; the model lets it reuse one as soon
  as every interface was told of the end of its link, which includes what it does.
- `esk8_onboard.err`, which is returned and logged, and tested by nobody.
- The value of the speed characteristic. A speed written before the status service has
  its table is not published until the next one; afterwards its update is a call like
  those of `StatusNotify`, and only the BTC task makes it.
- In `Board` the BMS is an answer or a timeout, and the notification loop is one step;
  the loop itself is `StatusNotify`'s.
- `StatusNotify`: what a peer does with a notification, and reports still queued when the
  next one begins.
- `Btn`: the width of the tick counters. A tap shorter than the
  debounce period becomes a long press, since its release is dropped: that is
  how the driver works, and `PressReleased` holds of it.
- `Remote`: the BLE task, a stub that nothing creates, and the GATT client callback, which does
  nothing; the result of `esp_ble_gap_start_scanning` other than a scan; the commands and packets
  of the PS/2 device (`Ps2Link`), whose interrupt is only an edge here.
- `UartMsg`, `BmsPoll`: failures of `malloc`, which the code does not test there; the content of
  the notification, an error and an index of four bytes each.
- `NvsAuth`: errors of mbedtls, which leave before anything is stored;
  `esk8_auth_chunk_auth`, which stores nothing; the other failures of
  `esk8_nvs_init`, which return before the settings are touched. `esk8_auth_register` has
  no caller yet, and the auth service never closes the contexts it opens: the model
  lets both happen, since the interface offers them.
- `Ps2Link`: which bits are wrong and the arithmetic of movements; initialisation and
  deinit are `Remote`'s. Once the stream is spoilt its bytes are not told apart
  until it is synchronised again.

## 7. Plan

Done: every component of section 1 that has behaviour is modelled, with the
exceptions of section 6. Next, in this order:

1. Abstract specifications of the drivers. What they would promise is stated now with
   history variables: one event for each press (`Btn`), whole movements (`Ps2Link`),
   durable settings and retired keys (`NvsAuth`).
2. More lemmas about the parser: that what it skips before a header is never a message.
3. `esk8_remote_connect` and the GATT client, as the remote comes to use them.
