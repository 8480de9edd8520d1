------------------------------- MODULE Remote -------------------------------
(***************************************************************************)
(* The remote control, lib/remote: esk8_remote_start step by step, with    *)
(* every step that may fail, esk8_remote_stop, the two tasks, the speed    *)
(* they keep, and the scan of esk8_remote_connect.  It composes the button *)
(* driver (module Btn, whose interrupt is attached by one of the steps and *)
(* detached by another); of the PS/2 driver, which module Ps2Link is       *)
(* about, it keeps the lifetime of the handle.                             *)
(*                                                                         *)
(* The tasks run from their creation on, before the start is over and      *)
(* until esk8_remote_stop deletes them; interrupts and the esp_timer task  *)
(* know of neither.  A use of a handle that is NULL crashes; one of memory *)
(* that was freed crashes or goes unnoticed.                               *)
(***************************************************************************)
EXTENDS Btn

CONSTANT Moves      \* bound: the x of the movements the PS/2 device reports

MaxSpeed == 255     \* a duty has 8 bits

ASSUME RemoteAssumption == Moves \subseteq -256 .. 255

VARIABLES
    pc,         \* app_main: the next step of the start or of the stop
    state,      \* esk8_remote.state
    speed,      \* esk8_remote.speed
    hndl_pwm,   \* esk8_remote.hndl_pwm: "null", "live" or "freed"
    hndl_ps2,   \* "null", "live", "freed" (its interrupt still attached) or
                \* "dangling" (freed by the initialisation that failed)
    hndl_btn,   \* "null", "live", or what is deleted: "queue", "timer", "isr"
    task_ps2,   \* "none", "read", or "set": the new speed is not set yet
    task_btn,   \* "none" or "run"
    duty,       \* the PWM output
    scan,       \* "yes" while the BLE stack scans
    fault       \* "none", or what crashed

own_vars    == <<pc, state, speed, hndl_pwm, hndl_ps2, hndl_btn, task_ps2,
                 task_btn, duty, scan, fault>>
remote_vars == <<btn_vars, own_vars>>

StartSteps == {"start", "nvs", "pwm", "ps2", "ps2_task", "btn", "btn_task"}
StopSteps  == {"stop_btn_task", "stop_ps2_task", "stop_queue", "stop_timer",
               "stop_isr", "stop_ps2", "stop_pwm"}
Stopping   == pc \in StopSteps \cup {"stopped"}

RemoteTypeOK ==
    /\ TypeOK
    /\ pc \in StartSteps \cup StopSteps \cup {"up", "failed", "stopped"}
    /\ state \in {"STOPPED", "INIT", "NOT_CONNECTED"}
    /\ speed \in 0 .. MaxSpeed /\ duty \in 0 .. MaxSpeed
    /\ hndl_pwm \in {"null", "live", "freed"}
    /\ hndl_ps2 \in {"null", "live", "freed", "dangling"}
    /\ hndl_btn \in {"null", "live", "queue", "timer", "isr"}
    /\ task_ps2 \in {"none", "read", "set"} /\ task_btn \in {"none", "run"}
    /\ scan \in {"no", "yes"}
    /\ fault \in {"none", "ps2_null", "ps2_freed", "ps2_twice", "pwm", "btn"}

RemoteInit ==
    /\ Init
    /\ pc = "start" /\ state = "STOPPED"
    /\ speed = 0 /\ duty = 0
    /\ hndl_pwm = "null" /\ hndl_ps2 = "null" /\ hndl_btn = "null"
    /\ task_ps2 = "none" /\ task_btn = "none"
    /\ scan = "no" /\ fault = "none"

-----------------------------------------------------------------------------
(* esk8_remote_start.                                                      *)

RemoteBegin ==
    /\ pc = "start" /\ pc' = "nvs"
    /\ state' = "INIT"
    /\ UNCHANGED <<btn_vars, speed, hndl_pwm, hndl_ps2, hndl_btn, task_ps2,
                   task_btn, duty, scan, fault>>

(* nvs_flash_init, an erase and another try behind it, and the BLE stack.  *)
NvsInit ==
    /\ pc = "nvs" /\ pc' \in {"pwm", "failed"}
    /\ UNCHANGED <<btn_vars, state, speed, hndl_pwm, hndl_ps2, hndl_btn,
                   task_ps2, task_btn, duty, scan, fault>>

(* A failure returns without esk8_remote_stop; the handle stays NULL, or   *)
(* is freed after it was published.  (A slip: the start goes on.)          *)
PwmFailsIgnored == "ps2"
PwmFails == "failed"

PwmInit ==
    /\ pc = "pwm"
    /\ \/ hndl_pwm' = "live" /\ pc' = "ps2"
       \/ hndl_pwm' \in {"null", "freed"} /\ pc' = PwmFails
    /\ UNCHANGED <<btn_vars, state, speed, hndl_ps2, hndl_btn, task_ps2,
                   task_btn, duty, scan, fault>>

(* esk8_ps2_init tests the address of the handle, not the handle: without  *)
(* memory for it, it writes through NULL.  Without memory for the queues   *)
(* it frees the handle and leaves it published.                            *)
Ps2Init ==
    /\ pc = "ps2"
    /\ \/ hndl_ps2' = "live" /\ pc' = "ps2_task" /\ UNCHANGED fault
       \/ hndl_ps2' = "dangling" /\ pc' = "stop_btn_task" /\ UNCHANGED fault
       \/ fault' = "ps2_null" /\ UNCHANGED <<hndl_ps2, pc>>
    /\ UNCHANGED <<btn_vars, state, speed, hndl_pwm, hndl_btn, task_ps2,
                   task_btn, duty, scan>>

Ps2TaskCreate ==
    /\ pc = "ps2_task"
    /\ \/ task_ps2' = "read" /\ pc' = "btn"
       \/ UNCHANGED task_ps2 /\ pc' = "stop_btn_task"
    /\ UNCHANGED <<btn_vars, state, speed, hndl_pwm, hndl_ps2, hndl_btn,
                   task_btn, duty, scan, fault>>

(* esk8_btn_init attaches the interrupt last, and publishes the handle     *)
(* only when all of it succeeded.                                          *)
BtnInit ==
    /\ pc = "btn"
    /\ \/ hndl_btn' = "live" /\ pc' = "btn_task"
       \/ UNCHANGED hndl_btn /\ pc' = "stop_btn_task"
    /\ UNCHANGED <<btn_vars, state, speed, hndl_pwm, hndl_ps2, task_ps2,
                   task_btn, duty, scan, fault>>

BtnTaskCreate ==
    /\ pc = "btn_task"
    /\ \/ task_btn' = "run" /\ state' = "NOT_CONNECTED" /\ pc' = "up"
       \/ UNCHANGED <<task_btn, state>> /\ pc' = "stop_btn_task"
    /\ UNCHANGED <<btn_vars, speed, hndl_pwm, hndl_ps2, hndl_btn, task_ps2,
                   duty, scan, fault>>

-----------------------------------------------------------------------------
(* esk8_remote_stop, of a start that failed or of a remote that is up.  It *)
(* resets neither the state nor the handles.                               *)

RemoteStop ==
    /\ pc = "up" /\ pc' = "stop_btn_task"
    /\ UNCHANGED <<btn_vars, state, speed, hndl_pwm, hndl_ps2, hndl_btn,
                   task_ps2, task_btn, duty, scan, fault>>

StopBtnTask ==
    /\ pc = "stop_btn_task" /\ pc' = "stop_ps2_task"
    /\ task_btn' = "none"
    /\ UNCHANGED <<btn_vars, state, speed, hndl_pwm, hndl_ps2, hndl_btn,
                   task_ps2, duty, scan, fault>>

(* vTaskDelete, wherever the task stands.  (A slip: the other task is      *)
(* deleted a second time.)                                                 *)
DeletePs2TaskNot == UNCHANGED task_ps2
DeletePs2Task == task_ps2' = "none"

StopPs2Task ==
    /\ pc = "stop_ps2_task"
    /\ pc' = IF hndl_btn = "null" THEN "stop_ps2" ELSE "stop_queue"
    /\ DeletePs2Task
    /\ UNCHANGED <<btn_vars, state, speed, hndl_pwm, hndl_ps2, hndl_btn,
                   task_btn, duty, scan, fault>>

(* esk8_btn_deinit: the queue and the timer go before the interrupt that   *)
(* uses them.  The handle is never freed.                                  *)
BtnDeinit ==
    /\ \/ pc = "stop_queue" /\ pc' = "stop_timer" /\ hndl_btn' = "queue"
       \/ pc = "stop_timer" /\ pc' = "stop_isr" /\ hndl_btn' = "timer"
       \/ pc = "stop_isr" /\ pc' = "stop_ps2" /\ hndl_btn' = "isr"
    /\ UNCHANGED <<btn_vars, state, speed, hndl_pwm, hndl_ps2, task_ps2,
                   task_btn, duty, scan, fault>>

(* esk8_ps2_deinit leaves the interrupt attached; the handle that a failed *)
(* initialisation freed is freed again.                                    *)
Ps2Deinit ==
    /\ pc = "stop_ps2" /\ pc' = "stop_pwm"
    /\ IF hndl_ps2 = "dangling"
       THEN fault' \in {"none", "ps2_twice"} /\ UNCHANGED hndl_ps2
       ELSE hndl_ps2' = "freed" /\ UNCHANGED fault
    /\ UNCHANGED <<btn_vars, state, speed, hndl_pwm, hndl_btn, task_ps2,
                   task_btn, duty, scan>>

(* esk8_pwm_sgnl_stop.                                                     *)
PwmStop ==
    /\ pc = "stop_pwm" /\ pc' = "stopped"
    /\ duty' = 0
    /\ hndl_pwm' = "freed"
    /\ UNCHANGED <<btn_vars, state, speed, hndl_ps2, hndl_btn, task_ps2,
                   task_btn, scan, fault>>

Main ==
    /\ fault = "none"
    /\ \/ RemoteBegin \/ NvsInit \/ PwmInit \/ Ps2Init \/ Ps2TaskCreate
       \/ BtnInit \/ BtnTaskCreate
       \/ RemoteStop \/ StopBtnTask \/ StopPs2Task \/ BtnDeinit \/ Ps2Deinit
       \/ PwmStop

-----------------------------------------------------------------------------
(* The tasks.                                                              *)

(* (A slip: the upper bound is forgotten.)                                 *)
ClampLow(v) == IF v < 0 THEN 0 ELSE v
Clamp(v) == IF v > MaxSpeed THEN MaxSpeed ELSE IF v < 0 THEN 0 ELSE v

(* esk8_remote_task_ps2 has put a movement together: esk8_remote_incr_speed *)
(* stores the sum, ...                                                     *)
IncrSpeed(x) ==
    /\ fault = "none" /\ task_ps2 = "read"
    /\ IF hndl_ps2 = "live"
       THEN /\ speed' = Clamp(speed + x)
            /\ task_ps2' = "set"
            /\ UNCHANGED fault
       ELSE fault' = "ps2_freed" /\ UNCHANGED <<speed, task_ps2>>
    /\ UNCHANGED <<btn_vars, pc, state, hndl_pwm, hndl_ps2, hndl_btn,
                   task_btn, duty, scan>>

(* ... and esk8_pwm_sgnl_set takes it as an uint8_t.                        *)
SetDuty ==
    /\ fault = "none" /\ task_ps2 = "set"
    /\ IF hndl_pwm = "live"
       THEN duty' = speed % (MaxSpeed + 1) /\ task_ps2' = "read" /\ UNCHANGED fault
       ELSE fault' = "pwm" /\ UNCHANGED <<duty, task_ps2>>
    /\ UNCHANGED <<btn_vars, pc, state, speed, hndl_pwm, hndl_ps2, hndl_btn,
                   task_btn, scan>>

(* esk8_remote_task_btn only logs what it awaits.                          *)
BtnTask ==
    /\ fault = "none" /\ task_btn = "run"
    /\ IF hndl_btn = "live" THEN Await /\ UNCHANGED fault
       ELSE fault' = "btn" /\ UNCHANGED btn_vars
    /\ UNCHANGED <<pc, state, speed, hndl_pwm, hndl_ps2, hndl_btn, task_ps2,
                   task_btn, duty, scan>>

-----------------------------------------------------------------------------
(* Interrupts and the esp_timer task.                                      *)

rest == <<pc, state, speed, hndl_pwm, hndl_ps2, hndl_btn, task_ps2, task_btn,
          duty, scan>>

(* A queue or a timer that may have been deleted is used.                  *)
Uses(deleted) == IF hndl_btn \in deleted THEN fault' \in {"none", "btn"}
                 ELSE UNCHANGED fault

Attached == fault = "none" /\ hndl_btn \in {"live", "queue", "timer"}

BtnEdge == Attached /\ Edge /\ UNCHANGED own_vars

BtnSettle == Attached /\ Settle /\ UNCHANGED own_vars

BtnIsr ==
    /\ Attached
    /\ \/ IsrRelease /\ Uses({"queue", "timer"})
       \/ IsrPress /\ Uses({"timer"})
       \/ (IsrBounce \/ IsrNothing) /\ UNCHANGED fault
    /\ UNCHANGED rest

TimerExpires ==
    /\ fault = "none" /\ hndl_btn \in {"live", "queue"}
    /\ Expire
    /\ UNCHANGED own_vars

(* The callback, once called, is not stopped by esp_timer_delete.          *)
TimerState == fault = "none" /\ TmrState /\ UNCHANGED own_vars

TimerSend ==
    /\ fault = "none"
    /\ TmrSend
    /\ Uses({"queue", "timer", "isr"})
    /\ UNCHANGED rest

(* A clock edge of the PS/2 device runs esk8_ps2_isr on the freed handle.  *)
Ps2Edge ==
    /\ fault = "none" /\ hndl_ps2 = "freed"
    /\ fault' = "ps2_freed"
    /\ UNCHANGED <<btn_vars, rest>>

-----------------------------------------------------------------------------
(* The scan.                                                               *)

(* esk8_remote_connect, when the stack starts scanning.                    *)
Connect ==
    /\ fault = "none" /\ state = "NOT_CONNECTED"
    /\ scan' = "yes"
    /\ UNCHANGED <<btn_vars, pc, state, speed, hndl_pwm, hndl_ps2, hndl_btn,
                   task_ps2, task_btn, duty, fault>>

(* The scan ends after its time, or at esk8_remote_gap_cb: esk8_remote is  *)
(* never in state SEARCHING, so that the first result stops it.            *)
ScanEnds ==
    /\ fault = "none" /\ scan = "yes"
    /\ scan' = "no"
    /\ UNCHANGED <<btn_vars, pc, state, speed, hndl_pwm, hndl_ps2, hndl_btn,
                   task_ps2, task_btn, duty, fault>>

(* A panic restarts the chip: what RemoteInit says.                        *)
RemoteReboot ==
    /\ fault # "none" /\ fault' = "none"
    /\ irq' = "no" /\ recent' = "no" /\ hndl_state' = "RELEASED"
    /\ tmr' = "idle" /\ cb' = "none" /\ que' = "empty"
    /\ raced' = "no" /\ balance' = 0
    /\ pc' = "start" /\ state' = "STOPPED" /\ speed' = 0 /\ duty' = 0
    /\ hndl_pwm' = "null" /\ hndl_ps2' = "null" /\ hndl_btn' = "null"
    /\ task_ps2' = "none" /\ task_btn' = "none" /\ scan' = "no"
    /\ UNCHANGED level

RemoteNext ==
    \/ Main
    \/ (\E x \in Moves : IncrSpeed(x)) \/ SetDuty \/ BtnTask
    \/ BtnEdge \/ BtnSettle \/ BtnIsr \/ TimerExpires \/ TimerState \/ TimerSend
    \/ Ps2Edge
    \/ Connect \/ ScanEnds
    \/ RemoteReboot

(* Time passes and interrupts and timers are served, as in Btn.            *)
RemoteFairness ==
    /\ WF_remote_vars(BtnSettle) /\ WF_remote_vars(BtnIsr)
    /\ WF_remote_vars(TimerExpires) /\ WF_remote_vars(TimerState)
    /\ WF_remote_vars(TimerSend)

RemoteSpec == RemoteInit /\ [][RemoteNext]_remote_vars /\ RemoteFairness

-----------------------------------------------------------------------------
(* However the steps of the start fail and mix with the tasks already      *)
(* created and with the interrupts already attached, nothing uses a handle *)
(* that is not there, but for esk8_ps2_init without memory.  Once a stop   *)
(* has begun, what may still go wrong are the interrupts, which it         *)
(* detaches too late or never, and the handle freed twice: no task does.   *)
FaultsAreLate ==
    /\ fault \in {"none", "ps2_null"} \/ Stopping
    /\ fault # "pwm"

(* Between two movements the output is the speed, which stays within the   *)
(* bounds whatever the movements add up to: no overflow of the 8-bit duty. *)
DutyIsSpeed == task_ps2 # "set" /\ ~Stopping => duty = speed

(* A start that failed, or a remote that was stopped, leaves the output at *)
(* zero, and no task that could set it again, although the PS/2 task runs  *)
(* while the rest of the start fails and is deleted at any point.          *)
StoppedIsStill == pc \in {"failed", "stopped"} => duty = 0 /\ task_ps2 = "none"

(* A button taken for pressed is taken for released in the end, unless the *)
(* remote is stopped.                                                      *)
PressReleased ==
    hndl_state = "PRESSED" ~> hndl_state = "RELEASED" \/ Stopping

(* The inductive invariant: which handles and tasks there are at each step. *)
NoPs2   == {"start", "nvs", "pwm", "ps2", "failed"}
NoTasks == NoPs2 \cup {"ps2_task"}
NoBtn   == NoTasks \cup {"btn"}
Ended   == {"stop_queue", "stop_timer", "stop_isr", "stop_ps2", "stop_pwm", "stopped"}

RemoteInv ==
    /\ RemoteTypeOK /\ BtnInv
    /\ pc \notin {"start", "nvs", "pwm", "failed", "stopped"} => hndl_pwm = "live"
    /\ pc \in NoPs2 => hndl_ps2 = "null"
    /\ pc \in {"ps2_task", "btn", "btn_task", "up"} => hndl_ps2 = "live"
    /\ hndl_ps2 = "dangling" => task_ps2 = "none" /\ Stopping
    /\ hndl_ps2 = "freed" => pc \in {"stop_pwm", "stopped"}
    /\ task_ps2 # "none" => hndl_ps2 = "live" /\ hndl_pwm = "live"
    /\ pc \in NoTasks \cup Ended => task_ps2 = "none"
    /\ pc \in NoBtn => hndl_btn = "null"
    /\ pc \in {"btn_task", "up"} => hndl_btn = "live"
    /\ hndl_btn \notin {"null", "live"} => pc \in Ended
    /\ task_btn = "run" => hndl_btn = "live" /\ pc \in {"up", "stop_btn_task"}
    /\ pc \in NoTasks \cup {"stopped"} => duty = 0
    /\ pc \in NoTasks => speed = 0
    /\ pc \in NoTasks => scan = "no" /\ state # "NOT_CONNECTED"
    /\ FaultsAreLate /\ DutyIsSpeed /\ StoppedIsStill
=============================================================================
