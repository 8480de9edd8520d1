------------------------------ MODULE Onboard ------------------------------
(***************************************************************************)
(* The ride state of the board, lib/onboard, with the PWM output that      *)
(* drives the motor, lib/pwm.                                              *)
(*                                                                         *)
(* app_main runs esk8_onboard_start, step by step, while other tasks       *)
(* already use esk8_onboard: esk8_onboard_set_speed is called from the BTC *)
(* task as soon as a service accepts writes, and the BMS task runs from    *)
(* the middle of the start on.  A NULL dereference, a use of freed memory  *)
(* and a task function that returns all end in the panic handler: fault    *)
(* says that it was entered.                                               *)
(***************************************************************************)
EXTENDS Integers

CONSTANTS
    Speeds,        \* speed values, 0 included (uint8_t in the code)
    StartMayFail   \* whether a step of esk8_onboard_start may fail

ASSUME OnboardAssumption ==
    /\ Speeds \subseteq Nat /\ 0 \in Speeds
    /\ StartMayFail \in BOOLEAN

VARIABLES
    main_pc,    \* app_main: the step of esk8_onboard_start to come
    ob_state,   \* esk8_onboard.state
    now_speed,  \* esk8_onboard.now_speed
    fields,     \* the pointers of esk8_onboard that are set, hndl_pwm apart
    hndl_pwm,   \* esk8_onboard.hndl_pwm: "null", "raw", "live" or "freed"
    bms_task,   \* the BMS task: "none", "new", "poll" or "report"
    duty,       \* LEDC: the duty the motor is driven with
    fault       \* "none", or why the panic handler was entered

onb_vars == <<main_pc, ob_state, now_speed, fields, hndl_pwm,
              bms_task, duty, fault>>

(* The pointers esk8_onboard_start fills in, and the step after each; the  *)
(* PWM output is set up in two steps, "pwm_alloc" and "pwm_config",        *)
(* between the BMS driver and the BMS task.                                *)
After == [bms_stat |-> "bms_deep_stat", bms_deep_stat |-> "hndl_bms",
          hndl_bms |-> "pwm_alloc",     task_bms |-> "hndl_btn",
          hndl_btn |-> "task_btn",      task_btn |-> "run"]
Fields == DOMAIN After

OnbTypeOK ==
    /\ main_pc \in Fields \cup {"start", "pwm_alloc", "pwm_config", "run",
                           "stop", "done"}
    /\ ob_state \in {"STOPPED", "INIT", "RUNNING"}
    /\ now_speed \in Speeds
    /\ fields \subseteq Fields
    /\ hndl_pwm \in {"null", "raw", "live", "freed"}
    /\ bms_task \in {"none", "new", "poll", "report"}
    /\ duty \in Speeds
    /\ fault \in {"none", "task_returned", "bms_null", "pwm_null", "ctx_null"}

OnbInit ==
    /\ main_pc = "start"
    /\ ob_state = "STOPPED"
    /\ now_speed = 0
    /\ fields = {}
    /\ hndl_pwm = "null"
    /\ bms_task = "none"
    /\ duty = 0
    /\ fault = "none"

-----------------------------------------------------------------------------
(* esk8_onboard_start, run by app_main.                                    *)

StartBegin ==
    /\ main_pc = "start"
    /\ main_pc' = "bms_stat"
    /\ ob_state' = "INIT"
    /\ UNCHANGED <<now_speed, fields, hndl_pwm, bms_task, duty, fault>>

(* The pointer of a step is stored.  (A slip: the BMS handle goes to the   *)
(* button's field.)                                                        *)
StoreMixedUp(f) == fields' = fields \cup {IF f = "hndl_bms" THEN "hndl_btn" ELSE f}
Store(f) == fields' = fields \cup {f}

(* An allocation, a peripheral or a task is obtained.                      *)
StartField(f) ==
    /\ main_pc = f
    /\ Store(f)
    /\ bms_task' = IF f = "task_bms" THEN "new" ELSE bms_task
    /\ main_pc' = After[f]
    /\ UNCHANGED <<ob_state, now_speed, hndl_pwm, duty, fault>>

(* The first failure returns at once, every other one stops the board.  (A *)
(* slip: a return is missing, and the start goes on.)                      *)
FailToNext(f) == IF f \in Fields THEN After[f] ELSE "task_bms"
FailTo(f) == IF f = "bms_stat" THEN "done" ELSE "stop"

StartFieldFails(f) ==
    /\ StartMayFail
    /\ main_pc = f
    /\ main_pc' = FailTo(f)
    /\ UNCHANGED <<ob_state, now_speed, fields, hndl_pwm, bms_task,
                   duty, fault>>

(* esk8_pwm_sgnl_init publishes its handle, then configures the timer and  *)
(* the channel, which starts with duty 0, or frees the handle.             *)
PwmAlloc ==
    /\ main_pc = "pwm_alloc"
    /\ \/ /\ hndl_pwm' = "raw"
          /\ main_pc' = "pwm_config"
       \/ /\ StartMayFail
          /\ main_pc' = FailTo(main_pc)
          /\ UNCHANGED hndl_pwm
    /\ UNCHANGED <<ob_state, now_speed, fields, bms_task, duty, fault>>

PwmConfig ==
    /\ main_pc = "pwm_config"
    /\ \/ /\ hndl_pwm' = "live"
          /\ duty' = 0
          /\ main_pc' = "task_bms"
       \/ /\ StartMayFail
          /\ hndl_pwm' = "freed"
          /\ main_pc' = FailTo(main_pc)
          /\ UNCHANGED duty
    /\ UNCHANGED <<ob_state, now_speed, fields, bms_task, fault>>

StartEnd ==
    /\ main_pc = "run"
    /\ main_pc' = "done"
    /\ ob_state' = "RUNNING"
    /\ UNCHANGED <<now_speed, fields, hndl_pwm, bms_task, duty, fault>>

(* esk8_onboard_stop frees the two status arrays and zeroes the structure; *)
(* the PWM output and the BMS task live on.  It is only called by a start  *)
(* that fails, before the button task exists.                              *)
OnboardStop ==
    /\ main_pc = "stop"
    /\ main_pc' = "done"
    /\ ob_state' = "STOPPED"
    /\ now_speed' = 0
    /\ fields' = {}
    /\ hndl_pwm' = "null"
    /\ UNCHANGED <<bms_task, duty, fault>>

OnbMain ==
    \/ StartBegin \/ PwmAlloc \/ PwmConfig \/ StartEnd \/ OnboardStop
    \/ \E f \in Fields : StartField(f) \/ StartFieldFails(f)

-----------------------------------------------------------------------------
(* esk8_pwm_sgnl_set of a configured channel.  (Slips: the previous speed  *)
(* is handed on; a speed of zero is taken for "no change".)                *)
PwmSetPrevious(v) == duty' = now_speed
PwmSetNonZero(v)  == duty' = IF v = 0 THEN duty ELSE v
PwmSet(v) == duty' = v

(* esk8_onboard_set_speed, called by the BTC task, which preempts app_main *)
(* between any two of the steps above.  The handle of a channel that is    *)
(* not configured reads as some other channel: nothing reaches the motor.  *)
(* The result, esk8_onboard.err, is only logged, and left out.             *)
SetSpeed(v) ==
    /\ IF ob_state = "STOPPED"
       THEN UNCHANGED <<now_speed, duty, fault>>
       ELSE /\ now_speed' = v
            /\ \/ /\ hndl_pwm = "null"
                  /\ fault' = "pwm_null"
                  /\ UNCHANGED duty
               \/ /\ hndl_pwm = "live"
                  /\ PwmSet(v)
                  /\ UNCHANGED fault
               \/ /\ hndl_pwm \in {"raw", "freed"}
                  /\ UNCHANGED <<duty, fault>>
    /\ UNCHANGED <<main_pc, ob_state, fields, hndl_pwm, bms_task>>

-----------------------------------------------------------------------------
(* esk8_onboard_task_bms.                                                  *)

BmsEnter ==
    /\ bms_task = "new"
    /\ IF ob_state = "STOPPED"
       THEN fault' = "task_returned" /\ UNCHANGED bms_task
       ELSE bms_task' = "poll" /\ UNCHANGED fault
    /\ UNCHANGED <<main_pc, ob_state, now_speed, fields, hndl_pwm, duty>>

(* The BMS is selected and asked for its status.                           *)
BmsPoll ==
    /\ bms_task = "poll"
    /\ IF "hndl_bms" \notin fields
       THEN fault' = "bms_null" /\ UNCHANGED bms_task
       ELSE bms_task' = "report" /\ UNCHANGED fault
    /\ UNCHANGED <<main_pc, ob_state, now_speed, fields, hndl_pwm, duty>>

(* The answer came, or the wait timed out: bms_stat[i] is read and handed  *)
(* to the status service.  broken: the service dereferences NULL.          *)
BmsReport(broken) ==
    /\ bms_task = "report"
    /\ bms_task' = "poll"
    /\ fault' = IF "bms_stat" \notin fields THEN "bms_null"
                ELSE IF broken THEN "ctx_null" ELSE fault
    /\ UNCHANGED <<main_pc, ob_state, now_speed, fields, hndl_pwm, duty>>
=============================================================================
