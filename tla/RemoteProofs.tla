---------------------------- MODULE RemoteProofs ----------------------------
(* Proofs about the button driver, and about the remote: its tasks,        *)
(* handles and output through every start that fails and every stop.  That *)
(* the driver keeps its invariant inside the remote is taken from its own  *)
(* steps.                                                                  *)
EXTENDS Remote, TLAPS

-----------------------------------------------------------------------------
(* The button driver alone.                                                *)

(* Initially nothing is pressed, armed or counted.                         *)
LEMMA InitInv == Init => BtnInv
  BY DEF Init, BtnInv, TypeOK, PressedHasTimer, ReleasedHasNoTimer, Owed

(* The interrupt handler, cutting in wherever it may, preserves BtnInv.    *)
LEMMA IsrStep == BtnInv /\ Isr => BtnInv'
  <1> SUFFICES ASSUME BtnInv, Isr PROVE BtnInv'
    OBVIOUS
  <1> USE DEF BtnInv, TypeOK, PressedHasTimer, ReleasedHasNoTimer, Owed
  <1>1. CASE IsrBounce
    BY <1>1 DEF IsrBounce
  <1>2. CASE IsrRelease
    BY <1>2 DEF IsrRelease, Accept, Stop, Send, Count
  <1>3. CASE IsrPress
    BY <1>3 DEF IsrPress, Accept, Start, Count
  <1>4. CASE IsrNothing
    BY <1>4 DEF IsrNothing, Accept
  <1> QED
    BY <1>1, <1>2, <1>3, <1>4 DEF Isr

(* So do the steps of the timer and its callback.                          *)
LEMMA TimerStep == BtnInv /\ Timer => BtnInv'
  <1> SUFFICES ASSUME BtnInv, Timer PROVE BtnInv'
    OBVIOUS
  <1> USE DEF BtnInv, TypeOK, PressedHasTimer, ReleasedHasNoTimer, Owed
  <1>1. CASE Expire
    BY <1>1 DEF Expire
  <1>2. CASE TmrState
    BY <1>2 DEF TmrState, TmrClear
  <1>3. CASE TmrSend
    BY <1>3 DEF TmrSend, Send, Count
  <1> QED
    BY <1>1, <1>2, <1>3 DEF Timer

(* Every step of the driver and its users preserves BtnInv.                *)
LEMMA NextStep == BtnInv /\ [Next]_btn_vars => BtnInv'
  <1> SUFFICES ASSUME BtnInv, [Next]_btn_vars PROVE BtnInv'
    OBVIOUS
  <1> USE DEF BtnInv, TypeOK, PressedHasTimer, ReleasedHasNoTimer, Owed
  <1>1. CASE Edge
    BY <1>1 DEF Edge
  <1>2. CASE Settle
    BY <1>2 DEF Settle
  <1>3. CASE Isr
    BY <1>3, IsrStep
  <1>4. CASE Timer
    BY <1>4, TimerStep
  <1>5. CASE Await
    BY <1>5 DEF Await
  <1>6. CASE UNCHANGED btn_vars
    BY <1>6 DEF btn_vars
  <1> QED
    BY <1>1, <1>2, <1>3, <1>4, <1>5, <1>6 DEF Next

(* The inductive invariant of the driver.                                  *)
THEOREM BtnInvariance == Spec => []BtnInv
  BY InitInv, NextStep, PTL DEF Spec

(* The driver never waits for a release that debouncing swallowed: in      *)
(* state PRESSED the timer or its callback is on its way.                  *)
THEOREM PressedHasTimerHolds == Spec => []PressedHasTimer
  <1>1. BtnInv => PressedHasTimer
    BY DEF BtnInv
  <1> QED
    BY <1>1, BtnInvariance, PTL

(* One press, one event, outside the race.                                 *)
THEOREM OneEventPerPressHolds == Spec => []OneEventPerPress
  <1>1. BtnInv => OneEventPerPress
    BY DEF BtnInv, TypeOK, PressedHasTimer, OneEventPerPress, Owed
  <1> QED
    BY <1>1, BtnInvariance, PTL

-----------------------------------------------------------------------------
(* The remote.                                                             *)

(* What RemoteInv says beside the invariant of the button driver.          *)
OwnTypes ==
    /\ pc \in StartSteps \cup StopSteps \cup {"up", "failed", "stopped"}
    /\ state \in {"STOPPED", "INIT", "NOT_CONNECTED"}
    /\ speed \in 0 .. MaxSpeed /\ duty \in 0 .. MaxSpeed
    /\ hndl_pwm \in {"null", "live", "freed"}
    /\ hndl_ps2 \in {"null", "live", "freed", "dangling"}
    /\ hndl_btn \in {"null", "live", "queue", "timer", "isr"}
    /\ task_ps2 \in {"none", "read", "set"} /\ task_btn \in {"none", "run"}
    /\ scan \in {"no", "yes"}
    /\ fault \in {"none", "ps2_null", "ps2_freed", "ps2_twice", "pwm", "btn"}

Handles ==
    /\ pc \notin {"start", "nvs", "pwm", "failed", "stopped"} => hndl_pwm = "live"
    /\ pc \in NoPs2 => hndl_ps2 = "null"
    /\ pc \in {"ps2_task", "btn", "btn_task", "up"} => hndl_ps2 = "live"
    /\ hndl_ps2 = "dangling" => task_ps2 = "none" /\ Stopping
    /\ hndl_ps2 = "freed" => pc \in {"stop_pwm", "stopped"}
    /\ task_ps2 # "none" => hndl_ps2 = "live" /\ hndl_pwm = "live"
    /\ pc \in NoTasks \cup Ended => task_ps2 = "none"
    /\ pc \in NoBtn => hndl_btn = "null"
    /\ pc \in {"btn_task", "up"} => hndl_btn = "live"
    /\ hndl_btn \notin {"null", "live"} => pc \in Ended
    /\ task_btn = "run" => hndl_btn = "live" /\ pc \in {"up", "stop_btn_task"}
    /\ pc \in NoTasks \cup {"stopped"} => duty = 0
    /\ pc \in NoTasks => speed = 0
    /\ pc \in NoTasks => scan = "no" /\ state # "NOT_CONNECTED"
    /\ FaultsAreLate /\ DutyIsSpeed /\ StoppedIsStill

Own == OwnTypes /\ Handles

(* The invariant is that of the button driver and the rest.                *)
LEMMA InvParts == RemoteInv <=> BtnInv /\ Own
  BY DEF RemoteInv, RemoteTypeOK, Own, OwnTypes, Handles, BtnInv

(* After a step the same.                                                  *)
LEMMA InvPartsNext == (RemoteInv)' <=> BtnInv' /\ Own'
  BY InvParts, PTL

(* At power-on nothing is started.                                         *)
LEMMA RemoteInitInv == RemoteInit => RemoteInv
  <1> SUFFICES ASSUME RemoteInit PROVE BtnInv /\ Own
    BY InvParts
  <1>1. BtnInv
    BY InitInv DEF RemoteInit
  <1>2. Own
    BY DEF RemoteInit, Own, OwnTypes, Handles, StartSteps, MaxSpeed, Stopping, StopSteps,
           NoPs2, NoTasks, NoBtn, Ended, FaultsAreLate, DutyIsSpeed, StoppedIsStill
  <1> QED
    BY <1>1, <1>2

(* The button driver inside the remote steps as it does alone.             *)
LEMMA BtnKept ==
    ASSUME BtnInv, RemoteNext \/ UNCHANGED remote_vars PROVE BtnInv'
  <1>1. CASE RemoteReboot
    BY <1>1 DEF RemoteReboot, BtnInv, TypeOK, PressedHasTimer, ReleasedHasNoTimer, Owed
  <1>2. CASE Main
    <2>1. UNCHANGED btn_vars
      BY <1>2 DEF Main, RemoteBegin, NvsInit, PwmInit, Ps2Init, Ps2TaskCreate, BtnInit,
                  BtnTaskCreate, RemoteStop, StopBtnTask, StopPs2Task, BtnDeinit,
                  Ps2Deinit, PwmStop
    <2> QED
      BY <2>1, NextStep
  <1>3. CASE (\E x \in Moves : IncrSpeed(x)) \/ SetDuty \/ Ps2Edge \/ Connect \/ ScanEnds
             \/ UNCHANGED remote_vars
    <2>1. UNCHANGED btn_vars
      BY <1>3 DEF IncrSpeed, SetDuty, Ps2Edge, Connect, ScanEnds, remote_vars
    <2> QED
      BY <2>1, NextStep
  <1>4. CASE BtnTask \/ BtnEdge \/ BtnSettle \/ BtnIsr \/ TimerExpires \/ TimerState
             \/ TimerSend
    <2>1. [Next]_btn_vars
      BY <1>4 DEF BtnTask, BtnEdge, BtnSettle, BtnIsr, TimerExpires, TimerState, TimerSend,
                  Next, Isr, Timer
    <2> QED
      BY <2>1, NextStep
  <1> QED
    BY <1>1, <1>2, <1>3, <1>4 DEF RemoteNext

-----------------------------------------------------------------------------
(* The steps of esk8_remote_start keep the rest of the invariant.          *)
LEMMA StartStep ==
    ASSUME Own, fault = "none",
           RemoteBegin \/ NvsInit \/ PwmInit \/ Ps2Init \/ Ps2TaskCreate \/ BtnInit
           \/ BtnTaskCreate
    PROVE Own'
  <1> USE DEF Own, OwnTypes, Handles, StartSteps, MaxSpeed, Stopping, StopSteps,
              NoPs2, NoTasks, NoBtn, Ended, FaultsAreLate, DutyIsSpeed, StoppedIsStill
  <1>1. CASE RemoteBegin
    BY <1>1 DEF RemoteBegin
  <1>2. CASE NvsInit
    BY <1>2 DEF NvsInit
  <1>3. CASE PwmInit
    BY <1>3 DEF PwmInit, PwmFails
  <1>4. CASE Ps2Init
    BY <1>4 DEF Ps2Init
  <1>5. CASE Ps2TaskCreate
    BY <1>5 DEF Ps2TaskCreate
  <1>6. CASE BtnInit
    BY <1>6 DEF BtnInit
  <1>7. CASE BtnTaskCreate
    BY <1>7 DEF BtnTaskCreate
  <1> QED
    BY <1>1, <1>2, <1>3, <1>4, <1>5, <1>6, <1>7

(* So do those of esk8_remote_stop, which deletes the tasks before the     *)
(* handles they use.                                                       *)
LEMMA StopStep ==
    ASSUME Own, fault = "none",
           RemoteStop \/ StopBtnTask \/ StopPs2Task \/ BtnDeinit \/ Ps2Deinit \/ PwmStop
    PROVE Own'
  <1> USE DEF Own, OwnTypes, Handles, StartSteps, MaxSpeed, Stopping, StopSteps,
              NoPs2, NoTasks, NoBtn, Ended, FaultsAreLate, DutyIsSpeed, StoppedIsStill
  <1>1. CASE RemoteStop
    BY <1>1 DEF RemoteStop
  <1>2. CASE StopBtnTask
    BY <1>2 DEF StopBtnTask
  <1>3. CASE StopPs2Task
    BY <1>3 DEF StopPs2Task, DeletePs2Task
  <1>4. CASE BtnDeinit
    BY <1>4 DEF BtnDeinit
  <1>5. CASE Ps2Deinit
    BY <1>5 DEF Ps2Deinit
  <1>6. CASE PwmStop
    BY <1>6 DEF PwmStop
  <1> QED
    BY <1>1, <1>2, <1>3, <1>4, <1>5, <1>6

(* So do the tasks: the speed stays within its bounds, for every movement. *)
LEMMA TaskStep ==
    ASSUME Own, (\E x \in Moves : IncrSpeed(x)) \/ SetDuty \/ BtnTask
    PROVE Own'
  <1> USE DEF Own, OwnTypes, Handles, StartSteps, MaxSpeed, Stopping, StopSteps,
              NoPs2, NoTasks, NoBtn, Ended, FaultsAreLate, DutyIsSpeed, StoppedIsStill
  <1>1. CASE \E x \in Moves : IncrSpeed(x)
    <2>1. PICK x \in Moves : IncrSpeed(x)
      BY <1>1
    <2>2. x \in Int
      BY RemoteAssumption
    <2>3. Clamp(speed + x) \in 0 .. 255
      BY <2>2 DEF Clamp
    <2> QED
      BY <2>1, <2>3 DEF IncrSpeed
  <1>2. CASE SetDuty
    <2>1. speed % (MaxSpeed + 1) = speed
      OBVIOUS
    <2> QED
      BY <1>2, <2>1 DEF SetDuty
  <1>3. CASE BtnTask
    BY <1>3 DEF BtnTask
  <1> QED
    BY <1>1, <1>2, <1>3

(* So do interrupts, the esp_timer task, the scan and a restart.           *)
LEMMA OtherStep ==
    ASSUME Own, BtnEdge \/ BtnSettle \/ BtnIsr \/ TimerExpires \/ TimerState \/ TimerSend
                \/ Ps2Edge \/ Connect \/ ScanEnds \/ RemoteReboot
                \/ UNCHANGED remote_vars
    PROVE Own'
  <1> USE DEF Own, OwnTypes, Handles, StartSteps, MaxSpeed, Stopping, StopSteps,
              NoPs2, NoTasks, NoBtn, Ended, FaultsAreLate, DutyIsSpeed, StoppedIsStill
  <1>1. CASE BtnEdge \/ BtnSettle \/ TimerExpires \/ TimerState \/ UNCHANGED remote_vars
    BY <1>1 DEF BtnEdge, BtnSettle, TimerExpires, TimerState, own_vars, remote_vars
  <1>2. CASE BtnIsr
    BY <1>2 DEF BtnIsr, Uses, Attached, rest
  <1>3. CASE TimerSend
    BY <1>3 DEF TimerSend, Uses, rest
  <1>4. CASE Ps2Edge
    BY <1>4 DEF Ps2Edge, rest
  <1>5. CASE Connect
    BY <1>5 DEF Connect
  <1>6. CASE ScanEnds
    BY <1>6 DEF ScanEnds
  <1>7. CASE RemoteReboot
    BY <1>7 DEF RemoteReboot
  <1> QED
    BY <1>1, <1>2, <1>3, <1>4, <1>5, <1>6, <1>7

(* Every step keeps the invariant.                                         *)
LEMMA RemoteNextInv == RemoteInv /\ [RemoteNext]_remote_vars => (RemoteInv)'
  <1> SUFFICES ASSUME BtnInv, Own, RemoteNext \/ UNCHANGED remote_vars
               PROVE BtnInv' /\ Own'
    BY InvParts, InvPartsNext
  <1>1. BtnInv'
    BY BtnKept
  <1>2. Own'
    BY StartStep, StopStep, TaskStep, OtherStep DEF RemoteNext, Main
  <1> QED
    BY <1>1, <1>2

-----------------------------------------------------------------------------
(* The inductive invariant of the remote, for every set of movements.      *)
THEOREM RemoteInvariance == RemoteSpec => []RemoteInv
  BY RemoteInitInv, RemoteNextInv, PTL DEF RemoteSpec

(* Nothing uses a handle that is not there before a stop has begun, but    *)
(* for esk8_ps2_init without memory; and no task ever does.                *)
THEOREM FaultsAreLateHolds == RemoteSpec => []FaultsAreLate
  <1>1. RemoteInv => FaultsAreLate
    BY DEF RemoteInv
  <1> QED
    BY <1>1, RemoteInvariance, PTL

(* Between movements the output is the speed, which does not overflow.     *)
THEOREM DutyIsSpeedHolds == RemoteSpec => []DutyIsSpeed
  <1>1. RemoteInv => DutyIsSpeed
    BY DEF RemoteInv
  <1> QED
    BY <1>1, RemoteInvariance, PTL

(* After a failed start, or a stop, the output is and stays at zero.       *)
THEOREM StoppedIsStillHolds == RemoteSpec => []StoppedIsStill
  <1>1. RemoteInv => StoppedIsStill
    BY DEF RemoteInv
  <1> QED
    BY <1>1, RemoteInvariance, PTL

(* Inside the remote, whose start and stop attach and detach the interrupt  *)
(* at any moment, every press still yields one event.                      *)
THEOREM OneEventInRemote == RemoteSpec => []OneEventPerPress
  <1>1. RemoteInv => OneEventPerPress
    BY DEF RemoteInv, BtnInv, TypeOK, PressedHasTimer, OneEventPerPress, Owed
  <1> QED
    BY <1>1, RemoteInvariance, PTL
=============================================================================
