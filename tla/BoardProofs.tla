---------------------------- MODULE BoardProofs ----------------------------
(***************************************************************************)
(* Safety of the board for every set of connections, payloads, speeds and  *)
(* limits: the inductive invariant BoardInv, the properties it implies,    *)
(* and the refinement of SpeedAuthority.                                   *)
(***************************************************************************)
EXTENDS Board, BleAppsProofs

USE DEF NoConn

LEMMA FieldsAre ==
    /\ Fields = {"bms_stat", "bms_deep_stat", "hndl_bms", "task_bms",
                 "hndl_btn", "task_btn"}
    /\ After["bms_stat"] = "bms_deep_stat" /\ After["bms_deep_stat"] = "hndl_bms"
    /\ After["hndl_bms"] = "pwm_alloc"     /\ After["task_bms"] = "hndl_btn"
    /\ After["hndl_btn"] = "task_btn"      /\ After["task_btn"] = "run"
BY DEF Fields, After

LEMMA InitInv == Init => BoardInv
<1>. SUFFICES ASSUME Init PROVE BoardInv
  OBVIOUS
<1>1. BleInv
  BY BleInitInv DEF Init
<1>2. OnbTypeOK
  BY OnboardAssumption DEF Init, OnbInit, OnbTypeOK
<1>3. TypeOK
  BY <1>1, <1>2, OnboardAssumption DEF Init, TypeOK, BleInv
<1>4. Control /\ SetterKnown /\ Motor
  BY DEF Init, OnbInit, Control, SetterKnown, Motor, MotorIsRecorded
<1>5. Obtained /\ Begun /\ FaultsHaveCause
  BY DEF Init, OnbInit, Obtained, Begun, FaultsHaveCause
<1>. QED  BY <1>1, <1>3, <1>4, <1>5 DEF BoardInv

(* esk8_onboard_set_speed.                                                 *)
LEMMA SetSpeedInv ==
    ASSUME BoardInv, fault = "none", NEW v \in Speeds, SetSpeed(v),
           has_ctx' = has_ctx
    PROVE  /\ OnbTypeOK' /\ Motor' /\ Obtained' /\ Begun' /\ FaultsHaveCause'
           /\ ob_state' = ob_state
           /\ IF ob_state = "STOPPED" THEN now_speed' = now_speed
                                      ELSE now_speed' = v
<1>. USE DEF BoardInv, TypeOK
<1>1. UNCHANGED <<main_pc, ob_state, fields, hndl_pwm, bms_task>>
  BY DEF SetSpeed
<1>2. OnbTypeOK'
  <2>1. now_speed' \in Speeds /\ duty' \in Speeds
    BY DEF SetSpeed, PwmSet, OnbTypeOK
  <2>2. fault' \in {"none", "task_returned", "bms_null", "pwm_null", "ctx_null"}
    BY DEF SetSpeed, PwmSet, OnbTypeOK
  <2>. QED  BY <1>1, <2>1, <2>2 DEF OnbTypeOK
<1>3. IF ob_state = "STOPPED" THEN now_speed' = now_speed
                              ELSE now_speed' = v
  BY DEF SetSpeed
<1>4. Motor'
  BY <1>1 DEF SetSpeed, PwmSet, Motor, MotorIsRecorded
<1>5. Obtained' /\ Begun'
  BY <1>1 DEF Obtained, Begun
(* The handle is missing in a start only, before there is a BMS task.      *)
<1>6. FaultsHaveCause'
  <2>1. CASE fault' = "none"
    BY <2>1 DEF FaultsHaveCause
  <2>2. CASE fault' # "none"
    <3>1. ob_state # "STOPPED" /\ hndl_pwm = "null" /\ fault' = "pwm_null"
      BY <2>2 DEF SetSpeed
    <3>2. ob_state = "INIT" /\ bms_task = "none"
      BY <3>1 DEF Obtained, Begun, OnbTypeOK
    <3>. QED  BY <1>1, <3>1, <3>2 DEF FaultsHaveCause
  <2>. QED  BY <2>1, <2>2
<1>. QED  BY <1>1, <1>2, <1>3, <1>4, <1>5, <1>6

(* app_main in esk8_onboard_start.                                         *)
LEMMA OnbMainInv ==
    ASSUME BoardInv, fault = "none", OnbMain, has_ctx' = has_ctx
    PROVE  /\ OnbTypeOK' /\ Motor' /\ Obtained' /\ Begun' /\ FaultsHaveCause'
           /\ ob_state' = "STOPPED" => now_speed' = 0
           /\ now_speed' # 0 => now_speed' = now_speed /\ main_pc # "stop"
           /\ now_speed' \in {0, now_speed}
<1>. USE FieldsAre DEF BoardInv, TypeOK
<1>. DEFINE Goal == /\ OnbTypeOK' /\ Motor' /\ Obtained' /\ Begun'
                    /\ ob_state' = "STOPPED" => now_speed' = 0
                    /\ now_speed' # 0 => now_speed' = now_speed /\ main_pc # "stop"
                    /\ now_speed' \in {0, now_speed}
<1>0. FaultsHaveCause'
  BY DEF OnbMain, StartBegin, StartField, StartFieldFails, PwmAlloc, PwmConfig,
         StartEnd, OnboardStop, FaultsHaveCause
<1>1. CASE StartBegin
  <2>1. OnbTypeOK'
    BY <1>1 DEF StartBegin, OnbTypeOK
  <2>2. Motor' /\ Obtained' /\ Begun'
    BY <1>1 DEF StartBegin, Motor, MotorIsRecorded, Obtained, Begun
  <2>. QED  BY <1>0, <1>1, <2>1, <2>2 DEF StartBegin
<1>2. ASSUME NEW f \in Fields, StartField(f) PROVE Goal
  <2>1. OnbTypeOK'
    BY <1>2 DEF StartField, Store, OnbTypeOK
  <2>2. Motor'
    BY <1>2 DEF StartField, Store, Motor, MotorIsRecorded
  <2>3. Obtained'
    BY <1>2 DEF StartField, Store, Obtained, OnbTypeOK
  (* The BMS task is created in a start, after the PWM output and the BMS. *)
  <2>4. Begun'
    <3>1. main_pc = f /\ fields \subseteq fields'
          /\ UNCHANGED <<ob_state, hndl_pwm>>
      BY <1>2 DEF StartField, Store
    <3>2. CASE f = "task_bms"
      <4>1. ob_state = "INIT" /\ hndl_pwm = "live"
            /\ {"bms_stat", "hndl_bms"} \subseteq fields
        BY <3>1, <3>2 DEF Motor, Obtained
      <4>. QED  BY <3>1, <4>1 DEF Begun
    <3>3. CASE f # "task_bms"
      <4>1. bms_task' = bms_task
        BY <1>2, <3>3 DEF StartField
      <4>2. ob_state # "STOPPED"
        BY <3>1 DEF Begun
      <4>. QED  BY <3>1, <4>1, <4>2 DEF Begun
    <3>. QED  BY <3>2, <3>3
  <2>. QED  BY <1>2, <2>1, <2>2, <2>3, <2>4 DEF StartField, Control
<1>3. ASSUME NEW f \in Fields, StartFieldFails(f) PROVE Goal
  <2>1. main_pc' \in {"stop", "done"} /\ main_pc = f
        /\ UNCHANGED <<ob_state, now_speed, fields, hndl_pwm,
                       bms_task, duty, fault>>
    BY <1>3 DEF StartFieldFails, FailTo
  <2>2. OnbTypeOK'
    BY <2>1 DEF OnbTypeOK
  <2>3. Motor'
    BY <2>1 DEF Motor, MotorIsRecorded
  <2>4. Obtained' /\ Begun'
    BY <2>1 DEF Obtained, Begun
  <2>. QED  BY <2>1, <2>2, <2>3, <2>4 DEF Control
<1>4. CASE PwmAlloc
  <2>1. OnbTypeOK'
    BY <1>4 DEF PwmAlloc, OnbTypeOK, FailTo
  <2>2. main_pc = "pwm_alloc" /\ main_pc' \in {"pwm_config", "stop"}
        /\ UNCHANGED <<ob_state, now_speed, fields, duty, fault>>
    BY <1>4 DEF PwmAlloc, FailTo
  <2>3. Motor'
    BY <1>4, <2>2 DEF PwmAlloc, Motor, MotorIsRecorded
  <2>4. Obtained' /\ Begun'
    <3>1. hndl_pwm # "live" /\ ob_state = "INIT" /\ bms_task' = bms_task
      BY <1>4, <2>2 DEF PwmAlloc, Motor
    <3>. QED  BY <2>2, <3>1 DEF Obtained, Begun
  <2>. QED  BY <1>0, <1>4, <2>1, <2>2, <2>3, <2>4 DEF PwmAlloc, Control
<1>5. CASE PwmConfig
  <2>1. OnbTypeOK'
    BY <1>5, OnboardAssumption DEF PwmConfig, OnbTypeOK, FailTo
  <2>2. main_pc = "pwm_config" /\ fields' = fields
        /\ UNCHANGED <<ob_state, now_speed, fault>>
        /\ \/ main_pc' = "task_bms" /\ hndl_pwm' = "live" /\ duty' = 0
           \/ main_pc' = "stop" /\ duty' = duty
    BY <1>5 DEF PwmConfig, FailTo
  <2>3. Motor'
    BY <1>5, <2>2 DEF PwmConfig, Motor, MotorIsRecorded
  <2>4. Obtained' /\ Begun'
    <3>1. hndl_pwm # "live" /\ ob_state = "INIT" /\ bms_task' = bms_task
      BY <1>5, <2>2 DEF PwmConfig, Motor
    <3>. QED  BY <2>2, <3>1 DEF Obtained, Begun
  <2>. QED  BY <1>0, <1>5, <2>1, <2>2, <2>3, <2>4 DEF PwmConfig, Control
<1>6. CASE StartEnd
  <2>1. OnbTypeOK'
    BY <1>6 DEF StartEnd, OnbTypeOK
  <2>2. main_pc = "run" /\ main_pc' = "done" /\ ob_state' = "RUNNING"
        /\ UNCHANGED <<now_speed, fields, hndl_pwm, duty, fault>>
    BY <1>6 DEF StartEnd
  <2>3. Motor'
    BY <1>6, <2>2 DEF StartEnd, Motor, MotorIsRecorded
  <2>4. Obtained' /\ Begun'
    <3>1. bms_task' = bms_task
      BY <1>6 DEF StartEnd
    <3>. QED  BY <2>2, <3>1 DEF Obtained, Begun
  <2>. QED  BY <1>0, <1>6, <2>1, <2>2, <2>3, <2>4 DEF StartEnd, Control
<1>7. CASE OnboardStop
  <2>1. OnbTypeOK'
    BY <1>7, OnboardAssumption DEF OnboardStop, OnbTypeOK
  <2>2. Motor' /\ Obtained' /\ Begun'
    BY <1>7 DEF OnboardStop, Motor, MotorIsRecorded, Obtained, Begun
  <2>. QED  BY <1>0, <1>7, <2>1, <2>2 DEF OnboardStop
<1>. QED  BY <1>0, <1>1, <1>2, <1>3, <1>4, <1>5, <1>6, <1>7 DEF OnbMain

-----------------------------------------------------------------------------
(* app_main and the BMS task.                                              *)

(* A step that leaves the ride and the control service alone, and with     *)
(* them the tables of the control service.                                 *)
LEMMA OnboardStepInv ==
    ASSUME BoardInv, OnbTypeOK', Motor', Obtained', Begun', FaultsHaveCause',
           UNCHANGED <<ble_vars, conn_id>>,
           setter' \in {NoConn, setter},
           ob_state' = "STOPPED" => now_speed' = 0,
           now_speed' # 0 => now_speed' = now_speed /\ setter' = setter
    PROVE  BoardInv'
<1>. USE DEF BoardInv
<1>1. BleInv'
  BY BleNextInv
<1>2. UNCHANGED <<conn_ctx, ble_if, attr_hndl>>
  BY DEF ble_vars, app_vars
<1>3. Control'
  BY <1>2 DEF Control, Listed
<1>4. SetterKnown'
  BY DEF SetterKnown, TypeOK
<1>5. TypeOK'
  BY <1>1 DEF TypeOK, BleInv
<1>. QED  BY <1>1, <1>3, <1>4, <1>5

LEMMA BmsStepInv == ASSUME BoardInv, Runs(BmsStep) PROVE BoardInv'
<1>. USE FieldsAre DEF BoardInv, TypeOK
<1>1. /\ UNCHANGED <<main_pc, ob_state, now_speed, fields, hndl_pwm,
                     duty, ble_vars, svc_vars>>
      /\ fault = "none"
      /\ fault' \in {"none", "task_returned", "bms_null", "ctx_null"}
      /\ bms_task' \in {"none", "new", "poll", "report"}
  BY DEF Runs, BmsStep, BmsEnter, BmsPoll, BmsReport, OnbTypeOK
<1>2. OnbTypeOK'
  BY <1>1 DEF OnbTypeOK
<1>3. Motor'
  BY <1>1 DEF Motor, MotorIsRecorded
<1>4. Obtained'
  BY <1>1 DEF Obtained
<1>5. Begun'
  <2>1. bms_task # "none"
    BY DEF Runs, BmsStep, BmsEnter, BmsPoll, BmsReport
  <2>. QED  BY <1>1, <2>1 DEF Begun
(* What the task uses is missing once the board was stopped, not before.   *)
<1>6. FaultsHaveCause'
  <2>1. has_ctx' = has_ctx
    BY <1>1 DEF ble_vars, app_vars
  <2>2. fault' = "ctx_null" => ~has_ctx["status"]
    BY <1>1 DEF Runs, BmsStep, BmsEnter, BmsPoll, BmsReport
  <2>3. ASSUME fault' \in {"bms_null", "task_returned"}
        PROVE  ob_state = "STOPPED" /\ main_pc = "done"
    <3>1. bms_task # "none"
      BY DEF Runs, BmsStep, BmsEnter, BmsPoll, BmsReport
    <3>2. ob_state = "STOPPED" \/ ~({"bms_stat", "hndl_bms"} \subseteq fields)
      BY <1>1, <2>3 DEF Runs, BmsStep, BmsEnter, BmsPoll, BmsReport
    <3>. QED  BY <3>1, <3>2 DEF Begun
  <2>. QED  BY <1>1, <2>1, <2>2, <2>3 DEF FaultsHaveCause
<1>. QED  BY <1>1, <1>2, <1>3, <1>4, <1>5, <1>6, OnboardStepInv
          DEF svc_vars, Control

-----------------------------------------------------------------------------
(* Steps of the BLE framework that call into no service.                   *)

(* The control service's table is reset by its registration only, and by   *)
(* then no connection can control yet.                                     *)
LEMMA CtrlUnregistered ==
    ASSUME BleInv, boot \in DOMAIN AppOrder, AppOrder[boot] = "ctrl"
    PROVE  ble_if["ctrl"] = NoIf /\ attr_hndl["ctrl"] # "set"
<1>1. "ctrl" \in Apps
  BY BoardAssumption
<1>2. ASSUME ble_if["ctrl"] # NoIf PROVE FALSE
  <2>0. ble_if["ctrl"] \in 1 .. AppsMax
    BY <1>1, <1>2 DEF BleInv, BleTypeOK, Ifs, NoIf
  <2>1. /\ ble_if["ctrl"] - 1 \in 0 .. AppsMax - 1
        /\ apps_list[ble_if["ctrl"] - 1] = "ctrl"
    BY <1>1, <1>2, <2>0, AppFacts DEF BleInv, Interfaces
  <2>2. PICK k \in DOMAIN AppOrder : k < boot /\ AppOrder[k] = "ctrl"
    BY <1>1, <2>1, AppFacts DEF BleInv, AppTable
  <2>3. k = boot
    BY <2>2, BleAssumption
  <2>. QED  BY <2>2, <2>3, AppFacts
<1>3. attr_hndl["ctrl"] # "set"
  BY <1>1, <1>2 DEF BleInv, Interfaces
<1>. QED  BY <1>2, <1>3

(* What a step of the framework has to keep for the control service.       *)
CtrlKept ==
    /\ attr_hndl["ctrl"] = "set" => attr_hndl'["ctrl"] = "set"
    /\ conn_id # NoConn =>
          /\ ble_if["ctrl"] # NoIf => ble_if'["ctrl"] # NoIf
          /\ Listed("ctrl", conn_id) =>
                \E s \in Slots : conn_ctx'["ctrl"][s] = conn_id

LEMMA NoServiceInv ==
    ASSUME BoardInv, fault = "none", BleNext, CtrlKept, NoService
    PROVE  BoardInv'
<1>. USE DEF BoardInv
<1>1. BleInv'
  BY BleNextInv
<1>2. UNCHANGED <<main_pc, ob_state, now_speed, fields, hndl_pwm,
                  bms_task, duty, fault, conn_id, setter>>
  BY DEF NoService, onb_vars, svc_vars
<1>3. TypeOK'
  BY <1>1, <1>2 DEF TypeOK, OnbTypeOK, BleInv
<1>4. Control'
  BY <1>2 DEF Control, CtrlKept, Listed
<1>5. SetterKnown' /\ Motor'
  BY <1>2 DEF SetterKnown, Motor, MotorIsRecorded
<1>6. Obtained' /\ Begun' /\ FaultsHaveCause'
  BY <1>2 DEF Obtained, Begun, FaultsHaveCause
<1>. QED  BY <1>1, <1>3, <1>4, <1>5, <1>6

LEMMA CtrlKeptIf ==
    ASSUME UNCHANGED <<attr_hndl, ble_if, conn_ctx>>
    PROVE  CtrlKept
BY DEF CtrlKept, Listed

LEMMA MainStepInv == ASSUME BoardInv, Runs(MainStep) PROVE BoardInv'
<1>. USE DEF BoardInv, Runs
<1>1. CASE BleMain /\ NoService
  <2>1. CtrlKept
    <3>1. CASE AppsInit \/ RegisterRefused
      BY <3>1, CtrlKeptIf DEF AppsInit, RegisterRefused, app_vars
    <3>2. CASE Register
      <4>1. CASE AppOrder[boot] # "ctrl"
        <5>1. /\ attr_hndl'["ctrl"] = attr_hndl["ctrl"]
              /\ ble_if' = ble_if
              /\ conn_ctx'["ctrl"] = conn_ctx["ctrl"]
          BY <3>2, <4>1, BoardAssumption DEF Register, BleInv, BleTypeOK
        <5>. QED  BY <5>1 DEF CtrlKept, Listed
      <4>2. CASE AppOrder[boot] = "ctrl"
        BY <3>2, <4>2, CtrlUnregistered DEF Register, CtrlKept, Control
      <4>. QED  BY <4>1, <4>2
    <3>. QED  BY <1>1, <3>1, <3>2 DEF BleMain
  <2>. QED  BY <1>1, <2>1, NoServiceInv DEF BleNext
<1>2. CASE /\ OnbMain
           /\ setter' = IF main_pc = "stop" THEN NoConn ELSE setter
           /\ UNCHANGED <<ble_vars, conn_id>>
  <2>1. has_ctx' = has_ctx
    BY <1>2 DEF ble_vars, app_vars
  <2>. QED  BY <1>2, <2>1, OnbMainInv, OnboardStepInv
<1>. QED  BY <1>1, <1>2 DEF MainStep

LEMMA StackStepInv == ASSUME BoardInv, Runs(Stack /\ NoService) PROVE BoardInv'
<1>1. UNCHANGED app_vars
  BY DEF Runs, Stack, LinkUp, LinkDown, StartIf, ClientWrite
<1>2. CtrlKept
  BY <1>1, CtrlKeptIf DEF app_vars
<1>. QED  BY <1>2, NoServiceInv DEF Runs, BleNext

-----------------------------------------------------------------------------
(* The BTC task.                                                           *)

(* An application other than the control service: its events leave the     *)
(* control service's table alone.                                          *)
LEMMA OtherAppKept ==
    ASSUME BleInv, NEW i \in Ifs, NEW a \in Apps \ {"ctrl"},
           \/ TableCreated(i, a) \/ ConnectEvt(i, a) \/ DisconnectEvt(i, a)
    PROVE  CtrlKept
<1>1. /\ attr_hndl'["ctrl"] = attr_hndl["ctrl"]
      /\ ble_if' = ble_if
      /\ conn_ctx'["ctrl"] = conn_ctx["ctrl"]
  BY BoardAssumption
     DEF TableCreated, ConnectEvt, DisconnectEvt, FreeSlot, BleInv, BleTypeOK
<1>. QED  BY <1>1 DEF CtrlKept, Listed

LEMMA BtcRegisterInv ==
    ASSUME BoardInv, fault = "none", NEW i \in Ifs, BtcRegister(i)
    PROVE  BoardInv'
<1>. USE DEF BoardInv, BtcRegister
<1>1. UNCHANGED <<attr_hndl, conn_ctx>>
  BY DEF RegEvt
<1>2. ble_if["ctrl"] # NoIf => ble_if'["ctrl"] # NoIf
  <2>1. i # NoIf /\ "ctrl" \in Apps
    BY AppFacts, BoardAssumption DEF Ifs, NoIf
  <2>2. ble_if \in [Apps -> Ifs \cup {NoIf}]
    BY DEF BleInv, BleTypeOK
  <2>. QED  BY <2>1, <2>2 DEF RegEvt
<1>. QED  BY <1>1, <1>2, NoServiceInv DEF BleNext, CtrlKept, Listed

LEMMA BtcTableInv ==
    ASSUME BoardInv, fault = "none", NEW i \in Ifs, BtcTable(i)
    PROVE  BoardInv'
<1>. USE DEF BoardInv
<1>1. BleNext /\ BleInv'
  BY BleNextInv DEF BtcTable, BleNext, TableEvt
<1>2. CASE TableIgnored(i) /\ NoService
  <2>1. CtrlKept
    BY <1>2, CtrlKeptIf DEF TableIgnored, app_vars
  <2>. QED  BY <1>1, <1>2, <2>1, NoServiceInv
<1>3. ASSUME NEW a \in Apps \ {"ctrl"}, TableCreated(i, a), NoService
      PROVE  BoardInv'
  BY <1>1, <1>3, OtherAppKept, NoServiceInv
<1>4. CASE TableCreated(i, "ctrl") /\ CtrlInit
  <2>1. "ctrl" \in Apps
    BY BoardAssumption
  (* The handles were not known before, so no speed was set.               *)
  <2>2. attr_hndl["ctrl"] # "set"
    BY <1>4, <2>1 DEF TableCreated, Serves, BleInv, Interfaces
  <2>3. now_speed = 0
    BY <2>2 DEF Control
  <2>4. /\ conn_id' = NoConn
        /\ UNCHANGED <<main_pc, ob_state, now_speed, fields, hndl_pwm,
                       bms_task, duty, fault, setter>>
    BY <1>4 DEF CtrlInit, onb_vars
  <2>5. TypeOK'
    BY <1>1, <2>4 DEF TypeOK, OnbTypeOK, BleInv
  <2>6. Control' /\ SetterKnown' /\ Motor'
    BY <2>3, <2>4 DEF Control, SetterKnown, Motor, MotorIsRecorded
  <2>7. Obtained' /\ Begun' /\ FaultsHaveCause'
    BY <2>4 DEF Obtained, Begun, FaultsHaveCause
  <2>. QED  BY <1>1, <2>5, <2>6, <2>7
<1>. QED  BY <1>2, <1>3, <1>4 DEF BtcTable

LEMMA BtcConnectInv ==
    ASSUME BoardInv, fault = "none", NEW i \in Ifs, BtcConnect(i)
    PROVE  BoardInv'
<1>. USE DEF BoardInv
<1>1. BleNext /\ BleInv'
  BY BleNextInv DEF BtcConnect, BleNext, QueueEvt
<1>2. ASSUME NEW a \in Apps, ConnectFull(i, a), NoService PROVE BoardInv'
  <2>1. CtrlKept
    BY <1>2, CtrlKeptIf DEF ConnectFull, app_vars
  <2>. QED  BY <1>1, <1>2, <2>1, NoServiceInv
<1>3. ASSUME NEW a \in Apps \ {"ctrl"}, ConnectEvt(i, a), NoService
      PROVE  BoardInv'
  BY <1>1, <1>3, OtherAppKept, NoServiceInv
<1>4. CASE ConnectEvt(i, "ctrl") /\ CtrlConnAdd(Conn)
  <2>1. /\ conn_ctx \in [Apps -> [Slots -> ConnIds \cup {Free}]]
        /\ conn_id \in ConnIds \cup {NoConn} /\ "ctrl" \in Apps
        /\ \A c \in ConnIds : c >= 0
    BY BoardAssumption, BleAssumption DEF TypeOK, BleTypeOK
  <2>2. PICK s \in Slots :
           /\ conn_ctx["ctrl"][s] = Free
           /\ conn_ctx' = [conn_ctx EXCEPT !["ctrl"][s] = Conn]
    BY <1>4 DEF ConnectEvt, FirstSlot
  <2>3. Conn \in ConnIds
    <3>1. evq # <<>> /\ evq \in Seq(Event)
      BY <1>4 DEF ConnectEvt, Arrives, BleInv, BleTypeOK
    <3>2. Head(evq) \in Event
      BY <3>1, TailType
    <3>. QED  BY <3>2 DEF Event, Conn
  <2>4. /\ conn_id' = IF conn_id > 0 THEN conn_id ELSE Conn
        /\ UNCHANGED <<main_pc, ob_state, now_speed, fields, hndl_pwm,
                       bms_task, duty, fault, setter>>
    BY <1>4 DEF CtrlConnAdd, Controller, onb_vars
  <2>5. UNCHANGED <<attr_hndl, ble_if>> /\ ble_if["ctrl"] # NoIf
    BY <1>4 DEF ConnectEvt, Serves, Ifs, NoIf
  <2>6. /\ conn_ctx'["ctrl"][s] = Conn
        /\ \A r \in Slots \ {s} : conn_ctx'["ctrl"][r] = conn_ctx["ctrl"][r]
    BY <2>1, <2>2
  <2>7. conn_id' # NoConn /\ conn_id' \in ConnIds
    BY <2>1, <2>3, <2>4
  <2>8. Listed("ctrl", conn_id)'
    <3>1. CASE conn_id' = Conn
      BY <2>6, <3>1 DEF Listed
    <3>2. CASE conn_id' # Conn
      <4>1. conn_id' = conn_id /\ conn_id # NoConn
        BY <2>4, <2>7, <3>2
      <4>2. PICK r \in Slots : conn_ctx["ctrl"][r] = conn_id
        BY <4>1 DEF Control, Listed
      <4>3. r # s
        BY <2>2, <4>1, <4>2 DEF Free
      <4>. QED  BY <2>6, <4>1, <4>2, <4>3 DEF Listed
    <3>. QED  BY <3>1, <3>2
  <2>9. Control'
    BY <2>4, <2>5, <2>7, <2>8 DEF Control
  <2>10. SetterKnown'
    <3>. SUFFICES ASSUME now_speed # 0, setter # 0 PROVE setter = conn_id'
      BY <2>4 DEF SetterKnown
    <3>1. conn_id \in ConnIds /\ conn_id # 0
      BY <2>1 DEF SetterKnown, Control
    <3>2. conn_id > 0
      BY <3>1, BleAssumption
    <3>. QED  BY <2>4, <3>2 DEF SetterKnown
  <2>11. TypeOK'
    BY <1>1, <2>4, <2>7 DEF TypeOK, OnbTypeOK, BleInv
  <2>12. Motor' /\ Obtained' /\ Begun' /\ FaultsHaveCause'
    BY <2>4 DEF Motor, MotorIsRecorded, Obtained, Begun, FaultsHaveCause
  <2>. QED  BY <1>1, <2>9, <2>10, <2>11, <2>12
<1>. QED  BY <1>2, <1>3, <1>4 DEF BtcConnect

LEMMA BtcDisconnectInv ==
    ASSUME BoardInv, fault = "none", NEW i \in Ifs, BtcDisconnect(i)
    PROVE  BoardInv'
<1>. USE DEF BoardInv
<1>1. BleNext /\ BleInv'
  BY BleNextInv DEF BtcDisconnect, BleNext, QueueEvt
<1>2. ASSUME NEW a \in Apps \ {"ctrl"}, DisconnectEvt(i, a), NoService
      PROVE  BoardInv'
  BY <1>1, <1>2, OtherAppKept, NoServiceInv
<1>3. CASE DisconnectEvt(i, "ctrl") /\ CtrlConnDel(Conn)
  <2>1. /\ conn_ctx \in [Apps -> [Slots -> ConnIds \cup {Free}]]
        /\ "ctrl" \in Apps
    BY BoardAssumption DEF TypeOK, BleTypeOK
  <2>2. PICK s \in Slots :
           /\ conn_ctx["ctrl"][s] = Conn
           /\ conn_ctx' = [conn_ctx EXCEPT !["ctrl"][s] = Free]
    BY <1>3 DEF DisconnectEvt, FirstSlot, FreeSlot
  <2>3. UNCHANGED <<attr_hndl, ble_if, has_ctx>>
    BY <1>3 DEF DisconnectEvt
  (* Another connection's slot is freed: the controller keeps its own.     *)
  <2>4. CASE Conn # conn_id
    <3>1. \A r \in Slots : conn_ctx["ctrl"][r] = conn_id =>
             conn_ctx'["ctrl"][r] = conn_id
      BY <2>1, <2>2, <2>4
    <3>2. CtrlKept
      BY <2>3, <3>1 DEF CtrlKept, Listed
    <3>3. NoService
      BY <1>3, <2>4 DEF CtrlConnDel, NoService
    <3>. QED  BY <1>1, <3>2, <3>3, NoServiceInv
  (* The controller leaves: the speed is reset with it.                    *)
  <2>5. CASE Conn = conn_id
    <3>1. conn_id' = NoConn /\ SetSpeed(0) /\ setter' = NoConn
      BY <1>3, <2>5 DEF CtrlConnDel
    <3>2. /\ OnbTypeOK' /\ Motor' /\ Obtained' /\ Begun' /\ FaultsHaveCause'
          /\ ob_state' = ob_state /\ now_speed' = 0
      BY <2>3, <3>1, OnboardAssumption, SetSpeedInv DEF Control
    <3>3. TypeOK'
      BY <1>1, <3>1, <3>2 DEF TypeOK, BleInv
    <3>4. Control' /\ SetterKnown'
      BY <3>1, <3>2 DEF Control, SetterKnown
    <3>. QED  BY <1>1, <3>2, <3>3, <3>4
  <2>. QED  BY <2>4, <2>5
<1>. QED  BY <1>2, <1>3 DEF BtcDisconnect

LEMMA BtcWriteInv ==
    ASSUME BoardInv, fault = "none", NEW i \in Ifs, BtcWrite(i)
    PROVE  BoardInv'
<1>. USE DEF BoardInv
<1>1. PICK a \in Apps :
         /\ WriteEvt(i, a)
         /\ IF a = "ctrl" THEN CtrlConnWrite(Conn, Head(evq).data)
                          ELSE NoService
  BY DEF BtcWrite
<1>2. BleNext /\ BleInv'
  BY <1>1, BleNextInv DEF BleNext, QueueEvt
<1>3. UNCHANGED <<attr_hndl, ble_if, conn_ctx, has_ctx>>
  BY <1>1 DEF WriteEvt, app_vars
<1>4. CASE NoService
  BY <1>2, <1>3, <1>4, CtrlKeptIf, NoServiceInv
<1>5. CASE a = "ctrl" /\ ~NoService
  <2>. DEFINE p == Head(evq).data
  <2>1. p \in Payloads /\ Conn \in ConnIds
    <3>1. evq # <<>> /\ evq \in Seq(Event) /\ Head(evq).evt = "write"
      BY <1>1 DEF WriteEvt, Arrives, BleInv, BleTypeOK
    <3>2. Head(evq) \in Event
      BY <3>1, TailType
    <3>. QED  BY <3>1, <3>2 DEF Event, Conn
  <2>2. /\ conn_id = Conn /\ SetSpeed(p.val) /\ conn_id' = conn_id
        /\ setter' = IF ob_state = "STOPPED" THEN setter ELSE Conn
    BY <1>1, <1>5 DEF CtrlConnWrite, NoService
  <2>3. p.val \in Speeds
    BY <2>1, BoardAssumption
  <2>4. /\ OnbTypeOK' /\ Motor' /\ Obtained' /\ Begun' /\ FaultsHaveCause'
        /\ ob_state' = ob_state
        /\ IF ob_state = "STOPPED" THEN now_speed' = now_speed
                                   ELSE now_speed' = p.val
    BY <1>3, <2>2, <2>3, SetSpeedInv
  <2>5. TypeOK'
    BY <1>2, <2>1, <2>2, <2>4 DEF TypeOK, BleInv
  <2>6. attr_hndl["ctrl"] = "set" /\ conn_id # NoConn
    BY <1>1, <1>5, <2>1, <2>2, BleAssumption DEF WriteEvt
  <2>7. Control'
    BY <1>3, <2>2, <2>4, <2>6 DEF Control, Listed
  <2>8. SetterKnown'
    BY <2>2, <2>4 DEF SetterKnown, Control
  <2>. QED  BY <1>2, <2>4, <2>5, <2>7, <2>8
<1>. QED  BY <1>1, <1>4, <1>5

LEMMA BtcDropInv ==
    ASSUME BoardInv, fault = "none", NEW i \in Ifs, BtcDrop(i)
    PROVE  BoardInv'
<1>1. BleNext
  BY DEF BtcDrop, BleNext, QueueEvt
<1>2. UNCHANGED app_vars
  BY DEF BtcDrop, EvtIgnored, UnlistedEvt
<1>. QED  BY <1>1, <1>2, CtrlKeptIf, NoServiceInv DEF BtcDrop, app_vars

-----------------------------------------------------------------------------
(* A restart is a fresh boot.                                              *)
LEMMA RebootInv == ASSUME Reboot PROVE Init'
BY DEF Reboot, Init, BleInit, OnbInit

LEMMA InitInvPrimed == ASSUME Init' PROVE BoardInv'
BY InitInv, PTL

LEMMA NextInv == ASSUME BoardInv, [Next]_board_vars PROVE BoardInv'
<1>1. CASE UNCHANGED board_vars
  <2>1. UNCHANGED <<ble_vars, onb_vars, svc_vars>>
    BY <1>1 DEF board_vars
  <2>2. BleInv'
    BY <2>1, BleNextInv DEF BoardInv
  <2>. QED  BY <2>1, <2>2
       DEF ble_vars, app_vars, onb_vars, svc_vars, BoardInv, TypeOK, BleInv,
           OnbTypeOK, Control, Listed, SetterKnown, Motor, MotorIsRecorded,
           Obtained, Begun, FaultsHaveCause
<1>2. CASE Reboot
  BY <1>2, RebootInv, InitInvPrimed
<1>3. ASSUME NEW i \in Ifs, Runs(BtcRegister(i) \/ BtcTable(i) \/ BtcEvent(i))
      PROVE  BoardInv'
  BY <1>3, BtcRegisterInv, BtcTableInv, BtcConnectInv, BtcDisconnectInv,
     BtcWriteInv, BtcDropInv
     DEF Runs, BtcEvent
<1>. QED  BY <1>1, <1>2, <1>3, MainStepInv, StackStepInv, BmsStepInv DEF Next

-----------------------------------------------------------------------------
(* The board's inductive invariant.                                        *)
THEOREM BoardInvariance == Spec => []BoardInv
<1>. QED  BY InitInv, NextInv, PTL DEF Spec

(* Every variable keeps its type: the connection tables only hold -1 or    *)
(* connection identifiers, application identifiers stay below AppsMax.     *)
THEOREM TypeCorrect == Spec => []TypeOK
<1>1. BoardInv => TypeOK
  BY DEF BoardInv
<1>. QED  BY <1>1, BoardInvariance, PTL

(* The speed is not zero only while a connection controls the board, and   *)
(* the framework lists that connection for the control service.            *)
THEOREM DriveNeedsControllerHolds == Spec => []DriveNeedsController
<1>1. BoardInv => DriveNeedsController
  BY DEF BoardInv, Control, DriveNeedsController
<1>. QED  BY <1>1, BoardInvariance, PTL

(* A speed set by a connection other than 0 stays in its hands.            *)
THEOREM SetterStaysHolds == Spec => []SetterStays
<1>1. BoardInv => SetterStays
  BY DEF BoardInv, Control, SetterKnown, SetterStays
<1>. QED  BY <1>1, BoardInvariance, PTL

(* The motor turns at the recorded speed, or the board was stopped.        *)
THEOREM MotorIsRecordedHolds == Spec => []MotorIsRecorded
<1>1. BoardInv => MotorIsRecorded
  BY DEF BoardInv, Motor
<1>. QED  BY <1>1, BoardInvariance, PTL

(* A board that crashes does so in a start or after one that failed, or    *)
(* because its status service was not registered: a speed meets a NULL     *)
(* handle before there is a BMS task, the BMS task misses something after  *)
(* esk8_onboard_stop or walks a connection list that was never obtained.   *)
THEOREM FaultsHaveCauseHolds == Spec => []FaultsHaveCause
<1>1. BoardInv => FaultsHaveCause
  BY DEF BoardInv
<1>. QED  BY <1>1, BoardInvariance, PTL

-----------------------------------------------------------------------------
(* The connections of the board: a step of the board is a step of the      *)
(* framework, or a restart that finds the framework as BleInit does.       *)
LEMMA BleSteps == ASSUME [Next]_board_vars, ~Reboot PROVE [BleNext]_ble_vars
<1>1. CASE UNCHANGED board_vars
  BY <1>1 DEF board_vars
<1>2. CASE Runs(MainStep)
  BY <1>2 DEF Runs, MainStep, BleNext
<1>3. CASE Runs(Stack /\ NoService)
  BY <1>3 DEF Runs, BleNext
<1>4. ASSUME NEW i \in Ifs, Runs(BtcRegister(i) \/ BtcTable(i) \/ BtcEvent(i))
      PROVE  BleNext
  <2>1. RegEvt(i) \/ TableEvt(i) \/ QueueEvt(i)
    BY <1>4, BoardAssumption, Zenon
       DEF Runs, BtcRegister, BtcTable, BtcEvent, BtcConnect, BtcDisconnect,
           BtcWrite, BtcDrop, TableEvt, QueueEvt
  <2>. QED  BY <2>1 DEF BleNext
<1>5. CASE Runs(BmsStep)
  BY <1>5 DEF Runs, BmsStep
<1>. QED  BY <1>1, <1>2, <1>3, <1>4, <1>5 DEF Next

LEMMA LinkInitPrimed == ASSUME BleInit' PROVE LinkInv'
BY LinkInitInv, PTL

(* The invariant of the connection tables survives the callbacks of the    *)
(* services and the panics: no application of a board lists a connection   *)
(* twice, keeps one that is gone, or strands one that is up.               *)
THEOREM BoardLinkInvariance == Spec => []LinkInv
<1>1. Init => LinkInv
  BY LinkInitInv DEF Init
<1>2. ASSUME LinkInv, [Next]_board_vars PROVE LinkInv'
  <2>1. CASE Reboot
    <3>1. BleInit'
      BY <2>1, RebootInv DEF Init
    <3>. QED  BY <3>1, LinkInitPrimed
  <2>2. CASE ~Reboot
    BY <1>2, <2>2, BleSteps, LinkNext
  <2>. QED  BY <2>1, <2>2
<1>. QED  BY <1>1, <1>2, PTL DEF Spec

(* A speed that is not zero belongs to a link that is up and known to the  *)
(* control service's interface, or whose disconnection is queued for it.   *)
THEOREM DriverIsKnownHolds == Spec => []DriverIsKnown
<1>1. ASSUME BoardInv, LinkInv PROVE DriverIsKnown
  <2>. SUFFICES ASSUME now_speed # 0
                PROVE  \E i \in Ifs :
                          /\ Serves("ctrl", i)
                          /\ \/ conn_id \in links \cap told[i]
                             \/ Pending("disconnect", i, conn_id)
    BY DEF DriverIsKnown
  <2>1. conn_id # Free /\ Listed("ctrl", conn_id)
    BY <1>1 DEF BoardInv, Control, Free
  <2>2. PICK s \in Slots : conn_ctx["ctrl"][s] = conn_id
    BY <2>1 DEF Listed
  <2>3. PICK i \in Ifs : /\ Serves("ctrl", i)
                         /\ conn_id \in told[i] \/ Pending("disconnect", i, conn_id)
    BY <1>1, <2>1, <2>2, BoardAssumption DEF LinkInv, ListedIsKnown
  <2>4. told[i] \subseteq links
    BY <1>1 DEF LinkInv, ToldOnceReady
  <2>. QED  BY <2>3, <2>4
<1>. QED  BY <1>1, BoardInvariance, BoardLinkInvariance, PTL

-----------------------------------------------------------------------------
(* What a step does to the controller and the speed.                       *)

LEMMA SetSpeedEffect ==
    ASSUME BoardInv, NEW v \in Speeds, SetSpeed(v)
    PROVE  now_speed' = now_speed \/ now_speed' = v
BY DEF SetSpeed

LEMMA StepRefines ==
    ASSUME BoardInv, [Next]_board_vars
    PROVE  [Authority!AuthNext]_(Authority!auth_vars)
<1>. USE DEF Authority!AuthNext, Authority!auth_vars, Authority!NoOwner,
             Authority!Acquire, Authority!Drive, Authority!Release,
             Authority!Halt
<1>1. CASE UNCHANGED board_vars
  BY <1>1 DEF board_vars, onb_vars, svc_vars
<1>2. CASE Reboot
  BY <1>2 DEF Reboot
<1>3. ASSUME Runs(MainStep) PROVE [Authority!AuthNext]_(Authority!auth_vars)
  <2>1. CASE NoService
    BY <2>1 DEF NoService, onb_vars, svc_vars
  <2>2. CASE OnbMain /\ UNCHANGED <<ble_vars, conn_id>>
    <3>1. has_ctx' = has_ctx
      BY <2>2 DEF ble_vars, app_vars
    <3>2. now_speed' \in {0, now_speed}
      BY <1>3, <2>2, <3>1, OnbMainInv DEF Runs
    <3>. QED  BY <2>2, <3>2
  <2>. QED  BY <1>3, <2>1, <2>2 DEF Runs, MainStep
<1>4. ASSUME Runs(Stack /\ NoService)
      PROVE  [Authority!AuthNext]_(Authority!auth_vars)
  BY <1>4 DEF Runs, NoService, onb_vars, svc_vars
<1>5. ASSUME Runs(BmsStep) PROVE [Authority!AuthNext]_(Authority!auth_vars)
  BY <1>5 DEF Runs, BmsStep, BmsEnter, BmsPoll, BmsReport, svc_vars
<1>6. ASSUME NEW i \in Ifs,
             Runs(BtcRegister(i) \/ BtcTable(i) \/ BtcEvent(i))
      PROVE  [Authority!AuthNext]_(Authority!auth_vars)
  <2>0. /\ conn_id \in ConnIds \cup {NoConn}
        /\ \A c \in ConnIds : c >= 0
    BY BleAssumption DEF BoardInv, TypeOK
  <2>1. CASE NoService
    BY <2>1 DEF NoService, onb_vars, svc_vars
  (* The late app_init finds the speed at zero.                            *)
  <2>2. CASE TableCreated(i, "ctrl") /\ CtrlInit
    <3>1. attr_hndl["ctrl"] # "set"
      BY <2>2, BoardAssumption
         DEF BoardInv, BleInv, Interfaces, TableCreated, Serves
    <3>2. now_speed = 0
      BY <3>1 DEF BoardInv, Control
    <3>. QED  BY <2>2, <3>2 DEF CtrlInit, onb_vars
  <2>3. CASE ConnectEvt(i, "ctrl") /\ CtrlConnAdd(Conn)
    <3>1. Conn \in ConnIds
      <4>1. evq # <<>> /\ evq \in Seq(Event)
        BY <2>3 DEF ConnectEvt, Arrives, BoardInv, BleInv, BleTypeOK
      <4>2. Head(evq) \in Event
        BY <4>1, TailType
      <4>. QED  BY <4>2 DEF Event, Conn
    <3>2. now_speed' = now_speed
      BY <2>3 DEF CtrlConnAdd, Controller, onb_vars
    <3>3. conn_id' = IF conn_id > 0 THEN conn_id ELSE Conn
      BY <2>3 DEF CtrlConnAdd, Controller
    <3>4. conn_id > 0 \/ conn_id \in {NoConn, 0}
      BY <2>0, BleAssumption
    <3>5. CASE conn_id > 0
      BY <3>2, <3>3, <3>5
    <3>6. CASE conn_id \in {NoConn, 0}
      <4>1. conn_id' = Conn
        BY <3>3, <3>6
      <4>. QED  BY <3>1, <3>2, <3>6, <4>1
    <3>. QED  BY <3>4, <3>5, <3>6
  <2>4. CASE DisconnectEvt(i, "ctrl") /\ CtrlConnDel(Conn) /\ ~NoService
    <3>1. conn_id' = NoConn /\ SetSpeed(0)
      BY <2>4 DEF CtrlConnDel, NoService
    <3>2. now_speed' = 0
      BY <3>1 DEF SetSpeed, BoardInv, Control
    <3>. QED  BY <3>1, <3>2
  <2>5. CASE WriteEvt(i, "ctrl") /\ CtrlConnWrite(Conn, Head(evq).data)
             /\ ~NoService
    <3>. DEFINE p == Head(evq).data
    <3>1. p \in Payloads /\ Conn \in ConnIds
      <4>1. evq # <<>> /\ evq \in Seq(Event) /\ Head(evq).evt = "write"
        BY <2>5 DEF WriteEvt, Arrives, BoardInv, BleInv, BleTypeOK
      <4>2. Head(evq) \in Event
        BY <4>1, TailType
      <4>. QED  BY <4>1, <4>2 DEF Event, Conn
    <3>2. /\ conn_id = Conn /\ conn_id' = conn_id /\ SetSpeed(p.val)
      BY <2>5 DEF CtrlConnWrite, NoService
    <3>3. p.val \in Speeds
      BY <3>1, BoardAssumption
    <3>4. now_speed' = now_speed \/ now_speed' = p.val
      BY <3>2, <3>3, SetSpeedEffect
    <3>5. conn_id # NoConn
      BY <2>0, <3>1, <3>2
    <3>. QED  BY <3>2, <3>3, <3>4, <3>5
  <2>6. \/ NoService
        \/ TableCreated(i, "ctrl") /\ CtrlInit
        \/ ConnectEvt(i, "ctrl") /\ CtrlConnAdd(Conn)
        \/ DisconnectEvt(i, "ctrl") /\ CtrlConnDel(Conn)
        \/ WriteEvt(i, "ctrl") /\ CtrlConnWrite(Conn, Head(evq).data)
    BY <1>6, Zenon
       DEF Runs, BtcRegister, BtcTable, BtcEvent, BtcConnect, BtcDisconnect,
           BtcWrite, BtcDrop
  <2>. QED  BY <2>1, <2>2, <2>3, <2>4, <2>5, <2>6, Zenon
<1>. QED  BY <1>1, <1>2, <1>3, <1>4, <1>5, <1>6 DEF Next

(* Every behaviour of the board is one of SpeedAuthority: a connection     *)
(* takes the authority from nobody but connection 0, only the owner moves  *)
(* the speed, and the speed is zero when the owner has left.               *)
THEOREM BoardImplementsAuthority == Spec => ImplementsAuthority
<1>1. Init => Authority!AuthInit
  BY DEF Init, OnbInit, Authority!AuthInit, Authority!NoOwner
<1>. QED
  BY <1>1, StepRefines, BoardInvariance, PTL
     DEF Spec, ImplementsAuthority, Authority!AuthSpec

-----------------------------------------------------------------------------
(* What a step does to a controller whose disconnection is queued.         *)
Leaving(i) == /\ now_speed # 0 /\ conn_id # 0
              /\ Serves("ctrl", i) /\ Pending("disconnect", i, conn_id)

(* The queue keeps the disconnection, unless the step delivers it.         *)
LEMMA DisconnectionStays ==
    ASSUME evq \in Seq(Event), evq # <<>>, conn_id' = conn_id,
           NEW i \in Ifs, Pending("disconnect", i, conn_id),
           NEW j \in Ifs, j \in Head(evq).to, Consume(j)
    PROVE  \/ Pending("disconnect", i, conn_id)'
           \/ i = j /\ Arrives("disconnect", i) /\ Conn = conn_id
<1>1. PICK n \in DOMAIN evq : Comes("disconnect", n, i, conn_id)
  BY DEF Pending
<1>2. CASE n = 1 /\ i = j
  BY <1>1, <1>2 DEF Comes, About, Arrives, Conn
<1>3. CASE ~(n = 1 /\ i = j)
  <2>. DEFINE c == conn_id
  <2>1. PICK s \in {0, 1} : \A kind, m, k, d :
           Comes(kind, m, k, d) /\ ~(m = 1 /\ k = j) =>
              m - s \in DOMAIN evq' /\ Comes(kind, m - s, k, d)'
    BY ConsumeComes
  <2>2. n - s \in DOMAIN evq' /\ i \in (evq'[n - s]).to
        /\ (evq'[n - s]).evt = "disconnect" /\ (evq'[n - s]).conn = conn_id
    BY <1>1, <1>3, <2>1 DEF Comes, About
  <2>. QED  BY <2>2 DEF Pending, Comes, About
<1>. QED  BY <1>2, <1>3

LEMMA LeavingStays ==
    ASSUME NEW i \in Ifs, Leaving(i), conn_id' = conn_id,
           evq \in Seq(Event),
           evq' = evq \/ \E e \in Event : evq' = Append(evq, e)
    PROVE  Pending("disconnect", i, conn_id)'
<1>1. PICK n \in DOMAIN evq : Comes("disconnect", n, i, conn_id)
  BY DEF Leaving, Pending
<1>2. n \in DOMAIN evq' /\ evq'[n] = evq[n]
  OBVIOUS
<1>. QED  BY <1>1, <1>2 DEF Pending, Comes, About

LEMMA EventStops ==
    ASSUME BoardInv, NEW i \in Ifs, Leaving(i), NEW j \in Ifs, Runs(BtcEvent(j))
    PROVE  \/ now_speed' = 0
           \/ conn_id' = conn_id /\ Pending("disconnect", i, conn_id)'
<1>. USE DEF Leaving
<1>1. /\ evq \in Seq(Event) /\ evq # <<>>
      /\ j \in Head(evq).to /\ Consume(j)
  BY DEF Runs, BtcEvent, BtcConnect, BtcDisconnect, BtcWrite, BtcDrop, Arrives,
         ConnectEvt, ConnectFull, DisconnectEvt, WriteEvt, EvtIgnored,
         UnlistedEvt, BoardInv, BleInv, BleTypeOK
(* Nobody takes the role of a controller other than 0.                     *)
<1>2. conn_id > 0 /\ conn_id # NoConn /\ Listed("ctrl", conn_id)
  BY BleAssumption DEF BoardInv, TypeOK, Control
<1>3. CASE conn_id' # conn_id
  <2>1. CtrlConnDel(Conn)
    BY <1>2, <1>3
       DEF Runs, BtcEvent, BtcConnect, BtcDisconnect, BtcWrite, BtcDrop,
           NoService, svc_vars, CtrlConnAdd, Controller, CtrlConnWrite
  <2>. QED  BY <1>3, <2>1
            DEF CtrlConnDel, svc_vars, SetSpeed, BoardInv,
                Control
<1>4. CASE conn_id' = conn_id /\ ~Pending("disconnect", i, conn_id)'
  <2>1. i = j /\ Arrives("disconnect", i) /\ Conn = conn_id
    BY <1>1, <1>4, DisconnectionStays
  (* The application is the control service, which lists the connection.   *)
  <2>2. \A a \in Apps : Serves(a, i) => a = "ctrl"
    BY InterfacesApart, BoardAssumption, AppFacts
       DEF BoardInv, OneAppPerInterface, Serves, Ifs, NoIf
  <2>3. PICK a \in Apps : /\ DisconnectEvt(i, a)
                          /\ IF a = "ctrl" THEN CtrlConnDel(Conn) ELSE NoService
    BY <1>2, <2>1, <2>2, BoardAssumption
       DEF Runs, BtcEvent, BtcConnect, BtcDisconnect, BtcWrite, BtcDrop, Arrives,
           ConnectEvt, ConnectFull, WriteEvt, EvtIgnored, Orphan, UnlistedEvt
  <2>4. CtrlConnDel(Conn)
    BY <2>2, <2>3 DEF DisconnectEvt
  <2>. QED  BY <2>1, <2>4
            DEF CtrlConnDel, SetSpeed, BoardInv, Control
<1>. QED  BY <1>3, <1>4

LEMMA StepStops ==
    ASSUME BoardInv, [Next]_board_vars, NEW i \in Ifs, Leaving(i)
    PROVE  \/ now_speed' = 0
           \/ conn_id' = conn_id /\ Pending("disconnect", i, conn_id)'
<1>0. evq \in Seq(Event)
  BY DEF BoardInv, BleInv, BleTypeOK
<1>1. CASE UNCHANGED board_vars
  <2>1. evq' = evq /\ conn_id' = conn_id
    BY <1>1 DEF board_vars, ble_vars, stack_vars, svc_vars
  <2>. QED  BY <1>0, <2>1, LeavingStays
<1>2. CASE Reboot
  BY <1>2 DEF Reboot
<1>3. CASE Runs(MainStep) \/ Runs(BmsStep)
  <2>1. evq' = evq /\ conn_id' = conn_id
    BY <1>3 DEF Runs, MainStep, BmsStep, BleMain, AppsInit, RegisterRefused,
                Register, NoService, ble_vars, stack_vars, svc_vars
  <2>. QED  BY <1>0, <2>1, LeavingStays
<1>4. CASE Runs(Stack /\ NoService)
  <2>1. conn_id' = conn_id
    BY <1>4 DEF Runs, NoService, svc_vars
  <2>2. evq' = evq \/ \E e \in Event : evq' = Append(evq, e)
    BY <1>4 DEF Runs, Stack, LinkUp, LinkDown, StartIf, ClientWrite, Event
  <2>. QED  BY <1>0, <2>1, <2>2, LeavingStays
<1>5. ASSUME NEW j \in Ifs, Runs(BtcRegister(j) \/ BtcTable(j))
      PROVE  Pending("disconnect", i, conn_id)' /\ conn_id' = conn_id
  <2>1. evq' = evq
    BY <1>5 DEF Runs, BtcRegister, BtcTable, RegEvt, TableIgnored, TableCreated
  (* A speed was set, so the control service has its handles.              *)
  <2>2. ~TableCreated(j, "ctrl")
    BY BoardAssumption
       DEF BoardInv, BleInv, Interfaces, Control, Leaving, TableCreated, Serves
  <2>3. conn_id' = conn_id
    BY <1>5, <2>2 DEF Runs, BtcRegister, BtcTable, NoService, svc_vars
  <2>. QED  BY <1>0, <2>1, <2>3, LeavingStays
<1>6. ASSUME NEW j \in Ifs, Runs(BtcEvent(j))
      PROVE  \/ now_speed' = 0
             \/ conn_id' = conn_id /\ Pending("disconnect", i, conn_id)'
  BY <1>6, EventStops
<1>. QED  BY <1>1, <1>2, <1>3, <1>4, <1>5, <1>6 DEF Next, Runs

(* A controller other than 0 that is gone stops the ride: its disconnection*)
(* is neither lost nor overtaken, and its delivery zeroes the speed.       *)
THEOREM DriverIsStoppedHolds == Spec => DriverIsStopped
<1>1. BoardInv /\ [Next]_board_vars =>
        [ \A i \in Ifs :
             /\ now_speed # 0 /\ conn_id # 0
             /\ Serves("ctrl", i) /\ Pending("disconnect", i, conn_id)
             => \/ now_speed' = 0
                \/ conn_id' = conn_id /\ Pending("disconnect", i, conn_id)'
        ]_board_vars
  BY StepStops DEF Leaving
<1>. QED  BY <1>1, BoardInvariance, PTL DEF Spec, DriverIsStopped
=============================================================================
