------------------------------- MODULE Board -------------------------------
(***************************************************************************)
(* The board: app_main (main/src/main/app_main.c), the BLE framework       *)
(* (BleApps), the ride state and the motor (Onboard), and the services     *)
(* that tie them together: the control service, which lets one connection  *)
(* set the speed (app_ble_srvc_ctrl.c), and the status service, which the  *)
(* BMS task reports to (app_ble_srvc_status.c).                            *)
(*                                                                         *)
(* Every step of BleApps that calls into a service is conjoined here with  *)
(* what the callback does; callbacks run inside the BTC event handler, to  *)
(* their end, while app_main and the BMS task may stand at any step.       *)
(***************************************************************************)
EXTENDS BleApps, Onboard

ASSUME BoardAssumption ==
    /\ {"ctrl", "status"} \subseteq Apps
    /\ \A p \in Payloads : p.val \in Speeds

VARIABLES
    conn_id,  \* app_ble_srvc_ctrl.c: the controlling connection, or -1
    setter    \* history: the connection that set now_speed, or -1

NoConn == -1

svc_vars   == <<conn_id, setter>>
board_vars == <<ble_vars, onb_vars, svc_vars>>

TypeOK ==
    /\ BleTypeOK
    /\ OnbTypeOK
    /\ conn_id \in ConnIds \cup {NoConn}
    /\ setter \in ConnIds \cup {NoConn}

Init ==
    /\ BleInit
    /\ OnbInit
    /\ conn_id = NoConn
    /\ setter = NoConn

-----------------------------------------------------------------------------
(* Callbacks of the control service set the speed.  What that tells the    *)
(* status service changes nothing here: calls to the stack, queued behind  *)
(* the callback, or none while it has no connection list.                  *)

(* The control service.  (A slip: its conn_id is unsigned.)                *)
CtrlInitUnsigned == conn_id' = 65535 /\ UNCHANGED <<onb_vars, setter>>
CtrlInit ==
    /\ conn_id' = NoConn
    /\ UNCHANGED <<onb_vars, setter>>

(* The first connection controls; identifier 0 does not keep the role.  (A *)
(* slip: the last connection controls.)                                    *)
ControllerLast(c) == c
Controller(c) == IF conn_id > 0 THEN conn_id ELSE c

CtrlConnAdd(c) ==
    /\ conn_id' = Controller(c)
    /\ UNCHANGED <<onb_vars, setter>>

(* "Controller disconnected. Resetting speed."                             *)
CtrlConnDelOnly(c) ==   \* a slip: the role is given up, the speed stays
    /\ conn_id' = IF c = conn_id THEN NoConn ELSE conn_id
    /\ UNCHANGED <<onb_vars, setter>>
CtrlConnDel(c) ==
    IF c # conn_id
    THEN UNCHANGED <<onb_vars, svc_vars>>
    ELSE /\ conn_id' = NoConn
         /\ SetSpeed(0)
         /\ setter' = NoConn

(* Only one byte written to the speed characteristic by the controller     *)
(* counts.                                                                 *)
CtrlConnWrite(c, p) ==
    IF p.attr = "speed" /\ p.len = 1 /\ conn_id = c
    THEN /\ SetSpeed(p.val)
         /\ setter' = IF ob_state = "STOPPED" THEN setter ELSE c
         /\ UNCHANGED conn_id
    ELSE UNCHANGED <<onb_vars, svc_vars>>

-----------------------------------------------------------------------------
NoService == UNCHANGED <<onb_vars, svc_vars>>

(* app_main registers the applications, then starts the ride.              *)
MainStep ==
    \/ BleMain /\ NoService
    \/ /\ boot = Len(AppOrder) + 1
       /\ OnbMain
       /\ setter' = IF main_pc = "stop" THEN NoConn ELSE setter
       /\ UNCHANGED <<ble_vars, conn_id>>

(* The BTC task.                                                           *)
BtcRegister(i) == RegEvt(i) /\ NoService

BtcTable(i) ==
    \/ TableIgnored(i) /\ NoService
    \/ \E a \in Apps : /\ TableCreated(i, a)
                       /\ IF a = "ctrl" THEN CtrlInit ELSE NoService

BtcConnect(i) ==
    \/ \E a \in Apps : /\ ConnectEvt(i, a)
                       /\ IF a = "ctrl" THEN CtrlConnAdd(Conn) ELSE NoService
    \/ \E a \in Apps : ConnectFull(i, a) /\ NoService

BtcDisconnect(i) ==
    \E a \in Apps : /\ DisconnectEvt(i, a)
                    /\ IF a = "ctrl" THEN CtrlConnDel(Conn) ELSE NoService

BtcWrite(i) ==
    \E a \in Apps :
       /\ WriteEvt(i, a)
       /\ IF a = "ctrl" THEN CtrlConnWrite(Conn, Head(evq).data) ELSE NoService

BtcDrop(i) ==
    /\ EvtIgnored(i) \/ \E a \in Apps : UnlistedEvt(i, a)
    /\ NoService

BtcEvent(i) ==
    BtcConnect(i) \/ BtcDisconnect(i) \/ BtcWrite(i) \/ BtcDrop(i)

(* The BMS task.  The status service notifies every connection listed in a *)
(* table it takes for granted.                                             *)
BmsStep ==
    /\ \/ BmsEnter
       \/ BmsPoll
       \/ BmsReport(~has_ctx["status"] /\ conn_num_max > 0)
    /\ UNCHANGED <<ble_vars, svc_vars>>

(* The panic handler restarts the chip: memory, stack and motor output are *)
(* those of a fresh boot.                                                  *)
Reboot ==
    /\ fault # "none"
    /\ boot' = 0 /\ conn_num_max' = 0 /\ list_mem' = FALSE
    /\ apps_list' = [n \in 0 .. AppsMax - 1 |-> NoApp]
    /\ curr_app_id' = 0
    /\ has_ctx' = [a \in Apps |-> FALSE]
    /\ attr_hndl' = [a \in Apps |-> "null"]
    /\ ble_if' = [a \in Apps |-> NoIf]
    /\ conn_ctx' = [a \in Apps |-> [s \in Slots |-> Free]]
    /\ if_phase' = [i \in Ifs |-> "none"]
    /\ links' = {} /\ kicked' = {} /\ evq' = <<>>
    /\ told' = [i \in Ifs |-> {}]
    /\ main_pc' = "start" /\ ob_state' = "STOPPED"
    /\ now_speed' = 0
    /\ fields' = {} /\ hndl_pwm' = "null" /\ bms_task' = "none"
    /\ duty' = 0 /\ fault' = "none"
    /\ conn_id' = NoConn /\ setter' = NoConn

Runs(A) == fault = "none" /\ A

Next ==
    \/ Runs(MainStep)
    \/ Runs(Stack /\ NoService)
    \/ \E i \in Ifs : Runs(BtcRegister(i) \/ BtcTable(i) \/ BtcEvent(i))
    \/ Runs(BmsStep)
    \/ Reboot

(* The tasks and the stack make progress; peers and the BMS owe nothing.   *)
Fairness ==
    /\ WF_board_vars(Runs(MainStep))
    /\ WF_board_vars(Runs(\E i \in Ifs : BtcEvent(i)))
    /\ \A i \in Ifs : WF_board_vars(Runs(BtcRegister(i) \/ BtcTable(i)))
    /\ WF_board_vars(Reboot)

Spec == Init /\ [][Next]_board_vars /\ Fairness

-----------------------------------------------------------------------------
(* The speed is not zero only while a connection controls the board, and   *)
(* that connection is one the framework still lists for the control        *)
(* service, so that its disconnection will be delivered to app_conn_del.   *)
DriveNeedsController ==
    now_speed # 0 => conn_id # NoConn /\ Listed("ctrl", conn_id)

(* Its disconnection cannot be lost on the way: a connection that drives   *)
(* is a link that is up and that the interface of the control service was  *)
(* told of, or its disconnection is queued for that interface.             *)
DriverIsKnown ==
    now_speed # 0 =>
       \E i \in Ifs : /\ Serves("ctrl", i)
                     /\ \/ conn_id \in links \cap told[i]
                        \/ Pending("disconnect", i, conn_id)

(* The motor turns at the recorded speed or not at all, unless a failed    *)
(* start zeroed the record while the PWM output stayed on.                 *)
MotorIsRecorded == duty # 0 => duty = now_speed \/ ob_state = "STOPPED"

(* A speed set by a connection other than 0 stays in the hands of that     *)
(* connection: nobody takes it over, and it ends when the connection does. *)
SetterStays ==
    now_speed # 0 /\ setter # 0 =>
       setter = conn_id /\ Listed("ctrl", setter)

(* The board crashes in a start or after one that failed, and in no other  *)
(* way: a speed meets a NULL handle only before there is a BMS task, in a  *)
(* start under way or given up without esk8_onboard_stop; the BMS task     *)
(* misses something only after that, or when the status service has no     *)
(* connection list.                                                        *)
FaultsHaveCause ==
    /\ fault = "pwm_null" => ob_state = "INIT" /\ bms_task = "none"
    /\ fault \in {"bms_null", "task_returned"} =>
          ob_state = "STOPPED" /\ main_pc = "done"
    /\ fault = "ctx_null" => ~has_ctx["status"]

(* A controller other than 0 that is gone stops the ride: from the moment   *)
(* its disconnection is queued for the control service, nobody takes the   *)
(* role before it is delivered, it is not lost, and no step lets it go by  *)
(* with a speed that is not zero, whatever else is queued around it.       *)
DriverIsStopped ==
    [][ \A i \in Ifs :
          /\ now_speed # 0 /\ conn_id # 0
          /\ Serves("ctrl", i) /\ Pending("disconnect", i, conn_id)
          => \/ now_speed' = 0
             \/ conn_id' = conn_id /\ Pending("disconnect", i, conn_id)'
      ]_board_vars

(* The inductive invariant behind the properties above, in parts.     *)
(* A controller is listed for a control service that has its interface,    *)
(* and no speed is set before the control service has its handles: the     *)
(* late app_init of the control service, which forgets the controller,     *)
(* finds the speed at zero.                                                *)
Control ==
    /\ conn_id # NoConn => Listed("ctrl", conn_id) /\ ble_if["ctrl"] # NoIf
    /\ now_speed # 0 => conn_id # NoConn /\ attr_hndl["ctrl"] = "set"
    /\ ob_state = "STOPPED" => now_speed = 0

SetterKnown == now_speed # 0 /\ setter # 0 => setter = conn_id

(* The motor is off until the PWM channel is configured.                   *)
Motor ==
    /\ main_pc = "start" => duty = 0 /\ ob_state = "STOPPED"
    /\ main_pc \notin {"start", "done"} => ob_state = "INIT"
    /\ hndl_pwm = "live" => main_pc \in {"task_bms", "hndl_btn", "task_btn",
                                         "run", "stop", "done"}
    /\ ob_state # "STOPPED" /\ hndl_pwm # "live" => duty = 0
    /\ MotorIsRecorded

(* What the start has obtained when it stands at a step.                   *)
Obtained ==
    /\ ob_state = "RUNNING" => main_pc = "done"
    /\ main_pc = "run" \/ ob_state = "RUNNING" =>
          fields = Fields /\ hndl_pwm = "live"
    /\ main_pc \in {"task_bms", "hndl_btn", "task_btn"} => hndl_pwm = "live"
    /\ main_pc = "task_btn" => Fields \ {"task_btn"} \subseteq fields
    /\ main_pc = "hndl_btn" =>
          {"bms_stat", "bms_deep_stat", "hndl_bms", "task_bms"} \subseteq fields
    /\ main_pc \in {"pwm_alloc", "pwm_config", "task_bms"} =>
          {"bms_stat", "bms_deep_stat", "hndl_bms"} \subseteq fields
    /\ main_pc = "hndl_bms" => {"bms_stat", "bms_deep_stat"} \subseteq fields
    /\ main_pc = "bms_deep_stat" => "bms_stat" \in fields

(* The BMS task exists from its step of the start on, so that what it uses *)
(* is there until a stop.                                                  *)
Begun ==
    /\ ob_state = "STOPPED" => main_pc \in {"start", "done"}
    /\ bms_task # "none" /\ ob_state = "STOPPED" => main_pc = "done"
    /\ bms_task # "none" /\ ob_state # "STOPPED" =>
          hndl_pwm = "live" /\ {"bms_stat", "hndl_bms"} \subseteq fields

BoardInv ==
    /\ BleInv
    /\ TypeOK
    /\ Control
    /\ SetterKnown
    /\ Motor
    /\ Obtained
    /\ Begun
    /\ FaultsHaveCause

(* When the link of a controller other than 0 drops while the motor turns, *)
(* the motor stops (in a board none of whose start steps failed).          *)
DeadMan ==
    \A c \in ConnIds \ {0} :
       (duty # 0 /\ conn_id = c /\ c \notin links) ~> (duty = 0)

(* app_ble_srvc_ctrl.c logs "Controller disconnected. Resetting speed.":   *)
(* a speed never outlives the connection that set it.                      *)
SetterDisconnectResets == now_speed # 0 => Listed("ctrl", setter)

(* The same log line, of the motor itself: without a controller it is off. *)
MotorOffWithoutController == conn_id = NoConn => duty = 0

-----------------------------------------------------------------------------
Authority == INSTANCE SpeedAuthority WITH owner <- conn_id, speed <- now_speed

(* The board hands out the authority over the speed as SpeedAuthority says.*)
ImplementsAuthority == Authority!AuthSpec
=============================================================================
