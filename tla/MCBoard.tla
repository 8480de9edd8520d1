------------------------------ MODULE MCBoard ------------------------------
(* Small instances of Board for TLC.                                       *)
EXTENDS Board

CtrlStatus == <<"ctrl", "status">>
ThreeApps  == <<"auth", "ctrl", "status">>

(* A speed, a stop, and writes the control service ignores: of the wrong   *)
(* length, and to the power characteristic.                                *)
Drive1    == [attr |-> "speed", len |-> 1, val |-> 1]
DriveOnly == {Drive1}
Drives    == {Drive1, [attr |-> "speed", len |-> 1, val |-> 0]}
AllWrites == Drives \cup {[attr |-> "speed", len |-> 2, val |-> 1],
                          [attr |-> "pwr",   len |-> 1, val |-> 1]}

(* The state of a board that started without a failure and that nobody has *)
(* connected to yet: what Init leads to when no peer turns up.  Runs that  *)
(* are about the ride, not about the start, begin here.                    *)
RideInit ==
    /\ boot = Len(AppOrder) + 1
    /\ conn_num_max = ConnMax
    /\ list_mem = TRUE
    /\ apps_list = [n \in 0 .. AppsMax - 1 |-> AppOrder[n + 1]]
    /\ curr_app_id = AppsMax
    /\ has_ctx = [a \in Apps |-> TRUE]
    /\ attr_hndl = [a \in Apps |-> "set"]
    /\ ble_if = [a \in Apps |-> CHOOSE i \in Ifs : AppOrder[i] = a]
    /\ conn_ctx = [a \in Apps |-> [s \in Slots |-> Free]]
    /\ if_phase = [i \in Ifs |-> "served"]
    /\ links = {} /\ told = [i \in Ifs |-> {}] /\ kicked = {} /\ evq = <<>>
    /\ main_pc = "done" /\ ob_state = "RUNNING"
    /\ now_speed = 0 /\ duty = 0
    /\ fields = Fields /\ hndl_pwm = "live"
    /\ bms_task = "poll" /\ fault = "none"
    /\ conn_id = NoConn /\ setter = NoConn

RideSpec == RideInit /\ [][Next]_board_vars /\ Fairness
=============================================================================
