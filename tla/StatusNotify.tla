---------------------------- MODULE StatusNotify ----------------------------
(***************************************************************************)
(* How the status service reports a battery: the BMS task stores a record  *)
(* next to those of the other batteries, publishes them as the value of a  *)
(* characteristic, and walks the connection table of the service, slot by  *)
(* slot, to notify every peer; "after the notification, you can read the   *)
(* attribute value".  esk8_ble_app_status_bms_shallow and _deep do the     *)
(* same with two characteristics.                                          *)
(*                                                                         *)
(* The table is that of module BleApps, and the BTC task goes on listing   *)
(* and forgetting connections while the BMS task walks it: no lock guards  *)
(* it.  Both calls of the BMS task to the stack are queued for the BTC     *)
(* task, which takes them in order, some time later.                       *)
(***************************************************************************)
EXTENDS BleApps

CONSTANTS
    NBat,       \* ESK8_UART_BMS_CONF_NUM, the number of batteries
    Readings    \* bound: the records told apart

Bats    == 0 .. NBat - 1
Zeroes  == 0            \* a record after memset
Records == Readings \cup {Zeroes}

ASSUME NotifyAssumption ==
    /\ "status" \in Apps
    /\ NBat \in Nat \ {0} /\ Readings \subseteq Nat \ {Zeroes}

VARIABLES
    bms,     \* the BMS task: "wait", "stored", "alloc", "look" or "send"
    bat,     \* the battery it reports
    slot,    \* the slot it has come to
    pick,    \* the conn_id it has read there
    cache,   \* SRVC_STATUS_BMS_SHALLOW_VAL (or _DEEP_VAL)
    attr,    \* stack: the value of the characteristic
    calls,   \* stack: the calls of the BMS task it has not served yet
    due,     \* history: links listed when the loop began that are still up
    got,     \* history: notifications of this report, per link that is up
    rec,     \* history: the record reported
    zeroed   \* history: "yes" when app_init came during the report

notify_vars == <<bms, bat, slot, pick, cache, attr, calls, due, got, rec, zeroed>>
status_vars == <<ble_vars, notify_vars>>

Call == [what : {"value"}, val : [Bats -> Records]]
        \cup [what : {"indicate"}, conn : ConnIds]

NotifyTypeOK ==
    /\ bms \in {"wait", "stored", "alloc", "look", "send"}
    /\ bat \in Bats /\ slot \in 0 .. ConnMax /\ pick \in ConnIds \cup {Free}
    /\ (bms = "send" => pick # Free)
    /\ cache \in [Bats -> Records] /\ attr \in [Bats -> Records]
    /\ calls \in Seq(Call) /\ Len(calls) <= ConnMax + 1
    /\ due \subseteq ConnIds
    /\ got \in [ConnIds -> 0 .. ConnMax] /\ rec \in Records
    /\ zeroed \in {"no", "yes"}

NotifyInit ==
    /\ BleInit
    /\ bms = "wait" /\ bat = 0 /\ slot = 0 /\ pick = Free
    /\ cache = [b \in Bats |-> Zeroes] /\ attr = [b \in Bats |-> Zeroes]
    /\ calls = <<>>
    /\ due = {} /\ got = [c \in ConnIds |-> 0]
    /\ rec = Zeroes /\ zeroed = "no"

-----------------------------------------------------------------------------
(* esk8_ble_app_status_bms_shallow and _deep.                              *)

(* The BMS task runs once app_main has registered the services; without    *)
(* the status service it would crash (module Board).  A bound: the stack   *)
(* has served the calls of the last report, seconds ago.                   *)
StoreRecord(b, v) ==
    /\ bms = "wait" /\ calls = <<>>
    /\ boot = Len(AppOrder) + 1 /\ has_ctx["status"]
    /\ bms' = "stored" /\ bat' = b
    /\ cache' = [cache EXCEPT ![b] = v]
    /\ due' = {} /\ got' = [c \in ConnIds |-> 0] /\ rec' = v /\ zeroed' = "no"
    /\ UNCHANGED <<ble_vars, slot, pick, attr, calls>>

(* The stack refuses a call with the handle 0, before the table is created.*)
Ask(call) == calls' = IF attr_hndl["status"] = "set" THEN Append(calls, call)
                      ELSE calls

(* The whole array.  (A slip: the size of one record.)                     *)
CopiedOne == [attr EXCEPT ![0] = cache[0]]
Copied == cache

Publish ==
    /\ bms = "stored" /\ bms' = "alloc"
    /\ Ask([what |-> "value", val |-> Copied])
    /\ UNCHANGED <<ble_vars, bat, slot, pick, cache, attr, due, got, rec, zeroed>>

(* ESK8_ERR_OOM: nobody is notified.                                       *)
MsgOom ==
    /\ bms = "alloc" /\ bms' = "wait"
    /\ UNCHANGED <<ble_vars, bat, slot, pick, cache, attr, calls, due, got, rec, zeroed>>

NotifyBegin ==
    /\ bms = "alloc" /\ bms' = "look"
    /\ slot' = 0
    /\ due' = IF attr_hndl["status"] # "set" THEN {}
              ELSE {c \in links : /\ Listed("status", c)
                                  /\ \A i \in Ifs : ~Pending("disconnect", i, c)}
    /\ UNCHANGED <<ble_vars, bat, pick, cache, attr, calls, got, rec, zeroed>>

(* esk8_ble_apps_notify_all reads the slot ... (A slip: the first free one *)
(* ends the loop.)                                                         *)
PastFreeEnds == conn_num_max
PastFree == slot + 1

Look ==
    /\ bms = "look" /\ slot < conn_num_max
    /\ LET c == conn_ctx["status"][slot] IN
       IF c = Free THEN slot' = PastFree /\ UNCHANGED <<bms, pick>>
       ELSE pick' = c /\ bms' = "send" /\ UNCHANGED slot
    /\ UNCHANGED <<ble_vars, bat, cache, attr, calls, due, got, rec, zeroed>>

(* ... and notifies whom it has read there, listed or not by now.          *)
SendIndicate ==
    /\ bms = "send" /\ bms' = "look"
    /\ Ask([what |-> "indicate", conn |-> pick])
    /\ slot' = slot + 1
    /\ UNCHANGED <<ble_vars, bat, pick, cache, attr, due, got, rec, zeroed>>

NotifyEnd ==
    /\ bms = "look" /\ slot >= conn_num_max
    /\ bms' = "wait"
    /\ UNCHANGED <<ble_vars, bat, slot, pick, cache, attr, calls, due, got, rec, zeroed>>

BmsTask ==
    \/ \E b \in Bats, v \in Readings : StoreRecord(b, v)
    \/ Publish \/ MsgOom \/ NotifyBegin \/ Look \/ SendIndicate \/ NotifyEnd

-----------------------------------------------------------------------------
(* The stack serves the calls, and notifies a link that is up.             *)

ServeValue ==
    /\ calls # <<>> /\ Head(calls).what = "value"
    /\ attr' = Head(calls).val
    /\ calls' = Tail(calls)
    /\ UNCHANGED <<ble_vars, bms, bat, slot, pick, cache, due, got, rec, zeroed>>

ServeIndicate ==
    /\ calls # <<>> /\ Head(calls).what = "indicate"
    /\ LET c == Head(calls).conn IN
       got' = IF c \in links THEN [got EXCEPT ![c] = @ + 1] ELSE got
    /\ calls' = Tail(calls)
    /\ UNCHANGED <<ble_vars, bms, bat, slot, pick, cache, attr, due, rec, zeroed>>

(* app_init of the status service, in ESP_GATTS_CREAT_ATTR_TAB_EVT.  (The  *)
(* table's values are copied from the arrays, zero like them.)             *)
AppInit ==
    /\ cache' = [b \in Bats |-> Zeroes]
    /\ zeroed' = IF bms = "wait" THEN zeroed ELSE "yes"
    /\ UNCHANGED <<bms, bat, slot, pick, attr, calls, due, got, rec>>

(* The history of a link ends with it.                                     *)
Forget(c) ==
    /\ due' = due \ {c}
    /\ got' = [got EXCEPT ![c] = 0]
    /\ UNCHANGED <<bms, bat, slot, pick, cache, attr, calls, rec, zeroed>>

BleStep ==
    \/ BleMain
    \/ \E c \in ConnIds : LinkUp(c)
    \/ \E i \in Ifs : \/ RegEvt(i) \/ TableIgnored(i) \/ QueueEvt(i)
                      \/ \E c \in ConnIds : StartIf(i, c)

StatusNext ==
    \/ BleStep /\ UNCHANGED notify_vars
    \/ \E c \in ConnIds : LinkDown(c) /\ Forget(c)
    \/ \E i \in Ifs : TableCreated(i, "status") /\ AppInit
    \/ BmsTask
    \/ ServeValue \/ ServeIndicate

StatusSpec == NotifyInit /\ [][StatusNext]_status_vars

-----------------------------------------------------------------------------
(* Whatever connects and disconnects while the BMS task walks the table, a *)
(* link that was listed when it began and is still up is notified of the   *)
(* report exactly once: slots do not move, and none is passed over.  (A    *)
(* peer that is given the identifier of another in between may be notified *)
(* once, twice, or not at all.)                                            *)
ExactlyOnce ==
    \A c \in due :
       /\ got[c] <= 1
       /\ bms = "wait" /\ calls = <<>> => got[c] = 1

(* When a peer is notified, the characteristic it can now read holds the   *)
(* record the notification is about, unless the service was initialised    *)
(* during the report, when what was stored is zeroed or cannot be published *)
(* yet.                                                                     *)
PublishedFirst ==
    [][ (\E c \in ConnIds : got'[c] > got[c]) /\ zeroed = "no" => attr[bat] = rec
      ]_status_vars

-----------------------------------------------------------------------------
(* The inductive invariant behind them.  The BMS task runs on a registered *)
(* service, and its calls are taken on a started one.                      *)
Registered ==
    /\ boot = 0 => ~list_mem
    /\ list_mem => conn_num_max = ConnMax
    /\ has_ctx["status"] => list_mem
    /\ bms # "wait" \/ calls # <<>> \/ due # {} =>
          boot = Len(AppOrder) + 1 /\ has_ctx["status"]
    /\ calls # <<>> \/ due # {} => attr_hndl["status"] = "set"

(* The calls of a report: the value first, then at most one notification   *)
(* for each slot the task has passed, served or not.                       *)
First(what) == calls # <<>> /\ calls[1].what = what
Ahead  == IF First("value") THEN 1 ELSE 0
Walked == CASE bms \in {"stored", "alloc"} -> 0
            [] bms \in {"look", "send"} -> slot
            [] OTHER -> ConnMax

CallOrder ==
    /\ \A n \in DOMAIN calls : n > 1 => calls[n].what = "indicate"
    /\ Len(calls) <= Walked + Ahead
    /\ \A c \in ConnIds : got[c] + Len(calls) <= Walked + Ahead
    /\ bms = "stored" => calls = <<>>
    /\ bms = "send" => slot < ConnMax

(* What the characteristic will hold when the first notification is served. *)
Published ==
    /\ bms = "stored" /\ zeroed = "no" => cache[bat] = rec
    /\ /\ zeroed = "no"
       /\ \/ calls # <<>>
          \/ bms \in {"alloc", "look", "send"} /\ attr_hndl["status"] = "set"
       => IF First("value") THEN calls[1].val[bat] = rec ELSE attr[bat] = rec

(* A link that is due keeps its slot, and has been notified, or will be by *)
(* one call that waits, exactly when the task is past that slot.           *)
Told(n, c) == calls[n].what = "indicate" /\ calls[n].conn = c
Passed(c)  == bms = "wait" \/ \E s \in Slots : s < slot /\ conn_ctx["status"][s] = c

DueOnce ==
    /\ bms \in {"stored", "alloc"} => due = {}
    /\ \A c \in due :
          /\ Listed("status", c) /\ \A i \in Ifs : ~Pending("disconnect", i, c)
          /\ bms = "send" => (pick = c <=> conn_ctx["status"][slot] = c)
          /\ \A m, n \in DOMAIN calls : Told(m, c) /\ Told(n, c) => m = n
          /\ (\E n \in DOMAIN calls : Told(n, c)) => got[c] = 0 /\ Passed(c)
          /\ (\A n \in DOMAIN calls : ~Told(n, c)) => got[c] = IF Passed(c) THEN 1 ELSE 0

ReportInv == NotifyTypeOK /\ Registered /\ CallOrder /\ Published /\ DueOnce

(* With what the framework keeps.                                          *)
NotifyInv == LinkInv /\ ReportInv
=============================================================================
