------------------------- MODULE StatusNotifyProofs -------------------------
(***************************************************************************)
(* Every link that stays up through a report of the status service is      *)
(* notified of it once, and not before the record can be read, for every   *)
(* number of batteries, connections and slots.                             *)
(*                                                                         *)
(* The framework goes on while the BMS task walks its table; that it keeps *)
(* LinkInv is taken from BleAppsProofs.                                    *)
(***************************************************************************)
EXTENDS StatusNotify, BleAppsProofs

USE DEF Ifs, Slots, NoIf, Free

LEMMA StatusFacts ==
    /\ "status" \in Apps /\ 0 \in Bats /\ ConnMax \in Nat
    /\ Zeroes \in Records /\ Readings \subseteq Records
    /\ Free \notin ConnIds
    /\ Len(AppOrder) + 1 \notin DOMAIN AppOrder /\ Len(AppOrder) \in Nat
BY NotifyAssumption, BleAssumption DEF Bats, Records

(* Whatever the task and the stack do, the framework takes its own steps.  *)
LEMMA FrameworkSteps ==
    ASSUME [StatusNext]_status_vars PROVE [BleNext]_ble_vars
<1>1. BmsTask => UNCHANGED ble_vars
  BY DEF BmsTask, StoreRecord, Publish, MsgOom, NotifyBegin, Look, SendIndicate, NotifyEnd
<1>2. ServeValue \/ ServeIndicate => UNCHANGED ble_vars
  BY DEF ServeValue, ServeIndicate
<1>3. "status" \in Apps
  BY StatusFacts
<1>4. BleStep => BleNext
  BY DEF BleStep, BleNext, Stack, TableEvt
<1>5. (\E c \in ConnIds : LinkDown(c) /\ Forget(c)) => BleNext
  BY DEF BleNext, Stack
<1>6. (\E i \in Ifs : TableCreated(i, "status") /\ AppInit) => BleNext
  BY <1>3 DEF BleNext, TableEvt
<1>. QED  BY <1>1, <1>2, <1>4, <1>5, <1>6 DEF StatusNext, status_vars

LEMMA NotifyInitInv == NotifyInit => NotifyInv
<1>. SUFFICES ASSUME NotifyInit PROVE NotifyInv
  OBVIOUS
<1>1. LinkInv
  BY LinkInitInv DEF NotifyInit
<1>2. NotifyTypeOK
  <2>1. [b \in Bats |-> Zeroes] \in [Bats -> Records]
    BY StatusFacts
  <2>2. [c \in ConnIds |-> 0] \in [ConnIds -> 0 .. ConnMax]
    BY StatusFacts
  <2>. QED  BY <2>1, <2>2, StatusFacts DEF NotifyInit, NotifyTypeOK
<1>3. Registered
  BY StatusFacts DEF NotifyInit, BleInit, Registered
<1>4. CallOrder
  BY StatusFacts DEF NotifyInit, CallOrder, Walked, Ahead, First
<1>5. Published
  BY DEF NotifyInit, Published
<1>6. DueOnce
  BY DEF NotifyInit, DueOnce
<1>. QED  BY <1>1, <1>2, <1>3, <1>4, <1>5, <1>6 DEF NotifyInv, ReportInv

-----------------------------------------------------------------------------
(* The framework.                                                          *)

(* Once app_main has registered everything, the service's entry in the     *)
(* framework only changes by being started.                                *)
LEMMA RegisteredStays ==
    ASSUME LinkInv, [BleNext]_ble_vars, boot = Len(AppOrder) + 1
    PROVE  /\ UNCHANGED <<boot, conn_num_max, list_mem, has_ctx>>
           /\ attr_hndl["status"] = "set" => attr_hndl'["status"] = "set"
<1>1. ~BleMain
  BY StatusFacts DEF BleMain, AppsInit, RegisterRefused, Register
<1>2. UNCHANGED <<boot, conn_num_max, list_mem, has_ctx>>
  BY <1>1 DEF BleNext, Stack, LinkUp, LinkDown, StartIf, ClientWrite, RegEvt, TableEvt,
     TableIgnored, TableCreated, QueueEvt, EvtIgnored, ConnectEvt, ConnectFull,
     DisconnectEvt, WriteEvt, UnlistedEvt, app_vars, ble_vars
<1>3. attr_hndl' = attr_hndl \/ \E i \in Ifs, a \in Apps : TableCreated(i, a)
  BY <1>1 DEF BleNext, Stack, LinkUp, LinkDown, StartIf, ClientWrite, RegEvt, TableEvt,
     TableIgnored, QueueEvt, EvtIgnored, ConnectEvt, ConnectFull,
     DisconnectEvt, WriteEvt, UnlistedEvt, app_vars, ble_vars
<1>4. ASSUME NEW i \in Ifs, NEW a \in Apps, TableCreated(i, a), attr_hndl["status"] = "set"
      PROVE  attr_hndl'["status"] = "set"
  <2>1. attr_hndl \in [Apps -> {"null", "zero", "set", "freed"}]
    BY DEF LinkInv, BleInv, BleTypeOK
  <2>. QED  BY <1>4, <2>1 DEF TableCreated
<1>. QED  BY <1>2, <1>3, <1>4

(* A link whose end is not on its way keeps its slot until it ends.        *)
LEMMA SlotKept ==
    ASSUME LinkInv, [BleNext]_ble_vars, boot = Len(AppOrder) + 1,
           NEW c \in ConnIds, ~LinkDown(c),
           Listed("status", c), \A i \in Ifs : ~Pending("disconnect", i, c)
    PROVE  /\ \A s \in Slots : conn_ctx'["status"][s] = c <=> conn_ctx["status"][s] = c
           /\ Listed("status", c)' /\ \A i \in Ifs : ~Pending("disconnect", i, c)'
<1>0. /\ evq \in Seq(Event) /\ told \in [Ifs -> SUBSET ConnIds]
      /\ conn_ctx \in [Apps -> [Slots -> ConnIds \cup {Free}]]
      /\ "status" \in Apps /\ c # Free
  BY StatusFacts DEF LinkInv, BleInv, BleTypeOK
<1>. SUFFICES /\ \A s \in Slots : conn_ctx'["status"][s] = c <=> conn_ctx["status"][s] = c
              /\ \A i \in Ifs : ~Pending("disconnect", i, c)'
  BY DEF Listed
<1>1. ~BleMain
  BY StatusFacts DEF BleMain, AppsInit, RegisterRefused, Register
<1>2. CASE conn_ctx' = conn_ctx /\ evq' = evq
  BY <1>2 DEF Pending, Comes, About
<1>3. ASSUME NEW e \in Event, evq' = Append(evq, e), conn_ctx' = conn_ctx,
             e.evt = "disconnect" => e.conn # c
      PROVE  \A i \in Ifs : ~Pending("disconnect", i, c)'
  <2>1. \A n, i : Comes("disconnect", n, i, c)' <=> Comes("disconnect", n, i, c)
    BY <1>0, <1>3, AppendComes
  <2>2. \A n, i : Comes("disconnect", n, i, c) => n \in DOMAIN evq
    BY DEF Comes, About
  <2>. QED  BY <2>1, <2>2 DEF Pending
<1>4. ASSUME NEW d \in ConnIds, LinkUp(d)
      PROVE  conn_ctx' = conn_ctx /\ \A i \in Ifs : ~Pending("disconnect", i, c)'
  <2>. DEFINE e == [evt |-> "connect", to |-> {i \in Ifs : Ready(i)}, conn |-> d]
  <2>1. conn_ctx' = conn_ctx /\ (evq' = evq \/ evq' = Append(evq, e))
    BY <1>4 DEF LinkUp, app_vars
  <2>2. e \in Event /\ e.evt = "connect"
    BY DEF Event
  <2>. HIDE DEF e
  <2>. QED  BY <1>2, <1>3, <2>1, <2>2
<1>5. ASSUME NEW d \in ConnIds, LinkDown(d)
      PROVE  conn_ctx' = conn_ctx /\ \A i \in Ifs : ~Pending("disconnect", i, c)'
  <2>. DEFINE e == [evt |-> "disconnect", to |-> {i \in Ifs : d \in told[i]}, conn |-> d]
  <2>1. conn_ctx' = conn_ctx /\ (evq' = evq \/ evq' = Append(evq, e))
    BY <1>5 DEF LinkDown, app_vars
  <2>2. e \in Event /\ e.conn = d /\ d # c
    BY <1>5 DEF Event
  <2>. HIDE DEF e
  <2>. QED  BY <1>2, <1>3, <2>1, <2>2
<1>6. ASSUME NEW i \in Ifs, NEW d \in ConnIds, StartIf(i, d)
      PROVE  conn_ctx' = conn_ctx /\ \A j \in Ifs : ~Pending("disconnect", j, c)'
  <2>. DEFINE e == [evt |-> "connect", to |-> {i}, conn |-> d]
  <2>1. conn_ctx' = conn_ctx /\ evq' = Append(evq, e)
    BY <1>6 DEF StartIf, app_vars
  <2>2. e \in Event /\ e.evt = "connect"
    BY DEF Event
  <2>. HIDE DEF e
  <2>. QED  BY <1>3, <2>1, <2>2
<1>7. ASSUME NEW i \in Ifs, NEW d \in ConnIds, NEW p \in Payloads, ClientWrite(i, d, p)
      PROVE  conn_ctx' = conn_ctx /\ \A j \in Ifs : ~Pending("disconnect", j, c)'
  <2>. DEFINE e == [evt |-> "write", to |-> {i}, conn |-> d, data |-> p]
  <2>1. conn_ctx' = conn_ctx /\ evq' = Append(evq, e)
    BY <1>7 DEF ClientWrite, app_vars
  <2>2. e \in Event /\ e.evt = "write"
    BY DEF Event
  <2>. HIDE DEF e
  <2>. QED  BY <1>3, <2>1, <2>2
<1>8. ASSUME NEW i \in Ifs, RegEvt(i) \/ TableEvt(i) PROVE conn_ctx' = conn_ctx /\ evq' = evq
  BY <1>8 DEF RegEvt, TableEvt, TableIgnored, TableCreated, app_vars
<1>9. ASSUME NEW i \in Ifs, QueueEvt(i)
      PROVE  /\ \A s \in Slots : conn_ctx'["status"][s] = c <=> conn_ctx["status"][s] = c
             /\ \A j \in Ifs : ~Pending("disconnect", j, c)'
  <2>1. evq # <<>> /\ i \in Head(evq).to /\ Consume(i)
    BY <1>9 DEF QueueEvt, EvtIgnored, ConnectEvt, ConnectFull, DisconnectEvt,
       WriteEvt, UnlistedEvt, Arrives
  <2>2. \A j \in Ifs : ~Pending("disconnect", j, c)'
    <3>1. PICK s \in {0, 1} :
             /\ \A n \in DOMAIN evq' : n + s \in DOMAIN evq
             /\ \A kind, n, j, d : Comes(kind, n, j, d)' =>
                   /\ Comes(kind, n + s, j, d)
                   /\ n \in DOMAIN evq' /\ ~(n + s = 1 /\ j = i)
      <4>. HIDE DEF Ifs
      <4>. QED  BY <1>0, <2>1, ConsumeComes
    <3>. QED  BY <3>1 DEF Pending
  (* The event at the head is neither the end nor the start of the link.   *)
  <2>3. 1 \in DOMAIN evq /\ \A kind : Arrives(kind, i) => Comes(kind, 1, i, Conn)
    BY <1>0, <2>1 DEF Arrives, Comes, About, Conn
  <2>4. Arrives("disconnect", i) => Conn # c
    BY <2>3 DEF Pending
  <2>5. Arrives("connect", i) /\ Serves("status", i) => Conn # c
    <3>1. ListOrder(i, "status", c)
      BY <1>0 DEF LinkInv
    <3>2. \A m \in DOMAIN evq : ~(m < 1)
      BY <1>0
    <3>. QED  BY <2>3, <3>1, <3>2 DEF ListOrder
  <2>6. \A s \in Slots : conn_ctx'["status"][s] = c <=> conn_ctx["status"][s] = c
    <3>1. CASE conn_ctx' = conn_ctx
      BY <3>1
    <3>2. ASSUME NEW a \in Apps, ConnectEvt(i, a)
          PROVE  \A s \in Slots : conn_ctx'["status"][s] = c <=> conn_ctx["status"][s] = c
      <4>1. PICK t \in Slots : conn_ctx[a][t] = Free /\ conn_ctx' = [conn_ctx EXCEPT ![a][t] = Conn]
        BY <3>2 DEF ConnectEvt, FirstSlot
      <4>2. a = "status" => Conn # c
        BY <2>5, <3>2 DEF ConnectEvt
      <4>. QED  BY <1>0, <4>1, <4>2
    <3>3. ASSUME NEW a \in Apps, DisconnectEvt(i, a)
          PROVE  \A s \in Slots : conn_ctx'["status"][s] = c <=> conn_ctx["status"][s] = c
      <4>1. PICK t \in Slots : conn_ctx[a][t] = Conn /\ conn_ctx' = [conn_ctx EXCEPT ![a][t] = Free]
        BY <3>3 DEF DisconnectEvt, FirstSlot, FreeSlot
      <4>2. Conn # c
        BY <2>4, <3>3 DEF DisconnectEvt
      <4>. QED  BY <1>0, <4>1, <4>2
    <3>. QED  BY <1>9, <3>1, <3>2, <3>3
         DEF QueueEvt, EvtIgnored, ConnectFull, WriteEvt, UnlistedEvt, app_vars
  <2>. QED  BY <2>2, <2>6
<1>10. CASE UNCHANGED ble_vars
  BY <1>2, <1>10 DEF ble_vars, app_vars, stack_vars
<1>11. CASE BleNext
  BY <1>1, <1>2, <1>4, <1>5, <1>6, <1>7, <1>8, <1>9, <1>11 DEF BleNext, Stack
<1>. QED  BY <1>10, <1>11

(* The facts about the framework that the task relies on.                  *)
LEMMA FrameworkReady ==
    ASSUME LinkInv, [BleNext]_ble_vars,
           boot = 0 => ~list_mem, list_mem => conn_num_max = ConnMax,
           has_ctx["status"] => list_mem
    PROVE  /\ boot' = 0 => ~list_mem'
           /\ list_mem' => conn_num_max' = ConnMax
           /\ has_ctx'["status"] => list_mem'
<1>0. /\ "status" \in Apps /\ has_ctx \in [Apps -> BOOLEAN]
      /\ boot \in Nat /\ DOMAIN AppOrder = 1 .. Len(AppOrder)
  BY StatusFacts, AppFacts DEF LinkInv, BleInv, BleTypeOK
<1>1. CASE AppsInit
  BY <1>1 DEF AppsInit
<1>2. CASE RegisterRefused
  BY <1>0, <1>2 DEF RegisterRefused, app_vars
<1>3. CASE Register
  BY <1>0, <1>3 DEF Register
<1>4. CASE UNCHANGED <<boot, conn_num_max, list_mem, has_ctx>>
  BY <1>4
<1>5. ASSUME UNCHANGED ble_vars \/ Stack \/ \E i \in Ifs : RegEvt(i) \/ TableEvt(i)
      PROVE  UNCHANGED <<boot, conn_num_max, list_mem, has_ctx>>
  BY <1>5 DEF Stack, LinkUp, LinkDown, StartIf, ClientWrite, RegEvt, TableEvt,
     TableIgnored, TableCreated, app_vars, ble_vars
<1>6. ASSUME NEW i \in Ifs, QueueEvt(i)
      PROVE  UNCHANGED <<boot, conn_num_max, list_mem, has_ctx>>
  BY <1>6 DEF QueueEvt, EvtIgnored, ConnectEvt, ConnectFull, DisconnectEvt, WriteEvt,
     UnlistedEvt, app_vars
<1>. QED  BY <1>1, <1>2, <1>3, <1>4, <1>5, <1>6 DEF BleNext, BleMain

(* A step of the framework: the reports of the links that end are          *)
(* forgotten, and the service may be initialised.                          *)
LEMMA FrameworkStep ==
    ASSUME NotifyInv, [BleNext]_ble_vars,
           UNCHANGED <<bms, bat, slot, pick, attr, calls, rec>>,
           NotifyTypeOK',
           due' \subseteq due,
           \A c \in due' : ~LinkDown(c) /\ got'[c] = got[c],
           \A c \in ConnIds : got'[c] <= got[c],
           \/ /\ UNCHANGED <<cache, zeroed>>
              /\ attr_hndl'["status"] = "set" => attr_hndl["status"] = "set"
           \/ AppInit /\ attr_hndl["status"] # "set"
    PROVE  NotifyInv'
<1>0. /\ LinkInv /\ NotifyTypeOK /\ Registered /\ CallOrder /\ Published /\ DueOnce
      /\ ConnMax \in Nat /\ due \subseteq ConnIds
      /\ got \in [ConnIds -> 0 .. ConnMax] /\ got' \in [ConnIds -> 0 .. ConnMax]
      /\ slot \in 0 .. ConnMax /\ Len(calls) \in Nat
  BY StatusFacts DEF NotifyInv, ReportInv, NotifyTypeOK
<1>1. LinkInv'
  BY <1>0, LinkNext
<1>2. Registered'
  <2>1. /\ boot' = 0 => ~list_mem'
        /\ list_mem' => conn_num_max' = ConnMax
        /\ has_ctx'["status"] => list_mem'
    BY <1>0, FrameworkReady DEF Registered
  <2>2. boot = Len(AppOrder) + 1 =>
           /\ UNCHANGED <<boot, has_ctx>>
           /\ attr_hndl["status"] = "set" => attr_hndl'["status"] = "set"
    BY <1>0, RegisteredStays
  <2>. QED  BY <1>0, <2>1, <2>2 DEF Registered
<1>3. CallOrder'
  <2>1. Walked' = Walked /\ Ahead' = Ahead /\ Walked \in 0 .. ConnMax /\ Ahead \in {0, 1}
    BY <1>0 DEF Walked, Ahead, First
  <2>2. \A c \in ConnIds : got'[c] + Len(calls) <= Walked + Ahead
    <3>. SUFFICES ASSUME NEW c \in ConnIds PROVE got'[c] + Len(calls) <= Walked + Ahead
      OBVIOUS
    <3>1. got[c] + Len(calls) <= Walked + Ahead /\ got'[c] <= got[c]
      BY <1>0 DEF CallOrder
    <3>2. got[c] \in 0 .. ConnMax /\ got'[c] \in 0 .. ConnMax
      BY <1>0
    <3>. QED  BY <1>0, <2>1, <3>1, <3>2
  <2>. QED  BY <1>0, <2>1, <2>2 DEF CallOrder
<1>4. Published'
  <2>1. CASE UNCHANGED <<cache, zeroed>>
             /\ (attr_hndl'["status"] = "set" => attr_hndl["status"] = "set")
    BY <1>0, <2>1 DEF Published, First
  <2>2. CASE AppInit /\ attr_hndl["status"] # "set"
    BY <1>0, <2>2 DEF Published, AppInit, Registered
  <2>. QED  BY <2>1, <2>2
<1>5. DueOnce'
  <2>. SUFFICES ASSUME NEW c \in due'
                PROVE  /\ Listed("status", c)' /\ \A i \in Ifs : ~Pending("disconnect", i, c)'
                       /\ bms = "send" => (pick = c <=> conn_ctx'["status"][slot] = c)
                       /\ \A m, n \in DOMAIN calls : Told(m, c) /\ Told(n, c) => m = n
                       /\ (\E n \in DOMAIN calls : Told(n, c)) => got'[c] = 0 /\ Passed(c)'
                       /\ (\A n \in DOMAIN calls : ~Told(n, c)) =>
                             got'[c] = IF Passed(c)' THEN 1 ELSE 0
    BY <1>0 DEF DueOnce, Told
  <2>1. c \in due /\ c \in ConnIds /\ got'[c] = got[c] /\ ~LinkDown(c)
    BY <1>0
  <2>2. /\ Listed("status", c) /\ \A i \in Ifs : ~Pending("disconnect", i, c)
        /\ bms = "send" => (pick = c <=> conn_ctx["status"][slot] = c)
        /\ \A m, n \in DOMAIN calls : Told(m, c) /\ Told(n, c) => m = n
        /\ (\E n \in DOMAIN calls : Told(n, c)) => got[c] = 0 /\ Passed(c)
        /\ (\A n \in DOMAIN calls : ~Told(n, c)) => got[c] = IF Passed(c) THEN 1 ELSE 0
    BY <1>0, <2>1 DEF DueOnce
  <2>3. boot = Len(AppOrder) + 1
    BY <1>0, <2>1 DEF Registered
  <2>4. /\ \A s \in Slots : conn_ctx'["status"][s] = c <=> conn_ctx["status"][s] = c
        /\ Listed("status", c)' /\ \A i \in Ifs : ~Pending("disconnect", i, c)'
    BY <1>0, <2>1, <2>2, <2>3, SlotKept
  <2>5. Passed(c)' <=> Passed(c)
    BY <2>4 DEF Passed
  <2>6. bms = "send" => slot \in Slots
    BY <1>0 DEF CallOrder
  <2>. QED  BY <2>1, <2>2, <2>4, <2>5, <2>6
<1>. QED  BY <1>0, <1>1, <1>2, <1>3, <1>4, <1>5 DEF NotifyInv, ReportInv

LEMMA FrameworkInv ==
    ASSUME NotifyInv,
           \/ BleStep /\ UNCHANGED notify_vars
           \/ \E c \in ConnIds : LinkDown(c) /\ Forget(c)
           \/ \E i \in Ifs : TableCreated(i, "status") /\ AppInit
    PROVE  NotifyInv'
<1>0. /\ [BleNext]_ble_vars /\ NotifyTypeOK /\ LinkInv
      /\ got \in [ConnIds -> 0 .. ConnMax] /\ ConnMax \in Nat
      /\ attr_hndl \in [Apps -> {"null", "zero", "set", "freed"}]
      /\ "status" \in Apps
  <2>1. [BleNext]_ble_vars
    BY FrameworkSteps DEF StatusNext
  <2>. QED  BY <2>1, StatusFacts DEF NotifyInv, ReportInv, NotifyTypeOK, LinkInv, BleInv, BleTypeOK
<1>1. \A c \in ConnIds : got[c] \in 0 .. ConnMax
  BY <1>0
<1>2. CASE BleStep /\ UNCHANGED notify_vars
  <2>1. NotifyTypeOK'
    BY <1>0, <1>2 DEF NotifyTypeOK, notify_vars
  <2>2. \A c \in links : ~LinkDown(c)
    <3>1. links \subseteq links'
      BY <1>2 DEF BleStep, BleMain, AppsInit, RegisterRefused, Register, stack_vars, app_vars,
         LinkUp, RegEvt, TableIgnored, QueueEvt, EvtIgnored, ConnectEvt, ConnectFull,
         DisconnectEvt, WriteEvt, UnlistedEvt, StartIf
    <3>. QED  BY <3>1 DEF LinkDown
  <2>3. attr_hndl'["status"] = "set" => attr_hndl["status"] = "set"
    <3>1. CASE Register
      BY <1>0, <3>1 DEF Register
    <3>. QED  BY <1>2, <3>1 DEF BleStep, BleMain, AppsInit, RegisterRefused, app_vars,
         LinkUp, RegEvt, TableIgnored, QueueEvt, EvtIgnored, ConnectEvt, ConnectFull,
         DisconnectEvt, WriteEvt, UnlistedEvt, StartIf
  <2>4. \A c : ~LinkDown(c)
    BY <2>2 DEF LinkDown
  <2>. QED  BY <1>0, <1>1, <1>2, <2>1, <2>3, <2>4, FrameworkStep DEF notify_vars
<1>3. ASSUME NEW c \in ConnIds, LinkDown(c), Forget(c) PROVE NotifyInv'
  <2>1. NotifyTypeOK'
    BY <1>0, <1>3 DEF NotifyTypeOK, Forget
  <2>2. \A d \in due' : ~LinkDown(d) /\ got'[d] = got[d]
    <3>1. \A d : LinkDown(d) => d \in links /\ d \notin links'
      BY DEF LinkDown
    <3>2. links' = links \ {c}
      BY <1>3 DEF LinkDown
    <3>3. \A d \in due' : d # c /\ d \in ConnIds
      BY <1>0, <1>3 DEF Forget, NotifyTypeOK
    <3>. QED  BY <1>0, <1>3, <3>1, <3>2, <3>3 DEF Forget
  <2>3. \A d \in ConnIds : got'[d] <= got[d]
    BY <1>0, <1>1, <1>3 DEF Forget
  <2>4. attr_hndl' = attr_hndl
    BY <1>3 DEF LinkDown, app_vars
  <2>. QED  BY <1>0, <1>3, <2>1, <2>2, <2>3, <2>4, FrameworkStep DEF Forget
<1>4. ASSUME NEW i \in Ifs, TableCreated(i, "status"), AppInit PROVE NotifyInv'
  <2>1. NotifyTypeOK'
    <3>1. [b \in Bats |-> Zeroes] \in [Bats -> Records]
      BY StatusFacts
    <3>. QED  BY <1>0, <1>4, <3>1 DEF NotifyTypeOK, AppInit
  <2>2. \A d : ~LinkDown(d)
    BY <1>4 DEF LinkDown, TableCreated
  <2>3. attr_hndl["status"] # "set"
    BY <1>0, <1>4 DEF TableCreated, Serves, LinkInv, BleInv, Interfaces
  <2>. QED  BY <1>0, <1>1, <1>4, <2>1, <2>2, <2>3, FrameworkStep DEF AppInit
<1>. QED  BY <1>2, <1>3, <1>4

-----------------------------------------------------------------------------
(* The BMS task.                                                           *)

(* What a step of the task or a call served leaves alone.                  *)
LEMMA Apart ==
    ASSUME NotifyInv, UNCHANGED ble_vars
    PROVE  /\ LinkInv'
           /\ \A c : Listed("status", c)' <=> Listed("status", c)
           /\ \A i, c : Pending("disconnect", i, c)' <=> Pending("disconnect", i, c)
           /\ UNCHANGED <<boot, list_mem, conn_num_max, has_ctx, attr_hndl, conn_ctx>>
<1>1. LinkInv'
  BY LinkNext DEF NotifyInv, ReportInv
<1>. QED  BY <1>1 DEF ble_vars, app_vars, stack_vars, Listed, Pending, Comes, About

LEMMA NotifyFacts ==
    ASSUME NotifyInv
    PROVE  /\ LinkInv /\ NotifyTypeOK /\ Registered /\ CallOrder /\ Published /\ DueOnce
           /\ ConnMax \in Nat /\ slot \in 0 .. ConnMax
           /\ calls \in Seq(Call) /\ Len(calls) \in Nat /\ DOMAIN calls = 1 .. Len(calls)
           /\ due \subseteq ConnIds /\ got \in [ConnIds -> 0 .. ConnMax]
           /\ calls = <<>> <=> Len(calls) = 0
           /\ conn_ctx \in [Apps -> [Slots -> ConnIds \cup {Free}]]
           /\ conn_num_max \in {0, ConnMax} /\ "status" \in Apps
           /\ Walked \in 0 .. ConnMax /\ Ahead \in {0, 1}
<1>1. /\ LinkInv /\ NotifyTypeOK /\ Registered /\ CallOrder /\ Published /\ DueOnce
  BY DEF NotifyInv, ReportInv
<1>2. /\ ConnMax \in Nat /\ slot \in 0 .. ConnMax
      /\ calls \in Seq(Call) /\ due \subseteq ConnIds /\ got \in [ConnIds -> 0 .. ConnMax]
  BY <1>1, StatusFacts DEF NotifyTypeOK
<1>3. /\ Len(calls) \in Nat /\ DOMAIN calls = 1 .. Len(calls)
      /\ calls = <<>> <=> Len(calls) = 0
  BY <1>2
<1>4. /\ conn_ctx \in [Apps -> [Slots -> ConnIds \cup {Free}]]
      /\ conn_num_max \in {0, ConnMax} /\ "status" \in Apps
  BY <1>1, StatusFacts DEF LinkInv, BleInv, BleTypeOK
<1>5. Walked \in 0 .. ConnMax /\ Ahead \in {0, 1}
  BY <1>2 DEF Walked, Ahead
<1>. QED  BY <1>1, <1>2, <1>3, <1>4, <1>5

LEMMA StoreStep ==
    ASSUME NotifyInv, NEW b \in Bats, NEW v \in Readings, StoreRecord(b, v)
    PROVE  NotifyInv'
<1>0. UNCHANGED ble_vars
  BY DEF StoreRecord
<1>1. NotifyTypeOK'
  <2>1. [c \in ConnIds |-> 0] \in [ConnIds -> 0 .. ConnMax]
    BY StatusFacts
  <2>2. cache' \in [Bats -> Records] /\ v \in Records
    BY NotifyFacts, StatusFacts DEF StoreRecord, NotifyTypeOK
  <2>. QED  BY <2>1, <2>2, NotifyFacts DEF StoreRecord, NotifyTypeOK
<1>2. Registered'
  BY <1>0, Apart, NotifyFacts DEF StoreRecord, Registered
<1>3. CallOrder'
  BY NotifyFacts DEF StoreRecord, CallOrder, Walked, Ahead, First
<1>4. Published'
  <2>1. cache \in [Bats -> Records]
    BY NotifyFacts DEF NotifyTypeOK
  <2>. QED  BY <2>1 DEF StoreRecord, Published
<1>5. DueOnce'
  BY DEF StoreRecord, DueOnce
<1>. QED  BY <1>0, <1>1, <1>2, <1>3, <1>4, <1>5, Apart DEF NotifyInv, ReportInv

LEMMA PublishStep == ASSUME NotifyInv, Publish PROVE NotifyInv'
<1>0. UNCHANGED ble_vars
  BY DEF Publish
<1>. DEFINE call == [what |-> "value", val |-> cache]
<1>1. /\ calls = <<>> /\ bms = "stored" /\ bms' = "alloc"
      /\ UNCHANGED <<bat, slot, pick, cache, attr, due, got, rec, zeroed>>
      /\ IF attr_hndl["status"] = "set" THEN calls' = <<call>> ELSE calls' = calls
  BY NotifyFacts DEF Publish, Ask, Copied, CallOrder
<1>2. call \in Call /\ call.what = "value" /\ call.val = cache
  BY NotifyFacts DEF Call, NotifyTypeOK
<1>. HIDE DEF call
<1>3. /\ calls' \in Seq(Call) /\ Len(calls') \in {0, 1}
      /\ (Len(calls') = 1 /\ calls'[1] = call) \/ calls' = <<>>
  <2>1. CASE calls' = <<call>>
    BY <1>2, <2>1
  <2>2. CASE calls' = <<>>
    BY <2>2
  <2>. QED  BY <1>1, <2>1, <2>2
<1>4. NotifyTypeOK'
  <2>1. Len(calls') <= ConnMax + 1
    <3>1. ConnMax \in Nat
      BY StatusFacts
    <3>2. \A k \in {0, 1} : k <= ConnMax + 1
      BY <3>1
    <3>. QED  BY <1>3, <3>2
  <2>. QED  BY <1>1, <1>3, <2>1, NotifyFacts DEF NotifyTypeOK
<1>5. Registered'
  BY <1>0, <1>1, Apart, NotifyFacts DEF Registered
<1>6. CallOrder'
  <2>1. \A c \in ConnIds : got[c] = 0
    <3>1. \A c \in ConnIds : got[c] + Len(calls) <= Walked + Ahead /\ got[c] \in 0 .. ConnMax
      BY NotifyFacts DEF CallOrder
    <3>2. Walked = 0 /\ Ahead = 0 /\ Len(calls) = 0
      BY <1>1 DEF Walked, Ahead, First
    <3>. QED  BY <3>1, <3>2, NotifyFacts
  <2>2. Walked' = 0 /\ Ahead' = Len(calls')
    BY <1>1, <1>2, <1>3 DEF Walked, Ahead, First
  <2>3. \A n \in DOMAIN calls' : ~(n > 1)
    BY <1>3
  <2>. QED  BY <1>1, <1>3, <2>1, <2>2, <2>3 DEF CallOrder
<1>7. Published'
  <2>1. zeroed = "no" => cache[bat] = rec
    BY <1>1, NotifyFacts DEF Published
  <2>. QED  BY <1>0, <1>1, <1>2, <2>1, Apart DEF Published, First
<1>8. DueOnce'
  BY <1>1, NotifyFacts DEF DueOnce
<1>. QED  BY <1>0, <1>4, <1>5, <1>6, <1>7, <1>8, Apart DEF NotifyInv, ReportInv

LEMMA OomStep == ASSUME NotifyInv, MsgOom PROVE NotifyInv'
<1>0. /\ UNCHANGED ble_vars /\ bms = "alloc" /\ bms' = "wait"
      /\ UNCHANGED <<bat, slot, pick, cache, attr, calls, due, got, rec, zeroed>>
  BY DEF MsgOom
<1>1. NotifyTypeOK'
  BY <1>0, NotifyFacts DEF NotifyTypeOK
<1>2. Registered'
  BY <1>0, Apart, NotifyFacts DEF Registered
<1>3. CallOrder'
  <2>1. Walked = 0 /\ Walked' = ConnMax /\ Ahead' = Ahead
    BY <1>0 DEF Walked, Ahead, First
  <2>2. Len(calls) <= ConnMax + Ahead
    BY <2>1, NotifyFacts DEF CallOrder
  <2>3. \A c \in ConnIds : got[c] + Len(calls) <= ConnMax + Ahead
    <3>1. \A c \in ConnIds : got[c] + Len(calls) <= Walked + Ahead /\ got[c] \in 0 .. ConnMax
      BY NotifyFacts DEF CallOrder
    <3>. QED  BY <2>1, <3>1, NotifyFacts
  <2>. QED  BY <1>0, <2>1, <2>2, <2>3, NotifyFacts DEF CallOrder
<1>4. Published'
  BY <1>0, NotifyFacts DEF Published, First
<1>5. DueOnce'
  BY <1>0, NotifyFacts DEF DueOnce
<1>. QED  BY <1>0, <1>1, <1>2, <1>3, <1>4, <1>5, Apart DEF NotifyInv, ReportInv

LEMMA BeginStep == ASSUME NotifyInv, NotifyBegin PROVE NotifyInv'
<1>0. /\ UNCHANGED ble_vars /\ bms = "alloc" /\ bms' = "look" /\ slot' = 0
      /\ UNCHANGED <<bat, pick, cache, attr, calls, got, rec, zeroed>>
      /\ due' \subseteq ConnIds
      /\ \A c \in due' : /\ attr_hndl["status"] = "set" /\ Listed("status", c)
                         /\ \A i \in Ifs : ~Pending("disconnect", i, c)
  <2>1. links \subseteq ConnIds
    BY NotifyFacts DEF LinkInv, BleInv, BleTypeOK
  <2>. QED  BY <2>1 DEF NotifyBegin
<1>1. NotifyTypeOK'
  BY <1>0, NotifyFacts DEF NotifyTypeOK
<1>2. Registered'
  BY <1>0, Apart, NotifyFacts DEF Registered
<1>3. Walked = 0 /\ Walked' = 0 /\ Ahead' = Ahead
  BY <1>0 DEF Walked, Ahead, First
<1>4. CallOrder'
  BY <1>0, <1>3, NotifyFacts DEF CallOrder
<1>5. Published'
  BY <1>0, Apart, NotifyFacts DEF Published, First
<1>6. DueOnce'
  <2>1. \A c \in ConnIds : got[c] = 0
    <3>1. \A c \in ConnIds : got[c] + Len(calls) <= Ahead /\ got[c] \in 0 .. ConnMax
      BY <1>3, NotifyFacts DEF CallOrder
    <3>2. Ahead <= Len(calls)
      BY NotifyFacts DEF Ahead, First
    <3>. QED  BY <3>1, <3>2, NotifyFacts
  <2>2. \A n \in DOMAIN calls : \A c : ~Told(n, c)
    <3>1. Len(calls) <= Ahead
      BY <1>3, NotifyFacts DEF CallOrder
    <3>2. \A n \in DOMAIN calls : n = 1 /\ First("value")
      BY <3>1, NotifyFacts DEF Ahead
    <3>. QED  BY <3>2 DEF First, Told
  <2>3. \A c : ~Passed(c)'
    BY <1>0 DEF Passed
  <2>4. \A n, c : Told(n, c)' <=> Told(n, c)
    BY <1>0 DEF Told
  <2>5. \A c \in due' : Listed("status", c)' /\ \A i \in Ifs : ~Pending("disconnect", i, c)'
    BY <1>0, Apart
  <2>. QED  BY <1>0, <2>1, <2>2, <2>3, <2>4, <2>5 DEF DueOnce
<1>. QED  BY <1>0, <1>1, <1>2, <1>4, <1>5, <1>6, Apart DEF NotifyInv, ReportInv

LEMMA LookStep == ASSUME NotifyInv, Look PROVE NotifyInv'
<1>. DEFINE d == conn_ctx["status"][slot]
<1>0. /\ UNCHANGED ble_vars /\ bms = "look" /\ slot < conn_num_max
      /\ UNCHANGED <<bat, cache, attr, calls, due, got, rec, zeroed>>
      /\ \/ d = Free /\ slot' = slot + 1 /\ UNCHANGED <<bms, pick>>
         \/ d # Free /\ pick' = d /\ bms' = "send" /\ slot' = slot
  BY DEF Look, PastFree
<1>1. slot < ConnMax /\ slot \in Slots /\ slot \in Nat /\ d \in ConnIds \cup {Free}
  <2>1. slot < ConnMax /\ slot \in Slots /\ slot \in Nat
    BY <1>0, NotifyFacts
  <2>. QED  BY <2>1, NotifyFacts
<1>2. slot' \in 0 .. ConnMax /\ (slot' = slot \/ slot' = slot + 1)
  BY <1>0, <1>1, NotifyFacts
<1>3. NotifyTypeOK'
  BY <1>0, <1>1, <1>2, NotifyFacts DEF NotifyTypeOK
<1>4. Registered'
  BY <1>0, Apart, NotifyFacts DEF Registered
<1>5. CallOrder'
  <2>1. Walked = slot /\ Walked' = slot' /\ Ahead' = Ahead
    BY <1>0 DEF Walked, Ahead, First
  <2>2. Len(calls) <= slot' + Ahead
    BY <1>1, <1>2, <2>1, NotifyFacts DEF CallOrder
  <2>3. \A c \in ConnIds : got[c] + Len(calls) <= slot' + Ahead
    <3>1. \A c \in ConnIds : got[c] + Len(calls) <= slot + Ahead /\ got[c] \in 0 .. ConnMax
      BY <2>1, NotifyFacts DEF CallOrder
    <3>. QED  BY <1>1, <1>2, <3>1, NotifyFacts
  <2>4. bms' = "send" => slot' < ConnMax
    BY <1>0, <1>1
  <2>. QED  BY <1>0, <2>1, <2>2, <2>3, <2>4, NotifyFacts DEF CallOrder
<1>6. Published'
  BY <1>0, Apart, NotifyFacts DEF Published, First
<1>7. DueOnce'
  <2>1. \A c \in due : Passed(c)' <=> Passed(c)
    <3>. SUFFICES ASSUME NEW c \in due PROVE Passed(c)' <=> Passed(c)
      OBVIOUS
    <3>1. c # Free
      BY NotifyFacts, StatusFacts
    <3>2. CASE slot' = slot
      BY <1>0, <3>2, Apart DEF Passed
    <3>3. CASE d = Free /\ slot' = slot + 1
      <4>1. \A s \in Slots : conn_ctx["status"][s] = c => (s < slot <=> s < slot + 1)
        BY <1>1, <3>1, <3>3
      <4>. QED  BY <1>0, <3>3, <4>1, Apart DEF Passed
    <3>. QED  BY <1>0, <3>2, <3>3
  <2>2. \A n, c : Told(n, c)' <=> Told(n, c)
    BY <1>0 DEF Told
  <2>3. bms' = "send" => \A c : pick' = c <=> conn_ctx'["status"][slot'] = c
    BY <1>0, Apart
  <2>. QED  BY <1>0, <2>1, <2>2, <2>3, Apart, NotifyFacts DEF DueOnce
<1>. QED  BY <1>0, <1>3, <1>4, <1>5, <1>6, <1>7, Apart DEF NotifyInv, ReportInv

LEMMA EndStep == ASSUME NotifyInv, NotifyEnd PROVE NotifyInv'
<1>0. /\ UNCHANGED ble_vars /\ bms = "look" /\ bms' = "wait" /\ slot >= conn_num_max
      /\ UNCHANGED <<bat, slot, pick, cache, attr, calls, due, got, rec, zeroed>>
  BY DEF NotifyEnd
<1>1. slot = ConnMax
  <2>1. conn_num_max = ConnMax
    BY <1>0, NotifyFacts DEF Registered
  <2>. QED  BY <1>0, <2>1, NotifyFacts
<1>2. NotifyTypeOK'
  BY <1>0, NotifyFacts DEF NotifyTypeOK
<1>3. Registered'
  BY <1>0, Apart, NotifyFacts DEF Registered
<1>4. CallOrder'
  <2>1. Walked' = Walked /\ Ahead' = Ahead
    BY <1>0, <1>1 DEF Walked, Ahead, First
  <2>. QED  BY <1>0, <2>1, NotifyFacts DEF CallOrder
<1>5. Published'
  BY <1>0, NotifyFacts DEF Published, First
(* The task has passed every slot.                                         *)
<1>6. DueOnce'
  <2>1. \A c \in due : Passed(c) /\ Passed(c)'
    <3>1. \A s \in Slots : s < slot
      BY <1>1, NotifyFacts
    <3>2. \A c \in due : Listed("status", c)
      BY NotifyFacts DEF DueOnce
    <3>. QED  BY <1>0, <3>1, <3>2 DEF Passed, Listed
  <2>2. \A n, c : Told(n, c)' <=> Told(n, c)
    BY <1>0 DEF Told
  <2>. QED  BY <1>0, <2>1, <2>2, Apart, NotifyFacts DEF DueOnce
<1>. QED  BY <1>0, <1>2, <1>3, <1>4, <1>5, <1>6, Apart DEF NotifyInv, ReportInv

LEMMA SendStep == ASSUME NotifyInv, SendIndicate PROVE NotifyInv'
<1>. DEFINE call == [what |-> "indicate", conn |-> pick]
            L == Len(calls) + 1
<1>0. /\ UNCHANGED ble_vars /\ bms = "send" /\ bms' = "look" /\ slot' = slot + 1
      /\ UNCHANGED <<bat, pick, cache, attr, due, got, rec, zeroed>>
      /\ IF attr_hndl["status"] = "set" THEN calls' = Append(calls, call) ELSE calls' = calls
  BY DEF SendIndicate, Ask
<1>1. /\ slot < ConnMax /\ slot \in Slots /\ slot' \in 0 .. ConnMax
      /\ pick \in ConnIds /\ slot \in Nat
  BY <1>0, NotifyFacts DEF CallOrder, NotifyTypeOK
<1>2. call \in Call /\ call.what = "indicate" /\ call.conn = pick
  BY <1>1 DEF Call
<1>. HIDE DEF call
<1>3. /\ calls' \in Seq(Call) /\ Len(calls') \in Nat /\ Len(calls') <= L
      /\ DOMAIN calls' = 1 .. Len(calls')
      /\ calls' # <<>> => attr_hndl["status"] = "set"
      /\ \A n \in DOMAIN calls' : \/ n = L /\ calls'[n] = call
                                  \/ n \in DOMAIN calls /\ calls'[n] = calls[n]
      /\ \A n \in DOMAIN calls : n \in DOMAIN calls' /\ calls'[n] = calls[n] /\ n # L
  <2>1. CASE calls' = calls /\ attr_hndl["status"] # "set"
    <3>1. calls = <<>>
      BY <2>1, NotifyFacts DEF Registered
    <3>. QED  BY <2>1, <3>1
  <2>2. CASE calls' = Append(calls, call) /\ attr_hndl["status"] = "set"
    BY <1>2, <2>2, NotifyFacts
  <2>. QED  BY <1>0, <2>1, <2>2
<1>4. First("value")' <=> First("value")
  <2>1. CASE calls = <<>>
    <3>1. calls' = <<>> \/ (calls' # <<>> /\ calls'[1] = call)
      BY <1>0, <2>1
    <3>. QED  BY <1>2, <2>1, <3>1 DEF First
  <2>2. CASE calls # <<>>
    <3>1. 1 \in DOMAIN calls
      BY <2>2, NotifyFacts
    <3>2. calls' # <<>> /\ calls'[1] = calls[1]
      BY <1>3, <3>1
    <3>. QED  BY <2>2, <3>2 DEF First
  <2>. QED  BY <2>1, <2>2
<1>5. Walked = slot /\ Walked' = slot + 1 /\ Ahead' = Ahead
  BY <1>0, <1>4 DEF Walked, Ahead
<1>6. CallOrder'
  <2>1. Len(calls') <= slot + 1 + Ahead
    BY <1>1, <1>3, <1>5, NotifyFacts DEF CallOrder
  <2>2. \A c \in ConnIds : got[c] + Len(calls') <= slot + 1 + Ahead
    <3>1. \A c \in ConnIds : got[c] + Len(calls) <= slot + Ahead /\ got[c] \in 0 .. ConnMax
      BY <1>5, NotifyFacts DEF CallOrder
    <3>. QED  BY <1>1, <1>3, <3>1, NotifyFacts
  <2>3. \A n \in DOMAIN calls' : n > 1 => calls'[n].what = "indicate"
    BY <1>2, <1>3, NotifyFacts DEF CallOrder
  <2>. QED  BY <1>0, <1>5, <2>1, <2>2, <2>3 DEF CallOrder
<1>7. NotifyTypeOK'
  <2>1. Len(calls') <= ConnMax + 1
    BY <1>1, <1>3, <1>5, NotifyFacts DEF CallOrder
  <2>. QED  BY <1>0, <1>1, <1>3, <2>1, NotifyFacts DEF NotifyTypeOK
<1>8. Registered'
  <2>1. Registered
    BY NotifyFacts
  <2>2. boot = Len(AppOrder) + 1 /\ has_ctx["status"]
    BY <1>0, <2>1 DEF Registered
  <2>3. calls' # <<>> \/ due # {} => attr_hndl["status"] = "set"
    BY <1>3, <2>1 DEF Registered
  <2>. QED  BY <1>0, <2>1, <2>2, <2>3, Apart DEF Registered
<1>9. Published'
  <2>1. attr_hndl["status"] = "set" /\ zeroed = "no" =>
           IF First("value") THEN calls[1].val[bat] = rec ELSE attr[bat] = rec
    BY <1>0, NotifyFacts DEF Published
  <2>2. First("value") => calls'[1] = calls[1]
    <3>1. First("value") => 1 \in DOMAIN calls
      BY NotifyFacts DEF First
    <3>. QED  BY <1>3, <3>1
  <2>3. calls' # <<>> \/ attr_hndl'["status"] = "set" => attr_hndl["status"] = "set"
    BY <1>0, <1>3, Apart
  <2>. QED  BY <1>0, <1>4, <2>1, <2>2, <2>3 DEF Published
<1>10. DueOnce'
  <2>. SUFFICES ASSUME NEW c \in due
                PROVE  /\ \A m, n \in DOMAIN calls' : Told(m, c)' /\ Told(n, c)' => m = n
                       /\ (\E n \in DOMAIN calls' : Told(n, c)') => got[c] = 0 /\ Passed(c)'
                       /\ (\A n \in DOMAIN calls' : ~Told(n, c)') =>
                             got[c] = IF Passed(c)' THEN 1 ELSE 0
    BY <1>0, Apart, NotifyFacts DEF DueOnce
  <2>1. /\ Listed("status", c)
        /\ pick = c <=> conn_ctx["status"][slot] = c
        /\ \A m, n \in DOMAIN calls : Told(m, c) /\ Told(n, c) => m = n
        /\ (\E n \in DOMAIN calls : Told(n, c)) => got[c] = 0 /\ Passed(c)
        /\ (\A n \in DOMAIN calls : ~Told(n, c)) => got[c] = IF Passed(c) THEN 1 ELSE 0
    BY <1>0, NotifyFacts DEF DueOnce
  <2>2. /\ calls' = Append(calls, call) /\ L \in DOMAIN calls'
        /\ c # Free
    <3>1. calls' = Append(calls, call)
      BY <1>0, NotifyFacts DEF Registered
    <3>. QED  BY <1>2, <3>1, NotifyFacts, StatusFacts
  <2>3. \A n : n \in DOMAIN calls' /\ Told(n, c)' <=>
           (n \in DOMAIN calls /\ Told(n, c)) \/ (n = L /\ pick = c)
    <3>1. calls'[L] = call
      BY <1>3, <2>2
    <3>. QED  BY <1>2, <1>3, <2>2, <3>1 DEF Told
  <2>4. Passed(c)' <=> \E s \in Slots : s < slot + 1 /\ conn_ctx["status"][s] = c
    BY <1>0, Apart DEF Passed
  <2>5. Passed(c) <=> \E s \in Slots : s < slot /\ conn_ctx["status"][s] = c
    BY <1>0 DEF Passed
  <2>6. CASE pick = c
    <3>1. conn_ctx["status"][slot] = c
      BY <2>1, <2>6
    <3>2. \A s \in Slots : s # slot => conn_ctx["status"][s] # c
      <4>1. ListedIsKnown
        BY NotifyFacts DEF LinkInv
      <4>. QED  BY <1>1, <2>2, <3>1, <4>1, NotifyFacts DEF ListedIsKnown
    <3>3. ~Passed(c) /\ Passed(c)'
      BY <1>1, <2>4, <2>5, <3>1, <3>2
    <3>4. \A n \in DOMAIN calls : ~Told(n, c)
      BY <2>1, <3>3
    <3>. QED  BY <2>1, <2>2, <2>3, <2>6, <3>3, <3>4
  <2>7. CASE pick # c
    <3>1. conn_ctx["status"][slot] # c
      BY <2>1, <2>7
    <3>2. Passed(c)' <=> Passed(c)
      <4>1. \A s \in Slots : conn_ctx["status"][s] = c => (s < slot <=> s < slot + 1)
        BY <1>1, <3>1
      <4>. QED  BY <2>4, <2>5, <4>1
    <3>3. \A n : n \in DOMAIN calls' /\ Told(n, c)' <=> n \in DOMAIN calls /\ Told(n, c)
      BY <2>3, <2>7
    <3>. QED  BY <2>1, <3>2, <3>3
  <2>. QED  BY <2>6, <2>7
<1>. QED  BY <1>0, <1>6, <1>7, <1>8, <1>9, <1>10, Apart DEF NotifyInv, ReportInv

-----------------------------------------------------------------------------
(* The calls the stack serves.                                             *)

LEMMA ServedCalls ==
    ASSUME calls \in Seq(Call), calls # <<>>, calls' = Tail(calls)
    PROVE  /\ calls' \in Seq(Call) /\ Len(calls') = Len(calls) - 1
           /\ Head(calls) = calls[1] /\ calls[1] \in Call /\ 1 \in DOMAIN calls
           /\ DOMAIN calls' = 1 .. Len(calls')
           /\ \A n \in DOMAIN calls' : n + 1 \in DOMAIN calls /\ calls'[n] = calls[n + 1]
                                       /\ n \in Nat /\ n > 0
           /\ \A n \in DOMAIN calls : n # 1 =>
                 n - 1 \in DOMAIN calls' /\ calls'[n - 1] = calls[n] /\ n \in Nat
OBVIOUS

(* The call at the head is gone and the history has one notification more, *)
(* or the characteristic the value that was published.                     *)
LEMMA ServeStep ==
    ASSUME NotifyInv, UNCHANGED <<ble_vars, bms, bat, slot, pick, cache, due, rec, zeroed>>,
           calls # <<>>, calls' = Tail(calls),
           \/ /\ calls[1].what = "value" /\ attr' = calls[1].val /\ got' = got
           \/ /\ calls[1].what = "indicate" /\ attr' = attr
              /\ got' = IF calls[1].conn \in links
                        THEN [got EXCEPT ![calls[1].conn] = @ + 1] ELSE got
    PROVE  NotifyInv'
<1>0. /\ calls' \in Seq(Call) /\ Len(calls') = Len(calls) - 1
      /\ calls[1] \in Call /\ 1 \in DOMAIN calls
      /\ DOMAIN calls' = 1 .. Len(calls')
      /\ \A n \in DOMAIN calls' : n + 1 \in DOMAIN calls /\ calls'[n] = calls[n + 1]
                                  /\ n \in Nat /\ n > 0
      /\ \A n \in DOMAIN calls : n # 1 =>
            n - 1 \in DOMAIN calls' /\ calls'[n - 1] = calls[n] /\ n \in Nat
  BY ServedCalls, NotifyFacts
<1>1. /\ calls[1].what = "value" => calls[1].val \in [Bats -> Records]
      /\ calls[1].what = "indicate" => calls[1].conn \in ConnIds
  BY <1>0 DEF Call
<1>2. Len(calls) \in Nat \ {0} /\ Len(calls') \in Nat
  BY <1>0, NotifyFacts
<1>3. \A n \in DOMAIN calls' : calls'[n].what = "indicate"
  <2>1. \A n \in DOMAIN calls' : n + 1 > 1
    BY <1>0
  <2>. QED  BY <1>0, <2>1, NotifyFacts DEF CallOrder
<1>4. ~First("value")' /\ Ahead' = 0
  <2>1. calls' # <<>> => 1 \in DOMAIN calls'
    BY <1>0, <1>2
  <2>. QED  BY <1>3, <2>1 DEF First, Ahead
<1>5. /\ Walked' = Walked
      /\ Ahead = IF calls[1].what = "value" THEN 1 ELSE 0
  BY DEF Walked, Ahead, First
<1>6. \A c \in ConnIds : /\ got'[c] + Len(calls') <= Walked
                         /\ got'[c] \in Nat /\ got[c] <= got'[c]
  <2>. SUFFICES ASSUME NEW c \in ConnIds
                PROVE  got'[c] + Len(calls') <= Walked /\ got'[c] \in Nat /\ got[c] <= got'[c]
    OBVIOUS
  <2>1. got[c] + Len(calls) <= Walked + Ahead /\ got[c] \in Nat
    BY NotifyFacts DEF CallOrder
  <2>2. CASE calls[1].what = "value"
    BY <1>0, <1>2, <1>5, <2>1, <2>2, NotifyFacts
  <2>3. CASE calls[1].what = "indicate"
    <3>1. got'[c] = got[c] \/ got'[c] = got[c] + 1
      BY <1>1, <2>3, NotifyFacts
    <3>. QED  BY <1>0, <1>2, <1>5, <2>1, <2>3, <3>1, NotifyFacts
  <2>. QED  BY <2>2, <2>3
<1>7. CallOrder'
  <2>1. Len(calls) <= Walked + Ahead
    BY NotifyFacts DEF CallOrder
  <2>2. Len(calls') <= Walked
    BY <1>0, <1>2, <1>5, <2>1, NotifyFacts
  <2>3. bms # "stored" /\ (bms = "send" => slot < ConnMax)
    BY NotifyFacts DEF CallOrder
  <2>4. \A c \in ConnIds : got'[c] + Len(calls') <= Walked + 0
    BY <1>2, <1>6, NotifyFacts
  <2>5. Len(calls') <= Walked + 0
    BY <1>2, <2>2, NotifyFacts
  <2>. QED  BY <1>3, <1>4, <1>5, <2>3, <2>4, <2>5 DEF CallOrder
<1>8. NotifyTypeOK'
  <2>1. got' \in [ConnIds -> 0 .. ConnMax]
    <3>1. \A c \in ConnIds : got'[c] \in 0 .. ConnMax
      BY <1>2, <1>6, NotifyFacts
    <3>2. got' \in [ConnIds -> Nat]
      BY <1>1, <1>6, NotifyFacts
    <3>. QED  BY <3>1, <3>2
  <2>2. attr' \in [Bats -> Records]
    BY <1>1, NotifyFacts DEF NotifyTypeOK
  <2>3. Len(calls') <= ConnMax + 1
    BY <1>0, <1>2, NotifyFacts DEF NotifyTypeOK
  <2>. QED  BY <1>0, <2>1, <2>2, <2>3, NotifyFacts DEF NotifyTypeOK
<1>9. Registered'
  <2>1. Registered /\ attr_hndl["status"] = "set" /\ boot = Len(AppOrder) + 1
    BY NotifyFacts DEF Registered
  <2>. QED  BY <2>1, Apart DEF Registered
<1>10. Published'
  <2>1. zeroed = "no" =>
           IF calls[1].what = "value" THEN calls[1].val[bat] = rec ELSE attr[bat] = rec
    BY NotifyFacts DEF Published, First
  <2>2. zeroed = "no" => attr'[bat] = rec
    BY <2>1
  <2>3. bms # "stored"
    BY NotifyFacts DEF CallOrder
  <2>. QED  BY <1>4, <2>2, <2>3 DEF Published
<1>11. DueOnce'
  <2>. SUFFICES ASSUME NEW c \in due
                PROVE  /\ \A m, n \in DOMAIN calls' : Told(m, c)' /\ Told(n, c)' => m = n
                       /\ (\E n \in DOMAIN calls' : Told(n, c)') => got'[c] = 0 /\ Passed(c)
                       /\ (\A n \in DOMAIN calls' : ~Told(n, c)') =>
                             got'[c] = IF Passed(c) THEN 1 ELSE 0
    <3>1. \A c : Passed(c)' <=> Passed(c)
      BY Apart DEF Passed
    <3>2. DueOnce
      BY NotifyFacts
    <3>3. bms \notin {"stored", "alloc"} \/ due = {}
      BY <3>2 DEF DueOnce
    <3>. QED  BY <3>1, <3>2, Apart DEF DueOnce
  <2>0. c \in ConnIds /\ c # Free
    BY NotifyFacts, StatusFacts
  <2>1. /\ Listed("status", c) /\ \A i \in Ifs : ~Pending("disconnect", i, c)
        /\ \A m, n \in DOMAIN calls : Told(m, c) /\ Told(n, c) => m = n
        /\ (\E n \in DOMAIN calls : Told(n, c)) => got[c] = 0 /\ Passed(c)
        /\ (\A n \in DOMAIN calls : ~Told(n, c)) => got[c] = IF Passed(c) THEN 1 ELSE 0
    BY NotifyFacts DEF DueOnce
  (* A link that is due is up.                                             *)
  <2>2. c \in links
    <3>1. ListedIsKnown /\ ToldOnceReady
      BY NotifyFacts DEF LinkInv
    <3>2. PICK s \in Slots : conn_ctx["status"][s] = c
      BY <2>1 DEF Listed
    <3>3. PICK i \in Ifs : c \in told[i] \/ Pending("disconnect", i, c)
      BY <2>0, <3>1, <3>2, StatusFacts DEF ListedIsKnown
    <3>. QED  BY <2>1, <3>1, <3>3 DEF ToldOnceReady
  <2>3. \A n \in DOMAIN calls' : Told(n, c)' => Told(n + 1, c) /\ n + 1 \in DOMAIN calls /\ n + 1 # 1
    BY <1>0 DEF Told
  <2>4. \A n \in DOMAIN calls : Told(n, c) /\ n # 1 =>
           n - 1 \in DOMAIN calls' /\ Told(n - 1, c)'
    BY <1>0 DEF Told
  <2>5. \A m, n \in DOMAIN calls' : Told(m, c)' /\ Told(n, c)' => m = n
    <3>. SUFFICES ASSUME NEW m \in DOMAIN calls', NEW n \in DOMAIN calls',
                         Told(m, c)', Told(n, c)'
                  PROVE  m = n
      OBVIOUS
    <3>1. m + 1 = n + 1
      BY <2>1, <2>3
    <3>. QED  BY <1>0, <3>1
  <2>6. CASE Told(1, c)
    <3>1. got[c] = 0 /\ Passed(c) /\ \A n \in DOMAIN calls' : ~Told(n, c)'
      BY <1>0, <2>1, <2>3, <2>6
    <3>2. got'[c] = 1
      BY <1>1, <2>0, <2>2, <2>6, <3>1, NotifyFacts DEF Told
    <3>. QED  BY <2>5, <3>1, <3>2
  <2>7. CASE ~Told(1, c)
    <3>1. got'[c] = got[c]
      BY <1>1, <2>7, NotifyFacts DEF Told
    <3>2. (\E n \in DOMAIN calls : Told(n, c)) <=> (\E n \in DOMAIN calls' : Told(n, c)')
      BY <2>3, <2>4, <2>7
    <3>. QED  BY <2>1, <2>5, <3>1, <3>2
  <2>. QED  BY <2>6, <2>7
<1>. QED  BY <1>7, <1>8, <1>9, <1>10, <1>11, Apart DEF NotifyInv, ReportInv

LEMMA NotifyNext == ASSUME NotifyInv, [StatusNext]_status_vars PROVE NotifyInv'
<1>1. CASE UNCHANGED status_vars
  <2>1. LinkInv'
    BY <1>1, LinkNext DEF NotifyInv, ReportInv, status_vars
  <2>2. UNCHANGED <<boot, list_mem, conn_num_max, has_ctx, attr_hndl, conn_ctx, evq>>
        /\ UNCHANGED <<bms, bat, slot, pick, cache, attr, calls, due, got, rec, zeroed>>
    BY <1>1 DEF status_vars, notify_vars, ble_vars, app_vars, stack_vars
  <2>3. NotifyTypeOK' /\ Registered' /\ CallOrder' /\ Published'
    BY <2>2 DEF NotifyInv, ReportInv, NotifyTypeOK, Registered, CallOrder, Walked, Ahead, First, Published
  <2>4. DueOnce'
    BY <2>2 DEF NotifyInv, ReportInv, DueOnce, Listed, Pending, Comes, About, Told, Passed
  <2>. QED  BY <2>1, <2>3, <2>4 DEF NotifyInv, ReportInv
<1>2. CASE BmsTask
  BY <1>2, StoreStep, PublishStep, OomStep, BeginStep, LookStep, SendStep, EndStep DEF BmsTask
<1>3. CASE ServeValue \/ ServeIndicate
  <2>1. calls # <<>> /\ Head(calls) = calls[1]
    BY <1>3, NotifyFacts DEF ServeValue, ServeIndicate
  <2>. QED  BY <1>3, <2>1, ServeStep DEF ServeValue, ServeIndicate
<1>. QED  BY <1>1, <1>2, <1>3, FrameworkInv DEF StatusNext

-----------------------------------------------------------------------------
(* The reports stay in order with the framework and the stack.             *)
THEOREM NotifyInvariance == StatusSpec => []NotifyInv
<1>. QED  BY NotifyInitInv, NotifyNext, PTL DEF StatusSpec

(* The calls of a report come in order and no more than one for each slot  *)
(* and the value; each link due has its notification, or its call, or its  *)
(* slot ahead.                                                             *)
THEOREM ReportInvariance == StatusSpec => []ReportInv
<1>1. NotifyInv => ReportInv
  BY DEF NotifyInv
<1>. QED  BY <1>1, NotifyInvariance, PTL

(* A link that was listed when the loop began, and stays up, is notified   *)
(* once.                                                                   *)
THEOREM ExactlyOnceHolds == StatusSpec => []ExactlyOnce
<1>1. NotifyInv => ExactlyOnce
  <2>. SUFFICES ASSUME NotifyInv, NEW c \in due
                PROVE  /\ got[c] <= 1
                       /\ bms = "wait" /\ calls = <<>> => got[c] = 1
    BY DEF ExactlyOnce
  <2>1. /\ (\E n \in DOMAIN calls : Told(n, c)) => got[c] = 0 /\ Passed(c)
        /\ (\A n \in DOMAIN calls : ~Told(n, c)) => got[c] = IF Passed(c) THEN 1 ELSE 0
    BY NotifyFacts DEF DueOnce
  <2>2. got[c] = 0 \/ got[c] = 1
    BY <2>1
  <2>3. bms = "wait" => Passed(c)
    BY DEF Passed
  <2>. QED  BY <2>1, <2>2, <2>3
<1>. QED  BY <1>1, NotifyInvariance, PTL

(* No peer is notified before the record can be read.                      *)
THEOREM PublishedFirstHolds == StatusSpec => PublishedFirst
<1>1. ASSUME NotifyInv, [StatusNext]_status_vars, NEW c \in ConnIds, got'[c] > got[c],
             zeroed = "no"
      PROVE  attr[bat] = rec
  <2>0. \A d \in ConnIds : got[d] \in Nat /\ ~(got[d] > got[d]) /\ ~(0 > got[d])
    BY <1>1, NotifyFacts
  <2>1. CASE ServeIndicate
    <3>1. calls # <<>> /\ Head(calls) = calls[1] /\ calls[1].what = "indicate"
      BY <1>1, <2>1, NotifyFacts DEF ServeIndicate
    <3>. QED  BY <1>1, <3>1, NotifyFacts DEF Published, First
  <2>2. got' = got \/ (\E d \in ConnIds : got' = [got EXCEPT ![d] = 0])
           \/ got' = [d \in ConnIds |-> 0] \/ ServeIndicate
    BY <1>1 DEF StatusNext, BleStep, notify_vars, status_vars, Forget, AppInit, BmsTask,
       StoreRecord, Publish, MsgOom, NotifyBegin, Look, SendIndicate, NotifyEnd, ServeValue
  <2>3. got \in [ConnIds -> 0 .. ConnMax]
    BY <1>1, NotifyFacts
  <2>. QED  BY <1>1, <2>0, <2>1, <2>2, <2>3
<1>2. NotifyInv /\ [StatusNext]_status_vars =>
         [(\E c \in ConnIds : got'[c] > got[c]) /\ zeroed = "no" => attr[bat] = rec]_status_vars
  BY <1>1
<1>. QED  BY <1>2, NotifyInvariance, PTL DEF StatusSpec, PublishedFirst

(* The reports leave the framework alone: beside them it takes its own     *)
(* steps.                                                                  *)
THEOREM FrameworkAlone == StatusSpec => BleInit /\ [][BleNext]_ble_vars
<1>1. NotifyInit => BleInit
  BY DEF NotifyInit
<1>. QED  BY <1>1, FrameworkSteps, PTL DEF StatusSpec

(* So it lists no connection twice, or longer than until its disconnection *)
(* is handled, while reports are sent.                                     *)
THEOREM ReportedListsHold == StatusSpec => []ListedIsKnown
<1>1. NotifyInv => ListedIsKnown
  BY DEF NotifyInv, LinkInv
<1>. QED  BY <1>1, NotifyInvariance, PTL
=============================================================================
