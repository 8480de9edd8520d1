--------------------------- MODULE BleAppsProofs ---------------------------
(***************************************************************************)
(* Invariants of the BLE application framework, for every list of          *)
(* applications, every limit and every set of connections and payloads.    *)
(***************************************************************************)
EXTENDS BleApps, TLAPS

USE DEF Ifs, Slots, NoIf, Free

(* A fact about sequences: taking the head off.                            *)
LEMMA TailType ==
    ASSUME evq \in Seq(Event), evq # <<>>
    PROVE  Head(evq) \in Event /\ Tail(evq) \in Seq(Event)
OBVIOUS

(* Consuming an event for one interface keeps the queue a queue of events. *)
LEMMA ConsumeType ==
    ASSUME evq \in Seq(Event), evq # <<>>, NEW i \in Ifs, Consume(i)
    PROVE  evq' \in Seq(Event)
<1>1. CASE Head(evq).to = {i}
  BY <1>1 DEF Consume
<1>2. CASE Head(evq).to # {i}
  <2>1. 1 \in 1 .. Len(evq) /\ evq[1] \in Event
    OBVIOUS
  <2>2. [evq[1] EXCEPT !.to = @ \ {i}] \in Event
    BY <2>1 DEF Event
  <2>3. evq' = [evq EXCEPT ![1] = [evq[1] EXCEPT !.to = @ \ {i}]]
    BY <1>2 DEF Consume
  <2>. QED  BY <2>1, <2>2, <2>3
<1>. QED  BY <1>1, <1>2

(* The applications are strings other than the empty table entry.          *)
LEMMA AppFacts ==
    /\ NoApp \notin Apps
    /\ \A k \in DOMAIN AppOrder : AppOrder[k] \in Apps
    /\ AppsMax \in Nat
    /\ DOMAIN AppOrder = 1 .. Len(AppOrder) /\ Len(AppOrder) \in Nat
BY BleAssumption DEF Apps, NoApp

LEMMA BleInitInv == BleInit => BleInv
<1>. SUFFICES ASSUME BleInit PROVE BleInv
  OBVIOUS
<1>1. BleTypeOK
  <2>1. evq \in Seq(Event) /\ boot \in 0 .. Len(AppOrder) + 1
    BY AppFacts DEF BleInit
  <2>2. /\ conn_ctx \in [Apps -> [Slots -> ConnIds \cup {Free}]]
        /\ apps_list \in [0 .. AppsMax - 1 -> Apps \cup {NoApp}]
    BY DEF BleInit
  <2>3. /\ has_ctx \in [Apps -> BOOLEAN]
        /\ attr_hndl \in [Apps -> {"null", "zero", "set", "freed"}]
        /\ ble_if \in [Apps -> Ifs \cup {NoIf}]
    BY DEF BleInit
  <2>4. /\ if_phase \in [Ifs -> {"none", "reg", "tab", "served", "idle"}]
        /\ links \subseteq ConnIds /\ kicked \subseteq ConnIds
        /\ told \in [Ifs -> SUBSET ConnIds]
    BY DEF BleInit
  <2>5. conn_num_max \in {0, ConnMax} /\ curr_app_id \in 0 .. AppsMax
    BY AppFacts DEF BleInit
  <2>6. list_mem \in BOOLEAN
    BY Zenon DEF BleInit
  <2>. QED  BY <2>1, <2>2, <2>3, <2>4, <2>5, <2>6, Zenon DEF BleTypeOK
<1>2. AppTable
  BY DEF BleInit, AppTable
<1>3. Interfaces
  BY DEF BleInit, Interfaces
<1>. QED  BY <1>1, <1>2, <1>3 DEF BleInv

-----------------------------------------------------------------------------
(* Steps that leave the tables alone: only the queue and the stack's own   *)
(* view of the links change.                                               *)
Quiet == UNCHANGED <<boot, app_vars, if_phase>>

LEMMA QuietInv ==
    ASSUME BleInv, Quiet,
           links' \subseteq ConnIds, kicked' \subseteq ConnIds,
           told' \in [Ifs -> SUBSET ConnIds], evq' \in Seq(Event)
    PROVE  BleInv'
<1>1. BleTypeOK'
  BY DEF BleInv, BleTypeOK, Quiet, app_vars
<1>2. AppTable'
  BY DEF BleInv, AppTable, Quiet, app_vars
<1>3. Interfaces'
  BY DEF BleInv, Interfaces, Quiet, app_vars
<1>. QED  BY <1>1, <1>2, <1>3 DEF BleInv

(* What the stack appends to the queue is an event.                        *)
LEMMA AppendType ==
    ASSUME evq \in Seq(Event), NEW to \in SUBSET Ifs, NEW c \in ConnIds
    PROVE  /\ \A kind \in {"connect", "disconnect"} :
                Append(evq, [evt |-> kind, to |-> to, conn |-> c]) \in Seq(Event)
           /\ \A p \in Payloads :
                Append(evq, [evt |-> "write", to |-> to, conn |-> c, data |-> p])
                   \in Seq(Event)
<1>1. ASSUME NEW kind \in {"connect", "disconnect"}
      PROVE  Append(evq, [evt |-> kind, to |-> to, conn |-> c]) \in Seq(Event)
  <2>1. [evt |-> kind, to |-> to, conn |-> c] \in Event
    BY DEF Event
  <2>. QED  BY <2>1
<1>2. ASSUME NEW p \in Payloads
      PROVE  Append(evq, [evt |-> "write", to |-> to, conn |-> c, data |-> p])
                \in Seq(Event)
  <2>1. [evt |-> "write", to |-> to, conn |-> c, data |-> p] \in Event
    BY DEF Event
  <2>. QED  BY <2>1
<1>. QED  BY <1>1, <1>2

LEMMA StackInv == ASSUME BleInv, Stack PROVE BleInv'
<1>. USE DEF BleInv, BleTypeOK
<1>1. ASSUME NEW c \in ConnIds, LinkUp(c) PROVE BleInv'
  <2>1. Quiet /\ links' \subseteq ConnIds /\ kicked' \subseteq ConnIds
    BY <1>1 DEF LinkUp, Quiet
  <2>2. told' \in [Ifs -> SUBSET ConnIds]
    BY <1>1 DEF LinkUp
  <2>3. evq' \in Seq(Event)
    <3>. DEFINE to == {i \in Ifs : Ready(i)}
    <3>1. Append(evq, [evt |-> "connect", to |-> to, conn |-> c]) \in Seq(Event)
      BY AppendType
    <3>. QED  BY <1>1, <3>1 DEF LinkUp
  <2>. QED  BY <2>1, <2>2, <2>3, QuietInv
<1>2. ASSUME NEW c \in ConnIds, LinkDown(c) PROVE BleInv'
  <2>1. Quiet /\ links' \subseteq ConnIds /\ kicked' \subseteq ConnIds
    BY <1>2 DEF LinkDown, Quiet
  <2>2. told' \in [Ifs -> SUBSET ConnIds]
    BY <1>2 DEF LinkDown
  <2>3. evq' \in Seq(Event)
    <3>. DEFINE to == {i \in Ifs : c \in told[i]}
    <3>1. Append(evq, [evt |-> "disconnect", to |-> to, conn |-> c])
             \in Seq(Event)
      BY AppendType
    <3>. QED  BY <1>2, <3>1 DEF LinkDown
  <2>. QED  BY <2>1, <2>2, <2>3, QuietInv
<1>3. ASSUME NEW i \in Ifs, NEW c \in ConnIds, StartIf(i, c) PROVE BleInv'
  <2>1. Quiet /\ links' \subseteq ConnIds /\ kicked' \subseteq ConnIds
    BY <1>3 DEF StartIf, Quiet
  <2>2. told' \in [Ifs -> SUBSET ConnIds]
    BY <1>3 DEF StartIf
  <2>3. evq' \in Seq(Event)
    BY <1>3, AppendType DEF StartIf
  <2>. QED  BY <2>1, <2>2, <2>3, QuietInv
<1>4. ASSUME NEW i \in Ifs, NEW c \in ConnIds, NEW p \in Payloads,
             ClientWrite(i, c, p)
      PROVE  BleInv'
  <2>1. Quiet /\ links' \subseteq ConnIds /\ kicked' \subseteq ConnIds
        /\ told' \in [Ifs -> SUBSET ConnIds]
    BY <1>4 DEF ClientWrite, Quiet
  <2>2. evq' \in Seq(Event)
    BY <1>4, AppendType DEF ClientWrite
  <2>. QED  BY <2>1, <2>2, QuietInv
<1>. QED  BY <1>1, <1>2, <1>3, <1>4 DEF Stack

-----------------------------------------------------------------------------
(* Registration.  A refused one only advances app_main.                    *)
LEMMA BootOnlyInv ==
    ASSUME BleInv, boot' = boot + 1, boot \in 0 .. Len(AppOrder),
           UNCHANGED <<apps_list, curr_app_id, has_ctx, attr_hndl, ble_if,
                       conn_ctx, stack_vars>>,
           conn_num_max' \in {0, ConnMax}, list_mem' \in BOOLEAN
    PROVE  BleInv'
<1>. USE DEF BleInv, stack_vars
<1>1. BleTypeOK'
  <2>1. boot' \in 0 .. Len(AppOrder) + 1
    BY AppFacts
  <2>. QED  BY <2>1 DEF BleTypeOK
<1>2. AppTable'
  <2>1. \A k \in DOMAIN AppOrder : k < boot => k < boot'
    BY AppFacts
  <2>. QED  BY <2>1 DEF AppTable
<1>3. Interfaces'
  BY DEF Interfaces
<1>. QED  BY <1>1, <1>2, <1>3

LEMMA RegisterInv == ASSUME BleInv, Register PROVE BleInv'
<1>. USE DEF BleInv
<1>. DEFINE a == AppOrder[boot]
<1>1. PICK n \in DOMAIN apps_list :
         /\ FirstFree(n)
         /\ apps_list' = [apps_list EXCEPT ![n] = a]
         /\ \/ /\ \E h \in {"null", "freed"} :
                     attr_hndl' = [attr_hndl EXCEPT ![a] = h]
               /\ UNCHANGED <<curr_app_id, has_ctx, conn_ctx, if_phase>>
            \/ /\ attr_hndl' = [attr_hndl EXCEPT ![a] = "zero"]
               /\ has_ctx' = [has_ctx EXCEPT ![a] = TRUE]
               /\ conn_ctx' = [conn_ctx EXCEPT ![a] = [s \in Slots |-> Free]]
               /\ if_phase' = [if_phase EXCEPT ![curr_app_id + 1] = "reg"]
               /\ curr_app_id' = curr_app_id + 1
  BY DEF Register
<1>2. /\ boot \in DOMAIN AppOrder /\ boot' = boot + 1
      /\ UNCHANGED <<conn_num_max, list_mem, ble_if, links, told, kicked, evq>>
  BY DEF Register
<1>3. /\ n \in 0 .. AppsMax - 1 /\ n \in Int
      /\ a \in Apps /\ a # NoApp
      /\ boot \in Int
  BY <1>2, AppFacts DEF BleTypeOK
(* The entry found is at or behind the next identifier.                    *)
<1>4. curr_app_id \in Nat /\ curr_app_id <= n
  BY <1>1, <1>3, AppFacts DEF BleTypeOK, AppTable, FirstFree
<1>5. curr_app_id' \in 0 .. AppsMax
      /\ (curr_app_id' = curr_app_id \/ curr_app_id' = curr_app_id + 1)
  BY <1>1, <1>3, <1>4, AppFacts DEF BleTypeOK
(* The application being registered occupies no entry yet.                 *)
<1>6. \A m \in 0 .. AppsMax - 1 : apps_list[m] # a
  <2>1. \A k \in DOMAIN AppOrder : AppOrder[k] = a => k = boot
    BY <1>2, BleAssumption
  <2>. QED  BY <2>1, <1>2, <1>3, AppFacts DEF AppTable
<1>7. BleTypeOK'
  <2>1. /\ boot' \in 0 .. Len(AppOrder) + 1
        /\ apps_list' \in [0 .. AppsMax - 1 -> Apps \cup {NoApp}]
    BY <1>1, <1>2, <1>3, AppFacts DEF BleTypeOK
  <2>2. /\ attr_hndl' \in [Apps -> {"null", "zero", "set", "freed"}]
        /\ if_phase' \in [Ifs -> {"none", "reg", "tab", "served", "idle"}]
    <3>1. attr_hndl' \in [Apps -> {"null", "zero", "set", "freed"}]
      BY <1>1, <1>3 DEF BleTypeOK
    <3>2. if_phase' \in [Ifs -> {"none", "reg", "tab", "served", "idle"}]
      BY <1>1 DEF BleTypeOK
    <3>. QED  BY <3>1, <3>2
  <2>5. conn_ctx' \in [Apps -> [Slots -> ConnIds \cup {Free}]]
    <3>1. [s \in Slots |-> Free] \in [Slots -> ConnIds \cup {Free}]
      OBVIOUS
    <3>. QED  BY <1>1, <3>1 DEF BleTypeOK
  <2>3. has_ctx' \in [Apps -> BOOLEAN]
    BY <1>1, <1>3 DEF BleTypeOK
  <2>4. /\ conn_num_max' \in {0, ConnMax} /\ list_mem' \in BOOLEAN
        /\ ble_if' \in [Apps -> Ifs \cup {NoIf}]
        /\ links' \subseteq ConnIds /\ kicked' \subseteq ConnIds
        /\ told' \in [Ifs -> SUBSET ConnIds] /\ evq' \in Seq(Event)
    BY <1>2 DEF BleTypeOK
  <2>. QED  BY <1>5, <2>1, <2>2, <2>3, <2>4, <2>5 DEF BleTypeOK
<1>8. AppTable'
  <2>0. apps_list \in [0 .. AppsMax - 1 -> Apps \cup {NoApp}]
    BY DEF BleTypeOK
  <2>1. \A m \in 0 .. AppsMax - 1 : m < curr_app_id' => apps_list'[m] # NoApp
    BY <1>1, <1>3, <1>4, <1>5, <2>0, AppFacts DEF AppTable, FirstFree
  <2>2. \A m \in 0 .. AppsMax - 1 : apps_list'[m] # NoApp =>
           \E k \in DOMAIN AppOrder : k < boot' /\ AppOrder[k] = apps_list'[m]
    BY <1>1, <1>2, <1>3, <2>0, AppFacts DEF AppTable
  <2>3. \A l, m \in 0 .. AppsMax - 1 :
           apps_list'[l] = apps_list'[m] /\ apps_list'[l] # NoApp => l = m
    BY <1>1, <1>3, <1>6, <2>0 DEF AppTable
  <2>. QED  BY <2>1, <2>2, <2>3 DEF AppTable
<1>9. Interfaces'
  <2>0. /\ ble_if \in [Apps -> Ifs \cup {NoIf}]
        /\ if_phase \in [Ifs -> {"none", "reg", "tab", "served", "idle"}]
        /\ attr_hndl \in [Apps -> {"null", "zero", "set", "freed"}]
        /\ apps_list \in [0 .. AppsMax - 1 -> Apps \cup {NoApp}]
        /\ ble_if' = ble_if
    BY <1>2 DEF BleTypeOK
  <2>1. \A i \in Ifs : if_phase'[i] # "none" => i <= curr_app_id'
    BY <1>1, <1>4, <2>0, AppFacts DEF Interfaces
  (* The interface of an application is an old one, in an old entry.       *)
  <2>2. ASSUME NEW b \in Apps, ble_if[b] # NoIf
        PROVE  /\ apps_list[ble_if[b] - 1] = b /\ b # a
               /\ ble_if[b] \in Ifs /\ ble_if[b] - 1 # n
               /\ ble_if[b] # curr_app_id + 1
               /\ if_phase'[ble_if[b]] = if_phase[ble_if[b]]
    <3>1. ble_if[b] \in Ifs /\ ble_if[b] - 1 \in 0 .. AppsMax - 1
      BY <2>0, <2>2, AppFacts
    <3>2. /\ apps_list[ble_if[b] - 1] = b
          /\ if_phase[ble_if[b]] # "none"
          /\ ble_if[b] <= curr_app_id
      BY <2>2, <3>1 DEF Interfaces
    <3>3. b # a
      BY <1>6, <3>1, <3>2
    <3>4. ble_if[b] - 1 # n
      BY <1>1, <1>3, <3>2, AppFacts DEF FirstFree
    <3>5. ble_if[b] # curr_app_id + 1
      BY <1>4, <3>1, <3>2
    <3>. QED  BY <1>1, <2>0, <3>1, <3>2, <3>3, <3>4, <3>5
  <2>3. \A b \in Apps : ble_if'[b] # NoIf =>
           /\ apps_list'[ble_if'[b] - 1] = b
           /\ if_phase'[ble_if'[b]] \notin {"none", "reg"}
    BY <1>1, <1>3, <2>0, <2>2, AppFacts DEF Interfaces
  <2>4. \A b \in Apps : attr_hndl'[b] = "set" =>
           attr_hndl[b] = "set" /\ ble_if[b] # NoIf /\ b # a
    BY <1>1, <1>3, <2>0, <2>2 DEF Interfaces
  <2>5. \A b \in Apps : attr_hndl'[b] = "set" =>
           ble_if'[b] # NoIf /\ if_phase'[ble_if'[b]] = "served"
    BY <2>0, <2>2, <2>4 DEF Interfaces
  <2>. QED  BY <2>1, <2>3, <2>5 DEF Interfaces
<1>. QED  BY <1>7, <1>8, <1>9

LEMMA BleMainInv == ASSUME BleInv, BleMain PROVE BleInv'
<1>1. ASSUME AppsInit PROVE BleInv'
  <2>1. /\ boot' = boot + 1 /\ boot \in 0 .. Len(AppOrder)
        /\ conn_num_max' \in {0, ConnMax}
        /\ UNCHANGED <<apps_list, curr_app_id, has_ctx, attr_hndl, ble_if,
                       conn_ctx, stack_vars>>
    BY <1>1, AppFacts DEF AppsInit, BleInv, BleTypeOK
  <2>2. list_mem' \in BOOLEAN
    BY <1>1, Zenon DEF AppsInit, BleInv, BleTypeOK
  <2>. QED  BY <2>1, <2>2, BootOnlyInv
<1>2. ASSUME RegisterRefused PROVE BleInv'
  BY <1>2, BootOnlyInv, AppFacts
     DEF RegisterRefused, BleInv, BleTypeOK, app_vars
<1>. QED  BY <1>1, <1>2, RegisterInv DEF BleMain

-----------------------------------------------------------------------------
(* The event handler.                                                      *)

LEMMA RegEvtInv == ASSUME BleInv, NEW i \in Ifs, RegEvt(i) PROVE BleInv'
<1>. USE DEF BleInv
<1>. DEFINE a == apps_list[i - 1]
<1>1. /\ if_phase[i] = "reg" /\ i - 1 \in 0 .. AppsMax - 1
      /\ a \in Apps \cup {NoApp}
      /\ UNCHANGED <<boot, conn_num_max, list_mem, apps_list, curr_app_id,
                     has_ctx, attr_hndl, conn_ctx, links, told, kicked, evq>>
  BY AppFacts DEF RegEvt, RegApp, BleTypeOK
<1>2. \/ /\ if_phase' = [if_phase EXCEPT ![i] = "idle"]
         /\ ble_if' = ble_if
      \/ /\ a \in Apps
         /\ ble_if' = [ble_if EXCEPT ![a] = i]
         /\ if_phase' = [if_phase EXCEPT ![i] = "tab"]
  BY <1>1 DEF RegEvt, RegApp
<1>3. /\ if_phase \in [Ifs -> {"none", "reg", "tab", "served", "idle"}]
      /\ ble_if \in [Apps -> Ifs \cup {NoIf}]
      /\ curr_app_id \in Int
  BY AppFacts DEF BleTypeOK
<1>4. BleTypeOK'
  <2>1. /\ if_phase' \in [Ifs -> {"none", "reg", "tab", "served", "idle"}]
        /\ ble_if' \in [Apps -> Ifs \cup {NoIf}]
    BY <1>2, <1>3
  <2>. QED  BY <1>1, <2>1 DEF BleTypeOK
<1>5. AppTable'
  BY <1>1 DEF AppTable
<1>6. Interfaces'
  (* No application holds the interface before this event.                 *)
  <2>1. \A b \in Apps : ble_if[b] # i
    BY <1>1, <1>3, AppFacts DEF Interfaces
  <2>2. ASSUME NEW b \in Apps, ble_if[b] # NoIf
        PROVE  /\ ble_if[b] \in Ifs /\ ble_if[b] # i
               /\ apps_list[ble_if[b] - 1] = b
               /\ if_phase'[ble_if[b]] = if_phase[ble_if[b]]
               /\ b # a
    <3>1. ble_if[b] \in Ifs /\ ble_if[b] - 1 \in 0 .. AppsMax - 1
      BY <1>3, <2>2, AppFacts
    <3>2. ble_if[b] # i /\ apps_list[ble_if[b] - 1] = b
      BY <2>1, <2>2 DEF Interfaces
    <3>3. if_phase'[ble_if[b]] = if_phase[ble_if[b]]
      BY <1>2, <1>3, <3>1, <3>2
    <3>4. i - 1 # ble_if[b] - 1
      BY <3>1, <3>2, AppFacts
    <3>5. b # a
      BY <1>1, <3>1, <3>2, <3>4, AppFacts DEF AppTable
    <3>. QED  BY <3>1, <3>2, <3>3, <3>5
  <2>3. \A j \in Ifs : if_phase'[j] # "none" => j <= curr_app_id'
    BY <1>1, <1>2, <1>3 DEF Interfaces
  <2>4. ASSUME NEW b \in Apps, ble_if'[b] # NoIf
        PROVE  /\ apps_list'[ble_if'[b] - 1] = b
               /\ if_phase'[ble_if'[b]] \notin {"none", "reg"}
    <3>1. CASE ble_if'[b] = ble_if[b]
      BY <1>1, <2>2, <2>4, <3>1 DEF Interfaces
    <3>2. CASE ble_if'[b] # ble_if[b]
      <4>1. b = a /\ ble_if'[b] = i /\ if_phase'[i] = "tab"
        BY <1>2, <1>3, <3>2
      <4>. QED  BY <1>1, <4>1
    <3>. QED  BY <3>1, <3>2
  <2>5. ASSUME NEW b \in Apps, attr_hndl'[b] = "set"
        PROVE  ble_if'[b] # NoIf /\ if_phase'[ble_if'[b]] = "served"
    <3>1. attr_hndl[b] = "set"
      BY <1>1, <2>5
    <3>2. ble_if[b] # NoIf /\ if_phase[ble_if[b]] = "served"
      BY <3>1 DEF Interfaces
    <3>3. ble_if'[b] = ble_if[b]
      BY <1>2, <1>3, <2>2, <3>2
    <3>. QED  BY <2>2, <3>2, <3>3
  <2>. QED  BY <2>3, <2>4, <2>5 DEF Interfaces
<1>. QED  BY <1>4, <1>5, <1>6

LEMMA TableEvtInv == ASSUME BleInv, NEW i \in Ifs, TableEvt(i) PROVE BleInv'
<1>. USE DEF BleInv
<1>0. /\ if_phase \in [Ifs -> {"none", "reg", "tab", "served", "idle"}]
      /\ ble_if \in [Apps -> Ifs \cup {NoIf}]
      /\ attr_hndl \in [Apps -> {"null", "zero", "set", "freed"}]
  BY DEF BleTypeOK
<1>1. ASSUME NEW a \in Apps, TableCreated(i, a) PROVE BleInv'
  <2>1. /\ if_phase[i] = "tab" /\ ble_if[a] = i
        /\ attr_hndl' = [attr_hndl EXCEPT ![a] = "set"]
        /\ if_phase' = [if_phase EXCEPT ![i] = "served"]
        /\ UNCHANGED <<boot, conn_num_max, list_mem, apps_list, curr_app_id,
                       has_ctx, ble_if, conn_ctx, links, told, kicked, evq>>
    BY <1>1 DEF TableCreated, Serves
  <2>2. BleTypeOK'
    <3>1. /\ if_phase' \in [Ifs -> {"none", "reg", "tab", "served", "idle"}]
          /\ attr_hndl' \in [Apps -> {"null", "zero", "set", "freed"}]
      BY <1>0, <2>1
    <3>. QED  BY <2>1, <3>1 DEF BleTypeOK
  <2>3. AppTable'
    BY <2>1 DEF AppTable
  <2>4. Interfaces'
    BY <1>0, <2>1, AppFacts DEF Interfaces
  <2>. QED  BY <2>2, <2>3, <2>4
<1>2. ASSUME TableIgnored(i) PROVE BleInv'
  <2>1. /\ if_phase[i] = "tab"
        /\ if_phase' = [if_phase EXCEPT ![i] = "idle"]
        /\ UNCHANGED <<boot, app_vars, links, told, kicked, evq>>
    BY <1>2 DEF TableIgnored
  <2>2. BleTypeOK'
    <3>1. if_phase' \in [Ifs -> {"none", "reg", "tab", "served", "idle"}]
      BY <1>0, <2>1
    <3>. QED  BY <2>1, <3>1 DEF BleTypeOK, app_vars
  <2>3. AppTable'
    BY <2>1 DEF AppTable, app_vars
  <2>4. Interfaces'
    BY <1>0, <2>1, AppFacts DEF Interfaces, app_vars
  <2>. QED  BY <2>2, <2>3, <2>4
<1>. QED  BY <1>1, <1>2 DEF TableEvt

(* A connection table changes in one slot, to a connection or to unused.   *)
LEMMA ConnCtxInv ==
    ASSUME BleInv, NEW a \in Apps, NEW s \in Slots,
           NEW c \in ConnIds \cup {Free},
           conn_ctx' = [conn_ctx EXCEPT ![a][s] = c],
           evq' \in Seq(Event),
           UNCHANGED <<boot, conn_num_max, list_mem, apps_list, curr_app_id,
                       has_ctx, attr_hndl, ble_if, if_phase, links, told,
                       kicked>>
    PROVE  BleInv'
<1>. USE DEF BleInv
<1>1. conn_ctx' \in [Apps -> [Slots -> ConnIds \cup {Free}]]
  BY DEF BleTypeOK
<1>2. BleTypeOK'
  BY <1>1 DEF BleTypeOK
<1>3. AppTable' /\ Interfaces'
  BY DEF AppTable, Interfaces
<1>. QED  BY <1>2, <1>3

LEMMA QueueEvtInv == ASSUME BleInv, NEW i \in Ifs, QueueEvt(i) PROVE BleInv'
<1>. USE DEF BleInv
<1>0. links \subseteq ConnIds /\ kicked \subseteq ConnIds
      /\ told \in [Ifs -> SUBSET ConnIds] /\ evq \in Seq(Event)
  BY DEF BleTypeOK
<1>1. evq # <<>> /\ Consume(i)
  BY DEF QueueEvt, EvtIgnored, ConnectEvt, ConnectFull, DisconnectEvt,
         WriteEvt, UnlistedEvt, Arrives
<1>2. evq' \in Seq(Event) /\ Conn \in ConnIds
  <2>1. Head(evq) \in Event
    BY <1>0, <1>1, TailType
  <2>. QED  BY <1>0, <1>1, <2>1, ConsumeType DEF Event, Conn
<1>3. CASE EvtIgnored(i) \/ \E a \in Apps : WriteEvt(i, a) \/ UnlistedEvt(i, a)
  <2>1. UNCHANGED <<boot, app_vars, if_phase, links, told, kicked>>
    BY <1>3 DEF EvtIgnored, WriteEvt, UnlistedEvt
  <2>. QED  BY <1>0, <1>2, <2>1, QuietInv DEF Quiet
<1>4. ASSUME NEW a \in Apps, ConnectFull(i, a) PROVE BleInv'
  <2>1. /\ UNCHANGED <<boot, app_vars, if_phase, links, told>>
        /\ kicked' \subseteq kicked \cup links
    BY <1>4 DEF ConnectFull, Kick
  <2>. QED  BY <1>0, <1>2, <2>1, QuietInv DEF Quiet
<1>5. ASSUME NEW a \in Apps, ConnectEvt(i, a) PROVE BleInv'
  BY <1>2, <1>5, ConnCtxInv DEF ConnectEvt
<1>6. ASSUME NEW a \in Apps, DisconnectEvt(i, a) PROVE BleInv'
  BY <1>2, <1>6, ConnCtxInv DEF DisconnectEvt, FreeSlot
<1>. QED  BY <1>3, <1>4, <1>5, <1>6 DEF QueueEvt

LEMMA BleNextInv == ASSUME BleInv, [BleNext]_ble_vars PROVE BleInv'
<1>1. CASE UNCHANGED ble_vars
  BY <1>1, QuietInv
     DEF ble_vars, app_vars, stack_vars, Quiet, BleInv, BleTypeOK
<1>2. CASE BleNext
  BY <1>2, BleMainInv, StackInv, RegEvtInv, TableEvtInv, QueueEvtInv
     DEF BleNext
<1>. QED  BY <1>1, <1>2

-----------------------------------------------------------------------------
(* The framework keeps its types and the order of its tables.              *)
THEOREM BleInvariance == BleSpec => []BleInv
<1>. QED  BY BleInitInv, BleNextInv, PTL DEF BleSpec

LEMMA InterfacesApart == BleInv => OneAppPerInterface
BY AppFacts DEF BleInv, BleTypeOK, Interfaces, OneAppPerInterface

(* An interface answers to one application, and a service is only started  *)
(* for the application whose handles were filled in, whatever              *)
(* registrations and table creations failed before.                        *)
THEOREM OneAppPerInterfaceHolds == BleSpec => []OneAppPerInterface
<1>. QED  BY BleInvariance, InterfacesApart, PTL

-----------------------------------------------------------------------------
(* The order of the events that wait.                                      *)

Turns == \A i \in Ifs, c \in ConnIds : TurnOrder(i, c)

(* Appending an event to the queue.                                        *)
LEMMA AppendComes ==
    ASSUME evq \in Seq(Event), NEW e \in Event, evq' = Append(evq, e)
    PROVE  /\ Len(evq) \in Nat
           /\ DOMAIN evq = 1 .. Len(evq) /\ DOMAIN evq' = 1 .. Len(evq) + 1
           /\ \A n \in DOMAIN evq : n < Len(evq) + 1 /\ n \in DOMAIN evq'
           /\ \A kind, n, c : About(kind, n, c)' <=>
                 \/ About(kind, n, c)
                 \/ n = Len(evq) + 1 /\ e.evt = kind /\ e.conn = c
           /\ \A kind, n, i, c : Comes(kind, n, i, c)' <=>
                 \/ Comes(kind, n, i, c)
                 \/ n = Len(evq) + 1 /\ e.evt = kind /\ i \in e.to /\ e.conn = c
<1>1. /\ Len(evq) \in Nat
      /\ DOMAIN evq = 1 .. Len(evq) /\ DOMAIN evq' = 1 .. Len(evq) + 1
      /\ \A n \in 1 .. Len(evq) : evq'[n] = evq[n]
      /\ evq'[Len(evq) + 1] = e
  OBVIOUS
<1>2. \A n \in DOMAIN evq' : n \in DOMAIN evq \/ n = Len(evq) + 1
  BY <1>1
<1>3. \A n \in DOMAIN evq : n < Len(evq) + 1 /\ n \in DOMAIN evq'
  BY <1>1
<1>4. Len(evq) + 1 \in DOMAIN evq' /\ Len(evq) + 1 \notin DOMAIN evq
  BY <1>1
<1>5. ASSUME NEW kind, NEW n, NEW c
      PROVE  About(kind, n, c)' <=>
                 \/ About(kind, n, c)
                 \/ n = Len(evq) + 1 /\ e.evt = kind /\ e.conn = c
  BY <1>1, <1>2, <1>3, <1>4 DEF About
<1>6. ASSUME NEW kind, NEW n, NEW i, NEW c
      PROVE  Comes(kind, n, i, c)' <=>
                 \/ Comes(kind, n, i, c)
                 \/ n = Len(evq) + 1 /\ e.evt = kind /\ i \in e.to /\ e.conn = c
  BY <1>1, <1>2, <1>3, <1>4 DEF Comes, About
<1>. QED  BY <1>1, <1>3, <1>5, <1>6

(* Consuming the event at the head for interface i: what waits behind it   *)
(* moves up by s, which is 1 when it was for i alone.                      *)
LEMMA ConsumeComes ==
    ASSUME evq \in Seq(Event), evq # <<>>, NEW i \in Ifs, i \in Head(evq).to, Consume(i)
    PROVE  /\ DOMAIN evq \subseteq Nat
           /\ \E s \in {0, 1} :
                /\ \A kind, n, c : About(kind, n, c)' => About(kind, n + s, c)
                /\ \A n \in DOMAIN evq' : n + s \in DOMAIN evq
                /\ \A kind, n, j, c : Comes(kind, n, j, c)' =>
                      /\ Comes(kind, n + s, j, c)
                      /\ n \in DOMAIN evq' /\ ~(n + s = 1 /\ j = i)
                /\ \A kind, n, j, c : Comes(kind, n, j, c) /\ ~(n = 1 /\ j = i) =>
                      n - s \in DOMAIN evq' /\ Comes(kind, n - s, j, c)'
<1>1. /\ Len(evq) \in Nat \ {0} /\ DOMAIN evq = 1 .. Len(evq)
      /\ Head(evq) = evq[1] /\ evq[1] \in Event
  OBVIOUS
<1>2. CASE Head(evq).to = {i}
  <2>1. /\ evq' = Tail(evq) /\ DOMAIN evq' = 1 .. Len(evq) - 1
        /\ \A n \in DOMAIN evq' : n \in Nat /\ evq'[n] = evq[n + 1] /\ n + 1 \in DOMAIN evq
    BY <1>1, <1>2 DEF Consume
  <2>2. ASSUME NEW kind, NEW n, NEW c, About(kind, n, c)'
        PROVE  About(kind, n + 1, c)
    BY <2>1, <2>2 DEF About
  <2>3. ASSUME NEW kind, NEW n, NEW j, NEW c, Comes(kind, n, j, c)'
        PROVE  /\ Comes(kind, n + 1, j, c)
               /\ n \in DOMAIN evq' /\ ~(n + 1 = 1 /\ j = i)
    BY <2>1, <2>3 DEF Comes, About
  <2>4. ASSUME NEW kind, NEW n, NEW j, NEW c, Comes(kind, n, j, c), ~(n = 1 /\ j = i)
        PROVE  n - 1 \in DOMAIN evq' /\ Comes(kind, n - 1, j, c)'
    <3>1. n \in DOMAIN evq /\ n # 1
      BY <1>1, <1>2, <2>4 DEF Comes, About
    <3>2. n - 1 \in DOMAIN evq' /\ evq'[n - 1] = evq[n]
      BY <1>1, <2>1, <3>1
    <3>. QED  BY <2>4, <3>2 DEF Comes, About
  <2>. QED  BY <1>1, <2>1, <2>2, <2>3, <2>4
<1>3. CASE Head(evq).to # {i}
  <2>1. /\ DOMAIN evq' = DOMAIN evq
        /\ \A n \in DOMAIN evq : n # 1 => evq'[n] = evq[n]
        /\ evq'[1] = [evq[1] EXCEPT !.to = @ \ {i}]
    <3>1. evq' = [evq EXCEPT ![1] = [evq[1] EXCEPT !.to = @ \ {i}]]
      BY <1>3 DEF Consume
    <3>2. 1 \in DOMAIN evq
      BY <1>1
    <3>. HIDE <1>1
    <3>. QED  BY <3>1, <3>2
  <2>2. /\ evq'[1].evt = evq[1].evt /\ evq'[1].conn = evq[1].conn
        /\ evq'[1].to = evq[1].to \ {i}
    BY <1>1, <2>1 DEF Event
  <2>3. \A n \in DOMAIN evq : n \in Nat /\ n + 0 = n /\ n - 0 = n
    BY <1>1
  <2>4. ASSUME NEW kind, NEW n, NEW c, About(kind, n, c)'
        PROVE  About(kind, n + 0, c)
    <3>1. n \in DOMAIN evq /\ evq'[n].evt = kind /\ evq'[n].conn = c
      BY <2>1, <2>4 DEF About
    <3>2. evq'[n].evt = evq[n].evt /\ evq'[n].conn = evq[n].conn
      BY <2>1, <2>2, <3>1
    <3>. QED  BY <2>3, <3>1, <3>2 DEF About
  <2>5. ASSUME NEW kind, NEW n, NEW j, NEW c, Comes(kind, n, j, c)'
        PROVE  /\ Comes(kind, n + 0, j, c)
               /\ n \in DOMAIN evq' /\ ~(n + 0 = 1 /\ j = i)
    <3>1. n \in DOMAIN evq /\ About(kind, n + 0, c) /\ j \in evq'[n].to
      BY <2>1, <2>4, <2>5 DEF Comes, About
    <3>2. j \in evq[n].to /\ ~(n = 1 /\ j = i)
      BY <2>1, <2>2, <3>1
    <3>. QED  BY <2>1, <2>3, <3>1, <3>2 DEF Comes
  <2>6. ASSUME NEW kind, NEW n, NEW j, NEW c, Comes(kind, n, j, c), ~(n = 1 /\ j = i)
        PROVE  n - 0 \in DOMAIN evq' /\ Comes(kind, n - 0, j, c)'
    <3>1. n \in DOMAIN evq /\ evq[n].evt = kind /\ evq[n].conn = c /\ j \in evq[n].to
      BY <2>6 DEF Comes, About
    <3>2. evq'[n].evt = kind /\ evq'[n].conn = c /\ j \in evq'[n].to
      BY <2>1, <2>2, <2>6, <3>1
    <3>. QED  BY <2>1, <2>3, <3>1, <3>2 DEF Comes, About
  <2>. QED  BY <1>1, <2>1, <2>3, <2>4, <2>5, <2>6
<1>. QED  BY <1>2, <1>3

LEMMA ConnectTurns ==
    ASSUME evq \in Seq(Event), told \in [Ifs -> SUBSET ConnIds], Turns,
           NEW to \in SUBSET Ifs, NEW c \in ConnIds,
           evq' = Append(evq, [evt |-> "connect", to |-> to, conn |-> c]),
           told' = [i \in Ifs |-> IF i \in to THEN told[i] \cup {c} ELSE told[i]],
           \A i \in to : c \notin told[i]
    PROVE  Turns'
<1>. DEFINE e == [evt |-> "connect", to |-> to, conn |-> c]
            L == Len(evq) + 1
<1>1. /\ e \in Event /\ e.evt = "connect" /\ e.to = to /\ e.conn = c
      /\ evq' = Append(evq, e)
  BY DEF Event
<1>. HIDE DEF e
<1>2. /\ Len(evq) \in Nat
      /\ DOMAIN evq = 1 .. Len(evq) /\ DOMAIN evq' = 1 .. L
      /\ \A n \in DOMAIN evq : n < L /\ n \in DOMAIN evq'
      /\ \A n, d : About("disconnect", n, d)' <=> About("disconnect", n, d)
      /\ \A n, i, d : Comes("disconnect", n, i, d)' <=> Comes("disconnect", n, i, d)
      /\ \A n, i, d : Comes("connect", n, i, d)' <=>
            Comes("connect", n, i, d) \/ (n = L /\ i \in to /\ d = c)
  BY <1>1, AppendComes
<1>3. \A kind, n, d : About(kind, n, d) => n \in DOMAIN evq
  BY DEF About
<1>4. \A kind, n, i, d : Comes(kind, n, i, d) => n \in DOMAIN evq
  BY <1>3 DEF Comes
<1>5. L \in DOMAIN evq' /\ \A n \in DOMAIN evq' : ~(L < n)
  BY <1>2
<1>. HIDE DEF L
<1>. SUFFICES ASSUME NEW i \in Ifs, NEW d \in ConnIds, NEW n \in DOMAIN evq'
              PROVE
       /\ Comes("connect", n, i, d)' =>
             /\ d \in told'[i] \/ \E m \in DOMAIN evq' : n < m /\ Comes("disconnect", m, i, d)'
             /\ \A m \in DOMAIN evq' : n < m /\ Comes("connect", m, i, d)' =>
                   \E k \in DOMAIN evq' : n < k /\ k < m /\ Comes("disconnect", k, i, d)'
             /\ \A m \in DOMAIN evq' : n < m /\ About("disconnect", m, d)' =>
                   \E k \in DOMAIN evq' : n < k /\ Comes("disconnect", k, i, d)'
       /\ Comes("disconnect", n, i, d)' /\ d \in told'[i] =>
             \E m \in DOMAIN evq' : n < m /\ Comes("connect", m, i, d)'
  BY DEF Turns, TurnOrder
<1>6. TurnOrder(i, d)
  BY DEF Turns
<1>7. told'[i] = IF i \in to THEN told[i] \cup {c} ELSE told[i]
  OBVIOUS
<1>8. ASSUME Comes("connect", n, i, d)'
      PROVE  d \in told'[i] \/ \E m \in DOMAIN evq' : n < m /\ Comes("disconnect", m, i, d)'
  BY <1>2, <1>4, <1>6, <1>7, <1>8 DEF TurnOrder
<1>9. ASSUME Comes("connect", n, i, d)', NEW m \in DOMAIN evq', n < m, Comes("connect", m, i, d)'
      PROVE  \E k \in DOMAIN evq' : n < k /\ k < m /\ Comes("disconnect", k, i, d)'
  <2>1. Comes("connect", n, i, d) /\ n \in DOMAIN evq
    BY <1>2, <1>4, <1>5, <1>9
  <2>2. CASE Comes("connect", m, i, d)
    BY <1>2, <1>4, <1>6, <1>9, <2>1, <2>2 DEF TurnOrder
  <2>3. CASE m = L /\ i \in to /\ d = c
    BY <1>2, <1>4, <1>6, <2>1, <2>3 DEF TurnOrder
  <2>. QED  BY <1>2, <1>9, <2>2, <2>3
<1>10. ASSUME Comes("connect", n, i, d)', NEW m \in DOMAIN evq', n < m, About("disconnect", m, d)'
       PROVE  \E k \in DOMAIN evq' : n < k /\ Comes("disconnect", k, i, d)'
  <2>1. Comes("connect", n, i, d) /\ n \in DOMAIN evq /\ About("disconnect", m, d) /\ m \in DOMAIN evq
    BY <1>2, <1>3, <1>4, <1>5, <1>10
  <2>. QED  BY <1>2, <1>4, <1>6, <1>10, <2>1 DEF TurnOrder
<1>11. ASSUME Comes("disconnect", n, i, d)', d \in told'[i]
       PROVE  \E m \in DOMAIN evq' : n < m /\ Comes("connect", m, i, d)'
  <2>1. Comes("disconnect", n, i, d) /\ n \in DOMAIN evq
    BY <1>2, <1>4, <1>11
  <2>2. CASE d \in told[i]
    BY <1>2, <1>4, <1>6, <2>1, <2>2 DEF TurnOrder
  <2>3. CASE d \notin told[i]
    BY <1>2, <1>5, <1>7, <1>11, <2>1, <2>3
  <2>. QED  BY <2>2, <2>3
<1>. QED  BY <1>8, <1>9, <1>10, <1>11

LEMMA DisconnectTurns ==
    ASSUME evq \in Seq(Event), told \in [Ifs -> SUBSET ConnIds], Turns,
           NEW c \in ConnIds, NEW to \in SUBSET Ifs,
           to = {i \in Ifs : c \in told[i]},
           evq' = Append(evq, [evt |-> "disconnect", to |-> to, conn |-> c]),
           told' = [i \in Ifs |-> told[i] \ {c}]
    PROVE  Turns'
<1>. DEFINE e == [evt |-> "disconnect", to |-> to, conn |-> c]
            L == Len(evq) + 1
<1>1. /\ e \in Event /\ e.evt = "disconnect" /\ e.to = to /\ e.conn = c
      /\ evq' = Append(evq, e)
  BY DEF Event
<1>. HIDE DEF e
<1>2. /\ Len(evq) \in Nat
      /\ DOMAIN evq = 1 .. Len(evq) /\ DOMAIN evq' = 1 .. L
      /\ \A n \in DOMAIN evq : n < L /\ n \in DOMAIN evq'
      /\ \A n, d : About("disconnect", n, d)' <=> About("disconnect", n, d) \/ (n = L /\ d = c)
      /\ \A n, i, d : Comes("connect", n, i, d)' <=> Comes("connect", n, i, d)
      /\ \A n, i, d : Comes("disconnect", n, i, d)' <=>
            Comes("disconnect", n, i, d) \/ (n = L /\ i \in to /\ d = c)
  BY <1>1, AppendComes
<1>3. \A kind, n, d : About(kind, n, d) => n \in DOMAIN evq
  BY DEF About
<1>4. \A kind, n, i, d : Comes(kind, n, i, d) => n \in DOMAIN evq
  BY <1>3 DEF Comes
<1>5. L \in DOMAIN evq' /\ \A n \in DOMAIN evq' : ~(L < n)
  BY <1>2
<1>. HIDE DEF L
<1>. SUFFICES ASSUME NEW i \in Ifs, NEW d \in ConnIds, NEW n \in DOMAIN evq'
              PROVE
       /\ Comes("connect", n, i, d)' =>
             /\ d \in told'[i] \/ \E m \in DOMAIN evq' : n < m /\ Comes("disconnect", m, i, d)'
             /\ \A m \in DOMAIN evq' : n < m /\ Comes("connect", m, i, d)' =>
                   \E k \in DOMAIN evq' : n < k /\ k < m /\ Comes("disconnect", k, i, d)'
             /\ \A m \in DOMAIN evq' : n < m /\ About("disconnect", m, d)' =>
                   \E k \in DOMAIN evq' : n < k /\ Comes("disconnect", k, i, d)'
       /\ Comes("disconnect", n, i, d)' /\ d \in told'[i] =>
             \E m \in DOMAIN evq' : n < m /\ Comes("connect", m, i, d)'
  BY DEF Turns, TurnOrder
<1>6. TurnOrder(i, d)
  BY DEF Turns
<1>7. told'[i] = told[i] \ {c} /\ (i \in to <=> c \in told[i])
  OBVIOUS
<1>8. ASSUME Comes("connect", n, i, d)'
      PROVE  /\ Comes("connect", n, i, d) /\ n \in DOMAIN evq
             /\ d \in told'[i] \/ \E m \in DOMAIN evq' : n < m /\ Comes("disconnect", m, i, d)'
  <2>1. Comes("connect", n, i, d) /\ n \in DOMAIN evq
    BY <1>2, <1>4, <1>8
  <2>2. CASE \E m \in DOMAIN evq : n < m /\ Comes("disconnect", m, i, d)
    BY <1>2, <2>1, <2>2
  <2>3. CASE d \in told[i]
    BY <1>2, <1>5, <1>7, <2>1, <2>3
  <2>. QED  BY <1>6, <2>1, <2>2, <2>3 DEF TurnOrder
<1>9. ASSUME Comes("connect", n, i, d)', NEW m \in DOMAIN evq', n < m, Comes("connect", m, i, d)'
      PROVE  \E k \in DOMAIN evq' : n < k /\ k < m /\ Comes("disconnect", k, i, d)'
  BY <1>2, <1>4, <1>6, <1>9 DEF TurnOrder
<1>10. ASSUME Comes("connect", n, i, d)', NEW m \in DOMAIN evq', n < m, About("disconnect", m, d)'
       PROVE  \E k \in DOMAIN evq' : n < k /\ Comes("disconnect", k, i, d)'
  <2>1. CASE About("disconnect", m, d)
    BY <1>2, <1>3, <1>4, <1>6, <1>10, <2>1 DEF TurnOrder
  <2>2. CASE m = L /\ d = c
    BY <1>5, <1>7, <1>8, <1>10, <2>2
  <2>. QED  BY <1>2, <1>10, <2>1, <2>2
<1>11. ASSUME Comes("disconnect", n, i, d)', d \in told'[i]
       PROVE  \E m \in DOMAIN evq' : n < m /\ Comes("connect", m, i, d)'
  BY <1>2, <1>4, <1>6, <1>7, <1>11 DEF TurnOrder
<1>. QED  BY <1>8, <1>9, <1>10, <1>11

LEMMA WriteTurns ==
    ASSUME evq \in Seq(Event), Turns, NEW e \in Event, e.evt = "write",
           evq' = Append(evq, e), UNCHANGED told
    PROVE  Turns'
<1>1. /\ \A n \in DOMAIN evq : n \in DOMAIN evq'
      /\ \A n, d : About("disconnect", n, d)' <=> About("disconnect", n, d)
      /\ \A n, i, d : Comes("disconnect", n, i, d)' <=> Comes("disconnect", n, i, d)
      /\ \A n, i, d : Comes("connect", n, i, d)' <=> Comes("connect", n, i, d)
  BY AppendComes
<1>2. \A kind, n, d : About(kind, n, d) => n \in DOMAIN evq
  BY DEF About
<1>3. \A kind, n, i, d : Comes(kind, n, i, d) => n \in DOMAIN evq
  BY <1>2 DEF Comes
<1>. SUFFICES ASSUME NEW i \in Ifs, NEW d \in ConnIds PROVE TurnOrder(i, d)'
  BY DEF Turns
<1>4. TurnOrder(i, d)
  BY DEF Turns
<1>. QED  BY <1>1, <1>2, <1>3, <1>4 DEF TurnOrder

LEMMA ConsumeTurns ==
    ASSUME evq \in Seq(Event), evq # <<>>, Turns, UNCHANGED told,
           NEW i \in Ifs, i \in Head(evq).to, Consume(i)
    PROVE  Turns'
<1>1. PICK s \in {0, 1} :
         /\ \A kind, n, c : About(kind, n, c)' => About(kind, n + s, c)
         /\ \A n \in DOMAIN evq' : n + s \in DOMAIN evq
         /\ \A kind, n, j, c : Comes(kind, n, j, c)' =>
               /\ Comes(kind, n + s, j, c)
               /\ n \in DOMAIN evq' /\ ~(n + s = 1 /\ j = i)
         /\ \A kind, n, j, c : Comes(kind, n, j, c) /\ ~(n = 1 /\ j = i) =>
               n - s \in DOMAIN evq' /\ Comes(kind, n - s, j, c)'
  BY ConsumeComes
<1>2. /\ DOMAIN evq = 1 .. Len(evq) /\ Len(evq) \in Nat
      /\ \A n \in DOMAIN evq : n \in Nat /\ n > 0
  OBVIOUS
<1>. SUFFICES ASSUME NEW j \in Ifs, NEW c \in ConnIds, NEW n \in DOMAIN evq'
              PROVE
       /\ Comes("connect", n, j, c)' =>
             /\ c \in told[j] \/ \E m \in DOMAIN evq' : n < m /\ Comes("disconnect", m, j, c)'
             /\ \A m \in DOMAIN evq' : n < m /\ Comes("connect", m, j, c)' =>
                   \E k \in DOMAIN evq' : n < k /\ k < m /\ Comes("disconnect", k, j, c)'
             /\ \A m \in DOMAIN evq' : n < m /\ About("disconnect", m, c)' =>
                   \E k \in DOMAIN evq' : n < k /\ Comes("disconnect", k, j, c)'
       /\ Comes("disconnect", n, j, c)' /\ c \in told[j] =>
             \E m \in DOMAIN evq' : n < m /\ Comes("connect", m, j, c)'
  BY DEF Turns, TurnOrder
<1>3. TurnOrder(j, c)
  BY DEF Turns
<1>. DEFINE N == n + s
<1>4. N \in DOMAIN evq /\ N > 0 /\ N \in Nat /\ n \in Int /\ N = n + s
  <2>1. N \in DOMAIN evq
    BY <1>1
  <2>2. evq' \in Seq(Event)
    BY ConsumeType
  <2>3. n \in Int
    BY <2>2
  <2>. QED  BY <1>2, <2>1, <2>3
<1>. HIDE DEF N
(* What waits behind n still does, s places further up.                    *)
<1>5. ASSUME NEW kind, NEW M \in DOMAIN evq, N < M, Comes(kind, M, j, c)
      PROVE  M - s \in DOMAIN evq' /\ n < M - s /\ Comes(kind, M - s, j, c)'
  <2>1. M \in Nat /\ M # 1
    BY <1>2, <1>4, <1>5
  <2>2. M - s \in DOMAIN evq' /\ Comes(kind, M - s, j, c)'
    BY <1>1, <1>5, <2>1
  <2>. QED  BY <1>4, <1>5, <2>1, <2>2
<1>6. \A kind : Comes(kind, n, j, c)' => Comes(kind, N, j, c)
  BY <1>1, <1>4
<1>7. ASSUME Comes("connect", n, j, c)', c \notin told[j]
      PROVE  \E m \in DOMAIN evq' : n < m /\ Comes("disconnect", m, j, c)'
  BY <1>3, <1>4, <1>5, <1>6, <1>7 DEF TurnOrder
<1>8. ASSUME Comes("connect", n, j, c)', NEW m \in DOMAIN evq', n < m,
             Comes("connect", m, j, c)'
      PROVE  \E k \in DOMAIN evq' : n < k /\ k < m /\ Comes("disconnect", k, j, c)'
  <2>1. m + s \in DOMAIN evq /\ Comes("connect", m + s, j, c) /\ m \in Int
    <3>1. evq' \in Seq(Event)
      BY ConsumeType
    <3>. QED  BY <1>1, <1>8, <3>1
  <2>2. N < m + s
    BY <1>4, <1>8, <2>1
  <2>3. PICK k \in DOMAIN evq : N < k /\ k < m + s /\ Comes("disconnect", k, j, c)
    BY <1>3, <1>4, <1>6, <1>8, <2>1, <2>2 DEF TurnOrder
  <2>4. k - s \in DOMAIN evq' /\ n < k - s /\ Comes("disconnect", k - s, j, c)'
    BY <1>5, <2>3
  <2>5. k - s < m
    BY <1>2, <2>1, <2>3
  <2>. QED  BY <2>4, <2>5
<1>9. ASSUME Comes("connect", n, j, c)', NEW m \in DOMAIN evq', n < m,
             About("disconnect", m, c)'
      PROVE  \E k \in DOMAIN evq' : n < k /\ Comes("disconnect", k, j, c)'
  <2>1. m + s \in DOMAIN evq /\ About("disconnect", m + s, c) /\ m \in Int
    <3>1. evq' \in Seq(Event)
      BY ConsumeType
    <3>. QED  BY <1>1, <1>9, <3>1
  <2>2. N < m + s
    BY <1>4, <1>9, <2>1
  <2>3. PICK k \in DOMAIN evq : N < k /\ Comes("disconnect", k, j, c)
    BY <1>3, <1>4, <1>6, <1>9, <2>1, <2>2 DEF TurnOrder
  <2>. QED  BY <1>5, <2>3
<1>10. ASSUME Comes("disconnect", n, j, c)', c \in told[j]
       PROVE  \E m \in DOMAIN evq' : n < m /\ Comes("connect", m, j, c)'
  BY <1>3, <1>4, <1>5, <1>6, <1>10 DEF TurnOrder
<1>. QED  BY <1>7, <1>8, <1>9, <1>10

-----------------------------------------------------------------------------
(* The links and the lists.                                                *)

LEMMA LinkInitInv == BleInit => LinkInv
<1>. SUFFICES ASSUME BleInit PROVE LinkInv
  OBVIOUS
<1>1. BleInv
  BY BleInitInv
<1>2. evq = <<>> /\ \A i \in Ifs : told[i] = {}
  BY DEF BleInit
<1>3. \A a \in Apps : \A s \in Slots : conn_ctx[a][s] = Free
  BY DEF BleInit
<1>4. DOMAIN evq = {}
  BY <1>2
<1>5. \A i \in Ifs, c \in ConnIds : TurnOrder(i, c)
  BY <1>4 DEF TurnOrder
<1>6. ToldOnceReady
  BY <1>2, <1>4 DEF ToldOnceReady
<1>7. \A i \in Ifs, a \in Apps, c \in ConnIds : ListOrder(i, a, c)
  BY <1>4 DEF ListOrder
<1>8. ListedIsKnown
  BY <1>3 DEF ListedIsKnown
<1>9. NoneStranded
  BY <1>2 DEF NoneStranded
<1>. QED  BY <1>1, <1>5, <1>6, <1>7, <1>8, <1>9 DEF LinkInv

(* Steps that leave the links, the events and the lists alone, and let no  *)
(* application go: a new one serves an interface nobody was told on.       *)
LEMMA AppStep ==
    ASSUME LinkInv, BleInv', UNCHANGED <<links, told, kicked, evq>>,
           \A j \in Ifs : Ready(j) => Ready(j)',
           \A a \in Apps, j \in Ifs : Serves(a, j) => Serves(a, j)',
           \A a \in Apps, j \in Ifs : Serves(a, j)' => Serves(a, j) \/ ~Ready(j),
           \A a \in Apps : \A s \in Slots : conn_ctx'[a][s] = conn_ctx[a][s]
    PROVE  LinkInv'
<1>0. \A kind, n, i, c : Comes(kind, n, i, c)' <=> Comes(kind, n, i, c)
  BY DEF Comes, About
<1>8. \A i \in Ifs : ~Ready(i) => told[i] = {} /\ \A n \in DOMAIN evq : i \notin evq[n].to
  <2>1. ToldOnceReady
    BY DEF LinkInv
  <2>. QED  BY <2>1 DEF ToldOnceReady
<1>1. \A i \in Ifs, c \in ConnIds : TurnOrder(i, c)'
  BY DEF LinkInv, TurnOrder, Comes, About
<1>2. ToldOnceReady'
  BY DEF LinkInv, ToldOnceReady
<1>3. \A a \in Apps : \A c : Listed(a, c)' <=> Listed(a, c)
  BY DEF Listed
<1>4. ASSUME NEW i \in Ifs, NEW a \in Apps, NEW c \in ConnIds
      PROVE  ListOrder(i, a, c)'
  <2>. SUFFICES ASSUME Serves(a, i)', Listed(a, c)', NEW n \in DOMAIN evq, Comes("connect", n, i, c)
                PROVE  \E m \in DOMAIN evq : m < n /\ Comes("disconnect", m, i, c)
    BY <1>0 DEF ListOrder
  <2>1. Ready(i)
    BY <1>8 DEF Comes, About
  <2>. QED  BY <1>3, <2>1 DEF LinkInv, ListOrder
<1>5. ListedIsKnown'
  BY DEF LinkInv, ListedIsKnown, Pending, Comes, About
<1>6. ASSUME NEW i \in Ifs, NEW a \in Apps, NEW c \in told[i], Serves(a, i)'
      PROVE  (Listed(a, c) \/ Pending("connect", i, c) \/ c \in kicked)'
  <2>1. Ready(i)
    BY <1>8
  <2>2. Serves(a, i)
    BY <1>6, <2>1
  <2>3. Pending("connect", i, c)' <=> Pending("connect", i, c)
    BY DEF Pending, Comes, About
  <2>. QED  BY <1>3, <2>2, <2>3 DEF LinkInv, NoneStranded
<1>7. NoneStranded'
  BY <1>6 DEF NoneStranded
<1>. QED  BY <1>1, <1>2, <1>4, <1>5, <1>7 DEF LinkInv

LEMMA MainLinks == ASSUME LinkInv, BleMain PROVE LinkInv'
<1>. USE DEF LinkInv
<1>0. BleInv'
  BY BleMainInv
<1>1. CASE AppsInit \/ RegisterRefused
  <2>1. UNCHANGED <<apps_list, has_ctx, ble_if, conn_ctx, stack_vars>>
    BY <1>1 DEF AppsInit, RegisterRefused, app_vars
  <2>. QED  BY <1>0, <2>1, AppStep DEF stack_vars, Ready, Serves
<1>2. ASSUME Register PROVE LinkInv'
  <2>0. PICK a \in Apps : a = AppOrder[boot]
    BY <1>2, AppFacts DEF Register
  <2>1. PICK n \in DOMAIN apps_list :
           /\ FirstFree(n)
           /\ apps_list' = [apps_list EXCEPT ![n] = a]
           /\ \/ UNCHANGED <<curr_app_id, has_ctx, conn_ctx, if_phase>>
              \/ /\ has_ctx' = [has_ctx EXCEPT ![a] = TRUE]
                 /\ conn_ctx' = [conn_ctx EXCEPT ![a] = [s \in Slots |-> Free]]
                 /\ if_phase' = [if_phase EXCEPT ![curr_app_id + 1] = "reg"]
                 /\ curr_app_id' = curr_app_id + 1
    BY <1>2, <2>0 DEF Register
  <2>2. /\ boot \in DOMAIN AppOrder
        /\ UNCHANGED <<ble_if, links, told, kicked, evq>>
    BY <1>2, AppFacts DEF Register
  <2>3. /\ apps_list \in [0 .. AppsMax - 1 -> Apps \cup {NoApp}]
        /\ curr_app_id \in Nat
        /\ has_ctx \in [Apps -> BOOLEAN]
        /\ ble_if \in [Apps -> Ifs \cup {NoIf}]
        /\ conn_ctx \in [Apps -> [Slots -> ConnIds \cup {Free}]]
        /\ if_phase \in [Ifs -> {"none", "reg", "tab", "served", "idle"}]
    BY AppFacts DEF BleInv, BleTypeOK
  (* The application being registered occupies no entry, so it serves none. *)
  <2>4. \A m \in 0 .. AppsMax - 1 : apps_list[m] # a
    <3>1. \A k \in DOMAIN AppOrder : AppOrder[k] = a => k = boot
      BY <2>0, <2>2, BleAssumption
    <3>. QED  BY <2>0, <2>2, <2>3, <3>1, AppFacts DEF BleInv, AppTable
  <2>5. ble_if[a] = NoIf
    <3>1. ble_if[a] \in Ifs => ble_if[a] - 1 \in 0 .. AppsMax - 1
      BY AppFacts
    <3>. QED  BY <2>2, <2>3, <2>4, <3>1 DEF BleInv, Interfaces
  <2>6. \A j \in Ifs : ~Serves(a, j) /\ ~Serves(a, j)'
    BY <2>2, <2>5, AppFacts DEF Serves
  <2>7. \A s \in Slots : conn_ctx[a][s] = Free
    BY <2>2, <2>6 DEF ListedIsKnown
  <2>8. \A b \in Apps : \A s \in Slots : conn_ctx'[b][s] = conn_ctx[b][s]
    <3>1. CASE conn_ctx' = conn_ctx
      BY <3>1
    <3>2. CASE conn_ctx' = [conn_ctx EXCEPT ![a] = [s \in Slots |-> Free]]
      BY <2>2, <2>3, <2>7, <3>2
    <3>. QED  BY <2>1, <3>1, <3>2
  <2>9. \A b \in Apps \ {a}, j \in Ifs : Serves(b, j)' <=> Serves(b, j)
    <3>. SUFFICES ASSUME NEW b \in Apps \ {a}, NEW j \in Ifs
                  PROVE  Serves(b, j)' <=> Serves(b, j)
      OBVIOUS
    <3>1. has_ctx'[b] = has_ctx[b]
      <4>1. CASE has_ctx' = has_ctx
        BY <4>1
      <4>2. CASE has_ctx' = [has_ctx EXCEPT ![a] = TRUE]
        BY <2>3, <4>2
      <4>. QED  BY <2>1, <4>1, <4>2
    <3>2. (\E m \in DOMAIN apps_list' : apps_list'[m] = b)
             <=> (\E m \in DOMAIN apps_list : apps_list[m] = b)
      <4>1. apps_list[n] = NoApp /\ b # NoApp
        BY <2>1, AppFacts DEF FirstFree
      <4>2. DOMAIN apps_list' = DOMAIN apps_list
        BY <2>1
      <4>3. \A m \in DOMAIN apps_list : m # n => apps_list'[m] = apps_list[m]
        BY <2>1
      <4>4. apps_list'[n] = a
        BY <2>1
      <4>. QED  BY <4>1, <4>2, <4>3, <4>4
    <3>. QED  BY <2>2, <3>1, <3>2 DEF Serves
  <2>10. \A j \in Ifs : Ready(j) => Ready(j)'
    <3>1. if_phase[curr_app_id + 1] = "none" \/ curr_app_id + 1 \notin Ifs
      BY <2>3, AppFacts DEF BleInv, Interfaces
    <3>2. CASE if_phase' = if_phase
      BY <3>2 DEF Ready
    <3>3. CASE if_phase' = [if_phase EXCEPT ![curr_app_id + 1] = "reg"]
      BY <2>3, <3>1, <3>3 DEF Ready
    <3>. QED  BY <2>1, <3>2, <3>3
  <2>11. \A b \in Apps, j \in Ifs : Serves(b, j)' <=> Serves(b, j)
    BY <2>6, <2>9, Zenon
  <2>. QED  BY <1>0, <2>2, <2>8, <2>10, <2>11, AppStep, Zenon
<1>. QED  BY <1>1, <1>2 DEF BleMain

LEMMA RegEvtLinks == ASSUME LinkInv, NEW i \in Ifs, RegEvt(i) PROVE LinkInv'
<1>. USE DEF LinkInv
<1>. DEFINE a == apps_list[i - 1]
<1>0. BleInv'
  BY RegEvtInv
<1>1. /\ if_phase[i] = "reg" /\ i - 1 \in 0 .. AppsMax - 1
      /\ a \in Apps \cup {NoApp}
      /\ UNCHANGED <<apps_list, has_ctx, conn_ctx, links, told, kicked, evq>>
  BY AppFacts DEF RegEvt, BleInv, BleTypeOK
<1>2. \/ /\ if_phase' = [if_phase EXCEPT ![i] = "idle"]
         /\ ble_if' = ble_if
      \/ /\ a \in Apps
         /\ ble_if' = [ble_if EXCEPT ![a] = i]
         /\ if_phase' = [if_phase EXCEPT ![i] = "tab"]
  BY <1>1 DEF RegEvt, RegApp
<1>3. /\ if_phase \in [Ifs -> {"none", "reg", "tab", "served", "idle"}]
      /\ ble_if \in [Apps -> Ifs \cup {NoIf}]
  BY DEF BleInv, BleTypeOK
<1>4. ~Ready(i) /\ \A j \in Ifs : Ready(j) => Ready(j)'
  BY <1>1, <1>2, <1>3 DEF Ready
(* Its entry has no interface yet.                                         *)
<1>5. a \in Apps => ble_if[a] = NoIf
  <2>. SUFFICES ASSUME a \in Apps, ble_if[a] # NoIf PROVE FALSE
    OBVIOUS
  <2>1. /\ ble_if[a] \in Ifs /\ ble_if[a] - 1 \in 0 .. AppsMax - 1
        /\ apps_list[ble_if[a] - 1] = a
        /\ if_phase[ble_if[a]] # "reg"
    BY <1>3, AppFacts DEF BleInv, Interfaces
  <2>2. ble_if[a] - 1 = i - 1
    BY <1>1, <2>1, AppFacts DEF BleInv, AppTable
  <2>. QED  BY <1>1, <2>1, <2>2, AppFacts
<1>6. \A b \in Apps, j \in Ifs : Serves(b, j) => Serves(b, j)'
  BY <1>1, <1>2, <1>3, <1>5, AppFacts DEF Serves
<1>7. \A b \in Apps, j \in Ifs : Serves(b, j)' => Serves(b, j) \/ ~Ready(j)
  BY <1>1, <1>2, <1>3, <1>4 DEF Serves
<1>. QED  BY <1>0, <1>1, <1>4, <1>6, <1>7, AppStep

LEMMA TableLinks == ASSUME LinkInv, NEW i \in Ifs, TableEvt(i) PROVE LinkInv'
<1>0. LinkInv => BleInv
  BY DEF LinkInv
<1>1. BleInv'
  BY <1>0, TableEvtInv
<1>2. /\ UNCHANGED <<apps_list, has_ctx, ble_if, conn_ctx, links, told, kicked, evq>>
      /\ if_phase[i] = "tab"
      /\ \/ if_phase' = [if_phase EXCEPT ![i] = "served"]
         \/ if_phase' = [if_phase EXCEPT ![i] = "idle"]
  BY DEF TableEvt, TableIgnored, TableCreated, app_vars
<1>3. if_phase \in [Ifs -> {"none", "reg", "tab", "served", "idle"}]
  BY <1>0 DEF BleInv, BleTypeOK
<1>4. \A j \in Ifs : Ready(j) => Ready(j)'
  BY <1>2, <1>3 DEF Ready
<1>5. \A b \in Apps, j \in Ifs : Serves(b, j)' <=> Serves(b, j)
  BY <1>2 DEF Serves
<1>. QED  BY <1>1, <1>2, <1>4, <1>5, AppStep

(* Steps of the stack: the tables are left alone, what waits in the queue   *)
(* stays, and a connection is announced to interfaces not told of it.      *)
LEMMA StackStep ==
    ASSUME LinkInv, BleInv', Quiet, Turns', ToldOnceReady',
           \A kind, n, i, c : Comes(kind, n, i, c) => Comes(kind, n, i, c)',
           \A n, i, c : Comes("connect", n, i, c)' =>
              Comes("connect", n, i, c)
              \/ (c \notin told[i] /\ \A m \in DOMAIN evq : m < n),
           \A i \in Ifs : \A c \in told[i] : c \in told'[i] \/ Pending("disconnect", i, c)',
           \A i \in Ifs : \A c \in told'[i] :
              /\ c \in told[i] \/ Pending("connect", i, c)'
              /\ c \in kicked => c \in kicked'
    PROVE  LinkInv'
<1>1. /\ \A a : \A c : Listed(a, c)' <=> Listed(a, c)
      /\ \A a, i : Serves(a, i)' <=> Serves(a, i)
      /\ \A a, i : Serves(a, i) => ble_if[a] = i
      /\ conn_ctx' = conn_ctx
  BY DEF Quiet, app_vars, Listed, Serves
<1>2. \A kind, n, i, c : Comes(kind, n, i, c) => n \in DOMAIN evq /\ n \in DOMAIN evq'
  BY DEF Comes, About
<1>3. \A kind, i, c : Pending(kind, i, c) => Pending(kind, i, c)'
  BY <1>2 DEF Pending
<1>4. ASSUME NEW i \in Ifs, NEW a \in Apps, NEW c \in ConnIds PROVE ListOrder(i, a, c)'
  <2>. SUFFICES ASSUME Serves(a, i), Listed(a, c), NEW n \in DOMAIN evq', Comes("connect", n, i, c)'
                PROVE  \E m \in DOMAIN evq' : m < n /\ Comes("disconnect", m, i, c)'
    BY <1>1 DEF ListOrder
  <2>1. CASE Comes("connect", n, i, c)
    BY <1>2, <2>1 DEF LinkInv, ListOrder
  <2>2. CASE c \notin told[i] /\ \A m \in DOMAIN evq : m < n
    <3>1. PICK s \in Slots : conn_ctx[a][s] = c
      BY DEF Listed
    <3>2. c # Free
      BY BleAssumption
    <3>3. PICK j \in Ifs : Serves(a, j) /\ (c \in told[j] \/ Pending("disconnect", j, c))
      BY <3>1, <3>2 DEF LinkInv, ListedIsKnown
    <3>4. j = i
      BY <1>1, <3>3
    <3>5. PICK m \in DOMAIN evq : Comes("disconnect", m, i, c)
      BY <2>2, <3>3, <3>4 DEF Pending
    <3>. QED  BY <1>2, <2>2, <3>5
  <2>. QED  BY <2>1, <2>2
<1>5. ListedIsKnown'
  <2>1. \A i \in Ifs, c \in ConnIds :
           c \in told[i] \/ Pending("disconnect", i, c)
              => (c \in told'[i] \/ Pending("disconnect", i, c)')
    BY <1>3
  <2>2. conn_ctx \in [Apps -> [Slots -> ConnIds \cup {Free}]]
    BY DEF LinkInv, BleInv, BleTypeOK
  <2>3. ListedIsKnown
    BY DEF LinkInv
  <2>4. ASSUME NEW a \in Apps, NEW s \in Slots, conn_ctx[a][s] # Free
        PROVE  /\ \A r \in Slots \ {s} : conn_ctx[a][r] # conn_ctx[a][s]
               /\ \E i \in Ifs : /\ Serves(a, i)'
                                 /\ conn_ctx[a][s] \in told'[i]
                                    \/ Pending("disconnect", i, conn_ctx[a][s])'
    <3>1. conn_ctx[a][s] \in ConnIds
      BY <2>2, <2>4
    <3>. QED  BY <1>1, <2>1, <2>3, <2>4, <3>1 DEF ListedIsKnown
  <2>. QED  BY <1>1, <2>4 DEF ListedIsKnown
<1>6. NoneStranded'
  <2>1. NoneStranded
    BY DEF LinkInv
  <2>. QED  BY <1>1, <1>3, <2>1 DEF NoneStranded
<1>. QED  BY <1>4, <1>5, <1>6 DEF LinkInv, Turns

(* The queue is unchanged and every interface knows the same links.        *)
LEMMA SilentStep ==
    ASSUME LinkInv, BleInv', Quiet, evq' = evq,
           \A i \in Ifs : told'[i] = told[i] /\ told[i] \subseteq links',
           \A i \in Ifs : \A c \in told[i] : c \in kicked => c \in kicked'
    PROVE  LinkInv'
<1>1. \A kind, n, i, c : /\ Comes(kind, n, i, c)' <=> Comes(kind, n, i, c)
                         /\ About(kind, n, c)' <=> About(kind, n, c)
  BY DEF Comes, About
<1>2. Turns'
  BY <1>1 DEF LinkInv, Turns, TurnOrder
<1>3. ToldOnceReady'
  <2>1. ToldOnceReady
    BY DEF LinkInv
  <2>. QED  BY <2>1 DEF ToldOnceReady, Ready, Quiet
<1>. QED  BY <1>1, <1>2, <1>3, StackStep

(* A connection is announced to interfaces that were not told of it.       *)
LEMMA AnnounceLinks ==
    ASSUME LinkInv, BleInv', Quiet, kicked' = kicked,
           NEW c \in ConnIds, links' = links \cup {c},
           NEW to \in SUBSET Ifs, \A i \in to : Ready(i) /\ c \notin told[i],
           told' = [i \in Ifs |-> IF i \in to THEN told[i] \cup {c} ELSE told[i]],
           evq' = Append(evq, [evt |-> "connect", to |-> to, conn |-> c])
    PROVE  LinkInv'
<1>. DEFINE e == [evt |-> "connect", to |-> to, conn |-> c]
<1>0. /\ Turns /\ ToldOnceReady
      /\ evq \in Seq(Event) /\ told \in [Ifs -> SUBSET ConnIds]
  BY DEF LinkInv, Turns, BleInv, BleTypeOK
<1>1. /\ e \in Event /\ e.evt = "connect" /\ e.to = to /\ e.conn = c
      /\ evq' = Append(evq, e)
  BY DEF Event
<1>. HIDE DEF e
<1>2. Turns'
  BY <1>0, ConnectTurns
<1>3. /\ Len(evq) \in Nat /\ Len(evq) + 1 \in DOMAIN evq'
      /\ DOMAIN evq = 1 .. Len(evq) /\ DOMAIN evq' = 1 .. Len(evq) + 1
      /\ \A n \in DOMAIN evq : n < Len(evq) + 1
      /\ \A kind, n, i, d : Comes(kind, n, i, d) => Comes(kind, n, i, d)'
      /\ \A n, i, d : Comes("connect", n, i, d)' <=>
            Comes("connect", n, i, d) \/ (n = Len(evq) + 1 /\ i \in to /\ d = c)
  <2>1. Len(evq) \in Nat
    BY <1>0
  <2>. QED  BY <1>0, <1>1, <2>1, AppendComes
<1>4. ToldOnceReady'
  <2>1. \A i \in Ifs : Ready(i)' <=> Ready(i)
    BY DEF Quiet, Ready
  <2>2. \A i \in Ifs : told'[i] \subseteq links'
    BY <1>0 DEF ToldOnceReady
  <2>3. ASSUME NEW i \in Ifs, ~Ready(i)
        PROVE  told'[i] = {} /\ \A n \in DOMAIN evq' : i \notin evq'[n].to
    <3>1. told[i] = {} /\ i \notin to /\ \A n \in DOMAIN evq : i \notin evq[n].to
      BY <1>0, <2>3 DEF ToldOnceReady
    <3>2. \A n \in DOMAIN evq' : evq'[n] = e \/ (n \in DOMAIN evq /\ evq'[n] = evq[n])
      BY <1>0, <1>1
    <3>. QED  BY <1>1, <3>1, <3>2
  <2>. QED  BY <2>1, <2>2, <2>3 DEF ToldOnceReady
<1>5. \A i \in Ifs : \A d \in told'[i] : d \in told[i] \/ Pending("connect", i, d)'
  BY <1>3 DEF Pending
<1>6. \A i \in Ifs : told[i] \subseteq told'[i]
  OBVIOUS
<1>7. ASSUME NEW n, NEW i, NEW d, Comes("connect", n, i, d)', ~Comes("connect", n, i, d)
      PROVE  d \notin told[i] /\ \A m \in DOMAIN evq : m < n
  <2>1. n = Len(evq) + 1 /\ i \in to /\ d = c
    BY <1>3, <1>7, Zenon
  <2>. QED  BY <1>3, <2>1
<1>. QED  BY <1>2, <1>3, <1>4, <1>5, <1>6, <1>7, StackStep

LEMMA LinkUpLinks == ASSUME LinkInv, NEW c \in ConnIds, LinkUp(c) PROVE LinkInv'
<1>. DEFINE to == {i \in Ifs : Ready(i)}
<1>0. BleInv /\ ToldOnceReady
  BY DEF LinkInv
<1>1. /\ BleInv' /\ Quiet /\ kicked' = kicked
      /\ links' = links \cup {c} /\ c \notin links
      /\ told' = [i \in Ifs |-> IF i \in to THEN told[i] \cup {c} ELSE told[i]]
      /\ evq' = IF to = {} THEN evq
                ELSE Append(evq, [evt |-> "connect", to |-> to, conn |-> c])
  <2>1. BleInv'
    BY <1>0, StackInv DEF Stack
  <2>. QED  BY <2>1 DEF LinkUp, Quiet
<1>2. \A i \in Ifs : told[i] \subseteq links /\ c \notin told[i]
  BY <1>0, <1>1 DEF ToldOnceReady
<1>3. to \in SUBSET Ifs /\ \A i \in to : Ready(i)
  OBVIOUS
<1>. HIDE DEF to
<1>4. CASE to = {}
  <2>1. \A i \in Ifs : told'[i] = told[i]
    BY <1>1, <1>4
  <2>. QED  BY <1>1, <1>2, <1>4, <2>1, SilentStep
<1>5. CASE to # {}
  BY <1>1, <1>2, <1>3, <1>5, AnnounceLinks
<1>. QED  BY <1>4, <1>5

LEMMA StartIfLinks ==
    ASSUME LinkInv, NEW i \in Ifs, NEW c \in ConnIds, StartIf(i, c) PROVE LinkInv'
<1>0. BleInv /\ told \in [Ifs -> SUBSET ConnIds]
  BY DEF LinkInv, BleInv, BleTypeOK
<1>1. BleInv'
  BY <1>0, StackInv DEF Stack
<1>. DEFINE to == {i}
<1>2. told' = [k \in Ifs |-> IF k \in to THEN told[k] \cup {c} ELSE told[k]]
  BY <1>0 DEF StartIf
<1>3. /\ Quiet /\ kicked' = kicked /\ links' = links \cup {c}
      /\ to \in SUBSET Ifs
      /\ \A k \in to : Ready(k) /\ c \notin told[k]
      /\ evq' = Append(evq, [evt |-> "connect", to |-> to, conn |-> c])
  BY DEF StartIf, Quiet
<1>. HIDE DEF to
<1>. QED  BY <1>1, <1>2, <1>3, AnnounceLinks

LEMMA LinkDownLinks == ASSUME LinkInv, NEW c \in ConnIds, LinkDown(c) PROVE LinkInv'
<1>. DEFINE to == {i \in Ifs : c \in told[i]}
            e == [evt |-> "disconnect", to |-> to, conn |-> c]
<1>0. /\ BleInv /\ Turns /\ ToldOnceReady
      /\ evq \in Seq(Event) /\ told \in [Ifs -> SUBSET ConnIds]
  BY DEF LinkInv, Turns, BleInv, BleTypeOK
<1>1. /\ BleInv' /\ Quiet /\ kicked' = kicked \ {c} /\ links' = links \ {c}
      /\ told' = [i \in Ifs |-> told[i] \ {c}]
      /\ evq' = IF to = {} THEN evq ELSE Append(evq, e)
  <2>1. BleInv'
    BY <1>0, StackInv DEF Stack
  <2>. QED  BY <2>1 DEF LinkDown, Quiet
<1>2. to \in SUBSET Ifs /\ \A i \in Ifs : i \in to <=> c \in told[i]
  OBVIOUS
<1>3. to = {i \in Ifs : c \in told[i]}
  OBVIOUS
<1>4. e \in Event /\ e.evt = "disconnect" /\ e.to = to /\ e.conn = c
  BY <1>2 DEF Event
<1>5. \A i \in Ifs : told'[i] = told[i] \ {c}
  BY <1>1
<1>6. CASE to = {}
  <2>. HIDE DEF to, e
  <2>1. \A i \in Ifs : told'[i] = told[i] /\ c \notin told[i]
    BY <1>2, <1>5, <1>6
  <2>2. \A i \in Ifs : told[i] \subseteq links'
    BY <1>0, <1>1, <2>1 DEF ToldOnceReady
  <2>. QED  BY <1>1, <1>6, <2>1, <2>2, SilentStep
<1>7. CASE to # {}
  <2>1. evq' = Append(evq, [evt |-> "disconnect", to |-> to, conn |-> c])
    BY <1>1, <1>7
  <2>. HIDE DEF to, e
  <2>2. Turns'
    BY <1>0, <1>1, <1>2, <1>3, <2>1, DisconnectTurns
  <2>3. evq' = Append(evq, e)
    BY <1>1, <1>7
  <2>4. /\ \A kind, n, i, d : Comes(kind, n, i, d) => Comes(kind, n, i, d)'
        /\ \A n, i, d : Comes("connect", n, i, d)' <=> Comes("connect", n, i, d)
        /\ \A i \in to : \E n \in DOMAIN evq' : Comes("disconnect", n, i, c)'
    <3>1. PICK L : L = Len(evq) + 1
      OBVIOUS
    <3>2. \A n, i, d : Comes("connect", n, i, d)' <=> Comes("connect", n, i, d)
      BY <1>0, <1>4, <2>3, AppendComes
    <3>3. \A kind, n, i, d : Comes(kind, n, i, d)' <=>
             \/ Comes(kind, n, i, d)
             \/ n = Len(evq) + 1 /\ e.evt = kind /\ i \in e.to /\ e.conn = d
      BY <1>0, <1>4, <2>3, AppendComes, Zenon
    <3>4. L \in DOMAIN evq' /\ \A i \in to : Comes("disconnect", L, i, c)'
      <4>1. L \in DOMAIN evq'
        BY <1>0, <1>4, <2>3, <3>1
      <4>. QED  BY <1>4, <3>1, <3>3, <4>1
    <3>. QED  BY <3>2, <3>3, <3>4
  <2>5. ToldOnceReady'
    <3>1. \A i \in Ifs : Ready(i)' <=> Ready(i)
      BY <1>1 DEF Quiet, Ready
    <3>2. \A i \in Ifs : told'[i] \subseteq links'
      BY <1>0, <1>1, <1>5 DEF ToldOnceReady
    <3>3. ASSUME NEW i \in Ifs, ~Ready(i)
          PROVE  told'[i] = {} /\ \A n \in DOMAIN evq' : i \notin evq'[n].to
      <4>1. told[i] = {} /\ i \notin to /\ \A n \in DOMAIN evq : i \notin evq[n].to
        BY <1>0, <1>2, <3>3 DEF ToldOnceReady
      <4>2. \A n \in DOMAIN evq' : evq'[n] = e \/ (n \in DOMAIN evq /\ evq'[n] = evq[n])
        BY <1>0, <1>4, <2>3
      <4>. QED  BY <1>4, <1>5, <4>1, <4>2
    <3>. QED  BY <3>1, <3>2, <3>3 DEF ToldOnceReady
  <2>6. \A i \in Ifs : \A d \in told[i] : d \in told'[i] \/ Pending("disconnect", i, d)'
    <3>1. \A i \in to : Pending("disconnect", i, c)'
      BY <2>4 DEF Pending
    <3>. QED  BY <1>2, <1>5, <3>1
  <2>7. \A i \in Ifs : \A d \in told'[i] : d \in told[i] /\ (d \in kicked => d \in kicked')
    BY <1>1, <1>5
  <2>. QED  BY <1>1, <2>2, <2>4, <2>5, <2>6, <2>7, StackStep
<1>. QED  BY <1>6, <1>7

LEMMA ClientWriteLinks ==
    ASSUME LinkInv, NEW i \in Ifs, NEW c \in ConnIds, NEW p \in Payloads,
           ClientWrite(i, c, p)
    PROVE  LinkInv'
<1>. DEFINE e == [evt |-> "write", to |-> {i}, conn |-> c, data |-> p]
<1>0. BleInv /\ Turns /\ ToldOnceReady /\ evq \in Seq(Event)
  BY DEF LinkInv, Turns, BleInv, BleTypeOK
<1>1. BleInv'
  BY <1>0, StackInv DEF Stack
<1>2. /\ Quiet /\ UNCHANGED <<links, told, kicked>>
      /\ if_phase[i] = "served" /\ evq' = Append(evq, e)
  BY DEF ClientWrite, Quiet
<1>3. e \in Event /\ e.evt = "write" /\ e.to = {i}
  BY DEF Event
<1>. HIDE DEF e
<1>4. Turns'
  BY <1>0, <1>2, <1>3, WriteTurns
<1>5. /\ \A kind, n, k, d : Comes(kind, n, k, d) => Comes(kind, n, k, d)'
      /\ \A n, k, d : Comes("connect", n, k, d)' <=> Comes("connect", n, k, d)
  BY <1>0, <1>2, <1>3, AppendComes
<1>6. ToldOnceReady'
  <2>1. \A k \in Ifs : Ready(k)' <=> Ready(k)
    BY <1>2 DEF Quiet, Ready
  <2>2. ASSUME NEW k \in Ifs, ~Ready(k)
        PROVE  told[k] = {} /\ \A n \in DOMAIN evq' : k \notin evq'[n].to
    <3>1. told[k] = {} /\ k # i /\ \A n \in DOMAIN evq : k \notin evq[n].to
      BY <1>0, <1>2, <2>2 DEF ToldOnceReady, Ready
    <3>2. \A n \in DOMAIN evq' : evq'[n] = e \/ (n \in DOMAIN evq /\ evq'[n] = evq[n])
      BY <1>0, <1>2, <1>3
    <3>. QED  BY <1>3, <3>1, <3>2
  <2>. QED  BY <1>0, <1>2, <2>1, <2>2 DEF ToldOnceReady
<1>. QED  BY <1>1, <1>2, <1>4, <1>5, <1>6, StackStep

-----------------------------------------------------------------------------
(* Consuming an event: the list of the application served is the only one   *)
(* that changes; it forgets the connection of a disconnection and takes    *)
(* that of a connection, or has it terminated.                             *)
LEMMA ConsumeStep ==
    ASSUME LinkInv, BleInv', evq # <<>>,
           NEW i \in Ifs, i \in Head(evq).to, Consume(i),
           UNCHANGED <<apps_list, has_ctx, ble_if, if_phase, links, told>>,
           kicked \subseteq kicked', NEW c \in ConnIds, c = Conn,
           \A a \in Apps : Serves(a, i) /\ Arrives("disconnect", i) => ~Listed(a, c)',
           \A a \in Apps, d \in ConnIds : Listed(a, d)' =>
              Listed(a, d) \/ (Serves(a, i) /\ Arrives("connect", i) /\ d = c),
           \A a \in Apps : \A s \in Slots : conn_ctx'[a][s] # Free =>
              \A r \in Slots \ {s} : conn_ctx'[a][r] # conn_ctx'[a][s],
           \A a \in Apps, d \in ConnIds : Listed(a, d) =>
              Listed(a, d)' \/ (Serves(a, i) /\ Arrives("disconnect", i) /\ d = c),
           \A a \in Apps : Serves(a, i) /\ Arrives("connect", i) =>
              \/ Listed(a, c)' \/ c \in kicked' \/ c \notin links
              \/ \E n \in 2 .. Len(evq) : About("disconnect", n, c)
    PROVE  LinkInv'
<1>0. /\ Turns /\ ToldOnceReady /\ ListedIsKnown /\ NoneStranded
      /\ \A j \in Ifs, a \in Apps, d \in ConnIds : ListOrder(j, a, d)
      /\ evq \in Seq(Event) /\ told \in [Ifs -> SUBSET ConnIds]
  BY DEF LinkInv, Turns, BleInv, BleTypeOK
<1>1. /\ DOMAIN evq = 1 .. Len(evq) /\ Len(evq) \in Nat /\ 1 \in DOMAIN evq
      /\ Head(evq) = evq[1] /\ \A n \in DOMAIN evq : n \in Nat /\ n > 0
  BY <1>0
<1>2. PICK s \in {0, 1} :
         /\ \A n \in DOMAIN evq' : n + s \in DOMAIN evq
         /\ \A kind, n, j, d : Comes(kind, n, j, d)' =>
               /\ Comes(kind, n + s, j, d)
               /\ n \in DOMAIN evq' /\ ~(n + s = 1 /\ j = i)
         /\ \A kind, n, j, d : Comes(kind, n, j, d) /\ ~(n = 1 /\ j = i) =>
               n - s \in DOMAIN evq' /\ Comes(kind, n - s, j, d)'
  <2>. HIDE DEF Ifs
  <2>. QED  BY <1>0, ConsumeComes
<1>3. Turns'
  BY <1>0, ConsumeTurns
<1>4. \A a \in Apps, j \in Ifs : /\ Serves(a, j)' <=> Serves(a, j)
                                 /\ Serves(a, j) /\ Serves(a, i) => j = i
  BY DEF Serves
<1>5. \A kind : Arrives(kind, i) => Comes(kind, 1, i, c)
  BY <1>1 DEF Arrives, Comes, About, Conn
<1>6. \A kind, d : Comes(kind, 1, i, d) => Arrives(kind, i) /\ d = c
  BY <1>1 DEF Arrives, Comes, About, Conn
<1>7. \A kind, n, j, d : Comes(kind, n, j, d) => n \in DOMAIN evq
  BY DEF Comes, About
<1>8. \A kind, n, j, d : Comes(kind, n, j, d) /\ ~(n = 1 /\ j = i) => Pending(kind, j, d)'
  BY <1>2 DEF Pending
(* What waits behind the head.                                             *)
<1>9. /\ Arrives("connect", i) =>
            /\ c \in told[i] \/ \E m \in DOMAIN evq : 1 < m /\ Comes("disconnect", m, i, c)
            /\ \A m \in DOMAIN evq : 1 < m /\ Comes("connect", m, i, c) =>
                  \E k \in DOMAIN evq : 1 < k /\ k < m /\ Comes("disconnect", k, i, c)
            /\ \A m \in DOMAIN evq : 1 < m /\ About("disconnect", m, c) =>
                  \E k \in DOMAIN evq : 1 < k /\ Comes("disconnect", k, i, c)
      /\ \A n \in DOMAIN evq : Comes("disconnect", n, i, c) /\ c \in told[i] =>
            \E m \in DOMAIN evq : n < m /\ Comes("connect", m, i, c)
  <2>1. TurnOrder(i, c)
    BY <1>0 DEF Turns
  <2>. QED  BY <1>1, <1>5, <2>1 DEF TurnOrder
<1>10. ToldOnceReady'
  <2>1. \A n \in DOMAIN evq' : \E m \in DOMAIN evq : evq'[n].to \subseteq evq[m].to
    <3>1. CASE Head(evq).to = {i}
      <4>1. evq' = Tail(evq)
        BY <3>1 DEF Consume
      <4>2. \A n \in DOMAIN evq' : n + 1 \in DOMAIN evq /\ evq'[n] = evq[n + 1]
        BY <1>0, <1>1, <4>1
      <4>. QED  BY <4>2
    <3>2. CASE Head(evq).to # {i}
      <4>1. evq' = [evq EXCEPT ![1] = [evq[1] EXCEPT !.to = @ \ {i}]]
        BY <3>2 DEF Consume
      <4>2. [evq[1] EXCEPT !.to = @ \ {i}].to \subseteq evq[1].to
        BY <1>0, <1>1 DEF Event
      <4>3. /\ DOMAIN evq' = DOMAIN evq
            /\ \A n \in DOMAIN evq : n # 1 => evq'[n] = evq[n]
            /\ evq'[1] = [evq[1] EXCEPT !.to = @ \ {i}]
        <5>1. 1 \in DOMAIN evq
          BY <1>1
        <5>. QED  BY <4>1, <5>1
      <4>. QED  BY <4>2, <4>3
    <3>. QED  BY <3>1, <3>2
  <2>. QED  BY <1>0, <2>1 DEF ToldOnceReady, Ready
<1>11. ASSUME NEW j \in Ifs, NEW a \in Apps, NEW d \in ConnIds PROVE ListOrder(j, a, d)'
  <2>. SUFFICES ASSUME Serves(a, j), Listed(a, d)', NEW n \in DOMAIN evq', Comes("connect", n, j, d)'
                PROVE  \E m \in DOMAIN evq' : m < n /\ Comes("disconnect", m, j, d)'
    BY <1>4 DEF ListOrder
  <2>1. /\ n + s \in DOMAIN evq /\ Comes("connect", n + s, j, d)
        /\ ~(n + s = 1 /\ j = i)
    BY <1>2
  <2>2. n \in Int
    <3>1. evq' \in Seq(Event)
      BY <1>0, ConsumeType
    <3>. QED  BY <3>1
  <2>3. \E m \in DOMAIN evq : /\ m < n + s /\ Comes("disconnect", m, j, d)
                              /\ ~(m = 1 /\ j = i)
    <3>1. CASE Listed(a, d)
      <4>1. PICK m \in DOMAIN evq : m < n + s /\ Comes("disconnect", m, j, d)
        BY <1>0, <2>1, <3>1 DEF ListOrder
      <4>2. ~(m = 1 /\ j = i)
        BY <1>6, <4>1
      <4>. QED  BY <4>1, <4>2
    <3>2. CASE Serves(a, i) /\ Arrives("connect", i) /\ d = c
      <4>1. j = i /\ 1 < n + s
        BY <1>1, <1>4, <2>1, <3>2
      <4>2. PICK k \in DOMAIN evq : 1 < k /\ k < n + s /\ Comes("disconnect", k, i, c)
        BY <1>9, <2>1, <3>2, <4>1
      <4>. QED  BY <1>1, <3>2, <4>1, <4>2
    <3>. QED  BY <3>1, <3>2
  <2>4. PICK m \in DOMAIN evq : /\ m < n + s /\ Comes("disconnect", m, j, d)
                                /\ ~(m = 1 /\ j = i)
    BY <2>3
  <2>5. m - s \in DOMAIN evq' /\ Comes("disconnect", m - s, j, d)'
    BY <1>2, <2>4
  <2>6. m - s < n
    BY <1>1, <2>2, <2>4
  <2>. QED  BY <2>5, <2>6
<1>12. ListedIsKnown'
  <2>. SUFFICES ASSUME NEW a \in Apps, NEW t \in Slots, conn_ctx'[a][t] # Free
                PROVE  \E j \in Ifs : Serves(a, j) /\ (conn_ctx'[a][t] \in told[j]
                                          \/ Pending("disconnect", j, conn_ctx[a][t])')
    BY <1>4 DEF ListedIsKnown
  <2>1. PICK d \in ConnIds : d = conn_ctx'[a][t]
    <3>1. conn_ctx' \in [Apps -> [Slots -> ConnIds \cup {Free}]]
      BY DEF BleInv, BleTypeOK
    <3>2. conn_ctx'[a][t] \in ConnIds \cup {Free}
      BY <3>1
    <3>. QED  BY <3>2
  <2>2. Listed(a, d)'
    BY <2>1 DEF Listed
  <2>3. CASE Listed(a, d)
    <3>1. PICK r \in Slots : conn_ctx[a][r] = d
      BY <2>3 DEF Listed
    <3>2. d # Free
      BY BleAssumption
    <3>3. PICK j \in Ifs : Serves(a, j) /\ (d \in told[j] \/ Pending("disconnect", j, d))
      BY <1>0, <3>1, <3>2 DEF ListedIsKnown
    <3>4. d \in told[j] \/ Pending("disconnect", j, d)'
      <4>1. ASSUME NEW m \in DOMAIN evq, Comes("disconnect", m, j, d)
            PROVE  ~(m = 1 /\ j = i)
        BY <1>6, <2>2, <3>3, <4>1
      <4>. QED  BY <1>8, <3>3, <4>1 DEF Pending
    <3>. QED  BY <2>1, <3>3, <3>4
  <2>4. CASE Serves(a, i) /\ Arrives("connect", i) /\ d = c
    <3>1. c \in told[i] \/ Pending("disconnect", i, c)'
      BY <1>1, <1>8, <1>9, <2>4
    <3>. QED  BY <2>1, <2>4, <3>1
  <2>. QED  BY <2>2, <2>3, <2>4
<1>13. NoneStranded'
  <2>. SUFFICES ASSUME NEW j \in Ifs, NEW a \in Apps, NEW d \in told[j], Serves(a, j)
                PROVE  Listed(a, d)' \/ Pending("connect", j, d)' \/ d \in kicked'
    BY <1>4 DEF NoneStranded
  <2>0. d \in ConnIds
    BY <1>0
  <2>1. CASE Listed(a, d)
    <3>1. CASE Serves(a, i) /\ Arrives("disconnect", i) /\ d = c
      <4>1. j = i
        BY <1>4, <3>1
      <4>2. PICK m \in DOMAIN evq : 1 < m /\ Comes("connect", m, i, c)
        BY <1>1, <1>5, <1>9, <3>1, <4>1
      <4>. QED  BY <1>1, <1>8, <3>1, <4>1, <4>2
    <3>. QED  BY <2>0, <2>1, <3>1
  <2>2. CASE Pending("connect", j, d)
    <3>1. PICK m \in DOMAIN evq : Comes("connect", m, j, d)
      BY <2>2 DEF Pending
    <3>2. CASE ~(m = 1 /\ j = i)
      BY <1>8, <3>1, <3>2
    <3>3. CASE m = 1 /\ j = i
      <4>1. Arrives("connect", i) /\ d = c /\ c \in links
        BY <1>0, <1>6, <3>1, <3>3 DEF ToldOnceReady
      <4>2. ASSUME NEW n \in 2 .. Len(evq), About("disconnect", n, c)
            PROVE  Pending("connect", i, c)'
        <5>1. PICK k \in DOMAIN evq : 1 < k /\ Comes("disconnect", k, i, c)
          BY <1>1, <1>9, <4>1, <4>2
        <5>2. PICK l \in DOMAIN evq : k < l /\ Comes("connect", l, i, c)
          BY <1>9, <3>3, <4>1, <5>1
        <5>3. l # 1
          BY <1>1, <5>1, <5>2
        <5>. QED  BY <1>8, <5>2, <5>3
      <4>. QED  BY <3>3, <4>1, <4>2
    <3>. QED  BY <3>2, <3>3
  <2>. QED  BY <1>0, <2>1, <2>2 DEF NoneStranded
<1>. QED  BY <1>3, <1>10, <1>11, <1>12, <1>13 DEF LinkInv, Turns

(* A list that is left alone has what the step asks of it.                 *)
LEMMA SameLists ==
    ASSUME LinkInv, BleInv', evq # <<>>,
           NEW i \in Ifs, i \in Head(evq).to, Consume(i),
           UNCHANGED <<apps_list, has_ctx, ble_if, conn_ctx, if_phase, links, told>>,
           kicked \subseteq kicked', NEW c \in ConnIds, c = Conn,
           \A a \in Apps : Serves(a, i) /\ Arrives("disconnect", i) => ~Listed(a, c),
           \A a \in Apps : Serves(a, i) /\ Arrives("connect", i) =>
              \/ c \in kicked' \/ c \notin links
              \/ \E n \in 2 .. Len(evq) : About("disconnect", n, c)
    PROVE  LinkInv'
<1>1. \A a, d : Listed(a, d)' <=> Listed(a, d)
  BY DEF Listed
<1>2. \A a \in Apps : \A s \in Slots : conn_ctx'[a][s] # Free =>
         \A r \in Slots \ {s} : conn_ctx'[a][r] # conn_ctx'[a][s]
  <2>1. ListedIsKnown
    BY DEF LinkInv
  <2>. QED  BY <2>1 DEF ListedIsKnown
<1>. QED  BY <1>1, <1>2, ConsumeStep

LEMMA QueueLinks == ASSUME LinkInv, NEW i \in Ifs, QueueEvt(i) PROVE LinkInv'
<1>. DEFINE head == evq # <<>> /\ i \in Head(evq).to /\ Consume(i)
<1>0. /\ BleInv /\ BleInv' /\ ListedIsKnown /\ evq \in Seq(Event)
      /\ conn_ctx \in [Apps -> [Slots -> ConnIds \cup {Free}]]
      /\ \A j \in Ifs, a \in Apps, d \in ConnIds : ListOrder(j, a, d)
  <2>1. BleInv
    BY DEF LinkInv
  <2>. QED  BY <2>1, QueueEvtInv DEF LinkInv, BleInv, BleTypeOK
<1>1. head
  BY DEF QueueEvt, EvtIgnored, ConnectEvt, ConnectFull, DisconnectEvt,
         WriteEvt, UnlistedEvt, Arrives
<1>2. PICK c \in ConnIds : c = Conn
  <2>1. Head(evq) \in Event
    BY <1>0, <1>1, TailType
  <2>. QED  BY <2>1 DEF Event, Conn
<1>3. c # Free
  BY BleAssumption
<1>4. \A k1, k2 : Arrives(k1, i) /\ Arrives(k2, i) => k1 = k2
  BY DEF Arrives
<1>5. \A a, b \in Apps : Serves(a, i) /\ Serves(b, i) => a = b
  BY <1>0, InterfacesApart DEF OneAppPerInterface, Serves
<1>6. CASE EvtIgnored(i)
  <2>1. UNCHANGED <<apps_list, has_ctx, ble_if, conn_ctx, if_phase, links, told, kicked>>
    BY <1>6 DEF EvtIgnored, app_vars
  <2>2. \A a \in Apps : ~Serves(a, i)
    BY <1>6 DEF EvtIgnored, Orphan
  <2>. QED  BY <1>0, <1>1, <1>2, <2>1, <2>2, SameLists
<1>7. ASSUME NEW a \in Apps, WriteEvt(i, a) PROVE LinkInv'
  <2>1. /\ UNCHANGED <<apps_list, has_ctx, ble_if, conn_ctx, if_phase, links, told, kicked>>
        /\ Arrives("write", i)
    BY <1>7 DEF WriteEvt, app_vars
  <2>2. ~Arrives("connect", i) /\ ~Arrives("disconnect", i)
    BY <2>1, <1>4
  <2>. QED  BY <1>0, <1>1, <1>2, <2>1, <2>2, SameLists
<1>8. ASSUME NEW a \in Apps, UnlistedEvt(i, a) PROVE LinkInv'
  <2>1. /\ UNCHANGED <<apps_list, has_ctx, ble_if, conn_ctx, if_phase, links, told, kicked>>
        /\ Arrives("disconnect", i) \/ Arrives("write", i)
        /\ Serves(a, i) /\ ~Listed(a, c)
    BY <1>2, <1>8 DEF UnlistedEvt, app_vars
  <2>2. ~Arrives("connect", i)
    BY <2>1, <1>4
  <2>3. \A b \in Apps : Serves(b, i) => ~Listed(b, c)
    BY <1>5, <2>1
  <2>. QED  BY <1>0, <1>1, <1>2, <2>1, <2>2, <2>3, SameLists
<1>9. ASSUME NEW a \in Apps, ConnectFull(i, a) PROVE LinkInv'
  <2>1. /\ UNCHANGED <<apps_list, has_ctx, ble_if, conn_ctx, if_phase, links, told>>
        /\ Arrives("connect", i) /\ Kick(c)
    BY <1>2, <1>9 DEF ConnectFull, app_vars
  <2>2. ~Arrives("disconnect", i)
    BY <2>1, <1>4
  <2>3. kicked \subseteq kicked'
    BY <2>1 DEF Kick
  <2>4. \/ c \in kicked' \/ c \notin links
        \/ \E n \in 2 .. Len(evq) : About("disconnect", n, c)
    BY <1>0, <2>1 DEF Kick, About
  <2>. QED  BY <1>0, <1>1, <1>2, <2>1, <2>2, <2>3, <2>4, SameLists
<1>10. ASSUME NEW a \in Apps, ConnectEvt(i, a) PROVE LinkInv'
  <2>1. /\ UNCHANGED <<apps_list, has_ctx, ble_if, if_phase, links, told, kicked>>
        /\ Arrives("connect", i) /\ Serves(a, i)
    BY <1>10 DEF ConnectEvt
  <2>2. PICK s \in Slots : /\ conn_ctx[a][s] = Free
                           /\ conn_ctx' = [conn_ctx EXCEPT ![a][s] = c]
    BY <1>2, <1>10 DEF ConnectEvt, FirstSlot
  <2>3. ~Arrives("disconnect", i)
    BY <2>1, <1>4
  (* A connection is not listed while its announcement is at the head.     *)
  <2>4. ~Listed(a, c)
    <3>1. Comes("connect", 1, i, c) /\ 1 \in DOMAIN evq
      BY <1>0, <1>1, <1>2, <2>1 DEF Comes, About, Arrives, Conn
    <3>2. \A m \in DOMAIN evq : ~(m < 1)
      BY <1>0
    <3>. QED  BY <1>0, <2>1, <3>1, <3>2 DEF ListOrder
  <2>5. \A b \in Apps : \A r \in Slots :
           conn_ctx'[b][r] = IF b = a /\ r = s THEN c ELSE conn_ctx[b][r]
    BY <1>0, <2>2
  <2>6. Listed(a, c)' /\ \A b \in Apps : Serves(b, i) => b = a
    BY <1>5, <2>1, <2>5 DEF Listed
  <2>7. \A b \in Apps, d \in ConnIds : Listed(b, d)' =>
           Listed(b, d) \/ (Serves(b, i) /\ Arrives("connect", i) /\ d = c)
    BY <2>1, <2>5 DEF Listed
  <2>8. \A b \in Apps, d \in ConnIds : Listed(b, d) => Listed(b, d)'
    <3>1. \A d \in ConnIds : d # Free
      BY BleAssumption
    <3>. QED  BY <2>2, <2>5, <3>1 DEF Listed
  <2>9. \A b \in Apps : \A t \in Slots : conn_ctx'[b][t] # Free =>
           \A r \in Slots \ {t} : conn_ctx'[b][r] # conn_ctx'[b][t]
    <3>1. \A r \in Slots : conn_ctx[a][r] # c
      BY <2>4 DEF Listed
    <3>2. \A b \in Apps : \A t \in Slots : conn_ctx[b][t] # Free =>
             \A r \in Slots \ {t} : conn_ctx[b][r] # conn_ctx[b][t]
      BY <1>0 DEF ListedIsKnown
    <3>. QED  BY <2>2, <2>5, <3>1, <3>2
  <2>10. kicked \subseteq kicked'
    BY <2>1
  <2>. QED  BY <1>0, <1>1, <1>2, <2>1, <2>3, <2>6, <2>7, <2>8, <2>9, <2>10, ConsumeStep
<1>11. ASSUME NEW a \in Apps, DisconnectEvt(i, a) PROVE LinkInv'
  <2>1. /\ UNCHANGED <<apps_list, has_ctx, ble_if, if_phase, links, told, kicked>>
        /\ Arrives("disconnect", i) /\ Serves(a, i)
    BY <1>11 DEF DisconnectEvt
  <2>2. PICK s \in Slots : /\ conn_ctx[a][s] = c
                           /\ conn_ctx' = [conn_ctx EXCEPT ![a][s] = Free]
    BY <1>2, <1>11 DEF DisconnectEvt, FirstSlot, FreeSlot
  <2>3. ~Arrives("connect", i)
    BY <2>1, <1>4
  <2>4. \A r \in Slots \ {s} : conn_ctx[a][r] # c
    BY <1>0, <1>3, <2>2 DEF ListedIsKnown
  <2>5. \A b \in Apps : \A r \in Slots :
           conn_ctx'[b][r] = IF b = a /\ r = s THEN Free ELSE conn_ctx[b][r]
    BY <1>0, <2>2
  <2>6. ~Listed(a, c)' /\ \A b \in Apps : Serves(b, i) => b = a
    BY <1>3, <1>5, <2>1, <2>4, <2>5 DEF Listed
  <2>7. \A b \in Apps, d \in ConnIds : Listed(b, d)' => Listed(b, d)
    <3>1. \A d \in ConnIds : d # Free
      BY BleAssumption
    <3>. QED  BY <2>5, <3>1 DEF Listed
  <2>8. \A b \in Apps, d \in ConnIds : Listed(b, d) =>
           Listed(b, d)' \/ (Serves(b, i) /\ Arrives("disconnect", i) /\ d = c)
    BY <2>1, <2>2, <2>5 DEF Listed
  <2>9. \A b \in Apps : \A t \in Slots : conn_ctx'[b][t] # Free =>
           \A r \in Slots \ {t} : conn_ctx'[b][r] # conn_ctx'[b][t]
    <3>1. \A b \in Apps : \A t \in Slots : conn_ctx[b][t] # Free =>
             \A r \in Slots \ {t} : conn_ctx[b][r] # conn_ctx[b][t]
      BY <1>0 DEF ListedIsKnown
    <3>. QED  BY <2>5, <3>1
  <2>10. kicked \subseteq kicked'
    BY <2>1
  <2>. QED  BY <1>0, <1>1, <1>2, <2>1, <2>3, <2>6, <2>7, <2>8, <2>9, <2>10, ConsumeStep
<1>. QED  BY <1>6, <1>7, <1>8, <1>9, <1>10, <1>11 DEF QueueEvt

LEMMA LinkNext == ASSUME LinkInv, [BleNext]_ble_vars PROVE LinkInv'
<1>1. CASE UNCHANGED ble_vars
  <2>1. BleInv'
    BY <1>1, BleNextInv DEF LinkInv
  <2>2. \A i \in Ifs : told'[i] = told[i] /\ told[i] \subseteq links'
    BY <1>1 DEF ble_vars, stack_vars, LinkInv, ToldOnceReady
  <2>3. Quiet /\ evq' = evq /\ kicked' = kicked
    BY <1>1 DEF ble_vars, stack_vars, Quiet
  <2>. QED  BY <2>1, <2>2, <2>3, SilentStep
<1>2. CASE BleNext
  BY <1>2, MainLinks, LinkUpLinks, LinkDownLinks, StartIfLinks, ClientWriteLinks,
     RegEvtLinks, TableLinks, QueueLinks
     DEF BleNext, Stack
<1>. QED  BY <1>1, <1>2

-----------------------------------------------------------------------------
(* The framework and the stack agree on the links, in whatever order links *)
(* come and go, interfaces register and events are handled.                *)
THEOREM LinkInvariance == BleSpec => []LinkInv
<1>. QED  BY LinkInitInv, LinkNext, PTL DEF BleSpec

(* Every variable of the framework keeps its type.                         *)
THEOREM BleTypeHolds == BleSpec => []BleTypeOK
<1>1. BleInv => BleTypeOK
  BY DEF BleInv
<1>. QED  BY <1>1, BleInvariance, PTL

(* No application lists a connection twice, or keeps one whose end it has  *)
(* been told of.                                                           *)
THEOREM ListedIsKnownHolds == BleSpec => []ListedIsKnown
<1>1. LinkInv => ListedIsKnown
  BY DEF LinkInv
<1>. QED  BY <1>1, LinkInvariance, PTL

(* A link that was announced to an application is listed, about to be, or  *)
(* on its way down.                                                        *)
THEOREM NoneStrandedHolds == BleSpec => []NoneStranded
<1>1. LinkInv => NoneStranded
  BY DEF LinkInv
<1>. QED  BY <1>1, LinkInvariance, PTL
=============================================================================
