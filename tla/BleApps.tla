------------------------------ MODULE BleApps ------------------------------
(***************************************************************************)
(* The BLE application framework of the board, lib/ble/esk8_ble_apps.c:    *)
(* the table of registered applications ("services"), the connection       *)
(* table of each, and the dispatch of GATT server events to them, together *)
(* with the part of the Bluedroid stack the code relies on.                *)
(*                                                                         *)
(* Two tasks run this code.  app_main initialises the framework and        *)
(* registers the applications; the stack's BTC task calls the event        *)
(* handler for one event at a time.  The stack announces a link to every   *)
(* interface it knows, in FIFO order with the writes of the peers, and     *)
(* announces existing links to an interface registered late.               *)
(*                                                                         *)
(* The actions constrain the variables of this module only: module Board   *)
(* conjoins the callbacks of the services to them.                         *)
(***************************************************************************)
EXTENDS Integers, Sequences, FiniteSets

CONSTANTS
    AppOrder,   \* the applications app_main registers, in order
    AppsMax,    \* n_apps_max given to esk8_ble_apps_init
    ConnIds,    \* connection identifiers the stack hands out, 0 included
    ConnMax,    \* n_conn_max given to esk8_ble_apps_init
    Payloads,   \* what a peer may write: records [attr, len, val]
    QueueMax,   \* bound: no new link or write when so many events wait
    MayFail     \* whether calloc, NVS and table creation may fail

Apps  == {AppOrder[k] : k \in DOMAIN AppOrder}
Slots == 0 .. ConnMax - 1
Ifs   == 1 .. AppsMax    \* the interface of application id k is k + 1
NoApp == "none"          \* a NULL entry of apps_list
Free  == -1              \* conn_id of an unused connection slot
NoIf  == 0               \* _ble_if before ESP_GATTS_REG_EVT

ASSUME BleAssumption ==
    /\ AppsMax \in Nat /\ ConnMax \in Nat /\ QueueMax \in Nat
    /\ AppOrder \in Seq(STRING \ {NoApp})
    /\ \A j, k \in DOMAIN AppOrder : AppOrder[j] = AppOrder[k] => j = k
    /\ ConnIds \subseteq Nat
    /\ MayFail \in BOOLEAN

VARIABLES
    boot,          \* app_main: 0 before init, k before the k-th registration
    conn_num_max,  \* esk8_ble_apps.conn_num_max
    list_mem,      \* whether esk8_ble_apps.apps_list is allocated
    apps_list,     \* its entries, by application index
    curr_app_id,   \* the next application id
    has_ctx,       \* app->_conn_ctx_list # NULL
    attr_hndl,     \* app->_attr_hndl_list: "null", "zero", "set" or "freed"
    ble_if,        \* app->_ble_if
    conn_ctx,      \* app->_conn_ctx_list[slot].conn_id
    if_phase,      \* stack: progress of each interface
    links,         \* stack: the links that are up
    told,          \* stack: the links each interface has been told of
    kicked,        \* stack: links the code asked to terminate
    evq            \* stack: events waiting for the BTC task

app_vars   == <<conn_num_max, list_mem, apps_list, curr_app_id,
                has_ctx, attr_hndl, ble_if, conn_ctx>>
stack_vars == <<if_phase, links, told, kicked, evq>>
ble_vars   == <<boot, app_vars, stack_vars>>

Event == [evt : {"connect", "disconnect"}, to : SUBSET Ifs, conn : ConnIds]
         \cup
         [evt : {"write"}, to : SUBSET Ifs, conn : ConnIds, data : Payloads]

BleTypeOK ==
    /\ boot \in 0 .. Len(AppOrder) + 1
    /\ conn_num_max \in {0, ConnMax}
    /\ list_mem \in BOOLEAN
    /\ apps_list \in [0 .. AppsMax - 1 -> Apps \cup {NoApp}]
    /\ curr_app_id \in 0 .. AppsMax
    /\ has_ctx \in [Apps -> BOOLEAN]
    /\ attr_hndl \in [Apps -> {"null", "zero", "set", "freed"}]
    /\ ble_if \in [Apps -> Ifs \cup {NoIf}]
    /\ conn_ctx \in [Apps -> [Slots -> ConnIds \cup {Free}]]
    /\ if_phase \in [Ifs -> {"none", "reg", "tab", "served", "idle"}]
    /\ links \subseteq ConnIds
    /\ told \in [Ifs -> SUBSET ConnIds]
    /\ kicked \subseteq ConnIds
    /\ evq \in Seq(Event)

BleInit ==
    /\ boot = 0
    /\ conn_num_max = 0
    /\ list_mem = FALSE
    /\ apps_list = [n \in 0 .. AppsMax - 1 |-> NoApp]
    /\ curr_app_id = 0
    /\ has_ctx = [a \in Apps |-> FALSE]
    /\ attr_hndl = [a \in Apps |-> "null"]
    /\ ble_if = [a \in Apps |-> NoIf]
    /\ conn_ctx = [a \in Apps |-> [s \in Slots |-> Free]]
    /\ if_phase = [i \in Ifs |-> "none"]
    /\ links = {}
    /\ told = [i \in Ifs |-> {}]
    /\ kicked = {}
    /\ evq = <<>>

-----------------------------------------------------------------------------
(* app_main: esk8_ble_apps_init and esk8_ble_app_register.                 *)

(* The NVS may be unavailable (nothing is set up); apps_list is allocated  *)
(* after the two maxima have been stored.                                  *)
AppsInit ==
    /\ boot = 0
    /\ boot' = 1
    /\ \/ /\ conn_num_max' = ConnMax
          /\ list_mem' = TRUE
       \/ /\ MayFail
          /\ conn_num_max' = ConnMax
          /\ list_mem' = FALSE
       \/ /\ MayFail
          /\ UNCHANGED <<conn_num_max, list_mem>>
    /\ UNCHANGED <<apps_list, curr_app_id, has_ctx, attr_hndl, ble_if,
                   conn_ctx, stack_vars>>

FirstFree(n) == /\ apps_list[n] = NoApp
                /\ \A m \in 0 .. n - 1 : apps_list[m] # NoApp

(* ESK8_BLE_INIT_NOINIT, ESK8_BLE_INIT_MAXREG: app_main logs the error and *)
(* goes on with the next application.                                      *)
RegisterRefused ==
    /\ boot \in DOMAIN AppOrder
    /\ ~list_mem \/ \A n \in DOMAIN apps_list : apps_list[n] # NoApp
    /\ boot' = boot + 1
    /\ UNCHANGED <<app_vars, stack_vars>>

(* The slot is taken before the two allocations, and is kept when one of   *)
(* them fails; only a full success consumes an application id.             *)
Register ==
    /\ boot \in DOMAIN AppOrder
    /\ list_mem
    /\ boot' = boot + 1
    /\ LET a == AppOrder[boot] IN
       \E n \in DOMAIN apps_list :
          /\ FirstFree(n)
          /\ apps_list' = [apps_list EXCEPT ![n] = a]
          /\ \/ /\ MayFail
                /\ \E h \in {"null", "freed"} :
                      attr_hndl' = [attr_hndl EXCEPT ![a] = h]
                /\ UNCHANGED <<curr_app_id, has_ctx, conn_ctx, if_phase>>
             \/ /\ attr_hndl' = [attr_hndl EXCEPT ![a] = "zero"]
                /\ has_ctx' = [has_ctx EXCEPT ![a] = TRUE]
                /\ conn_ctx' = [conn_ctx EXCEPT ![a] = [s \in Slots |-> Free]]
                /\ if_phase' = [if_phase EXCEPT ![curr_app_id + 1] = "reg"]
                /\ curr_app_id' = curr_app_id + 1
    /\ UNCHANGED <<conn_num_max, list_mem, ble_if, links, told, kicked, evq>>

BleMain == AppsInit \/ RegisterRefused \/ Register

-----------------------------------------------------------------------------
(* The stack and the peers.                                                *)

Ready(i) == if_phase[i] \notin {"none", "reg"}

(* A peer connects.  An identifier is given out again only when every      *)
(* interface has been told that its previous link ended.                   *)
LinkUp(c) ==
    /\ Len(evq) < QueueMax
    /\ c \notin links
    /\ LET to == {i \in Ifs : Ready(i)} IN
       /\ told' = [i \in Ifs |-> IF i \in to THEN told[i] \cup {c} ELSE told[i]]
       /\ evq' = IF to = {} THEN evq
                 ELSE Append(evq, [evt |-> "connect", to |-> to, conn |-> c])
    /\ links' = links \cup {c}
    /\ UNCHANGED <<boot, app_vars, if_phase, kicked>>

(* An interface registered while a link is up is told of it.               *)
StartIf(i, c) ==
    /\ Ready(i)
    /\ c \in links \ told[i]
    /\ told' = [told EXCEPT ![i] = @ \cup {c}]
    /\ evq' = Append(evq, [evt |-> "connect", to |-> {i}, conn |-> c])
    /\ UNCHANGED <<boot, app_vars, if_phase, links, kicked>>

(* The link ends: the peer leaves, goes out of range or is terminated.     *)
LinkDown(c) ==
    /\ c \in links
    /\ LET to == {i \in Ifs : c \in told[i]} IN
       evq' = IF to = {} THEN evq
              ELSE Append(evq, [evt |-> "disconnect", to |-> to, conn |-> c])
    /\ links' = links \ {c}
    /\ told' = [i \in Ifs |-> told[i] \ {c}]
    /\ kicked' = kicked \ {c}
    /\ UNCHANGED <<boot, app_vars, if_phase>>

(* A peer writes to a service that has been started.                       *)
ClientWrite(i, c, p) ==
    /\ Len(evq) < QueueMax
    /\ if_phase[i] = "served"
    /\ c \in told[i]
    /\ evq' = Append(evq, [evt |-> "write", to |-> {i}, conn |-> c, data |-> p])
    /\ UNCHANGED <<boot, app_vars, if_phase, links, told, kicked>>

-----------------------------------------------------------------------------
(* esk8_ble_apps_gatts_evt_hndl, run by the BTC task.                      *)

(* The application looked up for the events of an interface.               *)
Serves(a, i) == /\ \E n \in DOMAIN apps_list : apps_list[n] = a
                /\ has_ctx[a]
                /\ ble_if[a] = i

(* ESP_GATTS_REG_EVT indexes apps_list with the application id.  (A slip    *)
(* would be to take the first entry for it.)                               *)
RegAppFirst(i) == apps_list[0]
RegApp(i) == apps_list[i - 1]

RegEvt(i) ==
    /\ if_phase[i] = "reg"
    /\ LET a == RegApp(i) IN
       IF a = NoApp
       THEN /\ if_phase' = [if_phase EXCEPT ![i] = "idle"]
            /\ UNCHANGED ble_if
       ELSE /\ ble_if' = [ble_if EXCEPT ![a] = i]
            /\ if_phase' = [if_phase EXCEPT ![i] = "tab"]
    /\ UNCHANGED <<boot, conn_num_max, list_mem, apps_list, curr_app_id,
                   has_ctx, attr_hndl, conn_ctx, links, told, kicked, evq>>

(* ESP_GATTS_CREAT_ATTR_TAB_EVT with every handle created: the handles are *)
(* copied, app_init is called and the service is started.                  *)
TableCreated(i, a) ==
    /\ if_phase[i] = "tab"
    /\ Serves(a, i)
    /\ attr_hndl' = [attr_hndl EXCEPT ![a] = "set"]
    /\ if_phase' = [if_phase EXCEPT ![i] = "served"]
    /\ UNCHANGED <<boot, conn_num_max, list_mem, apps_list, curr_app_id,
                   has_ctx, ble_if, conn_ctx, links, told, kicked, evq>>

(* The table was not created, or no application serves the interface.      *)
TableIgnored(i) ==
    /\ if_phase[i] = "tab"
    /\ MayFail \/ \A a \in Apps : ~Serves(a, i)
    /\ if_phase' = [if_phase EXCEPT ![i] = "idle"]
    /\ UNCHANGED <<boot, app_vars, links, told, kicked, evq>>

(* The event at the head of the queue, for one of the interfaces it is     *)
(* addressed to.                                                           *)
Arrives(kind, i) == evq # <<>> /\ Head(evq).evt = kind /\ i \in Head(evq).to
Conn == Head(evq).conn

Consume(i) ==
    evq' = IF Head(evq).to = {i} THEN Tail(evq)
           ELSE [evq EXCEPT ![1].to = @ \ {i}]

Orphan(i) == \A a \in Apps : ~Serves(a, i)

(* No application: the handler returns.                                    *)
EvtIgnored(i) ==
    /\ \E kind \in {"connect", "disconnect", "write"} : Arrives(kind, i)
    /\ Orphan(i)
    /\ Consume(i)
    /\ UNCHANGED <<boot, app_vars, if_phase, links, told, kicked>>

FirstSlot(a, s, c) == /\ conn_ctx[a][s] = c
                      /\ \A r \in 0 .. s - 1 : conn_ctx[a][r] # c

Listed(a, c) == \E s \in Slots : conn_ctx[a][s] = c

(* ESP_GATTS_CONNECT_EVT: the first free slot; app_conn_add follows.  (A    *)
(* slip: the slot found is not filled in.)                                 *)
ConnectEvtKeepsSlot(i, a) ==
    /\ Arrives("connect", i) /\ Serves(a, i) /\ Listed(a, Free)
    /\ Consume(i)
    /\ UNCHANGED <<boot, app_vars, if_phase, links, told, kicked>>
ConnectEvt(i, a) ==
    /\ Arrives("connect", i)
    /\ Serves(a, i)
    /\ \E s \in Slots : /\ FirstSlot(a, s, Free)
                        /\ conn_ctx' = [conn_ctx EXCEPT ![a][s] = Conn]
    /\ Consume(i)
    /\ UNCHANGED <<boot, conn_num_max, list_mem, apps_list, curr_app_id,
                   has_ctx, attr_hndl, ble_if, if_phase, links, told, kicked>>

(* esp_ble_gap_disconnect of a peer.  When its link has ended meanwhile,   *)
(* the call hits the peer's next link, or nothing.  (A slip: log only.)    *)
KickNobody(c) == kicked' = kicked
Kick(c) ==
    \/ kicked' = kicked \cup (links \cap {c})
    \/ /\ \E n \in 2 .. Len(evq) : evq[n].evt = "disconnect" /\ evq[n].conn = c
       /\ kicked' = kicked

(* Every slot is taken.                                                    *)
ConnectFull(i, a) ==
    /\ Arrives("connect", i)
    /\ Serves(a, i)
    /\ ~Listed(a, Free)
    /\ Kick(Conn)
    /\ Consume(i)
    /\ UNCHANGED <<boot, app_vars, if_phase, links, told>>

(* A slot back to unused.  (Slips: the slot is left as it is; -1 goes      *)
(* through an unsigned 16-bit conn_id.)                                    *)
FreeSlotNot(a, s) == conn_ctx
FreeSlotUnsigned(a, s) == [conn_ctx EXCEPT ![a][s] = 65535]
FreeSlot(a, s) == [conn_ctx EXCEPT ![a][s] = Free]

(* ESP_GATTS_DISCONNECT_EVT of a listed connection: app_conn_del, then the *)
(* slot is freed.                                                          *)
DisconnectEvt(i, a) ==
    /\ Arrives("disconnect", i)
    /\ Serves(a, i)
    /\ \E s \in Slots : /\ FirstSlot(a, s, Conn)
                        /\ conn_ctx' = FreeSlot(a, s)
    /\ Consume(i)
    /\ UNCHANGED <<boot, conn_num_max, list_mem, apps_list, curr_app_id,
                   has_ctx, attr_hndl, ble_if, if_phase, links, told, kicked>>

(* ESP_GATTS_WRITE_EVT: the handle and the connection are known;           *)
(* app_conn_write follows.                                                 *)
WriteEvt(i, a) ==
    /\ Arrives("write", i)
    /\ Serves(a, i)
    /\ attr_hndl[a] = "set" /\ Listed(a, Conn)
    /\ Consume(i)
    /\ UNCHANGED <<boot, app_vars, if_phase, links, told, kicked>>

(* A disconnection or a write of a connection the application does not     *)
(* list is logged and dropped.                                             *)
UnlistedEvt(i, a) ==
    /\ Arrives("disconnect", i) \/ Arrives("write", i)
    /\ Serves(a, i)
    /\ ~Listed(a, Conn)
    /\ Consume(i)
    /\ UNCHANGED <<boot, app_vars, if_phase, links, told, kicked>>

-----------------------------------------------------------------------------
TableEvt(i) == TableIgnored(i) \/ \E a \in Apps : TableCreated(i, a)

QueueEvt(i) ==
    \/ EvtIgnored(i)
    \/ \E a \in Apps : \/ ConnectEvt(i, a) \/ ConnectFull(i, a)
                        \/ DisconnectEvt(i, a)
                        \/ WriteEvt(i, a) \/ UnlistedEvt(i, a)

Stack ==
    \/ \E c \in ConnIds : LinkUp(c) \/ LinkDown(c)
    \/ \E i \in Ifs, c \in ConnIds :
          StartIf(i, c) \/ \E p \in Payloads : ClientWrite(i, c, p)

BleNext ==
    \/ BleMain
    \/ Stack
    \/ \E i \in Ifs : RegEvt(i) \/ TableEvt(i) \/ QueueEvt(i)

(* app_main and the BTC task run whenever they have something to do, and   *)
(* BTC takes its work in order; the stack announces links and terminates   *)
(* those it was asked to.  Peers owe nothing.                              *)
BleFairness ==
    /\ WF_ble_vars(BleMain)
    /\ WF_ble_vars(\E i \in Ifs : QueueEvt(i))
    /\ \A i \in Ifs : WF_ble_vars(RegEvt(i)) /\ WF_ble_vars(TableEvt(i))
    /\ \A i \in Ifs, c \in ConnIds : WF_ble_vars(StartIf(i, c))
    /\ \A c \in ConnIds : WF_ble_vars(c \in kicked /\ LinkDown(c))

BleSpec == BleInit /\ [][BleNext]_ble_vars /\ BleFairness

-----------------------------------------------------------------------------
(* The n-th event waiting is of this kind, about connection c, and for     *)
(* interface i among others.                                               *)
About(kind, n, c) == n \in DOMAIN evq /\ evq[n].evt = kind /\ evq[n].conn = c
Comes(kind, n, i, c) == About(kind, n, c) /\ i \in evq[n].to
Pending(kind, i, c) == \E n \in DOMAIN evq : Comes(kind, n, i, c)

(* An application lists a connection at most once, and every connection it *)
(* lists is one the stack has told its interface of and has not ended,     *)
(* unless the disconnection is still on its way: no application keeps a    *)
(* context for a peer that is gone.                                        *)
ListedIsKnown ==
    \A a \in Apps : \A s \in Slots :
       LET c == conn_ctx[a][s] IN
       c # Free =>
          /\ \A r \in Slots \ {s} : conn_ctx[a][r] # c
          /\ \E i \in Ifs : /\ Serves(a, i)
                            /\ c \in told[i] \/ Pending("disconnect", i, c)

(* No link is stranded: a link an interface was told of is listed by the   *)
(* application that serves the interface, or its connection event is still *)
(* queued, or it is being terminated because the list was full.            *)
NoneStranded ==
    \A i \in Ifs : \A a \in Apps : \A c \in told[i] :
       Serves(a, i) => Listed(a, c) \/ Pending("connect", i, c) \/ c \in kicked

(* Application identifiers and apps_list indices stay aligned for every    *)
(* application that got an interface, also when registrations failed: an   *)
(* interface answers to one application, and an application whose handles  *)
(* were filled in is the one whose service was started on it.              *)
OneAppPerInterface ==
    /\ \A a, b \in Apps : a # b /\ ble_if[a] = ble_if[b] => ble_if[a] = NoIf
    /\ \A a \in Apps : attr_hndl[a] = "set" =>
          /\ ble_if[a] # NoIf
          /\ if_phase[ble_if[a]] = "served"
          /\ apps_list[ble_if[a] - 1] = a

(* The inductive invariant behind OneAppPerInterface: the entries of        *)
(* apps_list are filled from the front, each by an application app_main has *)
(* registered; identifiers never run ahead of the filled entries; and an    *)
(* application's interface is the one of the entry it occupies.             *)
AppTable ==
    /\ \A n \in 0 .. AppsMax - 1 :
          n < curr_app_id => apps_list[n] # NoApp
    /\ \A n \in 0 .. AppsMax - 1 : apps_list[n] # NoApp =>
          \E k \in DOMAIN AppOrder : k < boot /\ AppOrder[k] = apps_list[n]
    /\ \A m, n \in 0 .. AppsMax - 1 :
          apps_list[m] = apps_list[n] /\ apps_list[m] # NoApp => m = n

Interfaces ==
    /\ \A i \in Ifs : if_phase[i] # "none" => i <= curr_app_id
    /\ \A a \in Apps : ble_if[a] # NoIf =>
          /\ apps_list[ble_if[a] - 1] = a
          /\ if_phase[ble_if[a]] \notin {"none", "reg"}
    /\ \A a \in Apps : attr_hndl[a] = "set" =>
          /\ ble_if[a] # NoIf
          /\ if_phase[ble_if[a]] = "served"

BleInv == BleTypeOK /\ AppTable /\ Interfaces

(* The inductive invariant behind ListedIsKnown and NoneStranded.  An       *)
(* interface is told of connections and disconnections of a link in turn,  *)
(* the last of which agrees with told; a queued disconnection of a link    *)
(* whose connection waits before it, for whatever interfaces, is also one  *)
(* for the interface of that connection.                                   *)
TurnOrder(i, c) ==
    \A n \in DOMAIN evq :
       /\ Comes("connect", n, i, c) =>
             /\ c \in told[i] \/ \E m \in DOMAIN evq : n < m /\ Comes("disconnect", m, i, c)
             /\ \A m \in DOMAIN evq : n < m /\ Comes("connect", m, i, c) =>
                   \E k \in DOMAIN evq : n < k /\ k < m /\ Comes("disconnect", k, i, c)
             /\ \A m \in DOMAIN evq : n < m /\ About("disconnect", m, c) =>
                   \E k \in DOMAIN evq : n < k /\ Comes("disconnect", k, i, c)
       /\ Comes("disconnect", n, i, c) /\ c \in told[i] =>
             \E m \in DOMAIN evq : n < m /\ Comes("connect", m, i, c)

(* The stack tells nobody before an interface is ready.                    *)
ToldOnceReady ==
    \A i \in Ifs :
       /\ told[i] \subseteq links
       /\ ~Ready(i) => /\ told[i] = {}
                       /\ \A n \in DOMAIN evq : i \notin evq[n].to

(* The connection of a listed link waits behind its disconnection.         *)
ListOrder(i, a, c) ==
    Serves(a, i) /\ Listed(a, c) =>
       \A n \in DOMAIN evq : Comes("connect", n, i, c) =>
          \E m \in DOMAIN evq : m < n /\ Comes("disconnect", m, i, c)

LinkInv ==
    /\ BleInv
    /\ \A i \in Ifs, c \in ConnIds : TurnOrder(i, c)
    /\ ToldOnceReady
    /\ \A i \in Ifs, a \in Apps, c \in ConnIds : ListOrder(i, a, c)
    /\ ListedIsKnown
    /\ NoneStranded

(* A link ends up listed by every application that serves an interface, or *)
(* it ends: peers over the limit are not kept half connected.              *)
EveryLinkSettles ==
    \A a \in Apps, i \in Ifs, c \in ConnIds :
       (Serves(a, i) /\ c \in links) ~> (Listed(a, c) \/ c \notin links)

(* As long as no registration was refused or ran out of memory, and every  *)
(* attribute table was created.                                            *)
NothingFailed ==
    /\ boot > 0 => list_mem /\ curr_app_id = boot - 1
    /\ \A i \in Ifs : if_phase[i] # "idle"

(* When nothing fails, every application app_main registers is served on an *)
(* interface in the end, however its events and those of the links mix.    *)
EveryAppServed ==
    []NothingFailed =>
       \A a \in Apps : <>(attr_hndl[a] = "set" /\ \E i \in Ifs : Serves(a, i))
=============================================================================
