-------------------------------- MODULE Btn --------------------------------
(***************************************************************************)
(* The button driver, lib/btn: the edge interrupt with its debouncing, the *)
(* long-press timer, and the queue of one event that esk8_btn_await_press  *)
(* reads.                                                                  *)
(*                                                                         *)
(* Three actors share hndl_state without a lock: the interrupt handler,    *)
(* the timer callback, which the esp_timer task runs some time after the   *)
(* timer has expired and which the interrupt may cut in two, and the task  *)
(* that waits for events.  Time is what the code compares: whether the     *)
(* debounce period since the last accepted edge has passed.                *)
(***************************************************************************)
EXTENDS Integers

VARIABLES
    level,       \* the line: "up" or "down"
    irq,         \* "yes" when an edge interrupt is pending
    recent,      \* last accepted edge within debounce_ms: "no", "arm" when
                 \* that edge started the timer, "other"
    hndl_state,  \* "RELEASED" or "PRESSED"
    tmr,         \* the one-shot timer: "idle" or "armed"
    cb,          \* its callback: "none", "called", "cleared" (state set)
    que,         \* the event queue: "empty", "PRESS" or "LONGPRESS"
    raced,       \* history: "yes" when an edge was handled while cb was "called"
    balance      \* history: presses accepted less events sent

btn_vars == <<level, irq, recent, hndl_state, tmr, cb, que, raced, balance>>

TypeOK ==
    /\ level \in {"up", "down"}
    /\ irq \in {"yes", "no"}
    /\ recent \in {"no", "arm", "other"}
    /\ hndl_state \in {"RELEASED", "PRESSED"}
    /\ tmr \in {"idle", "armed"}
    /\ cb \in {"none", "called", "cleared"}
    /\ que \in {"empty", "PRESS", "LONGPRESS"}
    /\ raced \in {"yes", "no"}
    /\ balance \in -1 .. 2

Init ==
    /\ level \in {"up", "down"}
    /\ irq = "no"
    /\ recent = "no"
    /\ hndl_state = "RELEASED"
    /\ tmr = "idle"
    /\ cb = "none"
    /\ que = "empty"
    /\ raced = "no"
    /\ balance = 0

-----------------------------------------------------------------------------
(* History: d presses more (less: events).  A race suspends the count      *)
(* until neither the timer nor its callback has anything left to do.       *)
Count(d, hit) ==
    LET race == raced = "yes" \/ hit
        over == race /\ tmr' = "idle" /\ cb' = "none"
    IN /\ raced' = IF race /\ ~over THEN "yes" ELSE "no"
       /\ balance' = IF over THEN 0 ELSE IF race THEN balance ELSE balance + d

(* xQueueSendFromISR to a queue of one: a full queue drops the event.      *)
Send(e) == que' = IF que = "empty" THEN e ELSE que

(* The user, or a bouncing contact.                                        *)
Edge ==
    /\ level' = IF level = "up" THEN "down" ELSE "up"
    /\ irq' = "yes"
    /\ UNCHANGED <<recent, hndl_state, tmr, cb, que, raced, balance>>

(* The debounce period has passed.                                         *)
Settle ==
    /\ recent # "no"
    /\ recent' = "no"
    /\ UNCHANGED <<level, irq, hndl_state, tmr, cb, que, raced, balance>>

-----------------------------------------------------------------------------
(* esk8_btn_isr.                                                           *)

IsrBounce ==
    /\ irq = "yes" /\ recent # "no"
    /\ irq' = "no"
    /\ UNCHANGED <<level, recent, hndl_state, tmr, cb, que, raced, balance>>

Accept == /\ irq = "yes" /\ recent = "no"
          /\ irq' = "no"
          /\ UNCHANGED <<level, cb>>

(* esp_timer_stop in the release, esp_timer_start_once in the press: the   *)
(* first does nothing to a callback already called, the second nothing to  *)
(* a timer already armed.  (Slips: the release does not stop the timer;    *)
(* the press does not start it.)                                           *)
StopNot == tmr' = tmr
Stop == tmr' = "idle"
StartNot == tmr' = tmr
Start == tmr' = "armed"

IsrRelease ==
    /\ Accept
    /\ level = "up" /\ hndl_state = "PRESSED"
    /\ recent' = "other"
    /\ hndl_state' = "RELEASED"
    /\ Stop
    /\ Send("PRESS")
    /\ Count(-1, cb = "called")

IsrPress ==
    /\ Accept
    /\ level = "down" /\ hndl_state = "RELEASED"
    /\ recent' = "arm"
    /\ hndl_state' = "PRESSED"
    /\ Start
    /\ Count(1, cb = "called")
    /\ UNCHANGED que

(* The edge only restarts the debounce period.                             *)
IsrNothing ==
    /\ Accept
    /\ IF level = "up" THEN hndl_state = "RELEASED" ELSE hndl_state = "PRESSED"
    /\ recent' = "other"
    /\ UNCHANGED <<hndl_state, tmr, que, raced, balance>>

-----------------------------------------------------------------------------
(* The esp_timer task takes the expired timer off its list, later calls    *)
(* esk8_tmr_isr.  longpress_ms is longer than debounce_ms.                 *)
Expire ==
    /\ tmr = "armed" /\ recent # "arm" /\ cb = "none"
    /\ tmr' = "idle"
    /\ cb' = "called"
    /\ UNCHANGED <<level, irq, recent, hndl_state, que, raced, balance>>

(* (A slip: the callback leaves the state to the release.)                 *)
TmrClearNot == hndl_state' = hndl_state
TmrClear == hndl_state' = "RELEASED"

TmrState ==
    /\ cb = "called"
    /\ cb' = "cleared"
    /\ TmrClear
    /\ UNCHANGED <<level, irq, recent, tmr, que, raced, balance>>

TmrSend ==
    /\ cb = "cleared"
    /\ cb' = "none"
    /\ Send("LONGPRESS")
    /\ UNCHANGED <<level, irq, recent, hndl_state, tmr>>
    /\ Count(-1, FALSE)

(* esk8_btn_await_press; a timeout changes nothing.                        *)
Await ==
    /\ que # "empty"
    /\ que' = "empty"
    /\ UNCHANGED <<level, irq, recent, hndl_state, tmr, cb, raced, balance>>

Isr   == IsrBounce \/ IsrRelease \/ IsrPress \/ IsrNothing
Timer == Expire \/ TmrState \/ TmrSend

Next == Edge \/ Settle \/ Isr \/ Timer \/ Await

(* Time passes and interrupts and timers are served; users owe nothing.    *)
Fairness ==
    /\ WF_btn_vars(Settle) /\ WF_btn_vars(Isr)
    /\ WF_btn_vars(Expire) /\ WF_btn_vars(TmrState) /\ WF_btn_vars(TmrSend)

Spec == Init /\ [][Next]_btn_vars /\ Fairness

-----------------------------------------------------------------------------
(* A button taken for pressed has a timer, or its callback, that will take *)
(* it for released, whatever edges the contact swallowed: the driver never *)
(* waits for a release that the debouncing dropped.                        *)
PressedHasTimer == hndl_state = "PRESSED" => tmr = "armed" \/ cb = "called"

(* For every press accepted exactly one event is sent, of a release or of  *)
(* a long press (a full queue drops it), except while a release raced with *)
(* the callback of an expired timer.                                       *)
OneEventPerPress ==
    /\ balance >= 0
    /\ tmr = "idle" /\ cb = "none" => balance = 0

(* A button taken for pressed is taken for released in the end.            *)
PressEnds == hndl_state = "PRESSED" ~> hndl_state = "RELEASED"

(* "case ESK8_BTN_STATE_RELEASED: // button pressed, no timer": in state   *)
(* RELEASED the timer does not run.                                        *)
ReleasedHasNoTimer == hndl_state = "RELEASED" => tmr = "idle"

(* The inductive invariant: outside a race the count is what the state and *)
(* the callback still owe.                                                 *)
Owed == (IF hndl_state = "PRESSED" THEN 1 ELSE 0)
        + (IF cb = "cleared" THEN 1 ELSE 0)
BtnInv ==
    /\ TypeOK
    /\ PressedHasTimer
    /\ raced = "no" => balance = Owed
    /\ raced = "yes" => tmr = "armed" \/ cb # "none"
    /\ raced = "no" => ReleasedHasNoTimer
    /\ raced = "no" /\ cb = "called" => hndl_state = "PRESSED" /\ tmr = "idle"
    /\ raced = "yes" => balance >= 0
=============================================================================
