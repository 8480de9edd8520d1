------------------------------ MODULE BmsPoll ------------------------------
(***************************************************************************)
(* The battery polling of the board: the loop of esk8_onboard_task_bms,    *)
(* the register reads of lib/bms with their retries, and what they         *)
(* accept as an answer (lib/uart).                                         *)
(*                                                                         *)
(* Each battery has its own receive pin and answers a request with a       *)
(* message, late or never; the interrupt of the UART driver puts what      *)
(* arrives on the selected pin into the receive buffer.  A message is a    *)
(* sequence of units, the first of which holds its header, and its content *)
(* is the battery and the register it speaks of.                           *)
(***************************************************************************)
EXTENDS Integers, Sequences

CONSTANTS
    NBat,      \* ESK8_UART_BMS_CONF_NUM, the number of batteries
    Shallow,   \* the registers of esk8_bms_get_status, in order
    Deep,      \* the registers of esk8_bms_get_deep_status, in order
    Units,     \* the length of the answer to each register, in units
    Spill,     \* how many fields behind its own a deep register overwrites
    Retries,   \* ESK8_UART_BMS_MSG_UPDATE_RETRIES
    MaxOwed    \* bound: answers on their way at once

Bats  == 0 .. NBat - 1
Regs  == {Shallow[k] : k \in DOMAIN Shallow} \cup {Deep[k] : k \in DOMAIN Deep}
Whats == {"shallow", "deep"}
List(w) == IF w = "shallow" THEN Shallow ELSE Deep

Junk == "junk"   \* not a value: memory beyond a payload that was too short,
                 \* or bytes that are of another field
Zero == "zero"   \* what calloc left

ASSUME BmsAssumption ==
    /\ NBat \in Nat \ {0}
    /\ Shallow \in Seq(STRING) /\ Shallow # <<>>
    /\ Deep \in Seq(STRING) /\ Deep # <<>>
    /\ {Junk, Zero} \cap Regs = {}
    /\ Units \in [Regs -> Nat \ {0}]
    /\ Spill \in [DOMAIN Deep -> Nat]
    /\ \A k \in DOMAIN Deep : k + Spill[k] <= Len(Deep)
    /\ Retries \in Nat \ {0}
    /\ MaxOwed \in Nat

VARIABLES
    pc,      \* "select", "send", "await" or "report"
    bat,     \* i of the polling loop
    wire,    \* the battery whose pins are selected
    what,    \* which status is being read
    idx,     \* the register being read, by position
    tries,   \* retries
    err,     \* the result of the read: "ESK8_OK" or "ERR" for any error
    vals,    \* out_values of esk8_bms_get_status
    stat,    \* esk8_onboard.bms_stat and bms_deep_stat
    note,    \* the last notification, with the record published before it
    owed,    \* answers the selected battery is still to send
    sent,    \* units of the first of them that have arrived
    rx,      \* the receive buffer of the UART driver
    late     \* "yes" when answers may come after their timeout (never changes)

vars == <<pc, bat, wire, what, idx, tries, err, vals, stat, note, owed, sent, rx, late>>

Value   == [bat : Bats \cup {-1}, reg : Regs \cup {Junk, Zero}]
Unit    == [bat : Bats, reg : Regs, fit : {"yes", "no"}, part : Nat]
Nothing == [bat |-> -1, reg |-> Zero]
Blank(w) == [k \in DOMAIN List(w) |-> Nothing]
Records(w) == [DOMAIN List(w) -> Value]
Errs     == {"ESK8_OK", "ERR"}
Messages == [bat : Bats, reg : Regs, fit : {"yes", "no"}]
Stats    == [shallow : [Bats -> Records("shallow")],
             deep    : [Bats -> Records("deep")]]
Notes    == [what : Whats, bat : Bats, err : Errs,
             rec : Records("shallow") \cup Records("deep")]

TypeOK ==
    /\ pc \in {"select", "send", "await", "report"}
    /\ bat \in Bats /\ wire \in Bats
    /\ what \in Whats
    /\ idx \in DOMAIN List(what)
    /\ tries \in 0 .. Retries
    /\ err \in Errs
    /\ vals \in Records("shallow")
    /\ stat \in Stats
    /\ note \in Notes
    /\ owed \in Seq(Messages)
    /\ sent \in Nat
    /\ rx \in Seq(Unit)
    /\ late \in {"yes", "no"}

Init ==
    /\ pc = "select" /\ bat = 0 /\ wire = 0
    /\ what = "shallow" /\ idx = 1 /\ tries = 0 /\ err = "ESK8_OK"
    /\ vals = Blank("shallow")
    /\ stat = [shallow |-> [b \in Bats |-> Blank("shallow")],
               deep    |-> [b \in Bats |-> Blank("deep")]]
    /\ note = [what |-> "shallow", bat |-> 0, err |-> "ERR",
               rec |-> Blank("shallow")]
    /\ owed = <<>> /\ sent = 0 /\ rx = <<>>
    /\ late \in {"yes", "no"}

-----------------------------------------------------------------------------
(* The batteries and the UART.                                             *)

(* The battery takes the request, answers it well, answers it in a way     *)
(* that fails a test (sum, source or argument), or not at all.             *)
Answer ==
    \/ UNCHANGED owed
    \/ /\ Len(owed) < MaxOwed
       /\ \E fit \in {"yes", "no"} :
             owed' = Append(owed, [bat |-> bat, reg |-> List(what)[idx],
                                   fit |-> fit])

(* A unit of an answer arrives on the selected pin.                        *)
Arrive ==
    /\ owed # <<>>
    /\ LET m == Head(owed) IN
       /\ rx' = Append(rx, [bat |-> m.bat, reg |-> m.reg, fit |-> m.fit,
                            part |-> sent + 1])
       /\ IF sent + 1 = Units[m.reg]
          THEN owed' = Tail(owed) /\ sent' = 0
          ELSE sent' = sent + 1 /\ UNCHANGED owed
    /\ UNCHANGED <<pc, bat, wire, what, idx, tries, err, vals, stat, note, late>>

-----------------------------------------------------------------------------
(* esk8_bms_set_pin: what the battery selected before is still sending is  *)
(* lost.                                                                   *)
Select ==
    /\ pc = "select"
    /\ pc' = "send"
    /\ wire' = bat
    /\ IF wire = bat THEN UNCHANGED <<owed, sent>>
       ELSE owed' = <<>> /\ sent' = 0
    /\ UNCHANGED <<bat, what, idx, tries, err, vals, stat, note, rx, late>>

(* get_data_with_response: the receive buffer is emptied and the request   *)
(* sent.  (A slip: the buffer is not emptied.)                             *)
FlushNot == rx' = rx
Flush == rx' = <<>>

Send ==
    /\ pc = "send"
    /\ pc' = "await"
    /\ tries' = tries + 1
    /\ Flush
    /\ Answer
    /\ UNCHANGED <<bat, wire, what, idx, err, vals, stat, note, sent, late>>

Need == Units[List(what)[idx]]
Buf  == SubSeq(rx, 1, Need)

(* esk8_uart_msg_parse: the message at the first header, when it is whole, *)
(* and the tests that follow.                                              *)
FirstHeader(k) == /\ k \in 1 .. Need
                  /\ Buf[k].part = 1
                  /\ \A j \in 1 .. k - 1 : Buf[j].part # 1

Whole(k) == /\ k + Units[Buf[k].reg] - 1 <= Need
            /\ \A j \in 1 .. Units[Buf[k].reg] :
                  Buf[k + j - 1] = [Buf[k] EXCEPT !.part = j]

(* The attempt failed: try again, or give up with an error.                *)
Failed ==
    IF tries < Retries
    THEN pc' = "send" /\ UNCHANGED <<tries, err>>
    ELSE pc' = "report" /\ tries' = 0 /\ err' = "ERR"

(* Fewer bytes than asked for within the timeout.                          *)
TimeOut ==
    /\ pc = "await"
    /\ Len(rx) < Need
    /\ late = "yes" \/ owed = <<>>
    /\ rx' = <<>>
    /\ Failed
    /\ UNCHANGED <<bat, wire, what, idx, vals, stat, note, owed, sent, late>>

Refuse ==
    /\ pc = "await"
    /\ Len(rx) >= Need
    /\ \A k \in 1 .. Need : FirstHeader(k) => ~(Whole(k) /\ Buf[k].fit = "yes")
    /\ rx' = SubSeq(rx, Need + 1, Len(rx))
    /\ Failed
    /\ UNCHANGED <<bat, wire, what, idx, vals, stat, note, owed, sent, late>>

(* The register the answer speaks of is not compared with the one asked    *)
(* for; a payload shorter than that is read beyond its end.                *)
Content(u) == IF Units[u.reg] < Need THEN [bat |-> u.bat, reg |-> Junk]
              ELSE [bat |-> u.bat, reg |-> u.reg]

(* esk8_bms_get_deep_status writes in place, and 14 bytes to each of the   *)
(* fields read from register 0x10: to the serial number, and to the date   *)
(* of two bytes that has the same register, and the fields behind it.  The *)
(* last register finishes esk8_bms_get_status, which now copies out_values. *)
(* (A slip: out_values are copied one by one.)                             *)
StoreInPlace(v) ==
    /\ vals' = [vals EXCEPT ![idx] = v]
    /\ stat' = [stat EXCEPT ![what][bat][idx] = v]
Filled(v) == [k \in DOMAIN Deep |->
                IF k = idx THEN v
                ELSE IF k \in idx + 1 .. idx + Spill[idx] THEN [v EXCEPT !.reg = Junk]
                ELSE stat.deep[bat][k]]
StoreDeep(v) == stat' = [stat EXCEPT !.deep[bat] = Filled(v)] /\ UNCHANGED vals
StoreShallow(v) ==
    /\ vals' = [vals EXCEPT ![idx] = v]
    /\ stat' = IF idx = Len(Shallow)
               THEN [stat EXCEPT !.shallow[bat] = vals'] ELSE stat
Store(v) == IF what = "deep" THEN StoreDeep(v) ELSE StoreShallow(v)

Accept ==
    /\ pc = "await"
    /\ Len(rx) >= Need
    /\ \E k \in 1 .. Need :
          FirstHeader(k) /\ Whole(k) /\ Buf[k].fit = "yes"
          /\ Store(Content(Buf[k]))
    /\ rx' = SubSeq(rx, Need + 1, Len(rx))
    /\ tries' = 0
    /\ IF idx = Len(List(what))
       THEN pc' = "report" /\ err' = "ESK8_OK" /\ UNCHANGED idx
       ELSE pc' = "send" /\ idx' = idx + 1 /\ UNCHANGED err
    /\ UNCHANGED <<bat, wire, what, note, owed, sent, late>>

(* esk8_ble_app_status_bms_shallow and _deep publish the record and notify *)
(* the result of the read; then the other status, or the next battery, is  *)
(* read.  out_values were the read's own; the next one has others.  (A     *)
(* slip: the error is not handed on.)                                      *)
NotifyOk == note' = [what |-> what, bat |-> bat, err |-> "ESK8_OK", rec |-> stat[what][bat]]
Notify == note' = [what |-> what, bat |-> bat, err |-> err, rec |-> stat[what][bat]]

(* (Slips: a battery that failed is read again at once; the index is not   *)
(* wrapped.)                                                               *)
NextBatUnbound == bat + 1
NextBatSticks == IF err = "ERR" THEN bat ELSE (bat + 1) % NBat
NextBat == (bat + 1) % NBat

Report ==
    /\ pc = "report"
    /\ Notify
    /\ idx' = 1 /\ vals' = Blank("shallow")
    /\ IF what = "shallow"
       THEN pc' = "send" /\ what' = "deep" /\ UNCHANGED bat
       ELSE pc' = "select" /\ what' = "shallow" /\ bat' = NextBat
    /\ UNCHANGED <<wire, tries, err, stat, owed, sent, rx, late>>

Task == Select \/ Send \/ TimeOut \/ Refuse \/ Accept \/ Report
Next == Task \/ Arrive

(* The task runs and a wait ends, once what is on its way has arrived;     *)
(* batteries owe no answer.                                                *)
Spec == Init /\ [][Next]_vars /\ WF_vars(Next)

-----------------------------------------------------------------------------
(* A notification without an error is sent for a record every field of     *)
(* which was read from the register it stands for, of that battery.        *)
OkIsRight ==
    note.err = "ESK8_OK" =>
       \A k \in DOMAIN List(note.what) :
                    note.rec[k] = [bat |-> note.bat, reg |-> List(note.what)[k]]

(* The same of batteries that may be silent or talk nonsense, but whose    *)
(* answers come before the timeout or never: what the read of one field    *)
(* spilt over others has been overwritten by then.                         *)
PromptOkIsRight == late = "no" => OkIsRight

(* However late and garbled the answers: every field of a record came from *)
(* the battery the record is of.                                           *)
OwnBattery ==
    \A w \in Whats : \A b \in Bats : \A k \in DOMAIN List(w) :
       stat[w][b][k].bat \in {b, -1}

(* The inductive invariant behind it: what is on its way comes from the    *)
(* selected battery, what waits in the buffer after a request too, and so  *)
(* does what the present read has collected.                               *)
OwedOwn == \A k \in 1 .. Len(owed) : owed[k].bat = wire
RxOwn   == \A k \in 1 .. Len(rx) : rx[k].bat = bat
ReadOwn == \A k \in 1 .. idx - 1 : vals[k].bat = bat
PollInv ==
    /\ TypeOK
    /\ pc = "select" => what = "shallow" /\ idx = 1
    /\ pc # "select" => wire = bat
    /\ OwedOwn
    /\ pc = "await" => RxOwn
    /\ what = "shallow" => ReadOwn
    /\ pc \in {"select", "report"} => tries = 0
    /\ pc = "send" => tries < Retries
    /\ OwnBattery

(* The shallow record is never torn, and no record without an error is:    *)
(* all of its fields have been read, or none.                              *)
NotTorn ==
    /\ \A b \in Bats : \A j, k \in DOMAIN Shallow :
          stat.shallow[b][j] = Nothing => stat.shallow[b][k] = Nothing
    /\ note.err = "ESK8_OK" =>
          \A k \in DOMAIN List(note.what) : note.rec[k] # Nothing

(* The inductive invariant behind NotTorn: what the present read has got   *)
(* so far, of a deep status that is the front of the record itself, came   *)
(* from the battery, whatever was spilt behind it.                         *)
Collected == IF what = "shallow" THEN vals ELSE stat.deep[bat]
AllOf(r, w, b) == \A k \in DOMAIN List(w) : r[k].bat = b
WholeInv ==
    /\ PollInv
    /\ \A b \in Bats : \/ stat.shallow[b] = Blank("shallow")
                       \/ AllOf(stat.shallow[b], "shallow", b)
    /\ \A k \in 1 .. idx - 1 : Collected[k].bat = bat
    /\ pc = "report" /\ err = "ESK8_OK" => AllOf(stat[what][bat], what, bat)
    /\ note.err = "ESK8_OK" => AllOf(note.rec, note.what, note.bat)

(* And the one behind PromptOkIsRight: when answers are never late, none   *)
(* outlives its attempt, so that what arrives is of the register asked for. *)
Asked == List(what)[idx]
AnswersAsked ==
    /\ pc # "await" => owed = <<>>
    /\ owed = <<>> => sent = 0
    /\ pc = "await" =>
          /\ Len(owed) <= 1 /\ Len(rx) <= Need
          /\ owed # <<>> => owed[1].reg = Asked /\ sent = Len(rx) /\ sent < Need
          /\ \A j \in 1 .. Len(rx) : rx[j].reg = Asked

Right(w, b, k) == [bat |-> b, reg |-> List(w)[k]]
AllRight(r, w, b) == \A k \in DOMAIN List(w) : r[k] = Right(w, b, k)
ReadRight ==
    /\ \A k \in 1 .. idx - 1 : Collected[k] = Right(what, bat, k)
    /\ pc = "report" /\ err = "ESK8_OK" => AllRight(stat[what][bat], what, bat)
    /\ OkIsRight
RightIfPrompt == late = "no" => AnswersAsked /\ ReadRight
PromptInv == PollInv /\ RightIfPrompt

(* And what the parser relies on: from a request on, units arrive in order *)
(* and without a gap, each behind those of its message that came before;   *)
(* only the message that stands first may lack its front.                  *)
InOrder ==
    \A k \in 1 .. Len(rx) :
       LET left == Units[rx[k].reg] - rx[k].part IN
       /\ rx[k].part \in 1 .. Units[rx[k].reg]
       /\ \A j \in 0 .. left : k + j <= Len(rx) =>
             rx[k + j] = [rx[k] EXCEPT !.part = @ + j]
       /\ left = 0 /\ k < Len(rx) => rx[k + 1].part = 1
LastSent ==
    rx # <<>> =>
       LET u == rx[Len(rx)] IN
       IF sent = 0 THEN u.part = Units[u.reg]
       ELSE u = [bat |-> owed[1].bat, reg |-> owed[1].reg,
                 fit |-> owed[1].fit, part |-> sent]
Ordered ==
    /\ sent > 0 => owed # <<>> /\ sent < Units[owed[1].reg]
    /\ pc = "await" => InOrder /\ LastSent
OrderInv == PollInv /\ Ordered

(* All that is known of the polling loop: what it has read is the asked    *)
(* battery's own, whole, and right when answers are never late; and what   *)
(* it reads from stands in order.                                          *)
PollingInv == WholeInv /\ RightIfPrompt /\ Ordered

(* Batteries that are silent or talk nonsense do not keep the others from  *)
(* being polled: round after round, the first battery's report follows the *)
(* deep status, which is the second, of the last one; those between them   *)
(* are reported in turn (ImplementsReports).                               *)
EveryBatteryReported ==
    []<>(/\ pc = "report" /\ what = "shallow" /\ bat = 0
         /\ note.what = "deep" /\ note.bat = NBat - 1)

-----------------------------------------------------------------------------
(* A record of values that battery b told, right or not.                   *)
ToldBy(w, b) == [DOMAIN List(w) -> [bat : {b}, reg : Regs \cup {Junk, Zero}]]

Reports == INSTANCE BatteryReports WITH
    Told      <- [w \in Whats |-> [b \in Bats |-> ToldBy(w, b)]],
    AnyRecord <- [w \in Whats |-> Records(w)],
    NoRecord  <- Blank("shallow"),
    due       <- [what |-> what, bat |-> bat],
    got       <- (pc = "report" /\ err = "ESK8_OK"),
    shallow   <- stat.shallow,
    last      <- note

(* The polling loop reports as BatteryReports says: in turn, without an    *)
(* error only after a read that was complete, and with a shallow record    *)
(* that is never torn.                                                     *)
ImplementsReports == Reports!ReportsSpec
=============================================================================
