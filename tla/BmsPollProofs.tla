--------------------------- MODULE BmsPollProofs ---------------------------
(* Proofs about the battery polling, and about the bytes of its answers.   *)
EXTENDS BmsUart, UartMsgProofs

(* What the constants give: lists are functions on 1 .. n, and every       *)
(* register asked for has a length.                                        *)
LEMMA Lists ==
  ASSUME NEW w \in Whats
  PROVE  /\ Len(List(w)) \in Nat \ {0}
         /\ DOMAIN List(w) = 1 .. Len(List(w))
         /\ \A k \in DOMAIN List(w) : List(w)[k] \in Regs
         /\ 1 \in DOMAIN List(w)
  BY BmsAssumption DEF List, Regs, Whats

LEMMA AskedKnown ==
  ASSUME TypeOK
  PROVE  /\ what \in Whats
         /\ List(what)[idx] \in Regs
         /\ Need \in Nat \ {0}
         /\ idx \in 1 .. Len(List(what)) /\ Len(List(what)) \in Nat
  BY Lists, BmsAssumption DEF TypeOK, Need

LEMMA BlankTyped ==
  ASSUME NEW w \in Whats
  PROVE  /\ Blank(w) \in Records(w)
         /\ \A k \in DOMAIN List(w) : Blank(w)[k].bat = -1
  BY DEF Blank, Records, Value, Nothing

LEMMA NextBatTyped == ASSUME bat \in Bats PROVE NextBat \in Bats
  <1>1. NBat \in Nat /\ NBat > 0 /\ bat + 1 \in Nat
    BY BmsAssumption DEF Bats
  <1>2. (bat + 1) % NBat \in 0 .. NBat - 1
    BY <1>1
  <1> QED
    BY <1>2 DEF NextBat, Bats

LEMMA InitInv == Init => PollInv
  <1> SUFFICES ASSUME Init PROVE PollInv
    OBVIOUS
  <1>1. 0 \in Bats
    BY BmsAssumption DEF Bats
  <1>2. "shallow" \in Whats /\ "deep" \in Whats
    BY DEF Whats
  <1>3. TypeOK
    <2>1. stat \in Stats
      BY <1>2, BlankTyped DEF Init, Stats
    <2>2. note \in Notes
      BY <1>1, <1>2, BlankTyped DEF Init, Notes, Errs
    <2>3. idx \in DOMAIN List(what)
      BY <1>2, Lists DEF Init
    <2>4. vals \in Records("shallow")
      BY <1>2, BlankTyped DEF Init
    <2>5. tries \in 0 .. Retries /\ sent \in Nat /\ err \in Errs
      BY BmsAssumption DEF Init, Errs
    <2>6. owed \in Seq(Messages) /\ rx \in Seq(Unit)
      BY DEF Init
    <2> QED
      BY <1>1, <1>2, <2>1, <2>2, <2>3, <2>4, <2>5, <2>6 DEF Init, TypeOK
  <1>4. OwnBattery
    <2> SUFFICES ASSUME NEW w \in Whats, NEW b \in Bats, NEW k \in DOMAIN List(w)
                 PROVE  stat[w][b][k].bat \in {b, -1}
      BY DEF OwnBattery
    <2>1. stat[w][b] = Blank(w)
      BY DEF Init, Whats
    <2> QED
      BY <2>1, BlankTyped
  <1>5. OwedOwn /\ RxOwn /\ ReadOwn
    BY DEF Init, OwedOwn, RxOwn, ReadOwn
  <1> QED
    BY <1>3, <1>4, <1>5, BmsAssumption DEF Init, PollInv

(* Steps that leave the records alone keep them right.                     *)
LEMMA SameRecords ==
  ASSUME OwnBattery, UNCHANGED stat
  PROVE  OwnBattery'
  BY DEF OwnBattery

LEMMA SelectStep == ASSUME PollInv, Select PROVE PollInv'
  <1>1. owed' \in Seq(Messages) /\ sent' \in Nat /\ OwedOwn'
    <2>1. CASE wire = bat
      BY <2>1 DEF PollInv, TypeOK, OwedOwn, Select
    <2>2. CASE wire # bat
      BY <2>2 DEF PollInv, OwedOwn, Select
    <2> QED
      BY <2>1, <2>2
  <1>2. TypeOK'
    BY <1>1 DEF PollInv, TypeOK, Select
  <1>3. what = "shallow" => ReadOwn'
    BY DEF PollInv, ReadOwn, Select
  <1>4. tries' < Retries
    BY BmsAssumption DEF PollInv, Select
  <1> QED
    BY <1>1, <1>2, <1>3, <1>4, SameRecords DEF PollInv, Select

LEMMA SendStep == ASSUME PollInv, Send PROVE PollInv'
  <1>1. owed' \in Seq(Messages) /\ OwedOwn'
    <2>1. owed \in Seq(Messages) /\ bat \in Bats /\ List(what)[idx] \in Regs
      BY AskedKnown DEF PollInv, TypeOK
    <2>2. CASE UNCHANGED owed
      BY <2>1, <2>2 DEF PollInv, OwedOwn, Send
    <2>3. CASE ~UNCHANGED owed
      <3>1. PICK fit \in {"yes", "no"} :
                owed' = Append(owed, [bat |-> bat, reg |-> List(what)[idx], fit |-> fit])
        BY <2>3 DEF Send, Answer
      <3>2. [bat |-> bat, reg |-> List(what)[idx], fit |-> fit] \in Messages
        BY <2>1 DEF Messages
      <3>3. bat = wire' /\ wire = wire'
        BY DEF PollInv, Send
      <3>4. owed' \in Seq(Messages)
        BY <2>1, <3>1, <3>2
      <3>5. OwedOwn'
        BY <2>1, <3>1, <3>2, <3>3 DEF PollInv, OwedOwn
      <3> QED
        BY <3>4, <3>5
    <2> QED
      BY <2>2, <2>3
  <1>2. rx' = <<>> /\ rx' \in Seq(Unit) /\ RxOwn'
    BY DEF Send, Flush, RxOwn
  <1>3. tries' \in 0 .. Retries
    BY BmsAssumption DEF PollInv, TypeOK, Send
  <1>4. TypeOK'
    BY <1>1, <1>2, <1>3 DEF PollInv, TypeOK, Send
  <1>5. what = "shallow" => ReadOwn'
    BY DEF PollInv, ReadOwn, Send
  <1> QED
    BY <1>1, <1>2, <1>4, <1>5, SameRecords DEF PollInv, Send

LEMMA ArriveStep == ASSUME PollInv, Arrive PROVE PollInv'
  <1> DEFINE m == Head(owed)
             u == [bat |-> m.bat, reg |-> m.reg, fit |-> m.fit, part |-> sent + 1]
  <1>1. owed \in Seq(Messages) /\ owed # <<>> /\ sent \in Nat /\ rx \in Seq(Unit)
    BY DEF PollInv, TypeOK, Arrive
  <1>2. m = owed[1] /\ 1 \in 1 .. Len(owed) /\ m \in Messages
    BY <1>1
  <1>3. m.bat = wire
    BY <1>2 DEF PollInv, OwedOwn
  <1>4. u \in Unit
    BY <1>1, <1>2 DEF Unit, Messages
  <1>5. rx' = Append(rx, u) /\ u.bat = wire
    BY <1>3 DEF Arrive
  <1>6. rx' \in Seq(Unit)
    BY <1>1, <1>4, <1>5
  <1>7. pc' = "await" => RxOwn'
    <2>1. HAVE pc' = "await"
    <2>2. RxOwn /\ wire = bat' /\ bat = bat'
      BY <2>1 DEF PollInv, Arrive
    <2> HIDE DEF u
    <2> QED
      BY <1>1, <1>4, <1>5, <2>2 DEF RxOwn
  <1>8. owed' \in Seq(Messages) /\ OwedOwn' /\ sent' \in Nat
    <2>1. CASE UNCHANGED owed
      BY <1>1, <2>1 DEF PollInv, OwedOwn, Arrive
    <2>2. CASE owed' = Tail(owed)
      BY <1>1, <2>2 DEF PollInv, OwedOwn, Arrive
    <2> QED
      BY <2>1, <2>2 DEF Arrive
  <1>9. TypeOK'
    BY <1>6, <1>8 DEF PollInv, TypeOK, Arrive
  <1>10. what = "shallow" => ReadOwn'
    BY DEF PollInv, ReadOwn, Arrive
  <1> QED
    BY <1>7, <1>8, <1>9, <1>10, SameRecords DEF PollInv, Arrive

(* What a failed attempt leaves: a retry is only made while one is left.   *)
LEMMA FailedStep ==
  ASSUME PollInv, pc = "await", Failed, rx' \in Seq(Unit),
         UNCHANGED <<bat, wire, what, idx, vals, stat, note, owed, sent, late>>
  PROVE  PollInv'
  <1>1. /\ tries' \in 0 .. Retries
        /\ err' \in Errs
        /\ pc' \in {"send", "report"}
        /\ pc' = "send" => tries' < Retries
        /\ pc' = "report" => tries' = 0
    BY BmsAssumption DEF PollInv, TypeOK, Failed, Errs
  <1>2. TypeOK'
    BY <1>1 DEF PollInv, TypeOK
  <1>3. wire' = bat' /\ OwedOwn'
    BY DEF PollInv, OwedOwn
  <1>4. what = "shallow" => ReadOwn'
    BY DEF PollInv, ReadOwn
  <1> QED
    BY <1>1, <1>2, <1>3, <1>4, SameRecords DEF PollInv

(* The buffer after its first Need units have been taken.                  *)
LEMMA RestTyped ==
  ASSUME PollInv, Len(rx) >= Need
  PROVE  SubSeq(rx, Need + 1, Len(rx)) \in Seq(Unit)
  BY AskedKnown DEF PollInv, TypeOK

LEMMA TimeOutStep == ASSUME PollInv, TimeOut PROVE PollInv'
  BY FailedStep DEF TimeOut

LEMMA RefuseStep == ASSUME PollInv, Refuse PROVE PollInv'
  BY FailedStep, RestTyped DEF Refuse

(* What is accepted was sent by the battery being read.                    *)
LEMMA ContentOwn ==
  ASSUME PollInv, pc = "await", Len(rx) >= Need, NEW k \in 1 .. Need
  PROVE  Content(Buf[k]) \in Value /\ Content(Buf[k]).bat = bat
  <1>1. rx \in Seq(Unit) /\ RxOwn /\ Need \in Nat \ {0}
    BY AskedKnown DEF PollInv, TypeOK
  <1>2. Buf[k] = rx[k] /\ k \in 1 .. Len(rx)
    BY <1>1 DEF Buf
  <1>3. rx[k] \in Unit /\ rx[k].bat = bat
    BY <1>1, <1>2 DEF RxOwn
  <1>4. rx[k].reg \in Regs /\ bat \in Bats
    BY <1>3 DEF Unit, PollInv, TypeOK
  <1>5. /\ Content(rx[k]).reg \in Regs \cup {Junk, Zero}
        /\ Content(rx[k]).bat = bat
        /\ Content(rx[k]) \in [bat : {bat}, reg : Regs \cup {Junk, Zero}]
    BY <1>3, <1>4 DEF Content
  <1> QED
    BY <1>2, <1>4, <1>5 DEF Value

(* A store keeps the records typed and each battery's own.                 *)
LEMMA StoreStep ==
  ASSUME PollInv, NEW v \in Value, v.bat = bat, Store(v)
  PROVE  /\ vals' \in Records("shallow")
         /\ stat' \in Stats
         /\ OwnBattery'
         /\ what = "shallow" => \A k \in 1 .. idx : vals'[k].bat = bat
  <1> DEFINE RS == Records("shallow")
             RD == Records("deep")
  <1>1. /\ vals \in RS /\ stat \in [shallow : [Bats -> RS], deep : [Bats -> RD]]
        /\ bat \in Bats /\ what \in Whats /\ OwnBattery
        /\ idx \in 1 .. Len(List(what)) /\ Len(List(what)) \in Nat
    BY AskedKnown DEF PollInv, TypeOK, Stats
  <1>2. CASE what = "deep"
    <2>1. idx \in DOMAIN List("deep") /\ stat.deep[bat] \in [DOMAIN List("deep") -> Value]
      BY <1>1, <1>2, Lists DEF Records
    <2> DEFINE r == Filled(v)
               u == [v EXCEPT !.reg = Junk]
    <2>2. /\ r \in RD
          /\ \A k \in DOMAIN List("deep") :
                r[k].bat = bat \/ r[k] = stat.deep[bat][k]
      <3>1. u \in Value /\ u.bat = bat
        BY DEF Value
      <3>2. DOMAIN List("deep") = DOMAIN Deep
        BY DEF List
      <3> HIDE DEF u
      <3>3. /\ r = [k \in DOMAIN Deep |-> r[k]]
            /\ \A k \in DOMAIN Deep : r[k] \in {v, u, stat.deep[bat][k]}
        BY DEF Filled, u
      <3> QED
        BY <2>1, <3>1, <3>2, <3>3 DEF Records
    <2>3. /\ stat' = [stat EXCEPT !.deep = [stat.deep EXCEPT ![bat] = r]]
          /\ UNCHANGED vals
      BY <1>2 DEF Store, StoreDeep, StoreShallow
    <2> HIDE DEF r, u
    <2>4. [stat.deep EXCEPT ![bat] = r] \in [Bats -> RD]
      BY <1>1, <2>2
    <2>5. stat' \in Stats
      BY <1>1, <2>3, <2>4 DEF Stats
    <2>6. OwnBattery'
      <3> SUFFICES ASSUME NEW w \in Whats, NEW b \in Bats, NEW k \in DOMAIN List(w)
                   PROVE  stat'[w][b][k].bat \in {b, -1}
        BY DEF OwnBattery
      <3>1. stat[w][b][k].bat \in {b, -1}
        BY <1>1 DEF OwnBattery
      <3>2. CASE w = "deep" /\ b = bat
        <4>1. stat'[w][b] = r
          BY <1>1, <2>3, <3>2
        <4>2. stat'[w][b][k].bat = bat \/ stat'[w][b][k] = stat[w][b][k]
          BY <2>2, <3>2, <4>1
        <4> QED
          BY <3>1, <3>2, <4>2
      <3>3. CASE ~(w = "deep" /\ b = bat)
        <4>1. stat'[w][b] = stat[w][b]
          BY <1>1, <2>3, <3>3 DEF Whats
        <4> QED
          BY <3>1, <4>1
      <3> QED
        BY <3>2, <3>3
    <2> QED
      BY <1>1, <1>2, <2>3, <2>5, <2>6
  <1>3. CASE what = "shallow"
    <2>1. idx \in DOMAIN List("shallow") /\ vals \in [DOMAIN List("shallow") -> Value]
      BY <1>1, <1>3, Lists DEF Records
    <2>2. /\ vals' \in RS
          /\ \A k \in DOMAIN List("shallow") :
                vals'[k] = IF k = idx THEN v ELSE vals[k]
      BY <1>3, <2>1 DEF Store, StoreDeep, StoreShallow, Records
    <2>3. \A k \in 1 .. idx : k \in DOMAIN List("shallow")
      BY <1>1, <1>3, Lists DEF Whats
    <2>4. \A k \in 1 .. idx : vals'[k].bat = bat
      <3> TAKE k \in 1 .. idx
      <3>1. CASE k = idx
        BY <2>2, <2>3, <3>1
      <3>2. CASE k # idx
        <4>1. k \in 1 .. idx - 1
          BY <1>1, <3>2
        <4>2. vals[k].bat = bat
          BY <1>3, <4>1 DEF PollInv, ReadOwn
        <4> QED
          BY <2>2, <2>3, <3>2, <4>2
      <3> QED
        BY <3>1, <3>2
    <2>5. CASE UNCHANGED stat
      BY <1>1, <2>2, <2>4, <2>5, SameRecords DEF Stats
    <2>6. CASE idx = Len(Shallow) /\ stat' = [stat EXCEPT !.shallow[bat] = vals']
      <3>1. stat' = [stat EXCEPT !.shallow = [stat.shallow EXCEPT ![bat] = vals']]
        BY <2>6
      <3>2. [stat.shallow EXCEPT ![bat] = vals'] \in [Bats -> RS]
        BY <1>1, <2>2
      <3>3. stat' \in Stats
        BY <1>1, <3>1, <3>2 DEF Stats
      <3>4. DOMAIN List("shallow") = 1 .. idx
        BY <2>6, Lists DEF List, Whats
      <3>5. OwnBattery'
        <4> SUFFICES ASSUME NEW w \in Whats, NEW b \in Bats, NEW k \in DOMAIN List(w)
                     PROVE  stat'[w][b][k].bat \in {b, -1}
          BY DEF OwnBattery
        <4>1. CASE w = "shallow" /\ b = bat
          <5>1. stat'[w][b] = vals'
            BY <1>1, <3>1, <4>1
          <5> QED
            BY <2>4, <3>4, <4>1, <5>1
        <4>2. CASE ~(w = "shallow" /\ b = bat)
          <5>1. stat'[w][b] = stat[w][b]
            BY <1>1, <3>1, <4>2 DEF Whats
          <5> QED
            BY <1>1, <5>1 DEF OwnBattery
        <4> QED
          BY <4>1, <4>2
      <3> QED
        BY <2>2, <2>4, <3>3, <3>5
    <2> QED
      BY <1>3, <2>5, <2>6 DEF Store, StoreDeep, StoreShallow
  <1> QED
    BY <1>1, <1>2, <1>3 DEF Whats

LEMMA AcceptStep == ASSUME PollInv, Accept PROVE PollInv'
  <1>1. PICK k \in 1 .. Need : Store(Content(Buf[k]))
    BY DEF Accept
  <1> DEFINE v == Content(Buf[k])
  <1>2. v \in Value /\ v.bat = bat
    BY ContentOwn DEF Accept
  <1>3. Store(v)
    BY <1>1
  <1> HIDE DEF v
  <1>4. /\ vals' \in Records("shallow") /\ stat' \in Stats /\ OwnBattery'
        /\ what = "shallow" => \A j \in 1 .. idx : vals'[j].bat = bat
    BY <1>2, <1>3, StoreStep
  <1>5. rx' \in Seq(Unit)
    BY RestTyped DEF Accept
  <1>6. /\ idx' \in DOMAIN List(what) /\ err' \in Errs
        /\ idx' \in {idx, idx + 1} /\ pc' \in {"send", "report"}
    BY AskedKnown, Lists DEF PollInv, TypeOK, Accept, Errs
  <1>7. tries' = 0 /\ 0 \in 0 .. Retries /\ 0 < Retries
    BY BmsAssumption DEF Accept
  <1>8. TypeOK'
    BY <1>4, <1>5, <1>6, <1>7 DEF PollInv, TypeOK, Accept
  <1>9. OwedOwn' /\ wire' = bat'
    BY DEF PollInv, OwedOwn, Accept
  <1>10. what = "shallow" => ReadOwn'
    <2>1. \A j \in 1 .. idx' - 1 : j \in 1 .. idx
      BY <1>6, AskedKnown DEF PollInv
    <2> QED
      BY <1>4, <2>1 DEF ReadOwn, Accept
  <1> QED
    BY <1>4, <1>6, <1>7, <1>8, <1>9, <1>10 DEF PollInv, Accept

LEMMA ReportStep == ASSUME PollInv, Report PROVE PollInv'
  <1>1. note' \in Notes
    BY DEF PollInv, TypeOK, Report, Notify, Notes, Stats, Whats
  <1>2. what' \in Whats /\ bat' \in Bats
    BY NextBatTyped DEF PollInv, TypeOK, Report, Whats
  <1>3. idx' = 1 /\ idx' \in DOMAIN List(what')
    BY <1>2, Lists DEF Report
  <1>4. TypeOK'
    <2>1. vals' \in Records("shallow")
      BY BlankTyped DEF Report, Whats
    <2> QED
      BY <1>1, <1>2, <1>3, <2>1 DEF PollInv, TypeOK, Report
  <1>5. OwedOwn'
    BY DEF PollInv, OwedOwn, Report
  <1>6. ReadOwn'
    BY <1>3 DEF ReadOwn
  <1>7. tries' = 0 /\ 0 < Retries
    BY BmsAssumption DEF PollInv, Report
  <1>8. pc' # "await" /\ (pc' = "select" => what' = "shallow")
    BY DEF Report
  <1>9. pc' # "select" => wire' = bat'
    BY DEF PollInv, Report
  <1> QED
    BY <1>3, <1>4, <1>5, <1>6, <1>7, <1>8, <1>9, SameRecords
    DEF PollInv, Report

LEMMA NextStep == PollInv /\ [Next]_vars => PollInv'
  <1> SUFFICES ASSUME PollInv, [Next]_vars PROVE PollInv'
    OBVIOUS
  <1>1. CASE UNCHANGED vars
    BY <1>1 DEF vars, PollInv, TypeOK, OwedOwn, RxOwn, ReadOwn, OwnBattery
  <1> QED
    BY <1>1, SelectStep, SendStep, ArriveStep, TimeOutStep, RefuseStep,
       AcceptStep, ReportStep DEF Next, Task

(* The polling keeps its invariant: types, whose answers wait where, and   *)
(* how many attempts are left.                                             *)
THEOREM PollInvariance == Spec => []PollInv
  BY InitInv, NextStep, PTL DEF Spec

(* However late, garbled or missing the answers, and for any number of     *)
(* batteries, registers and retries: esk8_bms_get_status and               *)
(* esk8_bms_get_deep_status put into a battery's record only what that     *)
(* battery sent.                                                           *)
THEOREM OwnBatteryHolds == Spec => []OwnBattery
  <1>1. PollInv => OwnBattery
    BY DEF PollInv
  <1> QED
    BY PollInvariance, <1>1, PTL

(***************************************************************************)
(* Whole records.  PollInv' is known of every step, by NextStep.           *)
(***************************************************************************)
(* What a store does to what the present read has got: it adds a field and *)
(* keeps those before it; the last one makes it the record, and only then  *)
(* does a shallow record change.                                           *)
LEMMA StoreFront ==
  ASSUME PollInv, NEW v \in Value, Store(v), UNCHANGED <<what, bat>>
  PROVE  /\ Collected'[idx] = v
         /\ \A k \in 1 .. idx - 1 : Collected'[k] = Collected[k]
         /\ idx = Len(List(what)) => stat'[what][bat] = Collected'
         /\ \A b \in Bats : \/ stat'.shallow[b] = stat.shallow[b]
                            \/ /\ what = "shallow" /\ idx = Len(List(what))
                               /\ b = bat
  <1>1. /\ vals \in Records("shallow") /\ stat \in Stats /\ bat \in Bats
        /\ idx \in 1 .. Len(List(what)) /\ Len(List(what)) \in Nat
        /\ what \in Whats /\ idx \in DOMAIN List(what)
        /\ DOMAIN List(what) = 1 .. Len(List(what))
    BY AskedKnown, Lists DEF PollInv, TypeOK
  <1>2. CASE what = "deep"
    <2>1. stat' = [stat EXCEPT !.deep[bat] = Filled(v)]
      BY <1>2 DEF Store, StoreDeep
    <2>2. stat'.deep[bat] = Filled(v) /\ stat'.shallow = stat.shallow
      BY <1>1, <2>1 DEF Stats
    <2>3. Collected' = Filled(v) /\ Collected = stat.deep[bat]
      BY <1>2, <2>2 DEF Collected
    <2>4. \A k \in 1 .. idx : k \in DOMAIN Deep
      BY <1>1, <1>2 DEF List
    <2>5. Filled(v)[idx] = v
      BY <1>1, <2>4 DEF Filled
    <2>6. \A k \in 1 .. idx - 1 : Filled(v)[k] = stat.deep[bat][k]
      <3> TAKE k \in 1 .. idx - 1
      <3>1. k \in DOMAIN Deep /\ k # idx /\ k \notin idx + 1 .. idx + Spill[idx]
        BY <1>1, <2>4
      <3> QED
        BY <3>1 DEF Filled
    <2> QED
      BY <1>2, <2>2, <2>3, <2>5, <2>6
  <1>3. CASE what = "shallow"
    <2>1. vals' = [vals EXCEPT ![idx] = v] /\ Collected' = vals' /\ Collected = vals
      BY <1>3 DEF Store, StoreShallow, Collected
    <2>2. List(what) = Shallow /\ vals \in [1 .. Len(List(what)) -> Value]
      BY <1>1, <1>3 DEF Records, List
    <2>3. vals'[idx] = v /\ \A k \in 1 .. idx - 1 : vals'[k] = vals[k]
      BY <1>1, <2>1, <2>2
    <2>4. CASE idx = Len(Shallow)
      <3>1. stat' = [stat EXCEPT !.shallow[bat] = vals']
        BY <1>3, <2>4 DEF Store, StoreShallow
      <3>2. /\ stat'.shallow[bat] = vals'
            /\ \A b \in Bats : b # bat => stat'.shallow[b] = stat.shallow[b]
        BY <1>1, <3>1 DEF Stats
      <3> QED
        BY <1>3, <2>1, <2>2, <2>3, <2>4, <3>2
    <2>5. CASE idx # Len(Shallow)
      BY <1>3, <2>1, <2>2, <2>3, <2>5 DEF Store, StoreShallow
    <2> QED
      BY <2>4, <2>5
  <1> QED
    BY <1>1, <1>2, <1>3 DEF Whats

LEMMA InitWhole == Init => WholeInv
  <1> SUFFICES ASSUME Init PROVE WholeInv
    OBVIOUS
  <1>1. idx = 1 /\ pc = "select" /\ note.err = "ERR"
    BY DEF Init
  <1>2. \A b \in Bats : stat.shallow[b] = Blank("shallow")
    BY DEF Init
  <1> QED
    BY <1>1, <1>2, InitInv DEF WholeInv

(* Steps that leave the records and the present read alone.                *)
LEMMA SameWhole ==
  ASSUME WholeInv, PollInv', UNCHANGED <<bat, what, idx, vals, stat, note>>,
         pc' = "report" /\ err' = "ESK8_OK" => pc = "report" /\ err = "ESK8_OK"
  PROVE  WholeInv'
  BY DEF WholeInv, Collected, AllOf

LEMMA AcceptWhole == ASSUME WholeInv, PollInv', Accept PROVE WholeInv'
  <1>1. PICK k \in 1 .. Need : Store(Content(Buf[k]))
    BY DEF Accept
  <1> DEFINE v == Content(Buf[k])
  <1>2. v \in Value /\ v.bat = bat /\ PollInv
    BY ContentOwn DEF WholeInv, Accept
  <1>3. Store(v) /\ UNCHANGED <<what, bat, note>>
    BY <1>1 DEF Accept
  <1> HIDE DEF v
  <1>4. /\ Collected'[idx] = v
        /\ \A j \in 1 .. idx - 1 : Collected'[j] = Collected[j]
        /\ idx = Len(List(what)) => stat'[what][bat] = Collected'
        /\ \A b \in Bats : \/ stat'.shallow[b] = stat.shallow[b]
                           \/ what = "shallow" /\ idx = Len(List(what)) /\ b = bat
    BY <1>2, <1>3, StoreFront
  <1>5. /\ idx \in 1 .. Len(List(what)) /\ Len(List(what)) \in Nat
        /\ DOMAIN List(what) = 1 .. Len(List(what))
    BY <1>2, AskedKnown, Lists DEF PollInv
  <1>6. \A j \in 1 .. idx : Collected'[j].bat = bat
    <2> TAKE j \in 1 .. idx
    <2>1. CASE j = idx
      BY <1>2, <1>4, <2>1
    <2>2. CASE j # idx
      <3>1. j \in 1 .. idx - 1
        BY <1>5, <2>2
      <3> QED
        BY <1>4, <3>1 DEF WholeInv
    <2> QED
      BY <2>1, <2>2
  <1>7. idx = Len(List(what)) => AllOf(stat'[what][bat], what, bat)
    BY <1>4, <1>5, <1>6 DEF AllOf
  <1>8. \A j \in 1 .. idx' - 1 : Collected'[j].bat = bat'
    <2>1. idx' \in {idx, idx + 1}
      BY DEF Accept
    <2>2. idx \in Nat /\ idx' \in Nat
      BY <1>5, <2>1
    <2>3. ASSUME NEW j \in 1 .. idx' - 1 PROVE j \in 1 .. idx
      <3>1. CASE idx' = idx
        BY <2>2, <3>1
      <3>2. CASE idx' = idx + 1
        BY <2>2, <3>2
      <3> QED
        BY <2>1, <3>1, <3>2
    <2> QED
      BY <1>3, <1>6, <2>3
  <1>9. \A b \in Bats : \/ stat'.shallow[b] = Blank("shallow")
                        \/ AllOf(stat'.shallow[b], "shallow", b)
    BY <1>4, <1>7 DEF WholeInv
  <1>10. pc' = "report" => idx = Len(List(what))
    BY DEF Accept
  <1> QED
    BY <1>3, <1>7, <1>8, <1>9, <1>10 DEF WholeInv, AllOf

LEMMA ReportWhole == ASSUME WholeInv, PollInv', Report PROVE WholeInv'
  <1>1. /\ idx' = 1 /\ UNCHANGED stat /\ pc = "report" /\ pc' # "report"
        /\ note' = [what |-> what, bat |-> bat, err |-> err, rec |-> stat[what][bat]]
    BY DEF Report, Notify
  <1>2. note'.err = "ESK8_OK" => AllOf(note'.rec, note'.what, note'.bat)
    BY <1>1 DEF WholeInv
  <1>3. \A k \in 1 .. idx' - 1 : FALSE
    BY <1>1
  <1> QED
    BY <1>1, <1>2, <1>3 DEF WholeInv, AllOf

LEMMA WholeNext == WholeInv /\ [Next]_vars => WholeInv'
  <1> SUFFICES ASSUME WholeInv, [Next]_vars PROVE WholeInv'
    OBVIOUS
  <1>0. PollInv'
    BY NextStep DEF WholeInv
  <1>1. CASE Select \/ Send \/ Arrive
    BY <1>0, <1>1, SameWhole DEF Select, Send, Arrive
  <1>2. CASE TimeOut \/ Refuse
    BY <1>0, <1>2, SameWhole DEF TimeOut, Refuse, Failed
  <1>3. CASE Accept \/ Report
    BY <1>0, <1>3, AcceptWhole, ReportWhole
  <1>4. CASE UNCHANGED vars
    BY <1>0, <1>4, SameWhole DEF vars
  <1> QED
    BY <1>1, <1>2, <1>3, <1>4 DEF Next, Task

THEOREM WholeInvariance == Spec => []WholeInv
  <1> QED
    BY InitWhole, WholeNext, PTL DEF Spec

(* However late, garbled or missing the answers, and whatever the read of  *)
(* one field spills over others: the copy that esk8_bms_get_status makes   *)
(* at its end leaves no shallow record half read, and what is notified     *)
(* with ESK8_OK has been read in every field.                              *)
THEOREM NotTornHolds == Spec => []NotTorn
  <1>1. WholeInv => NotTorn
    <2> SUFFICES ASSUME WholeInv PROVE NotTorn
      OBVIOUS
    <2>1. \A b \in Bats : b # -1
      BY BmsAssumption DEF Bats
    <2>2. ASSUME NEW b \in Bats, NEW j \in DOMAIN Shallow, NEW k \in DOMAIN Shallow,
                 stat.shallow[b][j] = Nothing
          PROVE  stat.shallow[b][k] = Nothing
      <3>1. ~AllOf(stat.shallow[b], "shallow", b)
        BY <2>1, <2>2 DEF AllOf, List, Nothing
      <3>2. stat.shallow[b] = Blank("shallow")
        BY <3>1 DEF WholeInv
      <3> QED
        BY <3>2 DEF Blank, List
    <2>3. note.bat \in Bats
      BY DEF WholeInv, PollInv, TypeOK, Notes
    <2>4. ASSUME note.err = "ESK8_OK", NEW k \in DOMAIN List(note.what)
          PROVE  note.rec[k] # Nothing
      BY <2>1, <2>3, <2>4 DEF WholeInv, AllOf, Nothing
    <2> QED
      BY <2>2, <2>4 DEF NotTorn
  <1> QED
    BY <1>1, WholeInvariance, PTL

(***************************************************************************)
(* The refinement of BatteryReports.                                       *)
(***************************************************************************)
LEMMA InitReports == Init => Reports!ReportsInit
  BY DEF Init, Reports!ReportsInit, Reports!Bats, Bats

(* Steps that end no read and report nothing.                              *)
LEMMA Unreported ==
  ASSUME UNCHANGED <<what, bat, note>>, stat'.shallow = stat.shallow,
         pc' = "report" /\ err' = "ESK8_OK" <=> pc = "report" /\ err = "ESK8_OK"
  PROVE  UNCHANGED Reports!report_vars
  BY DEF Reports!report_vars

(* A record of which the battery told every field.                         *)
LEMMA AllTold ==
  ASSUME NEW w \in Whats, NEW b \in Bats, NEW r \in Records(w), AllOf(r, w, b)
  PROVE  r \in ToldBy(w, b)
  <1>1. \A k \in DOMAIN List(w) : r[k] \in [bat : {b}, reg : Regs \cup {Junk, Zero}]
    <2> TAKE k \in DOMAIN List(w)
    <2>1. r[k] \in Value /\ r[k].bat = b
      BY DEF Records, AllOf
    <2> QED
      BY <2>1 DEF Value
  <1> QED
    BY <1>1 DEF Records, ToldBy

LEMMA AcceptReports ==
  ASSUME WholeInv, WholeInv', Accept
  PROVE  [Reports!ReportsNext]_(Reports!report_vars)
  <1>1. PICK k \in 1 .. Need : Store(Content(Buf[k]))
    BY DEF Accept
  <1> DEFINE v == Content(Buf[k])
  <1>2. v \in Value /\ PollInv
    BY ContentOwn DEF WholeInv, Accept
  <1>3. Store(v) /\ UNCHANGED <<what, bat, note>> /\ pc = "await"
    BY <1>1 DEF Accept
  <1> HIDE DEF v
  <1>4. /\ stat \in Stats /\ stat' \in Stats /\ bat \in Bats /\ what \in Whats
        /\ idx = Len(List(what)) => stat'[what][bat] = Collected'
    BY <1>2, <1>3, StoreFront DEF WholeInv, PollInv, TypeOK
  <1>5. CASE idx # Len(List(what))
    <2>1. stat'.shallow = stat.shallow
      BY <1>3, <1>4, <1>5
         DEF Store, StoreDeep, StoreShallow, List, Whats, Stats
    <2> QED
      BY <1>3, <1>5, <2>1, Unreported DEF Accept
  <1>6. CASE idx = Len(List(what))
    <2>1. pc' = "report" /\ err' = "ESK8_OK"
      BY <1>6 DEF Accept
    <2>2. AllOf(stat'[what][bat], what, bat)
      BY <1>3, <2>1 DEF WholeInv, AllOf
    <2>3. CASE what = "deep"
      <3>1. stat'.shallow = stat.shallow
        BY <1>3, <1>4, <2>3 DEF Store, StoreDeep, Stats
      <3> QED
        BY <1>3, <2>1, <2>3, <3>1 DEF Reports!ReportsNext, Reports!Obtain
    <2>4. CASE what = "shallow"
      <3> DEFINE r == stat'.shallow[bat]
      <3>1. r \in Records("shallow") /\ AllOf(r, "shallow", bat)
        BY <1>4, <2>2, <2>4 DEF Stats
      <3>2. r \in ToldBy("shallow", bat)
        BY <1>4, <3>1, AllTold DEF Whats
      <3>3. stat' = [stat EXCEPT !.shallow[bat] = vals']
        BY <1>3, <1>6, <2>4 DEF Store, StoreShallow, List
      <3>4. stat'.shallow = [stat.shallow EXCEPT ![bat] = r]
        BY <1>4, <3>3 DEF Stats
      <3> HIDE DEF r
      <3>5. \E x \in ToldBy("shallow", bat) :
               stat'.shallow = [stat.shallow EXCEPT ![bat] = x]
        BY <3>2, <3>4
      <3> QED
        BY <1>3, <1>4, <2>1, <2>4, <3>5
           DEF Reports!ReportsNext, Reports!Obtain, Whats
    <2> QED
      BY <1>4, <2>3, <2>4 DEF Whats
  <1> QED
    BY <1>5, <1>6

LEMMA ReportReports ==
  ASSUME WholeInv, Report
  PROVE  Reports!Deliver
  <1>1. /\ pc = "report" /\ pc' # "report" /\ UNCHANGED stat
        /\ note' = [what |-> what, bat |-> bat, err |-> err,
                    rec |-> stat[what][bat]]
    BY DEF Report, Notify
  <1>2. /\ bat \in Bats /\ what \in Whats /\ err \in Errs /\ stat \in Stats
    BY DEF WholeInv, PollInv, TypeOK
  <1> DEFINE got == pc = "report" /\ err = "ESK8_OK"
  <1>3. err = IF got THEN "ESK8_OK" ELSE "ERR"
    BY <1>1, <1>2 DEF Errs
  <1>4. CASE what = "shallow"
    BY <1>1, <1>2, <1>3, <1>4 DEF Reports!Deliver, Reports!Says, Report
  <1>5. CASE what = "deep"
    <2> DEFINE r == stat.deep[bat]
    <2>1. what' = "shallow" /\ bat' = (bat + 1) % NBat
      BY <1>5 DEF Report, NextBat
    <2>2. r \in Records("deep")
      BY <1>2 DEF Stats
    <2>3. got => r \in ToldBy("deep", bat)
      <3>1. got => AllOf(r, "deep", bat)
        BY <1>5 DEF WholeInv
      <3> QED
        BY <1>2, <2>2, <3>1, AllTold DEF Whats
    <2>4. note' = [what |-> what, bat |-> bat,
                   err |-> IF got THEN "ESK8_OK" ELSE "ERR", rec |-> r]
      BY <1>1, <1>3, <1>5
    <2> HIDE DEF r, got
    <2>5. \E x \in IF got THEN ToldBy("deep", bat) ELSE Records("deep") :
             note' = [what |-> what, bat |-> bat,
                      err |-> IF got THEN "ESK8_OK" ELSE "ERR", rec |-> x]
      BY <2>2, <2>3, <2>4
    <2> QED
      BY <1>1, <1>2, <1>5, <2>1, <2>5
         DEF Reports!Deliver, Reports!Says, Whats, got
  <1> QED
    BY <1>2, <1>4, <1>5 DEF Whats

LEMMA StepReports ==
  ASSUME WholeInv, WholeInv', [Next]_vars
  PROVE  [Reports!ReportsNext]_(Reports!report_vars)
  <1>1. CASE Select \/ Send \/ Arrive \/ UNCHANGED vars
    BY <1>1, Unreported DEF Select, Send, Arrive, vars
  <1>2. CASE TimeOut \/ Refuse
    <2>1. /\ pc = "await" /\ UNCHANGED <<what, bat, note, stat>>
          /\ pc' = "report" => err' = "ERR"
      BY <1>2 DEF TimeOut, Refuse, Failed
    <2> QED
      BY <2>1, Unreported
  <1>3. CASE Accept
    BY <1>3, AcceptReports
  <1>4. CASE Report
    BY <1>4, ReportReports DEF Reports!ReportsNext
  <1> QED
    BY <1>1, <1>2, <1>3, <1>4 DEF Next, Task

(* Whatever the batteries answer, and when: the status service gets one    *)
(* report for each status of each battery, in turn; ESK8_OK with a record  *)
(* obtained since the report before, an error otherwise; and the shallow   *)
(* record in between is the one that was reported, or a whole new one.     *)
THEOREM PollImplementsReports == Spec => ImplementsReports
  <1>1. WholeInv /\ WholeInv' /\ [Next]_vars =>
           [Reports!ReportsNext]_(Reports!report_vars)
    BY StepReports
  <1> QED
    BY <1>1, InitReports, WholeInvariance, PTL
       DEF Spec, ImplementsReports, Reports!ReportsSpec

(***************************************************************************)
(* Answers that are never late.                                            *)
(***************************************************************************)
LEMMA InitPrompt == Init => PromptInv
  <1> SUFFICES ASSUME Init PROVE PromptInv
    OBVIOUS
  <1>1. AnswersAsked
    BY DEF Init, AnswersAsked
  <1>2. ReadRight
    BY DEF Init, ReadRight, OkIsRight
  <1> QED
    BY <1>1, <1>2, InitInv DEF PromptInv, RightIfPrompt

(* Steps that leave the records and the present read alone.                *)
LEMMA SameRight ==
  ASSUME ReadRight, UNCHANGED <<bat, what, idx, vals, stat, note>>,
         pc' = "report" /\ err' = "ESK8_OK" => pc = "report" /\ err = "ESK8_OK"
  PROVE  ReadRight'
  BY DEF ReadRight, Collected, AllRight, Right, OkIsRight

(* Between the attempts nothing is owed.                                   *)
LEMMA NothingOwed ==
  ASSUME pc' # "await", owed' = <<>>, sent' = 0
  PROVE  AnswersAsked'
  BY DEF AnswersAsked

(* Whatever ends an attempt finds all of the answer, or none, arrived.     *)
LEMMA AttemptOver ==
  ASSUME PollInv, AnswersAsked, pc = "await", Len(rx) >= Need \/ owed = <<>>
  PROVE  owed = <<>> /\ sent = 0
  <1>1. Need \in Nat /\ Len(rx) \in Nat
    BY AskedKnown DEF PollInv, TypeOK
  <1> QED
    BY <1>1 DEF AnswersAsked

LEMMA SendAsked ==
  ASSUME PollInv, AnswersAsked, Send
  PROVE  AnswersAsked'
  <1>1. owed = <<>> /\ sent = 0 /\ rx' = <<>> /\ sent' = 0
    BY DEF AnswersAsked, Send, Flush
  <1>2. Need' = Need /\ Asked' = Asked /\ Need \in Nat \ {0} /\ Asked = List(what)[idx]
    BY AskedKnown DEF PollInv, Send, Need, Asked
  <1>3. \/ owed' = <<>>
        \/ Len(owed') = 1 /\ owed'[1].reg = Asked
    BY <1>1, <1>2 DEF Send, Answer
  <1> QED
    BY <1>1, <1>2, <1>3 DEF AnswersAsked, Send

LEMMA ArriveAsked ==
  ASSUME PollInv, AnswersAsked, Arrive
  PROVE  AnswersAsked'
  <1> DEFINE m == Head(owed)
             u == [bat |-> m.bat, reg |-> m.reg, fit |-> m.fit, part |-> sent + 1]
  <1>1. owed \in Seq(Messages) /\ owed # <<>> /\ sent \in Nat /\ rx \in Seq(Unit)
    BY DEF PollInv, TypeOK, Arrive
  <1>2. pc = "await" /\ Len(owed) = 1 /\ m = owed[1] /\ Tail(owed) = <<>>
    <2>1. pc = "await" /\ Len(owed) <= 1
      BY <1>1 DEF AnswersAsked
    <2>2. Len(owed) \in Nat \ {0}
      BY <1>1, EmptySeq
    <2>3. Tail(owed) \in Seq(Messages) /\ Len(Tail(owed)) = Len(owed) - 1
      BY <1>1, HeadTailProperties
    <2>4. Tail(owed) = <<>>
      BY <2>1, <2>2, <2>3, EmptySeq
    <2>5. Len(owed) = 1
      <3>1. \A n \in Nat \ {0} : n <= 1 => n = 1
        OBVIOUS
      <3> QED
        BY <2>1, <2>2, <3>1
    <2>6. m = owed[1]
      BY <1>1
    <2> QED
      BY <2>1, <2>4, <2>5, <2>6
  <1>3. m.reg = Asked /\ sent = Len(rx) /\ sent < Need
    BY <1>1, <1>2 DEF AnswersAsked
  <1>4. Need' = Need /\ Asked' = Asked /\ Units[m.reg] = Need /\ Need \in Nat
    BY <1>3, AskedKnown DEF PollInv, Arrive, Need, Asked
  <1>5. u.reg = Asked /\ rx' = Append(rx, u)
    BY <1>3 DEF Arrive
  <1> HIDE DEF u, m
  <1>6. /\ Len(rx') = sent + 1 /\ Len(rx') <= Need
        /\ \A j \in 1 .. Len(rx') : rx'[j].reg = Asked
    BY <1>1, <1>2, <1>3, <1>4, <1>5 DEF AnswersAsked
  <1>7. CASE sent + 1 = Need
    <2>1. owed' = <<>> /\ sent' = 0
      BY <1>2, <1>4, <1>7 DEF Arrive, m
    <2> QED
      BY <1>2, <1>4, <1>6, <2>1 DEF AnswersAsked, Arrive
  <1>8. CASE sent + 1 # Need
    <2>1. owed' = owed /\ sent' = sent + 1
      BY <1>2, <1>4, <1>8 DEF Arrive, m
    <2>2. sent' = Len(rx') /\ sent' < Need
      BY <1>1, <1>3, <1>4, <1>6, <1>8, <2>1
    <2>3. pc' = "await" /\ owed'[1].reg = Asked
      BY <1>2, <1>3, <2>1 DEF Arrive
    <2> QED
      BY <1>1, <1>2, <1>4, <1>6, <2>1, <2>2, <2>3 DEF AnswersAsked
  <1> QED
    BY <1>7, <1>8

(* What is accepted speaks of the register that was asked for.             *)
LEMMA ContentRight ==
  ASSUME PollInv, AnswersAsked, pc = "await", Len(rx) >= Need, NEW k \in 1 .. Need
  PROVE  Content(Buf[k]) = Right(what, bat, idx)
  <1>1. rx \in Seq(Unit) /\ RxOwn /\ Need \in Nat \ {0}
    BY AskedKnown DEF PollInv, TypeOK
  <1>2. Buf[k] = rx[k] /\ k \in 1 .. Len(rx)
    BY <1>1 DEF Buf
  <1>3. rx[k].bat = bat /\ rx[k].reg = Asked
    BY <1>1, <1>2 DEF RxOwn, AnswersAsked
  <1>4. Units[Asked] = Need
    BY DEF Need, Asked
  <1> QED
    BY <1>1, <1>2, <1>3, <1>4 DEF Content, Right, Asked

LEMMA AcceptRight ==
  ASSUME PollInv, AnswersAsked, ReadRight, Accept
  PROVE  ReadRight'
  <1>1. PICK k \in 1 .. Need : Store(Content(Buf[k]))
    BY DEF Accept
  <1> DEFINE v == Content(Buf[k])
  <1>2. v \in Value /\ v = Right(what, bat, idx)
    BY ContentOwn, ContentRight DEF Accept
  <1>3. Store(v) /\ UNCHANGED <<what, bat, note>>
    BY <1>1 DEF Accept
  <1> HIDE DEF v
  <1>4. /\ Collected'[idx] = v
        /\ \A j \in 1 .. idx - 1 : Collected'[j] = Collected[j]
        /\ idx = Len(List(what)) => stat'[what][bat] = Collected'
    BY <1>2, <1>3, StoreFront
  <1>5. /\ idx \in 1 .. Len(List(what)) /\ Len(List(what)) \in Nat
        /\ DOMAIN List(what) = 1 .. Len(List(what))
    BY AskedKnown, Lists DEF PollInv
  <1>6. \A j \in 1 .. idx : Collected'[j] = Right(what, bat, j)
    <2> TAKE j \in 1 .. idx
    <2>1. CASE j = idx
      BY <1>2, <1>4, <2>1
    <2>2. CASE j # idx
      <3>1. j \in 1 .. idx - 1
        BY <1>5, <2>2
      <3> QED
        BY <1>4, <3>1 DEF ReadRight
    <2> QED
      BY <2>1, <2>2
  <1>7. idx = Len(List(what)) => AllRight(stat'[what][bat], what, bat)
    BY <1>4, <1>5, <1>6 DEF AllRight
  <1>8. ASSUME NEW j \in 1 .. idx' - 1 PROVE Collected'[j] = Right(what, bat, j)
    <2>1. idx' \in {idx, idx + 1} /\ idx \in Nat
      <3>1. idx' \in {idx, idx + 1}
        BY DEF Accept
      <3> QED
        BY <1>5, <3>1
    <2>2. j \in 1 .. idx
      <3>1. CASE idx' = idx
        BY <2>1, <3>1
      <3>2. CASE idx' = idx + 1
        BY <2>1, <3>2
      <3> QED
        BY <2>1, <3>1, <3>2
    <2> QED
      BY <1>6, <2>2
  <1>9. pc' = "report" => idx = Len(List(what))
    BY DEF Accept
  <1> QED
    BY <1>3, <1>7, <1>8, <1>9 DEF ReadRight, AllRight, Right, OkIsRight

LEMMA ReportRight ==
  ASSUME ReadRight, Report
  PROVE  ReadRight'
  <1>1. /\ idx' = 1 /\ pc = "report" /\ pc' # "report"
        /\ note' = [what |-> what, bat |-> bat, err |-> err, rec |-> stat[what][bat]]
    BY DEF Report, Notify
  <1>2. OkIsRight'
    BY <1>1 DEF ReadRight, AllRight, Right, OkIsRight
  <1>3. \A k \in 1 .. idx' - 1 : FALSE
    BY <1>1
  <1> QED
    BY <1>1, <1>2, <1>3 DEF ReadRight

LEMMA PromptNext == PromptInv /\ [Next]_vars => PromptInv'
  <1> SUFFICES ASSUME PromptInv, [Next]_vars, late' = "no"
               PROVE  AnswersAsked' /\ ReadRight'
    BY NextStep DEF PromptInv, RightIfPrompt
  <1>1. late = "no" /\ PollInv /\ AnswersAsked /\ ReadRight
    BY DEF PromptInv, RightIfPrompt, Next, Task, Select, Send, TimeOut, Refuse,
           Accept, Report, Arrive, vars
  <1>2. CASE Select
    <2>1. pc' = "send" /\ owed = <<>> /\ sent = 0 /\ ReadRight'
      BY <1>1, <1>2, SameRight DEF Select, AnswersAsked
    <2> QED
      BY <1>2, <2>1, NothingOwed DEF Select
  <1>3. CASE Send
    BY <1>1, <1>3, SendAsked, SameRight DEF Send
  <1>4. CASE Arrive
    BY <1>1, <1>4, ArriveAsked, SameRight DEF Arrive
  <1>5. CASE TimeOut \/ Refuse
    <2>1. pc = "await" /\ pc' # "await" /\ UNCHANGED <<owed, sent>> /\ ReadRight'
      BY <1>1, <1>5, SameRight DEF TimeOut, Refuse, Failed
    <2>2. owed = <<>> /\ sent = 0
      BY <1>1, <1>5, AttemptOver DEF TimeOut, Refuse
    <2> QED
      BY <2>1, <2>2, NothingOwed
  <1>6. CASE Accept
    <2>1. pc = "await" /\ pc' # "await" /\ UNCHANGED <<owed, sent>>
      BY <1>6 DEF Accept
    <2>2. owed = <<>> /\ sent = 0
      BY <1>1, <1>6, AttemptOver DEF Accept
    <2> QED
      BY <1>1, <1>6, <2>1, <2>2, NothingOwed, AcceptRight
  <1>7. CASE Report
    <2>1. owed = <<>> /\ sent = 0 /\ pc' # "await" /\ UNCHANGED <<owed, sent>>
      BY <1>1, <1>7 DEF AnswersAsked, Report
    <2> QED
      BY <1>1, <1>7, <2>1, NothingOwed, ReportRight
  <1>8. CASE UNCHANGED vars
    <2>1. ReadRight'
      BY <1>1, <1>8, SameRight DEF vars
    <2> QED
      BY <1>1, <1>8, <2>1 DEF vars, AnswersAsked, Need, Asked
  <1> QED
    BY <1>2, <1>3, <1>4, <1>5, <1>6, <1>7, <1>8 DEF Next, Task

THEOREM PromptInvariance == Spec => []PromptInv
  <1> QED
    BY InitPrompt, PromptNext, PTL DEF Spec

(***************************************************************************)
(* The order in which units arrive.                                        *)
(***************************************************************************)
LEMMA InitOrder == Init => OrderInv
  BY InitInv DEF Init, OrderInv, Ordered

(* Outside of a wait only what is owed counts.                             *)
LEMMA OrderKept ==
  ASSUME OrderInv, PollInv', pc' # "await", UNCHANGED <<owed, sent>>
  PROVE  OrderInv'
  BY DEF OrderInv, Ordered

LEMMA SendOrder == ASSUME OrderInv, PollInv', Send PROVE OrderInv'
  <1>1. rx' = <<>> /\ sent' = sent
    BY DEF Send, Flush
  <1>2. sent' > 0 => owed' # <<>> /\ sent' < Units[owed'[1].reg]
    <2>1. CASE UNCHANGED owed
      BY <1>1, <2>1 DEF OrderInv, Ordered
    <2>2. CASE ~UNCHANGED owed
      <3>1. owed \in Seq(Messages) /\ owed' \in Seq(Messages)
        BY DEF OrderInv, Ordered, PollInv, TypeOK
      <3>2. PICK m : owed' = Append(owed, m)
        BY <2>2 DEF Send, Answer
      <3>3. owed # <<>> => owed' # <<>> /\ owed'[1] = owed[1]
        BY <3>1, <3>2
      <3> QED
        BY <1>1, <3>3 DEF OrderInv, Ordered
    <2> QED
      BY <2>1, <2>2
  <1>3. InOrder' /\ LastSent'
    BY <1>1 DEF InOrder, LastSent
  <1> QED
    BY <1>2, <1>3 DEF OrderInv, Ordered

(* A unit comes behind the last one: it is the next of the same message,   *)
(* or the first of another one.                                            *)
LEMMA AppendOrder ==
  ASSUME NEW n \in Nat, rx \in Seq(Unit), n = Len(rx), InOrder, NEW u \in Unit,
         rx' = Append(rx, u), u.part \in 1 .. Units[u.reg],
         Units \in [Regs -> Nat],
         n > 0 => IF rx[n].part = Units[rx[n].reg] THEN u.part = 1
                  ELSE u = [rx[n] EXCEPT !.part = @ + 1]
  PROVE  InOrder'
  <1>1. /\ Len(rx') = n + 1 /\ rx'[n + 1] = u
        /\ \A k \in 1 .. n : rx'[k] = rx[k]
    OBVIOUS
  <1>2. \A k \in 1 .. n : rx[k] \in Unit
    OBVIOUS
  <1> SUFFICES ASSUME NEW k \in 1 .. Len(rx')
               PROVE  LET left == Units[rx'[k].reg] - rx'[k].part IN
                      /\ rx'[k].part \in 1 .. Units[rx'[k].reg]
                      /\ \A j \in 0 .. left : k + j <= Len(rx') =>
                            rx'[k + j] = [rx'[k] EXCEPT !.part = @ + j]
                      /\ left = 0 /\ k < Len(rx') => rx'[k + 1].part = 1
    BY Zenon DEF InOrder
  <1>3. CASE k = n + 1
    <2>1. u = [u EXCEPT !.part = @ + 0]
      BY DEF Unit
    <2>2. ASSUME NEW j \in 0 .. (Units[u.reg] - u.part), k + j <= n + 1
          PROVE  j = 0
      <3>1. u.part \in Nat /\ Units[u.reg] \in Nat
        BY DEF Unit
      <3> QED
        BY <1>3, <2>2, <3>1
    <2> QED
      BY <1>1, <1>3, <2>1, <2>2
  <1>4. CASE k \in 1 .. n
    <2> DEFINE w == rx[k]
               left == Units[w.reg] - w.part
    <2>1. /\ w \in Unit /\ w.part \in 1 .. Units[w.reg] /\ rx'[k] = w
          /\ \A j \in 0 .. left : k + j <= n => rx[k + j] = [w EXCEPT !.part = @ + j]
          /\ left = 0 /\ k < n => rx[k + 1].part = 1
      BY <1>1, <1>2, <1>4 DEF InOrder
    <2>2. Units[w.reg] \in Nat /\ w.part \in Nat /\ left \in Nat /\ n > 0
      BY <1>4, <2>1 DEF Unit
    <2>3. ASSUME NEW j \in 0 .. left, k + j <= n + 1
          PROVE  rx'[k + j] = [w EXCEPT !.part = @ + j]
      <3>1. CASE k + j <= n
        <4>1. k + j \in 1 .. n
          BY <1>4, <3>1
        <4> QED
          BY <1>1, <2>1, <3>1, <4>1
      <3>2. CASE k + j = n + 1
        <4>1. j - 1 \in 0 .. left /\ k + (j - 1) = n /\ j \in Nat
          BY <1>4, <2>2, <3>2
        <4>2. rx[n] = [w EXCEPT !.part = @ + (j - 1)]
          BY <2>1, <4>1
        <4>3. rx[n].part = w.part + (j - 1) /\ rx[n].reg = w.reg
          BY <2>1, <4>2 DEF Unit
        <4>4. rx[n].part # Units[rx[n].reg]
          BY <2>2, <2>3, <4>1, <4>3
        <4>5. u = [rx[n] EXCEPT !.part = @ + 1]
          BY <2>2, <4>4
        <4>6. u = [w EXCEPT !.part = (w.part + (j - 1)) + 1]
          BY <2>1, <4>2, <4>3, <4>5 DEF Unit
        <4>7. (w.part + (j - 1)) + 1 = w.part + j
          BY <2>2, <4>1, SMTT(60)
        <4> QED
          BY <1>1, <3>2, <4>6, <4>7
      <3>3. k + j <= n \/ k + j = n + 1
        BY <1>4, <2>2, <2>3
      <3> QED
        BY <3>1, <3>2, <3>3
    <2>4. left = 0 => rx'[k + 1].part = 1
      <3>1. CASE k < n
        <4>1. k + 1 \in 1 .. n
          BY <1>4, <3>1
        <4> QED
          BY <1>1, <2>1, <3>1, <4>1
      <3>2. CASE k = n
        BY <1>1, <2>1, <2>2, <3>2
      <3> QED
        BY <1>4, <3>1, <3>2
    <2> QED
      BY <1>1, <2>1, <2>3, <2>4
  <1>5. k = n + 1 \/ k \in 1 .. n
    BY <1>1
  <1> QED
    BY <1>3, <1>4, <1>5, Zenon

LEMMA ArriveOrder == ASSUME OrderInv, PollInv', Arrive PROVE OrderInv'
  <1> DEFINE m == owed[1]
             u == [bat |-> m.bat, reg |-> m.reg, fit |-> m.fit, part |-> sent + 1]
  <1>1. /\ owed \in Seq(Messages) /\ owed # <<>> /\ Head(owed) = m /\ m \in Messages
        /\ sent \in Nat /\ rx \in Seq(Unit) /\ rx' = Append(rx, u) /\ pc' = pc
    BY DEF OrderInv, Ordered, PollInv, TypeOK, Arrive
  <1>2. u \in Unit /\ Units \in [Regs -> Nat \ {0}] /\ m.reg \in Regs
        /\ Units[m.reg] \in Nat \ {0}
    BY <1>1, BmsAssumption DEF Unit, Messages
  <1>3. sent + 1 \in 1 .. Units[m.reg]
    BY <1>1, <1>2 DEF OrderInv, Ordered
  <1>4. IF sent + 1 = Units[m.reg] THEN owed' = Tail(owed) /\ sent' = 0
                                   ELSE sent' = sent + 1 /\ owed' = owed
    BY <1>1 DEF Arrive
  <1>5. sent' > 0 => owed' # <<>> /\ sent' < Units[owed'[1].reg]
    BY <1>1, <1>2, <1>3, <1>4
  <1>6. ASSUME pc = "await" PROVE InOrder' /\ LastSent'
    <2>1. InOrder /\ LastSent
      BY <1>6 DEF OrderInv, Ordered
    <2>2. PICK n \in Nat : n = Len(rx)
      BY <1>1
    <2>3. ASSUME n > 0
          PROVE  IF rx[n].part = Units[rx[n].reg] THEN u.part = 1
                 ELSE u = [rx[n] EXCEPT !.part = @ + 1]
      <3>0. rx # <<>>
        BY <1>1, <2>2, <2>3
      <3>1. CASE sent = 0
        BY <2>1, <2>2, <3>0, <3>1 DEF LastSent
      <3>2. CASE sent # 0
        <4>1. rx[n] = [bat |-> m.bat, reg |-> m.reg, fit |-> m.fit, part |-> sent]
          BY <2>1, <2>2, <3>0, <3>2 DEF LastSent
        <4>2. rx[n].part # Units[rx[n].reg]
          BY <1>1, <1>2, <3>2, <4>1 DEF OrderInv, Ordered
        <4> QED
          BY <4>1, <4>2
      <3> QED
        BY <3>1, <3>2
    <2>4. u.part \in 1 .. Units[u.reg] /\ Units \in [Regs -> Nat]
      BY <1>2, <1>3
    <2> HIDE DEF u
    <2>5. InOrder'
      BY <1>1, <1>2, <2>1, <2>2, <2>3, <2>4, AppendOrder
    <2>6. rx'[Len(rx')] = u
      BY <1>1, <1>2
    <2>7. LastSent'
      <3>1. CASE sent' = 0
        BY <1>1, <1>3, <1>4, <2>6, <3>1 DEF LastSent, u
      <3>2. CASE sent' # 0
        BY <1>4, <2>6, <3>2 DEF LastSent, u
      <3> QED
        BY <3>1, <3>2
    <2> QED
      BY <2>5, <2>7
  <1> QED
    BY <1>1, <1>5, <1>6 DEF OrderInv, Ordered

LEMMA OrderNext == OrderInv /\ [Next]_vars => OrderInv'
  <1> SUFFICES ASSUME OrderInv, [Next]_vars PROVE OrderInv'
    OBVIOUS
  <1>0. PollInv'
    BY NextStep DEF OrderInv, Ordered
  <1>1. CASE Select
    <2>1. sent' \in {0, sent} /\ (sent' # 0 => owed' = owed /\ sent' = sent)
      BY <1>1 DEF Select
    <2> QED
      BY <1>0, <1>1, <2>1 DEF OrderInv, Ordered, Select
  <1>2. CASE TimeOut \/ Refuse \/ Accept \/ Report
    <2>1. pc' # "await" /\ UNCHANGED <<owed, sent>>
      BY <1>2 DEF TimeOut, Refuse, Accept, Report, Failed
    <2> QED
      BY <1>0, <2>1, OrderKept
  <1>3. CASE UNCHANGED vars
    BY <1>0, <1>3 DEF OrderInv, Ordered, InOrder, LastSent, vars
  <1> QED
    BY <1>0, <1>1, <1>2, <1>3, SendOrder, ArriveOrder DEF Next, Task

(* Units arrive in order and without a gap, from a request on.             *)
THEOREM OrderInvariance == Spec => []OrderInv
  <1> QED
    BY InitOrder, OrderNext, PTL DEF Spec

(* What the loop has read so far, what is stored and what is notified are  *)
(* the asked battery's own, and right when answers are never late; units   *)
(* arrive in order.                                                        *)
THEOREM PollingInvariance == Spec => []PollingInv
  <1>1. WholeInv /\ PromptInv /\ OrderInv => PollingInv
    BY DEF PollingInv, PromptInv, OrderInv
  <1> QED
    BY <1>1, WholeInvariance, PromptInvariance, OrderInvariance, PTL

(* Of batteries that are silent or answer nonsense, but answer in time or  *)
(* never: the record published by a notification with ESK8_OK holds in     *)
(* every field the register it stands for, of the battery it is about, for *)
(* any lists of registers, lengths of their answers and spills.            *)
THEOREM PromptOkIsRightHolds == Spec => []PromptOkIsRight
  <1>1. PromptInv => PromptOkIsRight
    BY DEF PromptInv, RightIfPrompt, ReadRight, PromptOkIsRight
  <1> QED
    BY <1>1, PromptInvariance, PTL

(***************************************************************************)
(* The bytes of the answers.                                               *)
(***************************************************************************)
(* What a battery answers is a message of its register's length, right but *)
(* for the flaw.                                                           *)
LEMMA AnswerBytes ==
  ASSUME NEW b \in Bats, NEW r \in Regs, NEW flaw \in Flaws \cup {"none"}
  PROVE  LET m == Answered(b, r, flaw) IN
         /\ m \in Message
         /\ m.pld_length = RegSize(r)
         /\ m.payload = Reading[b, r]
         /\ m.src_address = ADDR_BMS <=> flaw # "source"
         /\ m.cmd_argment = 0 <=> flaw # "argument"
         /\ m.chk_sum = msg_chk_calc(m) <=> flaw # "sum"
  <1>1. PICK n : n = RegSize(r) /\ n \in Byte
    <2>1. RegSize(r) \in 1 .. 246
      BY UnitsHoldMessages, Zenon
    <2>2. RegSize(r) \in Byte
      BY <2>1 DEF Byte
    <2> QED
      BY <2>2, Zenon
  <1>2. PICK t \in Seq(Byte) : t = Reading[b, r] /\ Len(t) = n
    BY <1>1, UnitsHoldMessages, Zenon
  <1>3. PICK a \in Byte : /\ a = IF flaw = "source" THEN ADDR_APP ELSE ADDR_BMS
                          /\ a = ADDR_BMS <=> flaw # "source"
    BY DEF ADDR_APP, ADDR_BMS, Byte
  <1>4. PICK g \in Byte : /\ g = IF flaw = "argument" THEN RegNo[r] ELSE 0
                          /\ g = 0 <=> flaw # "argument"
    <2>1. RegNo[r] \in Byte \ {0}
      BY UnitsHoldMessages, Zenon
    <2>2. 0 \in Byte
      BY DEF Byte
    <2> QED
      BY <2>1, <2>2, Zenon
  <1>5. PICK e : e = [pld_length  |-> n, src_address |-> a,
                      dst_address |-> ADDR_APP, cmd_command |-> 1,
                      cmd_argment |-> g, payload |-> t, chk_sum |-> <<0, 0>>]
    OBVIOUS
  <1>6. e \in Message
    <2>1. ADDR_APP \in Byte /\ 1 \in Byte /\ 0 \in Byte
      BY DEF ADDR_APP, Byte
    <2>2. PICK z \in Byte \X Byte : z = <<0, 0>>
      BY <2>1
    <2>3. PICK x \in Byte, y \in Byte : x = ADDR_APP /\ y = 1
      BY <2>1, Zenon
    <2>4. e = [pld_length  |-> n, src_address |-> a, dst_address |-> x, cmd_command |-> y,
               cmd_argment |-> g, payload |-> t, chk_sum |-> z]
      BY <1>5, <2>2, <2>3, Zenon
    <2> QED
      BY <1>1, <1>2, <1>3, <1>4, <2>2, <2>3, <2>4 DEF Message
  <1>7. PICK m : m = set_chk(e)
    OBVIOUS
  <1>8. /\ m \in Message /\ m.chk_sum = msg_chk_calc(m)
        /\ m.pld_length = n /\ m.src_address = a /\ m.cmd_argment = g /\ m.payload = t
    BY <1>5, <1>6, <1>7, SetChkIsRight
  <1>9. Answered(b, r, flaw) = IF flaw = "sum" THEN [m EXCEPT !.chk_sum[1] = (@ + 1) % 256] ELSE m
    BY <1>1, <1>2, <1>3, <1>4, <1>5, <1>7, ZenonT(60) DEF Answered
  <1>10. CASE flaw # "sum"
    BY <1>1, <1>2, <1>3, <1>4, <1>8, <1>9, <1>10, Zenon
  <1>11. CASE flaw = "sum"
    <2>1. PICK x \in Byte, y \in Byte : m.chk_sum = <<x, y>>
      BY <1>8, MessageParts
    <2>2. (x + 1) % 256 \in Byte /\ (x + 1) % 256 # x
      BY SMT DEF Byte
    <2>3. PICK z \in Byte : z = (x + 1) % 256 /\ z # x
      BY <2>2, Zenon
    <2>4. PICK w : w = [m EXCEPT !.chk_sum[1] = (@ + 1) % 256]
      OBVIOUS
    <2>5. w = [m EXCEPT !.chk_sum = <<z, y>>]
      <3>1. [m.chk_sum EXCEPT ![1] = (@ + 1) % 256] = <<z, y>>
        <4>1. [m.chk_sum EXCEPT ![1] = z] = <<z, y>>
          BY <2>1
        <4>2. m.chk_sum[1] = x
          BY <2>1
        <4> QED
          BY <2>3, <4>1, <4>2, Zenon
      <3>2. w = [m EXCEPT !.chk_sum = [m.chk_sum EXCEPT ![1] = (@ + 1) % 256]]
        BY <2>4, SMT
      <3> QED
        BY <3>1, <3>2, Zenon
    <2>6. /\ w \in Message /\ w.chk_sum = <<z, y>>
          /\ w.pld_length = m.pld_length /\ w.src_address = m.src_address
          /\ w.dst_address = m.dst_address /\ w.cmd_command = m.cmd_command
          /\ w.cmd_argment = m.cmd_argment /\ w.payload = m.payload
      BY <1>8, <2>5 DEF Message
    <2>7. msg_chk_calc(w) = msg_chk_calc(m)
      BY <2>6, Zenon DEF msg_chk_calc, HeaderBytes
    <2>8. w.chk_sum # m.chk_sum
      BY <2>1, <2>3, <2>6
    <2>9. Answered(b, r, flaw) = w
      BY <1>9, <1>11, <2>4, Zenon
    <2> QED
      BY <1>1, <1>2, <1>3, <1>4, <1>8, <1>11, <2>6, <2>7, <2>8, <2>9, Zenon
  <1> QED
    BY <1>10, <1>11, Zenon

LEMMA WireBytes ==
  ASSUME NEW b \in Bats, NEW r \in Regs, NEW flaw \in Flaws \cup {"none"}
  PROVE  LET s == OnWire[b][r][flaw] IN
         /\ s = serialize(Answered(b, r, flaw))
         /\ s \in Seq(Byte) /\ Len(s) = 5 * Units[r]
         /\ s[1] = pktHeader[1] /\ s[2] = pktHeader[2] /\ s[3] = 5 * Units[r] - 9
  <1>1. OnWire[b][r][flaw] = serialize(Answered(b, r, flaw))
    BY DEF OnWire
  <1>2. PICK m \in Message : m = Answered(b, r, flaw) /\ m.pld_length = RegSize(r)
    BY AnswerBytes, Zenon
  <1>3. PICK s : s = serialize(m)
    OBVIOUS
  <1>4. s \in Seq(Byte) /\ Len(s) = RegSize(r) + MinSize /\ s[1] = 90 /\ s[2] = 165 /\ s[3] = RegSize(r)
    BY <1>2, <1>3, SerializedBytes, Zenon
  <1>5. Units[r] \in Nat
    BY BmsAssumption
  <1>6. RegSize(r) + MinSize = 5 * Units[r] /\ RegSize(r) = 5 * Units[r] - 9
    BY <1>5 DEF RegSize, UnitBytes, MinSize
  <1>7. s[1] = pktHeader[1] /\ s[2] = pktHeader[2]
    BY <1>4 DEF pktHeader
  <1>8. s = OnWire[b][r][flaw]
    BY <1>1, <1>2, <1>3, Zenon
  <1>9. s \in Seq(Byte) /\ Len(s) = 5 * Units[r] /\ s[3] = 5 * Units[r] - 9
    BY <1>4, <1>6
  <1> QED
    BY <1>1, <1>7, <1>8, <1>9, Zenon

(* While an answer is awaited: what the buffer of Need units holds.        *)
Waits == OrderInv /\ pc = "await" /\ Len(rx) >= Need

FlawOf(u, flaw) == IF u.fit = "yes" THEN "none" ELSE flaw

LEMMA BufUnits ==
  ASSUME Waits
  PROVE  /\ Need \in Nat \ {0}
         /\ \A k \in 1 .. Need :
              /\ Buf[k] = rx[k] /\ rx[k] \in Unit
              /\ rx[k].bat \in Bats /\ rx[k].reg \in Regs /\ rx[k].part \in Nat
              /\ Units[rx[k].reg] \in Nat
              /\ 1 <= rx[k].part /\ rx[k].part <= Units[rx[k].reg]
         /\ InOrder
  <1>1. TypeOK /\ InOrder
    BY DEF Waits, OrderInv, Ordered, PollInv
  <1>2. Need \in Nat \ {0}
    BY <1>1, AskedKnown
  <1>3. rx \in Seq(Unit) /\ Len(rx) >= Need
    BY <1>1 DEF TypeOK, Waits
  <1>4. ASSUME NEW k \in 1 .. Need
        PROVE  /\ Buf[k] = rx[k] /\ rx[k] \in Unit
               /\ rx[k].bat \in Bats /\ rx[k].reg \in Regs /\ rx[k].part \in Nat
               /\ Units[rx[k].reg] \in Nat
               /\ 1 <= rx[k].part /\ rx[k].part <= Units[rx[k].reg]
    <2>1. k \in 1 .. Len(rx)
      BY <1>2, <1>3
    <2>2. Buf[k] = rx[k] /\ rx[k] \in Unit
      BY <1>2, <1>3, <2>1 DEF Buf
    <2>3. rx[k].bat \in Bats /\ rx[k].reg \in Regs /\ rx[k].part \in Nat
      BY <2>2 DEF Unit
    <2>4. Units[rx[k].reg] \in Nat
      BY <2>3, BmsAssumption
    <2>5. rx[k].part \in 1 .. Units[rx[k].reg]
      BY <1>1, <2>1 DEF InOrder
    <2> QED
      BY <2>2, <2>3, <2>4, <2>5
  <1> QED
    BY <1>1, <1>2, <1>4, Zenon

(* Units behind each other: each is one part further into the same message. *)
Run(a, c) ==
  /\ a + c - 1 <= Need
  /\ \A j \in 0 .. c - 1 : rx[a + j] = [rx[a] EXCEPT !.part = @ + j]

LEMMA Fifths ==
  ASSUME NEW a \in Nat \ {0}, NEW i \in Nat \ {0}
  PROVE  \E q, x \in Nat :
           /\ x < 5 /\ i = 5 * q + x + 1
           /\ ((5 * (a - 1) + i) - 1) \div 5 + 1 = a + q
           /\ ((5 * (a - 1) + i) - 1) % 5 = x
  <1>1. PICK q, x : q = (i - 1) \div 5 /\ x = (i - 1) % 5
    OBVIOUS
  <1>2. q \in Nat /\ x \in Nat /\ x < 5 /\ i = 5 * q + x + 1
    BY <1>1
  <1>3. ((5 * (a - 1) + i) - 1) \div 5 + 1 = a + q
    BY <1>2, SMT
  <1>4. ((5 * (a - 1) + i) - 1) % 5 = x
    BY <1>2, SMT
  <1> QED
    BY <1>2, <1>3, <1>4

LEMMA WireTyped ==
  ASSUME NEW u \in Unit, NEW flaw \in Flaws
  PROVE  /\ WireOf(u, flaw) = serialize(Answered(u.bat, u.reg, FlawOf(u, flaw)))
         /\ WireOf(u, flaw) = OnWire[u.bat][u.reg][FlawOf(u, flaw)]
         /\ WireOf(u, flaw) \in Seq(Byte)
         /\ Len(WireOf(u, flaw)) = 5 * Units[u.reg]
         /\ WireOf(u, flaw)[1] = pktHeader[1] /\ WireOf(u, flaw)[2] = pktHeader[2]
         /\ WireOf(u, flaw)[3] = 5 * Units[u.reg] - 9
         /\ FlawOf(u, flaw) \in Flaws \cup {"none"}
  <1>1. u.bat \in Bats /\ u.reg \in Regs
    BY DEF Unit
  <1>2. FlawOf(u, flaw) \in Flaws \cup {"none"}
    BY DEF FlawOf
  <1>3. PICK b \in Bats, r \in Regs, f \in Flaws \cup {"none"} :
           b = u.bat /\ r = u.reg /\ f = FlawOf(u, flaw)
    BY <1>1, <1>2, Zenon
  <1>4. PICK s : s = OnWire[b][r][f]
    OBVIOUS
  <1>5. WireOf(u, flaw) = s
    BY <1>3, <1>4, Zenon DEF WireOf, FlawOf
  <1>6. /\ s = serialize(Answered(b, r, f))
        /\ s \in Seq(Byte) /\ Len(s) = 5 * Units[r]
        /\ s[1] = pktHeader[1] /\ s[2] = pktHeader[2] /\ s[3] = 5 * Units[r] - 9
    BY <1>4, WireBytes, Zenon
  <1>7. s = serialize(Answered(u.bat, u.reg, FlawOf(u, flaw)))
    BY <1>3, <1>6, Zenon
  <1>8. s = OnWire[u.bat][u.reg][FlawOf(u, flaw)]
    BY <1>3, <1>4, Zenon
  <1>9. Units[r] = Units[u.reg]
    BY <1>3, Zenon
  <1> QED
    BY <1>2, <1>5, <1>6, <1>7, <1>8, <1>9, Zenon

(* The bytes of units behind each other are bytes of one message behind    *)
(* each other.                                                             *)
LEMMA RunBytes ==
  ASSUME Waits, NEW flaw, NEW a \in 1 .. Need, NEW c \in Nat, Run(a, c),
         NEW i \in 1 .. 5 * c
  PROVE  /\ 5 * (a - 1) + i \in 1 .. 5 * Need
         /\ res_buf(flaw)[5 * (a - 1) + i] =
              WireOf(rx[a], flaw)[5 * (rx[a].part - 1) + i]
  <1>1. PICK n \in Nat : n = Need /\ n > 0
    BY BufUnits
  <1>2. a \in Nat \ {0} /\ i \in Nat \ {0} /\ a <= n /\ i <= 5 * c /\ a + c - 1 <= n
    BY <1>1 DEF Run
  <1>3. PICK q \in Nat, x \in Nat :
           /\ x < 5 /\ i = 5 * q + x + 1
           /\ ((5 * (a - 1) + i) - 1) \div 5 + 1 = a + q
           /\ ((5 * (a - 1) + i) - 1) % 5 = x
    BY <1>2, Fifths
  <1>4. PICK m \in Nat : m = 5 * (a - 1) + i /\ m \in 1 .. 5 * n
    <2>1. 5 * (a - 1) + i \in Nat /\ 5 * (a - 1) + i \in 1 .. 5 * n
      BY <1>2
    <2> QED
      BY <2>1, Zenon
  <1>5. q \in 0 .. c - 1 /\ a + q \in 1 .. n
    BY <1>2, <1>3
  <1>6. rx[a + q] = [rx[a] EXCEPT !.part = @ + q]
    BY <1>5 DEF Run
  <1>7. PICK u \in Unit : u = rx[a]
    BY BufUnits
  <1>8. PICK v : v = rx[a + q] /\ v = Buf[a + q]
    BY <1>1, <1>5, BufUnits, Zenon
  <1>9. v.bat = u.bat /\ v.reg = u.reg /\ v.fit = u.fit /\ v.part = u.part + q /\ u.part \in Nat
    BY <1>6, <1>7, <1>8 DEF Unit
  <1>10. WireOf(v, flaw) = WireOf(u, flaw)
    BY <1>9, Zenon DEF WireOf
  <1>11. res_buf(flaw)[m] = WireOf(v, flaw)[5 * (v.part - 1) + x + 1]
    <2>1. res_buf(flaw)[m] =
            LET w == Buf[(m - 1) \div 5 + 1] IN
            WireOf(w, flaw)[5 * (w.part - 1) + ((m - 1) % 5) + 1]
      BY <1>1, <1>4 DEF res_buf, UnitBytes
    <2>2. Buf[(m - 1) \div 5 + 1] = v /\ (m - 1) % 5 = x
      BY <1>3, <1>4, <1>8, Zenon
    <2> QED
      BY <2>1, <2>2, Zenon
  <1>12. 5 * (v.part - 1) + x + 1 = 5 * (u.part - 1) + i
    BY <1>3, <1>9
  <1> QED
    BY <1>1, <1>4, <1>7, <1>10, <1>11, <1>12, Zenon

LEMMA BufBytes ==
  ASSUME Waits, NEW flaw \in Flaws
  PROVE  res_buf(flaw) \in Seq(Byte) /\ Len(res_buf(flaw)) = 5 * Need
  <1>1. PICK n \in Nat : n = Need /\ n > 0
    BY BufUnits
  <1>2. ASSUME NEW m \in 1 .. 5 * n PROVE res_buf(flaw)[m] \in Byte
    <2>1. PICK a \in 1 .. n, i \in 1 .. 5 : m = 5 * (a - 1) + i
      <3>1. PICK q, x : q = (m - 1) \div 5 /\ x = (m - 1) % 5
        OBVIOUS
      <3>2. q + 1 \in 1 .. n /\ x + 1 \in 1 .. 5 /\ m = 5 * ((q + 1) - 1) + (x + 1)
        BY <1>1, <1>2, <3>1
      <3> QED
        BY <3>2
    <2>2. a \in 1 .. Need /\ 1 \in Nat /\ i \in 1 .. 5 * 1
      BY <1>1, <2>1
    <2>3. PICK u \in Unit : /\ u = rx[a] /\ u.bat \in Bats /\ u.reg \in Regs /\ u.part \in Nat
                            /\ Units[u.reg] \in Nat
                            /\ 1 <= u.part /\ u.part <= Units[u.reg]
      BY <2>2, BufUnits, Zenon
    <2>4. Run(a, 1)
      <3>1. a + 1 - 1 <= n
        OBVIOUS
      <3>2. ASSUME NEW j \in 0 .. 1 - 1 PROVE rx[a + j] = [rx[a] EXCEPT !.part = @ + j]
        <4>1. j = 0 /\ a + j = a
          OBVIOUS
        <4>2. u = [u EXCEPT !.part = @ + 0]
          BY <2>3
             DEF Unit
        <4> QED
          BY <2>3, <4>1, <4>2
      <3> QED
        BY <1>1, <3>1, <3>2 DEF Run
    <2>5. res_buf(flaw)[m] = WireOf(u, flaw)[5 * (u.part - 1) + i]
      BY <2>1, <2>2, <2>3, <2>4, RunBytes, Zenon
    <2>6. PICK s : s = WireOf(u, flaw) /\ s \in Seq(Byte) /\ Len(s) = 5 * Units[u.reg]
      BY <2>3, WireTyped, ZenonT(60)
    <2>7. 5 * (u.part - 1) + i \in 1 .. 5 * Units[u.reg]
      BY <2>1, <2>3
    <2> QED
      BY <2>5, <2>6, <2>7
  <1>3. res_buf(flaw) \in [1 .. 5 * n -> Byte]
    <2>1. PICK f : f = res_buf(flaw)
      OBVIOUS
    <2>2. f = [m \in 1 .. 5 * n |-> f[m]]
      BY <1>1, <2>1 DEF res_buf, UnitBytes
    <2> QED
      BY <1>2, <2>1, <2>2, Zenon
  <1>4. 5 * n \in Nat
    OBVIOUS
  <1> QED
    BY <1>1, <1>3, <1>4

(* Before the first header of the buffer stands, at most, the end of one   *)
(* message.                                                                *)
LEMMA FrontIsRun ==
  ASSUME Waits, NEW f \in 1 .. Need, \A j \in 1 .. f : rx[j].part # 1
  PROVE  Run(1, f) /\ rx[1].part # 1 /\ rx[1].part + f - 1 <= Units[rx[1].reg]
  <1>1. PICK n \in Nat : n = Need /\ n > 0
    BY BufUnits
  <1>2. PICK l \in Nat : l = Len(rx) /\ n <= l
    BY <1>1 DEF Waits, OrderInv, Ordered, PollInv, TypeOK
  <1>3. f \in Nat /\ 1 <= f /\ f <= n
    BY <1>1
  <1>4. 1 \in 1 .. n /\ 1 \in 1 .. f /\ 1 \in 1 .. l
    BY <1>1, <1>2, <1>3
  <1>5. PICK u \in Unit : /\ u = rx[1] /\ u.part \in Nat /\ Units[u.reg] \in Nat
                          /\ 1 <= u.part /\ u.part <= Units[u.reg]
    BY <1>1, <1>4, BufUnits, Zenon
  <1>6. PICK left \in Nat : left = Units[u.reg] - u.part
    <2>1. Units[u.reg] - u.part \in Nat
      BY <1>5
    <2> QED
      BY <2>1, Zenon
  <1>7. \A j \in 0 .. left : 1 + j <= l => rx[1 + j] = [u EXCEPT !.part = @ + j]
    BY <1>2, <1>4, <1>5, <1>6, BufUnits, Zenon DEF InOrder
  <1>8. left >= f - 1
    <2>1. SUFFICES ASSUME left + 2 <= f PROVE FALSE
      BY <1>3, <1>6
    <2>2. /\ left \in 0 .. left /\ 1 + left <= l /\ 1 + left \in 1 .. l /\ 1 + left < l
          /\ (1 + left) + 1 \in 1 .. f
      BY <1>2, <1>3, <1>6, <2>1
    <2>3. rx[1 + left] = [u EXCEPT !.part = @ + left]
      BY <1>7, <2>2, Zenon
    <2>4. rx[1 + left].part = u.part + left /\ rx[1 + left].reg = u.reg
      BY <2>3 DEF Unit
    <2>5. Units[rx[1 + left].reg] - rx[1 + left].part = 0
      BY <1>5, <1>6, <2>4
    <2>6. rx[(1 + left) + 1].part = 1
      BY <1>2, <2>2, <2>5, BufUnits, Zenon DEF InOrder
    <2> QED
      BY <2>2, <2>6, Zenon
  <1>9. ASSUME NEW j \in 0 .. f - 1 PROVE rx[1 + j] = [rx[1] EXCEPT !.part = @ + j]
    <2>1. j \in 0 .. left /\ 1 + j <= l
      BY <1>2, <1>3, <1>6, <1>8
    <2> QED
      BY <1>5, <1>7, <2>1, Zenon
  <1>10. 1 + f - 1 <= n
    BY <1>3
  <1>11. u.part + f - 1 <= Units[u.reg]
    BY <1>3, <1>5, <1>6, <1>8
  <1>12. u.part # 1
    BY <1>4, <1>5, Zenon
  <1> QED
    BY <1>1, <1>5, <1>9, <1>10, <1>11, <1>12, Zenon DEF Run

(* ... in which no header stands.                                          *)
LEMMA NoHeaderInFront ==
  ASSUME Waits, NEW flaw \in Flaws, NEW f \in Nat, f <= Need,
         \A j \in 1 .. f : rx[j].part # 1,
         NEW i \in Nat, i + 2 <= 5 * f
  PROVE  ~HeaderAt(res_buf(flaw), i)
  <1>1. PICK n \in Nat : n = Need /\ n > 0
    BY BufUnits
  <1>2. f \in 1 .. n /\ 1 \in 1 .. n
    BY <1>1
  <1>3. PICK u : u = rx[1]
    OBVIOUS
  <1>4. /\ Run(1, f) /\ u.part # 1 /\ u.part + f - 1 <= Units[u.reg]
    BY <1>1, <1>2, <1>3, FrontIsRun, Zenon
  <1>5. /\ u \in Unit /\ u.bat \in Bats /\ u.reg \in Regs /\ u.part \in Nat
        /\ Units[u.reg] \in Nat /\ 1 <= u.part
    BY <1>1, <1>2, <1>3, BufUnits, Zenon
  <1>6. PICK s, bytes : s = WireOf(u, flaw) /\ bytes = res_buf(flaw)
    OBVIOUS
  <1>7. PICK o \in Nat : o = 5 * (u.part - 1) + i
    <2>1. 5 * (u.part - 1) + i \in Nat
      BY <1>5
    <2> QED
      BY <2>1, Zenon
  <1>8. bytes[i + 1] = s[o + 1] /\ bytes[i + 2] = s[o + 2]
    <2>1. i + 1 \in 1 .. 5 * f /\ i + 2 \in 1 .. 5 * f
      OBVIOUS
    <2>2. 1 \in 1 .. Need
      BY <1>1
    <2>3. /\ res_buf(flaw)[5 * (1 - 1) + (i + 1)] =
                WireOf(rx[1], flaw)[5 * (rx[1].part - 1) + (i + 1)]
          /\ res_buf(flaw)[5 * (1 - 1) + (i + 2)] =
                WireOf(rx[1], flaw)[5 * (rx[1].part - 1) + (i + 2)]
      BY <1>4, <2>2, <2>1, RunBytes, ZenonT(60)
    <2>4. /\ bytes[5 * (1 - 1) + (i + 1)] = s[5 * (u.part - 1) + (i + 1)]
          /\ bytes[5 * (1 - 1) + (i + 2)] = s[5 * (u.part - 1) + (i + 2)]
      BY <1>3, <1>6, <2>3, Zenon
    <2>5. /\ 5 * (1 - 1) + (i + 1) = i + 1 /\ 5 * (u.part - 1) + (i + 1) = o + 1
          /\ 5 * (1 - 1) + (i + 2) = i + 2 /\ 5 * (u.part - 1) + (i + 2) = o + 2
      BY <1>5, <1>7
    <2> QED
      BY <2>4, <2>5, Zenon
  <1>9. /\ s = OnWire[u.bat][u.reg][FlawOf(u, flaw)]
        /\ FlawOf(u, flaw) \in Flaws \cup {"none"}
        /\ s \in Seq(Byte) /\ Len(s) = 5 * Units[u.reg]
    BY <1>5, <1>6, WireTyped, Zenon
  <1>10. o \in 1 .. 5 * Units[u.reg] - 2 /\ o \in 0 .. Len(s) - 2
    <2>1. PICK p \in Nat, m \in Nat : p = u.part /\ m = Units[u.reg] /\ 1 <= p
      BY <1>5, Zenon
    <2>2. p # 1 /\ p + f - 1 <= m /\ o = 5 * (p - 1) + i
      BY <1>4, <1>7, <2>1, Zenon
    <2>3. o \in 1 .. 5 * m - 2 /\ o \in 0 .. 5 * m - 2
      BY <2>1, <2>2
    <2> QED
      BY <1>9, <2>1, <2>3, Zenon
  <1>11. ~HeaderAt(s, o)
    <2>1. o \in 1 .. UnitBytes * Units[u.reg] - 2
      BY <1>10 DEF UnitBytes
    <2> QED
      BY <1>5, <1>9, <2>1, UnitsHoldMessages, Zenon
  <1>12. ~(s[o + 1] = pktHeader[1] /\ s[o + 2] = pktHeader[2])
    BY <1>10, <1>11, Zenon DEF HeaderAt
  <1> QED
    BY <1>6, <1>8, <1>12, Zenon DEF HeaderAt

(* A unit that begins a message begins with a header, behind which the     *)
(* bytes of as much of the message follow as is in the buffer; it is the   *)
(* first header when no unit before it begins one.                         *)
LEMMA HeaderStands ==
  ASSUME Waits, NEW flaw \in Flaws, NEW k \in 1 .. Need, rx[k].part = 1,
         NEW c \in Nat, c <= Units[rx[k].reg], k + c - 1 <= Need
  PROVE  /\ Run(k, c)
         /\ \A i \in 1 .. 5 * c :
               res_buf(flaw)[5 * (k - 1) + i] = WireOf(rx[k], flaw)[i]
  <1>1. PICK n \in Nat : n = Need /\ n > 0
    BY BufUnits
  <1>2. PICK l \in Nat : l = Len(rx) /\ n <= l
    BY <1>1 DEF Waits, OrderInv, Ordered, PollInv, TypeOK
  <1>3. PICK u : u = rx[k]
    OBVIOUS
  <1>4. u.part = 1 /\ Units[u.reg] \in Nat /\ k \in 1 .. l
    BY <1>1, <1>2, <1>3, BufUnits
  <1>5. Run(k, c)
    <2>1. ASSUME NEW j \in 0 .. c - 1 PROVE rx[k + j] = [u EXCEPT !.part = @ + j]
      <3>1. j \in 0 .. (Units[u.reg] - u.part) /\ k + j <= l
        BY <1>1, <1>2, <1>3, <1>4
      <3> QED
        BY <1>2, <1>3, <1>4, <3>1, BufUnits, Zenon DEF InOrder
    <2> QED
      BY <1>3, <2>1, Zenon DEF Run
  <1>6. ASSUME NEW i \in 1 .. 5 * c
        PROVE  res_buf(flaw)[5 * (k - 1) + i] = WireOf(u, flaw)[i]
    <2>1. \A f : res_buf(f)[5 * (k - 1) + i] = WireOf(rx[k], f)[5 * (rx[k].part - 1) + i]
      BY <1>5, RunBytes
    <2>2. res_buf(flaw)[5 * (k - 1) + i] = WireOf(u, flaw)[5 * (u.part - 1) + i]
      BY <1>3, <2>1, Zenon
    <2>3. 5 * (u.part - 1) + i = i
      BY <1>4
    <2> QED
      BY <2>2, <2>3, Zenon
  <1> QED
    BY <1>3, <1>5, <1>6, Zenon

LEMMA FirstIsFound ==
  ASSUME Waits, NEW flaw \in Flaws, NEW k \in 1 .. Need, rx[k].part = 1,
         \A j \in 1 .. k - 1 : rx[j].part # 1
  PROVE  /\ find_header(res_buf(flaw)) = 5 * (k - 1)
         /\ HeaderAt(res_buf(flaw), 5 * (k - 1))
         /\ \A i \in 0 .. 5 * (k - 1) - 1 : ~HeaderAt(res_buf(flaw), i)
  <1>1. PICK n \in Nat : n = Need /\ n > 0 /\ k \in Nat /\ 1 <= k /\ k <= n
    BY BufUnits
  <1>2. PICK bytes \in Seq(Byte) : bytes = res_buf(flaw) /\ Len(bytes) = 5 * n
    BY <1>1, BufBytes, Zenon
  <1>3. PICK h \in Nat : h = 5 * (k - 1) /\ h + 5 <= 5 * n
    <2>1. 5 * (k - 1) \in Nat /\ 5 * (k - 1) + 5 <= 5 * n
      BY <1>1
    <2> QED
      BY <2>1, Zenon
  <1>4. PICK s : s = WireOf(rx[k], flaw) /\ s[1] = pktHeader[1] /\ s[2] = pktHeader[2]
    <2>1. rx[k] \in Unit
      BY BufUnits, Zenon
    <2> QED
      BY <2>1, WireTyped, Zenon
  <1>5. bytes[h + 1] = s[1] /\ bytes[h + 2] = s[2]
    <2>1. 1 \in Nat /\ 1 <= Units[rx[k].reg] /\ k + 1 - 1 <= Need
      BY <1>1, BufUnits
    <2>2. 1 \in 1 .. 5 * 1 /\ 2 \in 1 .. 5 * 1
      OBVIOUS
    <2> QED
      BY <1>2, <1>3, <1>4, <2>1, <2>2, HeaderStands, Zenon
  <1>6. HeaderAt(bytes, h)
    <2>1. h \in 0 .. Len(bytes) - 2
      BY <1>2, <1>3
    <2> QED
      BY <1>4, <1>5, <2>1, Zenon DEF HeaderAt
  <1>7. ASSUME NEW i \in 0 .. h - 1 PROVE ~HeaderAt(bytes, i)
    <2>1. CASE i + 2 <= h
      <3>1. k - 1 \in Nat /\ k - 1 <= n /\ i \in Nat /\ i + 2 <= 5 * (k - 1)
        BY <1>1, <1>3, <2>1
      <3> QED
        BY <1>1, <1>2, <3>1, NoHeaderInFront, Zenon
    <2>2. CASE ~(i + 2 <= h)
      <3>1. i + 2 = h + 1
        BY <1>3, <2>2
      <3>2. bytes[i + 2] = pktHeader[1]
        BY <1>4, <1>5, <3>1, Zenon
      <3>3. pktHeader[1] # pktHeader[2]
        BY DEF pktHeader
      <3> QED
        BY <3>2, <3>3, Zenon DEF HeaderAt
    <2> QED
      BY <2>1, <2>2, Zenon
  <1>8. find_header(bytes) = h
    BY <1>6, <1>7, HeaderFound, Zenon
  <1> QED
    BY <1>2, <1>3, <1>6, <1>7, <1>8, Zenon

LEMMA NoneIsFound ==
  ASSUME Waits, NEW flaw \in Flaws, \A j \in 1 .. Need : rx[j].part # 1
  PROVE  parse_err(res_buf(flaw)) = "NO_HEADER"
  <1>1. PICK n \in Nat : n = Need /\ n > 0
    BY BufUnits
  <1>2. PICK bytes \in Seq(Byte) : bytes = res_buf(flaw) /\ Len(bytes) = 5 * n
    BY <1>1, BufBytes, Zenon
  <1>3. ASSUME NEW i \in 0 .. Len(bytes) PROVE ~HeaderAt(bytes, i)
    <2>1. SUFFICES ASSUME HeaderAt(bytes, i) PROVE FALSE
      OBVIOUS
    <2>2. i \in Nat /\ i + 2 <= 5 * n /\ n <= n
      BY <1>2, <2>1 DEF HeaderAt
    <2> QED
      BY <1>1, <1>2, <2>1, <2>2, NoHeaderInFront, Zenon
  <1>4. find_header(bytes) = -1
    BY <1>3, Zenon DEF find_header
  <1> QED
    BY <1>2, <1>4 DEF parse_err

LEMMA SizeBound ==
  ASSUME NEW r \in Regs
  PROVE  RegSize(r) <= 246
  <1>1. RegSize(r) \in 1 .. 246
    BY UnitsHoldMessages, Zenon
  <1> QED
    BY <1>1

(* The tests and the copy of get_data_with_response, when the first header *)
(* begins a message of which the buffer holds all ...                      *)
LEMMA WholeIsRead ==
  ASSUME Waits, NEW flaw \in Flaws, NEW k \in 1 .. Need, FirstHeader(k), Whole(k)
  PROVE  LET m == Answered(rx[k].bat, rx[k].reg, FlawOf(rx[k], flaw)) IN
         /\ Passes(res_buf(flaw)) <=> rx[k].fit = "yes"
         /\ rx[k].fit = "yes" => parsed(res_buf(flaw)) = m
  <1>1. PICK n \in Nat : n = Need /\ n > 0 /\ k \in Nat /\ 1 <= k /\ k <= n
    BY BufUnits
  <1>2. PICK bytes \in Seq(Byte) : bytes = res_buf(flaw) /\ Len(bytes) = 5 * n
    BY <1>1, BufBytes, Zenon
  <1>3. /\ rx[k] = Buf[k]
        /\ \A j \in 1 .. k - 1 : rx[j] = Buf[j]
    <2>1. \A j \in 1 .. k - 1 : j \in 1 .. Need
      BY <1>1
    <2> QED
      BY <2>1, BufUnits, Zenon
  <1>4. PICK u \in Unit : u = rx[k] /\ u = Buf[k]
    BY <1>3, BufUnits, Zenon
  <1>5. /\ rx[k].part = 1
        /\ \A j \in 1 .. k - 1 : rx[j].part # 1
    BY <1>3, Zenon DEF FirstHeader
  <1>6. PICK c \in Nat : c = Units[u.reg] /\ k + c - 1 <= n
    <2>1. Units[u.reg] \in Nat
      BY <1>4, BufUnits, Zenon
    <2>2. k + Units[u.reg] - 1 <= n
      BY <1>1, <1>4, Zenon DEF Whole
    <2> QED
      BY <2>1, <2>2, Zenon
  <1>7. PICK f : f = FlawOf(u, flaw)
    OBVIOUS
  <1>8. u.bat \in Bats /\ u.reg \in Regs /\ f \in Flaws \cup {"none"}
    BY <1>4, <1>7, BufUnits, WireTyped, Zenon
  <1>9. PICK m \in Message :
          /\ m = Answered(u.bat, u.reg, f)
          /\ m.pld_length = RegSize(u.reg)
          /\ m.src_address = ADDR_BMS <=> f # "source"
          /\ m.cmd_argment = 0 <=> f # "argument"
          /\ m.chk_sum = msg_chk_calc(m) <=> f # "sum"
    BY <1>8, AnswerBytes, Zenon
  <1>10. PICK h \in Nat : h = 5 * (k - 1) /\ h + 5 * c <= 5 * n
    <2>1. 5 * (k - 1) \in Nat /\ 5 * (k - 1) + 5 * c <= 5 * n
      BY <1>1, <1>6, SMTT(60)
    <2> QED
      BY <2>1, Zenon
  <1>11. /\ find_header(bytes) = h
         /\ \A i \in 0 .. h - 1 : ~HeaderAt(bytes, i)
    BY <1>2, <1>5, <1>10, FirstIsFound, Zenon
  <1>12. Holds(bytes, h, m)
    <2>1. m.pld_length + MinSize = 5 * c
      BY <1>6, <1>9 DEF RegSize, UnitBytes, MinSize
    <2>2. \A i \in 1 .. 5 * c : bytes[h + i] = WireOf(u, flaw)[i]
      <3>1. c <= Units[rx[k].reg] /\ k + c - 1 <= Need
        BY <1>1, <1>4, <1>6
      <3> QED
        BY <1>2, <1>4, <1>5, <1>10, <3>1, HeaderStands, ZenonT(60)
    <2>3. WireOf(u, flaw) = serialize(m)
      BY <1>7, <1>9, WireTyped, Zenon
    <2>4. h + m.pld_length + MinSize <= Len(bytes)
      <3>1. h + m.pld_length + MinSize = h + (m.pld_length + MinSize)
        BY <1>9, MessageParts DEF MinSize
      <3> QED
        BY <1>2, <1>10, <2>1, <3>1
    <2> QED
      BY <2>1, <2>2, <2>3, <2>4, Zenon DEF Holds
  <1>13. MsgAt(bytes, h) = m /\ parsed(bytes) = m
    BY <1>11, <1>12, MessageIsRead, Zenon DEF parsed
  <1>14. Len(bytes) - h <= 255
    <2>1. 5 * n <= 255
      <3>1. PICK r \in Regs : n = Units[r]
        BY <1>1, AskedKnown, Zenon DEF Need, Waits, OrderInv, Ordered, PollInv
      <3>2. RegSize(r) <= 246
        BY SizeBound
      <3> QED
        BY <3>1, <3>2 DEF RegSize, UnitBytes, MinSize
    <2> QED
      BY <1>2, <1>10, <2>1
  <1>15. CASE u.fit = "yes"
    <2>1. f = "none"
      BY <1>7, <1>15 DEF FlawOf
    <2>2. f # "source" /\ f # "argument" /\ f # "sum"
      BY <2>1
    <2>3. parse_err(bytes) = "ESK8_OK"
      BY <1>9, <1>11, <1>12, <1>14, <2>2, ParseFindsMessage, Zenon
    <2>4. Passes(bytes)
      BY <1>9, <1>13, <2>2, <2>3, Zenon DEF Passes
    <2> QED
      BY <1>2, <1>4, <1>7, <1>9, <1>13, <1>15, <2>4, Zenon
  <1>16. CASE u.fit # "yes"
    <2>1. f = flaw
      BY <1>7, <1>16 DEF FlawOf
    <2>2. f = "source" \/ f = "argument" \/ f = "sum"
      BY <2>1 DEF Flaws
    <2>3. ~Passes(bytes)
      <3>1. SUFFICES ASSUME Passes(bytes) PROVE FALSE
        OBVIOUS
      <3>2. parse_err(bytes) = "ESK8_OK" /\ m.src_address = ADDR_BMS /\ m.cmd_argment = 0
        BY <1>13, <3>1, Zenon DEF Passes
      <3>3. m.chk_sum = msg_chk_calc(m)
        BY <1>13, <3>2, ParseIsSound, Zenon
      <3> QED
        BY <1>9, <2>2, <3>2, <3>3, Zenon
    <2> QED
      BY <1>2, <1>4, <1>16, <2>3, Zenon
  <1> QED
    BY <1>15, <1>16, Zenon

(* ... and when the rest of it is missing.                                 *)
LEMMA CutIsRefused ==
  ASSUME Waits, NEW flaw \in Flaws, NEW k \in 1 .. Need, FirstHeader(k), ~Whole(k)
  PROVE  ~Passes(res_buf(flaw))
  <1>1. PICK n \in Nat : n = Need /\ n > 0 /\ k \in Nat /\ 1 <= k /\ k <= n
    BY BufUnits
  <1>2. PICK bytes \in Seq(Byte) : bytes = res_buf(flaw) /\ Len(bytes) = 5 * n
    BY <1>1, BufBytes, Zenon
  <1>3. /\ rx[k] = Buf[k]
        /\ \A j \in 1 .. k - 1 : rx[j] = Buf[j]
    <2>1. \A j \in 1 .. k - 1 : j \in 1 .. Need
      BY <1>1
    <2> QED
      BY <2>1, BufUnits, Zenon
  <1>4. PICK u \in Unit : u = rx[k] /\ u = Buf[k]
    BY <1>3, BufUnits, Zenon
  <1>5. /\ rx[k].part = 1
        /\ \A j \in 1 .. k - 1 : rx[j].part # 1
    BY <1>3, Zenon DEF FirstHeader
  <1>6. PICK m \in Nat : m = Units[u.reg] /\ m >= 1
    <2>1. Units[u.reg] \in Nat /\ 1 <= Units[u.reg]
      BY <1>4, <1>5, BufUnits
    <2> QED
      BY <2>1
  <1>7. k + m - 1 > n
    <2>1. SUFFICES ASSUME k + m - 1 <= n PROVE Whole(k)
      BY <1>1, <1>6
    <2>2. Run(k, m)
      <3>1. m <= Units[rx[k].reg] /\ k + m - 1 <= Need
        BY <1>1, <1>4, <1>6, <2>1
      <3> QED
        BY <1>5, <3>1, HeaderStands, Zenon
    <2>3. ASSUME NEW j \in 1 .. m PROVE Buf[k + j - 1] = [u EXCEPT !.part = j]
      <3>1. j - 1 \in 0 .. m - 1 /\ k + (j - 1) = k + j - 1 /\ k + j - 1 \in 1 .. n
            /\ 1 + (j - 1) = j
        BY <1>1, <2>1
      <3>2. rx[k + j - 1] = [u EXCEPT !.part = @ + (j - 1)]
        BY <1>4, <2>2, <3>1, Zenon DEF Run
      <3>3. Buf[k + j - 1] = rx[k + j - 1]
        BY <1>1, <3>1, BufUnits, Zenon
      <3>4. u.part = 1
        BY <1>4, <1>5, Zenon
      <3> QED
        BY <3>1, <3>2, <3>3, <3>4, Zenon
    <2> QED
      BY <1>1, <1>4, <1>6, <2>1, <2>3, Zenon DEF Whole
  <1>8. PICK h \in Nat : h = 5 * (k - 1)
    <2>1. 5 * (k - 1) \in Nat
      BY <1>1
    <2> QED
      BY <2>1, Zenon
  <1>9. find_header(bytes) = h
    BY <1>2, <1>5, <1>8, FirstIsFound, Zenon
  <1>10. PICK rest \in Nat : rest = 5 * n - h /\ rest < 5 * m /\ rest <= 255
    <2>1. PICK r \in Regs : n = Units[r]
      BY <1>1, AskedKnown, Zenon DEF Need, Waits, OrderInv, Ordered, PollInv
    <2>2. RegSize(r) <= 246
      BY SizeBound
    <2>3. 5 * n <= 255
      BY <2>1, <2>2 DEF RegSize, UnitBytes, MinSize
    <2>4. 5 * n - h \in Nat /\ 5 * n - h < 5 * m /\ 5 * n - h <= 255
      BY <1>1, <1>6, <1>7, <1>8, <2>3
    <2> QED
      BY <2>4, Zenon
  <1>11. RemBufferLen(bytes, h) = rest
    <2>1. rest % 256 = rest
      BY <1>10
    <2> QED
      BY <1>2, <1>10, <2>1 DEF RemBufferLen
  <1>12. bytes[h + 3] = 5 * m - 9
    <2>1. 1 \in Nat /\ 1 <= Units[rx[k].reg] /\ k + 1 - 1 <= Need
      BY <1>1, <1>4, <1>6
    <2>2. 3 \in 1 .. 5 * 1
      OBVIOUS
    <2>3. \A i \in 1 .. 5 * 1 : res_buf(flaw)[5 * (k - 1) + i] = WireOf(rx[k], flaw)[i]
      BY <1>5, <2>1, HeaderStands, Zenon
    <2>4. bytes[h + 3] = WireOf(u, flaw)[3]
      BY <1>2, <1>4, <1>8, <2>2, <2>3, Zenon
    <2> QED
      BY <1>6, <2>4, WireTyped, Zenon
  <1>13. ~(RemBufferLen(bytes, h) < MinSize) => TooLong(bytes, h)
    <2>1. 5 * m - 9 + 2 > rest - 2 - 5
      BY <1>6, <1>10
    <2> QED
      BY <1>11, <1>12, <2>1, Zenon DEF TooLong, HeaderSize
  <1>14. ~(h < 0)
    OBVIOUS
  <1>15. parse_err(bytes) # "ESK8_OK"
    BY <1>9, <1>13, <1>14 DEF parse_err
  <1> QED
    BY <1>2, <1>15, Zenon DEF Passes

(* The parser takes an answer exactly when BmsPoll does, and copies what   *)
(* BmsPoll stores.                                                         *)
LEMMA AnswerIsParsed == OrderInv => AnswerAgrees
  <1> SUFFICES ASSUME OrderInv, pc = "await", Len(rx) >= Need
               PROVE  LET K == {i \in 1 .. Need : FirstHeader(i) /\ Whole(i) /\ Buf[i].fit = "yes"}
                      IN  \A bytes \in {res_buf(flaw) : flaw \in Flaws} :
                             /\ Passes(bytes) <=> K # {}
                             /\ \A i \in K : Copies(bytes, Content(Buf[i]))
    BY Zenon DEF AnswerAgrees
  <1>1. Waits
    BY Zenon DEF Waits
  <1>2. PICK K : K = {i \in 1 .. Need : FirstHeader(i) /\ Whole(i) /\ Buf[i].fit = "yes"}
    OBVIOUS
  <1>3. PICK n \in Nat : n = Need /\ n > 0
    BY <1>1, BufUnits
  <1>4. \A i \in 1 .. n : Buf[i] = rx[i] /\ rx[i] \in Unit
    BY <1>1, <1>3, BufUnits, Zenon
  <1>5. SUFFICES ASSUME NEW flaw \in Flaws
                 PROVE  /\ Passes(res_buf(flaw)) <=> K # {}
                        /\ \A i \in K : Copies(res_buf(flaw), Content(Buf[i]))
    BY <1>2, Zenon
  <1>6. CASE \A j \in 1 .. n : rx[j].part # 1
    <2>1. ~Passes(res_buf(flaw))
      <3>1. parse_err(res_buf(flaw)) = "NO_HEADER"
        BY <1>1, <1>3, <1>6, NoneIsFound, Zenon
      <3>2. "NO_HEADER" # "ESK8_OK"
        OBVIOUS
      <3> QED
        BY <3>1, <3>2, Zenon DEF Passes
    <2>2. K = {}
      BY <1>2, <1>3, <1>4, <1>6, Zenon DEF FirstHeader
    <2> QED
      BY <2>1, <2>2, Zenon
  <1>7. CASE \E j \in 1 .. n : rx[j].part = 1
    <2>1. PICK T : T = {j \in 1 .. n : rx[j].part = 1}
      OBVIOUS
    <2>2. T # {} /\ T \subseteq Nat
      BY <1>7, <2>1
    <2>3. PICK k \in T : \A j \in T : k <= j
      BY <2>2, SmallestOfSet, Zenon
    <2>4. k \in 1 .. n /\ rx[k].part = 1
      BY <2>1, Zenon
    <2>5. FirstHeader(k)
      <3>1. ASSUME NEW j \in 1 .. k - 1 PROVE Buf[j].part # 1
        <4>1. j \in 1 .. n /\ ~(k <= j)
          BY <2>4
        <4> QED
          BY <1>4, <2>1, <2>3, <4>1, Zenon
      <3> QED
        BY <1>3, <1>4, <2>4, <3>1, Zenon DEF FirstHeader
    <2>6. ASSUME NEW i \in 1 .. n, FirstHeader(i) PROVE i = k
      <3>1. Buf[i].part = 1 /\ Buf[k].part = 1
        BY <2>5, <2>6, Zenon DEF FirstHeader
      <3>2. ~(i \in 1 .. k - 1) /\ ~(k \in 1 .. i - 1)
        BY <2>5, <2>6, <3>1, Zenon DEF FirstHeader
      <3> QED
        BY <2>4, <2>6, <3>2
    <2>7. PICK u \in Unit : u = rx[k] /\ u = Buf[k]
      BY <1>4, <2>4, Zenon
    <2>8. K \subseteq {k}
      BY <1>2, <1>3, <2>6, Zenon
    <2>9. k \in K <=> Whole(k) /\ u.fit = "yes"
      BY <1>2, <1>3, <2>4, <2>5, <2>7, Zenon
    <2>10. k \in 1 .. Need
      BY <1>3, <2>4
    <2>11. Passes(res_buf(flaw)) <=> k \in K
      <3>1. CASE Whole(k)
        BY <1>1, <2>5, <2>7, <2>9, <2>10, <3>1, WholeIsRead, Zenon
      <3>2. CASE ~Whole(k)
        BY <1>1, <2>5, <2>9, <2>10, <3>2, CutIsRefused, Zenon
      <3> QED
        BY <3>1, <3>2, Zenon
    <2>12. ASSUME k \in K PROVE Copies(res_buf(flaw), Content(u))
      <3>1. PICK r \in Regs : r = u.reg /\ Units[r] \in Nat /\ r # Junk
        <4>1. u.reg \in Regs /\ Units[u.reg] \in Nat /\ u.reg # Junk
          BY BmsAssumption DEF Unit
        <4> QED
          BY <4>1, Zenon
      <3>2. PICK f : f = FlawOf(u, flaw) /\ f \in Flaws \cup {"none"}
        BY WireTyped, Zenon
      <3>3. PICK b \in Bats : b = u.bat
        BY DEF Unit
      <3>4. PICK p : p = parsed(res_buf(flaw)).payload
        OBVIOUS
      <3>5. p = Reading[b, r]
        <4>1. parsed(res_buf(flaw)) = Answered(b, r, f)
          BY <1>1, <2>5, <2>7, <2>9, <2>10, <2>12, <3>1, <3>2, <3>3, WholeIsRead, Zenon
        <4> QED
          BY <3>2, <3>4, <4>1, AnswerBytes, Zenon
      <3>6. Len(p) = RegSize(r)
        BY <3>5, UnitsHoldMessages, Zenon
      <3>7. PICK a \in Regs : a = List(what)[idx] /\ n = Units[a]
        BY <1>3, AskedKnown, Zenon DEF Need, OrderInv, Ordered, PollInv
      <3>8. CASE Units[r] < n
        <4>1. Content(u) = [bat |-> u.bat, reg |-> Junk]
          BY <1>3, <3>1, <3>8, Zenon DEF Content
        <4>2. Content(u).reg = Junk
          BY <4>1
        <4>3. RegSize(r) < RegSize(a)
          BY <1>3, <3>1, <3>7, <3>8 DEF RegSize, UnitBytes, MinSize
        <4> QED
          BY <3>4, <3>6, <3>7, <4>2, <4>3, Zenon DEF Copies
      <3>9. CASE ~(Units[r] < n)
        <4>1. Content(u) = [bat |-> u.bat, reg |-> u.reg]
          BY <1>3, <3>1, <3>9, Zenon DEF Content
        <4>2. Content(u).reg = r /\ Content(u).bat = b
          BY <3>1, <3>3, <4>1
        <4>3. RegSize(a) <= RegSize(r)
          BY <1>3, <3>1, <3>7, <3>9 DEF RegSize, UnitBytes, MinSize
        <4> QED
          BY <3>1, <3>4, <3>5, <3>6, <3>7, <4>2, <4>3, Zenon DEF Copies
      <3> QED
        BY <3>8, <3>9, Zenon
    <2> QED
      BY <2>7, <2>8, <2>11, <2>12, Zenon
  <1> QED
    BY <1>6, <1>7, Zenon

(* The request can be read back by whoever parses it.                      *)
LEMMA RequestIsRead == TypeOK => RequestReads
  <1> SUFFICES ASSUME TypeOK, pc = "send"
               PROVE  LET r == List(what)[idx]
                          m == regread_msg_new(ADDR_BMS, RegNo[r], RegSize(r))
                      IN  /\ parse_err(serialize(m)) = "ESK8_OK"
                          /\ parsed(serialize(m)) = m
    BY Zenon DEF RequestReads
  <1>1. PICK r \in Regs : r = List(what)[idx]
    BY AskedKnown, Zenon
  <1>2. PICK g \in Byte, y \in Byte : g = RegNo[r] /\ y = RegSize(r)
    <2>1. RegNo[r] \in Byte
      BY UnitsHoldMessages, Zenon
    <2>2. RegSize(r) \in 1 .. 246
      BY UnitsHoldMessages, Zenon
    <2>3. RegSize(r) \in Byte
      BY <2>2 DEF Byte
    <2> QED
      BY <2>1, <2>3, Zenon
  <1>3. PICK e : e = [pld_length  |-> 1, src_address |-> ADDR_APP,
                      dst_address |-> ADDR_BMS, cmd_command |-> 1,
                      cmd_argment |-> g, payload |-> <<y>>, chk_sum |-> <<0, 0>>]
    OBVIOUS
  <1>4. e \in Message
    <2>1. ADDR_APP \in Byte /\ ADDR_BMS \in Byte /\ 1 \in Byte /\ 0 \in Byte
      BY DEF ADDR_APP, ADDR_BMS, Byte
    <2>2. PICK z \in Byte \X Byte : z = <<0, 0>>
      BY <2>1
    <2>3. PICK a \in Byte, b \in Byte, o \in Byte : a = ADDR_APP /\ b = ADDR_BMS /\ o = 1
      BY <2>1, Zenon
    <2>4. PICK t \in Seq(Byte) : t = <<y>> /\ Len(t) = 1
      <3>1. <<y>> \in Seq(Byte) /\ Len(<<y>>) = 1
        OBVIOUS
      <3> QED
        BY <3>1, Zenon
    <2>5. e = [pld_length  |-> o, src_address |-> a, dst_address |-> b, cmd_command |-> o,
               cmd_argment |-> g, payload |-> t, chk_sum |-> z]
      BY <1>3, <2>2, <2>3, <2>4, Zenon
    <2>6. Len(t) = o
      BY <2>3, <2>4
    <2> QED
      BY <2>5, <2>6 DEF Message
  <1>5. PICK m : m = regread_msg_new(ADDR_BMS, RegNo[r], RegSize(r)) /\ m = set_chk(e)
    BY <1>2, <1>3, Zenon DEF regread_msg_new
  <1>6. m \in Message /\ m.chk_sum = msg_chk_calc(m) /\ m.pld_length = e.pld_length
    BY <1>4, <1>5, SetChkIsRight, Zenon
  <1>7. m.pld_length = 1
    BY <1>3, <1>6
  <1>8. PICK s : s = serialize(m)
    OBVIOUS
  <1>9. s \in Seq(Byte) /\ Len(s) = m.pld_length + MinSize
    BY <1>6, <1>8, SerializedBytes, Zenon
  <1>10. Len(s) - 0 <= 255 /\ 0 \in Nat
    BY <1>7, <1>9 DEF MinSize
  <1>11. Holds(s, 0, m)
    <2>1. 0 + m.pld_length + MinSize <= Len(s)
      BY <1>7, <1>9 DEF MinSize
    <2>2. ASSUME NEW i \in 1 .. m.pld_length + MinSize PROVE s[0 + i] = serialize(m)[i]
      <3>1. 0 + i = i
        BY <1>7 DEF MinSize
      <3> QED
        BY <1>8, <3>1, Zenon
    <2> QED
      BY <2>1, <2>2, Zenon DEF Holds
  <1>12. \A j \in 0 .. 0 - 1 : ~HeaderAt(s, j)
    OBVIOUS
  <1>13. parse_err(s) = "ESK8_OK" /\ parsed(s) = m
    BY <1>6, <1>9, <1>10, <1>11, <1>12, ParseFindsMessage, Zenon
  <1> QED
    BY <1>1, <1>5, <1>8, <1>13, Zenon

(* The abstraction of BmsPoll is right byte by byte: for any registers,    *)
(* numbers and readings without a packet header, whatever is in the buffer *)
(* that get_data_with_response hands to esk8_uart_msg_parse, and whatever  *)
(* made answers unfit, the bytes pass its tests exactly when the units     *)
(* are accepted, and what is copied from them is what is stored; and the   *)
(* requests of esk8_uart_regread_msg_new can be read back.                 *)
THEOREM ParserAgreesHolds == Spec => []ParserAgrees
  <1>1. OrderInv => ParserAgrees
    BY AnswerIsParsed, RequestIsRead, Zenon DEF ParserAgrees, OrderInv, Ordered, PollInv
  <1> QED
    BY <1>1, OrderInvariance, PTL
=============================================================================
