------------------------------ MODULE Ps2Link ------------------------------
(***************************************************************************)
(* The link of the remote to its PS/2 pointing device: the clock interrupt *)
(* esk8_ps2_isr with the frame it collects or sends, the commands, and the *)
(* task esk8_remote_task_ps2, which starts the movement stream, puts three *)
(* bytes together and starts over at the first error.                      *)
(*                                                                         *)
(* A frame is Edges clock edges of the device: a start bit, data bits, a   *)
(* parity and a stop bit.  What they say is reduced to which byte they     *)
(* belong to: a frame collected from the bits of one byte, from its first  *)
(* to its last, is that byte; any other is refused by a test of the        *)
(* interrupt handler or passes for some byte, Junk.                        *)
(***************************************************************************)
EXTENDS Integers, Sequences

CONSTANTS
    Edges,  \* the edges of a frame: 11, fewer data bits for model checking
    Nums,   \* bound: commands and packets are told apart modulo this
    QLen    \* rx_queue_len, of both queues

ASSUME Ps2Assumption ==
    /\ Nums \in Nat \ {0} /\ QLen \in Nat
    /\ Edges \in Nat /\ Edges >= 4

VARIABLES
    pc,      \* "send", "await", "clean", "flush" or "mvmt"
    cmd,     \* the command of mvmt_sync: "DISABLE" or "ENABLE"
    res,     \* its result: "ok" or "err"
    sq,      \* sqnc_frame: the bytes put together so far
    st,      \* ps2_state
    fr,      \* inflight: its idx, and the byte all of its bits are of, or Junk
    rx, mv,  \* rx_queue and mv_queue
    req,     \* "yes" while the data line asks the device for its clock
    dev,     \* the device: idle, or taking or giving a byte, with the edges of it
    on,      \* "yes" when the device streams movements
    next,    \* the movement byte the device gives next
    late,    \* "yes" when the device may refuse a command, or answer it after
             \* rx_timeout_ms, or never (never changes)
    ser,     \* history: number of the last command
    took,    \* history: the byte taken for its answer, to the cleanup
    fresh,   \* history: "yes" when rx_queue was empty when it was sent
    spoilt   \* history: "yes" when the stream lost bits or bytes

task_vars == <<pc, cmd, res, sq>>
isr_vars  == <<st, fr, rx, mv>>
dev_vars  == <<req, dev, on, next, late>>
hist_vars == <<ser, took, fresh, spoilt>>
vars      == <<task_vars, isr_vars, dev_vars, hist_vars>>

YesNo == {"yes", "no"}
Byte(kind, num, pos) == [kind |-> kind, num |-> num, pos |-> pos]
Junk  == Byte("junk", 0, 0)
Err   == Byte("err", 0, 0)      \* a frame whose err is set
Bytes == {Junk, Err} \cup [kind : {"ack", "nak"}, num : 0 .. Nums - 1, pos : {0}]
                     \cup [kind : {"mvmt"}, num : 0 .. Nums - 1, pos : 1 .. 3]

After(b) == IF b.pos = 3 THEN Byte("mvmt", (b.num + 1) % Nums, 1)
            ELSE [b EXCEPT !.pos = @ + 1]
Blank == [idx |-> 0, src |-> Junk]                     \* esk8_ps2_reset_frame
Idle  == [mode |-> "idle", n |-> 0, what |-> Junk, good |-> "no"]

TypeOK ==
    /\ pc \in {"send", "await", "clean", "flush", "mvmt"}
    /\ cmd \in {"DISABLE", "ENABLE"} /\ res \in {"ok", "err"}
    /\ sq \in Seq(Bytes) /\ Len(sq) <= 3
    /\ st \in {"NONE", "SEND", "RECV", "MVMT"}
    /\ fr \in [idx : 0 .. Edges, src : Bytes] /\ (fr.idx = Edges => st = "SEND")
    /\ rx \in Seq(Bytes) /\ Len(rx) <= QLen
    /\ mv \in Seq(Bytes) /\ Len(mv) <= QLen
    /\ req \in YesNo /\ on \in YesNo
    /\ dev \in [mode : {"idle", "take", "give"}, n : 0 .. Edges, what : Bytes, good : YesNo]
    /\ dev.mode = "take" => st = "SEND"
    /\ next \in Bytes /\ late \in YesNo /\ ser \in 0 .. Nums - 1 /\ took \in Bytes
    /\ fresh \in YesNo /\ spoilt \in YesNo

(* The device may be streaming already when the remote starts.             *)
Init ==
    /\ pc = "send" /\ cmd = "DISABLE" /\ res = "err" /\ sq = <<>>
    /\ st = "NONE" /\ fr = Blank /\ rx = <<>> /\ mv = <<>>
    /\ req = "no" /\ dev = Idle /\ on \in YesNo /\ next = Byte("mvmt", 0, 1)
    /\ late \in YesNo
    /\ ser = 0 /\ took = Junk /\ fresh = "yes" /\ spoilt = "yes"

-----------------------------------------------------------------------------
(* esk8_ps2_isr, at a rising edge of the clock.                            *)

(* xQueueSendFromISR: a full queue drops the frame.  Once the stream has   *)
(* lost something, its bytes are not told apart.                           *)
Push(q, b) == IF Len(q) < QLen THEN Append(q, b) ELSE q

(* The edge is the k-th of byte b.  Bits out of place fail the test of the *)
(* start, the parity or the stop bit, or do not.                           *)
Sampled(b, k) == IF fr.idx = k /\ (k = 0 \/ fr.src = b) THEN b ELSE Junk

(* (A slip: the frame is not reset.)                                       *)
FrameEndsKept(b) ==
    /\ fr' = [fr EXCEPT !.idx = @ + 1]
    /\ rx' = IF st = "RECV" THEN Push(rx, b) ELSE rx
    /\ st' = IF st = "RECV" THEN "MVMT" ELSE st
    /\ UNCHANGED <<mv, spoilt>>
FrameEnds(b) ==
    /\ fr' = Blank
    /\ rx' = IF st = "RECV" THEN Push(rx, b) ELSE rx
    /\ mv' = IF st # "MVMT" THEN mv
             ELSE Push(mv, IF spoilt = "yes" /\ b # Err THEN Junk ELSE b)
    /\ st' = IF st = "RECV" THEN "MVMT" ELSE st
    /\ spoilt' = IF st = "MVMT" /\ Len(mv) = QLen THEN "yes" ELSE spoilt

RecvEdge(b, k) ==
    /\ st \in {"RECV", "MVMT"}
    /\ LET s == Sampled(b, k) IN
       \/ s = Junk /\ fr.idx \in {0, Edges - 2, Edges - 1} /\ FrameEnds(Err)
       \/ IF fr.idx + 1 = Edges THEN FrameEnds(s)
          ELSE /\ fr' = [idx |-> fr.idx + 1, src |-> s]
               /\ UNCHANGED <<st, rx, mv, spoilt>>

(* Sending: the last edge, the first being that of the released clock, is  *)
(* the device's acknowledge.                                               *)
SendEdge ==
    /\ st = "SEND"
    /\ IF fr.idx = Edges THEN st' = "RECV" /\ fr' = Blank
       ELSE fr' = [fr EXCEPT !.idx = @ + 1] /\ UNCHANGED st
    /\ UNCHANGED <<rx, mv, spoilt>>

NoneEdge ==
    /\ st = "NONE"
    /\ fr' = IF fr.idx + 1 = Edges THEN Blank ELSE [fr EXCEPT !.idx = @ + 1]
    /\ UNCHANGED <<st, rx, mv, spoilt>>

Isr(b, k) == RecvEdge(b, k) \/ SendEdge \/ NoneEdge

-----------------------------------------------------------------------------
(* The device.                                                             *)

DevStart ==
    /\ dev.mode = "idle"
    /\ \/ req = "yes" /\ dev' = [Idle EXCEPT !.mode = "take", !.n = 1, !.good = "yes"]
       \/ req = "no" /\ on = "yes"
          /\ dev' = [Idle EXCEPT !.mode = "give", !.what = next]
    /\ UNCHANGED <<task_vars, isr_vars, req, on, next, late, hist_vars>>

(* It clocks a command in, of which bits out of place or noise may make    *)
(* something else, to be sent again (RESEND) or refused (ERROR).  It       *)
(* answers at once; a device that does not answer is one that does so      *)
(* later.  All the while ps2_state is SEND: the handler has yet to count   *)
(* the edges.                                                              *)
DevTake ==
    /\ dev.mode = "take"
    /\ SendEdge
    /\ LET good == IF dev.good = "yes" /\ fr.idx = dev.n
                   THEN "yes" ELSE "no"
       IN IF dev.n < Edges
          THEN /\ dev' = [dev EXCEPT !.n = @ + 1, !.good = good]
               /\ UNCHANGED <<req, on>>
          ELSE /\ req' = "no"
               /\ \/ /\ good = "yes"
                     /\ on' = IF cmd = "ENABLE" THEN "yes" ELSE "no"
                     /\ dev' = [Idle EXCEPT !.mode = "give", !.what = Byte("ack", ser, 0)]
                  \/ /\ good = "no" \/ late = "yes"
                     /\ UNCHANGED on
                     /\ dev' = [Idle EXCEPT !.mode = "give", !.what = Byte("nak", ser, 0)]
    /\ UNCHANGED <<task_vars, next, late, ser, took, fresh>>

DevGive ==
    /\ dev.mode = "give"
    /\ Isr(dev.what, dev.n)
    /\ IF dev.n < Edges - 1
       THEN dev' = [dev EXCEPT !.n = @ + 1] /\ UNCHANGED next
       ELSE dev' = Idle /\ next' = IF dev.what.kind = "mvmt" THEN After(next) ELSE next
    /\ UNCHANGED <<task_vars, req, on, late, ser, took, fresh>>

-----------------------------------------------------------------------------
(* esk8_ps2_send_byte: the clock is held, which ends what the device was   *)
(* doing, and released, which is the first edge.                           *)
SendByte ==
    /\ pc = "send" /\ pc' = "await"
    /\ st' = "SEND" /\ fr' = [Blank EXCEPT !.idx = 1]
    /\ req' = "yes" /\ dev' = Idle
    /\ next' = IF next.pos = 1 /\ dev.what # next THEN next
               ELSE Byte("mvmt", (next.num + 1) % Nums, 1)
    /\ ser' = (ser + 1) % Nums
    /\ fresh' = IF rx = <<>> THEN "yes" ELSE "no"
    /\ UNCHANGED <<cmd, res, sq, rx, mv, on, late, took, spoilt>>

(* esk8_ps2_await_rsp and the tests of the answer: any byte but an         *)
(* acknowledge is an error, and a byte of a movement or of bits out of     *)
(* place may have the value of one.  (A slip: RESEND and ERROR are not     *)
(* tested for.)                                                            *)
RspOkLax(b) == b # Err
RspOk(b) == b # Err /\ b.kind # "nak"
AwaitRsp ==
    /\ pc = "await" /\ pc' = "clean"
    /\ rx # <<>>
    /\ rx' = Tail(rx)
    /\ took' = Head(rx)
    /\ \/ res' = "ok" /\ RspOk(Head(rx))
       \/ res' = "err" /\ Head(rx).kind # "ack"
    /\ UNCHANGED <<cmd, sq, st, fr, mv, dev_vars, ser, fresh, spoilt>>

RspTimeout ==
    /\ pc = "await" /\ pc' = "clean"
    /\ rx = <<>> /\ late = "yes"
    /\ res' = "err"
    /\ UNCHANGED <<cmd, sq, isr_vars, dev_vars, hist_vars>>

(* The cleanup of esk8_ps2_send_cmd forgets the bits of whatever byte the  *)
(* device has begun.  An error starts mvmt_sync over.                      *)
Cleanup ==
    /\ pc = "clean"
    /\ fr' = Blank
    /\ pc' = IF res = "err" THEN "send" ELSE IF cmd = "DISABLE" THEN "flush" ELSE "mvmt"
    /\ cmd' = IF res = "err" THEN "DISABLE" ELSE cmd
    /\ spoilt' = IF fr # Blank THEN "yes" ELSE spoilt
    /\ took' = Junk
    /\ UNCHANGED <<res, sq, st, rx, mv, dev_vars, ser, fresh>>

(* esk8_ps2_mvmt_sync between its commands.  (Slips: the queue is not      *)
(* emptied; the first command is sent again.)                              *)
ResetSqnc == sq' = <<>>
ResetQueueNot == UNCHANGED mv
ResetQueue == mv' = <<>>

SecondCmdNot == UNCHANGED cmd
SecondCmd == cmd' = "ENABLE"

Flush ==
    /\ pc = "flush" /\ pc' = "send" /\ SecondCmd
    /\ ResetQueue /\ ResetSqnc
    /\ spoilt' = IF fresh = "yes" THEN "no" ELSE "yes"
    /\ UNCHANGED <<res, st, fr, rx, dev_vars, ser, took, fresh>>

-----------------------------------------------------------------------------
(* esk8_ps2_await_mvmt, and esk8_remote_task_ps2's return to mvmt_sync.    *)
Resync == pc' = "send" /\ cmd' = "DISABLE"

MvmtByte ==
    /\ pc = "mvmt" /\ Len(sq) < 3 /\ mv # <<>>
    /\ mv' = Tail(mv)
    /\ IF Head(mv) = Err THEN Resync /\ UNCHANGED sq
       ELSE sq' = Append(sq, Head(mv)) /\ UNCHANGED <<pc, cmd>>
    /\ UNCHANGED <<res, st, fr, rx, dev_vars, hist_vars>>

MvmtTimeout ==
    /\ pc = "mvmt" /\ Len(sq) < 3 /\ mv = <<>>
    /\ Resync
    /\ UNCHANGED <<res, sq, isr_vars, dev_vars, hist_vars>>

(* The first byte of a packet has its bit 3 set; any other may have.       *)
MvmtDone ==
    /\ pc = "mvmt" /\ Len(sq) = 3
    /\ \/ sq' = <<>> /\ UNCHANGED <<pc, cmd>>
       \/ sq[1].pos # 1 /\ Resync /\ UNCHANGED sq
    /\ UNCHANGED <<res, isr_vars, dev_vars, hist_vars>>

Sync == SendByte \/ AwaitRsp \/ RspTimeout \/ Cleanup \/ Flush
Task == Sync \/ MvmtByte \/ MvmtTimeout \/ MvmtDone
Dev  == DevStart \/ DevTake \/ DevGive

Next == Task \/ Dev

(* The task runs, and a device that has begun goes on.                     *)
Spec == Init /\ [][Next]_vars /\ WF_vars(Task) /\ WF_vars(Dev)

-----------------------------------------------------------------------------
(* While the stream is read and has lost nothing since esk8_ps2_mvmt_sync, *)
(* the bytes put together and those that wait follow one another, from the *)
(* first byte of a packet on: every movement is made of one packet.        *)
StreamWhole ==
    pc = "mvmt" /\ spoilt = "no" =>
       LET s == sq \o mv IN
       /\ s # <<>> => s[1].kind = "mvmt" /\ s[1].pos = 1
       /\ \A k \in 1 .. Len(s) - 1 : s[k + 1] = After(s[k])

(* esk8_ps2_send_cmd returns ESK8_OK for a command only when the device    *)
(* acknowledged that command, if no older answer was waiting.              *)
OkIsAnswered ==
    pc = "clean" /\ res = "ok" /\ fresh = "yes" => took = Byte("ack", ser, 0)

(* With a device that answers in time, the stream is always started again. *)
StreamRuns == late = "no" => []<>(pc = "mvmt")

-----------------------------------------------------------------------------
(* The inductive invariant behind them.  The device takes a byte only on   *)
(* request, and the handler is never ahead of it, so that it counts all of *)
(* its edges before it receives.                                           *)
Requested ==
    /\ next.kind = "mvmt"
    /\ dev.mode = "idle" => dev = Idle /\ (req = "yes" => st = "SEND" /\ fr.idx <= 1)
    /\ dev.mode = "take" => req = "yes" /\ dev.n >= 1 /\ fr.idx <= dev.n
    /\ dev.mode = "give" => req = "no" /\ dev.n < Edges
    /\ dev.mode = "give" /\ dev.what.kind = "mvmt" => dev.what = next

(* The frame in flight has the edges the device made, of the byte it gives. *)
InStep == fr.idx = dev.n /\ (dev.n > 0 => fr.src = dev.what)

(* Where a command can stand that was sent with an empty rx_queue: asked   *)
(* for, or being taken, without a bit lost; being answered; or answered.   *)
Answers == {Byte("ack", ser, 0), Byte("nak", ser, 0)}
Obeyed  == on = IF cmd = "ENABLE" THEN "yes" ELSE "no"

Asked ==
    /\ st = "SEND" /\ rx = <<>>
    /\ dev.mode = "idle" => req = "yes" /\ fr.idx = 1
    /\ dev.mode = "take" => dev.good = "yes" /\ fr.idx = dev.n
    /\ dev.mode # "give"
Answering ==
    /\ st = "RECV" /\ rx = <<>>
    /\ dev.mode = "give" /\ dev.what \in Answers /\ InStep
    /\ dev.what.kind = "ack" => Obeyed
Answered == st = "MVMT" /\ (rx = <<>> \/ \E b \in Answers : rx = <<b>>)

(* The device is still, and will not stream before it is told to.          *)
Still == st = "MVMT" /\ fr.idx = 0 /\ dev = Idle /\ req = "no" /\ on = "no"
Quiet == Still /\ rx = <<>>

Command ==
    /\ pc = "await" /\ fresh = "yes" =>
          /\ Asked \/ Answering \/ Answered
          /\ cmd = "DISABLE" /\ rx = <<Byte("ack", ser, 0)>> => Still
    /\ pc = "clean" /\ res = "ok" /\ fresh = "yes" =>
          /\ took = Byte("ack", ser, 0) /\ rx = <<>> /\ st = "MVMT"
          /\ cmd = "DISABLE" => Quiet
    /\ pc = "flush" => cmd = "DISABLE" /\ (fresh = "yes" => Quiet)
    /\ pc = "mvmt" => cmd = "ENABLE"

(* The bytes of s follow one another, from the first of a packet on, and b *)
(* follows them.                                                           *)
Follow(s, b) ==
    /\ s = <<>> => b.pos = 1
    /\ s # <<>> => /\ s[1].kind = "mvmt" /\ s[1].pos = 1
                   /\ b = After(s[Len(s)])
    /\ \A k \in 1 .. Len(s) - 1 : s[k + 1] = After(s[k])

(* Between the first command of mvmt_sync and an error: what was put       *)
(* together and what waits are followed by the byte the device gives next. *)
Stream ==
    cmd = "ENABLE" /\ spoilt = "no" =>
       /\ pc = "send" => Quiet /\ mv = <<>>
       /\ pc \in {"send", "await"} => sq = <<>>
       /\ pc = "await" => fresh = "yes" /\ (st # "MVMT" => mv = <<>>)
       /\ pc \in {"await", "clean", "mvmt"} /\ (pc = "clean" => res = "ok") =>
             /\ Follow(sq \o mv, next)
             /\ pc # "await" => st = "MVMT"
             /\ st = "MVMT" => InStep /\ (dev.mode = "give" => dev.what = next)

Ps2Inv == TypeOK /\ Requested /\ Command /\ Stream
=============================================================================
