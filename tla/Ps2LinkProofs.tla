--------------------------- MODULE Ps2LinkProofs ---------------------------
(* Proofs about the link of the remote to its pointing device, for frames  *)
(* and queues of any length.                                               *)
EXTENDS Ps2Link, TLAPS

-----------------------------------------------------------------------------
(* The bytes.                                                              *)

LEMMA ByteKinds ==
    /\ Junk \in Bytes /\ Err \in Bytes
    /\ Junk.kind = "junk" /\ Err.kind = "err"
    /\ \A n \in 0 .. Nums - 1 :
          /\ Byte("ack", n, 0) \in Bytes /\ Byte("nak", n, 0) \in Bytes
          /\ Byte("mvmt", n, 1) \in Bytes
    /\ \A n : /\ Byte("ack", n, 0).kind = "ack" /\ Byte("nak", n, 0).kind = "nak"
              /\ Byte("mvmt", n, 1).kind = "mvmt" /\ Byte("mvmt", n, 1).pos = 1
  BY Ps2Assumption DEF Bytes, Byte, Junk, Err

LEMMA NextNum == \A n \in 0 .. Nums - 1 : (n + 1) % Nums \in 0 .. Nums - 1
  BY Ps2Assumption

LEMMA MvmtByteIs ==
  ASSUME NEW b \in Bytes, b.kind = "mvmt"
  PROVE  /\ b.num \in 0 .. Nums - 1 /\ b.pos \in 1 .. 3
         /\ b # Junk /\ b # Err
         /\ b = Byte("mvmt", b.num, b.pos)
  BY DEF Bytes, Byte, Junk, Err

LEMMA AfterIs ==
  ASSUME NEW b \in Bytes, b.kind = "mvmt"
  PROVE  /\ After(b) \in Bytes /\ After(b).kind = "mvmt"
         /\ b.pos = 3 => After(b).pos = 1
<1>1. /\ b.num \in 0 .. Nums - 1 /\ b.pos \in 1 .. 3
      /\ b = Byte("mvmt", b.num, b.pos)
  BY MvmtByteIs
<1>2. CASE b.pos = 3
  BY <1>1, <1>2, NextNum, ByteKinds DEF After
<1>3. CASE b.pos # 3
  <2>1. After(b) = Byte("mvmt", b.num, b.pos + 1)
    BY <1>1, <1>3 DEF After, Byte
  <2>2. b.pos + 1 \in 1 .. 3
    BY <1>1, <1>3
  <2>. QED  BY <1>1, <1>3, <2>1, <2>2 DEF Bytes, Byte
<1>. QED  BY <1>2, <1>3

LEMMA PushIs ==
  ASSUME NEW q \in Seq(Bytes), NEW b \in Bytes, Len(q) <= QLen
  PROVE  /\ Push(q, b) \in Seq(Bytes) /\ Len(Push(q, b)) <= QLen
  BY Ps2Assumption DEF Push

-----------------------------------------------------------------------------
(* Types, and the device against the handler.                              *)

Base == TypeOK /\ Requested

LEMMA BaseInit == Init => Base
<1>1. 0 \in 0 .. Nums - 1
  BY Ps2Assumption
<1>2. /\ <<>> \in Seq(Bytes) /\ Len(<<>>) = 0
  OBVIOUS
<1>. QED  BY <1>1, <1>2, ByteKinds, Ps2Assumption
          DEF Init, Base, TypeOK, Requested, Blank, Idle, YesNo

LEMMA SampledIs ==
  ASSUME Base, NEW b \in Bytes, NEW k
  PROVE  Sampled(b, k) \in Bytes
  BY ByteKinds DEF Sampled

(* What an edge leaves behind, for any byte it may be of.                  *)
IsrTypes ==
    /\ st \in {"NONE", "SEND", "RECV", "MVMT"}
    /\ fr \in [idx : 0 .. Edges, src : Bytes] /\ (fr.idx = Edges => st = "SEND")
    /\ rx \in Seq(Bytes) /\ Len(rx) <= QLen
    /\ mv \in Seq(Bytes) /\ Len(mv) <= QLen
    /\ spoilt \in YesNo

LEMMA EndTypes ==
  ASSUME IsrTypes, NEW b \in Bytes, FrameEnds(b)
  PROVE  IsrTypes'
<1>1. /\ Push(rx, b) \in Seq(Bytes) /\ Len(Push(rx, b)) <= QLen
  BY PushIs DEF IsrTypes
<1>2. /\ \A c \in Bytes : Push(mv, c) \in Seq(Bytes) /\ Len(Push(mv, c)) <= QLen
  BY PushIs DEF IsrTypes
<1>3. Blank \in [idx : 0 .. Edges, src : Bytes] /\ Blank.idx = 0
  BY ByteKinds, Ps2Assumption DEF Blank
<1>4. (fr \in [idx : 0 .. Edges, src : Bytes] /\ (fr.idx = Edges => st = "SEND"))'
  BY <1>3, Ps2Assumption DEF FrameEnds
<1>5. (rx \in Seq(Bytes) /\ Len(rx) <= QLen)'
  BY <1>1 DEF FrameEnds, IsrTypes
<1>6. (mv \in Seq(Bytes) /\ Len(mv) <= QLen)'
  <2>1. CASE st # "MVMT"
    BY <2>1 DEF FrameEnds, IsrTypes
  <2>2. CASE st = "MVMT"
    BY <2>2, <1>2, ByteKinds DEF FrameEnds, IsrTypes
  <2>. QED  BY <2>1, <2>2
<1>7. (st \in {"NONE", "SEND", "RECV", "MVMT"} /\ spoilt \in YesNo)'
  BY DEF FrameEnds, IsrTypes, YesNo
<1>. QED  BY <1>4, <1>5, <1>6, <1>7 DEF IsrTypes

LEMMA EdgeTypes ==
  ASSUME IsrTypes, NEW b \in Bytes, NEW k, Isr(b, k)
  PROVE  IsrTypes' /\ (st # "SEND" => st' # "SEND")
<1>1. CASE RecvEdge(b, k)
  <2>. DEFINE s == Sampled(b, k)
  <2>1. s \in Bytes
    BY ByteKinds DEF Sampled
  <2>2. CASE FrameEnds(Err) \/ FrameEnds(s)
    BY <2>1, <2>2, <1>1, EndTypes, ByteKinds DEF RecvEdge, FrameEnds
  <2>3. CASE /\ fr.idx + 1 # Edges /\ fr' = [idx |-> fr.idx + 1, src |-> s]
             /\ UNCHANGED <<st, rx, mv, spoilt>>
    BY <2>1, <2>3, <1>1, Ps2Assumption DEF RecvEdge, IsrTypes
  <2>. QED  BY <1>1, <2>2, <2>3 DEF RecvEdge
<1>2. CASE SendEdge
  BY <1>2, ByteKinds, Ps2Assumption DEF SendEdge, IsrTypes, Blank
<1>3. CASE NoneEdge
  BY <1>3, ByteKinds, Ps2Assumption DEF NoneEdge, IsrTypes, Blank
<1>. QED  BY <1>1, <1>2, <1>3 DEF Isr

(* The rest of the types.                                                  *)
TaskTypes ==
    /\ pc \in {"send", "await", "clean", "flush", "mvmt"}
    /\ cmd \in {"DISABLE", "ENABLE"} /\ res \in {"ok", "err"}
    /\ sq \in Seq(Bytes) /\ Len(sq) <= 3
    /\ late \in YesNo /\ ser \in 0 .. Nums - 1 /\ took \in Bytes
    /\ fresh \in YesNo

DevTypes ==
    /\ req \in YesNo /\ on \in YesNo
    /\ dev \in [mode : {"idle", "take", "give"}, n : 0 .. Edges, what : Bytes, good : YesNo]
    /\ dev.mode = "take" => st = "SEND"
    /\ next \in Bytes
    /\ Requested

LEMMA BaseIs == Base <=> TaskTypes /\ IsrTypes /\ DevTypes
  BY DEF Base, TypeOK, TaskTypes, IsrTypes, DevTypes

LEMMA TaskBase == Base /\ Task => Base'
<1> SUFFICES ASSUME Base, Task PROVE Base'
  OBVIOUS
<1>0. TaskTypes /\ IsrTypes /\ DevTypes
  BY BaseIs
<1>1. CASE SendByte
  <2>1. TaskTypes'
    BY <1>0, <1>1, NextNum DEF SendByte, TaskTypes, YesNo
  <2>2. IsrTypes'
    BY <1>0, <1>1, ByteKinds, Ps2Assumption DEF SendByte, IsrTypes, Blank
  <2>3. next' \in Bytes /\ next'.kind = "mvmt"
    <3>1. next.num \in 0 .. Nums - 1
      BY <1>0, MvmtByteIs DEF DevTypes, Requested
    <3>2. \/ next' = next
          \/ next' = Byte("mvmt", (next.num + 1) % Nums, 1)
      BY <1>1 DEF SendByte
    <3>. QED  BY <1>0, <3>1, <3>2, NextNum, ByteKinds DEF DevTypes, Requested
  <2>5. DevTypes'
    BY <1>0, <1>1, <2>3, ByteKinds, Ps2Assumption
       DEF SendByte, DevTypes, Requested, Idle, Blank, YesNo
  <2>. QED  BY <2>1, <2>2, <2>5 DEF Base, TypeOK, TaskTypes, IsrTypes, DevTypes
<1>2. CASE AwaitRsp
  <2>1. Tail(rx) \in Seq(Bytes) /\ Len(Tail(rx)) <= QLen /\ Head(rx) \in Bytes
    BY <1>0, <1>2, Ps2Assumption DEF AwaitRsp, IsrTypes
  <2>. QED  BY <1>0, <1>2, <2>1
            DEF AwaitRsp, Base, TypeOK, TaskTypes, IsrTypes, DevTypes, Requested, dev_vars
<1>3. CASE RspTimeout
  BY <1>0, <1>3 DEF RspTimeout, Base, TypeOK, TaskTypes, IsrTypes, DevTypes, Requested,
                    isr_vars, dev_vars, hist_vars
<1>4. CASE Cleanup
  <2>1. TaskTypes'
    BY <1>0, <1>4, ByteKinds DEF Cleanup, TaskTypes, YesNo, dev_vars
  <2>2. IsrTypes'
    BY <1>0, <1>4, ByteKinds, Ps2Assumption DEF Cleanup, IsrTypes, Blank, YesNo
  <2>3. DevTypes'
    BY <1>0, <1>4, Ps2Assumption DEF Cleanup, DevTypes, Requested, Blank, dev_vars
  <2>. QED  BY <2>1, <2>2, <2>3 DEF Base, TypeOK, TaskTypes, IsrTypes, DevTypes
<1>5. CASE Flush
  <2>1. <<>> \in Seq(Bytes) /\ Len(<<>>) = 0 /\ QLen >= 0
    BY Ps2Assumption
  <2>. QED  BY <1>0, <1>5, <2>1
            DEF Flush, SecondCmd, ResetQueue, ResetSqnc, Base, TypeOK, TaskTypes,
                IsrTypes, DevTypes, Requested, dev_vars, YesNo
<1>6. CASE MvmtByte
  <2>1. Tail(mv) \in Seq(Bytes) /\ Len(Tail(mv)) <= QLen /\ Head(mv) \in Bytes
    BY <1>0, <1>6, Ps2Assumption DEF MvmtByte, IsrTypes
  <2>2. Append(sq, Head(mv)) \in Seq(Bytes) /\ Len(Append(sq, Head(mv))) <= 3
    BY <1>0, <1>6, <2>1 DEF MvmtByte, TaskTypes
  <2>. QED  BY <1>0, <1>6, <2>1, <2>2
            DEF MvmtByte, Resync, Base, TypeOK, TaskTypes, IsrTypes, DevTypes,
                Requested, dev_vars, hist_vars
<1>7. CASE MvmtTimeout
  BY <1>0, <1>7 DEF MvmtTimeout, Resync, Base, TypeOK, TaskTypes, IsrTypes, DevTypes,
                    Requested, isr_vars, dev_vars, hist_vars
<1>8. CASE MvmtDone
  <2>1. TaskTypes'
    <3>1. <<>> \in Seq(Bytes) /\ Len(<<>>) = 0
      OBVIOUS
    <3>2. UNCHANGED <<res, late, ser, took, fresh>> /\ sq' \in {sq, <<>>}
      BY <1>8 DEF MvmtDone, dev_vars, hist_vars
    <3>3. pc' \in {pc, "send"} /\ cmd' \in {cmd, "DISABLE"}
      BY <1>8 DEF MvmtDone, Resync
    <3>4. sq' \in Seq(Bytes) /\ Len(sq') <= 3
      <4>1. CASE sq' = sq
        BY <1>0, <4>1 DEF TaskTypes
      <4>2. CASE sq' = <<>>
        BY <3>1, <4>2
      <4>. QED  BY <3>2, <4>1, <4>2
    <3>5. pc' \in {"send", "await", "clean", "flush", "mvmt"} /\ cmd' \in {"DISABLE", "ENABLE"}
      BY <1>0, <3>3 DEF TaskTypes
    <3>. QED  BY <1>0, <3>2, <3>4, <3>5 DEF TaskTypes
  <2>2. IsrTypes' /\ DevTypes'
    BY <1>0, <1>8 DEF MvmtDone, IsrTypes, DevTypes, Requested, isr_vars, dev_vars, hist_vars
  <2>. QED  BY <2>1, <2>2 DEF Base, TypeOK, TaskTypes, IsrTypes, DevTypes
<1>. QED  BY <1>1, <1>2, <1>3, <1>4, <1>5, <1>6, <1>7, <1>8 DEF Task, Sync

LEMMA DevBase == Base /\ Dev => Base'
<1> SUFFICES ASSUME Base, Dev PROVE Base'
  OBVIOUS
<1>0. TaskTypes /\ IsrTypes /\ DevTypes
  BY BaseIs
<1>a. dev.what \in Bytes /\ dev.n \in 0 .. Edges /\ next \in Bytes
  BY <1>0 DEF DevTypes
<1>1. CASE DevStart
  <2>1. TaskTypes' /\ IsrTypes'
    BY <1>0, <1>1 DEF DevStart, TaskTypes, IsrTypes, task_vars, isr_vars, hist_vars
  <2>2. /\ UNCHANGED <<req, on, next, st, fr>> /\ dev = Idle
        /\ req = "yes" => st = "SEND" /\ fr.idx <= 1
    BY <1>0, <1>1 DEF DevStart, DevTypes, Requested, isr_vars
  <2>3. CASE req = "yes"
    <3>1. dev' = [mode |-> "take", n |-> 1, what |-> Junk, good |-> "yes"]
      BY <1>1, <2>3 DEF DevStart, Idle
    <3>2. DevTypes'
      BY <1>0, <2>2, <2>3, <3>1, ByteKinds, Ps2Assumption DEF DevTypes, Requested, YesNo
    <3>. QED  BY <2>1, <3>2 DEF Base, TypeOK, TaskTypes, IsrTypes, DevTypes
  <2>4. CASE req # "yes"
    <3>1. /\ dev' = [mode |-> "give", n |-> 0, what |-> next, good |-> "no"]
          /\ req = "no"
      BY <1>1, <2>4 DEF DevStart, Idle
    <3>2. DevTypes'
      BY <1>0, <2>2, <3>1, ByteKinds, Ps2Assumption DEF DevTypes, Requested, YesNo
    <3>. QED  BY <2>1, <3>2 DEF Base, TypeOK, TaskTypes, IsrTypes, DevTypes
  <2>. QED  BY <2>3, <2>4
<1>2. CASE DevTake
  <2>1. TaskTypes'
    BY <1>0, <1>2 DEF DevTake, TaskTypes, task_vars
  <2>2. IsrTypes' /\ (fr'.idx = IF fr.idx = Edges THEN 0 ELSE fr.idx + 1)
                 /\ (fr.idx # Edges => st' = "SEND")
    <3>1. SendEdge
      BY <1>2 DEF DevTake
    <3>2. Isr(dev.what, dev.n)
      BY <3>1 DEF Isr
    <3>. QED  BY <1>0, <1>a, <3>1, <3>2, EdgeTypes DEF SendEdge, IsrTypes, Blank
  <2>3. CASE dev.n < Edges
    <3>1. /\ dev' \in [mode : {"take"}, n : 1 .. Edges, what : Bytes, good : YesNo]
          /\ dev'.n = dev.n + 1
      <4>1. PICK g \in YesNo : dev' = [dev EXCEPT !.n = @ + 1, !.good = g]
        BY <1>2, <2>3 DEF DevTake, YesNo
      <4>2. /\ dev \in [mode : {"take"}, n : 0 .. Edges, what : Bytes, good : YesNo]
            /\ dev.n + 1 \in 1 .. Edges
        BY <1>0, <1>a, <1>2, <2>3, Ps2Assumption DEF DevTake, DevTypes
      <4>. QED  BY <4>1, <4>2
    <3>2. fr.idx <= dev.n
      BY <1>0, <1>2 DEF DevTake, DevTypes, Requested
    <3>3. fr.idx \in 0 .. Edges /\ fr'.idx = fr.idx + 1 /\ st' = "SEND"
      BY <1>0, <2>2, <2>3, <3>2, <1>a, Ps2Assumption DEF IsrTypes
    <3>4. UNCHANGED <<req, on, next>> /\ req = "yes"
      BY <1>0, <1>2, <2>3 DEF DevTake, DevTypes, Requested
    <3>5. DevTypes'
      <4>1. (fr.idx <= dev.n)'
        BY <3>1, <3>2, <3>3, <1>a
      <4>. QED  BY <1>0, <3>1, <3>3, <3>4, <4>1 DEF DevTypes, Requested
    <3>. QED  BY <2>1, <2>2, <3>5 DEF Base, TypeOK, TaskTypes, IsrTypes, DevTypes
  <2>4. CASE ~(dev.n < Edges)
    <3>1. \E b \in {Byte("ack", ser, 0), Byte("nak", ser, 0)} :
             dev' = [Idle EXCEPT !.mode = "give", !.what = b]
      BY <1>2, <2>4 DEF DevTake
    <3>2. PICK b \in Bytes : /\ b.kind # "mvmt"
                             /\ dev' = [Idle EXCEPT !.mode = "give", !.what = b]
      BY <1>0, <3>1, ByteKinds DEF TaskTypes
    <3>3. /\ dev'.mode = "give" /\ dev'.n = 0 /\ dev'.what = b
          /\ dev' \in [mode : {"give"}, n : 0 .. Edges, what : Bytes, good : YesNo]
      <4>1. dev' = [mode |-> "give", n |-> 0, what |-> b, good |-> "no"]
        BY <3>2 DEF Idle
      <4>. QED  BY <4>1, Ps2Assumption DEF YesNo
    <3>4. req' = "no" /\ on' \in YesNo /\ UNCHANGED next
      BY <1>0, <1>2, <2>4 DEF DevTake, DevTypes, YesNo
    <3>5. DevTypes'
      BY <1>0, <3>2, <3>3, <3>4, Ps2Assumption DEF DevTypes, Requested, YesNo
    <3>. QED  BY <2>1, <2>2, <3>5 DEF Base, TypeOK, TaskTypes, IsrTypes, DevTypes
  <2>. QED  BY <2>3, <2>4
<1>3. CASE DevGive
  <2>1. TaskTypes'
    BY <1>0, <1>3 DEF DevGive, TaskTypes, task_vars
  <2>2. IsrTypes'
    BY <1>0, <1>a, <1>3, EdgeTypes DEF DevGive
  <2>3. DevTypes'
    <3>1. CASE dev.n < Edges - 1
      <4>1. /\ dev' \in [mode : {"give"}, n : 0 .. Edges, what : Bytes, good : YesNo]
            /\ dev'.n = dev.n + 1 /\ dev'.what = dev.what
        BY <1>0, <1>a, <1>3, <3>1, Ps2Assumption DEF DevGive, DevTypes
      <4>. QED  BY <1>0, <1>a, <1>3, <3>1, <4>1, Ps2Assumption
                DEF DevGive, DevTypes, Requested
    <3>2. CASE ~(dev.n < Edges - 1)
      <4>1. After(next) \in Bytes /\ After(next).kind = "mvmt"
        BY <1>0, AfterIs DEF DevTypes, Requested
      <4>2. next' \in Bytes /\ next'.kind = "mvmt" /\ dev' = Idle
        BY <1>0, <1>3, <3>2, <4>1 DEF DevGive, DevTypes, Requested
      <4>3. req' = "no" /\ on' \in YesNo
        BY <1>0, <1>3 DEF DevGive, DevTypes, Requested
      <4>. QED  BY <4>2, <4>3, ByteKinds, Ps2Assumption
                DEF DevTypes, Requested, Idle, YesNo
    <3>. QED  BY <3>1, <3>2
  <2>. QED  BY <2>1, <2>2, <2>3 DEF Base, TypeOK, TaskTypes, IsrTypes, DevTypes
<1>. QED  BY <1>1, <1>2, <1>3 DEF Dev

LEMMA BaseNext == Base /\ [Next]_vars => Base'
<1>1. Base /\ UNCHANGED vars => Base'
  BY DEF Base, TypeOK, Requested, vars, task_vars, isr_vars, dev_vars, hist_vars
<1>. QED  BY <1>1, TaskBase, DevBase DEF Next

-----------------------------------------------------------------------------
(* Sequences of bytes that follow one another.                             *)

LEMMA ConcatIs ==
  ASSUME NEW S, NEW s \in Seq(S), NEW t \in Seq(S)
  PROVE  /\ s \o t \in Seq(S)
         /\ Len(t) \in Nat /\ Len(s) \in Nat /\ Len(s \o t) = Len(s) + Len(t)
         /\ \A k \in 1 .. Len(t) : (s \o t)[Len(s) + k] = t[k]
<1>1. /\ s \o t \in Seq(S)
      /\ Len(t) \in Nat /\ Len(s) \in Nat /\ Len(s \o t) = Len(s) + Len(t)
  OBVIOUS
<1>2. ASSUME NEW k \in 1 .. Len(t) PROVE (s \o t)[Len(s) + k] = t[k]
  BY <1>1
<1>. QED  BY <1>1, <1>2

LEMMA Shift ==
  ASSUME NEW S, NEW s \in Seq(S), NEW t \in Seq(S), t # <<>>
  PROVE  Append(s, Head(t)) \o Tail(t) = s \o t
<1>. DEFINE u == Append(s, Head(t)) \o Tail(t)
            v == s \o t
<1>1. /\ Head(t) \in S /\ Tail(t) \in Seq(S) /\ Len(Tail(t)) = Len(t) - 1
      /\ Len(t) \in Nat /\ Len(t) > 0 /\ Len(s) \in Nat
  OBVIOUS
<1>2. Append(s, Head(t)) \in Seq(S) /\ Len(Append(s, Head(t))) = Len(s) + 1
  BY <1>1
<1>3. /\ u \in Seq(S) /\ v \in Seq(S)
      /\ Len(u) = Len(s) + Len(t) /\ Len(v) = Len(s) + Len(t)
  BY <1>1, <1>2
<1>4. ASSUME NEW k \in 1 .. Len(s) + Len(t) PROVE u[k] = v[k]
  <2>1. CASE k <= Len(s)
    BY <1>1, <1>2, <2>1
  <2>2. CASE k = Len(s) + 1
    BY <1>1, <1>2, <2>2
  <2>3. CASE k > Len(s) + 1
    <3>1. PICK j : j = k - (Len(s) + 1)
      OBVIOUS
    <3>2. j \in 1 .. Len(Tail(t)) /\ k = Len(Append(s, Head(t))) + j /\ k = Len(s) + (j + 1)
      BY <1>1, <1>2, <2>3, <3>1
    <3>3. u[k] = Tail(t)[j]
      BY <1>1, <1>2, <3>2
    <3>4. Tail(t)[j] = t[j + 1]
      BY <1>1, <3>2
    <3>5. v[k] = t[j + 1]
      BY <1>1, <3>2
    <3>. QED  BY <3>3, <3>4, <3>5
  <2>. QED  BY <1>1, <2>1, <2>2, <2>3
<1>. HIDE DEF u, v
<1>5. u = v
  BY <1>3, <1>4
<1>. QED  BY <1>5 DEF u, v

LEMMA ConcatAppend ==
  ASSUME NEW S, NEW s \in Seq(S), NEW t \in Seq(S), NEW b \in S
  PROVE  s \o Append(t, b) = Append(s \o t, b)
<1>. DEFINE u == s \o Append(t, b)
            v == Append(s \o t, b)
<1>1. /\ Len(t) \in Nat /\ Len(s) \in Nat
      /\ s \o t \in Seq(S) /\ Len(s \o t) = Len(s) + Len(t)
      /\ Append(t, b) \in Seq(S) /\ Len(Append(t, b)) = Len(t) + 1
  OBVIOUS
<1>2. /\ u \in Seq(S) /\ v \in Seq(S)
      /\ Len(u) = Len(s) + Len(t) + 1 /\ Len(v) = Len(s) + Len(t) + 1
  BY <1>1
<1>3. ASSUME NEW k \in 1 .. Len(s) + Len(t) + 1 PROVE u[k] = v[k]
  <2>1. CASE k <= Len(s)
    BY <1>1, <2>1
  <2>2. CASE k > Len(s)
    BY <1>1, <2>2
  <2>. QED  BY <1>1, <2>1, <2>2
<1>. HIDE DEF u, v
<1>4. u = v
  BY <1>2, <1>3
<1>. QED  BY <1>4 DEF u, v

(* One byte more.                                                          *)
LEMMA FollowAppend ==
  ASSUME NEW s \in Seq(Bytes), NEW b \in Bytes, b.kind = "mvmt", Follow(s, b)
  PROVE  Follow(Append(s, b), After(b))
<1>1. /\ Len(s) \in Nat /\ Append(s, b) # <<>> /\ Len(Append(s, b)) = Len(s) + 1
      /\ Append(s, b)[Len(s) + 1] = b
      /\ \A k \in 1 .. Len(s) : Append(s, b)[k] = s[k]
  OBVIOUS
<1>2. CASE s = <<>>
  BY <1>1, <1>2 DEF Follow
<1>3. CASE s # <<>>
  <2>1. Len(s) >= 1
    BY <1>3
  <2>2. ASSUME NEW k \in 1 .. Len(s) PROVE Append(s, b)[k + 1] = After(Append(s, b)[k])
    BY <1>1, <1>3, <2>1 DEF Follow
  <2>. QED  BY <1>1, <1>3, <2>1, <2>2 DEF Follow
<1>. QED  BY <1>2, <1>3

(* A packet less.                                                          *)
LEMMA FollowDrop ==
  ASSUME NEW u \in Seq(Bytes), NEW t \in Seq(Bytes), NEW b,
         Len(u) = 3 + Len(t), \A k \in 1 .. Len(t) : u[3 + k] = t[k],
         Follow(u, b)
  PROVE  Follow(t, b)
<1>2. /\ Len(t) \in Nat /\ Len(u) = 3 + Len(t) /\ u # <<>>
      /\ \A k \in 1 .. Len(t) : u[k + 3] = t[k]
  <2>1. Len(t) \in Nat
    OBVIOUS
  <2>. QED  BY <2>1
<1>3. /\ u[1].kind = "mvmt" /\ u[1].pos = 1
      /\ b = After(u[Len(u)])
      /\ \A k \in 1 .. Len(u) - 1 : u[k + 1] = After(u[k])
  BY <1>2 DEF Follow
<1>4. u[2] = After(u[1]) /\ u[3] = After(u[2])
  BY <1>2, <1>3
<1>5. /\ u[2].kind = "mvmt" /\ u[3].kind = "mvmt"
      /\ u[2].pos = 2 /\ u[3].pos = 3
      /\ u[3] \in Bytes
  <2>1. u[1] \in Bytes /\ u[2] \in Bytes /\ u[3] \in Bytes
    BY <1>2
  <2>2. u[1] = Byte("mvmt", u[1].num, 1)
    BY <2>1, <1>3, MvmtByteIs
  <2>3. u[2] = Byte("mvmt", u[1].num, 2)
    BY <2>2, <1>3, <1>4 DEF After, Byte
  <2>4. u[3] = Byte("mvmt", u[1].num, 3)
    <3>1. u[2].pos = 2 /\ u[3] = [u[2] EXCEPT !.pos = 2 + 1]
      BY <2>3, <1>4 DEF After, Byte
    <3>. QED  BY <2>3, <3>1 DEF Byte
  <2>. QED  BY <2>1, <2>3, <2>4 DEF Byte
<1>6. After(u[3]).kind = "mvmt" /\ After(u[3]).pos = 1
  BY <1>5, AfterIs
<1>8. CASE t = <<>>
  BY <1>2, <1>3, <1>6, <1>8 DEF Follow
<1>9. CASE t # <<>>
  <2>1. Len(t) >= 1
    BY <1>9
  <2>2. t[1] = u[4] /\ u[4] = After(u[3]) /\ t[Len(t)] = u[Len(u)]
    BY <2>1, <1>2, <1>3
  <2>3. ASSUME NEW k \in 1 .. Len(t) - 1 PROVE t[k + 1] = After(t[k])
    <3>1. k \in 1 .. Len(t) /\ k + 1 \in 1 .. Len(t) /\ k + 3 \in 1 .. Len(u) - 1
      BY <1>2
    <3>2. t[k] = u[k + 3] /\ t[k + 1] = u[(k + 1) + 3] /\ (k + 1) + 3 = (k + 3) + 1
      BY <1>2, <3>1
    <3>. QED  BY <1>3, <3>1, <3>2
  <2>. QED  BY <1>3, <1>6, <1>9, <2>2, <2>3 DEF Follow
<1>. QED  BY <1>8, <1>9

-----------------------------------------------------------------------------
(* A command sent with an empty rx_queue.                                  *)

(* No bit is lost while the handler is in step.                            *)
LEMMA InStepEdge ==
  ASSUME Base, InStep, dev.mode = "give", dev.what # Junk,
         st \in {"RECV", "MVMT"}, Isr(dev.what, dev.n)
  PROVE  IF dev.n + 1 = Edges THEN FrameEnds(dev.what)
         ELSE /\ fr' = [idx |-> dev.n + 1, src |-> dev.what]
              /\ UNCHANGED <<st, rx, mv, spoilt>>
<1>1. RecvEdge(dev.what, dev.n)
  BY DEF Isr, SendEdge, NoneEdge
<1>2. Sampled(dev.what, dev.n) = dev.what
  <2>1. dev.n \in Nat
    BY DEF Base, TypeOK
  <2>. QED  BY <2>1 DEF Sampled, InStep
<1>3. fr.idx = dev.n
  BY DEF InStep
<1>. QED  BY <1>1, <1>2, <1>3 DEF RecvEdge

(* A handler that reads movements stays with it and leaves rx_queue alone. *)
LEMMA MvmtEdge ==
  ASSUME NEW b, NEW k, st = "MVMT", Isr(b, k)
  PROVE  st' = "MVMT" /\ rx' = rx
  BY DEF Isr, RecvEdge, SendEdge, NoneEdge, FrameEnds

(* A device that is still takes no step.                                   *)
LEMMA StillStays == Still => ~Dev
<1>1. Idle.mode = "idle"
  BY DEF Idle
<1>. QED  BY <1>1 DEF Still, Dev, DevStart, DevTake, DevGive

(* No byte is lost while a command sent with an empty queue is awaited.    *)
Standing == Asked \/ Answering \/ Answered

LEMMA AnswersAre ==
  ASSUME Base
  PROVE  /\ \A b \in Answers : b \in Bytes /\ b.kind \in {"ack", "nak"} /\ b # Junk /\ b # Err
         /\ Byte("ack", ser, 0) \in Answers
         /\ \A b \in Answers : b.kind = "ack" <=> b = Byte("ack", ser, 0)
<1>1. ser \in 0 .. Nums - 1
  BY DEF Base, TypeOK
<1>2. \A b \in Answers : b \in Bytes /\ b.kind \in {"ack", "nak"}
  BY <1>1, ByteKinds DEF Answers
<1>. QED  BY <1>2, ByteKinds DEF Answers

LEMMA DevStanding ==
  ASSUME Base, Standing, Dev, UNCHANGED <<ser, cmd>>
  PROVE  Standing' /\ (Answered' => Answered \/ Answering)
<1>0. Answers' = Answers
  BY DEF Answers
<1>a. /\ dev.mode = "idle" => dev = Idle /\ (req = "yes" => st = "SEND" /\ fr.idx <= 1)
      /\ dev.mode = "take" => st = "SEND" /\ dev.n \in 1 .. Edges
      /\ dev.mode = "give" => dev.n \in 0 .. Edges - 1
      /\ dev.mode \in {"idle", "take", "give"}
  BY Ps2Assumption DEF Base, TypeOK, Requested
<1>1. CASE DevStart
  <2>1. UNCHANGED <<st, fr, rx, req>> /\ dev.mode = "idle"
    BY <1>1 DEF DevStart, isr_vars
  <2>2. CASE Asked
    <3>1. req = "yes" /\ dev' = [mode |-> "take", n |-> 1, what |-> Junk, good |-> "yes"]
      BY <1>1, <2>1, <2>2 DEF DevStart, Asked, Idle, Base, TypeOK
    <3>. QED  BY <2>1, <2>2, <3>1 DEF Standing, Asked, Answered
  <2>3. CASE Answered
    BY <1>0, <2>1, <2>3 DEF Standing, Answered
  <2>. QED  BY <2>1, <2>2, <2>3 DEF Standing, Answering
<1>2. CASE DevTake
  <2>1. dev.mode = "take" /\ st = "SEND" /\ Asked
    BY <1>a, <1>2 DEF DevTake, Standing, Answering, Answered
  <2>2. rx' = <<>> /\ SendEdge /\ dev.good = "yes" /\ fr.idx = dev.n
    BY <1>2, <2>1 DEF DevTake, SendEdge, Asked
  <2>3. CASE dev.n < Edges
    <3>1. fr' = [fr EXCEPT !.idx = @ + 1] /\ st' = st
      BY <1>a, <2>1, <2>2, <2>3, Ps2Assumption DEF SendEdge
    <3>2. dev' = [dev EXCEPT !.n = @ + 1, !.good = "yes"]
      BY <1>2, <2>2, <2>3 DEF DevTake
    <3>3. fr'.idx = dev'.n /\ dev'.mode = "take" /\ dev'.good = "yes"
      BY <2>1, <2>2, <3>1, <3>2 DEF Base, TypeOK
    <3>. QED  BY <2>1, <2>2, <3>1, <3>3 DEF Standing, Asked, Answered
  <2>4. CASE ~(dev.n < Edges)
    <3>1. dev.n = Edges /\ st' = "RECV" /\ fr' = Blank
      BY <1>a, <2>1, <2>2, <2>4, Ps2Assumption DEF SendEdge
    <3>2. PICK b \in Answers : /\ dev' = [Idle EXCEPT !.mode = "give", !.what = b]
                               /\ b.kind = "ack" => Obeyed'
      <4>1. \/ /\ on' = IF cmd = "ENABLE" THEN "yes" ELSE "no"
               /\ dev' = [Idle EXCEPT !.mode = "give", !.what = Byte("ack", ser, 0)]
            \/ dev' = [Idle EXCEPT !.mode = "give", !.what = Byte("nak", ser, 0)]
        BY <1>2, <2>4 DEF DevTake
      <4>2. Byte("nak", ser, 0).kind # "ack"
        BY DEF Byte
      <4>. QED  BY <4>1, <4>2 DEF Answers, Obeyed
    <3>3. dev'.mode = "give" /\ dev'.n = 0 /\ dev'.what = b
      BY <3>2 DEF Idle
    <3>4. Answering'
      BY <1>0, <2>2, <3>1, <3>2, <3>3 DEF Answering, InStep, Blank
    <3>. QED  BY <3>1, <3>4 DEF Standing, Answered
  <2>. QED  BY <2>3, <2>4
<1>3. CASE DevGive
  <2>1. dev.mode = "give" /\ dev.what \in Bytes /\ dev.n \in 0 .. Edges - 1
    BY <1>a, <1>3 DEF DevGive, Base, TypeOK
  <2>2. CASE Answered
    BY <1>0, <1>3, <2>1, <2>2, MvmtEdge DEF DevGive, Answered, Standing
  <2>3. CASE Answering
    <3>1. /\ dev.what \in Answers /\ dev.what # Junk /\ st = "RECV" /\ rx = <<>> /\ InStep
          /\ Isr(dev.what, dev.n)
      BY <1>3, <2>3, AnswersAre DEF DevGive, Answering
    <3>2. CASE dev.n + 1 = Edges
      <4>1. FrameEnds(dev.what)
        BY <2>1, <3>1, <3>2, InStepEdge
      <4>2. st' = "MVMT" /\ rx' = Push(rx, dev.what)
        BY <3>1, <4>1 DEF FrameEnds
      <4>3. rx' = <<>> \/ rx' = <<dev.what>>
        BY <3>1, <4>2 DEF Push
      <4>. QED  BY <1>0, <2>3, <3>1, <4>2, <4>3 DEF Standing, Answered
    <3>3. CASE dev.n + 1 # Edges
      <4>1. fr' = [idx |-> dev.n + 1, src |-> dev.what] /\ UNCHANGED <<st, rx>>
        BY <2>1, <3>1, <3>3, InStepEdge
      <4>2. dev' = [dev EXCEPT !.n = @ + 1] /\ on' = on
        BY <1>3, <2>1, <3>3, Ps2Assumption DEF DevGive
      <4>3. dev'.mode = "give" /\ dev'.n = dev.n + 1 /\ dev'.what = dev.what
        BY <2>1, <4>2 DEF Base, TypeOK
      <4>. QED  BY <1>0, <2>3, <4>1, <4>2, <4>3
                DEF Standing, Answering, Answered, InStep, Obeyed
    <3>. QED  BY <3>2, <3>3
  <2>. QED  BY <2>1, <2>2, <2>3 DEF Standing, Asked
<1>. QED  BY <1>1, <1>2, <1>3 DEF Dev

(* A device told not to stream is still once its acknowledge is queued.    *)
LEMMA DevObeyed ==
  ASSUME Base, Standing, Dev, UNCHANGED <<ser, cmd>>, cmd = "DISABLE",
         rx = <<Byte("ack", ser, 0)>> => Still,
         rx' = <<Byte("ack", ser, 0)>>
  PROVE  Still'
<1>1. rx # <<Byte("ack", ser, 0)>>
  BY StillStays
<1>2. rx = <<>>
  <2>1. CASE Answered
    <3>1. st = "MVMT"
      BY <2>1 DEF Answered
    <3>2. rx' = rx
      BY <3>1, MvmtEdge DEF Dev, DevStart, DevTake, DevGive, SendEdge, isr_vars
    <3>. QED  BY <1>1, <3>2
  <2>. QED  BY <2>1 DEF Standing, Asked, Answering
<1>3. DevGive
  BY <1>1, <1>2 DEF Dev, DevStart, DevTake, SendEdge, isr_vars
<1>4. Answering
  <2>1. CASE Answered
    BY <1>1, <1>2, <1>3, <2>1, MvmtEdge DEF Answered, DevGive
  <2>. QED  BY <1>3, <2>1 DEF DevGive, Standing, Asked
<1>5. /\ dev.what \in Answers /\ dev.what # Junk /\ st = "RECV" /\ InStep
      /\ Isr(dev.what, dev.n) /\ dev.mode = "give" /\ dev.n \in Nat
  BY <1>3, <1>4, AnswersAre DEF DevGive, Answering, Base, TypeOK
<1>6. dev.n + 1 = Edges /\ FrameEnds(dev.what)
  BY <1>1, <1>2, <1>5, InStepEdge
<1>7. st' = "MVMT" /\ fr' = Blank /\ rx' = Push(rx, dev.what)
  BY <1>5, <1>6 DEF FrameEnds
<1>8. dev.what = Byte("ack", ser, 0)
  BY <1>1, <1>2, <1>7 DEF Push
<1>9. on = "no"
  BY <1>4, <1>8, AnswersAre DEF Answering, Obeyed
<1>10. dev' = Idle /\ UNCHANGED <<req, on>>
  BY <1>3, <1>5, <1>6, Ps2Assumption DEF DevGive
<1>11. req = "no"
  BY <1>5 DEF Base, Requested
<1>. QED  BY <1>7, <1>9, <1>10, <1>11 DEF Still, Blank

(* A handler that reads movements does so until the next command.          *)
LEMMA MvmtDev ==
  ASSUME Base, st = "MVMT", Dev
  PROVE  st' = "MVMT" /\ rx' = rx
<1>1. ~DevTake
  BY DEF DevTake, SendEdge
<1>. QED  BY <1>1, MvmtEdge DEF Dev, DevStart, DevGive, isr_vars

LEMMA DevCommand ==
  ASSUME Base, Command, Dev
  PROVE  Command'
<1>1. UNCHANGED <<pc, cmd, res, ser, took, fresh, sq>>
  BY DEF Dev, DevStart, DevTake, DevGive, task_vars, hist_vars
<1>2. ASSUME pc = "await", fresh = "yes"
      PROVE  (/\ Asked \/ Answering \/ Answered
              /\ cmd = "DISABLE" /\ rx = <<Byte("ack", ser, 0)>> => Still)'
  <2>1. /\ Standing
        /\ cmd = "DISABLE" /\ rx = <<Byte("ack", ser, 0)>> => Still
    BY <1>2 DEF Command, Standing
  <2>2. Standing'
    BY <1>1, <2>1, DevStanding
  <2>3. ASSUME cmd = "DISABLE", rx' = <<Byte("ack", ser, 0)>> PROVE Still'
    BY <1>1, <2>1, <2>3, DevObeyed
  <2>. QED  BY <1>1, <2>2, <2>3 DEF Standing
<1>3. ASSUME pc = "clean", res = "ok", fresh = "yes"
      PROVE  (/\ took = Byte("ack", ser, 0) /\ rx = <<>> /\ st = "MVMT"
              /\ cmd = "DISABLE" => Quiet)'
  BY <1>1, <1>3, MvmtDev, StillStays DEF Command, Quiet
<1>4. pc = "flush" => cmd = "DISABLE" /\ fresh # "yes"
  BY StillStays DEF Command, Quiet
<1>. QED  BY <1>1, <1>2, <1>3, <1>4 DEF Command

LEMMA TaskCommand ==
  ASSUME Base, Command, Stream, Task
  PROVE  Command'
<1>0. /\ rx \in Seq(Bytes)
      /\ pc \in {"send", "await", "clean", "flush", "mvmt"} /\ cmd \in {"DISABLE", "ENABLE"}
  BY DEF Base, TypeOK
<1>1. CASE SendByte
  <2>1. pc' = "await" /\ (fresh' = "yes" => rx = <<>>) /\ rx' = rx
    BY <1>1 DEF SendByte
  <2>2. ASSUME rx = <<>> PROVE Asked'
    BY <1>1, <2>2 DEF SendByte, Asked, Idle, Blank
  <2>. QED  BY <2>1, <2>2 DEF Command
<1>2. CASE AwaitRsp
  <2>1. /\ pc = "await" /\ pc' = "clean" /\ rx # <<>> /\ rx' = Tail(rx) /\ took' = Head(rx)
        /\ res' = "ok" => RspOk(Head(rx))
        /\ UNCHANGED <<cmd, ser, fresh, st, fr, dev, req, on>>
    BY <1>2 DEF AwaitRsp, dev_vars
  <2>2. ASSUME fresh = "yes", res' = "ok"
        PROVE  /\ took' = Byte("ack", ser, 0) /\ rx' = <<>> /\ st' = "MVMT"
               /\ cmd = "DISABLE" => Still
    <3>1. PICK b \in Answers : rx = <<b>> /\ st = "MVMT"
      BY <2>1, <2>2 DEF Command, Asked, Answering, Answered
    <3>2. Head(rx) = b /\ Tail(rx) = <<>>
      BY <3>1
    <3>3. b = Byte("ack", ser, 0)
      BY <2>1, <2>2, <3>2, AnswersAre DEF RspOk
    <3>. QED  BY <2>1, <2>2, <3>1, <3>2, <3>3 DEF Command
  <2>. QED  BY <2>1, <2>2 DEF Command, Quiet, Still
<1>3. CASE RspTimeout
  BY <1>3 DEF RspTimeout, Command
<1>4. CASE Cleanup
  <2>1. /\ pc = "clean" /\ fr'.idx = 0 /\ UNCHANGED <<rx, st, dev, req, on, fresh>>
        /\ \/ res = "err" /\ pc' = "send"
           \/ res # "err" /\ cmd = "DISABLE" /\ pc' = "flush" /\ cmd' = cmd
           \/ res # "err" /\ cmd # "DISABLE" /\ pc' = "mvmt" /\ cmd' = cmd
    BY <1>4 DEF Cleanup, dev_vars, Blank
  <2>2. res \in {"ok", "err"}
    BY DEF Base, TypeOK
  <2>3. CASE pc' = "flush" /\ res = "ok" /\ cmd = "DISABLE" /\ cmd' = cmd
    <3>1. fresh = "yes" => Quiet'
      BY <2>1, <2>3 DEF Command, Quiet, Still
    <3>. QED  BY <2>1, <2>3, <3>1 DEF Command
  <2>. QED  BY <1>0, <2>1, <2>2, <2>3 DEF Command
<1>5. CASE Flush
  BY <1>5 DEF Flush, Command
<1>6. CASE MvmtByte \/ MvmtTimeout \/ MvmtDone
  <2>1. pc = "mvmt" /\ (pc' = "send" \/ (pc' = "mvmt" /\ cmd' = cmd))
    BY <1>6 DEF MvmtByte, MvmtTimeout, MvmtDone, Resync
  <2>. QED  BY <2>1 DEF Command
<1>. QED  BY <1>1, <1>2, <1>3, <1>4, <1>5, <1>6 DEF Task, Sync

-----------------------------------------------------------------------------
(* The stream of movements.                                                *)

(* A step of the device while its movements are read and none is lost: the *)
(* bytes read and waiting are followed by the one it gives next, and the   *)
(* handler is in step with it.                                             *)
Running ==
    /\ st = "MVMT" /\ Follow(sq \o mv, next)
    /\ InStep /\ (dev.mode = "give" => dev.what = next)

LEMMA DevRunning ==
  ASSUME Base, Running, Dev, spoilt' = "no", sq' = sq
  PROVE  Running'
<1>0. /\ st' = "MVMT" /\ st = "MVMT" /\ ~DevTake
  BY MvmtDev DEF Running, DevTake, SendEdge
<1>a. /\ next \in Bytes /\ next.kind = "mvmt" /\ next # Junk /\ next # Err
      /\ mv \in Seq(Bytes) /\ sq \in Seq(Bytes) /\ sq \o mv \in Seq(Bytes)
      /\ req = "yes" /\ dev.mode = "idle" => st = "SEND"
      /\ dev.mode = "idle" => dev = Idle
      /\ dev.mode = "give" => dev.n \in 0 .. Edges - 1
      /\ Follow(sq \o mv, next)
  <2>1. next \in Bytes /\ next.kind = "mvmt" /\ mv \in Seq(Bytes) /\ sq \in Seq(Bytes)
    BY DEF Base, TypeOK, Requested
  <2>2. sq \o mv \in Seq(Bytes)
    BY <2>1, ConcatIs
  <2>. QED  BY <2>1, <2>2, MvmtByteIs, Ps2Assumption DEF Base, TypeOK, Requested, Running
<1>1. CASE DevStart
  <2>1. /\ UNCHANGED <<fr, mv, next>> /\ dev = Idle
        /\ dev' = [mode |-> "give", n |-> 0, what |-> next, good |-> "no"]
    BY <1>0, <1>a, <1>1 DEF DevStart, Idle, isr_vars
  <2>2. InStep'
    BY <2>1 DEF Running, InStep, Idle
  <2>. QED  BY <1>0, <1>a, <2>1, <2>2 DEF Running
<1>2. CASE DevGive
  <2>1. /\ dev.mode = "give" /\ dev.what = next /\ InStep
        /\ Isr(dev.what, dev.n) /\ dev.n \in 0 .. Edges - 1
    BY <1>a, <1>2 DEF DevGive, Running
  <2>2. CASE dev.n + 1 = Edges
    <3>1. FrameEnds(next)
      BY <1>0, <1>a, <2>1, <2>2, InStepEdge
    <3>2. fr' = Blank /\ mv' = Append(mv, next)
      BY <1>0, <1>a, <3>1, Ps2Assumption DEF FrameEnds, Push, Base, TypeOK, YesNo
    <3>3. dev' = Idle /\ next' = After(next)
      BY <1>2, <1>a, <2>1, <2>2, Ps2Assumption DEF DevGive
    <3>4. Follow(Append(sq \o mv, next), After(next))
      BY <1>a, FollowAppend
    <3>5. sq \o Append(mv, next) = Append(sq \o mv, next)
      BY <1>a, ConcatAppend
    <3>6. Follow(sq \o Append(mv, next), After(next))
      BY <3>4, <3>5
    <3>7. (Follow(sq \o mv, next))'
      BY <3>2, <3>3, <3>6
    <3>. QED  BY <1>0, <3>2, <3>3, <3>7 DEF Running, InStep, Idle, Blank
  <2>3. CASE dev.n + 1 # Edges
    <3>1. fr' = [idx |-> dev.n + 1, src |-> dev.what] /\ UNCHANGED mv
      BY <1>0, <1>a, <2>1, <2>3, InStepEdge
    <3>2. dev' = [dev EXCEPT !.n = @ + 1] /\ UNCHANGED next
      BY <1>2, <2>1, <2>3, Ps2Assumption DEF DevGive
    <3>3. dev'.n = dev.n + 1 /\ dev'.what = dev.what
      BY <3>2 DEF Base, TypeOK
    <3>. QED  BY <1>0, <1>a, <2>1, <3>1, <3>2, <3>3 DEF Running, InStep
  <2>. QED  BY <2>2, <2>3
<1>. QED  BY <1>0, <1>1, <1>2 DEF Dev

LEMMA StreamIs ==
  Stream <=>
    (cmd = "ENABLE" /\ spoilt = "no" =>
       /\ pc = "send" => Quiet /\ mv = <<>>
       /\ pc \in {"send", "await"} => sq = <<>>
       /\ pc = "await" =>
             /\ fresh = "yes"
             /\ st = "MVMT" => Running
             /\ st # "MVMT" => mv = <<>> /\ Follow(sq \o mv, next)
       /\ (pc = "clean" /\ res = "ok") \/ pc = "mvmt" => Running)
  BY DEF Stream, Running

LEMMA DevStream ==
  ASSUME Base, Command, Stream, Dev
  PROVE  Stream'
<1>1. UNCHANGED <<pc, cmd, res, ser, took, fresh, sq>>
  BY DEF Dev, DevStart, DevTake, DevGive, task_vars, hist_vars
<1>2. SUFFICES ASSUME cmd = "ENABLE", spoilt' = "no" PROVE Stream'
  BY <1>1 DEF Stream
<1>3. spoilt = "no"
  <2>1. spoilt \in YesNo
    BY DEF Base, TypeOK
  <2>. QED  BY <1>2, <2>1 DEF Dev, DevStart, DevTake, DevGive, Isr, RecvEdge, SendEdge,
                            NoneEdge, FrameEnds, hist_vars, YesNo
<1>4. pc # "send"
  BY <1>2, <1>3, StillStays DEF Stream, Quiet
<1>5. ASSUME Running PROVE Running'
  BY <1>1, <1>2, <1>5, DevRunning
<1>6. ASSUME pc = "await", st # "MVMT"
      PROVE  /\ st' = "MVMT" => Running'
             /\ st' # "MVMT" => (mv = <<>> /\ Follow(sq \o mv, next))'
  <2>1. mv = <<>> /\ sq = <<>> /\ fresh = "yes" /\ Follow(sq \o mv, next)
    BY <1>2, <1>3, <1>6, StreamIs
  <2>2. Asked \/ Answering
    BY <1>6, <2>1 DEF Command, Answered
  <2>3. mv' = mv
    BY <1>6 DEF Dev, DevStart, DevTake, DevGive, Isr, RecvEdge, SendEdge, NoneEdge,
                FrameEnds, isr_vars
  <2>4. next' = next
    <3>1. dev.mode = "give" => dev.what.kind # "mvmt"
      BY <2>2, AnswersAre DEF Asked, Answering
    <3>. QED  BY <3>1 DEF Dev, DevStart, DevTake, DevGive
  <2>5. (Follow(sq \o mv, next))'
    BY <1>1, <2>1, <2>3, <2>4
  <2>6. ASSUME st' = "MVMT" PROVE InStep' /\ dev'.mode # "give"
    <3>1. DevGive /\ Answering
      BY <1>6, <2>2, <2>6 DEF Dev, DevStart, DevTake, DevGive, SendEdge, isr_vars, Asked
    <3>2. /\ dev.what \in Answers /\ dev.what # Junk /\ st = "RECV" /\ InStep
          /\ Isr(dev.what, dev.n) /\ dev.mode = "give" /\ dev.n \in Nat
      BY <3>1, AnswersAre DEF DevGive, Answering, Base, TypeOK
    <3>3. dev.n + 1 = Edges /\ FrameEnds(dev.what)
      BY <1>6, <2>6, <3>2, InStepEdge
    <3>4. fr' = Blank /\ dev' = Idle
      BY <3>1, <3>2, <3>3, Ps2Assumption DEF FrameEnds, DevGive
    <3>. QED  BY <3>4 DEF InStep, Blank, Idle
  <2>. QED  BY <2>1, <2>3, <2>5, <2>6 DEF Running
<1>7. ASSUME pc = "await"
      PROVE  (/\ fresh = "yes"
              /\ st = "MVMT" => Running
              /\ st # "MVMT" => mv = <<>> /\ Follow(sq \o mv, next))'
  <2>1. fresh = "yes" /\ (st = "MVMT" => Running /\ st' = "MVMT")
    BY <1>2, <1>3, <1>7, StreamIs, MvmtDev
  <2>. QED  BY <1>1, <1>5, <1>6, <1>7, <2>1
<1>8. (pc = "clean" /\ res = "ok") \/ pc = "mvmt" => Running'
  BY <1>2, <1>3, <1>5, StreamIs
<1>9. pc = "await" => sq = <<>>
  BY <1>2, <1>3, StreamIs
<1>. QED
  <2>1. (/\ pc = "send" => Quiet /\ mv = <<>>
         /\ pc \in {"send", "await"} => sq = <<>>
         /\ pc = "await" =>
               /\ fresh = "yes"
               /\ st = "MVMT" => Running
               /\ st # "MVMT" => mv = <<>> /\ Follow(sq \o mv, next)
         /\ (pc = "clean" /\ res = "ok") \/ pc = "mvmt" => Running)'
    BY <1>1, <1>4, <1>7, <1>8, <1>9
  <2>. QED  BY <2>1 DEF Stream, Running

LEMMA TaskStream ==
  ASSUME Base, Command, Stream, Task
  PROVE  Stream'
<1>0. /\ next \in Bytes /\ next.kind = "mvmt" /\ mv \in Seq(Bytes) /\ sq \in Seq(Bytes)
      /\ pc \in {"send", "await", "clean", "flush", "mvmt"} /\ res \in {"ok", "err"}
  BY DEF Base, TypeOK, Requested
<1>1. CASE SendByte
  <2>1. SUFFICES ASSUME cmd = "ENABLE", spoilt = "no" PROVE Stream'
    BY <1>1 DEF SendByte, Stream
  <2>2. pc = "send" /\ Quiet /\ mv = <<>> /\ sq = <<>> /\ rx = <<>>
    BY <1>1, <2>1 DEF SendByte, Stream, Quiet
  <2>3. pc' = "await" /\ fresh' = "yes" /\ st' = "SEND" /\ mv' = <<>> /\ sq' = <<>>
    BY <1>1, <2>2 DEF SendByte
  <2>4. next'.pos = 1
    BY <1>1, ByteKinds DEF SendByte
  <2>5. (Follow(sq \o mv, next))'
    <3>1. sq' \o mv' = <<>>
      BY <2>3
    <3>. QED  BY <2>4, <3>1 DEF Follow
  <2>. QED  BY <2>3, <2>5 DEF Stream
<1>2. CASE AwaitRsp
  <2>1. /\ pc = "await" /\ pc' = "clean" /\ rx # <<>>
        /\ UNCHANGED <<cmd, spoilt, sq, mv, next, fr, dev, st, fresh>>
    BY <1>2 DEF AwaitRsp, dev_vars
  <2>2. cmd = "ENABLE" /\ spoilt = "no" => fresh = "yes" /\ Running
    <3>1. fresh = "yes" => st = "MVMT"
      BY <2>1 DEF Command, Asked, Answering, Answered
    <3>. QED  BY <2>1, <3>1, StreamIs
  <2>. QED  BY <2>1, <2>2 DEF Stream, Running, InStep
<1>3. CASE RspTimeout
  BY <1>3 DEF RspTimeout, Stream
<1>4. CASE Cleanup
  <2>1. SUFFICES ASSUME cmd' = "ENABLE", spoilt' = "no" PROVE Stream'
    BY DEF Stream
  <2>2. /\ pc = "clean" /\ res # "err" /\ cmd = "ENABLE" /\ pc' = "mvmt"
        /\ fr = Blank /\ fr' = Blank /\ spoilt = "no"
        /\ UNCHANGED <<sq, mv, next, dev, st>>
    BY <1>4, <2>1 DEF Cleanup, dev_vars
  <2>3. Running
    BY <1>0, <2>2, StreamIs
  <2>. QED  BY <2>2, <2>3 DEF Stream, Running, InStep
<1>5. CASE Flush
  <2>1. SUFFICES ASSUME spoilt' = "no" PROVE Stream'
    BY DEF Stream
  <2>2. /\ pc = "flush" /\ pc' = "send" /\ fresh = "yes" /\ mv' = <<>> /\ sq' = <<>>
        /\ UNCHANGED <<rx, st, fr, dev, req, on>>
    BY <1>5, <2>1 DEF Flush, ResetQueue, ResetSqnc, dev_vars
  <2>3. Quiet'
    BY <2>2 DEF Command, Quiet, Still
  <2>. QED  BY <2>2, <2>3 DEF Stream
<1>6. CASE MvmtByte
  <2>1. /\ pc = "mvmt" /\ mv # <<>> /\ mv' = Tail(mv)
        /\ UNCHANGED <<st, fr, dev, next, spoilt, res>>
    BY <1>6 DEF MvmtByte, dev_vars, hist_vars
  <2>2. CASE cmd' = "DISABLE"
    BY <2>2 DEF Stream
  <2>3. CASE cmd' # "DISABLE"
    <3>1. sq' = Append(sq, Head(mv)) /\ UNCHANGED <<pc, cmd>>
      BY <1>6, <2>3 DEF MvmtByte, Resync
    <3>2. sq' \o mv' = sq \o mv
      BY <1>0, <2>1, <3>1, Shift
    <3>3. cmd = "ENABLE" /\ spoilt = "no" => Running
      BY <2>1, StreamIs
    <3>4. cmd = "ENABLE" /\ spoilt = "no" => Running'
      BY <2>1, <3>2, <3>3 DEF Running, InStep
    <3>. QED  BY <2>1, <3>1, <3>4 DEF Stream, Running
  <2>. QED  BY <2>2, <2>3
<1>7. CASE MvmtTimeout
  BY <1>7 DEF MvmtTimeout, Resync, Stream
<1>8. CASE MvmtDone
  <2>1. pc = "mvmt" /\ Len(sq) = 3 /\ UNCHANGED <<mv, st, fr, dev, next, spoilt, res>>
    BY <1>8 DEF MvmtDone, isr_vars, dev_vars, hist_vars
  <2>2. CASE cmd' = "DISABLE"
    BY <2>2 DEF Stream
  <2>3. CASE cmd' # "DISABLE"
    <3>1. sq' = <<>> /\ UNCHANGED <<pc, cmd>>
      BY <1>8, <2>3 DEF MvmtDone, Resync
    <3>2. PICK u \in Seq(Bytes) : /\ u = sq \o mv /\ Len(u) = 3 + Len(mv)
                                  /\ \A k \in 1 .. Len(mv) : u[3 + k] = mv[k]
      <4>1. /\ sq \o mv \in Seq(Bytes) /\ Len(sq \o mv) = Len(sq) + Len(mv)
            /\ \A k \in 1 .. Len(mv) : (sq \o mv)[Len(sq) + k] = mv[k]
        BY <1>0, ConcatIs
      <4>2. PICK u \in Seq(Bytes) : /\ u = sq \o mv /\ Len(u) = Len(sq) + Len(mv)
                                    /\ \A k \in 1 .. Len(mv) : u[Len(sq) + k] = mv[k]
        BY <4>1
      <4>. QED  BY <2>1, <4>2
    <3>3. cmd = "ENABLE" /\ spoilt = "no" => Running
      BY <2>1, StreamIs
    <3>4. Follow(sq \o mv, next) => Follow(mv, next)
      BY <1>0, <3>2, FollowDrop
    <3>5. sq' \o mv' = mv
      BY <1>0, <2>1, <3>1
    <3>6. cmd = "ENABLE" /\ spoilt = "no" => Running'
      BY <2>1, <3>3, <3>4, <3>5 DEF Running, InStep
    <3>. QED  BY <2>1, <3>1, <3>6 DEF Stream, Running
  <2>. QED  BY <2>2, <2>3
<1>. QED  BY <1>1, <1>2, <1>3, <1>4, <1>5, <1>6, <1>7, <1>8 DEF Task, Sync

-----------------------------------------------------------------------------
(* The inductive invariant of the link, for frames and queues of any       *)
(* length.                                                                 *)
THEOREM Ps2Invariance == Spec => []Ps2Inv
<1>1. Init => Base /\ Command /\ Stream
  BY BaseInit DEF Init, Command, Stream
<1>2. Base /\ Command /\ Stream /\ [Next]_vars => (Base /\ Command /\ Stream)'
  <2>1. Base /\ Command /\ Stream /\ UNCHANGED vars => (Command /\ Stream)'
    BY DEF vars, task_vars, isr_vars, dev_vars, hist_vars, Command, Stream, Asked, Answering,
           Answered, Answers, Obeyed, Quiet, Still, InStep
  <2>. QED  BY <2>1, BaseNext, DevCommand, TaskCommand, DevStream, TaskStream DEF Next
<1>3. Base /\ Command /\ Stream <=> Ps2Inv
  BY DEF Base, Ps2Inv
<1>. QED  BY <1>1, <1>2, <1>3, PTL DEF Spec

(* Every variable of the link keeps its type, and the device takes a byte  *)
(* only while the handler sends one.                                       *)
THEOREM TypeHolds == Spec => []TypeOK
<1>1. Ps2Inv => TypeOK
  BY DEF Ps2Inv
<1>. QED  BY <1>1, Ps2Invariance, PTL

(* A command sent with an empty queue succeeds only when the device        *)
(* acknowledged that very command.                                         *)
THEOREM OkIsAnsweredHolds == Spec => []OkIsAnswered
<1>1. Ps2Inv => OkIsAnswered
  BY DEF Ps2Inv, Command, OkIsAnswered
<1>. QED  BY <1>1, Ps2Invariance, PTL

(* Until the stream loses something, the bytes of a movement are those of  *)
(* one packet, in order.                                                   *)
THEOREM StreamWholeHolds == Spec => []StreamWhole
<1>1. Ps2Inv => StreamWhole
  <2>1. SUFFICES ASSUME Ps2Inv, pc = "mvmt", spoilt = "no" PROVE StreamWhole
    BY DEF StreamWhole
  <2>2. Running
    BY <2>1, StreamIs DEF Ps2Inv, Command
  <2>. QED  BY <2>2 DEF Running, Follow, StreamWhole
<1>. QED  BY <1>1, Ps2Invariance, PTL
=============================================================================
