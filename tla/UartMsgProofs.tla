---------------------------- MODULE UartMsgProofs ----------------------------
(***************************************************************************)
(* Proofs about UartMsg: the parser and the serializer are inverse to each *)
(* other, the parser reads nothing beyond its buffer, and the check sum    *)
(* shows the change of one byte.                                           *)
(***************************************************************************)
EXTENDS UartMsg, SequenceTheorems, WellFoundedInduction, TLAPS

LEMMA MessageParts ==
    ASSUME NEW msg \in Message
    PROVE  /\ msg.pld_length \in 0 .. 255
           /\ msg.payload \in Seq(Byte)
           /\ Len(msg.payload) = msg.pld_length
           /\ msg.chk_sum \in Byte \X Byte
           /\ HeaderBytes(msg) \in Seq(Byte)
           /\ Len(HeaderBytes(msg)) = 5
  BY DEF Message, HeaderBytes, Byte

(* Three pieces behind each other, by offsets.                             *)
IsJoined(s, a, t, c, n, p) ==
    /\ s \in Seq(Byte) /\ Len(s) = n + p + 2
    /\ \A k \in 1 .. n : s[k] = a[k]
    /\ \A k \in 1 .. p : s[n + k] = t[k]
    /\ s[n + p + 1] = c[1]
    /\ s[n + p + 2] = c[2]

LEMMA Joined ==
    ASSUME NEW a \in Seq(Byte), NEW t \in Seq(Byte), NEW c \in Seq(Byte),
           NEW n \in Nat, NEW p \in Nat,
           Len(a) = n, Len(t) = p, Len(c) = 2
    PROVE  IsJoined((a \o t) \o c, a, t, c, n, p)
  <1> DEFINE b == a \o t
             s == b \o c
  <1>0. b \in Seq(Byte) /\ Len(b) = n + p
    BY ConcatProperties
  <1>1. \A i \in 1 .. n + p : b[i] = IF i <= n THEN a[i] ELSE t[i - n]
    BY ConcatProperties
  <1> HIDE DEF b
  <1>2. /\ s \in Seq(Byte) /\ Len(s) = n + p + 2
        /\ \A i \in 1 .. n + p + 2 : s[i] = IF i <= n + p THEN b[i] ELSE c[i - (n + p)]
    <2>1. /\ s \in Seq(Byte) /\ Len(s) = Len(b) + Len(c)
          /\ \A i \in 1 .. Len(b) + Len(c) :
                s[i] = IF i <= Len(b) THEN b[i] ELSE c[i - Len(b)]
      <3>1. PICK x \in Seq(Byte) : x = b
        BY <1>0
      <3>2. /\ x \o c \in Seq(Byte) /\ Len(x \o c) = Len(x) + Len(c)
            /\ \A i \in 1 .. Len(x) + Len(c) :
                  (x \o c)[i] = IF i <= Len(x) THEN x[i] ELSE c[i - Len(x)]
        BY ConcatProperties
      <3> QED
        BY <3>1, <3>2, Zenon
    <2>2. Len(b) = n + p /\ Len(b) + Len(c) = n + p + 2
      BY <1>0
    <2> HIDE DEF s
    <2> QED
      BY <2>1, <2>2, Zenon
  <1> HIDE DEF s
  <1>3. ASSUME NEW k \in 1 .. n PROVE s[k] = a[k]
    <2>1. k \in 1 .. n + p /\ k \in 1 .. n + p + 2 /\ k <= n + p /\ k <= n
      OBVIOUS
    <2>2. s[k] = b[k] /\ b[k] = a[k]
      BY <1>1, <1>2, <2>1
    <2> QED
      BY <2>2
  <1>4. ASSUME NEW k \in 1 .. p PROVE s[n + k] = t[k]
    <2>1. /\ n + k \in 1 .. n + p /\ n + k \in 1 .. n + p + 2
          /\ n + k <= n + p /\ ~(n + k <= n) /\ (n + k) - n = k
      OBVIOUS
    <2>2. s[n + k] = b[n + k]
      BY <1>2, <2>1
    <2>3. b[n + k] = t[(n + k) - n]
      BY <1>1, <2>1
    <2> QED
      BY <2>1, <2>2, <2>3, Zenon
  <1>5. s[n + p + 1] = c[1] /\ s[n + p + 2] = c[2]
    <2>1. /\ n + p + 1 \in 1 .. n + p + 2 /\ ~(n + p + 1 <= n + p) /\ (n + p + 1) - (n + p) = 1
          /\ n + p + 2 \in 1 .. n + p + 2 /\ ~(n + p + 2 <= n + p) /\ (n + p + 2) - (n + p) = 2
      OBVIOUS
    <2>2. s[n + p + 1] = c[(n + p + 1) - (n + p)] /\ s[n + p + 2] = c[(n + p + 2) - (n + p)]
      BY <1>2, <2>1
    <2> QED
      BY <2>1, <2>2, Zenon
  <1> QED
    BY <1>2, <1>3, <1>4, <1>5 DEF s, b, IsJoined

LEMMA SumIsPair ==
    ASSUME NEW c \in Byte \X Byte
    PROVE  c \in Seq(Byte) /\ Len(c) = 2
  <1>1. PICK x \in Byte, y \in Byte : c = <<x, y>>
    OBVIOUS
  <1> QED
    BY <1>1

LEMMA PairsEqual ==
    ASSUME NEW c \in Byte \X Byte, NEW e \in Byte \X Byte,
           c[1] = e[1], c[2] = e[2]
    PROVE  c = e
  OBVIOUS

(* The length of a serialized message, and the byte at each offset:        *)
(* esk8_uart_msg_get_serialized_length and the copies of                   *)
(* esk8_uart_msg_serialize.                                                *)
LEMMA SerializedBytes ==
    ASSUME NEW msg \in Message
    PROVE  LET s == serialize(msg)
               p == msg.pld_length
           IN  /\ s \in Seq(Byte)
               /\ Len(s) = p + MinSize
               /\ s[1] = 90 /\ s[2] = 165
               /\ s[3] = p /\ s[4] = msg.src_address /\ s[5] = msg.dst_address
               /\ s[6] = msg.cmd_command /\ s[7] = msg.cmd_argment
               /\ \A k \in 1 .. p : s[7 + k] = msg.payload[k]
               /\ s[8 + p] = msg.chk_sum[1] /\ s[9 + p] = msg.chk_sum[2]
  <1>1. PICK a : a = pktHeader \o HeaderBytes(msg)
    OBVIOUS
  <1>2. a \in Seq(Byte) /\ Len(a) = 7
    <2>1. pktHeader \in Seq(Byte) /\ Len(pktHeader) = 2
      BY DEF pktHeader, Byte
    <2>2. HeaderBytes(msg) \in Seq(Byte) /\ Len(HeaderBytes(msg)) = 5
      BY MessageParts
    <2>3. /\ pktHeader \o HeaderBytes(msg) \in Seq(Byte)
          /\ Len(pktHeader \o HeaderBytes(msg)) = Len(pktHeader) + Len(HeaderBytes(msg))
      BY <2>1, <2>2, ConcatProperties, Zenon
    <2> QED
      BY <1>1, <2>1, <2>2, <2>3
  <1>3. /\ a[1] = 90 /\ a[2] = 165
        /\ a[3] = msg.pld_length /\ a[4] = msg.src_address
        /\ a[5] = msg.dst_address /\ a[6] = msg.cmd_command
        /\ a[7] = msg.cmd_argment
    BY <1>1 DEF pktHeader, HeaderBytes
  <1>4. msg.chk_sum \in Seq(Byte) /\ Len(msg.chk_sum) = 2
    BY MessageParts, SumIsPair
  <1>5. PICK p \in 0 .. 255 : p = msg.pld_length
    BY MessageParts
  <1>6. PICK t \in Seq(Byte), c \in Seq(Byte) :
           (t = msg.payload /\ c = msg.chk_sum) /\ (Len(t) = p /\ Len(c) = 2)
    BY <1>4, <1>5, MessageParts
  <1>7. Len(t) = p /\ Len(c) = 2
    BY <1>6
  <1>8. PICK s : s = (a \o t) \o c
    OBVIOUS
  <1>9. s = serialize(msg)
    BY <1>1, <1>6, <1>8 DEF serialize
  <1>10. /\ s \in Seq(Byte) /\ Len(s) = 7 + p + 2
         /\ \A k \in 1 .. 7 : s[k] = a[k]
         /\ \A k \in 1 .. p : s[7 + k] = t[k]
         /\ s[7 + p + 1] = c[1] /\ s[7 + p + 2] = c[2]
    <2>1. 7 \in Nat /\ p \in Nat
      OBVIOUS
    <2>2. IsJoined((a \o t) \o c, a, t, c, 7, p)
      BY <1>2, <1>7, <2>1, Joined
    <2> QED
      BY <1>8, <2>2 DEF IsJoined
  <1>11. /\ Len(s) = p + MinSize
         /\ 7 + p + 1 = 8 + p /\ 7 + p + 2 = 9 + p
    BY <1>10 DEF MinSize
  <1>12. /\ s[1] = a[1] /\ s[2] = a[2] /\ s[3] = a[3] /\ s[4] = a[4]
         /\ s[5] = a[5] /\ s[6] = a[6] /\ s[7] = a[7]
    BY <1>10
  <1>13. \A k \in 1 .. msg.pld_length : s[7 + k] = msg.payload[k]
    BY <1>5, <1>6, <1>10, Zenon
  <1>14. /\ s[8 + msg.pld_length] = msg.chk_sum[1]
         /\ s[9 + msg.pld_length] = msg.chk_sum[2]
    BY <1>5, <1>6, <1>10, <1>11, Zenon
  <1>15. /\ s[1] = 90 /\ s[2] = 165
         /\ s[3] = msg.pld_length /\ s[4] = msg.src_address
         /\ s[5] = msg.dst_address /\ s[6] = msg.cmd_command
         /\ s[7] = msg.cmd_argment
    <2>1. a[1] = 90 /\ a[2] = 165 /\ a[3] = msg.pld_length
      BY <1>3, Zenon
    <2>2. a[4] = msg.src_address /\ a[5] = msg.dst_address
      BY <1>3, Zenon
    <2>3. a[6] = msg.cmd_command /\ a[7] = msg.cmd_argment
      BY <1>3, Zenon
    <2>4. s[1] = a[1] /\ s[2] = a[2] /\ s[3] = a[3]
      BY <1>12, Zenon
    <2>5. s[4] = a[4] /\ s[5] = a[5]
      BY <1>12, Zenon
    <2>6. s[6] = a[6] /\ s[7] = a[7]
      BY <1>12, Zenon
    <2>7. s[1] = 90 /\ s[2] = 165 /\ s[3] = msg.pld_length
      BY <2>1, <2>4
    <2>8. s[4] = msg.src_address /\ s[5] = msg.dst_address
      BY <2>2, <2>5, Zenon
    <2>9. s[6] = msg.cmd_command /\ s[7] = msg.cmd_argment
      BY <2>3, <2>6, Zenon
    <2> QED
      BY <2>7, <2>8, <2>9, Zenon
  <1>16. s \in Seq(Byte) /\ Len(s) = msg.pld_length + MinSize
    BY <1>5, <1>10, <1>11, Zenon
  <1> QED
    BY <1>9, <1>13, <1>14, <1>15, <1>16, Zenon

(* esk8_uart_msg_find_header returns the first header, or -1.              *)
LEMMA HeaderFound ==
    ASSUME NEW buffer \in Seq(Byte), NEW h \in Nat,
           HeaderAt(buffer, h),
           \A j \in 0 .. h - 1 : ~HeaderAt(buffer, j)
    PROVE  find_header(buffer) = h
  <1> DEFINE P(i) == HeaderAt(buffer, i) /\ \A j \in 0 .. i - 1 : ~HeaderAt(buffer, j)
             D == 0 .. Len(buffer)
  <1>1. h \in D /\ P(h)
    BY DEF HeaderAt
  <1>2. \A i \in D : P(i) => i = h
    BY <1>1
  <1>3. (CHOOSE i \in D : P(i)) = h
    BY <1>1, <1>2
  <1>4. \E i \in D : HeaderAt(buffer, i)
    BY <1>1
  <1> QED
    BY <1>3, <1>4 DEF find_header

LEMMA SmallestOfSet ==
    ASSUME NEW T, T # {}, T \subseteq Nat
    PROVE  \E m \in T : \A k \in T : m <= k
  <1>1. PICK m \in T : \A k \in T : ~(<<k, m>> \in OpToRel(<, Nat))
    BY NatLessThanWellFounded, WFMin
  <1>2. \A k \in T : ~(k < m)
    BY <1>1 DEF OpToRel
  <1> QED
    BY <1>2

(* Induction over a range, for a set instead of a predicate.               *)
LEMMA RangeInduction ==
    ASSUME NEW T, NEW a \in Nat, NEW b \in Nat, a \in T,
           \A i \in a .. b : (i \in T /\ i + 1 <= b) => i + 1 \in T
    PROVE  \A i \in a .. b : i \in T
  <1>1. PICK F : F = {i \in a .. b : i \notin T}
    OBVIOUS
  <1>2. SUFFICES ASSUME F # {} PROVE FALSE
    BY <1>1, Zenon
  <1>3. F \subseteq Nat
    BY <1>1
  <1>4. PICK m \in F : \A k \in F : m <= k
    BY <1>2, <1>3, SmallestOfSet, Zenon
  <1>5. m \in a .. b /\ m \notin T
    BY <1>1, Zenon
  <1>6. m # a
    BY <1>5, Zenon
  <1>7. m - 1 \in a .. b /\ ~(m <= m - 1) /\ (m - 1) + 1 = m /\ m <= b
    BY <1>5, <1>6
  <1>8. m - 1 \in T
    BY <1>1, <1>4, <1>7, Zenon
  <1> QED
    BY <1>5, <1>7, <1>8, Zenon

LEMMA HeaderKnown ==
    ASSUME NEW buffer \in Seq(Byte), ~(find_header(buffer) < 0)
    PROVE  /\ find_header(buffer) \in Nat
           /\ HeaderAt(buffer, find_header(buffer))
  <1> DEFINE P(i) == HeaderAt(buffer, i) /\ \A j \in 0 .. i - 1 : ~HeaderAt(buffer, j)
             D == 0 .. Len(buffer)
  <1>1. \E i \in D : HeaderAt(buffer, i)
    BY DEF find_header
  <1>2. find_header(buffer) = CHOOSE i \in D : P(i)
    BY <1>1 DEF find_header
  <1>3. \E i \in D : P(i)
    <2>1. PICK i \in D : HeaderAt(buffer, i)
      BY <1>1
    <2> DEFINE T == {k \in D : HeaderAt(buffer, k)}
    <2>2. T # {} /\ T \subseteq Nat
      BY <2>1
    <2>3. PICK m \in T : \A k \in T : m <= k
      BY <2>2, SmallestOfSet
    <2>4. \A k \in 0 .. m - 1 : ~HeaderAt(buffer, k)
      BY <2>3
    <2> QED
      BY <2>3, <2>4
  <1>4. find_header(buffer) \in D /\ P(find_header(buffer))
    BY <1>2, <1>3
  <1> QED
    BY <1>4

-----------------------------------------------------------------------------
(* What the tests before the check sum establish: the whole message lies   *)
(* inside the buffer, although remBufferLen is a byte and buffers may be   *)
(* longer.                                                                 *)
LEMMA ByteRest ==
    ASSUME NEW x \in Nat
    PROVE  x % 256 \in 0 .. 255 /\ x % 256 <= x
  OBVIOUS

LEMMA Fits ==
    ASSUME NEW buffer \in Seq(Byte),
           parse_err(buffer) \in {"INVALID_CHKSUM", "ESK8_OK"}
    PROVE  LET h == find_header(buffer) IN
           /\ h \in Nat
           /\ buffer[h + 1] = 90 /\ buffer[h + 2] = 165
           /\ buffer[h + 3] \in Byte
           /\ h + buffer[h + 3] + MinSize <= Len(buffer)
  <1> DEFINE h == find_header(buffer)
  <1>1. /\ ~(h < 0)
        /\ ~(RemBufferLen(buffer, h) < MinSize)
        /\ ~TooLong(buffer, h)
    BY DEF parse_err
  <1>2. h \in Nat /\ HeaderAt(buffer, h)
    BY <1>1, HeaderKnown
  <1> HIDE DEF h
  <1>3. PICK n \in Nat : n = Len(buffer)
    OBVIOUS
  <1>4. PICK r \in 0 .. 255 : r = RemBufferLen(buffer, h) /\ r <= n - h
    <2>1. PICK x \in Nat : x = n - h
      BY <1>2, <1>3 DEF HeaderAt
    <2>2. RemBufferLen(buffer, h) = x % 256
      BY <1>3, <2>1 DEF RemBufferLen
    <2> QED
      BY <2>1, <2>2, ByteRest
  <1>5. r >= 9
    BY <1>1, <1>4 DEF MinSize
  <1>6. h + 3 \in 1 .. n
    BY <1>2, <1>4, <1>5
  <1>7. PICK p \in Byte : p = buffer[h + 3]
    BY <1>3, <1>6
  <1>8. ~(p + 2 > r - 2 - 5)
    BY <1>1, <1>4, <1>7 DEF TooLong, HeaderSize
  <1>9. h + p + 9 <= n
    <2>1. h \in Nat /\ n \in Nat /\ p \in 0 .. 255 /\ r \in 0 .. 255 /\ r <= n - h
      BY <1>2, <1>4, <1>7 DEF Byte
    <2>2. p + 2 <= r - 2 - 5
      BY <1>8, <2>1
    <2> QED
      BY <2>1, <2>2
  <1>10. buffer[h + 1] = 90 /\ buffer[h + 2] = 165
    BY <1>2 DEF HeaderAt, pktHeader
  <1> QED
    BY <1>2, <1>3, <1>7, <1>9, <1>10 DEF h, MinSize

LEMMA WellFormed ==
    ASSUME NEW buffer \in Seq(Byte), NEW h \in Nat,
           buffer[h + 3] \in 0 .. 255,
           h + buffer[h + 3] + 9 <= Len(buffer)
    PROVE  MsgAt(buffer, h) \in Message
  <1>0. PICK n \in Nat, p \in 0 .. 255 :
           n = Len(buffer) /\ buffer[h + 3] = p /\ h + p + 9 <= n
    <2>1. Len(buffer) \in Nat
      OBVIOUS
    <2> QED
      BY <2>1, Zenon
  <1>1. ASSUME NEW i \in 1 .. n PROVE buffer[i] \in Byte
    BY <1>0
  <1>2. PICK pld : pld = [k \in 1 .. p |-> buffer[h + 7 + k]]
    OBVIOUS
  <1>3. ASSUME NEW k \in 1 .. p PROVE buffer[h + 7 + k] \in Byte
    <2>1. h + 7 + k \in 1 .. n
      BY <1>0
    <2> QED
      BY <1>1, <2>1, Zenon
  <1>4. pld \in [1 .. p -> Byte]
    BY <1>2, <1>3, Zenon
  <1>5. pld \in Seq(Byte) /\ Len(pld) = p
    <2>1. p \in Nat
      OBVIOUS
    <2> QED
      BY <1>4, <2>1
  <1>6. /\ h + 4 \in 1 .. n /\ h + 5 \in 1 .. n /\ h + 6 \in 1 .. n
        /\ h + 7 \in 1 .. n /\ h + 8 + p \in 1 .. n /\ h + 9 + p \in 1 .. n
    BY <1>0
  <1>7. /\ buffer[h + 4] \in Byte /\ buffer[h + 5] \in Byte
        /\ buffer[h + 6] \in Byte /\ buffer[h + 7] \in Byte
        /\ buffer[h + 8 + p] \in Byte /\ buffer[h + 9 + p] \in Byte
    BY <1>1, <1>6, Zenon
  <1>8. p \in Byte
    BY DEF Byte
  <1>9. MsgAt(buffer, h) =
          [pld_length  |-> p,             src_address |-> buffer[h + 4],
           dst_address |-> buffer[h + 5], cmd_command |-> buffer[h + 6],
           cmd_argment |-> buffer[h + 7], payload     |-> pld,
           chk_sum     |-> <<buffer[h + 8 + p], buffer[h + 9 + p]>>]
    BY <1>0, <1>2, Zenon DEF MsgAt
  <1>10. PICK a \in Byte, b \in Byte, c \in Byte, d \in Byte, chk \in Byte \X Byte :
            MsgAt(buffer, h) =
              [pld_length  |-> p, src_address |-> a, dst_address |-> b, cmd_command |-> c,
               cmd_argment |-> d, payload     |-> pld, chk_sum   |-> chk]
    <2>1. <<buffer[h + 8 + p], buffer[h + 9 + p]>> \in Byte \X Byte
      BY <1>7
    <2> QED
      BY <1>7, <1>9, <2>1, Zenon
  <1>11. MsgAt(buffer, h) \in
            [pld_length : Byte, src_address : Byte, dst_address : Byte,
             cmd_command : Byte, cmd_argment : Byte,
             payload : Seq(Byte), chk_sum : Byte \X Byte]
    BY <1>5, <1>8, <1>10
  <1>12. Len(MsgAt(buffer, h).payload) = MsgAt(buffer, h).pld_length
    BY <1>5, <1>10
  <1> QED
    BY <1>11, <1>12, Zenon DEF Message

(* The parser of lib/uart reads nothing beyond the buffer it is given and  *)
(* hands out a well-formed message: the payload it copies, and the check   *)
(* sum behind it, lie inside the buffer, whatever bytes came in.           *)
THEOREM ParseReadsInside ==
    ASSUME NEW buffer \in Seq(Byte),
           parse_err(buffer) \in {"INVALID_CHKSUM", "ESK8_OK"}
    PROVE  /\ find_header(buffer) + parsed(buffer).pld_length + MinSize <= Len(buffer)
           /\ parsed(buffer) \in Message
  <1>1. PICK h \in Nat : h = find_header(buffer)
    BY Fits
  <1>2. PICK n \in Nat : n = Len(buffer)
    OBVIOUS
  <1>3. PICK p \in 0 .. 255 : buffer[h + 3] = p /\ h + p + 9 <= n
    BY <1>1, <1>2, Fits DEF Byte, MinSize
  <1>4. MsgAt(buffer, h) \in Message
    BY <1>1, Fits, WellFormed DEF Byte, MinSize
  <1>5. MsgAt(buffer, h).pld_length = p
    BY <1>3 DEF MsgAt
  <1>6. parsed(buffer) = MsgAt(buffer, h)
    BY <1>1 DEF parsed
  <1>7. h + p + MinSize <= Len(buffer)
    BY <1>2, <1>3 DEF MinSize
  <1> QED
    BY <1>1, <1>4, <1>5, <1>6, <1>7, Zenon

-----------------------------------------------------------------------------
(* What stands at offset h of a buffer: the bytes of a serialized message. *)
Holds(buffer, h, msg) ==
    /\ h + msg.pld_length + MinSize <= Len(buffer)
    /\ \A k \in 1 .. msg.pld_length + MinSize : buffer[h + k] = serialize(msg)[k]

(* Where a message stands, MsgAt reads that message.                       *)
LEMMA MessageIsRead ==
    ASSUME NEW buffer \in Seq(Byte), NEW h \in Nat, NEW msg \in Message,
           Holds(buffer, h, msg)
    PROVE  /\ MsgAt(buffer, h) = msg
           /\ buffer[h + 1] = 90 /\ buffer[h + 2] = 165
  <1>1. PICK p \in 0 .. 255 : msg.pld_length = p
    BY MessageParts
  <1>2. PICK s : s = serialize(msg)
    OBVIOUS
  <1>3. \A k \in 1 .. p + 9 : buffer[h + k] = s[k]
    BY <1>1, <1>2, Zenon DEF Holds, MinSize
  <1>4. /\ s[1] = 90 /\ s[2] = 165
        /\ s[3] = msg.pld_length /\ s[4] = msg.src_address
        /\ s[5] = msg.dst_address /\ s[6] = msg.cmd_command
        /\ s[7] = msg.cmd_argment
    BY <1>2, SerializedBytes, Zenon
  <1>5. /\ \A k \in 1 .. p : s[7 + k] = msg.payload[k]
        /\ s[8 + p] = msg.chk_sum[1] /\ s[9 + p] = msg.chk_sum[2]
    BY <1>1, <1>2, SerializedBytes, Zenon
  <1>6. /\ buffer[h + 1] = s[1] /\ buffer[h + 2] = s[2]
        /\ buffer[h + 3] = s[3] /\ buffer[h + 4] = s[4]
        /\ buffer[h + 5] = s[5] /\ buffer[h + 6] = s[6]
        /\ buffer[h + 7] = s[7]
    BY <1>3
  <1>7. ASSUME NEW k \in 1 .. p PROVE buffer[h + 7 + k] = msg.payload[k]
    <2>1. 7 + k \in 1 .. p + 9 /\ h + 7 + k = h + (7 + k)
      OBVIOUS
    <2> QED
      BY <1>3, <1>5, <2>1, Zenon
  <1>8. buffer[h + 8 + p] = msg.chk_sum[1] /\ buffer[h + 9 + p] = msg.chk_sum[2]
    <2>1. /\ 8 + p \in 1 .. p + 9 /\ h + 8 + p = h + (8 + p)
          /\ 9 + p \in 1 .. p + 9 /\ h + 9 + p = h + (9 + p)
      OBVIOUS
    <2> QED
      BY <1>3, <1>5, <2>1, Zenon
  <1>9. [k \in 1 .. p |-> buffer[h + 7 + k]] = msg.payload
    <2>1. msg.payload \in [1 .. p -> Byte]
      BY <1>1, MessageParts
    <2> QED
      BY <1>7, <2>1
  <1>10. <<buffer[h + 8 + p], buffer[h + 9 + p]>> = msg.chk_sum
    BY <1>8, MessageParts
  <1>11. buffer[h + 3] = p
    BY <1>1, <1>4, <1>6, Zenon
  <1>12. MsgAt(buffer, h) =
           [pld_length  |-> msg.pld_length,  src_address |-> msg.src_address,
            dst_address |-> msg.dst_address, cmd_command |-> msg.cmd_command,
            cmd_argment |-> msg.cmd_argment, payload     |-> msg.payload,
            chk_sum     |-> msg.chk_sum]
    BY <1>1, <1>4, <1>6, <1>9, <1>10, <1>11, Zenon DEF MsgAt
  <1>13. msg = [pld_length  |-> msg.pld_length,  src_address |-> msg.src_address,
                dst_address |-> msg.dst_address, cmd_command |-> msg.cmd_command,
                cmd_argment |-> msg.cmd_argment, payload     |-> msg.payload,
                chk_sum     |-> msg.chk_sum]
    BY DEF Message
  <1>14. MsgAt(buffer, h) = msg
    BY <1>12, <1>13, Zenon
  <1>15. buffer[h + 1] = 90 /\ buffer[h + 2] = 165
    <2>1. s[1] = 90 /\ s[2] = 165
      BY <1>4, Zenon
    <2>2. buffer[h + 1] = s[1] /\ buffer[h + 2] = s[2]
      BY <1>6, Zenon
    <2> QED
      BY <2>1, <2>2
  <1> QED
    BY <1>14, <1>15, Zenon

(* lib/uart is complete: behind any bytes without a header, and before any *)
(* others, esk8_uart_msg_parse finds a message that was serialized with    *)
(* its check sum, unless more than 255 bytes remain from it on.            *)
THEOREM ParseFindsMessage ==
    ASSUME NEW buffer \in Seq(Byte), NEW h \in Nat, NEW msg \in Message,
           msg.chk_sum = msg_chk_calc(msg),
           Holds(buffer, h, msg),
           \A j \in 0 .. h - 1 : ~HeaderAt(buffer, j),
           Len(buffer) - h <= 255
    PROVE  parse_err(buffer) = "ESK8_OK" /\ parsed(buffer) = msg
  <1>1. PICK n \in Nat : n = Len(buffer)
    OBVIOUS
  <1>2. PICK p \in 0 .. 255 : msg.pld_length = p /\ h + p + 9 <= n
    BY <1>1, MessageParts DEF Holds, MinSize
  <1>3. MsgAt(buffer, h) = msg /\ buffer[h + 1] = 90 /\ buffer[h + 2] = 165
    BY MessageIsRead
  <1>4. HeaderAt(buffer, h)
    <2>1. h \in 0 .. n - 2
      BY <1>2
    <2> QED
      BY <1>1, <1>3, <2>1 DEF HeaderAt, pktHeader
  <1>5. find_header(buffer) = h
    BY <1>4, HeaderFound
  <1>6. PICK r \in 0 .. 255 : r = n - h
    BY <1>1, <1>2
  <1>7. RemBufferLen(buffer, h) = r
    <2>1. r % 256 = r
      OBVIOUS
    <2> QED
      BY <1>1, <1>6, <2>1 DEF RemBufferLen
  <1>8. ~(RemBufferLen(buffer, h) < MinSize)
    BY <1>2, <1>6, <1>7 DEF MinSize
  <1>9. buffer[h + 3] = p
    <2>1. MsgAt(buffer, h).pld_length = buffer[h + 3]
      BY DEF MsgAt
    <2> QED
      BY <1>2, <1>3, <2>1, Zenon
  <1>10. ~TooLong(buffer, h)
    BY <1>2, <1>6, <1>7, <1>9 DEF TooLong, HeaderSize
  <1>11. ~(h < 0)
    OBVIOUS
  <1>12. parse_err(buffer) = "ESK8_OK"
    BY <1>3, <1>5, <1>8, <1>10, <1>11 DEF parse_err
  <1> QED
    BY <1>3, <1>5, <1>12 DEF parsed

(* lib/uart is sound: a message esk8_uart_msg_parse hands out without an   *)
(* error stands in the buffer, byte by byte, at the first header, and its  *)
(* check sum is right.                                                     *)
THEOREM ParseIsSound ==
    ASSUME NEW buffer \in Seq(Byte), parse_err(buffer) = "ESK8_OK"
    PROVE  /\ Holds(buffer, find_header(buffer), parsed(buffer))
           /\ parsed(buffer).chk_sum = msg_chk_calc(parsed(buffer))
  <1>1. PICK h \in Nat : h = find_header(buffer)
    BY Fits
  <1>2. /\ h + parsed(buffer).pld_length + MinSize <= Len(buffer)
        /\ parsed(buffer) \in Message
    BY <1>1, ParseReadsInside
  <1>3. PICK msg \in Message : msg = parsed(buffer) /\ msg = MsgAt(buffer, h)
    BY <1>1, <1>2 DEF parsed
  <1>4. PICK p \in 0 .. 255 : msg.pld_length = p
    BY MessageParts
  <1>5. PICK s : s = serialize(msg)
    OBVIOUS
  <1>6. /\ s[1] = 90 /\ s[2] = 165
        /\ s[3] = msg.pld_length /\ s[4] = msg.src_address
        /\ s[5] = msg.dst_address /\ s[6] = msg.cmd_command
        /\ s[7] = msg.cmd_argment
    BY <1>5, SerializedBytes, Zenon
  <1>7. /\ \A k \in 1 .. p : s[7 + k] = msg.payload[k]
        /\ s[8 + p] = msg.chk_sum[1] /\ s[9 + p] = msg.chk_sum[2]
    BY <1>4, <1>5, SerializedBytes, Zenon
  <1>8. buffer[h + 3] = p
    BY <1>3, <1>4 DEF MsgAt
  <1>9. /\ buffer[h + 1] = s[1] /\ buffer[h + 2] = s[2]
        /\ buffer[h + 3] = s[3] /\ buffer[h + 4] = s[4]
        /\ buffer[h + 5] = s[5] /\ buffer[h + 6] = s[6]
        /\ buffer[h + 7] = s[7]
    <2>1. /\ msg.pld_length = buffer[h + 3] /\ msg.src_address = buffer[h + 4]
          /\ msg.dst_address = buffer[h + 5] /\ msg.cmd_command = buffer[h + 6]
          /\ msg.cmd_argment = buffer[h + 7]
      BY <1>3 DEF MsgAt
    <2>2. buffer[h + 1] = 90 /\ buffer[h + 2] = 165
      BY <1>1, Fits
    <2>3. /\ s[1] = 90 /\ s[2] = 165
      BY <1>6, Zenon
    <2>4. buffer[h + 1] = s[1] /\ buffer[h + 2] = s[2]
      BY <2>2, <2>3, Zenon
    <2>5. /\ s[3] = msg.pld_length /\ s[4] = msg.src_address
          /\ s[5] = msg.dst_address
      BY <1>6, Zenon
    <2>6. buffer[h + 3] = s[3] /\ buffer[h + 4] = s[4] /\ buffer[h + 5] = s[5]
      BY <2>1, <2>5, Zenon
    <2>7. s[6] = msg.cmd_command /\ s[7] = msg.cmd_argment
      BY <1>6, Zenon
    <2>8. buffer[h + 6] = s[6] /\ buffer[h + 7] = s[7]
      BY <2>1, <2>7, Zenon
    <2> QED
      BY <2>4, <2>6, <2>8, Zenon
  <1>10. ASSUME NEW k \in 1 .. p PROVE buffer[h + 7 + k] = s[7 + k]
    <2>1. msg.payload = [i \in 1 .. p |-> buffer[h + 7 + i]]
      <3>1. MsgAt(buffer, h).payload = [i \in 1 .. buffer[h + 3] |-> buffer[h + 7 + i]]
        BY DEF MsgAt
      <3> QED
        BY <1>3, <1>8, <3>1, Zenon
    <2>2. msg.payload[k] = buffer[h + 7 + k]
      BY <2>1, Zenon
    <2> QED
      BY <1>7, <2>2, Zenon
  <1>11. buffer[h + 8 + p] = s[8 + p] /\ buffer[h + 9 + p] = s[9 + p]
    <2>1. msg.chk_sum = <<buffer[h + 8 + p], buffer[h + 9 + p]>>
      <3>1. MsgAt(buffer, h).chk_sum =
               <<buffer[h + 8 + buffer[h + 3]], buffer[h + 9 + buffer[h + 3]]>>
        BY DEF MsgAt
      <3> QED
        BY <1>3, <1>8, <3>1, Zenon
    <2>2. msg.chk_sum[1] = buffer[h + 8 + p] /\ msg.chk_sum[2] = buffer[h + 9 + p]
      BY <2>1
    <2> QED
      BY <1>7, <2>2, Zenon
  <1>12. ASSUME NEW k \in 1 .. p + 9 PROVE buffer[h + k] = s[k]
    <2>1. CASE k <= 7
      <3>1. \/ k = 1 \/ k = 2 \/ k = 3 \/ k = 4 \/ k = 5 \/ k = 6 \/ k = 7
        BY <2>1
      <3> QED
        BY <1>9, <3>1, Zenon
    <2>2. CASE k > 7 /\ k <= 7 + p
      <3>1. PICK i \in 1 .. p : i = k - 7
        BY <2>2
      <3>2. k = 7 + i /\ h + k = h + 7 + i
        BY <3>1
      <3> QED
        BY <1>10, <3>2, Zenon
    <2>3. CASE k > 7 + p
      <3>1. (k = 8 + p /\ h + k = h + 8 + p) \/ (k = 9 + p /\ h + k = h + 9 + p)
        BY <2>3
      <3> QED
        BY <1>11, <3>1, Zenon
    <2> QED
      BY <2>1, <2>2, <2>3
  <1>13. Holds(buffer, h, msg)
    BY <1>2, <1>3, <1>4, <1>5, <1>12, Zenon DEF Holds, MinSize
  <1>14. MsgAt(buffer, h).chk_sum = msg_chk_calc(MsgAt(buffer, h))
    BY <1>1, Zenon DEF parse_err
  <1> QED
    BY <1>1, <1>3, <1>13, <1>14, Zenon

-----------------------------------------------------------------------------
(* The check sum.  A word of 16 bits is written {n \in Nat : n < 65536}.     *)
Word == {n \in Nat : n < 65536}

LEMMA WordRest ==
    ASSUME NEW x \in Nat
    PROVE  x % 65536 \in Word
  BY DEF Word

LEMMA AddIsWord ==
    ASSUME NEW a \in Word, NEW b \in Byte
    PROVE  add16(a, b) \in Word
  <1>1. a + b \in Nat
    BY DEF Word, Byte
  <1>2. PICK x : x = a + b
    OBVIOUS
  <1>3. x \in Nat
    BY <1>1, <1>2, Zenon
  <1>4. add16(a, b) = x % 65536
    BY <1>2, SMT DEF add16
  <1> QED
    BY <1>3, <1>4, WordRest, SMT

LEMMA ZeroIsWord ==
    0 \in Word
  BY DEF Word

(* f holds the sums of the first 0, 1, ... n bytes of buffer.              *)
Sums(f, buffer, n) ==
    /\ f \in [0 .. n -> Word]
    /\ f[0] = 0
    /\ \A k \in 1 .. n : f[k] = add16(f[k - 1], buffer[k])

LEMMA SumsBegin ==
    ASSUME NEW buffer
    PROVE  Sums([k \in 0 .. 0 |-> 0], buffer, 0)
  <1>1. PICK f : f = [k \in 0 .. 0 |-> 0]
    OBVIOUS
  <1>2. f \in [0 .. 0 -> Word] /\ f[0] = 0
    BY <1>1, ZeroIsWord
  <1>3. \A k \in 1 .. 0 : f[k] = add16(f[k - 1], buffer[k])
    OBVIOUS
  <1> QED
    BY <1>1, <1>2, <1>3, Zenon DEF Sums

LEMMA SumsGrow ==
    ASSUME NEW buffer \in Seq(Byte), NEW m \in Nat, m + 1 \in 1 .. Len(buffer),
           NEW f, Sums(f, buffer, m)
    PROVE  \E g : Sums(g, buffer, m + 1)
  <1>1. /\ f \in [0 .. m -> Word]
        /\ f[0] = 0
        /\ \A k \in 1 .. m : f[k] = add16(f[k - 1], buffer[k])
    BY Zenon DEF Sums
  <1>2. PICK b \in Byte : b = buffer[m + 1]
    OBVIOUS
  <1>3. PICK a \in Word : a = f[m]
    <2>1. m \in 0 .. m
      OBVIOUS
    <2> QED
      BY <1>1, <2>1
  <1>4. PICK c \in Word : c = add16(a, b)
    BY AddIsWord
  <1>5. PICK g : g = [k \in 0 .. m + 1 |-> IF k = m + 1 THEN c ELSE f[k]]
    OBVIOUS
  <1>6. ASSUME NEW k \in 0 .. m PROVE g[k] = f[k]
    BY <1>5
  <1>7. g[m + 1] = c
    BY <1>5
  <1>8. g \in [0 .. m + 1 -> Word]
    <2>1. ASSUME NEW k \in 0 .. m + 1
          PROVE  (IF k = m + 1 THEN c ELSE f[k]) \in Word
      <3>1. CASE k = m + 1
        BY <3>1
      <3>2. CASE k # m + 1
        <4>1. k \in 0 .. m
          BY <3>2
        <4> QED
          BY <1>1, <3>2, <4>1
      <3> QED
        BY <3>1, <3>2
    <2> QED
      BY <1>5, <2>1, Zenon
  <1>9. g[0] = 0
    <2>1. 0 \in 0 .. m
      OBVIOUS
    <2> QED
      BY <1>1, <1>6, <2>1, Zenon
  <1>10. ASSUME NEW k \in 1 .. m + 1 PROVE g[k] = add16(g[k - 1], buffer[k])
    <2>1. CASE k = m + 1
      <3>1. k - 1 = m /\ m \in 0 .. m
        BY <2>1
      <3>2. g[k - 1] = a
        BY <1>3, <1>6, <3>1, Zenon
      <3> QED
        BY <1>2, <1>4, <1>7, <2>1, <3>2, Zenon
    <2>2. CASE k # m + 1
      <3>1. k \in 1 .. m /\ k \in 0 .. m /\ k - 1 \in 0 .. m
        BY <2>2
      <3> QED
        BY <1>1, <1>6, <3>1, Zenon
    <2> QED
      BY <2>1, <2>2
  <1> QED
    BY <1>8, <1>9, <1>10, Zenon DEF Sums

LEMMA SumsExist ==
    ASSUME NEW buffer \in Seq(Byte)
    PROVE  \E f : Sums(f, buffer, Len(buffer))
  <1>1. PICK n \in Nat : n = Len(buffer)
    OBVIOUS
  <1>2. PICK T : T = {k \in 0 .. n : \E f : Sums(f, buffer, k)}
    OBVIOUS
  <1>3. 0 \in Nat /\ 0 \in 0 .. n /\ n \in 0 .. n
    OBVIOUS
  <1>4. 0 \in T
    BY <1>2, <1>3, SumsBegin, Zenon
  <1>5. ASSUME NEW k \in 0 .. n, k \in T, k + 1 <= n PROVE k + 1 \in T
    <2>1. k \in Nat /\ k + 1 \in 1 .. n /\ k + 1 \in 0 .. n
      BY <1>5
    <2>2. PICK f : Sums(f, buffer, k)
      BY <1>2, <1>5, Zenon
    <2>3. \E g : Sums(g, buffer, k + 1)
      BY <1>1, <2>1, <2>2, SumsGrow, Zenon
    <2> QED
      BY <1>2, <2>1, <2>3, Zenon
  <1>6. \A k \in 0 .. n : k \in T
    BY <1>3, <1>4, <1>5, RangeInduction, Zenon
  <1> QED
    BY <1>1, <1>2, <1>3, <1>6, Zenon

LEMMA SumIs ==
    ASSUME NEW buffer \in Seq(Byte)
    PROVE  Sums(sums(buffer), buffer, Len(buffer))
  <1>1. PICK n \in Nat : n = Len(buffer)
    OBVIOUS
  <1>2. PICK f : Sums(f, buffer, n)
    BY <1>1, SumsExist, Zenon
  <1>3. f \in [0 .. n -> Word] /\ f[0] = 0
    BY <1>2, Zenon DEF Sums
  <1>4. f = [k \in 0 .. n |-> IF k = 0 THEN 0 ELSE add16(f[k - 1], buffer[k])]
    <2>1. ASSUME NEW k \in 0 .. n
          PROVE  f[k] = IF k = 0 THEN 0 ELSE add16(f[k - 1], buffer[k])
      <3>1. k # 0 => k \in 1 .. n
        OBVIOUS
      <3>2. CASE k = 0
        BY <1>3, <3>2, Zenon
      <3>3. CASE k # 0
        BY <1>2, <3>1, <3>3, Zenon DEF Sums
      <3> QED
        BY <3>2, <3>3
    <2>2. f = [k \in 0 .. n |-> f[k]]
      BY <1>3, Zenon
    <2> QED
      BY <2>1, <2>2, Zenon
  <1>5. sums(buffer) =
          CHOOSE g : g = [k \in 0 .. n |->
                            IF k = 0 THEN 0 ELSE add16(g[k - 1], buffer[k])]
    BY <1>1 DEF sums
  <1>6. PICK g : g = sums(buffer)
    OBVIOUS
  <1>7. g = [k \in 0 .. n |-> IF k = 0 THEN 0 ELSE add16(g[k - 1], buffer[k])]
    BY <1>4, <1>5, <1>6, Zenon
  <1>8. ASSUME NEW k \in 0 .. n
        PROVE  g[k] = IF k = 0 THEN 0 ELSE add16(g[k - 1], buffer[k])
    BY <1>7, Zenon
  <1>9. \A k \in 0 .. n : g[k] = f[k]
    <2>1. PICK T : T = {k \in 0 .. n : g[k] = f[k]}
      OBVIOUS
    <2>2. 0 \in Nat /\ 0 \in 0 .. n
      OBVIOUS
    <2>3. 0 \in T
      <3>1. g[0] = 0
        BY <1>8, <2>2, Zenon
      <3> QED
        BY <1>3, <2>1, <2>2, <3>1, Zenon
    <2>4. ASSUME NEW k \in 0 .. n, k \in T, k + 1 <= n PROVE k + 1 \in T
      <3>1. k + 1 \in 0 .. n /\ k + 1 \in 1 .. n /\ k + 1 # 0 /\ (k + 1) - 1 = k
        BY <2>4
      <3>2. g[k] = f[k]
        BY <2>1, <2>4, Zenon
      <3>3. g[k + 1] = add16(g[k], buffer[k + 1])
        BY <1>8, <3>1, Zenon
      <3>4. f[k + 1] = add16(f[k], buffer[k + 1])
        BY <1>2, <3>1, Zenon DEF Sums
      <3> QED
        BY <2>1, <3>1, <3>2, <3>3, <3>4, Zenon
    <2>5. \A k \in 0 .. n : k \in T
      BY <2>2, <2>3, <2>4, RangeInduction, Zenon
    <2> QED
      BY <2>1, <2>5, Zenon
  <1>10. g = f
    <2>1. g = [k \in 0 .. n |-> g[k]]
      BY <1>7, Zenon
    <2>2. f = [k \in 0 .. n |-> f[k]]
      BY <1>3, Zenon
    <2> QED
      BY <1>9, <2>1, <2>2, Zenon
  <1> QED
    BY <1>1, <1>2, <1>6, <1>10, Zenon

(* The sum distinguishes what it is added to, and what is added: a byte is *)
(* less than 2^16.                                                         *)
LEMMA SumKeepsApart ==
    ASSUME NEW a \in Word, NEW b \in Word, NEW c \in Byte, a # b
    PROVE  add16(a, c) # add16(b, c)
  BY SMT DEF add16, Word, Byte

LEMMA ByteKeepsApart ==
    ASSUME NEW a \in Word, NEW c \in Byte, NEW d \in Byte, c # d
    PROVE  add16(a, c) # add16(a, d)
  BY SMT DEF add16, Word, Byte

LEMMA StoredIsPair ==
    ASSUME NEW a \in Word
    PROVE  stored(a) \in Byte \X Byte
  <1>1. (65535 - a) % 256 \in Byte
    BY SMT DEF Word, Byte
  <1>2. (65535 - a) \div 256 \in Byte
    BY SMT DEF Word, Byte
  <1> QED
    BY <1>1, <1>2 DEF stored

LEMMA StoredKeepsApart ==
    ASSUME NEW a \in Word, NEW b \in Word, a # b
    PROVE  stored(a) # stored(b)
  <1>1. \/ (65535 - a) % 256 # (65535 - b) % 256
        \/ (65535 - a) \div 256 # (65535 - b) \div 256
    BY SMT DEF Word
  <1> QED
    BY <1>1 DEF stored

(* esk8_uart_buff_chk_calc: a sum of bytes is two bytes ...                *)
LEMMA SumIsStored ==
    ASSUME NEW buffer \in Seq(Byte)
    PROVE  buff_chk_calc(buffer) \in Byte \X Byte
  <1>1. PICK n \in Nat : n = Len(buffer)
    OBVIOUS
  <1>2. sums(buffer) \in [0 .. n -> Word]
    BY <1>1, SumIs, Zenon DEF Sums
  <1>3. n \in 0 .. n
    OBVIOUS
  <1>4. sums(buffer)[n] \in Word
    BY <1>2, <1>3, Zenon
  <1> QED
    BY <1>1, <1>4, StoredIsPair, Zenon DEF buff_chk_calc

(* ... and a different one when a single byte is different.                *)
LEMMA OneByteChangesSum ==
    ASSUME NEW s \in Seq(Byte), NEW t \in Seq(Byte), NEW n \in Nat,
           Len(s) = n, Len(t) = n,
           NEW k \in 1 .. n, s[k] # t[k],
           \A i \in 1 .. n : i # k => s[i] = t[i]
    PROVE  buff_chk_calc(s) # buff_chk_calc(t)
  <1>1. PICK f, g : f = sums(s) /\ g = sums(t)
    OBVIOUS
  <1>2. Sums(f, s, n) /\ Sums(g, t, n)
    BY <1>1, SumIs, Zenon
  <1>3. /\ f \in [0 .. n -> Word] /\ f[0] = 0
        /\ g \in [0 .. n -> Word] /\ g[0] = 0
    BY <1>2, Zenon DEF Sums
  <1>4. ASSUME NEW i \in 1 .. n
        PROVE  /\ f[i] = add16(f[i - 1], s[i]) /\ g[i] = add16(g[i - 1], t[i])
               /\ f[i - 1] \in Word /\ g[i - 1] \in Word
               /\ s[i] \in Byte /\ t[i] \in Byte
    <2>1. i - 1 \in 0 .. n
      OBVIOUS
    <2>2. s[i] \in Byte /\ t[i] \in Byte
      OBVIOUS
    <2> QED
      BY <1>2, <1>3, <2>1, <2>2, Zenon DEF Sums
  <1>5. PICK l \in Nat : l = k - 1 /\ l \in 0 .. n /\ l + 1 = k
    <2>1. k - 1 \in Nat /\ k - 1 \in 0 .. n /\ (k - 1) + 1 = k
      OBVIOUS
    <2> QED
      BY <2>1, Zenon
  <1>6. f[l] = g[l]
    <2>1. PICK T : T = {i \in 0 .. l : f[i] = g[i]}
      OBVIOUS
    <2>2. 0 \in Nat /\ 0 \in 0 .. l /\ l \in 0 .. l
      OBVIOUS
    <2>3. 0 \in T
      BY <1>3, <2>1, <2>2, Zenon
    <2>4. ASSUME NEW i \in 0 .. l, i \in T, i + 1 <= l PROVE i + 1 \in T
      <3>1. i + 1 \in 1 .. n /\ i + 1 \in 0 .. l /\ (i + 1) - 1 = i /\ i + 1 # k
        BY <1>5, <2>4
      <3>2. f[i] = g[i] /\ s[i + 1] = t[i + 1]
        BY <2>1, <2>4, <3>1, Zenon
      <3>3. f[i + 1] = add16(f[i], s[i + 1]) /\ g[i + 1] = add16(g[i], t[i + 1])
        BY <1>4, <3>1, Zenon
      <3> QED
        BY <2>1, <3>1, <3>2, <3>3, Zenon
    <2>5. \A i \in 0 .. l : i \in T
      BY <2>2, <2>3, <2>4, RangeInduction, Zenon
    <2> QED
      BY <2>1, <2>2, <2>5, Zenon
  <1>7. f[k] # g[k]
    <2>1. /\ f[k] = add16(f[l], s[k]) /\ g[k] = add16(g[l], t[k])
          /\ f[l] \in Word /\ s[k] \in Byte /\ t[k] \in Byte
      BY <1>4, <1>5, Zenon
    <2> QED
      BY <1>6, <2>1, ByteKeepsApart, Zenon
  <1>8. f[n] # g[n]
    <2>1. PICK T : T = {i \in k .. n : f[i] # g[i]}
      OBVIOUS
    <2>2. k \in Nat /\ k \in k .. n /\ n \in k .. n
      OBVIOUS
    <2>3. k \in T
      BY <1>7, <2>1, <2>2, Zenon
    <2>4. ASSUME NEW i \in k .. n, i \in T, i + 1 <= n PROVE i + 1 \in T
      <3>1. i + 1 \in 1 .. n /\ i + 1 \in k .. n /\ (i + 1) - 1 = i /\ i + 1 # k
        BY <2>4
      <3>2. f[i] # g[i] /\ s[i + 1] = t[i + 1]
        BY <2>1, <2>4, <3>1, Zenon
      <3>3. /\ f[i + 1] = add16(f[i], s[i + 1]) /\ g[i + 1] = add16(g[i], t[i + 1])
            /\ f[i] \in Word /\ g[i] \in Word /\ s[i + 1] \in Byte
        BY <1>4, <3>1, Zenon
      <3>4. f[i + 1] # g[i + 1]
        BY <3>2, <3>3, SumKeepsApart, Zenon
      <3> QED
        BY <2>1, <3>1, <3>4, Zenon
    <2>5. \A i \in k .. n : i \in T
      BY <2>2, <2>3, <2>4, RangeInduction, Zenon
    <2> QED
      BY <2>1, <2>2, <2>5, Zenon
  <1>9. n \in 0 .. n /\ f[n] \in Word /\ g[n] \in Word
    BY <1>3
  <1> QED
    BY <1>1, <1>8, <1>9, StoredKeepsApart, Zenon DEF buff_chk_calc

-----------------------------------------------------------------------------
(* What the check sum of a message covers: its bytes but the first two and *)
(* the last two.                                                           *)
Body(msg) == HeaderBytes(msg) \o msg.payload

LEMMA BodyBytes ==
    ASSUME NEW msg \in Message, NEW p, p = msg.pld_length
    PROVE  /\ Body(msg) \in Seq(Byte)
           /\ Len(Body(msg)) = 5 + p
           /\ \A i \in 1 .. 5 + p : Body(msg)[i] = serialize(msg)[i + 2]
  <1>0. p \in Nat
    BY MessageParts
  <1>1. PICK a \in Seq(Byte), t \in Seq(Byte) :
           a = HeaderBytes(msg) /\ t = msg.payload /\ Len(a) = 5 /\ Len(t) = p
    BY MessageParts, Zenon
  <1>2. /\ a \o t \in Seq(Byte) /\ Len(a \o t) = Len(a) + Len(t)
        /\ \A i \in 1 .. Len(a) + Len(t) :
              (a \o t)[i] = IF i <= Len(a) THEN a[i] ELSE t[i - Len(a)]
    BY ConcatProperties
  <1>3. PICK b : b = a \o t
    OBVIOUS
  <1>4. /\ b \in Seq(Byte) /\ Len(b) = 5 + p
        /\ \A i \in 1 .. 5 + p : b[i] = IF i <= 5 THEN a[i] ELSE t[i - 5]
    BY <1>1, <1>2, <1>3, Zenon
  <1>5. PICK s : s = serialize(msg)
    OBVIOUS
  <1>6. /\ s[3] = msg.pld_length /\ s[4] = msg.src_address /\ s[5] = msg.dst_address
        /\ s[6] = msg.cmd_command /\ s[7] = msg.cmd_argment
    BY <1>5, SerializedBytes, Zenon
  <1>7. \A k \in 1 .. p : s[7 + k] = t[k]
    BY <1>1, <1>5, SerializedBytes, Zenon
  <1>8. /\ a[1] = msg.pld_length /\ a[2] = msg.src_address /\ a[3] = msg.dst_address
        /\ a[4] = msg.cmd_command /\ a[5] = msg.cmd_argment
    BY <1>1 DEF HeaderBytes
  <1>9. ASSUME NEW i \in 1 .. 5 + p PROVE b[i] = s[i + 2]
    <2>1. CASE i <= 5
      <3>1. b[i] = a[i]
        BY <1>4, <2>1, Zenon
      <3>2. \/ i = 1 /\ i + 2 = 3
            \/ i = 2 /\ i + 2 = 4
            \/ i = 3 /\ i + 2 = 5
            \/ i = 4 /\ i + 2 = 6
            \/ i = 5 /\ i + 2 = 7
        BY <1>0, <1>9, <2>1
      <3>3. a[i] = s[i + 2]
        BY <1>6, <1>8, <3>2, Zenon
      <3> QED
        BY <3>1, <3>3, Zenon
    <2>2. CASE ~(i <= 5)
      <3>1. b[i] = t[i - 5]
        BY <1>4, <2>2, Zenon
      <3>2. i - 5 \in 1 .. p /\ 7 + (i - 5) = i + 2
        <4>1. i \in Nat /\ i > 5 /\ i <= 5 + p
          BY <1>0, <2>2
        <4> QED
          BY <1>0, <4>1
      <3>3. s[i + 2] = t[i - 5]
        BY <1>7, <3>2, Zenon
      <3> QED
        BY <3>1, <3>3, Zenon
    <2> QED
      BY <2>1, <2>2, Zenon
  <1>10. Body(msg) = b
    BY <1>1, <1>3, Zenon DEF Body
  <1> QED
    BY <1>4, <1>5, <1>9, <1>10, Zenon

(* set_chk leaves a message with its own check sum.                        *)
LEMMA SetChkIsRight ==
    ASSUME NEW msg \in Message
    PROVE  /\ set_chk(msg) \in Message
           /\ set_chk(msg).chk_sum = msg_chk_calc(set_chk(msg))
           /\ set_chk(msg).pld_length = msg.pld_length
           /\ set_chk(msg).src_address = msg.src_address
           /\ set_chk(msg).dst_address = msg.dst_address
           /\ set_chk(msg).cmd_command = msg.cmd_command
           /\ set_chk(msg).cmd_argment = msg.cmd_argment
           /\ set_chk(msg).payload = msg.payload
  <1>1. Body(msg) \in Seq(Byte)
    BY BodyBytes, Zenon
  <1>2. PICK c \in Byte \X Byte : c = msg_chk_calc(msg)
    <2>1. msg_chk_calc(msg) \in Byte \X Byte
      BY <1>1, SumIsStored, Zenon DEF Body, msg_chk_calc
    <2> QED
      BY <2>1, Zenon
  <1>3. PICK m : m = [msg EXCEPT !.chk_sum = c]
    OBVIOUS
  <1>4. /\ m \in Message /\ m.chk_sum = c
        /\ m.pld_length = msg.pld_length /\ m.src_address = msg.src_address
        /\ m.dst_address = msg.dst_address /\ m.cmd_command = msg.cmd_command
        /\ m.cmd_argment = msg.cmd_argment /\ m.payload = msg.payload
    BY <1>3 DEF Message
  <1>5. msg_chk_calc(m) = msg_chk_calc(msg)
    BY <1>4, Zenon DEF msg_chk_calc, HeaderBytes
  <1>6. set_chk(msg) = m
    BY <1>2, <1>3, Zenon DEF set_chk
  <1> QED
    BY <1>2, <1>4, <1>5, <1>6, Zenon

(* A message in which one byte is not the one that was sent.               *)
Damaged(buffer, h, msg, d) ==
    /\ h + msg.pld_length + MinSize <= Len(buffer)
    /\ d \in 4 .. msg.pld_length + MinSize
    /\ buffer[h + d] # serialize(msg)[d]
    /\ \A k \in 1 .. msg.pld_length + MinSize :
          k # d => buffer[h + k] = serialize(msg)[k]

(* Two messages of one length that differ in one byte, anywhere behind the *)
(* length, do not both carry their own check sum.                          *)
LEMMA OneByteApart ==
    ASSUME NEW msg \in Message, NEW got \in Message, NEW p \in Nat,
           msg.pld_length = p, got.pld_length = p,
           NEW d \in 4 .. p + 9,
           serialize(got)[d] # serialize(msg)[d],
           \A k \in 1 .. p + 9 : k # d => serialize(got)[k] = serialize(msg)[k],
           msg.chk_sum = msg_chk_calc(msg)
    PROVE  got.chk_sum # msg_chk_calc(got)
  <1>1. PICK s, t : s = serialize(msg) /\ t = serialize(got)
    OBVIOUS
  <1>2. PICK a, b : a = Body(msg) /\ b = Body(got)
    OBVIOUS
  <1>3. /\ a \in Seq(Byte) /\ Len(a) = 5 + p /\ \A i \in 1 .. 5 + p : a[i] = s[i + 2]
        /\ b \in Seq(Byte) /\ Len(b) = 5 + p /\ \A i \in 1 .. 5 + p : b[i] = t[i + 2]
    BY <1>1, <1>2, BodyBytes, Zenon
  <1>4. /\ s[8 + p] = msg.chk_sum[1] /\ s[9 + p] = msg.chk_sum[2]
        /\ t[8 + p] = got.chk_sum[1] /\ t[9 + p] = got.chk_sum[2]
    BY <1>1, SerializedBytes, ZenonT(60)
  <1>5. msg_chk_calc(msg) = buff_chk_calc(a) /\ msg_chk_calc(got) = buff_chk_calc(b)
    BY <1>2, Zenon DEF msg_chk_calc, Body
  <1>6. /\ t[d] # s[d]
        /\ \A k \in 1 .. p + 9 : k # d => t[k] = s[k]
    BY <1>1, Zenon
  <1>7. CASE d <= 7 + p
    <2>1. PICK j \in Nat : j = d - 2 /\ j \in 1 .. 5 + p /\ j + 2 = d
      <3>1. d - 2 \in Nat /\ d - 2 \in 1 .. 5 + p /\ (d - 2) + 2 = d
        BY <1>7
      <3> QED
        BY <3>1, Zenon
    <2>2. b[j] # a[j]
      BY <1>3, <1>6, <2>1, Zenon
    <2>3. ASSUME NEW i \in 1 .. 5 + p, i # j PROVE b[i] = a[i]
      <3>1. i + 2 \in 1 .. p + 9 /\ i + 2 # d
        BY <2>1, <2>3
      <3> QED
        BY <1>3, <1>6, <3>1, Zenon
    <2>4. 5 + p \in Nat
      OBVIOUS
    <2>5. buff_chk_calc(b) # buff_chk_calc(a)
      BY <1>3, <2>1, <2>2, <2>3, <2>4, OneByteChangesSum, Zenon
    <2>6. /\ 8 + p \in 1 .. p + 9 /\ 8 + p # d
          /\ 9 + p \in 1 .. p + 9 /\ 9 + p # d
      BY <1>7
    <2>7. got.chk_sum[1] = msg.chk_sum[1] /\ got.chk_sum[2] = msg.chk_sum[2]
      BY <1>4, <1>6, <2>6, Zenon
    <2>8. got.chk_sum = msg.chk_sum
      BY <2>7, MessageParts, PairsEqual, Zenon
    <2> QED
      BY <1>5, <2>5, <2>8, Zenon
  <1>8. CASE ~(d <= 7 + p)
    <2>1. ASSUME NEW i \in 1 .. 5 + p PROVE b[i] = a[i]
      <3>1. i + 2 \in 1 .. p + 9 /\ i + 2 # d
        BY <1>8
      <3> QED
        BY <1>3, <1>6, <3>1, Zenon
    <2>2. b = a
      BY <1>3, <2>1, SeqEqual
    <2>3. d = 8 + p \/ d = 9 + p
      BY <1>8
    <2>4. got.chk_sum # msg.chk_sum
      BY <1>4, <1>6, <2>3, Zenon
    <2> QED
      BY <1>5, <2>2, <2>4, Zenon
  <1> QED
    BY <1>7, <1>8, Zenon

(* lib/uart notices damage: when a single byte of a message behind its     *)
(* length arrives different from what was sent, whichever it is and        *)
(* whatever it became, esk8_uart_msg_parse refuses the message.            *)
THEOREM DamageIsNoticed ==
    ASSUME NEW buffer \in Seq(Byte), NEW h \in Nat, NEW msg \in Message,
           msg.chk_sum = msg_chk_calc(msg),
           NEW d, Damaged(buffer, h, msg, d),
           \A j \in 0 .. h - 1 : ~HeaderAt(buffer, j),
           Len(buffer) - h <= 255
    PROVE  parse_err(buffer) = "INVALID_CHKSUM"
  <1>1. PICK n \in Nat : n = Len(buffer)
    OBVIOUS
  <1>2. PICK p \in 0 .. 255 : p = msg.pld_length
    BY MessageParts
  <1>3. h + p + 9 <= n /\ d \in 4 .. p + 9
    BY <1>1, <1>2, Zenon DEF Damaged, MinSize
  <1>4. /\ buffer[h + d] # serialize(msg)[d]
        /\ \A k \in 1 .. p + 9 : k # d => buffer[h + k] = serialize(msg)[k]
    BY <1>1, <1>2, Zenon DEF Damaged, MinSize
  <1>5. buffer[h + 1] = 90 /\ buffer[h + 2] = 165 /\ buffer[h + 3] = p
    <2>1. /\ 1 \in 1 .. p + 9 /\ 1 # d /\ 2 \in 1 .. p + 9 /\ 2 # d
          /\ 3 \in 1 .. p + 9 /\ 3 # d
      BY <1>3
    <2>2. /\ buffer[h + 1] = serialize(msg)[1] /\ buffer[h + 2] = serialize(msg)[2]
          /\ buffer[h + 3] = serialize(msg)[3]
      BY <1>4, <2>1, Zenon
    <2> QED
      BY <1>2, <2>2, SerializedBytes
  <1>6. find_header(buffer) = h
    <2>1. h \in 0 .. n - 2
      BY <1>3
    <2>2. HeaderAt(buffer, h)
      BY <1>1, <1>5, <2>1 DEF HeaderAt, pktHeader
    <2> QED
      BY <2>2, HeaderFound
  <1>7. PICK r \in 0 .. 255 : r = n - h
    <2>1. n - h \in 0 .. 255
      BY <1>3, <1>1
    <2> QED
      BY <2>1, Zenon
  <1>8. RemBufferLen(buffer, h) = r
    <2>1. r % 256 = r
      OBVIOUS
    <2> QED
      BY <1>1, <1>7, <2>1 DEF RemBufferLen
  <1>9. ~(RemBufferLen(buffer, h) < MinSize) /\ ~TooLong(buffer, h) /\ ~(h < 0)
    <2>1. p \in Nat /\ h + p + 9 <= n
      BY <1>3
    <2>2. ~(RemBufferLen(buffer, h) < MinSize)
      BY <1>7, <1>8, <2>1 DEF MinSize
    <2>3. buffer[h + 3] = p
      BY <1>5, Zenon
    <2>4. ~TooLong(buffer, h)
      BY <1>7, <1>8, <2>1, <2>3 DEF TooLong, HeaderSize
    <2>5. ~(h < 0)
      OBVIOUS
    <2> QED
      BY <2>2, <2>4, <2>5, Zenon
  <1>10. parse_err(buffer) \in {"INVALID_CHKSUM", "ESK8_OK"}
    BY <1>6, <1>9, Zenon DEF parse_err
  <1>11. SUFFICES ASSUME parse_err(buffer) = "ESK8_OK" PROVE FALSE
    BY <1>10, Zenon
  <1>12. PICK got : got = parsed(buffer)
    OBVIOUS
  <1>13. /\ got \in Message /\ got.chk_sum = msg_chk_calc(got)
         /\ Holds(buffer, h, got)
    BY <1>6, <1>10, <1>11, <1>12, ParseIsSound, ParseReadsInside, Zenon
  <1>14. got.pld_length = p
    <2>1. got = MsgAt(buffer, h)
      BY <1>6, <1>12, Zenon DEF parsed
    <2> QED
      BY <1>5, <2>1 DEF MsgAt
  <1>15. \A k \in 1 .. p + 9 : buffer[h + k] = serialize(got)[k]
    BY <1>13, <1>14, Zenon DEF Holds, MinSize
  <1>16. d \in 1 .. p + 9 /\ p \in Nat
    BY <1>3
  <1>17. serialize(got)[d] # serialize(msg)[d]
    BY <1>4, <1>15, <1>16, Zenon
  <1>18. \A k \in 1 .. p + 9 : k # d => serialize(got)[k] = serialize(msg)[k]
    BY <1>4, <1>15, Zenon
  <1>19. got.chk_sum # msg_chk_calc(got)
    BY <1>3, <1>2, <1>13, <1>14, <1>16, <1>17, <1>18, OneByteApart, Zenon
  <1> QED
    BY <1>13, <1>19, Zenon
=============================================================================
