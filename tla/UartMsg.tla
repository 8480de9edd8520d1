------------------------------ MODULE UartMsg ------------------------------
(***************************************************************************)
(* The messages of lib/uart, byte by byte: how a message is laid out and   *)
(* summed, and how esk8_uart_msg_parse finds one in a buffer.  Pure        *)
(* operators; BmsUart compares them with what BmsPoll says of answers, and *)
(* UartMsgProofs proves that they are inverse to each other.               *)
(*                                                                         *)
(* Buffers are sequences of bytes, and C's offsets count from 0: the byte  *)
(* at offset i is buffer[i + 1].                                           *)
(***************************************************************************)
EXTENDS Integers, Sequences

Byte == 0 .. 255

pktHeader == <<90, 165>>   \* ESK8_MSG_PKT_HEADER
HeaderSize == 5            \* ESK8_MSG_HEADER_SIZE
MinSize    == 9            \* ESK8_MSG_MIN_SIZE: a message without a payload

ADDR_BMS == 34             \* ESK8_ADDR_BMS
ADDR_APP == 62             \* ESK8_ADDR_APP

Message ==
    {m \in [pld_length : Byte, src_address : Byte, dst_address : Byte,
            cmd_command : Byte, cmd_argment : Byte,
            payload : Seq(Byte), chk_sum : Byte \X Byte] :
        Len(m.payload) = m.pld_length}

(* The five bytes esk8_uart_msg_t begins with.                             *)
HeaderBytes(msg) == <<msg.pld_length, msg.src_address, msg.dst_address,
                      msg.cmd_command, msg.cmd_argment>>

(* esk8_uart_buff_chk_calc: a sum of 16 bits, all of them inverted, stored *)
(* with the lower byte first.  sums(buffer)[k] is what chksum has become   *)
(* after k bytes.                                                          *)
add16(a, b) == (a + b) % 65536

sums(buffer) ==
    LET sum[k \in 0 .. Len(buffer)] ==
          IF k = 0 THEN 0 ELSE add16(sum[k - 1], buffer[k])
    IN  sum

stored(sum) == <<(65535 - sum) % 256, (65535 - sum) \div 256>>

buff_chk_calc(buffer) == stored(sums(buffer)[Len(buffer)])

(* esk8_uart_msg_chk_calc: all but the packet header and the sum itself.   *)
msg_chk_calc(msg) == buff_chk_calc(HeaderBytes(msg) \o msg.payload)

set_chk(msg) == [msg EXCEPT !.chk_sum = msg_chk_calc(msg)]

serialize(msg) == pktHeader \o HeaderBytes(msg) \o msg.payload \o msg.chk_sum

(* esk8_uart_regread_msg_new: the request to read readLen bytes of a       *)
(* register.                                                               *)
regread_msg_new(dstAddr, reg, readLen) ==
    set_chk([pld_length  |-> 1,       src_address |-> ADDR_APP,
             dst_address |-> dstAddr, cmd_command |-> 1,
             cmd_argment |-> reg,     payload     |-> <<readLen>>,
             chk_sum     |-> <<0, 0>>])

HeaderAt(buffer, i) ==
    /\ i \in 0 .. Len(buffer) - 2
    /\ buffer[i + 1] = pktHeader[1]
    /\ buffer[i + 2] = pktHeader[2]

(* esk8_uart_msg_find_header.  (A slip: the last header is taken.)         *)
find_header_last(buffer) ==
    IF \E i \in 0 .. Len(buffer) : HeaderAt(buffer, i)
    THEN CHOOSE i \in 0 .. Len(buffer) :
            HeaderAt(buffer, i) /\ \A j \in 0 .. Len(buffer) : HeaderAt(buffer, j) => j <= i
    ELSE -1
find_header(buffer) ==
    IF \E i \in 0 .. Len(buffer) : HeaderAt(buffer, i)
    THEN CHOOSE i \in 0 .. Len(buffer) :
            HeaderAt(buffer, i) /\ \A j \in 0 .. i - 1 : ~HeaderAt(buffer, j)
    ELSE -1

(* The message that begins at offset h, once its length is known to fit.   *)
MsgAt(buffer, h) ==
    LET p == buffer[h + 3] IN
    [pld_length  |-> p,             src_address |-> buffer[h + 4],
     dst_address |-> buffer[h + 5], cmd_command |-> buffer[h + 6],
     cmd_argment |-> buffer[h + 7],
     payload     |-> [k \in 1 .. p |-> buffer[h + 7 + k]],
     chk_sum     |-> <<buffer[h + 8 + p], buffer[h + 9 + p]>>]

(* remBufferLen is a uint8_t: of a longer buffer its remainder is left.    *)
RemBufferLen(buffer, h) == (Len(buffer) - h) % 256

(* esk8_uart_msg_parse: the error, in the order of the tests.  (A slip:    *)
(* the length is compared with the buffer before the header is skipped.)   *)
TooLongUnskipped(buffer, h) == buffer[h + 3] + 2 > RemBufferLen(buffer, h)
TooLong(buffer, h) == buffer[h + 3] + 2 > RemBufferLen(buffer, h) - 2 - HeaderSize

parse_err(buffer) ==
    LET h == find_header(buffer) IN
    IF h < 0 THEN "NO_HEADER"
    ELSE IF RemBufferLen(buffer, h) < MinSize THEN "INVALID_BUFFER"
    ELSE IF TooLong(buffer, h) THEN "INVALID_PLDLEN"
    ELSE IF msg_chk_calc(MsgAt(buffer, h)) # MsgAt(buffer, h).chk_sum
         THEN "INVALID_CHKSUM"
    ELSE "ESK8_OK"

(* The message it hands out when there is no error.                        *)
parsed(buffer) == MsgAt(buffer, find_header(buffer))
=============================================================================
