------------------------------ MODULE BmsUart ------------------------------
(***************************************************************************)
(* BmsPoll with the bytes of UartMsg underneath: what its units stand for, *)
(* and the comparison of what it says of an answer with what               *)
(* get_data_with_response finds when it parses the bytes.                  *)
(*                                                                         *)
(* A unit is UnitBytes bytes, so that a header is never divided; answers   *)
(* carry a reading, any bytes that hold no packet header.                  *)
(***************************************************************************)
EXTENDS BmsPoll, UartMsg

CONSTANTS
    RegNo,     \* the number of each register (esk8_uart_reg_t)
    Reading    \* the bytes with which a battery answers for a register

UnitBytes == 5
RegSize(r) == UnitBytes * Units[r] - MinSize   \* reg_size

(* The ways in which the bytes of an answer can be unfit.                  *)
Flaws == {"sum", "source", "argument"}

(* The answer of battery b to a request for r.                             *)
Answered(b, r, flaw) ==
    LET m == set_chk(
               [pld_length  |-> RegSize(r),
                src_address |-> IF flaw = "source" THEN ADDR_APP ELSE ADDR_BMS,
                dst_address |-> ADDR_APP, cmd_command |-> 1,
                cmd_argment |-> IF flaw = "argument" THEN RegNo[r] ELSE 0,
                payload     |-> Reading[b, r],
                chk_sum     |-> <<0, 0>>])
    IN  IF flaw = "sum" THEN [m EXCEPT !.chk_sum[1] = (@ + 1) % 256] ELSE m

OnWire == [b \in Bats |-> [r \in Regs |-> [flaw \in Flaws \cup {"none"} |->
             serialize(Answered(b, r, flaw))]]]

(* Payloads have the length of their register, and no answer holds the     *)
(* bytes of a header but at its front: the units of BmsPoll have headers   *)
(* in the first of a message only.                                         *)
ASSUME UnitsHoldMessages ==
    /\ \A r \in Regs : RegSize(r) \in 1 .. 246
    /\ RegNo \in [Regs -> Byte \ {0}]
    /\ \A b \in Bats, r \in Regs :
          Reading[b, r] \in Seq(Byte) /\ Len(Reading[b, r]) = RegSize(r)
    /\ \A b \in Bats, r \in Regs, flaw \in Flaws \cup {"none"} :
          \A i \in 1 .. UnitBytes * Units[r] - 2 : ~HeaderAt(OnWire[b][r][flaw], i)

(* res_buf, after uart_read_bytes: every unit is UnitBytes of its message. *)
WireOf(u, flaw) == OnWire[u.bat][u.reg][IF u.fit = "yes" THEN "none" ELSE flaw]
res_buf(flaw) ==
    [n \in 1 .. UnitBytes * Need |->
       LET u == Buf[(n - 1) \div UnitBytes + 1] IN
       WireOf(u, flaw)[UnitBytes * (u.part - 1) + ((n - 1) % UnitBytes) + 1]]

(* get_data_with_response: the tests, and what memcpy copies.              *)
Passes(buffer) ==
    /\ parse_err(buffer) = "ESK8_OK"
    /\ parsed(buffer).src_address = ADDR_BMS
    /\ parsed(buffer).cmd_argment = 0

Copies(buffer, v) ==
    LET p == parsed(buffer).payload
        n == RegSize(List(what)[idx])
    IN  IF v.reg = Junk THEN Len(p) < n
        ELSE n <= Len(p) /\ SubSeq(p, 1, n) = SubSeq(Reading[v.bat, v.reg], 1, n)

-----------------------------------------------------------------------------
(* The parser finds in the bytes what BmsPoll says of the units: it takes  *)
(* an answer exactly when BmsPoll accepts one, whatever made the others    *)
(* unfit, and copies what that one says; and the request it was sent for   *)
(* can be read back.  (What arrives later does not change res_buf.)        *)
AnswerAgrees ==
    (pc = "await" /\ Len(rx) >= Need) =>
       LET k == {i \in 1 .. Need : FirstHeader(i) /\ Whole(i) /\ Buf[i].fit = "yes"}
       IN  \A bytes \in {res_buf(flaw) : flaw \in Flaws} :
              /\ Passes(bytes) <=> k # {}
              /\ \A i \in k : Copies(bytes, Content(Buf[i]))

RequestReads ==
    pc = "send" =>
       LET r == List(what)[idx]
           m == regread_msg_new(ADDR_BMS, RegNo[r], RegSize(r))
       IN  /\ parse_err(serialize(m)) = "ESK8_OK"
           /\ parsed(serialize(m)) = m

ParserAgrees == AnswerAgrees /\ RequestReads
=============================================================================
