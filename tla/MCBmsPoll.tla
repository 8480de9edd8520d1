----------------------------- MODULE MCBmsPoll -----------------------------
(* Small instances of BmsUart for TLC.                                     *)
EXTENDS BmsUart

TwoRegs   == <<"voltage", "current">>
(* The deep registers from the manufacture date on, whose register is the  *)
(* serial number's: its answer fills the next field too.                   *)
DeepRegs  == <<"serial", "capacity">>
DeepSpill == <<1, 0>>

(* An answer of two bytes is 11 bytes long, the serial number's 23: short  *)
(* ones, two here and three in the code, fill the place of a long one.     *)
Lengths == [r \in Regs |-> IF r = "serial" THEN 3 ELSE 2]

(* Numbers for the registers, and readings of one byte, repeated, that     *)
(* tells battery and register.                                             *)
Numbers == [r \in Regs |-> CASE r = "voltage" -> 52 [] r = "current" -> 51
                             [] r = "serial" -> 16 [] OTHER -> 24]
Told    == [b \in Bats, r \in Regs |->
              [k \in 1 .. RegSize(r) |-> 100 * b + Numbers[r]]]
=============================================================================
