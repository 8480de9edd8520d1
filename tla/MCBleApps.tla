----------------------------- MODULE MCBleApps -----------------------------
(* Small instances of BleApps for TLC.                                     *)
EXTENDS BleApps

TwoApps == <<"ctrl", "status">>
OnePayload == {[attr |-> "speed", len |-> 1, val |-> 0]}
=============================================================================
