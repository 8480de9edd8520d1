----------------------------- MODULE MCNvsAuth -----------------------------
(* Small instances of NvsAuth for TLC.                                     *)
EXTENDS NvsAuth, TLC

Address == {"CONN_ADDR"}

Same == Permutations(Keys) \cup Permutations(Ctxs)
=============================================================================
