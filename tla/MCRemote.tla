------------------------------ MODULE MCRemote ------------------------------
(* A small instance of Remote for TLC.                                     *)
EXTENDS Remote

(* The largest movements, and one that makes the speed stop short of both  *)
(* bounds and step over them.                                              *)
SomeMoves == {-256, -100, 100, 255}
=============================================================================
