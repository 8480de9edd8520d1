--------------------------- MODULE SpeedAuthority ---------------------------
(***************************************************************************)
(* What the board promises about the speed, whatever tasks, tables and     *)
(* events it takes: at most one connection owns the authority to set it,   *)
(* and the speed falls to zero in the very step in which the owner leaves. *)
(* A newcomer takes the authority from nobody but connection 0, whose      *)
(* identifier the control service takes for "no controller".               *)
(***************************************************************************)
EXTENDS Integers

CONSTANTS ConnIds, Speeds

NoOwner == -1

VARIABLES owner, speed

auth_vars == <<owner, speed>>

AuthInit == owner = NoOwner /\ speed = 0

(* A connection becomes the owner; the speed 0 left behind stays set.      *)
Acquire(c) == /\ owner \in {NoOwner, 0}
              /\ owner' = c
              /\ UNCHANGED speed

(* The owner sets the speed.                                               *)
Drive(v) == /\ owner # NoOwner
            /\ speed' = v
            /\ UNCHANGED owner

(* The owner leaves, or the board restarts.                                *)
Release == owner' = NoOwner /\ speed' = 0

(* The board stops.                                                        *)
Halt == speed' = 0 /\ UNCHANGED owner

AuthNext ==
    \/ \E c \in ConnIds : Acquire(c)
    \/ \E v \in Speeds : Drive(v)
    \/ Release
    \/ Halt

AuthSpec == AuthInit /\ [][AuthNext]_auth_vars

(* No speed without an owner.                                              *)
OwnedSpeed == speed # 0 => owner # NoOwner
=============================================================================
