--------------------------- MODULE MCStatusNotify ---------------------------
(* A small instance of StatusNotify for TLC.                               *)
EXTENDS StatusNotify

StatusOnly == <<"status">>
=============================================================================
