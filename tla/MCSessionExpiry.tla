--------------------------- MODULE MCSessionExpiry ---------------------------
(***************************************************************************)
(* Instance of SessionExpiry for TLC.  One timeout is the width of a       *)
(* bucket, the other is not a multiple of it.                              *)
(***************************************************************************)
EXTENDS SessionExpiry

MCTimeouts == {2, 3}
=============================================================================
