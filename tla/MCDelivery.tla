------------------------------ MODULE MCDelivery ------------------------------
(***************************************************************************)
(* Instances of Delivery for TLC.  Every constant gets a value written in  *)
(* the configuration.                                                      *)
(***************************************************************************)
EXTENDS Delivery
=============================================================================
