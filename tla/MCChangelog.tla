----------------------------- MODULE MCChangelog -----------------------------
(***************************************************************************)
(* Instances of Changelog for TLC.                                         *)
(***************************************************************************)
EXTENDS Changelog

AnyFault == Fault
=============================================================================
