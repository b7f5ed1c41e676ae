---------------------------- MODULE MCApiBroker ----------------------------
(* Instances of ApiBroker for TLC.                                           *)
EXTENDS ApiBroker
============================================================================
