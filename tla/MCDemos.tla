------------------------------ MODULE MCDemos ------------------------------
(* Instances of Demos for TLC.                                             *)
EXTENDS Demos
============================================================================
