------------------------------- MODULE MCBuild -------------------------------
(* Instances of Build for TLC.                                              *)
EXTENDS Build
=============================================================================
