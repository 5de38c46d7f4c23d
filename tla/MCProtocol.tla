----------------------------- MODULE MCProtocol -----------------------------
(* Instances of Protocol small enough for TLC.                             *)
EXTENDS Protocol

Killed  == {"kill", "garbled"}
OpenEnd == {"open_end"}
=============================================================================
