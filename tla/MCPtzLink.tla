------------------------------ MODULE MCPtzLink ------------------------------
(* Instance of PtzLink for TLC.                                            *)
EXTENDS PtzLink
=============================================================================
