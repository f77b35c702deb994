---------------------------- MODULE MCEventLoop ----------------------------
(* EventLoop needs no definitions for TLC beyond its own. *)
EXTENDS EventLoop
=============================================================================
