---------------------------- MODULE MCOutputPath ----------------------------
(* OutputPath needs no definitions for TLC beyond its own. *)
EXTENDS OutputPath
=============================================================================
