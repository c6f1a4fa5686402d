---------------------------- MODULE MCSasDaemon -----------------------------
(***************************************************************************)
(* SasDaemon needs no definitions of its own for TLC: its constants are    *)
(* numbers.                                                                *)
(***************************************************************************)
EXTENDS SasDaemon
=============================================================================
