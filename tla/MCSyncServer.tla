----------------------------- MODULE MCSyncServer -----------------------------
(***************************************************************************)
(* Instances of SyncServer for TLC.                                        *)
(***************************************************************************)
EXTENDS SyncServer

CONSTANTS c1, c2, c3
===============================================================================
