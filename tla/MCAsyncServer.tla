---------------------------- MODULE MCAsyncServer ----------------------------
(***************************************************************************)
(* Instances of AsyncServer for TLC: names for threads and peers.          *)
(***************************************************************************)
EXTENDS AsyncServer

CONSTANTS t1, t2, c1, c2
===============================================================================
