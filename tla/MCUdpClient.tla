------------------------------ MODULE MCUdpClient ------------------------------
(***************************************************************************)
(* An instance of UdpClient for TLC.                                       *)
(***************************************************************************)
EXTENDS UdpClient

CONSTANTS p1, p2, p3
===============================================================================
