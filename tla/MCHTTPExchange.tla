---------------------------- MODULE MCHTTPExchange ----------------------------
(***************************************************************************)
(* Instances of HTTPExchange for TLC.                                      *)
(***************************************************************************)
EXTENDS HTTPExchange
===============================================================================
