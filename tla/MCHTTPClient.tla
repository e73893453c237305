---------------------------- MODULE MCHTTPClient -----------------------------
(***************************************************************************)
(* An instance of HTTPClient for TLC.                                      *)
(***************************************************************************)
EXTENDS HTTPClient

CONSTANT r1
===============================================================================
