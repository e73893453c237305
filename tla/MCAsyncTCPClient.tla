--------------------------- MODULE MCAsyncTCPClient ---------------------------
(***************************************************************************)
(* Instances of AsyncTCPClient for TLC.  r1 and r2 have the same id, the   *)
(* way a caller names a second attempt after the first; r3 has its own.    *)
(***************************************************************************)
EXTENDS AsyncTCPClient, TLC

CONSTANTS r1, r2, r3, i1, i2

SharedIdOf == [r \in Requests |-> IF r = r3 THEN i2 ELSE i1]

(* The two attempts differ only in name. *)
Symmetry == Permutations({r1, r2})
===============================================================================
