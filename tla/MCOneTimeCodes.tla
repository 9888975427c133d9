--------------------------- MODULE MCOneTimeCodes ---------------------------
(* Identifiers for the run of OneTimeCodes: a verification, and two         *)
(* accounts that change to one address.                                     *)
EXTENDS OneTimeCodesInv, TLC

CONSTANTS v, x, y, t

Targets == v :> None @@ x :> t @@ y :> t
Uses    == {{v}, {x, y}}
Symmetry == Permutations(Request)
=============================================================================
