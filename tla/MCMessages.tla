------------------------------ MODULE MCMessages ------------------------------
(* Messages.tla for TLC: two children of one run, and one of another that  *)
(* has the display name of the first.                                      *)
EXTENDS Messages

CONSTANTS k1, k2, k3, r1, r2, n1, n2

MCRegistry == <<k1, k2, k3>>
MCRunOf == [d \in {k1, k2, k3} |-> IF d = k3 THEN r2 ELSE r1]
MCNameOf == [d \in {k1, k2, k3} |-> IF d = k2 THEN n2 ELSE n1]
=============================================================================
