----------------------------- MODULE MCSingleton -----------------------------
(* Constants for the model-checking runs of Singleton. *)
EXTENDS Singleton, TLC

CONSTANTS d1, d2, c1, c2, e1, e2

Symmetry == Permutations(Proc) \cup Permutations(Cli) \cup Permutations(Ext)
=============================================================================
