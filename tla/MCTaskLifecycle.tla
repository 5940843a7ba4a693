--------------------------- MODULE MCTaskLifecycle ---------------------------
(* Constants for the model-checking runs of TaskLifecycle. *)
EXTENDS TaskLifecycle

CONSTANTS t1, s1

OneSession == [t \in Task |-> s1]
=============================================================================
