---------------------------- MODULE TaskContract ----------------------------
(***************************************************************************)
(* What the manager promises about the record of a task, whoever reads it  *)
(* (list, wait, the CLI, a later manager): it says "running" while the     *)
(* manager that started the task lives, it gets one terminal value and     *)
(* keeps it, and only a manager that starts up marks a record orphaned.    *)
(***************************************************************************)
CONSTANT Task

VARIABLES
  record,    \* the persisted record of each task
  alive      \* a manager holds the home directory

vars == <<record, alive>>

KillWhy  == {"stopped", "timeout", "session-end", "manager-shutdown"}
Ended    == [status : {"completed", "failed"}, why : {"exited"}]
              \cup [status : {"killed"}, why : KillWhy]
Absent   == [status |-> "absent", why |-> "none"]
Running  == [status |-> "running", why |-> "none"]
Orphaned == [status |-> "orphaned", why |-> "manager-crash"]

Init ==
  /\ record = [t \in Task |-> Absent]
  /\ alive = TRUE

Start(t) ==
  /\ alive
  /\ record[t] = Absent
  /\ record' = [record EXCEPT ![t] = Running]
  /\ UNCHANGED alive

(* The manager ends some running tasks (a shutdown ends them all at once); *)
(* it may die in the act.                                                  *)
Finish(S) ==
  /\ alive
  /\ alive' \in BOOLEAN
  /\ \A t \in S : record[t] = Running
  /\ record' \in [Task -> Ended \cup {Absent, Running, Orphaned}]
  /\ \A t \in S : record'[t] \in Ended
  /\ \A t \in Task \ S : record'[t] = record[t]

Die ==
  /\ alive
  /\ alive' = FALSE
  /\ UNCHANGED record

(* A new manager adopts nothing: what was left running is orphaned. *)
Revive ==
  /\ ~alive
  /\ alive' = TRUE
  /\ record' = [t \in Task |->
                  IF record[t] = Running THEN Orphaned ELSE record[t]]

Next ==
  \/ \E t \in Task : Start(t)
  \/ \E S \in SUBSET Task : Finish(S)
  \/ Die
  \/ Revive

Spec == Init /\ [][Next]_vars
=============================================================================
