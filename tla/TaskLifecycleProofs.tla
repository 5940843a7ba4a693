------------------------- MODULE TaskLifecycleProofs -------------------------
(***************************************************************************)
(* Theorems about TaskLifecycle: for any set of tasks, any assignment of   *)
(* tasks to sessions, any choice of requests and faults and any bounds.    *)
(***************************************************************************)
EXTENDS TaskLifecycle, TLAPS

-----------------------------------------------------------------------------
(* The inductive invariant *)

(* With no manager nothing of a manager's memory is left. *)
NothingInMemory ==
  ~Up => \A t \in Task :
           /\ startPc[t] \in {"none", "done", "failed"}
           /\ mem[t] = Absent
           /\ reason[t] = "none"
           /\ bg[t] \in {"never", "landed", "late"}

(* A start request touches a task nobody else knows. *)
StartIsFirst ==
  \A t \in Task :
    startPc[t] \in {"none", "checked", "spawned", "persisted"} =>
      /\ mem[t] = Absent
      /\ disk[t] = IF startPc[t] = "persisted" THEN Running ELSE Absent
      /\ reason[t] = "none"
      /\ bg[t] = "never"
      /\ exits[t] = 0

(* What runs is recorded as running, and nothing has been logged for it. *)
RunningIsFresh ==
  \A t \in Task :
    IsRunning(t) => disk[t] = Running /\ bg[t] # "late" /\ exits[t] = 0

(* An unfinished record has no task.exit line. *)
NoEarlyExit ==
  DisksWork =>
  \A t \in Task :
    bg[t] # "late" /\ disk[t].status \notin Terminal => exits[t] = 0

Records ==
  /\ NothingInMemory
  /\ StartIsFirst
  /\ RunningIsFresh
  /\ NoEarlyExit
  /\ RecordsAgree
  /\ RequestedKillSticks
  /\ ExitLoggedOnce

(* The variables it is about. *)
recordVars == <<daemon, crashed, startPc, mem, reason, bg, disk, exits>>

-----------------------------------------------------------------------------
LEMMA InitTypeOK == Init => TypeOK
<1> SUFFICES ASSUME Init PROVE TypeOK
  OBVIOUS
<1>1. lives \in 1..MaxLives /\ reapers \in [Task -> 0..MaxStops]
  BY LifecycleAssumption DEF Init
<1>2. /\ linger \in [Task -> BOOLEAN] /\ timed \in [Task -> BOOLEAN]
      /\ poller \in [Task -> BOOLEAN] /\ sh \in [Task -> BOOLEAN]
      /\ kids \in [Task -> BOOLEAN] /\ lifeline \in [Task -> BOOLEAN]
  BY DEF Init
<1>3. report \in [Task -> [out : Outcome \cup {"none"}, linger : BOOLEAN]]
  BY DEF Init, NoReport, Outcome
<1>4. QED
  BY <1>1, <1>2, <1>3
     DEF Init, TypeOK, Stages, StartPc, Rounds, WatchPc, Status, Why, KillWhy, Terminal,
         Outcome, Absent, NotSeen

LEMMA StepTypeOK == TypeOK /\ [Next]_vars => TypeOK'
<1> SUFFICES ASSUME TypeOK, [Next]_vars PROVE TypeOK'
  OBVIOUS
<1> USE LifecycleAssumption DEF TypeOK, vars, dmnVars, entryVars, loopVars, diskVars, osVars, Status, Terminal, Why, KillWhy, Outcome, Stages, StartPc, Rounds, WatchPc, Absent, Running, Orphaned, NoReport, NotSeen
<1>1. CASE Next
  <2>1. ASSUME NEW t \in Task, StartCheck(t) PROVE TypeOK'
    BY <2>1 DEF StartCheck
  <2>2. ASSUME NEW t \in Task, StartSpawn(t) PROVE TypeOK'
    BY <2>2 DEF StartSpawn, StartStep
  <2>3. ASSUME NEW t \in Task, StartPersist(t) PROVE TypeOK'
    BY <2>3 DEF StartPersist, StartStep
  <2>4. ASSUME NEW t \in Task, StartPersistFails(t) PROVE TypeOK'
    BY <2>4 DEF StartPersistFails, StartStep
  <2>5. ASSUME NEW t \in Task, StartInsert(t) PROVE TypeOK'
    BY <2>5 DEF StartInsert, StartStep
  <2>6. ASSUME NEW t \in Task, StartWatch(t) PROVE TypeOK'
    BY <2>6 DEF StartWatch, StartStep
  <2>7. ASSUME NEW t \in Task, Stop(t) PROVE TypeOK'
    BY <2>7 DEF Stop, RequestKill
  <2>8. ASSUME NEW t \in Task, MarkBackground(t) PROVE TypeOK'
    BY <2>8 DEF MarkBackground
  <2>9. ASSUME NEW t \in Task, BackgroundWrite(t) PROVE TypeOK'
    BY <2>9 DEF BackgroundWrite
  <2>10. ASSUME NEW t \in Task, BackgroundRename(t) PROVE TypeOK'
    BY <2>10 DEF BackgroundRename
  <2>11. ASSUME NEW t \in Task, ReaperFires(t) PROVE TypeOK'
    BY <2>11 DEF ReaperFires
  <2>12. ASSUME NEW t \in Task, ReaperKills(t) PROVE TypeOK'
    BY <2>12 DEF ReaperKills, KillGroup
  <2>13. ASSUME NEW t \in Task, TimeoutFires(t) PROVE TypeOK'
    BY <2>13 DEF TimeoutFires, RequestKill
  <2>14. ASSUME NEW t \in Task, TimeoutKills(t) PROVE TypeOK'
    BY <2>14 DEF TimeoutKills, KillGroup
  <2>15. ASSUME NEW t \in Task, WatchReport(t) PROVE TypeOK'
    BY <2>15 DEF WatchReport, LeftByReport
  <2>16. ASSUME NEW t \in Task, WatchRunnerExit(t) PROVE TypeOK'
    BY <2>16 DEF WatchRunnerExit
  <2>17. ASSUME NEW t \in Task, Finalize(t) PROVE TypeOK'
    <3>1. EndedRecord(t, seen[t].out) \in [status : Status, why : Why]
      BY DEF EndedRecord, TerminalStatus
    <3>2. TmpReplaced(t) \in {"never", "cloned", "written", "landed", "late"}
      BY DEF TmpReplaced
    <3>3. CASE IsRunning(t)
      <4>1. PICK saved \in Saved({t}) :
              /\ disk' = [disk EXCEPT ![t] = IF t \in saved THEN EndedRecord(t, seen[t].out) ELSE @]
              /\ bg' = [bg EXCEPT ![t] = IF t \in saved THEN TmpReplaced(t) ELSE @]
        BY <2>17, <3>3 DEF Finalize
      <4>2. /\ disk' \in [Task -> [status : Status, why : Why]]
            /\ bg' \in [Task -> {"never", "cloned", "written", "landed", "late"}]
        BY <3>1, <3>2, <4>1
      <4>3. /\ watch' = [watch EXCEPT ![t] = IF @ = "drain" THEN "reap" ELSE "done"]
            /\ mem' = [mem EXCEPT ![t] = EndedRecord(t, seen[t].out)]
            /\ exits' = [exits EXCEPT ![t] = @ + 1]
            /\ linger' = IF Leftover(t) THEN [linger EXCEPT ![t] = TRUE] ELSE linger
            /\ poller' = IF Probed(t) THEN [poller EXCEPT ![t] = TRUE] ELSE poller
        BY <2>17, <3>3 DEF Finalize
      <4>4. linger' \in [Task -> BOOLEAN] /\ poller' \in [Task -> BOOLEAN]
        BY <4>3
      <4>7. /\ watch' \in [Task -> WatchPc]
            /\ mem' \in [Task -> [status : Status, why : Why]]
            /\ exits' \in [Task -> Nat]
        BY <3>1, <4>3
      <4>5. UNCHANGED <<dmnVars, startPc, reason, timed, seen, reapers, hard, doomed, osVars>>
        BY <2>17 DEF Finalize
      <4>6. QED
        BY <4>2, <4>4, <4>5, <4>7
    <3>4. CASE ~IsRunning(t)
      BY <2>17, <3>4 DEF Finalize
    <3>5. QED
      BY <3>3, <3>4
  <2>18. ASSUME NEW t \in Task, ReapRunner(t) PROVE TypeOK'
    BY <2>18 DEF ReapRunner
  <2>19. ASSUME NEW t \in Task, GuardianGone(t) PROVE TypeOK'
    BY <2>19 DEF GuardianGone
  <2>20. ASSUME NEW t \in Task, GroupPoll(t) PROVE TypeOK'
    BY <2>20 DEF GroupPoll
  <2>21. ASSUME NEW t \in Task, ShellExits(t) PROVE TypeOK'
    BY <2>21 DEF ShellExits
  <2>22. ASSUME NEW t \in Task, Fork(t) PROVE TypeOK'
    BY <2>22 DEF Fork
  <2>23. ASSUME NEW t \in Task, KidsExit(t) PROVE TypeOK'
    BY <2>23 DEF KidsExit
  <2>24. ASSUME NEW t \in Task, RunnerReports(t) PROVE TypeOK'
    <3>1. PICK out \in {"ok", "fail", "signal"}, l \in {kids[t], TRUE} :
            report' = [report EXCEPT ![t] = [out |-> out, linger |-> l]]
      BY <2>24 DEF RunnerReports
    <3>2. l \in BOOLEAN
      OBVIOUS
    <3>3. QED
      BY <2>24, <3>1, <3>2 DEF RunnerReports
  <2>25. ASSUME NEW t \in Task, RunnerExits(t) PROVE TypeOK'
    BY <2>25 DEF RunnerExits, Exited
  <2>26. ASSUME NEW t \in Task, LifelineBroken(t) PROVE TypeOK'
    BY <2>26 DEF LifelineBroken
  <2>27. ASSUME NEW t \in Task, RunnerKilled(t) PROVE TypeOK'
    BY <2>27 DEF RunnerKilled, Exited
  <2>28. ASSUME NEW t \in Task, ShutdownKills(t) PROVE TypeOK'
    BY <2>28 DEF ShutdownKills, KillGroup
  <2>29. ASSUME NEW t \in Task, CrashWhileFinalizing(t) PROVE TypeOK'
    BY <2>29 DEF CrashWhileFinalizing, ManagerEnds, EndedRecord, TerminalStatus
  <2>30. ASSUME NEW s, ShutdownSession(s) PROVE TypeOK'
    BY <2>30 DEF ShutdownSession, RequestKill
  <2>31. ASSUME ShutdownAsked PROVE TypeOK'
    BY <2>31 DEF ShutdownAsked
  <2>32. ASSUME ShutdownRefresh PROVE TypeOK'
    BY <2>32 DEF ShutdownRefresh, Refreshed
  <2>33. ASSUME ShutdownTerminate PROVE TypeOK'
    BY <2>33 DEF ShutdownTerminate, RequestKill
  <2>34. ASSUME ShutdownKill PROVE TypeOK'
    BY <2>34 DEF ShutdownKill, Refreshed
  <2>35. ASSUME ShutdownSettle PROVE TypeOK'
    BY <2>35 DEF ShutdownSettle
  <2>36. ASSUME ShutdownForce PROVE TypeOK'
    BY <2>36 DEF ShutdownForce, Unrecorded, ForcedRecord, TmpReplaced
  <2>37. ASSUME ShutdownExit PROVE TypeOK'
    BY <2>37 DEF ShutdownExit, ManagerEnds
  <2>38. ASSUME Crash PROVE TypeOK'
    BY <2>38 DEF Crash, ManagerEnds
  <2>39. ASSUME Restart PROVE TypeOK'
    BY <2>39 DEF Restart
  <2>40. QED
    BY <1>1, <2>1, <2>2, <2>3, <2>4, <2>5, <2>6, <2>7, <2>8, <2>9, <2>10, <2>11, <2>12, <2>13,
       <2>14, <2>15, <2>16, <2>17, <2>18, <2>19, <2>20, <2>21, <2>22, <2>23, <2>24, <2>25, <2>26,
       <2>27, <2>28, <2>29, <2>30, <2>31, <2>32, <2>33, <2>34, <2>35, <2>36, <2>37, <2>38, <2>39
       DEF Next, StartActions, RequestActions, WatchActions, GroupActions, ShutdownActions
<1>2. CASE UNCHANGED vars
  BY <1>2
<1>3. QED
  BY <1>1, <1>2

LEMMA RecordsQuiet == Records /\ UNCHANGED recordVars => Records'
  BY DEF Records, recordVars, NothingInMemory, StartIsFirst, RunningIsFresh, NoEarlyExit,
         RecordsAgree, RequestedKillSticks, ExitLoggedOnce, Up, IsRunning

LEMMA StepRecords == TypeOK /\ Records /\ [Next]_vars => Records'
<1> SUFFICES ASSUME TypeOK, Records, [Next]_vars PROVE Records'
  OBVIOUS
<1> USE DEF vars, dmnVars, entryVars, loopVars, diskVars, osVars
<1>1. CASE UNCHANGED recordVars
  BY <1>1, RecordsQuiet
<1>2. CASE Next
  <2> USE DEF recordVars
  <2>1. ASSUME NEW t \in Task, ReaperFires(t) PROVE UNCHANGED recordVars
    BY <2>1 DEF ReaperFires
  <2>2. ASSUME NEW t \in Task, ReaperKills(t) PROVE UNCHANGED recordVars
    BY <2>2 DEF ReaperKills, KillGroup
  <2>3. ASSUME NEW t \in Task, TimeoutKills(t) PROVE UNCHANGED recordVars
    BY <2>3 DEF TimeoutKills, KillGroup
  <2>4. ASSUME NEW t \in Task, WatchReport(t) PROVE UNCHANGED recordVars
    BY <2>4 DEF WatchReport
  <2>5. ASSUME NEW t \in Task, WatchRunnerExit(t) PROVE UNCHANGED recordVars
    BY <2>5 DEF WatchRunnerExit
  <2>6. ASSUME NEW t \in Task, ReapRunner(t) PROVE UNCHANGED recordVars
    BY <2>6 DEF ReapRunner
  <2>7. ASSUME NEW t \in Task, GuardianGone(t) PROVE UNCHANGED recordVars
    BY <2>7 DEF GuardianGone
  <2>8. ASSUME NEW t \in Task, GroupPoll(t) PROVE UNCHANGED recordVars
    BY <2>8 DEF GroupPoll
  <2>9. ASSUME NEW t \in Task, ShellExits(t) PROVE UNCHANGED recordVars
    BY <2>9 DEF ShellExits
  <2>10. ASSUME NEW t \in Task, Fork(t) PROVE UNCHANGED recordVars
    BY <2>10 DEF Fork
  <2>11. ASSUME NEW t \in Task, KidsExit(t) PROVE UNCHANGED recordVars
    BY <2>11 DEF KidsExit
  <2>12. ASSUME NEW t \in Task, RunnerReports(t) PROVE UNCHANGED recordVars
    BY <2>12 DEF RunnerReports
  <2>13. ASSUME NEW t \in Task, RunnerExits(t) PROVE UNCHANGED recordVars
    BY <2>13 DEF RunnerExits
  <2>14. ASSUME NEW t \in Task, LifelineBroken(t) PROVE UNCHANGED recordVars
    BY <2>14 DEF LifelineBroken
  <2>15. ASSUME NEW t \in Task, RunnerKilled(t) PROVE UNCHANGED recordVars
    BY <2>15 DEF RunnerKilled
  <2>16. ASSUME NEW t \in Task, ShutdownKills(t) PROVE UNCHANGED recordVars
    BY <2>16 DEF ShutdownKills, KillGroup
  <2>17. ASSUME ShutdownAsked PROVE UNCHANGED recordVars
    BY <2>17 DEF ShutdownAsked
  <2>18. ASSUME ShutdownRefresh PROVE UNCHANGED recordVars
    BY <2>18 DEF ShutdownRefresh
  <2>19. ASSUME ShutdownKill PROVE UNCHANGED recordVars
    BY <2>19 DEF ShutdownKill
  <2>20. ASSUME ShutdownSettle PROVE UNCHANGED recordVars
    BY <2>20 DEF ShutdownSettle
  <2> HIDE DEF recordVars
  <2> USE DEF TypeOK, Records, NothingInMemory, StartIsFirst, RunningIsFresh, NoEarlyExit,
          RecordsAgree, RequestedKillSticks, ExitLoggedOnce, Up, IsRunning, DisksWork,
          Status, Terminal, Why, KillWhy, Outcome, Stages, StartPc, Rounds, WatchPc, Absent, Running, Orphaned, NoReport, NotSeen
  <2>21. ASSUME NEW t \in Task, StartCheck(t) PROVE Records'
    BY <2>21 DEF StartCheck
  <2>22. ASSUME NEW t \in Task, StartSpawn(t) PROVE Records'
    BY <2>22 DEF StartSpawn, StartStep
  <2>23. ASSUME NEW t \in Task, StartPersist(t) PROVE Records'
    BY <2>23 DEF StartPersist, StartStep
  <2>24. ASSUME NEW t \in Task, StartPersistFails(t) PROVE Records'
    BY <2>24 DEF StartPersistFails, StartStep
  <2>25. ASSUME NEW t \in Task, StartInsert(t) PROVE Records'
    BY <2>25 DEF StartInsert, StartStep
  <2>26. ASSUME NEW t \in Task, StartWatch(t) PROVE Records'
    BY <2>26 DEF StartWatch, StartStep
  <2>27. ASSUME NEW t \in Task, Stop(t) PROVE Records'
    BY <2>27 DEF Stop, RequestKill
  <2>28. ASSUME NEW t \in Task, MarkBackground(t) PROVE Records'
    BY <2>28 DEF MarkBackground
  <2>29. ASSUME NEW t \in Task, BackgroundWrite(t) PROVE Records'
    BY <2>29 DEF BackgroundWrite, Saved, DisksWork
  <2>30. ASSUME NEW t \in Task, BackgroundRename(t) PROVE Records'
    BY <2>30 DEF BackgroundRename
  <2>31. ASSUME NEW t \in Task, TimeoutFires(t) PROVE Records'
    BY <2>31 DEF TimeoutFires, RequestKill
  <2>32. ASSUME NEW t \in Task, Finalize(t) PROVE Records'
    <3>1. CASE ~IsRunning(t)
      BY <2>32, <3>1, RecordsQuiet DEF Finalize, recordVars
    <3>2. CASE IsRunning(t)
      <4> DEFINE ended == EndedRecord(t, seen[t].out)
      <4>1. /\ mem' = [mem EXCEPT ![t] = ended]
            /\ exits' = [exits EXCEPT ![t] = @ + 1]
            /\ UNCHANGED <<daemon, crashed, startPc, reason>>
        BY <2>32, <3>2 DEF Finalize
      <4>2. PICK saved \in Saved({t}) :
              /\ disk' = [disk EXCEPT ![t] = IF t \in saved THEN ended ELSE @]
              /\ bg' = [bg EXCEPT ![t] = IF t \in saved THEN TmpReplaced(t) ELSE @]
        BY <2>32, <3>2 DEF Finalize
      <4>3. /\ ended.status \in {"completed", "failed", "killed"}
            /\ reason[t] # "none" => ended = [status |-> "killed", why |-> reason[t]]
        BY DEF EndedRecord, TerminalStatus
      <4>4. TmpReplaced(t) # "late" /\ bg[t] # "late"
        BY <3>2 DEF TmpReplaced
      <4>5. DisksWork => saved = {t}
        BY <4>2 DEF Saved
      <4>6. Up
        BY <2>32 DEF Finalize
      <4> HIDE DEF ended
      <4>7. QED
        BY <3>2, <4>1, <4>2, <4>3, <4>4, <4>5, <4>6
    <3>3. QED
      BY <3>1, <3>2
  <2>33. ASSUME NEW t \in Task, CrashWhileFinalizing(t) PROVE Records'
    BY <2>33 DEF CrashWhileFinalizing, ManagerEnds, EndedRecord, TerminalStatus
  <2>34. ASSUME NEW s, ShutdownSession(s) PROVE Records'
    BY <2>34 DEF ShutdownSession, RequestKill
  <2>35. ASSUME ShutdownTerminate PROVE Records'
    BY <2>35 DEF ShutdownTerminate, RequestKill
  <2>36. ASSUME ShutdownForce PROVE Records'
    BY <2>36 DEF ShutdownForce, Unrecorded, ForcedRecord, TmpReplaced, Saved
  <2>37. ASSUME ShutdownExit PROVE Records'
    BY <2>37 DEF ShutdownExit, ManagerEnds
  <2>38. ASSUME Crash PROVE Records'
    BY <2>38 DEF Crash, ManagerEnds
  <2>39. ASSUME Restart PROVE Records'
    <3> DEFINE left == {t \in Task : disk[t].status = "running"}
    <3>1. PICK saved \in Saved(left) :
            disk' = [t \in Task |-> IF t \in saved THEN Orphaned ELSE disk[t]]
      BY <2>39 DEF Restart
    <3>2. DisksWork => saved = left
      BY <3>1 DEF Saved
    <3>3. /\ ~Up /\ Up'
          /\ mem' = [t \in Task |-> IF t \in left THEN Orphaned ELSE disk[t]]
          /\ exits' = [t \in Task |-> IF t \in left THEN exits[t] + 1 ELSE exits[t]]
          /\ UNCHANGED <<crashed, startPc, reason, bg>>
      BY <2>39 DEF Restart
    <3>4. saved \subseteq left
      BY <3>1 DEF Saved
    <3>5. StartIsFirst'
      <4> SUFFICES ASSUME NEW t \in Task,
                          startPc[t] \in {"none", "checked", "spawned", "persisted"}
                   PROVE  /\ mem'[t] = Absent /\ disk'[t] = Absent /\ startPc[t] = "none"
                          /\ reason[t] = "none" /\ bg[t] = "never" /\ exits'[t] = 0
        BY <3>3
      <4>1. startPc[t] = "none"
        BY <3>3
      <4>2. disk[t] = Absent /\ exits[t] = 0 /\ reason[t] = "none" /\ bg[t] = "never"
        BY <4>1
      <4>3. t \notin left
        BY <4>2
      <4>4. QED
        BY <3>1, <3>3, <3>4, <4>1, <4>2, <4>3
    <3>6. RunningIsFresh'
      BY <3>1, <3>3, <3>4
    <3>7. NoEarlyExit'
      BY <3>1, <3>2, <3>3
    <3>8. RecordsAgree'
      BY <3>1, <3>2, <3>3
    <3>9. RequestedKillSticks'
      BY <3>1, <3>3
    <3>10. ExitLoggedOnce'
      BY <3>1, <3>2, <3>3
    <3>11. QED
      BY <3>3, <3>5, <3>6, <3>7, <3>8, <3>9, <3>10
  <2>40. QED
    BY <1>1, <1>2, <2>1, <2>2, <2>3, <2>4, <2>5, <2>6, <2>7, <2>8, <2>9, <2>10, <2>11, <2>12,
       <2>13, <2>14, <2>15, <2>16, <2>17, <2>18, <2>19, <2>20, <2>21, <2>22, <2>23, <2>24, <2>25,
       <2>26, <2>27, <2>28, <2>29, <2>30, <2>31, <2>32, <2>33, <2>34, <2>35, <2>36, <2>37, <2>38,
       <2>39
       DEF Next, StartActions, RequestActions, WatchActions, GroupActions, ShutdownActions
<1>3. CASE UNCHANGED vars
  BY <1>3, <1>1 DEF recordVars
<1>4. QED
  BY <1>2, <1>3

-----------------------------------------------------------------------------
(* The groups *)

(* A task this manager started; the lifelines of earlier ones are broken. *)
Mine(t) == lifeline[t]

Killing == {"kill", "kill-again"}
Watching == {"await", "drain", "drain-exited"} \cup Killing

(* How far the start of a task has come, and who knows it. *)
StartOk(t) ==
  /\ Mine(t) => Up
  /\ startPc[t] \in {"none", "checked"} =>
       ~Mine(t) /\ runner[t] = "none" /\ report[t] = NoReport /\ ~HasOthers(t)
  /\ startPc[t] \in {"spawned", "persisted", "inserted"} =>
       Mine(t) /\ watch[t] = "off" /\ runner[t] \in {"alive", "zombie"}
  /\ startPc[t] = "done" /\ Mine(t) => watch[t] # "off"
  /\ watch[t] # "off" => Mine(t) /\ startPc[t] = "done"

(* What the daemon holds of a task. *)
HeldOk(t) ==
  /\ IsRunning(t) => startPc[t] \in {"inserted", "done"} /\ Mine(t) /\ watch[t] \in {"off"} \cup Watching
  /\ startPc[t] = "inserted" \/ watch[t] \in Watching => IsRunning(t) \/ stage = "sealed"
  /\ linger[t] => watch[t] \in {"reap", "reaped", "done"}
  /\ poller[t] => watch[t] = "done"
  /\ linger[t] /\ watch[t] = "done" => poller[t]
  /\ doomed[t] # "off" => stage = "killing"
  /\ hard[t] # "off" \/ doomed[t] # "off" => startPc[t] \in {"inserted", "done"} /\ Mine(t)

(* What the exit watch knows of the runner. *)
RunnerOk(t) ==
  /\ watch[t] \in {"await", "drain", "reap"} \cup Killing => runner[t] \in {"alive", "zombie"}
  /\ watch[t] \in {"drain-exited", "reaped"} => runner[t] = "gone"
  /\ Mine(t) /\ startPc[t] # "failed" /\ runner[t] \in {"zombie", "gone"} /\ HasOthers(t) =>
       "runner-killed" \in Ops \/ BeingKilled(t)

(* What the exit watch knows of the rest of the group. *)
LeftOk(t) ==
  /\ report[t].out # "none" => ~sh[t] /\ (kids[t] => report[t].linger)
  /\ watch[t] \in {"drain", "reap", "reaped"} => seen[t].left \in {"none", "guarded"}
  /\ watch[t] = "drain-exited" => seen[t].left \in {"none", "probe"}
  /\ watch[t] \in {"drain", "drain-exited", "reap", "reaped", "done"} /\ HasOthers(t) =>
       seen[t].left # "none"
  /\ watch[t] \in {"reap", "reaped", "done"} /\ HasOthers(t) =>
       \/ linger[t] \/ stage = "sealed"
       \/ watch[t] = "done" /\ seen[t].left = "guarded" /\ (BeingKilled(t) \/ GuardianLost(t))

GroupOk(t) == StartOk(t) /\ HeldOk(t) /\ RunnerOk(t) /\ LeftOk(t)

(* Every live group is held: the inductive invariant for LiveGroupOwned    *)
(* and PgidHeld.                                                           *)
GroupsHeld == \A t \in Task : GroupOk(t)

LEMMA InitGroups == Init => GroupsHeld
<1> SUFFICES ASSUME Init, NEW u \in Task PROVE GroupOk(u)
  BY DEF GroupsHeld
<1>1. /\ watch[u] = "off" /\ startPc[u] = "none" /\ mem[u] = Absent /\ ~linger[u] /\ ~poller[u]
      /\ runner[u] = "none" /\ ~sh[u] /\ ~kids[u] /\ report[u] = NoReport /\ ~lifeline[u]
      /\ hard[u] = "off" /\ doomed[u] = "off"
  BY DEF Init
<1>2. QED
  BY <1>1 DEF GroupOk, StartOk, HeldOk, RunnerOk, LeftOk, Mine, Watching, Killing,
         HasOthers, IsRunning, BeingKilled, Absent, NoReport

LEMMA StepGroups == TypeOK /\ GroupsHeld /\ [Next]_vars => GroupsHeld'
<1> SUFFICES ASSUME TypeOK, GroupsHeld, [Next]_vars, NEW u \in Task PROVE GroupOk(u)'
  BY DEF GroupsHeld
<1> USE DEF vars, dmnVars, entryVars, loopVars, diskVars, osVars
<1>0. GroupOk(u)
  BY DEF GroupsHeld
<1> USE DEF TypeOK, GroupOk, StartOk, HeldOk, RunnerOk, LeftOk, Mine, Watching, Killing,
        HasOthers, IsRunning, BeingKilled, GuardianLost, Up, NoReport, NotSeen, Absent, Running, Orphaned, Terminal, Stages, Rounds, WatchPc
<1>1. CASE Next
  <2>1. ASSUME NEW t \in Task, StartCheck(t) PROVE GroupOk(u)'
    BY <2>1, <1>0 DEF StartCheck
  <2>2. ASSUME NEW t \in Task, StartSpawn(t) PROVE GroupOk(u)'
    BY <2>2, <1>0 DEF StartSpawn, StartStep
  <2>3. ASSUME NEW t \in Task, StartPersist(t) PROVE GroupOk(u)'
    BY <2>3, <1>0 DEF StartPersist, StartStep
  <2>4. ASSUME NEW t \in Task, StartPersistFails(t) PROVE GroupOk(u)'
    BY <2>4, <1>0 DEF StartPersistFails, StartStep
  <2>5. ASSUME NEW t \in Task, StartInsert(t) PROVE GroupOk(u)'
    BY <2>5, <1>0 DEF StartInsert, StartStep
  <2>6. ASSUME NEW t \in Task, StartWatch(t) PROVE GroupOk(u)'
    BY <2>6, <1>0 DEF StartWatch, StartStep
  <2>7. ASSUME NEW t \in Task, Stop(t) PROVE GroupOk(u)'
    BY <2>7, <1>0 DEF Stop
  <2>8. ASSUME NEW t \in Task, MarkBackground(t) PROVE GroupOk(u)'
    BY <2>8, <1>0 DEF MarkBackground
  <2>9. ASSUME NEW t \in Task, BackgroundWrite(t) PROVE GroupOk(u)'
    BY <2>9, <1>0 DEF BackgroundWrite
  <2>10. ASSUME NEW t \in Task, BackgroundRename(t) PROVE GroupOk(u)'
    BY <2>10, <1>0 DEF BackgroundRename
  <2>11. ASSUME NEW t \in Task, ReaperFires(t) PROVE GroupOk(u)'
    BY <2>11, <1>0 DEF ReaperFires, OwnsLiveGroup
  <2>12. ASSUME NEW t \in Task, ReaperKills(t) PROVE GroupOk(u)'
    BY <2>12, <1>0 DEF ReaperKills, KillGroup
  <2>13. ASSUME NEW t \in Task, TimeoutFires(t) PROVE GroupOk(u)'
    BY <2>13, <1>0 DEF TimeoutFires
  <2>14. ASSUME NEW t \in Task, TimeoutKills(t) PROVE GroupOk(u)'
    BY <2>14, <1>0 DEF TimeoutKills, KillGroup
  <2>15. ASSUME NEW t \in Task, WatchReport(t) PROVE GroupOk(u)'
    BY <2>15, <1>0 DEF WatchReport, LeftByReport
  <2>16. ASSUME NEW t \in Task, WatchRunnerExit(t) PROVE GroupOk(u)'
    BY <2>16, <1>0 DEF WatchRunnerExit
  <2>17. ASSUME NEW t \in Task, Finalize(t) PROVE GroupOk(u)'
    BY <2>17, <1>0 DEF Finalize, Probed, Leftover, EndedRecord, TerminalStatus
  <2>18. ASSUME NEW t \in Task, ReapRunner(t) PROVE GroupOk(u)'
    BY <2>18, <1>0 DEF ReapRunner
  <2>19. ASSUME NEW t \in Task, GuardianGone(t) PROVE GroupOk(u)'
    BY <2>19, <1>0 DEF GuardianGone
  <2>20. ASSUME NEW t \in Task, GroupPoll(t) PROVE GroupOk(u)'
    BY <2>20, <1>0 DEF GroupPoll
  <2>21. ASSUME NEW t \in Task, ShellExits(t) PROVE GroupOk(u)'
    BY <2>21, <1>0 DEF ShellExits
  <2>22. ASSUME NEW t \in Task, Fork(t) PROVE GroupOk(u)'
    BY <2>22, <1>0 DEF Fork
  <2>23. ASSUME NEW t \in Task, KidsExit(t) PROVE GroupOk(u)'
    BY <2>23, <1>0 DEF KidsExit
  <2>24. ASSUME NEW t \in Task, RunnerReports(t) PROVE GroupOk(u)'
    <3>1. PICK out \in {"ok", "fail", "signal"}, l \in {kids[t], TRUE} :
            report' = [report EXCEPT ![t] = [out |-> out, linger |-> l]]
      BY <2>24 DEF RunnerReports
    <3>2. ~sh[t] /\ (kids[t] => l) /\ startPc[t] \notin {"none", "checked"}
      BY <2>24, <3>1 DEF RunnerReports, GroupsHeld
    <3>3. /\ report'[u] = IF u = t THEN [out |-> out, linger |-> l] ELSE report[u]
          /\ UNCHANGED <<dmnVars, startPc, entryVars, loopVars, diskVars, runner, sh, kids, lifeline>>
      BY <2>24, <3>1 DEF RunnerReports
    <3>4. /\ report'[u].out # "none" => ~sh[u] /\ (kids[u] => report'[u].linger)
          /\ startPc[u] \in {"none", "checked"} => report'[u] = NoReport
      <4>1. CASE u = t
        <5>1. report'[u] = [out |-> out, linger |-> l]
          BY <3>3, <4>1
        <5>2. report'[u].linger = l
          BY <5>1
        <5>3. QED
          BY <3>2, <4>1, <5>2
      <4>2. CASE u # t
        BY <1>0, <3>3, <4>2
      <4>3. QED
        BY <4>1, <4>2
    <3>5. QED
      BY <1>0, <3>3, <3>4
  <2>25. ASSUME NEW t \in Task, RunnerExits(t) PROVE GroupOk(u)'
    BY <2>25, <1>0 DEF RunnerExits, Exited
  <2>26. ASSUME NEW t \in Task, LifelineBroken(t) PROVE GroupOk(u)'
    BY <2>26, <1>0 DEF LifelineBroken
  <2>27. ASSUME NEW t \in Task, RunnerKilled(t) PROVE GroupOk(u)'
    BY <2>27, <1>0 DEF RunnerKilled, Exited
  <2>28. ASSUME NEW t \in Task, ShutdownKills(t) PROVE GroupOk(u)'
    BY <2>28, <1>0 DEF ShutdownKills, KillGroup
  <2>29. ASSUME NEW t \in Task, CrashWhileFinalizing(t) PROVE GroupOk(u)'
    BY <2>29, <1>0 DEF CrashWhileFinalizing, ManagerEnds
  <2>30. ASSUME NEW s, ShutdownSession(s) PROVE GroupOk(u)'
    BY <2>30, <1>0 DEF ShutdownSession
  <2>31. ASSUME ShutdownAsked PROVE GroupOk(u)'
    BY <2>31, <1>0 DEF ShutdownAsked
  <2>32. ASSUME ShutdownRefresh PROVE GroupOk(u)'
    BY <2>32, <1>0 DEF ShutdownRefresh, Refreshed
  <2>33. ASSUME ShutdownTerminate PROVE GroupOk(u)'
    BY <2>33, <1>0 DEF ShutdownTerminate
  <2>34. ASSUME ShutdownKill PROVE GroupOk(u)'
    BY <2>34, <1>0 DEF ShutdownKill, Refreshed
  <2>35. ASSUME ShutdownSettle PROVE GroupOk(u)'
    BY <2>35, <1>0 DEF ShutdownSettle
  <2>36. ASSUME ShutdownForce PROVE GroupOk(u)'
    BY <2>36, <1>0 DEF ShutdownForce, Unrecorded, ForcedRecord
  <2>37. ASSUME ShutdownExit PROVE GroupOk(u)'
    BY <2>37, <1>0 DEF ShutdownExit, ManagerEnds
  <2>38. ASSUME Crash PROVE GroupOk(u)'
    BY <2>38, <1>0 DEF Crash, ManagerEnds
  <2>39. ASSUME Restart PROVE GroupOk(u)'
    BY <2>39, <1>0 DEF Restart
  <2>40. QED
    BY <1>1, <2>1, <2>2, <2>3, <2>4, <2>5, <2>6, <2>7, <2>8, <2>9, <2>10, <2>11, <2>12, <2>13, <2>14, <2>15, <2>16, <2>17, <2>18, <2>19, <2>20, <2>21, <2>22, <2>23, <2>24, <2>25, <2>26, <2>27, <2>28, <2>29, <2>30, <2>31, <2>32, <2>33, <2>34, <2>35, <2>36, <2>37, <2>38, <2>39
       DEF Next, StartActions, RequestActions, WatchActions, GroupActions, ShutdownActions
<1>2. CASE UNCHANGED vars
  BY <1>0, <1>2
<1>3. QED
  BY <1>1, <1>2

-----------------------------------------------------------------------------
(* The contract *)

(* Without mark_background no record is written without the lock. *)
NoCopies == \A t \in Task : bg[t] = "never"

(* A record only ever has a value the contract knows. *)
RecordKnown ==
  \A t \in Task : disk[t] \in Contract!Ended \cup {Absent, Running, Orphaned}

LEMMA EndedIsEnded ==
  ASSUME TypeOK, NEW t \in Task
  PROVE  /\ EndedRecord(t, seen[t].out) \in Contract!Ended
         /\ ForcedRecord(t) \in Contract!Ended
<1>1. reason[t] \in KillWhy \cup {"none"}
  BY DEF TypeOK
<1>2. ForcedRecord(t) \in Contract!Ended
  BY <1>1 DEF ForcedRecord, Contract!Ended, Contract!KillWhy, KillWhy
<1>3. EndedRecord(t, seen[t].out) \in Contract!Ended
  BY <1>1 DEF EndedRecord, TerminalStatus, Contract!Ended, Contract!KillWhy, KillWhy
<1>4. QED
  BY <1>2, <1>3

LEMMA StepNoCopies ==
  ASSUME "background" \notin Ops, TypeOK, NoCopies, [Next]_vars
  PROVE  NoCopies'
<1> USE DEF NoCopies, vars, dmnVars, entryVars, loopVars, diskVars, osVars
<1>1. CASE Next
  <2>1. ASSUME NEW t \in Task, StartActions(t) PROVE UNCHANGED bg
    BY <2>1 DEF StartActions, StartCheck, StartSpawn, StartPersist, StartPersistFails, StartInsert,
       StartWatch, StartStep
  <2>2. ASSUME NEW t \in Task, RequestActions(t) PROVE UNCHANGED bg
    BY <2>2 DEF RequestActions, Stop, MarkBackground, BackgroundWrite, BackgroundRename
  <2>3. ASSUME NEW t \in Task, WatchActions(t) PROVE NoCopies'
    BY <2>3 DEF WatchActions, ReaperFires, ReaperKills, TimeoutFires, TimeoutKills, WatchReport,
       WatchRunnerExit, Finalize, TmpReplaced, ReapRunner, GuardianGone, GroupPoll, TypeOK
  <2>4. ASSUME NEW t \in Task, GroupActions(t) PROVE UNCHANGED bg
    BY <2>4 DEF GroupActions, ShellExits, Fork, KidsExit, RunnerReports, RunnerExits,
       LifelineBroken, RunnerKilled
  <2>5. ASSUME NEW s, ShutdownSession(s) PROVE UNCHANGED bg
    BY <2>5 DEF ShutdownSession
  <2>6. ASSUME ShutdownActions PROVE NoCopies'
    BY <2>6 DEF ShutdownActions, ShutdownAsked, ShutdownRefresh, ShutdownTerminate, ShutdownKill,
       ShutdownKills, ShutdownSettle, ShutdownForce, TmpReplaced, ShutdownExit, ManagerEnds
  <2>7. CASE Crash \/ (\E t \in Task : CrashWhileFinalizing(t)) \/ Restart
    BY <2>7 DEF Crash, CrashWhileFinalizing, ManagerEnds, Restart
  <2>8. QED
    BY <1>1, <2>1, <2>2, <2>3, <2>4, <2>5, <2>6, <2>7 DEF Next
<1>2. CASE UNCHANGED vars
  BY <1>2
<1>3. QED
  BY <1>1, <1>2

(* Every step is a step of the contract or leaves records and manager alone.*)
LEMMA StepContract ==
  ASSUME DisksWork, TypeOK, Records, NoCopies, RecordKnown, [Next]_vars
  PROVE  [Contract!Next]_(Contract!vars) /\ RecordKnown'
<1> USE DEF vars, dmnVars, entryVars, loopVars, diskVars, osVars
<1> DEFINE quiet == UNCHANGED <<daemon, disk>>
<1>q. ASSUME quiet PROVE [Contract!Next]_(Contract!vars) /\ RecordKnown'
  BY <1>q DEF Contract!vars, Up, RecordKnown
<1>1. CASE Next
  <2>1. ASSUME NEW t \in Task, StartActions(t), ~StartPersist(t) PROVE quiet
    BY <2>1 DEF StartActions, StartCheck, StartSpawn, StartPersistFails, StartInsert, StartWatch,
       StartStep
  <2>2. ASSUME NEW t \in Task, StartPersist(t)
        PROVE  [Contract!Next]_(Contract!vars) /\ RecordKnown'
    <3>1. Up /\ Up' /\ disk[t] = Absent /\ disk' = [disk EXCEPT ![t] = Running]
      BY <2>2 DEF StartPersist, StartStep, Up, Records, StartIsFirst
    <3>2. Contract!Start(t)
      BY <3>1 DEF Contract!Start, Absent, Running, Contract!Absent, Contract!Running
    <3>3. RecordKnown'
      BY <3>1 DEF RecordKnown, TypeOK
    <3>4. QED
      BY <3>2, <3>3 DEF Contract!Next
  <2>3. ASSUME NEW t \in Task, RequestActions(t) PROVE quiet
    BY <2>3 DEF RequestActions, Stop, MarkBackground, BackgroundWrite, BackgroundRename, NoCopies
  <2>4. ASSUME NEW t \in Task, WatchActions(t), ~(Finalize(t) /\ IsRunning(t)) PROVE quiet
    BY <2>4 DEF WatchActions, ReaperFires, ReaperKills, TimeoutFires, TimeoutKills, WatchReport,
       WatchRunnerExit, Finalize, ReapRunner, GuardianGone, GroupPoll, KillGroup
  <2>5. ASSUME NEW S \in SUBSET Task, Up, daemon' \in {"up", "down"},
               \A t \in S : IsRunning(t) /\ disk'[t] \in Contract!Ended,
               \A t \in Task \ S : disk'[t] = disk[t],
               disk' = [t \in Task |-> disk'[t]]
        PROVE  [Contract!Next]_(Contract!vars) /\ RecordKnown'
    <3>1. \A t \in S : disk[t] = Running
      BY <2>5 DEF Records, RunningIsFresh
    <3>2. RecordKnown'
      BY <2>5 DEF RecordKnown
    <3>3. Contract!Finish(S)
      BY <2>5, <3>1, <3>2 DEF Contract!Finish, RecordKnown, Up, Absent, Running, Orphaned,
         Contract!Absent, Contract!Running, Contract!Orphaned
    <3>4. QED
      BY <3>2, <3>3 DEF Contract!Next
  <2>6. ASSUME NEW t \in Task, Finalize(t), IsRunning(t)
        PROVE  [Contract!Next]_(Contract!vars) /\ RecordKnown'
    <3>1. disk' = [disk EXCEPT ![t] = EndedRecord(t, seen[t].out)]
      BY <2>6 DEF Finalize, Saved
    <3>2. Up /\ daemon' = "up"
      BY <2>6 DEF Finalize, Up
    <3>3. EndedRecord(t, seen[t].out) \in Contract!Ended
      BY EndedIsEnded
    <3>4. /\ disk' = [u \in Task |-> disk'[u]]
          /\ disk'[t] = EndedRecord(t, seen[t].out)
          /\ \A u \in Task \ {t} : disk'[u] = disk[u]
      BY <3>1 DEF TypeOK
    <3>5. {t} \in SUBSET Task
      OBVIOUS
    <3>6. (\A u \in {t} : IsRunning(u) /\ disk'[u] \in Contract!Ended) /\ daemon' \in {"up", "down"}
      BY <2>6, <3>2, <3>3, <3>4
    <3>7. QED
      BY <2>5, <3>2, <3>4, <3>5, <3>6
  <2>7. ASSUME NEW t \in Task, CrashWhileFinalizing(t)
        PROVE  [Contract!Next]_(Contract!vars) /\ RecordKnown'
    <3>1. /\ disk' = [disk EXCEPT ![t] = EndedRecord(t, seen[t].out)]
          /\ IsRunning(t) /\ Up /\ daemon' = "down"
      BY <2>7 DEF CrashWhileFinalizing, ManagerEnds
    <3>2. EndedRecord(t, seen[t].out) \in Contract!Ended
      BY EndedIsEnded
    <3>3. /\ disk' = [u \in Task |-> disk'[u]]
          /\ disk'[t] = EndedRecord(t, seen[t].out)
          /\ \A u \in Task \ {t} : disk'[u] = disk[u]
      BY <3>1 DEF TypeOK
    <3>4. {t} \in SUBSET Task
      OBVIOUS
    <3>5. (\A u \in {t} : IsRunning(u) /\ disk'[u] \in Contract!Ended) /\ daemon' \in {"up", "down"}
      BY <3>1, <3>2, <3>3
    <3>6. QED
      BY <2>5, <3>1, <3>3, <3>4, <3>5
  <2>8. ASSUME NEW t \in Task, GroupActions(t) PROVE quiet
    BY <2>8 DEF GroupActions, ShellExits, Fork, KidsExit, RunnerReports, RunnerExits,
       LifelineBroken, RunnerKilled
  <2>9. ASSUME NEW s, ShutdownSession(s) PROVE quiet
    BY <2>9 DEF ShutdownSession
  <2>10. ASSUME ShutdownActions, ~ShutdownForce, ~ShutdownExit PROVE quiet
    BY <2>10 DEF ShutdownActions, ShutdownAsked, ShutdownRefresh, ShutdownTerminate, ShutdownKill,
       ShutdownKills, ShutdownSettle, KillGroup
  <2>11. ASSUME ShutdownForce PROVE [Contract!Next]_(Contract!vars) /\ RecordKnown'
    <3>1. /\ disk' = [t \in Task |-> IF t \in Unrecorded THEN ForcedRecord(t) ELSE disk[t]]
          /\ Up /\ daemon' = "up"
      BY <2>11 DEF ShutdownForce, Saved, Up
    <3>2. /\ Unrecorded \in SUBSET Task
          /\ \A t \in Unrecorded : IsRunning(t) /\ disk'[t] \in Contract!Ended
          /\ \A t \in Task \ Unrecorded : disk'[t] = disk[t]
          /\ disk' = [t \in Task |-> disk'[t]]
      BY <3>1, EndedIsEnded DEF Unrecorded
    <3>3. QED
      BY <2>5, <3>1, <3>2
  <2>12. ASSUME Crash \/ ShutdownExit PROVE [Contract!Next]_(Contract!vars) /\ RecordKnown'
    <3>1. Up /\ ~Up' /\ UNCHANGED disk
      BY <2>12 DEF Crash, ShutdownExit, ManagerEnds, Up
    <3>2. QED
      BY <3>1 DEF Contract!Next, Contract!Die, RecordKnown
  <2>13. ASSUME Restart PROVE [Contract!Next]_(Contract!vars) /\ RecordKnown'
    <3> DEFINE left == {t \in Task : disk[t].status = "running"}
    <3>1. /\ disk' = [t \in Task |-> IF t \in left THEN Orphaned ELSE disk[t]]
          /\ ~Up /\ Up'
      BY <2>13 DEF Restart, Saved, Up
    <3>2. \A t \in Task : t \in left <=> disk[t] = Running
      BY DEF RecordKnown, Contract!Ended, Absent, Running, Orphaned
    <3>3. disk' = [t \in Task |-> IF disk[t] = Contract!Running THEN Contract!Orphaned ELSE disk[t]]
      BY <3>1, <3>2 DEF Running, Orphaned, Contract!Running, Contract!Orphaned
    <3>4. RecordKnown'
      BY <3>1 DEF RecordKnown
    <3>5. QED
      BY <3>1, <3>3, <3>4 DEF Contract!Next, Contract!Revive
  <2>14. QED
    BY <1>1, <1>q, <2>1, <2>2, <2>3, <2>4, <2>6, <2>7, <2>8, <2>9, <2>10, <2>11, <2>12, <2>13
       DEF Next
<1>2. CASE UNCHANGED vars
  BY <1>2, <1>q
<1>3. QED
  BY <1>1, <1>2

-----------------------------------------------------------------------------
(* Every variable keeps its type: the daemon never computes a status, a    *)
(* reason or a step that is not one of those listed (daemon.rs, runner.rs).*)
THEOREM TypeCorrect == Spec => []TypeOK
<1>1. Init => TypeOK
  BY InitTypeOK
<1>2. TypeOK /\ [Next]_vars => TypeOK'
  BY StepTypeOK
<1>3. QED
  BY <1>1, <1>2, PTL DEF Spec

LEMMA RecordsInvariant == Spec => []Records
<1>1. Init => Records
  BY DEF Init, Records, NothingInMemory, StartIsFirst, RunningIsFresh, NoEarlyExit, RecordsAgree,
         RequestedKillSticks, ExitLoggedOnce, Up, IsRunning, Absent, Terminal
<1>2. TypeOK /\ Records /\ [Next]_vars => Records'
  BY StepRecords
<1>3. QED
  BY <1>1, <1>2, TypeCorrect, PTL DEF Spec

(* A finished task in memory and its record on disk agree, whatever        *)
(* requests, faults and shutdowns interleave (finalize_exit,               *)
(* graceful_shutdown, scan_tasks), but for a late mark_background.         *)
THEOREM RecordsAlwaysAgree == Spec => []RecordsAgree
<1>1. Records => RecordsAgree
  BY DEF Records
<1>2. QED
  BY <1>1, RecordsInvariant, PTL

(* A kill that was requested while the task ran decides how it ends        *)
(* (request_kill, finalize_exit and the forced pass of the shutdown).      *)
THEOREM RequestedKillAlwaysSticks == Spec => []RequestedKillSticks
<1>1. Records => RequestedKillSticks
  BY DEF Records
<1>2. QED
  BY <1>1, RecordsInvariant, PTL

(* No second task.exit line for a task, and none missing without a crash   *)
(* (log_task_exit, scan_tasks), but for a late mark_background.            *)
THEOREM ExitAlwaysLoggedOnce == Spec => []ExitLoggedOnce
<1>1. Records => ExitLoggedOnce
  BY DEF Records
<1>2. QED
  BY <1>1, RecordsInvariant, PTL

LEMMA GroupsInvariant == Spec => []GroupsHeld
<1>1. Init => GroupsHeld
  BY InitGroups
<1>2. TypeOK /\ GroupsHeld /\ [Next]_vars => GroupsHeld'
  BY StepGroups
<1>3. QED
  BY <1>1, <1>2, TypeCorrect, PTL DEF Spec

(* The daemon never loses a live group between the status line, the        *)
(* guardian's exit, the polls and the shutdown's refreshes (finalize_exit, *)
(* run_exit_watch, spawn_group_watcher, graceful_shutdown), unless         *)
(* somebody else kills the guardian.                                       *)
THEOREM LiveGroupAlwaysOwned == Spec => []LiveGroupOwned
<1>1. TypeOK /\ GroupsHeld => LiveGroupOwned
  <2> SUFFICES ASSUME TypeOK, GroupsHeld, NEW t \in Task, Up, lifeline[t],
                      startPc[t] \in {"inserted", "done"}, HasOthers(t), stage # "sealed",
                      ~GuardianLost(t)
               PROVE  IsRunning(t) \/ linger[t] \/ BeingKilled(t)
    BY DEF LiveGroupOwned, GroupOwned, OwnsLiveGroup
  <2>1. StartOk(t) /\ HeldOk(t) /\ LeftOk(t)
    BY DEF GroupsHeld, GroupOk
  <2>2. watch[t] \in WatchPc
    BY DEF TypeOK
  <2>3. CASE startPc[t] = "inserted" \/ watch[t] \in Watching
    BY <2>1, <2>3 DEF HeldOk
  <2>4. CASE startPc[t] = "done" /\ watch[t] \notin Watching
    <3>1. watch[t] \in {"reap", "reaped", "done"}
      BY <2>1, <2>2, <2>4 DEF StartOk, Mine, Watching, Killing, WatchPc
    <3>2. QED
      BY <2>1, <3>1 DEF LeftOk
  <2>5. QED
    BY <2>3, <2>4
<1>2. QED
  BY <1>1, TypeCorrect, GroupsInvariant, PTL

(* Where a signal for a task's group may find its id free: only once the   *)
(* exit watch has reaped the runner, and then until the exit is recorded   *)
(* or the group is given up, between two polls of what is left, and in a   *)
(* kill decided before (TaskEntry::owns_live_group, arm_kill_reaper,       *)
(* kill_group_hard, run_exit_watch, spawn_group_watcher).  Never in the    *)
(* timeout's rounds.                                                       *)
THEOREM PgidAlwaysHeld == Spec => []PgidHeld
<1>1. TypeOK /\ GroupsHeld => PgidHeld
  <2> SUFFICES ASSUME TypeOK, GroupsHeld, NEW t \in Task,
                      OwnsLiveGroup(t) \/ BeingKilled(t), ~IdTaken(t),
                      watch[t] \notin {"drain-exited", "reaped"}
               PROVE  watch[t] = "done" /\ (poller[t] \/ hard[t] # "off" \/ doomed[t] # "off")
    BY DEF PgidHeld
  <2>1. StartOk(t) /\ HeldOk(t) /\ RunnerOk(t) /\ watch[t] \in WatchPc
    BY DEF GroupsHeld, GroupOk, TypeOK
  <2>2. runner[t] \notin {"alive", "zombie"}
    BY DEF IdTaken
  <2>3. watch[t] \in {"off", "done"}
    BY <2>1, <2>2 DEF RunnerOk, Killing, WatchPc
  <2>4. CASE watch[t] = "off"
    BY <2>1, <2>2, <2>4 DEF StartOk, HeldOk, OwnsLiveGroup, BeingKilled
  <2>5. CASE watch[t] = "done"
    BY <2>1, <2>5 DEF HeldOk, Watching, Killing, OwnsLiveGroup, BeingKilled
  <2>6. QED
    BY <2>3, <2>4, <2>5
<1>2. QED
  BY <1>1, TypeCorrect, GroupsInvariant, PTL

(* The record of a task keeps the contract its readers rely on: one        *)
(* terminal value, given by the manager that runs it or, orphaned, by the  *)
(* next one (finalize_exit, graceful_shutdown, scan_tasks).  It does as    *)
(* long as records can be written and mark_background, whose write takes   *)
(* no lock, is not used: both are known exceptions, see RecordsAgree.      *)
THEOREM ContractImplemented ==
  ASSUME DisksWork, "background" \notin Ops
  PROVE  Spec => ImplementsContract
<1>1. Init => Contract!Init /\ NoCopies /\ RecordKnown
  BY DEF Init, Contract!Init, Contract!Absent, Absent, Up, NoCopies, RecordKnown
<1>2. TypeOK /\ NoCopies /\ [Next]_vars => NoCopies'
  BY StepNoCopies
<1>3. TypeOK /\ Records /\ NoCopies /\ RecordKnown /\ [Next]_vars
        => [Contract!Next]_(Contract!vars) /\ RecordKnown'
  BY StepContract
<1>4. QED
  BY <1>1, <1>2, <1>3, TypeCorrect, RecordsInvariant, PTL DEF Spec, ImplementsContract, Contract!Spec
=============================================================================
