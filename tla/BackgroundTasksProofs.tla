------------------------ MODULE BackgroundTasksProofs ------------------------
(***************************************************************************)
(* What a row of the tasks table may say about the command, for every set  *)
(* of tasks and callers, however polls, stops, deaths of runners, reused   *)
(* pids and restarts interleave.                                           *)
(***************************************************************************)
EXTENDS BackgroundTasks, TLAPS

USE DEF TASK_TERMINAL_STATUSES, Statuses

-----------------------------------------------------------------------------
(* The inductive invariant, next to the types.                              *)

Ended == {"ok", "error"}

\* The runner writes nothing before its command has ended, and then the
\* command's own code.
ProcessInv ==
  \A t \in Tasks :
    /\ runner[t] = "none" <=> command[t] = "none"
    /\ runner[t] = "writing" => command[t] \in Ended
    /\ marker[t] # "absent" => command[t] \in Ended
    /\ marker[t] = "error" => command[t] = "error"

\* What a call has seen is still so when it acts on it.
CallInv ==
  \A c \in Callers :
    /\ call[c].pc # "idle" => runner[call[c].task] # "none"
    /\ call[c].pc = "read" => marker[call[c].task] # "absent"
    /\ call[c].pc = "outcome" =>
         /\ call[c].code \in Ended /\ command[call[c].task] \in Ended
         /\ call[c].code = "error" => command[call[c].task] = "error"

RowInv == OutcomeAfterCommand /\ NonzeroCodeIsTrue /\ RunnerMatchesRow

TaskInv == TypeOK /\ ProcessInv /\ CallInv /\ RowInv

\* Processes only go forward.
Onwards ==
  \A t \in Tasks :
    /\ runner[t] # "none" => runner'[t] # "none"
    /\ command[t] \in Ended => command'[t] = command[t]
    /\ marker[t] # "absent" => marker'[t] # "absent"

-----------------------------------------------------------------------------
(* Calls.                                                                   *)

\* A caller that moves on within its call.
LEMMA GotoFacts ==
  ASSUME CallTyped, NEW c \in Callers, NEW p \in CallPCs \ {"idle"},
         call[c].pc # "idle", Goto(c, p)
  PROVE  /\ CallTyped'
         /\ call'[c].pc = p
         /\ call'[c].task = call[c].task /\ call'[c].code = call[c].code
         /\ \A d \in Callers \ {c} : call'[d] = call[d]
<1>1. call[c] \in CallRecord
  BY DEF CallTyped
<1> QED
  BY <1>1 DEF Goto, CallTyped, CallRecord

\* A caller that returns.
LEMMA ReturnFacts ==
  ASSUME CallTyped, NEW c \in Callers, Return(c)
  PROVE  /\ CallTyped' /\ call'[c].pc = "idle"
         /\ \A d \in Callers \ {c} : call'[d] = call[d]
  BY DEF Return, CallTyped, CallRecord, CallPCs, Idle

\* The facts the calls rely on stay true while one caller returns, or goes
\* where it relies on none of them.
LEMMA SameCallInv ==
  ASSUME TypeOK, CallInv, Onwards, NEW c \in Callers,
         \A d \in Callers \ {c} : call'[d] = call[d],
         \/ call'[c] = call[c]
         \/ call'[c].pc = "idle"
         \/ /\ runner'[call'[c].task] # "none"
            /\ call'[c].pc \notin {"read", "outcome"}
  PROVE  CallInv'
<1>1. CASE call'[c] # call[c]
  <2> SUFFICES ASSUME NEW d \in Callers, d # c, call'[d].pc # "idle"
               PROVE  /\ runner'[call'[d].task] # "none"
                      /\ call'[d].pc = "read" => marker'[call'[d].task] # "absent"
                      /\ call'[d].pc = "outcome" =>
                           /\ call'[d].code \in Ended /\ command'[call'[d].task] \in Ended
                           /\ call'[d].code = "error" => command'[call'[d].task] = "error"
    BY <1>1 DEF CallInv, Ended
  <2>1. call'[d] = call[d] /\ call[d].task \in Tasks
    BY DEF TypeOK, CallTyped
  <2> QED
    BY <2>1 DEF CallInv, Onwards
<1>2. CASE call'[c] = call[c]
  <2> SUFFICES ASSUME NEW d \in Callers, call'[d].pc # "idle"
               PROVE  /\ runner'[call'[d].task] # "none"
                      /\ call'[d].pc = "read" => marker'[call'[d].task] # "absent"
                      /\ call'[d].pc = "outcome" =>
                           /\ call'[d].code \in Ended /\ command'[call'[d].task] \in Ended
                           /\ call'[d].code = "error" => command'[call'[d].task] = "error"
    BY DEF CallInv, Ended
  <2>1. call'[d] = call[d] /\ call[d].task \in Tasks
    BY <1>2 DEF TypeOK, CallTyped
  <2> QED
    BY <2>1 DEF CallInv, Onwards
<1> QED
  BY <1>1, <1>2

-----------------------------------------------------------------------------
(* The initial states.                                                      *)

LEMMA InitTaskInv == Init => TaskInv
<1> SUFFICES ASSUME Init PROVE TaskInv
  OBVIOUS
<1>1. TypeOK
  BY DEF Init, TypeOK, CallTyped, NoRow, Row, RunnerStates, CallRecord, CallPCs, Idle
<1>2. ProcessInv /\ CallInv
  BY DEF Init, ProcessInv, CallInv, Idle
<1>3. RowInv
  BY DEF Init, RowInv, OutcomeAfterCommand, NonzeroCodeIsTrue, RunnerMatchesRow, Recorded,
         NoRow
<1> QED
  BY <1>1, <1>2, <1>3 DEF TaskInv

-----------------------------------------------------------------------------
(* Steps: the processes first.                                              *)

\* Every step but these leaves commands and markers alone, and starts or
\* stops no runner other than by letting it exit.
LEMMA NextProcessInv ==
  ASSUME TaskInv, [Next]_vars
  PROVE  ProcessInv' /\ Onwards
<1> USE DEF TaskInv, TypeOK, Ended
<1>1. ASSUME UNCHANGED <<command, marker>>,
             \A t \in Tasks : \/ runner'[t] = runner[t]
                              \/ runner[t] # "none" /\ runner'[t] \notin {"none", "writing"}
      PROVE  ProcessInv' /\ Onwards
  BY <1>1 DEF ProcessInv, Onwards
<1>2. ASSUME NEW c \in Callers, StartRunner(c)
      PROVE  ProcessInv' /\ Onwards
  <2>1. PICK t \in Tasks :
          /\ runner[t] = "none"
          /\ runner' = [runner EXCEPT ![t] = "waiting"]
          /\ command' = [command EXCEPT ![t] = "running"]
    BY <1>2 DEF StartRunner
  <2>2. command[t] = "none"
    BY <2>1 DEF ProcessInv
  <2> QED
    BY <1>2, <2>1, <2>2 DEF StartRunner, ProcessInv, Onwards
<1>3. ASSUME NEW c \in Callers, Kill(c)
      PROVE  ProcessInv' /\ Onwards
  BY <1>1, <1>3 DEF Kill, Exited
<1>4. ASSUME NEW c \in Callers, CallStep(c), ~ StartRunner(c), ~ Kill(c)
      PROVE  UNCHANGED <<runner, command, marker>>
  BY <1>4 DEF CallStep, InsertTask, GetTask, CheckMarker, ReadMarker, WriteOutcome, CheckPid,
              WriteDead, KillRefused, WriteStopped
<1>5. ASSUME NEW t \in Tasks, CommandEnds(t)
      PROVE  ProcessInv' /\ Onwards
  BY <1>5 DEF CommandEnds, ProcessInv, Onwards
<1>6. ASSUME NEW t \in Tasks, OpenMarker(t)
      PROVE  ProcessInv' /\ Onwards
  BY <1>6 DEF OpenMarker, ProcessInv, Onwards
<1>7. ASSUME NEW t \in Tasks, WriteMarker(t)
      PROVE  ProcessInv' /\ Onwards
  <2>1. command[t] \in {"ok", "error"}
    BY <1>7 DEF WriteMarker, ProcessInv
  <2>2. /\ runner[t] = "writing"
        /\ runner' = [runner EXCEPT ![t] = IF child[t] THEN "zombie" ELSE "reaped"]
        /\ marker' = [marker EXCEPT ![t] = command[t]] /\ command' = command
    BY <1>7 DEF WriteMarker, Exited
  <2> QED
    BY <2>1, <2>2 DEF ProcessInv, Onwards
<1>8. ASSUME NEW t \in Tasks, RunnerDies(t) \/ Reap(t) \/ ReusePid(t)
      PROVE  ProcessInv' /\ Onwards
  BY <1>1, <1>8 DEF RunnerDies, Reap, ReusePid, Exited
<1>9. CASE Restart
  BY <1>1, <1>9 DEF Restart
<1>10. CASE UNCHANGED vars
  BY <1>1, <1>10 DEF vars
<1>11. CASE \E c \in Callers : CallStep(c)
  BY <1>1, <1>2, <1>3, <1>4, <1>11
<1>12. CASE \E t \in Tasks : ProcessStep(t) \/ RunnerDies(t) \/ Reap(t) \/ ReusePid(t)
  BY <1>5, <1>6, <1>7, <1>8, <1>12 DEF ProcessStep
<1> QED
  BY <1>9, <1>10, <1>11, <1>12 DEF Next

-----------------------------------------------------------------------------
(* Steps: types and calls.                                                  *)

LEMMA NextCallInv ==
  ASSUME TaskInv, [Next]_vars
  PROVE  TypeOK' /\ CallInv'
<1> USE DEF TaskInv, TypeOK
<1>0. Onwards
  BY NextProcessInv
<1>1. ASSUME NEW c \in Callers, StartRunner(c)
      PROVE  TypeOK' /\ CallInv'
  <2>1. PICK t \in Tasks :
          /\ runner' = [runner EXCEPT ![t] = "waiting"]
          /\ command' = [command EXCEPT ![t] = "running"]
          /\ child' = [child EXCEPT ![t] = TRUE]
          /\ call' = [call EXCEPT ![c] =
                        [Idle EXCEPT !.pc = "insert", !.op = "start", !.task = t]]
    BY <1>1 DEF StartRunner
  <2>2. /\ CallTyped' /\ call'[c].pc = "insert" /\ call'[c].task = t
        /\ \A d \in Callers \ {c} : call'[d] = call[d]
    BY <2>1 DEF CallTyped, CallRecord, CallPCs, Idle
  <2>3. CallInv'
    BY <1>0, <2>1, <2>2, SameCallInv
  <2> QED
    BY <1>1, <2>1, <2>2, <2>3 DEF StartRunner, RunnerStates
<1>2. ASSUME NEW c \in Callers, InsertTask(c) \/ WriteOutcome(c) \/ WriteDead(c) \/ WriteStopped(c)
      PROVE  TypeOK' /\ CallInv'
  <2>1. call[c].task \in Tasks
    BY <1>2 DEF InsertTask, WriteOutcome, WriteDead, WriteStopped, CallTyped
  <2>2. task' \in [Tasks -> Row]
    <3>1. CASE WriteOutcome(c)
      <4>1. call[c].code \in {"ok", "error"}
        BY <3>1 DEF WriteOutcome, CallInv, Ended
      <4> QED
        BY <2>1, <3>1, <4>1 DEF WriteOutcome, Row
    <3>2. CASE InsertTask(c) \/ WriteStopped(c)
      BY <2>1, <3>2 DEF InsertTask, WriteStopped, Row
    <3>3. CASE WriteDead(c)
      <4> DEFINE r == [task[call[c].task] EXCEPT !.status = "failed", !.note = "no_marker"]
      <4>0. task[call[c].task] \in Row
        BY <2>1
      <4>1. r \in Row
        <5> DEFINE old == task[call[c].task]
        <5>1. old \in Row
          BY <4>0
        <5> HIDE DEF old
        <5>2. [old EXCEPT !.status = "failed", !.note = "no_marker"] \in Row
          BY <5>1 DEF Row
        <5> QED
          BY <5>2 DEF old
      <4>2. task' = [task EXCEPT ![call[c].task] = r]
        BY <2>1, <3>3 DEF WriteDead
      <4> HIDE DEF r
      <4> QED
        BY <2>1, <4>1, <4>2
    <3> QED
      BY <1>2, <3>1, <3>2, <3>3
  <2>3. Return(c)
    BY <1>2 DEF InsertTask, WriteOutcome, WriteDead, WriteStopped
  <2>4. UNCHANGED <<runner, command, marker, child, restarts, enable_http>>
    BY <1>2 DEF InsertTask, WriteOutcome, WriteDead, WriteStopped
  <2>5. CallTyped' /\ CallInv'
    BY <1>0, <2>3, ReturnFacts, SameCallInv
  <2> QED
    BY <2>2, <2>4, <2>5
<1>3. ASSUME NEW c \in Callers, NEW t \in Tasks, NEW op \in {"status", "stop"}, GetTask(c, t, op)
      PROVE  TypeOK' /\ CallInv'
  <2>1. /\ CallTyped' /\ call'[c].pc = "marker" /\ call'[c].task = t
        /\ \A d \in Callers \ {c} : call'[d] = call[d]
    BY <1>3 DEF GetTask, CallTyped, CallRecord, CallPCs, Idle
  <2>2. runner[t] # "none" /\ runner' = runner
    BY <1>3 DEF GetTask, RowInv, RunnerMatchesRow
  <2> QED
    BY <1>0, <1>3, <2>1, <2>2, SameCallInv DEF GetTask
<1>4. ASSUME NEW c \in Callers, CheckMarker(c)
      PROVE  TypeOK' /\ CallInv'
  <2>1. call[c].task \in Tasks /\ runner[call[c].task] # "none"
    BY <1>4 DEF CheckMarker, CallTyped, CallInv
  <2>2. CASE marker[call[c].task] = "absent"
    <3>1. Goto(c, "pid")
      BY <1>4, <2>2 DEF CheckMarker
    <3>2. CallTyped' /\ CallInv'
      BY <1>0, <1>4, <2>1, <3>1, GotoFacts, SameCallInv DEF CheckMarker, CallPCs
    <3> QED
      BY <1>4, <3>2 DEF CheckMarker
  <2>3. CASE marker[call[c].task] # "absent"
    <3>1. Goto(c, "read") /\ UNCHANGED <<task, runner, command, marker, child, restarts, enable_http>>
      BY <1>4, <2>3 DEF CheckMarker
    <3>2. /\ CallTyped' /\ call'[c].pc = "read" /\ call'[c].task = call[c].task
          /\ \A d \in Callers \ {c} : call'[d] = call[d]
      BY <1>4, <3>1, GotoFacts DEF CheckMarker, CallPCs
    <3>3. CallInv'
      BY <2>1, <2>3, <3>1, <3>2 DEF CallInv
    <3> QED
      BY <3>1, <3>2, <3>3
  <2> QED
    BY <2>2, <2>3
<1>5. ASSUME NEW c \in Callers, ReadMarker(c)
      PROVE  TypeOK' /\ CallInv'
  <2> DEFINE t == call[c].task
  <2>1. t \in Tasks /\ runner[t] # "none" /\ marker[t] # "absent"
    BY <1>5 DEF ReadMarker, CallTyped, CallInv
  <2>2. /\ exit_code(marker[t]) \in Ended /\ command[t] \in Ended
        /\ exit_code(marker[t]) = "error" => command[t] = "error"
    BY <2>1 DEF exit_code, ProcessInv, Ended
  <2>3. /\ CallTyped' /\ call'[c].pc = "outcome" /\ call'[c].task = t
        /\ call'[c].code = exit_code(marker[t])
        /\ \A d \in Callers \ {c} : call'[d] = call[d]
    BY <1>5, <2>1, <2>2 DEF ReadMarker, CallTyped, CallRecord, CallPCs, Ended
  <2>4. UNCHANGED <<task, runner, command, marker, child, restarts, enable_http>>
    BY <1>5 DEF ReadMarker
  <2>5. CallInv'
    BY <2>1, <2>2, <2>3, <2>4 DEF CallInv
  <2> QED
    BY <2>3, <2>4, <2>5
<1>6. ASSUME NEW c \in Callers, CheckPid(c) \/ KillRefused(c)
      PROVE  TypeOK' /\ CallInv'
  <2>1. /\ call[c].pc \in {"pid", "kill"} /\ UNCHANGED <<task, runner, command, marker, child, restarts, enable_http>>
        /\ Goto(c, "dead") \/ Return(c) \/ Goto(c, "kill")
    BY <1>6 DEF CheckPid, KillRefused
  <2>2. runner'[call[c].task] # "none"
    BY <2>1 DEF CallInv
  <2>3. CallTyped' /\ CallInv'
    BY <1>0, <2>1, <2>2, GotoFacts, ReturnFacts, SameCallInv DEF CallPCs
  <2> QED
    BY <2>1, <2>3
<1>7. ASSUME NEW c \in Callers, Kill(c)
      PROVE  TypeOK' /\ CallInv'
  <2>1. call[c].pc = "kill" /\ Goto(c, "stopped") /\ call[c].task \in Tasks
    BY <1>7 DEF Kill, CallTyped
  <2>2. runner'[call[c].task] # "none"
    BY <1>0, <2>1 DEF Onwards, CallInv
  <2>3. CallTyped' /\ CallInv'
    BY <1>0, <2>1, <2>2, GotoFacts, SameCallInv DEF CallPCs
  <2> QED
    BY <1>7, <2>3 DEF Kill, Exited, RunnerStates
<1>8. ASSUME call' = call
      PROVE  CallTyped' /\ CallInv'
  <2>1. CallTyped'
    BY <1>8 DEF CallTyped
  <2>2. ASSUME NEW c \in Callers PROVE CallInv'
    BY <1>0, <1>8, SameCallInv
  <2> QED
    BY <2>1, <2>2 DEF CallInv
<1>9. ASSUME NEW t \in Tasks,
             ProcessStep(t) \/ RunnerDies(t) \/ Reap(t) \/ ReusePid(t)
      PROVE  TypeOK' /\ CallInv'
  <2>1. ASSUME WriteMarker(t) PROVE command[t] \in {"ok", "error"}
    BY <2>1 DEF WriteMarker, ProcessInv, Ended
  <2>2. UNCHANGED <<task, child, call, restarts, enable_http>>
    BY <1>9 DEF ProcessStep, CommandEnds, OpenMarker, WriteMarker, RunnerDies, Reap, ReusePid
  <2>3. /\ runner' \in [Tasks -> RunnerStates]
        /\ command' \in [Tasks -> {"none", "running", "ok", "error"}]
        /\ marker' \in [Tasks -> {"absent", "empty", "ok", "error"}]
    BY <1>9, <2>1
    DEF ProcessStep, CommandEnds, OpenMarker, WriteMarker, RunnerDies, Reap, ReusePid, Exited,
        RunnerStates
  <2> QED
    BY <1>8, <2>2, <2>3
<1>10. CASE Restart
  <2>1. CallTyped' /\ \A d \in Callers : call'[d].pc = "idle"
    BY <1>10 DEF Restart, CallTyped, CallRecord, CallPCs, Idle
  <2>2. CallInv'
    BY <2>1 DEF CallInv
  <2>3. runner' \in [Tasks -> RunnerStates] /\ restarts' \in Nat
    BY <1>10, TaskAssumption DEF Restart, RunnerStates
  <2> QED
    BY <1>10, <2>1, <2>2, <2>3 DEF Restart
<1>11. CASE UNCHANGED vars
  BY <1>8, <1>11 DEF vars
<1> QED
  BY <1>1, <1>2, <1>3, <1>4, <1>5, <1>6, <1>7, <1>9, <1>10, <1>11 DEF Next, CallStep

-----------------------------------------------------------------------------
(* Steps: rows.                                                             *)

LEMMA NextRowInv ==
  ASSUME TaskInv, [Next]_vars
  PROVE  RowInv'
<1> USE DEF TaskInv, TypeOK
<1>0. Onwards
  BY NextProcessInv
\* No row is touched, no runner started, and no start interrupted.
<1>1. ASSUME task' = task, restarts' = restarts,
             \A t \in Tasks : runner[t] = "none" => runner'[t] = "none",
             \A c \in Callers : call[c].pc = "insert" =>
               call'[c].pc = "insert" /\ call'[c].task = call[c].task
      PROVE  RowInv'
  <2>1. OutcomeAfterCommand' /\ NonzeroCodeIsTrue'
    BY <1>0, <1>1 DEF RowInv, OutcomeAfterCommand, NonzeroCodeIsTrue, Onwards, Ended
  <2>2. RunnerMatchesRow'
    BY <1>0, <1>1 DEF RowInv, RunnerMatchesRow, Recorded, Onwards
  <2> QED
    BY <2>1, <2>2 DEF RowInv
<1>2. ASSUME NEW c \in Callers, StartRunner(c)
      PROVE  RowInv'
  <2>1. PICK t \in Tasks :
          /\ runner[t] = "none"
          /\ runner' = [runner EXCEPT ![t] = "waiting"]
          /\ call' = [call EXCEPT ![c] =
                        [Idle EXCEPT !.pc = "insert", !.op = "start", !.task = t]]
    BY <1>2 DEF StartRunner
  <2>2. /\ call[c].pc = "idle" /\ call'[c].pc = "insert" /\ call'[c].task = t
        /\ \A d \in Callers \ {c} : call'[d] = call[d]
    BY <1>2, <2>1 DEF StartRunner, CallTyped, Idle
  <2>3. task' = task /\ restarts' = restarts
    BY <1>2 DEF StartRunner
  <2>4. OutcomeAfterCommand' /\ NonzeroCodeIsTrue'
    BY <1>0, <2>3 DEF RowInv, OutcomeAfterCommand, NonzeroCodeIsTrue, Onwards, Ended
  <2>5. RunnerMatchesRow'
    BY <2>1, <2>2, <2>3 DEF RowInv, RunnerMatchesRow, Recorded
  <2> QED
    BY <2>4, <2>5 DEF RowInv
<1>3. ASSUME NEW c \in Callers, InsertTask(c) \/ WriteOutcome(c) \/ WriteDead(c) \/ WriteStopped(c)
      PROVE  RowInv'
  <2> DEFINE t == call[c].task
  <2>1. call[c].pc # "idle" /\ t \in Tasks /\ runner[t] # "none"
    BY <1>3 DEF InsertTask, WriteOutcome, WriteDead, WriteStopped, CallTyped, CallInv
  <2>2. /\ UNCHANGED <<runner, command, marker, child, restarts, enable_http>>
        /\ Return(c)
    BY <1>3 DEF InsertTask, WriteOutcome, WriteDead, WriteStopped
  <2>3. \A d \in Callers \ {c} : call'[d] = call[d]
    BY <2>2, ReturnFacts
  <2>4. \A u \in Tasks \ {t} : task'[u] = task[u]
    BY <1>3 DEF InsertTask, WriteOutcome, WriteDead, WriteStopped
  <2>5. /\ task'[t].exit_code \in {"ok", "error"} => command[t] \in {"ok", "error"}
        /\ task'[t].exit_code = "error" => command[t] = "error"
        /\ task'[t].status # "none"
    <3>1. task[t] \in Row
      BY <2>1
    <3>2. CASE InsertTask(c) \/ WriteStopped(c)
      BY <2>1, <3>2 DEF InsertTask, WriteStopped
    <3>3. CASE WriteDead(c)
      BY <2>1, <3>1, <3>3 DEF WriteDead, Row, RowInv, OutcomeAfterCommand, NonzeroCodeIsTrue
    <3>4. CASE WriteOutcome(c)
      <4>1. /\ call[c].code \in Ended /\ command[t] \in Ended
            /\ call[c].code = "error" => command[t] = "error"
        BY <3>4 DEF WriteOutcome, CallInv
      <4> QED
        BY <2>1, <3>1, <3>4, <4>1 DEF WriteOutcome, Row, Ended
    <3> QED
      BY <1>3, <3>2, <3>3, <3>4
  <2> HIDE DEF t
  <2>6. OutcomeAfterCommand' /\ NonzeroCodeIsTrue'
    BY <2>1, <2>2, <2>4, <2>5 DEF RowInv, OutcomeAfterCommand, NonzeroCodeIsTrue
  <2>7. t \in Recorded'
    BY <2>1, <2>5 DEF Recorded, NoRow
  <2>8. RunnerMatchesRow'
    <3> SUFFICES ASSUME NEW u \in Tasks, u # t
                 PROVE  /\ u \in Recorded' => runner'[u] # "none"
                        /\ runner'[u] # "none" =>
                             \/ u \in Recorded' \/ restarts' > 0
                             \/ \E d \in Callers : call'[d].pc = "insert" /\ call'[d].task = u
      BY <2>1, <2>2, <2>7 DEF RunnerMatchesRow
    <3>1. u \in Recorded' <=> u \in Recorded
      BY <2>4 DEF Recorded
    <3> QED
      BY <2>2, <2>3, <3>1 DEF RowInv, RunnerMatchesRow, t
  <2> QED
    BY <2>6, <2>8 DEF RowInv
<1>4. ASSUME NEW c \in Callers, NEW t \in Tasks, NEW op \in {"status", "stop"}, GetTask(c, t, op)
      PROVE  RowInv'
  BY <1>1, <1>4 DEF GetTask, CallTyped
<1>5. ASSUME NEW c \in Callers,
             CheckMarker(c) \/ ReadMarker(c) \/ CheckPid(c) \/ KillRefused(c)
      PROVE  RowInv'
  <2>1. call[c].pc # "insert" /\ UNCHANGED <<task, runner, restarts>>
    BY <1>5 DEF CheckMarker, ReadMarker, CheckPid, KillRefused
  <2>2. \A d \in Callers \ {c} : call'[d] = call[d]
    BY <1>5 DEF CheckMarker, ReadMarker, CheckPid, KillRefused, Goto, Return, CallTyped
  <2> QED
    BY <1>1, <2>1, <2>2
<1>6. ASSUME NEW c \in Callers, Kill(c)
      PROVE  RowInv'
  <2>1. call[c].pc # "insert" /\ UNCHANGED <<task, restarts>>
    BY <1>6 DEF Kill
  <2>2. \A d \in Callers \ {c} : call'[d] = call[d]
    BY <1>6 DEF Kill, Goto, CallTyped
  <2>3. \A t \in Tasks : runner[t] = "none" => runner'[t] = "none"
    BY <1>6 DEF Kill, Exited
  <2> QED
    BY <1>1, <2>1, <2>2, <2>3
<1>7. ASSUME NEW t \in Tasks,
             ProcessStep(t) \/ RunnerDies(t) \/ Reap(t) \/ ReusePid(t)
      PROVE  RowInv'
  <2>1. UNCHANGED <<task, call, restarts, enable_http>>
    BY <1>7 DEF ProcessStep, CommandEnds, OpenMarker, WriteMarker, RunnerDies, Reap, ReusePid
  <2>2. \A u \in Tasks : runner[u] = "none" => runner'[u] = "none"
    BY <1>7
    DEF ProcessStep, CommandEnds, OpenMarker, WriteMarker, RunnerDies, Reap, ReusePid, Exited
  <2> QED
    BY <1>1, <2>1, <2>2
<1>8. CASE Restart
  <2>1. task' = task /\ command' = command /\ restarts' > 0
    BY <1>8 DEF Restart
  <2>2. \A u \in Tasks : runner[u] # "none" => runner'[u] # "none"
    BY <1>0 DEF Onwards
  <2> QED
    BY <2>1, <2>2
    DEF RowInv, OutcomeAfterCommand, NonzeroCodeIsTrue, RunnerMatchesRow, Recorded
<1>9. CASE UNCHANGED vars
  BY <1>1, <1>9 DEF vars
<1> QED
  BY <1>2, <1>3, <1>4, <1>5, <1>6, <1>7, <1>8, <1>9 DEF Next, CallStep

-----------------------------------------------------------------------------

LEMMA TaskInvariant == Spec => []TaskInv
<1>1. TaskInv /\ [Next]_vars => TaskInv'
  <2> SUFFICES ASSUME TaskInv, [Next]_vars PROVE TaskInv'
    OBVIOUS
  <2> QED
    BY NextProcessInv, NextCallInv, NextRowInv DEF TaskInv
<1> QED
  BY <1>1, InitTaskInv, PTL DEF Spec

\* The types hold throughout.
THEOREM TypeCorrect == Spec => []TypeOK
  BY TaskInvariant, PTL DEF TaskInv

\* No task is reported finished, with an exit code, before its command ended.
THEOREM OutcomeFollowsCommand == Spec => []OutcomeAfterCommand
  BY TaskInvariant, PTL DEF TaskInv, RowInv

\* A stored failure code is the command's own: only success may be untrue.
THEOREM FailureIsTrue == Spec => []NonzeroCodeIsTrue
  BY TaskInvariant, PTL DEF TaskInv, RowInv

\* Rows and runners go together, but for a start that is on its way or that
\* died with a server.
THEOREM RunnersMatchRows == Spec => []RunnerMatchesRow
  BY TaskInvariant, PTL DEF TaskInv, RowInv

-----------------------------------------------------------------------------
(***************************************************************************)
(* What one transport alone may rely on: a row of the tasks table tells    *)
(* one story, and it is final once it was told.  Every step of a call      *)
(* after the first works on a row nobody else can have resolved meanwhile. *)
(***************************************************************************)

Running == [status |-> "running", exit_code |-> "none", note |-> "none"]

\* The stories a row may tell.
Stories ==
  {Running,
   [status |-> "succeeded", exit_code |-> "ok", note |-> "none"],
   [status |-> "failed", exit_code |-> "error", note |-> "none"],
   [status |-> "failed", exit_code |-> "none", note |-> "no_marker"],
   [status |-> "stopped", exit_code |-> "signal", note |-> "stopped"]}

\* The row a call is about: not there yet, or still as the call found it.
Untouched(c) ==
  \/ call[c].pc = "idle"
  \/ call[c].pc = "insert" /\ task[call[c].task] = NoRow
  \/ call[c].pc \notin {"idle", "insert"} /\ task[call[c].task] = Running

OutcomeInv ==
  enable_http \/
    /\ \A c \in Callers : c # Stdio => call[c].pc = "idle"
    /\ \A t \in Tasks : task[t] \in Stories \cup {NoRow}
    /\ Untouched(Stdio)

LEMMA StoriesDiffer ==
  /\ NoRow \notin Stories
  /\ \A row \in Stories : row.status \notin TASK_TERMINAL_STATUSES => row = Running
  BY DEF Stories, Running, NoRow

\* What update_task leaves of a running row when it is given an outcome.
LEMMA OutcomeStory ==
  ASSUME NEW row, row = Running, NEW status, NEW code, NEW new,
         new = [row EXCEPT !.status = status, !.exit_code = code]
  PROVE  new = [status |-> status, exit_code |-> code, note |-> "none"]
  BY DEF Running

-----------------------------------------------------------------------------
(* Steps.                                                                   *)

\* A step that leaves the table alone, by a caller that goes on with its task
\* or returns.
LEMMA SameTable ==
  ASSUME OutcomeInv, TypeOK, NEW c \in Callers, ~ enable_http, c = Stdio,
         task' = task, enable_http' = enable_http,
         \A d \in Callers \ {c} : call'[d] = call[d],
         call[c].pc \notin {"idle", "insert"},
         \/ call'[c].pc = "idle"
         \/ call'[c].pc \notin {"idle", "insert"} /\ call'[c].task = call[c].task
  PROVE  OutcomeInv'
  BY DEF OutcomeInv, Untouched

\* A step that writes the row of its call and returns.
LEMMA OneRow ==
  ASSUME OutcomeInv, TypeOK, NEW c \in Callers, c = Stdio,
         call[c].pc # "idle", enable_http' = enable_http,
         NEW row \in Stories, task' = [task EXCEPT ![call[c].task] = row], Return(c)
  PROVE  OutcomeInv'
<1>1. /\ call'[c].pc = "idle"
      /\ \A d \in Callers \ {c} : call'[d] = call[d]
  BY ReturnFacts DEF TypeOK
<1>2. \A t \in Tasks : task'[t] = task[t] \/ task'[t] = row
  BY DEF TypeOK
<1> QED
  BY <1>1, <1>2 DEF OutcomeInv, Untouched

LEMMA NextOutcomeInv ==
  ASSUME TaskInv, OutcomeInv, [Next]_vars
  PROVE  OutcomeInv'
<1> USE DEF TaskInv, TypeOK
<1>0. enable_http' = enable_http
  BY DEF Next, CallStep, StartRunner, InsertTask, GetTask, CheckMarker, ReadMarker, WriteOutcome,
         CheckPid, WriteDead, Kill, KillRefused, WriteStopped, ProcessStep, CommandEnds, OpenMarker,
         WriteMarker, RunnerDies, Reap, ReusePid, Restart, vars
<1> SUFFICES ASSUME ~ enable_http PROVE OutcomeInv'
  BY <1>0 DEF OutcomeInv
<1>1. \A c \in Callers : call[c].pc # "idle" => c = Stdio
  BY DEF OutcomeInv
<1>2. ASSUME NEW c \in Callers, StartRunner(c) PROVE OutcomeInv'
  <2>1. PICK t \in Tasks :
          /\ runner[t] = "none"
          /\ call' = [call EXCEPT ![c] =
                        [Idle EXCEPT !.pc = "insert", !.op = "start", !.task = t]]
    BY <1>2 DEF StartRunner
  <2>2. c = Stdio /\ task' = task
    BY <1>2 DEF StartRunner, Served
  <2>3. task[t] = NoRow
    BY <2>1 DEF RowInv, RunnerMatchesRow, Recorded
  <2>4. /\ call'[c].pc = "insert" /\ call'[c].task = t
        /\ \A d \in Callers \ {c} : call'[d] = call[d]
    BY <2>1 DEF CallTyped, Idle
  <2> QED
    BY <1>0, <2>2, <2>3, <2>4 DEF OutcomeInv, Untouched
<1>3. ASSUME NEW c \in Callers, InsertTask(c) PROVE OutcomeInv'
  <2>1. /\ task' = [task EXCEPT ![call[c].task] = Running]
        /\ Return(c) /\ call[c].pc # "idle" /\ c = Stdio
    BY <1>1, <1>3 DEF InsertTask, Running
  <2> QED
    BY <1>0, <2>1, OneRow, Running \in Stories DEF Stories
<1>4. ASSUME NEW c \in Callers, NEW t \in Tasks, NEW op \in {"status", "stop"}, GetTask(c, t, op)
      PROVE  OutcomeInv'
  <2>1. c = Stdio /\ task' = task
    BY <1>4 DEF GetTask, Served
  <2>2. task[t] = Running
    BY <1>4, StoriesDiffer DEF GetTask, Recorded, OutcomeInv
  <2>3. /\ call'[c].pc = "marker" /\ call'[c].task = t
        /\ \A d \in Callers \ {c} : call'[d] = call[d]
    BY <1>4 DEF GetTask, CallTyped, Idle
  <2> QED
    BY <1>0, <2>1, <2>2, <2>3 DEF OutcomeInv, Untouched
<1>5. ASSUME NEW c \in Callers,
             \/ CheckMarker(c) \/ ReadMarker(c) \/ CheckPid(c)
             \/ Kill(c) \/ KillRefused(c)
      PROVE  OutcomeInv'
  <2>1. c = Stdio /\ task' = task /\ call[c].pc \notin {"idle", "insert"}
    BY <1>1, <1>5 DEF CheckMarker, ReadMarker, CheckPid, Kill, KillRefused
  <2>2. /\ \A d \in Callers \ {c} : call'[d] = call[d]
        /\ \/ call'[c].pc = "idle"
           \/ call'[c].pc \notin {"idle", "insert"} /\ call'[c].task = call[c].task
    <3>1. call[c] \in CallRecord
      BY DEF CallTyped
    <3>2. CASE CheckMarker(c)
      BY <3>1, <3>2 DEF CheckMarker, Goto, CallTyped, CallRecord
    <3>3. CASE ReadMarker(c)
      BY <3>1, <3>3 DEF ReadMarker, CallTyped, CallRecord
    <3>4. CASE CheckPid(c)
      BY <3>1, <3>4 DEF CheckPid, Goto, Return, Idle, CallTyped, CallRecord
    <3>5. CASE Kill(c)
      BY <3>1, <3>5 DEF Kill, Goto, CallTyped, CallRecord
    <3>6. CASE KillRefused(c)
      BY <3>1, <3>6 DEF KillRefused, Return, Idle, CallTyped, CallRecord
    <3> QED
      BY <1>5, <3>2, <3>3, <3>4, <3>5, <3>6
  <2> QED
    BY <1>0, <2>1, <2>2, SameTable
<1>6. ASSUME NEW c \in Callers, WriteOutcome(c) \/ WriteDead(c) \/ WriteStopped(c)
      PROVE  OutcomeInv'
  <2> DEFINE t == call[c].task
  <2>1. /\ c = Stdio /\ call[c].pc \notin {"idle", "insert"} /\ Return(c)
        /\ t \in Tasks
    BY <1>1, <1>6 DEF WriteOutcome, WriteDead, WriteStopped, CallTyped
  <2>2. task[t] = Running
    BY <2>1 DEF OutcomeInv, Untouched
  <2>3. PICK row \in Stories : task' = [task EXCEPT ![t] = row]
    <3>1. CASE WriteOutcome(c)
      <4>1. call[c].code \in Ended
        BY <3>1 DEF WriteOutcome, CallInv
      <4> DEFINE status == IF call[c].code = "ok" THEN "succeeded" ELSE "failed"
                 new == [task[t] EXCEPT !.status = status, !.exit_code = call[c].code]
      <4>2. task' = [task EXCEPT ![t] = new]
        BY <2>1, <3>1 DEF WriteOutcome
      <4>3. new = [status |-> status, exit_code |-> call[c].code, note |-> "none"]
        <5> HIDE DEF status
        <5> QED
          BY <2>2, OutcomeStory
      <4>4. new \in Stories
        <5> HIDE DEF new
        <5> QED
          BY <4>1, <4>3 DEF Stories, Ended
      <4> QED
        BY <4>2, <4>4
    <3>2. CASE WriteDead(c)
      <4>1. task' = [task EXCEPT ![t] =
                       [status |-> "failed", exit_code |-> "none", note |-> "no_marker"]]
        BY <2>1, <2>2, <3>2 DEF WriteDead, Running
      <4> QED
        BY <4>1 DEF Stories
    <3>3. CASE WriteStopped(c)
      BY <3>3 DEF WriteStopped, Stories
    <3> QED
      BY <1>6, <3>1, <3>2, <3>3
  <2> QED
    BY <1>0, <2>1, <2>3, OneRow
<1>7. ASSUME NEW t \in Tasks,
             ProcessStep(t) \/ RunnerDies(t) \/ Reap(t) \/ ReusePid(t)
      PROVE  OutcomeInv'
  <2>1. UNCHANGED <<task, call, enable_http>>
    BY <1>7 DEF ProcessStep, CommandEnds, OpenMarker, WriteMarker, RunnerDies, Reap, ReusePid
  <2> QED
    BY <2>1 DEF OutcomeInv, Untouched
<1>8. CASE Restart
  <2>1. task' = task /\ \A c \in Callers : call'[c].pc = "idle"
    BY <1>8 DEF Restart, Idle
  <2>2. Stdio \in Callers
    BY TaskAssumption
  <2> QED
    BY <1>0, <2>1, <2>2 DEF OutcomeInv, Untouched
<1>9. CASE UNCHANGED vars
  BY <1>9 DEF vars, OutcomeInv, Untouched
<1> QED
  BY <1>2, <1>3, <1>4, <1>5, <1>6, <1>7, <1>8, <1>9 DEF Next, CallStep

LEMMA OutcomeInvariant == Spec => [](TaskInv /\ OutcomeInv)
<1>1. Init => OutcomeInv
  BY TaskAssumption DEF Init, OutcomeInv, Untouched, Idle
<1>2. TaskInv /\ OutcomeInv /\ [Next]_vars => OutcomeInv'
  BY NextOutcomeInv
<1> QED
  BY <1>1, <1>2, TaskInvariant, PTL DEF Spec

-----------------------------------------------------------------------------

\* Without the http transport the columns of a row agree, for every number of
\* tasks and restarts, wherever runners die and whatever their pids become.
THEOREM RowsAreConsistent == Spec => []RowConsistent
<1>1. OutcomeInv => RowConsistent
  BY DEF OutcomeInv, RowConsistent, Recorded, Stories, Running
<1> QED
  BY <1>1, OutcomeInvariant, PTL

\* Without the http transport an outcome that was reported is final.
THEOREM OutcomesAreFinal == Spec => FinishedStaysFinished
<1>1. TaskInv /\ OutcomeInv /\ [Next]_vars =>
        [\A t \in Tasks : Finished(t) /\ ~ enable_http => task'[t] = task[t]]_vars
  <2> SUFFICES ASSUME TaskInv, OutcomeInv, [Next]_vars, NEW t \in Tasks, Finished(t), ~ enable_http
               PROVE  task'[t] = task[t]
    OBVIOUS
  <2>1. task[t] # NoRow /\ task[t] # Running
    BY DEF Finished, NoRow, Running
  <2>2. ASSUME NEW c \in Callers, call[c].pc # "idle"
        PROVE  call[c].task # t
    BY <2>1, <2>2 DEF OutcomeInv, Untouched
  <2>3. ASSUME NEW c \in Callers,
               InsertTask(c) \/ WriteOutcome(c) \/ WriteDead(c) \/ WriteStopped(c)
        PROVE  task'[t] = task[t]
    BY <2>2, <2>3 DEF InsertTask, WriteOutcome, WriteDead, WriteStopped, TaskInv, TypeOK
  <2> QED
    BY <2>3 DEF Next, CallStep, StartRunner, GetTask, CheckMarker, ReadMarker, CheckPid, Kill, KillRefused,
                ProcessStep, CommandEnds, OpenMarker, WriteMarker, RunnerDies, Reap, ReusePid,
                Restart, vars
<1> QED
  BY <1>1, OutcomeInvariant, PTL DEF Spec, FinishedStaysFinished

=============================================================================
