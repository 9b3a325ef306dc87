--------------------------- MODULE BackgroundTasks ---------------------------
(***************************************************************************)
(* Background tasks: rows of the tasks table, the runner process of each   *)
(* task - a child of the server that runs the backend shell command and    *)
(* then writes its exit code into a marker file - and the tool calls that  *)
(* start tasks, ask for their status or logs and stop them.                *)
(*                                                                         *)
(* The runner and its command are processes of their own: they go on while *)
(* a call looks at the marker and at the pid, and outlive the server.      *)
(* POSIX semantics: a child that exited keeps its pid until the server     *)
(* reaps it, which happens when it next starts some subprocess; after the  *)
(* server died, init reaps at once.                                        *)
(***************************************************************************)
EXTENDS Naturals

CONSTANTS
  Tasks,        \* task ids; the files of a task are named after its id
  NoTask,       \* the task of a call that has none
  Callers,      \* the transports' threads
  Stdio,        \* the one that is always served
  Deaths,       \* whether a runner may die by itself (out of memory, a signal)
  PidReuse,     \* whether the system may give a reaped pid to another process
  MaxRestarts   \* bound: server crashes

ASSUME TaskAssumption ==
  /\ NoTask \notin Tasks /\ Stdio \in Callers
  /\ Deaths \in BOOLEAN /\ PidReuse \in BOOLEAN
  /\ MaxRestarts \in Nat

VARIABLES
  task,      \* the tasks table
  runner,    \* the runner process, and what its pid stands for after it
  command,   \* the backend shell process of the runner
  marker,    \* the exit-code file
  child,     \* whether the runner is a child of the running server
  call,      \* per caller, the tool call in progress
  restarts,
  enable_http  \* MCP_ENABLE_HTTP of the server

vars == <<task, runner, command, marker, child, call, restarts, enable_http>>

-----------------------------------------------------------------------------
(* Exit codes: "ok" is zero, "error" any other code, "signal" the code that *)
(* stop_task makes up.  note stands for error_message.                      *)

TASK_TERMINAL_STATUSES == {"succeeded", "failed", "stopped"}
Statuses == {"running"} \cup TASK_TERMINAL_STATUSES

NoRow == [status |-> "none", exit_code |-> "none", note |-> "none"]
Row == [status : Statuses \cup {"none"},
        exit_code : {"none", "ok", "error", "signal"},
        note : {"none", "no_marker", "stopped"}]

Recorded == {t \in Tasks : task[t] # NoRow}

RunnerStates == {"none", "waiting", "writing", "zombie", "reaped", "reused"}

\* os.kill(pid, 0) finds whatever process has the pid, a zombie too; a pid
\* that went to another user's process answers as a free one.
pid_alive(t) == runner[t] \in {"waiting", "writing", "zombie", "reused"}

\* Mutant: an empty marker is a ValueError, code -1.
exit_code_strict(text) == IF text = "empty" THEN "error" ELSE text

\* int(text.strip() or "0"): a marker that is still empty reads as zero.
exit_code(text) == IF text = "empty" THEN "ok" ELSE text

-----------------------------------------------------------------------------
(* Calls.                                                                   *)

CallPCs == {"idle", "insert", "marker", "read", "outcome", "pid", "dead", "kill", "stopped"}
Idle == [pc |-> "idle", op |-> "none", task |-> NoTask, code |-> "none"]

\* Without the http transport only stdio calls.
Served(c) == c = Stdio \/ enable_http

Goto(c, p) == call' = [call EXCEPT ![c].pc = p]
Return(c) == call' = [call EXCEPT ![c] = Idle]

Init ==
  /\ task = [t \in Tasks |-> NoRow]
  /\ runner = [t \in Tasks |-> "none"]
  /\ command = [t \in Tasks |-> "none"]
  /\ marker = [t \in Tasks |-> "absent"]
  /\ child = [t \in Tasks |-> FALSE]
  /\ call = [c \in Callers |-> Idle]
  /\ restarts = 0
  /\ enable_http \in BOOLEAN

-----------------------------------------------------------------------------
(* start_background_task: the process first, then its row.                  *)

\* Mutant: a process that could not be started gets a row all the same.
StartRunner_unstarted(c) ==
  /\ Served(c) /\ call[c].pc = "idle"
  /\ \E t \in Tasks :
       /\ runner[t] = "none"
       /\ call' = [call EXCEPT ![c] =
                     [Idle EXCEPT !.pc = "insert", !.op = "start", !.task = t]]
  /\ UNCHANGED <<task, runner, command, marker, child, restarts, enable_http>>

StartRunner(c) ==
  /\ Served(c) /\ call[c].pc = "idle"
  /\ \E t \in Tasks :
       /\ runner[t] = "none"
       /\ runner' = [runner EXCEPT ![t] = "waiting"]
       /\ command' = [command EXCEPT ![t] = "running"]
       /\ child' = [child EXCEPT ![t] = TRUE]
       /\ call' = [call EXCEPT ![c] =
                     [Idle EXCEPT !.pc = "insert", !.op = "start", !.task = t]]
  /\ UNCHANGED <<task, marker, restarts, enable_http>>

InsertTask(c) ==
  /\ call[c].pc = "insert"
  /\ task' = [task EXCEPT ![call[c].task] =
                [status |-> "running", exit_code |-> "none", note |-> "none"]]
  /\ Return(c)
  /\ UNCHANGED <<runner, command, marker, child, restarts, enable_http>>

-----------------------------------------------------------------------------
(* get_task_status, get_task_logs and stop_task all begin by refreshing the *)
(* row they read.  A row that is terminal when read is returned as it is.   *)

\* Mutant: a terminal row is refreshed like any other.
GetTask_any_status(c, t, op) ==
  /\ Served(c) /\ call[c].pc = "idle"
  /\ t \in Recorded
  /\ call' = [call EXCEPT ![c] = [Idle EXCEPT !.pc = "marker", !.op = op, !.task = t]]
  /\ UNCHANGED <<task, runner, command, marker, child, restarts, enable_http>>

GetTask(c, t, op) ==
  /\ Served(c) /\ call[c].pc = "idle"
  /\ t \in Recorded /\ task[t].status \notin TASK_TERMINAL_STATUSES
  /\ call' = [call EXCEPT ![c] = [Idle EXCEPT !.pc = "marker", !.op = op, !.task = t]]
  /\ UNCHANGED <<task, runner, command, marker, child, restarts, enable_http>>

CheckMarker(c) ==
  /\ call[c].pc = "marker"
  /\ Goto(c, IF marker[call[c].task] = "absent" THEN "pid" ELSE "read")
  /\ UNCHANGED <<task, runner, command, marker, child, restarts, enable_http>>

ReadMarker(c) ==
  /\ call[c].pc = "read"
  /\ call' = [call EXCEPT ![c].pc = "outcome",
                          ![c].code = exit_code(marker[call[c].task])]
  /\ UNCHANGED <<task, runner, command, marker, child, restarts, enable_http>>

\* update_task writes the columns it is given, over whatever is there.
WriteOutcome(c) ==
  /\ call[c].pc = "outcome"
  /\ task' = [task EXCEPT
                ![call[c].task].status =
                   IF call[c].code = "ok" THEN "succeeded" ELSE "failed",
                ![call[c].task].exit_code = call[c].code]
  /\ Return(c)
  /\ UNCHANGED <<runner, command, marker, child, restarts, enable_http>>

\* Mutant: only the marker ends a task.
CheckPid_ignored(c) ==
  /\ call[c].pc = "pid"
  /\ \/ call[c].op = "status" /\ Return(c)
     \/ call[c].op = "stop" /\ Goto(c, "kill")
  /\ UNCHANGED <<task, runner, command, marker, child, restarts, enable_http>>

CheckPid(c) ==
  /\ call[c].pc = "pid"
  /\ \/ ~ pid_alive(call[c].task) /\ Goto(c, "dead")
     \/ pid_alive(call[c].task) /\ call[c].op = "status" /\ Return(c)
     \/ pid_alive(call[c].task) /\ call[c].op = "stop" /\ Goto(c, "kill")
  /\ UNCHANGED <<task, runner, command, marker, child, restarts, enable_http>>

WriteDead(c) ==
  /\ call[c].pc = "dead"
  /\ task' = [task EXCEPT ![call[c].task].status = "failed",
                          ![call[c].task].note = "no_marker"]
  /\ Return(c)
  /\ UNCHANGED <<runner, command, marker, child, restarts, enable_http>>

-----------------------------------------------------------------------------
(* stop_task signals the pid of the runner - not its process group, so the  *)
(* command below it goes on - and reports the task stopped.                 *)

Exited(t) == [runner EXCEPT ![t] = IF child[t] THEN "zombie" ELSE "reaped"]

Kill(c) ==
  LET t == call[c].task IN
  /\ call[c].pc = "kill"
  /\ runner' = IF runner[t] \in {"waiting", "writing"} THEN Exited(t) ELSE runner
  /\ Goto(c, "stopped")
  /\ UNCHANGED <<task, command, marker, child, restarts, enable_http>>

\* The pid went to a process of another user between the look at it and the
\* signal: the PermissionError is not caught and leaves the row running.
KillRefused(c) ==
  /\ PidReuse
  /\ call[c].pc = "kill" /\ runner[call[c].task] = "reaped"
  /\ Return(c)
  /\ UNCHANGED <<task, runner, command, marker, child, restarts, enable_http>>

\* Mutant: only the status is written.
WriteStopped_status_only(c) ==
  /\ call[c].pc = "stopped"
  /\ task' = [task EXCEPT ![call[c].task].status = "stopped"]
  /\ Return(c)
  /\ UNCHANGED <<runner, command, marker, child, restarts, enable_http>>

\* Mutant: a number for the status.
WriteStopped_bad_status(c) ==
  /\ call[c].pc = "stopped"
  /\ task' = [task EXCEPT ![call[c].task].status = "signal"]
  /\ Return(c)
  /\ UNCHANGED <<runner, command, marker, child, restarts, enable_http>>

WriteStopped(c) ==
  /\ call[c].pc = "stopped"
  /\ task' = [task EXCEPT ![call[c].task] =
                [status |-> "stopped", exit_code |-> "signal", note |-> "stopped"]]
  /\ Return(c)
  /\ UNCHANGED <<runner, command, marker, child, restarts, enable_http>>

-----------------------------------------------------------------------------
(* The runner: run the command, open the marker for writing - which creates *)
(* it empty -, write the code, exit.                                        *)

CommandEnds(t) ==
  /\ command[t] = "running"
  /\ \E code \in {"ok", "error"} : command' = [command EXCEPT ![t] = code]
  /\ UNCHANGED <<task, runner, marker, child, call, restarts, enable_http>>

\* Mutant: the marker is opened before the command is run.
OpenMarker_early(t) ==
  /\ runner[t] = "waiting"
  /\ marker' = [marker EXCEPT ![t] = "empty"]
  /\ runner' = [runner EXCEPT ![t] = "writing"]
  /\ UNCHANGED <<task, command, child, call, restarts, enable_http>>

OpenMarker(t) ==
  /\ runner[t] = "waiting" /\ command[t] \in {"ok", "error"}
  /\ marker' = [marker EXCEPT ![t] = "empty"]
  /\ runner' = [runner EXCEPT ![t] = "writing"]
  /\ UNCHANGED <<task, command, child, call, restarts, enable_http>>

WriteMarker(t) ==
  /\ runner[t] = "writing"
  /\ marker' = [marker EXCEPT ![t] = command[t]]
  /\ runner' = Exited(t)
  /\ UNCHANGED <<task, command, child, call, restarts, enable_http>>

RunnerDies(t) ==
  /\ Deaths
  /\ runner[t] \in {"waiting", "writing"}
  /\ runner' = Exited(t)
  /\ UNCHANGED <<task, command, marker, child, call, restarts, enable_http>>

\* Starting any subprocess polls the children that were left behind; the
\* server may never start one again.
Reap(t) ==
  /\ runner[t] = "zombie"
  /\ runner' = [runner EXCEPT ![t] = "reaped"]
  /\ UNCHANGED <<task, command, marker, child, call, restarts, enable_http>>

ReusePid(t) ==
  /\ PidReuse
  /\ runner[t] = "reaped"
  /\ runner' = [runner EXCEPT ![t] = "reused"]
  /\ UNCHANGED <<task, command, marker, child, call, restarts, enable_http>>

Restart ==
  /\ restarts < MaxRestarts
  /\ restarts' = restarts + 1
  /\ call' = [c \in Callers |-> Idle]
  /\ child' = [t \in Tasks |-> FALSE]
  /\ runner' = [t \in Tasks |-> IF runner[t] = "zombie" THEN "reaped" ELSE runner[t]]
  /\ UNCHANGED <<task, command, marker, enable_http>>

CallStep(c) ==
  \/ StartRunner(c) \/ InsertTask(c)
  \/ \E t \in Tasks, op \in {"status", "stop"} : GetTask(c, t, op)
  \/ CheckMarker(c) \/ ReadMarker(c) \/ WriteOutcome(c)
  \/ CheckPid(c) \/ WriteDead(c)
  \/ Kill(c) \/ KillRefused(c) \/ WriteStopped(c)

ProcessStep(t) == CommandEnds(t) \/ OpenMarker(t) \/ WriteMarker(t)

Next ==
  \/ \E c \in Callers : CallStep(c)
  \/ \E t \in Tasks : ProcessStep(t) \/ RunnerDies(t) \/ Reap(t) \/ ReusePid(t)
  \/ Restart

Spec == Init /\ [][Next]_vars

\* Processes run on, calls once begun return, and the clients keep asking for
\* the status of every task.  Nothing makes the server reap a child: it does
\* so when it happens to start another subprocess, and asking starts none.
FairSpec ==
  /\ Spec
  /\ \A t \in Tasks : WF_vars(ProcessStep(t))
  /\ \A c \in Callers : WF_vars(call[c].pc # "idle" /\ CallStep(c))
  /\ \A t \in Tasks : SF_vars(\E c \in Callers : GetTask(c, t, "status"))

-----------------------------------------------------------------------------
(* Properties.                                                              *)

CallRecord == [pc : CallPCs, op : {"none", "start", "status", "stop"},
               task : Tasks \cup {NoTask}, code : {"none", "ok", "error"}]

\* Every variable has its type, and a call past its first step has a task.
CallTyped ==
  /\ call \in [Callers -> CallRecord]
  /\ \A c \in Callers : call[c].pc # "idle" => call[c].task \in Tasks

TypeOK ==
  /\ task \in [Tasks -> Row]
  /\ runner \in [Tasks -> RunnerStates]
  /\ command \in [Tasks -> {"none", "running", "ok", "error"}]
  /\ marker \in [Tasks -> {"absent", "empty", "ok", "error"}]
  /\ child \in [Tasks -> BOOLEAN]
  /\ CallTyped
  /\ restarts \in Nat /\ enable_http \in BOOLEAN

\* Phases of a start: there is a row only where a runner was started before
\* it, and a started runner has a row unless its start is still on the way or
\* the server has been restarted since it began to run.
RunnerMatchesRow ==
  \A t \in Tasks :
    /\ t \in Recorded => runner[t] # "none"
    /\ runner[t] # "none" =>
         \/ t \in Recorded \/ restarts > 0
         \/ \E c \in Callers : call[c].pc = "insert" /\ call[c].task = t

\* A stored exit code, other than the one stop_task makes up, is only stored
\* once the command has ended: a task is not reported finished too early,
\* whatever the refreshing call saw of the marker and whenever it writes.
OutcomeAfterCommand ==
  \A t \in Tasks : task[t].exit_code \in {"ok", "error"} => command[t] \in {"ok", "error"}

\* A failure code that is stored is the command's own.
NonzeroCodeIsTrue ==
  \A t \in Tasks : task[t].exit_code = "error" => command[t] = "error"

\* With one transport status, exit_code and error_message of a row tell one
\* story; two may leave columns of both in it.
RowConsistent ==
  enable_http \/ \A t \in Recorded :
    /\ task[t].status = "succeeded" <=> task[t].exit_code = "ok"
    /\ task[t].status = "stopped" <=> task[t].exit_code = "signal"
    /\ task[t].status = "stopped" <=> task[t].note = "stopped"
    /\ task[t].note = "no_marker" <=> task[t].status = "failed" /\ task[t].exit_code = "none"

\* With one transport an outcome that was reported does not change.
Finished(t) == task[t].status \in TASK_TERMINAL_STATUSES
FinishedStaysFinished ==
  [][\A t \in Tasks : Finished(t) /\ ~ enable_http => task'[t] = task[t]]_vars

\* The zombie of a runner that left no marker: its pid answers, and goes on to
\* do so until the server starts another subprocess.
Unnoticed(t) == runner[t] = "zombie" /\ marker[t] = "absent"

\* A task that has a row is resolved - by its marker, by the death of its
\* runner or by stop_task, across a restart of the server - except while its
\* pid stands for something else: a zombie nobody has reaped, or the process
\* the system gave it to.
TaskIsResolved ==
  \A t \in Tasks : t \in Recorded ~> Finished(t) \/ Unnoticed(t) \/ runner[t] = "reused"

=============================================================================
