---------------------------- MODULE HyperVBackend ----------------------------
(***************************************************************************)
(* The Hyper-V backend and the calls of the service that use it on one     *)
(* instance.  A command is a PowerShell script of several cmdlets, each of *)
(* which may fail; the script is a process of its own, killed between two  *)
(* cmdlets by the timeout of subprocess.run and left running by a server   *)
(* that dies.  The machine, its settings and its disk file are what the    *)
(* host keeps of it all.                                                   *)
(***************************************************************************)
EXTENDS Naturals

CONSTANTS
  Transports,   \* who calls tools
  Sweeper,      \* the thread that sweeps
  MaxFaults,    \* bound: cmdlets that fail and scripts that time out
  MaxCrashes    \* bound: deaths of the server

ASSUME HyperVAssumption ==
  /\ Sweeper \notin Transports
  /\ MaxFaults \in Nat /\ MaxCrashes \in 0..1

Clients == Transports \cup {Sweeper}

\* The script of a client, and the one that outlived its server.
Live(c) == <<c, "live">>
Orphan(c) == <<c, "orphan">>
Processes == Clients \X {"live", "orphan"}

VARIABLES
  vm,           \* the machine: absent, off or running
  settings,     \* what Set-VM has set of it
  disk,         \* whether the differencing disk's file exists
  script,       \* per process, the command and the cmdlet it is at
  job,          \* per client, the service's call in progress
  lease,        \* the status of the instance's row
  faults, crashes

host == <<vm, settings, disk>>
bounds == <<faults, crashes>>
vars == <<host, script, job, lease, bounds>>

NoScript == [op |-> "none", pc |-> "none"]

Init ==
  /\ vm = "absent" /\ settings = {} /\ disk = FALSE
  /\ script = [p \in Processes |-> NoScript]
  /\ job = [c \in Clients |-> "none"]
  /\ lease = "none"
  /\ faults = 0 /\ crashes = 0

-----------------------------------------------------------------------------
(* Scripts.  With $ErrorActionPreference = 'Stop' a cmdlet that fails ends  *)
(* the script with an error.  The start script does without, and Stop-VM and *)
(* the look for a machine are told to be silent: these go on, and a Get-VM  *)
(* that fails finds nothing.                                                *)

At(p, pc) == script[p].pc = pc
Goto(p, pc) == script' = [script EXCEPT ![p].pc = pc]
Run(c, op, pc) == script' = [script EXCEPT ![Live(c)] = [op |-> op, pc |-> pc]]
Service == <<job, lease, bounds>>

Cmdlets == {"check", "vhd", "vm", "cpus", "checkpoints",
            "start", "find", "turn_off", "remove", "disk", "exit"}

\* The cmdlet fails, or the timeout kills the script, wherever it is.
Throw(p) ==
  /\ script[p].pc \in Cmdlets
  /\ script[p].pc \in {"start", "find", "turn_off"} => p[2] = "live"
  /\ faults < MaxFaults /\ faults' = faults + 1
  /\ Goto(p, "error")
  /\ UNCHANGED <<host, job, lease, crashes>>

\* What Get-VM answers: it finds the machine, or it finds none, which is also
\* what its failure looks like.
Found == vm # "absent" /\ UNCHANGED faults
FoundNone ==
  \/ vm = "absent" /\ UNCHANGED faults
  \/ faults < MaxFaults /\ faults' = faults + 1

\* create_instance
CheckName(p) ==
  /\ At(p, "check")
  /\ \/ Found /\ Goto(p, "error")
     \/ FoundNone /\ Goto(p, "vhd")
  /\ UNCHANGED <<host, job, lease, crashes>>

NewVhd(p) ==
  /\ At(p, "vhd")
  /\ IF disk THEN Goto(p, "error") /\ UNCHANGED disk
             ELSE Goto(p, "vm") /\ disk' = TRUE
  /\ UNCHANGED <<vm, settings, Service>>

NewVm(p) ==
  /\ At(p, "vm")
  /\ IF vm = "absent" /\ disk
     THEN Goto(p, "cpus") /\ vm' = "off" /\ settings' = {}
     ELSE Goto(p, "error") /\ UNCHANGED <<vm, settings>>
  /\ UNCHANGED <<disk, Service>>

\* Mutant: without $ErrorActionPreference a setting that fails is passed over.
SetVm_passed_over(p) ==
  /\ script[p].pc \in {"cpus", "checkpoints"}
  /\ Goto(p, IF At(p, "cpus") THEN "checkpoints" ELSE "exit")
  /\ \/ vm = "off" /\ settings' = settings \cup {script[p].pc}
     \/ UNCHANGED settings
  /\ UNCHANGED <<vm, disk, Service>>

SetVm(p) ==
  /\ script[p].pc \in {"cpus", "checkpoints"}
  /\ IF vm = "off"
     THEN /\ Goto(p, IF At(p, "cpus") THEN "checkpoints" ELSE "exit")
          /\ settings' = settings \cup {script[p].pc}
     ELSE Goto(p, "error") /\ UNCHANGED settings
  /\ UNCHANGED <<vm, disk, Service>>

\* start_instance: Start-VM, whether or not it works, and then the server
\* itself waits for the guest to show an address.
StartVm(p) ==
  /\ At(p, "start")
  /\ Goto(p, IF p[2] = "live" THEN "wait" ELSE "ok")
  /\ \/ vm = "off" /\ disk /\ vm' = "running" /\ UNCHANGED faults
     \/ UNCHANGED vm /\ UNCHANGED faults /\ (vm # "off" \/ ~ disk)
     \/ UNCHANGED vm /\ faults < MaxFaults /\ faults' = faults + 1
  /\ UNCHANGED <<settings, disk, job, lease, crashes>>

\* Mutant: the address is not waited for.
WaitForIpv4_not(p) ==
  /\ At(p, "wait")
  /\ Goto(p, "exit")
  /\ UNCHANGED <<host, Service>>

WaitForIpv4(p) ==
  /\ At(p, "wait")
  /\ \/ vm = "running" /\ Goto(p, "exit") /\ UNCHANGED faults
     \/ vm # "running" /\ Goto(p, "error") /\ UNCHANGED faults
     \/ Goto(p, "error") /\ faults < MaxFaults /\ faults' = faults + 1
  /\ UNCHANGED <<host, job, lease, crashes>>

\* Mutant: there is nothing to delete where there is no machine.
FindVm_or_exit(p) ==
  /\ At(p, "find")
  /\ \/ Found /\ Goto(p, "turn_off")
     \/ FoundNone /\ Goto(p, "exit")
  /\ UNCHANGED <<host, job, lease, crashes>>

\* stop_instance, delete_instance
FindVm(p) ==
  /\ At(p, "find")
  /\ \/ Found /\ Goto(p, "turn_off")
     \/ FoundNone /\ Goto(p, IF script[p].op = "stop" THEN "exit" ELSE "disk")
  /\ UNCHANGED <<host, job, lease, crashes>>

TurnOff(p) ==
  /\ At(p, "turn_off")
  /\ Goto(p, IF script[p].op = "stop" THEN "exit" ELSE "remove")
  /\ \/ vm' = (IF vm = "running" THEN "off" ELSE vm) /\ UNCHANGED faults
     \/ UNCHANGED vm /\ faults < MaxFaults /\ faults' = faults + 1
  /\ UNCHANGED <<settings, disk, job, lease, crashes>>

RemoveVm(p) ==
  /\ At(p, "remove")
  /\ IF vm = "off" THEN Goto(p, "disk") /\ vm' = "absent" /\ settings' = {}
                   ELSE Goto(p, "error") /\ UNCHANGED <<vm, settings>>
  /\ UNCHANGED <<disk, Service>>

\* The file of a running machine is in use.
RemoveDisk(p) ==
  /\ At(p, "disk")
  /\ IF disk /\ vm = "running" THEN Goto(p, "error") /\ UNCHANGED disk
                               ELSE Goto(p, "exit") /\ disk' = FALSE
  /\ UNCHANGED <<vm, settings, Service>>

Exit(p) ==
  /\ At(p, "exit")
  /\ Goto(p, "ok")
  /\ UNCHANGED <<host, Service>>

ScriptStep(p) ==
  \/ CheckName(p) \/ NewVhd(p) \/ NewVm(p) \/ SetVm(p)
  \/ StartVm(p) \/ WaitForIpv4(p)
  \/ FindVm(p) \/ TurnOff(p) \/ RemoveVm(p) \/ RemoveDisk(p)
  \/ Exit(p)

-----------------------------------------------------------------------------
(* The service: create then start, stop then delete; what the sweeper gets  *)
(* for an answer makes no difference to it.                                 *)

Answered(c, op, answer) == script[Live(c)] = [op |-> op, pc |-> answer]
Done(c) == job' = [job EXCEPT ![c] = "none"] /\ script' = [script EXCEPT ![Live(c)] = NoScript]

Begin(c, j, op, pc) ==
  /\ job[c] = "none" /\ job' = [job EXCEPT ![c] = j]
  /\ Run(c, op, pc)

BeginCreate(c) ==
  /\ c \in Transports
  /\ lease = "none" /\ lease' = "creating"
  /\ Begin(c, "create", "create", "check")
  /\ UNCHANGED <<host, bounds>>

Created(c) ==
  /\ Answered(c, "create", "ok")
  /\ Run(c, "start", "start")
  /\ UNCHANGED <<host, job, lease, bounds>>

Started(c) ==
  /\ Answered(c, "start", "ok")
  /\ lease' = "running"
  /\ Done(c)
  /\ UNCHANGED <<host, bounds>>

\* Mutant: a status that the table does not have.
CreateFailed_bad_status(c) ==
  /\ Answered(c, "create", "error") \/ Answered(c, "start", "error")
  /\ lease' = "failed"
  /\ Done(c)
  /\ UNCHANGED <<host, bounds>>

CreateFailed(c) ==
  /\ Answered(c, "create", "error") \/ Answered(c, "start", "error")
  /\ lease' = "error"
  /\ Done(c)
  /\ UNCHANGED <<host, bounds>>

BeginDestroy(c) ==
  /\ c \in Transports
  /\ lease # "none"
  /\ Begin(c, "destroy", "stop", "find")
  /\ UNCHANGED <<host, lease, bounds>>

\* The time of an active lease is up.
BeginSweep ==
  /\ lease \in {"creating", "running"}
  /\ Begin(Sweeper, "sweep", "stop", "find")
  /\ UNCHANGED <<host, lease, bounds>>

Stopped(c) ==
  /\ Answered(c, "stop", "ok")
  /\ Run(c, "delete", "find")
  /\ UNCHANGED <<host, job, lease, bounds>>

\* Mutant: a failure of the commands is passed over as the sweeper does.
Destroyed_anyway(c) ==
  /\ job[c] = "destroy"
  /\ \/ Answered(c, "delete", "ok")
     \/ \E op \in {"stop", "delete"} : Answered(c, op, "error")
  /\ lease' = "destroyed"
  /\ Done(c)
  /\ UNCHANGED <<host, bounds>>

Destroyed(c) ==
  /\ job[c] = "destroy" /\ Answered(c, "delete", "ok")
  /\ lease' = "destroyed"
  /\ Done(c)
  /\ UNCHANGED <<host, bounds>>

DestroyFailed(c) ==
  /\ job[c] = "destroy" /\ \E op \in {"stop", "delete"} : Answered(c, op, "error")
  /\ Done(c)
  /\ UNCHANGED <<host, lease, bounds>>

Swept(c) ==
  /\ job[c] = "sweep"
  /\ \/ Answered(c, "delete", "ok")
     \/ \E op \in {"stop", "delete"} : Answered(c, op, "error")
  /\ lease' = "expired"
  /\ Done(c)
  /\ UNCHANGED <<host, bounds>>

ServiceStep(c) ==
  \/ Created(c) \/ Started(c) \/ CreateFailed(c)
  \/ Stopped(c) \/ Destroyed(c) \/ DestroyFailed(c) \/ Swept(c)

GuestPowersOff ==
  /\ vm = "running" /\ vm' = "off"
  /\ UNCHANGED <<settings, disk, script, Service>>

\* The server dies, and a wait with it; scripts that have not ended run on.
Crash ==
  /\ crashes < MaxCrashes /\ crashes' = crashes + 1
  /\ script' = [p \in Processes |->
                  IF p[2] = "orphan" /\ script[Live(p[1])].pc \in Cmdlets
                  THEN script[Live(p[1])] ELSE NoScript]
  /\ job' = [c \in Clients |-> "none"]
  /\ UNCHANGED <<host, lease, faults>>

Next ==
  \/ \E p \in Processes : ScriptStep(p) \/ Throw(p)
  \/ \E c \in Clients : BeginCreate(c) \/ BeginDestroy(c) \/ ServiceStep(c)
  \/ BeginSweep \/ GuestPowersOff \/ Crash

Spec == Init /\ [][Next]_vars

\* Scripts end, calls go on, and a client keeps destroying the instance.
FairSpec ==
  /\ Spec
  /\ \A p \in Processes : WF_vars(ScriptStep(p))
  /\ \A c \in Clients : WF_vars(ServiceStep(c))
  /\ \A c \in Transports : SF_vars(BeginDestroy(c))

-----------------------------------------------------------------------------
(* Properties.                                                              *)

TypeOK ==
  /\ vm \in {"absent", "off", "running"} /\ disk \in BOOLEAN
  /\ settings \subseteq {"cpus", "checkpoints"}
  /\ script \in [Processes -> [op : {"none", "create", "start", "stop", "delete"},
                               pc : Cmdlets \cup {"none", "wait", "ok", "error"}]]
  /\ \A c \in Clients : job[c] = "none" <=> script[Live(c)].op = "none"
  /\ job \in [Clients -> {"none", "create", "destroy", "sweep"}]
  /\ lease \in {"none", "creating", "running", "error", "destroyed", "expired"}
  /\ faults \in 0..MaxFaults /\ crashes \in 0..MaxCrashes

\* A machine that runs has all its settings: whichever cmdlet of the creation
\* failed, was cut off or met the sweeper, nothing starts what it left behind.
StartedIsConfigured == vm = "running" => settings = {"cpus", "checkpoints"}

\* With one transport, nothing of an instance reported destroyed can run again:
\* its disk is gone, wherever its creation or an earlier deletion broke off and
\* though a Get-VM that failed may have left the machine itself; but for a
\* creation that outlived its server and went on.
DestroyedCannotRun ==
  /\ lease = "destroyed"
  /\ \A c \in Clients : script[Orphan(c)].op # "create"
  => ~ disk /\ vm # "running"

\* No remainder of a creation or deletion - a disk without a machine, a machine
\* without a disk, one that is turned off - keeps a client that goes on calling
\* destroy_instance from clearing the host.
DestroyCompletes == <>[](vm = "absent" /\ ~ disk)

\* The commands keep what the service takes them for: an answer ok means that
\* the machine was where the command brings it.
Accomplished(s) ==
  \/ s.op = "create" /\ s.pc \in {"cpus", "checkpoints", "exit"}
  \/ s.op \in {"start", "stop", "delete"} /\ s.pc = "exit"

Command(c) ==
  LET s == script[Live(c)] IN
  [op |-> s.op, done |-> Accomplished(s),
   answer |-> IF s.pc \in {"ok", "error"} THEN s.pc ELSE "none"]

Machine == IF vm = "off" /\ ~ disk THEN "hollow" ELSE vm

Abstract == INSTANCE VmBackend WITH
  vm <- Machine,
  command <- [c \in Clients |-> Command(c)],
  abandoned <- {script[Orphan(c)].op : c \in Clients} \ {"none"}

BackendSpec == Abstract!Spec

=============================================================================
