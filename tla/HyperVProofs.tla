---------------------------- MODULE HyperVProofs ----------------------------
(***************************************************************************)
(* Proofs about HyperVBackend: for every set of transports and every bound *)
(* on failures, that every variable keeps its type, that no machine runs   *)
(* that was not set up, and that the scripts implement VmBackend; with one *)
(* transport, that what was reported destroyed cannot run again.           *)
(***************************************************************************)
EXTENDS HyperVBackend, TLAPS

-----------------------------------------------------------------------------
(* Processes and scripts.                                                   *)

Ops == {"none", "create", "start", "stop", "delete"}
PCs == Cmdlets \cup {"none", "wait", "ok", "error"}
Scripts == [op : Ops, pc : PCs]

\* A process is the live or the orphaned one of one client.
LEMMA Indices ==
  /\ \A c \in Clients : Live(c) \in Processes /\ Orphan(c) \in Processes
  /\ \A c, d \in Clients : Live(c) # Orphan(d)
  /\ \A c, d \in Clients : Live(c) = Live(d) => c = d
  /\ \A c, d \in Clients : Orphan(c) = Orphan(d) => c = d
  /\ \A p \in Processes : /\ p[1] \in Clients
                          /\ \/ p = Live(p[1]) /\ p[2] = "live"
                             \/ p = Orphan(p[1]) /\ p[2] = "orphan"
<1>1. ASSUME NEW p \in Processes
      PROVE  /\ p[1] \in Clients
             /\ \/ p = Live(p[1]) /\ p[2] = "live"
                \/ p = Orphan(p[1]) /\ p[2] = "orphan"
  <2>1. PICK c \in Clients, kind \in {"live", "orphan"} : p = <<c, kind>>
    BY DEF Processes
  <2> QED
    BY <2>1 DEF Live, Orphan
<1> QED
  BY <1>1 DEF Live, Orphan, Processes

\* A script that goes on changes its cmdlet and nothing else.
LEMMA GotoScript ==
  ASSUME script \in [Processes -> Scripts], NEW p \in Processes, NEW pc \in PCs,
         Goto(p, pc)
  PROVE  /\ script' \in [Processes -> Scripts]
         /\ script'[p] = [op |-> script[p].op, pc |-> pc]
         /\ \A q \in Processes \ {p} : script'[q] = script[q]
<1>1. script[p] \in Scripts
  OBVIOUS
<1>2. ASSUME NEW s \in Scripts
      PROVE  /\ [s EXCEPT !.pc = pc] \in Scripts
             /\ [s EXCEPT !.pc = pc] = [op |-> s.op, pc |-> pc]
  BY DEF Scripts
<1>3. script' = [script EXCEPT ![p] = [script[p] EXCEPT !.pc = pc]]
  BY DEF Goto
<1> QED
  BY <1>1, <1>2, <1>3

\* Where a step of a script takes it.
LEMMA ScriptGoes ==
  ASSUME NEW p \in Processes, ScriptStep(p) \/ Throw(p)
  PROVE  \E pc \in PCs \ {"none"} : Goto(p, pc)
<1> USE DEF PCs, Cmdlets
<1>1. CASE CheckName(p) \/ NewVhd(p) \/ NewVm(p) \/ SetVm(p)
  BY <1>1 DEF CheckName, NewVhd, NewVm, SetVm
<1>2. CASE StartVm(p) \/ WaitForIpv4(p) \/ FindVm(p) \/ TurnOff(p)
  BY <1>2 DEF StartVm, WaitForIpv4, FindVm, TurnOff
<1>3. CASE RemoveVm(p) \/ RemoveDisk(p) \/ Exit(p) \/ Throw(p)
  BY <1>3 DEF RemoveVm, RemoveDisk, Exit, Throw
<1> QED
  BY <1>1, <1>2, <1>3 DEF ScriptStep

\* A client that runs a script, or takes the answer of one, changes its own.
LEMMA LiveScript ==
  ASSUME script \in [Processes -> Scripts], NEW c \in Clients, NEW s \in Scripts,
         script' = [script EXCEPT ![Live(c)] = s]
  PROVE  /\ script' \in [Processes -> Scripts]
         /\ script'[Live(c)] = s
         /\ \A q \in Processes \ {Live(c)} : script'[q] = script[q]
  BY Indices

\* What a crash leaves of the scripts.
LEMMA CrashScripts ==
  ASSUME script \in [Processes -> Scripts], Crash
  PROVE  /\ script' \in [Processes -> Scripts]
         /\ \A c \in Clients : script'[Live(c)] = NoScript
         /\ \A c \in Clients :
              script'[Orphan(c)] = IF script[Live(c)].pc \in Cmdlets
                                   THEN script[Live(c)] ELSE NoScript
<1>1. NoScript \in Scripts
  BY DEF NoScript, Scripts, Ops, PCs
<1>2. \A c \in Clients : /\ Live(c)[2] = "live" /\ Orphan(c)[2] = "orphan"
                         /\ Orphan(c)[1] = c
  BY DEF Live, Orphan
<1>3. script' = [p \in Processes |->
                   IF p[2] = "orphan" /\ script[Live(p[1])].pc \in Cmdlets
                   THEN script[Live(p[1])] ELSE NoScript]
  BY DEF Crash
<1>4. \A p \in Processes : script[Live(p[1])] \in Scripts
  BY Indices
<1> QED
  BY <1>1, <1>2, <1>3, <1>4, Indices

-----------------------------------------------------------------------------
(* Type correctness.                                                        *)

HostTyped ==
  /\ vm \in {"absent", "off", "running"} /\ disk \in BOOLEAN
  /\ settings \subseteq {"cpus", "checkpoints"}
CallsTyped ==
  /\ script \in [Processes -> Scripts]
  /\ job \in [Clients -> {"none", "create", "destroy", "sweep"}]
  /\ \A c \in Clients : job[c] = "none" <=> script[Live(c)].op = "none"
RowTyped ==
  /\ lease \in {"none", "creating", "running", "error", "destroyed", "expired"}
  /\ faults \in 0..MaxFaults /\ crashes \in 0..MaxCrashes

LEMMA Typed == TypeOK <=> HostTyped /\ CallsTyped /\ RowTyped
  BY DEF TypeOK, HostTyped, CallsTyped, RowTyped, Scripts, Ops, PCs

\* A script that goes on keeps its command, and so the job stays the call's.
LEMMA GotoTyped ==
  ASSUME CallsTyped, NEW p \in Processes, NEW pc \in PCs, Goto(p, pc), UNCHANGED job
  PROVE  CallsTyped'
<1>1. \A q \in Processes : script'[q].op = script[q].op
  <2>1. /\ script'[p] = [op |-> script[p].op, pc |-> pc]
        /\ \A q \in Processes \ {p} : script'[q] = script[q]
    BY GotoScript DEF CallsTyped
  <2>2. script'[p].op = script[p].op
    BY <2>1
  <2> QED
    BY <2>1, <2>2
<1> QED
  BY <1>1, GotoScript, Indices DEF CallsTyped

\* A client that begins a call runs its first script, one that goes on the next.
LEMMA RunTyped ==
  ASSUME CallsTyped, NEW c \in Clients, NEW op \in Ops \ {"none"}, NEW pc \in PCs,
         Run(c, op, pc),
         \/ UNCHANGED job /\ job[c] # "none"
         \/ \E j \in {"create", "destroy", "sweep"} : job' = [job EXCEPT ![c] = j]
  PROVE  CallsTyped'
<1>1. [op |-> op, pc |-> pc] \in Scripts
  BY DEF Scripts
<1>2. /\ script' \in [Processes -> Scripts]
      /\ script'[Live(c)] = [op |-> op, pc |-> pc]
      /\ \A q \in Processes \ {Live(c)} : script'[q] = script[q]
  BY <1>1, LiveScript DEF CallsTyped, Run
<1>3. /\ job' \in [Clients -> {"none", "create", "destroy", "sweep"}]
      /\ job'[c] # "none" /\ \A d \in Clients \ {c} : job'[d] = job[d]
  BY DEF CallsTyped
<1> QED
  BY <1>2, <1>3, Indices DEF CallsTyped

LEMMA DoneTyped ==
  ASSUME CallsTyped, NEW c \in Clients, Done(c)
  PROVE  CallsTyped'
<1>1. NoScript \in Scripts /\ NoScript.op = "none"
  BY DEF NoScript, Scripts, Ops, PCs
<1>2. /\ script' \in [Processes -> Scripts]
      /\ script'[Live(c)] = NoScript
      /\ \A q \in Processes \ {Live(c)} : script'[q] = script[q]
  BY <1>1, LiveScript DEF CallsTyped, Done
<1>3. /\ job' \in [Clients -> {"none", "create", "destroy", "sweep"}]
      /\ job'[c] = "none" /\ \A d \in Clients \ {c} : job'[d] = job[d]
  BY DEF CallsTyped, Done
<1> QED
  BY <1>1, <1>2, <1>3, Indices DEF CallsTyped

\* TypeOK holds initially and no step breaks it.
LEMMA TypeInit == Init => TypeOK
<1> SUFFICES ASSUME Init PROVE TypeOK
  OBVIOUS
<1>1. NoScript \in Scripts /\ NoScript.op = "none"
  BY DEF NoScript, Scripts, Ops, PCs
<1>2. CallsTyped
  BY <1>1, Indices DEF Init, CallsTyped
<1>3. HostTyped
  BY DEF Init, HostTyped
<1>4. RowTyped
  BY HyperVAssumption DEF Init, RowTyped
<1> QED
  BY <1>2, <1>3, <1>4, Typed

LEMMA TypeStep == TypeOK /\ [Next]_vars => TypeOK'
<1> SUFFICES ASSUME TypeOK, [Next]_vars PROVE TypeOK'
  OBVIOUS
<1>t. HostTyped /\ CallsTyped /\ RowTyped
  BY Typed
<1>e. HostTyped' /\ CallsTyped' /\ RowTyped' => TypeOK'
  BY Typed, PTL
<1>b. faults < MaxFaults => faults + 1 \in 0..MaxFaults
  BY <1>t, HyperVAssumption DEF RowTyped
<1>h. UNCHANGED host => HostTyped'
  BY <1>t DEF host, HostTyped
<1>r. UNCHANGED <<lease, bounds>> => RowTyped'
  BY <1>t DEF bounds, RowTyped
<1>1. ASSUME NEW p \in Processes, ScriptStep(p) \/ Throw(p) PROVE TypeOK'
  <2>1. UNCHANGED job
    <3>1. CASE NewVhd(p) \/ NewVm(p) \/ SetVm(p) \/ RemoveVm(p) \/ RemoveDisk(p) \/ Exit(p)
      BY <3>1 DEF NewVhd, NewVm, SetVm, RemoveVm, RemoveDisk, Exit, Service
    <3>2. CASE CheckName(p) \/ FindVm(p) \/ StartVm(p) \/ WaitForIpv4(p) \/ TurnOff(p) \/ Throw(p)
      BY <3>2 DEF CheckName, FindVm, StartVm, WaitForIpv4, TurnOff, Throw
    <3> QED
      BY <1>1, <3>1, <3>2 DEF ScriptStep
  <2>2. CallsTyped'
    BY <1>t, <1>1, <2>1, ScriptGoes, GotoTyped
  <2>3. CASE NewVhd(p) \/ NewVm(p) \/ SetVm(p) \/ RemoveVm(p) \/ RemoveDisk(p) \/ Exit(p)
    <3>1. RowTyped'
      BY <1>r, <2>3 DEF NewVhd, NewVm, SetVm, RemoveVm, RemoveDisk, Exit, Service
    <3>2. HostTyped'
      BY <1>t, <2>3 DEF NewVhd, NewVm, SetVm, RemoveVm, RemoveDisk, Exit, host, HostTyped
    <3> QED
      BY <1>e, <2>2, <3>1, <3>2
  <2>4. CASE CheckName(p) \/ FindVm(p) \/ StartVm(p) \/ WaitForIpv4(p) \/ TurnOff(p) \/ Throw(p)
    <3>1. RowTyped'
      BY <1>t, <1>b, <2>4
      DEF CheckName, FindVm, Found, FoundNone, StartVm, WaitForIpv4, TurnOff, Throw, RowTyped
    <3>2. HostTyped'
      BY <1>t, <2>4 DEF CheckName, FindVm, StartVm, WaitForIpv4, TurnOff, Throw, host, HostTyped
    <3> QED
      BY <1>e, <2>2, <3>1, <3>2
  <2> QED
    BY <1>1, <2>3, <2>4 DEF ScriptStep
<1>2. ASSUME NEW c \in Clients, BeginCreate(c) \/ BeginDestroy(c) PROVE TypeOK'
  <2>1. CallsTyped'
    BY <1>t, <1>2, RunTyped DEF BeginCreate, BeginDestroy, Begin, Ops, PCs, Cmdlets
  <2>2. HostTyped' /\ RowTyped'
    BY <1>t, <1>2, <1>h DEF BeginCreate, BeginDestroy, bounds, RowTyped
  <2> QED
    BY <1>e, <2>1, <2>2
<1>3. CASE BeginSweep
  <2>1. Sweeper \in Clients
    BY DEF Clients
  <2>2. CallsTyped'
    BY <1>t, <1>3, <2>1, RunTyped DEF BeginSweep, Begin, Ops, PCs, Cmdlets
  <2> QED
    BY <1>t, <1>e, <1>h, <1>r, <1>3, <2>2 DEF BeginSweep
<1>4. ASSUME NEW c \in Clients, ServiceStep(c) PROVE TypeOK'
  <2>1. CASE Created(c) \/ Stopped(c)
    <3>1. job[c] # "none"
      BY <1>t, <2>1 DEF Created, Stopped, Answered, CallsTyped
    <3>2. CallsTyped'
      BY <1>t, <2>1, <3>1, RunTyped DEF Created, Stopped, Ops, PCs, Cmdlets
    <3> QED
      BY <1>t, <1>e, <1>h, <1>r, <2>1, <3>2 DEF Created, Stopped
  <2>2. CASE Started(c) \/ CreateFailed(c) \/ Destroyed(c) \/ DestroyFailed(c) \/ Swept(c)
    <3>1. CallsTyped'
      BY <1>t, <2>2, DoneTyped DEF Started, CreateFailed, Destroyed, DestroyFailed, Swept
    <3>2. HostTyped' /\ RowTyped'
      BY <1>t, <1>h, <2>2
      DEF Started, CreateFailed, Destroyed, DestroyFailed, Swept, bounds, RowTyped
    <3> QED
      BY <1>e, <3>1, <3>2
  <2> QED
    BY <1>4, <2>1, <2>2 DEF ServiceStep
<1>5. CASE GuestPowersOff
  BY <1>t, <1>e, <1>5 DEF GuestPowersOff, HostTyped, CallsTyped, RowTyped, Service, bounds
<1>6. CASE Crash
  <2>1. CallsTyped'
    <3>1. NoScript.op = "none"
      BY DEF NoScript
    <3> QED
      BY <1>t, <1>6, <3>1, CrashScripts DEF CallsTyped, Crash
  <2>2. HostTyped' /\ RowTyped'
    BY <1>t, <1>h, <1>6, HyperVAssumption DEF Crash, RowTyped
  <2> QED
    BY <1>e, <2>1, <2>2
<1>7. CASE UNCHANGED vars
  BY <1>t, <1>e, <1>h, <1>r, <1>7 DEF vars, CallsTyped
<1> QED
  BY <1>1, <1>2, <1>3, <1>4, <1>5, <1>6, <1>7 DEF Next

\* Every variable keeps its type.
THEOREM TypeCorrect == Spec => []TypeOK
  BY TypeInit, TypeStep, PTL DEF Spec


-----------------------------------------------------------------------------
(* What runs was set up.  The invariant says where the script of each       *)
(* command can be, that an instance has one creation at most, and what of   *)
(* the machine this creation may rely on: nobody else brings it about.      *)

Full == {"cpus", "checkpoints"}

\* A script is at one of its own cmdlets.
Placed(s) ==
  \/ s = NoScript
  \/ s.op = "create" /\ s.pc \in {"check", "vhd", "vm", "cpus", "checkpoints",
                                  "exit", "ok", "error"}
  \/ s.op = "start" /\ s.pc \in {"start", "wait", "exit", "ok", "error"}
  \/ s.op = "stop" /\ s.pc \in {"find", "turn_off", "exit", "ok", "error"}
  \/ s.op = "delete" /\ s.pc \in {"find", "turn_off", "remove", "disk",
                                  "exit", "ok", "error"}

Makes(s) == s.op \in {"create", "start"}

\* A creation finds no machine until it makes one, and one that has set something
\* of a machine finds it set, or no machine.
Relies(s, machine, set) ==
  /\ s.op = "create" /\ s.pc \in {"check", "vhd", "vm"} => machine = "absent"
  /\ s.op = "create" /\ s.pc = "checkpoints" => machine = "absent" \/ "cpus" \in set
  /\ \/ s.op = "create" /\ s.pc \in {"exit", "ok"}
     \/ s.op = "start" /\ s.pc = "start"
     => machine = "absent" \/ set = Full

PlaceInv == \A p \in Processes : Placed(script[p])
ReliesInv == \A p \in Processes : Relies(script[p], vm, settings)
OneMaker ==
  \A p, q \in Processes : Makes(script[p]) /\ Makes(script[q]) => p = q
FreshInv == lease = "none" => /\ vm = "absent"
                              /\ \A p \in Processes : script[p] = NoScript

MachineInv == PlaceInv /\ ReliesInv /\ OneMaker /\ FreshInv /\ StartedIsConfigured

\* No script is under way before the first call, and none that makes anything
\* where another one does.
LEMMA MachineInit == Init => MachineInv
<1> SUFFICES ASSUME Init PROVE MachineInv
  OBVIOUS
<1>1. \A p \in Processes : script[p] = NoScript
  BY DEF Init
<1>2. Placed(NoScript) /\ Relies(NoScript, vm, settings) /\ ~ Makes(NoScript)
  BY DEF Placed, Relies, Makes, NoScript
<1> QED
  BY <1>1, <1>2
  DEF Init, MachineInv, PlaceInv, ReliesInv, OneMaker, FreshInv, StartedIsConfigured

\* A script goes on at one of its cmdlets, and no creation loses what it relies
\* on.
LEMMA MachineGoto ==
  ASSUME TypeOK, MachineInv, NEW p \in Processes, NEW pc \in PCs, Goto(p, pc),
         script[p] # NoScript, UNCHANGED lease,
         Placed([op |-> script[p].op, pc |-> pc]),
         Relies([op |-> script[p].op, pc |-> pc], vm', settings'),
         \A q \in Processes \ {p} : Relies(script[q], vm', settings'),
         StartedIsConfigured'
  PROVE  MachineInv'
<1>1. /\ script'[p] = [op |-> script[p].op, pc |-> pc]
      /\ \A q \in Processes \ {p} : script'[q] = script[q]
  BY Typed, GotoScript DEF CallsTyped
<1>2. PlaceInv' /\ ReliesInv'
  BY <1>1 DEF MachineInv, PlaceInv, ReliesInv
<1>3. OneMaker'
  <2>1. script'[p].op = script[p].op
    BY <1>1
  <2> QED
    BY <1>1, <2>1 DEF MachineInv, OneMaker, Makes
<1>4. FreshInv'
  BY DEF MachineInv, FreshInv
<1> QED
  BY <1>2, <1>3, <1>4 DEF MachineInv

\* No other process relies on the machine that a creation works on.
LEMMA OthersRely ==
  ASSUME MachineInv, NEW p \in Processes, Makes(script[p])
  PROVE  \A q \in Processes \ {p} : Relies(script[q], vm', settings')
  BY DEF MachineInv, OneMaker, Makes, Relies

\* The machine stays, is turned off or removed, with its settings or without.
LEMMA KeepsRelying ==
  ASSUME MachineInv, vm' = "absent" \/ (settings' = settings /\ (vm' = vm \/ vm # "absent"))
  PROVE  \A q \in Processes : Relies(script[q], vm', settings')
  BY DEF MachineInv, ReliesInv, Relies

\* No step of a script breaks the invariant.
LEMMA MachineScript ==
  ASSUME TypeOK, MachineInv, NEW p \in Processes, ScriptStep(p) \/ Throw(p)
  PROVE  MachineInv'
<1> DEFINE op == script[p].op
<1>t. HostTyped /\ CallsTyped /\ RowTyped
  BY Typed
<1>p. /\ Placed(script[p]) /\ Relies(script[p], vm, settings)
      /\ vm = "running" => settings = Full
  BY DEF MachineInv, PlaceInv, ReliesInv, StartedIsConfigured, Full
<1>n. script[p].pc # "none" => script[p] # NoScript
  BY DEF NoScript
<1>1. CASE CheckName(p)
  <2>1. op = "create" /\ script[p].pc = "check" /\ UNCHANGED <<vm, settings, lease>>
    BY <1>p, <1>1 DEF CheckName, At, Placed, NoScript, host
  <2>2. PICK pc \in {"vhd", "error"} : Goto(p, pc)
    BY <1>1 DEF CheckName
  <2>3. Placed([op |-> op, pc |-> pc]) /\ Relies([op |-> op, pc |-> pc], vm', settings')
    BY <1>p, <2>1 DEF Placed, Relies
  <2> QED
    BY <1>n, <1>p, <2>1, <2>2, <2>3, KeepsRelying, MachineGoto
    DEF PCs, Cmdlets, StartedIsConfigured, Full
<1>2. CASE NewVhd(p)
  <2>1. op = "create" /\ script[p].pc = "vhd" /\ UNCHANGED <<vm, settings, lease>>
    BY <1>p, <1>2 DEF NewVhd, At, Placed, NoScript, Service
  <2>2. PICK pc \in {"vm", "error"} : Goto(p, pc)
    BY <1>2 DEF NewVhd
  <2>3. Placed([op |-> op, pc |-> pc]) /\ Relies([op |-> op, pc |-> pc], vm', settings')
    BY <1>p, <2>1 DEF Placed, Relies
  <2> QED
    BY <1>n, <1>p, <2>1, <2>2, <2>3, KeepsRelying, MachineGoto
    DEF PCs, Cmdlets, StartedIsConfigured, Full
<1>3. CASE NewVm(p)
  <2>1. op = "create" /\ script[p].pc = "vm" /\ UNCHANGED lease
    BY <1>p, <1>3 DEF NewVm, At, Placed, NoScript, Service
  <2>2. PICK pc \in {"cpus", "error"} : Goto(p, pc)
    BY <1>3 DEF NewVm
  <2>3. Placed([op |-> op, pc |-> pc]) /\ Relies([op |-> op, pc |-> pc], vm', settings')
    BY <2>1 DEF Placed, Relies
  <2>4. StartedIsConfigured'
    BY <1>p, <1>3 DEF NewVm, StartedIsConfigured, Full
  <2> QED
    BY <1>n, <2>1, <2>2, <2>3, <2>4, OthersRely, MachineGoto DEF PCs, Cmdlets, Makes
<1>4. CASE SetVm(p)
  <2>1. op = "create" /\ script[p].pc \in {"cpus", "checkpoints"} /\ UNCHANGED <<vm, lease>>
    BY <1>p, <1>4 DEF SetVm, Placed, NoScript, Service
  <2>2. CASE vm = "off"
    <3>1. CASE script[p].pc = "cpus"
      <4>1. Goto(p, "checkpoints") /\ settings' = settings \cup {"cpus"}
        BY <1>4, <2>2, <3>1 DEF SetVm, At
      <4>2. /\ Placed([op |-> op, pc |-> "checkpoints"])
            /\ Relies([op |-> op, pc |-> "checkpoints"], vm', settings')
        BY <2>1, <4>1 DEF Placed, Relies
      <4> QED
        BY <1>n, <2>1, <2>2, <3>1, <4>1, <4>2, OthersRely, MachineGoto
        DEF PCs, Cmdlets, Makes, StartedIsConfigured
    <3>2. CASE script[p].pc = "checkpoints"
      <4>1. Goto(p, "exit") /\ settings' = settings \cup {"checkpoints"}
        BY <1>4, <2>2, <3>2 DEF SetVm, At
      <4>2. settings' = Full
        BY <1>p, <1>t, <2>1, <2>2, <3>2, <4>1 DEF Relies, HostTyped, Full
      <4>3. /\ Placed([op |-> op, pc |-> "exit"])
            /\ Relies([op |-> op, pc |-> "exit"], vm', settings')
        BY <2>1, <4>2 DEF Placed, Relies
      <4> QED
        BY <1>n, <2>1, <2>2, <3>2, <4>1, <4>3, OthersRely, MachineGoto
        DEF PCs, Cmdlets, Makes, StartedIsConfigured
    <3> QED
      BY <2>1, <3>1, <3>2
  <2>3. CASE vm # "off"
    <3>1. Goto(p, "error") /\ UNCHANGED settings
      BY <1>4, <2>3 DEF SetVm
    <3>2. Placed([op |-> op, pc |-> "error"]) /\ Relies([op |-> op, pc |-> "error"], vm', settings')
      BY <2>1 DEF Placed, Relies
    <3> QED
      BY <1>n, <1>p, <2>1, <3>1, <3>2, KeepsRelying, MachineGoto
      DEF PCs, Cmdlets, StartedIsConfigured, Full
  <2> QED
    BY <2>2, <2>3
<1>5. CASE StartVm(p)
  <2>1. op = "start" /\ script[p].pc = "start" /\ UNCHANGED <<settings, lease>>
    BY <1>p, <1>5 DEF StartVm, At, Placed, NoScript
  <2>2. PICK pc \in {"wait", "ok"} : Goto(p, pc)
    BY <1>5 DEF StartVm
  <2>3. Placed([op |-> op, pc |-> pc]) /\ Relies([op |-> op, pc |-> pc], vm', settings')
    BY <2>1 DEF Placed, Relies
  <2>4. StartedIsConfigured'
    BY <1>p, <1>5, <2>1 DEF StartVm, StartedIsConfigured, Relies, Full
  <2> QED
    BY <1>n, <2>1, <2>2, <2>3, <2>4, OthersRely, MachineGoto DEF PCs, Cmdlets, Makes
<1>6. CASE WaitForIpv4(p)
  <2>1. op = "start" /\ script[p].pc = "wait" /\ UNCHANGED <<vm, settings, lease>>
    BY <1>p, <1>6 DEF WaitForIpv4, At, Placed, NoScript, host
  <2>2. PICK pc \in {"exit", "error"} : Goto(p, pc)
    BY <1>6 DEF WaitForIpv4
  <2>3. Placed([op |-> op, pc |-> pc]) /\ Relies([op |-> op, pc |-> pc], vm', settings')
    BY <2>1 DEF Placed, Relies
  <2> QED
    BY <1>n, <1>p, <2>1, <2>2, <2>3, KeepsRelying, MachineGoto
    DEF PCs, Cmdlets, StartedIsConfigured, Full
<1>7. CASE FindVm(p)
  <2>1. op \in {"stop", "delete"} /\ script[p].pc = "find" /\ UNCHANGED <<vm, settings, lease>>
    BY <1>p, <1>7 DEF FindVm, At, Placed, NoScript, host
  <2>2. PICK pc \in {"turn_off", "exit", "disk"} :
          Goto(p, pc) /\ (pc = "disk" => op = "delete")
    BY <1>7, <2>1 DEF FindVm
  <2>3. Placed([op |-> op, pc |-> pc]) /\ Relies([op |-> op, pc |-> pc], vm', settings')
    BY <2>1, <2>2 DEF Placed, Relies
  <2> QED
    BY <1>n, <1>p, <2>1, <2>2, <2>3, KeepsRelying, MachineGoto
    DEF PCs, Cmdlets, StartedIsConfigured, Full
<1>8. CASE TurnOff(p)
  <2>1. op \in {"stop", "delete"} /\ script[p].pc = "turn_off" /\ UNCHANGED <<settings, lease>>
    BY <1>p, <1>8 DEF TurnOff, At, Placed, NoScript
  <2>2. PICK pc \in {"remove", "exit"} :
          Goto(p, pc) /\ (pc = "remove" => op = "delete")
    BY <1>8, <2>1 DEF TurnOff
  <2>3. Placed([op |-> op, pc |-> pc]) /\ Relies([op |-> op, pc |-> pc], vm', settings')
    BY <2>1, <2>2 DEF Placed, Relies
  <2>4. (vm' = vm \/ vm # "absent") /\ StartedIsConfigured'
    BY <1>p, <1>8, <2>1 DEF TurnOff, StartedIsConfigured, Full
  <2> QED
    BY <1>n, <2>1, <2>2, <2>3, <2>4, KeepsRelying, MachineGoto DEF PCs, Cmdlets
<1>9. CASE RemoveVm(p)
  <2>1. op = "delete" /\ script[p].pc = "remove" /\ UNCHANGED lease
    BY <1>p, <1>9 DEF RemoveVm, At, Placed, NoScript, Service
  <2>2. PICK pc \in {"disk", "error"} : Goto(p, pc)
    BY <1>9 DEF RemoveVm
  <2>3. Placed([op |-> op, pc |-> pc]) /\ Relies([op |-> op, pc |-> pc], vm', settings')
    BY <2>1, <2>2 DEF Placed, Relies
  <2>4. (vm' = "absent" \/ UNCHANGED <<vm, settings>>) /\ StartedIsConfigured'
    BY <1>p, <1>9 DEF RemoveVm, StartedIsConfigured, Full
  <2> QED
    BY <1>n, <2>1, <2>2, <2>3, <2>4, KeepsRelying, MachineGoto DEF PCs, Cmdlets
<1>10. CASE RemoveDisk(p)
  <2>1. op = "delete" /\ script[p].pc = "disk" /\ UNCHANGED <<vm, settings, lease>>
    BY <1>p, <1>10 DEF RemoveDisk, At, Placed, NoScript, Service
  <2>2. PICK pc \in {"exit", "error"} : Goto(p, pc)
    BY <1>10 DEF RemoveDisk
  <2>3. Placed([op |-> op, pc |-> pc]) /\ Relies([op |-> op, pc |-> pc], vm', settings')
    BY <2>1, <2>2 DEF Placed, Relies
  <2> QED
    BY <1>n, <1>p, <2>1, <2>2, <2>3, KeepsRelying, MachineGoto
    DEF PCs, Cmdlets, StartedIsConfigured, Full
<1>11. CASE Exit(p)
  <2>1. script[p].pc = "exit" /\ Goto(p, "ok") /\ UNCHANGED <<vm, settings, lease>>
    BY <1>11 DEF Exit, At, host, Service
  <2>2. Placed([op |-> op, pc |-> "ok"]) /\ Relies([op |-> op, pc |-> "ok"], vm', settings')
    BY <1>p, <2>1 DEF Placed, Relies, NoScript
  <2> QED
    BY <1>n, <1>p, <2>1, <2>2, KeepsRelying, MachineGoto
    DEF PCs, Cmdlets, StartedIsConfigured, Full
<1>12. CASE Throw(p)
  <2>1. script[p].pc \in Cmdlets /\ Goto(p, "error") /\ UNCHANGED <<vm, settings, lease>>
    BY <1>12 DEF Throw, host
  <2>2. script[p] # NoScript
    BY <2>1 DEF Cmdlets, NoScript
  <2>3. Placed([op |-> op, pc |-> "error"]) /\ Relies([op |-> op, pc |-> "error"], vm', settings')
    BY <1>p, <2>2 DEF Placed, Relies
  <2> QED
    BY <1>p, <2>1, <2>2, <2>3, KeepsRelying, MachineGoto
    DEF PCs, Cmdlets, StartedIsConfigured, Full
<1> QED
  BY <1>1, <1>2, <1>3, <1>4, <1>5, <1>6, <1>7, <1>8, <1>9, <1>10, <1>11, <1>12 DEF ScriptStep

\* A client runs its next script, which makes something only where its last one
\* did or where none is under way.
LEMMA MachineRun ==
  ASSUME TypeOK, MachineInv, NEW c \in Clients, NEW s \in Scripts,
         script' = [script EXCEPT ![Live(c)] = s], UNCHANGED host, lease' # "none",
         Placed(s), Relies(s, vm, settings),
         Makes(s) => Makes(script[Live(c)]) \/ \A p \in Processes : script[p] = NoScript
  PROVE  MachineInv'
<1>1. /\ script'[Live(c)] = s
      /\ \A q \in Processes \ {Live(c)} : script'[q] = script[q]
      /\ Live(c) \in Processes
  BY Typed, LiveScript, Indices DEF CallsTyped
<1>2. PlaceInv' /\ ReliesInv'
  BY <1>1 DEF MachineInv, PlaceInv, ReliesInv, host
<1>3. OneMaker'
  BY <1>1 DEF MachineInv, OneMaker, Makes, NoScript
<1>4. FreshInv' /\ StartedIsConfigured'
  BY DEF MachineInv, FreshInv, StartedIsConfigured, host
<1> QED
  BY <1>2, <1>3, <1>4 DEF MachineInv

\* No step breaks the invariant.
LEMMA MachineStep == TypeOK /\ MachineInv /\ [Next]_vars => MachineInv'
<1> SUFFICES ASSUME TypeOK, MachineInv, [Next]_vars PROVE MachineInv'
  OBVIOUS
<1>t. HostTyped /\ CallsTyped /\ RowTyped
  BY Typed
<1>i. PlaceInv /\ ReliesInv /\ OneMaker /\ FreshInv /\ StartedIsConfigured
  BY DEF MachineInv
<1>n. /\ NoScript \in Scripts /\ Placed(NoScript) /\ Relies(NoScript, vm, settings)
      /\ ~ Makes(NoScript)
  BY DEF NoScript, Scripts, Ops, PCs, Placed, Relies, Makes
<1>f. \A c \in Clients : script[Live(c)] # NoScript => lease # "none"
  BY <1>i, Indices DEF FreshInv
<1>1. ASSUME NEW c \in Clients, BeginCreate(c) PROVE MachineInv'
  <2> DEFINE s == [op |-> "create", pc |-> "check"]
  <2>1. /\ script' = [script EXCEPT ![Live(c)] = s] /\ lease' # "none"
        /\ UNCHANGED host /\ \A p \in Processes : script[p] = NoScript
    BY <1>i, <1>1 DEF BeginCreate, Begin, Run, FreshInv
  <2>2. vm = "absent"
    BY <1>i, <1>1 DEF BeginCreate, FreshInv
  <2>3. s \in Scripts /\ Placed(s) /\ Relies(s, vm, settings)
    BY <2>2 DEF Scripts, Ops, PCs, Cmdlets, Placed, Relies
  <2> QED
    BY <2>1, <2>3, MachineRun
<1>2. ASSUME NEW c \in Clients, BeginDestroy(c) PROVE MachineInv'
  <2> DEFINE s == [op |-> "stop", pc |-> "find"]
  <2>1. script' = [script EXCEPT ![Live(c)] = s] /\ lease' # "none" /\ UNCHANGED host
    BY <1>2 DEF BeginDestroy, Begin, Run
  <2>2. s \in Scripts /\ Placed(s) /\ Relies(s, vm, settings) /\ ~ Makes(s)
    BY DEF Scripts, Ops, PCs, Cmdlets, Placed, Relies, Makes
  <2> QED
    BY <2>1, <2>2, MachineRun
<1>3. CASE BeginSweep
  <2> DEFINE s == [op |-> "stop", pc |-> "find"]
  <2>1. /\ script' = [script EXCEPT ![Live(Sweeper)] = s] /\ lease' # "none" /\ UNCHANGED host
        /\ Sweeper \in Clients
    BY <1>3 DEF BeginSweep, Begin, Run, Clients
  <2>2. s \in Scripts /\ Placed(s) /\ Relies(s, vm, settings) /\ ~ Makes(s)
    BY DEF Scripts, Ops, PCs, Cmdlets, Placed, Relies, Makes
  <2> QED
    BY <2>1, <2>2, MachineRun
<1>4. ASSUME NEW c \in Clients, Created(c) PROVE MachineInv'
  <2> DEFINE s == [op |-> "start", pc |-> "start"]
  <2>1. /\ script[Live(c)] = [op |-> "create", pc |-> "ok"]
        /\ script' = [script EXCEPT ![Live(c)] = s] /\ UNCHANGED <<host, lease>>
    BY <1>4 DEF Created, Answered, Run
  <2>2. Relies([op |-> "create", pc |-> "ok"], vm, settings)
    BY <1>i, <2>1, Indices DEF ReliesInv
  <2>3. s \in Scripts /\ Placed(s) /\ Relies(s, vm, settings)
    BY <2>2 DEF Scripts, Ops, PCs, Cmdlets, Placed, Relies
  <2>4. Makes(script[Live(c)]) /\ lease' # "none"
    BY <1>f, <2>1 DEF Makes, NoScript
  <2> QED
    BY <2>1, <2>3, <2>4, MachineRun
<1>5. ASSUME NEW c \in Clients, Stopped(c) PROVE MachineInv'
  <2> DEFINE s == [op |-> "delete", pc |-> "find"]
  <2>1. /\ script[Live(c)] = [op |-> "stop", pc |-> "ok"]
        /\ script' = [script EXCEPT ![Live(c)] = s] /\ UNCHANGED <<host, lease>>
    BY <1>5 DEF Stopped, Answered, Run
  <2>2. s \in Scripts /\ Placed(s) /\ Relies(s, vm, settings) /\ ~ Makes(s)
    BY DEF Scripts, Ops, PCs, Cmdlets, Placed, Relies, Makes
  <2>3. lease' # "none"
    BY <1>f, <2>1 DEF NoScript
  <2> QED
    BY <2>1, <2>2, <2>3, MachineRun
<1>6. ASSUME NEW c \in Clients,
             Started(c) \/ CreateFailed(c) \/ Destroyed(c) \/ DestroyFailed(c) \/ Swept(c)
      PROVE  MachineInv'
  <2>1. script' = [script EXCEPT ![Live(c)] = NoScript] /\ UNCHANGED host
    BY <1>6 DEF Started, CreateFailed, Destroyed, DestroyFailed, Swept, Done
  <2>2. script[Live(c)] # NoScript
    BY <1>6 DEF Started, CreateFailed, Destroyed, DestroyFailed, Swept, Answered, NoScript
  <2>3. lease' # "none"
    BY <1>f, <1>6, <2>2 DEF Started, CreateFailed, Destroyed, DestroyFailed, Swept
  <2> QED
    BY <1>n, <2>1, <2>3, MachineRun
<1>7. CASE GuestPowersOff
  <2>1. vm = "running" /\ vm' = "off" /\ UNCHANGED <<settings, script, lease>>
    BY <1>7 DEF GuestPowersOff, Service
  <2> QED
    BY <1>i, <2>1, KeepsRelying
    DEF MachineInv, PlaceInv, ReliesInv, OneMaker, FreshInv, StartedIsConfigured
<1>8. CASE Crash
  <2>1. UNCHANGED <<vm, settings, lease>>
    BY <1>8 DEF Crash, host
  <2>2. ASSUME NEW p \in Processes
        PROVE  \/ script'[p] = NoScript
               \/ /\ p = Orphan(p[1]) /\ p[1] \in Clients
                  /\ script'[p] = script[Live(p[1])]
    BY <1>t, <1>8, CrashScripts, Indices DEF CallsTyped
  <2>3. \A p \in Processes : \E q \in Processes :
          script'[p] = NoScript \/ script'[p] = script[q]
    BY <2>2, Indices
  <2>4. PlaceInv' /\ ReliesInv'
    BY <1>i, <1>n, <2>1, <2>3 DEF PlaceInv, ReliesInv
  <2>5. OneMaker'
    <3> SUFFICES ASSUME NEW p \in Processes, NEW q \in Processes,
                        Makes(script'[p]), Makes(script'[q])
                 PROVE  p = q
      BY DEF OneMaker, Makes
    <3>1. /\ p = Orphan(p[1]) /\ p[1] \in Clients /\ Makes(script[Live(p[1])])
          /\ q = Orphan(q[1]) /\ q[1] \in Clients /\ Makes(script[Live(q[1])])
      BY <1>n, <2>2
    <3>2. Live(p[1]) = Live(q[1])
      BY <1>i, <3>1, Indices DEF OneMaker
    <3> QED
      BY <3>1, <3>2, Indices
  <2>6. FreshInv' /\ StartedIsConfigured'
    BY <1>i, <2>1, <2>3 DEF FreshInv, StartedIsConfigured
  <2> QED
    BY <2>4, <2>5, <2>6 DEF MachineInv
<1>9. CASE UNCHANGED vars
  BY <1>i, <1>9
  DEF vars, host, MachineInv, PlaceInv, ReliesInv, OneMaker, FreshInv, StartedIsConfigured
<1> QED
  BY <1>1, <1>2, <1>3, <1>4, <1>5, <1>6, <1>7, <1>8, <1>9, MachineScript
  DEF Next, ServiceStep

\* Whatever fails, is cut off or dies on the way, and however many transports
\* there are, no machine runs that was not set up.
THEOREM RunningIsConfigured == Spec => []StartedIsConfigured
<1>1. Init => TypeOK /\ MachineInv
  BY TypeInit, MachineInit
<1>2. TypeOK /\ MachineInv /\ [Next]_vars => (TypeOK /\ MachineInv)'
  BY TypeStep, MachineStep
<1>3. MachineInv => StartedIsConfigured
  BY DEF MachineInv
<1> QED
  BY <1>1, <1>2, <1>3, PTL DEF Spec

-----------------------------------------------------------------------------
(* The scripts implement the abstract backend.  A script stands for a       *)
(* command; where the machine changes the command has its effect, where a   *)
(* script finds the machine as it is to be nothing is left to do, and its   *)
(* end is the answer.  Scripts that outlived a server are commands that     *)
(* have their effect late.                                                  *)

Of(s) == [op |-> s.op, done |-> Accomplished(s),
          answer |-> IF s.pc \in {"ok", "error"} THEN s.pc ELSE "none"]

Commands == [c \in Clients |-> Command(c)]
Abandoned == {script[Orphan(c)].op : c \in Clients} \ {"none"}
Maps == Abstract!Next \/ UNCHANGED <<Machine, Commands, Abandoned>>

UnderWay(s) == s.op # "none" /\ s.pc \notin {"ok", "error"}

\* What the script t that s becomes in a step is to the machine.
Stays(s, t) == Machine' = Machine /\ Of(t) = Of(s)
Answers(s, t) ==
  /\ Machine' = Machine /\ UnderWay(s) /\ t.pc \in {"ok", "error"}
  /\ t.pc = "ok" => Accomplished(s)
Finds(s, t) ==
  /\ Machine' = Machine /\ UnderWay(s) /\ UnderWay(t)
  /\ Abstract!Reached(s.op, Machine) /\ Accomplished(t)
Acts(s, t) ==
  /\ Abstract!Effect(s.op) /\ UnderWay(s) /\ UnderWay(t)
  /\ \/ Accomplished(t) /\ (s.op = "create" \/ Abstract!Reached(s.op, Machine'))
     \/ s.op # "create" /\ Of(t) = Of(s)

\* What runs has its disk: a disk in use cannot be removed.
DiskInv == vm = "running" => disk

LEMMA DiskStep ==
  ASSUME TypeOK, DiskInv, [Next]_vars
  PROVE  DiskInv'
<1>t. HostTyped
  BY Typed
<1>h. UNCHANGED host => DiskInv'
  BY DEF host, DiskInv
<1>1. ASSUME NEW p \in Processes, ScriptStep(p) \/ Throw(p) PROVE DiskInv'
  <2>1. CASE CheckName(p) \/ WaitForIpv4(p) \/ FindVm(p) \/ Exit(p) \/ Throw(p)
    BY <1>h, <2>1 DEF CheckName, WaitForIpv4, FindVm, Exit, Throw
  <2>2. CASE NewVhd(p) \/ NewVm(p) \/ SetVm(p)
    BY <2>2 DEF NewVhd, NewVm, SetVm, DiskInv
  <2>3. CASE StartVm(p) \/ TurnOff(p)
    BY <1>t, <2>3 DEF StartVm, TurnOff, DiskInv, HostTyped
  <2>4. CASE RemoveVm(p) \/ RemoveDisk(p)
    BY <2>4 DEF RemoveVm, RemoveDisk, DiskInv
  <2> QED
    BY <1>1, <2>1, <2>2, <2>3, <2>4 DEF ScriptStep
<1>2. ASSUME NEW c \in Clients, BeginCreate(c) \/ BeginDestroy(c) PROVE DiskInv'
  BY <1>h, <1>2 DEF BeginCreate, BeginDestroy
<1>3. ASSUME NEW c \in Clients, ServiceStep(c) PROVE DiskInv'
  BY <1>h, <1>3 DEF ServiceStep, Created, Started, CreateFailed, Stopped, Destroyed,
                    DestroyFailed, Swept
<1>4. CASE BeginSweep \/ Crash \/ UNCHANGED vars
  BY <1>h, <1>4 DEF BeginSweep, Crash, vars
<1>5. CASE GuestPowersOff
  BY <1>5 DEF GuestPowersOff, DiskInv
<1> QED
  BY <1>1, <1>2, <1>3, <1>4, <1>5 DEF Next

\* Each step of a script is one of these, or has at most a late effect.
LEMMA ScriptKinds ==
  ASSUME TypeOK, MachineInv, DiskInv, NEW p \in Processes, ScriptStep(p) \/ Throw(p)
  PROVE  \E pc \in PCs :
           LET s == script[p]
               t == [op |-> s.op, pc |-> pc]
           IN  /\ Goto(p, pc) /\ s.op # "none"
               /\ Machine' = Machine \/ Abstract!Effect(s.op)
               /\ p[2] = "live" => Stays(s, t) \/ Answers(s, t) \/ Finds(s, t) \/ Acts(s, t)
<1> DEFINE s == script[p]
           op == s.op
           t(pc) == [op |-> op, pc |-> pc]
<1> USE DEF PCs, Cmdlets
<1>p. Placed(s) /\ Relies(s, vm, settings)
  BY DEF MachineInv, PlaceInv, ReliesInv
<1>t. HostTyped
  BY Typed
<1>h. UNCHANGED <<vm, disk>> => Machine' = Machine
  BY DEF Machine
<1>m. /\ vm = "absent" => Machine = "absent"
      /\ vm = "running" <=> Machine = "running"
      /\ vm = "off" => Machine \in {"off", "hollow"}
      /\ vm = "off" /\ disk => Machine = "off"
  BY <1>t DEF Machine, HostTyped
<1>1. CASE CheckName(p)
  <2>1. op = "create" /\ s.pc = "check" /\ Machine' = Machine
    BY <1>h, <1>p, <1>1 DEF CheckName, At, Placed, NoScript, host
  <2>2. CASE Goto(p, "vhd")
    BY <2>1, <2>2 DEF Stays, Of, Accomplished
  <2>3. CASE Goto(p, "error")
    BY <2>1, <2>3 DEF Answers, UnderWay
  <2> QED
    BY <1>1, <2>2, <2>3 DEF CheckName
<1>2. CASE NewVhd(p)
  <2>1. op = "create" /\ s.pc = "vhd" /\ vm = "absent" /\ vm' = vm
    BY <1>p, <1>2 DEF NewVhd, At, Placed, NoScript, Relies
  <2>2. Machine' = Machine
    BY <2>1 DEF Machine
  <2>3. CASE Goto(p, "vm")
    BY <2>1, <2>2, <2>3 DEF Stays, Of, Accomplished
  <2>4. CASE Goto(p, "error")
    BY <2>1, <2>2, <2>4 DEF Answers, UnderWay
  <2> QED
    BY <1>2, <2>3, <2>4 DEF NewVhd
<1>3. CASE NewVm(p)
  <2>1. op = "create" /\ s.pc = "vm"
    BY <1>p, <1>3 DEF NewVm, At, Placed, NoScript
  <2>2. CASE Goto(p, "cpus") /\ vm = "absent" /\ disk /\ vm' = "off"
    <3>1. Machine = "absent" /\ Machine' = "off"
      BY <1>3, <2>2 DEF NewVm, Machine
    <3>2. Abstract!Effect(op)
      BY <2>1, <3>1 DEF Abstract!Effect
    <3>3. Acts(s, t("cpus"))
      BY <2>1, <3>2 DEF Acts, UnderWay, Accomplished
    <3> QED
      BY <2>1, <2>2, <3>2, <3>3
  <2>3. CASE Goto(p, "error") /\ UNCHANGED <<vm, disk>>
    BY <1>h, <2>1, <2>3 DEF Answers, UnderWay
  <2> QED
    BY <1>3, <2>2, <2>3 DEF NewVm
<1>4. CASE SetVm(p)
  <2>1. op = "create" /\ s.pc \in {"cpus", "checkpoints"} /\ Machine' = Machine
    BY <1>h, <1>p, <1>4 DEF SetVm, Placed, NoScript
  <2>2. ASSUME NEW pc \in {"checkpoints", "exit"}, Goto(p, pc)
        PROVE  Goto(p, pc) /\ Stays(s, t(pc))
    BY <2>1, <2>2 DEF Stays, Of, Accomplished
  <2>3. CASE Goto(p, "error")
    BY <2>1, <2>3 DEF Answers, UnderWay
  <2> QED
    BY <1>4, <2>1, <2>2, <2>3 DEF SetVm
<1>5. CASE StartVm(p)
  <2>1. op = "start" /\ s.pc = "start"
    BY <1>p, <1>5 DEF StartVm, At, Placed, NoScript
  <2>2. Machine' = Machine \/ Abstract!Effect(op)
    <3>1. CASE vm = "off" /\ disk /\ vm' = "running"
      <4>1. Machine = "off" /\ Machine' = "running"
        BY <3>1 DEF Machine
      <4> QED
        BY <2>1, <4>1 DEF Abstract!Effect
    <3>2. CASE UNCHANGED vm
      BY <1>h, <1>5, <3>2 DEF StartVm
    <3> QED
      BY <1>5, <3>1, <3>2 DEF StartVm
  <2>3. CASE p[2] = "live"
    <3>1. Goto(p, "wait") /\ Of(t("wait")) = Of(s)
      BY <1>5, <2>1, <2>3 DEF StartVm, Of, Accomplished
    <3>2. Stays(s, t("wait")) \/ Acts(s, t("wait"))
      BY <2>1, <2>2, <3>1 DEF Stays, Acts, UnderWay
    <3> QED
      BY <2>1, <2>2, <3>1, <3>2
  <2>4. CASE p[2] # "live"
    BY <1>5, <2>1, <2>2, <2>4 DEF StartVm
  <2> QED
    BY <2>3, <2>4
<1>6. CASE WaitForIpv4(p)
  <2>1. op = "start" /\ s.pc = "wait" /\ Machine' = Machine
    BY <1>h, <1>p, <1>6 DEF WaitForIpv4, At, Placed, NoScript, host
  <2>2. CASE Goto(p, "exit") /\ vm = "running"
    BY <1>m, <2>1, <2>2 DEF Finds, UnderWay, Accomplished, Abstract!Reached
  <2>3. CASE Goto(p, "error")
    BY <2>1, <2>3 DEF Answers, UnderWay
  <2> QED
    BY <1>6, <2>2, <2>3 DEF WaitForIpv4
<1>7. CASE FindVm(p)
  <2>1. op \in {"stop", "delete"} /\ s.pc = "find" /\ Machine' = Machine
    BY <1>h, <1>p, <1>7 DEF FindVm, At, Placed, NoScript, host
  <2>2. ASSUME NEW pc \in {"turn_off", "disk"}, Goto(p, pc)
        PROVE  Goto(p, pc) /\ Stays(s, t(pc))
    BY <2>1, <2>2 DEF Stays, Of, Accomplished
  <2>3. CASE Goto(p, "exit") /\ op = "stop"
    BY <2>1, <2>3 DEF Finds, UnderWay, Accomplished, Abstract!Reached
  <2> QED
    BY <1>7, <2>1, <2>2, <2>3 DEF FindVm
<1>8. CASE TurnOff(p)
  <2>1. op \in {"stop", "delete"} /\ s.pc = "turn_off"
    BY <1>p, <1>8 DEF TurnOff, At, Placed, NoScript
  <2>2. Machine' = Machine \/ Abstract!Effect(op)
    <3>1. CASE vm = "running" /\ vm' = "off"
      <4>1. Machine = "running" /\ Machine' = "off"
        BY <1>8, <3>1 DEF TurnOff, DiskInv, Machine
      <4> QED
        BY <2>1, <4>1 DEF Abstract!Effect
    <3>2. CASE UNCHANGED vm
      BY <1>h, <1>8, <3>2 DEF TurnOff
    <3> QED
      BY <1>8, <3>1, <3>2 DEF TurnOff
  <2>3. CASE op = "stop"
    <3>1. Goto(p, "exit")
      BY <1>8, <2>3 DEF TurnOff
    <3>2. Finds(s, t("exit")) \/ Acts(s, t("exit"))
      BY <2>1, <2>2, <2>3 DEF Finds, Acts, UnderWay, Accomplished, Abstract!Reached
    <3> QED
      BY <2>1, <2>2, <3>1, <3>2
  <2>4. CASE op = "delete"
    <3>1. Goto(p, "remove") /\ Of(t("remove")) = Of(s)
      BY <1>8, <2>1, <2>4 DEF TurnOff, Of, Accomplished
    <3>2. Stays(s, t("remove")) \/ Acts(s, t("remove"))
      BY <2>1, <2>2, <2>4, <3>1 DEF Stays, Acts, UnderWay
    <3> QED
      BY <2>1, <2>2, <3>1, <3>2
  <2> QED
    BY <2>1, <2>3, <2>4
<1>9. CASE RemoveVm(p)
  <2>1. op = "delete" /\ s.pc = "remove"
    BY <1>p, <1>9 DEF RemoveVm, At, Placed, NoScript
  <2>2. CASE Goto(p, "disk") /\ vm = "off" /\ vm' = "absent"
    <3>1. Machine \in {"off", "hollow"} /\ Machine' = "absent"
      BY <1>m, <2>2 DEF Machine
    <3>2. Abstract!Effect(op)
      BY <2>1, <3>1 DEF Abstract!Effect
    <3>3. Acts(s, t("disk"))
      BY <2>1, <3>2 DEF Acts, UnderWay, Of, Accomplished
    <3> QED
      BY <2>1, <2>2, <3>2, <3>3
  <2>3. CASE Goto(p, "error") /\ UNCHANGED <<vm, disk>>
    BY <1>h, <2>1, <2>3 DEF Answers, UnderWay
  <2> QED
    BY <1>9, <2>2, <2>3 DEF RemoveVm
<1>10. CASE RemoveDisk(p)
  <2>1. op = "delete" /\ s.pc = "disk" /\ vm' = vm
    BY <1>p, <1>10 DEF RemoveDisk, At, Placed, NoScript
  <2>2. CASE Goto(p, "exit") /\ vm = "absent"
    <3>1. Machine = "absent" /\ Machine' = Machine
      BY <2>1, <2>2 DEF Machine
    <3> QED
      BY <2>1, <2>2, <3>1 DEF Finds, UnderWay, Accomplished, Abstract!Reached
  <2>3. CASE Goto(p, "exit") /\ vm = "off" /\ ~ disk'
    <3>1. Machine' = "hollow" /\ Machine \in {"off", "hollow"}
      BY <1>m, <2>1, <2>3 DEF Machine
    <3>2. CASE Machine = "hollow"
      BY <2>1, <2>3, <3>1, <3>2 DEF Finds, UnderWay, Accomplished, Abstract!Reached
    <3>3. CASE Machine = "off"
      <4>1. Abstract!Effect(op)
        BY <2>1, <3>1, <3>3 DEF Abstract!Effect
      <4>2. Acts(s, t("exit"))
        BY <2>1, <3>1, <4>1 DEF Acts, UnderWay, Accomplished, Abstract!Reached
      <4> QED
        BY <2>1, <2>3, <4>1, <4>2
    <3> QED
      BY <3>1, <3>2, <3>3
  <2>4. CASE Goto(p, "error") /\ UNCHANGED <<vm, disk>>
    BY <1>h, <2>1, <2>4 DEF Answers, UnderWay
  <2> QED
    BY <1>t, <1>10, <2>1, <2>2, <2>3, <2>4 DEF RemoveDisk, DiskInv, HostTyped
<1>11. CASE Exit(p)
  <2>1. /\ s.pc = "exit" /\ Goto(p, "ok") /\ Machine' = Machine
        /\ op # "none" /\ Accomplished(s)
    BY <1>h, <1>p, <1>11 DEF Exit, At, host, Placed, NoScript, Accomplished
  <2> QED
    BY <2>1 DEF Answers, UnderWay
<1>12. CASE Throw(p)
  <2>1. s.pc \in Cmdlets /\ Goto(p, "error") /\ Machine' = Machine /\ op # "none"
    BY <1>h, <1>p, <1>12 DEF Throw, host, Placed, NoScript
  <2> QED
    BY <2>1 DEF Answers, UnderWay
<1> QED
  BY <1>1, <1>2, <1>3, <1>4, <1>5, <1>6, <1>7, <1>8, <1>9, <1>10, <1>11, <1>12 DEF ScriptStep

\* The actions of the abstract backend, in terms of Commands and Abandoned.
LEMMA AbstractSteps ==
  ASSUME NEW c \in Clients, UNCHANGED Abandoned
  PROVE  /\ \A answer :
              /\ Commands[c].op # "none" /\ Commands[c].answer = "none"
              /\ answer = "ok" => Commands[c].done
              /\ Commands' = [Commands EXCEPT ![c].done = FALSE, ![c].answer = answer]
              /\ Machine' = Machine
              => Abstract!Answer(c, answer)
         /\ /\ Commands[c].op # "none" /\ Commands[c].answer = "none"
            /\ Abstract!Reached(Commands[c].op, Machine)
            /\ Commands' = [Commands EXCEPT ![c].done = TRUE]
            /\ Machine' = Machine
            => Abstract!Find(c)
         /\ /\ Commands[c].op # "none" /\ Commands[c].answer = "none"
            /\ Abstract!Effect(Commands[c].op)
            /\ \/ /\ Commands[c].op = "create" \/ Abstract!Reached(Commands[c].op, Machine')
                  /\ Commands' = [Commands EXCEPT ![c].done = TRUE]
               \/ Commands[c].op # "create" /\ UNCHANGED Commands
            => Abstract!Act(c)
<1> USE DEF Abstract!Open, Commands, Abandoned, Machine
<1>1. ASSUME NEW answer,
             Commands[c].op # "none", Commands[c].answer = "none",
             answer = "ok" => Commands[c].done,
             Commands' = [Commands EXCEPT ![c].done = FALSE, ![c].answer = answer],
             Machine' = Machine
      PROVE  Abstract!Answer(c, answer)
  BY <1>1, Zenon DEF Abstract!Answer
<1>2. ASSUME Commands[c].op # "none", Commands[c].answer = "none",
             Abstract!Reached(Commands[c].op, Machine),
             Commands' = [Commands EXCEPT ![c].done = TRUE],
             Machine' = Machine
      PROVE  Abstract!Find(c)
  BY <1>2, Zenon DEF Abstract!Find
<1>3. ASSUME Commands[c].op # "none", Commands[c].answer = "none",
             Abstract!Effect(Commands[c].op),
             \/ /\ Commands[c].op = "create" \/ Abstract!Reached(Commands[c].op, Machine')
                /\ Commands' = [Commands EXCEPT ![c].done = TRUE]
             \/ Commands[c].op # "create" /\ UNCHANGED Commands
      PROVE  Abstract!Act(c)
  BY <1>3, Zenon DEF Abstract!Act
<1> HIDE DEF Abstract!Open, Commands, Abandoned, Machine
<1> QED
  BY <1>1, <1>2, <1>3

\* The command of a script: done once that is accomplished, until the answer.
LEMMA CommandOf ==
  ASSUME NEW s
  PROVE  /\ s.pc \in {"ok", "error"} =>
              Of(s) = [op |-> s.op, done |-> FALSE, answer |-> s.pc]
         /\ UnderWay(s) /\ Accomplished(s) =>
              Of(s) = [op |-> s.op, done |-> TRUE, answer |-> "none"]
         /\ UnderWay(s) /\ ~ Accomplished(s) =>
              Of(s) = [op |-> s.op, done |-> FALSE, answer |-> "none"]
<1> DEFINE answer == IF s.pc \in {"ok", "error"} THEN s.pc ELSE "none"
<1>1. CASE Accomplished(s)
  <2>1. Accomplished(s) = TRUE
    BY <1>1
  <2>2. Of(s) = [op |-> s.op, done |-> TRUE, answer |-> answer]
    BY <2>1, Zenon DEF Of
  <2> QED
    BY <1>1, <2>2 DEF UnderWay, Accomplished
<1>2. CASE ~ Accomplished(s)
  <2>1. Accomplished(s) = FALSE
    BY <1>2
  <2>2. Of(s) = [op |-> s.op, done |-> FALSE, answer |-> answer]
    BY <2>1, Zenon DEF Of
  <2> QED
    BY <1>2, <2>2 DEF UnderWay
<1> QED
  BY <1>1, <1>2

\* A command under way becomes done, or answered.
Changes(c, s, answer) ==
  /\ Commands[c].op = s.op /\ Commands[c].answer = "none"
  /\ Accomplished(s) => Commands[c].done
  /\ [Commands EXCEPT ![c].done = TRUE] =
       [Commands EXCEPT ![c] = [op |-> s.op, done |-> TRUE, answer |-> "none"]]
  /\ [Commands EXCEPT ![c].done = FALSE, ![c].answer = answer] =
       [Commands EXCEPT ![c] = [op |-> s.op, done |-> FALSE, answer |-> answer]]

LEMMA CommandChanges ==
  ASSUME NEW c \in Clients, NEW s, Commands[c] = Of(s), UnderWay(s), NEW answer
  PROVE  Changes(c, s, answer)
<1>a. PICK op : op = s.op
  OBVIOUS
<1>b. PICK done \in BOOLEAN :
        /\ Of(s) = [op |-> s.op, done |-> done, answer |-> "none"]
        /\ Accomplished(s) => done = TRUE
  BY CommandOf
<1>k. PICK k : k = [op |-> op, done |-> done, answer |-> "none"]
  OBVIOUS
<1>c. Commands[c] = k
  BY <1>a, <1>b, <1>k, Zenon
<1>1. Commands = [d \in Clients |-> Commands[d]]
  BY DEF Commands
<1> DEFINE yes == TRUE
           no == FALSE
<1> HIDE DEF yes, no
<1>2. PICK k1 : k1 = [k EXCEPT !.done = yes]
  OBVIOUS
<1>3. PICK k2 : k2 = [k EXCEPT !.done = no]
  OBVIOUS
<1>4. PICK k3 : k3 = [k2 EXCEPT !.answer = answer]
  OBVIOUS
<1>5. k1 = [op |-> op, done |-> yes, answer |-> "none"]
  BY <1>2, <1>k
<1>6. k3 = [op |-> op, done |-> no, answer |-> answer]
  <2>1. k2 = [op |-> op, done |-> no, answer |-> "none"]
    BY <1>3, <1>k
  <2> QED
    BY <1>4, <2>1
<1>7. [Commands EXCEPT ![c].done = yes] = [Commands EXCEPT ![c] = k1]
  BY <1>1, <1>2, <1>c
<1>8. [Commands EXCEPT ![c].done = no, ![c].answer = answer] = [Commands EXCEPT ![c] = k3]
  BY <1>1, <1>3, <1>4, <1>c
<1>9. /\ [Commands EXCEPT ![c].done = yes] =
           [Commands EXCEPT ![c] = [op |-> op, done |-> yes, answer |-> "none"]]
      /\ [Commands EXCEPT ![c].done = no, ![c].answer = answer] =
           [Commands EXCEPT ![c] = [op |-> op, done |-> no, answer |-> answer]]
  BY <1>5, <1>6, <1>7, <1>8
<1>10. Commands[c].op = op /\ Commands[c].answer = "none" /\ Commands[c].done = done
  BY <1>k, <1>c
<1>11. Accomplished(s) => Commands[c].done
  BY <1>b, <1>10
<1> QED
  BY <1>a, <1>9, <1>10, <1>11, Zenon DEF yes, no, Changes

\* What a script is to the machine is what its client's command does.
LEMMA LiveMaps ==
  ASSUME NEW c \in Clients, NEW s \in Scripts, NEW t \in Scripts, s = script[Live(c)],
         t.op = s.op, Commands' = [Commands EXCEPT ![c] = Of(t)], UNCHANGED Abandoned,
         Stays(s, t) \/ Answers(s, t) \/ Finds(s, t) \/ Acts(s, t)
  PROVE  Maps
<1>1. Commands[c] = Of(s) /\ Commands = [d \in Clients |-> Commands[d]]
  BY DEF Commands, Command, Of
<1>2. CASE Stays(s, t)
  <2>1. Commands' = Commands
    BY <1>1, <1>2 DEF Stays
  <2> QED
    BY <1>2, <2>1 DEF Stays, Maps
<1>3. ASSUME UnderWay(s), NEW answer PROVE Changes(c, s, answer)
  BY <1>1, <1>3, CommandChanges
<1>4. CASE Answers(s, t)
  <2>1. Of(t) = [op |-> s.op, done |-> FALSE, answer |-> t.pc]
    BY <1>4, CommandOf DEF Answers
  <2>2. Commands' = [Commands EXCEPT ![c].done = FALSE, ![c].answer = t.pc]
    <3>1. UnderWay(s)
      BY <1>4 DEF Answers
    <3>2. [Commands EXCEPT ![c].done = FALSE, ![c].answer = t.pc] =
            [Commands EXCEPT ![c] = [op |-> s.op, done |-> FALSE, answer |-> t.pc]]
      BY <1>3, <3>1, Zenon DEF Changes
    <3> QED
      BY <2>1, <3>2, Zenon
  <2>3. Abstract!Answer(c, t.pc)
    BY <1>3, <1>4, <2>2, AbstractSteps DEF Changes, Answers, UnderWay
  <2> QED
    BY <1>4, <2>3 DEF Maps, Abstract!Next, Answers
<1>5. ASSUME UnderWay(s), UnderWay(t), Accomplished(t)
      PROVE  Commands' = [Commands EXCEPT ![c].done = TRUE]
  <2>1. Of(t) = [op |-> s.op, done |-> TRUE, answer |-> "none"]
    BY <1>5, CommandOf
  <2> QED
    BY <1>3, <1>5, <2>1 DEF Changes
<1>6. CASE Finds(s, t)
  <2>1. Abstract!Find(c)
    BY <1>3, <1>5, <1>6, AbstractSteps DEF Changes, Finds, UnderWay
  <2> QED
    BY <2>1 DEF Maps, Abstract!Next
<1>7. CASE Acts(s, t)
  <2>1. s.op # "create" /\ Of(t) = Of(s) => Commands' = Commands
    BY <1>1
  <2>2. Abstract!Act(c)
    BY <1>3, <1>5, <1>7, <2>1, AbstractSteps DEF Changes, Acts, UnderWay
  <2> QED
    BY <2>2 DEF Maps, Abstract!Next
<1> QED
  BY <1>2, <1>4, <1>6, <1>7

\* A step of a script is a step of its command, or a late effect.
LEMMA ScriptMaps ==
  ASSUME TypeOK, MachineInv, DiskInv, NEW p \in Processes, ScriptStep(p) \/ Throw(p)
  PROVE  Maps
<1> DEFINE s == script[p]
<1>1. PICK pc \in PCs :
        LET t == [op |-> s.op, pc |-> pc]
        IN  /\ Goto(p, pc) /\ s.op # "none"
            /\ Machine' = Machine \/ Abstract!Effect(s.op)
            /\ p[2] = "live" => Stays(s, t) \/ Answers(s, t) \/ Finds(s, t) \/ Acts(s, t)
  BY ScriptKinds
<1> DEFINE t == [op |-> s.op, pc |-> pc]
<1>2. /\ s \in Scripts /\ t \in Scripts /\ script'[p] = t
      /\ \A q \in Processes \ {p} : script'[q] = script[q]
  BY <1>1, Typed, GotoScript DEF CallsTyped, Scripts
<1>3. UNCHANGED Abandoned
  <2>1. \A c \in Clients : script'[Orphan(c)].op = script[Orphan(c)].op
    <3>1. script'[p].op = script[p].op
      BY <1>2
    <3> QED
      BY <1>2, <3>1, Indices
  <2> QED
    BY <2>1 DEF Abandoned
<1>4. CASE p = Live(p[1]) /\ p[2] = "live" /\ p[1] \in Clients
  <2> DEFINE c == p[1]
  <2>1. Commands' = [Commands EXCEPT ![c] = Of(t)]
    <3>1. \A d \in Clients \ {c} : script'[Live(d)] = script[Live(d)]
      BY <1>2, <1>4, Indices
    <3>2. script'[Live(c)] = t
      BY <1>2, <1>4
    <3> HIDE DEF t, c
    <3> QED
      BY <3>1, <3>2 DEF Commands, Command, Of
  <2>2. t.op = s.op /\ s = script[Live(c)]
    BY <1>4
  <2>3. Stays(s, t) \/ Answers(s, t) \/ Finds(s, t) \/ Acts(s, t)
    BY <1>1, <1>4
  <2> HIDE DEF t, s
  <2> QED
    BY <1>2, <1>3, <1>4, <2>1, <2>2, <2>3, LiveMaps
<1>5. CASE p = Orphan(p[1]) /\ p[1] \in Clients
  <2>1. UNCHANGED Commands
    <3>1. \A d \in Clients : script'[Live(d)] = script[Live(d)]
      BY <1>2, <1>5, Indices
    <3> QED
      BY <3>1 DEF Commands, Command
  <2>2. s.op \in Abandoned
    BY <1>1, <1>5 DEF Abandoned
  <2>3. CASE Abstract!Effect(s.op)
    <3>1. Abstract!LateEffect
      BY <1>3, <2>1, <2>2, <2>3 DEF Abstract!LateEffect, Commands, Abandoned, Machine
    <3> QED
      BY <3>1 DEF Maps, Abstract!Next
  <2>4. CASE Machine' = Machine
    BY <1>3, <2>1, <2>4 DEF Maps
  <2> QED
    BY <1>1, <2>3, <2>4
<1> QED
  BY <1>4, <1>5, Indices

\* No script outlives a server that has not died.
OrphanInv == crashes = 0 => \A c \in Clients : script[Orphan(c)] = NoScript

LEMMA OrphanStep ==
  ASSUME TypeOK, MachineInv, DiskInv, OrphanInv, [Next]_vars
  PROVE  OrphanInv'
<1>t. CallsTyped /\ RowTyped
  BY Typed
<1>1. ASSUME NEW p \in Processes, ScriptStep(p) \/ Throw(p) PROVE OrphanInv'
  <2>1. UNCHANGED crashes
    <3>1. CASE NewVhd(p) \/ NewVm(p) \/ SetVm(p) \/ RemoveVm(p) \/ RemoveDisk(p) \/ Exit(p)
      BY <3>1 DEF NewVhd, NewVm, SetVm, RemoveVm, RemoveDisk, Exit, Service, bounds
    <3>2. CASE CheckName(p) \/ FindVm(p) \/ StartVm(p) \/ WaitForIpv4(p) \/ TurnOff(p) \/ Throw(p)
      BY <3>2 DEF CheckName, FindVm, StartVm, WaitForIpv4, TurnOff, Throw
    <3> QED
      BY <1>1, <3>1, <3>2 DEF ScriptStep
  <2>2. PICK pc \in PCs : Goto(p, pc) /\ script[p].op # "none"
    BY <1>1, ScriptKinds
  <2>3. \A q \in Processes \ {p} : script'[q] = script[q]
    BY <1>t, <2>2, GotoScript DEF CallsTyped
  <2>4. \A c \in Clients : script[Orphan(c)] = NoScript => p # Orphan(c)
    BY <2>2 DEF NoScript
  <2> QED
    BY <2>1, <2>3, <2>4, Indices DEF OrphanInv
<1>2. ASSUME NEW c \in Clients, NEW s \in Scripts, UNCHANGED crashes,
             script' = [script EXCEPT ![Live(c)] = s]
      PROVE  OrphanInv'
  <2>1. \A q \in Processes \ {Live(c)} : script'[q] = script[q]
    BY <1>t, <1>2, LiveScript DEF CallsTyped
  <2> QED
    BY <1>2, <2>1, Indices DEF OrphanInv
<1>3. ASSUME NEW c \in Clients, BeginCreate(c) \/ BeginDestroy(c) \/ ServiceStep(c)
      PROVE  OrphanInv'
  <2>1. UNCHANGED crashes
    BY <1>3 DEF BeginCreate, BeginDestroy, ServiceStep, Created, Started, CreateFailed,
                Stopped, Destroyed, DestroyFailed, Swept, bounds
  <2>2. \E s \in Scripts : script' = [script EXCEPT ![Live(c)] = s]
    BY <1>3 DEF BeginCreate, BeginDestroy, Begin, Run, Done, ServiceStep, Created, Started,
                CreateFailed, Stopped, Destroyed, DestroyFailed, Swept,
                NoScript, Scripts, Ops, PCs, Cmdlets
  <2> QED
    BY <1>2, <2>1, <2>2
<1>4. CASE BeginSweep
  <2>1. UNCHANGED crashes /\ Sweeper \in Clients
    BY <1>4 DEF BeginSweep, bounds, Clients
  <2>2. \E s \in Scripts : script' = [script EXCEPT ![Live(Sweeper)] = s]
    BY <1>4 DEF BeginSweep, Begin, Run, Scripts, Ops, PCs, Cmdlets
  <2> QED
    BY <1>2, <2>1, <2>2
<1>5. CASE GuestPowersOff \/ UNCHANGED vars
  BY <1>5 DEF GuestPowersOff, Service, bounds, vars, OrphanInv
<1>6. CASE Crash
  BY <1>t, <1>6, HyperVAssumption DEF Crash, OrphanInv, RowTyped
<1> QED
  BY <1>1, <1>3, <1>4, <1>5, <1>6 DEF Next

\* A client that runs its first or next script gives a command.
LEMMA GiveMaps ==
  ASSUME TypeOK, NEW c \in Clients, NEW op \in Ops \ {"none"}, NEW pc \in PCs,
         Run(c, op, pc), UNCHANGED host,
         pc \in {"check", "start", "find"},
         script[Live(c)].op = "none" \/ script[Live(c)].pc \in {"ok", "error"}
  PROVE  Maps
<1> DEFINE s == [op |-> op, pc |-> pc]
<1>1. CallsTyped /\ s \in Scripts
  BY Typed DEF Scripts
<1>2. /\ script'[Live(c)] = s
      /\ \A q \in Processes \ {Live(c)} : script'[q] = script[q]
  BY <1>1, LiveScript DEF CallsTyped, Run
<1>3. Commands' = [Commands EXCEPT ![c] = Of(s)]
  <2>1. \A d \in Clients \ {c} : script'[Live(d)] = script[Live(d)]
    BY <1>2, Indices
  <2> HIDE DEF s
  <2> QED
    BY <1>2, <2>1 DEF Commands, Command, Of
<1>4. UNCHANGED Abandoned
  BY <1>2, Indices DEF Abandoned
<1>5. Of(s) = [Abstract!NoCommand EXCEPT !.op = op]
  <2> DEFINE no == FALSE
  <2>1. UnderWay(s) /\ ~ Accomplished(s)
    BY DEF UnderWay, Accomplished
  <2>2. s.op = op
    OBVIOUS
  <2> HIDE DEF s
  <2>a. Of(s) = [op |-> s.op, done |-> FALSE, answer |-> "none"]
    BY <2>1, CommandOf, Zenon
  <2>b. Of(s) = [op |-> op, done |-> no, answer |-> "none"]
    BY <2>2, <2>a, Zenon
  <2> HIDE DEF no
  <2>3. PICK none : none = [op |-> "none", done |-> no, answer |-> "none"]
    OBVIOUS
  <2>4. [none EXCEPT !.op = op] = [op |-> op, done |-> no, answer |-> "none"]
    BY <2>3
  <2>5. Abstract!NoCommand = none
    BY <2>3, Zenon DEF no, Abstract!NoCommand
  <2> QED
    BY <2>b, <2>4, <2>5, Zenon
<1>6. ~ (Commands[c].op # "none" /\ Commands[c].answer = "none")
  <2>1. CASE script[Live(c)].op = "none"
    BY <2>1 DEF Commands, Command
  <2>2. CASE script[Live(c)].pc \in {"ok", "error"}
    BY <2>2 DEF Commands, Command
  <2> QED
    BY <2>1, <2>2
<1>7. Commands' = [Commands EXCEPT ![c] = [Abstract!NoCommand EXCEPT !.op = op]]
  BY <1>3, <1>5, Zenon
<1>8. Abstract!Give(c, op)
  BY <1>4, <1>6, <1>7, Zenon DEF Abstract!Give, Abstract!Open, Commands, Abandoned, Machine, host
<1>9. op \in Abstract!Ops
  BY DEF Ops, Abstract!Ops
<1> QED
  BY <1>8, <1>9 DEF Maps, Abstract!Next

\* A client that is through with an answer takes it.
LEMMA TakeMaps ==
  ASSUME TypeOK, NEW c \in Clients, Done(c), UNCHANGED host,
         script[Live(c)].pc \in {"ok", "error"}
  PROVE  Maps
<1>1. CallsTyped /\ NoScript \in Scripts
  BY Typed DEF NoScript, Scripts, Ops, PCs
<1>2. /\ script'[Live(c)] = NoScript
      /\ \A q \in Processes \ {Live(c)} : script'[q] = script[q]
  BY <1>1, LiveScript DEF CallsTyped, Done
<1>3. Commands' = [Commands EXCEPT ![c] = Of(NoScript)]
  <2>1. \A d \in Clients \ {c} : script'[Live(d)] = script[Live(d)]
    BY <1>2, Indices
  <2> QED
    BY <1>2, <2>1 DEF Commands, Command, Of
<1>4. UNCHANGED Abandoned
  BY <1>2, Indices DEF Abandoned
<1>5. Of(NoScript) = Abstract!NoCommand
  BY DEF Of, Abstract!NoCommand, NoScript, Accomplished
<1>6. Commands[c].answer # "none"
  BY DEF Commands, Command
<1>7. Commands' = [Commands EXCEPT ![c] = Abstract!NoCommand]
  BY <1>3, <1>5, Zenon
<1>8. Abstract!Take(c)
  BY <1>4, <1>6, <1>7, Zenon DEF Abstract!Take, Commands, Abandoned, Machine, host
<1> QED
  BY <1>8 DEF Maps, Abstract!Next

\* The scripts that a dying server leaves become commands without a caller.
LEMMA CrashMaps ==
  ASSUME TypeOK, MachineInv, OrphanInv, Crash
  PROVE  Maps
<1>t. CallsTyped /\ RowTyped
  BY Typed
<1> DEFINE C == {c \in Clients : script[Live(c)].pc \in Cmdlets}
<1>1. \A c \in Clients : /\ script'[Live(c)] = NoScript
                         /\ script'[Orphan(c)] = IF c \in C THEN script[Live(c)] ELSE NoScript
  BY <1>t, CrashScripts DEF CallsTyped
<1>2. \A c \in Clients : script[Orphan(c)] = NoScript
  BY <1>t, HyperVAssumption DEF Crash, RowTyped, OrphanInv
<1>3. Abandoned = {}
  BY <1>2 DEF Abandoned, NoScript
<1>4. \A c \in C : /\ script[Live(c)].op # "none"
                   /\ Commands[c].op = script[Live(c)].op /\ Commands[c].answer = "none"
  <2> SUFFICES ASSUME NEW c \in C
               PROVE  /\ script[Live(c)].op # "none"
                      /\ Commands[c].op = script[Live(c)].op /\ Commands[c].answer = "none"
    OBVIOUS
  <2>1. Placed(script[Live(c)])
    BY Indices DEF MachineInv, PlaceInv
  <2>2. script[Live(c)].op # "none" /\ script[Live(c)].pc \notin {"ok", "error"}
    BY <2>1 DEF Placed, NoScript, Cmdlets
  <2> QED
    BY <2>2 DEF Commands, Command
<1>5. Abandoned' = {Commands[c].op : c \in C}
  <2>1. NoScript.op = "none"
    BY DEF NoScript
  <2> QED
    BY <1>1, <1>4, <2>1 DEF Abandoned
<1>6. Commands' = [c \in Clients |-> Abstract!NoCommand]
  <2>1. Of(NoScript) = Abstract!NoCommand
    BY DEF Of, Abstract!NoCommand, NoScript, Accomplished
  <2>2. Commands' = [c \in Clients |-> Of(NoScript)]
    BY <1>1 DEF Commands, Command, Of
  <2> QED
    BY <2>1, <2>2, Zenon
<1>7. C \in SUBSET {c \in Clients : Abstract!Open(c)}
  BY <1>4 DEF Abstract!Open, Commands
<1>8. Abandoned' = Abandoned \cup {Commands[c].op : c \in C}
  BY <1>3, <1>5
<1>9. Abstract!Crash
  <2>1. UNCHANGED Machine
    BY DEF Crash, host, Machine
  <2>2. \E D \in SUBSET {c \in Clients : Abstract!Open(c)} :
          Abandoned' = Abandoned \cup {Commands[c].op : c \in D}
    <3> HIDE DEF C
    <3> QED
      BY <1>7, <1>8
  <2> QED
    BY <1>6, <2>1, <2>2, Zenon DEF Abstract!Crash, Commands, Abandoned, Machine
<1> QED
  BY <1>9 DEF Maps, Abstract!Next

\* Whatever fails, is cut off or dies on the way, and however many transports
\* there are, the scripts do to the machine what the service takes a backend
\* for, and answer ok only where the machine was as they say: after a deletion,
\* absent or without the disk to run from.
THEOREM ScriptsImplementBackend == Spec => BackendSpec
<1> DEFINE Inv == TypeOK /\ MachineInv /\ DiskInv /\ OrphanInv
<1>1. Init => Abstract!Init
  <2> SUFFICES ASSUME Init PROVE Abstract!Init
    OBVIOUS
  <2>1. \A c \in Clients : script[Live(c)] = NoScript /\ script[Orphan(c)] = NoScript
    BY Indices DEF Init
  <2>2. Of(NoScript) = Abstract!NoCommand
    BY DEF Of, Abstract!NoCommand, NoScript, Accomplished
  <2>3. Commands = [c \in Clients |-> Of(NoScript)]
    BY <2>1 DEF Commands, Command, Of
  <2>4. Commands = [c \in Clients |-> Abstract!NoCommand]
    BY <2>2, <2>3, Zenon
  <2>5. Abandoned = {}
    BY <2>1 DEF Abandoned, NoScript
  <2> QED
    BY <2>4, <2>5 DEF Init, Abstract!Init, Commands, Abandoned, Machine
<1>2. Init => Inv
  <2>1. Init => OrphanInv /\ DiskInv
    BY Indices DEF Init, OrphanInv, DiskInv
  <2> QED
    BY <2>1, TypeInit, MachineInit
<1>3. Inv /\ [Next]_vars => Inv'
  BY TypeStep, MachineStep, DiskStep, OrphanStep
<1>4. Inv /\ [Next]_vars => [Abstract!Next]_(Abstract!vars)
  <2> SUFFICES ASSUME Inv, [Next]_vars PROVE Maps
    BY Zenon DEF Maps, Abstract!vars, Commands, Abandoned, Machine
  <2>t. CallsTyped
    BY Typed
  <2>1. ASSUME NEW p \in Processes, ScriptStep(p) \/ Throw(p) PROVE Maps
    BY <2>1, ScriptMaps
  <2>2. ASSUME NEW c \in Clients, BeginCreate(c) \/ BeginDestroy(c) PROVE Maps
    <3>1. script[Live(c)].op = "none" /\ UNCHANGED host
      BY <2>t, <2>2 DEF BeginCreate, BeginDestroy, Begin, CallsTyped
    <3> QED
      BY <2>2, <3>1, GiveMaps DEF BeginCreate, BeginDestroy, Begin, Ops, PCs, Cmdlets
  <2>3. CASE BeginSweep
    <3>1. script[Live(Sweeper)].op = "none" /\ UNCHANGED host /\ Sweeper \in Clients
      BY <2>t, <2>3 DEF BeginSweep, Begin, CallsTyped, Clients
    <3> QED
      BY <2>3, <3>1, GiveMaps DEF BeginSweep, Begin, Ops, PCs, Cmdlets
  <2>4. ASSUME NEW c \in Clients, Created(c) \/ Stopped(c) PROVE Maps
    <3>1. script[Live(c)].pc = "ok" /\ UNCHANGED host
      BY <2>4 DEF Created, Stopped, Answered
    <3> QED
      BY <2>4, <3>1, GiveMaps DEF Created, Stopped, Ops, PCs, Cmdlets
  <2>5. ASSUME NEW c \in Clients,
               Started(c) \/ CreateFailed(c) \/ Destroyed(c) \/ DestroyFailed(c) \/ Swept(c)
        PROVE  Maps
    <3>1. script[Live(c)].pc \in {"ok", "error"} /\ UNCHANGED host /\ Done(c)
      BY <2>5 DEF Started, CreateFailed, Destroyed, DestroyFailed, Swept, Answered
    <3> QED
      BY <3>1, TakeMaps
  <2>6. CASE GuestPowersOff
    <3>1. UNCHANGED <<Commands, Abandoned>>
      BY <2>6 DEF GuestPowersOff, Commands, Command, Abandoned
    <3>2. Machine = "running" /\ Machine' = "off"
      BY <2>6 DEF GuestPowersOff, DiskInv, Machine
    <3>3. Abstract!GuestPowersOff
      BY <3>1, <3>2, Zenon DEF Abstract!GuestPowersOff, Commands, Abandoned, Machine
    <3> QED
      BY <3>3 DEF Maps, Abstract!Next
  <2>7. CASE Crash
    BY <2>7, CrashMaps
  <2>8. CASE UNCHANGED vars
    BY <2>8 DEF vars, host, Maps, Commands, Command, Abandoned, Machine
  <2> QED
    BY <2>1, <2>2, <2>3, <2>4, <2>5, <2>6, <2>7, <2>8 DEF Next, ServiceStep
<1> QED
  BY <1>1, <1>2, <1>3, <1>4, PTL DEF Spec, BackendSpec, Abstract!Spec

-----------------------------------------------------------------------------
(* One transport: what was reported destroyed has no disk left.  A machine  *)
(* may be left, which Get-VM did not find.  A creation that was             *)
(* orphaned by the crash keeps its command, so where there is none of them  *)
(* nobody brings the machine back under a deletion: the instance is created *)
(* by the transport itself, and the sweeper only takes away.                *)

OneTransport == \A c, d \in Transports : c = d

Gone == ~ disk
NoOrphanMaker == \A c \in Clients : script[Orphan(c)].op # "create"

\* Who creates, and that nobody does any more after a destruction.
RoleInv ==
  /\ job[Sweeper] \in {"none", "sweep"} /\ script[Live(Sweeper)].op # "create"
  /\ lease = "destroyed" => \A c \in Transports : script[Live(c)].op # "create"

\* What a deletion has done so far.
Cleared(s) == s.op = "delete" /\ s.pc \in {"exit", "ok"} => Gone

ClearInv ==
  NoOrphanMaker => /\ lease = "destroyed" => Gone
                   /\ \A c \in Transports : Cleared(script[Live(c)])

LEMMA Roles == /\ Sweeper \in Clients /\ Transports \subseteq Clients
               /\ Sweeper \notin Transports
               /\ \A c \in Clients : c \in Transports \/ c = Sweeper
  BY HyperVAssumption DEF Clients

\* Only the script of a creation makes a disk.
LEMMA TakesAway ==
  ASSUME TypeOK, MachineInv, NEW p \in Processes, ScriptStep(p) \/ Throw(p),
         script[p].op # "create"
  PROVE  Gone => Gone'
<1>1. Placed(script[p])
  BY DEF MachineInv, PlaceInv
<1>2. script[p].pc \notin {"check", "vhd", "vm", "cpus", "checkpoints"}
  BY <1>1 DEF Placed, NoScript
<1>3. CASE StartVm(p) \/ WaitForIpv4(p) \/ FindVm(p) \/ TurnOff(p)
  BY <1>3 DEF StartVm, WaitForIpv4, FindVm, TurnOff, host, Gone
<1>4. CASE RemoveVm(p) \/ RemoveDisk(p) \/ Exit(p) \/ Throw(p)
  BY <1>4 DEF RemoveVm, RemoveDisk, Exit, Throw, host, Gone
<1> QED
  BY <1>2, <1>3, <1>4
  DEF ScriptStep, CheckName, NewVhd, NewVm, SetVm, At

\* A deletion goes on to its end once there is no disk.
LEMMA DeletionStep ==
  ASSUME TypeOK, MachineInv, NEW p \in Processes, ScriptStep(p) \/ Throw(p),
         script[p].op = "delete", Cleared(script[p])
  PROVE  Cleared(script[p])'
<1>t. script \in [Processes -> Scripts]
  BY Typed DEF CallsTyped
<1>1. Placed(script[p])
  BY DEF MachineInv, PlaceInv
<1>2. script[p].pc \in {"find", "turn_off", "remove", "disk", "exit", "ok", "error"}
  BY <1>1 DEF Placed, NoScript
<1>g. ASSUME NEW pc \in PCs, Goto(p, pc) PROVE script'[p] = [op |-> "delete", pc |-> pc]
  BY <1>t, <1>g, GotoScript
<1> USE DEF PCs, Cmdlets
<1>3. CASE FindVm(p)
  <2>1. PICK pc \in {"turn_off", "disk"} : Goto(p, pc)
    BY <1>3 DEF FindVm
  <2> QED
    BY <1>g, <2>1 DEF Cleared
<1>4. CASE TurnOff(p)
  <2>1. Goto(p, "remove")
    BY <1>4 DEF TurnOff
  <2> QED
    BY <1>g, <2>1 DEF Cleared
<1>5. CASE RemoveVm(p)
  <2>1. PICK pc \in {"disk", "error"} : Goto(p, pc)
    BY <1>5 DEF RemoveVm
  <2> QED
    BY <1>g, <2>1 DEF Cleared
<1>6. CASE RemoveDisk(p)
  <2>1. PICK pc \in {"exit", "error"} : Goto(p, pc) /\ (pc = "exit" => ~ disk')
    BY <1>6 DEF RemoveDisk
  <2> QED
    BY <1>g, <2>1 DEF Cleared, Gone
<1>7. CASE Exit(p)
  <2>1. Goto(p, "ok") /\ disk' = disk /\ Gone
    BY <1>7 DEF Exit, At, Cleared, host
  <2> QED
    BY <1>g, <2>1 DEF Cleared, Gone
<1>8. CASE Throw(p)
  <2>1. Goto(p, "error")
    BY <1>8 DEF Throw
  <2> QED
    BY <1>g, <2>1 DEF Cleared
<1> QED
  BY <1>2, <1>3, <1>4, <1>5, <1>6, <1>7, <1>8
  DEF ScriptStep, CheckName, NewVhd, NewVm, SetVm, StartVm, WaitForIpv4, At

\* A script that goes on keeps the roles, and what is gone stays gone.
LEMMA ClearScript ==
  ASSUME OneTransport, TypeOK, MachineInv, RoleInv, ClearInv,
         NEW p \in Processes, ScriptStep(p) \/ Throw(p)
  PROVE  RoleInv' /\ ClearInv'
<1>t. script \in [Processes -> Scripts]
  BY Typed DEF CallsTyped
<1>1. PICK pc \in PCs : Goto(p, pc)
  BY ScriptGoes
<1>2. /\ script'[p] = [op |-> script[p].op, pc |-> pc]
      /\ \A q \in Processes \ {p} : script'[q] = script[q]
  BY <1>t, <1>1, GotoScript
<1>3. \A q \in Processes : script'[q].op = script[q].op
  <2>1. script'[p].op = script[p].op
    BY <1>2
  <2> QED
    BY <1>2, <2>1
<1>4. job' = job /\ lease' = lease
  <2>1. CASE NewVhd(p) \/ NewVm(p) \/ SetVm(p) \/ RemoveVm(p) \/ RemoveDisk(p) \/ Exit(p)
    BY <2>1 DEF NewVhd, NewVm, SetVm, RemoveVm, RemoveDisk, Exit, Service
  <2>2. CASE CheckName(p) \/ FindVm(p) \/ StartVm(p) \/ WaitForIpv4(p) \/ TurnOff(p) \/ Throw(p)
    BY <2>2 DEF CheckName, FindVm, StartVm, WaitForIpv4, TurnOff, Throw
  <2> QED
    BY <2>1, <2>2 DEF ScriptStep
<1>5. RoleInv'
  BY <1>3, <1>4, Roles, Indices DEF RoleInv
<1>6. ASSUME NoOrphanMaker' PROVE ClearInv'
  <2>1. NoOrphanMaker
    BY <1>3, <1>6, Indices DEF NoOrphanMaker
  <2>2. CASE script[p].op = "create"
    <3>1. PICK c \in Transports : p = Live(c)
      BY <2>1, <2>2, Roles, Indices DEF NoOrphanMaker, RoleInv
    <3>2. \A d \in Transports : script'[Live(d)].op = "create"
      BY <1>3, <2>2, <3>1, Roles, Indices DEF OneTransport
    <3>3. lease' # "destroyed"
      BY <1>4, <2>2, <3>1 DEF RoleInv
    <3> QED
      BY <3>2, <3>3 DEF ClearInv, Cleared
  <2>3. CASE script[p].op # "create"
    <3>1. Gone => Gone'
      BY <2>3, TakesAway
    <3>2. lease' = "destroyed" => Gone'
      BY <1>4, <2>1, <3>1 DEF ClearInv
    <3>3. ASSUME NEW c \in Transports PROVE Cleared(script[Live(c)])'
      <4>1. Cleared(script[Live(c)]) /\ Live(c) \in Processes
        BY <2>1, Roles, Indices DEF ClearInv
      <4>2. CASE p # Live(c)
        <5>1. script'[Live(c)] = script[Live(c)]
          BY <1>2, <4>1, <4>2
        <5> QED
          BY <3>1, <4>1, <5>1 DEF Cleared
      <4>3. CASE p = Live(c) /\ script[p].op = "delete"
        BY <4>1, <4>3, DeletionStep DEF Cleared, Gone
      <4>4. CASE p = Live(c) /\ script[p].op # "delete"
        BY <1>3, <4>4 DEF Cleared
      <4> QED
        BY <4>2, <4>3, <4>4
    <3> QED
      BY <3>2, <3>3 DEF ClearInv
  <2> QED
    BY <2>2, <2>3
<1> QED
  BY <1>5, <1>6 DEF ClearInv

\* A step of the service on one client's script that leaves the host alone.
LEMMA ClearClient ==
  ASSUME OneTransport, TypeOK, ClearInv, NEW c \in Clients, NEW s \in Scripts,
         script' = [script EXCEPT ![Live(c)] = s], UNCHANGED host,
         s.op = "delete" => s.pc = "find",
         lease' = "destroyed" =>
           \/ lease = "destroyed"
           \/ c \in Transports /\ Answered(c, "delete", "ok")
  PROVE  ClearInv'
<1>1. CallsTyped
  BY Typed
<1>2. /\ script'[Live(c)] = s
      /\ \A q \in Processes \ {Live(c)} : script'[q] = script[q]
  BY <1>1, LiveScript DEF CallsTyped
<1>3. NoOrphanMaker' => NoOrphanMaker
  BY <1>2, Indices DEF NoOrphanMaker
<1>4. ASSUME NoOrphanMaker PROVE lease' = "destroyed" => Gone'
  <2>1. Answered(c, "delete", "ok") /\ c \in Transports => Gone
    <3>1. [op |-> "delete", pc |-> "ok"].op = "delete" /\ [op |-> "delete", pc |-> "ok"].pc = "ok"
      OBVIOUS
    <3> QED
      BY <1>4, <3>1 DEF ClearInv, Cleared, Answered
  <2>2. Gone => Gone'
    BY DEF Gone, host
  <2> QED
    BY <1>4, <2>1, <2>2 DEF ClearInv
<1>5. ASSUME NoOrphanMaker, NEW d \in Transports PROVE Cleared(script[Live(d)])'
  <2>1. CASE d = c
    BY <1>2, <2>1 DEF Cleared
  <2>2. CASE d # c
    <3>1. script'[Live(d)] = script[Live(d)]
      BY <1>2, <2>2, Roles, Indices
    <3> QED
      BY <1>5, <3>1 DEF ClearInv, Cleared, Gone, host
  <2> QED
    BY <2>1, <2>2
<1> QED
  BY <1>3, <1>4, <1>5 DEF ClearInv

\* And the roles, where it begins no creation.
LEMMA RoleClient ==
  ASSUME OneTransport, TypeOK, RoleInv, NEW c \in Clients, NEW s \in Scripts,
         script' = [script EXCEPT ![Live(c)] = s],
         s.op = "create" => c \in Transports /\ lease' # "destroyed",
         lease' = "destroyed" => lease = "destroyed" \/ c \in Transports,
         \A d \in Clients \ {c} : job'[d] = job[d],
         c = Sweeper => job'[c] \in {"none", "sweep"}
  PROVE  RoleInv'
<1>1. CallsTyped
  BY Typed
<1>2. /\ script'[Live(c)] = s
      /\ \A q \in Processes \ {Live(c)} : script'[q] = script[q]
  BY <1>1, LiveScript DEF CallsTyped
<1>3. job'[Sweeper] \in {"none", "sweep"}
  BY Roles DEF RoleInv
<1>4. script'[Live(Sweeper)].op # "create"
  BY <1>2, Roles, Indices DEF RoleInv
<1>5. ASSUME lease' = "destroyed", NEW d \in Transports
      PROVE  script'[Live(d)].op # "create"
  <2>1. CASE d = c
    BY <1>2, <1>5, <2>1
  <2>2. CASE d # c
    BY <1>2, <1>5, <2>2, Roles, Indices DEF RoleInv, OneTransport
  <2> QED
    BY <2>1, <2>2
<1> QED
  BY <1>3, <1>4, <1>5 DEF RoleInv

\* No step breaks the roles and what is gone.
LEMMA ClearStep ==
  ASSUME OneTransport, TypeOK, MachineInv, OrphanInv, RoleInv, ClearInv, [Next]_vars
  PROVE  RoleInv' /\ ClearInv'
<1>t. CallsTyped /\ RowTyped
  BY Typed
<1>n. NoScript \in Scripts /\ NoScript.op = "none"
  BY DEF NoScript, Scripts, Ops, PCs
<1>s. ASSUME NEW op \in Ops, NEW pc \in PCs
      PROVE  LET s == [op |-> op, pc |-> pc] IN s \in Scripts /\ s.op = op /\ s.pc = pc
  BY <1>s DEF Scripts
<1>j. ASSUME NEW c \in Clients, NEW j, job' = [job EXCEPT ![c] = j]
      PROVE  job'[c] = j /\ \A d \in Clients \ {c} : job'[d] = job[d]
  BY <1>t, <1>j DEF CallsTyped
<1>1. ASSUME NEW p \in Processes, ScriptStep(p) \/ Throw(p) PROVE RoleInv' /\ ClearInv'
  BY <1>1, ClearScript
<1>2. ASSUME NEW c \in Clients, BeginCreate(c) PROVE RoleInv' /\ ClearInv'
  <2> DEFINE s == [op |-> "create", pc |-> "check"]
  <2>1. s \in Scripts /\ s.op = "create"
    BY <1>s DEF Ops, PCs, Cmdlets
  <2>2. /\ script' = [script EXCEPT ![Live(c)] = s] /\ UNCHANGED host
        /\ lease' = "creating" /\ c \in Transports /\ job' = [job EXCEPT ![c] = "create"]
    BY <1>2 DEF BeginCreate, Begin, Run
  <2> HIDE DEF s
  <2> QED
    BY <1>j, <2>1, <2>2, ClearClient, RoleClient, Roles
<1>3. ASSUME NEW c \in Clients, NEW j \in {"destroy", "sweep"},
             Begin(c, j, "stop", "find"), UNCHANGED <<host, lease, bounds>>,
             c = Sweeper => j = "sweep"
      PROVE  RoleInv' /\ ClearInv'
  <2> DEFINE s == [op |-> "stop", pc |-> "find"]
  <2>1. s \in Scripts /\ s.op = "stop"
    BY <1>s DEF Ops, PCs, Cmdlets
  <2>2. script' = [script EXCEPT ![Live(c)] = s] /\ job' = [job EXCEPT ![c] = j]
    BY <1>3 DEF Begin, Run
  <2> HIDE DEF s
  <2> QED
    BY <1>3, <1>j, <2>1, <2>2, ClearClient, RoleClient
\* A client goes on with the next script of its call.
<1>4. ASSUME NEW c \in Clients, NEW op \in {"start", "delete"}, NEW pc \in {"start", "find"},
             op = "delete" => pc = "find",
             Run(c, op, pc), UNCHANGED <<host, job, lease, bounds>>
      PROVE  RoleInv' /\ ClearInv'
  <2> DEFINE s == [op |-> op, pc |-> pc]
  <2>1. s \in Scripts /\ s.op = op /\ s.pc = pc
    BY <1>s DEF Ops, PCs, Cmdlets
  <2>2. script' = [script EXCEPT ![Live(c)] = s]
    BY <1>4 DEF Run
  <2>3. c = Sweeper => job'[c] \in {"none", "sweep"}
    BY <1>4 DEF RoleInv
  <2> HIDE DEF s
  <2> QED
    BY <1>4, <2>1, <2>2, <2>3, ClearClient, RoleClient
\* A client is through.
<1>5. ASSUME NEW c \in Clients, Done(c), UNCHANGED host,
             lease' = "destroyed" =>
               \/ lease = "destroyed"
               \/ c \in Transports /\ Answered(c, "delete", "ok")
      PROVE  RoleInv' /\ ClearInv'
  <2>1. /\ script' = [script EXCEPT ![Live(c)] = NoScript]
        /\ job' = [job EXCEPT ![c] = "none"]
    BY <1>5 DEF Done
  <2> QED
    BY <1>5, <1>j, <1>n, <2>1, ClearClient, RoleClient
<1>6. ASSUME NEW c \in Clients, ServiceStep(c) PROVE RoleInv' /\ ClearInv'
  <2>1. CASE Created(c)
    BY <1>4, <2>1 DEF Created
  <2>2. CASE Stopped(c)
    BY <1>4, <2>2 DEF Stopped
  <2>3. CASE Started(c) \/ CreateFailed(c) \/ DestroyFailed(c) \/ Swept(c)
    BY <1>5, <2>3 DEF Started, CreateFailed, DestroyFailed, Swept
  <2>4. CASE Destroyed(c)
    <3>1. c \in Transports
      BY <2>4, Roles DEF Destroyed, RoleInv
    <3> QED
      BY <1>5, <2>4, <3>1 DEF Destroyed
  <2> QED
    BY <1>6, <2>1, <2>2, <2>3, <2>4 DEF ServiceStep
<1>7. ASSUME NEW c \in Clients, BeginDestroy(c) PROVE RoleInv' /\ ClearInv'
  BY <1>3, <1>7, Roles DEF BeginDestroy
<1>8. CASE BeginSweep
  BY <1>3, <1>8, Roles DEF BeginSweep
<1>9. CASE GuestPowersOff
  BY <1>9 DEF GuestPowersOff, Service, RoleInv, ClearInv, NoOrphanMaker, Cleared, Gone
<1>10. CASE Crash
  <2>1. /\ \A c \in Clients : script'[Live(c)] = NoScript
        /\ UNCHANGED <<host, lease>> /\ job'[Sweeper] = "none"
    BY <1>t, <1>10, CrashScripts, Roles DEF Crash, CallsTyped
  <2>2. NoOrphanMaker
    <3>1. crashes = 0
      BY <1>t, <1>10, HyperVAssumption DEF Crash, RowTyped
    <3> QED
      BY <1>n, <3>1 DEF OrphanInv, NoOrphanMaker
  <2>3. RoleInv'
    BY <1>n, <2>1, Roles DEF RoleInv
  <2>4. ClearInv'
    BY <1>n, <2>1, <2>2, Roles DEF ClearInv, Cleared, Gone, host
  <2> QED
    BY <2>3, <2>4
<1>11. CASE UNCHANGED vars
  BY <1>11 DEF vars, host, RoleInv, ClearInv, NoOrphanMaker, Cleared, Gone
<1> QED
  BY <1>1, <1>2, <1>6, <1>7, <1>8, <1>9, <1>10, <1>11 DEF Next

\* With one transport, nothing of an instance that destroy_instance reported
\* destroyed can run again, wherever cmdlets failed, silently or not, scripts
\* were killed or the server died, unless a creation outlived the server: the
\* disk is gone.
THEOREM DestroyedStaysDown ==
  ASSUME OneTransport
  PROVE  Spec => []DestroyedCannotRun
<1> DEFINE Inv == TypeOK /\ MachineInv /\ DiskInv /\ OrphanInv /\ RoleInv /\ ClearInv
<1>1. Init => Inv
  <2>1. Init => DiskInv /\ OrphanInv /\ RoleInv /\ ClearInv
    BY Indices, Roles
    DEF Init, DiskInv, OrphanInv, RoleInv, ClearInv, Cleared, Gone, NoScript
  <2> QED
    BY <2>1, TypeInit, MachineInit
<1>2. Inv /\ [Next]_vars => Inv'
  BY TypeStep, MachineStep, DiskStep, OrphanStep, ClearStep
<1>3. Inv => DestroyedCannotRun
  BY DEF DestroyedCannotRun, ClearInv, NoOrphanMaker, Gone, DiskInv
<1> QED
  BY <1>1, <1>2, <1>3, PTL DEF Spec

=============================================================================
