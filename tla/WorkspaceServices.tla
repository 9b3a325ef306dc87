-------------------------- MODULE WorkspaceServices --------------------------
(***************************************************************************)
(* Docker in the guest of one instance: prepare_workspace, which installs  *)
(* the runtime and ensures the network and the service containers,         *)
(* docker_compose, which joins the project's containers to that network,   *)
(* and the cleanups.                                                       *)
(*                                                                         *)
(* Each command in the guest is one step.  Callers interleave between them,*)
(* containers stop by themselves, and a command may fail before or after   *)
(* it had its effect; the names of containers and network are shared by    *)
(* all calls on the instance.                                              *)
(***************************************************************************)
EXTENDS Naturals, FiniteSets

CONSTANTS
  Services,    \* the service containers, by their names
  Apps,        \* ids that compose containers get; an id is never given twice
  None,        \* no container
  Callers,     \* the transports' threads
  InstallIfMissing,  \* the values docker.install_if_missing may have
  EnsureNetwork,     \* the values infra.ensure_network may have
  MaxFaults,   \* bound: commands that fail although they could succeed
  MaxStops     \* bound: containers that stop by themselves

ASSUME ServicesAssumption ==
  /\ Services \cap Apps = {} /\ None \notin Services \cup Apps
  /\ InstallIfMissing \subseteq BOOLEAN /\ EnsureNetwork \subseteq BOOLEAN
  /\ MaxFaults \in Nat /\ MaxStops \in Nat

Containers == Services \cup Apps

VARIABLES
  docker,          \* whether the runtime is installed and reachable
  runtime_ready,   \* the column of the lease's row
  network,         \* whether the infra network exists
  cont,            \* the state of each container
  joined,          \* compose containers attached to the network
  ready,           \* services that answer the readiness probe
  call,            \* per caller, the tool call in progress
  faults, stops

guest == <<docker, network, cont, joined, ready>>
vars == <<docker, runtime_ready, network, cont, joined, ready, call, faults, stops>>

-----------------------------------------------------------------------------
(* Calls.  all: the containers the call is about; todo: those that the      *)
(* current loop still has to look at; cur: the one it works on.             *)

CallPCs == {"idle", "runtime", "record", "detect", "network", "create_network",
            "inspect", "start", "run", "probe", "answer", "answer_ready",
            "compose", "list", "inspect_app", "connect", "clean"}
Tools == {"up", "stop", "down", "safe", "aggressive"}
Ops == {"none", "prepare"} \cup Tools

Idle == [pc |-> "idle", op |-> "none", all |-> {}, todo |-> {}, cur |-> None]

At(c, op, p) == call[c].op = op /\ call[c].pc = p
Goto(c, p) == call' = [call EXCEPT ![c].pc = p]
Return(c) == call' = [call EXCEPT ![c] = Idle]

\* A command fails where it need not have: with or without its effect, as
\* the disjunct that uses this says.
Fault == faults < MaxFaults /\ faults' = faults + 1
NoFault == UNCHANGED faults

Init ==
  /\ docker \in BOOLEAN /\ runtime_ready = FALSE
  /\ network = FALSE
  /\ cont = [x \in Containers |-> "none"]
  /\ joined = {} /\ ready = {}
  /\ call = [c \in Callers |-> Idle]
  /\ faults = 0 /\ stops = 0

-----------------------------------------------------------------------------
(* prepare_workspace: the runtime, the network, each service, the wait.     *)
(* What is enabled, what is ensured and whether the call waits come from    *)
(* the configuration and the arguments.                                     *)

BeginPrepare(c, S) ==
  /\ call[c].pc = "idle"
  /\ call' = [call EXCEPT ![c] = [Idle EXCEPT !.pc = "runtime", !.op = "prepare",
                                              !.all = S, !.todo = S]]
  /\ UNCHANGED <<guest, runtime_ready, faults, stops>>

\* Mutant: the script's exit code is not looked at.
PrepareRuntime_unchecked(c) ==
  /\ At(c, "prepare", "runtime")
  /\ \/ docker' = TRUE /\ NoFault
     \/ docker' \in {docker, TRUE} /\ Fault
  /\ Goto(c, "record")
  /\ UNCHANGED <<runtime_ready, network, cont, joined, ready, stops>>

\* prepare_runtime_script, and the detection of the command to use.
PrepareRuntime(c) ==
  /\ At(c, "prepare", "runtime")
  /\ \E install \in InstallIfMissing :
       \/ (docker \/ install) /\ docker' = TRUE /\ Goto(c, "record") /\ NoFault
       \/ ~ (docker \/ install) /\ UNCHANGED docker /\ Return(c) /\ NoFault
       \/ docker' \in {docker, docker \/ install} /\ Return(c) /\ Fault
  /\ UNCHANGED <<runtime_ready, network, cont, joined, ready, stops>>

\* The place after the network and after each service.
NextPlace(todo) == IF todo = {} THEN {"probe", "answer"} ELSE {"inspect"}

\* Go on with the services that are left, to the wait or to the answer.
ServicesLeft(c, todo) ==
  \E p \in NextPlace(todo) :
    call' = [call EXCEPT ![c].pc = p, ![c].cur = None,
                         ![c].todo = IF p = "probe" THEN call[c].all ELSE todo]

\* update_lease; then the network, if ensure_network says so.
RecordRuntime(c) ==
  /\ At(c, "prepare", "record")
  /\ runtime_ready' = TRUE
  /\ \E ensure \in EnsureNetwork :
       IF ensure THEN Goto(c, "network") ELSE ServicesLeft(c, call[c].todo)
  /\ UNCHANGED <<guest, faults, stops>>

-----------------------------------------------------------------------------
(* _ensure_network, for prepare_workspace and for the bridge of compose.    *)

AfterNetwork(c) ==
  \/ call[c].op = "up" /\ Goto(c, "list")
  \/ call[c].op = "prepare" /\ ServicesLeft(c, call[c].todo)

\* Any failure of the inspection counts as: there is no such network.
InspectNetwork(c) ==
  /\ call[c].pc = "network"
  /\ \/ network /\ AfterNetwork(c) /\ NoFault
     \/ ~ network /\ Goto(c, "create_network") /\ NoFault
     \/ Goto(c, "create_network") /\ Fault
  /\ UNCHANGED <<guest, runtime_ready, stops>>

\* Creating a network that exists is an error.
CreateNetwork(c) ==
  /\ call[c].pc = "create_network"
  /\ \/ /\ ~ network /\ network' = TRUE
        /\ (AfterNetwork(c) /\ NoFault) \/ (Return(c) /\ Fault)
     \/ /\ UNCHANGED network /\ Return(c)
        /\ IF network THEN NoFault ELSE Fault
  /\ UNCHANGED <<docker, runtime_ready, cont, joined, ready, stops>>

-----------------------------------------------------------------------------
(* _ensure_service_container.                                               *)

ServiceDone(c, s) == ServicesLeft(c, call[c].todo \ {s})

\* Mutant: a container that exists is taken to be running.
InspectService_existing(c, s) ==
  /\ At(c, "prepare", "inspect") /\ s \in call[c].todo
  /\ \/ cont[s] # "none" /\ ServiceDone(c, s) /\ NoFault
     \/ /\ cont[s] = "none" /\ NoFault
        /\ call' = [call EXCEPT ![c].pc = "run", ![c].cur = s]
     \/ /\ Fault
        /\ call' = [call EXCEPT ![c].pc = "run", ![c].cur = s]
  /\ UNCHANGED <<guest, runtime_ready, stops>>

\* Any failure of the inspection counts as: there is no such container.
InspectService(c, s) ==
  /\ At(c, "prepare", "inspect") /\ s \in call[c].todo
  /\ \/ cont[s] = "running" /\ ServiceDone(c, s) /\ NoFault
     \/ /\ cont[s] \in {"created", "stopped"} /\ NoFault
        /\ call' = [call EXCEPT ![c].pc = "start", ![c].cur = s]
     \/ /\ cont[s] = "none" /\ NoFault
        /\ call' = [call EXCEPT ![c].pc = "run", ![c].cur = s]
     \/ /\ Fault
        /\ call' = [call EXCEPT ![c].pc = "run", ![c].cur = s]
  /\ UNCHANGED <<guest, runtime_ready, stops>>

\* docker start: the container and its network must exist.
StartService(c) ==
  LET s == call[c].cur IN
  /\ At(c, "prepare", "start")
  /\ \/ /\ cont[s] # "none" /\ network
        /\ cont' = [cont EXCEPT ![s] = "running"]
        /\ (ServiceDone(c, s) /\ NoFault) \/ (Return(c) /\ Fault)
     \/ /\ UNCHANGED cont /\ Return(c)
        /\ IF cont[s] = "none" \/ ~ network THEN NoFault ELSE Fault
  /\ UNCHANGED <<docker, runtime_ready, network, joined, ready, stops>>

\* docker run -d --name: a name is used once; a container that cannot be
\* started may stay behind as created.
RunService(c) ==
  LET s == call[c].cur IN
  /\ At(c, "prepare", "run")
  /\ \/ /\ cont[s] = "none" /\ network
        /\ cont' = [cont EXCEPT ![s] = "running"]
        /\ (ServiceDone(c, s) /\ NoFault) \/ (Return(c) /\ Fault)
     \/ /\ cont[s] = "none"
        /\ cont' \in {cont, [cont EXCEPT ![s] = "created"]} /\ Return(c)
        /\ IF network THEN Fault ELSE NoFault
     \/ /\ cont[s] # "none" /\ UNCHANGED cont /\ Return(c) /\ NoFault
  /\ UNCHANGED <<docker, runtime_ready, network, joined, ready, stops>>

-----------------------------------------------------------------------------
(* _wait_for_service_readiness polls what has not answered yet, until all   *)
(* have or the deadline passes.  A poll without an answer changes nothing.  *)

\* Mutant: the wait is over with the first answer.
Probe_any(c, s) ==
  /\ At(c, "prepare", "probe") /\ s \in call[c].todo /\ s \in ready
  /\ call' = [call EXCEPT ![c].pc = "answer_ready", ![c].todo = {}]
  /\ UNCHANGED <<guest, runtime_ready, faults, stops>>

Probe(c, s) ==
  /\ At(c, "prepare", "probe") /\ s \in call[c].todo /\ s \in ready
  /\ call' = [call EXCEPT ![c].pc = IF call[c].todo = {s} THEN "answer_ready" ELSE @,
                          ![c].todo = @ \ {s}]
  /\ UNCHANGED <<guest, runtime_ready, faults, stops>>

WaitOver(c) ==
  /\ At(c, "prepare", "probe")
  /\ IF call[c].todo = {} THEN Goto(c, "answer_ready") ELSE Return(c)
  /\ UNCHANGED <<guest, runtime_ready, faults, stops>>

\* The connection variables are written to .env and the answer is given.
Answer(c) ==
  /\ call[c].pc \in {"answer", "answer_ready"}
  /\ Return(c)
  /\ UNCHANGED <<guest, runtime_ready, faults, stops>>

-----------------------------------------------------------------------------
(* The other docker tools take the runtime from the row, or look for it.    *)

BeginTool(c, op) ==
  /\ call[c].pc = "idle"
  /\ call' = [call EXCEPT ![c] = [Idle EXCEPT !.pc = "detect", !.op = op]]
  /\ UNCHANGED <<guest, runtime_ready, faults, stops>>

EnsureRuntimeReady(c) ==
  /\ call[c].pc = "detect"
  /\ \/ /\ runtime_ready \/ docker
        /\ runtime_ready' = TRUE /\ NoFault
        /\ Goto(c, IF call[c].op \in {"up", "stop", "down"} THEN "compose" ELSE "clean")
     \/ /\ ~ runtime_ready /\ UNCHANGED runtime_ready /\ Return(c)
        /\ IF docker THEN Fault ELSE NoFault
  /\ UNCHANGED <<guest, stops>>

\* compose up and restart start, create or replace containers of the project,
\* stop and down stop and remove them, as far as they come.
Compose(c) ==
  /\ call[c].pc = "compose"
  /\ \/ /\ call[c].op = "up"
        /\ \E On \in SUBSET {a \in Apps : cont[a] # "gone"},
              Off \in SUBSET {a \in Apps : cont[a] # "none"} :
             /\ On \cap Off = {}
             /\ cont' = [x \in Containers |-> IF x \in On THEN "running"
                                             ELSE IF x \in Off THEN "gone" ELSE cont[x]]
             /\ joined' = joined \ Off
        /\ \/ Goto(c, "network") /\ NoFault    \* infra.bridge_to_compose_network
           \/ Return(c) /\ NoFault
           \/ Return(c) /\ Fault
     \/ /\ call[c].op \in {"stop", "down"}
        /\ \E Halted \in SUBSET {a \in Apps : cont[a] = "running"},
              Off \in SUBSET {a \in Apps : cont[a] # "none"} :
             /\ call[c].op = "stop" => Off = {}
             /\ cont' = [x \in Containers |-> IF x \in Off THEN "gone"
                                             ELSE IF x \in Halted THEN "stopped" ELSE cont[x]]
             /\ joined' = joined \ Off
        /\ Return(c) /\ NoFault
  /\ UNCHANGED <<docker, runtime_ready, network, ready, stops>>

-----------------------------------------------------------------------------
(* _bridge_compose_to_infra_network, after _ensure_network.                 *)

\* compose ps -q lists what runs, of the compose services the call names.
ListApps(c) ==
  /\ At(c, "up", "list")
  /\ \/ /\ NoFault
        /\ \E listed \in SUBSET {a \in Apps : cont[a] = "running"} :
             IF listed = {} THEN Return(c)
             ELSE call' = [call EXCEPT ![c].pc = "inspect_app", ![c].all = listed,
                                       ![c].todo = listed]
     \/ Return(c) /\ Fault
  /\ UNCHANGED <<guest, runtime_ready, stops>>

AppDone(c, a) ==
  call' = [call EXCEPT ![c].pc = IF call[c].todo = {a} THEN "answer" ELSE "inspect_app",
                       ![c].todo = @ \ {a}, ![c].cur = None]

InspectApp(c, a) ==
  /\ At(c, "up", "inspect_app") /\ a \in call[c].todo
  /\ \/ cont[a] = "gone" /\ Return(c) /\ NoFault
     \/ cont[a] # "gone" /\ a \in joined /\ AppDone(c, a) /\ NoFault
     \/ /\ cont[a] # "gone" /\ a \notin joined /\ NoFault
        /\ call' = [call EXCEPT ![c].pc = "connect", ![c].cur = a]
     \/ Return(c) /\ Fault
  /\ UNCHANGED <<guest, runtime_ready, stops>>

\* Mutant: a container that cannot be connected is passed over.
ConnectApp_passed_over(c) ==
  LET a == call[c].cur
      possible == network /\ cont[a] # "gone" /\ a \notin joined
  IN
  /\ At(c, "up", "connect")
  /\ \/ possible /\ joined' = joined \cup {a} /\ AppDone(c, a) /\ NoFault
     \/ /\ UNCHANGED joined /\ AppDone(c, a)
        /\ IF possible THEN Fault ELSE NoFault
  /\ UNCHANGED <<docker, runtime_ready, network, cont, ready, stops>>

\* Connecting what is connected already is an error.
ConnectApp(c) ==
  LET a == call[c].cur
      possible == network /\ cont[a] # "gone" /\ a \notin joined
  IN
  /\ At(c, "up", "connect")
  /\ \/ /\ possible /\ joined' = joined \cup {a}
        /\ (AppDone(c, a) /\ NoFault) \/ (Return(c) /\ Fault)
     \/ /\ UNCHANGED joined /\ Return(c)
        /\ IF possible THEN Fault ELSE NoFault
  /\ UNCHANGED <<docker, runtime_ready, network, cont, ready, stops>>

-----------------------------------------------------------------------------
(* docker_cleanup, and the safe cleanup docker_build runs when disk is low: *)
(* containers that do not run are removed, and by the aggressive one the    *)
(* networks that no running container is on.                                *)

Prunable == {x \in Containers : cont[x] \in {"created", "stopped"}}
NetworkInUse == \E x \in Services \cup joined : cont[x] = "running"

Cleanup(c) ==
  /\ call[c].pc = "clean"
  /\ \/ /\ cont' = [x \in Containers |-> IF x \notin Prunable THEN cont[x]
                                        ELSE IF x \in Services THEN "none" ELSE "gone"]
        /\ joined' = joined \ Prunable
        /\ \/ network' = (network /\ (call[c].op = "safe" \/ NetworkInUse)) /\ NoFault
           \/ UNCHANGED network /\ Fault
     \/ UNCHANGED <<cont, joined, network>> /\ Fault
  /\ Return(c)
  /\ UNCHANGED <<docker, runtime_ready, ready, stops>>

-----------------------------------------------------------------------------
(* The environment.                                                         *)

BecomesReady(s) ==
  /\ s \in Services \ ready /\ cont[s] = "running"
  /\ ready' = ready \cup {s}
  /\ UNCHANGED <<docker, runtime_ready, network, cont, joined, call, faults, stops>>

StopsByItself(x) ==
  /\ cont[x] = "running" /\ stops < MaxStops
  /\ stops' = stops + 1
  /\ cont' = [cont EXCEPT ![x] = "stopped"]
  /\ ready' = ready \ {x}
  /\ UNCHANGED <<docker, runtime_ready, network, joined, call, faults>>

\* The server dies in the middle of a call.
Dies(c) ==
  /\ call[c].pc # "idle" /\ Fault
  /\ Return(c)
  /\ UNCHANGED <<guest, runtime_ready, stops>>

Work(c) ==
  \/ PrepareRuntime(c) \/ RecordRuntime(c)
  \/ InspectNetwork(c) \/ CreateNetwork(c)
  \/ \E s \in Services : InspectService(c, s) \/ Probe(c, s)
  \/ StartService(c) \/ RunService(c) \/ WaitOver(c) \/ Answer(c)
  \/ EnsureRuntimeReady(c) \/ Compose(c) \/ ListApps(c)
  \/ \E a \in Apps : InspectApp(c, a)
  \/ ConnectApp(c) \/ Cleanup(c)

Next ==
  \/ \E c \in Callers :
       \/ \E S \in SUBSET Services : BeginPrepare(c, S)
       \/ \E op \in Tools : BeginTool(c, op)
       \/ Work(c) \/ Dies(c)
  \/ \E s \in Services : BecomesReady(s)
  \/ \E x \in Containers : StopsByItself(x)

Spec == Init /\ [][Next]_vars

\* A command in the guest returns or times out, and a client goes on asking
\* for the whole workspace to be prepared.
FairSpec ==
  /\ Spec
  /\ \A c \in Callers : WF_vars(Work(c)) /\ SF_vars(BeginPrepare(c, Services))

-----------------------------------------------------------------------------
(* Properties.                                                              *)

CallRecord == [pc : CallPCs, op : Ops, all : SUBSET Containers,
               todo : SUBSET Containers, cur : Containers \cup {None}]

\* Every variable has its type; the row says that the runtime is there only
\* if it is; and a call works on a container where its step needs one.
TypeOK ==
  /\ docker \in BOOLEAN /\ runtime_ready \in BOOLEAN /\ network \in BOOLEAN
  /\ runtime_ready => docker
  /\ cont \in [Containers -> {"none", "created", "running", "stopped", "gone"}]
  /\ joined \subseteq Apps /\ ready \subseteq Services
  /\ call \in [Callers -> CallRecord]
  /\ \A c \in Callers : call[c].pc \in {"start", "run", "connect"} =>
                          call[c].cur \in Containers
  /\ faults \in 0..MaxFaults /\ stops \in 0..MaxStops

\* When prepare_workspace answers, every service it names runs and its network
\* is there, and each answered the probe if the call waited, although other
\* calls ensured, joined and cleaned up meanwhile.  A container that stopped by
\* itself is not the call's doing.
PreparedMeansRunning ==
  stops = 0 =>
  \A c \in Callers :
    /\ At(c, "prepare", "answer") => \A s \in call[c].all : cont[s] = "running" /\ network
    /\ At(c, "prepare", "answer_ready") => call[c].all \subseteq ready

\* When docker_compose answers, each container it found is on the network of
\* the services, which nobody has removed, or is itself removed.
BridgedMeansJoined ==
  \A c \in Callers : At(c, "up", "answer") =>
    \A a \in call[c].all : (a \in joined /\ network) \/ cont[a] = "gone"

\* A prepare_workspace that failed half way, or was cut off, leaves nothing
\* behind that keeps later calls from completing it: with the last failure
\* behind them the services run in the end and for good.
RetryCompletes == <>[](\A s \in Services : cont[s] = "running")

=============================================================================
