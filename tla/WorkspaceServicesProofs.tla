----------------------- MODULE WorkspaceServicesProofs -----------------------
(***************************************************************************)
(* Proofs about WorkspaceServices: its types, and that what the answers of *)
(* prepare_workspace and docker_compose say of containers and network is   *)
(* true, for every number of callers, services, containers and failures.   *)
(***************************************************************************)
EXTENDS WorkspaceServices, TLAPS

-----------------------------------------------------------------------------
(* The invariant.                                                           *)

Running == {s \in Services : cont[s] = "running"}

\* The network is there as long as containers are on it.
GuestInv ==
  /\ Running # {} => network
  /\ joined # {} => network
  /\ \A a \in joined : cont[a] \in {"created", "running", "stopped"}

\* How far prepare_workspace has come through its loops.
PrepareInv(c) == call[c].op = "prepare" =>
  /\ call[c].all \subseteq Services /\ call[c].todo \subseteq call[c].all
  /\ call[c].pc = "record" => docker
  /\ call[c].pc \in {"start", "run"} => call[c].cur \in call[c].todo
  /\ call[c].pc \in {"runtime", "record", "network", "create_network"} =>
       call[c].todo = call[c].all
  /\ stops = 0 =>
       /\ call[c].pc \in {"inspect", "start", "run"} =>
            call[c].all \ call[c].todo \subseteq Running
       /\ call[c].pc \in {"probe", "answer", "answer_ready"} =>
            call[c].all \subseteq Running
       /\ call[c].pc = "probe" => call[c].all \ call[c].todo \subseteq ready
       /\ call[c].pc = "answer_ready" => call[c].all \subseteq ready

\* How far docker_compose has come in joining the containers it found.
Settled(a) == a \in joined \/ cont[a] = "gone"
BridgeInv(c) == call[c].op = "up" =>
  /\ call[c].all \subseteq Apps /\ call[c].todo \subseteq call[c].all
  /\ \A a \in call[c].all : cont[a] # "none"
  /\ call[c].pc = "connect" => call[c].cur \in call[c].todo
  /\ call[c].pc \in {"inspect_app", "connect"} =>
       \A a \in call[c].all \ call[c].todo : Settled(a)
  /\ call[c].pc = "answer" => \A a \in call[c].all : Settled(a)

CallInv(c) == PrepareInv(c) /\ BridgeInv(c)

ServicesInv == TypeOK /\ GuestInv /\ \A c \in Callers : CallInv(c)

\* What no step of anyone takes away from the calls of the others.
Kept ==
  /\ docker => docker'
  /\ stops' = 0 => stops = 0 /\ Running \subseteq Running' /\ ready \subseteq ready'
  /\ \A a \in Apps : /\ cont[a] # "none" => cont'[a] # "none"
                     /\ Settled(a) => a \in joined' \/ cont'[a] = "gone"

-----------------------------------------------------------------------------
(* Lemmas about calls.                                                      *)

CallsTyped == call \in [Callers -> CallRecord]
OthersKeep(c) == \A d \in Callers \ {c} : call'[d] = call[d]

\* A call that moves on keeps what it is about.
LEMMA GotoCall ==
  ASSUME CallsTyped, NEW c \in Callers, NEW p \in CallPCs, Goto(c, p)
  PROVE  /\ CallsTyped' /\ OthersKeep(c)
         /\ call'[c] = [call[c] EXCEPT !.pc = p]
  BY DEF CallsTyped, OthersKeep, CallRecord, Goto

\* A call that is over says nothing any more.
LEMMA ReturnCall ==
  ASSUME CallsTyped, NEW c \in Callers, Return(c)
  PROVE  /\ CallsTyped' /\ OthersKeep(c)
         /\ call'[c] = Idle /\ CallInv(c)'
<1>1. Idle \in CallRecord
  BY DEF Idle, CallRecord, CallPCs, Ops, Tools
<1>2. call'[c] = Idle /\ CallsTyped' /\ OthersKeep(c)
  BY <1>1 DEF CallsTyped, OthersKeep, Return
<1> QED
  BY <1>2 DEF CallInv, PrepareInv, BridgeInv, Idle

\* A step that replaces the record of one call.
LEMMA SetCall ==
  ASSUME CallsTyped, NEW c \in Callers, NEW r \in CallRecord,
         call' = [call EXCEPT ![c] = r]
  PROVE  CallsTyped' /\ OthersKeep(c) /\ call'[c] = r
  BY DEF CallsTyped, OthersKeep

\* prepare_workspace goes on to a service, to the wait or to the answer.
LEMMA ServicesLeftCall ==
  ASSUME CallsTyped, NEW c \in Callers, NEW T, ServicesLeft(c, T),
         call[c].op = "prepare", call[c].all \subseteq Services,
         T \subseteq call[c].all,
         stops' = 0 => call[c].all \ T \subseteq Running'
  PROVE  /\ CallsTyped' /\ OthersKeep(c) /\ CallInv(c)'
         /\ call'[c].pc \notin {"start", "run", "connect"}
<1>1. PICK p \in NextPlace(T) :
        call' = [call EXCEPT ![c].pc = p, ![c].cur = None,
                   ![c].todo = IF p = "probe" THEN call[c].all ELSE T]
  BY DEF ServicesLeft
<1>2. p \in {"probe", "answer", "inspect"} /\ (p # "inspect" => T = {})
  BY <1>1 DEF NextPlace
<1> DEFINE rest == IF p = "probe" THEN call[c].all ELSE T
<1>3. /\ call'[c] = [pc |-> p, op |-> "prepare", all |-> call[c].all,
                     todo |-> rest, cur |-> None]
      /\ OthersKeep(c)
  BY <1>1 DEF CallsTyped, CallRecord, OthersKeep
<1>4. CallsTyped'
  <2>1. p \in CallPCs /\ "prepare" \in Ops /\ call[c].all \in SUBSET Containers
        /\ rest \in SUBSET Containers
    BY <1>2 DEF CallsTyped, CallRecord, CallPCs, Ops, Containers
  <2>2. call'[c] \in CallRecord
    BY <1>3, <2>1 DEF CallRecord
  <2> QED
    BY <1>1, <1>3, <2>2 DEF CallsTyped, OthersKeep
<1>5. PrepareInv(c)' /\ BridgeInv(c)'
  BY <1>2, <1>3 DEF PrepareInv, BridgeInv
<1> QED
  BY <1>2, <1>3, <1>4, <1>5 DEF CallInv

\* What a step keeps is enough for the calls it is no part of.
LEMMA OtherCalls ==
  ASSUME CallsTyped, Kept, NEW d \in Callers, CallInv(d), call'[d] = call[d]
  PROVE  CallInv(d)'
<1>1. PrepareInv(d)'
  BY DEF CallInv, PrepareInv, Kept
<1>2. BridgeInv(d)'
  BY DEF CallInv, BridgeInv, Kept, Settled
<1> QED
  BY <1>1, <1>2 DEF CallInv

-----------------------------------------------------------------------------
(* What a step does to the guest.                                           *)

\* Only the environment and a few commands change containers and network.
LEMMA GuestAlone ==
  ASSUME UNCHANGED <<network, cont, joined, ready, stops>>, docker => docker'
  PROVE  Kept /\ (GuestInv => GuestInv')
  BY DEF Kept, GuestInv, Running, Settled

\* Containers of services started or created, and readiness gained.
LEMMA GuestServices ==
  ASSUME UNCHANGED <<docker, joined, stops>>, ready \subseteq ready',
         network => network',
         DOMAIN cont = Containers,
         NEW s \in Services, NEW st \in {"created", "running"},
         cont' = [cont EXCEPT ![s] = st] \/ cont' = cont,
         st = "running" => network,
         cont[s] = "running" => st = "running" \/ cont' = cont,
         joined \subseteq Apps
  PROVE  Kept /\ (GuestInv => GuestInv')
<1>1. \A x \in Containers \ {s} : cont'[x] = cont[x]
  OBVIOUS
<1>2. cont'[s] = cont[s] \/ cont'[s] = st
  BY DEF Containers
<1>3. \A a \in Apps : cont'[a] = cont[a]
  BY <1>1, ServicesAssumption DEF Containers
<1>4. Running \subseteq Running'
  BY <1>1, <1>2 DEF Running, Containers
<1>5. Kept
  BY <1>3, <1>4 DEF Kept, Settled
<1>6. ASSUME GuestInv PROVE GuestInv'
  <2>1. Running' # {} => network
    BY <1>1, <1>2, <1>6 DEF Running, Containers, GuestInv
  <2> QED
    BY <1>3, <1>6, <2>1 DEF GuestInv
<1> QED
  BY <1>5, <1>6

\* Compose containers started, replaced, stopped and removed.
LEMMA GuestApps ==
  ASSUME TypeOK, UNCHANGED <<docker, network, ready, stops>>,
         NEW On \in SUBSET {a \in Apps : cont[a] # "gone"},
         NEW Halted \in SUBSET {a \in Apps : cont[a] = "running"},
         NEW Off \in SUBSET {a \in Apps : cont[a] # "none"},
         On \cap Off = {},
         \A s \in Services : cont'[s] = cont[s],
         \A a \in Apps : cont'[a] = IF a \in On THEN "running"
                                    ELSE IF a \in Off THEN "gone"
                                    ELSE IF a \in Halted THEN "stopped" ELSE cont[a],
         joined' = joined \ Off
  PROVE  Kept /\ (GuestInv => GuestInv')
<1>1. Running' = Running
  BY DEF Running
<1>2. Kept
  BY <1>1 DEF Kept, Settled
<1>3. ASSUME GuestInv PROVE GuestInv'
  BY <1>1, <1>3 DEF GuestInv, TypeOK
<1> QED
  BY <1>2, <1>3

\* A cleanup removes what does not run, and a network that nothing is on.
LEMMA GuestPruned ==
  ASSUME TypeOK, UNCHANGED <<docker, ready, stops>>,
         cont' = [x \in Containers |-> IF x \notin Prunable THEN cont[x]
                                      ELSE IF x \in Services THEN "none" ELSE "gone"],
         joined' = joined \ Prunable,
         NetworkInUse => network' = network,
         network' => network
  PROVE  Kept /\ (GuestInv => GuestInv')
<1>1. \A x \in Containers : cont[x] \notin {"created", "stopped"} => cont'[x] = cont[x]
  BY DEF Prunable
<1>2. \A a \in Apps : cont[a] \in {"created", "stopped"} => cont'[a] = "gone"
  BY ServicesAssumption DEF Prunable, Containers
<1>3. \A s \in Services : cont[s] \in {"created", "stopped"} => cont'[s] = "none"
  BY DEF Prunable, Containers
<1>4. Running' = Running
  BY <1>1, <1>3 DEF Running, Containers
<1>5. Kept
  BY <1>1, <1>2, <1>4 DEF Kept, Settled, Prunable, Containers
<1>6. ASSUME GuestInv PROVE GuestInv'
  <2>1. Running' # {} => NetworkInUse
    BY <1>4 DEF Running, NetworkInUse
  <2>2. \A a \in joined' : a \in joined /\ cont[a] = "running" /\ cont'[a] = "running"
    BY <1>1, <1>6 DEF GuestInv, Prunable, TypeOK, Containers
  <2>3. joined' # {} => NetworkInUse
    BY <2>2 DEF NetworkInUse
  <2> QED
    BY <1>4, <1>6, <2>1, <2>2, <2>3 DEF GuestInv
<1> QED
  BY <1>5, <1>6

-----------------------------------------------------------------------------
(* The steps of a call.                                                     *)

GuestTyped ==
  /\ docker \in BOOLEAN /\ runtime_ready \in BOOLEAN /\ network \in BOOLEAN
  /\ runtime_ready => docker
  /\ cont \in [Containers -> {"none", "created", "running", "stopped", "gone"}]
  /\ joined \subseteq Apps /\ ready \subseteq Services
  /\ faults \in 0..MaxFaults /\ stops \in 0..MaxStops

\* A call has a container to work on where its step needs one.
HasContainer(c) ==
  call[c].pc \in {"start", "run", "connect"} => call[c].cur \in Containers

LEMMA FaultBound ==
  ASSUME TypeOK, NoFault \/ Fault
  PROVE  faults' \in 0..MaxFaults
  BY ServicesAssumption DEF TypeOK, NoFault, Fault

\* The invariant holds after a step of a call when it does for the guest, for
\* that call, and nothing is taken from the others.
LEMMA StepOfCall ==
  ASSUME ServicesInv, NEW c \in Callers,
         GuestTyped', Kept, GuestInv => GuestInv',
         CallsTyped', OthersKeep(c), CallInv(c)', HasContainer(c)'
  PROVE  ServicesInv'
<1>1. GuestInv'
  BY DEF ServicesInv
<1>2. \A d \in Callers : CallInv(d)'
  <2>1. CallsTyped
    BY DEF ServicesInv, TypeOK, CallsTyped
  <2>2. \A d \in Callers \ {c} : CallInv(d)'
    BY <2>1, OtherCalls DEF ServicesInv, OthersKeep
  <2> QED
    BY <2>2
<1>3. \A d \in Callers : HasContainer(d)'
  <2>1. \A d \in Callers \ {c} : HasContainer(d) /\ call'[d] = call[d]
    BY DEF ServicesInv, TypeOK, HasContainer, OthersKeep
  <2> QED
    BY <2>1 DEF HasContainer
<1>4. TypeOK'
  BY <1>3 DEF TypeOK, GuestTyped, CallsTyped, HasContainer
<1> QED
  BY <1>1, <1>2, <1>4 DEF ServicesInv

\* A step that ends the call.
LEMMA StepReturns ==
  ASSUME ServicesInv, NEW c \in Callers, Return(c),
         GuestTyped', Kept, GuestInv => GuestInv'
  PROVE  ServicesInv'
<1>1. CallsTyped
  BY DEF ServicesInv, TypeOK, CallsTyped
<1>2. CallsTyped' /\ OthersKeep(c) /\ call'[c] = Idle /\ CallInv(c)'
  BY <1>1, ReturnCall
<1>3. HasContainer(c)'
  BY <1>2 DEF HasContainer, Idle
<1> QED
  BY <1>2, <1>3, StepOfCall

\* A step of prepare_workspace that goes on with what is left of its services.
LEMMA StepGoesOn ==
  ASSUME ServicesInv, NEW c \in Callers, NEW T, ServicesLeft(c, T),
         call[c].op = "prepare", T \subseteq call[c].all,
         stops' = 0 => call[c].all \ T \subseteq Running',
         GuestTyped', Kept, GuestInv => GuestInv'
  PROVE  ServicesInv'
<1>1. CallsTyped /\ call[c].all \subseteq Services
  BY DEF ServicesInv, TypeOK, CallsTyped, CallInv, PrepareInv
<1>2. /\ CallsTyped' /\ OthersKeep(c) /\ CallInv(c)'
      /\ call'[c].pc \notin {"start", "run", "connect"}
  BY <1>1, ServicesLeftCall
<1> QED
  BY <1>2, StepOfCall DEF HasContainer

\* The guest as steps of calls alone leave it.
LEMMA StepLeavesGuest ==
  ASSUME ServicesInv, UNCHANGED <<guest, stops>>, NoFault \/ Fault,
         runtime_ready' = runtime_ready
  PROVE  GuestTyped' /\ Kept /\ (GuestInv => GuestInv')
<1>1. GuestTyped'
  BY FaultBound DEF ServicesInv, TypeOK, GuestTyped, guest
<1> QED
  BY <1>1, GuestAlone DEF guest

\* prepare_workspace and the other tools begin.
LEMMA Begins ==
  ASSUME ServicesInv, NEW c \in Callers,
         \/ \E S \in SUBSET Services : BeginPrepare(c, S)
         \/ \E op \in Tools : BeginTool(c, op)
  PROVE  ServicesInv'
<1>1. CASE \E S \in SUBSET Services : BeginPrepare(c, S)
  <2>1. PICK S \in SUBSET Services : BeginPrepare(c, S)
    BY <1>1
  <2> DEFINE new == [Idle EXCEPT !.pc = "runtime", !.op = "prepare", !.all = S, !.todo = S]
  <2>2. new \in CallRecord /\ new.pc = "runtime" /\ new.op = "prepare" /\ new.all = S /\ new.todo = S
    BY DEF Idle, CallRecord, CallPCs, Ops, Containers
  <2> HIDE DEF new
  <2>3. call' = [call EXCEPT ![c] = new]
    BY <2>1 DEF BeginPrepare, new
  <2>4. CallsTyped' /\ OthersKeep(c) /\ call'[c] = new
    BY <2>2, <2>3 DEF ServicesInv, TypeOK, CallsTyped, OthersKeep
  <2>5. CallInv(c)' /\ HasContainer(c)'
    BY <2>2, <2>4 DEF CallInv, PrepareInv, BridgeInv, HasContainer
  <2>6. GuestTyped' /\ Kept /\ (GuestInv => GuestInv')
    BY <2>1, StepLeavesGuest DEF BeginPrepare, NoFault
  <2> QED
    BY <2>4, <2>5, <2>6, StepOfCall
<1>2. CASE \E op \in Tools : BeginTool(c, op)
  <2>1. PICK op \in Tools : BeginTool(c, op)
    BY <1>2
  <2> DEFINE new == [Idle EXCEPT !.pc = "detect", !.op = op]
  <2>2. new \in CallRecord /\ new.pc = "detect" /\ new.op = op /\ new.all = {} /\ new.todo = {}
    BY DEF Idle, CallRecord, CallPCs, Ops
  <2> HIDE DEF new
  <2>3. call' = [call EXCEPT ![c] = new]
    BY <2>1 DEF BeginTool, new
  <2>4. CallsTyped' /\ OthersKeep(c) /\ call'[c] = new
    BY <2>2, <2>3 DEF ServicesInv, TypeOK, CallsTyped, OthersKeep
  <2>5. CallInv(c)' /\ HasContainer(c)'
    BY <2>2, <2>4 DEF CallInv, PrepareInv, BridgeInv, HasContainer, Tools
  <2>6. GuestTyped' /\ Kept /\ (GuestInv => GuestInv')
    BY <2>1, StepLeavesGuest DEF BeginTool, NoFault
  <2> QED
    BY <2>4, <2>5, <2>6, StepOfCall
<1> QED
  BY <1>1, <1>2

\* The runtime is installed, and the row says so.
LEMMA RuntimeSteps ==
  ASSUME ServicesInv, NEW c \in Callers, PrepareRuntime(c) \/ RecordRuntime(c)
  PROVE  ServicesInv'
<1>1. CallsTyped
  BY DEF ServicesInv, TypeOK, CallsTyped
<1>2. CASE PrepareRuntime(c)
  <2>1. (docker => docker') /\ docker' \in BOOLEAN
        /\ UNCHANGED <<runtime_ready, network, cont, joined, ready, stops>>
        /\ (NoFault \/ Fault) /\ call[c].op = "prepare" /\ call[c].pc = "runtime"
    BY <1>2, ServicesAssumption DEF PrepareRuntime, At, ServicesInv, TypeOK
  <2>2. GuestTyped' /\ Kept /\ (GuestInv => GuestInv')
    BY <2>1, GuestAlone, FaultBound DEF ServicesInv, TypeOK, GuestTyped
  <2>3. CASE Return(c)
    BY <2>2, <2>3, StepReturns
  <2>4. CASE docker' = TRUE /\ Goto(c, "record")
    <3>1. CallsTyped' /\ OthersKeep(c) /\ call'[c] = [call[c] EXCEPT !.pc = "record"]
      BY <1>1, <2>4, GotoCall DEF CallPCs
    <3>2. CallInv(c)' /\ HasContainer(c)'
      BY <1>1, <2>1, <2>4, <3>1
      DEF CallsTyped, CallRecord, ServicesInv, CallInv, PrepareInv, BridgeInv, HasContainer
    <3> QED
      BY <2>2, <3>1, <3>2, StepOfCall
  <2> QED
    BY <1>2, <2>3, <2>4 DEF PrepareRuntime
<1>3. CASE RecordRuntime(c)
  <2>1. /\ call[c].op = "prepare" /\ call[c].pc = "record" /\ docker
        /\ call[c].todo = call[c].all
    BY <1>3 DEF RecordRuntime, At, ServicesInv, CallInv, PrepareInv
  <2>2. GuestTyped' /\ Kept /\ (GuestInv => GuestInv')
    BY <1>3, <2>1, GuestAlone
    DEF RecordRuntime, guest, ServicesInv, TypeOK, GuestTyped
  <2>3. CASE Goto(c, "network")
    <3>1. CallsTyped' /\ OthersKeep(c) /\ call'[c] = [call[c] EXCEPT !.pc = "network"]
      BY <1>1, <2>3, GotoCall DEF CallPCs
    <3>2. CallInv(c)' /\ HasContainer(c)'
      BY <1>1, <2>1, <3>1
      DEF CallsTyped, CallRecord, ServicesInv, CallInv, PrepareInv, BridgeInv, HasContainer
    <3> QED
      BY <2>2, <3>1, <3>2, StepOfCall
  <2>4. CASE ServicesLeft(c, call[c].todo)
    BY <2>1, <2>2, <2>4, StepGoesOn
  <2> QED
    BY <1>3, <2>3, <2>4 DEF RecordRuntime
<1> QED
  BY <1>2, <1>3

\* The network is found or created, for either tool.
LEMMA StepAfterNetwork ==
  ASSUME ServicesInv, NEW c \in Callers, AfterNetwork(c),
         call[c].pc \in {"network", "create_network"},
         GuestTyped', Kept, GuestInv => GuestInv'
  PROVE  ServicesInv'
<1>1. CallsTyped
  BY DEF ServicesInv, TypeOK, CallsTyped
<1>2. CASE call[c].op = "up" /\ Goto(c, "list")
  <2>1. CallsTyped' /\ OthersKeep(c) /\ call'[c] = [call[c] EXCEPT !.pc = "list"]
    BY <1>1, <1>2, GotoCall DEF CallPCs
  <2>2. call'[c].op = "up" /\ call'[c].pc = "list"
        /\ call'[c].all = call[c].all /\ call'[c].todo = call[c].todo
    BY <1>1, <1>2, <2>1 DEF CallsTyped, CallRecord
  <2>3. CallInv(c)' /\ HasContainer(c)'
    BY <1>2, <2>2
    DEF Kept, ServicesInv, CallInv, PrepareInv, BridgeInv, HasContainer
  <2> QED
    BY <2>1, <2>3, StepOfCall
<1>3. CASE call[c].op = "prepare" /\ ServicesLeft(c, call[c].todo)
  <2>1. call[c].todo = call[c].all
    BY <1>3 DEF ServicesInv, CallInv, PrepareInv
  <2> QED
    BY <1>3, <2>1, StepGoesOn
<1> QED
  BY <1>2, <1>3 DEF AfterNetwork

LEMMA NetworkSteps ==
  ASSUME ServicesInv, NEW c \in Callers, InspectNetwork(c) \/ CreateNetwork(c)
  PROVE  ServicesInv'
<1>1. CallsTyped
  BY DEF ServicesInv, TypeOK, CallsTyped
<1>2. CASE InspectNetwork(c)
  <2>1. GuestTyped' /\ Kept /\ (GuestInv => GuestInv')
    BY <1>2, StepLeavesGuest DEF InspectNetwork
  <2>2. CASE AfterNetwork(c)
    BY <1>2, <2>1, <2>2, StepAfterNetwork DEF InspectNetwork
  <2>3. CASE Goto(c, "create_network")
    <3>1. CallsTyped' /\ OthersKeep(c)
          /\ call'[c] = [call[c] EXCEPT !.pc = "create_network"]
      BY <1>1, <2>3, GotoCall DEF CallPCs
    <3>2. call'[c].op = call[c].op /\ call'[c].pc = "create_network"
          /\ call'[c].all = call[c].all /\ call'[c].todo = call[c].todo
      BY <1>1, <3>1 DEF CallsTyped, CallRecord
    <3>3. CallInv(c)' /\ HasContainer(c)'
      BY <1>2, <2>1, <3>2
      DEF InspectNetwork, Kept, ServicesInv, CallInv, PrepareInv, BridgeInv, HasContainer
    <3> QED
      BY <2>1, <3>1, <3>3, StepOfCall
  <2> QED
    BY <1>2, <2>2, <2>3 DEF InspectNetwork
<1>3. CASE CreateNetwork(c)
  <2>1. network => network'
    BY <1>3 DEF CreateNetwork, ServicesInv, TypeOK
  <2>2. (NoFault \/ Fault) /\ network' \in BOOLEAN
    BY <1>3 DEF CreateNetwork, ServicesInv, TypeOK
  <2>3. GuestTyped' /\ Kept /\ (GuestInv => GuestInv')
    BY <1>3, <2>1, <2>2, FaultBound
    DEF CreateNetwork, ServicesInv, TypeOK, GuestTyped, Kept, GuestInv, Running, Settled
  <2>4. CASE Return(c)
    BY <2>3, <2>4, StepReturns
  <2>5. CASE AfterNetwork(c)
    BY <1>3, <2>3, <2>5, StepAfterNetwork DEF CreateNetwork
  <2> QED
    BY <1>3, <2>4, <2>5 DEF CreateNetwork
<1> QED
  BY <1>2, <1>3

\* A service is inspected and left, started or created.
LEMMA StepServiceDone ==
  ASSUME ServicesInv, NEW c \in Callers, NEW s \in call[c].todo, ServiceDone(c, s),
         call[c].op = "prepare", call[c].pc \in {"inspect", "start", "run"},
         stops' = 0 => cont'[s] = "running",
         GuestTyped', Kept, GuestInv => GuestInv'
  PROVE  ServicesInv'
<1>1. /\ call[c].todo \subseteq call[c].all /\ call[c].all \subseteq Services
      /\ stops = 0 => call[c].all \ call[c].todo \subseteq Running
  BY DEF ServicesInv, CallInv, PrepareInv
<1>2. stops' = 0 => call[c].all \ (call[c].todo \ {s}) \subseteq Running'
  BY <1>1 DEF Kept, Running
<1> QED
  BY <1>1, <1>2, StepGoesOn DEF ServiceDone

LEMMA InspectServiceStep ==
  ASSUME ServicesInv, NEW c \in Callers, NEW s \in Services, InspectService(c, s)
  PROVE  ServicesInv'
<1>1. CallsTyped
  BY DEF ServicesInv, TypeOK, CallsTyped
<1>2. GuestTyped' /\ Kept /\ (GuestInv => GuestInv')
  BY StepLeavesGuest DEF InspectService
<1>3. /\ call[c].op = "prepare" /\ call[c].pc = "inspect" /\ s \in call[c].todo
      /\ UNCHANGED cont
  BY DEF InspectService, At, guest
<1>4. CASE cont[s] = "running" /\ ServiceDone(c, s)
  BY <1>2, <1>3, <1>4, StepServiceDone
<1>5. ASSUME NEW p \in {"start", "run"},
             call' = [call EXCEPT ![c].pc = p, ![c].cur = s]
      PROVE  ServicesInv'
  <2>1. CallsTyped' /\ OthersKeep(c)
    <3> DEFINE r == [call[c] EXCEPT !.pc = p, !.cur = s]
    <3>1. r \in CallRecord
      BY <1>1 DEF CallsTyped, CallRecord, CallPCs, Containers
    <3>2. call' = [call EXCEPT ![c] = r]
      BY <1>1, <1>5 DEF CallsTyped, CallRecord
    <3> QED
      BY <1>1, <3>1, <3>2, SetCall
  <2>2. call'[c].op = call[c].op /\ call'[c].pc = p /\ call'[c].cur = s
        /\ call'[c].all = call[c].all /\ call'[c].todo = call[c].todo
    BY <1>1, <1>5 DEF CallsTyped, CallRecord
  <2>3. CallInv(c)' /\ HasContainer(c)'
    BY <1>2, <1>3, <2>2
    DEF Kept, ServicesInv, CallInv, PrepareInv, BridgeInv, HasContainer, Containers
  <2> QED
    BY <1>2, <2>1, <2>3, StepOfCall
<1> QED
  BY <1>4, <1>5 DEF InspectService

LEMMA StartServiceStep ==
  ASSUME ServicesInv, NEW c \in Callers, StartService(c)
  PROVE  ServicesInv'
<1> DEFINE s == call[c].cur
<1>1. /\ call[c].op = "prepare" /\ call[c].pc = "start"
      /\ s \in call[c].todo /\ s \in Services
  BY DEF StartService, At, ServicesInv, CallInv, PrepareInv
<1>2. /\ UNCHANGED <<docker, runtime_ready, network, joined, ready, stops>>
      /\ NoFault \/ Fault
      /\ \/ cont' = cont
         \/ cont' = [cont EXCEPT ![s] = "running"] /\ network
  BY DEF StartService
<1>3. Kept /\ (GuestInv => GuestInv')
  <2>1. DOMAIN cont = Containers /\ joined \subseteq Apps
    BY DEF ServicesInv, TypeOK
  <2> HIDE DEF s
  <2>2. CASE network
    BY <1>1, <1>2, <2>1, <2>2, GuestServices
  <2>3. CASE ~ network
    BY <1>2, <2>3, GuestAlone
  <2> QED
    BY <2>2, <2>3
<1>4. GuestTyped'
  BY <1>2, FaultBound DEF ServicesInv, TypeOK, GuestTyped
<1>5. CASE Return(c)
  BY <1>3, <1>4, <1>5, StepReturns
<1>6. CASE cont' = [cont EXCEPT ![s] = "running"] /\ ServiceDone(c, s)
  <2>1. cont'[s] = "running"
    BY <1>1, <1>6 DEF ServicesInv, TypeOK, Containers
  <2> QED
    BY <1>1, <1>3, <1>4, <1>6, <2>1, StepServiceDone
<1> QED
  BY <1>5, <1>6 DEF StartService

LEMMA RunServiceStep ==
  ASSUME ServicesInv, NEW c \in Callers, RunService(c)
  PROVE  ServicesInv'
<1> DEFINE s == call[c].cur
<1>1. /\ call[c].op = "prepare" /\ call[c].pc = "run"
      /\ s \in call[c].todo /\ s \in Services
  BY DEF RunService, At, ServicesInv, CallInv, PrepareInv
<1>2. /\ UNCHANGED <<docker, runtime_ready, network, joined, ready, stops>>
      /\ NoFault \/ Fault
      /\ \/ cont' = cont
         \/ cont' = [cont EXCEPT ![s] = "running"] /\ cont[s] = "none" /\ network
         \/ cont' = [cont EXCEPT ![s] = "created"] /\ cont[s] = "none"
  BY DEF RunService
<1>3. Kept /\ (GuestInv => GuestInv')
  <2>1. DOMAIN cont = Containers /\ joined \subseteq Apps
    BY DEF ServicesInv, TypeOK
  <2> HIDE DEF s
  <2>2. CASE cont' = [cont EXCEPT ![s] = "running"] /\ cont[s] = "none" /\ network
    BY <1>1, <1>2, <2>1, <2>2, GuestServices
  <2>3. CASE cont' = [cont EXCEPT ![s] = "created"] /\ cont[s] = "none"
    BY <1>1, <1>2, <2>1, <2>3, GuestServices
  <2>4. CASE cont' = cont
    BY <1>2, <2>4, GuestAlone
  <2> QED
    BY <1>2, <2>2, <2>3, <2>4
<1>4. GuestTyped'
  BY <1>2, FaultBound DEF ServicesInv, TypeOK, GuestTyped
<1>5. CASE Return(c)
  BY <1>3, <1>4, <1>5, StepReturns
<1>6. CASE cont' = [cont EXCEPT ![s] = "running"] /\ ServiceDone(c, s)
  <2>1. cont'[s] = "running"
    BY <1>1, <1>6 DEF ServicesInv, TypeOK, Containers
  <2> QED
    BY <1>1, <1>3, <1>4, <1>6, <2>1, StepServiceDone
<1> QED
  BY <1>5, <1>6 DEF RunService

\* The wait, and the answer.
LEMMA WaitSteps ==
  ASSUME ServicesInv, NEW c \in Callers,
         (\E s \in Services : Probe(c, s)) \/ WaitOver(c) \/ Answer(c)
  PROVE  ServicesInv'
<1>1. CallsTyped
  BY DEF ServicesInv, TypeOK, CallsTyped
<1>2. GuestTyped' /\ Kept /\ (GuestInv => GuestInv')
  BY StepLeavesGuest DEF Probe, WaitOver, Answer, NoFault
<1>3. ASSUME NEW s \in Services, Probe(c, s) PROVE ServicesInv'
  <2> DEFINE p == IF call[c].todo = {s} THEN "answer_ready" ELSE call[c].pc
  <2>1. call[c].op = "prepare" /\ call[c].pc = "probe" /\ s \in ready
        /\ UNCHANGED <<docker, cont, ready, stops>>
    BY <1>3 DEF Probe, At, guest
  <2>2. CallsTyped' /\ OthersKeep(c)
    <3> DEFINE r == [call[c] EXCEPT !.pc = p, !.todo = call[c].todo \ {s}]
    <3>1. r \in CallRecord
      BY <1>1 DEF CallsTyped, CallRecord, CallPCs
    <3>2. call' = [call EXCEPT ![c] = r]
      BY <1>1, <1>3 DEF Probe, CallsTyped, CallRecord
    <3> QED
      BY <1>1, <3>1, <3>2, SetCall
  <2>3. call'[c].op = call[c].op /\ call'[c].pc = p
        /\ call'[c].all = call[c].all /\ call'[c].todo = call[c].todo \ {s}
    BY <1>1, <1>3 DEF Probe, CallsTyped, CallRecord
  <2>4. CallInv(c)' /\ HasContainer(c)'
    BY <2>1, <2>3
    DEF ServicesInv, CallInv, PrepareInv, BridgeInv, HasContainer, Running
  <2> QED
    BY <1>2, <2>2, <2>4, StepOfCall
<1>4. CASE WaitOver(c)
  <2>1. CASE Return(c)
    BY <1>2, <2>1, StepReturns
  <2>2. CASE call[c].todo = {} /\ Goto(c, "answer_ready")
    <3>1. CallsTyped' /\ OthersKeep(c) /\ call'[c] = [call[c] EXCEPT !.pc = "answer_ready"]
      BY <1>1, <2>2, GotoCall DEF CallPCs
    <3>2. call'[c].op = call[c].op /\ call'[c].pc = "answer_ready"
          /\ call'[c].all = call[c].all /\ call'[c].todo = call[c].todo
      BY <1>1, <3>1 DEF CallsTyped, CallRecord
    <3>3. CallInv(c)' /\ HasContainer(c)'
      BY <1>4, <2>2, <3>2
      DEF WaitOver, At, guest, ServicesInv, CallInv, PrepareInv, BridgeInv, HasContainer,
          Running
    <3> QED
      BY <1>2, <3>1, <3>3, StepOfCall
  <2> QED
    BY <1>4, <2>1, <2>2 DEF WaitOver
<1>5. CASE Answer(c)
  BY <1>2, <1>5, StepReturns DEF Answer
<1> QED
  BY <1>3, <1>4, <1>5

\* The other docker tools.
LEMMA EnsureRuntimeStep ==
  ASSUME ServicesInv, NEW c \in Callers, EnsureRuntimeReady(c)
  PROVE  ServicesInv'
<1>1. CallsTyped
  BY DEF ServicesInv, TypeOK, CallsTyped
<1>2. UNCHANGED <<guest, stops>> /\ (NoFault \/ Fault)
      /\ (runtime_ready' = runtime_ready \/ (runtime_ready' = TRUE /\ docker))
  BY DEF EnsureRuntimeReady, ServicesInv, TypeOK
<1>3. GuestTyped' /\ Kept /\ (GuestInv => GuestInv')
  <2>1. UNCHANGED <<docker, network, cont, joined, ready, stops>>
    BY <1>2 DEF guest
  <2>2. runtime_ready' \in BOOLEAN /\ (runtime_ready' => docker)
    <3>1. runtime_ready \in BOOLEAN /\ (runtime_ready => docker)
      BY DEF ServicesInv, TypeOK
    <3>2. CASE runtime_ready' = runtime_ready
      BY <3>1, <3>2
    <3>3. CASE runtime_ready' = TRUE /\ docker
      BY <3>3
    <3> QED
      BY <1>2, <3>2, <3>3
  <2>3. GuestTyped'
    BY <1>2, <2>1, <2>2, FaultBound DEF ServicesInv, TypeOK, GuestTyped
  <2> QED
    BY <2>1, <2>3, GuestAlone
<1>4. CASE Return(c)
  BY <1>3, <1>4, StepReturns
<1>5. ASSUME NEW p \in {"compose", "clean"}, Goto(c, p)
      PROVE  ServicesInv'
  <2>1. CallsTyped' /\ OthersKeep(c) /\ call'[c] = [call[c] EXCEPT !.pc = p]
    BY <1>1, <1>5, GotoCall DEF CallPCs
  <2>2. call'[c].op = call[c].op /\ call'[c].pc = p
        /\ call'[c].all = call[c].all /\ call'[c].todo = call[c].todo
    BY <1>1, <2>1 DEF CallsTyped, CallRecord
  <2>3. CallInv(c)' /\ HasContainer(c)'
    BY <1>2, <2>2
    DEF guest, ServicesInv, CallInv, PrepareInv, BridgeInv, HasContainer
  <2> QED
    BY <1>3, <2>1, <2>3, StepOfCall
<1> QED
  BY <1>4, <1>5 DEF EnsureRuntimeReady

\* What compose does to its containers, in either of its forms.
LEMMA ComposeApps ==
  ASSUME ServicesInv, NEW c \in Callers, Compose(c)
  PROVE  /\ Kept /\ (GuestInv => GuestInv')
         /\ cont' \in [Containers -> {"none", "created", "running", "stopped", "gone"}]
         /\ joined' \subseteq Apps
<1>1. UNCHANGED <<docker, network, ready, stops>>
  BY DEF Compose
<1>2. TypeOK
  BY DEF ServicesInv
<1>3. ASSUME NEW On \in SUBSET {a \in Apps : cont[a] # "gone"},
             NEW Off \in SUBSET {a \in Apps : cont[a] # "none"},
             On \cap Off = {},
             cont' = [x \in Containers |-> IF x \in On THEN "running"
                                          ELSE IF x \in Off THEN "gone" ELSE cont[x]],
             joined' = joined \ Off
      PROVE  Kept /\ (GuestInv => GuestInv')
  <2>1. \A s \in Services : cont'[s] = cont[s]
    BY <1>3, ServicesAssumption DEF Containers
  <2>2. \A a \in Apps : cont'[a] = IF a \in On THEN "running"
                                   ELSE IF a \in Off THEN "gone"
                                   ELSE IF a \in {} THEN "stopped" ELSE cont[a]
    BY <1>3 DEF Containers
  <2>3. {} \in SUBSET {a \in Apps : cont[a] = "running"}
    OBVIOUS
  <2> QED
    BY <1>1, <1>2, <1>3, <2>1, <2>2, <2>3, GuestApps
<1>4. ASSUME NEW Halted \in SUBSET {a \in Apps : cont[a] = "running"},
             NEW Off \in SUBSET {a \in Apps : cont[a] # "none"},
             cont' = [x \in Containers |-> IF x \in Off THEN "gone"
                                          ELSE IF x \in Halted THEN "stopped" ELSE cont[x]],
             joined' = joined \ Off
      PROVE  Kept /\ (GuestInv => GuestInv')
  <2>1. \A s \in Services : cont'[s] = cont[s]
    BY <1>4, ServicesAssumption DEF Containers
  <2>2. \A a \in Apps : cont'[a] = IF a \in {} THEN "running"
                                   ELSE IF a \in Off THEN "gone"
                                   ELSE IF a \in Halted THEN "stopped" ELSE cont[a]
    BY <1>4 DEF Containers
  <2>3. {} \in SUBSET {a \in Apps : cont[a] # "gone"} /\ {} \cap Off = {}
    OBVIOUS
  <2> QED
    BY <1>1, <1>2, <1>4, <2>1, <2>2, <2>3, GuestApps
<1>5. Kept /\ (GuestInv => GuestInv')
  BY <1>3, <1>4 DEF Compose
<1>6. cont' \in [Containers -> {"none", "created", "running", "stopped", "gone"}]
      /\ joined' \subseteq Apps
  BY <1>2 DEF Compose, TypeOK
<1> QED
  BY <1>5, <1>6

LEMMA ComposeStep ==
  ASSUME ServicesInv, NEW c \in Callers, Compose(c)
  PROVE  ServicesInv'
<1>1. CallsTyped
  BY DEF ServicesInv, TypeOK, CallsTyped
<1>2. GuestTyped' /\ Kept /\ (GuestInv => GuestInv')
  <2>1. (NoFault \/ Fault) /\ UNCHANGED <<docker, runtime_ready, network, ready, stops>>
    BY DEF Compose
  <2> QED
    BY <2>1, ComposeApps, FaultBound DEF ServicesInv, TypeOK, GuestTyped
<1>3. CASE Return(c)
  BY <1>2, <1>3, StepReturns
<1>4. CASE call[c].op = "up" /\ Goto(c, "network")
  <2>1. CallsTyped' /\ OthersKeep(c) /\ call'[c] = [call[c] EXCEPT !.pc = "network"]
    BY <1>1, <1>4, GotoCall DEF CallPCs
  <2>2. call'[c].op = "up" /\ call'[c].pc = "network"
        /\ call'[c].all = call[c].all /\ call'[c].todo = call[c].todo
    BY <1>1, <1>4, <2>1 DEF CallsTyped, CallRecord
  <2>3. CallInv(c)' /\ HasContainer(c)'
    BY <1>2, <1>4, <2>2
    DEF Kept, ServicesInv, CallInv, PrepareInv, BridgeInv, HasContainer
  <2> QED
    BY <1>2, <2>1, <2>3, StepOfCall
<1> QED
  BY <1>3, <1>4 DEF Compose

LEMMA CleanupStep ==
  ASSUME ServicesInv, NEW c \in Callers, Cleanup(c)
  PROVE  ServicesInv'
<1>1. /\ Return(c) /\ UNCHANGED <<docker, runtime_ready, ready, stops>>
      /\ NoFault \/ Fault
  BY DEF Cleanup
<1>2. CASE UNCHANGED <<cont, joined, network>>
  <2>1. GuestTyped' /\ Kept /\ (GuestInv => GuestInv')
    BY <1>1, <1>2, GuestAlone, FaultBound DEF ServicesInv, TypeOK, GuestTyped
  <2> QED
    BY <1>1, <2>1, StepReturns
<1>3. CASE /\ cont' = [x \in Containers |-> IF x \notin Prunable THEN cont[x]
                                           ELSE IF x \in Services THEN "none" ELSE "gone"]
           /\ joined' = joined \ Prunable
           /\ \/ network' = (network /\ (call[c].op = "safe" \/ NetworkInUse))
              \/ UNCHANGED network
  <2>1. /\ NetworkInUse => network' = network
        /\ network' => network
        /\ network' \in BOOLEAN
    <3>1. network \in BOOLEAN
      BY DEF ServicesInv, TypeOK
    <3>2. CASE UNCHANGED network
      BY <3>1, <3>2
    <3>3. CASE network' = (network /\ (call[c].op = "safe" \/ NetworkInUse))
      BY <3>1, <3>3
    <3> QED
      BY <1>3, <3>2, <3>3
  <2>2. Kept /\ (GuestInv => GuestInv')
    BY <1>1, <1>3, <2>1, GuestPruned DEF ServicesInv
  <2>3. GuestTyped'
    BY <1>1, <1>3, <2>1, FaultBound DEF ServicesInv, TypeOK, GuestTyped
  <2> QED
    BY <1>1, <2>2, <2>3, StepReturns
<1> QED
  BY <1>2, <1>3 DEF Cleanup

\* The bridge.
LEMMA ListAppsStep ==
  ASSUME ServicesInv, NEW c \in Callers, ListApps(c)
  PROVE  ServicesInv'
<1>1. CallsTyped
  BY DEF ServicesInv, TypeOK, CallsTyped
<1>2. GuestTyped' /\ Kept /\ (GuestInv => GuestInv')
  BY StepLeavesGuest DEF ListApps
<1>3. CASE Return(c)
  BY <1>2, <1>3, StepReturns
<1>4. ASSUME NEW listed \in SUBSET {a \in Apps : cont[a] = "running"},
             call' = [call EXCEPT ![c].pc = "inspect_app", ![c].all = listed,
                                  ![c].todo = listed]
      PROVE  ServicesInv'
  <2> DEFINE r == [call[c] EXCEPT !.pc = "inspect_app", !.all = listed, !.todo = listed]
  <2>1. r \in CallRecord /\ r.op = "up" /\ r.pc = "inspect_app" /\ r.all = listed
        /\ r.todo = listed
    BY <1>1 DEF ListApps, At, CallsTyped, CallRecord, CallPCs, Containers
  <2>2. call' = [call EXCEPT ![c] = r]
    BY <1>1, <1>4 DEF CallsTyped, CallRecord
  <2> HIDE DEF r
  <2>3. CallsTyped' /\ OthersKeep(c) /\ call'[c] = r
    BY <1>1, <2>1, <2>2, SetCall
  <2>4. cont' = cont
    BY DEF ListApps, guest
  <2>5. CallInv(c)' /\ HasContainer(c)'
    BY <2>1, <2>3, <2>4 DEF CallInv, PrepareInv, BridgeInv, HasContainer
  <2> QED
    BY <1>2, <2>3, <2>5, StepOfCall
<1> QED
  BY <1>3, <1>4 DEF ListApps

\* A container of the list is dealt with.
LEMMA StepAppDone ==
  ASSUME ServicesInv, NEW c \in Callers, NEW a \in call[c].todo, AppDone(c, a),
         call[c].op = "up", call[c].pc \in {"inspect_app", "connect"},
         Settled(a)',
         GuestTyped', Kept, GuestInv => GuestInv'
  PROVE  ServicesInv'
<1>1. CallsTyped
  BY DEF ServicesInv, TypeOK, CallsTyped
<1> DEFINE p == IF call[c].todo = {a} THEN "answer" ELSE "inspect_app"
<1> DEFINE r == [call[c] EXCEPT !.pc = p, !.todo = call[c].todo \ {a}, !.cur = None]
<1>2. r \in CallRecord /\ r.op = "up" /\ r.pc = p /\ r.all = call[c].all
      /\ r.todo = call[c].todo \ {a}
  BY <1>1 DEF CallsTyped, CallRecord, CallPCs
<1>3. call' = [call EXCEPT ![c] = r]
  BY <1>1 DEF AppDone, CallsTyped, CallRecord
<1> HIDE DEF r
<1>4. CallsTyped' /\ OthersKeep(c) /\ call'[c] = r
  BY <1>1, <1>2, <1>3, SetCall
<1>5. \A b \in call[c].all \ (call[c].todo \ {a}) : Settled(b)'
  BY DEF ServicesInv, CallInv, BridgeInv, Kept, Settled
<1>6. /\ call[c].all \subseteq Apps /\ call[c].todo \subseteq call[c].all
      /\ \A b \in call[c].all : cont'[b] # "none"
  BY DEF ServicesInv, CallInv, BridgeInv, Kept
<1>7. CallInv(c)' /\ HasContainer(c)'
  <2>1. p = "answer" => call[c].todo = {a}
    OBVIOUS
  <2>2. p \in {"answer", "inspect_app"}
    OBVIOUS
  <2> HIDE DEF p
  <2> QED
    BY <1>2, <1>4, <1>5, <1>6, <2>1, <2>2 DEF CallInv, PrepareInv, BridgeInv, HasContainer
<1> QED
  BY <1>4, <1>7, StepOfCall

LEMMA InspectAppStep ==
  ASSUME ServicesInv, NEW c \in Callers, NEW a \in Apps, InspectApp(c, a)
  PROVE  ServicesInv'
<1>1. CallsTyped
  BY DEF ServicesInv, TypeOK, CallsTyped
<1>2. GuestTyped' /\ Kept /\ (GuestInv => GuestInv')
  BY StepLeavesGuest DEF InspectApp
<1>3. call[c].op = "up" /\ call[c].pc = "inspect_app" /\ a \in call[c].todo
      /\ UNCHANGED guest
  BY DEF InspectApp, At
<1>4. CASE Return(c)
  BY <1>2, <1>4, StepReturns
<1>5. CASE a \in joined /\ AppDone(c, a)
  <2>1. Settled(a)'
    BY <1>3, <1>5 DEF guest, Settled
  <2> QED
    BY <1>2, <1>3, <1>5, <2>1, StepAppDone
<1>6. CASE call' = [call EXCEPT ![c].pc = "connect", ![c].cur = a]
  <2> DEFINE r == [call[c] EXCEPT !.pc = "connect", !.cur = a]
  <2>1. r \in CallRecord /\ r.op = "up" /\ r.pc = "connect" /\ r.cur = a
        /\ r.all = call[c].all /\ r.todo = call[c].todo
    BY <1>1, <1>3 DEF CallsTyped, CallRecord, CallPCs, Containers
  <2>2. call' = [call EXCEPT ![c] = r]
    BY <1>1, <1>6 DEF CallsTyped, CallRecord
  <2> HIDE DEF r
  <2>3. CallsTyped' /\ OthersKeep(c) /\ call'[c] = r
    BY <1>1, <2>1, <2>2, SetCall
  <2>4. CallInv(c)' /\ HasContainer(c)'
    BY <1>3, <2>1, <2>3
    DEF guest, ServicesInv, CallInv, PrepareInv, BridgeInv, HasContainer, Settled, Containers
  <2> QED
    BY <1>2, <2>3, <2>4, StepOfCall
<1> QED
  BY <1>4, <1>5, <1>6 DEF InspectApp

LEMMA ConnectAppStep ==
  ASSUME ServicesInv, NEW c \in Callers, ConnectApp(c)
  PROVE  ServicesInv'
<1>0. PICK a : a = call[c].cur
  OBVIOUS
<1>1. /\ call[c].op = "up" /\ call[c].pc = "connect" /\ a \in call[c].todo /\ a \in Apps
      /\ cont[a] # "none"
  BY <1>0 DEF ConnectApp, At, ServicesInv, CallInv, BridgeInv
<1>2. /\ UNCHANGED <<docker, runtime_ready, network, cont, ready, stops>>
      /\ NoFault \/ Fault
      /\ \/ joined' = joined
         \/ joined' = joined \cup {a} /\ network /\ cont[a] # "gone"
  BY <1>0 DEF ConnectApp
<1>3. GuestTyped'
  BY <1>1, <1>2, FaultBound DEF ServicesInv, TypeOK, GuestTyped
<1>4. Kept
  BY <1>2 DEF Kept, Running, Settled
<1>5. GuestInv => GuestInv'
  BY <1>1, <1>2 DEF GuestInv, Running, ServicesInv, TypeOK, Containers
<1>6. CASE Return(c)
  BY <1>3, <1>4, <1>5, <1>6, StepReturns
<1>7. CASE joined' = joined \cup {a} /\ AppDone(c, a)
  <2>1. Settled(a)'
    BY <1>7 DEF Settled
  <2> QED
    BY <1>1, <1>3, <1>4, <1>5, <1>7, <2>1, StepAppDone
<1> QED
  BY <1>0, <1>6, <1>7 DEF ConnectApp

-----------------------------------------------------------------------------
(* The environment, and the theorems.                                       *)

LEMMA Environment ==
  ASSUME ServicesInv,
         \/ \E s \in Services : BecomesReady(s)
         \/ \E x \in Containers : StopsByItself(x)
         \/ UNCHANGED vars
  PROVE  ServicesInv'
<1>1. CallsTyped /\ call' = call
  BY DEF ServicesInv, TypeOK, CallsTyped, BecomesReady, StopsByItself, vars
<1>2. ASSUME GuestTyped', Kept, GuestInv => GuestInv'
      PROVE  ServicesInv'
  <2>1. \A d \in Callers : CallInv(d)'
    BY <1>1, <1>2, OtherCalls DEF ServicesInv
  <2> QED
    BY <1>1, <1>2, <2>1 DEF ServicesInv, TypeOK, GuestTyped
<1>3. CASE \E s \in Services : BecomesReady(s)
  <2>1. UNCHANGED <<docker, runtime_ready, network, cont, joined, faults, stops>>
        /\ ready \subseteq ready' /\ ready' \subseteq Services
    BY <1>3 DEF BecomesReady, ServicesInv, TypeOK
  <2>2. GuestTyped' /\ Kept /\ (GuestInv => GuestInv')
    BY <2>1 DEF ServicesInv, TypeOK, GuestTyped, Kept, GuestInv, Running, Settled
  <2> QED
    BY <1>2, <2>2
<1>4. ASSUME NEW x \in Containers, StopsByItself(x) PROVE ServicesInv'
  <2>1. /\ UNCHANGED <<docker, runtime_ready, network, joined, faults>>
        /\ cont[x] = "running" /\ cont' = [cont EXCEPT ![x] = "stopped"]
        /\ stops' = stops + 1 /\ stops < MaxStops /\ ready' = ready \ {x}
    BY <1>4 DEF StopsByItself
  <2>2. stops' \in 0..MaxStops /\ stops' # 0
    BY <2>1, ServicesAssumption DEF ServicesInv, TypeOK
  <2>3. GuestTyped'
    BY <2>1, <2>2 DEF ServicesInv, TypeOK, GuestTyped
  <2>4. \A y \in Containers : cont'[y] = IF y = x THEN "stopped" ELSE cont[y]
    BY <2>1 DEF ServicesInv, TypeOK
  <2>5. Kept
    BY <2>1, <2>2, <2>4 DEF Kept, Settled, Containers
  <2>6. GuestInv => GuestInv'
    BY <2>1, <2>4 DEF GuestInv, Running, Containers, ServicesInv, TypeOK
  <2> QED
    BY <1>2, <2>3, <2>5, <2>6
<1>5. CASE UNCHANGED vars
  <2>1. GuestTyped' /\ Kept /\ (GuestInv => GuestInv')
    BY <1>5 DEF vars, ServicesInv, TypeOK, GuestTyped, Kept, GuestInv, Running, Settled
  <2> QED
    BY <1>2, <2>1
<1> QED
  BY <1>3, <1>4, <1>5

LEMMA DiesStep ==
  ASSUME ServicesInv, NEW c \in Callers, Dies(c)
  PROVE  ServicesInv'
<1>1. GuestTyped' /\ Kept /\ (GuestInv => GuestInv')
  BY StepLeavesGuest DEF Dies
<1> QED
  BY <1>1, StepReturns DEF Dies

LEMMA InitServicesInv ==
  ASSUME Init
  PROVE  ServicesInv
<1>1. Idle \in CallRecord
  BY DEF Idle, CallRecord, CallPCs, Ops, Tools
<1>2. TypeOK
  <2>1. docker \in BOOLEAN /\ runtime_ready \in BOOLEAN /\ network \in BOOLEAN
        /\ (runtime_ready => docker)
    BY DEF Init
  <2>2. call \in [Callers -> CallRecord] /\ \A c \in Callers : HasContainer(c)
    BY <1>1 DEF Init, HasContainer, Idle
  <2>3. cont \in [Containers -> {"none", "created", "running", "stopped", "gone"}]
        /\ joined \subseteq Apps /\ ready \subseteq Services
        /\ faults \in 0..MaxFaults /\ stops \in 0..MaxStops
    BY ServicesAssumption DEF Init
  <2> QED
    BY <2>1, <2>2, <2>3 DEF TypeOK, HasContainer
<1>3. GuestInv
  BY DEF Init, GuestInv, Running, Containers
<1>4. \A c \in Callers : CallInv(c)
  BY DEF Init, Idle, CallInv, PrepareInv, BridgeInv
<1> QED
  BY <1>2, <1>3, <1>4 DEF ServicesInv

LEMMA NextServicesInv ==
  ASSUME ServicesInv, [Next]_vars
  PROVE  ServicesInv'
<1>1. ASSUME NEW c \in Callers, Work(c) PROVE ServicesInv'
  <2>1. CASE PrepareRuntime(c) \/ RecordRuntime(c)
    BY <2>1, RuntimeSteps
  <2>2. CASE InspectNetwork(c) \/ CreateNetwork(c)
    BY <2>2, NetworkSteps
  <2>3. CASE \E s \in Services : InspectService(c, s)
    BY <2>3, InspectServiceStep
  <2>4. CASE StartService(c) \/ RunService(c)
    BY <2>4, StartServiceStep, RunServiceStep
  <2>5. CASE (\E s \in Services : Probe(c, s)) \/ WaitOver(c) \/ Answer(c)
    BY <2>5, WaitSteps
  <2>6. CASE EnsureRuntimeReady(c) \/ Compose(c) \/ Cleanup(c)
    BY <2>6, EnsureRuntimeStep, ComposeStep, CleanupStep
  <2>7. CASE ListApps(c) \/ ConnectApp(c) \/ \E a \in Apps : InspectApp(c, a)
    BY <2>7, ListAppsStep, ConnectAppStep, InspectAppStep
  <2> QED
    BY <1>1, <2>1, <2>2, <2>3, <2>4, <2>5, <2>6, <2>7 DEF Work
<1>2. ASSUME NEW c \in Callers,
             \/ \E S \in SUBSET Services : BeginPrepare(c, S)
             \/ \E op \in Tools : BeginTool(c, op)
      PROVE  ServicesInv'
  BY <1>2, Begins
<1>3. ASSUME NEW c \in Callers, Dies(c) PROVE ServicesInv'
  BY <1>3, DiesStep
<1> QED
  BY <1>1, <1>2, <1>3, Environment DEF Next

LEMMA ServicesInvariant == Spec => []ServicesInv
<1>1. ServicesInv /\ [Next]_vars => ServicesInv'
  BY NextServicesInv
<1> QED
  BY <1>1, InitServicesInv, PTL DEF Spec

\* The types hold throughout; in particular the row never says that the
\* runtime is ready when it is not installed.
THEOREM TypeCorrect == Spec => []TypeOK
  BY ServicesInvariant, PTL DEF ServicesInv

LEMMA PreparedFromInv ==
  ASSUME ServicesInv
  PROVE  PreparedMeansRunning
<1>1. \A s \in Running : cont[s] = "running" /\ network
  BY DEF ServicesInv, GuestInv, Running
<1> QED
  BY <1>1 DEF PreparedMeansRunning, ServicesInv, CallInv, PrepareInv, At

\* What prepare_workspace answers is true of the services, however many calls
\* prepare, run compose and clean up in the same guest, and whatever fails.
THEOREM PreparedIsTrue == Spec => []PreparedMeansRunning
  BY ServicesInvariant, PreparedFromInv, PTL

LEMMA BridgedFromInv ==
  ASSUME ServicesInv
  PROVE  BridgedMeansJoined
<1>1. \A a \in joined : network
  BY DEF ServicesInv, GuestInv
<1> QED
  BY <1>1 DEF BridgedMeansJoined, ServicesInv, CallInv, BridgeInv, Settled, At

\* The containers docker_compose found are on the services' network when it
\* answers, unless they have been removed since.
THEOREM BridgedIsTrue == Spec => []BridgedMeansJoined
  BY ServicesInvariant, BridgedFromInv, PTL

=============================================================================
