--------------------------- MODULE LeaseLifecycle ---------------------------
(***************************************************************************)
(* The life of a lease: the rows of the leases table, the virtual machines *)
(* behind them, the tool calls that create, use, extend, list and destroy  *)
(* instances, and the sweeper thread that expires them.                    *)
(*                                                                         *)
(* One process holds one LeaseService, entered by the thread of each       *)
(* transport (a Caller, one tool call at a time) and by the sweeper.       *)
(* Nothing locks the service: each store method is one SQLite transaction, *)
(* and a call is a sequence of transactions and backend commands that      *)
(* interleaves with those of the others.  An action below is the stretch   *)
(* of a call from one such point to the next.                              *)
(***************************************************************************)
EXTENDS Naturals, FiniteSets

CONSTANTS
  Instances,     \* instance ids; one id names the row and its VM
  NoInst,        \* the id of a call that has none
  Callers,       \* the transports' threads
  MaxInstances,  \* MAX_INSTANCES
  MaxTTL,        \* MAX_TTL_MINUTES
  Tools,         \* the tools the callers use
  Faults,        \* the backend commands that may fail
  Availability,  \* what the backend probe may find at start-up
  Horizon,       \* bound: the clock stops here
  MaxRestarts    \* bound: server crashes

ASSUME LeaseAssumption ==
  /\ IsFiniteSet(Instances) /\ NoInst \notin Instances
  /\ IsFiniteSet(Callers) /\ Callers # {}
  /\ MaxInstances \in Nat \ {0}
  /\ MaxTTL \in Nat \ {0}
  /\ Tools \subseteq {"create", "use", "extend", "destroy", "list"}
  /\ Faults \subseteq {"create", "start", "use", "stop", "delete"}
  /\ Availability \subseteq BOOLEAN /\ Availability # {}
  /\ Horizon \in Nat
  /\ MaxRestarts \in Nat

VARIABLES
  now,        \* the wall clock, in units of the stored timestamps
  available,  \* backend.available, decided when the process starts
  lease,      \* the leases table
  vms,        \* the VMs the hypervisor has
  call,       \* per caller, the tool call in progress
  sweep,      \* the sweeper's pass in progress
  outlived,   \* backend commands at work whose server died
  late,       \* history: the instances whose VM is one that such a command made
  restarts

vars == <<now, available, lease, vms, call, sweep, outlived, late, restarts>>

-----------------------------------------------------------------------------
(* Rows.  Timestamps are stored in whole seconds, so comparing them as text *)
(* and as dates agree.  last_used_at and the descriptive columns are left   *)
(* out: nothing reads them back to decide anything about a lease's life.    *)

ACTIVE_STATUSES == {"creating", "running"}
TERMINAL_STATUSES == {"destroyed", "expired"}
Statuses == ACTIVE_STATUSES \cup TERMINAL_STATUSES \cup {"error"}

NoRow == [status |-> "none", expires_at |-> 0]
Row == [status : Statuses \cup {"none"}, expires_at : Nat]
NoRows == [i \in Instances |-> NoRow]

\* The rows a SELECT returns: those of the ids in S.
Select(S) == [i \in Instances |-> IF i \in S THEN lease[i] ELSE NoRow]

Rows == {i \in Instances : lease[i] # NoRow}

is_expired(row) == row.expires_at <= now

\* Mutant: leases still being created are not counted.
count_active_running ==
  {i \in Instances : lease[i].status = "running" /\ ~ is_expired(lease[i])}

\* count_active and list_expired_active, as the ids of the rows they match.
count_active ==
  {i \in Instances : lease[i].status \in ACTIVE_STATUSES /\ ~ is_expired(lease[i])}
\* Mutant: the sweeper looks for running leases only.
list_expired_active_running ==
  {i \in Instances : lease[i].status = "running" /\ is_expired(lease[i])}

list_expired_active ==
  {i \in Instances : lease[i].status \in ACTIVE_STATUSES /\ is_expired(lease[i])}

update_status(i, s) == lease' = [lease EXCEPT ![i].status = s]

-----------------------------------------------------------------------------
(* Calls.  A call remembers where it is, the tool, its instance, the time   *)
(* it captured on entry and the rows it read.                               *)

CallPCs == {"idle", "insert", "create", "start", "publish", "bootstrap", "fail",
            "resolve", "use", "extend", "stop", "delete", "destroyed", "list"}
SweepPCs == {"idle", "stop", "delete", "mark"}

Idle == [pc |-> "idle", op |-> "none", inst |-> NoInst, stamp |-> 0, rows |-> NoRows]
Asleep == [pc |-> "idle", inst |-> NoInst, rows |-> NoRows]

At(c, op, p) == call[c].op = op /\ call[c].pc = p
Goto(c, p) == call' = [call EXCEPT ![c].pc = p]
Return(c) == call' = [call EXCEPT ![c] = Idle]

Init ==
  /\ now = 0
  /\ available \in Availability
  /\ lease = NoRows
  /\ vms = {}
  /\ call = [c \in Callers |-> Idle]
  /\ sweep = Asleep
  /\ outlived = {}
  /\ late = {}
  /\ restarts = 0

-----------------------------------------------------------------------------
(* create_instance.  The count and the insert are two transactions, with    *)
(* the host-capacity probes between them.                                   *)

\* Mutant: the limit is compared with <= .
CountActive_off_by_one(c) ==
  /\ call[c].pc = "idle" /\ "create" \in Tools /\ available
  /\ Cardinality(count_active) <= MaxInstances
  /\ call' = [call EXCEPT ![c] =
                [Idle EXCEPT !.pc = "insert", !.op = "create", !.stamp = now]]
  /\ UNCHANGED <<now, available, lease, vms, sweep, outlived, late, restarts>>

CountActive(c) ==
  /\ call[c].pc = "idle" /\ "create" \in Tools /\ available
  /\ Cardinality(count_active) < MaxInstances
  /\ call' = [call EXCEPT ![c] =
                [Idle EXCEPT !.pc = "insert", !.op = "create", !.stamp = now]]
  /\ UNCHANGED <<now, available, lease, vms, sweep, outlived, late, restarts>>

RefuseForCapacity(c) ==
  /\ At(c, "create", "insert")
  /\ Return(c)
  /\ UNCHANGED <<now, available, lease, vms, sweep, outlived, late, restarts>>

\* Mutant: the row is left to be written when the VM is up.
InsertLease_late(c) ==
  /\ At(c, "create", "insert")
  /\ \E i \in Instances \ Rows :
       call' = [call EXCEPT ![c].pc = "create", ![c].inst = i]
  /\ UNCHANGED <<now, available, lease, vms, sweep, outlived, late, restarts>>

InsertLease(c) ==
  /\ At(c, "create", "insert")
  /\ \E i \in Instances \ Rows, ttl \in 1..MaxTTL :
       /\ lease' = [lease EXCEPT ![i] =
                      [status |-> "creating", expires_at |-> call[c].stamp + ttl]]
       /\ call' = [call EXCEPT ![c].pc = "create", ![c].inst = i]
  /\ UNCHANGED <<now, available, vms, sweep, outlived, late, restarts>>

\* A failed or timed out command may have left the VM behind.
CreateVm(c) ==
  /\ At(c, "create", "create")
  /\ \/ vms' = vms \cup {call[c].inst} /\ Goto(c, "start")
     \/ /\ "create" \in Faults
        /\ vms' \in {vms, vms \cup {call[c].inst}}
        /\ Goto(c, "fail")
  /\ UNCHANGED <<now, available, lease, sweep, outlived, late, restarts>>

\* start_instance, then the live map for the ssh port: both fail alike.
StartVm(c) ==
  /\ At(c, "create", "start")
  /\ \/ call[c].inst \in vms /\ Goto(c, "publish")
     \/ ("start" \in Faults \/ call[c].inst \notin vms) /\ Goto(c, "fail")
  /\ UNCHANGED <<now, available, lease, vms, sweep, outlived, late, restarts>>

PublishRunning(c) ==
  /\ At(c, "create", "publish")
  /\ update_status(call[c].inst, "running")
  /\ Goto(c, "bootstrap") \/ Return(c)   \* auto_bootstrap or not
  /\ UNCHANGED <<now, available, vms, sweep, outlived, late, restarts>>

\* auto_bootstrap runs prepare_workspace, which looks its lease up again.
BootstrapLookup(c) ==
  /\ At(c, "create", "bootstrap")
  /\ call' = [call EXCEPT ![c].pc = "resolve", ![c].rows = Select({call[c].inst})]
  /\ UNCHANGED <<now, available, lease, vms, sweep, outlived, late, restarts>>

MarkError(c) ==
  /\ At(c, "create", "fail")
  /\ update_status(call[c].inst, "error")
  /\ Return(c)
  /\ UNCHANGED <<now, available, vms, sweep, outlived, late, restarts>>

-----------------------------------------------------------------------------
(* _get_lease_for_action: read the row, then refuse a terminal or expired   *)
(* lease - writing "expired" into the latter - or go on to the tool.  "use" *)
(* is any tool that then works in the guest; some of them ask for the       *)
(* backend first, prepare_workspace and the docker tools do not.            *)

Lookup(c, i, tool) ==
  /\ call[c].pc = "idle" /\ tool \in Tools
  /\ tool = "extend" => lease[i].expires_at <= Horizon
  /\ i \in Rows
  /\ call' = [call EXCEPT ![c] = [Idle EXCEPT !.pc = "resolve", !.op = tool,
                                    !.inst = i, !.rows = Select({i})]]
  /\ UNCHANGED <<now, available, lease, vms, sweep, outlived, late, restarts>>

\* _normalize_lease_status decides on the row that was read, not on the
\* row in the table.
is_stale(row) == row.status \notin TERMINAL_STATUSES /\ is_expired(row)

Resolve(c) ==
  LET row == call[c].rows[call[c].inst] IN
  /\ call[c].pc = "resolve"
  /\ \/ /\ row.status \in TERMINAL_STATUSES
        /\ Return(c)
        /\ UNCHANGED lease
     \/ /\ is_stale(row)
        /\ update_status(call[c].inst, "expired")
        /\ Return(c)
     \/ /\ row.status \notin TERMINAL_STATUSES /\ ~ is_expired(row)
        /\ Goto(c, IF call[c].op = "extend" THEN "extend" ELSE "use")
        /\ UNCHANGED lease
  /\ UNCHANGED <<now, available, vms, sweep, outlived, late, restarts>>

\* The tool's own work in the guest: a command, a copy, the bootstrap.  Only
\* create_instance turns a command that fails into a status.
Use(c) ==
  /\ call[c].pc = "use"
  /\ \/ Return(c)
     \/ "use" \in Faults /\ call[c].op = "create" /\ Goto(c, "fail")
  /\ UNCHANGED <<now, available, lease, vms, sweep, outlived, late, restarts>>

\* Mutant: the row that was read is written back whole (upsert_lease).
ExtendTtl_upsert(c) ==
  LET row == call[c].rows[call[c].inst] IN
  /\ At(c, "extend", "extend")
  /\ \E ttl \in 1..MaxTTL :
       lease' = [lease EXCEPT ![call[c].inst] =
                   [row EXCEPT !.expires_at = row.expires_at + ttl]]
  /\ Return(c)
  /\ UNCHANGED <<now, available, vms, sweep, outlived, late, restarts>>

\* Mutant: the extension starts from the current time.
ExtendTtl_from_now(c) ==
  /\ At(c, "extend", "extend")
  /\ \E ttl \in 1..MaxTTL :
       lease' = [lease EXCEPT ![call[c].inst].expires_at = now + ttl]
  /\ Return(c)
  /\ UNCHANGED <<now, available, vms, sweep, outlived, late, restarts>>

\* extend_instance_ttl, from the expiry that was read.
ExtendTtl(c) ==
  LET read == call[c].rows[call[c].inst].expires_at
      base == IF read >= now THEN read ELSE now
  IN
  /\ At(c, "extend", "extend")
  /\ \E ttl \in 1..MaxTTL :
       lease' = [lease EXCEPT ![call[c].inst].expires_at = base + ttl]
  /\ Return(c)
  /\ UNCHANGED <<now, available, vms, sweep, outlived, late, restarts>>

-----------------------------------------------------------------------------
(* destroy_instance takes a row in any status.                              *)

BeginDestroy(c, i) ==
  /\ call[c].pc = "idle" /\ "destroy" \in Tools /\ available
  /\ i \in Rows
  /\ call' = [call EXCEPT ![c] =
                [Idle EXCEPT !.pc = "stop", !.op = "destroy", !.inst = i]]
  /\ UNCHANGED <<now, available, lease, vms, sweep, outlived, late, restarts>>

\* The outcomes of backend.stop_instance: stopping what is not there is an
\* error of limactl and a success of the Hyper-V backend.
StopFails(i) == "stop" \in Faults \/ i \notin vms

StopVm(c) ==
  /\ At(c, "destroy", "stop")
  /\ Goto(c, "delete") \/ (StopFails(call[c].inst) /\ Return(c))
  /\ UNCHANGED <<now, available, lease, vms, sweep, outlived, late, restarts>>

\* What a delete does when it has its effect.
Deleted(i) == vms' = vms \ {i} /\ late' = late \ {i}

\* Mutant: a failed delete is recorded and passed over, as the sweeper does.
DeleteVm_ignore_error(c) ==
  /\ At(c, "destroy", "delete")
  /\ Deleted(call[c].inst) \/ ("delete" \in Faults /\ UNCHANGED <<vms, late>>)
  /\ Goto(c, "destroyed")
  /\ UNCHANGED <<now, available, lease, sweep, outlived, restarts>>

DeleteVm(c) ==
  /\ At(c, "destroy", "delete")
  /\ \/ Deleted(call[c].inst) /\ Goto(c, "destroyed")
     \/ /\ "delete" \in Faults
        /\ Deleted(call[c].inst) \/ UNCHANGED <<vms, late>>
        /\ Return(c)
  /\ UNCHANGED <<now, available, lease, sweep, outlived, restarts>>

MarkDestroyed(c) ==
  /\ At(c, "destroy", "destroyed")
  /\ update_status(call[c].inst, "destroyed")
  /\ Return(c)
  /\ UNCHANGED <<now, available, vms, sweep, outlived, late, restarts>>

-----------------------------------------------------------------------------
(* list_instances reads the whole table and normalises the rows it read one *)
(* by one.  Rows that were terminal when read need nothing and are dropped  *)
(* from the snapshot; the order (created_at) is left open.                  *)

Listed(rows) == {i \in Instances : rows[i] # NoRow}

BeginList(c) ==
  /\ call[c].pc = "idle" /\ "list" \in Tools
  /\ LET S == {i \in Rows : lease[i].status \notin TERMINAL_STATUSES} IN
       /\ S # {}
       /\ call' = [call EXCEPT ![c] =
                     [Idle EXCEPT !.pc = "list", !.op = "list", !.rows = Select(S)]]
  /\ UNCHANGED <<now, available, lease, vms, sweep, outlived, late, restarts>>

NormalizeNext(c) ==
  /\ At(c, "list", "list")
  /\ \E i \in Listed(call[c].rows) :
       /\ IF is_stale(call[c].rows[i]) THEN update_status(i, "expired")
                                       ELSE UNCHANGED lease
       /\ IF Listed(call[c].rows) = {i}
            THEN Return(c)
            ELSE call' = [call EXCEPT ![c].rows[i] = NoRow]
  /\ UNCHANGED <<now, available, vms, sweep, outlived, late, restarts>>

-----------------------------------------------------------------------------
(* expire_expired_leases, on the sweeper's thread: the snapshot is taken    *)
(* once, each lease of it is stopped and deleted, oldest expiry first, and  *)
(* marked whatever the backend said.                                        *)

\* The lease the pass takes next, among those still in rows.
NextToSweep(rows, i) ==
  /\ i \in Listed(rows)
  /\ \A j \in Listed(rows) : rows[i].expires_at <= rows[j].expires_at

\* Without a backend the pass goes straight to the mark.
SweepNext(rows) ==
  \E i \in Listed(rows) :
    /\ NextToSweep(rows, i)
    /\ sweep' = [pc |-> IF available THEN "stop" ELSE "mark",
                 inst |-> i, rows |-> [rows EXCEPT ![i] = NoRow]]

SweepSelect ==
  /\ sweep.pc = "idle"
  /\ SweepNext(Select(list_expired_active))
  /\ UNCHANGED <<now, available, lease, vms, call, outlived, late, restarts>>

SweepStop ==
  /\ sweep.pc = "stop"
  /\ \/ sweep' = [sweep EXCEPT !.pc = "delete"]
     \/ StopFails(sweep.inst) /\ sweep' = [sweep EXCEPT !.pc = "mark"]
  /\ UNCHANGED <<now, available, lease, vms, call, outlived, late, restarts>>

SweepDelete ==
  /\ sweep.pc = "delete"
  /\ Deleted(sweep.inst) \/ ("delete" \in Faults /\ UNCHANGED <<vms, late>>)
  /\ sweep' = [sweep EXCEPT !.pc = "mark"]
  /\ UNCHANGED <<now, available, lease, call, outlived, restarts>>

SweepMark ==
  /\ sweep.pc = "mark"
  /\ update_status(sweep.inst, "expired")
  /\ IF Listed(sweep.rows) = {} THEN sweep' = Asleep ELSE SweepNext(sweep.rows)
  /\ UNCHANGED <<now, available, vms, call, outlived, late, restarts>>

Sweep == SweepSelect \/ SweepStop \/ SweepDelete \/ SweepMark

-----------------------------------------------------------------------------
(* The environment.                                                         *)

Tick ==
  /\ now < Horizon
  /\ now' = now + 1
  /\ UNCHANGED <<available, lease, vms, call, sweep, outlived, late, restarts>>

\* The commands that make or delete a VM, of the calls and of the pass.
InFlight ==
  {[cmd |-> w.pc, inst |-> w.inst] :
     w \in {v \in {sweep} \cup {call[c] : c \in Callers} : v.pc \in {"create", "delete"}}}

\* Every thread dies with the process; rows and VMs survive it, and so may a
\* limactl or PowerShell process that is at work.
Restart ==
  /\ restarts < MaxRestarts
  /\ restarts' = restarts + 1
  /\ available' \in Availability
  /\ \E C \in SUBSET InFlight : outlived' = outlived \cup C
  /\ call' = [c \in Callers |-> Idle]
  /\ sweep' = Asleep
  /\ UNCHANGED <<now, lease, vms, late>>

\* A command that outlived its server has its effect, if ever.
LateCommand ==
  \E m \in outlived :
    /\ outlived' = outlived \ {m}
    /\ \/ /\ m.cmd = "create"
          /\ vms' = vms \cup {m.inst} /\ late' = late \cup {m.inst}
       \/ m.cmd = "delete" /\ Deleted(m.inst)
    /\ UNCHANGED <<now, available, lease, call, sweep, restarts>>

CallStep(c) ==
  \/ CountActive(c) \/ RefuseForCapacity(c) \/ InsertLease(c)
  \/ CreateVm(c) \/ StartVm(c) \/ PublishRunning(c) \/ BootstrapLookup(c)
  \/ MarkError(c)
  \/ \E i \in Instances, tool \in {"use", "extend"} : Lookup(c, i, tool)
  \/ Resolve(c) \/ Use(c) \/ ExtendTtl(c)
  \/ \E i \in Instances : BeginDestroy(c, i)
  \/ StopVm(c) \/ DeleteVm(c) \/ MarkDestroyed(c)
  \/ BeginList(c) \/ NormalizeNext(c)

Next == (\E c \in Callers : CallStep(c)) \/ Sweep \/ Tick \/ Restart \/ LateCommand

Spec == Init /\ [][Next]_vars

\* The sweeper's loop runs for as long as the process does, and a backend
\* command returns or times out.  Nothing is assumed of the callers.
FairSpec == Spec /\ WF_vars(Sweep)

\* A tool call, once begun, also runs on to its answer.
FairCallSpec ==
  FairSpec /\ \A c \in Callers : WF_vars(call[c].pc # "idle" /\ CallStep(c))

-----------------------------------------------------------------------------
(* Properties.                                                              *)

CallRecord == [pc : CallPCs, op : {"none", "create", "use", "extend", "destroy", "list"},
               inst : Instances \cup {NoInst}, stamp : Nat, rows : [Instances -> Row]]
SweepRecord == [pc : SweepPCs, inst : Instances \cup {NoInst}, rows : [Instances -> Row]]

\* A call past the start of its work knows its instance.
NeedsInst == {"create", "start", "publish", "bootstrap", "fail",
              "resolve", "use", "extend", "stop", "delete", "destroyed"}

\* Calls and passes refer to instances that have a row: no step runs on an id
\* that was not read from the table or inserted into it.
CallTyped ==
  /\ call \in [Callers -> CallRecord]
  /\ \A c \in Callers : /\ call[c].pc \in NeedsInst => call[c].inst \in Rows
                        /\ Listed(call[c].rows) \subseteq Rows
SweepTyped ==
  /\ sweep \in SweepRecord
  /\ sweep.pc # "idle" => sweep.inst \in Rows
  /\ Listed(sweep.rows) \subseteq Rows

OutlivedTyped ==
  outlived \subseteq [cmd : {"create", "delete"}, inst : Rows] /\ late \subseteq Instances

TypeOK ==
  /\ now \in Nat
  /\ available \in BOOLEAN
  /\ lease \in [Instances -> Row]
  /\ vms \subseteq Instances
  /\ CallTyped
  /\ SweepTyped
  /\ OutlivedTyped
  /\ restarts \in Nat

\* create_instance inserts the row before it asks the backend for anything,
\* and no row is ever deleted: whenever the server dies, each VM it made can
\* be found in the table.
NoUntrackedVM == vms \subseteq Rows

\* Calls that may still make the lease of i active, whatever its row says:
\* its creator, until it has published; and an extension that found it alive.
Creates(c, i) ==
  call[c].op = "create" /\ call[c].inst = i /\ call[c].pc \in {"create", "start", "publish"}
Extends(c, i) ==
  /\ call[c].op = "extend" /\ call[c].inst = i
  /\ \/ call[c].pc = "extend"
     \/ call[c].pc = "resolve" /\ ~ is_expired(call[c].rows[i])

\* The instances that hold a slot, or that a call in progress may put back.
Admitted ==
  {i \in Instances :
     \/ \E c \in Callers : Creates(c, i)
     \/ /\ lease[i].status \in ACTIVE_STATUSES
        /\ ~ is_expired(lease[i]) \/ \E c \in Callers : Extends(c, i)}

\* The callers that passed the count and have not inserted their row.
Admitting == {c \in Callers : At(c, "create", "insert")}

\* The count and the insert of create_instance are not one transaction, so
\* the transports can together exceed MAX_INSTANCES - by at most one instance
\* for each transport but one, however their calls, the sweeper, the clock,
\* extensions and restarts interleave.  With one transport the limit is exact.
Limit == MaxInstances + Cardinality(Callers) - 1
OvershootBound == Cardinality(count_active) <= Limit

\* The bound as it is kept: what holds a slot, what may be put back in one
\* and what is about to be admitted never exceed it together.
AdmissionBound == Cardinality(Admitted) + Cardinality(Admitting) <= Limit

\* A status never goes back: a lease leaves a terminal status, or becomes
\* running or error, only through the call that is still creating it.
StatusMovesForward ==
  [][\A i \in Instances :
       LET old == lease[i].status
           new == lease'[i].status
       IN  old # new =>
             \/ old = "none" /\ new = "creating"
             \/ old # "none" /\ new \in TERMINAL_STATUSES
             \/ /\ new \in {"running", "error"} /\ old # "error"
                /\ \E c \in Callers : call[c].op = "create" /\ call[c].inst = i]_vars

\* The leases implement the admission of slots.
Admission == INSTANCE SlotAdmission WITH held <- Admitted, known <- Rows
AdmissionSpec == Admission!Spec

\* A lease that destroy_instance reported destroyed has no VM, but for one that
\* a creation still at work when its server died has made, and that nothing has
\* deleted since.
DestroyedLeaseHasNoVM ==
  \A i \in Instances : lease[i].status = "destroyed" => i \notin vms \/ i \in late

\* Extending a lease, or anything else, never brings its expiry forward.
ExpiryNeverShrinks ==
  [][\A i \in Instances : lease[i].expires_at <= lease'[i].expires_at]_vars

\* Whatever its call or the server met, an active lease whose time is up
\* leaves the active statuses or is extended.
Overdue(i) == lease[i].status \in ACTIVE_STATUSES /\ is_expired(lease[i])
OverdueLeaseIsSwept == \A i \in Instances : Overdue(i) ~> ~ Overdue(i)

\* The sweeper expires leases by their TTL: not a lease whose time is not up.
SweepSparesLiveLeases ==
  [][SweepMark => is_expired(lease[sweep.inst])]_vars

\* Expired leases are cleaned up: the VM of one is deleted sooner or later.
ExpiredVmIsDeleted ==
  \A i \in Instances : (i \in vms /\ is_expired(lease[i])) ~> i \notin vms

=============================================================================
