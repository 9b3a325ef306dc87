------------------------ MODULE LeaseLifecycleProofs ------------------------
(***************************************************************************)
(* Proofs about LeaseLifecycle, for every set of instances and callers,    *)
(* every limit and every bound.                                            *)
(***************************************************************************)
EXTENDS LeaseLifecycle, FiniteSetTheorems, TLAPS

USE DEF ACTIVE_STATUSES, TERMINAL_STATUSES, Statuses

-----------------------------------------------------------------------------
(* Lemmas about rows and calls.                                             *)

\* The operators that read rows return rows, and a status is written only
\* into a row.
LEMMA RowTypes ==
  ASSUME lease \in [Instances -> Row]
  PROVE  /\ NoRow \in Row
         /\ NoRows \in [Instances -> Row]
         /\ \A S : Select(S) \in [Instances -> Row]
<1>1. NoRow \in Row
  BY DEF NoRow, Row
<1> QED
  BY <1>1 DEF NoRows, Select

\* An idle call and a sleeping sweeper are well typed.
LEMMA IdleTypes == Idle \in CallRecord /\ Asleep \in SweepRecord
<1>1. NoRows \in [Instances -> Row]
  BY DEF NoRows, NoRow, Row
<1> QED
  BY <1>1 DEF Idle, Asleep, CallRecord, SweepRecord, CallPCs, SweepPCs

\* Writing a status other than none into the row of an instance that has one
\* keeps the table well typed and the set of rows as it was.
LEMMA UpdateStatus ==
  ASSUME lease \in [Instances -> Row], NEW i \in Rows, NEW s \in Statuses,
         update_status(i, s)
  PROVE  lease' \in [Instances -> Row] /\ Rows' = Rows
<1>1. i \in Instances /\ lease[i] # NoRow
  BY DEF Rows
<1>2. lease' \in [Instances -> Row]
  BY <1>1 DEF update_status, Row
<1>3. lease'[i].status = s
  BY <1>1 DEF update_status, Row
<1>4. lease'[i] # NoRow
  BY <1>3 DEF NoRow
<1>5. \A j \in Instances \ {i} : lease'[j] = lease[j]
  BY DEF update_status
<1> QED
  BY <1>1, <1>2, <1>4, <1>5 DEF Rows

-----------------------------------------------------------------------------
(* Type correctness.                                                        *)

\* A caller that moves on within its call leaves the calls well typed; it
\* may only move to a place that needs an instance if it has one.
LEMMA GotoType ==
  ASSUME CallTyped, NEW c \in Callers, NEW p \in CallPCs,
         p \in NeedsInst => call[c].inst \in Rows,
         Rows' = Rows, Goto(c, p)
  PROVE  CallTyped'
<1>1. call[c] \in CallRecord
  BY DEF CallTyped
<1>2. /\ call' \in [Callers -> CallRecord]
      /\ call'[c].pc = p /\ call'[c].inst = call[c].inst /\ call'[c].rows = call[c].rows
  BY <1>1 DEF Goto, CallTyped, CallRecord
<1>3. \A d \in Callers \ {c} : call'[d] = call[d]
  BY DEF Goto, CallTyped
<1> QED
  BY <1>2, <1>3 DEF CallTyped, Listed

\* So does a caller whose call is replaced by a well typed one.
LEMMA BeginType ==
  ASSUME CallTyped, NEW c \in Callers, NEW r \in CallRecord,
         r.pc \in NeedsInst => r.inst \in Rows,
         Listed(r.rows) \subseteq Rows,
         Rows' = Rows, call' = [call EXCEPT ![c] = r]
  PROVE  CallTyped'
<1>1. call'[c] = r /\ \A d \in Callers \ {c} : call'[d] = call[d]
  BY DEF CallTyped
<1>2. call' \in [Callers -> CallRecord]
  BY DEF CallTyped
<1> QED
  BY <1>1, <1>2 DEF CallTyped, Listed

\* In particular, one that returns.
LEMMA ReturnType ==
  ASSUME CallTyped, NEW c \in Callers, Rows' = Rows, Return(c)
  PROVE  CallTyped'
<1>1. Listed(Idle.rows) \subseteq Rows
  BY DEF Idle, Listed, NoRows
<1>2. Idle.pc \notin NeedsInst
  BY DEF Idle, NeedsInst
<1> QED
  BY <1>1, <1>2, IdleTypes, BeginType DEF Return

\* The rows of a SELECT are rows of the table.
LEMMA SelectTracked == \A S : Listed(Select(S)) \subseteq Rows
  BY DEF Listed, Select, Rows

\* The next lease of a pass is one of those it read.
LEMMA SweepNextType ==
  ASSUME NEW rows \in [Instances -> Row], Rows' = Rows,
         Listed(rows) \subseteq Rows, SweepNext(rows)
  PROVE  SweepTyped'
<1>1. PICK i \in Listed(rows) :
        sweep' = [pc |-> IF available THEN "stop" ELSE "mark",
                  inst |-> i, rows |-> [rows EXCEPT ![i] = NoRow]]
  BY DEF SweepNext
<1>2. i \in Instances /\ i \in Rows
  BY DEF Listed
<1>3. [rows EXCEPT ![i] = NoRow] \in [Instances -> Row]
  BY <1>2 DEF NoRow, Row
<1>4. Listed([rows EXCEPT ![i] = NoRow]) \subseteq Rows
  BY DEF Listed
<1> QED
  BY <1>1, <1>2, <1>3, <1>4 DEF SweepTyped, SweepRecord, SweepPCs, Listed

\* What a step that leaves the calls, the pass or the orphaned commands alone
\* keeps.
LEMMA UnchangedTyped ==
  ASSUME Rows' = Rows
  PROVE  /\ CallTyped /\ UNCHANGED call => CallTyped'
         /\ SweepTyped /\ UNCHANGED sweep => SweepTyped'
         /\ OutlivedTyped /\ UNCHANGED <<outlived, late>> => OutlivedTyped'
  BY DEF CallTyped, SweepTyped, OutlivedTyped, Listed

LEMMA InitTypeOK == Init => TypeOK
<1> SUFFICES ASSUME Init PROVE TypeOK
  OBVIOUS
<1>1. lease \in [Instances -> Row]
  BY DEF Init, NoRows, NoRow, Row
<1>2. CallTyped
  BY IdleTypes DEF Init, CallTyped, Idle, NeedsInst, Listed, NoRows
<1>3. SweepTyped
  BY IdleTypes DEF Init, SweepTyped, Asleep, Listed, NoRows
<1>4. OutlivedTyped
  BY DEF Init, OutlivedTyped
<1> QED
  BY <1>1, <1>2, <1>3, <1>4, LeaseAssumption DEF Init, TypeOK

\* An extension writes a time into a row that is there.
LEMMA ExtendTtlRows ==
  ASSUME TypeOK, NEW c \in Callers, ExtendTtl(c)
  PROVE  /\ lease' \in [Instances -> Row] /\ Rows' = Rows
         /\ \A j \in Instances : /\ lease'[j].status = lease[j].status
                                 /\ j # call[c].inst => lease'[j] = lease[j]
<1> DEFINE read == call[c].rows[call[c].inst].expires_at
           base == IF read >= now THEN read ELSE now
           i == call[c].inst
<1>1. i \in Rows /\ i \in Instances
  BY DEF TypeOK, ExtendTtl, At, CallTyped, NeedsInst, Rows
<1>2. base \in Nat
  BY <1>1 DEF TypeOK, CallTyped, CallRecord, Row
<1>3. PICK ttl \in 1..MaxTTL :
        lease' = [lease EXCEPT ![i].expires_at = base + ttl]
  BY DEF ExtendTtl
<1>4. base + ttl \in Nat /\ base + ttl # 0
  BY <1>2, LeaseAssumption
<1> HIDE DEF base, i
<1> USE DEF TypeOK
<1>5. lease' \in [Instances -> Row]
  BY <1>1, <1>3, <1>4 DEF Row
<1>6. lease[i] # NoRow /\ lease[i] \in Row
  BY <1>1 DEF Rows
<1>7. lease'[i].status = lease[i].status /\ lease'[i].expires_at = base + ttl
  BY <1>1, <1>3, <1>6 DEF Row
<1>8. lease'[i] # NoRow
  BY <1>4, <1>7 DEF NoRow
<1>9. \A j \in Instances \ {i} : lease'[j] = lease[j]
  BY <1>3
<1>10. Rows' = Rows
  BY <1>1, <1>6, <1>8, <1>9 DEF Rows
<1> QED
  BY <1>5, <1>7, <1>9, <1>10 DEF i

\* Every step keeps the types.
LEMMA NextTypeOK == TypeOK /\ [Next]_vars => TypeOK'
<1> SUFFICES ASSUME TypeOK, [Next]_vars
             PROVE  TypeOK'
  OBVIOUS
<1> USE DEF TypeOK
<1>0. lease' = lease => Rows' = Rows
  BY DEF Rows
<1>1. ASSUME NEW c \in Callers, CallStep(c)
      PROVE  TypeOK'
  <2>0. call[c] \in CallRecord
    BY DEF CallTyped
  <2>1. CASE CountActive(c)
    <3> DEFINE r == [Idle EXCEPT !.pc = "insert", !.op = "create", !.stamp = now]
    <3>1. /\ r \in CallRecord /\ r.pc \notin NeedsInst
          /\ Listed(r.rows) \subseteq Rows
      BY RowTypes DEF Idle, CallRecord, CallPCs, NeedsInst, Listed, NoRows
    <3> HIDE DEF r
    <3>2. call' = [call EXCEPT ![c] = r] /\ UNCHANGED <<now, available, lease, vms, sweep, outlived, late, restarts>>
      BY <2>1 DEF CountActive, r
    <3>3. CallTyped'
      BY <1>0, <3>1, <3>2, BeginType
    <3> QED
      BY <1>0, <3>2, <3>3, UnchangedTyped
  <2>2. CASE RefuseForCapacity(c)
    BY <1>0, <2>2, ReturnType, UnchangedTyped DEF RefuseForCapacity
  <2>3. CASE InsertLease(c)
    <3>1. PICK i \in Instances \ Rows, ttl \in 1..MaxTTL :
            /\ lease' = [lease EXCEPT ![i] =
                           [status |-> "creating", expires_at |-> call[c].stamp + ttl]]
            /\ call' = [call EXCEPT ![c].pc = "create", ![c].inst = i]
      BY <2>3 DEF InsertLease
    <3>2. call[c].stamp + ttl \in Nat
      BY <2>0, LeaseAssumption DEF CallRecord
    <3>3. lease' \in [Instances -> Row] /\ Rows' = Rows \cup {i}
      BY <3>1, <3>2 DEF Row, Rows, NoRow
    <3>4. /\ call'[c] \in CallRecord
          /\ call'[c].pc = "create" /\ call'[c].inst = i /\ call'[c].rows = call[c].rows
      BY <2>0, <3>1 DEF CallTyped, CallRecord, CallPCs
    <3>5. \A d \in Callers \ {c} : call'[d] = call[d]
      BY <3>1 DEF CallTyped
    <3>6. call' \in [Callers -> CallRecord]
      BY <3>1, <3>4, <3>5 DEF CallTyped
    <3>7. CallTyped'
      BY <3>3, <3>4, <3>5, <3>6 DEF CallTyped, Listed
    <3>8. SweepTyped'
      BY <2>3, <3>3 DEF InsertLease, SweepTyped, Listed
    <3>9. OutlivedTyped'
      BY <2>3, <3>3 DEF InsertLease, OutlivedTyped
    <3> QED
      BY <2>3, <3>3, <3>7, <3>8, <3>9 DEF InsertLease
  <2>4. CASE CreateVm(c)
    <3>1. call[c].inst \in Rows
      BY <2>4 DEF CreateVm, At, CallTyped, NeedsInst
    <3>2. Goto(c, "start") \/ Goto(c, "fail")
      BY <2>4 DEF CreateVm
    <3>3. CallTyped'
      BY <1>0, <2>4, <3>1, <3>2, GotoType DEF CreateVm, CallPCs
    <3>4. vms' \subseteq Instances
      BY <2>4, <3>1 DEF CreateVm, Rows
    <3> QED
      BY <1>0, <2>4, <3>3, <3>4, UnchangedTyped DEF CreateVm
  <2>5. CASE StartVm(c)
    <3>1. call[c].inst \in Rows
      BY <2>5 DEF StartVm, At, CallTyped, NeedsInst
    <3>2. Goto(c, "publish") \/ Goto(c, "fail")
      BY <2>5 DEF StartVm
    <3>3. CallTyped'
      BY <1>0, <2>5, <3>1, <3>2, GotoType DEF StartVm, CallPCs
    <3> QED
      BY <1>0, <2>5, <3>3, UnchangedTyped DEF StartVm
  <2>6. CASE PublishRunning(c)
    <3>1. call[c].inst \in Rows
      BY <2>6 DEF PublishRunning, At, CallTyped, NeedsInst
    <3>2. lease' \in [Instances -> Row] /\ Rows' = Rows
      BY <2>6, <3>1, UpdateStatus DEF PublishRunning
    <3>3. CallTyped'
      BY <2>6, <3>1, <3>2, GotoType, ReturnType DEF PublishRunning, CallPCs
    <3> QED
      BY <2>6, <3>2, <3>3, UnchangedTyped DEF PublishRunning
  <2>7. CASE BootstrapLookup(c)
    <3> DEFINE r == [call[c] EXCEPT !.pc = "resolve", !.rows = Select({call[c].inst})]
    <3>1. r \in CallRecord /\ r.inst = call[c].inst /\ r.rows = Select({call[c].inst})
      BY <2>0, RowTypes DEF CallRecord, CallPCs
    <3>2. r.inst \in Rows /\ Listed(r.rows) \subseteq Rows
      BY <2>7, <3>1, SelectTracked DEF BootstrapLookup, At, CallTyped, NeedsInst
    <3>3. call' = [call EXCEPT ![c] = r]
      BY <2>7 DEF BootstrapLookup, CallTyped
    <3> HIDE DEF r
    <3>4. CallTyped'
      BY <1>0, <2>7, <3>1, <3>2, <3>3, BeginType DEF BootstrapLookup
    <3> QED
      BY <1>0, <2>7, <3>4, UnchangedTyped DEF BootstrapLookup
  <2>8. CASE MarkError(c)
    <3>1. call[c].inst \in Rows
      BY <2>8 DEF MarkError, At, CallTyped, NeedsInst
    <3>2. lease' \in [Instances -> Row] /\ Rows' = Rows
      BY <2>8, <3>1, UpdateStatus DEF MarkError
    <3> QED
      BY <2>8, <3>2, ReturnType, UnchangedTyped DEF MarkError
  <2>9. CASE \E i \in Instances, tool \in {"use", "extend"} : Lookup(c, i, tool)
    <3>1. PICK i \in Instances, tool \in {"use", "extend"} : Lookup(c, i, tool)
      BY <2>9
    <3> DEFINE r == [Idle EXCEPT !.pc = "resolve", !.op = tool,
                                 !.inst = i, !.rows = Select({i})]
    <3>2. r \in CallRecord /\ r.inst = i /\ r.rows = Select({i})
      BY RowTypes DEF Idle, CallRecord, CallPCs
    <3>3. /\ call' = [call EXCEPT ![c] = r] /\ i \in Rows
          /\ UNCHANGED <<now, available, lease, vms, sweep, outlived, late, restarts>>
      BY <3>1 DEF Lookup
    <3> HIDE DEF r
    <3>4. CallTyped'
      BY <1>0, <3>2, <3>3, BeginType, SelectTracked
    <3> QED
      BY <1>0, <3>3, <3>4, UnchangedTyped
  <2>10. CASE Resolve(c)
    <3>1. call[c].inst \in Rows
      BY <2>10 DEF Resolve, CallTyped, NeedsInst
    <3>2. lease' \in [Instances -> Row] /\ Rows' = Rows
      BY <1>0, <2>10, <3>1, UpdateStatus DEF Resolve
    <3>3. Return(c) \/ Goto(c, "extend") \/ Goto(c, "use")
      BY <2>10 DEF Resolve
    <3>4. CallTyped'
      BY <3>1, <3>2, <3>3, GotoType, ReturnType DEF CallPCs
    <3> QED
      BY <2>10, <3>2, <3>4, UnchangedTyped DEF Resolve
  <2>11. CASE Use(c)
    <3>1. call[c].inst \in Rows
      BY <2>11 DEF Use, CallTyped, NeedsInst
    <3>2. CallTyped'
      BY <1>0, <2>11, <3>1, GotoType, ReturnType DEF Use, CallPCs
    <3> QED
      BY <1>0, <2>11, <3>2, UnchangedTyped DEF Use
  <2>12. CASE ExtendTtl(c)
    <3>1. lease' \in [Instances -> Row] /\ Rows' = Rows
      BY <2>12, ExtendTtlRows
    <3> QED
      BY <2>12, <3>1, ReturnType, UnchangedTyped DEF ExtendTtl
  <2>13. CASE \E i \in Instances : BeginDestroy(c, i)
    <3>1. PICK i \in Instances : BeginDestroy(c, i)
      BY <2>13
    <3> DEFINE r == [Idle EXCEPT !.pc = "stop", !.op = "destroy", !.inst = i]
    <3>2. r \in CallRecord /\ r.inst = i /\ Listed(r.rows) \subseteq Rows
      BY RowTypes DEF Idle, CallRecord, CallPCs, Listed, NoRows
    <3>3. /\ call' = [call EXCEPT ![c] = r] /\ i \in Rows
          /\ UNCHANGED <<now, available, lease, vms, sweep, outlived, late, restarts>>
      BY <3>1 DEF BeginDestroy
    <3> HIDE DEF r
    <3>4. CallTyped'
      BY <1>0, <3>2, <3>3, BeginType
    <3> QED
      BY <1>0, <3>3, <3>4, UnchangedTyped
  <2>14. CASE StopVm(c)
    <3>1. call[c].inst \in Rows
      BY <2>14 DEF StopVm, At, CallTyped, NeedsInst
    <3>2. CallTyped'
      BY <1>0, <2>14, <3>1, GotoType, ReturnType DEF StopVm, CallPCs
    <3> QED
      BY <1>0, <2>14, <3>2, UnchangedTyped DEF StopVm
  <2>15. CASE DeleteVm(c)
    <3>1. call[c].inst \in Rows
      BY <2>15 DEF DeleteVm, At, CallTyped, NeedsInst
    <3>2. Goto(c, "destroyed") \/ Return(c)
      BY <2>15 DEF DeleteVm
    <3>3. CallTyped'
      BY <1>0, <2>15, <3>1, <3>2, GotoType, ReturnType DEF DeleteVm, CallPCs
    <3>4. vms' \subseteq Instances /\ OutlivedTyped'
      BY <1>0, <2>15 DEF DeleteVm, Deleted, OutlivedTyped, Rows
    <3> QED
      BY <1>0, <2>15, <3>3, <3>4, UnchangedTyped DEF DeleteVm
  <2>16. CASE MarkDestroyed(c)
    <3>1. call[c].inst \in Rows
      BY <2>16 DEF MarkDestroyed, At, CallTyped, NeedsInst
    <3>2. lease' \in [Instances -> Row] /\ Rows' = Rows
      BY <2>16, <3>1, UpdateStatus DEF MarkDestroyed
    <3> QED
      BY <2>16, <3>2, ReturnType, UnchangedTyped DEF MarkDestroyed
  <2>17. CASE BeginList(c)
    <3> DEFINE S == {i \in Rows : lease[i].status \notin TERMINAL_STATUSES}
               r == [Idle EXCEPT !.pc = "list", !.op = "list", !.rows = Select(S)]
    <3>1. r \in CallRecord /\ r.pc \notin NeedsInst /\ r.rows = Select(S)
      BY RowTypes DEF Idle, CallRecord, CallPCs, NeedsInst
    <3>2. /\ call' = [call EXCEPT ![c] = r]
          /\ UNCHANGED <<now, available, lease, vms, sweep, outlived, late, restarts>>
      BY <2>17 DEF BeginList
    <3> HIDE DEF r
    <3>3. CallTyped'
      BY <1>0, <3>1, <3>2, BeginType, SelectTracked
    <3> QED
      BY <1>0, <3>2, <3>3, UnchangedTyped
  <2>18. CASE NormalizeNext(c)
    <3>1. PICK i \in Listed(call[c].rows) :
            /\ IF is_stale(call[c].rows[i]) THEN update_status(i, "expired")
                                            ELSE UNCHANGED lease
            /\ IF Listed(call[c].rows) = {i}
                 THEN Return(c)
                 ELSE call' = [call EXCEPT ![c].rows[i] = NoRow]
      BY <2>18 DEF NormalizeNext
    <3>2. i \in Rows /\ i \in Instances
      BY DEF CallTyped, Listed
    <3>3. lease' \in [Instances -> Row] /\ Rows' = Rows
      BY <1>0, <3>1, <3>2, UpdateStatus
    <3>4. ASSUME call' = [call EXCEPT ![c].rows[i] = NoRow]
          PROVE  CallTyped'
      <4> DEFINE r == [call[c] EXCEPT !.rows[i] = NoRow]
      <4>1. r \in CallRecord /\ r.pc = call[c].pc /\ r.rows = [call[c].rows EXCEPT ![i] = NoRow]
        BY <2>0, RowTypes DEF CallRecord
      <4>2. r.pc \notin NeedsInst
        BY <2>18, <4>1 DEF NormalizeNext, At, NeedsInst
      <4>3. Listed(r.rows) \subseteq Rows
        BY <2>0, <4>1 DEF CallTyped, Listed, CallRecord
      <4>4. call' = [call EXCEPT ![c] = r]
        BY <3>4 DEF CallTyped
      <4> HIDE DEF r
      <4> QED
        BY <3>3, <4>1, <4>2, <4>3, <4>4, BeginType
    <3>5. CallTyped'
      BY <3>1, <3>3, <3>4, ReturnType
    <3> QED
      BY <2>18, <3>3, <3>5, UnchangedTyped DEF NormalizeNext
  <2> QED
    BY <1>1, <2>1, <2>2, <2>3, <2>4, <2>5, <2>6, <2>7, <2>8, <2>9, <2>10,
       <2>11, <2>12, <2>13, <2>14, <2>15, <2>16, <2>17, <2>18 DEF CallStep
<1>2. CASE SweepSelect
  <2>1. Select(list_expired_active) \in [Instances -> Row]
    BY RowTypes
  <2>2. SweepTyped'
    BY <1>0, <1>2, <2>1, SelectTracked, SweepNextType DEF SweepSelect
  <2> QED
    BY <1>0, <1>2, <2>2, UnchangedTyped DEF SweepSelect
<1>3. CASE SweepStop
  <2>1. SweepTyped'
    BY <1>0, <1>3 DEF SweepStop, SweepTyped, SweepRecord, SweepPCs, Listed
  <2> QED
    BY <1>0, <1>3, <2>1, UnchangedTyped DEF SweepStop
<1>4. CASE SweepDelete
  <2>1. SweepTyped'
    BY <1>0, <1>4 DEF SweepDelete, SweepTyped, SweepRecord, SweepPCs, Listed
  <2>2. vms' \subseteq Instances /\ OutlivedTyped'
    BY <1>0, <1>4 DEF SweepDelete, Deleted, OutlivedTyped, Rows
  <2> QED
    BY <1>0, <1>4, <2>1, <2>2, UnchangedTyped DEF SweepDelete
<1>5. CASE SweepMark
  <2>1. sweep.inst \in Rows
    BY <1>5 DEF SweepMark, SweepTyped
  <2>2. lease' \in [Instances -> Row] /\ Rows' = Rows
    BY <1>5, <2>1, UpdateStatus DEF SweepMark
  <2>3. SweepTyped'
    <3>1. CASE Listed(sweep.rows) = {}
      BY <1>5, <3>1, IdleTypes DEF SweepMark, SweepTyped, Asleep, Listed, NoRows
    <3>2. CASE Listed(sweep.rows) # {}
      BY <1>5, <2>2, <3>2, SweepNextType DEF SweepMark, SweepTyped, SweepRecord
    <3> QED
      BY <3>1, <3>2
  <2> QED
    BY <1>5, <2>2, <2>3, UnchangedTyped DEF SweepMark
<1>6. CASE Tick
  BY <1>0, <1>6, UnchangedTyped DEF Tick
<1>7. CASE Restart
  <2>1. CallTyped'
    BY <1>0, <1>7, IdleTypes DEF Restart, CallTyped, Idle, NeedsInst, Listed, NoRows
  <2>2. SweepTyped'
    BY <1>0, <1>7, IdleTypes DEF Restart, SweepTyped, Asleep, Listed, NoRows
  <2>3. OutlivedTyped'
    <3>1. Rows' = Rows /\ UNCHANGED late
      BY <1>0, <1>7 DEF Restart
    <3>2. \A w \in {sweep} \cup {call[c] : c \in Callers} :
            w.pc \in {"create", "delete"} => w.inst \in Rows
      BY DEF CallTyped, SweepTyped, NeedsInst
    <3>3. InFlight \subseteq [cmd : {"create", "delete"}, inst : Rows]
      BY <3>2 DEF InFlight
    <3> QED
      BY <1>7, <3>1, <3>3 DEF Restart, OutlivedTyped
  <2> QED
    BY <1>7, <2>1, <2>2, <2>3, LeaseAssumption DEF Restart
<1>8. CASE UNCHANGED vars
  BY <1>0, <1>8, UnchangedTyped DEF vars
<1>9. CASE LateCommand
  <2>1. PICK m \in outlived :
          /\ outlived' = outlived \ {m}
          /\ \/ vms' = vms \cup {m.inst} /\ late' = late \cup {m.inst}
             \/ vms' = vms \ {m.inst} /\ late' = late \ {m.inst}
          /\ UNCHANGED <<now, available, lease, call, sweep, restarts>>
    BY <1>9 DEF LateCommand, Deleted
  <2>2. m.inst \in Instances
    BY DEF OutlivedTyped, Rows
  <2>3. OutlivedTyped' /\ vms' \subseteq Instances
    BY <1>0, <2>1, <2>2 DEF OutlivedTyped
  <2> QED
    BY <1>0, <2>1, <2>3, UnchangedTyped
<1> QED
  BY <1>1, <1>2, <1>3, <1>4, <1>5, <1>6, <1>7, <1>8, <1>9 DEF Next, Sweep

\* The types hold throughout, and no call or pass ever works on an instance
\* that the table does not have.
THEOREM TypeCorrect == Spec => []TypeOK
  BY InitTypeOK, NextTypeOK, PTL DEF Spec

=============================================================================
