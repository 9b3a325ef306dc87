-------------------------- MODULE LeaseStatusProofs --------------------------
(***************************************************************************)
(* No VM without a row, and statuses that only move forward.  The second   *)
(* needs that an instance has one creating call at most, and that nobody   *)
(* else declares its lease failed.  Then what takes one transport: a lease *)
(* that was reported destroyed has no VM but one that a creation which     *)
(* outlived its server made after all, and expiries only grow.             *)
(***************************************************************************)
EXTENDS LeaseAdmissionProofs

USE DEF ACTIVE_STATUSES, TERMINAL_STATUSES, Statuses

-----------------------------------------------------------------------------
(* VMs.                                                                     *)

\* A step that makes a VM makes that of a row, and no step drops a row.
LEMMA NextNoUntrackedVM == TypeOK /\ NoUntrackedVM /\ [Next]_vars => NoUntrackedVM'
<1> SUFFICES ASSUME TypeOK, NoUntrackedVM, [Next]_vars PROVE NoUntrackedVM'
  OBVIOUS
<1>1. Rows \subseteq Rows'
  BY StepKinds DEF Counts, Inserts, AdmitsNothing
<1>2. vms' \subseteq Rows
  <2>1. CASE \E c \in Callers : CallStep(c)
    <3>1. PICK c \in Callers : CallStep(c)
      BY <2>1
    <3>2. CASE CreateVm(c)
      <4>1. call[c].inst \in Rows
        BY <3>2 DEF CreateVm, At, TypeOK, CallTyped, NeedsInst
      <4> QED
        BY <3>2, <4>1 DEF CreateVm, NoUntrackedVM
    <3>3. CASE DeleteVm(c)
      BY <3>3 DEF DeleteVm, Deleted, NoUntrackedVM
    <3>4. CASE vms' = vms
      BY <3>4 DEF NoUntrackedVM
    <3> QED
      BY <3>1, <3>2, <3>3, <3>4
      DEF CallStep, CountActive, RefuseForCapacity, InsertLease, StartVm, PublishRunning,
          BootstrapLookup, MarkError, Lookup, Resolve, Use, ExtendTtl, BeginDestroy, StopVm,
          MarkDestroyed, BeginList, NormalizeNext
  <2>2. CASE ~ \E c \in Callers : CallStep(c)
    <3>1. CASE LateCommand
      BY <3>1 DEF LateCommand, Deleted, TypeOK, OutlivedTyped, NoUntrackedVM
    <3>2. CASE ~ LateCommand
      BY <2>2, <3>2 DEF Next, Sweep, SweepSelect, SweepStop, SweepDelete, SweepMark, Tick,
                        Deleted, Restart, vars, NoUntrackedVM
    <3> QED
      BY <3>1, <3>2
  <2> QED
    BY <2>1, <2>2
<1> QED
  BY <1>1, <1>2 DEF NoUntrackedVM

\* Whenever the server dies, each VM it made is found in the table.
THEOREM EveryVMTracked == Spec => []NoUntrackedVM
<1>1. Init => NoUntrackedVM
  BY DEF Init, NoUntrackedVM
<1> QED
  BY <1>1, InitTypeOK, NextTypeOK, NextNoUntrackedVM, PTL DEF Spec

-----------------------------------------------------------------------------
(* Statuses.                                                                *)

CreatorsTracked ==
  \A c \in Callers : call[c].op = "create" => call[c].inst \in Rows \cup {NoInst}

CreatorsApart ==
  \A c, d \in Callers :
    call[c].op = "create" /\ call[d].op = "create" /\ c # d /\ call[c].inst = call[d].inst
      => call[c].inst = NoInst

NotFailedYet ==
  \A c \in Callers, i \in Instances : Creates(c, i) => lease[i].status # "error"

RowsHaveStatus == \A i \in Rows : lease[i].status # "none"

CreatorInv == CreatorsTracked /\ CreatorsApart /\ NotFailedYet /\ RowsHaveStatus

\* A step that makes no call a creator, or no more than about to insert.
KeepsCreators ==
  \A d \in Callers :
    /\ call'[d].op = "create" =>
         \/ call'[d].inst = NoInst
         \/ call[d].op = "create" /\ call'[d].inst = call[d].inst
    /\ \A i \in Instances : Creates(d, i)' => Creates(d, i)

\* A step that writes a status only where it may.
WritesForward ==
  /\ Rows' = Rows
  /\ \A i \in Instances : lease'[i].status # lease[i].status =>
       /\ i \in Rows
       /\ \/ lease'[i].status \in TERMINAL_STATUSES
          \/ lease'[i].status = "running" /\ \E c \in Callers : Creates(c, i)
          \/ /\ lease'[i].status = "error"
             /\ \E c \in Callers : At(c, "create", "fail") /\ call[c].inst = i

LEMMA GotoKeeps ==
  ASSUME CallTyped, NEW c \in Callers, NEW p, Goto(c, p),
         p \in {"create", "start", "publish"} =>
           call[c].pc \in {"create", "start", "publish"}
  PROVE  KeepsCreators
  BY GotoFacts DEF KeepsCreators, Creates

LEMMA ReturnKeeps ==
  ASSUME CallTyped, NEW c \in Callers, Return(c)
  PROVE  KeepsCreators
  BY ReturnFacts DEF KeepsCreators, Creates

LEMMA UpdateForward ==
  ASSUME lease \in [Instances -> Row], NEW i \in Rows, NEW s \in Statuses,
         update_status(i, s),
         \/ s \in TERMINAL_STATUSES
         \/ s = "running" /\ \E c \in Callers : Creates(c, i)
         \/ s = "error" /\ \E c \in Callers : At(c, "create", "fail") /\ call[c].inst = i
  PROVE  WritesForward
<1>1. Rows' = Rows
  BY UpdateStatus
<1>2. i \in Instances
  BY DEF Rows
<1>3. lease'[i].status = s /\ \A j \in Instances \ {i} : lease'[j] = lease[j]
  BY <1>2 DEF update_status, Row
<1> QED
  BY <1>1, <1>3 DEF WritesForward

LEMMA SameForward ==
  ASSUME lease' = lease
  PROVE  WritesForward
  BY DEF WritesForward, Rows

\* Every step of a call but the insert keeps creators and writes forward.
LEMMA CallForward ==
  ASSUME TypeOK, NEW c \in Callers, CallStep(c), ~ InsertLease(c)
  PROVE  KeepsCreators /\ WritesForward
<1> USE DEF TypeOK
<1>1. call[c] \in CallRecord
  BY DEF CallTyped
<1>2. call[c].pc \in NeedsInst => call[c].inst \in Rows
  BY DEF CallTyped
<1>3. CASE CountActive(c)
  <2>1. /\ call'[c].inst = NoInst /\ call'[c].pc = "insert"
        /\ \A d \in Callers \ {c} : call'[d] = call[d]
    BY <1>3 DEF CountActive, CallTyped, Idle
  <2> QED
    BY <1>3, <2>1, SameForward DEF CountActive, KeepsCreators, Creates
<1>4. CASE RefuseForCapacity(c)
  BY <1>4, ReturnKeeps, SameForward DEF RefuseForCapacity
<1>5. CASE CreateVm(c) \/ StartVm(c)
  <2>1. Goto(c, "start") \/ Goto(c, "publish") \/ Goto(c, "fail")
    BY <1>5 DEF CreateVm, StartVm
  <2>2. lease' = lease /\ call[c].pc \in {"create", "start"}
    BY <1>5 DEF CreateVm, StartVm, At
  <2> QED
    BY <2>1, <2>2, GotoKeeps, SameForward
<1>6. CASE PublishRunning(c)
  <2>1. Creates(c, call[c].inst) /\ call[c].inst \in Rows
    BY <1>2, <1>6 DEF PublishRunning, At, Creates, NeedsInst
  <2>2. WritesForward
    BY <1>6, <2>1, UpdateForward DEF PublishRunning
  <2>3. Goto(c, "bootstrap") \/ Return(c)
    BY <1>6 DEF PublishRunning
  <2> QED
    BY <2>2, <2>3, GotoKeeps, ReturnKeeps
<1>7. CASE BootstrapLookup(c)
  <2>1. /\ call[c].op = "create" /\ call'[c].pc = "resolve"
        /\ call'[c].inst = call[c].inst
        /\ \A d \in Callers \ {c} : call'[d] = call[d]
    BY <1>1, <1>7 DEF BootstrapLookup, At, CallTyped, CallRecord
  <2> QED
    BY <1>7, <2>1, SameForward DEF BootstrapLookup, KeepsCreators, Creates
<1>8. CASE MarkError(c)
  <2>1. call[c].inst \in Rows /\ At(c, "create", "fail")
    BY <1>2, <1>8 DEF MarkError, At, NeedsInst
  <2>2. WritesForward
    BY <1>8, <2>1, UpdateForward DEF MarkError
  <2> QED
    BY <1>8, <2>2, ReturnKeeps DEF MarkError
<1>9. CASE \/ \E i \in Instances, tool \in {"use", "extend"} : Lookup(c, i, tool)
           \/ \E i \in Instances : BeginDestroy(c, i)
           \/ BeginList(c)
  <2>1. /\ call'[c].op \in {"use", "extend", "destroy", "list"} /\ lease' = lease
        /\ \A d \in Callers \ {c} : call'[d] = call[d]
    BY <1>9 DEF Lookup, BeginDestroy, BeginList, CallTyped, Idle
  <2> QED
    BY <2>1, SameForward DEF KeepsCreators, Creates
<1>10. CASE Resolve(c)
  <2>1. call[c].inst \in Rows
    BY <1>2, <1>10 DEF Resolve, NeedsInst
  <2>2. lease' = lease \/ update_status(call[c].inst, "expired")
    BY <1>10 DEF Resolve
  <2>3. WritesForward
    BY <2>1, <2>2, UpdateForward, SameForward
  <2>4. Return(c) \/ Goto(c, "use") \/ Goto(c, "extend")
    BY <1>10 DEF Resolve
  <2> QED
    BY <2>3, <2>4, GotoKeeps, ReturnKeeps
<1>11. CASE Use(c) \/ StopVm(c) \/ DeleteVm(c)
  <2>1. lease' = lease /\ (Return(c) \/ \E p \in {"fail", "delete", "destroyed"} : Goto(c, p))
    BY <1>11 DEF Use, StopVm, DeleteVm
  <2> QED
    BY <2>1, GotoKeeps, ReturnKeeps, SameForward
<1>12. CASE ExtendTtl(c)
  <2>1. Rows' = Rows /\ \A j \in Instances : lease'[j].status = lease[j].status
    BY <1>12, ExtendTtlRows DEF ExtendTtl
  <2>2. WritesForward
    BY <2>1 DEF WritesForward
  <2> QED
    BY <1>12, <2>2, ReturnKeeps DEF ExtendTtl
<1>13. CASE MarkDestroyed(c)
  <2>1. call[c].inst \in Rows
    BY <1>2, <1>13 DEF MarkDestroyed, At, NeedsInst
  <2>2. WritesForward
    BY <1>13, <2>1, UpdateForward DEF MarkDestroyed
  <2> QED
    BY <1>13, <2>2, ReturnKeeps DEF MarkDestroyed
<1>14. CASE NormalizeNext(c)
  <2>1. PICK i \in Listed(call[c].rows) :
          /\ IF is_stale(call[c].rows[i]) THEN update_status(i, "expired")
                                          ELSE UNCHANGED lease
          /\ IF Listed(call[c].rows) = {i}
               THEN Return(c)
               ELSE call' = [call EXCEPT ![c].rows[i] = NoRow]
    BY <1>14 DEF NormalizeNext
  <2>2. i \in Rows
    BY DEF CallTyped
  <2>3. WritesForward
    BY <2>1, <2>2, UpdateForward, SameForward
  <2>4. ASSUME call' = [call EXCEPT ![c].rows[i] = NoRow]
        PROVE  KeepsCreators
    <3>1. /\ call'[c].op = "list"
          /\ \A d \in Callers \ {c} : call'[d] = call[d]
      BY <1>1, <1>14, <2>4 DEF NormalizeNext, At, CallTyped, CallRecord
    <3> QED
      BY <3>1 DEF KeepsCreators, Creates
  <2> QED
    BY <2>1, <2>3, <2>4, ReturnKeeps
<1> QED
  BY <1>3, <1>4, <1>5, <1>6, <1>7, <1>8, <1>9, <1>10, <1>11, <1>12, <1>13, <1>14
  DEF CallStep

\* So does every other step of the service.
LEMMA StepForward ==
  ASSUME TypeOK, [Next]_vars, ~ \E c \in Callers : InsertLease(c)
  PROVE  KeepsCreators /\ WritesForward
<1> USE DEF TypeOK
<1>1. CASE \E c \in Callers : CallStep(c)
  BY <1>1, CallForward
<1>2. CASE SweepMark
  <2>1. sweep.inst \in Rows /\ update_status(sweep.inst, "expired") /\ call' = call
    BY <1>2 DEF SweepMark, SweepTyped
  <2> QED
    BY <2>1, UpdateForward DEF KeepsCreators, Creates
<1>3. CASE Restart
  <2>1. lease' = lease /\ \A d \in Callers : call'[d].op = "none"
    BY <1>3 DEF Restart, Idle
  <2> QED
    BY <2>1, SameForward DEF KeepsCreators, Creates
<1>4. CASE SweepSelect \/ SweepStop \/ SweepDelete \/ Tick \/ LateCommand \/ UNCHANGED vars
  <2>1. lease' = lease /\ call' = call
    BY <1>4 DEF SweepSelect, SweepStop, SweepDelete, Tick, LateCommand, vars
  <2> QED
    BY <2>1, SameForward DEF KeepsCreators, Creates
<1> QED
  BY <1>1, <1>2, <1>3, <1>4 DEF Next, Sweep

LEMMA InitCreatorInv == Init => CreatorInv
<1> SUFFICES ASSUME Init PROVE CreatorInv
  OBVIOUS
<1>1. \A c \in Callers : call[c].op = "none"
  BY DEF Init, Idle
<1>2. Rows = {}
  BY DEF Init, Rows, NoRows
<1> QED
  BY <1>1, <1>2
  DEF CreatorInv, CreatorsTracked, CreatorsApart, NotFailedYet, RowsHaveStatus, Creates

LEMMA NextCreatorInv == TypeOK /\ CreatorInv /\ [Next]_vars => CreatorInv'
<1> SUFFICES ASSUME TypeOK, CreatorInv, [Next]_vars PROVE CreatorInv'
  OBVIOUS
<1> USE DEF CreatorInv
<1>0. NoInst \notin Instances /\ NoInst' = NoInst
  BY LeaseAssumption
<1>1. ASSUME NEW c \in Callers, InsertLease(c)
      PROVE  CreatorInv'
  <2>1. PICK i \in Instances \ Rows, ttl \in 1..MaxTTL :
          /\ lease' = [lease EXCEPT ![i] =
                         [status |-> "creating", expires_at |-> call[c].stamp + ttl]]
          /\ call' = [call EXCEPT ![c].pc = "create", ![c].inst = i]
    BY <1>1 DEF InsertLease
  <2>2. /\ call'[c].inst = i
        /\ \A d \in Callers \ {c} : call'[d] = call[d]
    BY <2>1 DEF TypeOK, CallTyped, CallRecord
  <2>3. /\ lease'[i].status = "creating"
        /\ \A j \in Instances \ {i} : lease'[j] = lease[j]
    BY <2>1 DEF TypeOK
  <2>4. Rows' = Rows \cup {i}
    BY <2>3 DEF Rows, NoRow
  <2>5. CreatorsTracked'
    BY <2>2, <2>4 DEF CreatorsTracked
  <2>6. CreatorsApart'
    <3> SUFFICES ASSUME NEW d \in Callers, NEW e \in Callers,
                        call'[d].op = "create", call'[e].op = "create", d # e,
                        call'[d].inst = call'[e].inst
                 PROVE  call'[d].inst = NoInst
      BY <1>0 DEF CreatorsApart
    <3>1. CASE d = c
      BY <1>0, <2>2, <3>1 DEF CreatorsTracked
    <3>2. CASE e = c
      BY <1>0, <2>2, <3>2 DEF CreatorsTracked
    <3>3. CASE d # c /\ e # c
      BY <2>2, <3>3 DEF CreatorsApart
    <3> QED
      BY <3>1, <3>2, <3>3
  <2>7. NotFailedYet'
    BY <2>2, <2>3 DEF NotFailedYet, Creates
  <2>8. RowsHaveStatus'
    BY <2>3, <2>4 DEF RowsHaveStatus, Rows
  <2> QED
    BY <2>5, <2>6, <2>7, <2>8
<1>2. ASSUME KeepsCreators, WritesForward
      PROVE  CreatorInv'
  <2>1. CreatorsTracked'
    BY <1>0, <1>2 DEF CreatorsTracked, KeepsCreators, WritesForward
  <2>2. CreatorsApart'
    BY <1>0, <1>2 DEF CreatorsApart, KeepsCreators
  <2>3. NotFailedYet'
    <3> SUFFICES ASSUME NEW c \in Callers, NEW i \in Instances,
                        Creates(c, i)', lease'[i].status = "error"
                 PROVE  FALSE
      BY DEF NotFailedYet
    <3>1. Creates(c, i) /\ lease[i].status # "error"
      BY <1>2 DEF KeepsCreators, NotFailedYet
    <3>2. PICK d \in Callers : At(d, "create", "fail") /\ call[d].inst = i
      BY <1>2, <3>1 DEF WritesForward
    <3>3. d # c
      BY <3>1, <3>2 DEF Creates, At
    <3> QED
      BY <1>0, <3>1, <3>2, <3>3 DEF CreatorsApart, Creates, At
  <2>4. RowsHaveStatus'
    <3> SUFFICES ASSUME NEW i \in Rows', lease'[i].status = "none"
                 PROVE  FALSE
      BY DEF RowsHaveStatus
    <3>1. i \in Rows /\ i \in Instances
      BY <1>2 DEF WritesForward, Rows
    <3> QED
      BY <1>2, <3>1 DEF WritesForward, RowsHaveStatus
  <2> QED
    BY <2>1, <2>2, <2>3, <2>4
<1> QED
  BY <1>1, <1>2, StepForward

\* A lease leaves a terminal status, or becomes running or failed, only by
\* the hand of the call that is creating it, and never leaves a failure for
\* anything but a terminal status.
THEOREM StatusForward == Spec => StatusMovesForward
<1> DEFINE Step == \A i \in Instances :
             LET old == lease[i].status
                 new == lease'[i].status
             IN  old # new =>
                   \/ old = "none" /\ new = "creating"
                   \/ old # "none" /\ new \in TERMINAL_STATUSES
                   \/ /\ new \in {"running", "error"} /\ old # "error"
                      /\ \E c \in Callers : call[c].op = "create" /\ call[c].inst = i
<1>1. TypeOK /\ CreatorInv /\ [Next]_vars => [Step]_vars
  <2> SUFFICES ASSUME TypeOK, CreatorInv, [Next]_vars, NEW i \in Instances,
                      lease[i].status # lease'[i].status
               PROVE  \/ lease[i].status = "none" /\ lease'[i].status = "creating"
                      \/ lease[i].status # "none" /\ lease'[i].status \in TERMINAL_STATUSES
                      \/ /\ lease'[i].status \in {"running", "error"} /\ lease[i].status # "error"
                         /\ \E c \in Callers : call[c].op = "create" /\ call[c].inst = i
    OBVIOUS
  <2>1. ASSUME NEW c \in Callers, InsertLease(c)
        PROVE  lease[i].status = "none" /\ lease'[i].status = "creating"
    <3>1. PICK j \in Instances \ Rows, ttl \in 1..MaxTTL :
            lease' = [lease EXCEPT ![j] =
                        [status |-> "creating", expires_at |-> call[c].stamp + ttl]]
      BY <2>1 DEF InsertLease
    <3>2. i = j
      BY <3>1 DEF TypeOK
    <3> QED
      BY <3>1, <3>2 DEF TypeOK, Rows, NoRow
  <2>2. ASSUME WritesForward
        PROVE  \/ lease[i].status # "none" /\ lease'[i].status \in TERMINAL_STATUSES
               \/ /\ lease'[i].status \in {"running", "error"} /\ lease[i].status # "error"
                  /\ \E c \in Callers : call[c].op = "create" /\ call[c].inst = i
    <3>1. i \in Rows /\ lease[i].status # "none"
      BY <2>2 DEF WritesForward, CreatorInv, RowsHaveStatus
    <3>2. CASE lease'[i].status \in TERMINAL_STATUSES
      BY <3>1, <3>2
    <3>3. CASE lease'[i].status = "running" /\ \E c \in Callers : Creates(c, i)
      BY <3>3 DEF CreatorInv, NotFailedYet, Creates
    <3>4. CASE /\ lease'[i].status = "error"
               /\ \E c \in Callers : At(c, "create", "fail") /\ call[c].inst = i
      BY <3>4 DEF At
    <3> QED
      BY <2>2, <3>2, <3>3, <3>4 DEF WritesForward
  <2> QED
    BY <2>1, <2>2, StepForward
<1>2. [][Step]_vars => StatusMovesForward
  BY PTL DEF StatusMovesForward
<1> QED
  BY <1>1, <1>2, InitTypeOK, NextTypeOK, InitCreatorInv, NextCreatorInv, PTL DEF Spec

-----------------------------------------------------------------------------
(* One transport.  Nobody but the sweeper comes between the steps of a call,*)
(* and the sweeper neither makes a VM nor changes an expiry; a command that *)
(* outlived its server may make one.                                        *)

OneTransport == \A c, d \in Callers : c = d

\* No VM is there but one made late.
NoVM(i) == i \notin vms \/ i \in late

\* A call about to make a VM has not lost its row to a destruction, and one
\* about to report a destruction has deleted the VM.
GoneInv ==
  \A c \in Callers :
    /\ call[c].pc = "create" => lease[call[c].inst].status # "destroyed"
    /\ call[c].pc = "destroyed" => NoVM(call[c].inst)

\* A step that makes VMs only late.
MakesLate == \A i \in Instances : NoVM(i) => NoVM(i)'

\* The row a call decides on has the expiry that the table has.
ReadInv ==
  \A c \in Callers :
    call[c].pc \in {"resolve", "extend"} =>
      call[c].rows[call[c].inst].expires_at = lease[call[c].inst].expires_at

\* Writing a status leaves expiries and the other rows alone.
LEMMA StatusWritten ==
  ASSUME lease \in [Instances -> Row], NEW i \in Instances, NEW s, update_status(i, s)
  PROVE  /\ lease'[i].status = s
         /\ \A j \in Instances \ {i} : lease'[j] = lease[j]
         /\ \A j \in Instances : lease'[j].expires_at = lease[j].expires_at
  BY DEF update_status, Row

\* A step that writes no status, or one other than destroyed.
SparesStatuses ==
  \A i \in Instances : \/ lease'[i].status = lease[i].status
                        \/ lease'[i].status # "destroyed"

SameExpiries == \A i \in Instances : lease'[i].expires_at = lease[i].expires_at

\* What the steps of a call do that are neither the insert of a row, the
\* command that makes or deletes a VM, the report of a destruction nor an
\* extension: they leave the VMs and the expiries, destroy no row, and come to
\* none of the places the invariants are about but with a row just read.
LEMMA OtherCallSteps ==
  ASSUME TypeOK, NEW c \in Callers, CallStep(c), ~ InsertLease(c), ~ CreateVm(c),
         ~ DeleteVm(c), ~ MarkDestroyed(c), ~ ExtendTtl(c)
  PROVE  /\ UNCHANGED <<vms, late>> /\ SparesStatuses /\ SameExpiries
         /\ call'[c].pc \notin {"create", "destroyed"}
         /\ call'[c].pc \in {"resolve", "extend"} =>
              \/ call[c].pc = "resolve" /\ call'[c].inst = call[c].inst
                                        /\ call'[c].rows = call[c].rows
              \/ call'[c].rows[call'[c].inst] = lease[call'[c].inst]
<1> USE DEF TypeOK
<1>1. call[c] \in CallRecord
  BY DEF CallTyped
<1>2. call[c].pc \in NeedsInst => call[c].inst \in Rows /\ call[c].inst \in Instances
  BY DEF CallTyped, Rows
<1>3. ASSUME NEW i \in Instances, NEW s, s # "destroyed", update_status(i, s)
      PROVE  SparesStatuses /\ SameExpiries
  BY <1>3, StatusWritten DEF SparesStatuses, SameExpiries
<1>4. lease' = lease => SparesStatuses /\ SameExpiries
  BY DEF SparesStatuses, SameExpiries
<1>5. CASE CountActive(c)
  <2>1. call'[c].pc = "insert"
    BY <1>5 DEF CountActive, CallTyped, Idle
  <2> QED
    BY <1>4, <1>5, <2>1 DEF CountActive
<1>6. CASE RefuseForCapacity(c)
  BY <1>4, <1>6, ReturnFacts DEF RefuseForCapacity
<1>7. CASE StartVm(c)
  BY <1>4, <1>7, GotoFacts DEF StartVm
<1>8. CASE PublishRunning(c)
  <2>1. call[c].inst \in Instances
    BY <1>2, <1>8 DEF PublishRunning, At, NeedsInst
  <2> QED
    BY <1>3, <1>8, <2>1, GotoFacts, ReturnFacts DEF PublishRunning
<1>9. CASE BootstrapLookup(c)
  <2>1. /\ call'[c].pc = "resolve" /\ call'[c].inst = call[c].inst
        /\ call'[c].rows = Select({call[c].inst})
    BY <1>1, <1>9 DEF BootstrapLookup, CallTyped, CallRecord
  <2>2. call[c].inst \in Instances
    BY <1>2, <1>9 DEF BootstrapLookup, At, NeedsInst
  <2> QED
    BY <1>4, <1>9, <2>1, <2>2 DEF BootstrapLookup, Select
<1>10. CASE MarkError(c)
  <2>1. call[c].inst \in Instances
    BY <1>2, <1>10 DEF MarkError, At, NeedsInst
  <2> QED
    BY <1>3, <1>10, <2>1, ReturnFacts DEF MarkError
<1>11. CASE \E i \in Instances, tool \in {"use", "extend"} : Lookup(c, i, tool)
  <2>1. PICK i \in Instances, tool \in {"use", "extend"} : Lookup(c, i, tool)
    BY <1>11
  <2>2. /\ call'[c].pc = "resolve" /\ call'[c].inst = i
        /\ call'[c].rows = Select({i})
    BY <2>1 DEF Lookup, CallTyped, Idle
  <2> QED
    BY <1>4, <2>1, <2>2 DEF Lookup, Select
<1>12. CASE Resolve(c)
  <2>1. call[c].inst \in Instances
    BY <1>2, <1>12 DEF Resolve, NeedsInst
  <2>2. lease' = lease \/ update_status(call[c].inst, "expired")
    BY <1>12 DEF Resolve
  <2>3. SparesStatuses /\ SameExpiries
    BY <1>3, <1>4, <2>1, <2>2
  <2>4. Return(c) \/ Goto(c, "use") \/ Goto(c, "extend")
    BY <1>12 DEF Resolve
  <2> QED
    BY <1>12, <2>3, <2>4, GotoFacts, ReturnFacts DEF Resolve
<1>13. CASE Use(c)
  BY <1>4, <1>13, GotoFacts, ReturnFacts DEF Use
<1>14. CASE \E i \in Instances : BeginDestroy(c, i)
  <2>1. call'[c].pc = "stop" /\ UNCHANGED <<lease, vms, late>>
    BY <1>14 DEF BeginDestroy, CallTyped, Idle
  <2> QED
    BY <1>4, <2>1
<1>15. CASE StopVm(c)
  BY <1>4, <1>15, GotoFacts, ReturnFacts DEF StopVm
<1>16. CASE BeginList(c)
  <2>1. call'[c].pc = "list" /\ UNCHANGED <<lease, vms, late>>
    BY <1>16 DEF BeginList, CallTyped, Idle
  <2> QED
    BY <1>4, <2>1
<1>17. CASE NormalizeNext(c)
  <2>1. PICK i \in Listed(call[c].rows) :
          /\ IF is_stale(call[c].rows[i]) THEN update_status(i, "expired")
                                          ELSE UNCHANGED lease
          /\ IF Listed(call[c].rows) = {i}
               THEN Return(c)
               ELSE call' = [call EXCEPT ![c].rows[i] = NoRow]
    BY <1>17 DEF NormalizeNext
  <2>2. SparesStatuses /\ SameExpiries
    BY <1>3, <1>4, <2>1 DEF Listed
  <2>3. call[c].pc = "list"
    BY <1>17 DEF NormalizeNext, At
  <2>4. call' = [call EXCEPT ![c].rows[i] = NoRow] => call'[c].pc = "list"
    BY <1>1, <2>3 DEF CallTyped, CallRecord
  <2> QED
    BY <1>17, <2>1, <2>2, <2>4, ReturnFacts DEF NormalizeNext
<1> QED
  BY <1>5, <1>6, <1>7, <1>8, <1>9, <1>10, <1>11, <1>12, <1>13, <1>14, <1>15, <1>16, <1>17
  DEF CallStep

\* The steps of nobody's call neither make VMs but late, change expiries nor
\* destroy.
LEMMA OtherSteps ==
  ASSUME TypeOK, [Next]_vars, ~ \E c \in Callers : CallStep(c)
  PROVE  /\ MakesLate /\ SparesStatuses /\ SameExpiries
         /\ \A c \in Callers : call'[c] = call[c] \/ call'[c].pc = "idle"
<1>1. CASE SweepMark
  <2>1. sweep.inst \in Instances /\ update_status(sweep.inst, "expired")
    BY <1>1 DEF SweepMark, TypeOK, SweepTyped, Rows
  <2> QED
    BY <1>1, <2>1, StatusWritten
    DEF SweepMark, TypeOK, SparesStatuses, SameExpiries, MakesLate, NoVM
<1>2. CASE Restart
  BY <1>2 DEF Restart, Idle, SparesStatuses, SameExpiries, MakesLate, NoVM
<1>3. CASE SweepSelect \/ SweepStop \/ SweepDelete \/ Tick \/ UNCHANGED vars
  BY <1>3
  DEF SweepSelect, SweepStop, SweepDelete, Deleted, Tick, vars, SparesStatuses,
      SameExpiries, MakesLate, NoVM
<1>4. CASE LateCommand
  BY <1>4 DEF LateCommand, Deleted, SparesStatuses, SameExpiries, MakesLate, NoVM
<1> QED
  BY <1>1, <1>2, <1>3, <1>4 DEF Next, Sweep

\* With one transport, no step makes the VM of a destroyed lease or destroys a
\* lease that has one.
LEMMA NextGone ==
  ASSUME OneTransport, TypeOK, GoneInv, DestroyedLeaseHasNoVM, [Next]_vars
  PROVE  GoneInv' /\ DestroyedLeaseHasNoVM'
<1> USE DEF TypeOK
<1>1. ASSUME NEW c \in Callers, CallStep(c)
      PROVE  GoneInv' /\ DestroyedLeaseHasNoVM'
  <2>1. /\ call[c] \in CallRecord /\ \A d \in Callers : d = c
        /\ call[c].pc \in NeedsInst => call[c].inst \in Instances
    BY DEF CallTyped, OneTransport, Rows
  <2>2. CASE InsertLease(c)
    <3>1. PICK i \in Instances \ Rows, ttl \in 1..MaxTTL :
            /\ lease' = [lease EXCEPT ![i] =
                           [status |-> "creating", expires_at |-> call[c].stamp + ttl]]
            /\ call' = [call EXCEPT ![c].pc = "create", ![c].inst = i]
      BY <2>2 DEF InsertLease
    <3>2. /\ call'[c].pc = "create" /\ call'[c].inst = i
          /\ lease'[i].status = "creating"
          /\ \A j \in Instances \ {i} : lease'[j] = lease[j]
      BY <2>1, <3>1 DEF CallTyped, CallRecord
    <3> QED
      BY <2>1, <2>2, <3>2 DEF InsertLease, GoneInv, NoVM, DestroyedLeaseHasNoVM
  <2>3. CASE CreateVm(c)
    <3>1. call[c].inst \in Instances /\ lease[call[c].inst].status # "destroyed"
      BY <2>1, <2>3 DEF CreateVm, At, NeedsInst, GoneInv
    <3>2. Goto(c, "start") \/ Goto(c, "fail")
      BY <2>3 DEF CreateVm
    <3>3. GoneInv'
      BY <2>1, <3>2, GotoFacts DEF GoneInv
    <3> QED
      BY <2>3, <3>1, <3>3 DEF CreateVm, DestroyedLeaseHasNoVM
  <2>4. CASE DeleteVm(c)
    <3>1. MakesLate /\ UNCHANGED lease
      BY <2>4 DEF DeleteVm, Deleted, MakesLate, NoVM
    <3>2. \/ Return(c)
          \/ Goto(c, "destroyed") /\ call[c].inst \notin vms'
      BY <2>4 DEF DeleteVm, Deleted
    <3>3. DestroyedLeaseHasNoVM'
      BY <3>1 DEF MakesLate, NoVM, DestroyedLeaseHasNoVM
    <3>4. CASE Return(c)
      <4>1. call'[c].pc = "idle"
        BY <2>1, <3>4, ReturnFacts
      <4> QED
        BY <2>1, <3>3, <4>1 DEF GoneInv
    <3>5. CASE Goto(c, "destroyed") /\ call[c].inst \notin vms'
      <4>1. call'[c].pc = "destroyed" /\ call'[c].inst = call[c].inst
        BY <2>1, <3>5, GotoFacts
      <4> QED
        BY <2>1, <3>3, <3>5, <4>1 DEF GoneInv, NoVM
    <3> QED
      BY <3>2, <3>4, <3>5
  <2>5. CASE MarkDestroyed(c)
    <3>1. call[c].inst \in Instances /\ NoVM(call[c].inst)
      BY <2>1, <2>5 DEF MarkDestroyed, At, NeedsInst, GoneInv
    <3>2. call'[c].pc = "idle" /\ UNCHANGED <<vms, late>>
      BY <2>5, ReturnFacts DEF MarkDestroyed
    <3>3. \A j \in Instances \ {call[c].inst} : lease'[j] = lease[j]
      BY <2>5, <3>1, StatusWritten DEF MarkDestroyed
    <3> QED
      BY <2>1, <3>1, <3>2, <3>3 DEF GoneInv, NoVM, DestroyedLeaseHasNoVM
  <2>6. CASE ExtendTtl(c)
    <3>1. /\ \A j \in Instances : lease'[j].status = lease[j].status
          /\ call'[c].pc = "idle" /\ UNCHANGED <<vms, late>>
      BY <2>6, ExtendTtlRows, ReturnFacts DEF ExtendTtl
    <3> QED
      BY <2>1, <3>1 DEF GoneInv, NoVM, DestroyedLeaseHasNoVM
  <2>7. CASE ~ InsertLease(c) /\ ~ CreateVm(c) /\ ~ DeleteVm(c) /\ ~ MarkDestroyed(c)
             /\ ~ ExtendTtl(c)
    <3>1. UNCHANGED <<vms, late>> /\ SparesStatuses /\ call'[c].pc \notin {"create", "destroyed"}
      BY <1>1, <2>7, OtherCallSteps
    <3> QED
      BY <2>1, <3>1 DEF SparesStatuses, GoneInv, NoVM, DestroyedLeaseHasNoVM
  <2> QED
    BY <2>2, <2>3, <2>4, <2>5, <2>6, <2>7
<1>2. CASE ~ \E c \in Callers : CallStep(c)
  <2>1. /\ MakesLate /\ SparesStatuses
        /\ \A c \in Callers : call'[c] = call[c] \/ call'[c].pc = "idle"
    BY <1>2, OtherSteps
  <2>2. \A c \in Callers :
          call[c].pc \in {"create", "destroyed"} => call[c].inst \in Instances
    BY DEF CallTyped, NeedsInst, Rows
  <2>3. GoneInv'
    BY <2>1, <2>2 DEF MakesLate, NoVM, SparesStatuses, GoneInv
  <2>4. DestroyedLeaseHasNoVM'
    BY <2>1 DEF MakesLate, NoVM, SparesStatuses, DestroyedLeaseHasNoVM
  <2> QED
    BY <2>3, <2>4
<1> QED
  BY <1>1, <1>2

\* With one transport, a lease that destroy_instance reported destroyed has no
\* VM, wherever creations and earlier deletions failed or the server died, but
\* for one that a creation at work when its server died made after all.
THEOREM DestroyedIsGone ==
  ASSUME OneTransport
  PROVE  Spec => []DestroyedLeaseHasNoVM
<1>1. Init => GoneInv /\ DestroyedLeaseHasNoVM
  BY DEF Init, GoneInv, DestroyedLeaseHasNoVM, Idle
<1>2. TypeOK /\ GoneInv /\ DestroyedLeaseHasNoVM /\ [Next]_vars
        => GoneInv' /\ DestroyedLeaseHasNoVM'
  BY NextGone
<1> QED
  BY <1>1, <1>2, InitTypeOK, NextTypeOK, PTL DEF Spec

\* An extension starts from the expiry that the table has, or a later time.
LEMMA ExtendTtlGrows ==
  ASSUME TypeOK, ReadInv, NEW c \in Callers, ExtendTtl(c)
  PROVE  \A i \in Instances : lease[i].expires_at <= lease'[i].expires_at
<1> USE DEF TypeOK
<1> DEFINE i == call[c].inst
           read == call[c].rows[i].expires_at
           base == IF read >= now THEN read ELSE now
<1>1. i \in Instances /\ read = lease[i].expires_at
  BY DEF ExtendTtl, At, CallTyped, NeedsInst, Rows, ReadInv
<1>2. read \in Nat /\ base \in Nat /\ read <= base
  BY <1>1 DEF Row
<1>3. PICK ttl \in 1..MaxTTL : lease' = [lease EXCEPT ![i].expires_at = base + ttl]
  BY DEF ExtendTtl
<1>4. ttl \in Nat
  BY LeaseAssumption
<1> HIDE DEF base, read, i
<1>5. lease'[i].expires_at = base + ttl
  BY <1>1, <1>3 DEF Row
<1>6. \A j \in Instances \ {i} : lease'[j] = lease[j]
  BY <1>3
<1>7. \A j \in Instances : lease[j].expires_at \in Nat
  BY DEF Row
<1> QED
  BY <1>1, <1>2, <1>4, <1>5, <1>6, <1>7

\* With one transport, every step leaves an expiry or makes it later, and the
\* row that a call has read keeps telling the expiry.
LEMMA ReadStep ==
  ASSUME OneTransport, TypeOK, ReadInv, [Next]_vars
  PROVE  /\ ReadInv'
         /\ \A i \in Instances : lease[i].expires_at <= lease'[i].expires_at
<1> USE DEF TypeOK
<1>0. \A i \in Instances : lease[i].expires_at \in Nat
  BY DEF Row
<1>1. SameExpiries => \A i \in Instances : lease[i].expires_at <= lease'[i].expires_at
  BY <1>0 DEF SameExpiries
<1>2. ASSUME NEW c \in Callers, CallStep(c)
      PROVE  /\ ReadInv'
             /\ \A i \in Instances : lease[i].expires_at <= lease'[i].expires_at
  <2>1. /\ call[c] \in CallRecord /\ \A d \in Callers : d = c
        /\ call[c].pc \in NeedsInst => call[c].inst \in Instances
    BY DEF CallTyped, OneTransport, Rows
  <2>2. CASE InsertLease(c)
    <3>1. PICK i \in Instances \ Rows, ttl \in 1..MaxTTL :
            /\ lease' = [lease EXCEPT ![i] =
                           [status |-> "creating", expires_at |-> call[c].stamp + ttl]]
            /\ call' = [call EXCEPT ![c].pc = "create", ![c].inst = i]
      BY <2>2 DEF InsertLease
    <3>2. call[c].stamp + ttl \in Nat
      BY <2>1, LeaseAssumption DEF CallRecord
    <3>3. /\ call'[c].pc = "create"
          /\ lease[i].expires_at = 0 /\ lease'[i].expires_at = call[c].stamp + ttl
          /\ \A j \in Instances \ {i} : lease'[j] = lease[j]
      BY <2>1, <3>1 DEF CallTyped, CallRecord, Rows, NoRow
    <3> QED
      BY <1>0, <2>1, <3>2, <3>3 DEF ReadInv
  <2>3. CASE CreateVm(c) \/ DeleteVm(c) \/ MarkDestroyed(c)
    <3>1. SameExpiries
      BY <2>1, <2>3, StatusWritten
      DEF CreateVm, DeleteVm, MarkDestroyed, At, NeedsInst, SameExpiries
    <3>2. Return(c) \/ \E p \in {"start", "fail", "destroyed"} : Goto(c, p)
      BY <2>3 DEF CreateVm, DeleteVm, MarkDestroyed
    <3>3. call'[c].pc \notin {"resolve", "extend"}
      BY <3>2, GotoFacts, ReturnFacts
    <3> QED
      BY <1>1, <2>1, <3>1, <3>3 DEF ReadInv
  <2>4. CASE ExtendTtl(c)
    BY <2>1, <2>4, ExtendTtlGrows, ReturnFacts DEF ExtendTtl, ReadInv
  <2>5. CASE ~ InsertLease(c) /\ ~ CreateVm(c) /\ ~ DeleteVm(c) /\ ~ MarkDestroyed(c)
             /\ ~ ExtendTtl(c)
    <3>1. /\ SameExpiries
          /\ call'[c].pc \in {"resolve", "extend"} =>
               \/ call[c].pc = "resolve" /\ call'[c].inst = call[c].inst
                                         /\ call'[c].rows = call[c].rows
               \/ call'[c].rows[call'[c].inst] = lease[call'[c].inst]
      BY <1>2, <2>5, OtherCallSteps
    <3>2. call'[c].pc \in {"resolve", "extend"} => call'[c].inst \in Instances
      <4>1. CallTyped'
        BY NextTypeOK
      <4> QED
        BY <4>1, NextTypeOK DEF CallTyped, NeedsInst, Rows
    <3> QED
      BY <1>1, <2>1, <3>1, <3>2 DEF ReadInv, SameExpiries
  <2> QED
    BY <2>2, <2>3, <2>4, <2>5
<1>3. CASE ~ \E c \in Callers : CallStep(c)
  <2>1. /\ SameExpiries
        /\ \A c \in Callers : call'[c] = call[c] \/ call'[c].pc = "idle"
    BY <1>3, OtherSteps
  <2>2. \A c \in Callers : call[c].pc \in {"resolve", "extend"} => call[c].inst \in Instances
    BY DEF CallTyped, NeedsInst, Rows
  <2> QED
    BY <1>1, <2>1, <2>2 DEF SameExpiries, ReadInv
<1> QED
  BY <1>2, <1>3

\* With one transport, no step brings the expiry of a lease forward: neither an
\* extension, which counts from what it read, nor a status written meanwhile.
THEOREM ExpiriesGrow ==
  ASSUME OneTransport
  PROVE  Spec => ExpiryNeverShrinks
<1> DEFINE Step == \A i \in Instances : lease[i].expires_at <= lease'[i].expires_at
<1>1. Init => ReadInv
  BY DEF Init, ReadInv, Idle
<1>2. TypeOK /\ ReadInv /\ [Next]_vars => ReadInv' /\ [Step]_vars
  BY ReadStep
<1>3. [][Step]_vars => ExpiryNeverShrinks
  BY PTL DEF ExpiryNeverShrinks
<1> QED
  BY <1>1, <1>2, <1>3, InitTypeOK, NextTypeOK, PTL DEF Spec

=============================================================================
