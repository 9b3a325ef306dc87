------------------------ MODULE LeaseAdmissionProofs ------------------------
(***************************************************************************)
(* The instance limit.  The count and the insert of create_instance are    *)
(* not atomic, so the limit itself is not kept; what is kept counts, next  *)
(* to the active leases, every caller between its count and its insert and *)
(* every lease a call in progress may still put back among the active.     *)
(***************************************************************************)
EXTENDS LeaseLifecycleProofs

USE DEF ACTIVE_STATUSES, TERMINAL_STATUSES, Statuses

-----------------------------------------------------------------------------
(* What a step does to the call of the caller that takes it.                *)

LEMMA GotoFacts ==
  ASSUME CallTyped, NEW c \in Callers, NEW p, Goto(c, p)
  PROVE  /\ call'[c].pc = p /\ call'[c].op = call[c].op
         /\ call'[c].inst = call[c].inst /\ call'[c].rows = call[c].rows
         /\ \A d \in Callers \ {c} : call'[d] = call[d]
  BY DEF Goto, CallTyped, CallRecord

LEMMA ReturnFacts ==
  ASSUME CallTyped, NEW c \in Callers, Return(c)
  PROVE  /\ call'[c].pc = "idle" /\ call'[c].op = "none"
         /\ \A d \in Callers \ {c} : call'[d] = call[d]
  BY DEF Return, CallTyped, Idle

-----------------------------------------------------------------------------
(* Four facts about a step are enough for it to admit nothing.              *)

\* No call becomes a creator, or the extender of a lease whose time is up.
NoNewHolders ==
  /\ \A d \in Callers, i \in Instances : Creates(d, i)' => Creates(d, i)
  /\ \A d \in Callers, i \in Instances :
       Extends(d, i)' => Extends(d, i) \/ ~ is_expired(lease[i])

\* A lease becomes active, or alive again, only by the hand of one of these.
NoNewLeases ==
  /\ \A i \in Instances :
       lease'[i].status \in ACTIVE_STATUSES =>
         lease[i].status \in ACTIVE_STATUSES \/ \E d \in Callers : Creates(d, i)
  /\ \A i \in Instances :
       ~ is_expired(lease[i])' =>
         ~ is_expired(lease[i]) \/ \E d \in Callers : Extends(d, i)

LEMMA Shrinks ==
  ASSUME NoNewHolders, NoNewLeases
  PROVE  Admitted' \subseteq Admitted
<1> SUFFICES ASSUME NEW i \in Instances, i \in Admitted'
             PROVE  i \in Admitted
  BY DEF Admitted
<1>1. CASE \E d \in Callers : Creates(d, i)'
  BY <1>1 DEF NoNewHolders, Admitted
<1>2. CASE \E d \in Callers : Creates(d, i)
  BY <1>2 DEF Admitted
<1>3. CASE /\ ~ \E d \in Callers : Creates(d, i)' \/ Creates(d, i)
  <2>1. /\ lease'[i].status \in ACTIVE_STATUSES
        /\ ~ is_expired(lease[i])' \/ \E d \in Callers : Extends(d, i)'
    BY <1>3 DEF Admitted
  <2>2. lease[i].status \in ACTIVE_STATUSES
    BY <1>3, <2>1 DEF NoNewLeases
  <2>3. ~ is_expired(lease[i]) \/ \E d \in Callers : Extends(d, i)
    BY <2>1 DEF NoNewHolders, NoNewLeases
  <2> QED
    BY <2>2, <2>3 DEF Admitted
<1> QED
  BY <1>1, <1>2, <1>3

\* A status written that is not active, or by the creator, brings no lease
\* back; and it changes no expiry.
LEMMA UpdateStatusLeases ==
  ASSUME lease \in [Instances -> Row], now' = now, NEW i \in Instances, NEW s,
         s \notin ACTIVE_STATUSES \/ \E d \in Callers : Creates(d, i),
         update_status(i, s)
  PROVE  NoNewLeases
<1>1. \A j \in Instances : j # i => lease'[j] = lease[j]
  BY DEF update_status
<1>2. lease'[i].status = s /\ lease'[i].expires_at = lease[i].expires_at
  BY DEF update_status, Row
<1> QED
  BY <1>1, <1>2 DEF NoNewLeases, is_expired

LEMMA SameLeases ==
  ASSUME UNCHANGED <<lease, now>>
  PROVE  NoNewLeases
  BY DEF NoNewLeases, is_expired

LEMMA SameCalls ==
  ASSUME UNCHANGED <<call, now>>
  PROVE  NoNewHolders /\ Admitting' = Admitting
  BY DEF NoNewHolders, Creates, Extends, is_expired, Admitting, At

\* A caller that returns, or moves to a place other than the extension, its
\* insert or - unless it is there already - the creation, holds no more.
LEMMA ReturnHolders ==
  ASSUME CallTyped, now' = now, NEW c \in Callers, Return(c)
  PROVE  NoNewHolders /\ Admitting' \subseteq Admitting
  BY ReturnFacts DEF NoNewHolders, Creates, Extends, is_expired, Admitting, At

LEMMA GotoHolders ==
  ASSUME CallTyped, now' = now, NEW c \in Callers, NEW p, Goto(c, p),
         p \notin {"insert", "resolve", "extend"},
         p \in {"create", "start", "publish"} =>
           call[c].pc \in {"create", "start", "publish"}
  PROVE  NoNewHolders /\ Admitting' \subseteq Admitting
  BY GotoFacts DEF NoNewHolders, Creates, Extends, is_expired, Admitting, At

-----------------------------------------------------------------------------
(* Every step counts, inserts, or admits nothing.                           *)

Counts(c) ==
  /\ Cardinality(count_active) < MaxInstances
  /\ call[c].pc = "idle"
  /\ Admitting' = Admitting \cup {c}
  /\ Admitted' \subseteq Admitted /\ Rows' = Rows

Inserts(c, i) ==
  /\ i \notin Rows
  /\ c \in Admitting /\ Admitting' = Admitting \ {c}
  /\ Admitted' = Admitted \cup {i} /\ Rows' = Rows \cup {i}

AdmitsNothing ==
  /\ Admitting' \subseteq Admitting
  /\ Admitted' \subseteq Admitted /\ Rows' = Rows

LEMMA CountStep ==
  ASSUME TypeOK, NEW c \in Callers, CountActive(c)
  PROVE  Counts(c)
<1> USE DEF TypeOK
<1>1. /\ call'[c].pc = "insert" /\ call'[c].op = "create"
      /\ \A d \in Callers \ {c} : call'[d] = call[d]
  BY DEF CountActive, CallTyped, Idle
<1>2. NoNewHolders
  BY <1>1 DEF CountActive, NoNewHolders, Creates, Extends, is_expired
<1>3. Admitted' \subseteq Admitted
  BY <1>2, SameLeases, Shrinks DEF CountActive
<1>4. Admitting' = Admitting \cup {c}
  BY <1>1 DEF Admitting, At
<1> QED
  BY <1>3, <1>4 DEF Counts, CountActive, Rows

LEMMA InsertStep ==
  ASSUME TypeOK, NEW c \in Callers, InsertLease(c)
  PROVE  \E i \in Instances : Inserts(c, i)
<1> USE DEF TypeOK
<1>1. PICK i \in Instances \ Rows, ttl \in 1..MaxTTL :
        /\ lease' = [lease EXCEPT ![i] =
                       [status |-> "creating", expires_at |-> call[c].stamp + ttl]]
        /\ call' = [call EXCEPT ![c].pc = "create", ![c].inst = i]
  BY DEF InsertLease
<1>2. /\ call[c].op = "create" /\ call[c].pc = "insert"
      /\ call'[c].op = "create" /\ call'[c].pc = "create" /\ call'[c].inst = i
      /\ \A d \in Callers \ {c} : call'[d] = call[d]
  BY <1>1 DEF InsertLease, At, CallTyped, CallRecord
<1>3. \A j \in Instances \ {i} : lease'[j] = lease[j]
  BY <1>1
<1>4. lease[i] = NoRow /\ lease'[i] # NoRow
  BY <1>1 DEF Rows, NoRow
<1>5. Admitting' = Admitting \ {c} /\ c \in Admitting
  BY <1>2 DEF Admitting, At
<1>6. now' = now
  BY DEF InsertLease
<1>7. /\ \A d \in Callers, j \in Instances \ {i} : Creates(d, j)' <=> Creates(d, j)
      /\ \A d \in Callers, j \in Instances \ {i} : Extends(d, j)' <=> Extends(d, j)
      /\ Creates(c, i)'
  BY <1>2, <1>6 DEF Creates, Extends, is_expired
<1>8. Admitted' = Admitted \cup {i}
  BY <1>3, <1>6, <1>7 DEF Admitted, is_expired
<1>9. Rows' = Rows \cup {i}
  BY <1>3, <1>4 DEF Rows
<1> QED
  BY <1>1, <1>5, <1>8, <1>9 DEF Inserts

\* The steps of a call that admit nothing.
LEMMA CallAdmitsNothing ==
  ASSUME TypeOK, NEW c \in Callers, CallStep(c),
         ~ CountActive(c), ~ InsertLease(c)
  PROVE  AdmitsNothing
<1> USE DEF TypeOK
<1>0. lease' = lease => Rows' = Rows
  BY DEF Rows
<1> SUFFICES /\ now' = now /\ Rows' = Rows
             /\ NoNewHolders /\ NoNewLeases /\ Admitting' \subseteq Admitting
  BY Shrinks DEF AdmitsNothing
<1>1. call[c] \in CallRecord
  BY DEF CallTyped
<1>2. call[c].pc \in NeedsInst => call[c].inst \in Rows /\ call[c].inst \in Instances
  BY DEF CallTyped, Rows
<1>3. CASE RefuseForCapacity(c)
  BY <1>0, <1>3, ReturnHolders, SameLeases DEF RefuseForCapacity
<1>4. CASE CreateVm(c)
  <2>1. Goto(c, "start") \/ Goto(c, "fail")
    BY <1>4 DEF CreateVm
  <2> QED
    BY <1>0, <1>4, <2>1, GotoHolders, SameLeases DEF CreateVm, At
<1>5. CASE StartVm(c)
  <2>1. Goto(c, "publish") \/ Goto(c, "fail")
    BY <1>5 DEF StartVm
  <2> QED
    BY <1>0, <1>5, <2>1, GotoHolders, SameLeases DEF StartVm, At
<1>6. CASE PublishRunning(c)
  <2>1. Creates(c, call[c].inst) /\ call[c].inst \in Rows /\ call[c].inst \in Instances
    BY <1>2, <1>6 DEF PublishRunning, At, Creates, NeedsInst
  <2>2. NoNewLeases /\ Rows' = Rows
    BY <1>6, <2>1, UpdateStatus, UpdateStatusLeases DEF PublishRunning
  <2>3. Goto(c, "bootstrap") \/ Return(c)
    BY <1>6 DEF PublishRunning
  <2> QED
    BY <1>6, <2>2, <2>3, GotoHolders, ReturnHolders DEF PublishRunning
<1>7. CASE BootstrapLookup(c)
  <2>1. /\ call'[c].op = "create" /\ call'[c].pc = "resolve"
        /\ \A d \in Callers \ {c} : call'[d] = call[d]
    BY <1>1, <1>7 DEF BootstrapLookup, At, CallTyped, CallRecord
  <2>2. NoNewHolders /\ Admitting' \subseteq Admitting
    BY <1>7, <2>1 DEF BootstrapLookup, NoNewHolders, Creates, Extends, is_expired, Admitting, At
  <2> QED
    BY <1>0, <1>7, <2>2, SameLeases DEF BootstrapLookup
<1>8. CASE MarkError(c)
  <2>1. call[c].inst \in Rows /\ call[c].inst \in Instances
    BY <1>2, <1>8 DEF MarkError, At, NeedsInst
  <2>2. NoNewLeases /\ Rows' = Rows
    BY <1>8, <2>1, UpdateStatus, UpdateStatusLeases DEF MarkError
  <2> QED
    BY <1>8, <2>2, ReturnHolders DEF MarkError
<1>9. CASE \E i \in Instances, tool \in {"use", "extend"} : Lookup(c, i, tool)
  <2>1. PICK i \in Instances, tool \in {"use", "extend"} : Lookup(c, i, tool)
    BY <1>9
  <2>2. /\ call'[c].op = tool /\ call'[c].pc = "resolve"
        /\ call'[c].inst = i /\ call'[c].rows = Select({i})
        /\ \A d \in Callers \ {c} : call'[d] = call[d]
    BY <2>1 DEF Lookup, CallTyped, Idle
  <2>3. Select({i})[i] = lease[i]
    BY DEF Select
  <2>4. NoNewHolders /\ Admitting' \subseteq Admitting
    BY <2>1, <2>2, <2>3
    DEF Lookup, NoNewHolders, Creates, Extends, is_expired, Admitting, At
  <2> QED
    BY <1>0, <2>1, <2>4, SameLeases DEF Lookup
<1>10. CASE Resolve(c)
  <2>1. call[c].inst \in Rows /\ call[c].inst \in Instances
    BY <1>2, <1>10 DEF Resolve, NeedsInst
  <2>2. now' = now /\ (lease' = lease \/ update_status(call[c].inst, "expired"))
    BY <1>10 DEF Resolve
  <2>3. NoNewLeases /\ Rows' = Rows
    BY <1>0, <2>1, <2>2, UpdateStatus, UpdateStatusLeases, SameLeases
  <2>4. CASE Return(c)
    BY <2>2, <2>3, <2>4, ReturnHolders
  <2>5. CASE Goto(c, "use")
    BY <2>2, <2>3, <2>5, GotoHolders
  <2>6. CASE Goto(c, "extend") /\ ~ Return(c)
    <3>1. call[c].pc = "resolve" /\ ~ is_expired(call[c].rows[call[c].inst])
      BY <1>10, <2>6 DEF Resolve
    <3>2. NoNewHolders /\ Admitting' \subseteq Admitting
      BY <2>2, <2>6, <3>1, GotoFacts
      DEF NoNewHolders, Creates, Extends, is_expired, Admitting, At
    <3> QED
      BY <2>2, <2>3, <3>2
  <2> QED
    BY <1>10, <2>4, <2>5, <2>6 DEF Resolve
<1>11. CASE Use(c)
  BY <1>0, <1>11, GotoHolders, ReturnHolders, SameLeases DEF Use
<1>12. CASE ExtendTtl(c)
  <2>1. /\ Rows' = Rows /\ now' = now
        /\ \A j \in Instances : /\ lease'[j].status = lease[j].status
                                /\ j # call[c].inst => lease'[j] = lease[j]
    BY <1>12, ExtendTtlRows DEF ExtendTtl
  <2>2. Extends(c, call[c].inst)
    BY <1>12 DEF ExtendTtl, At, Extends
  <2>3. NoNewLeases
    BY <2>1, <2>2 DEF NoNewLeases, is_expired
  <2> QED
    BY <1>12, <2>1, <2>3, ReturnHolders DEF ExtendTtl
<1>13. CASE \E i \in Instances : BeginDestroy(c, i)
  <2>1. /\ call'[c].op = "destroy" /\ UNCHANGED <<now, lease>>
        /\ \A d \in Callers \ {c} : call'[d] = call[d]
    BY <1>13 DEF BeginDestroy, CallTyped, Idle
  <2>2. NoNewHolders /\ Admitting' \subseteq Admitting
    BY <2>1 DEF NoNewHolders, Creates, Extends, is_expired, Admitting, At
  <2> QED
    BY <1>0, <2>1, <2>2, SameLeases
<1>14. CASE StopVm(c)
  BY <1>0, <1>14, GotoHolders, ReturnHolders, SameLeases DEF StopVm
<1>15. CASE DeleteVm(c)
  <2>1. Goto(c, "destroyed") \/ Return(c)
    BY <1>15 DEF DeleteVm
  <2> QED
    BY <1>0, <1>15, <2>1, GotoHolders, ReturnHolders, SameLeases DEF DeleteVm
<1>16. CASE MarkDestroyed(c)
  <2>1. call[c].inst \in Rows /\ call[c].inst \in Instances
    BY <1>2, <1>16 DEF MarkDestroyed, At, NeedsInst
  <2>2. NoNewLeases /\ Rows' = Rows
    BY <1>16, <2>1, UpdateStatus, UpdateStatusLeases DEF MarkDestroyed
  <2> QED
    BY <1>16, <2>2, ReturnHolders DEF MarkDestroyed
<1>17. CASE BeginList(c)
  <2>1. /\ call'[c].op = "list" /\ UNCHANGED <<now, lease>>
        /\ \A d \in Callers \ {c} : call'[d] = call[d]
    BY <1>17 DEF BeginList, CallTyped, Idle
  <2>2. NoNewHolders /\ Admitting' \subseteq Admitting
    BY <2>1 DEF NoNewHolders, Creates, Extends, is_expired, Admitting, At
  <2> QED
    BY <1>0, <2>1, <2>2, SameLeases
<1>18. CASE NormalizeNext(c)
  <2>1. PICK i \in Listed(call[c].rows) :
          /\ IF is_stale(call[c].rows[i]) THEN update_status(i, "expired")
                                          ELSE UNCHANGED lease
          /\ IF Listed(call[c].rows) = {i}
               THEN Return(c)
               ELSE call' = [call EXCEPT ![c].rows[i] = NoRow]
    BY <1>18 DEF NormalizeNext
  <2>2. i \in Rows /\ i \in Instances
    BY DEF CallTyped, Listed
  <2>3. now' = now
    BY <1>18 DEF NormalizeNext
  <2>4. NoNewLeases /\ Rows' = Rows
    BY <1>0, <2>1, <2>2, <2>3, UpdateStatus, UpdateStatusLeases, SameLeases
  <2>5. ASSUME call' = [call EXCEPT ![c].rows[i] = NoRow]
        PROVE  NoNewHolders /\ Admitting' \subseteq Admitting
    <3>1. /\ call'[c].op = "list"
          /\ \A d \in Callers \ {c} : call'[d] = call[d]
      BY <1>1, <1>18, <2>5 DEF NormalizeNext, At, CallTyped, CallRecord
    <3> QED
      BY <2>3, <3>1 DEF NoNewHolders, Creates, Extends, is_expired, Admitting, At
  <2> QED
    BY <2>1, <2>3, <2>4, <2>5, ReturnHolders
<1> QED
  BY <1>3, <1>4, <1>5, <1>6, <1>7, <1>8, <1>9, <1>10, <1>11, <1>12, <1>13,
     <1>14, <1>15, <1>16, <1>17, <1>18 DEF CallStep

\* The whole next-state relation.
LEMMA StepKinds ==
  ASSUME TypeOK, [Next]_vars
  PROVE  \/ \E c \in Callers : Counts(c)
         \/ \E c \in Callers, i \in Instances : Inserts(c, i)
         \/ AdmitsNothing
<1> USE DEF TypeOK
<1>0. lease' = lease => Rows' = Rows
  BY DEF Rows
<1>1. CASE \E c \in Callers : CallStep(c)
  BY <1>1, CountStep, InsertStep, CallAdmitsNothing
<1>2. CASE SweepSelect \/ SweepStop \/ SweepDelete \/ LateCommand
  <2>1. UNCHANGED <<now, lease, call>>
    BY <1>2 DEF SweepSelect, SweepStop, SweepDelete, LateCommand
  <2> QED
    BY <1>0, <2>1, SameLeases, SameCalls, Shrinks DEF AdmitsNothing
<1>3. CASE SweepMark
  <2>1. sweep.inst \in Rows /\ sweep.inst \in Instances
    BY <1>3 DEF SweepMark, SweepTyped, Rows
  <2>2. NoNewLeases /\ Rows' = Rows
    BY <1>3, <2>1, UpdateStatus, UpdateStatusLeases DEF SweepMark
  <2> QED
    BY <1>3, <2>2, SameCalls, Shrinks DEF AdmitsNothing, SweepMark
<1>4. CASE Tick
  <2>1. now' = now + 1 /\ UNCHANGED <<lease, call>>
    BY <1>4 DEF Tick
  <2>2. \A t \in Nat : t <= now => t <= now'
    BY <2>1
  <2>3. \A d \in Callers, i \in Instances : call[d].rows[i].expires_at \in Nat
    BY DEF CallTyped, CallRecord, Row
  <2>4. \A i \in Instances : lease[i].expires_at \in Nat
    BY DEF Row
  <2>5. NoNewHolders
    BY <2>1, <2>2, <2>3 DEF NoNewHolders, Creates, Extends, is_expired
  <2>6. NoNewLeases
    BY <2>1, <2>2, <2>4 DEF NoNewLeases, is_expired
  <2>7. Admitting' = Admitting
    BY <2>1 DEF Admitting, At
  <2> QED
    BY <1>0, <2>1, <2>5, <2>6, <2>7, Shrinks DEF AdmitsNothing
<1>5. CASE Restart
  <2>1. \A d \in Callers : call'[d].op = "none"
    BY <1>5 DEF Restart, Idle
  <2>2. NoNewHolders /\ Admitting' \subseteq Admitting
    BY <2>1 DEF NoNewHolders, Creates, Extends, Admitting, At
  <2> QED
    BY <1>0, <1>5, <2>2, SameLeases, Shrinks DEF AdmitsNothing, Restart
<1>6. CASE UNCHANGED vars
  BY <1>0, <1>6, SameLeases, SameCalls, Shrinks DEF AdmitsNothing, vars
<1> QED
  BY <1>1, <1>2, <1>3, <1>4, <1>5, <1>6 DEF Next, Sweep

-----------------------------------------------------------------------------
(* Counting.                                                                *)

LEMMA Finite ==
  /\ IsFiniteSet(Admitted) /\ Cardinality(Admitted) \in Nat
  /\ IsFiniteSet(Admitting) /\ Cardinality(Admitting) \in Nat
  /\ IsFiniteSet(count_active) /\ Cardinality(count_active) \in Nat
  /\ Cardinality(Callers) \in Nat /\ Cardinality(Callers) > 0
  /\ Limit \in Nat
<1>1. Admitted \in SUBSET Instances /\ count_active \in SUBSET Instances
  BY DEF Admitted, count_active
<1>2. Admitting \in SUBSET Callers
  BY DEF Admitting
<1>3. Cardinality(Callers) \in Nat /\ Cardinality(Callers) > 0
  BY FS_CardinalityType, FS_EmptySet, LeaseAssumption
<1>4. Limit \in Nat
  BY <1>3, LeaseAssumption DEF Limit
<1> QED
  BY <1>1, <1>2, <1>3, <1>4, FS_Subset, FS_CardinalityType, LeaseAssumption

\* Each caller at work accounts for at most one instance that is admitted
\* without being active.
LEMMA HoldersBound ==
  ASSUME NEW c \in Callers, call[c].pc = "idle"
  PROVE  Cardinality(Admitted) + Cardinality(Admitting)
           <= Cardinality(count_active) + Cardinality(Callers) - 1
<1> DEFINE Busy == {d \in Callers \ {c} : ~ At(d, "create", "insert")}
           Held == {call[d].inst : d \in Busy}
<1>1. Admitted \subseteq count_active \cup Held
  <2> SUFFICES ASSUME NEW i \in Admitted, i \notin count_active
               PROVE  i \in Held
    OBVIOUS
  <2>1. PICK d \in Callers : Creates(d, i) \/ Extends(d, i)
    BY DEF Admitted, count_active
  <2>2. CASE Creates(d, i)
    <3>1. d # c /\ call[d].inst = i /\ ~ At(d, "create", "insert")
      BY <2>2 DEF Creates, At
    <3> QED
      BY <3>1
  <2>3. CASE Extends(d, i)
    <3>1. d # c /\ call[d].inst = i /\ ~ At(d, "create", "insert")
      BY <2>3 DEF Extends, At
    <3> QED
      BY <3>1
  <2> QED
    BY <2>1, <2>2, <2>3
<1>2. IsFiniteSet(Busy) /\ IsFiniteSet(Callers \ {c})
  BY FS_Subset, LeaseAssumption
<1>3. IsFiniteSet(Held) /\ Cardinality(Held) <= Cardinality(Busy)
  <2> DEFINE f == [d \in Busy |-> call[d].inst]
  <2>1. f \in Surjection(Busy, Held)
    BY DEF Surjection
  <2> QED
    BY <1>2, <2>1, FS_Surjection
<1>4. Cardinality(Admitted) <= Cardinality(count_active) + Cardinality(Busy)
  <2>1. /\ IsFiniteSet(count_active \cup Held)
        /\ Cardinality(count_active \cup Held) =
             Cardinality(count_active) + Cardinality(Held)
               - Cardinality(count_active \cap Held)
    BY <1>3, Finite, FS_Union
  <2>2. Cardinality(count_active \cap Held) \in Nat
    BY <1>3, FS_Intersection, FS_CardinalityType
  <2>3. Cardinality(Held) \in Nat /\ Cardinality(Busy) \in Nat
    BY <1>2, <1>3, FS_CardinalityType
  <2>4. Cardinality(Admitted) <= Cardinality(count_active \cup Held)
    BY <1>1, <2>1, FS_Subset
  <2> HIDE DEF Held, Busy
  <2> QED
    BY <1>3, <2>1, <2>2, <2>3, <2>4, Finite
<1>5. Cardinality(Busy) + Cardinality(Admitting) = Cardinality(Callers) - 1
  <2>1. Admitting \subseteq Callers \ {c}
    BY DEF Admitting, At
  <2>2. Busy = (Callers \ {c}) \ Admitting
    BY DEF Admitting
  <2>3. Cardinality(Callers \ {c}) = Cardinality(Callers) - 1
    BY FS_RemoveElement, LeaseAssumption
  <2>4. Cardinality(Busy) = Cardinality(Callers \ {c})
                              - Cardinality((Callers \ {c}) \cap Admitting)
    BY <1>2, <2>2, FS_Difference
  <2>5. (Callers \ {c}) \cap Admitting = Admitting
    BY <2>1
  <2> HIDE DEF Busy
  <2> QED
    BY <2>3, <2>4, <2>5, Finite
<1>6. Cardinality(Busy) \in Nat
  BY <1>2, FS_CardinalityType
<1> HIDE DEF Busy
<1> QED
  BY <1>4, <1>5, <1>6, Finite

LEMMA InitAdmissionBound == Init => AdmissionBound
<1> SUFFICES ASSUME Init PROVE AdmissionBound
  OBVIOUS
<1>1. Admitting = {}
  BY DEF Init, Admitting, At, Idle
<1>2. Admitted = {}
  BY DEF Init, Admitted, Creates, Extends, Idle, NoRows, NoRow
<1> QED
  BY <1>1, <1>2, Finite, FS_EmptySet DEF AdmissionBound

LEMMA NextAdmissionBound == TypeOK /\ AdmissionBound /\ [Next]_vars => AdmissionBound'
<1> SUFFICES ASSUME TypeOK, AdmissionBound, [Next]_vars
             PROVE  AdmissionBound'
  OBVIOUS
<1>0. Limit' = Limit
  BY DEF Limit
<1>1. ASSUME NEW c \in Callers, Counts(c)
      PROVE  AdmissionBound'
  <2>1. Cardinality(Admitted') <= Cardinality(Admitted)
    BY <1>1, Finite, FS_Subset DEF Counts
  <2>2. Cardinality(Admitting') = Cardinality(Admitting) + 1
    BY <1>1, Finite, FS_AddElement DEF Counts, Admitting, At
  <2>3. /\ Cardinality(Admitted) + Cardinality(Admitting)
             <= Cardinality(count_active) + Cardinality(Callers) - 1
        /\ Cardinality(count_active) < MaxInstances
    BY <1>1, HoldersBound DEF Counts
  <2>4. Cardinality(Admitted') \in Nat
    BY <1>1, Finite, FS_Subset, FS_CardinalityType DEF Counts
  <2> QED
    BY <1>0, <2>1, <2>2, <2>3, <2>4, Finite, LeaseAssumption DEF AdmissionBound, Limit
<1>2. ASSUME NEW c \in Callers, NEW i \in Instances, Inserts(c, i)
      PROVE  AdmissionBound'
  <2>1. /\ Cardinality(Admitted \cup {i}) <= Cardinality(Admitted) + 1
        /\ Cardinality(Admitted \cup {i}) \in Nat
    <3> DEFINE n == Cardinality(Admitted)
    <3>1. Cardinality(Admitted \cup {i}) = IF i \in Admitted THEN n ELSE n + 1
      BY Finite, FS_AddElement
    <3>2. n \in Nat
      BY Finite
    <3> HIDE DEF n
    <3> QED
      BY <3>1, <3>2 DEF n
  <2>2. Cardinality(Admitting') = Cardinality(Admitting) - 1
    BY <1>2, Finite, FS_RemoveElement DEF Inserts
  <2> QED
    BY <1>0, <1>2, <2>1, <2>2, Finite DEF AdmissionBound, Inserts
<1>3. ASSUME AdmitsNothing
      PROVE  AdmissionBound'
  <2>1. /\ Cardinality(Admitted') <= Cardinality(Admitted)
        /\ Cardinality(Admitting') <= Cardinality(Admitting)
        /\ Cardinality(Admitted') \in Nat /\ Cardinality(Admitting') \in Nat
    BY <1>3, Finite, FS_Subset, FS_CardinalityType DEF AdmitsNothing
  <2> QED
    BY <1>0, <2>1, Finite DEF AdmissionBound
<1> QED
  BY <1>1, <1>2, <1>3, StepKinds

\* The sum of the instances that hold a slot or may get theirs back and of
\* the callers about to insert one never exceeds the limit by more than the
\* number of callers less one.
THEOREM AdmissionBounded == Spec => []AdmissionBound
  BY InitTypeOK, NextTypeOK, InitAdmissionBound, NextAdmissionBound, PTL DEF Spec

\* So the active instances exceed MAX_INSTANCES by at most that number, and
\* with one transport not at all.
THEOREM OvershootBounded == Spec => []OvershootBound
<1>1. AdmissionBound => OvershootBound
  <2>1. count_active \in SUBSET Admitted
    BY DEF count_active, Admitted
  <2>2. Cardinality(count_active) <= Cardinality(Admitted)
    BY <2>1, Finite, FS_Subset
  <2> QED
    BY <2>2, Finite DEF AdmissionBound, OvershootBound
<1> QED
  BY <1>1, AdmissionBounded, PTL

-----------------------------------------------------------------------------
(* Refinement.                                                              *)

\* Every step of the service is an admission while there is room, a release
\* or a stutter of SlotAdmission: an instance that left its slot never holds
\* one again, whatever the calls in progress still write.
THEOREM ImplementsAdmission == Spec => AdmissionSpec
<1>1. Init => Admission!Init
  BY DEF Init, Admission!Init, Admitted, Creates, Extends, Idle, Rows, NoRows, NoRow
<1>2. TypeOK /\ AdmissionBound /\ [Next]_vars => [Admission!Next]_<<Admitted, Rows>>
  <2> SUFFICES ASSUME TypeOK, AdmissionBound, [Next]_vars
               PROVE  Admission!Next
    OBVIOUS
  <2>1. ASSUME NEW c \in Callers, NEW i \in Instances, Inserts(c, i)
        PROVE  Admission!Next
    <3>1. Cardinality(Admitting) > 0
      BY <2>1, Finite, FS_EmptySet DEF Inserts
    <3>2. Cardinality(Admitted) < Limit
      BY <3>1, Finite DEF AdmissionBound
    <3>3. Admission!Admit(i)
      BY <2>1, <3>2 DEF Inserts, Admission!Admit, Cardinality, Admission!Cardinality
    <3> QED
      BY <3>3 DEF Admission!Next
  <2>2. ASSUME NEW c \in Callers, Counts(c)
        PROVE  Admission!Next
    BY <2>2 DEF Counts, Admission!Next, Admission!Release
  <2>3. ASSUME AdmitsNothing
        PROVE  Admission!Next
    BY <2>3 DEF AdmitsNothing, Admission!Next, Admission!Release
  <2> QED
    BY <2>1, <2>2, <2>3, StepKinds
<1> QED
  BY <1>1, <1>2, TypeCorrect, AdmissionBounded, PTL DEF Spec, AdmissionSpec, Admission!Spec

=============================================================================
