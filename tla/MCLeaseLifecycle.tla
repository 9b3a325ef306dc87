-------------------------- MODULE MCLeaseLifecycle --------------------------
(* The constants of the runs of LeaseLifecycle: instances and callers are   *)
(* interchangeable, so the safety runs use their permutations as symmetry.  *)
EXTENDS LeaseLifecycle, TLC

AllTools == {"create", "use", "extend", "destroy", "list"}
AllFaults == {"create", "start", "use", "stop", "delete"}

Symmetry == Permutations(Instances) \cup Permutations(Callers)

=============================================================================
