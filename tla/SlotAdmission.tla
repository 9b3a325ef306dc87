---------------------------- MODULE SlotAdmission ----------------------------
(***************************************************************************)
(* What the lease store promises about host slots, with none of the        *)
(* machinery: an instance is admitted once, while fewer than Limit hold a  *)
(* slot; slots are given back in any number at a time; and an instance     *)
(* that gave its slot back never holds one again.                          *)
(***************************************************************************)
EXTENDS Naturals, FiniteSets

CONSTANTS Instances, Limit

VARIABLES
  held,  \* the instances that hold a slot, or may still be given theirs back
  known  \* the instances ever admitted

Init == held = {} /\ known = {}

Admit(i) ==
  /\ i \notin known
  /\ Cardinality(held) < Limit
  /\ held' = held \cup {i}
  /\ known' = known \cup {i}

Release ==
  /\ held' \subseteq held
  /\ known' = known

Next == (\E i \in Instances : Admit(i)) \/ Release

Spec == Init /\ [][Next]_<<held, known>>

=============================================================================
