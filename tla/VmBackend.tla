------------------------------ MODULE VmBackend ------------------------------
(***************************************************************************)
(* What the service takes a backend for, whichever it is: commands on one  *)
(* virtual machine.  A command is given, has its effect at some moment and *)
(* is answered; an answer ok says that the machine was where the command   *)
(* brings it at some moment between the two, an error says nothing.  What  *)
(* was deleted may still be there as a machine without a disk, which       *)
(* nothing can start.  A command whose caller died may have its effect at  *)
(* any later time.                                                         *)
(***************************************************************************)
CONSTANT Clients   \* who gives commands

VARIABLES
  vm,         \* the machine: absent, off, running, or hollow: off, no disk
  command,    \* per client, the command under way or answered
  abandoned   \* commands that outlived their caller

vars == <<vm, command, abandoned>>

Ops == {"create", "start", "stop", "delete"}
NoCommand == [op |-> "none", done |-> FALSE, answer |-> "none"]

Init ==
  /\ vm = "absent"
  /\ command = [c \in Clients |-> NoCommand]
  /\ abandoned = {}

Open(c) == command[c].op # "none" /\ command[c].answer = "none"

\* Deleting takes a running machine down first, then it and its disk.
Effect(op) ==
  \/ op = "create" /\ vm = "absent" /\ vm' = "off"
  \/ op = "start" /\ vm = "off" /\ vm' = "running"
  \/ op \in {"stop", "delete"} /\ vm = "running" /\ vm' = "off"
  \/ op = "delete" /\ vm = "off" /\ vm' = "hollow"
  \/ op = "delete" /\ vm \in {"off", "hollow"} /\ vm' = "absent"

\* Stopping promises nothing.  Creating is to create the machine itself.
Reached(op, state) ==
  \/ op = "start" /\ state = "running"
  \/ op = "delete" /\ state \in {"absent", "hollow"}
  \/ op = "stop"

\* A client that has an answer may give its next command at once.
Give(c, op) ==
  /\ ~ Open(c)
  /\ command' = [command EXCEPT ![c] = [NoCommand EXCEPT !.op = op]]
  /\ UNCHANGED <<vm, abandoned>>

Act(c) ==
  /\ Open(c)
  /\ Effect(command[c].op)
  /\ \/ /\ command[c].op = "create" \/ Reached(command[c].op, vm')
        /\ command' = [command EXCEPT ![c].done = TRUE]
     \/ command[c].op # "create" /\ UNCHANGED command
  /\ UNCHANGED abandoned

\* The machine is found where it is to be brought.
Find(c) ==
  /\ Open(c)
  /\ Reached(command[c].op, vm)
  /\ command' = [command EXCEPT ![c].done = TRUE]
  /\ UNCHANGED <<vm, abandoned>>

Answer(c, answer) ==
  /\ Open(c)
  /\ answer = "ok" => command[c].done
  /\ command' = [command EXCEPT ![c].done = FALSE, ![c].answer = answer]
  /\ UNCHANGED <<vm, abandoned>>

Take(c) ==
  /\ command[c].answer # "none"
  /\ command' = [command EXCEPT ![c] = NoCommand]
  /\ UNCHANGED <<vm, abandoned>>

GuestPowersOff == vm = "running" /\ vm' = "off" /\ UNCHANGED <<command, abandoned>>

Crash ==
  /\ \E C \in SUBSET {c \in Clients : Open(c)} :
       abandoned' = abandoned \cup {command[c].op : c \in C}
  /\ command' = [c \in Clients |-> NoCommand]
  /\ UNCHANGED vm

LateEffect ==
  /\ \E op \in abandoned : Effect(op)
  /\ UNCHANGED <<command, abandoned>>

Next ==
  \/ \E c \in Clients :
       \/ \E op \in Ops : Give(c, op)
       \/ Act(c) \/ Find(c) \/ Take(c)
       \/ \E answer \in {"ok", "error"} : Answer(c, answer)
  \/ GuestPowersOff \/ Crash \/ LateEffect

Spec == Init /\ [][Next]_vars

=============================================================================
