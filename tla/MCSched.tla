------------------------------- MODULE MCSched ------------------------------
(* Instances of Sched for TLC. *)
EXTENDS Sched, TLC

\* A later state of a system with four slots: init runs on hart 0, its children
\* in slots 2, 3 and 4 were made at the ticks 2, 3 and 1 (slots 2 and 3 held
\* children that init has reaped), and the other harts are about to scan.
Later ==
    /\ ticks = 3 /\ tickslock = None /\ uidx = 1
    /\ state = [p \in Slot |-> IF p = 1 THEN "RUNNING" ELSE "RUNNABLE"]
    /\ creation_time = <<0, 2, 3, 1>> /\ run_time = <<0, 0, 0, 1>>
    /\ waiting_time = Zero /\ turnaround_time = Zero /\ finish_time = Zero
    /\ pc = [p \in Slot |-> "user"] /\ np = [p \in Slot |-> None]
    /\ ticks0 = Zero /\ n = Zero
    /\ cur = [c \in CPU |-> IF c = cpu0 THEN 1 ELSE None]
    /\ at = [c \in CPU |-> IF c = cpu0 THEN "run" ELSE "loop"]
    /\ idx = [c \in CPU |-> 1] /\ chosen = [c \in CPU |-> None]
    /\ since = [c \in CPU |-> {}] /\ lost = [c \in CPU |-> FALSE]
    /\ intr = [c \in CPU |-> None] /\ inclock = [p \in Slot |-> FALSE]
    /\ expired = [c \in CPU |-> FALSE] /\ expiries = 3

LaterSpec == Later /\ [][Next]_vars

\* Harts other than hart 0 are alike.
Symmetry == Permutations(CPU \ {cpu0})
=============================================================================
