----------------------------- MODULE AtomicDisk -----------------------------
(***************************************************************************)
(* What the log promises to the file system calls: updates made between    *)
(* begin_op() and end_op() reach the disk all together, at a moment when   *)
(* no call is half done, and a crash undoes exactly the updates that have  *)
(* not been committed.                                                     *)
(***************************************************************************)
CONSTANTS Proc, Block, Val

VARIABLES disk,    \* what a restart would find, after recovery
          mem,     \* what bread() returns now
          active   \* the processes between begin_op() and end_op()

vars == <<disk, mem, active>>

Init ==
    /\ disk \in [Block -> Val]
    /\ mem = disk
    /\ active = {}

Begin(p) ==
    /\ p \notin active
    /\ active' = active \cup {p}
    /\ UNCHANGED <<disk, mem>>

Write(p, b, v) ==
    /\ p \in active
    /\ mem' = [mem EXCEPT ![b] = v]
    /\ UNCHANGED <<disk, active>>

End(p) ==
    /\ p \in active
    /\ active' = active \ {p}
    /\ UNCHANGED <<disk, mem>>

Commit ==
    /\ active = {}
    /\ disk' = mem
    /\ UNCHANGED <<mem, active>>

Crash ==
    /\ mem' = disk
    /\ active' = {}
    /\ UNCHANGED disk

Next ==
    \/ \E p \in Proc : Begin(p) \/ End(p)
    \/ \E p \in Proc, b \in Block, v \in Val : Write(p, b, v)
    \/ Commit
    \/ Crash

Spec == Init /\ [][Next]_vars
=============================================================================
