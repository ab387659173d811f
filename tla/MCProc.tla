------------------------------- MODULE MCProc -------------------------------
(* Instances of Proc for TLC. *)
EXTENDS Proc, TLC

\* Slots other than initproc are interchangeable, and so are the CPUs.
Symmetry == Permutations(Proc \ {initproc}) \cup Permutations(CPU)

\* An idle CPU remembers nothing, so with a CPU for every process each
\* behaviour is, up to the names of the CPUs, one in which every process runs
\* on a CPU of its own.  The liveness properties are checked on those, with
\* each CPU named after its process (CPU = Proc).
Pinned == \A c \in CPU : cpuproc[c] \in {None, c}

\* A time slice outlasts the wait for a spinlock: the timer takes the CPU
\* away from a process in user space only.
LongSlices == \A p \in Proc :
    state[p] = "RUNNING" /\ state'[p] = "RUNNABLE" => pc[p] = "user"

PinnedSpec ==
    /\ Init /\ [][Next /\ Pinned' /\ LongSlices]_vars
    /\ \A p \in Proc : Serves(p, p)
=============================================================================
