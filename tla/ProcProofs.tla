----------------------------- MODULE ProcProofs -----------------------------
(***************************************************************************)
(* Proofs, for any number of slots and CPUs, that Proc has its type        *)
(* invariant, StackExclusive, SchedAsserts, ReapAfterSwitch, ParentAlive   *)
(* and NoMissedExit.                                                       *)
(***************************************************************************)
EXTENDS Proc, TLAPS

-----------------------------------------------------------------------------
(* Who is on which CPU and who holds which lock *)

\* A CPU has a process exactly when it is not in scheduler()'s scan; that
\* process is RUNNING until it has switched back, holding its own lock.
CpuInv ==
    \A c \in CPU :
        /\ mode[c] = "scan" <=> cpuproc[c] = None
        /\ mode[c] = "run" => state[cpuproc[c]] = "RUNNING"
        /\ mode[c] = "back" => state[cpuproc[c]] # "RUNNING" /\ plock[cpuproc[c]] = c

\* A RUNNING process has a CPU.
RunningInv ==
    \A p \in Proc : state[p] = "RUNNING" =>
        \E c \in CPU : cpuproc[c] = p /\ mode[c] = "run"

\* p->lock outlives a step only in the hands of p's own CPU, in sleep() or on
\* the way through sched().
PLockInv ==
    \A p \in Proc, c \in CPU : plock[p] = c =>
        /\ cpuproc[c] = p
        /\ mode[c] = "back" \/ (mode[c] = "run" /\ pc[p] = "sleep_locked")

\* wait_lock is held by the CPU whose process is at one of those points.
WaitLockInv ==
    \A c \in CPU :
        wait_lock = c <=> mode[c] = "run" /\ pc[cpuproc[c]] \in WaitLocked

\* Where a process can be, by its state.
PcInv ==
    \A p \in Proc :
        /\ state[p] = "UNUSED" => pc[p] = "free"
        /\ state[p] = "USED" => pc[p] = "forkret"
        /\ state[p] = "SLEEPING" => pc[p] = "asleep"
        /\ state[p] = "RUNNABLE" => pc[p] \in Preemptible \cup {"forkret", "asleep"}
        /\ state[p] = "RUNNING" => pc[p] \in Preemptible \cup WaitLocked
        /\ state[p] = "ZOMBIE" => pc[p] = "dead"

\* The slot a fork() is filling is its own and USED.
ForkInv ==
    \A p \in Proc : pc[p] \in {"fork_parent", "fork_ready"} =>
        /\ np[p] \in Proc
        /\ state[np[p]] = "USED"
        /\ \A q \in Proc : pc[q] \in {"fork_parent", "fork_ready"} /\ np[q] = np[p]
                                => q = p

LockInv ==
    /\ TypeOK /\ CpuInv /\ StackExclusive /\ RunningInv /\ PLockInv /\ WaitLockInv
    /\ PcInv /\ ForkInv

-----------------------------------------------------------------------------
(* Parents and the sleepers in wait() *)

Alive == {"SLEEPING", "RUNNABLE", "RUNNING"}
Exiting == {"exit", "reparent", "wake_init", "wake_parent", "zombie"}

\* init never exits and has no parent.
InitInv ==
    /\ state[initproc] \in Alive
    /\ pc[initproc] \notin Exiting
    /\ parent[initproc] = None

\* A parent is alive; a free slot has none; a process but init has one, and
\* so has the slot of a fork() from the step that sets it.
ParentInv ==
    \A q \in Proc :
        /\ parent[q] # None => state[parent[q]] \in Alive
        /\ state[q] = "UNUSED" => parent[q] = None
        /\ state[q] \in Alive \cup {"ZOMBIE"} /\ q # initproc => parent[q] # None
        /\ pc[q] = "fork_parent" => parent[np[q]] = None
        /\ pc[q] = "fork_ready" => parent[np[q]] = q

\* exit() has passed on all children before it wakes its parent.
ChildlessInv ==
    \A p, q \in Proc : pc[p] \in {"wake_parent", "zombie"} => parent[q] # p

\* Sleepers in wait(), and those about to sleep, have a child.
SleepInv ==
    \A p \in Proc : pc[p] \in {"sleep", "sleep_locked"} \/ state[p] = "SLEEPING" =>
        \E q \in Proc : parent[q] = p

\* A sleeper in wait() sleeps on itself.
ChanInv == \A p \in Proc : state[p] = "SLEEPING" => chan[p] = p

\* Whoever is about to sleep has no zombie child.
AwakeInv ==
    \A p, q \in Proc : pc[p] \in {"sleep", "sleep_locked"} /\ parent[q] = p =>
        state[q] # "ZOMBIE"

\* A zombie's parent sleeps only while reparent() has still to wake init.
ZombieInv ==
    \A p, q \in Proc : state[q] = "ZOMBIE" /\ parent[q] = p /\ state[p] = "SLEEPING" =>
        /\ p = initproc
        /\ \E r \in Proc : pc[r] = "wake_init" /\ initproc \in todo[r]

\* exit() wakes the parent before it becomes a zombie.
WakeInv ==
    \A p, q \in Proc : parent[q] = p /\ state[p] = "SLEEPING" =>
        /\ pc[q] = "wake_parent" => p \in todo[q]
        /\ pc[q] # "zombie"

FamilyInv ==
    /\ InitInv /\ ParentInv /\ ChildlessInv /\ SleepInv /\ ChanInv /\ AwakeInv
    /\ ZombieInv /\ WakeInv

-----------------------------------------------------------------------------
\* Init and every step keep LockInv: the scheduler runs only processes whose
\* lock is free, and those are on no CPU (CpuInv, PLockInv).
LEMMA LockInvInit == Init => LockInv
<1> SUFFICES ASSUME Init PROVE LockInv
  OBVIOUS
<1> USE ProcAssumption DEF Init, TypeOK, Label, Preemptible, WaitLocked
<1>1. TypeOK
  OBVIOUS
<1>2. CpuInv /\ StackExclusive /\ RunningInv /\ PLockInv /\ WaitLockInv
  BY DEF CpuInv, StackExclusive, RunningInv, PLockInv, WaitLockInv
<1>3. PcInv /\ ForkInv
  BY DEF PcInv, ForkInv
<1>4. QED
  BY <1>1, <1>2, <1>3 DEF LockInv

\* Every step of a CPU, its process or its scheduler keeps LockInv.
LEMMA LockInvStep ==
    ASSUME LockInv, NEW c \in CPU, NEW p \in Proc, Step(c, p) \/ scheduler_back(c)
    PROVE  LockInv'
<1> USE ProcAssumption DEF LockInv, TypeOK, fields, At, Goto, Preemptible, WaitLocked
<1>1. ASSUME NEW q \in Proc, fork(c, p, q) PROVE LockInv'
  <2>1. TypeOK'
    BY <1>1 DEF fork, Syscall, Label, TypeOK
  <2>2. WaitLockInv'
    BY <1>1 DEF fork, Syscall, Label, WaitLockInv, CpuInv
  <2>3. CpuInv' /\ StackExclusive' /\ RunningInv' /\ PLockInv' /\ PcInv' /\
         ForkInv'
    BY <1>1 DEF fork, Syscall, Label, CpuInv, StackExclusive, RunningInv,
       PLockInv, PcInv, ForkInv
  <2>4. QED
    BY <2>1, <2>2, <2>3 DEF LockInv
<1>2. ASSUME NEW q \in Proc, fork_fail(c, p, q) PROVE LockInv'
  <2>1. TypeOK'
    BY <1>2 DEF fork_fail, Syscall, freeproc, TypeOK, Label
  <2>2. CpuInv' /\ StackExclusive' /\ RunningInv' /\ PLockInv' /\ WaitLockInv'
         /\ PcInv' /\ ForkInv'
    BY <1>2 DEF fork_fail, Syscall, freeproc, CpuInv, StackExclusive,
       RunningInv, PLockInv, WaitLockInv, PcInv, ForkInv
  <2>3. QED
    BY <2>1, <2>2 DEF LockInv
<1>3. ASSUME fork_parent(c, p) PROVE LockInv'
  <2>1. TypeOK'
    BY <1>3 DEF fork_parent, TypeOK, Label, ForkInv
  <2>2. CpuInv' /\ StackExclusive' /\ RunningInv' /\ PLockInv' /\ WaitLockInv'
         /\ PcInv' /\ ForkInv'
    BY <1>3 DEF fork_parent, CpuInv, StackExclusive, RunningInv, PLockInv,
       WaitLockInv, PcInv, ForkInv
  <2>3. QED
    BY <2>1, <2>2 DEF LockInv
<1>4. ASSUME fork_ready(c, p) PROVE LockInv'
  <2>1. TypeOK'
    BY <1>4 DEF fork_ready, TypeOK, Label, ForkInv
  <2>2. CpuInv'
    BY <1>4 DEF fork_ready, CpuInv, ForkInv
  <2>3. PcInv'
    BY <1>4 DEF fork_ready, PcInv, ForkInv
  <2>4. StackExclusive' /\ RunningInv' /\ PLockInv' /\ WaitLockInv' /\
         ForkInv'
    BY <1>4 DEF fork_ready, StackExclusive, RunningInv, PLockInv, WaitLockInv,
       ForkInv
  <2>5. QED
    BY <2>1, <2>2, <2>3, <2>4 DEF LockInv
<1>5. ASSUME wait(c, p) PROVE LockInv'
  <2>1. TypeOK'
    BY <1>5 DEF wait, Syscall, TypeOK, Label
  <2>2. CpuInv' /\ StackExclusive' /\ RunningInv' /\ PLockInv' /\ WaitLockInv'
         /\ PcInv' /\ ForkInv'
    BY <1>5 DEF wait, Syscall, CpuInv, StackExclusive, RunningInv, PLockInv,
       WaitLockInv, PcInv, ForkInv
  <2>3. QED
    BY <2>1, <2>2 DEF LockInv
<1>6. ASSUME wait_acquire(c, p) PROVE LockInv'
  <2>1. TypeOK'
    BY <1>6 DEF wait_acquire, TypeOK, Label
  <2>2. WaitLockInv'
    BY <1>6 DEF wait_acquire, WaitLockInv, StackExclusive
  <2>3. PcInv'
    BY <1>6 DEF wait_acquire, PcInv, CpuInv
  <2>4. CpuInv' /\ StackExclusive' /\ RunningInv' /\ PLockInv' /\ ForkInv'
    BY <1>6 DEF wait_acquire, CpuInv, StackExclusive, RunningInv, PLockInv,
       ForkInv
  <2>5. QED
    BY <2>1, <2>2, <2>3, <2>4 DEF LockInv
<1>7. ASSUME NEW q \in Proc, wait_reap(c, p, q) PROVE LockInv'
  <2>1. TypeOK'
    BY <1>7 DEF wait_reap, FoundZombie, freeproc, TypeOK, Label
  <2>2. WaitLockInv'
    BY <1>7 DEF wait_reap, FoundZombie, freeproc, WaitLockInv, CpuInv
  <2>3. CpuInv' /\ StackExclusive' /\ RunningInv' /\ PLockInv' /\ PcInv' /\
         ForkInv'
    BY <1>7 DEF wait_reap, FoundZombie, freeproc, CpuInv, StackExclusive,
       RunningInv, PLockInv, PcInv, ForkInv
  <2>4. QED
    BY <2>1, <2>2, <2>3 DEF LockInv
<1>8. ASSUME wait_fail(c, p) PROVE LockInv'
  <2>1. TypeOK'
    BY <1>8 DEF wait_fail, TypeOK, Label
  <2>2. CpuInv' /\ StackExclusive' /\ RunningInv' /\ PLockInv' /\ WaitLockInv'
         /\ PcInv' /\ ForkInv'
    BY <1>8 DEF wait_fail, CpuInv, StackExclusive, RunningInv, PLockInv,
       WaitLockInv, PcInv, ForkInv
  <2>3. QED
    BY <2>1, <2>2 DEF LockInv
<1>9. ASSUME wait_none(c, p) PROVE LockInv'
  <2>1. TypeOK'
    BY <1>9 DEF wait_none, TypeOK, Label
  <2>2. CpuInv' /\ StackExclusive' /\ RunningInv' /\ PLockInv' /\ WaitLockInv'
         /\ PcInv' /\ ForkInv'
    BY <1>9 DEF wait_none, CpuInv, StackExclusive, RunningInv, PLockInv,
       WaitLockInv, PcInv, ForkInv
  <2>3. QED
    BY <2>1, <2>2 DEF LockInv
<1>10. ASSUME sleep_acquire(c, p) PROVE LockInv'
  <2>1. TypeOK'
    BY <1>10 DEF sleep_acquire, TypeOK, Label
  <2>2. CpuInv' /\ StackExclusive' /\ RunningInv' /\ PLockInv' /\ WaitLockInv'
         /\ PcInv' /\ ForkInv'
    BY <1>10 DEF sleep_acquire, CpuInv, StackExclusive, RunningInv, PLockInv,
       WaitLockInv, PcInv, ForkInv
  <2>3. QED
    BY <2>1, <2>2 DEF LockInv
<1>11. ASSUME sleep(c, p) PROVE LockInv'
  <2>1. TypeOK'
    BY <1>11 DEF sleep, WaitChan, sched, TypeOK, Label
  <2>2. CpuInv'
    BY <1>11 DEF sleep, WaitChan, sched, CpuInv, StackExclusive
  <2>3. ForkInv'
    BY <1>11 DEF sleep, WaitChan, sched, ForkInv, PcInv
  <2>4. StackExclusive' /\ RunningInv' /\ PLockInv' /\ WaitLockInv' /\ PcInv'
    BY <1>11 DEF sleep, WaitChan, sched, StackExclusive, RunningInv, PLockInv,
       WaitLockInv, PcInv
  <2>5. QED
    BY <2>1, <2>2, <2>3, <2>4 DEF LockInv
<1>12. ASSUME exit(c, p) PROVE LockInv'
  <2>1. TypeOK'
    BY <1>12 DEF exit, TypeOK, Label
  <2>2. CpuInv' /\ StackExclusive' /\ RunningInv' /\ PLockInv' /\ WaitLockInv'
         /\ PcInv' /\ ForkInv'
    BY <1>12 DEF exit, CpuInv, StackExclusive, RunningInv, PLockInv,
       WaitLockInv, PcInv, ForkInv
  <2>3. QED
    BY <2>1, <2>2 DEF LockInv
<1>13. ASSUME exit_init(c, p) PROVE LockInv'
  <2>1. TypeOK'
    BY <1>13 DEF exit_init, TypeOK, Label
  <2>2. CpuInv' /\ StackExclusive' /\ RunningInv' /\ PLockInv' /\ WaitLockInv'
         /\ PcInv' /\ ForkInv'
    BY <1>13 DEF exit_init, CpuInv, StackExclusive, RunningInv, PLockInv,
       WaitLockInv, PcInv, ForkInv
  <2>3. QED
    BY <2>1, <2>2 DEF LockInv
<1>14. ASSUME exit_acquire(c, p) PROVE LockInv'
  <2>1. TypeOK'
    BY <1>14 DEF exit_acquire, TypeOK, Label
  <2>2. WaitLockInv'
    BY <1>14 DEF exit_acquire, WaitLockInv, StackExclusive
  <2>3. PcInv'
    BY <1>14 DEF exit_acquire, PcInv, CpuInv
  <2>4. CpuInv' /\ StackExclusive' /\ RunningInv' /\ PLockInv' /\ ForkInv'
    BY <1>14 DEF exit_acquire, CpuInv, StackExclusive, RunningInv, PLockInv,
       ForkInv
  <2>5. QED
    BY <2>1, <2>2, <2>3, <2>4 DEF LockInv
<1>15. ASSUME NEW q \in Proc, reparent(c, p, q) PROVE LockInv'
  <2>1. TypeOK'
    BY <1>15 DEF reparent, TypeOK, Label
  <2>2. CpuInv' /\ StackExclusive' /\ RunningInv' /\ PLockInv' /\ WaitLockInv'
         /\ PcInv' /\ ForkInv'
    BY <1>15 DEF reparent, CpuInv, StackExclusive, RunningInv, PLockInv,
       WaitLockInv, PcInv, ForkInv
  <2>3. QED
    BY <2>1, <2>2 DEF LockInv
<1>16. ASSUME reparent_done(c, p) PROVE LockInv'
  <2>1. TypeOK'
    BY <1>16 DEF reparent_done, TypeOK, Label
  <2>2. CpuInv' /\ StackExclusive' /\ RunningInv' /\ PLockInv' /\ WaitLockInv'
         /\ PcInv' /\ ForkInv'
    BY <1>16 DEF reparent_done, CpuInv, StackExclusive, RunningInv, PLockInv,
       WaitLockInv, PcInv, ForkInv
  <2>3. QED
    BY <2>1, <2>2 DEF LockInv
<1>17. ASSUME NEW q \in Proc, wakeup(c, p, q) PROVE LockInv'
  <2>1. TypeOK'
    BY <1>17 DEF wakeup, Woken, TypeOK, Label
  <2>2. CpuInv' /\ StackExclusive' /\ RunningInv' /\ PLockInv' /\ WaitLockInv'
         /\ PcInv' /\ ForkInv'
    BY <1>17 DEF wakeup, Woken, CpuInv, StackExclusive, RunningInv, PLockInv,
       WaitLockInv, PcInv, ForkInv
  <2>3. QED
    BY <2>1, <2>2 DEF LockInv
<1>18. ASSUME wakeup_done(c, p) PROVE LockInv'
  <2>1. TypeOK'
    BY <1>18 DEF wakeup_done, TypeOK, Label
  <2>2. WaitLockInv'
    BY <1>18 DEF wakeup_done, WaitLockInv, CpuInv
  <2>3. CpuInv' /\ StackExclusive' /\ RunningInv' /\ PLockInv' /\ PcInv' /\
         ForkInv'
    BY <1>18 DEF wakeup_done, CpuInv, StackExclusive, RunningInv, PLockInv,
       PcInv, ForkInv
  <2>4. QED
    BY <2>1, <2>2, <2>3 DEF LockInv
<1>19. ASSUME exit_zombie(c, p) PROVE LockInv'
  <2>1. TypeOK'
    BY <1>19 DEF exit_zombie, ExitReleases, sched, TypeOK, Label
  <2>2. CpuInv'
    BY <1>19 DEF exit_zombie, ExitReleases, sched, CpuInv, StackExclusive
  <2>3. ForkInv'
    BY <1>19 DEF exit_zombie, ExitReleases, sched, ForkInv, PcInv
  <2>4. StackExclusive' /\ RunningInv' /\ PLockInv' /\ WaitLockInv' /\ PcInv'
    BY <1>19 DEF exit_zombie, ExitReleases, sched, StackExclusive, RunningInv,
       PLockInv, WaitLockInv, PcInv
  <2>5. QED
    BY <2>1, <2>2, <2>3, <2>4 DEF LockInv
<1>20. ASSUME NEW q \in Proc, kill(c, p, q) PROVE LockInv'
  <2>1. TypeOK'
    BY <1>20 DEF kill, Syscall, TypeOK, Label
  <2>2. CpuInv' /\ StackExclusive' /\ RunningInv' /\ PLockInv' /\ WaitLockInv'
         /\ PcInv' /\ ForkInv'
    BY <1>20 DEF kill, Syscall, CpuInv, StackExclusive, RunningInv, PLockInv,
       WaitLockInv, PcInv, ForkInv
  <2>3. QED
    BY <2>1, <2>2 DEF LockInv
<1>21. ASSUME yield(c, p) PROVE LockInv'
  <2>1. TypeOK'
    BY <1>21 DEF yield, sched, TypeOK, Label
  <2>2. CpuInv'
    BY <1>21 DEF yield, sched, CpuInv, StackExclusive
  <2>3. ForkInv'
    BY <1>21 DEF yield, sched, ForkInv, PcInv
  <2>4. StackExclusive' /\ RunningInv' /\ PLockInv' /\ WaitLockInv' /\ PcInv'
    BY <1>21 DEF yield, sched, StackExclusive, RunningInv, PLockInv,
       WaitLockInv, PcInv
  <2>5. QED
    BY <2>1, <2>2, <2>3, <2>4 DEF LockInv
<1>22. ASSUME scheduler(c, p) PROVE LockInv'
  <2>1. TypeOK'
    BY <1>22 DEF scheduler, Runnable, Resumed, TypeOK, Label
  <2>2. StackExclusive'
    BY <1>22 DEF scheduler, Runnable, Resumed, StackExclusive, CpuInv
  <2>3. WaitLockInv'
    BY <1>22 DEF scheduler, Runnable, Resumed, WaitLockInv, PcInv
  <2>4. CpuInv' /\ RunningInv' /\ PLockInv' /\ PcInv' /\ ForkInv'
    BY <1>22 DEF scheduler, Runnable, Resumed, CpuInv, RunningInv, PLockInv,
       PcInv, ForkInv
  <2>5. QED
    BY <2>1, <2>2, <2>3, <2>4 DEF LockInv
<1>23. ASSUME scheduler_back(c) PROVE LockInv'
  <2>1. TypeOK'
    BY <1>23 DEF scheduler_back, TypeOK, Label, CpuInv
  <2>2. CpuInv' /\ StackExclusive' /\ RunningInv' /\ PLockInv' /\ WaitLockInv'
         /\ PcInv' /\ ForkInv'
    BY <1>23 DEF scheduler_back, CpuInv, StackExclusive, RunningInv, PLockInv,
       WaitLockInv, PcInv, ForkInv
  <2>3. QED
    BY <2>1, <2>2 DEF LockInv
<1>24. QED
  BY <1>1, <1>2, <1>3, <1>4, <1>5, <1>6, <1>7, <1>8, <1>9, <1>10, <1>11,
       <1>12, <1>13, <1>14, <1>15, <1>16, <1>17, <1>18, <1>19, <1>20, <1>21,
       <1>22, <1>23
  DEF Step, Proceed, Call

\* The step lemma for the whole next-state relation; panic() changes nothing.
LEMMA LockInvNext == LockInv /\ [Next]_vars => LockInv'
<1> SUFFICES ASSUME LockInv, [Next]_vars PROVE LockInv'
  OBVIOUS
<1>1. CASE UNCHANGED vars
  BY <1>1 DEF vars, LockInv, TypeOK, CpuInv, StackExclusive, RunningInv, PLockInv,
     WaitLockInv, PcInv, ForkInv
<1>2. CASE \E c \in CPU, p \in Proc : Step(c, p)
  BY <1>2, LockInvStep
<1>3. CASE \E c \in CPU : scheduler_back(c)
  BY <1>3, LockInvStep, ProcAssumption
<1>4. QED
  BY <1>1, <1>2, <1>3 DEF Next, panic

\* LockInv is an invariant of Proc, for any number of slots and CPUs.
THEOREM LockInvariant == Spec => []LockInv
  BY LockInvInit, LockInvNext, PTL DEF Spec

\* The variables of Proc keep their types: in particular the slot that fork()
\* writes through np, and the slot that scheduler() releases, exist.
THEOREM TypeCorrect == Spec => []TypeOK
<1>1. LockInv => TypeOK
  BY DEF LockInv
<1>2. QED
  BY <1>1, LockInvariant, PTL

\* No kernel stack is ever in use on two CPUs (scheduler(), sched()).
THEOREM StackExclusion == Spec => []StackExclusive
<1>1. LockInv => StackExclusive
  BY DEF LockInv
<1>2. QED
  BY <1>1, LockInvariant, PTL

\* The assertions at the start of sched() hold whenever it is called.
THEOREM SchedAssertions == Spec => []SchedAsserts
<1>1. LockInv => SchedAsserts
  BY DEF LockInv, SchedAsserts, CpuInv, WaitLockInv
<1>2. QED
  BY <1>1, LockInvariant, PTL

-----------------------------------------------------------------------------
\* A zombie leaves that state in wait() only, and is then on no CPU.
LEMMA ReapStep ==
    ASSUME LockInv, NEW c \in CPU, NEW p \in Proc, Step(c, p) \/ scheduler_back(c),
           NEW q \in Proc, state[q] = "ZOMBIE", state'[q] # "ZOMBIE"
    PROVE  /\ state'[q] = "UNUSED"
           /\ \A d \in CPU : cpuproc[d] # q
           /\ \E d \in CPU : At(d, parent[q], "wait_scan") /\ wait_lock = d
<1>1. wait_reap(c, p, q)
  <2>1. CASE \E r \in Proc : wait_reap(c, p, r)
    BY <2>1 DEF wait_reap, freeproc, LockInv, TypeOK
  <2>2. CASE scheduler_back(c) \/ scheduler(c, p) \/ yield(c, p)
    BY <2>2 DEF scheduler_back, scheduler, Runnable, yield, At, fields, LockInv, TypeOK,
       CpuInv
  <2>3. CASE Call(c, p)
    BY <2>3 DEF Call, fork, fork_fail, freeproc, wait, exit, exit_init, kill, Syscall, At,
       fields, LockInv, TypeOK
  <2>4. CASE fork_ready(c, p) \/ sleep(c, p) \/ exit_zombie(c, p)
    BY <2>4 DEF fork_ready, sleep, exit_zombie, At, LockInv, TypeOK, ForkInv, CpuInv
  <2>5. CASE \/ fork_parent(c, p) \/ wait_acquire(c, p) \/ wait_fail(c, p)
             \/ wait_none(c, p) \/ sleep_acquire(c, p) \/ exit_acquire(c, p)
             \/ reparent_done(c, p) \/ wakeup_done(c, p)
             \/ \E r \in Proc : reparent(c, p, r) \/ wakeup(c, p, r)
    BY <2>5 DEF fork_parent, wait_acquire, wait_fail, wait_none, sleep_acquire,
       exit_acquire, reparent_done, wakeup_done, reparent, wakeup, Woken, fields,
       LockInv, TypeOK
  <2>6. QED
    BY <2>1, <2>2, <2>3, <2>4, <2>5 DEF Step, Proceed
<1>2. \A d \in CPU : cpuproc[d] # q
  BY <1>1, ProcAssumption DEF wait_reap, FoundZombie, LockInv, TypeOK, CpuInv
<1>3. At(c, parent[q], "wait_scan") /\ wait_lock = c
  BY <1>1 DEF wait_reap, FoundZombie, Children, At, LockInv, WaitLockInv, WaitLocked
<1>4. QED
  BY <1>1, <1>2, <1>3 DEF wait_reap, freeproc, LockInv, TypeOK

\* wait() frees a zombie only after the CPU it died on has left its kernel
\* stack, and nobody else frees one.
THEOREM ReapingAfterSwitch == Spec => ReapAfterSwitch
<1>1. LockInv /\ [Next]_vars => [ReapedByWait]_vars
  <2> SUFFICES ASSUME LockInv, Next PROVE ReapedByWait
    OBVIOUS
  <2>1. CASE panic
    BY <2>1 DEF panic, vars, ReapedByWait
  <2>2. CASE \E c \in CPU, p \in Proc : Step(c, p)
    BY <2>2, ReapStep DEF ReapedByWait
  <2>3. CASE \E c \in CPU : scheduler_back(c)
    BY <2>3, ReapStep, ProcAssumption DEF ReapedByWait
  <2>4. QED
    BY <2>1, <2>2, <2>3 DEF Next
<1>2. QED
  BY <1>1, LockInvariant, PTL DEF Spec, ReapAfterSwitch

-----------------------------------------------------------------------------
\* One process at most is at a point where wait_lock is held.
LEMMA OneWaitLocked ==
    ASSUME LockInv
    PROVE  \A p, q \in Proc : pc[p] \in WaitLocked /\ pc[q] \in WaitLocked => p = q
  BY DEF LockInv, TypeOK, WaitLockInv, CpuInv, RunningInv, PcInv, StackExclusive,
     WaitLocked, Preemptible

\* Init and every step keep FamilyInv.  What exit() and wait() establish about
\* parents and sleepers is not disturbed, because whoever could disturb it is
\* at a point where wait_lock is held (OneWaitLocked).
LEMMA FamilyInvInit == Init => FamilyInv
  BY ProcAssumption DEF Init, FamilyInv, InitInv, ParentInv, ChildlessInv, SleepInv,
     ChanInv, AwakeInv, ZombieInv, WakeInv, Alive, Exiting

\* Every step of a CPU, its process or its scheduler keeps FamilyInv.
LEMMA FamilyInvStep ==
    ASSUME LockInv, FamilyInv, NEW c \in CPU, NEW p \in Proc,
           Step(c, p) \/ scheduler_back(c)
    PROVE  FamilyInv'
<1> USE ProcAssumption, OneWaitLocked
    DEF LockInv, FamilyInv, TypeOK, fields, At, Goto, Preemptible, WaitLocked, Alive,
        Exiting
<1>1. ASSUME NEW q \in Proc, fork(c, p, q) PROVE FamilyInv'
  <2>1. ZombieInv'
    BY <1>1 DEF fork, Syscall, ZombieInv, PcInv
  <2>2. InitInv' /\ ParentInv' /\ ChildlessInv' /\ SleepInv' /\ ChanInv' /\
         AwakeInv' /\ WakeInv'
    BY <1>1 DEF fork, Syscall, InitInv, ParentInv, ChildlessInv, SleepInv,
       ChanInv, AwakeInv, WakeInv
  <2>3. QED
    BY <2>1, <2>2 DEF FamilyInv
<1>2. ASSUME NEW q \in Proc, fork_fail(c, p, q) PROVE FamilyInv'
  <2>1. SleepInv'
    BY <1>2 DEF fork_fail, Syscall, freeproc, SleepInv, ParentInv
  <2>2. InitInv' /\ ParentInv' /\ ChildlessInv' /\ ChanInv' /\ AwakeInv' /\
         ZombieInv' /\ WakeInv'
    BY <1>2 DEF fork_fail, Syscall, freeproc, InitInv, ParentInv,
       ChildlessInv, ChanInv, AwakeInv, ZombieInv, WakeInv
  <2>3. QED
    BY <2>1, <2>2 DEF FamilyInv
<1>3. ASSUME fork_parent(c, p) PROVE FamilyInv'
  <2>1. InitInv'
    BY <1>3 DEF fork_parent, InitInv, ForkInv
  <2>2. ParentInv'
    BY <1>3 DEF fork_parent, ParentInv, PcInv, ForkInv
  <2>3. SleepInv'
    BY <1>3 DEF fork_parent, SleepInv, ParentInv
  <2>4. ZombieInv'
    BY <1>3 DEF fork_parent, ZombieInv, InitInv, ParentInv
  <2>5. WakeInv'
    BY <1>3 DEF fork_parent, WakeInv, PcInv
  <2>6. ChildlessInv' /\ ChanInv' /\ AwakeInv'
    BY <1>3 DEF fork_parent, ChildlessInv, ChanInv, AwakeInv
  <2>7. QED
    BY <2>1, <2>2, <2>3, <2>4, <2>5, <2>6 DEF FamilyInv
<1>4. ASSUME fork_ready(c, p) PROVE FamilyInv'
  <2>1. InitInv' /\ ParentInv' /\ ChildlessInv' /\ SleepInv' /\ ChanInv' /\
         AwakeInv' /\ ZombieInv' /\ WakeInv'
    BY <1>4 DEF fork_ready, InitInv, ParentInv, ChildlessInv, SleepInv,
       ChanInv, AwakeInv, ZombieInv, WakeInv
  <2>2. QED
    BY <2>1 DEF FamilyInv
<1>5. ASSUME wait(c, p) PROVE FamilyInv'
  <2>1. InitInv' /\ ParentInv' /\ ChildlessInv' /\ SleepInv' /\ ChanInv' /\
         AwakeInv' /\ ZombieInv' /\ WakeInv'
    BY <1>5 DEF wait, Syscall, InitInv, ParentInv, ChildlessInv, SleepInv,
       ChanInv, AwakeInv, ZombieInv, WakeInv
  <2>2. QED
    BY <2>1 DEF FamilyInv
<1>6. ASSUME wait_acquire(c, p) PROVE FamilyInv'
  <2>1. InitInv' /\ ParentInv' /\ ChildlessInv' /\ SleepInv' /\ ChanInv' /\
         AwakeInv' /\ ZombieInv' /\ WakeInv'
    BY <1>6 DEF wait_acquire, InitInv, ParentInv, ChildlessInv, SleepInv,
       ChanInv, AwakeInv, ZombieInv, WakeInv
  <2>2. QED
    BY <2>1 DEF FamilyInv
<1>7. ASSUME NEW q \in Proc, wait_reap(c, p, q) PROVE FamilyInv'
  <2>1. SleepInv'
    BY <1>7 DEF wait_reap, FoundZombie, freeproc, Children, SleepInv, PcInv
  <2>2. InitInv' /\ ParentInv' /\ ChildlessInv' /\ ChanInv' /\ AwakeInv' /\
         ZombieInv' /\ WakeInv'
    BY <1>7 DEF wait_reap, FoundZombie, freeproc, Children, InitInv,
       ParentInv, ChildlessInv, ChanInv, AwakeInv, ZombieInv, WakeInv
  <2>3. QED
    BY <2>1, <2>2 DEF FamilyInv
<1>8. ASSUME wait_fail(c, p) PROVE FamilyInv'
  <2>1. InitInv' /\ ParentInv' /\ ChildlessInv' /\ SleepInv' /\ ChanInv' /\
         AwakeInv' /\ ZombieInv' /\ WakeInv'
    BY <1>8 DEF wait_fail, InitInv, ParentInv, ChildlessInv, SleepInv,
       ChanInv, AwakeInv, ZombieInv, WakeInv
  <2>2. QED
    BY <2>1 DEF FamilyInv
<1>9. ASSUME wait_none(c, p) PROVE FamilyInv'
  <2>1. InitInv' /\ ParentInv' /\ ChildlessInv' /\ SleepInv' /\ ChanInv' /\
         AwakeInv' /\ ZombieInv' /\ WakeInv'
    BY <1>9 DEF wait_none, Children, InitInv, ParentInv, ChildlessInv,
       SleepInv, ChanInv, AwakeInv, ZombieInv, WakeInv
  <2>2. QED
    BY <2>1 DEF FamilyInv
<1>10. ASSUME sleep_acquire(c, p) PROVE FamilyInv'
  <2>1. InitInv' /\ ParentInv' /\ ChildlessInv' /\ SleepInv' /\ ChanInv' /\
         AwakeInv' /\ ZombieInv' /\ WakeInv'
    BY <1>10 DEF sleep_acquire, InitInv, ParentInv, ChildlessInv, SleepInv,
       ChanInv, AwakeInv, ZombieInv, WakeInv
  <2>2. QED
    BY <2>1 DEF FamilyInv
<1>11. ASSUME sleep(c, p) PROVE FamilyInv'
  <2>1. ParentInv'
    BY <1>11 DEF sleep, WaitChan, sched, ParentInv, SleepInv
  <2>2. ZombieInv'
    BY <1>11 DEF sleep, WaitChan, sched, ZombieInv, AwakeInv
  <2>3. InitInv' /\ ChildlessInv' /\ SleepInv' /\ ChanInv' /\ AwakeInv' /\
         WakeInv'
    BY <1>11 DEF sleep, WaitChan, sched, InitInv, ChildlessInv, SleepInv,
       ChanInv, AwakeInv, WakeInv
  <2>4. QED
    BY <2>1, <2>2, <2>3 DEF FamilyInv
<1>12. ASSUME exit(c, p) PROVE FamilyInv'
  <2>1. InitInv' /\ ParentInv' /\ ChildlessInv' /\ SleepInv' /\ ChanInv' /\
         AwakeInv' /\ ZombieInv' /\ WakeInv'
    BY <1>12 DEF exit, InitInv, ParentInv, ChildlessInv, SleepInv, ChanInv,
       AwakeInv, ZombieInv, WakeInv
  <2>2. QED
    BY <2>1 DEF FamilyInv
<1>13. ASSUME exit_init(c, p) PROVE FamilyInv'
  <2>1. InitInv' /\ ParentInv' /\ ChildlessInv' /\ SleepInv' /\ ChanInv' /\
         AwakeInv' /\ ZombieInv' /\ WakeInv'
    BY <1>13 DEF exit_init, InitInv, ParentInv, ChildlessInv, SleepInv,
       ChanInv, AwakeInv, ZombieInv, WakeInv
  <2>2. QED
    BY <2>1 DEF FamilyInv
<1>14. ASSUME exit_acquire(c, p) PROVE FamilyInv'
  <2>1. InitInv' /\ ParentInv' /\ ChildlessInv' /\ SleepInv' /\ ChanInv' /\
         AwakeInv' /\ ZombieInv' /\ WakeInv'
    BY <1>14 DEF exit_acquire, InitInv, ParentInv, ChildlessInv, SleepInv,
       ChanInv, AwakeInv, ZombieInv, WakeInv
  <2>2. QED
    BY <2>1 DEF FamilyInv
<1>15. ASSUME NEW q \in Proc, reparent(c, p, q) PROVE FamilyInv'
  <2>1. ParentInv'
    BY <1>15 DEF reparent, Abandoned, Children, ParentInv, InitInv
  <2>2. SleepInv'
    BY <1>15 DEF reparent, Abandoned, Children, SleepInv, PcInv
  <2>3. InitInv' /\ ChildlessInv' /\ ChanInv' /\ AwakeInv' /\ ZombieInv' /\
         WakeInv'
    BY <1>15 DEF reparent, Abandoned, Children, InitInv, ChildlessInv,
       ChanInv, AwakeInv, ZombieInv, WakeInv
  <2>4. QED
    BY <2>1, <2>2, <2>3 DEF FamilyInv
<1>16. ASSUME reparent_done(c, p) PROVE FamilyInv'
  <2>1. InitInv' /\ ParentInv' /\ ChildlessInv' /\ SleepInv' /\ ChanInv' /\
         AwakeInv' /\ ZombieInv' /\ WakeInv'
    BY <1>16 DEF reparent_done, Abandoned, Children, InitInv, ParentInv,
       ChildlessInv, SleepInv, ChanInv, AwakeInv, ZombieInv, WakeInv
  <2>2. QED
    BY <2>1 DEF FamilyInv
<1>17. ASSUME NEW q \in Proc, wakeup(c, p, q) PROVE FamilyInv'
  <2>1. ZombieInv'
    BY <1>17 DEF wakeup, Woken, WakeChan, ZombieInv, ChanInv
  <2>2. WakeInv'
    BY <1>17 DEF wakeup, Woken, WakeChan, WakeInv, ChanInv
  <2>3. InitInv' /\ ParentInv' /\ ChildlessInv' /\ SleepInv' /\ ChanInv' /\
         AwakeInv'
    BY <1>17 DEF wakeup, Woken, WakeChan, InitInv, ParentInv, ChildlessInv,
       SleepInv, ChanInv, AwakeInv
  <2>4. QED
    BY <2>1, <2>2, <2>3 DEF FamilyInv
<1>18. ASSUME wakeup_done(c, p) PROVE FamilyInv'
  <2>1. InitInv' /\ ParentInv' /\ ChildlessInv' /\ SleepInv' /\ ChanInv' /\
         AwakeInv' /\ ZombieInv' /\ WakeInv'
    BY <1>18 DEF wakeup_done, InitInv, ParentInv, ChildlessInv, SleepInv,
       ChanInv, AwakeInv, ZombieInv, WakeInv
  <2>2. QED
    BY <2>1 DEF FamilyInv
<1>19. ASSUME exit_zombie(c, p) PROVE FamilyInv'
  <2>1. ParentInv'
    BY <1>19 DEF exit_zombie, ExitReleases, sched, ParentInv, PcInv,
       ChildlessInv
  <2>2. ZombieInv'
    BY <1>19 DEF exit_zombie, ExitReleases, sched, ZombieInv, WakeInv
  <2>3. InitInv' /\ ChildlessInv' /\ SleepInv' /\ ChanInv' /\ AwakeInv' /\
         WakeInv'
    BY <1>19 DEF exit_zombie, ExitReleases, sched, InitInv, ChildlessInv,
       SleepInv, ChanInv, AwakeInv, WakeInv
  <2>4. QED
    BY <2>1, <2>2, <2>3 DEF FamilyInv
<1>20. ASSUME NEW q \in Proc, kill(c, p, q) PROVE FamilyInv'
  <2>1. InitInv' /\ ParentInv' /\ ChildlessInv' /\ SleepInv' /\ ChanInv' /\
         AwakeInv' /\ ZombieInv' /\ WakeInv'
    BY <1>20 DEF kill, Syscall, InitInv, ParentInv, ChildlessInv, SleepInv,
       ChanInv, AwakeInv, ZombieInv, WakeInv
  <2>2. QED
    BY <2>1 DEF FamilyInv
<1>21. ASSUME yield(c, p) PROVE FamilyInv'
  <2>1. ParentInv'
    BY <1>21 DEF yield, sched, ParentInv, PcInv
  <2>2. InitInv' /\ ChildlessInv' /\ SleepInv' /\ ChanInv' /\ AwakeInv' /\
         ZombieInv' /\ WakeInv'
    BY <1>21 DEF yield, sched, InitInv, ChildlessInv, SleepInv, ChanInv,
       AwakeInv, ZombieInv, WakeInv
  <2>3. QED
    BY <2>1, <2>2 DEF FamilyInv
<1>22. ASSUME scheduler(c, p) PROVE FamilyInv'
  <2>1. InitInv' /\ ParentInv' /\ ChildlessInv' /\ SleepInv' /\ ChanInv' /\
         AwakeInv' /\ ZombieInv' /\ WakeInv'
    BY <1>22 DEF scheduler, Runnable, Resumed, InitInv, ParentInv,
       ChildlessInv, SleepInv, ChanInv, AwakeInv, ZombieInv, WakeInv
  <2>2. QED
    BY <2>1 DEF FamilyInv
<1>23. ASSUME scheduler_back(c) PROVE FamilyInv'
  <2>1. InitInv' /\ ParentInv' /\ ChildlessInv' /\ SleepInv' /\ ChanInv' /\
         AwakeInv' /\ ZombieInv' /\ WakeInv'
    BY <1>23 DEF scheduler_back, InitInv, ParentInv, ChildlessInv, SleepInv,
       ChanInv, AwakeInv, ZombieInv, WakeInv
  <2>2. QED
    BY <2>1 DEF FamilyInv
<1>24. QED
  BY <1>1, <1>2, <1>3, <1>4, <1>5, <1>6, <1>7, <1>8, <1>9, <1>10, <1>11,
       <1>12, <1>13, <1>14, <1>15, <1>16, <1>17, <1>18, <1>19, <1>20, <1>21,
       <1>22, <1>23
  DEF Step, Proceed, Call

\* The step lemma for the whole next-state relation.
LEMMA FamilyInvNext == LockInv /\ FamilyInv /\ [Next]_vars => FamilyInv'
<1> SUFFICES ASSUME LockInv, FamilyInv, [Next]_vars PROVE FamilyInv'
  OBVIOUS
<1>1. CASE UNCHANGED vars
  <2>1. InitInv' /\ ParentInv' /\ ChildlessInv' /\ ChanInv' /\ AwakeInv' /\ WakeInv'
    BY <1>1 DEF vars, FamilyInv, InitInv, ParentInv, ChildlessInv, ChanInv, AwakeInv,
       WakeInv
  <2>2. SleepInv'
    BY <1>1 DEF vars, FamilyInv, SleepInv
  <2>3. ZombieInv'
    BY <1>1 DEF vars, FamilyInv, ZombieInv
  <2>4. QED
    BY <2>1, <2>2, <2>3 DEF FamilyInv
<1>2. CASE \E c \in CPU, p \in Proc : Step(c, p)
  BY <1>2, FamilyInvStep
<1>3. CASE \E c \in CPU : scheduler_back(c)
  BY <1>3, FamilyInvStep, ProcAssumption
<1>4. QED
  BY <1>1, <1>2, <1>3 DEF Next, panic

\* FamilyInv is an invariant of Proc, for any number of slots and CPUs.
THEOREM FamilyInvariant == Spec => []FamilyInv
  BY FamilyInvInit, FamilyInvNext, LockInvariant, PTL DEF Spec

\* Every process but init has a parent that can still call wait() (fork(),
\* reparent(), exit()).
THEOREM ParentsAlive == Spec => []ParentAlive
<1>1. LockInv /\ FamilyInv => ParentAlive
  BY ProcAssumption DEF LockInv, FamilyInv, TypeOK, ParentInv, ParentAlive, Alive
<1>2. QED
  BY <1>1, LockInvariant, FamilyInvariant, PTL

\* No process sleeps in wait() next to a zombie child (sleep(), wakeup()).
THEOREM NoExitMissed == Spec => []NoMissedExit
<1>1. LockInv /\ FamilyInv => NoMissedExit
  <2> SUFFICES ASSUME LockInv, FamilyInv, wait_lock = None,
                      NEW p \in Proc, state[p] = "SLEEPING"
               PROVE  /\ Children(p) # {}
                      /\ \A q \in Children(p) : state[q] # "ZOMBIE"
    BY DEF NoMissedExit
  <2>1. Children(p) # {}
    BY DEF FamilyInv, SleepInv, Children
  <2>2. \A r \in Proc : pc[r] # "wake_init"
    BY ProcAssumption DEF LockInv, TypeOK, WaitLockInv, PcInv, RunningInv, WaitLocked,
       Preemptible
  <2>3. QED
    BY <2>1, <2>2 DEF FamilyInv, ZombieInv, Children
<1>2. QED
  BY <1>1, LockInvariant, FamilyInvariant, PTL
=============================================================================
