-------------------------------- MODULE Proc --------------------------------
(***************************************************************************)
(* The process table of kernel/proc.c: the life cycle of a slot (fork,     *)
(* exit, wait, kill), sleep/wakeup, and the hand-over of p->lock between a *)
(* process and the per-CPU scheduler thread.                               *)
(*                                                                         *)
(* A step of the model is a stretch of code between two points where       *)
(* another CPU can observe or change what it uses: the stretch that runs   *)
(* with one spinlock held is one step, and a stretch that needs a second   *)
(* lock ends before the acquire.  An acquire of a lock that is taken is a  *)
(* disabled step (the CPU spins).  Locks belong to a CPU, as lk->cpu does. *)
(*                                                                         *)
(* Scans of the process table visit the slots in any order, and the slot   *)
(* the scheduler tries is any slot: choose_next_process() returns without  *)
(* holding the slot's lock, so nothing about it is still known when        *)
(* scheduler() acquires that lock.                                         *)
(***************************************************************************)
EXTENDS Naturals, FiniteSets

CONSTANTS Proc,      \* the slots of proc[NPROC]
          CPU,       \* the harts
          initproc,  \* the slot userinit() filled
          None,      \* the null pointer, a free lock, an idle CPU
          MaxPid     \* bound on nextpid

ASSUME ProcAssumption ==
    /\ initproc \in Proc
    /\ None \notin Proc
    /\ None \notin CPU
    /\ MaxPid \in Nat

VARIABLES
    state, chan, killed, pid, parent,  \* the fields of struct proc
    plock,      \* plock[p]: the CPU that holds p->lock, or None
    wait_lock,  \* the CPU that holds wait_lock, or None
    cpuproc,    \* cpuproc[c]: c->proc
    mode,       \* mode[c]: "scan" in scheduler(), "run" on the process's
                \* stack, "back" between sched()'s swtch and the release
    pc,         \* where the kernel thread of a slot is
    todo,       \* slots that p's wakeup() loop has still to visit
    np,         \* np[p]: the slot p's fork() is filling
    nextpid,
    panicked

fields == <<state, chan, killed, pid, parent>>
vars == <<state, chan, killed, pid, parent, plock, wait_lock, cpuproc, mode,
          pc, todo, np, nextpid, panicked>>

\* No spinlock is held at these points, so a timer interrupt may yield().
Preemptible == {"user", "fork_parent", "fork_ready", "wait", "exit"}

\* wait_lock is held at these points.
WaitLocked == {"wait_scan", "sleep", "sleep_locked", "reparent", "wake_init",
               "wake_parent", "zombie"}

Label == Preemptible \cup WaitLocked \cup {"free", "forkret", "asleep", "dead"}

TypeOK ==
    /\ state \in [Proc -> {"UNUSED", "USED", "SLEEPING", "RUNNABLE",
                           "RUNNING", "ZOMBIE"}]
    /\ chan \in [Proc -> Proc \cup {None}]
    /\ killed \in [Proc -> BOOLEAN]
    /\ pid \in [Proc -> Nat]
    /\ parent \in [Proc -> Proc \cup {None}]
    /\ plock \in [Proc -> CPU \cup {None}]
    /\ wait_lock \in CPU \cup {None}
    /\ cpuproc \in [CPU -> Proc \cup {None}]
    /\ mode \in [CPU -> {"scan", "run", "back"}]
    /\ pc \in [Proc -> Label]
    /\ todo \in [Proc -> SUBSET Proc]
    /\ np \in [Proc -> Proc \cup {None}]
    /\ nextpid \in Nat
    /\ panicked \in BOOLEAN

-----------------------------------------------------------------------------
\* The state main() leaves: procinit() freed every slot, userinit() made
\* initproc runnable with pid 1, every CPU is in scheduler().
Init ==
    /\ state = [p \in Proc |-> IF p = initproc THEN "RUNNABLE" ELSE "UNUSED"]
    /\ chan = [p \in Proc |-> None]
    /\ killed = [p \in Proc |-> FALSE]
    /\ pid = [p \in Proc |-> IF p = initproc THEN 1 ELSE 0]
    /\ parent = [p \in Proc |-> None]
    /\ plock = [p \in Proc |-> None]
    /\ wait_lock = None
    /\ cpuproc = [c \in CPU |-> None]
    /\ mode = [c \in CPU |-> "scan"]
    /\ pc = [p \in Proc |-> IF p = initproc THEN "forkret" ELSE "free"]
    /\ todo = [p \in Proc |-> {}]
    /\ np = [p \in Proc |-> None]
    /\ nextpid = 2
    /\ panicked = FALSE

\* Process p runs on CPU c and is at point l.
At(c, p, l) == cpuproc[c] = p /\ mode[c] = "run" /\ pc[p] = l

Goto(p, l) == pc' = [pc EXCEPT ![p] = l]

\* A system call starts: usertrap() has just found that p is not killed.
Syscall(c, p) == At(c, p, "user") /\ ~killed[p]

\* The slots wait() and reparent() look at: those whose parent is p.
ChildrenLive(p) == {q \in Proc : parent[q] = p /\ state[q] # "ZOMBIE"}
Children(p) == {q \in Proc : parent[q] = p}

-----------------------------------------------------------------------------
\* freeproc(): every field of the slot is reset.
freeproc(q) ==
    /\ state' = [state EXCEPT ![q] = "UNUSED"]
    /\ chan' = [chan EXCEPT ![q] = None]
    /\ killed' = [killed EXCEPT ![q] = FALSE]
    /\ pid' = [pid EXCEPT ![q] = 0]
    /\ parent' = [parent EXCEPT ![q] = None]

\* sched(): the CPU is back on the scheduler's stack, still holding p->lock.
sched(c, p) ==
    /\ mode' = [mode EXCEPT ![c] = "back"]
    /\ plock' = [plock EXCEPT ![p] = c]

\* fork() up to release(&np->lock), with allocproc() finding slot q.
fork(c, p, q) ==
    /\ Syscall(c, p)
    /\ plock[q] = None /\ state[q] = "UNUSED"
    /\ nextpid <= MaxPid
    /\ pid' = [pid EXCEPT ![q] = nextpid]
    /\ nextpid' = nextpid + 1
    /\ state' = [state EXCEPT ![q] = "USED"]
    /\ np' = [np EXCEPT ![p] = q]
    /\ pc' = [pc EXCEPT ![p] = "fork_parent", ![q] = "forkret"]
    /\ UNCHANGED <<chan, killed, parent, plock, wait_lock, cpuproc, mode, todo,
                   panicked>>

\* fork() when kalloc() fails in allocproc() or uvmcopy(): the slot is freed
\* again, the pid is used up.
fork_fail(c, p, q) ==
    /\ Syscall(c, p)
    /\ plock[q] = None /\ state[q] = "UNUSED"
    /\ nextpid <= MaxPid
    /\ nextpid' = nextpid + 1
    /\ freeproc(q)
    /\ UNCHANGED <<plock, wait_lock, cpuproc, mode, pc, todo, np, panicked>>

\* fork(): np->parent = p, under wait_lock.
fork_parent(c, p) ==
    /\ At(c, p, "fork_parent")
    /\ wait_lock = None
    /\ parent' = [parent EXCEPT ![np[p]] = p]
    /\ Goto(p, "fork_ready")
    /\ UNCHANGED <<state, chan, killed, pid, plock, wait_lock, cpuproc, mode,
                   todo, np, nextpid, panicked>>

\* fork(): np->state = RUNNABLE, under np->lock.
fork_ready(c, p) ==
    /\ At(c, p, "fork_ready")
    /\ plock[np[p]] = None
    /\ state' = [state EXCEPT ![np[p]] = "RUNNABLE"]
    /\ np' = [np EXCEPT ![p] = None]
    /\ Goto(p, "user")
    /\ UNCHANGED <<chan, killed, pid, parent, plock, wait_lock, cpuproc, mode,
                   todo, nextpid, panicked>>

-----------------------------------------------------------------------------
\* wait() up to acquire(&wait_lock): the call, then the lock.  getprocinfo() is
\* wait() with another struct copied out; these actions are both.
wait(c, p) ==
    /\ Syscall(c, p)
    /\ Goto(p, "wait")
    /\ UNCHANGED <<fields, plock, wait_lock, cpuproc, mode, todo, np, nextpid,
                   panicked>>

wait_acquire(c, p) ==
    /\ At(c, p, "wait")
    /\ wait_lock = None
    /\ wait_lock' = c
    /\ Goto(p, "wait_scan")
    /\ UNCHANGED <<fields, plock, cpuproc, mode, todo, np, nextpid, panicked>>

\* wait(): a zombie child is found, with its p->lock acquired ("make sure the
\* child isn't still in exit() or swtch()").
FoundZombieUnlocked(p, q) == q \in Children(p) /\ state[q] = "ZOMBIE"
FoundZombie(p, q) == q \in Children(p) /\ plock[q] = None /\ state[q] = "ZOMBIE"

\* wait(): the exit status is copied out and the slot is freed.
wait_reap(c, p, q) ==
    /\ At(c, p, "wait_scan")
    /\ FoundZombie(p, q)
    /\ freeproc(q)
    /\ wait_lock' = None
    /\ pc' = [pc EXCEPT ![p] = "user", ![q] = "free"]
    /\ UNCHANGED <<plock, cpuproc, mode, todo, np, nextpid, panicked>>

\* wait() returns -1: copyout() of the status failed, or there is no zombie
\* and p has no child or was killed.  (user/init.c passes a null address: for
\* initproc there is nothing to copy.)
wait_fail(c, p) ==
    /\ At(c, p, "wait_scan")
    /\ \/ p # initproc /\ \E q \in Proc : FoundZombie(p, q)
       \/ /\ \A q \in Children(p) : state[q] # "ZOMBIE"
          /\ Children(p) = {} \/ killed[p]
    /\ wait_lock' = None
    /\ Goto(p, "user")
    /\ UNCHANGED <<fields, plock, cpuproc, mode, todo, np, nextpid, panicked>>

\* wait() found children but no zombie and goes on to sleep(p, &wait_lock).
wait_none(c, p) ==
    /\ At(c, p, "wait_scan")
    /\ Children(p) # {} /\ ~killed[p]
    /\ \A q \in Children(p) : state[q] # "ZOMBIE"
    /\ Goto(p, "sleep")
    /\ UNCHANGED <<fields, plock, wait_lock, cpuproc, mode, todo, np, nextpid,
                   panicked>>

\* sleep(): acquire(&p->lock) while lk is still held.
sleep_acquire(c, p) ==
    /\ At(c, p, "sleep")
    /\ plock[p] = None
    /\ plock' = [plock EXCEPT ![p] = c]
    /\ Goto(p, "sleep_locked")
    /\ UNCHANGED <<fields, wait_lock, cpuproc, mode, todo, np, nextpid, panicked>>

\* The channel wait() sleeps on.
WaitChanLock(p) == "wait_lock"
WaitChan(p) == p

\* sleep(): release(lk), set chan and state, sched().
sleep(c, p) ==
    /\ At(c, p, "sleep_locked")
    /\ wait_lock' = None
    /\ chan' = [chan EXCEPT ![p] = WaitChan(p)]
    /\ state' = [state EXCEPT ![p] = "SLEEPING"]
    /\ sched(c, p)
    /\ Goto(p, "asleep")
    /\ UNCHANGED <<killed, pid, parent, cpuproc, todo, np, nextpid, panicked>>

-----------------------------------------------------------------------------
\* exit() is called, by the program or by usertrap() for a killed process.
\* initproc must not: exit() panics.
exit(c, p) ==
    /\ At(c, p, "user")
    /\ p # initproc
    /\ Goto(p, "exit")
    /\ UNCHANGED <<fields, plock, wait_lock, cpuproc, mode, todo, np, nextpid,
                   panicked>>

\* init exits when somebody has killed it, and when its own fork() or wait()
\* fails (user/init.c).
exit_init(c, p) ==
    /\ At(c, p, "user")
    /\ p = initproc
    /\ panicked' = TRUE
    /\ UNCHANGED <<fields, plock, wait_lock, cpuproc, mode, pc, todo, np, nextpid>>

\* exit(): acquire(&wait_lock).
exit_acquire(c, p) ==
    /\ At(c, p, "exit")
    /\ wait_lock = None
    /\ wait_lock' = c
    /\ Goto(p, "reparent")
    /\ UNCHANGED <<fields, plock, cpuproc, mode, todo, np, nextpid, panicked>>

\* The children reparent() passes on: all of them.
AbandonedLive(p) == {q \in Children(p) : state[q] # "ZOMBIE"}
Abandoned(p) == Children(p)

\* reparent(): one abandoned child q is given to init; wakeup(initproc)
\* follows.
reparent(c, p, q) ==
    /\ At(c, p, "reparent")
    /\ q \in Abandoned(p)
    /\ parent' = [parent EXCEPT ![q] = initproc]
    /\ todo' = [todo EXCEPT ![p] = Proc \ {p}]
    /\ Goto(p, "wake_init")
    /\ UNCHANGED <<state, chan, killed, pid, plock, wait_lock, cpuproc, mode, np,
                   nextpid, panicked>>

\* reparent() is done; wakeup(p->parent) follows.
reparent_done(c, p) ==
    /\ At(c, p, "reparent")
    /\ Abandoned(p) = {}
    /\ todo' = [todo EXCEPT ![p] = Proc \ {p}]
    /\ Goto(p, "wake_parent")
    /\ UNCHANGED <<fields, plock, wait_lock, cpuproc, mode, np, nextpid, panicked>>

\* wakeup(ch), one slot: only a process asleep on ch is made runnable.
Woken(q, ch) == IF state[q] = "SLEEPING" /\ chan[q] = ch THEN "RUNNABLE"
                                                          ELSE state[q]

\* The argument of the wakeup() that p is in.
WakeChanSelf(p) == IF pc[p] = "wake_init" THEN initproc ELSE p
WakeChan(p) == IF pc[p] = "wake_init" THEN initproc ELSE parent[p]

\* One iteration of the wakeup() loop that p is in, on slot q.
wakeup(c, p, q) ==
    /\ \/ At(c, p, "wake_init")
       \/ At(c, p, "wake_parent")
    /\ q \in todo[p]
    /\ plock[q] = None
    /\ state' = [state EXCEPT ![q] = Woken(q, WakeChan(p))]
    /\ todo' = [todo EXCEPT ![p] = @ \ {q}]
    /\ UNCHANGED <<chan, killed, pid, parent, plock, wait_lock, cpuproc, mode, pc,
                   np, nextpid, panicked>>

wakeup_done(c, p) ==
    /\ todo[p] = {}
    /\ \/ At(c, p, "wake_init") /\ Goto(p, "reparent")
       \/ At(c, p, "wake_parent") /\ Goto(p, "zombie")
    /\ UNCHANGED <<fields, plock, wait_lock, cpuproc, mode, todo, np, nextpid,
                   panicked>>

\* exit(): release(&wait_lock), before sched().
ExitKeepsLock == UNCHANGED wait_lock
ExitReleases == wait_lock' = None

\* exit(): acquire(&p->lock), become a zombie, release(&wait_lock), sched().
exit_zombie(c, p) ==
    /\ At(c, p, "zombie")
    /\ plock[p] = None
    /\ state' = [state EXCEPT ![p] = "ZOMBIE"]
    /\ ExitReleases
    /\ sched(c, p)
    /\ Goto(p, "dead")
    /\ UNCHANGED <<chan, killed, pid, parent, cpuproc, todo, np, nextpid, panicked>>

-----------------------------------------------------------------------------
\* kill(pid), on the slot q whose pid field equals the argument.
kill(c, p, q) ==
    /\ Syscall(c, p)
    /\ plock[q] = None
    /\ killed' = [killed EXCEPT ![q] = TRUE]
    /\ state' = [state EXCEPT ![q] = IF @ = "SLEEPING" THEN "RUNNABLE" ELSE @]
    /\ UNCHANGED <<chan, pid, parent, plock, wait_lock, cpuproc, mode, pc, todo,
                   np, nextpid, panicked>>

\* yield(): the timer interrupt takes the CPU away.
yield(c, p) ==
    /\ \E l \in Preemptible : At(c, p, l)
    /\ plock[p] = None
    /\ state' = [state EXCEPT ![p] = "RUNNABLE"]
    /\ sched(c, p)
    /\ UNCHANGED <<chan, killed, pid, parent, wait_lock, cpuproc, pc, todo, np,
                   nextpid, panicked>>

\* Where a process goes on when it is switched to: forkret() returns to user
\* space, sleep() reacquires lk, a preempted process continues.
Resumed(p) == CASE pc[p] = "forkret" -> "user"
                [] pc[p] = "asleep" -> "wait"
                [] OTHER -> pc[p]

\* scheduler()'s second look at the chosen slot, with its lock acquired.
RunnableUnlocked(p) == state[p] = "RUNNABLE"
Runnable(p) == plock[p] = None /\ state[p] = "RUNNABLE"

\* scheduler() runs p: it acquires p->lock and switches; what p does first is
\* to tidy up p->chan (after a sleep) and to release p->lock.
scheduler(c, p) ==
    /\ mode[c] = "scan"
    /\ Runnable(p)
    /\ state' = [state EXCEPT ![p] = "RUNNING"]
    /\ cpuproc' = [cpuproc EXCEPT ![c] = p]
    /\ mode' = [mode EXCEPT ![c] = "run"]
    /\ chan' = [chan EXCEPT ![p] = None]
    /\ Goto(p, Resumed(p))
    /\ UNCHANGED <<killed, pid, parent, plock, wait_lock, todo, np, nextpid,
                   panicked>>

\* scheduler() after the process switched back: c->proc = 0, release.
scheduler_back(c) ==
    /\ mode[c] = "back"
    /\ plock' = [plock EXCEPT ![cpuproc[c]] = None]
    /\ cpuproc' = [cpuproc EXCEPT ![c] = None]
    /\ mode' = [mode EXCEPT ![c] = "scan"]
    /\ UNCHANGED <<fields, wait_lock, pc, todo, np, nextpid, panicked>>

\* panic() spins for ever.
panic == panicked /\ UNCHANGED vars

\* Steps a thread in the kernel takes by itself once its call has begun.
Proceed(c, p) ==
    \/ fork_parent(c, p)
    \/ fork_ready(c, p)
    \/ wait_acquire(c, p)
    \/ \E q \in Proc : wait_reap(c, p, q)
    \/ wait_fail(c, p)
    \/ wait_none(c, p)
    \/ sleep_acquire(c, p)
    \/ sleep(c, p)
    \/ exit_acquire(c, p)
    \/ \E q \in Proc : reparent(c, p, q)
    \/ reparent_done(c, p)
    \/ \E q \in Proc : wakeup(c, p, q)
    \/ wakeup_done(c, p)
    \/ exit_zombie(c, p)

\* Calls the program makes, and what usertrap() does for a killed process.
Call(c, p) ==
    \/ \E q \in Proc : fork(c, p, q)
    \/ \E q \in Proc : fork_fail(c, p, q)
    \/ wait(c, p)
    \/ exit(c, p)
    \/ exit_init(c, p)
    \/ \E q \in Proc : kill(c, p, q)

Step(c, p) == Proceed(c, p) \/ Call(c, p) \/ yield(c, p) \/ scheduler(c, p)

Next ==
    \/ ~panicked /\ \E c \in CPU, p \in Proc : Step(c, p)
    \/ ~panicked /\ \E c \in CPU : scheduler_back(c)
    \/ panic

Spec == Init /\ [][Next]_vars

-----------------------------------------------------------------------------
(* Safety *)

\* A kernel stack is in use on one CPU at most: a process that yields, sleeps
\* or exits cannot be switched to elsewhere before sched()'s swtch has left
\* its stack, because the scheduler must acquire p->lock first.
StackExclusive ==
    \A c, d \in CPU : cpuproc[c] # None /\ cpuproc[c] = cpuproc[d] => c = d

\* The assertions of sched(): whoever switches to the scheduler holds p->lock,
\* holds no other lock, and has left the state RUNNING.
SchedAsserts ==
    \A c \in CPU : mode[c] = "back" =>
        /\ plock[cpuproc[c]] = c
        /\ wait_lock # c
        /\ state[cpuproc[c]] # "RUNNING"

\* No exit is missed: whenever wait_lock is free, a process asleep in wait()
\* has a child left to wait for and none of its children is a zombie.
NoMissedExit ==
    wait_lock = None =>
        \A p \in Proc : state[p] = "SLEEPING" =>
            /\ Children(p) # {}
            /\ \A q \in Children(p) : state[q] # "ZOMBIE"

\* Every process but init that can run or waits to be reaped has a parent
\* that can still call wait(): exit() leaves no child behind, and no reaped or
\* half-made slot is anybody's parent.
ParentAlive ==
    \A q \in Proc \ {initproc} : state[q] \notin {"UNUSED", "USED"} =>
        /\ parent[q] \in Proc
        /\ state[parent[q]] \notin {"UNUSED", "USED", "ZOMBIE"}

\* A zombie's slot, page table and kernel stack are released only by its own
\* parent, inside wait(), and only after the CPU it died on has left its
\* kernel stack.
ReapedByWait ==
    \A q \in Proc : state[q] = "ZOMBIE" /\ state'[q] # "ZOMBIE" =>
        /\ state'[q] = "UNUSED"
        /\ \A c \in CPU : cpuproc[c] # q
        /\ \E c \in CPU : At(c, parent[q], "wait_scan") /\ wait_lock = c

\* ReapedByWait, of every step: freeproc() is for zombies whose CPU has left.
ReapAfterSwitch == [][ReapedByWait]_vars

-----------------------------------------------------------------------------
(* Two statements of the comments that the code does not keep *)

\* "Kill the process with the given pid": kill() marks processes, so a free
\* slot, which is no process, is never marked as killed.
UnusedNotKilled == \A q \in Proc : state[q] = "UNUSED" => ~killed[q]

\* "Wake process from sleep()": a process that kill() has marked is not left
\* asleep in wait(), it goes on to usertrap() and exits.
KilledNotAsleep ==
    \A p \in Proc \ {initproc} : state[p] = "SLEEPING" => ~killed[p]

-----------------------------------------------------------------------------
(* Liveness *)

\* A thread inside a call goes on; user/init.c calls wait() until it gives up.
Advance(c, p) == Proceed(c, p) \/ (p = initproc /\ wait(c, p))

\* CPU c serves process p.  With a CPU for every process (|CPU| >= |Proc|) the
\* policy of choose_next_process() withholds the CPU from nobody.  Fairness
\* towards a thread inside a call is strong because a spinlock it needs is free
\* again and again, not from some time on.
Serves(c, p) ==
    /\ SF_vars(~panicked /\ Advance(c, p))
    /\ WF_vars(~panicked /\ scheduler(c, p))
    /\ WF_vars(~panicked /\ scheduler_back(c))

\* An orphan does not stay a zombie: once its parent is init it is reaped,
\* unless somebody killed init or it gave up.
OrphansReaped ==
    \A q \in Proc : (state[q] = "ZOMBIE" /\ parent[q] = initproc)
                        ~> (state[q] = "UNUSED" \/ killed[initproc] \/ panicked)

\* A process inside wait() that has a zombie child returns from wait().
WaitReturns ==
    \A p \in Proc :
        (/\ pc[p] \in {"wait", "wait_scan", "sleep", "sleep_locked", "asleep"}
         /\ \E q \in Proc : parent[q] = p /\ state[q] = "ZOMBIE")
            ~> (pc[p] = "user" \/ panicked)
=============================================================================
