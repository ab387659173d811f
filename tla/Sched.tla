-------------------------------- MODULE Sched -------------------------------
(***************************************************************************)
(* The scheduling policy and the clock: choose_next_process() and          *)
(* scheduler() (kernel/proc.c), the timer interrupt clockintr()            *)
(* (kernel/trap.c) with update_time(), sys_sleep(), and the times that     *)
(* exit() computes.                                                        *)
(*                                                                         *)
(* sched_mode is SCHED_PRIORITY: its initial value, which nothing changes. *)
(*                                                                         *)
(* What a process does with p->lock held is one step; module Proc is about *)
(* those locks, about parents and about kill().  The scans of the process  *)
(* table are slot by slot.                                                 *)
(***************************************************************************)
EXTENDS Integers

CONSTANTS NPROC,        \* slots are 1..NPROC; slot 1 is initproc
          CPU, cpu0,    \* the harts; hart 0 keeps the time
          None,
          Wrap,         \* the times are unsigned ints: they wrap here
          MaxSleep,     \* bound on the argument of sleep()
          MaxExpiries   \* bound on the periods of hart 0's timer

Slot == 1..NPROC

ASSUME SchedAssumption ==
    /\ NPROC \in Nat \ {0} /\ MaxSleep \in Nat /\ MaxExpiries \in Nat
    /\ Wrap \in Nat /\ Wrap > 4 * MaxExpiries
    /\ cpu0 \in CPU /\ None \notin Slot /\ None \notin CPU

VARIABLES
    ticks,
    tickslock,  \* the hart that holds it, or None
    uidx,       \* the slot update_time() is at
    state, creation_time, run_time, waiting_time, turnaround_time, finish_time,
    pc,         \* of a process: "user", "fork" in fork(), and in sys_sleep()
                \* "test", "sleep" with tickslock held, "asleep" without
    np,         \* the slot fork() is filling
    ticks0, n,  \* sys_sleep()'s variables
    cur,        \* cur[c]: c->proc
    at,         \* what hart c does: "loop", "choose", "try", "wfi" in
                \* scheduler(), "run" a process
    idx,        \* the slot choose_next_process() is at on hart c
    chosen,     \* the process it has chosen so far
    since,      \* slots RUNNABLE ever since hart c's scan began (history)
    lost,       \* the process chosen so far was freed in the scan (history)
    intr,       \* where hart c's timer interrupt is: None, "update",
                \* "wakeup", "tail"
    inclock,    \* the process is in clockintr(), after its yield()
    expired,    \* hart c's timer has passed stimecmp
    expiries    \* periods of hart 0's timer that have ended (history)

clock == <<ticks, tickslock, uidx>>
times == <<creation_time, run_time, waiting_time, turnaround_time, finish_time>>
call == <<pc, np, ticks0, n>>
hart == <<cur, at>>
scan == <<idx, chosen>>
procs == <<state, since, lost>>
handler == <<intr, inclock>>
timer == <<expired, expiries>>
vars == <<clock, times, call, hart, scan, procs, handler, timer>>

TypeOK ==
    /\ ticks \in Nat /\ tickslock \in CPU \cup {None} /\ uidx \in Slot
    /\ state \in [Slot -> {"UNUSED", "USED", "SLEEPING", "RUNNABLE", "RUNNING",
                          "ZOMBIE"}]
    /\ creation_time \in [Slot -> Nat] /\ run_time \in [Slot -> Nat]
    /\ waiting_time \in [Slot -> 0..(Wrap - 1)] /\ turnaround_time \in [Slot -> Nat]
    /\ finish_time \in [Slot -> Nat]
    /\ pc \in [Slot -> {"user", "fork", "test", "sleep", "asleep"}]
    /\ np \in [Slot -> Slot \cup {None}]
    /\ ticks0 \in [Slot -> Nat] /\ n \in [Slot -> 0..MaxSleep]
    /\ cur \in [CPU -> Slot \cup {None}]
    /\ at \in [CPU -> {"loop", "choose", "try", "wfi", "run"}]
    /\ idx \in [CPU -> Slot] /\ chosen \in [CPU -> Slot \cup {None}]
    /\ since \in [CPU -> SUBSET Slot] /\ lost \in [CPU -> BOOLEAN]
    /\ intr \in [CPU -> {None, "update", "wakeup", "tail"}]
    /\ inclock \in [Slot -> BOOLEAN]
    /\ expired \in [CPU -> BOOLEAN] /\ expiries \in 0..MaxExpiries

Zero == [p \in Slot |-> 0]

\* userinit() has made initproc runnable, every hart enters scheduler().
Init ==
    /\ ticks = 0 /\ tickslock = None /\ uidx = 1
    /\ state = [p \in Slot |-> IF p = 1 THEN "RUNNABLE" ELSE "UNUSED"]
    /\ creation_time = Zero /\ run_time = Zero /\ waiting_time = Zero
    /\ turnaround_time = Zero /\ finish_time = Zero
    /\ pc = [p \in Slot |-> "user"] /\ np = [p \in Slot |-> None]
    /\ ticks0 = Zero /\ n = Zero
    /\ cur = [c \in CPU |-> None] /\ at = [c \in CPU |-> "loop"]
    /\ idx = [c \in CPU |-> 1] /\ chosen = [c \in CPU |-> None]
    /\ since = [c \in CPU |-> {}] /\ lost = [c \in CPU |-> FALSE]
    /\ intr = [c \in CPU |-> None] /\ inclock = [p \in Slot |-> FALSE]
    /\ expired = [c \in CPU |-> FALSE] /\ expiries = 0

\* The process of hart c is p, it is at l and no interrupt is being handled.
Runs(c, p, l) ==
    at[c] = "run" /\ cur[c] = p /\ pc[p] = l /\ intr[c] = None /\ ~inclock[p]

\* p's state becomes s; a slot that was RUNNABLE is no longer so all the time.
SetState(p, s) ==
    /\ state' = [state EXCEPT ![p] = s]
    /\ since' = [c \in CPU |-> since[c] \ {p}]

\* p's state becomes s and hart c goes back to scheduler()'s loop.
LeaveCPU(c, p, s) ==
    /\ SetState(p, s) /\ UNCHANGED lost
    /\ cur' = [cur EXCEPT ![c] = None]
    /\ at' = [at EXCEPT ![c] = "loop"]

-----------------------------------------------------------------------------
KeepRunTime(q, t) ==
    /\ creation_time' = [creation_time EXCEPT ![q] = t]
    /\ UNCHANGED <<run_time, waiting_time, turnaround_time, finish_time>>

\* The time fields of slot q start at zero, its creation at t.
ResetTimes(q, t) ==
    /\ creation_time' = [creation_time EXCEPT ![q] = t]
    /\ run_time' = [run_time EXCEPT ![q] = 0]
    /\ waiting_time' = [waiting_time EXCEPT ![q] = 0]
    /\ turnaround_time' = [turnaround_time EXCEPT ![q] = 0]
    /\ finish_time' = [finish_time EXCEPT ![q] = 0]

\* fork() fills a free slot, with np->lock held; allocproc() reads ticks
\* without tickslock.  (A fork() that fails leaves the slot as it was.)
fork(c, p, q) ==
    /\ Runs(c, p, "user")
    /\ state[q] = "UNUSED"
    /\ SetState(q, "USED")
    /\ ResetTimes(q, ticks)
    /\ np' = [np EXCEPT ![p] = q]
    /\ pc' = [pc EXCEPT ![p] = "fork"]
    /\ UNCHANGED <<clock, ticks0, n, hart, scan, lost, handler, timer>>

\* fork() has released np->lock, set np->parent and acquired np->lock again.
fork_ready(c, p) ==
    /\ Runs(c, p, "fork")
    /\ SetState(np[p], "RUNNABLE")
    /\ np' = [np EXCEPT ![p] = None]
    /\ pc' = [pc EXCEPT ![p] = "user"]
    /\ UNCHANGED <<clock, times, ticks0, n, hart, scan, lost, handler, timer>>

\* exit(): the times are computed, with ticks read without tickslock.
exit(c, p) ==
    /\ Runs(c, p, "user") /\ p # 1
    /\ finish_time' = [finish_time EXCEPT ![p] = ticks]
    /\ turnaround_time' = [turnaround_time EXCEPT ![p] = ticks - creation_time[p]]
    /\ waiting_time' = [waiting_time EXCEPT ![p] =
                            ((ticks - creation_time[p]) - run_time[p]) % Wrap]
    /\ LeaveCPU(c, p, "ZOMBIE")
    /\ UNCHANGED <<clock, creation_time, run_time, call, scan, handler, timer>>

\* getprocinfo() (or wait()) finds a zombie child and frees it; a scan whose
\* choice it was goes on with a creation_time of 0.
getprocinfo(c, p, q) ==
    /\ Runs(c, p, "user")
    /\ state[q] = "ZOMBIE"
    /\ SetState(q, "UNUSED")
    /\ lost' = [d \in CPU |-> lost[d] \/ chosen[d] = q]
    /\ ResetTimes(q, 0)
    /\ UNCHANGED <<clock, call, hart, scan, handler, timer>>

\* sys_sleep(k): acquire(&tickslock), note the time; the loop follows.
sys_sleep(c, p, k) ==
    /\ Runs(c, p, "user") /\ tickslock = None
    /\ tickslock' = c
    /\ ticks0' = [ticks0 EXCEPT ![p] = ticks]
    /\ n' = [n EXCEPT ![p] = k]
    /\ pc' = [pc EXCEPT ![p] = "test"]
    /\ UNCHANGED <<ticks, uidx, np, times, hart, scan, procs, handler, timer>>

\* sys_sleep()'s loop goes on, and tickslock is kept from the test to sleep().
TooEarly(p) == ticks - ticks0[p] < n[p]

TestReleases(c) == None
TestKeeps(c) == c

sleep_test(c, p) ==
    /\ Runs(c, p, "test") /\ TooEarly(p)
    /\ tickslock' = TestKeeps(c)
    /\ pc' = [pc EXCEPT ![p] = "sleep"]
    /\ UNCHANGED <<ticks, uidx, np, ticks0, n, times, hart, scan, procs, handler, timer>>

\* sleep(&ticks, &tickslock): acquire(&p->lock), release(&tickslock), sched().
sleep(c, p) ==
    /\ Runs(c, p, "sleep")
    /\ tickslock' = None
    /\ pc' = [pc EXCEPT ![p] = "asleep"]
    /\ LeaveCPU(c, p, "SLEEPING")
    /\ UNCHANGED <<ticks, uidx, np, ticks0, n, times, scan, handler, timer>>

\* sleep() returns: it acquires tickslock again.
sleep_wake(c, p) ==
    /\ Runs(c, p, "asleep") /\ tickslock = None
    /\ tickslock' = c
    /\ pc' = [pc EXCEPT ![p] = "test"]
    /\ UNCHANGED <<ticks, uidx, np, ticks0, n, times, hart, scan, procs, handler, timer>>

sleep_return(c, p) ==
    /\ Runs(c, p, "test") /\ ~TooEarly(p)
    /\ tickslock' = None
    /\ pc' = [pc EXCEPT ![p] = "user"]
    /\ ticks0' = [ticks0 EXCEPT ![p] = 0] /\ n' = [n EXCEPT ![p] = 0]
    /\ UNCHANGED <<ticks, uidx, np, times, hart, scan, procs, handler, timer>>

-----------------------------------------------------------------------------
\* Hart c's time passes stimecmp.
expire(c) ==
    /\ ~expired[c]
    /\ c = cpu0 => expiries < MaxExpiries
    /\ expired' = [expired EXCEPT ![c] = TRUE]
    /\ expiries' = IF c = cpu0 THEN expiries + 1 ELSE expiries
    /\ UNCHANGED <<clock, times, call, hart, scan, procs, handler>>

\* A timer interrupt is taken in scheduler(), between two slots of its scan
\* too, and in a process unless it is in clockintr() already or holds tickslock.
Interruptible(c) ==
    /\ expired[c] /\ intr[c] = None /\ tickslock # c
    /\ at[c] = "run" => ~inclock[cur[c]]

\* clockintr() starts.  Hart 0 advances the time.
clockintr(c) ==
    /\ Interruptible(c)
    /\ IF c = cpu0
       THEN /\ tickslock = None /\ tickslock' = c
            /\ ticks' = ticks + 1
            /\ intr' = [intr EXCEPT ![c] = "update"]
       ELSE /\ intr' = [intr EXCEPT ![c] = "tail"]
            /\ UNCHANGED <<ticks, tickslock>>
    /\ UNCHANGED <<uidx, times, call, hart, scan, procs, inclock, timer>>

PastEnd(i) == i > NPROC

\* The loops over proc[NPROC] end with slot i.
LastSlot(i) == i = NPROC

\* update_time(), one slot.
update_time(c) ==
    /\ intr[c] = "update"
    /\ run_time' = [run_time EXCEPT ![uidx] =
                        IF state[uidx] = "RUNNING" THEN @ + 1 ELSE @]
    /\ IF LastSlot(uidx)
       THEN uidx' = 1 /\ intr' = [intr EXCEPT ![c] = "wakeup"]
       ELSE uidx' = uidx + 1 /\ UNCHANGED intr
    /\ UNCHANGED <<ticks, tickslock, creation_time, waiting_time, turnaround_time,
                   finish_time, call, hart, scan, procs, inclock, timer>>

\* wakeup(&ticks), release(&tickslock).
Awake(p) == IF state[p] = "SLEEPING" THEN "RUNNABLE" ELSE state[p]

wakeup_ticks(c) ==
    /\ intr[c] = "wakeup"
    /\ state' = [p \in Slot |-> Awake(p)]
    /\ tickslock' = None
    /\ intr' = [intr EXCEPT ![c] = "tail"]
    /\ UNCHANGED <<ticks, uidx, times, call, hart, scan, since, lost, inclock, timer>>

\* clockintr() yields before it asks for the next interrupt.
clockintr_yield(c, p) ==
    /\ intr[c] = "tail" /\ at[c] = "run" /\ cur[c] = p
    /\ inclock' = [inclock EXCEPT ![p] = TRUE]
    /\ intr' = [intr EXCEPT ![c] = None]
    /\ LeaveCPU(c, p, "RUNNABLE")
    /\ UNCHANGED <<clock, times, call, scan, timer>>

NoRearm(c) == expired

\* w_stimecmp(): asks for the next interrupt of the hart that executes it.
w_stimecmp(c) == [expired EXCEPT ![c] = FALSE]

\* Later clockintr() asks for the next interrupt, and usertrap() or kerneltrap()
\* yields.
clockintr_return(c, p) ==
    /\ at[c] = "run" /\ cur[c] = p /\ inclock[p]
    /\ expired' = w_stimecmp(c)
    /\ inclock' = [inclock EXCEPT ![p] = FALSE]
    /\ LeaveCPU(c, p, "RUNNABLE")
    /\ UNCHANGED <<clock, times, call, scan, intr, expiries>>

\* scheduler() after wfi.
Wake(c) ==
    /\ at' = [at EXCEPT ![c] = "loop"]
    /\ since' = [since EXCEPT ![c] = {}]
    /\ lost' = [lost EXCEPT ![c] = FALSE]

\* clockintr() returns to scheduler(): there is no process.
clockintr_idle(c) ==
    /\ intr[c] = "tail" /\ at[c] # "run"
    /\ expired' = w_stimecmp(c)
    /\ intr' = [intr EXCEPT ![c] = None]
    /\ IF at[c] = "wfi" THEN Wake(c) ELSE UNCHANGED <<at, since, lost>>
    /\ UNCHANGED <<clock, times, call, cur, scan, state, inclock, expiries>>

-----------------------------------------------------------------------------
\* scheduler(): intr_on() (a pending interrupt is taken first), then the scan.
scan_start(c) ==
    /\ at[c] = "loop" /\ intr[c] = None /\ ~expired[c]
    /\ at' = [at EXCEPT ![c] = "choose"]
    /\ since' = [since EXCEPT ![c] = {p \in Slot : state[p] = "RUNNABLE"}]
    /\ UNCHANGED <<clock, times, call, cur, scan, state, lost, handler, timer>>

\* choose_next_process(): the newer process is preferred.
Preferred(q, p) == creation_time[q] > creation_time[p]


\* choose_next_process(): q, if RUNNABLE, replaces p, the choice so far.
Replaces(q, p) == p = None \/ Preferred(q, p)

\* choose_next_process(), one slot.
choose_next_process(c) ==
    /\ at[c] = "choose" /\ intr[c] = None
    /\ chosen' = [chosen EXCEPT ![c] =
            IF state[idx[c]] = "RUNNABLE" /\ Replaces(idx[c], @)
            THEN idx[c] ELSE @]
    /\ IF LastSlot(idx[c])
       THEN at' = [at EXCEPT ![c] = "try"] /\ idx' = [idx EXCEPT ![c] = 1]
       ELSE idx' = [idx EXCEPT ![c] = @ + 1] /\ UNCHANGED at
    /\ UNCHANGED <<clock, times, call, cur, procs, handler, timer>>

StillRunnable(c) == chosen[c] # None /\ state[chosen[c]] = "RUNNABLE"

\* scheduler(): the chosen process is still RUNNABLE and runs.
switch(c) ==
    /\ at[c] = "try" /\ intr[c] = None /\ StillRunnable(c)
    /\ state' = [state EXCEPT ![chosen[c]] = "RUNNING"]
    /\ since' = [d \in CPU |-> IF d = c THEN {} ELSE since[d] \ {chosen[c]}]
    /\ lost' = [lost EXCEPT ![c] = FALSE]
    /\ cur' = [cur EXCEPT ![c] = chosen[c]]
    /\ at' = [at EXCEPT ![c] = "run"]
    /\ chosen' = [chosen EXCEPT ![c] = None]
    /\ UNCHANGED <<clock, times, call, idx, handler, timer>>

\* scheduler(): no process was found, or another hart took it.
idle(c) ==
    /\ at[c] = "try" /\ intr[c] = None /\ ~StillRunnable(c)
    /\ at' = [at EXCEPT ![c] = "wfi"]
    /\ chosen' = [chosen EXCEPT ![c] = None]
    /\ UNCHANGED <<clock, times, call, cur, idx, procs, handler, timer>>

\* A device interrupt ends wfi.
device_intr(c) ==
    /\ at[c] = "wfi" /\ intr[c] = None
    /\ Wake(c)
    /\ UNCHANGED <<clock, times, call, cur, scan, state, handler, timer>>

Process(c, p) ==
    \/ \E q \in Slot : fork(c, p, q) \/ getprocinfo(c, p, q)
    \/ fork_ready(c, p)
    \/ exit(c, p)
    \/ \E k \in 0..MaxSleep : sys_sleep(c, p, k)
    \/ sleep_test(c, p)
    \/ sleep(c, p)
    \/ sleep_wake(c, p)
    \/ sleep_return(c, p)
    \/ clockintr_yield(c, p)
    \/ clockintr_return(c, p)

Hart(c) ==
    \/ expire(c) \/ clockintr(c) \/ update_time(c) \/ wakeup_ticks(c) \/ clockintr_idle(c)
    \/ scan_start(c) \/ choose_next_process(c) \/ switch(c) \/ idle(c) \/ device_intr(c)

Next == \E c \in CPU : Hart(c) \/ \E p \in Slot : Process(c, p)

Spec == Init /\ [][Next]_vars

-----------------------------------------------------------------------------
(* Properties *)

\* prioritytest.c announces the policy as "Newer = Higher Priority": no hart
\* switches to a process while a newer one has been RUNNABLE ever since that
\* hart's scan began.
NewestFirst ==
    \A c \in CPU : at[c] = "try" /\ StillRunnable(c) =>
        \A q \in since[c] : ~Preferred(q, chosen[c])


\* Whoever sleeps in sys_sleep() is woken at the tick at which its time is
\* over: outside clockintr() no process is asleep too long, whenever the tick
\* came between the test of ticks and sleep().
NoOversleep ==
    (\A c \in CPU : intr[c] \notin {"update", "wakeup"}) =>
        \A p \in Slot : state[p] = "SLEEPING" => TooEarly(p)

\* run_time exceeds the age of a process by one tick at most.  It can exceed
\* it: update_time() may visit a process that was made and started after the
\* tick, so that exit() computes a waiting_time of Wrap - 1.
RunTimeBound ==
    \A p \in Slot : state[p] \in {"SLEEPING", "RUNNABLE", "RUNNING"} =>
        run_time[p] <= ticks - creation_time[p] + 1

\* ticks counts a period of hart 0's timer at most twice: once in the process
\* it interrupts and, as clockintr() yields before it sets stimecmp, once more
\* in the scheduler.
TicksPerPeriod == ticks <= 2 * expiries
=============================================================================
