-------------------------------- MODULE Pipe --------------------------------
(***************************************************************************)
(* One pipe of kernel/pipe.c, shared by processes that hold its read end   *)
(* and processes that hold its write end (fork() copies descriptors), with *)
(* the part of fileclose() that decides who calls pipeclose().             *)
(*                                                                         *)
(* pi->lock is explicit and every byte copied is a step, because killed()  *)
(* is asked again for every byte and kill() does not take pi->lock.        *)
(* sleep() and wakeup() are atomic here; module Proc is about them.        *)
(***************************************************************************)
EXTENDS Naturals, Sequences

CONSTANTS Writer, Reader,  \* processes with a descriptor of either end
          Byte,
          PIPESIZE,
          Wrap,            \* the counters are unsigned ints: they wrap here
          MaxN,            \* bound on the byte count of a call
          Killable,        \* processes somebody may kill
          None

Proc == Writer \cup Reader

ASSUME PipeAssumption ==
    /\ PIPESIZE \in Nat \ {0} /\ Wrap \in Nat /\ MaxN \in Nat
    /\ Wrap > PIPESIZE /\ Wrap % PIPESIZE = 0
    /\ Writer \cap Reader = {} /\ None \notin Proc
    /\ Killable \subseteq Proc

VARIABLES
    data, nread, nwrite, readopen, writeopen,  \* struct pipe
    lock,     \* the process that holds pi->lock, or None
    freed,    \* kfree() has taken the page back
    holders,  \* processes whose descriptor is open: the files' ref counts
    pc, n, i, \* per process: place, the arguments n and the loop variable i
    killed,
    ch        \* the byte piperead() took last

pipe == <<data, nread, nwrite, readopen, writeopen>>
vars == <<data, nread, nwrite, readopen, writeopen, lock, freed, holders, pc, n, i,
          killed, ch>>

Asleep == {"write_asleep", "read_asleep"}
Label == Asleep \cup {"idle", "gone", "write_acquire", "write_loop", "write_go",
                      "read_acquire", "read_wait", "read_go", "read_copy", "close",
                      "kfree"}

TypeOK ==
    /\ data \in [0..(PIPESIZE - 1) -> Byte]
    /\ nread \in 0..(Wrap - 1) /\ nwrite \in 0..(Wrap - 1)
    /\ readopen \in BOOLEAN /\ writeopen \in BOOLEAN
    /\ lock \in Proc \cup {None}
    /\ freed \in BOOLEAN
    /\ holders \subseteq Proc
    /\ pc \in [Proc -> Label]
    /\ n \in [Proc -> 0..MaxN] /\ i \in [Proc -> 0..MaxN]
    /\ killed \in [Proc -> BOOLEAN]
    /\ ch \in Byte

\* pipealloc() has just made the pipe, of a page with arbitrary contents.
Init ==
    /\ data \in [0..(PIPESIZE - 1) -> Byte]
    /\ nread = 0 /\ nwrite = 0 /\ readopen = TRUE /\ writeopen = TRUE
    /\ lock = None /\ freed = FALSE /\ holders = Proc
    /\ pc = [p \in Proc |-> "idle"]
    /\ n = [p \in Proc |-> 0] /\ i = [p \in Proc |-> 0]
    /\ killed = [p \in Proc |-> FALSE]
    /\ ch \in Byte

\* The same, later: the page was freed and is a pipe again.
pipealloc ==
    /\ freed
    /\ nread' = 0 /\ nwrite' = 0 /\ readopen' = TRUE /\ writeopen' = TRUE
    /\ freed' = FALSE /\ holders' = Proc
    /\ pc' = [p \in Proc |-> "idle"]
    /\ killed' = [p \in Proc |-> FALSE]
    /\ UNCHANGED <<data, lock, n, i, ch>>

Goto(p, l) == pc' = [pc EXCEPT ![p] = l]

\* wakeup(): the processes asleep at l go on to reacquire pi->lock.
Wake(w, l, next) == [p \in Proc |-> IF w[p] = l THEN next ELSE w[p]]
WakeReaders(w) == Wake(w, "read_asleep", "read_acquire")
WakeWriters(w) == Wake(w, "write_asleep", "write_acquire")

Empty == nread = nwrite
Inc(k) == (k + 1) % Wrap
FullUnwrapped == nwrite = nread + PIPESIZE
Full == nwrite = (nread + PIPESIZE) % Wrap

\* release(&pi->lock) and return, after the wakeups that make pc into w.
Return(p, w) ==
    /\ pc' = w
    /\ lock' = None
    /\ n' = [n EXCEPT ![p] = 0] /\ i' = [i EXCEPT ![p] = 0]

\* The loops over the bytes of a call go on.
MoreOld(p) == i[p] <= n[p]
More(p) == i[p] < n[p]

-----------------------------------------------------------------------------
\* acquire(&pi->lock), on entry and after a sleep.
acquire(p, from, to) ==
    /\ pc[p] = from
    /\ lock = None
    /\ lock' = p
    /\ Goto(p, to)
    /\ UNCHANGED <<pipe, freed, holders, n, i, killed, ch>>

pipewrite_call(p, k) ==
    /\ pc[p] = "idle" /\ p \in Writer /\ ~killed[p]
    /\ n' = [n EXCEPT ![p] = k]
    /\ Goto(p, "write_acquire")
    /\ UNCHANGED <<pipe, lock, freed, holders, i, killed, ch>>

\* The loop goes on: neither done nor the readers gone nor killed.
pipewrite_check(p) ==
    /\ pc[p] = "write_loop" /\ More(p) /\ readopen /\ ~killed[p]
    /\ Goto(p, "write_go")
    /\ UNCHANGED <<pipe, lock, freed, holders, n, i, killed, ch>>

\* The loop variable of pipewrite() counts the bytes stored.
StoredLost(k) == k
Stored(k) == k + 1

pipewrite_byte(p, b) ==
    /\ pc[p] = "write_go" /\ ~Full
    /\ data' = [data EXCEPT ![nwrite % PIPESIZE] = b]
    /\ nwrite' = Inc(nwrite)
    /\ i' = [i EXCEPT ![p] = Stored(@)]
    /\ Goto(p, "write_loop")
    /\ UNCHANGED <<nread, readopen, writeopen, lock, freed, holders, n, killed, ch>>

\* The pipe is full: wake the readers, sleep.
FullSilent(w) == w
FullWakes(w) == WakeReaders(w)

pipewrite_sleep(p) ==
    /\ pc[p] = "write_go" /\ Full
    /\ pc' = FullWakes([pc EXCEPT ![p] = "write_asleep"])
    /\ lock' = None
    /\ UNCHANGED <<pipe, freed, holders, n, i, killed, ch>>

\* All bytes are written, or copyin() failed: wake the readers, return i.
pipewrite_return(p) ==
    /\ \/ pc[p] = "write_loop" /\ ~More(p)
       \/ pc[p] = "write_go" /\ ~Full
    /\ Return(p, WakeReaders([pc EXCEPT ![p] = "idle"]))
    /\ UNCHANGED <<pipe, freed, holders, killed, ch>>

\* The readers are gone or p was killed: return -1.
pipewrite_fail(p) ==
    /\ pc[p] = "write_loop" /\ More(p)
    /\ ~readopen \/ killed[p]
    /\ Return(p, [pc EXCEPT ![p] = "idle"])
    /\ UNCHANGED <<pipe, freed, holders, killed, ch>>

-----------------------------------------------------------------------------
\* A call for no bytes waits like the others, and then takes none.
piperead_call(p, k) ==
    /\ pc[p] = "idle" /\ p \in Reader /\ ~killed[p]
    /\ n' = [n EXCEPT ![p] = k]
    /\ Goto(p, "read_acquire")
    /\ UNCHANGED <<pipe, lock, freed, holders, i, killed, ch>>

MustWait == Empty /\ writeopen

piperead_check(p) ==
    /\ pc[p] = "read_wait" /\ MustWait /\ ~killed[p]
    /\ Goto(p, "read_go")
    /\ UNCHANGED <<pipe, lock, freed, holders, n, i, killed, ch>>

piperead_sleep(p) ==
    /\ pc[p] = "read_go"
    /\ Goto(p, "read_asleep")
    /\ lock' = None
    /\ UNCHANGED <<pipe, freed, holders, n, i, killed, ch>>

piperead_fail(p) ==
    /\ pc[p] = "read_wait" /\ MustWait /\ killed[p]
    /\ Return(p, [pc EXCEPT ![p] = "idle"])
    /\ UNCHANGED <<pipe, freed, holders, killed, ch>>

\* Out of the waiting loop: there are bytes, or there will be none.
piperead_ready(p) ==
    /\ pc[p] = "read_wait" /\ ~MustWait
    /\ Goto(p, "read_copy")
    /\ UNCHANGED <<pipe, lock, freed, holders, n, i, killed, ch>>

\* A byte is taken and copied out.
Take ==
    /\ ch' = data[nread % PIPESIZE]
    /\ nread' = Inc(nread)
    /\ UNCHANGED <<data, nwrite, readopen, writeopen, freed, holders, killed>>

piperead_byte(p) ==
    /\ pc[p] = "read_copy" /\ More(p) /\ ~Empty
    /\ Take
    /\ i' = [i EXCEPT ![p] = @ + 1]
    /\ UNCHANGED <<lock, pc, n>>

\* The last statements of piperead(): wake the writers, release the lock.
ReadWakes(w) == WakeWriters(w)

\* A byte is taken but copyout() fails: the byte is lost, return i.
piperead_fault(p) ==
    /\ pc[p] = "read_copy" /\ More(p) /\ ~Empty
    /\ Take
    /\ Return(p, ReadWakes([pc EXCEPT ![p] = "idle"]))

piperead_return(p) ==
    /\ pc[p] = "read_copy" /\ (~More(p) \/ Empty)
    /\ Return(p, ReadWakes([pc EXCEPT ![p] = "idle"]))
    /\ UNCHANGED <<pipe, freed, holders, killed, ch>>

-----------------------------------------------------------------------------
\* fileclose(): the reference count of p's end drops; the last to close that
\* end calls pipeclose().
LastOf(p) == holders \cap (IF p \in Writer THEN Writer ELSE Reader) = {p}

fileclose(p) ==
    /\ pc[p] = "idle"
    /\ holders' = holders \ {p}
    /\ Goto(p, IF LastOf(p) THEN "close" ELSE "gone")
    /\ UNCHANGED <<pipe, lock, freed, n, i, killed, ch>>

\* pipeclose() frees the page when the other end is closed already.
OtherEndClosedAny(p) == TRUE
OtherEndClosedStale(p) == ~readopen /\ ~writeopen
OtherEndClosed(p) == IF p \in Writer THEN ~readopen ELSE ~writeopen

\* pipeclose() wakes whoever waits at the other end.
CloseWakes(p, w) == IF p \in Writer THEN WakeReaders(w) ELSE WakeWriters(w)

pipeclose(p) ==
    /\ pc[p] = "close" /\ lock = None
    /\ writeopen' = (writeopen /\ p \notin Writer)
    /\ readopen' = (readopen /\ p \notin Reader)
    /\ pc' = CloseWakes(p, [pc EXCEPT ![p] =
                IF OtherEndClosed(p) THEN "kfree" ELSE "gone"])
    /\ UNCHANGED <<data, nread, nwrite, lock, freed, holders, n, i, killed, ch>>

kfree(p) ==
    /\ pc[p] = "kfree"
    /\ freed' = TRUE
    /\ Goto(p, "gone")
    /\ UNCHANGED <<pipe, lock, holders, n, i, killed, ch>>

\* kill(): the flag, and out of sleep().
kill(p) ==
    /\ p \in Killable /\ pc[p] # "gone" /\ ~killed[p]
    /\ killed' = [killed EXCEPT ![p] = TRUE]
    /\ Goto(p, CASE pc[p] = "write_asleep" -> "write_acquire"
                 [] pc[p] = "read_asleep" -> "read_acquire"
                 [] OTHER -> pc[p])
    /\ UNCHANGED <<pipe, lock, freed, holders, n, i, ch>>

-----------------------------------------------------------------------------
\* A process inside a call, or inside fileclose(), goes on.
Proceed(p) ==
    \/ acquire(p, "write_acquire", "write_loop")
    \/ acquire(p, "read_acquire", "read_wait")
    \/ pipewrite_check(p)
    \/ \E b \in Byte : pipewrite_byte(p, b)
    \/ pipewrite_sleep(p)
    \/ pipewrite_return(p)
    \/ pipewrite_fail(p)
    \/ piperead_check(p)
    \/ piperead_sleep(p)
    \/ piperead_fail(p)
    \/ piperead_ready(p)
    \/ piperead_byte(p)
    \/ piperead_fault(p)
    \/ piperead_return(p)
    \/ pipeclose(p)
    \/ kfree(p)

\* A process outside a call makes the next one.
Call(p, k) == pipewrite_call(p, k) \/ piperead_call(p, k)

Next ==
    \/ \E p \in Proc : Proceed(p) \/ fileclose(p) \/ kill(p)
    \/ \E p \in Proc, k \in 0..MaxN : Call(p, k)
    \/ pipealloc

Spec == Init /\ [][Next]_vars

-----------------------------------------------------------------------------
(* Properties *)

\* The bytes between nread and nwrite, oldest first.
Contents ==
    [k \in 1..((nwrite + Wrap - nread) % Wrap) |->
        data[((nread + k - 1) % Wrap) % PIPESIZE]]

Queue == INSTANCE ByteQueue
    WITH queue <- Contents, taken <- ch, Capacity <- PIPESIZE

\* The ring buffer is a FIFO queue of at most PIPESIZE bytes: piperead() takes
\* the bytes in the order pipewrite() stored them, none twice, none skipped,
\* none overwritten before it is read, also when the counters wrap.
Fifo == Queue!Spec

\* While pi->lock is free, a reader asleep has nothing to read and may still
\* get something, and a writer asleep has no room and may still get some.
NoLostWakeup ==
    lock = None =>
        \A p \in Proc :
            /\ pc[p] = "read_asleep" => Empty /\ writeopen
            /\ pc[p] = "write_asleep" => Full /\ readopen

\* The page is freed after the last use: nobody is inside the pipe, about to
\* close it, or able to call it.
FreedUnused ==
    freed => /\ holders = {}
             /\ \A p \in Proc : pc[p] = "gone"

\* The page is not leaked: when the last process has left pipeclose(), one of
\* them has freed it, whichever of the two ends was closed first.
FreedAtLast == (\A p \in Proc : pc[p] = "gone") => freed

\* Every process outside the pipe closes it at last, or asks again for a byte
\* at least: calls for no bytes alone would not help the other end.  A process
\* inside goes on, as it does when it has a CPU.  Strong fairness: pi->lock is
\* free again and again, not from some time on; and not every copyin() fails.
FairSpec ==
    /\ Spec
    /\ \A p \in Proc :
        /\ SF_vars(Proceed(p))
        /\ SF_vars((\E k \in 1..MaxN : Call(p, k)) \/ fileclose(p))
    /\ \A p \in Writer : SF_vars(\E b \in Byte : pipewrite_byte(p, b))

\* No call on the pipe blocks for ever if the processes at the other end keep
\* reading or writing bytes, or close it.
CallsReturn ==
    \A p \in Proc : pc[p] \notin {"idle", "gone"} ~> pc[p] \in {"idle", "gone"}
=============================================================================
