--------------------------------- MODULE Log --------------------------------
(***************************************************************************)
(* The file system log of kernel/log.c, on top of a buffer cache that may  *)
(* drop any block that is not pinned, and a disk that may lose power       *)
(* between any two block writes.  bwrite() waits for the disk, and a block *)
(* is written as a whole.                                                  *)
(*                                                                         *)
(* A step is a stretch of code under log.lock, or one disk write.  sleep() *)
(* and wakeup() are atomic here; module Proc is about them.                *)
(***************************************************************************)
EXTENDS Integers, Sequences, FiniteSets

CONSTANTS Proc,         \* processes that make file system calls
          Block, Val,   \* home blocks and their contents
          NoBuf,        \* a block that is not in the buffer cache
          LOGSIZE,      \* blocks the header has room for
          NLOG,         \* sb.nlog, which is log.size: header plus data blocks
          MAXOPBLOCKS   \* blocks a call may write

ASSUME LogAssumption ==
    /\ IsFiniteSet(Proc)
    /\ NoBuf \notin Val
    /\ LOGSIZE \in Nat /\ NLOG \in Nat /\ MAXOPBLOCKS \in Nat
    /\ 0 < MAXOPBLOCKS /\ MAXOPBLOCKS <= LOGSIZE

VARIABLES
    home, logged, head,       \* on disk: home blocks, log blocks, log header
    lh, outstanding, committing,  \* struct log in memory
    cache, pinned,            \* the buffer cache: contents, bpin()ned blocks
    pc, wrote,                \* per process: place, blocks its call has logged
    phase, tail,              \* where commit() or recover_from_log() is
    panicked

disk == <<home, logged, head>>
vars == <<home, logged, head, lh, outstanding, committing, cache, pinned, pc,
          wrote, phase, tail, panicked>>

Recovering == {"recover", "reinstall", "reclear"}
Committing == {"write_log", "write_head", "install", "clear", "finish"}

TypeOK ==
    /\ home \in [Block -> Val]
    /\ logged \in [1..LOGSIZE -> Val]
    /\ head \in Seq(Block) /\ Len(head) <= LOGSIZE
    /\ lh \in Seq(Block) /\ Len(lh) <= LOGSIZE
    /\ outstanding \in Nat
    /\ committing \in BOOLEAN
    /\ cache \in [Block -> Val \cup {NoBuf}]
    /\ pinned \subseteq Block
    /\ pc \in [Proc -> {"out", "begin", "asleep", "op", "commit"}]
    /\ wrote \in [Proc -> SUBSET Block]
    /\ phase \in {"up"} \cup Committing \cup Recovering
    /\ tail \in Nat
    /\ panicked \in BOOLEAN

\* A disk as mkfs makes it (any contents, an empty log) and memory before
\* initlog().
Init ==
    /\ home \in [Block -> Val]
    /\ logged \in [1..LOGSIZE -> Val]
    /\ head = <<>>
    /\ lh = <<>> /\ outstanding = 0 /\ committing = FALSE
    /\ cache = [b \in Block |-> NoBuf] /\ pinned = {}
    /\ pc = [p \in Proc |-> "out"]
    /\ wrote = [p \in Proc |-> {}]
    /\ phase = "recover" /\ tail = 0 /\ panicked = FALSE

InLog(b) == \E i \in 1..Len(lh) : lh[i] = b

\* bread(): the cached contents, or those on disk.
bread(b) == IF cache[b] = NoBuf THEN home[b] ELSE cache[b]

-----------------------------------------------------------------------------
\* wakeup(&log): sleepers in begin_op() try again.
wakeup(w) == [p \in Proc |-> IF w[p] = "asleep" THEN "begin" ELSE w[p]]

\* begin_op()'s test that every call admitted so far, and this one, can write
\* MAXOPBLOCKS blocks.
HasSpaceOld == Len(lh) + outstanding * MAXOPBLOCKS <= LOGSIZE
HasSpace == Len(lh) + (outstanding + 1) * MAXOPBLOCKS <= LOGSIZE

\* begin_op() admits the call.
AdmitUncounted == outstanding' = outstanding
Admit == outstanding' = outstanding + 1

begin_op(p) ==
    /\ pc[p] \in {"out", "begin"} /\ phase \notin Recovering
    /\ ~committing /\ HasSpace
    /\ Admit
    /\ pc' = [pc EXCEPT ![p] = "op"]
    /\ wrote' = [wrote EXCEPT ![p] = {}]
    /\ UNCHANGED <<disk, lh, committing, cache, pinned, phase, tail, panicked>>

\* begin_op() sleeps on &log.
begin_op_wait(p) ==
    /\ pc[p] \in {"out", "begin"} /\ phase \notin Recovering
    /\ committing \/ ~HasSpace
    /\ pc' = [pc EXCEPT ![p] = "asleep"]
    /\ UNCHANGED <<disk, lh, outstanding, committing, cache, pinned, wrote, phase,
                   tail, panicked>>

\* bpin(), for a block that is new in the log.
NoPin(b) == pinned
bpin(b) == pinned \cup {b}

\* A call writes at most MAXOPBLOCKS different blocks, each as often as it
\* likes: balloc(), bfree() and writei() log one block again and again.
MayWrite(p, b) ==
    /\ pc[p] = "op"
    /\ Cardinality(wrote[p] \cup {b}) <= MAXOPBLOCKS

\* log_write() panics ("too big a transaction"), whether or not the block is
\* in the log already.
TooBig == Len(lh) >= LOGSIZE \/ Len(lh) >= NLOG - 1

\* A call reads block b, stores v in the buffer and passes it to log_write();
\* the buffer stays locked throughout.
log_write(p, b, v) ==
    /\ MayWrite(p, b)
    /\ ~TooBig /\ outstanding >= 1
    /\ cache' = [cache EXCEPT ![b] = v]
    /\ wrote' = [wrote EXCEPT ![p] = @ \cup {b}]
    /\ \/ InLog(b) /\ UNCHANGED <<lh, pinned>>   \* log absorption
       \/ ~InLog(b) /\ lh' = Append(lh, b) /\ pinned' = bpin(b)
    /\ UNCHANGED <<disk, outstanding, committing, pc, phase, tail, panicked>>

\* What p's call does next panics: log_write() for lack of room or outside of a
\* transaction, or end_op() ("log.committing").
Panics(p) ==
    \/ TooBig /\ \E b \in Block : MayWrite(p, b)
    \/ outstanding < 1
    \/ committing

\* panic(), with log.lock held: the file system stands still.
log_panic(p) ==
    /\ pc[p] = "op" /\ Panics(p)
    /\ panicked' = TRUE
    /\ UNCHANGED <<disk, lh, outstanding, committing, cache, pinned, pc, wrote, phase,
                   tail>>

\* commit() does something only for a non-empty transaction.
NothingToCommitOld == Len(lh) <= 1
NothingToCommit == Len(lh) = 0

\* end_op() of the last call: it commits.
end_op_last(p) ==
    /\ pc[p] = "op" /\ ~committing
    /\ outstanding = 1
    /\ outstanding' = 0
    /\ committing' = TRUE
    /\ pc' = [pc EXCEPT ![p] = "commit"]
    /\ phase' = IF NothingToCommit THEN "finish" ELSE "write_log"
    /\ tail' = 0
    /\ UNCHANGED <<disk, lh, cache, pinned, wrote, panicked>>

\* end_op() while other calls are under way: its reservation is given back,
\* and begin_op() may be waiting for it.
EndSilent(w) == w
EndWakes(w) == wakeup(w)

end_op(p) ==
    /\ pc[p] = "op" /\ ~committing
    /\ outstanding # 1
    /\ outstanding' = outstanding - 1
    /\ pc' = EndWakes([pc EXCEPT ![p] = "out"])
    /\ UNCHANGED <<disk, lh, committing, cache, pinned, wrote, phase, tail, panicked>>

-----------------------------------------------------------------------------
\* The step of a copying loop over lh that handles entry tail; `next` follows.
Copy(next) ==
    /\ tail < Len(lh)
    /\ tail' = IF tail + 1 = Len(lh) THEN 0 ELSE tail + 1
    /\ phase' = IF tail + 1 = Len(lh) THEN next ELSE phase

\* write_log(), one block: from the cache to the log.
write_log ==
    /\ phase = "write_log"
    /\ Copy("write_head")
    /\ logged' = [logged EXCEPT ![tail + 1] = bread(lh[tail + 1])]
    /\ cache' = [cache EXCEPT ![lh[tail + 1]] = bread(lh[tail + 1])]
    /\ UNCHANGED <<home, head, lh, outstanding, committing, pinned, pc, wrote, panicked>>

\* write_head() in commit(): the true commit.
write_head ==
    /\ phase = "write_head"
    /\ head' = lh
    /\ phase' = "install"
    /\ UNCHANGED <<home, logged, lh, outstanding, committing, cache, pinned, pc, wrote,
                   tail, panicked>>

\* install_trans(), one block: from the log to its home, in cache and on disk.
install_trans ==
    /\ home' = [home EXCEPT ![lh[tail + 1]] = logged[tail + 1]]
    /\ cache' = [cache EXCEPT ![lh[tail + 1]] = logged[tail + 1]]
    /\ UNCHANGED <<logged, head, lh, outstanding, committing, pc, wrote, panicked>>

install ==
    /\ phase = "install"
    /\ Copy("clear")
    /\ install_trans
    /\ pinned' = pinned \ {lh[tail + 1]}

\* lh.n = 0 and the second write_head(): the transaction is erased.
Erase ==
    /\ lh' = <<>>
    /\ head' = <<>>
    /\ UNCHANGED <<home, logged, outstanding, committing, cache, pinned, pc, wrote,
                   tail, panicked>>

clear == phase = "clear" /\ Erase /\ phase' = "finish"

\* end_op() after commit(): committing = 0, wakeup(&log).
FinishWakes(w) == wakeup(w)
finish(p) ==
    /\ phase = "finish" /\ pc[p] = "commit"
    /\ committing' = FALSE
    /\ pc' = FinishWakes([pc EXCEPT ![p] = "out"])
    /\ phase' = "up"
    /\ UNCHANGED <<disk, lh, outstanding, cache, pinned, wrote, tail, panicked>>

-----------------------------------------------------------------------------
\* The buffer cache recycles a buffer whose reference count is zero.
evict(b) ==
    /\ cache[b] # NoBuf /\ b \notin pinned
    /\ cache' = [cache EXCEPT ![b] = NoBuf]
    /\ UNCHANGED <<disk, lh, outstanding, committing, pinned, pc, wrote, phase, tail,
                   panicked>>

\* Power is lost; the disk keeps what was written.
crash ==
    /\ lh' = <<>> /\ outstanding' = 0 /\ committing' = FALSE
    /\ cache' = [b \in Block |-> NoBuf] /\ pinned' = {}
    /\ pc' = [p \in Proc |-> "out"]
    /\ wrote' = [p \in Proc |-> {}]
    /\ phase' = "recover" /\ tail' = 0 /\ panicked' = FALSE
    /\ UNCHANGED disk

\* recover_from_log(): read_head(), install_trans(1), erase the log.
read_head ==
    /\ phase = "recover"
    /\ lh' = head
    /\ tail' = 0
    /\ phase' = IF head = <<>> THEN "reclear" ELSE "reinstall"
    /\ UNCHANGED <<disk, outstanding, committing, cache, pinned, pc, wrote, panicked>>

reinstall ==
    /\ phase = "reinstall"
    /\ Copy("reclear")
    /\ install_trans
    /\ UNCHANGED pinned

reclear == phase = "reclear" /\ Erase /\ phase' = "up"

-----------------------------------------------------------------------------
Call(p) ==
    \/ begin_op(p)
    \/ begin_op_wait(p)
    \/ \E b \in Block, v \in Val : log_write(p, b, v)
    \/ log_panic(p)
    \/ end_op_last(p)
    \/ end_op(p)
    \/ finish(p)

Commit == write_log \/ write_head \/ install \/ clear
Recover == read_head \/ reinstall \/ reclear

\* After a panic only a restart helps.
panic == panicked /\ UNCHANGED vars

Run ==
    \/ ~panicked /\ \E p \in Proc : Call(p)
    \/ ~panicked /\ (Commit \/ Recover)
    \/ ~panicked /\ \E b \in Block : evict(b)
    \/ panic

Next == Run \/ crash

Spec == Init /\ [][Next]_vars
-----------------------------------------------------------------------------
(* Properties *)

\* param.h says of MAXOPBLOCKS "max # of blocks any FS op writes", and
\* begin_op() reserves that many for every call: a call that keeps to it meets
\* no panic of log.c.
NoPanic == ~panicked

\* The part of it that holds: a call that logs a block new to the log finds
\* room in the header, however many calls were admitted with it and whatever
\* they have logged, and no call is inside while the log is being committed, or
\* uncounted.
RoomForNewBlocks ==
    \A p \in Proc : pc[p] = "op" =>
        /\ ~committing
        /\ outstanding >= 1
        /\ \A b \in Block : MayWrite(p, b) /\ ~InLog(b) => Len(lh) < LOGSIZE

\* Nobody sleeps in begin_op() without a reason: whoever removes the last
\* reason also wakes the sleepers.
NoLostWakeup ==
    \A p \in Proc : pc[p] = "asleep" => committing \/ ~HasSpace

\* The contents recovery would give every block if power were lost now.
Durable ==
    [b \in Block |->
        IF \E i \in 1..Len(head) : head[i] = b
        THEN logged[CHOOSE i \in 1..Len(head) : head[i] = b]
        ELSE home[b]]

\* The contents a file system call sees (recovery runs before any call).
View == IF phase \in Recovering THEN Durable ELSE [b \in Block |-> bread(b)]

\* When the end_op() that commits returns, every update made so far would
\* survive a crash, and the log is empty.
CommitDurable ==
    phase = "finish" => Durable = View /\ head = <<>> /\ lh = <<>>

Abstract == INSTANCE AtomicDisk
    WITH disk <- Durable, mem <- View, active <- {p \in Proc : pc[p] = "op"}

\* The log implements AtomicDisk: what a crash leaves changes only at the
\* header write of commit(), in one step, to what the calls see, and only
\* while no call is between begin_op() and end_op(); eviction, installation,
\* a crash in the middle of either and recovery change nothing.
CrashAtomic == Abstract!Spec

\* Under a scheduler that runs every process (at most NCPU of them) and a disk
\* that answers, and while power lasts.  Admission is strongly fair: log.lock
\* is not fair, but a woken process does not lose every race for it.
FairSpec ==
    /\ Init /\ [][Run]_vars
    /\ WF_vars(~panicked /\ (Commit \/ Recover))
    /\ \A p \in Proc :
        /\ SF_vars(~panicked /\ begin_op(p))
        /\ WF_vars(~panicked /\ begin_op_wait(p))
        /\ WF_vars(~panicked /\ (end_op_last(p) \/ end_op(p) \/ finish(p)))

\* A process waiting in begin_op() is admitted at last, unless the kernel
\* panics.
BeginAdmitted ==
    \A p \in Proc : pc[p] \in {"begin", "asleep"} ~> pc[p] = "op" \/ panicked
=============================================================================
