------------------------------ MODULE ByteQueue -----------------------------
(***************************************************************************)
(* What a pipe promises: a first-in first-out queue of at most Capacity    *)
(* bytes.                                                                  *)
(***************************************************************************)
EXTENDS Naturals, Sequences

CONSTANTS Byte, Capacity

VARIABLES queue,  \* bytes written and not yet taken
          taken,  \* the byte taken last
          freed   \* both ends are closed and the pipe's memory is given back

vars == <<queue, taken, freed>>

Init == queue = <<>> /\ taken \in Byte /\ freed = FALSE

Put(b) ==
    /\ ~freed /\ Len(queue) < Capacity
    /\ queue' = Append(queue, b)
    /\ UNCHANGED <<taken, freed>>

Get ==
    /\ ~freed /\ queue # <<>>
    /\ taken' = Head(queue)
    /\ queue' = Tail(queue)
    /\ UNCHANGED freed

Free ==
    /\ ~freed
    /\ freed' = TRUE
    /\ UNCHANGED <<queue, taken>>

\* Only another pipe, made of the same memory, is without the bytes nobody read.
New ==
    /\ freed
    /\ freed' = FALSE
    /\ queue' = <<>>
    /\ UNCHANGED taken

Next == (\E b \in Byte : Put(b)) \/ Get \/ Free \/ New

Spec == Init /\ [][Next]_vars
=============================================================================
