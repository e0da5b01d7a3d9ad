----------------------------- MODULE ByteQueue ------------------------------
(***************************************************************************)
(* What io/Buffer promises: a queue of bytes.  Bytes are numbered in the   *)
(* order in which they are put in, so that the queue is the interval of    *)
(* the numbers taken + 1 .. put.                                           *)
(***************************************************************************)
EXTENDS Naturals

CONSTANT MaxBytes       \* bound: bytes ever put in

VARIABLES
    put,        \* number of bytes put in
    taken,      \* number of bytes taken out
    front       \* front[i] is the i-th byte that can be read

vars == <<put, taken, front>>

(* The bytes that have been put in and not taken out, in order. *)
InOrder == front = [i \in 1..(put - taken) |-> taken + i]

Init == put = 0 /\ taken = 0 /\ InOrder

Put(n) ==
    /\ put + n <= MaxBytes
    /\ put' = put + n
    /\ UNCHANGED taken
    /\ InOrder'

Take(n) ==
    /\ taken + n <= put
    /\ taken' = taken + n
    /\ UNCHANGED put
    /\ InOrder'

Next == \E n \in 0..MaxBytes : Put(n) \/ Take(n)

Spec == Init /\ [][Next]_vars
=============================================================================
