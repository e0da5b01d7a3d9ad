---------------------------- MODULE FunctorQueue ----------------------------
(***************************************************************************)
(* What an EventLoop promises of the functors handed to queueInLoop(),     *)
(* whatever the threads, the eventfd and the two vectors do: one FIFO      *)
(* queue, each functor entering it once, each run at most once and in the  *)
(* order in which it entered.                                              *)
(***************************************************************************)
EXTENDS Sequences

CONSTANT Functor    \* every functor that may ever be queued

VARIABLES
    queue,  \* functors accepted and not yet run, oldest first
    ran     \* functors run so far, in the order in which they ran

vars == <<queue, ran>>

Entries(s) == {s[i] : i \in DOMAIN s}

Init ==
    /\ queue = <<>>
    /\ ran = <<>>

(* A functor that was never queued before enters at the tail. *)
Submit(f) ==
    /\ f \notin Entries(queue) \cup Entries(ran)
    /\ queue' = Append(queue, f)
    /\ UNCHANGED ran

(* The oldest functor runs. *)
Execute ==
    /\ queue # <<>>
    /\ ran' = Append(ran, Head(queue))
    /\ queue' = Tail(queue)

Next == (\E f \in Functor : Submit(f)) \/ Execute

Spec == Init /\ [][Next]_vars
=============================================================================
