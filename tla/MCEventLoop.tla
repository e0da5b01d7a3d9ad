---------------------------- MODULE MCEventLoop -----------------------------
(* A loop thread and two other threads; the loop thread may call loop() again *)
(* after a first run of it has returned.                                      *)
EXTENDS EventLoop

CONSTANTS loop, a, b

MCOthers == {a, b}

(* Room for loop() and two functors or a quit() of the loop thread, or for a   *)
(* second loop(); a functor and a quit() from outside, in either order.        *)
MCCalls == [t \in Threads |-> CASE t = loop -> 3 [] t = a -> 2 [] t = b -> 1]
=============================================================================
