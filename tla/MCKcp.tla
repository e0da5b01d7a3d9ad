------------------------------- MODULE MCKcp --------------------------------
(***************************************************************************)
(* The instance of Kcp that TLC checks: a sends a message of two           *)
(* fragments, one that is refused for its length and two short ones, more  *)
(* than b's receive window holds; b only receives and acknowledges.        *)
(***************************************************************************)
EXTENDS Kcp

MCEnds == {"a", "b"}
MCCalls == [e \in MCEnds |-> IF e = "a" THEN <<3, 5, 1, 1>> ELSE <<>>]
=============================================================================
