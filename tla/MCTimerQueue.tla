---------------------------- MODULE MCTimerQueue ----------------------------
(* Two addresses for three timers, so that an address is used again while ids *)
(* of the deleted timer are still around.                                     *)
EXTENDS TimerQueue

MCAddr == {1, 2}
MCDelays == {0, 2}
MCIntervals == {1}
=============================================================================
