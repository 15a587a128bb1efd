--------------------------- MODULE MCSleepyScaling ---------------------------
(***************************************************************************)
(* Timeouts for TLC: negative, zero, and shorter and longer than the timer.*)
(***************************************************************************)
EXTENDS SleepyScaling

MCTimeouts == {-1, 0, 1, 4}

=============================================================================
