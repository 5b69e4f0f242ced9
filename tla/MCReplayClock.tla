---------------------------- MODULE MCReplayClock ----------------------------
(* ReplayClock with a recording of a few times, for TLC.                     *)
EXTENDS ReplayClock

Times == {1, 2, 4}
=============================================================================
