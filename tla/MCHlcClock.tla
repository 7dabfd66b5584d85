---------------------------- MODULE MCHlcClock ----------------------------
(* Instance of HlcClock: walls 0..3 with a drift bound of 1, so that a     *)
(* remote wall may be in or out of drift at every device time.             *)
EXTENDS HlcClock

MCWalls == {0, 1, 3}
MCRemotes == [wall_ms : {1, 2, 4}, counter : {0, 2}, actor : {9}]
=============================================================================
