---------------------------- MODULE MCWatchTower ----------------------------
(* WatchTower for TLC: names of one directory, and of two.                  *)
EXTENDS WatchTower
OneDirectory == [n \in Names |-> "d"]
TwoDirectories == [n \in Names |-> n]
=============================================================================
