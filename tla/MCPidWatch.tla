---------------------------- MODULE MCPidWatch ----------------------------
(***************************************************************************)
(* Instances of the watchers for TLC.  The watchers are interchangeable.   *)
(***************************************************************************)
EXTENDS PidWatch, TLC

WatcherSymmetry == Permutations(Watchers)
===========================================================================
