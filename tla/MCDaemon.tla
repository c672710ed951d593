------------------------------ MODULE MCDaemon ------------------------------
(***************************************************************************)
(* Instances of the daemon for TLC: two event types, two script files, and *)
(* contents that differ in priority, in the events they handle and in      *)
(* whether they load.                                                      *)
(***************************************************************************)
EXTENDS DaemonProperties

CONSTANTS window, mode      \* event types
CONSTANTS high, low, flaky, broken   \* contents

MCPriority == [c \in Contents |-> IF c = high THEN 10 ELSE 0]
MCHandles == [c \in Contents |-> IF c = low THEN {window} ELSE EventTypes]
MCTwoScripts == {1, 2}
MCOneScript == {1}
=============================================================================
