----------------------------- MODULE MCPortLock -----------------------------
(***************************************************************************)
(* PortLock for TLC: two processes, the first opening the port twice.      *)
(***************************************************************************)
EXTENDS PortLock

CONSTANTS o1, o2, o3, p1, p2

MCOpeners == {o1, o2, o3}
MCPids == {p1, p2}
MCPid == [o \in MCOpeners |-> IF o = o3 THEN p2 ELSE p1]
=============================================================================
