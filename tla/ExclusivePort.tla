--------------------------- MODULE ExclusivePort ---------------------------
(***************************************************************************)
(* What the lock file of a serial port promises: one opener at a time has  *)
(* the port, and whoever reads the file meanwhile, minicom included, reads *)
(* the process of that opener and nothing else.  This is the convention    *)
(* go/lockfile.go:3-16 follows; PortLock is shown to implement it.         *)
(***************************************************************************)

CONSTANTS
  Openers,    \* devices that open the port
  Pid,        \* the process an opener runs in
  Nobody,     \* the holder of a free port
  NoPid       \* what is read where no process is named

VARIABLES
  holder,     \* the opener that has the port
  named       \* the process the file at the lock path names

portVars == <<holder, named>>

PortInit == holder = Nobody /\ named = NoPid

Take(o) ==
  /\ holder = Nobody
  /\ holder' = o
  /\ named' = Pid[o]

\* The port is given back, or its holder dies; the name may stay behind.
Leave(o) ==
  /\ holder = o
  /\ holder' = Nobody
  /\ named' \in {named, NoPid}

\* A name that was left behind goes.
Clear ==
  /\ holder = Nobody
  /\ named' = NoPid
  /\ UNCHANGED holder

PortNext == Clear \/ \E o \in Openers : Take(o) \/ Leave(o)

PortSpec == PortInit /\ [][PortNext]_portVars
=============================================================================
