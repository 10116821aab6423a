--------------------------- MODULE HalfDuplexBus ---------------------------
(***************************************************************************)
(* What the master promises to everything else on an RS485 pair: one call  *)
(* at a time owns the bus, only the owner may turn the line driver on, and *)
(* the owner turns it off before it lets the bus go.  This is the contract *)
(* go/types.go:13-20 states ("serialized on the bus, not interleaved");    *)
(* ModbusDevice is shown to implement it.                                  *)
(***************************************************************************)

CONSTANTS
  Threads,    \* the callers that may own the bus
  NoThread    \* the owner of a free bus

VARIABLES
  owner,      \* the caller whose operation is on the bus
  driver      \* the line driver (DE) is on

busVars == <<owner, driver>>

BusInit == owner = NoThread /\ driver = FALSE

Take(t) ==
  /\ owner = NoThread
  /\ ~driver
  /\ owner' = t
  /\ UNCHANGED driver

Drive(t) ==
  /\ owner = t
  /\ ~driver
  /\ driver' = TRUE
  /\ UNCHANGED owner

Listen(t) ==
  /\ owner = t
  /\ driver
  /\ driver' = FALSE
  /\ UNCHANGED owner

Yield(t) ==
  /\ owner = t
  /\ ~driver
  /\ owner' = NoThread
  /\ UNCHANGED driver

BusNext == \E t \in Threads : Take(t) \/ Drive(t) \/ Listen(t) \/ Yield(t)

BusSpec == BusInit /\ [][BusNext]_busVars
=============================================================================
