--------------------------- MODULE DeviceLifecycle ---------------------------
(***************************************************************************)
(* The life of the ModbusDevice values of one process: NewModbusDevice     *)
(* acquires lock file, GPIO mapping and serial port one after the other    *)
(* and drives the pins to bus idle; a failure on the way, or Close, gives  *)
(* back what was acquired, in reverse (go/main.go, go/types.go,            *)
(* go/transceiver.go).  A device in use turns its line driver on and off   *)
(* under the port mutex.  The process may be killed at any step.           *)
(*                                                                         *)
(* The steps of a transmission are those of ModbusDevice, taken together:  *)
(* the pins go high as one and low as one.  The steps of the lock file are *)
(* those of PortLock, taken together as one exclusive step: here the lock  *)
(* is what PortLock shows it to be while acquisitions do not overlap and   *)
(* the PID can be written.  Where they overlap it is not exclusive, and    *)
(* then what rests on it, TransmissionNotCut and StartsOnIdleBus, is not   *)
(* shown here.                                                             *)
(***************************************************************************)
EXTENDS Integers, FiniteSets

CONSTANTS
  Devices,      \* ModbusDevice values the process opens, closes and opens again
  Ports,
  Port,         \* the port name a device is opened with
  Transceiver,  \* its transceiver type
  NoDevice,     \* the holder of a free mutex; a lock path that leads nowhere
  Dead,         \* the owner of a lock file whose process was killed
  Unlocked      \* devices opened without a lock (SkipPortLock, or no /var/lock)

ASSUME LifecycleAssumption ==
  /\ IsFiniteSet(Devices)
  /\ Port \in [Devices -> Ports]
  /\ Transceiver \in [Devices -> {"isl43485", "max485", "auto"}]
  /\ NoDevice \notin Devices
  /\ Dead \notin Devices \cup {NoDevice}
  /\ Unlocked \subseteq Devices

VARIABLES
  pc,            \* where each device is in its life
  held,          \* what it has acquired: "lock", "rpio", "port"
  lockFile,      \* the device each port's lock file names
  rpioRefCount,  \* users of the GPIO mapping
  mapped,        \* /dev/gpiomem is mapped
  mu,            \* the holder of each port's mutex
  de, re         \* the direction pins of each port

vars == <<pc, held, lockFile, rpioRefCount, mapped, mu, de, re>>
rpioVars == <<rpioRefCount, mapped>>
pinVars == <<de, re>>

Resources == {"lock", "rpio", "port"}

NeedsRpio(d) == Transceiver[d] # "auto"

Goto(d, label) == pc' = [pc EXCEPT ![d] = label]

Gain(d, r) == held' = [held EXCEPT ![d] = @ \cup {r}]
Lose(d, r) == held' = [held EXCEPT ![d] = @ \ {r}]

Init ==
  /\ pc = [d \in Devices |-> "idle"]
  /\ held = [d \in Devices |-> {}]
  /\ lockFile = [p \in Ports |-> NoDevice]
  /\ rpioRefCount = 0 /\ mapped = FALSE
  /\ mu = [p \in Ports |-> NoDevice]
  /\ de = [p \in Ports |-> FALSE] /\ re = [p \in Ports |-> FALSE]

-----------------------------------------------------------------------------
(***************************************************************************)
(* NewModbusDevice.                                                        *)
(***************************************************************************)
\* Used alone for the lock, a fault: nobody else's lock stops the opening.
BeginUnlocked(d) ==
  /\ pc[d] = "idle"
  /\ Goto(d, "rpio")
  /\ UNCHANGED <<held, lockFile, rpioVars, mu, pinVars>>

\* acquirePortLock in one step, exclusive as long as acquisitions do not overlap.
TakeLock(d) ==
  /\ pc[d] = "idle" /\ d \notin Unlocked
  /\ lockFile[Port[d]] = NoDevice
  /\ lockFile' = [lockFile EXCEPT ![Port[d]] = d]
  /\ Gain(d, "lock")
  /\ Goto(d, "rpio")
  /\ UNCHANGED <<rpioVars, mu, pinVars>>

SkipLock(d) == d \in Unlocked /\ BeginUnlocked(d)

\* acquireRpio: the first user maps the memory.
AcquireRpio(d) ==
  /\ pc[d] = "rpio"
  /\ IF NeedsRpio(d)
       THEN /\ Gain(d, "rpio")
            /\ rpioRefCount' = rpioRefCount + 1
            /\ mapped' = TRUE
       ELSE UNCHANGED <<held, rpioVars>>
  /\ Goto(d, "port")
  /\ UNCHANGED <<lockFile, mu, pinVars>>

Fail(d, from, cleanup) ==
  /\ pc[d] = from
  /\ Goto(d, cleanup)
  /\ UNCHANGED <<held, lockFile, rpioVars, mu, pinVars>>

RpioOpenable(d) == NeedsRpio(d) /\ rpioRefCount = 0

\* Fault: a share that was not acquired is released.
RpioFailsIntoRelease(d) == RpioOpenable(d) /\ Fail(d, "rpio", "releaseRpio")

\* rpio.Open fails; it is called for the first user only.
RpioFails(d) == RpioOpenable(d) /\ Fail(d, "rpio", "releaseLock")

OpenPort(d) ==
  /\ pc[d] = "port"
  /\ Gain(d, "port")
  /\ Goto(d, "timeout")
  /\ UNCHANGED <<lockFile, rpioVars, mu, pinVars>>

\* Fault: only the lock is given back.
PortFailsIntoUnlock(d) == Fail(d, "port", "releaseLock")

PortFails(d) == Fail(d, "port", "releaseRpio")

SetReadTimeout(d) ==
  /\ pc[d] = "timeout"
  /\ Goto(d, IF NeedsRpio(d) THEN "lowerDE" ELSE "mutex")
  /\ UNCHANGED <<held, lockFile, rpioVars, mu, pinVars>>

\* The deferred cleanup.
TimeoutFails(d) == Fail(d, "timeout", "releasePort")

(***************************************************************************)
(* buildTransceiver drives the pins to bus idle, DE first.  The MAX485 has *)
(* both on one pin.  The port mutex is neither held nor known yet.         *)
(***************************************************************************)
LowerPins(d, from, to, newDe, newRe) ==
  /\ pc[d] = from
  /\ de' = [de EXCEPT ![Port[d]] = newDe]
  /\ re' = [re EXCEPT ![Port[d]] = newRe]
  /\ Goto(d, to)
  /\ UNCHANGED <<held, lockFile, rpioVars, mu>>

\* Fault: the pins are left as they were found.
KeepPins(d) == LowerPins(d, "lowerDE", "mutex", de[Port[d]], re[Port[d]])

BuildTransceiver(d) ==
  \/ /\ Transceiver[d] = "isl43485"
     /\ LowerPins(d, "lowerDE", "lowerRE", FALSE, re[Port[d]])
  \/ /\ Transceiver[d] = "isl43485"
     /\ LowerPins(d, "lowerRE", "mutex", de[Port[d]], FALSE)
  \/ /\ Transceiver[d] = "max485"
     /\ LowerPins(d, "lowerDE", "mutex", FALSE, FALSE)

\* getPortMutex: the mutex of the port's name; the device is returned.
Opened(d) ==
  /\ pc[d] = "mutex"
  /\ Goto(d, "open")
  /\ UNCHANGED <<held, lockFile, rpioVars, mu, pinVars>>

-----------------------------------------------------------------------------
(***************************************************************************)
(* A device in use: sendOnce from Lock to EnableTX, EnableRX, and its      *)
(* return.                                                                 *)
(***************************************************************************)
StartTX(d) ==
  /\ pc[d] = "open"
  /\ mu[Port[d]] = NoDevice
  /\ mu' = [mu EXCEPT ![Port[d]] = d]
  /\ de' = [de EXCEPT ![Port[d]] = @ \/ NeedsRpio(d)]
  /\ re' = [re EXCEPT ![Port[d]] = @ \/ NeedsRpio(d)]
  /\ Goto(d, "sending")
  /\ UNCHANGED <<held, lockFile, rpioVars>>

EndTX(d) ==
  /\ pc[d] = "sending"
  /\ de' = [de EXCEPT ![Port[d]] = @ /\ ~NeedsRpio(d)]
  /\ re' = [re EXCEPT ![Port[d]] = @ /\ ~NeedsRpio(d)]
  /\ Goto(d, "receiving")
  /\ UNCHANGED <<held, lockFile, rpioVars, mu>>

EndRequest(d) ==
  /\ pc[d] = "receiving"
  /\ mu' = [mu EXCEPT ![Port[d]] = NoDevice]
  /\ Goto(d, "open")
  /\ UNCHANGED <<held, lockFile, rpioVars, pinVars>>

-----------------------------------------------------------------------------
(***************************************************************************)
(* Close, under the port mutex.  A failed opening goes through the same    *)
(* releases in the same order, without the mutex.                          *)
(***************************************************************************)
Close(d) ==
  /\ pc[d] = "open"
  /\ mu[Port[d]] = NoDevice
  /\ mu' = [mu EXCEPT ![Port[d]] = d]
  /\ de' = [de EXCEPT ![Port[d]] = @ /\ ~NeedsRpio(d)]
  /\ re' = [re EXCEPT ![Port[d]] = @ /\ ~NeedsRpio(d)]
  /\ Goto(d, "releasePort")
  /\ UNCHANGED <<held, lockFile, rpioVars>>

ReleasePort(d) ==
  /\ pc[d] = "releasePort"
  /\ Lose(d, "port")
  /\ Goto(d, "releaseRpio")
  /\ UNCHANGED <<lockFile, rpioVars, mu, pinVars>>

\* Fault: the memory is unmapped whoever else uses it.
UnmapRpio(d) ==
  /\ pc[d] = "releaseRpio"
  /\ Lose(d, "rpio")
  /\ rpioRefCount' = IF NeedsRpio(d) /\ rpioRefCount > 0
                       THEN rpioRefCount - 1 ELSE rpioRefCount
  /\ mapped' = (mapped /\ ~NeedsRpio(d))
  /\ Goto(d, "releaseLock")
  /\ UNCHANGED <<lockFile, mu, pinVars>>

\* Fault: a device that has no share counts down too.
ReleaseUncounted(d) ==
  /\ pc[d] = "releaseRpio"
  /\ Lose(d, "rpio")
  /\ rpioRefCount' = rpioRefCount - 1
  /\ mapped' = (rpioRefCount # 1)
  /\ Goto(d, "releaseLock")
  /\ UNCHANGED <<lockFile, mu, pinVars>>

\* releaseRpio: the last user unmaps the memory.
ReleaseRpio(d) ==
  /\ pc[d] = "releaseRpio"
  /\ Lose(d, "rpio")
  /\ IF NeedsRpio(d) /\ rpioRefCount > 0
       THEN /\ rpioRefCount' = rpioRefCount - 1
            /\ mapped' = (rpioRefCount > 1)
       ELSE UNCHANGED rpioVars
  /\ Goto(d, "releaseLock")
  /\ UNCHANGED <<lockFile, mu, pinVars>>

\* releasePortLock, and the end of Close or NewModbusDevice.
ReleaseLock(d) ==
  /\ pc[d] = "releaseLock"
  /\ Lose(d, "lock")
  /\ lockFile' = [lockFile EXCEPT ![Port[d]] = IF @ = d THEN NoDevice ELSE @]
  /\ mu' = [mu EXCEPT ![Port[d]] = IF @ = d THEN NoDevice ELSE @]
  /\ Goto(d, "idle")
  /\ UNCHANGED <<rpioVars, pinVars>>

-----------------------------------------------------------------------------
(***************************************************************************)
(* The process is killed, and started again: files are closed, memory is   *)
(* unmapped, but the pins keep their levels and the lock files stay until  *)
(* somebody clears them away.                                              *)
(***************************************************************************)
Kill ==
  /\ pc' = [d \in Devices |-> "idle"]
  /\ held' = [d \in Devices |-> {}]
  /\ lockFile' = [p \in Ports |-> IF lockFile[p] = NoDevice THEN NoDevice ELSE Dead]
  /\ rpioRefCount' = 0 /\ mapped' = FALSE
  /\ mu' = [p \in Ports |-> NoDevice]
  /\ UNCHANGED pinVars

ClearLock(p) ==
  /\ lockFile[p] = Dead
  /\ lockFile' = [lockFile EXCEPT ![p] = NoDevice]
  /\ UNCHANGED <<pc, held, rpioVars, mu, pinVars>>

-----------------------------------------------------------------------------
NewModbusDevice(d) ==
  \/ TakeLock(d) \/ SkipLock(d) \/ AcquireRpio(d) \/ RpioFails(d)
  \/ OpenPort(d) \/ PortFails(d) \/ SetReadTimeout(d) \/ TimeoutFails(d)
  \/ BuildTransceiver(d) \/ Opened(d)

SendRequest(d) == StartTX(d) \/ EndTX(d) \/ EndRequest(d)

Release(d) == ReleasePort(d) \/ ReleaseRpio(d) \/ ReleaseLock(d)

Next ==
  \/ \E d \in Devices : NewModbusDevice(d) \/ SendRequest(d) \/ Close(d) \/ Release(d)
  \/ Kill
  \/ \E p \in Ports : ClearLock(p)

Spec == Init /\ [][Next]_vars

-----------------------------------------------------------------------------
Opening == {"rpio", "port", "timeout", "lowerDE", "lowerRE", "mutex"}
Releasing == {"releasePort", "releaseRpio", "releaseLock"}
Labels == {"idle", "open", "sending", "receiving"} \cup Opening \cup Releasing

\* The variables hold values of their kinds.
TypeOK ==
  /\ pc \in [Devices -> Labels]
  /\ held \in [Devices -> SUBSET Resources]
  /\ lockFile \in [Ports -> Devices \cup {NoDevice, Dead}]
  /\ rpioRefCount \in Nat /\ mapped \in BOOLEAN
  /\ mu \in [Ports -> Devices \cup {NoDevice}]
  /\ de \in [Ports -> BOOLEAN] /\ re \in [Ports -> BOOLEAN]

\* types.go:118-152: the count is the number of devices, open, half open or half
\* closed, that have acquired the mapping and not released it, and the memory is
\* mapped exactly while there is one.
RpioCounted ==
  /\ rpioRefCount = Cardinality({d \in Devices : "rpio" \in held[d]})
  /\ mapped <=> rpioRefCount > 0

\* main.go:216-241: wherever NewModbusDevice fails, and after Close, nothing stays
\* acquired: no port, no mapping, no lock file, no mutex.
NothingLeaks ==
  \A d \in Devices : pc[d] = "idle" =>
    held[d] = {} /\ lockFile[Port[d]] # d /\ mu[Port[d]] # d

\* Pins are set only while the memory is mapped, though other devices of the process
\* fail to open and close meanwhile: an access without the mapping is a crash.  It
\* speaks of pins that change; setting the level a pin has already is not seen.
PinsMoveWhileMapped == [][mapped]_pinVars

\* transceiver.go:50: a device starts on an idle bus, though the process before it was
\* killed while it transmitted.  On a shared port it needs the lock to be exclusive.
StartsOnIdleBus ==
  [][\A d \in Devices : pc[d] # "open" /\ pc'[d] = "open" =>
       ~de'[Port[d]] /\ ~re'[Port[d]]]_vars

\* types.go:17-20: two instances on one port never collide on the bus, even if a
\* second one was opened by mistake: a transmission is not cut by other devices.  What
\* stops their constructors is the lock file, if its acquisitions do not overlap.
TransmissionNotCut ==
  \A d \in Devices : pc[d] = "sending" /\ NeedsRpio(d) => de[Port[d]] /\ re[Port[d]]
=============================================================================
