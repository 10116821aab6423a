# Verification of max485-raspberry-nodejs

A Modbus RTU master for RS485 on a Raspberry Pi: a Go library (`go/main.go`,
`go/types.go`, `go/transceiver.go`, `go/lockfile.go`, `go/stats.go`), a Node
binding written in Go (`go/binding.go`), a JavaScript class (`index.js`) and a
command line tool (`go/cmd/modbus-cli`). This directory holds TLA+ modules
translated from that code, the TLC configurations that check them, and proofs
checked by TLAPS. `PROJECT.json` maps every definition to the lines it stands
for and lists runs, mutants, findings, hazards and theorems.

## Inventory

**Bus operations of a device** (`main.go`). State: `ModbusDevice` (port,
transceiver, per-port mutex, closed flag, lock file, share of the GPIO mapping,
retry configuration). Operations: four reads, four writes, `SetRetryConfig`,
`SetDebug`, `Close`. Every bus operation is `sendModbusRequest`, a retry loop
outside the mutex around `sendOnce`, which holds the mutex of the port: closed
check, drop of the input buffer, transmit, switch to receive, a read in two
phases (the first five bytes tell the length of the rest), CRC, exception and
function code. Writes then compare the echo. Hard: threads interleave between
attempts; answers come late, damaged, from other slaves; a write fails while the
driver is on; Close meets calls that wait. Correct means: one call on the bus,
driver on only while it transmits, an answer belongs to its request, resources
are given back once and in order, every call returns.

**Transceivers** (`transceiver.go`). State: two GPIO pins (ISL43485), one
(MAX485) or none (auto-direction adapter). Operations: constructor, `EnableTX`,
`EnableRX`, `Close`. Hard: each pin is a step of its own and one of the four
combinations shuts the ISL43485 down. Correct means: that one is never visited.

**Opening and closing** (`main.go`, `types.go`). State: the process-wide count of
users of the GPIO mapping, the registry of mutexes by port name. Operations:
`NewModbusDevice`, which acquires lock file, mapping and port and cleans up after
a failure at any point, and `Close`. Hard: several devices at once, failures half
way, a process killed with the driver on. Correct means: nothing leaks, the
mapping lasts as long as anybody uses it, a device starts on an idle bus and
leaves other devices' transmissions alone.

**Port lock file** (`lockfile.go`). State: a file that names its owner's PID.
Operations: `acquirePortLock`, `releasePortLock`, `isStaleLock`. Hard: every step
is a system call, owners die and PIDs come back. Correct means: one holder, and
a dead owner's file is reclaimed.

**Node binding and `index.js`**. State: promises, async works, the libuv pool,
the external handle of a device, the `_closed` flag. Operations: `open`, the bus
calls, `close`, the synchronous setters, the finalizer. Hard: the JavaScript
thread shares the port mutex with the workers; the collector can take a device
whose calls are in flight. Correct means: every promise is settled, the event
loop goes on, a closed device is off the bus, no device is lost.

**Statistics** (`stats.go`). State: atomic counters of the device, a map of
per-slave counters under its own mutex, the time stamps of the last transmission
and reception. Operations: `markTx`, `markRx`, `record` after every attempt,
`snapshot`. Hard: attempts are recorded after the port mutex is released, so
several threads add at once, and a snapshot is read word by word meanwhile.
Correct means: no attempt is lost or counted twice, and what a snapshot says
was true at some moment, up to the attempts under way.

**Frame formats and argument conversion** (`main.go`, `binding.go`). Pure code:
request layouts, expected lengths, `unpackBits`, `unpackRegisters`, and the
conversions of the binding, computed in `uint16` and `byte`. Hard: counts and
lengths that wrap, answers with an unexpected byte count. Correct means: an
answer that arrives whole is used whole, values arrive where and as they were
sent, and no index leaves the frame.

**Command line tool** (`go/cmd/modbus-cli`). A second program with its own
exchange: flags, set-up of port and pins, one command, exit. Hard: `log.Fatalf`
and `os.Exit` skip its deferred calls, a panic does not. Correct means: whatever
way it ends, the bus is idle, and an exit code of 0 means the operation happened.

`modbus_rtu.c` is not built any more; build files and tests are not modelled.

Interaction: `index.js` calls the binding, which queues works; workers call the
library; the library's calls meet at the port mutex, the GPIO mapping, the lock
file and the wire. Devices of one process share the first two, processes share
the last two.

## Modules

| module | models | state and actions |
| --- | --- | --- |
| `HalfDuplexBus` | what the master promises of the bus (abstract) | `owner`, `driver`; `Take`, `Drive`, `Listen`, `Yield` |
| `ModbusDevice` | bus operations, transceivers, Close | `pc`, `call`, `loc` (locals), `mu`, `dev`, pins, wire; one action per statement group of `sendOnce`, the retry loop, `SetRetryConfig` and `Close` |
| `ModbusDeviceProofs`, `ModbusDeviceCloseProofs`, `ModbusDeviceAnswerProofs` | theorems about `ModbusDevice`: mutex, pins and refinement; Close; retries and answers | |
| `ExclusivePort` | what the lock file promises (abstract) | `holder`, `named`; `Take`, `Leave`, `Clear` |
| `PortLock` | lock file | `path`, `content` per file, `pc`, processes; one action per system call |
| `PortLockProofs` | theorems about `PortLock` | |
| `DeviceLifecycle` | opening and closing | `held`, `rpioRefCount`, `mapped`, `lockFile`, `mu`, pins; one action per acquisition, failure and release |
| `DeviceLifecycleProofs` | theorems about `DeviceLifecycle` | |
| `AsyncOps` | binding and `index.js` | `op` (asyncOp), `queue`, `js`, `closing`, `opened`, `mu`, `main`; one action per call, worker step and completion |
| `AsyncOpsProofs` | theorems about `AsyncOps` | |
| `Stats` | statistics | `words` (the atomics), `perSlave` under `perSlaveMu`, `snap` and `snapSlaves` (the snapshot being made), `pc`, `cur`; one action per atomic addition or load |
| `StatsProofs` | theorems about `Stats` | |
| `ModbusCodec` | frames and numbers | operators only: what library, tool and a conforming slave put into frames and take out of them |
| `ModbusExchange` | one operation from its arguments to its outcome, by the binding or by the tool; the tool's pins and exits | `job`, `pc`, `answer`, the slave's `coils` and `registers`, `items`, `outcome`, `mapped`, `de`, `re`, `exit` |
| `ModbusExchangeProofs` | theorems about `ModbusCodec` and `ModbusExchange` | |

`ModbusDevice` implements `HalfDuplexBus`, `PortLock` implements `ExclusivePort`. `ModbusExchange` is built from
`ModbusCodec`. The others meet at what they share (see *Layering*).

The `MC` modules give the constants their values for TLC. In the modules,
definitions introduced by a comment that begins "Fault:" are what a plausible bug
would make of the definition that follows; no specification uses them. The
mutants of `PROJECT.json` put them in its place and TLC finds the property
violated (one of them, `BeginUnlocked`, is also a part of the model).

Abstractions worth knowing:

- *Frames and bytes.* A frame is cut into cells, the first one standing for the
  five bytes that phase 1 reads. A cell arrives whole or damaged (`Noise`), is
  lost while the receiver is off or the buffer is full, or never comes. The CRC
  is taken to reject everything but a whole undamaged frame of the length read;
  an undetected CRC collision is outside the model. The exception bit of a cell
  that is no header is arbitrary.
- *Slaves.* A slave answers a request it heard, at any later time, with the
  normal answer or an exception. `AnswersOutliveAttempt` is TRUE where answers
  may come after the master gave up, FALSE where slaves answer in time or never.
- *Time.* There is no clock: a timeout may end a read at any moment, backoff and
  settling delays are left out. Every error of the serial port may happen at
  every call of it. `EnableTX` and `EnableRX` always return nil in the code, so
  their error returns are not modelled. `SetDebug` only takes the mutex and is in
  `AsyncOps`.
- *Outcomes.* An error is a ModbusException or "failed": no code but the
  classification for the statistics tells others apart.
- *Layering.* `DeviceLifecycle` takes the steps of a transmission and of the lock
  file together, `AsyncOps` an attempt on the bus; the modules of those parts
  have the steps. Each keeps the mutex, where the parts meet.
- *The lock in `DeviceLifecycle`.* `TakeLock` is one exclusive step. `acquirePortLock`
  is that while acquisitions do not overlap and the PID can be written (`PortLock`,
  `ExclusiveWithoutOverlap`); overlapping ones can both succeed (`lock_overlap`).
  `TransmissionNotCut` and `StartsOnIdleBus` rest on this condition; the other
  properties of the module do not need an exclusive lock.
- *Retries in `AsyncOps`.* As in the code, a call has the retries that were configured
  when its worker read the configuration, and a ModbusException or a success ends it at
  once. The configuration itself is not a variable: the number is any up to
  `RetryLimit`, which covers every history of `SetRetryConfig`. `ModbusDevice` has
  the configuration, and `RetryDiscipline` is about it.
- *PortLock.* A file is known by the opener that created it, because a removed
  file lives on for whoever has it open. What a signal to a dead process returns
  is a constant: Go reports `os.ErrProcessDone`.
- *Stats.* `SumLatencyMicro` is left out; it is summed like the counts. Time
  stamps increase strictly. The text of an error that is neither a timeout nor a
  CRC error contains neither word. A write whose echo does not match is recorded
  as a success, because the attempt is recorded before the echo is compared.
- *ModbusExchange.* One attempt. An answer arrives whole and in time or not at
  all; the CRC is taken to accept exactly the frames that end where the master
  stops reading. A slave may give a read answer a wrong byte count. Arguments are
  numbers; what the binding does to other values is not modelled. The tool takes
  any transceiver name, and one it does not know means no pins. `-baud 0` is
  opened (by `serial.Open`, as 9600) and divides by zero after the transmission.
- *Counts beyond the protocol.* From 65529 bits on, and for 0, the expected length
  is that of an exception, and the tool takes one for the answer: it exits with
  0 or panics. No document promises anything for such counts, so
  `WholeAnswerIsUsed` and `BitsStayInside` are about counts up to 65528.

## Runs

| run | instance | shows |
| --- | --- | --- |
| `core_bus` | 2 threads, 1 ISL43485 device, writes to 2 slaves, exceptions, late answers, 1 retry, buffer of 1 cell | `TypeOK`, `MutualExclusion`, `NeverShutdown`, `DriverOwned`, `RetryDiscipline`, `CallsRunDown`, `AckedWriteWasExecuted` |
| `core_close` | 2 threads, 2 MAX485 devices on one port, reads of 2 slaves, answers of 1, 2 and 3 cells in time or never, no retries, buffer of 3 cells, fairness | `RpioBalanced`, `CloseIsComplete`, `AnswerToThisRequest`, `PinsMoveOnOpenDevice`, `LockFileGoesLast`, `ImplementsBus`, `EveryCallReturns` |
| `core_slave_id` | late answers to reads of 2 slaves | violation of `AnswerFromAddressedSlave` |
| `lock_one_at_a_time` | 3 openers in 2 processes that crash and come back, acquisitions one at a time | `TypeOK`, `ExclusiveLock`, `ImplementsExclusivePort`, `AcquireReturns` |
| `lock_dead_owner` | the same | violation of `RefusedOnlyByLiveOwner` |
| `lock_overlap` | acquisitions overlap | violation of `ExclusiveLock` |
| `lifecycle` | 4 devices on 3 ports (ISL43485 twice, MAX485, auto), kills | `TypeOK`, `RpioCounted`, `NothingLeaks`, `TransmissionNotCut`, `PinsMoveWhileMapped`, `StartsOnIdleBus` |
| `lifecycle_second_open` | the same without the lock file | violation of `TransmissionNotCut` |
| `async_promises` | 3 calls in flight, 2 workers, 1 device, no or 1 retry, exceptions, fairness | `TypeOK`, `ClosedDeviceIsQuiet`, `OpenDeviceIsReachable`, `EveryPromiseSettles`, `EventLoopResumes` |
| `async_event_loop` | 3 calls, 2 workers, 2 devices | violation of `EventLoopNeverWaitsForBus` |
| `stats` | 2 threads, 2 slaves, 2 attempts, every outcome, snapshots again and again | `TypeOK`, `ResultsAddUp`, `EveryAttemptCounted`, `SnapshotAddsUp`, `SnapshotsGrow`, `SilenceIsReal` |
| `exchange` | every function code by binding and tool, with addresses, counts and values around the limits of the protocol and of the widths; the tool with every transceiver | `TypeOK`, `ReadDeliversSlaveValues`, `WriteReachesMemory`, `WholeAnswerIsUsed`, `ToolPinsAreSafe` |

Why the bounds are enough: two threads are what it takes to race for the mutex,
and since threads call again and again they also give every sequence of calls; a
third only waits longer. Two slaves are what it takes to mix answers up. One
retry has a first, a last and no further attempt. One cell of buffer makes
overruns happen, three make a long answer fit whole. Two openers of one process
and one of another cover both kinds of competition for the lock; two devices of
one port, one more user of the mapping and one that needs none cover the kinds
of sharing in `DeviceLifecycle`. Two workers and three calls fill the pool. Two
attempts are what it takes for two recordings to interleave, or for one to end
while a snapshot is read and another to begin; the theorems of `StatsProofs` are
about any number. The counts of `exchange` are the limits (125, 1968, 2000), one
more, the values where bytes and words wrap, and 0. `core_close` makes no retries,
for a retry is an attempt after another and calls follow each other there anyway;
`core_bus` has them.

Bounds by name: `RetryLimit` of `ModbusDevice` and `AsyncOps` (largest `MaxRetries`), `RxCapacity` (input buffer),
`MaxAttempts` of `PortLock` (the code's own 2) and of `Stats` (attempts on the device), `Ops` (calls in flight),
`PoolSize`, `Jobs` of `ModbusExchange`. Threads, devices, requests and answers are finite sets.

What a passing run leaves out: `lock_one_at_a_time` has no overlapping acquisitions and
no full disk. Overlap is what `lock_overlap` is about; with `DiskMayBeFull` TRUE
exclusion and refinement fail at once, because an empty file counts as stale.
`lifecycle` has an exclusive lock (see *The lock in `DeviceLifecycle`*), and
`PinsMoveWhileMapped` sees pins change, not the writing of a level a pin already has.

Deadlock is checked in every run but `exchange`, where an operation ends and the
tool exits; the other systems can always go on.

### Fairness

`ModbusDevice`: a thread that can take a step takes it (weak fairness; the Go
scheduler runs goroutines), and a thread that waits for the mutex gets it although
others keep coming (strong fairness): a `sync.Mutex` whose waiter has waited for
more than a millisecond hands itself over in order. No fairness for slaves, the
wire or callers. `PortLock`: an acquisition goes on while its process lives.
`AsyncOps`: as for threads, and the event loop gets to its pending completions
between the program's turns (strong fairness). Nothing is assumed of the
program, of the collector, or of `close()` being called.

## Findings

1. `core_slave_id`: a late answer of another slave is accepted; `main.go:406-407`
   says the slave ID is kept in the CRC and exception checks.
2. `lock_dead_owner`: a dead owner's lock is never reclaimed, because the error
   of the signal is `os.ErrProcessDone`, not `ESRCH`; `lockfile.go:15-16` says it
   is. Set `DeadSignalError = "ESRCH"` and the property holds.
3. `lock_overlap`: overlapping acquisitions give the lock to both;
   `lockfile.go:3` calls it exclusive.
4. `lifecycle_second_open`: opening a second instance cuts a transmission of the
   first; `types.go:17-20` says two instances never collide on the bus.
5. `async_event_loop`: the setters and the finalizer wait on the JavaScript thread
   for bus operations; `binding.go:30-31` says they do no bus I/O.

## Proofs

Every theorem is for all values of the constants; it rests on the named
assumptions of its module, which say what kind of values the constants are, and
on no more than the conditions listed here.

`ModbusDeviceProofs`, for any number of threads, devices, requests, slaves and
answers, any retry limit, buffer size and transceiver:

- `TypeCorrect`: `TypeOK`; `OneThreadOnTheBus`: `MutualExclusion`, "serialized,
  not interleaved"; `PinsFollowTheOwner`: `DriverOwned`; `NoShutdown`:
  `NeverShutdown`;
- `Refinement`: the specification implements `HalfDuplexBus`, owner read off the
  mutex and driver off DE.

None of the invariants is inductive by itself: that DE is low outside the
transmitting steps follows only if the invariant says at which steps each pin is
high, and that the mutex is free after an unlock only if it says who is inside.
The inductive invariant `IInv` is `TypeOK` with `CallInv` (the program counter
agrees with the kind of the call), `MutexInv` (the mutex is held exactly by the
thread inside) and `PinInv` (DE and /RE are high exactly while some thread is at
one of the steps `DriverOn` and `ReceiverOff` list for the transceiver). Each
action has a step of the proof; `ThreadStep` and `EnvironmentStep` collect them.
For the refinement, every action is one of `Take`, `Drive`, `Listen`, `Yield` or a
stutter (`StepOnTheBus`).

`ModbusDeviceCloseProofs` extends it with `MappingIsCounted` (`RpioBalanced`),
`NothingIsHalfClosed` (`CloseIsComplete`), `PinsStayWithTheDevice`
(`PinsMoveOnOpenDevice`) and `LockFileIsLast` (`LockFileGoesLast`). The invariant
adds `ClosingInv` (what a Close has released by the step it is at, and that nobody
transmits on a closed device) and `RestingInv` (a device that is not being
closed is whole or gone). `Movers` lists the actions that move pins or devices;
the two action properties look at those only.

`ModbusDeviceAnswerProofs` proves four properties about what a call returns, and that it
does not go round:

- `RetriesAreDisciplined` (`RetryDiscipline`), from `RetryInv`: while a call runs
  one more attempt is allowed and all before have failed;
- `AckIsTrue` (`AckedWriteWasExecuted`), from `AckInv`: every cell on the line, in the
  kernel's buffer and in a response that claims a write was carried out tells the
  truth (`WireInv`), a response is read after its header (`HeaderInv`), and what a
  call accepted has its function code (`AcceptedInv`). Only `SlaveAnswers` makes
  cells, so the claim survives delay, damage and loss;
- `CallsTerminate` (`CallsRunDown`): `StepsLeft` bounds the steps a call has left, from the
  label, the cells read so far (`RespInv`: they fit the buffer) and the attempts that
  `RetryInv` says are left; every step of the call makes it smaller, whatever the
  environment and other threads do. This is the part of `EveryCallReturns` that needs no
  fairness: a call that does not return stops taking steps, it never goes round;
- `AnswersMatch` (`AnswerToThisRequest`), when `AnswersOutliveAttempt` is FALSE: all
  that is heard, on the line, in the buffer since it was reset or in the response
  belongs to the request of the thread that listens (`OwnInv`). Late answers do
  break it; `core_slave_id` shows one. `NoLateAnswerNoMixUp` (`AnswerFromAddressedSlave`)
  follows: late answers are the only way to that finding.

`PortLockProofs`: `TypeCorrect`; `AcquisitionsTerminate` (`AcquisitionsRunDown`: no step of
`acquirePortLock` without spending a part of its attempts, also when acquisitions overlap);
and, when acquisitions do not overlap and the PID can be written, `ExclusiveWithoutOverlap`
(`ExclusiveLock`), `FileNamesHolder` (`LockFileNamesHolder`) and `Refinement`
(`ImplementsExclusivePort`, which tells other programs the same). The invariant says that the path leads to the holder's file,
which names its process (`HolderAtPath`), and what an opener knows of the holder at each
step (`AcquirerKnows`). For the refinement the holder is who has the lock and the name is
what a reader of the path reads: a written PID takes the port, a release or the crash of
the holder leaves it, and a left-over name goes only while nobody holds the port
(`StepOnPort`, `ProcessOnPort`). Without the first condition the property is false
(`lock_overlap`).

`DeviceLifecycleProofs`: `TypeCorrect`, `CountIsExact` (`RpioCounted`),
`NothingIsLeaked` (`NothingLeaks`) and `PinsAreMapped` (`PinsMoveWhileMapped`), from
`HeldInv` (what a device holds follows from where it is in its life); and, where
devices that share a port take its lock file and have one transceiver
(`PortsAreGuarded`), `NoTransmissionIsCut` (`TransmissionNotCut`) and `BusIdleAtStart`
(`StartsOnIdleBus`), from `PortInv` (whoever is at work on a shared port has its lock
and leaves the pins as its place says). Besides `PortsAreGuarded` these two have the
condition under which the lock is exclusive, because `TakeLock` is one step:
acquisitions of one port's lock do not overlap, and the PID can be written, the
conditions of `ExclusiveWithoutOverlap`. Without the lock file the first is false
(`lifecycle_second_open`).

`AsyncOpsProofs`: `TypeCorrect`, `ClosedIsQuiet` (`ClosedDeviceIsQuiet`) and
`OpenIsReachable` (`OpenDeviceIsReachable`). The invariant adds that a work is queued
once and has no outcome before it ran (`QueueInv`), that whoever is past Lock has the
mutex and an open device (`BusInv`), and whose call an opening is (`OwnerInv`,
`DeviceInv`).

`StatsProofs`: `TypeCorrect`, `TotalIsSumOfResults` (`ResultsAddUp`), `NoAttemptLost`
(`EveryAttemptCounted`), `SnapshotIsCovered` (`SnapshotAddsUp`), `ReportsNeverFall`
(`SnapshotsGrow`) and `ReportedSilenceWasReal` (`SilenceIsReal`). For the snapshot the invariant speaks of the snapshot under way:
what it has read and what it would read now (`Seen`) cover the total it began with
but for the threads that were between the two additions (`LagInv`).

`ModbusExchangeProofs`, about the operators: for every legal quantity the expected length is
a conforming answer's (`LengthIsConforming`); taking bits or registers out of an answer never
leaves it, whatever its byte count (`BitsStayInside`, `RegistersStayInside`);
packing and unpacking are inverse (`BitsArriveUnchanged`, `RegistersArriveUnchanged`);
a slave reads what the master wrote (`CoilsArriveAtSlave`,
`RegistersArriveAtSlave`); tool and library take the same registers out of an
answer (`ToolAgreesWithLibrary`). And about the operation built from them, for any slaves,
contents, arguments and arrays: `TypeCorrect` (`TypeOK`), `ReadsAreTrue`
(`ReadDeliversSlaveValues`), `WritesArrive` (`WriteReachesMemory`), `AnswersAreUsed`
(`WholeAnswerIsUsed`) and `ToolLeavesBusIdle` (`ToolPinsAreSafe`). The invariant adds which
functions reach which step (`FunctionInv`), that a slave that answered normally did what the
request says and stored just that (`SlaveInv`, with `Carried`), what the program has once the
operation is over (`ResultInv`), and the level of each of the tool's pins at each step
(`ToolPinInv`). The first two conjuncts turn an answer that arrived into the slave's values by
the operator theorems; TLC checked the invariant on the instance of `exchange` before the
proof. `ExchangeAssumption` says what the constants are: slaves answer to the IDs 1..255 and
hold bits and 16-bit registers, an operation's arguments are integers, the arrays hold
Booleans or integers, and the count of a multiple write is the length of its array.

Model-checked only: the liveness properties (`EveryCallReturns`,
`AcquireReturns`, `EveryPromiseSettles`, `EventLoopResumes`). They rest on fairness, which
this prover does not reason about; for two of them the bounds proved in `CallsTerminate` and
`AcquisitionsTerminate` are what remains true without it. That a driver which is on goes
off follows from `EveryCallReturns` and the proved `DriverOwned`. `LockFileNamesHolder` and
`AcquisitionsRunDown` are proved and in no run: `ImplementsExclusivePort` and
`AcquireReturns` check what they say of the instance.

## Plan

Done: `HalfDuplexBus`, `ModbusDevice`, `ExclusivePort`, `PortLock`, `DeviceLifecycle`,
`AsyncOps`, `Stats`, `ModbusCodec`, `ModbusExchange`, and proofs of every safety property
the passing runs check, action properties and refinements among them. Left: an abstract
specification of a promise that `AsyncOps` implements (a call is made, settled once, and
settled with what its work did), and of the statistics (a counter per outcome, incremented
once per attempt), each with its refinement.

## Not modelled

- `modbus_rtu.c` and `libmodbus.h`: the C library is not built any more, the header
  is generated.
- Build files, package files and tests have no behaviour of the program's; the
  tests were read for what they say of it.
- N-API value building and error texts in `binding.go`, and debug output: formatting.
- Names of one device file that differ (a link): neither mutex nor lock file claims
  to see through them.
- The order of two calls that are not awaited: workers take the mutex in either
  order, and nothing promises another.
