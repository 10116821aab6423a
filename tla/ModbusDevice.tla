---------------------------- MODULE ModbusDevice ----------------------------
(***************************************************************************)
(* The ModbusDevice values opened on one serial port, and the calls made   *)
(* on them by concurrent threads (libuv workers, and the JavaScript thread *)
(* for the synchronous setters and the finalizer).                         *)
(*                                                                         *)
(* Covered: sendModbusRequest with its retries, sendOnce step by step under *)
(* the per-port mutex, the direction pins of the transceiver, the read and *)
(* write operations built on them, SetRetryConfig, and Close (go/main.go,  *)
(* go/types.go, go/transceiver.go).  The slaves, the wire and the kernel's *)
(* input buffer are the environment.                                       *)
(*                                                                         *)
(* A frame is cut into cells: the first five bytes (as long as a whole     *)
(* exception response, main.go:450) are cell 1, the rest follows.  The CRC *)
(* is taken to reject everything but one whole undamaged frame of exactly  *)
(* the length that was read.                                               *)
(***************************************************************************)
EXTENDS Integers, Sequences, FiniteSets

CONSTANTS
  Threads,               \* callers
  NoThread,              \* the holder of a free mutex
  Devices,               \* ModbusDevice values sharing the port's mutex
  Requests,              \* request frames: [slave, fc, body, data, cells]
  WriteFCs,              \* the function codes answered by an echo
  TransceiverType,       \* "isl43485", "max485" or "auto"
  Answers,               \* the frames slaves may answer with
  RetryLimit,            \* bound: the largest MaxRetries configured
  RxCapacity,            \* bound: cells the input buffer holds
  AnswersOutliveAttempt, \* a slave may answer after the master gave up
  NoCall,                \* the call of an idle thread
  NoFrame,               \* no answer
  Noise                  \* a damaged cell

(***************************************************************************)
(* body stands for request bytes 2..5 (address and quantity or value), data *)
(* for the payload of a multiple write, which no echo repeats; cells is the *)
(* length of the normal answer (expectedResponseLength).                   *)
(***************************************************************************)
ASSUME DeviceAssumption ==
  /\ NoThread \notin Threads
  /\ IsFiniteSet(Devices)
  /\ TransceiverType \in {"isl43485", "max485", "auto"}
  /\ RetryLimit \in Nat
  /\ RxCapacity \in Nat \ {0}
  /\ AnswersOutliveAttempt \in BOOLEAN
  /\ \A r \in Requests : r.cells \in Nat \ {0}

Frames == [req : Requests, exc : BOOLEAN]
FrameCells(f) == IF f.exc THEN 1 ELSE f.req.cells
Cell(f, i) == [from |-> f, part |-> i]
IntactCells == [from : Frames, part : Nat \ {0}]

ASSUME AnswerAssumption ==
  Answers \subseteq Frames /\ NoFrame \notin Frames /\ Noise \notin IntactCells

Calls ==
  [kind : {"send"}, dev : Devices, req : Requests]
    \cup [kind : {"setRetry"}, dev : Devices, retries : 0..RetryLimit]
    \cup [kind : {"close"}, dev : Devices]

VARIABLES
  pc,            \* where each thread is in its call
  call,          \* the call each thread is executing
  loc,           \* the locals of its sendModbusRequest and sendOnce
  mu,            \* the port mutex: its holder
  dev,           \* the fields of each ModbusDevice
  rpioRefCount,  \* users of the GPIO mapping in this process
  de, re,        \* the direction pins: driver enable and /receiver enable
  heard,         \* requests slaves received and have not answered
  line,          \* cells of the answer being transmitted
  rxBuf,         \* the kernel's input buffer
  executed       \* history: the writes slaves carried out

callVars == <<pc, call, loc>>
deviceVars == <<dev, rpioRefCount>>
pinVars == <<de, re>>
wireVars == <<heard, line, rxBuf, executed>>
vars == <<callVars, mu, deviceVars, pinVars, wireVars>>

UsesGPIO == TransceiverType \in {"isl43485", "max485"}

(***************************************************************************)
(* loc: attempts lists the outcomes of the attempts made so far, res is the *)
(* outcome of the running attempt and at the end of the call, answer the   *)
(* frame it accepted, resp the response buffer.  An outcome is "ok",       *)
(* "exception" (a ModbusException), or "failed" (any other error).         *)
(***************************************************************************)
NoLocals == [maxAttempts |-> 1, attempts |-> <<>>, res |-> "none",
             answer |-> NoFrame, resp |-> <<>>, isException |-> FALSE]

-----------------------------------------------------------------------------
Goto(t, label) == pc' = [pc EXCEPT ![t] = label]

Dev(t) == call[t].dev

\* The line driver is on: by the pin, or by the adapter's own logic.
Driving == de \/ TransceiverType = "auto"

\* The length phase 2 reads up to: an exception's, or the expected one.
FinalLen(t, exc) == IF exc THEN 1 ELSE call[t].req.cells

\* Bit 7 of a response's second byte; in any cell but a header it may be set.
MsbSet(c) == IF c # Noise /\ c.part = 1 THEN {c.from.exc} ELSE BOOLEAN

\* The CRC of the first n cells verifies.
Intact(cells, n) ==
  \E f \in Answers : FrameCells(f) = n /\ \A i \in 1..n : cells[i] = Cell(f, i)

IsWrite(r) == r.fc \in WriteFCs

\* verifyWriteEcho: bytes 0..5 of request and response agree.
SameEcho(r, q) == r.slave = q.slave /\ r.fc = q.fc /\ r.body = q.body

\* Fault: exceptions count as transient too.
AlwaysTransient(r) == TRUE

\* isTransientError: everything but a ModbusException is worth a retry.
Transient(r) == r # "exception"

-----------------------------------------------------------------------------
Init ==
  /\ pc = [t \in Threads |-> "idle"]
  /\ call = [t \in Threads |-> NoCall]
  /\ loc = [t \in Threads |-> NoLocals]
  /\ mu = NoThread
  /\ dev \in [Devices -> [closed : {FALSE}, portOpen : {TRUE}, needsRpio : {UsesGPIO},
                          lockFile : BOOLEAN, maxRetries : 0..RetryLimit]]
  \* The lock file admits one device of the port; others skipped the lock.
  /\ \E owner \in Devices : \A d \in Devices : dev[d].lockFile <=> d = owner
  /\ rpioRefCount = IF UsesGPIO THEN Cardinality(Devices) ELSE 0
  /\ de = FALSE /\ re = FALSE
  /\ heard = {} /\ line = <<>> /\ rxBuf = <<>> /\ executed = {}

(***************************************************************************)
(* Calls, and the mutex they all begin with.  sendModbusRequest reads the  *)
(* retry configuration before it takes the mutex.                          *)
(***************************************************************************)
Call(t) ==
  /\ pc[t] = "idle"
  /\ \E c \in Calls :
       /\ call' = [call EXCEPT ![t] = c]
       /\ loc' = [loc EXCEPT ![t].maxAttempts =
                     IF c.kind = "send" THEN 1 + dev[c.dev].maxRetries ELSE 1]
  /\ Goto(t, "lock")
  /\ UNCHANGED <<mu, deviceVars, pinVars, wireVars>>

\* Fault: a mutex per device instead of one per port.
LockOwnDevice(t) ==
  /\ pc[t] = "lock"
  /\ \A u \in Threads : mu = u => Dev(u) # Dev(t)
  /\ mu' = t
  /\ Goto(t, call[t].kind)
  /\ UNCHANGED <<call, loc, deviceVars, pinVars, wireVars>>

Lock(t) ==
  /\ pc[t] = "lock"
  /\ mu = NoThread
  /\ mu' = t
  /\ Goto(t, call[t].kind)
  /\ UNCHANGED <<call, loc, deviceVars, pinVars, wireVars>>

Return(t) ==
  /\ pc[t] = "returned"
  /\ Goto(t, "idle")
  /\ call' = [call EXCEPT ![t] = NoCall]
  /\ loc' = [loc EXCEPT ![t] = NoLocals]
  /\ UNCHANGED <<mu, deviceVars, pinVars, wireVars>>

-----------------------------------------------------------------------------
(***************************************************************************)
(* sendOnce.  Every return releases the mutex.  A slave that answers in    *)
(* time or never (~AnswersOutliveAttempt) has nothing left to send then.   *)
(***************************************************************************)
EndAttempt(t, r, f) ==
  /\ loc' = [loc EXCEPT ![t].res = r, ![t].answer = f, ![t].resp = <<>>,
                        ![t].isException = FALSE]
  /\ mu' = NoThread
  /\ Goto(t, "record")
  /\ IF AnswersOutliveAttempt
       THEN UNCHANGED <<heard, line>>
       ELSE heard' = {} /\ line' = <<>>
  /\ UNCHANGED <<call, deviceVars, pinVars, rxBuf, executed>>

IsOpen(d) == ~dev[d].closed /\ dev[d].portOpen

RefuseClosed(t) ==
  /\ pc[t] = "send"
  /\ ~IsOpen(Dev(t))
  /\ EndAttempt(t, "failed", NoFrame)

StartTX(t, buffered) ==
  /\ rxBuf' = buffered
  /\ Goto(t, "enableTX")
  /\ UNCHANGED <<call, loc, mu, deviceVars, pinVars, heard, line, executed>>

\* Fault: the bytes an earlier attempt left are kept.
KeepInputBuffer(t) == pc[t] = "send" /\ IsOpen(Dev(t)) /\ StartTX(t, rxBuf)

\* Fault: the closed flag is not looked at once the mutex is held.
SendWhenClosed(t) == pc[t] = "send" /\ StartTX(t, <<>>)

\* ResetInputBuffer drops what an earlier attempt left.
ResetInputBuffer(t) == pc[t] = "send" /\ IsOpen(Dev(t)) /\ StartTX(t, <<>>)

ResetFails(t) ==
  /\ pc[t] = "send"
  /\ IsOpen(Dev(t))
  /\ EndAttempt(t, "failed", NoFrame)

\* Steps that move only the pins and the program counter.
PinStep(t, from, to, newDe, newRe) ==
  /\ pc[t] = from
  /\ de' = newDe
  /\ re' = newRe
  /\ Goto(t, to)
  /\ UNCHANGED <<call, loc, mu, deviceVars, wireVars>>

\* The ISL43485 has two pins, one after the other; the MAX485 one for both; the
\* auto-direction adapter none.
EnableTX(t) ==
  \/ TransceiverType = "isl43485" /\ PinStep(t, "enableTX", "raiseRE", TRUE, re)
  \/ TransceiverType = "isl43485" /\ PinStep(t, "raiseRE", "write", de, TRUE)
  \/ TransceiverType # "isl43485" /\ PinStep(t, "enableTX", "write", de \/ UsesGPIO, re \/ UsesGPIO)

AfterEnableRX(t) == IF loc[t].res = "none" THEN "read" ELSE "writeFailed"

\* Fault: DE goes low before /RE does.
EnableRXDriverFirst(t) ==
  \/ PinStep(t, "enableRX", "lowerDE", FALSE, re)
  \/ PinStep(t, "lowerDE", AfterEnableRX(t), de, FALSE)

EnableRX(t) ==
  \/ TransceiverType = "isl43485" /\ PinStep(t, "enableRX", "lowerDE", de, FALSE)
  \/ TransceiverType = "isl43485" /\ PinStep(t, "lowerDE", AfterEnableRX(t), FALSE, re)
  \/ TransceiverType # "isl43485"
     /\ PinStep(t, "enableRX", AfterEnableRX(t), de /\ ~UsesGPIO, re /\ ~UsesGPIO)

\* All bytes are out; the request is on the wire if the driver was on.
WriteFrame(t) ==
  /\ pc[t] = "write"
  /\ heard' = IF Driving THEN heard \cup {call[t].req} ELSE heard
  /\ Goto(t, "enableRX")
  /\ UNCHANGED <<call, loc, mu, deviceVars, pinVars, line, rxBuf, executed>>

FailWrite(t, label) ==
  /\ pc[t] = "write"
  /\ loc' = [loc EXCEPT ![t].res = "failed"]
  /\ Goto(t, label)
  /\ UNCHANGED <<call, mu, deviceVars, pinVars, wireVars>>

\* Fault: a failed write returns with the driver on.
WriteFailsDriving(t) == FailWrite(t, "writeFailed")

\* A byte fails or is short: the slaves saw at most a truncated frame.
WriteFails(t) == FailWrite(t, "enableRX")

WriteFailed(t) ==
  /\ pc[t] = "writeFailed"
  /\ EndAttempt(t, "failed", NoFrame)

(***************************************************************************)
(* A read fills the free tail of the response buffer with some of the      *)
(* cells that arrived.  Phase 1 ends with the header, from which the final *)
(* length follows; phase 2 continues to it.                                *)
(***************************************************************************)
TakeCells(t, exc, n, got) ==
  /\ Len(got) <= call[t].req.cells
  /\ loc' = [loc EXCEPT ![t].resp = got, ![t].isException = exc]
  /\ rxBuf' = SubSeq(rxBuf, n + 1, Len(rxBuf))
  /\ Goto(t, IF Len(got) >= FinalLen(t, exc) THEN "verify" ELSE "readRest")
  /\ UNCHANGED <<call, mu, deviceVars, pinVars, heard, line, executed>>

\* Fault: the cells of a read replace those read before.
ReadOver(t, exc, n) == TakeCells(t, exc, n, SubSeq(rxBuf, 1, n))

ReadCells(t, exc, n) == TakeCells(t, exc, n, loc[t].resp \o SubSeq(rxBuf, 1, n))

Phase1(t) ==
  /\ pc[t] = "read"
  /\ \E n \in 1..Len(rxBuf) : \E exc \in MsbSet(rxBuf[1]) : ReadCells(t, exc, n)

Phase2(t) ==
  /\ pc[t] = "readRest"
  /\ \E n \in 1..Len(rxBuf) : ReadCells(t, loc[t].isException, n)

\* The read fails, or requestTimeout runs out whatever arrived meanwhile.
StopReading(t) ==
  /\ pc[t] \in {"read", "readRest"}
  /\ EndAttempt(t, "failed", NoFrame)

\* CRC, then exception, then function code; the slave ID is not compared.
Verify(t) ==
  /\ pc[t] = "verify"
  /\ LET f == loc[t].resp[1].from
     IN  IF ~Intact(loc[t].resp, FinalLen(t, loc[t].isException))
           THEN EndAttempt(t, "failed", NoFrame)
         ELSE IF loc[t].isException THEN EndAttempt(t, "exception", f)
         ELSE IF f.req.fc # call[t].req.fc THEN EndAttempt(t, "failed", NoFrame)
         ELSE EndAttempt(t, "ok", f)

-----------------------------------------------------------------------------
(***************************************************************************)
(* sendModbusRequest after sendOnce, outside the mutex: every attempt is   *)
(* recorded; success and exceptions end the call, the rest is retried.     *)
(* A write then compares the echo, which is never retried.                 *)
(***************************************************************************)
MayRetry(t) == Transient(loc[t].res) /\ Len(loc[t].attempts) + 1 < loc[t].maxAttempts

\* Fault: any intact answer acknowledges a write.
NoEchoCheck(t) == FALSE

EchoMismatch(t) ==
  IsWrite(call[t].req) /\ ~SameEcho(loc[t].answer.req, call[t].req)

Record(t, label, r) ==
  /\ pc[t] = "record"
  /\ loc' = [loc EXCEPT ![t].attempts = Append(@, loc[t].res), ![t].res = r]
  /\ Goto(t, label)
  /\ UNCHANGED <<call, mu, deviceVars, pinVars, wireVars>>

Succeed(t) ==
  loc[t].res = "ok" /\ Record(t, "returned", IF EchoMismatch(t) THEN "echo" ELSE "ok")

\* Fault: the next attempt starts without taking the mutex again.
RetryUnlocked(t) ==
  loc[t].res # "ok" /\ MayRetry(t) /\ Record(t, "send", "none")

Retry(t) ==
  loc[t].res # "ok" /\ MayRetry(t) /\ Record(t, "lock", "none")

GiveUp(t) ==
  loc[t].res # "ok" /\ ~MayRetry(t) /\ Record(t, "returned", loc[t].res)

-----------------------------------------------------------------------------
(***************************************************************************)
(* The other methods under the mutex.  Close makes the bus idle, then      *)
(* gives back the port, the GPIO mapping and the lock file, in that order. *)
(***************************************************************************)
Unlock(t) == mu' = NoThread /\ Goto(t, "returned")

SetMaxRetries(t, n) ==
  /\ pc[t] = "setRetry"
  /\ dev' = [dev EXCEPT ![Dev(t)].maxRetries = n]
  /\ Unlock(t)
  /\ UNCHANGED <<call, loc, rpioRefCount, pinVars, wireVars>>

\* Fault: the number of attempts is stored for the number of retries.
SetMaxAttempts(t) == SetMaxRetries(t, call[t].retries + 1)

SetRetryConfig(t) == SetMaxRetries(t, call[t].retries)

\* Fault: the early return keeps the mutex.
CloseAgainLocked(t) ==
  /\ pc[t] = "close"
  /\ dev[Dev(t)].closed
  /\ Goto(t, "returned")
  /\ UNCHANGED <<call, loc, mu, deviceVars, pinVars, wireVars>>

CloseAgain(t) ==
  /\ pc[t] = "close"
  /\ dev[Dev(t)].closed
  /\ Unlock(t)
  /\ UNCHANGED <<call, loc, deviceVars, pinVars, wireVars>>

\* Fault: the lock file goes first.
UnlockPortFirst(t) ==
  /\ pc[t] = "close"
  /\ ~dev[Dev(t)].closed
  /\ dev' = [dev EXCEPT ![Dev(t)].closed = TRUE, ![Dev(t)].lockFile = FALSE]
  /\ Goto(t, "closeTransceiver")
  /\ UNCHANGED <<call, loc, mu, rpioRefCount, pinVars, wireVars>>

BeginClose(t) ==
  /\ pc[t] = "close"
  /\ ~dev[Dev(t)].closed
  /\ dev' = [dev EXCEPT ![Dev(t)].closed = TRUE]
  /\ Goto(t, "closeTransceiver")
  /\ UNCHANGED <<call, loc, mu, rpioRefCount, pinVars, wireVars>>

CloseTransceiver(t) ==
  \/ TransceiverType = "isl43485" /\ PinStep(t, "closeTransceiver", "closeDE", de, FALSE)
  \/ TransceiverType = "isl43485" /\ PinStep(t, "closeDE", "closePort", FALSE, re)
  \/ TransceiverType # "isl43485"
     /\ PinStep(t, "closeTransceiver", "closePort", de /\ ~UsesGPIO, re /\ ~UsesGPIO)

PortClosed(t, label) ==
  /\ pc[t] = "closePort"
  /\ dev' = [dev EXCEPT ![Dev(t)].portOpen = FALSE]
  /\ Goto(t, label)
  /\ UNCHANGED <<call, loc, mu, rpioRefCount, pinVars, wireVars>>

\* Fault: the GPIO mapping is not given back.
ClosePortOnly(t) == PortClosed(t, "closeLock")

ClosePort(t) == PortClosed(t, "closeRpio")

\* Fault: the mapping is released, its owner still counts as a user.
CloseRpioKeepsFlag(t) ==
  /\ pc[t] = "closeRpio"
  /\ rpioRefCount' = IF rpioRefCount > 0 THEN rpioRefCount - 1 ELSE 0
  /\ Goto(t, "closeLock")
  /\ UNCHANGED <<call, loc, mu, dev, pinVars, wireVars>>

CloseRpio(t) ==
  /\ pc[t] = "closeRpio"
  /\ rpioRefCount' = IF dev[Dev(t)].needsRpio /\ rpioRefCount > 0
                       THEN rpioRefCount - 1 ELSE rpioRefCount
  /\ dev' = [dev EXCEPT ![Dev(t)].needsRpio = FALSE]
  /\ Goto(t, "closeLock")
  /\ UNCHANGED <<call, loc, mu, pinVars, wireVars>>

CloseLock(t) ==
  /\ pc[t] = "closeLock"
  /\ dev' = [dev EXCEPT ![Dev(t)].lockFile = FALSE]
  /\ Unlock(t)
  /\ UNCHANGED <<call, loc, rpioRefCount, pinVars, wireVars>>

-----------------------------------------------------------------------------
(***************************************************************************)
(* The environment: a slave carries out a request it heard and answers it, *)
(* whenever it gets to it; cells arrive, whole or damaged, and are lost    *)
(* while the receiver is off or the buffer is full.                        *)
(***************************************************************************)
SlaveAnswers ==
  /\ line = <<>>
  /\ \E f \in Answers :
       /\ f.req \in heard
       /\ heard' = heard \ {f.req}
       /\ line' = [i \in 1..FrameCells(f) |-> Cell(f, i)]
       /\ executed' = IF ~f.exc /\ IsWrite(f.req) THEN executed \cup {f.req} ELSE executed
  /\ UNCHANGED <<callVars, mu, deviceVars, pinVars, rxBuf>>

Arrive ==
  /\ line # <<>>
  /\ ~re
  /\ Len(rxBuf) < RxCapacity
  /\ \E c \in {Head(line), Noise} : rxBuf' = Append(rxBuf, c)
  /\ line' = Tail(line)
  /\ UNCHANGED <<callVars, mu, deviceVars, pinVars, heard, executed>>

LoseCell ==
  /\ line # <<>>
  /\ re \/ Len(rxBuf) = RxCapacity
  /\ line' = Tail(line)
  /\ UNCHANGED <<callVars, mu, deviceVars, pinVars, heard, rxBuf, executed>>

Environment == SlaveAnswers \/ Arrive \/ LoseCell

-----------------------------------------------------------------------------
SendOnce(t) ==
  \/ RefuseClosed(t) \/ ResetInputBuffer(t) \/ ResetFails(t)
  \/ EnableTX(t) \/ WriteFrame(t) \/ WriteFails(t) \/ EnableRX(t) \/ WriteFailed(t)
  \/ Phase1(t) \/ Phase2(t) \/ StopReading(t) \/ Verify(t)

AfterAttempt(t) == Succeed(t) \/ Retry(t) \/ GiveUp(t)

Close(t) ==
  \/ CloseAgain(t) \/ BeginClose(t) \/ CloseTransceiver(t)
  \/ ClosePort(t) \/ CloseRpio(t) \/ CloseLock(t)

\* What a thread does once it is running; it waits only for the mutex.
Step(t) == SendOnce(t) \/ AfterAttempt(t) \/ SetRetryConfig(t) \/ Close(t) \/ Return(t)

Next == (\E t \in Threads : Call(t) \/ Lock(t) \/ Step(t)) \/ Environment

Spec == Init /\ [][Next]_vars

(***************************************************************************)
(* A running goroutine keeps running, and a sync.Mutex hands itself to a   *)
(* waiter that has waited longer than 1 ms (starvation mode), so every     *)
(* waiter gets it though others keep coming.  Nothing is assumed of the    *)
(* slaves, the wire, or of callers making calls.                           *)
(***************************************************************************)
Fairness == \A t \in Threads : WF_vars(Step(t)) /\ SF_vars(Lock(t))

FairSpec == Spec /\ Fairness

-----------------------------------------------------------------------------
Labels ==
  {"idle", "lock", "send", "enableTX", "raiseRE", "write", "enableRX", "lowerDE",
   "writeFailed", "read", "readRest", "verify", "record", "returned", "setRetry",
   "close", "closeTransceiver", "closeDE", "closePort", "closeRpio", "closeLock"}

Outcomes == {"ok", "exception", "failed"}

Cells == IntactCells \cup {Noise}

Locals ==
  [maxAttempts : Nat, attempts : Seq(Outcomes), res : Outcomes \cup {"none", "echo"},
   answer : Frames \cup {NoFrame}, resp : Seq(Cells), isException : BOOLEAN]

DeviceFields ==
  [closed : BOOLEAN, portOpen : BOOLEAN, needsRpio : BOOLEAN, lockFile : BOOLEAN,
   maxRetries : 0..RetryLimit]

\* The variables hold values of their kinds.
TypeOK ==
  /\ pc \in [Threads -> Labels]
  /\ call \in [Threads -> Calls \cup {NoCall}]
  /\ loc \in [Threads -> Locals]
  /\ mu \in Threads \cup {NoThread}
  /\ dev \in [Devices -> DeviceFields]
  /\ rpioRefCount \in Nat
  /\ de \in BOOLEAN /\ re \in BOOLEAN
  /\ heard \in SUBSET Requests
  /\ line \in Seq(Cells)
  /\ rxBuf \in Seq(Cells)
  /\ executed \in SUBSET Requests

\* Between Lock and the deferred Unlock.
InCriticalSection(t) == pc[t] \notin {"idle", "lock", "record", "returned"}

\* "serialized on the bus, not interleaved" (types.go:13-15): whatever two
\* threads call on whatever devices of the port, at most one of them is between
\* taking the mutex and giving it back.
MutualExclusion == \A t \in Threads : InCriticalSection(t) => mu = t

\* transceiver.go:65: /RE=1 with DE=0 shuts the ISL43485 down; no interleaving of
\* EnableTX, EnableRX, a failed write and Close passes through that state.
NeverShutdown == ~(re /\ ~de)

\* The pins leave bus-idle only while the mutex holder is transmitting: not while
\* it listens, not after a failed write, not after Close, not while nobody calls.
DriverOwned ==
  de \/ re => \E t \in Threads :
                mu = t /\ pc[t] \in {"raiseRE", "write", "enableRX", "lowerDE"}

Last(s) == s[Len(s)]

\* types.go:67-69: a call makes at most 1 + MaxRetries attempts, nothing follows a
\* success or an exception, and an error is returned only when it is permanent or
\* the attempts are used up; success is what the last attempt reported.
RetryDiscipline ==
  \A t \in Threads :
    LET o == loc[t].attempts
    IN  /\ Len(o) <= loc[t].maxAttempts
        /\ \A i \in 1..Len(o) : o[i] \in {"ok", "exception"} =>
              i = Len(o) /\ pc[t] = "returned"
        /\ pc[t] = "returned" /\ call[t].kind = "send" =>
              /\ o # <<>>
              /\ Last(o) \in {"ok", "exception"} \/ Len(o) = loc[t].maxAttempts
              /\ loc[t].res \in {"ok", "echo"} <=> Last(o) = "ok"

Returned(t, outcome) ==
  pc[t] = "returned" /\ call[t].kind = "send" /\ loc[t].res = outcome

\* A write reports success only if a slave carried out a write with the same slave,
\* function, address and quantity or value: late answers, retries and damaged cells
\* never turn another slave's or another write's answer into an acknowledgement.
AckedWriteWasExecuted ==
  \A t \in Threads : Returned(t, "ok") /\ IsWrite(call[t].req) =>
    \E q \in executed : SameEcho(q, call[t].req)

\* With slaves that answer in time or not at all, a call's answer is the answer to
\* its own request, whatever bytes earlier attempts left in the input buffer.
AnswerToThisRequest ==
  \A t \in Threads : Returned(t, "ok") \/ Returned(t, "exception") =>
    loc[t].answer.req = call[t].req

\* main.go:406-407 says the expected slave ID is kept in the CRC and exception
\* checks: an accepted answer, normal or exception, comes from the slave addressed.
AnswerFromAddressedSlave ==
  \A t \in Threads : Returned(t, "ok") \/ Returned(t, "exception") =>
    loc[t].answer.req.slave = call[t].req.slave

\* types.go:143-152: the mapping's reference count is the number of devices that
\* still need it, at every step of every Close.
RpioBalanced == rpioRefCount = Cardinality({d \in Devices : dev[d].needsRpio})

\* Once no Close is under way, a closed device holds no port, no share of the GPIO
\* mapping and no lock file, and an open device still holds its port.
CloseIsComplete ==
  mu = NoThread => \A d \in Devices :
    IF dev[d].closed
      THEN ~dev[d].portOpen /\ ~dev[d].needsRpio /\ ~dev[d].lockFile
      ELSE dev[d].portOpen /\ dev[d].needsRpio = UsesGPIO

\* Pins move only for the mutex holder, only on a device that still holds the GPIO
\* mapping, and the driver goes on only for a device that is not closed.
PinsMoveOnOpenDevice ==
  [][\E t \in Threads :
       /\ mu = t
       /\ dev[Dev(t)].needsRpio /\ rpioRefCount > 0
       /\ de' /\ ~de => ~dev[Dev(t)].closed]_pinVars

\* main.go:275-279: the lock file goes last; another process that sees it gone
\* finds the port closed, the mapping released and the bus idle.
LockFileGoesLast ==
  [][\A d \in Devices : dev[d].lockFile /\ ~dev'[d].lockFile =>
       dev[d].closed /\ ~dev[d].portOpen /\ ~dev[d].needsRpio /\ ~de /\ ~re]_vars

(***************************************************************************)
(* How many more steps of its own a call takes at most.  In an attempt a   *)
(* read that is not the last adds at least one cell to the response.       *)
(***************************************************************************)
AttemptSteps(label, cells, got) ==
  CASE label = "lock"        -> cells + 12
    [] label = "send"        -> cells + 11
    [] label = "enableTX"    -> cells + 10
    [] label = "raiseRE"     -> cells + 9
    [] label = "write"       -> cells + 8
    [] label = "enableRX"    -> cells + 7
    [] label = "lowerDE"     -> cells + 6
    [] label = "read"        -> cells + 5
    [] label = "readRest"    -> cells + 4 - got
    [] label = "verify"      -> 3
    [] label = "writeFailed" -> 3
    [] label = "record"      -> 2

OtherSteps(label) ==
  CASE label = "lock"             -> 8
    [] label = "close"            -> 7
    [] label = "closeTransceiver" -> 6
    [] label = "closeDE"          -> 5
    [] label = "closePort"        -> 4
    [] label = "closeRpio"        -> 3
    [] label = "closeLock"        -> 2
    [] label = "setRetry"         -> 2

AttemptsLeft(t) == loc[t].maxAttempts - Len(loc[t].attempts)

StepsLeft(t) ==
  IF pc[t] = "idle" THEN 0
  ELSE IF pc[t] = "returned" THEN 1
  ELSE IF call[t].kind # "send" THEN OtherSteps(pc[t])
  ELSE AttemptSteps(pc[t], call[t].req.cells, Len(loc[t].resp))
         + (call[t].req.cells + 13) * (AttemptsLeft(t) - 1)

\* main.go:359-376, 460-501: whatever arrives late, damaged or cell by cell, however the
\* retry configuration changes and whoever closes the device meanwhile, every step of a
\* call brings its return nearer: no sequence of failures, short reads and retries is
\* longer than what the retry limit and the length of the answer allow.
CallsRunDown ==
  [][\A t \in Threads : pc[t] # "idle" =>
       \/ UNCHANGED <<pc[t], call[t], loc[t]>>
       \/ StepsLeft(t)' \in 0..(StepsLeft(t) - 1)]_vars

\* The bus is serialized: the calls implement the abstract half-duplex bus, its
\* owner read off the mutex and its driver off the DE pin.
Bus == INSTANCE HalfDuplexBus WITH owner <- mu, driver <- de

ImplementsBus == Bus!BusSpec

\* Every call returns, though the slaves stay silent, the port fails, or other
\* threads never stop calling.
EveryCallReturns == \A t \in Threads : pc[t] # "idle" ~> pc[t] = "idle"
=============================================================================
