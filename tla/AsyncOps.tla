------------------------------ MODULE AsyncOps ------------------------------
(***************************************************************************)
(* The Node side of the devices opened on one port: index.js and           *)
(* go/binding.go.  The JavaScript thread turns a call into a promise and   *)
(* an async work; a libuv worker executes it and takes the port mutex for  *)
(* every attempt; the JavaScript thread completes it and settles the       *)
(* promise.  SetDebug, SetRetryConfig and the finalizer of a collected     *)
(* device run on the JavaScript thread itself.                             *)
(*                                                                         *)
(* What an attempt does on the bus is ModbusDevice's subject: here it only *)
(* holds the mutex and ends in success or failure.                         *)
(***************************************************************************)
EXTENDS Integers, Sequences, FiniteSets

CONSTANTS
  Ops,          \* asyncOp values in flight at once (bound)
  Devices,      \* ModbusDevice values sharing the port's mutex
  PoolSize,     \* threads of the libuv pool
  RetryLimit,   \* bound: the largest MaxRetries configured
  Free,         \* the holder of a free mutex
  NoDevice      \* the device of an unused op

ASSUME AsyncAssumption ==
  /\ IsFiniteSet(Ops)
  /\ PoolSize \in Nat \ {0}
  /\ RetryLimit \in Nat
  /\ Free \notin Ops
  /\ NoDevice \notin Devices

VARIABLES
  op,      \* the asyncOp values: [kind, dev, stage, retries left, outcome]
  queue,   \* works waiting for a worker
  js,      \* what the program has of each device
  closing, \* the _closed flag of each ModbusRTU object
  opened,  \* the Go device exists and has not been closed
  mu,      \* the op that holds the port mutex
  main     \* what the JavaScript thread does: [at, dev]

vars == <<op, queue, js, closing, opened, mu, main>>

Unused == [kind |-> "none", dev |-> NoDevice, stage |-> "free", left |-> 0,
           outcome |-> "none"]

Running == {i \in Ops : op[i].stage \in {"running", "locked", "bus"}}

MainIdle == main.at = "idle"

Init ==
  /\ op = [i \in Ops |-> Unused]
  /\ queue = <<>>
  /\ js = [d \in Devices |-> "none"]
  /\ closing = [d \in Devices |-> FALSE]
  /\ opened = [d \in Devices |-> FALSE]
  /\ mu = Free
  /\ main = [at |-> "idle", dev |-> NoDevice]

-----------------------------------------------------------------------------
(***************************************************************************)
(* Calls of the program, on the JavaScript thread.                         *)
(***************************************************************************)
QueueAsyncOp(i, kind, d) ==
  /\ op[i].stage = "free"
  /\ op' = [op EXCEPT ![i] = [Unused EXCEPT !.kind = kind, !.dev = d, !.stage = "queued"]]
  /\ queue' = Append(queue, i)

Open(i, d) ==
  /\ MainIdle /\ js[d] = "none"
  /\ QueueAsyncOp(i, "new", d)
  /\ js' = [js EXCEPT ![d] = "opening"]
  /\ UNCHANGED <<closing, opened, mu, main>>

AssertOpen(d) == MainIdle /\ js[d] = "held" /\ ~closing[d]

\* A read or a write.
Call(i, d) ==
  /\ AssertOpen(d)
  /\ QueueAsyncOp(i, "bus", d)
  /\ UNCHANGED <<js, closing, opened, mu, main>>

Close(i, d) ==
  /\ AssertOpen(d)
  /\ closing' = [closing EXCEPT ![d] = TRUE]
  /\ QueueAsyncOp(i, "close", d)
  /\ UNCHANGED <<js, opened, mu, main>>

\* queueAsyncOp throws: the flag is set, the device stays open.
CloseThrows(d) ==
  /\ AssertOpen(d)
  /\ closing' = [closing EXCEPT ![d] = TRUE]
  /\ UNCHANGED <<op, queue, js, opened, mu, main>>

\* setDebug, setRetryConfig: the thread waits for the mutex.
Set(d) ==
  /\ AssertOpen(d)
  /\ main' = [at |-> "set", dev |-> d]
  /\ UNCHANGED <<op, queue, js, closing, opened, mu>>

\* The program keeps no reference to the device; calls may be in flight.
Drop(d) ==
  /\ MainIdle /\ js[d] = "held"
  /\ js' = [js EXCEPT ![d] = "dropped"]
  /\ UNCHANGED <<op, queue, closing, opened, mu, main>>

\* The collector finds the device: deviceFinalize calls Close.
Finalize(d) ==
  /\ MainIdle /\ js[d] = "dropped"
  /\ main' = [at |-> "finalize", dev |-> d]
  /\ UNCHANGED <<op, queue, js, closing, opened, mu>>

\* The mutex is free: the setter or Close runs to its end.
RunSet ==
  /\ main.at = "set"
  /\ mu = Free
  /\ main' = [at |-> "idle", dev |-> NoDevice]
  /\ UNCHANGED <<op, queue, js, closing, opened, mu>>

RunFinalize ==
  /\ main.at = "finalize"
  /\ mu = Free
  /\ opened' = [opened EXCEPT ![main.dev] = FALSE]
  /\ js' = [js EXCEPT ![main.dev] = "finalized"]
  /\ main' = [at |-> "idle", dev |-> NoDevice]
  /\ UNCHANGED <<op, queue, closing, mu>>

-----------------------------------------------------------------------------
(***************************************************************************)
(* asyncExecute, on a worker.                                              *)
(***************************************************************************)
\* A bus operation reads its retry configuration once, without the mutex: whatever the
\* options or SetRetryConfig made it, up to RetryLimit retries.
Retries(kind) == IF kind = "bus" THEN 0..RetryLimit ELSE {0}

StartWork ==
  /\ queue # <<>>
  /\ Cardinality(Running) < PoolSize
  /\ \E n \in Retries(op[Head(queue)].kind) :
       op' = [op EXCEPT ![Head(queue)].stage = "running", ![Head(queue)].left = n]
  /\ queue' = Tail(queue)
  /\ UNCHANGED <<js, closing, opened, mu, main>>

Executed(i, outcome) ==
  op' = [op EXCEPT ![i].stage = "executed", ![i].outcome = outcome]

\* NewModbusDevice takes no mutex.
OpenDevice(i) ==
  /\ op[i].stage = "running" /\ op[i].kind = "new"
  /\ \/ Executed(i, "ok") /\ opened' = [opened EXCEPT ![op[i].dev] = TRUE]
     \/ Executed(i, "failed") /\ UNCHANGED opened
  /\ UNCHANGED <<queue, js, closing, mu, main>>

Lock(i) ==
  /\ op[i].stage = "running" /\ op[i].kind # "new"
  /\ mu = Free
  /\ mu' = i
  /\ op' = [op EXCEPT ![i].stage = "locked"]
  /\ UNCHANGED <<queue, js, closing, opened, main>>

\* Fault: the closed flag is not looked at.
SendAlways(i) ==
  /\ op[i].stage = "locked" /\ op[i].kind = "bus"
  /\ op' = [op EXCEPT ![i].stage = "bus"]
  /\ UNCHANGED <<queue, js, closing, opened, mu, main>>

Send(i) ==
  /\ op[i].stage = "locked" /\ op[i].kind = "bus"
  /\ opened[op[i].dev]
  /\ op' = [op EXCEPT ![i].stage = "bus"]
  /\ UNCHANGED <<queue, js, closing, opened, mu, main>>

\* isTransientError: everything but a ModbusException is worth a retry.
Transient(outcome) == outcome = "failed"

\* Fault: one retry too many.
RetryOnceMore(i, outcome) ==
  /\ mu' = Free
  /\ IF Transient(outcome) /\ op[i].left >= 0
       THEN op' = [op EXCEPT ![i].stage = "running", ![i].left = @ - 1]
       ELSE Executed(i, outcome)
  /\ UNCHANGED <<queue, js, closing, opened, main>>

\* Fault: the mutex is not given up.
AttemptEndsLocked(i, outcome) ==
  /\ Executed(i, outcome)
  /\ UNCHANGED <<queue, js, closing, opened, mu, main>>

\* The attempt gives the mutex up; a transient failure is retried while retries are left.
AttemptEnds(i, outcome) ==
  /\ mu' = Free
  /\ IF Transient(outcome) /\ op[i].left > 0
       THEN op' = [op EXCEPT ![i].stage = "running", ![i].left = @ - 1]
       ELSE Executed(i, outcome)
  /\ UNCHANGED <<queue, js, closing, opened, main>>

\* A text like any other error, and so transient.
RefuseClosed(i) ==
  /\ op[i].stage = "locked" /\ op[i].kind = "bus"
  /\ ~opened[op[i].dev]
  /\ AttemptEnds(i, "failed")

Succeed(i) == op[i].stage = "bus" /\ AttemptEnds(i, "ok")

\* No answer or a wrong one, or the slave's exception.
Fail(i) ==
  /\ op[i].stage = "bus"
  /\ \E outcome \in {"failed", "exception"} : AttemptEnds(i, outcome)

CloseDevice(i) ==
  /\ op[i].stage = "locked" /\ op[i].kind = "close"
  /\ mu' = Free
  /\ opened' = [opened EXCEPT ![op[i].dev] = FALSE]
  /\ Executed(i, "ok")
  /\ UNCHANGED <<queue, js, closing, main>>

-----------------------------------------------------------------------------
(***************************************************************************)
(* asyncComplete, on the JavaScript thread, settles the promise and frees  *)
(* the op.  A device that was opened becomes an external of its own.       *)
(***************************************************************************)
\* Fault: a failure is not reported.
CompleteResolvedOnly(i) ==
  /\ MainIdle /\ op[i].stage = "executed" /\ op[i].outcome = "ok"
  /\ js' = IF op[i].kind = "new" THEN [js EXCEPT ![op[i].dev] = "held"] ELSE js
  /\ op' = [op EXCEPT ![i] = Unused]
  /\ UNCHANGED <<queue, closing, opened, mu, main>>

\* Fault: no external is made of the opened device.
CompleteUndefined(i) ==
  /\ MainIdle /\ op[i].stage = "executed"
  /\ js' = IF op[i].kind = "new" THEN [js EXCEPT ![op[i].dev] = "none"] ELSE js
  /\ op' = [op EXCEPT ![i] = Unused]
  /\ UNCHANGED <<queue, closing, opened, mu, main>>

Complete(i) ==
  /\ MainIdle /\ op[i].stage = "executed"
  /\ js' = IF op[i].kind = "new"
             THEN [js EXCEPT ![op[i].dev] = IF op[i].outcome = "ok" THEN "held" ELSE "none"]
             ELSE js
  /\ op' = [op EXCEPT ![i] = Unused]
  /\ UNCHANGED <<queue, closing, opened, mu, main>>

\* The model's name for a finalized device, once no call uses it, is used again.
Reuse(d) ==
  /\ MainIdle /\ js[d] = "finalized"
  /\ \A i \in Ops : op[i].dev # d
  /\ js' = [js EXCEPT ![d] = "none"]
  /\ closing' = [closing EXCEPT ![d] = FALSE]
  /\ UNCHANGED <<op, queue, opened, mu, main>>

-----------------------------------------------------------------------------
Program(d) ==
  \/ \E i \in Ops : Open(i, d) \/ Call(i, d) \/ Close(i, d)
  \/ CloseThrows(d) \/ Set(d) \/ Drop(d) \/ Finalize(d) \/ Reuse(d)

Execute(i) ==
  OpenDevice(i) \/ Send(i) \/ RefuseClosed(i) \/ Succeed(i) \/ Fail(i) \/ CloseDevice(i)

Next ==
  \/ \E d \in Devices : Program(d)
  \/ RunSet \/ RunFinalize \/ StartWork
  \/ \E i \in Ops : Lock(i) \/ Execute(i) \/ Complete(i)

Spec == Init /\ [][Next]_vars

(***************************************************************************)
(* Workers run; a waiting Lock gets the mutex though others keep taking it *)
(* (sync.Mutex starvation mode), the JavaScript thread's too; the event    *)
(* loop runs pending completions between the program's own turns.  The     *)
(* program owes nothing: no call, no close, no collection.                 *)
(***************************************************************************)
Fairness ==
  /\ WF_vars(StartWork)
  /\ SF_vars(RunSet) /\ SF_vars(RunFinalize)
  /\ \A i \in Ops : SF_vars(Lock(i)) /\ WF_vars(Execute(i)) /\ SF_vars(Complete(i))

FairSpec == Spec /\ Fairness

-----------------------------------------------------------------------------
\* The variables hold values of their kinds; left is a number of retries.
TypeOK ==
  /\ op \in [Ops -> [kind : {"none", "new", "bus", "close"},
                     dev : Devices \cup {NoDevice},
                     stage : {"free", "queued", "running", "locked", "bus", "executed"},
                     left : 0..RetryLimit,
                     outcome : {"none", "ok", "failed", "exception"}]]
  /\ queue \in Seq(Ops)
  /\ js \in [Devices -> {"none", "opening", "held", "dropped", "finalized"}]
  /\ closing \in [Devices -> BOOLEAN] /\ opened \in [Devices -> BOOLEAN]
  /\ mu \in Ops \cup {Free}
  /\ main \in [at : {"idle", "set", "finalize"}, dev : Devices \cup {NoDevice}]

\* index.js:177-186: once close() or the finalizer has closed a device, none of its
\* calls is on the bus, though they were queued or waiting before it.
ClosedDeviceIsQuiet ==
  \A i \in Ops : op[i].stage = "bus" => opened[op[i].dev] /\ mu = i

\* binding.go:8-9: no open device is lost: the program or the collector has it, or
\* the promise that will hand it over is not settled yet.
OpenDeviceIsReachable ==
  \A d \in Devices : opened[d] =>
    \/ js[d] \in {"held", "dropped"}
    \/ \E i \in Ops : op[i].dev = d /\ op[i].kind = "new" /\ op[i].outcome = "ok"

\* binding.go:15-17 says that bus operations do not block the event loop, and
\* binding.go:30-31 that the synchronous calls do no bus I/O: the JavaScript thread
\* never waits while a worker is on the bus.
EventLoopNeverWaitsForBus ==
  ~MainIdle => \A i \in Ops : op[i].stage # "bus"

\* Every call's promise is settled, though the pool is full, devices are closed and
\* collected under it, and the JavaScript thread waits for the bus meanwhile.
EveryPromiseSettles == \A i \in Ops : op[i].stage # "free" ~> op[i].stage = "free"

\* The JavaScript thread, waiting for the mutex, goes on, though workers keep
\* taking it for attempt after attempt.
EventLoopResumes == ~MainIdle ~> MainIdle
=============================================================================
