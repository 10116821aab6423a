------------------------- MODULE ModbusDeviceProofs -------------------------
(***************************************************************************)
(* Theorems of ModbusDevice, for every number of threads and devices,      *)
(* every set of requests and answers, and every transceiver: the bus is    *)
(* owned by one thread at a time, the direction pins follow the owner, and *)
(* the calls implement HalfDuplexBus.                                      *)
(***************************************************************************)
EXTENDS ModbusDevice, FiniteSetTheorems, SequenceTheorems, TLAPS

-----------------------------------------------------------------------------
SendLabels ==
  {"send", "enableTX", "raiseRE", "write", "enableRX", "lowerDE", "writeFailed",
   "read", "readRest", "verify", "record"}

CloseLabels ==
  {"close", "closeTransceiver", "closeDE", "closePort", "closeRpio", "closeLock"}

\* The program counter agrees with the kind of the call, and an attempt that is
\* over has an outcome.
CallInv ==
  \A t \in Threads :
    /\ pc[t] # "idle" => call[t] \in Calls
    /\ pc[t] \in SendLabels => call[t].kind = "send"
    /\ pc[t] = "setRetry" => call[t].kind = "setRetry"
    /\ pc[t] \in CloseLabels => call[t].kind = "close"
    /\ pc[t] = "record" => loc[t].res \in Outcomes

\* The mutex is held exactly by the thread inside.
MutexInv == \A t \in Threads : mu = t <=> InCriticalSection(t)

\* Where the driver is on, and where the receiver is off.
DriverOn ==
  CASE TransceiverType = "isl43485" -> {"raiseRE", "write", "enableRX", "lowerDE"}
    [] TransceiverType = "max485" -> {"write", "enableRX"}
    [] OTHER -> {}

ReceiverOff == IF TransceiverType = "auto" THEN {} ELSE {"write", "enableRX"}

PinInv ==
  /\ de <=> \E t \in Threads : pc[t] \in DriverOn
  /\ re <=> \E t \in Threads : pc[t] \in ReceiverOff

IInv == TypeOK /\ CallInv /\ MutexInv /\ PinInv

-----------------------------------------------------------------------------
\* A frame is at least a header, so an intact response begins with one.
LEMMA IntactHeader ==
  ASSUME NEW cells, NEW n, Intact(cells, n)
  PROVE  \E f \in Frames : cells[1] = Cell(f, 1)
<1>1. PICK f \in Answers : FrameCells(f) = n /\ \A i \in 1..n : cells[i] = Cell(f, i)
  BY DEF Intact
<1>2. f \in Frames
  BY AnswerAssumption
<1>3. f.req \in Requests /\ f.exc \in BOOLEAN
  BY <1>2 DEF Frames
<1>4. f.req.cells \in Nat \ {0}
  BY <1>3, DeviceAssumption
<1>5. FrameCells(f) \in Nat \ {0}
  BY <1>4 DEF FrameCells
<1>6. 1 \in 1..n
  BY <1>1, <1>5
<1> QED
  BY <1>1, <1>2, <1>6

LEMMA InitIInv == Init => IInv
<1> SUFFICES ASSUME Init PROVE IInv
  OBVIOUS
<1>1. Cardinality(Devices) \in Nat
  BY FS_CardinalityType, DeviceAssumption
<1>2. TypeOK
  <2>1. loc \in [Threads -> Locals]
    BY DEF Init, NoLocals, Locals
  <2>2. dev \in [Devices -> DeviceFields]
    <3>1. dev \in [Devices -> [closed : {FALSE}, portOpen : {TRUE}, needsRpio : {UsesGPIO},
                              lockFile : BOOLEAN, maxRetries : 0..RetryLimit]]
      BY DEF Init
    <3>2. UsesGPIO \in BOOLEAN
      BY DEF UsesGPIO
    <3> QED
      BY <3>1, <3>2 DEF DeviceFields
  <2>3. /\ pc \in [Threads -> Labels]
        /\ call \in [Threads -> Calls \cup {NoCall}]
        /\ mu \in Threads \cup {NoThread}
    BY DEF Init, Labels
  <2>4. rpioRefCount \in Nat
    BY <1>1 DEF Init
  <2>5. de \in BOOLEAN /\ re \in BOOLEAN
    BY DEF Init
  <2>6. heard \in SUBSET Requests /\ executed \in SUBSET Requests
    BY DEF Init
  <2>7. line \in Seq(Cells) /\ rxBuf \in Seq(Cells)
    BY DEF Init
  <2> QED
    BY <2>1, <2>2, <2>3, <2>4, <2>5, <2>6, <2>7 DEF TypeOK
<1>3. CallInv
  BY DEF Init, CallInv, SendLabels, CloseLabels
<1>4. MutexInv
  BY DeviceAssumption DEF Init, MutexInv, InCriticalSection
<1>5. PinInv
  BY DEF Init, PinInv, DriverOn, ReceiverOff
<1> QED
  BY <1>2, <1>3, <1>4, <1>5 DEF IInv

-----------------------------------------------------------------------------
\* The critical section and the labels, spelled out for the steps below.
USE DEF InCriticalSection

LEMMA EndedLocals ==
  ASSUME NEW l \in Locals, NEW r \in Outcomes, NEW f \in Frames \cup {NoFrame}
  PROVE  [l EXCEPT !.res = r, !.answer = f, !.resp = <<>>, !.isException = FALSE] \in Locals
<1>1. <<>> \in Seq(Cells)
  OBVIOUS
<1>2. \A e \in Seq(Cells) :
        [l EXCEPT !.res = r, !.answer = f, !.resp = e, !.isException = FALSE] \in Locals
  BY DEF Locals
<1> QED
  BY <1>1, <1>2

LEMMA EndAttemptStep ==
  ASSUME IInv, NEW t \in Threads, NEW r \in Outcomes, NEW f \in Frames \cup {NoFrame},
         pc[t] \in SendLabels \ {"record"}, pc[t] \notin DriverOn, pc[t] \notin ReceiverOff,
         EndAttempt(t, r, f)
  PROVE  IInv'
<1>1. TypeOK'
  <2>1. loc' \in [Threads -> Locals]
    <3>1. loc[t] \in Locals /\ loc \in [Threads -> Locals]
      BY DEF IInv, TypeOK
    <3>2. [loc[t] EXCEPT !.res = r, !.answer = f, !.resp = <<>>, !.isException = FALSE]
            \in Locals
      BY <3>1, EndedLocals
    <3>3. loc' = [loc EXCEPT ![t] = [loc[t] EXCEPT !.res = r, !.answer = f,
                                                  !.resp = <<>>, !.isException = FALSE]]
      BY <3>1 DEF EndAttempt
    <3> QED
      BY <3>1, <3>2, <3>3
  <2>2. pc' \in [Threads -> Labels]
    BY DEF IInv, TypeOK, EndAttempt, Goto, Labels
  <2>3. heard' \in SUBSET Requests /\ line' \in Seq(Cells)
    <3>1. CASE AnswersOutliveAttempt
      BY <3>1 DEF IInv, TypeOK, EndAttempt
    <3>2. CASE ~AnswersOutliveAttempt
      BY <3>2 DEF EndAttempt
    <3> QED
      BY <3>1, <3>2
  <2>4. mu' \in Threads \cup {NoThread}
    BY DEF EndAttempt
  <2> QED
    BY <2>1, <2>2, <2>3, <2>4 DEF IInv, TypeOK, EndAttempt, deviceVars, pinVars
<1>2. CallInv'
  BY DEF IInv, TypeOK, CallInv, EndAttempt, Goto, SendLabels, CloseLabels
<1>3. MutexInv'
  BY DeviceAssumption DEF IInv, TypeOK, MutexInv, EndAttempt, Goto, SendLabels
<1>4. PinInv'
  BY DEF IInv, TypeOK, PinInv, EndAttempt, Goto, pinVars, DriverOn, ReceiverOff
<1> QED
  BY <1>1, <1>2, <1>3, <1>4 DEF IInv

LEMMA PinStepStep ==
  ASSUME IInv, NEW t \in Threads, NEW from, NEW to, NEW d \in BOOLEAN, NEW e \in BOOLEAN,
         \/ from \in SendLabels \ {"record"} /\ to \in SendLabels \ {"record"}
         \/ from \in CloseLabels /\ to \in CloseLabels,
         PinStep(t, from, to, d, e)
  PROVE  TypeOK' /\ CallInv' /\ MutexInv'
<1>1. TypeOK'
  BY DEF IInv, TypeOK, PinStep, Goto, deviceVars, wireVars, Labels, SendLabels, CloseLabels
<1>2. CallInv'
  BY DEF IInv, TypeOK, CallInv, PinStep, Goto, SendLabels, CloseLabels
<1>3. MutexInv'
  BY DEF IInv, TypeOK, MutexInv, PinStep, Goto, SendLabels, CloseLabels
<1> QED
  BY <1>1, <1>2, <1>3

LEMMA SendCall ==
  ASSUME IInv, NEW t \in Threads, pc[t] \in SendLabels
  PROVE  /\ call[t].dev \in Devices
         /\ call[t].req \in Requests
         /\ call[t].req.cells \in Nat \ {0}
<1>1. call[t] \in Calls /\ call[t].kind = "send"
  BY DEF IInv, CallInv, SendLabels
<1>2. call[t].dev \in Devices /\ call[t].req \in Requests
  BY <1>1 DEF Calls
<1> QED
  BY <1>2, DeviceAssumption

\* Updates of one field keep the locals in their type.
LEMMA LocalsUpdate ==
  ASSUME NEW l \in Locals
  PROVE  /\ \A n \in Nat : [l EXCEPT !.maxAttempts = n] \in Locals
         /\ \A r \in Outcomes : [l EXCEPT !.res = r] \in Locals
         /\ \A s \in Seq(Cells), b \in BOOLEAN :
              [l EXCEPT !.resp = s, !.isException = b] \in Locals
         /\ \A s \in Seq(Outcomes), r \in Outcomes \cup {"none", "echo"} :
              [l EXCEPT !.attempts = s, !.res = r] \in Locals
  BY DEF Locals

LEMMA LocType ==
  ASSUME TypeOK, NEW t \in Threads, NEW l \in Locals, loc' = [loc EXCEPT ![t] = l]
  PROVE  loc' \in [Threads -> Locals]
  BY DEF TypeOK

LEMMA ReadCellsType ==
  ASSUME IInv, NEW t \in Threads, NEW exc \in BOOLEAN, NEW n \in 1..Len(rxBuf),
         ReadCells(t, exc, n)
  PROVE  TypeOK'
<1> DEFINE got == loc[t].resp \o SubSeq(rxBuf, 1, n)
<1>1. rxBuf \in Seq(Cells) /\ loc[t] \in Locals
  BY DEF IInv, TypeOK
<1>2. SubSeq(rxBuf, 1, n) \in Seq(Cells) /\ SubSeq(rxBuf, n + 1, Len(rxBuf)) \in Seq(Cells)
  BY <1>1
<1>3. got \in Seq(Cells)
  BY <1>1, <1>2 DEF Locals
<1>4. loc' = [loc EXCEPT ![t] = [loc[t] EXCEPT !.resp = got, !.isException = exc]]
  BY DEF ReadCells, TakeCells
<1>5. loc' \in [Threads -> Locals]
  BY <1>1, <1>3, <1>4, LocalsUpdate, LocType DEF IInv
<1>6. rxBuf' \in Seq(Cells)
  BY <1>2 DEF ReadCells, TakeCells
<1>7. pc' \in [Threads -> Labels]
  BY DEF ReadCells, TakeCells, Goto, IInv, TypeOK, Labels
<1> QED
  BY <1>5, <1>6, <1>7 DEF IInv, TypeOK, ReadCells, TakeCells, deviceVars, pinVars

LEMMA RecordType ==
  ASSUME IInv, NEW t \in Threads, NEW label \in Labels,
         NEW r \in Outcomes \cup {"none", "echo"}, Record(t, label, r)
  PROVE  TypeOK'
<1>1. loc[t] \in Locals
  BY DEF IInv, TypeOK
<1>2. loc[t].res \in Outcomes
  BY DEF IInv, CallInv, Record
<1>3. Append(loc[t].attempts, loc[t].res) \in Seq(Outcomes)
  BY <1>1, <1>2 DEF Locals
<1>4. loc' = [loc EXCEPT ![t] = [loc[t] EXCEPT !.attempts = Append(loc[t].attempts, loc[t].res),
                                             !.res = r]]
  BY DEF Record
<1>5. loc' \in [Threads -> Locals]
  BY <1>1, <1>3, <1>4, LocalsUpdate, LocType DEF IInv
<1> QED
  BY <1>5 DEF IInv, TypeOK, Record, Goto, deviceVars, pinVars, wireVars

\* The threads' own steps, one by one.
LEMMA ThreadStep == IInv /\ (\E t \in Threads : Call(t) \/ Lock(t) \/ Step(t)) => IInv'
<1> SUFFICES ASSUME IInv PROVE \A t \in Threads : Call(t) \/ Lock(t) \/ Step(t) => IInv'
  OBVIOUS
<1>1. ASSUME NEW t \in Threads, Call(t) PROVE IInv'
  <2>1. TypeOK'
    <3>1. PICK c \in Calls :
            /\ call' = [call EXCEPT ![t] = c]
            /\ loc' = [loc EXCEPT ![t].maxAttempts =
                          IF c.kind = "send" THEN 1 + dev[c.dev].maxRetries ELSE 1]
      BY <1>1 DEF Call
    <3>2. DEFINE m == IF c.kind = "send" THEN 1 + dev[c.dev].maxRetries ELSE 1
    <3>3. m \in Nat
      <4>1. CASE c.kind = "send"
        <5>1. c.dev \in Devices
          BY <4>1 DEF Calls
        <5>2. dev[c.dev].maxRetries \in 0..RetryLimit
          BY <5>1 DEF IInv, TypeOK, DeviceFields
        <5> QED
          BY <5>2
      <4>2. CASE ~(c.kind = "send")
        BY <4>2
      <4> QED
        BY <4>1, <4>2
    <3>4. loc[t] \in Locals
      BY DEF IInv, TypeOK
    <3>5. [loc[t] EXCEPT !.maxAttempts = m] \in Locals
      BY <3>3, <3>4, LocalsUpdate
    <3>6. loc' = [loc EXCEPT ![t] = [loc[t] EXCEPT !.maxAttempts = m]]
      BY <3>1
    <3>7. loc' \in [Threads -> Locals]
      BY <3>5, <3>6, LocType DEF IInv
    <3> QED
      BY <1>1, <3>1, <3>7 DEF IInv, TypeOK, Labels, Call, Goto, deviceVars, pinVars,
         wireVars, callVars
  <2>2. CallInv'
    BY <1>1 DEF IInv, TypeOK, CallInv, Call, Goto, SendLabels, CloseLabels, pinVars
  <2>3. MutexInv'
    BY <1>1 DEF IInv, TypeOK, MutexInv, Call, Goto
  <2>4. PinInv'
    BY <1>1 DEF IInv, TypeOK, PinInv, Call, Goto, DriverOn, ReceiverOff, pinVars
  <2> QED
    BY <2>1, <2>2, <2>3, <2>4 DEF IInv
<1>2. ASSUME NEW t \in Threads, Lock(t) PROVE IInv'
  <2>1. TypeOK'
    <3>1. call[t].kind \in {"send", "setRetry", "close"}
      BY <1>2 DEF IInv, CallInv, Calls, Lock
    <3> QED
      BY <1>2, <3>1 DEF IInv, TypeOK, Labels, Lock, Goto, deviceVars, pinVars, wireVars,
         callVars
  <2>2. CallInv'
    BY <1>2 DEF IInv, TypeOK, CallInv, Lock, Goto, SendLabels, CloseLabels, Calls
  <2>3. MutexInv'
    BY <1>2, DeviceAssumption DEF IInv, TypeOK, MutexInv, CallInv, Lock, Goto, Calls,
       pinVars
  <2>4. PinInv'
    BY <1>2 DEF IInv, TypeOK, PinInv, CallInv, Lock, Goto, DriverOn, ReceiverOff, Calls,
       pinVars
  <2> QED
    BY <2>1, <2>2, <2>3, <2>4 DEF IInv
<1>3. ASSUME NEW t \in Threads, Return(t) PROVE IInv'
  <2>1. TypeOK'
    BY <1>3 DEF IInv, TypeOK, Labels, Return, Goto, deviceVars, pinVars, wireVars,
       callVars, NoLocals, Locals
  <2>2. CallInv'
    BY <1>3 DEF IInv, TypeOK, CallInv, Return, Goto, SendLabels, CloseLabels, pinVars
  <2>3. MutexInv'
    BY <1>3 DEF IInv, TypeOK, MutexInv, Return, Goto
  <2>4. PinInv'
    BY <1>3 DEF IInv, TypeOK, PinInv, Return, Goto, DriverOn, ReceiverOff, pinVars
  <2> QED
    BY <2>1, <2>2, <2>3, <2>4 DEF IInv
<1>4. ASSUME NEW t \in Threads, RefuseClosed(t) PROVE IInv'
  BY <1>4, EndAttemptStep DEF RefuseClosed, SendLabels, DriverOn, ReceiverOff, Outcomes
<1>5. ASSUME NEW t \in Threads, ResetFails(t) PROVE IInv'
  BY <1>5, EndAttemptStep DEF ResetFails, SendLabels, DriverOn, ReceiverOff, Outcomes
<1>6. ASSUME NEW t \in Threads, WriteFailed(t) PROVE IInv'
  BY <1>6, EndAttemptStep DEF WriteFailed, SendLabels, DriverOn, ReceiverOff, Outcomes
<1>7. ASSUME NEW t \in Threads, StopReading(t) PROVE IInv'
  BY <1>7, EndAttemptStep DEF StopReading, SendLabels, DriverOn, ReceiverOff, Outcomes
<1>8. ASSUME NEW t \in Threads, ResetInputBuffer(t) PROVE IInv'
  <2>1. TypeOK'
    BY <1>8 DEF IInv, TypeOK, Labels, ResetInputBuffer, Goto, deviceVars, pinVars,
       wireVars, callVars, StartTX
  <2>2. CallInv'
    BY <1>8 DEF IInv, TypeOK, CallInv, ResetInputBuffer, Goto, SendLabels, CloseLabels,
       StartTX
  <2>3. MutexInv'
    BY <1>8 DEF IInv, TypeOK, MutexInv, ResetInputBuffer, Goto, StartTX
  <2>4. PinInv'
    BY <1>8 DEF IInv, TypeOK, PinInv, ResetInputBuffer, Goto, DriverOn, ReceiverOff,
       pinVars, StartTX
  <2> QED
    BY <2>1, <2>2, <2>3, <2>4 DEF IInv
<1>9. ASSUME NEW t \in Threads, WriteFrame(t) PROVE IInv'
  <2>1. TypeOK'
    <3>1. call[t].req \in Requests
      BY <1>9, SendCall DEF WriteFrame, SendLabels
    <3> QED
      BY <1>9, <3>1 DEF IInv, TypeOK, Labels, WriteFrame, Goto, deviceVars, pinVars,
         wireVars, callVars
  <2>2. CallInv'
    BY <1>9 DEF IInv, TypeOK, CallInv, WriteFrame, Goto, SendLabels, CloseLabels
  <2>3. MutexInv'
    BY <1>9 DEF IInv, TypeOK, MutexInv, WriteFrame, Goto
  <2>4. PinInv'
    BY <1>9 DEF IInv, TypeOK, PinInv, WriteFrame, Goto, DriverOn, ReceiverOff, pinVars
  <2> QED
    BY <2>1, <2>2, <2>3, <2>4 DEF IInv
<1>10. ASSUME NEW t \in Threads, WriteFails(t) PROVE IInv'
  <2>1. TypeOK'
    BY <1>10 DEF IInv, TypeOK, Labels, WriteFails, Goto, deviceVars, pinVars, wireVars,
       callVars, FailWrite, Locals, Outcomes
  <2>2. CallInv'
    BY <1>10 DEF IInv, TypeOK, CallInv, WriteFails, Goto, SendLabels, CloseLabels, FailWrite
  <2>3. MutexInv'
    BY <1>10 DEF IInv, TypeOK, MutexInv, WriteFails, Goto, FailWrite
  <2>4. PinInv'
    BY <1>10 DEF IInv, TypeOK, PinInv, WriteFails, Goto, DriverOn, ReceiverOff, pinVars,
       FailWrite
  <2> QED
    BY <2>1, <2>2, <2>3, <2>4 DEF IInv
<1>11. ASSUME NEW t \in Threads, EnableTX(t) PROVE IInv'
  <2>1. de \in BOOLEAN /\ re \in BOOLEAN
    BY DEF IInv, TypeOK
  <2>2. CASE TransceiverType = "isl43485" /\ PinStep(t, "enableTX", "raiseRE", TRUE, re)
    <3>1. TypeOK' /\ CallInv' /\ MutexInv'
      BY <2>1, <2>2, PinStepStep DEF SendLabels
    <3>2. PinInv'
      BY <2>1, <2>2 DEF PinStep, Goto, IInv, TypeOK, PinInv, DriverOn, ReceiverOff
    <3> QED
      BY <3>1, <3>2 DEF IInv
  <2>3. CASE TransceiverType = "isl43485" /\ PinStep(t, "raiseRE", "write", de, TRUE)
    <3>1. TypeOK' /\ CallInv' /\ MutexInv'
      BY <2>1, <2>3, PinStepStep DEF SendLabels
    <3>2. PinInv'
      BY <2>1, <2>3 DEF PinStep, Goto, IInv, TypeOK, PinInv, DriverOn, ReceiverOff
    <3> QED
      BY <3>1, <3>2 DEF IInv
  <2>4. CASE TransceiverType = "max485" /\ PinStep(t, "enableTX", "write", TRUE, TRUE)
    <3>1. TypeOK' /\ CallInv' /\ MutexInv'
      BY <2>1, <2>4, PinStepStep DEF SendLabels
    <3>2. PinInv'
      BY <2>1, <2>4 DEF PinStep, Goto, IInv, TypeOK, PinInv, DriverOn, ReceiverOff
    <3> QED
      BY <3>1, <3>2 DEF IInv
  <2>5. CASE TransceiverType = "auto" /\ PinStep(t, "enableTX", "write", de, re)
    <3>1. TypeOK' /\ CallInv' /\ MutexInv'
      BY <2>1, <2>5, PinStepStep DEF SendLabels
    <3>2. PinInv'
      BY <2>1, <2>5 DEF PinStep, IInv, TypeOK, PinInv, DriverOn, ReceiverOff
    <3> QED
      BY <3>1, <3>2 DEF IInv
  <2>6. CASE TransceiverType # "isl43485"
            /\ PinStep(t, "enableTX", "write", de \/ UsesGPIO, re \/ UsesGPIO)
    <3>1. CASE TransceiverType = "max485"
      <4>1. PinStep(t, "enableTX", "write", TRUE, TRUE)
        BY <2>1, <2>6, <3>1 DEF UsesGPIO, PinStep
      <4> QED
        BY <3>1, <4>1, <2>4
    <3>2. CASE TransceiverType = "auto"
      <4>1. PinStep(t, "enableTX", "write", de, re)
        BY <2>1, <2>6, <3>2 DEF UsesGPIO, PinStep
      <4> QED
        BY <3>2, <4>1, <2>5
    <3> QED
      BY <2>6, <3>1, <3>2, DeviceAssumption
  <2> QED
    BY <1>11, <2>2, <2>3, <2>6 DEF EnableTX
<1>12. ASSUME NEW t \in Threads, EnableRX(t) PROVE IInv'
  <2>1. AfterEnableRX(t) \in {"read", "writeFailed"}
    BY DEF AfterEnableRX
  <2>2. de \in BOOLEAN /\ re \in BOOLEAN
    BY DEF IInv, TypeOK
  <2>3. CASE TransceiverType = "isl43485" /\ PinStep(t, "enableRX", "lowerDE", de, FALSE)
    <3>1. TypeOK' /\ CallInv' /\ MutexInv'
      BY <2>1, <2>2, <2>3, PinStepStep DEF SendLabels
    <3>2. PinInv'
      BY <2>1, <2>2, <2>3 DEF PinStep, Goto, IInv, TypeOK, PinInv, MutexInv, DriverOn,
         ReceiverOff
    <3> QED
      BY <3>1, <3>2 DEF IInv
  <2>4. CASE TransceiverType = "isl43485" /\ PinStep(t, "lowerDE", AfterEnableRX(t), FALSE, re)
    <3>1. TypeOK' /\ CallInv' /\ MutexInv'
      BY <2>1, <2>2, <2>4, PinStepStep DEF SendLabels
    <3>2. PinInv'
      BY <2>1, <2>2, <2>4 DEF PinStep, Goto, IInv, TypeOK, PinInv, MutexInv, DriverOn,
         ReceiverOff
    <3> QED
      BY <3>1, <3>2 DEF IInv
  <2>5. CASE TransceiverType = "max485" /\ PinStep(t, "enableRX", AfterEnableRX(t), FALSE, FALSE)
    <3>1. TypeOK' /\ CallInv' /\ MutexInv'
      BY <2>1, <2>2, <2>5, PinStepStep DEF SendLabels
    <3>2. PinInv'
      BY <2>1, <2>2, <2>5 DEF PinStep, Goto, IInv, TypeOK, PinInv, MutexInv, DriverOn,
         ReceiverOff
    <3> QED
      BY <3>1, <3>2 DEF IInv
  <2>6. CASE TransceiverType = "auto" /\ PinStep(t, "enableRX", AfterEnableRX(t), de, re)
    <3>1. TypeOK' /\ CallInv' /\ MutexInv'
      BY <2>1, <2>2, <2>6, PinStepStep DEF SendLabels
    <3>2. PinInv'
      BY <2>1, <2>2, <2>6 DEF PinStep, IInv, TypeOK, PinInv, DriverOn, ReceiverOff
    <3> QED
      BY <3>1, <3>2 DEF IInv
  <2>7. CASE TransceiverType # "isl43485"
            /\ PinStep(t, "enableRX", AfterEnableRX(t), de /\ ~UsesGPIO, re /\ ~UsesGPIO)
    <3>1. CASE TransceiverType = "max485"
      <4>1. PinStep(t, "enableRX", AfterEnableRX(t), FALSE, FALSE)
        BY <2>2, <2>7, <3>1 DEF UsesGPIO, PinStep
      <4> QED
        BY <3>1, <4>1, <2>5
    <3>2. CASE TransceiverType = "auto"
      <4>1. PinStep(t, "enableRX", AfterEnableRX(t), de, re)
        BY <2>2, <2>7, <3>2 DEF UsesGPIO, PinStep
      <4> QED
        BY <3>2, <4>1, <2>6
    <3> QED
      BY <2>7, <3>1, <3>2, DeviceAssumption
  <2> QED
    BY <1>12, <2>3, <2>4, <2>7 DEF EnableRX
<1>13. ASSUME NEW t \in Threads, CloseTransceiver(t) PROVE IInv'
  <2>1. de \in BOOLEAN /\ re \in BOOLEAN
    BY DEF IInv, TypeOK
  <2>2. CASE TransceiverType = "isl43485" /\ PinStep(t, "closeTransceiver", "closeDE", de, FALSE)
    <3>1. TypeOK' /\ CallInv' /\ MutexInv'
      BY <2>1, <2>2, PinStepStep DEF CloseLabels
    <3>2. PinInv'
      BY <2>1, <2>2 DEF PinStep, Goto, IInv, TypeOK, PinInv, MutexInv, DriverOn, ReceiverOff
    <3> QED
      BY <3>1, <3>2 DEF IInv
  <2>3. CASE TransceiverType = "isl43485" /\ PinStep(t, "closeDE", "closePort", FALSE, re)
    <3>1. TypeOK' /\ CallInv' /\ MutexInv'
      BY <2>1, <2>3, PinStepStep DEF CloseLabels
    <3>2. PinInv'
      BY <2>1, <2>3 DEF PinStep, Goto, IInv, TypeOK, PinInv, MutexInv, DriverOn, ReceiverOff
    <3> QED
      BY <3>1, <3>2 DEF IInv
  <2>4. CASE TransceiverType = "max485" /\ PinStep(t, "closeTransceiver", "closePort", FALSE, FALSE)
    <3>1. TypeOK' /\ CallInv' /\ MutexInv'
      BY <2>1, <2>4, PinStepStep DEF CloseLabels
    <3>2. PinInv'
      BY <2>1, <2>4 DEF PinStep, Goto, IInv, TypeOK, PinInv, MutexInv, DriverOn, ReceiverOff
    <3> QED
      BY <3>1, <3>2 DEF IInv
  <2>5. CASE TransceiverType = "auto" /\ PinStep(t, "closeTransceiver", "closePort", de, re)
    <3>1. TypeOK' /\ CallInv' /\ MutexInv'
      BY <2>1, <2>5, PinStepStep DEF CloseLabels
    <3>2. PinInv'
      BY <2>1, <2>5 DEF PinStep, IInv, TypeOK, PinInv, DriverOn, ReceiverOff
    <3> QED
      BY <3>1, <3>2 DEF IInv
  <2>6. CASE TransceiverType # "isl43485"
            /\ PinStep(t, "closeTransceiver", "closePort", de /\ ~UsesGPIO, re /\ ~UsesGPIO)
    <3>1. CASE TransceiverType = "max485"
      <4>1. PinStep(t, "closeTransceiver", "closePort", FALSE, FALSE)
        BY <2>1, <2>6, <3>1 DEF UsesGPIO, PinStep
      <4> QED
        BY <3>1, <4>1, <2>4
    <3>2. CASE TransceiverType = "auto"
      <4>1. PinStep(t, "closeTransceiver", "closePort", de, re)
        BY <2>1, <2>6, <3>2 DEF UsesGPIO, PinStep
      <4> QED
        BY <3>2, <4>1, <2>5
    <3> QED
      BY <2>6, <3>1, <3>2, DeviceAssumption
  <2> QED
    BY <1>13, <2>2, <2>3, <2>6 DEF CloseTransceiver
<1>14. ASSUME NEW t \in Threads, Phase1(t) PROVE IInv'
  <2>1. TypeOK'
    <3>1. PICK n \in 1..Len(rxBuf), exc \in BOOLEAN : ReadCells(t, exc, n)
      <4>1. PICK n \in 1..Len(rxBuf) : \E exc \in MsbSet(rxBuf[1]) : ReadCells(t, exc, n)
        BY <1>14 DEF Phase1
      <4>2. rxBuf[1] \in Cells
        BY DEF IInv, TypeOK
      <4>3. MsbSet(rxBuf[1]) \subseteq BOOLEAN
        BY <4>2 DEF MsbSet, Cells, IntactCells, Frames
      <4> QED
        BY <4>1, <4>3
    <3> QED
      BY <3>1, ReadCellsType
  <2>2. CallInv'
    BY <1>14 DEF IInv, TypeOK, CallInv, Phase1, Goto, SendLabels, CloseLabels, Calls,
       deviceVars, pinVars, wireVars, callVars, ReadCells, TakeCells
  <2>3. MutexInv'
    BY <1>14 DEF IInv, TypeOK, MutexInv, Phase1, Goto, pinVars, ReadCells, TakeCells
  <2>4. PinInv'
    <3>1. PICK l \in {"verify", "readRest"} : pc' = [pc EXCEPT ![t] = l]
      BY <1>14 DEF Phase1, ReadCells, TakeCells, Goto
    <3>2. UNCHANGED pinVars /\ pc[t] \in {"read", "readRest"}
      BY <1>14 DEF Phase1, ReadCells, TakeCells
    <3> QED
      BY <3>1, <3>2 DEF IInv, TypeOK, PinInv, DriverOn, ReceiverOff, pinVars
  <2> QED
    BY <2>1, <2>2, <2>3, <2>4 DEF IInv
<1>15. ASSUME NEW t \in Threads, Phase2(t) PROVE IInv'
  <2>1. TypeOK'
    <3>1. PICK n \in 1..Len(rxBuf), exc \in BOOLEAN : ReadCells(t, exc, n)
      BY <1>15 DEF Phase2, IInv, TypeOK, Locals
    <3> QED
      BY <3>1, ReadCellsType
  <2>2. CallInv'
    BY <1>15 DEF IInv, TypeOK, CallInv, Phase2, Goto, SendLabels, CloseLabels, pinVars,
       ReadCells, TakeCells
  <2>3. MutexInv'
    BY <1>15 DEF IInv, TypeOK, MutexInv, Phase2, Goto, ReadCells, TakeCells
  <2>4. PinInv'
    <3>1. PICK l \in {"verify", "readRest"} : pc' = [pc EXCEPT ![t] = l]
      BY <1>15 DEF Phase2, ReadCells, TakeCells, Goto
    <3>2. UNCHANGED pinVars /\ pc[t] \in {"read", "readRest"}
      BY <1>15 DEF Phase2, ReadCells, TakeCells
    <3> QED
      BY <3>1, <3>2 DEF IInv, TypeOK, PinInv, DriverOn, ReceiverOff, pinVars
  <2> QED
    BY <2>1, <2>2, <2>3, <2>4 DEF IInv
<1>16. ASSUME NEW t \in Threads, Verify(t) PROVE IInv'
  <2> DEFINE f == loc[t].resp[1].from
             n == FinalLen(t, loc[t].isException)
  <2>1. /\ pc[t] \in SendLabels \ {"record"}
        /\ pc[t] \notin DriverOn /\ pc[t] \notin ReceiverOff
    BY <1>16 DEF Verify, SendLabels, DriverOn, ReceiverOff
  <2>2. CASE EndAttempt(t, "failed", NoFrame)
    BY <2>1, <2>2, EndAttemptStep DEF Outcomes
  <2>3. CASE Intact(loc[t].resp, n) /\ (EndAttempt(t, "exception", f) \/ EndAttempt(t, "ok", f))
    <3>1. PICK g \in Frames : loc[t].resp[1] = Cell(g, 1)
      BY <2>3, IntactHeader
    <3>2. f \in Frames
      BY <3>1 DEF Cell
    <3> HIDE DEF f
    <3> QED
      BY <2>1, <2>3, <3>2, EndAttemptStep DEF Outcomes
  <2> QED
    BY <1>16, <2>2, <2>3 DEF Verify
<1>17. ASSUME NEW t \in Threads, Succeed(t) PROVE IInv'
  <2>1. TypeOK'
    <3>1. loc[t].res \in Outcomes
      BY <1>17 DEF Succeed, Record, IInv, CallInv
    <3> QED
      BY <1>17, <3>1, RecordType DEF Succeed, Labels
  <2>2. CallInv'
    BY <1>17 DEF IInv, TypeOK, CallInv, Succeed, Goto, SendLabels, CloseLabels, pinVars,
       Record
  <2>3. MutexInv'
    BY <1>17 DEF IInv, TypeOK, MutexInv, Succeed, Goto, Record
  <2>4. PinInv'
    BY <1>17 DEF IInv, TypeOK, PinInv, Succeed, Goto, DriverOn, ReceiverOff, pinVars, Record
  <2> QED
    BY <2>1, <2>2, <2>3, <2>4 DEF IInv
<1>18. ASSUME NEW t \in Threads, Retry(t) PROVE IInv'
  <2>1. TypeOK'
    <3>1. loc[t].res \in Outcomes
      BY <1>18 DEF Retry, Record, IInv, CallInv
    <3> QED
      BY <1>18, <3>1, RecordType DEF Retry, Labels
  <2>2. CallInv'
    BY <1>18 DEF IInv, TypeOK, CallInv, Retry, Goto, SendLabels, CloseLabels, pinVars,
       Record
  <2>3. MutexInv'
    BY <1>18 DEF IInv, TypeOK, MutexInv, Retry, Goto, Record
  <2>4. PinInv'
    BY <1>18 DEF IInv, TypeOK, PinInv, Retry, Goto, DriverOn, ReceiverOff, pinVars, Record
  <2> QED
    BY <2>1, <2>2, <2>3, <2>4 DEF IInv
<1>19. ASSUME NEW t \in Threads, GiveUp(t) PROVE IInv'
  <2>1. TypeOK'
    <3>1. loc[t].res \in Outcomes
      BY <1>19 DEF GiveUp, Record, IInv, CallInv
    <3> QED
      BY <1>19, <3>1, RecordType DEF GiveUp, Labels
  <2>2. CallInv'
    BY <1>19 DEF IInv, TypeOK, CallInv, GiveUp, Goto, SendLabels, CloseLabels, pinVars,
       Record
  <2>3. MutexInv'
    BY <1>19 DEF IInv, TypeOK, MutexInv, GiveUp, Goto, Record
  <2>4. PinInv'
    BY <1>19 DEF IInv, TypeOK, PinInv, GiveUp, Goto, DriverOn, ReceiverOff, pinVars, Record
  <2> QED
    BY <2>1, <2>2, <2>3, <2>4 DEF IInv
<1>20. ASSUME NEW t \in Threads, SetRetryConfig(t) PROVE IInv'
  <2>1. TypeOK'
    <3>1. call[t].retries \in 0..RetryLimit
      <4>1. call[t] \in Calls /\ call[t].kind = "setRetry"
        BY <1>20 DEF SetRetryConfig, SetMaxRetries, IInv, CallInv
      <4> QED
        BY <4>1 DEF Calls
    <3>2. dev' \in [Devices -> DeviceFields]
      BY <1>20, <3>1 DEF SetRetryConfig, SetMaxRetries, IInv, TypeOK, DeviceFields
    <3> QED
      BY <1>20, <3>2 DEF IInv, TypeOK, Labels, SetRetryConfig, SetMaxRetries, Unlock,
         Goto, deviceVars, pinVars, wireVars, callVars
  <2>2. CallInv'
    BY <1>20 DEF IInv, TypeOK, CallInv, SetRetryConfig, Goto, SendLabels, CloseLabels,
       SetMaxRetries, Unlock
  <2>3. MutexInv'
    BY <1>20, DeviceAssumption DEF IInv, TypeOK, MutexInv, SetRetryConfig, Goto,
       deviceVars, pinVars, callVars, SetMaxRetries, Unlock
  <2>4. PinInv'
    BY <1>20 DEF IInv, TypeOK, PinInv, SetRetryConfig, Goto, DriverOn, ReceiverOff,
       deviceVars, pinVars, callVars, SetMaxRetries, Unlock
  <2> QED
    BY <2>1, <2>2, <2>3, <2>4 DEF IInv
<1>21. ASSUME NEW t \in Threads, CloseAgain(t) PROVE IInv'
  <2>1. TypeOK'
    BY <1>21 DEF IInv, TypeOK, Labels, CloseAgain, Goto, deviceVars, pinVars, wireVars,
       callVars, Unlock
  <2>2. CallInv'
    BY <1>21 DEF IInv, TypeOK, CallInv, CloseAgain, Goto, SendLabels, CloseLabels, Unlock
  <2>3. MutexInv'
    BY <1>21, DeviceAssumption DEF IInv, TypeOK, MutexInv, CloseAgain, Goto, pinVars, Unlock
  <2>4. PinInv'
    BY <1>21 DEF IInv, TypeOK, PinInv, CloseAgain, Goto, DriverOn, ReceiverOff, pinVars,
       Unlock
  <2> QED
    BY <2>1, <2>2, <2>3, <2>4 DEF IInv
<1>22. ASSUME NEW t \in Threads, BeginClose(t) PROVE IInv'
  <2>1. TypeOK'
    BY <1>22 DEF IInv, TypeOK, Labels, BeginClose, Goto, deviceVars, pinVars, wireVars,
       callVars, DeviceFields
  <2>2. CallInv'
    BY <1>22 DEF IInv, TypeOK, CallInv, BeginClose, Goto, SendLabels, CloseLabels
  <2>3. MutexInv'
    BY <1>22 DEF IInv, TypeOK, MutexInv, BeginClose, Goto
  <2>4. PinInv'
    BY <1>22 DEF IInv, TypeOK, PinInv, BeginClose, Goto, DriverOn, ReceiverOff,
       deviceVars, pinVars, callVars
  <2> QED
    BY <2>1, <2>2, <2>3, <2>4 DEF IInv
<1>23. ASSUME NEW t \in Threads, ClosePort(t) PROVE IInv'
  <2>1. TypeOK'
    BY <1>23 DEF IInv, TypeOK, Labels, ClosePort, Goto, deviceVars, pinVars, wireVars,
       callVars, PortClosed, DeviceFields
  <2>2. CallInv'
    BY <1>23 DEF IInv, TypeOK, CallInv, ClosePort, Goto, SendLabels, CloseLabels, PortClosed
  <2>3. MutexInv'
    BY <1>23 DEF IInv, TypeOK, MutexInv, ClosePort, Goto, PortClosed
  <2>4. PinInv'
    BY <1>23 DEF IInv, TypeOK, PinInv, ClosePort, Goto, DriverOn, ReceiverOff, deviceVars,
       pinVars, callVars, PortClosed
  <2> QED
    BY <2>1, <2>2, <2>3, <2>4 DEF IInv
<1>24. ASSUME NEW t \in Threads, CloseRpio(t) PROVE IInv'
  <2>1. TypeOK'
    <3>1. rpioRefCount' \in Nat
      BY <1>24 DEF CloseRpio, IInv, TypeOK
    <3>2. dev' \in [Devices -> DeviceFields]
      BY <1>24 DEF CloseRpio, IInv, TypeOK, DeviceFields
    <3> QED
      BY <1>24, <3>1, <3>2 DEF IInv, TypeOK, Labels, CloseRpio, Goto, deviceVars, pinVars,
         wireVars, callVars
  <2>2. CallInv'
    BY <1>24 DEF IInv, TypeOK, CallInv, CloseRpio, Goto, SendLabels, CloseLabels
  <2>3. MutexInv'
    BY <1>24 DEF IInv, TypeOK, MutexInv, CloseRpio, Goto
  <2>4. PinInv'
    BY <1>24 DEF IInv, TypeOK, PinInv, CloseRpio, Goto, DriverOn, ReceiverOff, deviceVars,
       pinVars, callVars
  <2> QED
    BY <2>1, <2>2, <2>3, <2>4 DEF IInv
<1>25. ASSUME NEW t \in Threads, CloseLock(t) PROVE IInv'
  <2>1. TypeOK'
    BY <1>25 DEF IInv, TypeOK, Labels, CloseLock, Goto, deviceVars, pinVars, wireVars,
       callVars, Unlock, DeviceFields
  <2>2. CallInv'
    BY <1>25 DEF IInv, TypeOK, CallInv, CloseLock, Goto, SendLabels, CloseLabels, Unlock
  <2>3. MutexInv'
    BY <1>25, DeviceAssumption DEF IInv, TypeOK, MutexInv, CloseLock, Goto, deviceVars,
       pinVars, callVars, Unlock
  <2>4. PinInv'
    BY <1>25 DEF IInv, TypeOK, PinInv, CloseLock, Goto, DriverOn, ReceiverOff, deviceVars,
       pinVars, callVars, Unlock
  <2> QED
    BY <2>1, <2>2, <2>3, <2>4 DEF IInv
<1> QED
  BY <1>1, <1>2, <1>3, <1>4, <1>5, <1>6, <1>7, <1>8, <1>9, <1>10, <1>11, <1>12, <1>13,
     <1>14, <1>15, <1>16, <1>17, <1>18, <1>19, <1>20, <1>21, <1>22, <1>23, <1>24,
     <1>25 DEF Step, SendOnce, AfterAttempt, Close

\* The slaves and the wire touch no program counter, mutex or pin.
LEMMA EnvironmentStep == IInv /\ Environment => IInv'
<1> SUFFICES ASSUME IInv, Environment PROVE IInv'
  OBVIOUS
<1>1. UNCHANGED <<callVars, mu, deviceVars, pinVars>>
  BY DEF Environment, SlaveAnswers, Arrive, LoseCell
<1>2. /\ line \in Seq(Cells) /\ rxBuf \in Seq(Cells)
      /\ heard \in SUBSET Requests /\ executed \in SUBSET Requests
  BY DEF IInv, TypeOK
<1>3. /\ line' \in Seq(Cells) /\ rxBuf' \in Seq(Cells)
      /\ heard' \in SUBSET Requests /\ executed' \in SUBSET Requests
  <2>1. CASE SlaveAnswers
    <3>1. PICK f \in Answers :
            /\ f.req \in heard
            /\ heard' = heard \ {f.req}
            /\ line' = [i \in 1..FrameCells(f) |-> Cell(f, i)]
            /\ executed' = IF ~f.exc /\ IsWrite(f.req) THEN executed \cup {f.req} ELSE executed
            /\ rxBuf' = rxBuf
      BY <2>1 DEF SlaveAnswers
    <3>2. f \in Frames
      BY AnswerAssumption
    <3>3. FrameCells(f) \in Nat
      BY <3>2, DeviceAssumption DEF FrameCells, Frames
    <3>4. \A i \in 1..FrameCells(f) : Cell(f, i) \in Cells
      BY <3>2, <3>3 DEF Cell, Cells, IntactCells
    <3>5. line' \in Seq(Cells)
      BY <3>1, <3>3, <3>4
    <3> QED
      BY <1>2, <3>1, <3>5
  <2>2. CASE Arrive
    <3>1. Head(line) \in Cells /\ Tail(line) \in Seq(Cells)
      BY <1>2, <2>2 DEF Arrive
    <3>2. PICK c \in {Head(line), Noise} : rxBuf' = Append(rxBuf, c)
      BY <2>2 DEF Arrive
    <3>3. c \in Cells
      BY <3>1 DEF Cells
    <3>4. rxBuf' \in Seq(Cells)
      BY <1>2, <3>2, <3>3
    <3> QED
      BY <1>2, <2>2, <3>1, <3>4 DEF Arrive
  <2>3. CASE LoseCell
    BY <1>2, <2>3 DEF LoseCell
  <2> QED
    BY <2>1, <2>2, <2>3 DEF Environment
<1>4. TypeOK'
  BY <1>1, <1>3 DEF IInv, TypeOK, callVars, deviceVars, pinVars
<1>5. CallInv' /\ MutexInv'
  BY <1>1 DEF IInv, CallInv, MutexInv, callVars
<1>6. PinInv'
  BY <1>1 DEF IInv, PinInv, callVars, pinVars
<1> QED
  BY <1>4, <1>5, <1>6 DEF IInv

LEMMA Stutter == IInv /\ UNCHANGED vars => IInv'
  BY DEF IInv, TypeOK, CallInv, MutexInv, PinInv, vars, callVars, deviceVars, pinVars,
     wireVars

-----------------------------------------------------------------------------
\* The inductive invariant: types, calls, mutex and pins together.
THEOREM Inductive == Spec => []IInv
<1>1. IInv /\ [Next]_vars => IInv'
  BY ThreadStep, EnvironmentStep, Stutter DEF Next
<1> QED
  BY InitIInv, <1>1, PTL DEF Spec

\* Every variable keeps its type.
THEOREM TypeCorrect == Spec => []TypeOK
<1>1. IInv => TypeOK
  BY DEF IInv
<1> QED
  BY <1>1, Inductive, PTL

\* "serialized on the bus, not interleaved" (types.go:13-15), for any number of
\* threads, devices on the port, and retries.
THEOREM OneThreadOnTheBus == Spec => []MutualExclusion
<1>1. IInv => MutualExclusion
  BY DEF IInv, MutexInv, MutualExclusion
<1> QED
  BY <1>1, Inductive, PTL

\* The pins are away from bus-idle only while the mutex holder transmits.
THEOREM PinsFollowTheOwner == Spec => []DriverOwned
<1>1. IInv => DriverOwned
  <2> SUFFICES ASSUME IInv, de \/ re PROVE DriverOwned
    BY DEF DriverOwned
  <2>1. PICK t \in Threads : pc[t] \in {"raiseRE", "write", "enableRX", "lowerDE"}
    BY DEF IInv, PinInv, DriverOn, ReceiverOff
  <2>2. mu = t
    BY <2>1 DEF IInv, MutexInv
  <2> QED
    BY <2>1, <2>2 DEF DriverOwned
<1> QED
  BY <1>1, Inductive, PTL

\* transceiver.go:65: the ISL43485 is never shut down by a call.
THEOREM NoShutdown == Spec => []NeverShutdown
<1>1. IInv => NeverShutdown
  BY DeviceAssumption DEF IInv, PinInv, NeverShutdown, DriverOn, ReceiverOff
<1> QED
  BY <1>1, Inductive, PTL

-----------------------------------------------------------------------------
\* A thread inside at a label where the driver is off sees the driver off.
LEMMA DriverOffAt ==
  ASSUME IInv, NEW t \in Threads, mu = t, pc[t] \notin DriverOn
  PROVE  ~de
<1>1. \A u \in Threads : pc[u] \in DriverOn => mu = u
  BY DEF IInv, MutexInv, DriverOn
<1> QED
  BY <1>1 DEF IInv, PinInv

LEMMA EndAttemptYields ==
  ASSUME IInv, NEW t \in Threads, NEW r, NEW f, EndAttempt(t, r, f),
         pc[t] \in SendLabels \ {"record"}, pc[t] \notin DriverOn
  PROVE  Bus!Yield(t)
<1>1. mu = t
  BY DEF IInv, MutexInv, SendLabels
<1>2. ~de
  BY <1>1, DriverOffAt
<1> QED
  BY <1>1, <1>2 DEF EndAttempt, pinVars, Bus!Yield

LEMMA StepOnTheBus ==
  IInv /\ Next => Bus!BusNext \/ UNCHANGED <<mu, de>>
<1> SUFFICES ASSUME IInv, Next PROVE Bus!BusNext \/ UNCHANGED <<mu, de>>
  OBVIOUS
<1>1. CASE Environment
  BY <1>1 DEF Environment, SlaveAnswers, Arrive, LoseCell, pinVars
<1>2. ASSUME NEW t \in Threads, Lock(t) PROVE Bus!Take(t)
  <2>1. ~de
    BY <1>2, DeviceAssumption DEF Lock, IInv, PinInv, MutexInv, DriverOn
  <2> QED
    BY <1>2, <2>1 DEF Lock, pinVars, Bus!Take
<1>3. ASSUME NEW t \in Threads,
             RefuseClosed(t) \/ ResetFails(t) \/ WriteFailed(t) \/ StopReading(t) \/ Verify(t)
      PROVE  Bus!Yield(t)
  <2>1. PICK r, f : EndAttempt(t, r, f)
    BY <1>3 DEF RefuseClosed, ResetFails, WriteFailed, StopReading, Verify
  <2>2. pc[t] \in SendLabels \ {"record"} /\ pc[t] \notin DriverOn
    BY <1>3 DEF RefuseClosed, ResetFails, WriteFailed, StopReading, Verify, SendLabels,
       DriverOn
  <2> QED
    BY <2>1, <2>2, EndAttemptYields
<1>4. ASSUME NEW t \in Threads, SetRetryConfig(t) \/ CloseAgain(t) \/ CloseLock(t)
      PROVE  Bus!Yield(t)
  <2>1. /\ pc[t] \in {"setRetry", "close", "closeLock"}
        /\ mu' = NoThread /\ de' = de
    BY <1>4 DEF SetRetryConfig, SetMaxRetries, CloseAgain, CloseLock, Unlock, pinVars
  <2>2. mu = t
    BY <2>1 DEF IInv, MutexInv
  <2>3. ~de
    BY <2>1, <2>2, DriverOffAt DEF DriverOn
  <2> QED
    BY <2>1, <2>2, <2>3 DEF Bus!Yield
<1>5. ASSUME NEW t \in Threads, EnableTX(t) \/ EnableRX(t) \/ CloseTransceiver(t)
      PROVE  Bus!Drive(t) \/ Bus!Listen(t) \/ UNCHANGED <<mu, de>>
  <2>1. PICK from, to, d, e : PinStep(t, from, to, d, e) /\ d \in BOOLEAN
    <3>1. de \in BOOLEAN
      BY DEF IInv, TypeOK
    <3> QED
      BY <1>5, <3>1 DEF EnableTX, EnableRX, CloseTransceiver
  <2>2. InCriticalSection(t)
    BY <1>5 DEF EnableTX, EnableRX, CloseTransceiver, PinStep
  <2>3. mu = t
    BY <2>2 DEF IInv, MutexInv
  <2>4. de \in BOOLEAN /\ de' \in BOOLEAN /\ mu' = mu
    BY <2>1 DEF PinStep, IInv, TypeOK
  <2> QED
    BY <2>3, <2>4 DEF Bus!Drive, Bus!Listen
<1>6. ASSUME NEW t \in Threads,
             \/ Call(t) \/ Return(t) \/ ResetInputBuffer(t) \/ WriteFrame(t) \/ WriteFails(t)
             \/ Phase1(t) \/ Phase2(t) \/ Succeed(t) \/ Retry(t) \/ GiveUp(t)
             \/ BeginClose(t) \/ ClosePort(t) \/ CloseRpio(t)
      PROVE  UNCHANGED <<mu, de>>
  BY <1>6 DEF Call, Return, ResetInputBuffer, StartTX, WriteFrame, WriteFails, FailWrite,
     Phase1, Phase2, ReadCells, TakeCells, Succeed, Retry, GiveUp, Record, BeginClose, ClosePort,
     PortClosed, CloseRpio, pinVars
<1> QED
  <2>1. CASE \E t \in Threads : Call(t) \/ Lock(t) \/ Step(t)
    <3>1. PICK t \in Threads : Call(t) \/ Lock(t) \/ Step(t)
      BY <2>1
    <3>2. \/ Bus!Take(t) \/ Bus!Yield(t) \/ Bus!Drive(t) \/ Bus!Listen(t)
          \/ UNCHANGED <<mu, de>>
      BY <3>1, <1>2, <1>3, <1>4, <1>5, <1>6 DEF Step, SendOnce, AfterAttempt, Close
    <3> QED
      BY <3>2 DEF Bus!BusNext
  <2> QED
    BY <1>1, <2>1 DEF Next

\* The calls implement the abstract half-duplex bus: every step of a thread takes,
\* drives, listens on or yields the bus, or leaves it alone.
THEOREM Refinement == Spec => ImplementsBus
<1>1. Init => Bus!BusInit
  BY DEF Init, Bus!BusInit
<1>2. IInv /\ [Next]_vars => [Bus!BusNext]_(Bus!busVars)
  BY StepOnTheBus DEF vars, pinVars, Bus!busVars
<1> QED
  BY <1>1, <1>2, Inductive, PTL DEF Spec, ImplementsBus, Bus!BusSpec
=============================================================================
