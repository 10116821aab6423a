---------------------- MODULE ModbusDeviceCloseProofs ----------------------
(***************************************************************************)
(* Theorems of ModbusDevice about Close, for every number of threads and   *)
(* devices and any transceiver: the count of the users of the GPIO mapping,*)
(* complete release, the order of the releases, and that pins move only on *)
(* a device that has them.                                                 *)
(***************************************************************************)
EXTENDS ModbusDeviceProofs

-----------------------------------------------------------------------------
Closing == {"closeTransceiver", "closeDE", "closePort", "closeRpio", "closeLock"}
Transmitting == {"enableTX", "raiseRE", "write", "enableRX", "lowerDE"}

\* A device in use, and one that has given back everything.
Whole(d) == dev[d].portOpen /\ (dev[d].needsRpio <=> UsesGPIO)
Gone(d) == ~dev[d].portOpen /\ ~dev[d].needsRpio /\ ~dev[d].lockFile

BeingClosed(d) == \E t \in Threads : pc[t] \in Closing /\ Dev(t) = d

\* Nobody transmits on a closed device, and a Close is as far as its label says.
ClosingInv ==
  \A t \in Threads :
    /\ pc[t] \in Transmitting => ~dev[Dev(t)].closed
    /\ pc[t] \in Closing => dev[Dev(t)].closed
    /\ pc[t] \in {"closeTransceiver", "closeDE", "closePort"} => Whole(Dev(t))
    /\ pc[t] = "closeRpio" => ~dev[Dev(t)].portOpen /\ (dev[Dev(t)].needsRpio <=> UsesGPIO)
    /\ pc[t] = "closeLock" => ~dev[Dev(t)].portOpen /\ ~dev[Dev(t)].needsRpio

\* A device that is not being closed is whole or gone.
RestingInv ==
  \A d \in Devices : ~BeingClosed(d) => IF dev[d].closed THEN Gone(d) ELSE Whole(d)

DeviceInv == ClosingInv /\ RestingInv /\ RpioBalanced

LEMMA InitDeviceInv == Init => DeviceInv
<1> SUFFICES ASSUME Init PROVE DeviceInv
  OBVIOUS
<1>1. \A d \in Devices : ~dev[d].closed /\ dev[d].portOpen /\ dev[d].needsRpio = UsesGPIO
  BY DEF Init
<1>2. ClosingInv /\ RestingInv
  BY <1>1 DEF Init, ClosingInv, RestingInv, Closing, Transmitting, Whole
<1>3. RpioBalanced
  <2>1. CASE UsesGPIO
    <3>1. {d \in Devices : dev[d].needsRpio} = Devices
      BY <1>1, <2>1
    <3> QED
      BY <2>1, <3>1 DEF Init, RpioBalanced
  <2>2. CASE ~UsesGPIO
    <3>1. {d \in Devices : dev[d].needsRpio} = {}
      BY <1>1, <2>2
    <3> QED
      BY <2>2, <3>1, FS_EmptySet DEF Init, RpioBalanced
  <2> QED
    BY <2>1, <2>2
<1> QED
  BY <1>2, <1>3 DEF DeviceInv

\* The thread inside is alone.
LEMMA Alone ==
  ASSUME IInv, NEW t \in Threads, pc[t] \in Closing \cup Transmitting \cup {"close", "setRetry"}
  PROVE  /\ mu = t
         /\ \A u \in Threads \ {t} : pc[u] \notin Closing \cup Transmitting
  BY DEF IInv, MutexInv, InCriticalSection, Closing, Transmitting

-----------------------------------------------------------------------------
\* A thread that moves on among the labels outside Close, the devices staying as they are.
LEMMA OtherStep ==
  ASSUME IInv, DeviceInv, NEW t \in Threads, NEW l \in Labels \ Closing,
         Goto(t, l), UNCHANGED deviceVars, pc[t] \notin Closing,
         \A u \in Threads \ {t} : call'[u] = call[u],
         l \in Transmitting => call'[t] = call[t] /\ ~dev[Dev(t)].closed
  PROVE  DeviceInv'
<1>1. pc' = [pc EXCEPT ![t] = l] /\ pc \in [Threads -> Labels]
  BY DEF Goto, IInv, TypeOK
<1>2. pc'[t] = l /\ \A u \in Threads \ {t} : pc'[u] = pc[u]
  BY <1>1
<1>3. dev' = dev /\ rpioRefCount' = rpioRefCount
  BY DEF deviceVars
<1>4. ClosingInv'
  BY <1>2, <1>3 DEF DeviceInv, ClosingInv, Dev, Whole, Closing, Transmitting
<1>5. \A d \in Devices : BeingClosed(d)' <=> BeingClosed(d)
  BY <1>2 DEF BeingClosed, Dev
<1>6. RestingInv'
  BY <1>3, <1>5 DEF DeviceInv, RestingInv, Whole, Gone
<1>7. RpioBalanced'
  BY <1>3 DEF DeviceInv, RpioBalanced
<1> QED
  BY <1>4, <1>6, <1>7 DEF DeviceInv

\* A step of Close that keeps the device it closes as the label it reaches says.
LEMMA CloseStep ==
  ASSUME IInv, DeviceInv, NEW t \in Threads, pc[t] \in Closing \cup {"close"},
         NEW l \in Closing, Goto(t, l), UNCHANGED call,
         NEW f \in DeviceFields, dev' = [dev EXCEPT ![Dev(t)] = f], f.closed,
         l \in {"closeTransceiver", "closeDE", "closePort"} =>
           f.portOpen /\ (f.needsRpio <=> UsesGPIO),
         l = "closeRpio" => ~f.portOpen /\ (f.needsRpio <=> UsesGPIO),
         l = "closeLock" => ~f.portOpen /\ ~f.needsRpio
  PROVE  ClosingInv' /\ RestingInv'
<1>1. Dev(t) \in Devices /\ pc \in [Threads -> Labels] /\ dev \in [Devices -> DeviceFields]
  <2>1. call[t] \in Calls
    BY DEF IInv, CallInv, Closing
  <2> QED
    BY <2>1 DEF IInv, TypeOK, Calls, Dev
<1>2. pc'[t] = l /\ \A u \in Threads \ {t} : pc'[u] = pc[u] /\ pc[u] \notin Closing \cup Transmitting
  BY <1>1, Alone DEF Goto
<1>3. dev'[Dev(t)] = f /\ \A d \in Devices \ {Dev(t)} : dev'[d] = dev[d]
  BY <1>1
<1>4. \A u \in Threads : Dev(u)' = Dev(u)
  BY DEF Dev
<1>5. ClosingInv'
  BY <1>2, <1>3, <1>4 DEF ClosingInv, Whole, Closing, Transmitting
<1>6. RestingInv'
  <2>1. BeingClosed(Dev(t))'
    BY <1>2, <1>4 DEF BeingClosed
  <2>2. \A d \in Devices \ {Dev(t)} : ~BeingClosed(d)
    BY <1>2 DEF BeingClosed
  <2> QED
    BY <1>3, <1>4, <2>1, <2>2 DEF DeviceInv, RestingInv, Whole, Gone, BeingClosed
<1> QED
  BY <1>5, <1>6

\* The users of the mapping stay the same.
LEMMA SameUsers ==
  ASSUME RpioBalanced, UNCHANGED rpioRefCount,
         \A d \in Devices : dev'[d].needsRpio <=> dev[d].needsRpio
  PROVE  RpioBalanced'
<1>1. {d \in Devices : dev'[d].needsRpio} = {d \in Devices : dev[d].needsRpio}
  OBVIOUS
<1> QED
  BY <1>1 DEF RpioBalanced

-----------------------------------------------------------------------------
LEMMA DeviceInvStep ==
  ASSUME IInv, DeviceInv, NEW t \in Threads, Call(t) \/ Lock(t) \/ Step(t)
  PROVE  DeviceInv'
<1> USE DEF Closing, Transmitting, Labels
<1>1. CASE Call(t)
  <2>1. PICK c : call' = [call EXCEPT ![t] = c]
    BY <1>1 DEF Call
  <2> QED
    BY <1>1, <2>1, OtherStep DEF Call, IInv, TypeOK
<1>2. CASE Lock(t)
  <2>1. call[t].kind \in {"send", "setRetry", "close"}
    BY <1>2 DEF Lock, IInv, CallInv, Calls
  <2> QED
    BY <1>2, <2>1, OtherStep DEF Lock
<1>3. CASE Return(t)
  BY <1>3, OtherStep DEF Return, IInv, TypeOK
<1>4. CASE RefuseClosed(t) \/ ResetFails(t) \/ WriteFailed(t) \/ StopReading(t) \/ Verify(t)
  <2>1. PICK r, f : EndAttempt(t, r, f)
    BY <1>4 DEF RefuseClosed, ResetFails, WriteFailed, StopReading, Verify
  <2>2. pc[t] \notin Closing
    BY <1>4 DEF RefuseClosed, ResetFails, WriteFailed, StopReading, Verify
  <2> QED
    BY <2>1, <2>2, OtherStep DEF EndAttempt
<1>5. CASE ResetInputBuffer(t)
  BY <1>5, OtherStep DEF ResetInputBuffer, StartTX, IsOpen
<1>6. CASE EnableTX(t) \/ EnableRX(t)
  <2>1. PICK l, d, e : l \in Labels \ Closing /\ PinStep(t, pc[t], l, d, e)
    BY <1>6 DEF EnableTX, EnableRX, AfterEnableRX, PinStep
  <2>2. pc[t] \in Transmitting
    BY <1>6 DEF EnableTX, EnableRX, PinStep
  <2> QED
    BY <2>1, <2>2, OtherStep DEF PinStep, DeviceInv, ClosingInv
<1>7. CASE WriteFrame(t) \/ WriteFails(t)
  <2>1. pc[t] = "write" /\ Goto(t, "enableRX") /\ UNCHANGED <<call, deviceVars>>
    BY <1>7 DEF WriteFrame, WriteFails, FailWrite
  <2> QED
    BY <2>1, OtherStep DEF DeviceInv, ClosingInv
<1>8. CASE Phase1(t) \/ Phase2(t)
  <2>1. PICK l \in {"verify", "readRest"} : Goto(t, l)
    BY <1>8 DEF Phase1, Phase2, ReadCells, TakeCells
  <2>2. pc[t] \in {"read", "readRest"} /\ UNCHANGED <<call, deviceVars>>
    BY <1>8 DEF Phase1, Phase2, ReadCells, TakeCells
  <2> QED
    BY <2>1, <2>2, OtherStep
<1>9. CASE AfterAttempt(t)
  <2>1. PICK l \in {"returned", "lock"} : Goto(t, l)
    BY <1>9 DEF AfterAttempt, Succeed, Retry, GiveUp, Record
  <2>2. pc[t] = "record" /\ UNCHANGED <<call, deviceVars>>
    BY <1>9 DEF AfterAttempt, Succeed, Retry, GiveUp, Record
  <2> QED
    BY <2>1, <2>2, OtherStep
<1>10. CASE CloseAgain(t)
  BY <1>10, OtherStep DEF CloseAgain, Unlock
<1>11. CASE SetRetryConfig(t)
  <2>1. /\ pc[t] = "setRetry" /\ pc' = [pc EXCEPT ![t] = "returned"]
        /\ UNCHANGED <<call, rpioRefCount>>
        /\ dev' = [dev EXCEPT ![Dev(t)].maxRetries = call[t].retries]
    BY <1>11 DEF SetRetryConfig, SetMaxRetries, Unlock, Goto
  <2>2. dev \in [Devices -> DeviceFields] /\ pc \in [Threads -> Labels]
    BY DEF IInv, TypeOK
  <2>3. \A d \in Devices :
          /\ dev'[d].closed = dev[d].closed /\ dev'[d].portOpen = dev[d].portOpen
          /\ dev'[d].needsRpio = dev[d].needsRpio /\ dev'[d].lockFile = dev[d].lockFile
    BY <2>1, <2>2 DEF DeviceFields
  <2>4. \A u \in Threads : pc'[u] \in Closing \cup Transmitting \/ pc[u] \in Closing =>
          pc'[u] = pc[u] /\ Dev(u)' = Dev(u) /\ Dev(u) \in Devices
    BY <2>1, <2>2 DEF Dev, IInv, CallInv, Calls
  <2>5. ClosingInv'
    BY <2>3, <2>4 DEF DeviceInv, ClosingInv, Whole
  <2>6. \A d \in Devices : BeingClosed(d)' <=> BeingClosed(d)
    BY <2>4 DEF BeingClosed
  <2>7. RestingInv'
    BY <2>3, <2>6 DEF DeviceInv, RestingInv, Whole, Gone
  <2> QED
    BY <2>1, <2>3, <2>5, <2>7, SameUsers DEF DeviceInv
<1>12. CASE BeginClose(t) \/ CloseTransceiver(t) \/ ClosePort(t)
  <2>1. Dev(t) \in Devices /\ dev \in [Devices -> DeviceFields]
    <3>1. call[t] \in Calls
      BY <1>12 DEF BeginClose, CloseTransceiver, PinStep, ClosePort, PortClosed, IInv, CallInv
    <3> QED
      BY <3>1 DEF IInv, TypeOK, Calls, Dev
  <2>2. pc[t] = "close" => Whole(Dev(t)) \/ dev[Dev(t)].closed
    <3>1. pc[t] = "close" => ~BeingClosed(Dev(t))
      BY Alone DEF BeingClosed
    <3> QED
      BY <2>1, <3>1 DEF DeviceInv, RestingInv
  <2>3. PICK l \in Closing, f \in DeviceFields :
          /\ Goto(t, l) /\ dev' = [dev EXCEPT ![Dev(t)] = f]
          /\ f.closed /\ (f.needsRpio <=> UsesGPIO)
          /\ f.needsRpio = dev[Dev(t)].needsRpio
          /\ l \in {"closeTransceiver", "closeDE", "closePort"} => f.portOpen
          /\ l = "closeRpio" => ~f.portOpen
          /\ l # "closeLock"
    <3>1. CASE BeginClose(t)
      <4> DEFINE f == [dev[Dev(t)] EXCEPT !.closed = TRUE]
      <4>1. f \in DeviceFields /\ f.closed /\ f.portOpen = dev[Dev(t)].portOpen
            /\ f.needsRpio = dev[Dev(t)].needsRpio
        BY <2>1 DEF DeviceFields
      <4>2. dev' = [dev EXCEPT ![Dev(t)] = f] /\ Goto(t, "closeTransceiver")
        BY <2>1, <3>1 DEF BeginClose
      <4>3. Whole(Dev(t))
        BY <2>2, <3>1 DEF BeginClose
      <4> QED
        BY <4>1, <4>2, <4>3 DEF Whole
    <3>2. CASE CloseTransceiver(t)
      <4>1. PICK l \in {"closeDE", "closePort"} : Goto(t, l)
        BY <3>2 DEF CloseTransceiver, PinStep
      <4>2. dev' = dev /\ pc[t] \in {"closeTransceiver", "closeDE"}
        BY <3>2 DEF CloseTransceiver, PinStep, deviceVars
      <4>3. dev' = [dev EXCEPT ![Dev(t)] = dev[Dev(t)]] /\ dev[Dev(t)] \in DeviceFields
        BY <2>1, <4>2
      <4> QED
        BY <4>1, <4>2, <4>3 DEF DeviceInv, ClosingInv, Whole
    <3>3. CASE ClosePort(t)
      <4> DEFINE f == [dev[Dev(t)] EXCEPT !.portOpen = FALSE]
      <4>1. f \in DeviceFields /\ f.closed = dev[Dev(t)].closed /\ ~f.portOpen
            /\ f.needsRpio = dev[Dev(t)].needsRpio
        BY <2>1 DEF DeviceFields
      <4>2. dev' = [dev EXCEPT ![Dev(t)] = f] /\ Goto(t, "closeRpio") /\ pc[t] = "closePort"
        BY <2>1, <3>3 DEF ClosePort, PortClosed
      <4> QED
        BY <4>1, <4>2 DEF DeviceInv, ClosingInv, Whole
    <3> QED
      BY <1>12, <3>1, <3>2, <3>3
  <2>4. pc[t] \in Closing \cup {"close"} /\ UNCHANGED <<call, rpioRefCount>>
    BY <1>12 DEF BeginClose, CloseTransceiver, PinStep, ClosePort, PortClosed, deviceVars
  <2>5. ClosingInv' /\ RestingInv'
    BY <2>3, <2>4, CloseStep
  <2>6. RpioBalanced'
    BY <2>1, <2>3, <2>4, SameUsers DEF DeviceInv
  <2> QED
    BY <2>5, <2>6 DEF DeviceInv
<1>13. CASE CloseRpio(t)
  <2> DEFINE f == [dev[Dev(t)] EXCEPT !.needsRpio = FALSE]
             users == {d \in Devices : dev[d].needsRpio}
  <2>1. Dev(t) \in Devices /\ dev \in [Devices -> DeviceFields]
    <3>1. call[t] \in Calls
      BY <1>13 DEF CloseRpio, IInv, CallInv
    <3> QED
      BY <3>1 DEF IInv, TypeOK, Calls, Dev
  <2>2. /\ f \in DeviceFields /\ f.closed = dev[Dev(t)].closed
        /\ f.portOpen = dev[Dev(t)].portOpen /\ ~f.needsRpio
    BY <2>1 DEF DeviceFields
  <2>3. /\ dev' = [dev EXCEPT ![Dev(t)] = f] /\ Goto(t, "closeLock") /\ UNCHANGED call
        /\ pc[t] = "closeRpio"
    BY <1>13, <2>1 DEF CloseRpio
  <2>4. ClosingInv' /\ RestingInv'
    <3>1. f.closed /\ ~f.portOpen
      BY <2>2, <2>3 DEF DeviceInv, ClosingInv
    <3> HIDE DEF f
    <3> QED
      BY <2>2, <2>3, <3>1, CloseStep
  <2>5. users' = users \ {Dev(t)}
    BY <2>1, <2>2, <2>3
  <2>6. IsFiniteSet(users) /\ Cardinality(users) \in Nat /\ rpioRefCount = Cardinality(users)
    <3>1. IsFiniteSet(users)
      BY DeviceAssumption, FS_Subset
    <3> QED
      BY <3>1, FS_CardinalityType DEF DeviceInv, RpioBalanced
  <2>7. rpioRefCount' = Cardinality(users')
    <3>1. CASE dev[Dev(t)].needsRpio
      <4>1. Dev(t) \in users
        BY <2>1, <3>1
      <4>2. Cardinality(users) # 0 /\ Cardinality(users') = Cardinality(users) - 1
        BY <2>5, <2>6, <4>1, FS_EmptySet, FS_RemoveElement
      <4>3. rpioRefCount > 0
        BY <2>6, <4>2
      <4>4. rpioRefCount' = rpioRefCount - 1
        BY <1>13, <3>1, <4>3 DEF CloseRpio
      <4> QED
        BY <2>6, <4>2, <4>4
    <3>2. CASE ~dev[Dev(t)].needsRpio
      <4>1. users' = users
        BY <2>5, <3>2
      <4>2. rpioRefCount' = rpioRefCount
        BY <1>13, <3>2 DEF CloseRpio
      <4> QED
        BY <2>6, <4>1, <4>2
    <3> QED
      BY <3>1, <3>2
  <2> QED
    BY <2>4, <2>7 DEF DeviceInv, RpioBalanced
<1>14. CASE CloseLock(t)
  <2>1. Dev(t) \in Devices /\ dev \in [Devices -> DeviceFields] /\ pc \in [Threads -> Labels]
    <3>1. call[t] \in Calls
      BY <1>14 DEF CloseLock, IInv, CallInv
    <3> QED
      BY <3>1 DEF IInv, TypeOK, Calls, Dev
  <2>2. /\ pc[t] = "closeLock" /\ pc' = [pc EXCEPT ![t] = "returned"]
        /\ UNCHANGED <<call, rpioRefCount>>
        /\ dev' = [dev EXCEPT ![Dev(t)].lockFile = FALSE]
    BY <1>14 DEF CloseLock, Unlock, Goto
  <2>3. \A u \in Threads : pc'[u] \notin Closing \cup Transmitting
    BY <2>1, <2>2, Alone
  <2>4. \A d \in Devices :
          /\ dev'[d].closed = dev[d].closed /\ dev'[d].portOpen = dev[d].portOpen
          /\ dev'[d].needsRpio = dev[d].needsRpio
          /\ d # Dev(t) => dev'[d].lockFile = dev[d].lockFile
    BY <2>1, <2>2 DEF DeviceFields
  <2>5. dev'[Dev(t)].lockFile = FALSE
    BY <2>1, <2>2 DEF DeviceFields
  <2>6. \A d \in Devices \ {Dev(t)} : ~BeingClosed(d)
    BY <2>2, Alone DEF BeingClosed
  <2>7. /\ dev[Dev(t)].closed /\ ~dev[Dev(t)].portOpen /\ ~dev[Dev(t)].needsRpio
    BY <2>2 DEF DeviceInv, ClosingInv
  <2>8. RestingInv'
    <3>1. \A d \in Devices \ {Dev(t)} : IF dev[d].closed THEN Gone(d) ELSE Whole(d)
      BY <2>6 DEF DeviceInv, RestingInv
    <3>2. \A d \in Devices : IF dev'[d].closed THEN Gone(d)' ELSE Whole(d)'
      BY <2>4, <2>5, <2>7, <3>1 DEF Gone, Whole
    <3> QED
      BY <3>2 DEF RestingInv
  <2>9. ClosingInv'
    BY <2>3 DEF ClosingInv
  <2> QED
    BY <2>2, <2>4, <2>8, <2>9, SameUsers DEF DeviceInv
<1> QED
  BY <1>1, <1>2, <1>3, <1>4, <1>5, <1>6, <1>7, <1>8, <1>9, <1>10, <1>11, <1>12, <1>13, <1>14
     DEF Step, SendOnce, Close

LEMMA DeviceInductive == Spec => []DeviceInv
<1>1. IInv /\ DeviceInv /\ [Next]_vars => DeviceInv'
  <2>1. DeviceInv /\ UNCHANGED <<pc, call, deviceVars>> => DeviceInv'
    BY DEF DeviceInv, ClosingInv, RestingInv, RpioBalanced, Whole, Gone, BeingClosed, Dev,
       deviceVars
  <2>2. Environment \/ UNCHANGED vars => UNCHANGED <<pc, call, deviceVars>>
    BY DEF Environment, SlaveAnswers, Arrive, LoseCell, callVars, vars
  <2> QED
    BY <2>1, <2>2, DeviceInvStep DEF Next
<1> QED
  BY InitDeviceInv, <1>1, Inductive, PTL DEF Spec

-----------------------------------------------------------------------------
\* types.go:143-152: the count of the mapping's users is exact at every step of every Close.
THEOREM MappingIsCounted == Spec => []RpioBalanced
<1>1. DeviceInv => RpioBalanced
  BY DEF DeviceInv
<1> QED
  BY <1>1, DeviceInductive, PTL

\* main.go:243-281: between calls a device is whole or has given everything back.
THEOREM NothingIsHalfClosed == Spec => []CloseIsComplete
<1>1. IInv /\ DeviceInv => CloseIsComplete
  <2> SUFFICES ASSUME IInv, DeviceInv, mu = NoThread, NEW d \in Devices
               PROVE  IF dev[d].closed
                        THEN ~dev[d].portOpen /\ ~dev[d].needsRpio /\ ~dev[d].lockFile
                        ELSE dev[d].portOpen /\ dev[d].needsRpio = UsesGPIO
    BY DEF CloseIsComplete
  <2>1. ~BeingClosed(d)
    BY Alone, DeviceAssumption DEF BeingClosed
  <2>2. IF dev[d].closed THEN Gone(d) ELSE Whole(d)
    BY <2>1 DEF DeviceInv, RestingInv
  <2>3. dev[d].needsRpio \in BOOLEAN /\ UsesGPIO \in BOOLEAN
    BY DEF IInv, TypeOK, DeviceFields, UsesGPIO
  <2> QED
    BY <2>2, <2>3 DEF Gone, Whole
<1> QED
  BY <1>1, DeviceInductive, Inductive, PTL

\* Only the transceiver's methods move pins; only the setter and Close change a device.
LEMMA Movers ==
  ASSUME Next
  PROVE  /\ \/ UNCHANGED pinVars
            \/ \E t \in Threads : EnableTX(t) \/ EnableRX(t) \/ CloseTransceiver(t)
         /\ \/ UNCHANGED dev
            \/ \E t \in Threads : \/ SetRetryConfig(t) \/ BeginClose(t) \/ ClosePort(t)
                                  \/ CloseRpio(t) \/ CloseLock(t)
<1>1. Environment => UNCHANGED <<pinVars, dev>>
  BY DEF Environment, SlaveAnswers, Arrive, LoseCell, deviceVars
<1>2. ASSUME NEW t \in Threads,
             \/ Call(t) \/ Lock(t) \/ Return(t) \/ ResetInputBuffer(t) \/ WriteFrame(t)
             \/ WriteFails(t) \/ Phase1(t) \/ Phase2(t) \/ AfterAttempt(t) \/ CloseAgain(t)
      PROVE  UNCHANGED <<pinVars, dev>>
  BY <1>2 DEF Call, Lock, Return, ResetInputBuffer, StartTX, WriteFrame, WriteFails, FailWrite,
     Phase1, Phase2, ReadCells, TakeCells, AfterAttempt, Succeed, Retry, GiveUp, Record, CloseAgain,
     deviceVars
<1>3. ASSUME NEW t \in Threads,
             RefuseClosed(t) \/ ResetFails(t) \/ WriteFailed(t) \/ StopReading(t) \/ Verify(t)
      PROVE  UNCHANGED <<pinVars, dev>>
  <2>1. PICK r, f : EndAttempt(t, r, f)
    BY <1>3 DEF RefuseClosed, ResetFails, WriteFailed, StopReading, Verify
  <2> QED
    BY <2>1 DEF EndAttempt, deviceVars
<1>4. ASSUME NEW t \in Threads,
             SetRetryConfig(t) \/ BeginClose(t) \/ ClosePort(t) \/ CloseRpio(t) \/ CloseLock(t)
      PROVE  UNCHANGED pinVars
  BY <1>4 DEF SetRetryConfig, SetMaxRetries, BeginClose, ClosePort, PortClosed, CloseRpio,
     CloseLock
<1>5. ASSUME NEW t \in Threads, EnableTX(t) \/ EnableRX(t) \/ CloseTransceiver(t)
      PROVE  UNCHANGED dev
  BY <1>5 DEF EnableTX, EnableRX, CloseTransceiver, PinStep, deviceVars
<1> QED
  BY <1>1, <1>2, <1>3, <1>4, <1>5 DEF Next, Step, SendOnce, Close

\* Pins move only for the mutex holder, on a device that still has them mapped, and the
\* driver goes on for an open one only.
THEOREM PinsStayWithTheDevice == Spec => PinsMoveOnOpenDevice
<1>1. IInv /\ DeviceInv /\ [Next]_vars =>
        [\E t \in Threads :
           /\ mu = t
           /\ dev[Dev(t)].needsRpio /\ rpioRefCount > 0
           /\ de' /\ ~de => ~dev[Dev(t)].closed]_pinVars
  <2> SUFFICES ASSUME IInv, DeviceInv, Next, pinVars' # pinVars
               PROVE  \E t \in Threads :
                        /\ mu = t
                        /\ dev[Dev(t)].needsRpio /\ rpioRefCount > 0
                        /\ de' /\ ~de => ~dev[Dev(t)].closed
    BY DEF vars, pinVars
  <2>1. PICK t \in Threads : EnableTX(t) \/ EnableRX(t) \/ CloseTransceiver(t)
    BY Movers DEF pinVars
  <2>2. pc[t] \in Transmitting \cup {"closeTransceiver", "closeDE"}
    BY <2>1 DEF EnableTX, EnableRX, CloseTransceiver, PinStep, Transmitting
  <2>3. UsesGPIO
    <3>1. CASE TransceiverType = "isl43485"
      BY <3>1 DEF UsesGPIO
    <3>2. CASE TransceiverType # "isl43485" /\ ~UsesGPIO
      <4>1. de \in BOOLEAN /\ re \in BOOLEAN
        BY DEF IInv, TypeOK
      <4> QED
        BY <2>1, <3>2, <4>1 DEF EnableTX, EnableRX, CloseTransceiver, PinStep, pinVars
    <3> QED
      BY <3>1, <3>2
  <2>4. mu = t /\ \A u \in Threads \ {t} : pc[u] \notin Closing \cup Transmitting
    BY <2>2, Alone DEF Closing
  <2>5. Dev(t) \in Devices
    <3>1. call[t] \in Calls
      BY <2>2 DEF IInv, CallInv, Transmitting
    <3>2. call[t].kind \in {"send", "close"}
      BY <2>2 DEF IInv, CallInv, Transmitting, SendLabels, CloseLabels
    <3> QED
      BY <3>1, <3>2 DEF Calls, Dev
  <2>6. dev[Dev(t)].needsRpio
    <3>1. CASE pc[t] \in Transmitting
      <4>1. ~dev[Dev(t)].closed /\ ~BeingClosed(Dev(t))
        BY <2>4, <3>1 DEF DeviceInv, ClosingInv, BeingClosed, Closing, Transmitting
      <4> QED
        BY <2>3, <2>5, <4>1 DEF DeviceInv, RestingInv, Whole
    <3>2. CASE pc[t] \in {"closeTransceiver", "closeDE"}
      BY <2>3, <3>2 DEF DeviceInv, ClosingInv, Whole
    <3> QED
      BY <2>2, <3>1, <3>2
  <2>7. rpioRefCount > 0
    <3> DEFINE users == {d \in Devices : dev[d].needsRpio}
    <3>1. IsFiniteSet(users)
      BY DeviceAssumption, FS_Subset
    <3>2. Dev(t) \in users
      BY <2>5, <2>6
    <3>3. Cardinality(users) \in Nat /\ Cardinality(users) # 0
      BY <3>1, <3>2, FS_CardinalityType, FS_EmptySet
    <3> QED
      BY <3>3 DEF DeviceInv, RpioBalanced
  <2>8. de' /\ ~de => pc[t] \in Transmitting
    BY <2>1 DEF EnableTX, EnableRX, CloseTransceiver, PinStep, Transmitting
  <2> QED
    BY <2>4, <2>6, <2>7, <2>8 DEF DeviceInv, ClosingInv
<1> QED
  BY <1>1, DeviceInductive, Inductive, PTL DEF Spec, PinsMoveOnOpenDevice

\* main.go:275-279: whoever finds the lock file gone finds the port closed, the mapping given
\* back and the bus idle.
THEOREM LockFileIsLast == Spec => LockFileGoesLast
<1>1. IInv /\ DeviceInv /\ [Next]_vars =>
        [\A d \in Devices : dev[d].lockFile /\ ~dev'[d].lockFile =>
           dev[d].closed /\ ~dev[d].portOpen /\ ~dev[d].needsRpio /\ ~de /\ ~re]_vars
  <2> SUFFICES ASSUME IInv, DeviceInv, Next, NEW d \in Devices,
                      dev[d].lockFile, ~dev'[d].lockFile
               PROVE  dev[d].closed /\ ~dev[d].portOpen /\ ~dev[d].needsRpio /\ ~de /\ ~re
    OBVIOUS
  <2>1. dev \in [Devices -> DeviceFields]
    BY DEF IInv, TypeOK
  <2>2. \A e \in Devices :
          /\ [dev EXCEPT ![e].closed = TRUE][d].lockFile = dev[d].lockFile
          /\ [dev EXCEPT ![e].portOpen = FALSE][d].lockFile = dev[d].lockFile
          /\ [dev EXCEPT ![e].needsRpio = FALSE][d].lockFile = dev[d].lockFile
          /\ e # d => [dev EXCEPT ![e].lockFile = FALSE][d].lockFile = dev[d].lockFile
    BY <2>1 DEF DeviceFields
  <2>3. dev' # dev
    OBVIOUS
  <2>4. PICK t \in Threads : \/ SetRetryConfig(t) \/ BeginClose(t) \/ ClosePort(t)
                             \/ CloseRpio(t) \/ CloseLock(t)
    BY <2>3, Movers
  <2>5. Dev(t) \in Devices
    <3>1. call[t] \in Calls
      BY <2>4 DEF SetRetryConfig, SetMaxRetries, BeginClose, ClosePort, PortClosed, CloseRpio,
         CloseLock, IInv, CallInv
    <3> QED
      BY <3>1 DEF Calls, Dev
  <2>6. CloseLock(t) /\ Dev(t) = d
    <3>1. ~SetRetryConfig(t)
      <4>1. SUFFICES ASSUME SetRetryConfig(t) PROVE FALSE
        OBVIOUS
      <4>2. dev' = [dev EXCEPT ![Dev(t)].maxRetries = call[t].retries]
        BY <4>1 DEF SetRetryConfig, SetMaxRetries
      <4>3. dev'[d].lockFile = dev[d].lockFile
        BY <4>2, <2>1, <2>5 DEF DeviceFields
      <4> QED
        BY <4>3
    <3>2. ~BeginClose(t) /\ ~ClosePort(t) /\ ~CloseRpio(t)
      BY <2>2, <2>5 DEF BeginClose, ClosePort, PortClosed, CloseRpio
    <3>3. CloseLock(t) => Dev(t) = d
      BY <2>2, <2>5 DEF CloseLock
    <3> QED
      BY <2>4, <3>1, <3>2, <3>3
  <2>7. pc[t] = "closeLock"
    BY <2>6 DEF CloseLock
  <2>8. ~de /\ ~re
    <3>1. \A u \in Threads : pc[u] \notin DriverOn /\ pc[u] \notin ReceiverOff
      BY <2>7, Alone DEF Closing, Transmitting, DriverOn, ReceiverOff
    <3> QED
      BY <3>1 DEF IInv, PinInv
  <2> QED
    BY <2>6, <2>7, <2>8 DEF DeviceInv, ClosingInv, Closing
<1> QED
  BY <1>1, DeviceInductive, Inductive, PTL DEF Spec, LockFileGoesLast
=============================================================================
