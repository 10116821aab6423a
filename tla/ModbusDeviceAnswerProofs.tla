---------------------- MODULE ModbusDeviceAnswerProofs ----------------------
(***************************************************************************)
(* Theorems of ModbusDevice about what a call returns, for every number of *)
(* threads, every set of requests and answers and every limit of retries:  *)
(* the retries, what an acknowledged write means, and whose answer a call  *)
(* returns when slaves answer in time or not at all.                       *)
(***************************************************************************)
EXTENDS ModbusDeviceProofs

-----------------------------------------------------------------------------
\* The attempts of a call: all but the last have failed, and while the call runs one more
\* is allowed.
AttemptsFailed(t, n) == \A i \in 1..n : loc[t].attempts[i] = "failed"

RetryInv ==
  \A t \in Threads :
    LET o == loc[t].attempts
    IN  /\ Len(o) <= loc[t].maxAttempts
        /\ pc[t] = "idle" \/ call[t].kind # "send" => o = <<>>
        /\ pc[t] # "returned" => Len(o) < loc[t].maxAttempts /\ AttemptsFailed(t, Len(o))
        /\ pc[t] = "returned" => AttemptsFailed(t, Len(o) - 1)
        /\ pc[t] = "returned" /\ call[t].kind = "send" =>
              /\ o # <<>>
              /\ Last(o) \in {"ok", "exception"} \/ Len(o) = loc[t].maxAttempts
              /\ loc[t].res \in {"ok", "echo"} <=> Last(o) = "ok"

\* A step of a thread leaves the other threads where they are.
LEMMA OthersStay ==
  ASSUME IInv, NEW t \in Threads, Call(t) \/ Lock(t) \/ Step(t), NEW u \in Threads \ {t}
  PROVE  pc'[u] = pc[u] /\ call'[u] = call[u] /\ loc'[u] = loc[u]
<1>1. CASE Call(t)
  BY <1>1 DEF Call, Goto, IInv, TypeOK
<1>2. CASE Lock(t) \/ Return(t)
  BY <1>2 DEF Lock, Return, Goto, IInv, TypeOK
<1>3. CASE RefuseClosed(t) \/ ResetFails(t) \/ WriteFailed(t) \/ StopReading(t) \/ Verify(t)
  <2>1. PICK r, f : EndAttempt(t, r, f)
    BY <1>3 DEF RefuseClosed, ResetFails, WriteFailed, StopReading, Verify
  <2> QED
    BY <2>1 DEF EndAttempt, Goto, IInv, TypeOK
<1>4. CASE ResetInputBuffer(t) \/ WriteFrame(t) \/ WriteFails(t)
  BY <1>4 DEF ResetInputBuffer, StartTX, WriteFrame, WriteFails, FailWrite, Goto, IInv, TypeOK
<1>5. CASE EnableTX(t) \/ EnableRX(t) \/ CloseTransceiver(t)
  BY <1>5 DEF EnableTX, EnableRX, CloseTransceiver, PinStep, Goto, IInv, TypeOK
<1>6. CASE Phase1(t) \/ Phase2(t)
  <2>1. PICK exc, n : ReadCells(t, exc, n)
    BY <1>6 DEF Phase1, Phase2
  <2> QED
    BY <2>1 DEF ReadCells, TakeCells, Goto, IInv, TypeOK
<1>7. CASE AfterAttempt(t)
  <2>1. PICK l, r : Record(t, l, r)
    BY <1>7 DEF AfterAttempt, Succeed, Retry, GiveUp
  <2> QED
    BY <2>1 DEF Record, Goto, IInv, TypeOK
<1>8. CASE SetRetryConfig(t) \/ CloseAgain(t) \/ BeginClose(t) \/ ClosePort(t) \/ CloseRpio(t)
             \/ CloseLock(t)
  BY <1>8 DEF SetRetryConfig, SetMaxRetries, CloseAgain, BeginClose, ClosePort, PortClosed,
     CloseRpio, CloseLock, Unlock, Goto, IInv, TypeOK
<1> QED
  BY <1>1, <1>2, <1>3, <1>4, <1>5, <1>6, <1>7, <1>8 DEF Step, SendOnce, Close

\* Except when it begins a call, ends one or records an attempt, a thread keeps its call and
\* its attempts, and reaches the end of a call only if that is no request.
LEMMA QuietStep ==
  ASSUME IInv, NEW t \in Threads, Lock(t) \/ SendOnce(t) \/ SetRetryConfig(t) \/ Close(t)
  PROVE  /\ pc[t] \notin {"idle", "record", "returned"} /\ pc'[t] # "idle"
         /\ call'[t] = call[t]
         /\ loc'[t].attempts = loc[t].attempts /\ loc'[t].maxAttempts = loc[t].maxAttempts
         /\ pc'[t] = "returned" => pc[t] \in {"setRetry"} \cup CloseLabels
<1>0. pc \in [Threads -> Labels] /\ loc \in [Threads -> Locals] /\ loc[t] \in Locals
  BY DEF IInv, TypeOK
<1> USE DEF CloseLabels
<1>1. CASE Lock(t)
  <2>1. call[t].kind \in {"send", "setRetry", "close"}
    BY <1>1 DEF Lock, IInv, CallInv, Calls
  <2> QED
    BY <1>0, <1>1, <2>1 DEF Lock, Goto
<1>2. CASE RefuseClosed(t) \/ ResetFails(t) \/ WriteFailed(t) \/ StopReading(t) \/ Verify(t)
  <2>1. PICK r, f : EndAttempt(t, r, f)
    BY <1>2 DEF RefuseClosed, ResetFails, WriteFailed, StopReading, Verify
  <2>2. pc[t] \in {"send", "writeFailed", "read", "readRest", "verify"}
    BY <1>2 DEF RefuseClosed, ResetFails, WriteFailed, StopReading, Verify
  <2>3. loc'[t].attempts = loc[t].attempts /\ loc'[t].maxAttempts = loc[t].maxAttempts
    BY <1>0, <2>1 DEF EndAttempt, Locals
  <2> QED
    BY <1>0, <2>1, <2>2, <2>3 DEF EndAttempt, Goto
<1>3. CASE ResetInputBuffer(t) \/ WriteFrame(t)
  BY <1>0, <1>3 DEF ResetInputBuffer, StartTX, WriteFrame, Goto
<1>4. CASE WriteFails(t)
  <2>1. loc'[t].attempts = loc[t].attempts /\ loc'[t].maxAttempts = loc[t].maxAttempts
    BY <1>0, <1>4 DEF WriteFails, FailWrite, Locals
  <2> QED
    BY <1>0, <1>4, <2>1 DEF WriteFails, FailWrite, Goto
<1>5. CASE EnableTX(t) \/ EnableRX(t) \/ CloseTransceiver(t)
  BY <1>0, <1>5 DEF EnableTX, EnableRX, AfterEnableRX, CloseTransceiver, PinStep, Goto
<1>6. CASE Phase1(t) \/ Phase2(t)
  <2>1. PICK exc, n : ReadCells(t, exc, n)
    BY <1>6 DEF Phase1, Phase2
  <2>2. pc[t] \in {"read", "readRest"}
    BY <1>6 DEF Phase1, Phase2
  <2>3. loc'[t].attempts = loc[t].attempts /\ loc'[t].maxAttempts = loc[t].maxAttempts
    BY <1>0, <2>1 DEF ReadCells, TakeCells, Locals
  <2> QED
    BY <1>0, <2>1, <2>2, <2>3 DEF ReadCells, TakeCells, Goto
<1>7. CASE SetRetryConfig(t) \/ CloseAgain(t) \/ BeginClose(t) \/ ClosePort(t) \/ CloseRpio(t)
             \/ CloseLock(t)
  BY <1>0, <1>7 DEF SetRetryConfig, SetMaxRetries, CloseAgain, BeginClose, ClosePort, PortClosed,
     CloseRpio, CloseLock, Unlock, Goto
<1> QED
  BY <1>1, <1>2, <1>3, <1>4, <1>5, <1>6, <1>7 DEF SendOnce, Close

LEMMA RetryInit == Init => RetryInv
<1> SUFFICES ASSUME Init PROVE RetryInv
  OBVIOUS
<1>1. \A t \in Threads : pc[t] = "idle" /\ loc[t].attempts = <<>> /\ loc[t].maxAttempts = 1
  BY DEF Init, NoLocals
<1> QED
  BY <1>1 DEF RetryInv, AttemptsFailed

LEMMA RetryThread ==
  ASSUME IInv, RetryInv, NEW t \in Threads, Call(t) \/ Lock(t) \/ Step(t)
  PROVE  RetryInv'
<1>0. /\ pc \in [Threads -> Labels] /\ loc \in [Threads -> Locals] /\ loc[t] \in Locals
      /\ call \in [Threads -> Calls \cup {NoCall}]
      /\ \A u \in Threads : loc[u].attempts \in Seq(Outcomes) /\ loc[u].maxAttempts \in Nat
  BY DEF IInv, TypeOK, Locals
<1> DEFINE Ok(u) ==
      LET o == loc[u].attempts
      IN  /\ Len(o) <= loc[u].maxAttempts
          /\ pc[u] = "idle" \/ call[u].kind # "send" => o = <<>>
          /\ pc[u] # "returned" => Len(o) < loc[u].maxAttempts /\ AttemptsFailed(u, Len(o))
          /\ pc[u] = "returned" => AttemptsFailed(u, Len(o) - 1)
          /\ pc[u] = "returned" /\ call[u].kind = "send" =>
                /\ o # <<>>
                /\ Last(o) \in {"ok", "exception"} \/ Len(o) = loc[u].maxAttempts
                /\ loc[u].res \in {"ok", "echo"} <=> Last(o) = "ok"
<1>1. \A u \in Threads : Ok(u)
  BY DEF RetryInv
<1>2. ASSUME NEW u \in Threads \ {t} PROVE Ok(u)'
  BY <1>1, OthersStay DEF AttemptsFailed, Last
<1>3. Ok(t)'
  <2>1. CASE Call(t)
    <3>1. PICK c \in Calls :
            /\ call' = [call EXCEPT ![t] = c]
            /\ loc' = [loc EXCEPT ![t].maxAttempts =
                          IF c.kind = "send" THEN 1 + dev[c.dev].maxRetries ELSE 1]
      BY <2>1 DEF Call
    <3>2. c.kind = "send" => dev[c.dev].maxRetries \in Nat
      BY DeviceAssumption DEF Calls, IInv, TypeOK, DeviceFields
    <3>3. pc[t] = "idle" /\ pc'[t] = "lock"
      BY <1>0, <2>1 DEF Call, Goto
    <3>4. loc[t].attempts = <<>>
      BY <1>1, <3>3
    <3>5. loc'[t].attempts = <<>> /\ loc'[t].maxAttempts \in Nat \ {0}
      BY <1>0, <3>1, <3>2, <3>4 DEF Locals
    <3> QED
      BY <3>3, <3>5 DEF AttemptsFailed
  <2>2. CASE Return(t)
    <3>1. pc'[t] = "idle" /\ loc'[t].attempts = <<>> /\ loc'[t].maxAttempts = 1
      BY <1>0, <2>2 DEF Return, Goto, NoLocals
    <3> QED
      BY <3>1 DEF AttemptsFailed
  <2>3. CASE Lock(t) \/ SendOnce(t) \/ SetRetryConfig(t) \/ Close(t)
    <3>1. pc'[t] = "returned" => call[t].kind # "send"
      BY <2>3, QuietStep DEF IInv, CallInv
    <3> QED
      BY <1>0, <1>1, <2>3, <3>1, QuietStep DEF AttemptsFailed
  <2>4. CASE AfterAttempt(t)
    <3> DEFINE o == loc[t].attempts
    <3>1. /\ pc[t] = "record" /\ loc[t].res \in Outcomes /\ call[t].kind = "send"
          /\ call'[t] = call[t]
      BY <2>4 DEF AfterAttempt, Succeed, Retry, GiveUp, Record, IInv, CallInv, SendLabels
    <3>2. o \in Seq(Outcomes) /\ Len(o) < loc[t].maxAttempts /\ AttemptsFailed(t, Len(o))
      BY <1>0, <1>1, <3>1
    <3> DEFINE p == loc'[t].attempts
    <3>3. PICK l, r : Record(t, l, r)
      BY <2>4 DEF AfterAttempt, Succeed, Retry, GiveUp
    <3>4. /\ p = Append(o, loc[t].res) /\ loc'[t].maxAttempts = loc[t].maxAttempts
          /\ pc'[t] = l /\ loc'[t].res = r
      BY <1>0, <3>3 DEF Record, Goto, Locals
    <3>5. Len(p) = Len(o) + 1 /\ p[Len(p)] = loc[t].res /\ p # <<>>
      BY <3>1, <3>2, <3>4
    <3>6. \A i \in 1..Len(o) : p[i] = "failed"
      BY <3>1, <3>2, <3>4 DEF AttemptsFailed
    <3>7. Len(p) <= loc'[t].maxAttempts /\ \A i \in 1..Len(p) - 1 : p[i] = "failed"
      BY <1>0, <3>2, <3>4, <3>5, <3>6
    <3> HIDE DEF o, p
    <3>8. CASE Succeed(t)
      <4>1. loc[t].res = "ok" /\ pc'[t] = "returned" /\ loc'[t].res \in {"ok", "echo"}
        BY <1>0, <3>8 DEF Succeed, Record, Goto, Locals
      <4> QED
        BY <3>1, <3>5, <3>7, <4>1 DEF p, Last, AttemptsFailed
    <3>9. CASE Retry(t)
      <4>1. loc[t].res = "failed" /\ Len(o) + 1 < loc[t].maxAttempts
        BY <3>1, <3>9 DEF Retry, MayRetry, Transient, Outcomes, o
      <4>2. pc'[t] = "lock"
        BY <1>0, <3>9 DEF Retry, Record, Goto
      <4>3. \A i \in 1..Len(p) : p[i] = "failed"
        BY <3>2, <3>5, <3>6, <4>1
      <4>4. Len(p) < loc'[t].maxAttempts
        BY <3>2, <3>4, <3>5, <4>1
      <4> QED
        BY <3>1, <3>7, <4>2, <4>3, <4>4 DEF p, AttemptsFailed
    <3>10. CASE GiveUp(t)
      <4>1. loc[t].res \in {"failed", "exception"}
            /\ (loc[t].res = "exception" \/ Len(o) + 1 = loc[t].maxAttempts)
        BY <1>0, <3>1, <3>2, <3>10 DEF GiveUp, MayRetry, Transient, Outcomes, o
      <4>2. pc'[t] = "returned" /\ loc'[t].res = loc[t].res
        BY <1>0, <3>10 DEF GiveUp, Record, Goto, Locals
      <4> QED
        BY <3>1, <3>4, <3>5, <3>7, <4>1, <4>2 DEF p, Last, AttemptsFailed
    <3> QED
      BY <2>4, <3>8, <3>9, <3>10 DEF AfterAttempt
  <2> QED
    BY <2>1, <2>2, <2>3, <2>4 DEF Step
<1>4. \A u \in Threads : Ok(u)'
  BY <1>2, <1>3
<1> QED
  BY <1>4 DEF RetryInv

LEMMA RetryElse == RetryInv /\ (Environment \/ UNCHANGED vars) => RetryInv'
<1> SUFFICES ASSUME RetryInv, Environment \/ UNCHANGED vars PROVE RetryInv'
  OBVIOUS
<1>1. UNCHANGED callVars
  BY DEF Environment, SlaveAnswers, Arrive, LoseCell, vars
<1> QED
  BY <1>1 DEF callVars, RetryInv, AttemptsFailed

\* types.go:67-69: at most 1 + MaxRetries attempts, nothing after a success or an exception,
\* an error only when it is permanent or the attempts are used up.
THEOREM RetriesAreDisciplined == Spec => []RetryDiscipline
<1>1. IInv /\ RetryInv /\ [Next]_vars => RetryInv'
  BY RetryThread, RetryElse DEF Next
<1>2. RetryInv => RetryDiscipline
  <2> SUFFICES ASSUME RetryInv, NEW t \in Threads
               PROVE  LET o == loc[t].attempts
                      IN  /\ Len(o) <= loc[t].maxAttempts
                          /\ \A i \in 1..Len(o) : o[i] \in {"ok", "exception"} =>
                                i = Len(o) /\ pc[t] = "returned"
                          /\ pc[t] = "returned" /\ call[t].kind = "send" =>
                                /\ o # <<>>
                                /\ Last(o) \in {"ok", "exception"} \/ Len(o) = loc[t].maxAttempts
                                /\ loc[t].res \in {"ok", "echo"} <=> Last(o) = "ok"
    BY DEF RetryDiscipline
  <2>1. ASSUME NEW i \in 1..Len(loc[t].attempts), loc[t].attempts[i] \in {"ok", "exception"}
        PROVE  i = Len(loc[t].attempts) /\ pc[t] = "returned"
    BY <2>1 DEF RetryInv, AttemptsFailed
  <2> QED
    BY <2>1 DEF RetryInv
<1> QED
  BY RetryInit, <1>1, <1>2, Inductive, PTL DEF Spec

-----------------------------------------------------------------------------
Reading == {"readRest", "verify"}
Decided == {"record", "returned"}

\* What every step of a thread but a read, the end of an attempt and its record does to the
\* cells and to the answers: it may drop cells, it decides nothing.
LEMMA PlainStep ==
  ASSUME IInv, NEW t \in Threads, pc[t] \notin Reading => loc[t].resp = <<>>,
         \/ Call(t) \/ Lock(t) \/ Return(t) \/ ResetInputBuffer(t) \/ EnableTX(t)
         \/ WriteFrame(t) \/ WriteFails(t) \/ EnableRX(t) \/ SetRetryConfig(t) \/ Close(t)
  PROVE  /\ pc[t] \notin Reading /\ pc'[t] \notin Reading /\ loc'[t].resp = <<>>
         /\ ~(pc'[t] \in Decided /\ call'[t].kind = "send")
         /\ UNCHANGED <<line, executed>> /\ rxBuf' \in {rxBuf, <<>>}
<1>0. pc \in [Threads -> Labels] /\ loc \in [Threads -> Locals] /\ loc[t] \in Locals
  BY DEF IInv, TypeOK
<1> USE DEF Reading, Decided
<1>1. CASE Call(t)
  <2>1. pc[t] = "idle" /\ pc'[t] = "lock" /\ UNCHANGED wireVars
    BY <1>0, <1>1 DEF Call, Goto
  <2>2. loc'[t].resp = loc[t].resp
    BY <1>0, <1>1 DEF Call, Locals
  <2> QED
    BY <2>1, <2>2 DEF wireVars
<1>2. CASE Lock(t)
  <2>1. call[t].kind \in {"send", "setRetry", "close"}
    BY <1>2 DEF Lock, IInv, CallInv, Calls
  <2> QED
    BY <1>0, <1>2, <2>1 DEF Lock, Goto, wireVars
<1>3. CASE Return(t)
  <2>1. loc'[t].resp = <<>>
    BY <1>0, <1>3 DEF Return, NoLocals
  <2> QED
    BY <1>0, <1>3, <2>1 DEF Return, Goto, wireVars
<1>4. CASE ResetInputBuffer(t) \/ WriteFrame(t)
  BY <1>0, <1>4 DEF ResetInputBuffer, StartTX, WriteFrame, Goto
<1>5. CASE WriteFails(t)
  <2>1. loc'[t].resp = loc[t].resp
    BY <1>0, <1>5 DEF WriteFails, FailWrite, Locals
  <2> QED
    BY <1>0, <1>5, <2>1 DEF WriteFails, FailWrite, Goto, wireVars
<1>6. CASE EnableTX(t) \/ EnableRX(t) \/ CloseTransceiver(t)
  BY <1>0, <1>6 DEF EnableTX, EnableRX, AfterEnableRX, CloseTransceiver, PinStep, Goto, wireVars
<1>7. CASE SetRetryConfig(t) \/ CloseAgain(t) \/ BeginClose(t) \/ ClosePort(t) \/ CloseRpio(t)
             \/ CloseLock(t)
  <2>1. pc[t] \in {"setRetry"} \cup CloseLabels /\ UNCHANGED <<call, loc, wireVars>>
    BY <1>7 DEF SetRetryConfig, SetMaxRetries, CloseAgain, BeginClose, ClosePort, PortClosed,
       CloseRpio, CloseLock, CloseLabels
  <2>2. call[t].kind # "send"
    BY <2>1 DEF IInv, CallInv
  <2>3. pc'[t] \notin Reading
    BY <1>0, <1>7 DEF SetRetryConfig, SetMaxRetries, CloseAgain, BeginClose, ClosePort, PortClosed,
       CloseRpio, CloseLock, Unlock, Goto
  <2> QED
    BY <2>1, <2>2, <2>3 DEF wireVars, CloseLabels
<1> QED
  BY <1>1, <1>2, <1>3, <1>4, <1>5, <1>6, <1>7 DEF Close

\* The locals and the wire after an attempt.
LEMMA EndedStep ==
  ASSUME IInv, NEW t \in Threads, NEW r, NEW f, EndAttempt(t, r, f)
  PROVE  /\ pc'[t] = "record" /\ call'[t] = call[t]
         /\ loc'[t].res = r /\ loc'[t].answer = f /\ loc'[t].resp = <<>>
         /\ UNCHANGED <<rxBuf, executed>> /\ line' \in {line, <<>>}
  BY DEF EndAttempt, Goto, IInv, TypeOK, Locals

\* The cells after a read: the response grows by the first cells of the buffer.
LEMMA ReadStep ==
  ASSUME IInv, NEW t \in Threads, NEW exc \in BOOLEAN, NEW n \in 1..Len(rxBuf),
         ReadCells(t, exc, n)
  PROVE  /\ pc'[t] \in Reading /\ call'[t] = call[t] /\ UNCHANGED <<line, heard, executed>>
         /\ loc'[t].resp \in Seq(Cells) /\ loc'[t].resp # <<>> /\ loc'[t].isException = exc
         /\ loc'[t].resp[1] = IF loc[t].resp = <<>> THEN rxBuf[1] ELSE loc[t].resp[1]
         /\ \A i \in 1..Len(loc'[t].resp) :
              \/ \E j \in 1..Len(loc[t].resp) : loc'[t].resp[i] = loc[t].resp[j]
              \/ \E j \in 1..Len(rxBuf) : loc'[t].resp[i] = rxBuf[j]
         /\ \A i \in 1..Len(rxBuf') : \E j \in 1..Len(rxBuf) : rxBuf'[i] = rxBuf[j]
<1> DEFINE old == loc[t].resp
           new == SubSeq(rxBuf, 1, n)
           got == old \o new
<1>1. rxBuf \in Seq(Cells) /\ old \in Seq(Cells) /\ loc \in [Threads -> Locals]
      /\ loc[t] \in Locals /\ pc \in [Threads -> Labels]
  BY DEF IInv, TypeOK, Locals
<1>2. new \in Seq(Cells) /\ Len(new) = n /\ \A i \in 1..n : new[i] = rxBuf[i]
  BY <1>1
<1>3. /\ got \in Seq(Cells) /\ Len(got) = Len(old) + n
      /\ \A i \in 1..Len(old) : got[i] = old[i]
      /\ \A i \in Len(old) + 1..Len(old) + n : got[i] = new[i - Len(old)]
  BY <1>1, <1>2
<1>4. loc'[t].resp = got /\ loc'[t].isException = exc
  BY <1>1 DEF ReadCells, TakeCells, Locals
<1>5. rxBuf' = SubSeq(rxBuf, n + 1, Len(rxBuf))
  BY DEF ReadCells, TakeCells
<1>6. \A i \in 1..Len(rxBuf') : i + n \in 1..Len(rxBuf) /\ rxBuf'[i] = rxBuf[i + n]
  BY <1>1, <1>5
<1>7. pc'[t] \in Reading /\ call'[t] = call[t] /\ UNCHANGED <<line, heard, executed>>
  BY <1>1 DEF ReadCells, TakeCells, Goto, Reading
<1> HIDE DEF new, got
<1>8. ASSUME NEW i \in 1..Len(got)
      PROVE  (\E j \in 1..Len(old) : got[i] = old[j]) \/ (\E j \in 1..Len(rxBuf) : got[i] = rxBuf[j])
  <2>1. CASE i <= Len(old)
    BY <1>1, <1>3, <2>1
  <2>2. CASE i > Len(old)
    <3>1. i - Len(old) \in 1..n /\ i \in Len(old) + 1..Len(old) + n
      BY <1>1, <1>3, <2>2
    <3>2. got[i] = rxBuf[i - Len(old)] /\ i - Len(old) \in 1..Len(rxBuf)
      BY <1>1, <1>2, <1>3, <3>1
    <3> QED
      BY <3>2
  <2> QED
    BY <1>1, <1>3, <2>1, <2>2
<1>9. got[1] = IF old = <<>> THEN rxBuf[1] ELSE old[1]
  <2>1. CASE old = <<>>
    <3>1. Len(old) = 0
      BY <2>1
    <3> QED
      BY <1>2, <1>3, <2>1, <3>1
  <2>2. CASE old # <<>>
    <3>1. 1 \in 1..Len(old)
      BY <1>1, <2>2
    <3> QED
      BY <1>3, <2>2, <3>1
  <2> QED
    BY <2>1, <2>2
<1>10. got # <<>>
  BY <1>1, <1>3
<1>11. \A i \in 1..Len(rxBuf') : \E j \in 1..Len(rxBuf) : rxBuf'[i] = rxBuf[j]
  BY <1>6
<1> HIDE DEF old
<1> USE <1>4
<1>12. loc'[t].resp \in Seq(Cells) /\ loc'[t].resp # <<>>
  BY <1>3, <1>10
<1>13. loc'[t].resp[1] = IF loc[t].resp = <<>> THEN rxBuf[1] ELSE loc[t].resp[1]
  BY <1>9 DEF old
<1>14. ASSUME NEW i \in 1..Len(loc'[t].resp)
       PROVE  \/ \E j \in 1..Len(loc[t].resp) : loc'[t].resp[i] = loc[t].resp[j]
              \/ \E j \in 1..Len(rxBuf) : loc'[t].resp[i] = rxBuf[j]
  BY <1>8, <1>14 DEF old
<1> QED
  BY <1>7, <1>11, <1>12, <1>13, <1>14

-----------------------------------------------------------------------------
\* Every cell that claims a write was carried out tells the truth.
WireInv ==
  LET Good(c) == c # Noise /\ ~c.from.exc /\ IsWrite(c.from.req) => c.from.req \in executed
  IN  /\ \A i \in 1..Len(line) : Good(line[i])
      /\ \A i \in 1..Len(rxBuf) : Good(rxBuf[i])
      /\ \A t \in Threads : \A i \in 1..Len(loc[t].resp) : Good(loc[t].resp[i])

\* A response is read after its header, which told whether it is an exception.
HeaderInv ==
  \A t \in Threads :
    LET header == loc[t].resp[1]
    IN  IF pc[t] \in Reading
          THEN /\ loc[t].resp # <<>>
               /\ header # Noise /\ header.part = 1 => loc[t].isException = header.from.exc
          ELSE loc[t].resp = <<>>

\* The answer of a call that succeeds.
AcceptedInv ==
  \A t \in Threads : pc[t] \in Decided /\ call[t].kind = "send" /\ loc[t].res = "ok" =>
    /\ loc[t].answer.req.fc = call[t].req.fc
    /\ IsWrite(loc[t].answer.req) => loc[t].answer.req \in executed
    /\ pc[t] = "returned" => ~EchoMismatch(t)

AckInv == WireInv /\ HeaderInv /\ AcceptedInv

LEMMA AckInit == Init => AckInv
<1> SUFFICES ASSUME Init PROVE AckInv
  OBVIOUS
<1>1. /\ line = <<>> /\ rxBuf = <<>>
      /\ \A t \in Threads : pc[t] = "idle" /\ loc[t].resp = <<>>
  BY DEF Init, NoLocals
<1>2. WireInv
  BY <1>1 DEF WireInv
<1>3. HeaderInv /\ AcceptedInv
  BY <1>1 DEF HeaderInv, AcceptedInv, Reading, Decided
<1> QED
  BY <1>2, <1>3 DEF AckInv

\* Only intact responses end an attempt well, and their header is no exception's.
LEMMA VerifyStep ==
  ASSUME IInv, AckInv, NEW t \in Threads, NEW f, Verify(t), EndAttempt(t, "ok", f)
  PROVE  /\ f.req.fc = call[t].req.fc
         /\ IsWrite(f.req) => f.req \in executed
<1> DEFINE resp == loc[t].resp
<1>1. loc \in [Threads -> Locals] /\ loc[t] \in Locals /\ resp \in Seq(Cells)
      /\ loc[t].isException \in BOOLEAN
  BY DEF IInv, TypeOK, Locals
<1>2. pc[t] = "verify" /\ loc'[t].res = "ok" /\ loc'[t].answer = f
  BY EndedStep DEF Verify
<1>3. /\ Intact(resp, FinalLen(t, loc[t].isException))
      /\ ~loc[t].isException
      /\ resp[1].from.req.fc = call[t].req.fc
      /\ EndAttempt(t, "ok", resp[1].from)
  <2>1. \A g : ~EndAttempt(t, "failed", g) /\ ~EndAttempt(t, "exception", g)
    BY <1>2, EndedStep
  <2> QED
    BY <2>1 DEF Verify
<1>4. f = resp[1].from
  BY <1>2, <1>3, EndedStep
<1>5. PICK g \in Frames : resp[1] = Cell(g, 1)
  BY <1>3, IntactHeader
<1>6. resp[1] # Noise /\ resp[1].part = 1 /\ g = f
  BY <1>4, <1>5, AnswerAssumption DEF Cell, IntactCells
<1>7. ~f.exc
  BY <1>2, <1>3, <1>4, <1>6 DEF AckInv, HeaderInv, Reading
<1>8. 1 \in 1..Len(resp)
  BY <1>1, <1>2 DEF AckInv, HeaderInv, Reading
<1> QED
  BY <1>3, <1>4, <1>6, <1>7, <1>8 DEF AckInv, WireInv

LEMMA AckThread ==
  ASSUME IInv, AckInv, NEW t \in Threads, Call(t) \/ Lock(t) \/ Step(t)
  PROVE  AckInv'
<1>0. \A u \in Threads : loc[u] \in Locals
  BY DEF IInv, TypeOK
<1>1. pc[t] \notin Reading => loc[t].resp = <<>>
  BY DEF AckInv, HeaderInv
<1>2. CASE \/ Call(t) \/ Lock(t) \/ Return(t) \/ ResetInputBuffer(t) \/ EnableTX(t)
           \/ WriteFrame(t) \/ WriteFails(t) \/ EnableRX(t) \/ SetRetryConfig(t) \/ Close(t)
  <2>1. /\ pc'[t] \notin Reading /\ loc'[t].resp = <<>>
        /\ ~(pc'[t] \in Decided /\ call'[t].kind = "send")
        /\ UNCHANGED <<line, executed>> /\ rxBuf' \in {rxBuf, <<>>}
    BY <1>1, <1>2, PlainStep
  <2>2. WireInv'
    BY <2>1, OthersStay DEF AckInv, WireInv
  <2>3. HeaderInv'
    BY <2>1, OthersStay DEF AckInv, HeaderInv
  <2>4. AcceptedInv'
    BY <2>1, OthersStay DEF AckInv, AcceptedInv, EchoMismatch
  <2> QED
    BY <2>2, <2>3, <2>4 DEF AckInv
<1>3. CASE RefuseClosed(t) \/ ResetFails(t) \/ WriteFailed(t) \/ StopReading(t) \/ Verify(t)
  <2>1. PICK r, f : EndAttempt(t, r, f) /\ (r = "ok" => Verify(t))
    BY <1>3 DEF RefuseClosed, ResetFails, WriteFailed, StopReading, Verify
  <2>2. /\ pc'[t] = "record" /\ call'[t] = call[t]
        /\ loc'[t].res = r /\ loc'[t].answer = f /\ loc'[t].resp = <<>>
        /\ UNCHANGED <<rxBuf, executed>> /\ line' \in {line, <<>>}
    BY <2>1, EndedStep
  <2>3. WireInv'
    BY <2>2, OthersStay DEF AckInv, WireInv
  <2>4. HeaderInv'
    BY <2>2, OthersStay DEF AckInv, HeaderInv, Reading
  <2>5. r = "ok" => f.req.fc = call[t].req.fc /\ (IsWrite(f.req) => f.req \in executed)
    BY <2>1, VerifyStep
  <2>6. AcceptedInv'
    BY <2>2, <2>5, OthersStay DEF AckInv, AcceptedInv, EchoMismatch
  <2> QED
    BY <2>3, <2>4, <2>6 DEF AckInv
<1>4. CASE Phase1(t) \/ Phase2(t)
  <2>1. PICK n \in 1..Len(rxBuf), exc \in BOOLEAN :
          /\ ReadCells(t, exc, n)
          /\ \/ pc[t] = "read" /\ exc \in MsbSet(rxBuf[1])
             \/ pc[t] = "readRest" /\ exc = loc[t].isException
    <3>1. CASE Phase1(t)
      <4>1. PICK n \in 1..Len(rxBuf) : \E exc \in MsbSet(rxBuf[1]) : ReadCells(t, exc, n)
        BY <3>1 DEF Phase1
      <4>2. rxBuf[1] \in Cells
        BY <4>1 DEF IInv, TypeOK
      <4>3. MsbSet(rxBuf[1]) \subseteq BOOLEAN
        BY <4>2 DEF MsbSet, Cells, IntactCells, Frames
      <4> QED
        BY <3>1, <4>1, <4>3 DEF Phase1
    <3>2. CASE Phase2(t)
      BY <1>0, <3>2 DEF Phase2, Locals
    <3> QED
      BY <1>4, <3>1, <3>2
  <2>2. /\ pc'[t] \in Reading /\ call'[t] = call[t] /\ UNCHANGED <<line, executed>>
        /\ loc'[t].resp # <<>> /\ loc'[t].isException = exc
        /\ loc'[t].resp[1] = IF loc[t].resp = <<>> THEN rxBuf[1] ELSE loc[t].resp[1]
        /\ \A i \in 1..Len(loc'[t].resp) :
             \/ \E j \in 1..Len(loc[t].resp) : loc'[t].resp[i] = loc[t].resp[j]
             \/ \E j \in 1..Len(rxBuf) : loc'[t].resp[i] = rxBuf[j]
        /\ \A i \in 1..Len(rxBuf') : \E j \in 1..Len(rxBuf) : rxBuf'[i] = rxBuf[j]
    BY <2>1, ReadStep
  <2>3. WireInv'
    <3> DEFINE Good(c) == c # Noise /\ ~c.from.exc /\ IsWrite(c.from.req) => c.from.req \in executed
    <3>1. /\ \A i \in 1..Len(line) : Good(line[i])
          /\ \A i \in 1..Len(rxBuf) : Good(rxBuf[i])
          /\ \A u \in Threads : \A i \in 1..Len(loc[u].resp) : Good(loc[u].resp[i])
      BY DEF AckInv, WireInv
    <3> HIDE DEF Good
    <3>2. \A i \in 1..Len(rxBuf') : Good(rxBuf'[i])
      BY <2>2, <3>1
    <3>3. \A i \in 1..Len(loc'[t].resp) : Good(loc'[t].resp[i])
      BY <2>2, <3>1
    <3>4. \A u \in Threads : \A i \in 1..Len(loc'[u].resp) : Good(loc'[u].resp[i])
      BY <3>1, <3>3, OthersStay
    <3> QED
      BY <2>2, <3>1, <3>2, <3>4 DEF Good, WireInv
  <2>4. loc'[t].resp[1] # Noise /\ loc'[t].resp[1].part = 1 =>
          exc = loc'[t].resp[1].from.exc
    BY <2>1, <2>2 DEF AckInv, HeaderInv, Reading, MsbSet
  <2>5. HeaderInv'
    BY <2>2, <2>4, OthersStay DEF AckInv, HeaderInv
  <2>6. AcceptedInv'
    BY <2>2, OthersStay DEF AckInv, AcceptedInv, EchoMismatch, Reading, Decided
  <2> QED
    BY <2>3, <2>5, <2>6 DEF AckInv
<1>5. CASE AfterAttempt(t)
  <2>1. PICK l, r :
          /\ l \in {"returned", "lock"}
          /\ Record(t, l, r)
          /\ l = "returned" /\ r = "ok" => loc[t].res = "ok" /\ ~EchoMismatch(t)
    BY <1>5 DEF AfterAttempt, Succeed, Retry, GiveUp
  <2>2. /\ pc[t] = "record" /\ pc'[t] = l /\ call'[t] = call[t] /\ loc'[t].res = r
        /\ loc'[t].answer = loc[t].answer /\ loc'[t].resp = loc[t].resp /\ UNCHANGED wireVars
    BY <1>0, <2>1 DEF Record, Goto, IInv, TypeOK, Locals
  <2>3. WireInv'
    BY <2>2, OthersStay DEF AckInv, WireInv, wireVars
  <2>4. HeaderInv'
    BY <2>1, <2>2, OthersStay DEF AckInv, HeaderInv, Reading
  <2>5. AcceptedInv'
    BY <2>1, <2>2, OthersStay DEF AckInv, AcceptedInv, EchoMismatch, Decided, wireVars
  <2> QED
    BY <2>3, <2>4, <2>5 DEF AckInv
<1> QED
  BY <1>2, <1>3, <1>4, <1>5 DEF Step, SendOnce

LEMMA AckEnvironment == ASSUME IInv, AckInv, Environment PROVE AckInv'
<1>0. line \in Seq(Cells) /\ rxBuf \in Seq(Cells)
  BY DEF IInv, TypeOK
<1>1. UNCHANGED callVars /\ executed \subseteq executed'
  BY DEF Environment, SlaveAnswers, Arrive, LoseCell
<1>2. HeaderInv' /\ AcceptedInv'
  BY <1>1 DEF AckInv, HeaderInv, AcceptedInv, EchoMismatch, callVars
<1>3. WireInv'
  <2>1. CASE SlaveAnswers
    <3>1. PICK f \in Answers :
            /\ line' = [i \in 1..FrameCells(f) |-> Cell(f, i)]
            /\ executed' = IF ~f.exc /\ IsWrite(f.req) THEN executed \cup {f.req} ELSE executed
            /\ rxBuf' = rxBuf
      BY <2>1 DEF SlaveAnswers
    <3>2. FrameCells(f) \in Nat
      BY DeviceAssumption, AnswerAssumption DEF FrameCells, Frames
    <3>3. \A i \in 1..Len(line') : line'[i].from = f
      BY <3>1, <3>2 DEF Cell
    <3>4. ~f.exc /\ IsWrite(f.req) => f.req \in executed'
      BY <3>1
    <3>5. /\ \A i \in 1..Len(rxBuf) :
               rxBuf[i] # Noise /\ ~rxBuf[i].from.exc /\ IsWrite(rxBuf[i].from.req) =>
                 rxBuf[i].from.req \in executed'
          /\ \A u \in Threads : \A i \in 1..Len(loc[u].resp) :
               LET c == loc[u].resp[i]
               IN  c # Noise /\ ~c.from.exc /\ IsWrite(c.from.req) => c.from.req \in executed'
      BY <1>1 DEF AckInv, WireInv
    <3>6. \A i \in 1..Len(line') :
            line'[i] # Noise /\ ~line'[i].from.exc /\ IsWrite(line'[i].from.req) =>
              line'[i].from.req \in executed'
      BY <3>3, <3>4
    <3> QED
      BY <1>1, <3>1, <3>5, <3>6 DEF WireInv, callVars
  <2>2. CASE Arrive \/ LoseCell
    <3>1. line # <<>> /\ line' = Tail(line) /\ UNCHANGED executed
      BY <2>2 DEF Arrive, LoseCell
    <3>2. \A i \in 1..Len(line') : i + 1 \in 1..Len(line) /\ line'[i] = line[i + 1]
      BY <1>0, <3>1
    <3>3. rxBuf' = rxBuf \/ \E c \in {Head(line), Noise} : rxBuf' = Append(rxBuf, c)
      BY <2>2 DEF Arrive, LoseCell
    <3>4. Head(line) = line[1] /\ 1 \in 1..Len(line)
      BY <1>0, <3>1
    <3>5. \A i \in 1..Len(rxBuf') :
            \/ i \in 1..Len(rxBuf) /\ rxBuf'[i] = rxBuf[i]
            \/ rxBuf'[i] \in {line[1], Noise}
      BY <1>0, <3>3, <3>4
    <3> QED
      BY <1>1, <3>1, <3>2, <3>4, <3>5 DEF AckInv, WireInv, callVars
  <2> QED
    BY <2>1, <2>2 DEF Environment
<1> QED
  BY <1>2, <1>3 DEF AckInv

\* A write that reports success: some slave carried out a write with the same slave, function
\* code, address and quantity or value, whatever was late, damaged or repeated.
THEOREM AckIsTrue == Spec => []AckedWriteWasExecuted
<1>1. IInv /\ AckInv /\ [Next]_vars => AckInv'
  <2>1. AckInv /\ UNCHANGED vars => AckInv'
    BY DEF AckInv, WireInv, HeaderInv, AcceptedInv, EchoMismatch, vars, callVars, wireVars
  <2> QED
    BY <2>1, AckThread, AckEnvironment DEF Next
<1>2. AckInv => AckedWriteWasExecuted
  <2> SUFFICES ASSUME AckInv, NEW t \in Threads, Returned(t, "ok"), IsWrite(call[t].req)
               PROVE  \E q \in executed : SameEcho(q, call[t].req)
    BY DEF AckedWriteWasExecuted
  <2>1. /\ loc[t].answer.req.fc = call[t].req.fc
        /\ IsWrite(loc[t].answer.req) => loc[t].answer.req \in executed
        /\ ~EchoMismatch(t)
    BY DEF AckInv, AcceptedInv, Returned, Decided
  <2>2. loc[t].answer.req \in executed
    BY <2>1 DEF IsWrite
  <2> QED
    BY <2>1, <2>2 DEF EchoMismatch
<1> QED
  BY AckInit, <1>1, <1>2, Inductive, PTL DEF Spec

-----------------------------------------------------------------------------
(***************************************************************************)
(* Slaves that answer in time or never: whatever is heard, on the line, in *)
(* the buffer since it was reset or in the response belongs to the request *)
(* of the one thread that is listening.                                    *)
(***************************************************************************)
Listening == {"enableRX", "lowerDE", "writeFailed", "read", "readRest", "verify"}
Active == {"enableTX", "raiseRE", "write"} \cup Listening

Own(c, t) == c # Noise => c.from.req = call[t].req

OwnInv ==
  /\ \A q \in heard : \E t \in Threads : pc[t] \in Listening /\ call[t].req = q
  /\ \A i \in 1..Len(line) : \E t \in Threads : pc[t] \in Listening /\ Own(line[i], t)
  /\ \A t \in Threads : pc[t] \in Active => \A i \in 1..Len(rxBuf) : Own(rxBuf[i], t)
  /\ \A t \in Threads : \A i \in 1..Len(loc[t].resp) : Own(loc[t].resp[i], t)
  /\ \A t \in Threads :
       pc[t] \in Decided /\ call[t].kind = "send" /\ loc[t].res \in {"ok", "exception"} =>
         loc[t].answer.req = call[t].req

LEMMA OwnInit == Init => OwnInv
<1> SUFFICES ASSUME Init PROVE OwnInv
  OBVIOUS
<1>1. /\ line = <<>> /\ rxBuf = <<>> /\ heard = {}
      /\ \A t \in Threads : pc[t] = "idle" /\ loc[t].resp = <<>>
  BY DEF Init, NoLocals
<1> QED
  BY <1>1 DEF OwnInv, Decided, Active, Listening

LEMMA ActiveAlone ==
  ASSUME IInv, NEW t \in Threads, pc[t] \in Listening, NEW u \in Threads \ {t}
  PROVE  pc[u] \notin Active
  BY DEF IInv, MutexInv, Active, Listening, InCriticalSection

\* The answer an attempt accepts.
LEMMA VerifyOwn ==
  ASSUME IInv, AckInv, OwnInv, NEW t \in Threads, NEW r \in {"ok", "exception"}, NEW f,
         Verify(t), EndAttempt(t, r, f)
  PROVE  f.req = call[t].req
<1>1. loc[t].resp \in Seq(Cells)
  BY DEF IInv, TypeOK, Locals
<1>2. pc[t] = "verify" /\ loc'[t].res = r /\ loc'[t].answer = f
  BY EndedStep DEF Verify
<1>3. /\ Intact(loc[t].resp, FinalLen(t, loc[t].isException))
      /\ EndAttempt(t, r, loc[t].resp[1].from)
  <2>1. \A g : ~EndAttempt(t, "failed", g)
    BY <1>2, EndedStep
  <2>2. \A g, o : EndAttempt(t, o, g) => o = r
    BY <1>2, EndedStep
  <2> QED
    BY <2>1, <2>2 DEF Verify
<1>4. f = loc[t].resp[1].from
  BY <1>2, <1>3, EndedStep
<1>5. PICK g \in Frames : loc[t].resp[1] = Cell(g, 1)
  BY <1>3, IntactHeader
<1>6. loc[t].resp[1] # Noise
  BY <1>5, AnswerAssumption DEF Cell, IntactCells
<1>7. 1 \in 1..Len(loc[t].resp)
  BY <1>1, <1>2 DEF AckInv, HeaderInv, Reading
<1> QED
  BY <1>4, <1>6, <1>7 DEF OwnInv, Own

\* The steps from the first pin to the last, the reads apart.
LEMMA ActiveStep ==
  ASSUME IInv, NEW t \in Threads, EnableTX(t) \/ WriteFrame(t) \/ WriteFails(t) \/ EnableRX(t)
  PROVE  /\ pc[t] \in Active /\ pc'[t] \in Active /\ call'[t] = call[t]
         /\ pc[t] \in Listening => pc'[t] \in Listening
         /\ heard' = heard \/ (heard' = heard \cup {call[t].req} /\ pc'[t] \in Listening)
         /\ UNCHANGED <<line, rxBuf>>
<1>0. pc \in [Threads -> Labels]
  BY DEF IInv, TypeOK
<1> USE DEF Active, Listening
<1>1. CASE EnableTX(t)
  BY <1>0, <1>1 DEF EnableTX, PinStep, Goto, wireVars
<1>2. CASE EnableRX(t)
  BY <1>0, <1>2 DEF EnableRX, AfterEnableRX, PinStep, Goto, wireVars
<1>3. CASE WriteFrame(t)
  BY <1>0, <1>3 DEF WriteFrame, Goto
<1>4. CASE WriteFails(t)
  BY <1>0, <1>4 DEF WriteFails, FailWrite, Goto, wireVars
<1> QED
  BY <1>1, <1>2, <1>3, <1>4

\* The steps outside an attempt.
LEMMA OutsideStep ==
  ASSUME IInv, NEW t \in Threads,
         Call(t) \/ Lock(t) \/ Return(t) \/ SetRetryConfig(t) \/ Close(t)
  PROVE  pc[t] \notin Active /\ pc'[t] \notin Active /\ UNCHANGED wireVars
<1>0. pc \in [Threads -> Labels]
  BY DEF IInv, TypeOK
<1> USE DEF Active, Listening
<1>1. CASE Call(t) \/ Return(t)
  BY <1>0, <1>1 DEF Call, Return, Goto
<1>2. CASE Lock(t)
  <2>1. call[t].kind \in {"send", "setRetry", "close"}
    BY <1>2 DEF Lock, IInv, CallInv, Calls
  <2> QED
    BY <1>0, <1>2, <2>1 DEF Lock, Goto
<1>3. CASE SetRetryConfig(t) \/ CloseAgain(t) \/ BeginClose(t) \/ ClosePort(t) \/ CloseRpio(t)
             \/ CloseLock(t)
  BY <1>0, <1>3 DEF SetRetryConfig, SetMaxRetries, CloseAgain, BeginClose, ClosePort, PortClosed,
     CloseRpio, CloseLock, Unlock, Goto
<1>4. CASE CloseTransceiver(t)
  BY <1>0, <1>4 DEF CloseTransceiver, PinStep, Goto
<1> QED
  BY <1>1, <1>2, <1>3, <1>4 DEF Close

LEMMA OwnThread ==
  ASSUME ~AnswersOutliveAttempt, IInv, AckInv, OwnInv, NEW t \in Threads,
         Call(t) \/ Lock(t) \/ Step(t)
  PROVE  OwnInv'
<1>0. \A u \in Threads : loc[u] \in Locals
  BY DEF IInv, TypeOK
<1>1. pc[t] \notin Reading => loc[t].resp = <<>>
  BY DEF AckInv, HeaderInv
<1>2. CASE Call(t) \/ Lock(t) \/ Return(t) \/ SetRetryConfig(t) \/ Close(t)
  <2>1. /\ loc'[t].resp = <<>> /\ ~(pc'[t] \in Decided /\ call'[t].kind = "send")
    BY <1>1, <1>2, PlainStep
  <2>2. pc[t] \notin Active /\ pc'[t] \notin Active /\ UNCHANGED wireVars
    BY <1>2, OutsideStep
  <2> QED
    BY <2>1, <2>2, OthersStay DEF OwnInv, Own, wireVars, Active
<1>3. CASE ResetInputBuffer(t)
  <2>1. /\ loc'[t].resp = <<>> /\ ~(pc'[t] \in Decided /\ call'[t].kind = "send")
    BY <1>1, <1>3, PlainStep
  <2>2. pc[t] \notin Active /\ rxBuf' = <<>> /\ UNCHANGED <<heard, line>>
    BY <1>3 DEF ResetInputBuffer, StartTX, Active, Listening
  <2> QED
    BY <2>1, <2>2, OthersStay DEF OwnInv, Own, Active
<1>4. CASE EnableTX(t) \/ WriteFrame(t) \/ WriteFails(t) \/ EnableRX(t)
  <2>1. /\ loc'[t].resp = <<>> /\ ~(pc'[t] \in Decided /\ call'[t].kind = "send")
    BY <1>1, <1>4, PlainStep
  <2>2. /\ pc[t] \in Active /\ pc'[t] \in Active /\ call'[t] = call[t]
        /\ pc[t] \in Listening => pc'[t] \in Listening
        /\ heard' = heard \/ (heard' = heard \cup {call[t].req} /\ pc'[t] \in Listening)
        /\ UNCHANGED <<line, rxBuf>>
    BY <1>4, ActiveStep
  <2>3. ASSUME NEW q \in heard'
        PROVE  \E u \in Threads : pc'[u] \in Listening /\ call'[u].req = q
    <3>1. CASE q \in heard
      <4>1. PICK u \in Threads : pc[u] \in Listening /\ call[u].req = q
        BY <3>1 DEF OwnInv
      <4> QED
        BY <2>2, <4>1, OthersStay
    <3>2. CASE q \notin heard
      BY <2>2, <2>3, <3>2
    <3> QED
      BY <3>1, <3>2
  <2>4. ASSUME NEW i \in 1..Len(line')
        PROVE  \E u \in Threads : pc'[u] \in Listening /\ Own(line[i], u)'
    <3>1. PICK u \in Threads : pc[u] \in Listening /\ Own(line[i], u)
      BY <2>2 DEF OwnInv
    <3> QED
      BY <2>2, <3>1, OthersStay DEF Own
  <2> QED
    BY <2>1, <2>2, <2>3, <2>4, OthersStay DEF OwnInv, Own
<1>5. CASE RefuseClosed(t) \/ ResetFails(t) \/ WriteFailed(t) \/ StopReading(t) \/ Verify(t)
  <2>1. PICK r, f : EndAttempt(t, r, f) /\ (r \in {"ok", "exception"} => Verify(t))
    BY <1>5 DEF RefuseClosed, ResetFails, WriteFailed, StopReading, Verify
  <2>2. /\ pc'[t] = "record" /\ call'[t] = call[t]
        /\ loc'[t].res = r /\ loc'[t].answer = f /\ loc'[t].resp = <<>> /\ rxBuf' = rxBuf
    BY <2>1, EndedStep
  <2>3. heard' = {} /\ line' = <<>>
    BY <2>1 DEF EndAttempt
  <2>4. r \in {"ok", "exception"} => f.req = call[t].req
    BY <2>1, VerifyOwn
  <2> QED
    BY <2>2, <2>3, <2>4, OthersStay DEF OwnInv, Own, Active, Listening
<1>6. CASE Phase1(t) \/ Phase2(t)
  <2>1. PICK n \in 1..Len(rxBuf), exc \in BOOLEAN : ReadCells(t, exc, n)
    <3>1. CASE Phase1(t)
      <4>1. PICK n \in 1..Len(rxBuf) : \E exc \in MsbSet(rxBuf[1]) : ReadCells(t, exc, n)
        BY <3>1 DEF Phase1
      <4>2. rxBuf[1] \in Cells
        BY <4>1 DEF IInv, TypeOK
      <4>3. MsbSet(rxBuf[1]) \subseteq BOOLEAN
        BY <4>2 DEF MsbSet, Cells, IntactCells, Frames
      <4> QED
        BY <4>1, <4>3
    <3>2. CASE Phase2(t)
      BY <1>0, <3>2 DEF Phase2, Locals
    <3> QED
      BY <1>6, <3>1, <3>2
  <2>2. /\ pc'[t] \in Reading /\ call'[t] = call[t] /\ UNCHANGED <<line, heard>>
        /\ \A i \in 1..Len(loc'[t].resp) :
             \/ \E j \in 1..Len(loc[t].resp) : loc'[t].resp[i] = loc[t].resp[j]
             \/ \E j \in 1..Len(rxBuf) : loc'[t].resp[i] = rxBuf[j]
        /\ \A i \in 1..Len(rxBuf') : \E j \in 1..Len(rxBuf) : rxBuf'[i] = rxBuf[j]
    BY <2>1, ReadStep
  <2>3. pc[t] \in Listening /\ pc'[t] \in Listening /\ pc'[t] \notin Decided
    BY <1>6, <2>2 DEF Phase1, Phase2, Listening, Reading, Decided
  <2>4. \A u \in Threads \ {t} : pc'[u] = pc[u] /\ pc[u] \notin Active
    BY <2>3, OthersStay, ActiveAlone
  <2>5. /\ \A i \in 1..Len(rxBuf) : Own(rxBuf[i], t)
        /\ \A i \in 1..Len(loc[t].resp) : Own(loc[t].resp[i], t)
    BY <2>3 DEF OwnInv, Active
  <2>6. \A i \in 1..Len(rxBuf') : rxBuf'[i] # Noise => rxBuf'[i].from.req = call[t].req
    BY <2>2, <2>5 DEF Own
  <2>7. \A i \in 1..Len(loc'[t].resp) :
          loc'[t].resp[i] # Noise => loc'[t].resp[i].from.req = call[t].req
    BY <2>2, <2>5 DEF Own
  <2>8. \A u \in Threads : pc[u] \in Listening => pc'[u] \in Listening /\ call'[u] = call[u]
    BY <2>2, <2>3, OthersStay
  <2>9. \A q \in heard' : \E u \in Threads : pc'[u] \in Listening /\ call'[u].req = q
    BY <2>2, <2>8 DEF OwnInv
  <2>10. ASSUME NEW i \in 1..Len(line')
         PROVE  \E u \in Threads :
                  /\ pc'[u] \in Listening
                  /\ line'[i] # Noise => line'[i].from.req = call'[u].req
    <3>1. PICK u \in Threads : pc[u] \in Listening /\ Own(line[i], u)
      BY <2>2 DEF OwnInv
    <3> QED
      BY <2>2, <2>8, <3>1 DEF Own
  <2>11. ASSUME NEW u \in Threads, pc'[u] \in Active, NEW i \in 1..Len(rxBuf')
         PROVE  rxBuf'[i] # Noise => rxBuf'[i].from.req = call'[u].req
    <3>1. u = t
      BY <2>4, <2>11
    <3> QED
      BY <2>2, <2>6, <3>1
  <2>12. ASSUME NEW u \in Threads, NEW i \in 1..Len(loc'[u].resp)
         PROVE  loc'[u].resp[i] # Noise => loc'[u].resp[i].from.req = call'[u].req
    <3>1. CASE u = t
      BY <2>2, <2>7, <2>12, <3>1
    <3>2. CASE u # t
      BY <2>12, <3>2, OthersStay DEF OwnInv, Own
    <3> QED
      BY <3>1, <3>2
  <2>13. ASSUME NEW u \in Threads, pc'[u] \in Decided, call'[u].kind = "send",
                loc'[u].res \in {"ok", "exception"}
         PROVE  loc'[u].answer.req = call'[u].req
    BY <2>3, <2>13, OthersStay DEF OwnInv
  <2> QED
    BY <2>9, <2>10, <2>11, <2>12, <2>13 DEF OwnInv, Own
<1>7. CASE AfterAttempt(t)
  <2>1. PICK l, r :
          /\ l \in {"returned", "lock"}
          /\ Record(t, l, r)
          /\ l = "returned" /\ r \in {"ok", "exception"} => loc[t].res = r
    BY <1>7 DEF AfterAttempt, Succeed, Retry, GiveUp
  <2>2. /\ pc[t] = "record" /\ pc'[t] = l /\ call'[t] = call[t] /\ loc'[t].res = r
        /\ loc'[t].answer = loc[t].answer /\ loc'[t].resp = loc[t].resp /\ UNCHANGED wireVars
    BY <1>0, <2>1 DEF Record, Goto, IInv, TypeOK, Locals
  <2> QED
    BY <2>1, <2>2, OthersStay DEF OwnInv, Own, Active, Listening, Decided, wireVars
<1> QED
  BY <1>2, <1>3, <1>4, <1>5, <1>6, <1>7 DEF Step, SendOnce

LEMMA OwnEnvironment == ASSUME IInv, OwnInv, Environment PROVE OwnInv'
<1>0. line \in Seq(Cells) /\ rxBuf \in Seq(Cells)
  BY DEF IInv, TypeOK
<1>1. UNCHANGED callVars
  BY DEF Environment, SlaveAnswers, Arrive, LoseCell
<1>2. CASE SlaveAnswers
  <2>1. PICK f \in Answers :
          /\ f.req \in heard /\ heard' = heard \ {f.req}
          /\ line' = [i \in 1..FrameCells(f) |-> Cell(f, i)]
          /\ rxBuf' = rxBuf
    BY <1>2 DEF SlaveAnswers
  <2>2. FrameCells(f) \in Nat
    BY DeviceAssumption, AnswerAssumption DEF FrameCells, Frames
  <2>3. \A i \in 1..Len(line') : line'[i].from = f
    BY <2>1, <2>2 DEF Cell
  <2>4. PICK t \in Threads : pc[t] \in Listening /\ call[t].req = f.req
    BY <2>1 DEF OwnInv
  <2> QED
    BY <1>1, <2>1, <2>3, <2>4 DEF OwnInv, Own, callVars
<1>3. CASE Arrive \/ LoseCell
  <2>1. line # <<>> /\ line' = Tail(line) /\ UNCHANGED heard
    BY <1>3 DEF Arrive, LoseCell
  <2>2. \A i \in 1..Len(line') : i + 1 \in 1..Len(line) /\ line'[i] = line[i + 1]
    BY <1>0, <2>1
  <2>3. rxBuf' = rxBuf \/ \E c \in {Head(line), Noise} : rxBuf' = Append(rxBuf, c)
    BY <1>3 DEF Arrive, LoseCell
  <2>4. Head(line) = line[1] /\ 1 \in 1..Len(line)
    BY <1>0, <2>1
  <2>5. \A i \in 1..Len(rxBuf') :
          \/ i \in 1..Len(rxBuf) /\ rxBuf'[i] = rxBuf[i]
          \/ rxBuf'[i] \in {line[1], Noise}
    BY <1>0, <2>3, <2>4
  <2>6. PICK u \in Threads : pc[u] \in Listening /\ Own(line[1], u)
    BY <2>4 DEF OwnInv
  <2>7. \A t \in Threads \ {u} : pc[t] \notin Active
    BY <2>6, ActiveAlone
  <2>8. ASSUME NEW t \in Threads, pc[t] \in Active, NEW i \in 1..Len(rxBuf')
        PROVE  rxBuf'[i] # Noise => rxBuf'[i].from.req = call[t].req
    BY <2>5, <2>6, <2>7, <2>8 DEF OwnInv, Own
  <2>9. ASSUME NEW i \in 1..Len(line')
        PROVE  \E t \in Threads : pc[t] \in Listening
                                  /\ (line'[i] # Noise => line'[i].from.req = call[t].req)
    BY <2>2 DEF OwnInv, Own
  <2> QED
    BY <1>1, <2>1, <2>8, <2>9 DEF OwnInv, Own, callVars
<1> QED
  BY <1>2, <1>3 DEF Environment

\* With slaves that answer in time or never, the frame a call returns, normal or exception,
\* answers its own request, whatever earlier attempts left in the input buffer.
THEOREM AnswersMatch ==
  ASSUME ~AnswersOutliveAttempt
  PROVE  Spec => []AnswerToThisRequest
<1>1. IInv /\ AckInv /\ OwnInv /\ [Next]_vars => AckInv' /\ OwnInv'
  <2>1. AckInv /\ OwnInv /\ UNCHANGED vars => AckInv' /\ OwnInv'
    BY DEF AckInv, WireInv, HeaderInv, AcceptedInv, EchoMismatch, OwnInv, Own, vars, callVars,
       wireVars
  <2> QED
    BY <2>1, AckThread, AckEnvironment, OwnThread, OwnEnvironment DEF Next
<1>2. OwnInv => AnswerToThisRequest
  BY DEF OwnInv, AnswerToThisRequest, Returned, Decided
<1> QED
  BY AckInit, OwnInit, <1>1, <1>2, Inductive, PTL DEF Spec

\* The slave whose answer a call accepts is the slave addressed, under the same condition:
\* late answers are the only way to the mix-up of main.go:406-408.
THEOREM NoLateAnswerNoMixUp ==
  ASSUME ~AnswersOutliveAttempt
  PROVE  Spec => []AnswerFromAddressedSlave
<1>1. AnswerToThisRequest => AnswerFromAddressedSlave
  BY DEF AnswerToThisRequest, AnswerFromAddressedSlave
<1> QED
  BY <1>1, AnswersMatch, PTL

-----------------------------------------------------------------------------
\* While a response grows it fits the buffer.
RespInv ==
  \A t \in Threads :
    pc[t] = "readRest" => Len(loc[t].resp) \in 1..call[t].req.cells

\* A request call has a request, whose answer has a length.
LEMMA SendCells ==
  ASSUME IInv, NEW t \in Threads, pc[t] # "idle", call[t].kind = "send"
  PROVE  call[t].req.cells \in Nat \ {0}
<1>1. call[t] \in Calls
  BY DEF IInv, CallInv
<1>2. call[t].req \in Requests
  BY <1>1 DEF Calls
<1> QED
  BY <1>2, DeviceAssumption

LEMMA RespThread ==
  ASSUME IInv, RespInv, NEW t \in Threads, Call(t) \/ Lock(t) \/ Step(t)
  PROVE  RespInv'
<1>0. /\ pc \in [Threads -> Labels] /\ loc \in [Threads -> Locals] /\ loc[t] \in Locals
      /\ rxBuf \in Seq(Cells)
  BY DEF IInv, TypeOK
<1>1. ASSUME pc'[t] = "readRest" PROVE Len(loc'[t].resp) \in 1..call'[t].req.cells
  <2>1. CASE Phase1(t) \/ Phase2(t)
    <3>1. PICK n \in 1..Len(rxBuf) : \E exc : ReadCells(t, exc, n)
      BY <2>1 DEF Phase1, Phase2
    <3> DEFINE got == loc[t].resp \o SubSeq(rxBuf, 1, n)
    <3>2. loc'[t].resp = got /\ call'[t] = call[t] /\ Len(got) <= call[t].req.cells
      BY <1>0, <3>1 DEF ReadCells, TakeCells, Locals
    <3>3. Len(SubSeq(rxBuf, 1, n)) = n /\ SubSeq(rxBuf, 1, n) \in Seq(Cells)
      BY <1>0
    <3>4. Len(got) = Len(loc[t].resp) + n /\ Len(loc[t].resp) \in Nat
      BY <1>0, <3>3 DEF Locals
    <3>5. call[t].req.cells \in Nat
      BY <2>1, SendCall DEF Phase1, Phase2, SendLabels
    <3> HIDE DEF got
    <3> QED
      BY <3>2, <3>4, <3>5
  <2>2. CASE RefuseClosed(t) \/ ResetFails(t) \/ WriteFailed(t) \/ StopReading(t) \/ Verify(t)
    <3>1. PICK r, f : EndAttempt(t, r, f)
      BY <2>2 DEF RefuseClosed, ResetFails, WriteFailed, StopReading, Verify
    <3> QED
      BY <1>0, <1>1, <3>1 DEF EndAttempt, Goto
  <2>3. CASE Lock(t)
    <3>1. call[t].kind \in {"send", "setRetry", "close"}
      BY <2>3 DEF Lock, IInv, CallInv, Calls
    <3> QED
      BY <1>0, <1>1, <2>3, <3>1 DEF Lock, Goto
  <2>4. CASE Call(t) \/ Return(t) \/ ResetInputBuffer(t) \/ WriteFrame(t) \/ WriteFails(t)
             \/ AfterAttempt(t)
    BY <1>0, <1>1, <2>4 DEF Call, Return, ResetInputBuffer, StartTX, WriteFrame, WriteFails,
       FailWrite, AfterAttempt, Succeed, Retry, GiveUp, Record, Goto
  <2>5. CASE EnableTX(t) \/ EnableRX(t) \/ SetRetryConfig(t) \/ Close(t)
    BY <1>0, <1>1, <2>5 DEF EnableTX, EnableRX, AfterEnableRX, CloseTransceiver, PinStep,
       SetRetryConfig, SetMaxRetries, Close, CloseAgain, BeginClose, ClosePort, PortClosed,
       CloseRpio, CloseLock, Unlock, Goto
  <2> QED
    BY <2>1, <2>2, <2>3, <2>4, <2>5 DEF Step, SendOnce
<1> QED
  BY <1>1, OthersStay DEF RespInv

\* The ranks of the labels, one by one.
LEMMA AttemptRanks ==
  ASSUME NEW n, NEW m
  PROVE  /\ AttemptSteps("lock", n, m) = n + 12
         /\ AttemptSteps("send", n, m) = n + 11
         /\ AttemptSteps("enableTX", n, m) = n + 10
         /\ AttemptSteps("raiseRE", n, m) = n + 9
         /\ AttemptSteps("write", n, m) = n + 8
         /\ AttemptSteps("enableRX", n, m) = n + 7
         /\ AttemptSteps("lowerDE", n, m) = n + 6
         /\ AttemptSteps("read", n, m) = n + 5
         /\ AttemptSteps("readRest", n, m) = n + 4 - m
         /\ AttemptSteps("verify", n, m) = 3
         /\ AttemptSteps("writeFailed", n, m) = 3
         /\ AttemptSteps("record", n, m) = 2
  BY DEF AttemptSteps

LEMMA OtherRanks ==
  /\ OtherSteps("lock") = 8 /\ OtherSteps("close") = 7 /\ OtherSteps("closeTransceiver") = 6
  /\ OtherSteps("closeDE") = 5 /\ OtherSteps("closePort") = 4 /\ OtherSteps("closeRpio") = 3
  /\ OtherSteps("closeLock") = 2 /\ OtherSteps("setRetry") = 2
  BY DEF OtherSteps

AttemptStepsLeft(t) == AttemptSteps(pc[t], call[t].req.cells, Len(loc[t].resp))

\* Inside an attempt the steps that are left become fewer.
LEMMA AttemptRunsDown ==
  ASSUME IInv, RespInv, NEW t \in Threads, call[t].kind = "send", Lock(t) \/ SendOnce(t)
  PROVE  /\ pc'[t] \in SendLabels
         /\ AttemptStepsLeft(t) \in Nat /\ AttemptStepsLeft(t)' \in 0..(AttemptStepsLeft(t) - 1)
<1> DEFINE n == call[t].req.cells
<1>0. /\ pc \in [Threads -> Labels] /\ loc \in [Threads -> Locals] /\ loc[t] \in Locals
      /\ rxBuf \in Seq(Cells)
  BY DEF IInv, TypeOK
<1>1. n \in Nat \ {0} /\ call'[t] = call[t]
  <2>1. pc[t] # "idle" /\ call'[t] = call[t]
    BY QuietStep
  <2> QED
    BY <2>1, SendCells
<1> DEFINE A(label) == AttemptSteps(label, n, Len(loc[t].resp))
           B(label) == AttemptSteps(label, n, Len(loc'[t].resp))
<1>a. AttemptStepsLeft(t) = A(pc[t]) /\ AttemptStepsLeft(t)' = B(pc'[t])
  BY <1>1 DEF AttemptStepsLeft
<1>b. /\ A("lock") = n + 12 /\ A("send") = n + 11 /\ A("enableTX") = n + 10
      /\ A("raiseRE") = n + 9 /\ A("write") = n + 8 /\ A("enableRX") = n + 7
      /\ A("lowerDE") = n + 6 /\ A("read") = n + 5
      /\ A("readRest") = n + 4 - Len(loc[t].resp)
      /\ A("verify") = 3 /\ A("writeFailed") = 3 /\ A("record") = 2
  BY AttemptRanks
<1>c. /\ B("send") = n + 11 /\ B("enableTX") = n + 10
      /\ B("raiseRE") = n + 9 /\ B("write") = n + 8 /\ B("enableRX") = n + 7
      /\ B("lowerDE") = n + 6 /\ B("read") = n + 5
      /\ B("readRest") = n + 4 - Len(loc'[t].resp)
      /\ B("verify") = 3 /\ B("writeFailed") = 3 /\ B("record") = 2
  BY AttemptRanks
<1>d. pc[t] = "readRest" => Len(loc[t].resp) \in 1..n
  BY DEF RespInv
<1> HIDE DEF n, A, B
<1>2. CASE Lock(t)
  <2>1. pc[t] = "lock" /\ pc'[t] = "send"
    BY <1>0, <1>2 DEF Lock, Goto
  <2> QED
    BY <1>1, <1>a, <1>b, <1>c, <2>1 DEF SendLabels
<1>3. CASE RefuseClosed(t) \/ ResetFails(t) \/ WriteFailed(t) \/ StopReading(t) \/ Verify(t)
  <2>1. PICK r, f : EndAttempt(t, r, f)
    BY <1>3 DEF RefuseClosed, ResetFails, WriteFailed, StopReading, Verify
  <2>2. pc[t] \in {"send", "writeFailed", "read", "readRest", "verify"}
    BY <1>3 DEF RefuseClosed, ResetFails, WriteFailed, StopReading, Verify
  <2>3. pc'[t] = "record"
    BY <1>0, <2>1 DEF EndAttempt, Goto
  <2>4. AttemptStepsLeft(t)' = 2
    BY <1>a, <1>c, <2>3
  <2>5. AttemptStepsLeft(t) \in Nat /\ AttemptStepsLeft(t) > 2
    <3>1. CASE pc[t] = "readRest"
      <4>1. AttemptStepsLeft(t) = n + 4 - Len(loc[t].resp)
        BY <1>a, <1>b, <3>1
      <4>2. \A m \in 1..n : n + 4 - m \in Nat /\ n + 4 - m > 2
        BY <1>1
      <4> QED
        BY <1>d, <3>1, <4>1, <4>2
    <3>2. CASE pc[t] \in {"send", "read"}
      BY <1>1, <1>a, <1>b, <3>2
    <3>3. CASE pc[t] \in {"writeFailed", "verify"}
      BY <1>1, <1>a, <1>b, <3>3
    <3> QED
      BY <2>2, <3>1, <3>2, <3>3
  <2> QED
    BY <2>3, <2>4, <2>5 DEF SendLabels
<1>4. CASE ResetInputBuffer(t) \/ WriteFrame(t) \/ WriteFails(t)
  <2>1. \/ pc[t] = "send" /\ pc'[t] = "enableTX"
        \/ pc[t] = "write" /\ pc'[t] = "enableRX"
    BY <1>0, <1>4 DEF ResetInputBuffer, StartTX, WriteFrame, WriteFails, FailWrite, Goto
  <2>2. CASE pc[t] = "send" /\ pc'[t] = "enableTX"
    <3>1. AttemptStepsLeft(t) = n + 11 /\ AttemptStepsLeft(t)' = n + 10
      BY <1>a, <1>b, <1>c, <2>2
    <3> QED
      BY <1>1, <2>2, <3>1 DEF SendLabels
  <2>3. CASE pc[t] = "write" /\ pc'[t] = "enableRX"
    <3>1. AttemptStepsLeft(t) = n + 8 /\ AttemptStepsLeft(t)' = n + 7
      BY <1>a, <1>b, <1>c, <2>3
    <3> QED
      BY <1>1, <2>3, <3>1 DEF SendLabels
  <2> QED
    BY <2>1, <2>2, <2>3
<1>5. CASE EnableTX(t)
  <2>1. \/ pc[t] = "enableTX" /\ pc'[t] \in {"raiseRE", "write"}
        \/ pc[t] = "raiseRE" /\ pc'[t] = "write"
    BY <1>0, <1>5 DEF EnableTX, PinStep, Goto
  <2> QED
    BY <1>1, <1>a, <1>b, <1>c, <2>1 DEF SendLabels
<1>6. CASE EnableRX(t)
  <2>1. \/ pc[t] = "enableRX" /\ pc'[t] \in {"lowerDE", "read", "writeFailed"}
        \/ pc[t] = "lowerDE" /\ pc'[t] \in {"read", "writeFailed"}
    BY <1>0, <1>6 DEF EnableRX, AfterEnableRX, PinStep, Goto
  <2> QED
    BY <1>1, <1>a, <1>b, <1>c, <2>1 DEF SendLabels
<1>7. CASE Phase1(t) \/ Phase2(t)
  <2>1. PICK k \in 1..Len(rxBuf) : \E exc : ReadCells(t, exc, k)
    BY <1>7 DEF Phase1, Phase2
  <2> DEFINE old == loc[t].resp
             got == old \o SubSeq(rxBuf, 1, k)
  <2>2. /\ loc'[t].resp = got /\ pc'[t] \in {"verify", "readRest"} /\ Len(got) <= n
    BY <1>0, <2>1 DEF ReadCells, TakeCells, Goto, Locals, n
  <2>3. Len(SubSeq(rxBuf, 1, k)) = k /\ SubSeq(rxBuf, 1, k) \in Seq(Cells)
    BY <1>0
  <2>4. Len(got) = Len(old) + k /\ Len(old) \in Nat
    BY <1>0, <2>3 DEF Locals
  <2> HIDE DEF got
  <2>5. Len(got) > Len(old) /\ Len(got) \in 1..n
    BY <1>1, <2>2, <2>4
  <2>6. AttemptStepsLeft(t)' = IF pc'[t] = "verify" THEN 3 ELSE n + 4 - Len(got)
    BY <1>a, <1>c, <2>2
  <2>7. AttemptStepsLeft(t) = IF pc[t] = "read" THEN n + 5 ELSE n + 4 - Len(old)
    BY <1>7, <1>a, <1>b DEF Phase1, Phase2
  <2>8. pc[t] \in {"read", "readRest"}
    BY <1>7 DEF Phase1, Phase2
  <2>9. pc[t] = "readRest" => Len(old) \in 1..n
    BY <1>d
  <2> HIDE DEF old
  <2> QED
    BY <1>1, <2>2, <2>4, <2>5, <2>6, <2>7, <2>9 DEF SendLabels
<1> QED
  BY <1>2, <1>3, <1>4, <1>5, <1>6, <1>7 DEF SendOnce

\* sendOnce runs for requests.
LEMMA SendOnceSends ==
  ASSUME IInv, NEW t \in Threads, SendOnce(t)
  PROVE  pc[t] \in SendLabels /\ call[t].kind = "send"
<1>1. pc[t] \in SendLabels
  BY DEF SendOnce, SendLabels, RefuseClosed, ResetInputBuffer, ResetFails, StartTX, EnableTX,
     EnableRX, PinStep, WriteFrame, WriteFails, FailWrite, WriteFailed, Phase1, Phase2,
     StopReading, Verify
<1> QED
  BY <1>1 DEF IInv, CallInv

\* A retry spends one of the attempts that are left.
LEMMA AttemptsSpent ==
  ASSUME NEW n \in Nat, NEW k \in Nat \ {0}
  PROVE  /\ (n + 13) * (k - 1) \in Nat
         /\ k > 1 => (n + 13) * (k - 1) = (n + 13) * (k - 1 - 1) + (n + 13)
  OBVIOUS

LEMMA CallRunsDown ==
  ASSUME IInv, RetryInv, RespInv, NEW t \in Threads, Lock(t) \/ Step(t)
  PROVE  StepsLeft(t)' \in 0..(StepsLeft(t) - 1)
<1> DEFINE n == call[t].req.cells
           k == AttemptsLeft(t)
<1>0. pc \in [Threads -> Labels] /\ loc \in [Threads -> Locals] /\ loc[t] \in Locals
  BY DEF IInv, TypeOK
<1>1. loc[t].maxAttempts \in Nat /\ Len(loc[t].attempts) \in Nat
  BY <1>0 DEF Locals
<1>2. CASE Return(t)
  BY <1>0, <1>2 DEF Return, Goto, StepsLeft
<1>3. CASE call[t].kind = "send" /\ (Lock(t) \/ SendOnce(t))
  <2>1. /\ pc[t] \notin {"idle", "returned"} /\ call'[t] = call[t]
        /\ loc'[t].attempts = loc[t].attempts /\ loc'[t].maxAttempts = loc[t].maxAttempts
    BY <1>3, QuietStep
  <2>2. /\ pc'[t] \in SendLabels
        /\ AttemptStepsLeft(t) \in Nat /\ AttemptStepsLeft(t)' \in 0..(AttemptStepsLeft(t) - 1)
    BY <1>3, AttemptRunsDown
  <2>3. n \in Nat /\ k \in Nat \ {0}
    BY <1>1, <1>3, <2>1, SendCells DEF RetryInv, AttemptsLeft
  <2> DEFINE rest == (n + 13) * (k - 1)
  <2>4. rest \in Nat
    BY <2>3, AttemptsSpent
  <2>5. StepsLeft(t) = AttemptStepsLeft(t) + rest
    BY <1>3, <2>1 DEF StepsLeft, AttemptStepsLeft
  <2>6. StepsLeft(t)' = AttemptStepsLeft(t)' + rest
    BY <1>3, <2>1, <2>2 DEF StepsLeft, AttemptStepsLeft, AttemptsLeft, SendLabels
  <2> HIDE DEF rest
  <2> QED
    BY <2>2, <2>4, <2>5, <2>6
<1>4. CASE AfterAttempt(t)
  <2>1. pc[t] = "record" /\ call'[t] = call[t] /\ call[t].kind = "send"
        /\ pc'[t] \in {"lock", "returned"}
    BY <1>0, <1>4 DEF AfterAttempt, Succeed, Retry, GiveUp, Record, Goto, IInv, CallInv, SendLabels
  <2>2. n \in Nat /\ k \in Nat \ {0}
    BY <1>1, <2>1, SendCells DEF RetryInv, AttemptsLeft
  <2>3. StepsLeft(t) = 2 + (n + 13) * (k - 1)
    BY <2>1, AttemptRanks DEF StepsLeft
  <2>4. CASE pc'[t] = "returned"
    <3>1. StepsLeft(t)' = 1
      BY <2>4 DEF StepsLeft
    <3> HIDE DEF n, k
    <3> QED
      BY <2>2, <2>3, <3>1, AttemptsSpent
  <2>5. CASE pc'[t] = "lock"
    <3>1. PICK r : Record(t, "lock", r) /\ MayRetry(t)
      BY <1>0, <1>4, <2>5 DEF AfterAttempt, Succeed, Retry, GiveUp, Record, Goto
    <3>2. /\ loc'[t].attempts = Append(loc[t].attempts, loc[t].res)
          /\ loc'[t].maxAttempts = loc[t].maxAttempts
      BY <1>0, <3>1 DEF Record, Locals
    <3>3. loc[t].attempts \in Seq(Outcomes) /\ loc[t].res \in Outcomes
      BY <1>0, <2>1 DEF Locals, IInv, CallInv
    <3>4. Len(loc'[t].attempts) = Len(loc[t].attempts) + 1
      BY <3>2, <3>3
    <3>5. AttemptsLeft(t)' = k - 1 /\ k > 1
      BY <1>1, <3>1, <3>2, <3>4 DEF AttemptsLeft, MayRetry
    <3>6. StepsLeft(t)' = n + 12 + (n + 13) * (k - 1 - 1)
      BY <2>1, <2>5, <3>5, AttemptRanks DEF StepsLeft
    <3>7. k - 1 \in Nat \ {0}
      BY <2>2, <3>5
    <3> HIDE DEF n, k
    <3>8. /\ (n + 13) * (k - 1) = (n + 13) * (k - 1 - 1) + (n + 13)
          /\ (n + 13) * (k - 1 - 1) \in Nat
      BY <2>2, <3>5, <3>7, AttemptsSpent
    <3> DEFINE p == (n + 13) * (k - 1)
               q == (n + 13) * (k - 1 - 1)
    <3>9. p = q + n + 13 /\ q \in Nat /\ StepsLeft(t) = 2 + p /\ StepsLeft(t)' = n + 12 + q
      BY <2>2, <2>3, <3>6, <3>8
    <3> HIDE DEF p, q
    <3> QED
      BY <2>2, <3>9
  <2> QED
    BY <2>1, <2>4, <2>5
<1>5. CASE SetRetryConfig(t) \/ Close(t) \/ (Lock(t) /\ call[t].kind # "send")
  <2>1. pc[t] \notin {"idle", "returned"} /\ pc'[t] # "idle" /\ call'[t] = call[t]
    BY <1>5, QuietStep
  <2>2. call[t].kind \in {"setRetry", "close"}
    BY <1>5, <2>1 DEF Lock, IInv, CallInv, Calls, SetRetryConfig, SetMaxRetries, Close,
       CloseLabels, CloseAgain, BeginClose, CloseTransceiver, PinStep, ClosePort, PortClosed,
       CloseRpio, CloseLock
  <2>3. \/ pc[t] = "lock" /\ pc'[t] \in {"setRetry", "close"}
        \/ pc[t] \in {"setRetry", "close", "closeLock"} /\ pc'[t] = "returned"
        \/ pc[t] = "close" /\ pc'[t] = "closeTransceiver"
        \/ pc[t] = "closeTransceiver" /\ pc'[t] \in {"closeDE", "closePort"}
        \/ pc[t] = "closeDE" /\ pc'[t] = "closePort"
        \/ pc[t] = "closePort" /\ pc'[t] = "closeRpio"
        \/ pc[t] = "closeRpio" /\ pc'[t] = "closeLock"
    BY <1>0, <1>5, <2>2 DEF Lock, SetRetryConfig, SetMaxRetries, Close, CloseAgain, BeginClose,
       CloseTransceiver, PinStep, ClosePort, PortClosed, CloseRpio, CloseLock, Unlock, Goto
  <2> QED
    BY <2>1, <2>2, <2>3, OtherRanks DEF StepsLeft
<1> QED
  BY <1>2, <1>3, <1>4, <1>5, SendOnceSends DEF Step

\* main.go:359-376, 460-501: every step of a call brings its return nearer, whatever the
\* slaves, the wire and the other threads do; no fairness is needed for this.
THEOREM CallsTerminate == Spec => CallsRunDown
<1>1. Init => RespInv
  BY DEF Init, RespInv
<1>2. IInv /\ RespInv /\ [Next]_vars => RespInv'
  <2>1. RespInv /\ (Environment \/ UNCHANGED vars) => RespInv'
    BY DEF RespInv, Environment, SlaveAnswers, Arrive, LoseCell, vars, callVars
  <2> QED
    BY <2>1, RespThread DEF Next
<1>3. IInv /\ RetryInv /\ [Next]_vars => RetryInv'
  BY RetryThread, RetryElse DEF Next
<1>4. ASSUME IInv, RetryInv, RespInv, [Next]_vars, NEW t \in Threads, pc[t] # "idle"
      PROVE  \/ UNCHANGED <<pc[t], call[t], loc[t]>>
             \/ StepsLeft(t)' \in 0..(StepsLeft(t) - 1)
  <2>1. CASE Environment \/ UNCHANGED vars
    BY <2>1 DEF Environment, SlaveAnswers, Arrive, LoseCell, vars, callVars
  <2>2. ASSUME NEW u \in Threads, Call(u) \/ Lock(u) \/ Step(u)
        PROVE  \/ UNCHANGED <<pc[t], call[t], loc[t]>>
               \/ StepsLeft(t)' \in 0..(StepsLeft(t) - 1)
    <3>1. CASE u = t
      BY <1>4, <2>2, <3>1, CallRunsDown DEF Call
    <3>2. CASE u # t
      BY <1>4, <2>2, <3>2, OthersStay
    <3> QED
      BY <3>1, <3>2
  <2> QED
    BY <1>4, <2>1, <2>2 DEF Next
<1>5. IInv /\ RetryInv /\ RespInv /\ [Next]_vars
        => [\A t \in Threads : pc[t] # "idle" =>
              \/ UNCHANGED <<pc[t], call[t], loc[t]>>
              \/ StepsLeft(t)' \in 0..(StepsLeft(t) - 1)]_vars
  BY <1>4
<1> QED
  BY RetryInit, <1>1, <1>2, <1>3, <1>5, Inductive, PTL DEF Spec, CallsRunDown
=============================================================================
