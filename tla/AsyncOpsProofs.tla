--------------------------- MODULE AsyncOpsProofs ---------------------------
(***************************************************************************)
(* Theorems of AsyncOps, for every number of calls, devices, workers and   *)
(* retries: the types, that a closed device is off the bus, and that no    *)
(* open device is lost.                                                    *)
(***************************************************************************)
EXTENDS AsyncOps, TLAPS

-----------------------------------------------------------------------------
Kinds == {"none", "new", "bus", "close"}
Stages == {"free", "queued", "running", "locked", "bus", "executed"}
Outcomes == {"none", "ok", "failed", "exception"}
Op == [kind : Kinds, dev : Devices \cup {NoDevice}, stage : Stages,
       left : 0..RetryLimit, outcome : Outcomes]

\* A work is in the queue at most once and has not begun; what runs has no outcome yet.
QueueInv ==
  /\ \A k \in 1..Len(queue) : op[queue[k]].stage = "queued"
  /\ \A k, l \in 1..Len(queue) : queue[k] = queue[l] => k = l
  /\ \A i \in Ops :
       /\ op[i].stage = "free" => op[i] = Unused
       /\ op[i].stage # "free" => op[i].dev \in Devices
       /\ op[i].stage \in {"queued", "running", "locked", "bus"} => op[i].outcome = "none"

\* Whoever is past Lock has the mutex, and the device it transmits on is open.
BusInv ==
  \A i \in Ops :
    /\ op[i].stage \in {"locked", "bus"} => mu = i
    /\ op[i].stage = "bus" => op[i].kind = "bus" /\ opened[op[i].dev]

\* An opening is the only call of its device, and knows whether that is open; the other
\* calls belong to a device the program was given.
OwnerInv ==
  /\ \A i \in Ops :
       /\ op[i].kind = "new" =>
            /\ js[op[i].dev] = "opening"
            /\ opened[op[i].dev] <=> op[i].outcome = "ok"
       /\ op[i].kind \in {"bus", "close"} =>
            js[op[i].dev] \in {"held", "dropped", "finalized"}
  /\ \A i, j \in Ops :
       op[i].kind = "new" /\ op[j].kind = "new" /\ op[i].dev = op[j].dev => i = j

\* What the program has of a device agrees with what there is.
DeviceInv ==
  /\ \A d \in Devices :
       /\ js[d] = "opening" => \E i \in Ops : op[i].kind = "new" /\ op[i].dev = d
       /\ js[d] \in {"none", "finalized"} => ~opened[d]
  /\ main.at # "idle" => main.dev \in Devices
  /\ main.at = "finalize" => js[main.dev] = "dropped"

IInv == TypeOK /\ QueueInv /\ BusInv /\ OwnerInv /\ DeviceInv

-----------------------------------------------------------------------------
LEMMA InitIInv == Init => IInv
  BY AsyncAssumption DEF Init, IInv, TypeOK, QueueInv, BusInv, OwnerInv, DeviceInv, Unused

\* An op that goes on: another stage, other retries left, another outcome.
LEMMA OpType ==
  ASSUME op \in [Ops -> Op], NEW i \in Ops, NEW s \in Stages,
         NEW n \in 0..RetryLimit, NEW r \in Outcomes
  PROVE  [op EXCEPT ![i].stage = s, ![i].left = n, ![i].outcome = r] \in [Ops -> Op]
  BY DEF Op

\* A call that is queued.
LEMMA QueueType ==
  ASSUME IInv, NEW i \in Ops, NEW kind \in Kinds, NEW d \in Devices, QueueAsyncOp(i, kind, d)
  PROVE  op' \in [Ops -> Op] /\ queue' \in Seq(Ops)
<1>1. op \in [Ops -> Op] /\ queue \in Seq(Ops)
  BY DEF IInv, TypeOK, Op, Kinds, Stages, Outcomes
<1>2. [Unused EXCEPT !.kind = kind, !.dev = d, !.stage = "queued"] \in Op
  <2>1. 0 \in 0..RetryLimit
    BY AsyncAssumption
  <2>2. Unused \in Op
    BY <2>1 DEF Unused, Op, Stages, Kinds, Outcomes
  <2> QED
    BY <2>2 DEF Op, Stages
<1> QED
  BY <1>1, <1>2 DEF QueueAsyncOp

\* The first work of the queue is one that has not begun, and is no other work there.
LEMMA HeadOfQueue ==
  ASSUME IInv, queue # <<>>
  PROVE  /\ Head(queue) \in Ops /\ op[Head(queue)].stage = "queued"
         /\ Tail(queue) \in Seq(Ops) /\ Len(Tail(queue)) = Len(queue) - 1
         /\ \A k \in 1..Len(Tail(queue)) :
              Tail(queue)[k] = queue[k + 1] /\ Tail(queue)[k] # Head(queue)
<1>1. queue \in Seq(Ops) /\ Len(queue) \in Nat \ {0} /\ Head(queue) = queue[1]
  BY DEF IInv, TypeOK
<1>2. /\ Tail(queue) \in Seq(Ops) /\ Len(Tail(queue)) = Len(queue) - 1
      /\ \A k \in 1..Len(Tail(queue)) : Tail(queue)[k] = queue[k + 1]
  BY <1>1
<1>3. \A k \in 1..Len(Tail(queue)) : k + 1 \in 1..Len(queue) /\ k + 1 # 1
  BY <1>1, <1>2
<1>4. \A k, l \in 1..Len(queue) : queue[k] = queue[l] => k = l
  BY DEF IInv, QueueInv
<1>5. 1 \in 1..Len(queue)
  BY <1>1
<1> QED
  BY <1>1, <1>2, <1>3, <1>4, <1>5 DEF IInv, QueueInv

\* A work that begins has a number of retries, and its other parts stay.
LEMMA BegunWork ==
  ASSUME StartWork
  PROVE  \E n \in 0..RetryLimit :
           op' = [op EXCEPT ![Head(queue)].stage = "running", ![Head(queue)].left = n]
<1>1. \A n \in Retries(op[Head(queue)].kind) : n \in 0..RetryLimit
  BY AsyncAssumption DEF Retries
<1> QED
  BY <1>1 DEF StartWork

-----------------------------------------------------------------------------
\* The JavaScript thread: calls of the program, setters and finalizers.
LEMMA ProgramStep ==
  ASSUME IInv, RunSet \/ RunFinalize \/ \E d \in Devices : Program(d)
  PROVE  IInv'
<1> USE AsyncAssumption DEF MainIdle, Unused
<1>1. ASSUME NEW i \in Ops, NEW d \in Devices, Open(i, d) PROVE IInv'
  <2>1. TypeOK'
    <3>1. op' \in [Ops -> Op] /\ queue' \in Seq(Ops)
      BY <1>1, QueueType DEF Open, Kinds
    <3> QED
      BY <1>1, <3>1 DEF IInv, TypeOK, Op, Kinds, Stages, Outcomes, Open
  <2>2. QueueInv'
    BY <1>1 DEF IInv, TypeOK, QueueInv, Open, QueueAsyncOp
  <2>3. BusInv'
    BY <1>1 DEF IInv, TypeOK, QueueInv, BusInv, Open, QueueAsyncOp
  <2>4. OwnerInv'
    BY <1>1 DEF IInv, TypeOK, QueueInv, OwnerInv, DeviceInv, BusInv, Open, QueueAsyncOp
  <2>5. DeviceInv'
    BY <1>1 DEF IInv, TypeOK, QueueInv, OwnerInv, DeviceInv, Open, QueueAsyncOp
  <2> QED
    BY <2>1, <2>2, <2>3, <2>4, <2>5 DEF IInv
<1>2. ASSUME NEW i \in Ops, NEW d \in Devices, Call(i, d) PROVE IInv'
  <2>1. TypeOK'
    <3>1. op' \in [Ops -> Op] /\ queue' \in Seq(Ops)
      BY <1>2, QueueType DEF Call, Kinds
    <3> QED
      BY <1>2, <3>1 DEF IInv, TypeOK, Op, Kinds, Stages, Outcomes, Call
  <2>2. QueueInv'
    BY <1>2 DEF IInv, TypeOK, QueueInv, Call, AssertOpen, QueueAsyncOp
  <2>3. BusInv'
    BY <1>2 DEF IInv, TypeOK, QueueInv, BusInv, Call, AssertOpen, QueueAsyncOp
  <2>4. OwnerInv'
    BY <1>2 DEF IInv, TypeOK, QueueInv, OwnerInv, DeviceInv, BusInv, Call, AssertOpen,
       QueueAsyncOp
  <2>5. DeviceInv'
    BY <1>2 DEF IInv, TypeOK, QueueInv, OwnerInv, DeviceInv, Call, AssertOpen,
       QueueAsyncOp
  <2> QED
    BY <2>1, <2>2, <2>3, <2>4, <2>5 DEF IInv
<1>3. ASSUME NEW i \in Ops, NEW d \in Devices, Close(i, d) PROVE IInv'
  <2>1. TypeOK'
    <3>1. op' \in [Ops -> Op] /\ queue' \in Seq(Ops)
      BY <1>3, QueueType DEF Close, Kinds
    <3> QED
      BY <1>3, <3>1 DEF IInv, TypeOK, Op, Kinds, Stages, Outcomes, Close
  <2>2. QueueInv'
    BY <1>3 DEF IInv, TypeOK, QueueInv, Close, AssertOpen, QueueAsyncOp
  <2>3. BusInv'
    BY <1>3 DEF IInv, TypeOK, QueueInv, BusInv, Close, AssertOpen, QueueAsyncOp
  <2>4. OwnerInv'
    BY <1>3 DEF IInv, TypeOK, QueueInv, OwnerInv, DeviceInv, BusInv, Close, AssertOpen,
       QueueAsyncOp
  <2>5. DeviceInv'
    BY <1>3 DEF IInv, TypeOK, QueueInv, OwnerInv, DeviceInv, Close, AssertOpen,
       QueueAsyncOp
  <2> QED
    BY <2>1, <2>2, <2>3, <2>4, <2>5 DEF IInv
<1>4. ASSUME NEW d \in Devices, CloseThrows(d) PROVE IInv'
  <2>1. TypeOK'
    BY <1>4 DEF IInv, TypeOK, QueueInv, CloseThrows, AssertOpen
  <2>2. QueueInv'
    BY <1>4 DEF IInv, TypeOK, QueueInv, CloseThrows, AssertOpen
  <2>3. BusInv'
    BY <1>4 DEF IInv, TypeOK, QueueInv, BusInv, CloseThrows, AssertOpen
  <2>4. OwnerInv'
    BY <1>4 DEF IInv, TypeOK, QueueInv, OwnerInv, DeviceInv, BusInv, CloseThrows,
       AssertOpen
  <2>5. DeviceInv'
    BY <1>4 DEF IInv, TypeOK, QueueInv, OwnerInv, DeviceInv, CloseThrows, AssertOpen
  <2> QED
    BY <2>1, <2>2, <2>3, <2>4, <2>5 DEF IInv
<1>5. ASSUME NEW d \in Devices, Set(d) PROVE IInv'
  <2>1. TypeOK'
    BY <1>5 DEF IInv, TypeOK, QueueInv, Set, AssertOpen
  <2>2. QueueInv'
    BY <1>5 DEF IInv, TypeOK, QueueInv, Set, AssertOpen
  <2>3. BusInv'
    BY <1>5 DEF IInv, TypeOK, QueueInv, BusInv, Set, AssertOpen
  <2>4. OwnerInv'
    BY <1>5 DEF IInv, TypeOK, QueueInv, OwnerInv, DeviceInv, BusInv, Set, AssertOpen
  <2>5. DeviceInv'
    BY <1>5 DEF IInv, TypeOK, QueueInv, OwnerInv, DeviceInv, Set, AssertOpen
  <2> QED
    BY <2>1, <2>2, <2>3, <2>4, <2>5 DEF IInv
<1>6. ASSUME NEW d \in Devices, Drop(d) PROVE IInv'
  <2>1. TypeOK'
    BY <1>6 DEF IInv, TypeOK, QueueInv, Drop
  <2>2. QueueInv'
    BY <1>6 DEF IInv, TypeOK, QueueInv, Drop
  <2>3. BusInv'
    BY <1>6 DEF IInv, TypeOK, QueueInv, BusInv, Drop
  <2>4. OwnerInv'
    BY <1>6 DEF IInv, TypeOK, QueueInv, OwnerInv, DeviceInv, BusInv, Drop
  <2>5. DeviceInv'
    BY <1>6 DEF IInv, TypeOK, QueueInv, OwnerInv, DeviceInv, Drop
  <2> QED
    BY <2>1, <2>2, <2>3, <2>4, <2>5 DEF IInv
<1>7. ASSUME NEW d \in Devices, Finalize(d) PROVE IInv'
  <2>1. TypeOK'
    BY <1>7 DEF IInv, TypeOK, QueueInv, Finalize
  <2>2. QueueInv'
    BY <1>7 DEF IInv, TypeOK, QueueInv, Finalize
  <2>3. BusInv'
    BY <1>7 DEF IInv, TypeOK, QueueInv, BusInv, Finalize
  <2>4. OwnerInv'
    BY <1>7 DEF IInv, TypeOK, QueueInv, OwnerInv, DeviceInv, BusInv, Finalize
  <2>5. DeviceInv'
    BY <1>7 DEF IInv, TypeOK, QueueInv, OwnerInv, DeviceInv, Finalize
  <2> QED
    BY <2>1, <2>2, <2>3, <2>4, <2>5 DEF IInv
<1>8. ASSUME NEW d \in Devices, Reuse(d) PROVE IInv'
  <2>1. TypeOK'
    BY <1>8 DEF IInv, TypeOK, QueueInv, Reuse
  <2>2. QueueInv'
    BY <1>8 DEF IInv, TypeOK, QueueInv, Reuse
  <2>3. BusInv'
    BY <1>8 DEF IInv, TypeOK, QueueInv, BusInv, Reuse
  <2>4. OwnerInv'
    BY <1>8 DEF IInv, TypeOK, QueueInv, OwnerInv, DeviceInv, BusInv, Reuse
  <2>5. DeviceInv'
    BY <1>8 DEF IInv, TypeOK, QueueInv, OwnerInv, DeviceInv, Reuse
  <2> QED
    BY <2>1, <2>2, <2>3, <2>4, <2>5 DEF IInv
<1>9. ASSUME RunSet PROVE IInv'
  <2>1. TypeOK'
    BY <1>9 DEF IInv, TypeOK, QueueInv, RunSet
  <2>2. QueueInv'
    BY <1>9 DEF IInv, TypeOK, QueueInv, RunSet
  <2>3. BusInv'
    BY <1>9 DEF IInv, TypeOK, QueueInv, BusInv, RunSet
  <2>4. OwnerInv'
    BY <1>9 DEF IInv, TypeOK, QueueInv, OwnerInv, DeviceInv, BusInv, RunSet
  <2>5. DeviceInv'
    BY <1>9 DEF IInv, TypeOK, QueueInv, OwnerInv, DeviceInv, RunSet
  <2> QED
    BY <2>1, <2>2, <2>3, <2>4, <2>5 DEF IInv
<1>10. ASSUME RunFinalize PROVE IInv'
  <2>1. TypeOK'
    BY <1>10 DEF IInv, TypeOK, QueueInv, RunFinalize
  <2>2. QueueInv'
    BY <1>10 DEF IInv, TypeOK, QueueInv, RunFinalize
  <2>3. BusInv'
    BY <1>10 DEF IInv, TypeOK, QueueInv, BusInv, RunFinalize
  <2>4. OwnerInv'
    BY <1>10 DEF IInv, TypeOK, QueueInv, OwnerInv, DeviceInv, BusInv, RunFinalize
  <2>5. DeviceInv'
    BY <1>10 DEF IInv, TypeOK, QueueInv, OwnerInv, DeviceInv, RunFinalize
  <2> QED
    BY <2>1, <2>2, <2>3, <2>4, <2>5 DEF IInv
<1> QED
  BY <1>1, <1>2, <1>3, <1>4, <1>5, <1>6, <1>7, <1>8, <1>9, <1>10 DEF Program

-----------------------------------------------------------------------------
\* A worker.
LEMMA WorkerStep ==
  ASSUME IInv, StartWork \/ \E i \in Ops : Lock(i) \/ Execute(i) \/ Complete(i)
  PROVE  IInv'
<1> USE AsyncAssumption DEF MainIdle, Unused
<1>1. ASSUME StartWork PROVE IInv'
  <2>1. TypeOK'
    <3>1. op' \in [Ops -> Op]
      <4>1. op \in [Ops -> Op] /\ Head(queue) \in Ops
        BY <1>1, HeadOfQueue DEF StartWork, IInv, TypeOK, Op, Kinds, Stages, Outcomes
      <4>2. PICK n \in 0..RetryLimit :
              op' = [op EXCEPT ![Head(queue)].stage = "running", ![Head(queue)].left = n]
        BY <1>1, BegunWork
      <4> QED
        BY <4>1, <4>2 DEF Op, Stages
    <3>2. queue' \in Seq(Ops)
      BY <1>1, HeadOfQueue DEF StartWork
    <3> QED
      BY <1>1, <3>1, <3>2 DEF IInv, TypeOK, Op, Kinds, Stages, Outcomes, StartWork
  <2>2. QueueInv'
    <3>1. PICK n \in 0..RetryLimit :
            /\ op' = [op EXCEPT ![Head(queue)].stage = "running", ![Head(queue)].left = n]
            /\ queue' = Tail(queue)
      BY <1>1, BegunWork DEF StartWork
    <3>2. \A k \in 1..Len(queue') : k + 1 \in 1..Len(queue) /\ queue'[k] = queue[k + 1]
      <4>1. Len(queue) \in Nat
        BY DEF IInv, TypeOK
      <4> QED
        BY <1>1, <3>1, <4>1, HeadOfQueue DEF StartWork
    <3>3. \A k \in 1..Len(queue') : op'[queue'[k]].stage = "queued"
      <4>1. \A k \in 1..Len(queue) : queue[k] \in Ops
        BY DEF IInv, TypeOK
      <4>2. \A k \in 1..Len(queue') : queue'[k] \in Ops \ {Head(queue)}
        BY <1>1, <3>1, <3>2, <4>1, HeadOfQueue DEF StartWork
      <4>3. \A i \in Ops \ {Head(queue)} : op'[i] = op[i]
        BY <3>1 DEF IInv, TypeOK
      <4> QED
        BY <3>2, <4>2, <4>3 DEF IInv, QueueInv
    <3>4. \A k, l \in 1..Len(queue') : queue'[k] = queue'[l] => k = l
      <4>1. \A k, l \in 1..Len(queue') : k + 1 = l + 1 => k = l
        OBVIOUS
      <4> QED
        BY <3>2, <4>1 DEF IInv, QueueInv
    <3> QED
      BY <1>1, <3>1, <3>3, <3>4, HeadOfQueue DEF IInv, TypeOK, QueueInv, StartWork
  <2>3. BusInv'
    BY <1>1 DEF IInv, TypeOK, QueueInv, BusInv, StartWork
  <2>4. OwnerInv'
    BY <1>1 DEF IInv, TypeOK, QueueInv, OwnerInv, DeviceInv, BusInv, StartWork
  <2>5. DeviceInv'
    <3>1. PICK n \in 0..RetryLimit :
            op' = [op EXCEPT ![Head(queue)].stage = "running", ![Head(queue)].left = n]
      BY <1>1, BegunWork
    <3>2. op \in [Ops -> Op] /\ UNCHANGED <<js, opened, main>>
      BY <1>1 DEF IInv, TypeOK, StartWork, Op, Kinds, Stages, Outcomes
    <3>3. \A j \in Ops : op'[j].kind = op[j].kind /\ op'[j].dev = op[j].dev
      BY <3>1, <3>2 DEF Op
    <3> QED
      BY <3>2, <3>3 DEF IInv, DeviceInv
  <2> QED
    BY <2>1, <2>2, <2>3, <2>4, <2>5 DEF IInv
<1>2. ASSUME NEW i \in Ops, OpenDevice(i) PROVE IInv'
  <2>1. PICK r \in {"ok", "failed"} :
          /\ op' = [op EXCEPT ![i].stage = "executed", ![i].outcome = r]
          /\ opened' = IF r = "ok" THEN [opened EXCEPT ![op[i].dev] = TRUE] ELSE opened
    BY <1>2 DEF OpenDevice, Executed
  <2>2. /\ op[i].stage = "running" /\ op[i].kind = "new" /\ op[i].outcome = "none"
        /\ op[i].dev \in Devices
        /\ UNCHANGED <<queue, js, closing, mu, main>>
    BY <1>2 DEF OpenDevice, IInv, QueueInv
  <2>3. op \in [Ops -> Op]
    BY DEF IInv, TypeOK, Op, Kinds, Stages, Outcomes
  <2>4. /\ op'[i].kind = op[i].kind /\ op'[i].dev = op[i].dev
        /\ op'[i].stage = "executed" /\ op'[i].outcome = r
        /\ \A j \in Ops \ {i} : op'[j] = op[j]
    BY <2>1, <2>3 DEF Op
  <2>5. \A d \in Devices : opened'[d] <=> (opened[d] \/ (r = "ok" /\ d = op[i].dev))
    <3>1. opened \in [Devices -> BOOLEAN]
      BY DEF IInv, TypeOK
    <3>2. CASE r = "ok"
      BY <2>1, <2>2, <3>1, <3>2
    <3>3. CASE r = "failed"
      BY <2>1, <3>1, <3>3
    <3> QED
      BY <3>2, <3>3
  <2>6. TypeOK'
    <3>1. op' \in [Ops -> Op]
      BY <2>1, <2>3 DEF Op, Stages, Outcomes
    <3>2. opened' \in [Devices -> BOOLEAN]
      BY <2>1, <2>2 DEF IInv, TypeOK
    <3> QED
      BY <2>2, <3>1, <3>2 DEF IInv, TypeOK, Op, Kinds, Stages, Outcomes
  <2>7. QueueInv'
    <3>1. \A k \in 1..Len(queue) : queue[k] \in Ops
      BY DEF IInv, TypeOK
    <3> QED
      BY <2>2, <2>4, <3>1 DEF IInv, QueueInv
  <2>8. BusInv'
    <3>1. \A j \in Ops : op[j].stage = "bus" => op[j].dev \in Devices
      BY DEF IInv, QueueInv
    <3>2. \A j \in Ops : op'[j].stage \in {"locked", "bus"} => op'[j] = op[j]
      BY <2>4
    <3>3. \A j \in Ops : op[j].stage = "bus" => opened'[op[j].dev]
      BY <2>5, <3>1 DEF IInv, BusInv
    <3> QED
      BY <2>2, <3>2, <3>3 DEF IInv, BusInv
  <2>9. OwnerInv'
    <3>1. \A j \in Ops : op'[j].kind = op[j].kind /\ op'[j].dev = op[j].dev
      BY <2>4
    <3>2. \A j \in Ops : op[j].kind = "new" /\ j # i => op[j].dev # op[i].dev
      BY <2>2 DEF IInv, OwnerInv
    <3>3. \A j \in Ops : op[j].kind = "new" => op[j].dev \in Devices
      BY DEF IInv, QueueInv
    <3>4. \A j \in Ops : op'[j].kind = "new" => (opened'[op'[j].dev] <=> op'[j].outcome = "ok")
      <4> SUFFICES ASSUME NEW j \in Ops, op[j].kind = "new"
                   PROVE  opened'[op[j].dev] <=> op'[j].outcome = "ok"
        BY <3>1
      <4>1. op[j].dev \in Devices /\ (opened[op[j].dev] <=> op[j].outcome = "ok")
        BY <3>3 DEF IInv, OwnerInv
      <4>2. CASE j = i
        BY <2>2, <2>4, <2>5, <4>1, <4>2
      <4>3. CASE j # i
        <5>1. opened'[op[j].dev] <=> opened[op[j].dev]
          BY <2>5, <3>2, <4>1, <4>3
        <5> QED
          BY <2>4, <4>1, <4>3, <5>1
      <4> QED
        BY <4>2, <4>3
    <3> QED
      BY <2>2, <3>1, <3>4 DEF IInv, OwnerInv
  <2>10. DeviceInv'
    <3>1. js[op[i].dev] = "opening"
      BY <2>2 DEF IInv, OwnerInv
    <3> QED
      BY <2>2, <2>4, <2>5, <3>1 DEF IInv, DeviceInv
  <2> QED
    BY <2>6, <2>7, <2>8, <2>9, <2>10 DEF IInv
<1>3. ASSUME NEW i \in Ops, Lock(i) PROVE IInv'
  <2>1. TypeOK'
    <3>1. op \in [Ops -> Op] /\ op[i].left \in 0..RetryLimit
      BY DEF IInv, TypeOK, Op, Kinds, Stages, Outcomes
    <3>2. op' \in [Ops -> Op]
      BY <1>3, <3>1 DEF Lock, Op, Stages
    <3> QED
      BY <1>3, <3>2 DEF IInv, TypeOK, Op, Kinds, Stages, Outcomes, Lock
  <2>2. QueueInv'
    BY <1>3 DEF IInv, TypeOK, QueueInv, Lock
  <2>3. BusInv'
    BY <1>3 DEF IInv, TypeOK, QueueInv, BusInv, Lock
  <2>4. OwnerInv'
    BY <1>3 DEF IInv, TypeOK, QueueInv, OwnerInv, DeviceInv, BusInv, Lock
  <2>5. DeviceInv'
    BY <1>3 DEF IInv, TypeOK, QueueInv, OwnerInv, DeviceInv, Lock
  <2> QED
    BY <2>1, <2>2, <2>3, <2>4, <2>5 DEF IInv
<1>4. ASSUME NEW i \in Ops, Send(i) PROVE IInv'
  <2>1. TypeOK'
    <3>1. op \in [Ops -> Op] /\ op[i].left \in 0..RetryLimit
      BY DEF IInv, TypeOK, Op, Kinds, Stages, Outcomes
    <3>2. op' \in [Ops -> Op]
      BY <1>4, <3>1 DEF Send, Op, Stages
    <3> QED
      BY <1>4, <3>2 DEF IInv, TypeOK, Op, Kinds, Stages, Outcomes, Send
  <2>2. QueueInv'
    BY <1>4 DEF IInv, TypeOK, QueueInv, Send
  <2>3. BusInv'
    BY <1>4 DEF IInv, TypeOK, QueueInv, BusInv, Send
  <2>4. OwnerInv'
    BY <1>4 DEF IInv, TypeOK, QueueInv, OwnerInv, DeviceInv, BusInv, Send
  <2>5. DeviceInv'
    BY <1>4 DEF IInv, TypeOK, QueueInv, OwnerInv, DeviceInv, Send
  <2> QED
    BY <2>1, <2>2, <2>3, <2>4, <2>5 DEF IInv
<1>5. ASSUME NEW i \in Ops, NEW r \in Outcomes \ {"none"}, AttemptEnds(i, r),
             op[i].kind = "bus", op[i].stage \in {"locked", "bus"}
      PROVE  IInv'
  <2>1. op \in [Ops -> Op] /\ op[i].outcome = "none"
    BY <1>5 DEF IInv, TypeOK, QueueInv, Op, Kinds, Stages, Outcomes
  <2>2. PICK s \in {"running", "executed"}, n \in 0..RetryLimit, o \in {"none", r} :
          /\ op' = [op EXCEPT ![i].stage = s, ![i].left = n, ![i].outcome = o]
          /\ s = "running" => o = "none"
    <3>1. op[i].left \in 0..RetryLimit
      BY <2>1 DEF Op
    <3>2. CASE Transient(r) /\ op[i].left > 0
      <4>1. op' = [op EXCEPT ![i].stage = "running", ![i].left = op[i].left - 1,
                             ![i].outcome = "none"]
        BY <1>5, <2>1, <3>2 DEF AttemptEnds, Op
      <4>2. op[i].left - 1 \in 0..RetryLimit
        BY <3>1, <3>2
      <4> QED
        BY <4>1, <4>2
    <3>3. CASE ~(Transient(r) /\ op[i].left > 0)
      <4>1. op' = [op EXCEPT ![i].stage = "executed", ![i].left = op[i].left,
                             ![i].outcome = r]
        BY <1>5, <2>1, <3>3 DEF AttemptEnds, Executed, Op
      <4> QED
        BY <3>1, <4>1
    <3> QED
      BY <3>2, <3>3
  <2>3. /\ op'[i].kind = "bus" /\ op'[i].dev = op[i].dev
        /\ op'[i].stage = s /\ op'[i].outcome = o
        /\ \A j \in Ops \ {i} : op'[j] = op[j]
        /\ UNCHANGED <<queue, js, closing, opened, main>> /\ mu' = Free
    BY <1>5, <2>1, <2>2 DEF AttemptEnds, Op
  <2>4. TypeOK'
    <3>1. op' \in [Ops -> Op]
      BY <1>5, <2>1, <2>2, OpType DEF Stages, Outcomes
    <3> QED
      BY <2>3, <3>1 DEF IInv, TypeOK, Op, Kinds, Stages, Outcomes
  <2>5. QueueInv'
    <3>1. \A k \in 1..Len(queue) : queue[k] \in Ops \ {i}
      BY <1>5 DEF IInv, TypeOK, QueueInv
    <3>2. /\ op'[i].stage # "free" /\ op'[i].dev \in Devices
          /\ op'[i].stage = "running" => op'[i].outcome = "none"
          /\ op'[i].stage \in {"running", "executed"}
      BY <1>5, <2>2, <2>3 DEF IInv, QueueInv
    <3> QED
      BY <2>3, <3>1, <3>2 DEF IInv, QueueInv
  <2>6. BusInv'
    BY <1>5, <2>3 DEF IInv, BusInv
  <2>7. OwnerInv' /\ DeviceInv'
    <3>1. \A j \in Ops : op'[j].kind = op[j].kind /\ op'[j].dev = op[j].dev
      BY <1>5, <2>3
    <3>2. \A j \in Ops : op[j].kind = "new" => op'[j] = op[j]
      BY <1>5, <2>3
    <3> QED
      BY <2>3, <3>1, <3>2 DEF IInv, OwnerInv, DeviceInv
  <2> QED
    BY <2>4, <2>5, <2>6, <2>7 DEF IInv
<1>6. ASSUME NEW i \in Ops, CloseDevice(i) PROVE IInv'
  <2>1. TypeOK'
    BY <1>6 DEF IInv, TypeOK, QueueInv, CloseDevice, Executed
  <2>2. QueueInv'
    BY <1>6 DEF IInv, TypeOK, QueueInv, CloseDevice, Executed
  <2>3. BusInv'
    BY <1>6 DEF IInv, TypeOK, QueueInv, BusInv, CloseDevice, Executed
  <2>4. OwnerInv'
    BY <1>6 DEF IInv, TypeOK, QueueInv, OwnerInv, DeviceInv, BusInv, CloseDevice,
       Executed
  <2>5. DeviceInv'
    <3>1. \A j \in Ops : op'[j].kind = op[j].kind /\ op'[j].dev = op[j].dev
      BY <1>6 DEF IInv, TypeOK, CloseDevice, Executed
    <3>2. \A d \in Devices : ~opened[d] => ~opened'[d]
      BY <1>6 DEF IInv, TypeOK, CloseDevice
    <3> QED
      BY <1>6, <3>1, <3>2 DEF IInv, DeviceInv, CloseDevice
  <2> QED
    BY <2>1, <2>2, <2>3, <2>4, <2>5 DEF IInv
<1>7. ASSUME NEW i \in Ops, Complete(i) PROVE IInv'
  <2>1. TypeOK'
    BY <1>7 DEF IInv, TypeOK, QueueInv, Complete
  <2>2. QueueInv'
    BY <1>7 DEF IInv, TypeOK, QueueInv, Complete
  <2>3. BusInv'
    BY <1>7 DEF IInv, TypeOK, QueueInv, BusInv, Complete
  <2>4. OwnerInv'
    BY <1>7 DEF IInv, TypeOK, QueueInv, OwnerInv, DeviceInv, BusInv, Complete
  <2>5. DeviceInv'
    BY <1>7 DEF IInv, TypeOK, QueueInv, OwnerInv, DeviceInv, Complete
  <2> QED
    BY <2>1, <2>2, <2>3, <2>4, <2>5 DEF IInv
<1>8. ASSUME NEW i \in Ops, RefuseClosed(i) \/ Succeed(i) \/ Fail(i) PROVE IInv'
  <2>1. op[i].kind = "bus" /\ op[i].stage \in {"locked", "bus"}
    BY <1>8 DEF RefuseClosed, Succeed, Fail, IInv, BusInv
  <2> QED
    BY <1>5, <1>8, <2>1 DEF RefuseClosed, Succeed, Fail, Outcomes
<1> QED
  BY <1>1, <1>2, <1>3, <1>4, <1>6, <1>7, <1>8 DEF Execute

-----------------------------------------------------------------------------
LEMMA Inductive == Spec => []IInv
<1>1. IInv /\ [Next]_vars => IInv'
  <2>1. IInv /\ UNCHANGED vars => IInv'
    BY DEF IInv, TypeOK, QueueInv, BusInv, OwnerInv, DeviceInv, vars
  <2> QED
    BY <2>1, ProgramStep, WorkerStep DEF Next
<1> QED
  BY InitIInv, <1>1, PTL DEF Spec

\* Every variable keeps its type; no call is retried past its limit.
THEOREM TypeCorrect == Spec => []TypeOK
<1>1. IInv => TypeOK
  BY DEF IInv
<1> QED
  BY <1>1, Inductive, PTL

\* index.js:177-186: after close() or the finalizer no call of the device transmits, however
\* many calls were queued or waited for the mutex before.
THEOREM ClosedIsQuiet == Spec => []ClosedDeviceIsQuiet
<1>1. IInv => ClosedDeviceIsQuiet
  BY DEF IInv, BusInv, ClosedDeviceIsQuiet
<1> QED
  BY <1>1, Inductive, PTL

\* binding.go:8-9: an open device is in the hands of the program, of the collector, or of an
\* opening that is about to hand it over.
THEOREM OpenIsReachable == Spec => []OpenDeviceIsReachable
<1>1. IInv => OpenDeviceIsReachable
  BY DEF IInv, TypeOK, OwnerInv, DeviceInv, OpenDeviceIsReachable
<1> QED
  BY <1>1, Inductive, PTL
=============================================================================
