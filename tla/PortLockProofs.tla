--------------------------- MODULE PortLockProofs ---------------------------
(***************************************************************************)
(* Theorems of PortLock, for every number of openers, processes and        *)
(* attempts: the types, and that the lock is exclusive and its file names  *)
(* the holder when acquisitions do not overlap and the PID can be written. *)
(***************************************************************************)
EXTENDS PortLock, TLAPS

-----------------------------------------------------------------------------
LEMMA InitType == Init => TypeOK
  BY LockAssumption DEF Init, TypeOK, Labels

\* The steps of an opener keep the types.
LEMMA StepType ==
  ASSUME TypeOK, NEW o \in Openers, Step(o)
  PROVE  TypeOK'
<1>1. LockOwner \in Pids \cup {NoPid}
  BY DEF TypeOK, LockOwner
<1>2. Pid[o] \in Pids /\ MaxAttempts \in Nat \ {0}
  BY LockAssumption
<1>3. CASE Acquire(o)
  BY <1>2, <1>3 DEF TypeOK, Acquire, Goto, Labels, Acquiring
<1>4. CASE Create(o)
  BY <1>4 DEF TypeOK, Create, NewFile, Goto, Labels, Acquiring
<1>5. CASE WritePid(o)
  <2>1. PICK written \in Pids \cup {NoPid} : HoldFile(o, written)
    BY <1>2, <1>5 DEF WritePid
  <2> QED
    BY <2>1 DEF TypeOK, HoldFile, Goto, Labels
<1>6. CASE Degrade(o) \/ Exists(o) \/ JudgeStale(o) \/ Refuse(o)
  BY <1>6 DEF TypeOK, Degrade, Exists, JudgeStale, Refuse, Goto, Labels, Acquiring
<1>7. CASE Inspect(o) \/ Release(o)
  BY <1>1, <1>7 DEF TypeOK, Inspect, Release, ReadOwner, Goto, Labels, Acquiring
<1>8. CASE RemoveStale(o)
  <2>1. attempt' \in [Openers -> 0..MaxAttempts]
    BY <1>2, <1>8 DEF TypeOK, RemoveStale, AttemptsLeft
  <2>2. path' \in Openers \cup {NoFile}
    BY <1>8 DEF TypeOK, RemoveStale
  <2>3. pc' \in [Openers -> Labels]
    BY <1>8 DEF TypeOK, RemoveStale, Goto, Labels, Acquiring
  <2> QED
    BY <1>8, <2>1, <2>2, <2>3 DEF TypeOK, RemoveStale
<1>9. CASE Abandon(o)
  BY <1>2, <1>9 DEF TypeOK, Abandon, Goto, Labels
<1>10. CASE Unlink(o)
  <2>1. path' \in Openers \cup {NoFile}
    BY <1>10 DEF TypeOK, Unlink
  <2> QED
    BY <1>2, <1>10, <2>1 DEF TypeOK, Unlink, Goto, Labels
<1> QED
  BY <1>3, <1>4, <1>5, <1>6, <1>7, <1>8, <1>9, <1>10 DEF Step, AcquireStep

LEMMA ProcessType ==
  ASSUME TypeOK, NEW p \in Pids, Crash(p) \/ Start(p)
  PROVE  TypeOK'
  BY LockAssumption DEF TypeOK, Crash, Start, Labels

\* Every variable keeps its type, however the openers overlap.
THEOREM TypeCorrect == Spec => []TypeOK
<1>1. TypeOK /\ [Next]_vars => TypeOK'
  <2>1. TypeOK /\ UNCHANGED vars => TypeOK'
    BY DEF TypeOK, vars
  <2> QED
    BY <2>1, StepType, ProcessType DEF Next
<1> QED
  BY InitType, <1>1, PTL DEF Spec

-----------------------------------------------------------------------------
\* Acquisitions happen one at a time.
OneAcquires ==
  \A o, u \in Openers : pc[o] \in Acquiring /\ pc[u] \in Acquiring => o = u

\* Whoever is at work or has the lock belongs to a running process.
ActiveRuns == \A o \in Openers : pc[o] # "idle" => Running(o)

\* The path leads to the holder's file, which names its process.
HolderAtPath == \A o \in Openers : HasLock(o) => path = o /\ content[o] = Pid[o]

\* What the one who acquires knows: that the file is its own, whom it names, and at last
\* that nobody has the lock.
AcquirerKnows ==
  \A o \in Openers :
    /\ pc[o] = "write" => path = o
    /\ \A u \in Openers : HasLock(u) =>
         /\ pc[o] = "judge" => owner[o] = Pid[u]
         /\ pc[o] # "remove"

IInv == TypeOK /\ OneAcquires /\ ActiveRuns /\ HolderAtPath /\ AcquirerKnows

LEMMA InitIInv == Init => IInv
  BY InitType DEF Init, IInv, OneAcquires, ActiveRuns, HolderAtPath, AcquirerKnows, HasLock,
     Acquiring

\* A step of an opener keeps the others as they are.
LEMMA StepIInv ==
  ASSUME ~AcquisitionsOverlap, ~DiskMayBeFull, IInv, NEW o \in Openers, Step(o)
  PROVE  IInv'
<1> USE DEF HasLock, Running, Acquiring, Goto
<1>1. TypeOK'
  BY StepType DEF IInv
<1>2. \A u \in Openers : pc[u] \in Labels /\ pc \in [Openers -> Labels]
  BY DEF IInv, TypeOK
<1>3. Pid[o] \in Pids /\ NoPid \notin Pids /\ NoFile \notin Openers
  BY LockAssumption
<1>4. OneAcquires' /\ ActiveRuns'
  <2>1. UNCHANGED alive
    BY DEF Step, AcquireStep, Acquire, Degrade, Create, NewFile, WritePid, HoldFile, Exists, Inspect,
       JudgeStale, Refuse, RemoveStale, Abandon, Release, ReadOwner, Unlink
  <2>2. PICK label \in Labels :
          /\ pc' = [pc EXCEPT ![o] = label]
          /\ Running(o)
          /\ label \in Acquiring => pc[o] \in Acquiring \/ \A u \in Openers : pc[u] \notin Acquiring
    BY <1>2 DEF Step, AcquireStep, Acquire, Degrade, Create, NewFile, WritePid, HoldFile, Exists, Inspect,
       JudgeStale, Refuse, RemoveStale, Abandon, Release, ReadOwner, Unlink, Labels, IInv,
       ActiveRuns
  <2> QED
    BY <1>2, <2>1, <2>2 DEF IInv, OneAcquires, ActiveRuns
<1>5. HolderAtPath' /\ AcquirerKnows'
  <2>1. CASE Acquire(o) \/ Degrade(o) \/ Exists(o) \/ Refuse(o) \/ Abandon(o)
    BY <1>2, <2>1 DEF Acquire, Degrade, Exists, Refuse, Abandon, IInv, HolderAtPath,
       AcquirerKnows, TypeOK
  <2>2. CASE Create(o)
    <3>1. \A u \in Openers : ~HasLock(u) /\ pc[u] # "write"
      BY <1>3, <2>2 DEF Create, NewFile, IInv, HolderAtPath, AcquirerKnows
    <3> QED
      BY <1>2, <2>2, <3>1 DEF Create, NewFile, HolderAtPath, AcquirerKnows
  <2>3. CASE WritePid(o)
    <3>1. HoldFile(o, Pid[o])
      BY <2>3 DEF WritePid
    <3>2. path = o /\ \A u \in Openers \ {o} : ~HasLock(u) /\ pc[u] \notin Acquiring
      BY <3>1 DEF HoldFile, IInv, AcquirerKnows, HolderAtPath, OneAcquires
    <3> QED
      BY <1>2, <3>1, <3>2 DEF HoldFile, IInv, HolderAtPath, AcquirerKnows, TypeOK
  <2>4. CASE Inspect(o)
    <3>1. \A u \in Openers : HasLock(u) => LockOwner = Pid[u]
      BY <1>3 DEF IInv, HolderAtPath, LockOwner
    <3> QED
      BY <1>2, <2>4, <3>1 DEF Inspect, ReadOwner, IInv, HolderAtPath, AcquirerKnows, TypeOK
  <2>5. CASE JudgeStale(o)
    <3>1. \A u \in Openers : HasLock(u) => owner[o] = Pid[u] /\ Pid[u] \in alive
      BY <2>5 DEF JudgeStale, IInv, AcquirerKnows, ActiveRuns
    <3>2. \A u \in Openers : Pid[u] \in Pids
      BY LockAssumption
    <3>3. \A u \in Openers : ~HasLock(u)
      BY <1>3, <2>5, <3>1, <3>2 DEF JudgeStale, Stale
    <3> QED
      BY <1>2, <2>5, <3>3 DEF JudgeStale, IInv, HolderAtPath, AcquirerKnows
  <2>6. CASE RemoveStale(o)
    <3>1. \A u \in Openers : ~HasLock(u) /\ pc[u] # "write"
      BY <2>6 DEF RemoveStale, IInv, AcquirerKnows, OneAcquires
    <3>2. PICK label \in {"create", "refused"} : pc' = [pc EXCEPT ![o] = label]
      BY <2>6 DEF RemoveStale
    <3> QED
      BY <1>2, <3>1, <3>2 DEF HolderAtPath, AcquirerKnows
  <2>7. CASE Release(o)
    BY <1>2, <2>7 DEF Release, ReadOwner, IInv, HolderAtPath, AcquirerKnows, TypeOK
  <2>8. CASE Unlink(o)
    <3>1. path = o /\ \A u \in Openers \ {o} : ~HasLock(u) /\ pc[u] # "write"
      BY <2>8 DEF Unlink, IInv, HolderAtPath, AcquirerKnows
    <3> QED
      BY <1>2, <2>8, <3>1 DEF Unlink, HolderAtPath, AcquirerKnows
  <2> QED
    BY <2>1, <2>2, <2>3, <2>4, <2>5, <2>6, <2>7, <2>8 DEF Step, AcquireStep
<1> QED
  BY <1>1, <1>4, <1>5 DEF IInv

\* A process that dies takes its openers with it, and leaves their files.
LEMMA ProcessIInv ==
  ASSUME IInv, NEW p \in Pids, Crash(p) \/ Start(p)
  PROVE  IInv'
<1>1. TypeOK'
  BY ProcessType DEF IInv
<1>2. CASE Crash(p)
  <2>1. \A o \in Openers : pc'[o] # "idle" =>
          pc'[o] = pc[o] /\ owner'[o] = owner[o] /\ Pid[o] # p
    BY <1>2 DEF Crash, InProcess
  <2>2. alive' = alive \ {p} /\ path' = path /\ content' = content
    BY <1>2 DEF Crash
  <2> QED
    BY <1>1, <2>1, <2>2 DEF IInv, OneAcquires, ActiveRuns, HolderAtPath, AcquirerKnows,
       HasLock, Running, Acquiring
<1>3. CASE Start(p)
  BY <1>1, <1>3 DEF Start, IInv, OneAcquires, ActiveRuns, HolderAtPath, AcquirerKnows, HasLock,
     Running
<1> QED
  BY <1>2, <1>3

LEMMA Inductive ==
  ASSUME ~AcquisitionsOverlap, ~DiskMayBeFull
  PROVE  Spec => []IInv
<1>1. IInv /\ [Next]_vars => IInv'
  <2>1. IInv /\ UNCHANGED vars => IInv'
    BY DEF IInv, TypeOK, OneAcquires, ActiveRuns, HolderAtPath, AcquirerKnows, HasLock, Running,
       vars
  <2> QED
    BY <2>1, StepIInv, ProcessIInv DEF Next
<1> QED
  BY InitIInv, <1>1, PTL DEF Spec

\* lockfile.go:3: one holder, if openers acquire one after the other, whatever processes
\* crash and come back, whatever a signal to a dead process returns, and though files
\* cannot be removed.
THEOREM ExclusiveWithoutOverlap ==
  ASSUME ~AcquisitionsOverlap, ~DiskMayBeFull
  PROVE  Spec => []ExclusiveLock
<1>1. IInv => ExclusiveLock
  BY DEF IInv, HolderAtPath, ExclusiveLock
<1> QED
  BY <1>1, Inductive, PTL

\* lockfile.go:13-14: under the same conditions the file names the holder's process for as
\* long as it has the lock.
THEOREM FileNamesHolder ==
  ASSUME ~AcquisitionsOverlap, ~DiskMayBeFull
  PROVE  Spec => []LockFileNamesHolder
<1>1. IInv => LockFileNamesHolder
  BY DEF IInv, HolderAtPath, LockFileNamesHolder, HasLock
<1> QED
  BY <1>1, Inductive, PTL

-----------------------------------------------------------------------------
\* An opener's own step inside acquirePortLock.
LEMMA AcquireRunsDown ==
  ASSUME TypeOK, NEW o \in Openers, AcquireStep(o)
  PROVE  StepsLeft(o)' \in 0..(StepsLeft(o) - 1)
<1>1. /\ pc \in [Openers -> Labels] /\ attempt \in [Openers -> 0..MaxAttempts]
      /\ attempt[o] \in 0..MaxAttempts /\ MaxAttempts \in Nat \ {0}
  BY LockAssumption DEF TypeOK
<1>2. CASE Degrade(o) \/ Create(o) \/ WritePid(o) \/ Exists(o) \/ Inspect(o) \/ JudgeStale(o)
             \/ Refuse(o)
  <2>1. UNCHANGED attempt
    BY <1>2 DEF Degrade, Create, NewFile, WritePid, HoldFile, Exists, Inspect, ReadOwner, JudgeStale,
       Refuse
  <2>2. \/ pc[o] = "create" /\ pc'[o] \in {"unlocked", "write", "inspect"}
        \/ pc[o] = "write" /\ pc'[o] = "held"
        \/ pc[o] = "inspect" /\ pc'[o] = "judge"
        \/ pc[o] = "judge" /\ pc'[o] \in {"remove", "refused"}
    BY <1>1, <1>2 DEF Degrade, Create, NewFile, WritePid, HoldFile, Exists, Inspect, ReadOwner,
       JudgeStale, Refuse, Goto
  <2> QED
    BY <1>1, <2>1, <2>2 DEF StepsLeft, Acquiring
<1>3. CASE RemoveStale(o)
  <2>1. pc[o] = "remove"
    BY <1>3 DEF RemoveStale
  <2>2. CASE attempt[o] < MaxAttempts
    <3>1. pc'[o] = "create" /\ attempt'[o] = attempt[o] + 1
      BY <1>1, <1>3, <2>2 DEF RemoveStale, AttemptsLeft, Goto
    <3> QED
      BY <1>1, <2>1, <2>2, <3>1 DEF StepsLeft, Acquiring
  <2>3. CASE attempt[o] >= MaxAttempts
    <3>1. pc'[o] = "refused"
      BY <1>1, <1>3, <2>3 DEF RemoveStale, AttemptsLeft, Goto
    <3> QED
      BY <1>1, <2>1, <3>1 DEF StepsLeft, Acquiring
  <2> QED
    BY <1>1, <2>2, <2>3
<1> QED
  BY <1>2, <1>3 DEF AcquireStep

\* A step of another opener, or outside acquirePortLock, leaves the opener where it is.
LEMMA OthersStay ==
  ASSUME TypeOK, NEW o \in Openers, pc[o] \in Acquiring, NEW u \in Openers, Step(u),
         ~AcquireStep(o)
  PROVE  UNCHANGED <<pc[o], attempt[o], owner[o]>>
<1>1. CASE u = o
  BY <1>1 DEF Step, Acquire, Abandon, Release, ReadOwner, Unlink, Acquiring
<1>2. CASE u # o
  <2>1. PICK label : pc' = [pc EXCEPT ![u] = label]
    BY DEF Step, AcquireStep, Acquire, Degrade, Create, NewFile, WritePid, HoldFile, Exists, Inspect,
       JudgeStale, Refuse, RemoveStale, Abandon, Release, ReadOwner, Unlink, Goto
  <2>2. UNCHANGED <<attempt[o], owner[o]>>
    BY <1>2 DEF TypeOK, Step, AcquireStep, Acquire, Degrade, Create, NewFile, WritePid, HoldFile, Exists,
       Inspect, JudgeStale, Refuse, RemoveStale, Abandon, Release, ReadOwner, Unlink
  <2> QED
    BY <1>2, <2>1, <2>2 DEF TypeOK
<1> QED
  BY <1>1, <1>2

\* lockfile.go:57-81: acquirePortLock never goes round without spending an attempt, however
\* many openers overlap and whatever they do to the file.
THEOREM AcquisitionsTerminate == Spec => AcquisitionsRunDown
<1>1. ASSUME TypeOK, Next, NEW o \in Openers, pc[o] \in Acquiring
      PROVE  \/ UNCHANGED <<pc[o], attempt[o], owner[o]>>
             \/ StepsLeft(o)' \in 0..(StepsLeft(o) - 1)
  <2>1. CASE \E u \in Openers : Step(u)
    BY <1>1, <2>1, AcquireRunsDown, OthersStay
  <2>2. ASSUME NEW p \in Pids, Crash(p)
        PROVE  \/ UNCHANGED <<pc[o], attempt[o], owner[o]>>
               \/ StepsLeft(o)' \in 0..(StepsLeft(o) - 1)
    <3>1. CASE Pid[o] = p
      <4>1. StepsLeft(o)' = 0
        BY <2>2, <3>1 DEF Crash, InProcess, StepsLeft, Acquiring
      <4>2. attempt[o] \in 0..MaxAttempts /\ MaxAttempts \in Nat
        BY <1>1, LockAssumption DEF TypeOK
      <4>3. StepsLeft(o) \in Nat \ {0}
        BY <1>1, <4>2 DEF StepsLeft, Acquiring
      <4> QED
        BY <4>1, <4>3
    <3>2. CASE Pid[o] # p
      BY <2>2, <3>2 DEF Crash, InProcess
    <3> QED
      BY <3>1, <3>2
  <2>3. CASE \E p \in Pids : Start(p)
    BY <2>3 DEF Start
  <2> QED
    BY <1>1, <2>1, <2>2, <2>3 DEF Next
<1>2. TypeOK /\ [Next]_vars
        => [\A o \in Openers : pc[o] \in Acquiring =>
              \/ UNCHANGED <<pc[o], attempt[o], owner[o]>>
              \/ StepsLeft(o)' \in 0..(StepsLeft(o) - 1)]_vars
  BY <1>1
<1> QED
  BY <1>2, TypeCorrect, PTL DEF Spec, AcquisitionsRunDown

-----------------------------------------------------------------------------
\* Every step of an opener takes the port, leaves it, clears the name of a free port, or is
\* none of the abstract port's business.
LEMMA StepOnPort ==
  ASSUME ~AcquisitionsOverlap, ~DiskMayBeFull, IInv, IInv', NEW o \in Openers, Step(o)
  PROVE  Port!PortNext \/ UNCHANGED <<Holder, LockOwner>>
<1>0. /\ pc \in [Openers -> Labels] /\ content \in [Openers -> Pids \cup {NoPid}]
      /\ NoFile \notin Openers
  BY LockAssumption DEF IInv, TypeOK
<1>1. \A u \in Openers : HasLock(u) => Holder = u /\ path = u /\ LockOwner = Pid[u]
  BY <1>0 DEF IInv, HolderAtPath, Holder, LockOwner
<1>2. \A u \in Openers : HasLock(u)' => Holder' = u /\ path' = u /\ LockOwner' = Pid[u]
  BY <1>0 DEF IInv, HolderAtPath, Holder, LockOwner
<1>3. (\A u \in Openers : ~HasLock(u)) => Holder = NoFile
  BY DEF Holder
<1>4. (\A u \in Openers : ~HasLock(u)') => Holder' = NoFile
  BY DEF Holder
<1>5. \A u \in Openers \ {o} : pc'[u] = pc[u]
  <2>1. PICK label : pc' = [pc EXCEPT ![o] = label]
    BY DEF Step, AcquireStep, Acquire, Degrade, Create, NewFile, WritePid, HoldFile, Exists,
       Inspect, JudgeStale, Refuse, RemoveStale, Abandon, Release, ReadOwner, Unlink, Goto
  <2> QED
    BY <1>0, <2>1
<1>6. CASE WritePid(o)
  <2>1. HoldFile(o, Pid[o])
    BY <1>6 DEF WritePid
  <2>2. \A u \in Openers : ~HasLock(u)
    BY <2>1 DEF HoldFile, IInv, AcquirerKnows, HolderAtPath, HasLock
  <2>3. HasLock(o)'
    BY <1>0, <2>1 DEF HoldFile, Goto, HasLock
  <2>4. Port!Take(o)
    BY <1>2, <1>3, <2>2, <2>3 DEF Port!Take
  <2> QED
    BY <2>4 DEF Port!PortNext
<1>7. CASE Unlink(o)
  <2>1. HasLock(o) /\ ~HasLock(o)' /\ path' \in {path, NoFile} /\ UNCHANGED content
    BY <1>0, <1>7 DEF Unlink, Goto, HasLock
  <2>2. \A u \in Openers : ~HasLock(u)'
    BY <1>1, <1>5, <2>1 DEF HasLock
  <2>3. LockOwner' \in {LockOwner, NoPid}
    BY <2>1 DEF LockOwner
  <2>4. Port!Leave(o)
    BY <1>1, <1>4, <2>1, <2>2, <2>3 DEF Port!Leave
  <2> QED
    BY <2>4 DEF Port!PortNext
<1>8. CASE RemoveStale(o)
  <2>1. \A u \in Openers : ~HasLock(u)
    BY <1>8 DEF RemoveStale, IInv, AcquirerKnows
  <2>2. PICK label \in {"create", "refused"} : pc' = [pc EXCEPT ![o] = label]
    BY <1>8 DEF RemoveStale, Goto
  <2>3. \A u \in Openers : ~HasLock(u)'
    BY <1>0, <2>1, <2>2 DEF HasLock
  <2>4. path' \in {path, NoFile} /\ UNCHANGED content
    BY <1>8 DEF RemoveStale
  <2>5. LockOwner' \in {LockOwner, NoPid}
    BY <2>4 DEF LockOwner
  <2>6. Port!Clear \/ UNCHANGED <<Holder, LockOwner>>
    BY <1>3, <1>4, <2>1, <2>3, <2>5 DEF Port!Clear
  <2> QED
    BY <2>6 DEF Port!PortNext
<1>9. CASE Create(o)
  <2>1. LockOwner = NoPid /\ LockOwner' = NoPid
    BY <1>0, <1>9 DEF Create, NewFile, LockOwner
  <2>2. \A u \in Openers : ~HasLock(u)
    BY <1>0, <1>9 DEF Create, IInv, HolderAtPath
  <2>3. pc' = [pc EXCEPT ![o] = "write"]
    BY <1>9 DEF Create, NewFile, Goto
  <2>4. \A u \in Openers : ~HasLock(u)'
    BY <1>0, <2>2, <2>3 DEF HasLock
  <2> QED
    BY <1>3, <1>4, <2>1, <2>2, <2>4
<1>10. CASE \/ Acquire(o) \/ Degrade(o) \/ Exists(o) \/ Inspect(o) \/ JudgeStale(o) \/ Refuse(o)
            \/ Abandon(o) \/ Release(o)
  <2>1. UNCHANGED <<path, content>>
    BY <1>10 DEF Acquire, Degrade, Exists, Inspect, JudgeStale, Refuse, Abandon, Release,
       ReadOwner
  <2>2. HasLock(o)' <=> HasLock(o)
    BY <1>0, <1>10 DEF Acquire, Degrade, Exists, Inspect, JudgeStale, Refuse, Abandon, Release,
       ReadOwner, Goto, HasLock
  <2>3. \A u \in Openers : HasLock(u)' <=> HasLock(u)
    BY <1>5, <2>2 DEF HasLock
  <2>4. Holder' = Holder
    BY <1>1, <1>2, <1>3, <1>4, <2>3
  <2> QED
    BY <2>1, <2>4 DEF LockOwner
<1> QED
  BY <1>6, <1>7, <1>8, <1>9, <1>10 DEF Step, AcquireStep

\* A crash of the holder's process leaves the port, and the name.
LEMMA ProcessOnPort ==
  ASSUME IInv, IInv', NEW p \in Pids, Crash(p) \/ Start(p)
  PROVE  Port!PortNext \/ UNCHANGED <<Holder, LockOwner>>
<1>1. NoFile \notin Openers
  BY LockAssumption
<1>2. \A u \in Openers : HasLock(u) => Holder = u
  BY DEF IInv, HolderAtPath, Holder
<1>3. \A u \in Openers : HasLock(u)' => Holder' = u
  BY DEF IInv, HolderAtPath, Holder
<1>4. /\ (\A u \in Openers : ~HasLock(u)) => Holder = NoFile
      /\ (\A u \in Openers : ~HasLock(u)') => Holder' = NoFile
  BY DEF Holder
<1>5. UNCHANGED LockOwner
  BY DEF Crash, Start, LockOwner
<1>6. CASE Crash(p)
  <2>1. \A u \in Openers : HasLock(u)' <=> HasLock(u) /\ Pid[u] # p
    BY <1>6 DEF Crash, InProcess, HasLock
  <2>2. CASE \E u \in Openers : HasLock(u) /\ Pid[u] = p
    <3>1. PICK u \in Openers : HasLock(u) /\ Pid[u] = p
      BY <2>2
    <3>2. \A v \in Openers : ~HasLock(v)'
      BY <1>2, <2>1, <3>1
    <3>3. Port!Leave(u)
      BY <1>2, <1>4, <1>5, <3>1, <3>2 DEF Port!Leave
    <3> QED
      BY <3>3 DEF Port!PortNext
  <2>3. CASE \A u \in Openers : HasLock(u) => Pid[u] # p
    <3>1. \A u \in Openers : HasLock(u)' <=> HasLock(u)
      BY <2>1, <2>3
    <3>2. Holder' = Holder
      BY <1>2, <1>3, <1>4, <3>1
    <3> QED
      BY <1>5, <3>2
  <2> QED
    BY <2>2, <2>3
<1>7. CASE Start(p)
  BY <1>5, <1>7 DEF Start, Holder, HasLock
<1> QED
  BY <1>6, <1>7

\* lockfile.go:3-16: the lock file is what the convention asks for, to openers and to other
\* programs that read it, when acquisitions do not overlap and the PID can be written.
THEOREM Refinement ==
  ASSUME ~AcquisitionsOverlap, ~DiskMayBeFull
  PROVE  Spec => ImplementsExclusivePort
<1>1. Init => Port!PortInit
  BY DEF Init, Port!PortInit, Holder, HasLock, LockOwner
<1>2. IInv /\ IInv' /\ [Next]_vars => [Port!PortNext]_(Port!portVars)
  <2>1. UNCHANGED vars => UNCHANGED <<Holder, LockOwner>>
    BY DEF vars, Holder, HasLock, LockOwner
  <2>2. IInv /\ IInv' /\ Next => Port!PortNext \/ UNCHANGED <<Holder, LockOwner>>
    BY StepOnPort, ProcessOnPort DEF Next
  <2> QED
    BY <2>1, <2>2 DEF Port!portVars
<1> QED
  BY <1>1, <1>2, Inductive, PTL DEF Spec, ImplementsExclusivePort, Port!PortSpec
=============================================================================
