------------------------------ MODULE PortLock ------------------------------
(***************************************************************************)
(* The lock file of one serial port (go/lockfile.go) and the openers that  *)
(* compete for it: NewModbusDevice calls in processes that crash and come  *)
(* back, each step of acquirePortLock and releasePortLock a file system    *)
(* operation of its own.                                                   *)
(*                                                                         *)
(* A file that is removed lives on for whoever has it open, so every file  *)
(* is known by the opener that created it, and the path is a variable that *)
(* holds the file it leads to.                                             *)
(***************************************************************************)
EXTENDS Integers, FiniteSets

CONSTANTS
  Openers,             \* devices that open the port
  Pids,                \* process IDs
  Pid,                 \* the process an opener runs in
  NoFile,              \* the path leads nowhere
  NoPid,               \* an empty file's content, or an unreadable file's
  DeadSignalError,     \* what Signal(0) on a dead process returns
  AcquisitionsOverlap, \* two openers may be inside acquirePortLock at once
  DiskMayBeFull,       \* the PID may fail to be written
  MaxAttempts          \* the loop bound of acquirePortLock

ASSUME LockAssumption ==
  /\ Pid \in [Openers -> Pids]
  /\ NoFile \notin Openers
  /\ NoPid \notin Pids
  /\ DeadSignalError \in {"ESRCH", "ErrProcessDone"}
  /\ AcquisitionsOverlap \in BOOLEAN
  /\ DiskMayBeFull \in BOOLEAN
  /\ MaxAttempts \in Nat \ {0}

VARIABLES
  pc,       \* where each opener is
  attempt,  \* the loop counter of its acquirePortLock
  owner,    \* the PID it last read from the file
  path,     \* the file the lock path leads to
  content,  \* the PID in each opener's file
  alive     \* the processes that run

vars == <<pc, attempt, owner, path, content, alive>>

Acquiring == {"create", "write", "inspect", "judge", "remove"}
Labels == Acquiring \cup {"idle", "held", "unlocked", "refused", "release", "unlink"}

Running(o) == Pid[o] \in alive

Goto(o, label) == pc' = [pc EXCEPT ![o] = label]

Init ==
  /\ pc = [o \in Openers |-> "idle"]
  /\ attempt = [o \in Openers |-> 0]
  /\ owner = [o \in Openers |-> NoPid]
  /\ path = NoFile
  /\ content = [o \in Openers |-> NoPid]
  /\ alive = Pids

-----------------------------------------------------------------------------
(***************************************************************************)
(* acquirePortLock.                                                        *)
(***************************************************************************)
Acquire(o) ==
  /\ pc[o] = "idle" /\ Running(o)
  /\ AcquisitionsOverlap \/ \A u \in Openers : pc[u] \notin Acquiring
  /\ attempt' = [attempt EXCEPT ![o] = 1]
  /\ Goto(o, "create")
  /\ UNCHANGED <<owner, path, content, alive>>

\* No /var/lock, no permission: the port is opened without a lock.
Degrade(o) ==
  /\ pc[o] = "create"
  /\ Goto(o, "unlocked")
  /\ UNCHANGED <<attempt, owner, path, content, alive>>

NewFile(o) ==
  /\ pc[o] = "create"
  /\ path' = o
  /\ content' = [content EXCEPT ![o] = NoPid]
  /\ Goto(o, "write")
  /\ UNCHANGED <<attempt, owner, alive>>

\* Fault: the file is created whether or not one is there.
CreateOver(o) == NewFile(o)

\* O_CREATE|O_EXCL: the file is there, and empty.
Create(o) == path = NoFile /\ NewFile(o)

HoldFile(o, written) ==
  /\ pc[o] = "write"
  /\ content' = [content EXCEPT ![o] = written]
  /\ Goto(o, "held")
  /\ UNCHANGED <<attempt, owner, path, alive>>

\* The error of the write is ignored.
WritePid(o) ==
  \E written \in {Pid[o]} \cup (IF DiskMayBeFull THEN {NoPid} ELSE {}) :
    HoldFile(o, written)

Exists(o) ==
  /\ pc[o] = "create"
  /\ path # NoFile
  /\ Goto(o, "inspect")
  /\ UNCHANGED <<attempt, owner, path, content, alive>>

\* readLockOwner
LockOwner == IF path = NoFile THEN NoPid ELSE content[path]

ReadOwner(o, from, to) ==
  /\ pc[o] = from
  /\ owner' = [owner EXCEPT ![o] = LockOwner]
  /\ Goto(o, to)
  /\ UNCHANGED <<attempt, path, content, alive>>

Inspect(o) == ReadOwner(o, "inspect", "judge")

\* Fault: the process's own lock counts as left over.
OwnIsStale(pid, self) == pid = NoPid \/ pid = self

\* isStaleLock: an empty file is stale; a dead owner's is if kill reports ESRCH.
\* self is this process, of which the code takes no notice.
Stale(pid, self) ==
  \/ pid = NoPid
  \/ pid \notin alive /\ DeadSignalError = "ESRCH"

JudgeStale(o) ==
  /\ pc[o] = "judge"
  /\ Stale(owner[o], Pid[o])
  /\ Goto(o, "remove")
  /\ UNCHANGED <<attempt, owner, path, content, alive>>

\* Fault: a live owner is waited for, without counting the attempts.
AwaitOwner(o) ==
  /\ pc[o] = "judge"
  /\ ~Stale(owner[o], Pid[o])
  /\ Goto(o, "create")
  /\ UNCHANGED <<attempt, owner, path, content, alive>>

Refuse(o) ==
  /\ pc[o] = "judge"
  /\ ~Stale(owner[o], Pid[o])
  /\ Goto(o, "refused")
  /\ UNCHANGED <<attempt, owner, path, content, alive>>

\* Fault: one attempt too many.
OneMoreAttempt(o) == attempt[o] <= MaxAttempts

AttemptsLeft(o) == attempt[o] < MaxAttempts

\* Whatever file is at the path goes, if it can be removed: errors are ignored.
RemoveStale(o) ==
  /\ pc[o] = "remove"
  /\ path' \in {path, NoFile}
  /\ IF AttemptsLeft(o)
       THEN attempt' = [attempt EXCEPT ![o] = @ + 1] /\ Goto(o, "create")
       ELSE UNCHANGED attempt /\ Goto(o, "refused")
  /\ UNCHANGED <<owner, content, alive>>

\* The opener that got no lock, or whose port failed to open, gives up.
Abandon(o) ==
  /\ pc[o] \in {"refused", "unlocked"}
  /\ Goto(o, "idle")
  /\ attempt' = [attempt EXCEPT ![o] = 0]
  /\ owner' = [owner EXCEPT ![o] = NoPid]
  /\ UNCHANGED <<path, content, alive>>

-----------------------------------------------------------------------------
(***************************************************************************)
(* releasePortLock, when the device is closed or its opening failed.       *)
(***************************************************************************)
Release(o) == ReadOwner(o, "held", "unlink")

OwnsFile(o) == owner[o] = Pid[o]

Unlink(o) ==
  /\ pc[o] = "unlink"
  /\ path' \in IF OwnsFile(o) THEN {path, NoFile} ELSE {path}
  /\ Goto(o, "idle")
  /\ attempt' = [attempt EXCEPT ![o] = 0]
  /\ owner' = [owner EXCEPT ![o] = NoPid]
  /\ UNCHANGED <<content, alive>>

-----------------------------------------------------------------------------
(***************************************************************************)
(* Processes: killed at any step, and started again; a PID comes back.     *)
(***************************************************************************)
InProcess(p) == {o \in Openers : Pid[o] = p}

Crash(p) ==
  /\ p \in alive
  /\ alive' = alive \ {p}
  /\ pc' = [o \in Openers |-> IF o \in InProcess(p) THEN "idle" ELSE pc[o]]
  /\ attempt' = [o \in Openers |-> IF o \in InProcess(p) THEN 0 ELSE attempt[o]]
  /\ owner' = [o \in Openers |-> IF o \in InProcess(p) THEN NoPid ELSE owner[o]]
  /\ UNCHANGED <<path, content>>

Start(p) ==
  /\ p \notin alive
  /\ alive' = alive \cup {p}
  /\ UNCHANGED <<pc, attempt, owner, path, content>>

-----------------------------------------------------------------------------
AcquireStep(o) ==
  \/ Degrade(o) \/ Create(o) \/ WritePid(o) \/ Exists(o)
  \/ Inspect(o) \/ JudgeStale(o) \/ Refuse(o) \/ RemoveStale(o)

Step(o) ==
  \/ Acquire(o) \/ AcquireStep(o) \/ Abandon(o) \/ Release(o) \/ Unlink(o)

Next == (\E o \in Openers : Step(o)) \/ (\E p \in Pids : Crash(p) \/ Start(p))

Spec == Init /\ [][Next]_vars

\* A thread inside acquirePortLock keeps running until its process is killed.
FairSpec == Spec /\ \A o \in Openers : WF_vars(AcquireStep(o))

-----------------------------------------------------------------------------
\* The variables hold values of their kinds.
TypeOK ==
  /\ pc \in [Openers -> Labels]
  /\ attempt \in [Openers -> 0..MaxAttempts]
  /\ owner \in [Openers -> Pids \cup {NoPid}]
  /\ path \in Openers \cup {NoFile}
  /\ content \in [Openers -> Pids \cup {NoPid}]
  /\ alive \in SUBSET Pids

HasLock(o) == pc[o] \in {"held", "unlink"}

\* lockfile.go:3, main.go:201: at most one device has the port's lock, whatever
\* crashes, restarts, reused PIDs and reclaimed files came before.
ExclusiveLock == \A o, u \in Openers : HasLock(o) /\ HasLock(u) => o = u

\* minicom and the like respect the file (lockfile.go:13-14): while a device has the
\* lock, the file at the path is there and names the device's process.
LockFileNamesHolder ==
  \A o \in Openers : pc[o] = "held" => path = o /\ content[o] = Pid[o]

\* The convention of lockfile.go:3-16: while somebody has the lock nobody else takes it, and
\* the file at the path names its process and does not change until it is given back.
Holder == IF \E o \in Openers : HasLock(o) THEN CHOOSE o \in Openers : HasLock(o) ELSE NoFile

Port == INSTANCE ExclusivePort WITH holder <- Holder, named <- LockOwner, Nobody <- NoFile

ImplementsExclusivePort == Port!PortSpec

\* lockfile.go:14-16: an opener is refused because of the file it read only if the
\* process the file names is alive; a dead owner's file is reclaimed.
RefusedOnlyByLiveOwner ==
  [][\A o \in Openers :
       pc[o] = "judge" /\ pc'[o] = "refused" => owner[o] \in alive]_vars

\* How many more steps acquirePortLock takes at most.
StepsLeft(o) ==
  LET inAttempt == CASE pc[o] = "create"  -> 4
                     [] pc[o] = "inspect" -> 3
                     [] pc[o] = "judge"   -> 2
                     [] pc[o] \in {"remove", "write"} -> 1
  IN  IF pc[o] \in Acquiring THEN inAttempt + 4 * (MaxAttempts - attempt[o]) ELSE 0

\* lockfile.go:57-81: an opener never goes round without spending an attempt, whatever
\* files it finds, fails to remove, or others remove and create under its hands.
AcquisitionsRunDown ==
  [][\A o \in Openers : pc[o] \in Acquiring =>
       \/ UNCHANGED <<pc[o], attempt[o], owner[o]>>
       \/ StepsLeft(o)' \in 0..(StepsLeft(o) - 1)]_vars

\* acquirePortLock comes to an end though a stale file cannot be removed, and while
\* holders release their lock and processes crash and come back. (AcquisitionsRunDown
\* says of overlapping acquisitions that none goes round.)
AcquireReturns == \A o \in Openers : pc[o] \in Acquiring ~> pc[o] \notin Acquiring
=============================================================================
