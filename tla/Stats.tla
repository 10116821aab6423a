-------------------------------- MODULE Stats --------------------------------
(***************************************************************************)
(* The statistics of one ModbusDevice (go/stats.go): the atomic counters   *)
(* and the per-slave entries that concurrent attempts record, and the      *)
(* snapshot that device.stats() takes while they do.                       *)
(*                                                                         *)
(* An attempt holds the port mutex while it transmits and receives, and    *)
(* leaves its two time stamps there; sendModbusRequest records it after    *)
(* the mutex is released, so several threads may record at once.  Each     *)
(* atomic.AddUint64, atomic.LoadInt64 ... is one step.                     *)
(*                                                                         *)
(* Left out: SumLatencyMicro, which is summed like the per-slave counts.   *)
(***************************************************************************)
EXTENDS Integers, FiniteSets

CONSTANTS
  Threads,     \* threads that make attempts
  NoThread,    \* the holder of a free mutex
  Slaves,      \* slave IDs addressed
  NoAttempt,   \* the attempt of an idle thread
  MaxAttempts  \* bound: attempts made on the device

ASSUME StatsAssumption ==
  /\ IsFiniteSet(Threads)
  /\ NoThread \notin Threads
  /\ MaxAttempts \in Nat

Results == {"success", "timeout", "crc_error", "exception", "io_error"}

\* What the error sendOnce returns is: nothing, a *ModbusException, or a text.
Errors == {"nil", "ModbusException", "modbus timeout", "CRC error", "other error"}

\* The words the classification looks for in a text.
Mentions(err) ==
  (IF err = "modbus timeout" THEN {"timeout"} ELSE {})
    \cup (IF err = "CRC error" THEN {"CRC"} ELSE {})

\* Fault: an exception is looked at as a text.
classifyByText(err) ==
  IF err = "nil" THEN "success"
  ELSE IF "timeout" \in Mentions(err) THEN "timeout"
  ELSE IF "CRC" \in Mentions(err) THEN "crc_error"
  ELSE "io_error"

classifyResult(err) ==
  IF err = "nil" THEN "success"
  ELSE IF err = "ModbusException" THEN "exception"
  ELSE IF "timeout" \in Mentions(err) THEN "timeout"
  ELSE IF "CRC" \in Mentions(err) THEN "crc_error"
  ELSE "io_error"

\* The words of atomicStats that are read and written without a mutex.
Words == Results \cup {"opsTotal", "lastTx", "lastRx"}

\* Fault: a snapshot that loads the result counters before the total.
ResultsFirst ==
  <<"success", "timeout", "crc_error", "exception", "io_error", "opsTotal",
    "lastTx", "lastRx">>

\* Fault: a snapshot that loads the time of reception first.
RxFirst ==
  <<"opsTotal", "success", "timeout", "crc_error", "exception", "io_error",
    "lastRx", "lastTx">>

\* The loads of snapshot, in the order Go evaluates the composite literal.
Loads ==
  <<"opsTotal", "success", "timeout", "crc_error", "exception", "io_error",
    "lastTx", "lastRx">>

SlaveStats == Results \cup {"ops"}
NoStats == [c \in SlaveStats |-> 0]

VARIABLES
  pc,          \* where each thread is in its attempt
  cur,         \* the slave and the error of its attempt
  busMu,       \* the port mutex: its holder
  words,       \* the atomic words
  perSlave,    \* the entries of the map; an absent one is NoStats
  perSlaveMu,  \* the mutex of the map: its holder
  begun,       \* attempts begun
  ended,       \* history: how many attempts on a slave ended with an error
  next,        \* the load the snapshot makes next; 9 when it copies the map
  snap,        \* the words read by this snapshot, or else by the last one
  snapSlaves,  \* the entries the last snapshot copied
  behind       \* history: threads between the two additions at the last load
               \* of opsTotal

attemptVars == <<busMu, begun, ended>>
snapVars == <<next, snap, snapSlaves, behind>>
vars == <<pc, cur, attemptVars, words, perSlave, perSlaveMu, snapVars>>

SumOf(f) ==
  f["success"] + f["timeout"] + f["crc_error"] + f["exception"] + f["io_error"]

Init ==
  /\ pc = [t \in Threads |-> "idle"]
  /\ cur = [t \in Threads |-> NoAttempt]
  /\ busMu = NoThread
  /\ words = [w \in Words |-> 0]
  /\ perSlave = [s \in Slaves |-> NoStats]
  /\ perSlaveMu = NoThread
  /\ begun = 0
  /\ ended = [s \in Slaves |-> [e \in Errors |-> 0]]
  /\ next = 1
  /\ snap = [w \in Words |-> 0]
  /\ snapSlaves = [s \in Slaves |-> NoStats]
  /\ behind = 0

Goto(t, label) == pc' = [pc EXCEPT ![t] = label]

\* The threads that are at one of these labels.
At(labels) == {t \in Threads : pc[t] \in labels}

-----------------------------------------------------------------------------
(***************************************************************************)
(* The attempt, sendOnce: the stamps and what it can end with.             *)
(***************************************************************************)
Begin(t) ==
  /\ pc[t] = "idle"
  /\ busMu = NoThread
  /\ begun < MaxAttempts
  /\ begun' = begun + 1
  /\ busMu' = t
  /\ \E s \in Slaves : cur' = [cur EXCEPT ![t] = [slave |-> s, err |-> "nil"]]
  /\ Goto(t, "send")
  /\ UNCHANGED <<words, perSlave, perSlaveMu, ended, snapVars>>

\* time.Now(), later than every stamp taken before it.
Now == 1 + IF words["lastTx"] > words["lastRx"] THEN words["lastTx"] ELSE words["lastRx"]

Mark(t, from, to, w) ==
  /\ pc[t] = from
  /\ words' = [words EXCEPT ![w] = Now]
  /\ Goto(t, to)
  /\ UNCHANGED <<cur, attemptVars, perSlave, perSlaveMu, snapVars>>

\* The driver is on.
markTx(t) == Mark(t, "send", "sent", "lastTx")

\* The first byte of an answer was read.
markRx(t) == Mark(t, "sent", "receiving", "lastRx")

\* Before the first byte comes nothing but I/O errors and the timeout is possible.
PossibleErrors(label) ==
  CASE label = "send" -> {"other error"}
    [] label = "sent" -> {"other error", "modbus timeout"}
    [] OTHER -> Errors

EndAttempt(t) ==
  /\ pc[t] \in {"send", "sent", "receiving"}
  /\ \E e \in PossibleErrors(pc[t]) :
       /\ cur' = [cur EXCEPT ![t].err = e]
       /\ ended' = [ended EXCEPT ![cur[t].slave][e] = @ + 1]
  /\ busMu' = NoThread
  /\ Goto(t, "addTotal")
  /\ UNCHANGED <<words, perSlave, perSlaveMu, begun, snapVars>>

-----------------------------------------------------------------------------
(***************************************************************************)
(* record, outside the port mutex.                                         *)
(***************************************************************************)
ResultOf(t) == classifyResult(cur[t].err)

Add(t, from, to, w) ==
  /\ pc[t] = from
  /\ words' = [words EXCEPT ![w] = @ + 1]
  /\ Goto(t, to)
  /\ UNCHANGED <<cur, attemptVars, perSlave, perSlaveMu, snapVars>>

\* Fault: opsTotal++ without the atomic instruction; of two at once one is lost.
AddTotalPlain(t) ==
  \/ Add(t, "addTotal", "addResult", "opsTotal")
  \/ \E u \in Threads \ {t} :
       /\ pc[t] = "addTotal" /\ pc[u] = "addTotal"
       /\ words' = [words EXCEPT !["opsTotal"] = @ + 1]
       /\ pc' = [pc EXCEPT ![t] = "addResult", ![u] = "addResult"]
       /\ UNCHANGED <<cur, attemptVars, perSlave, perSlaveMu, snapVars>>

AddTotal(t) == Add(t, "addTotal", "addResult", "opsTotal")

AddResult(t) == Add(t, "addResult", "lockSlaves", ResultOf(t))

CountOps(t, entry) ==
  /\ pc[t] = "lockSlaves"
  /\ perSlaveMu = NoThread
  /\ perSlaveMu' = t
  /\ perSlave' = [perSlave EXCEPT ![cur[t].slave] = [entry EXCEPT !["ops"] = @ + 1]]
  /\ Goto(t, "addClass")
  /\ UNCHANGED <<cur, attemptVars, words, snapVars>>

\* Fault: the entry is made anew though the slave has one.
AddOpsFresh(t) == CountOps(t, NoStats)

\* Takes the mutex; an absent entry is made, and counts from zero.
AddOps(t) == CountOps(t, perSlave[cur[t].slave])

CountClass(t, holder) ==
  /\ pc[t] = "addClass"
  /\ perSlave' = [perSlave EXCEPT ![cur[t].slave][ResultOf(t)] = @ + 1]
  /\ perSlaveMu' = holder
  /\ cur' = [cur EXCEPT ![t] = NoAttempt]
  /\ Goto(t, "idle")
  /\ UNCHANGED <<attemptVars, words, snapVars>>

\* Fault: the mutex is kept.
AddClassKeepMutex(t) == CountClass(t, perSlaveMu)

AddClass(t) == CountClass(t, NoThread)

-----------------------------------------------------------------------------
(***************************************************************************)
(* snapshot, on the JavaScript thread: the loads one by one, then the map  *)
(* under its mutex (one step: nothing in it can change meanwhile).         *)
(***************************************************************************)
Load ==
  /\ next <= 8
  /\ snap' = [snap EXCEPT ![Loads[next]] = words[Loads[next]]]
  /\ behind' = IF Loads[next] = "opsTotal" THEN Cardinality(At({"addResult"})) ELSE behind
  /\ next' = next + 1
  /\ UNCHANGED <<pc, cur, attemptVars, words, perSlave, perSlaveMu, snapSlaves>>

CopyMap(first) ==
  /\ next = 9
  /\ perSlaveMu = NoThread
  /\ snapSlaves' = perSlave
  /\ next' = first
  /\ UNCHANGED <<pc, cur, attemptVars, words, perSlave, perSlaveMu, snap, behind>>

\* Fault: the loads are numbered from zero.
CopySlavesFromZero == CopyMap(0)

CopySlaves == CopyMap(1)

-----------------------------------------------------------------------------
sendOnce(t) == Begin(t) \/ markTx(t) \/ markRx(t) \/ EndAttempt(t)
record(t) == AddTotal(t) \/ AddResult(t) \/ AddOps(t) \/ AddClass(t)
snapshot == Load \/ CopySlaves

Next == (\E t \in Threads : sendOnce(t) \/ record(t)) \/ snapshot

Spec == Init /\ [][Next]_vars

-----------------------------------------------------------------------------
Labels == {"idle", "send", "sent", "receiving", "addTotal", "addResult",
           "lockSlaves", "addClass"}

\* The variables hold values of their kinds.
TypeOK ==
  /\ pc \in [Threads -> Labels]
  /\ cur \in [Threads -> [slave : Slaves, err : Errors] \cup {NoAttempt}]
  /\ busMu \in Threads \cup {NoThread}
  /\ words \in [Words -> Nat]
  /\ perSlave \in [Slaves -> [SlaveStats -> Nat]]
  /\ perSlaveMu \in Threads \cup {NoThread}
  /\ begun \in Nat
  /\ ended \in [Slaves -> [Errors -> Nat]]
  /\ next \in 1..9
  /\ snap \in [Words -> Nat]
  /\ snapSlaves \in [Slaves -> [SlaveStats -> Nat]]
  /\ behind \in Nat

\* Every attempt is counted under exactly one result: the total is the sum of the
\* results and of the threads that stand between the two additions.
ResultsAddUp == words["opsTotal"] = SumOf(words) + Cardinality(At({"addResult"}))

\* The result an error has to be counted as.
Tag ==
  [e \in Errors |->
     CASE e = "nil" -> "success"
       [] e = "ModbusException" -> "exception"
       [] e = "modbus timeout" -> "timeout"
       [] e = "CRC error" -> "crc_error"
       [] e = "other error" -> "io_error"]

\* The attempts on s that ended with e and are not in the map yet.
Unrecorded(s, e) ==
  {t \in At({"addTotal", "addResult", "lockSlaves", "addClass"}) :
     cur[t] = [slave |-> s, err |-> e]}

\* No attempt is lost, counted twice, or counted for another slave or another kind
\* of outcome, however the recordings of several threads interleave.
EveryAttemptCounted ==
  \A s \in Slaves, e \in Errors :
    perSlave[s][Tag[e]] + Cardinality(Unrecorded(s, e)) = ended[s][e]

\* A snapshot is complete: its total exceeds the sum of its results only by threads
\* that stood between the two additions when the total was loaded, whatever was
\* recorded while the rest was read, and each slave's entry adds up exactly.
SnapshotAddsUp ==
  next = 1 =>
    /\ snap["opsTotal"] <= SumOf(snap) + behind
    /\ \A s \in Slaves : snapSlaves[s]["ops"] = SumOf(snapSlaves[s])

\* What one snapshot reports is never less than what the one before it reported:
\* the consumer publishes the numbers as counters.
SnapshotsGrow ==
  [][/\ \A w \in Words : snap'[w] >= snap[w]
     /\ \A s \in Slaves, c \in SlaveStats : snapSlaves'[s][c] >= snapSlaves[s][c]]_vars

\* A snapshot in which nothing was received since the last transmission tells of a
\* silence that was real when the second of the two stamps was read.
SilenceIsReal ==
  [][next <= 8 /\ next' = 9 /\ snap'["lastRx"] < snap'["lastTx"]
       => words["lastRx"] < snap'["lastTx"]]_vars
=============================================================================
