----------------------------- MODULE StatsProofs -----------------------------
(***************************************************************************)
(* Proofs about Stats, for any number of threads, slaves and attempts.     *)
(***************************************************************************)
EXTENDS Stats, FiniteSetTheorems, TLAPS

\* A thread in an attempt has one, with a slave and an error.
CurInv == \A t \in Threads : pc[t] # "idle" => cur[t] \in [slave : Slaves, err : Errors]

\* The mutex of the map is held by the thread between the two additions to it.
MapMutexInv == \A t \in Threads : pc[t] = "addClass" <=> perSlaveMu = t

\* The entry of s is between its two additions.
HalfAdded(s) == perSlaveMu # NoThread /\ cur[perSlaveMu].slave = s

\* An entry adds up, but for the attempt whose additions are under way.
EntriesInv ==
  \A s \in Slaves :
    perSlave[s]["ops"] = SumOf(perSlave[s]) + (IF HalfAdded(s) THEN 1 ELSE 0)

CopiesAddUp == \A s \in Slaves : snapSlaves[s]["ops"] = SumOf(snapSlaves[s])

\* A snapshot that is being made or complete is never ahead of the counters.
SnapInv ==
  /\ \A w \in Words : snap[w] <= words[w]
  /\ \A s \in Slaves, c \in SlaveStats : snapSlaves[s][c] <= perSlave[s][c]

\* The load that reads each result.
Position ==
  [r \in Results |->
     CASE r = "success" -> 2 [] r = "timeout" -> 3 [] r = "crc_error" -> 4
       [] r = "exception" -> 5 [] r = "io_error" -> 6]

\* What the snapshot has, or would have if it read the result now.
Seen == [r \in Results |-> IF next = 1 \/ next > Position[r] THEN snap[r] ELSE words[r]]

\* SnapshotAddsUp for a snapshot that is being made.
LagInv == snap["opsTotal"] <= SumOf(Seen) + behind

IInv ==
  /\ TypeOK /\ CurInv /\ MapMutexInv
  /\ ResultsAddUp /\ EveryAttemptCounted
  /\ EntriesInv /\ CopiesAddUp /\ SnapInv /\ LagInv

-----------------------------------------------------------------------------
\* The first load is the total, the next five are the results, each at its position.
LEMMA LoadsInOrder ==
  /\ \A i \in 1..8 : Loads[i] \in Words
  /\ Loads[1] = "opsTotal"
  /\ \A i \in 2..8 : Loads[i] # "opsTotal"
  /\ \A r \in Results : Position[r] \in 2..6 /\ Loads[Position[r]] = r
  /\ \A r \in Results, i \in 1..8 : Loads[i] = r => i = Position[r]
<1>1. Loads[1] = "opsTotal" /\ Loads[2] = "success" /\ Loads[3] = "timeout"
      /\ Loads[4] = "crc_error" /\ Loads[5] = "exception" /\ Loads[6] = "io_error"
      /\ Loads[7] = "lastTx" /\ Loads[8] = "lastRx"
  BY DEF Loads
<1>2. /\ Position["success"] = 2 /\ Position["timeout"] = 3 /\ Position["crc_error"] = 4
      /\ Position["exception"] = 5 /\ Position["io_error"] = 6
  BY DEF Position, Results
<1>3. \A i \in 1..8 : i = 1 \/ i = 2 \/ i = 3 \/ i = 4 \/ i = 5 \/ i = 6 \/ i = 7 \/ i = 8
  OBVIOUS
<1> QED
  BY <1>1, <1>2, <1>3 DEF Words, Results

\* The classification names a result, and it names the one the error stands for.
LEMMA Classified ==
  ASSUME NEW e
  PROVE  classifyResult(e) \in Results /\ (e \in Errors => classifyResult(e) = Tag[e])
BY DEF classifyResult, Mentions, Results, Errors, Tag

\* Two errors are never counted alike.
LEMMA TagsDiffer ==
  /\ \A e \in Errors : Tag[e] \in Results
  /\ \A d, e \in Errors : Tag[d] = Tag[e] => d = e
BY DEF Tag, Errors, Results

\* The sum changes with a result, and with nothing else.
LEMMA SumOfChanges ==
  ASSUME NEW D, Results \subseteq D, NEW f \in [D -> Nat], NEW w \in D, NEW n \in Nat,
         NEW g, g = [f EXCEPT ![w] = n]
  PROVE  /\ SumOf(f) \in Nat
         /\ SumOf(g) = SumOf(f) + (IF w \in Results THEN n - f[w] ELSE 0)
<1>1. \A r \in Results : f[r] \in Nat /\ g[r] = IF r = w THEN n ELSE f[r]
  OBVIOUS
<1>2. CASE w \notin Results
  BY <1>1, <1>2 DEF SumOf, Results
<1>3. CASE w \in Results
  BY <1>1, <1>3 DEF SumOf, Results
<1> QED BY <1>2, <1>3

\* A set that gains or loses one element.
LEMMA OneMore ==
  ASSUME NEW S, IsFiniteSet(S), NEW T, NEW x, x \notin S, T = S \cup {x}
  PROVE  Cardinality(T) = Cardinality(S) + 1 /\ Cardinality(S) \in Nat
BY FS_AddElement, FS_CardinalityType

LEMMA OneLess ==
  ASSUME NEW S, IsFiniteSet(S), NEW T, NEW x, x \in S, T = S \ {x}
  PROVE  Cardinality(T) = Cardinality(S) - 1 /\ Cardinality(S) \in Nat
BY FS_RemoveElement, FS_CardinalityType

\* The sets of threads that are counted are finite.
LEMMA ThreadSetsFinite ==
  /\ IsFiniteSet(At({"addResult"})) /\ Cardinality(At({"addResult"})) \in Nat
  /\ \A s, e : IsFiniteSet(Unrecorded(s, e)) /\ Cardinality(Unrecorded(s, e)) \in Nat
<1>1. At({"addResult"}) \subseteq Threads
  BY DEF At
<1>2. \A s, e : Unrecorded(s, e) \subseteq Threads
  BY DEF Unrecorded, At
<1> QED
  BY <1>1, <1>2, FS_Subset, FS_CardinalityType, StatsAssumption

-----------------------------------------------------------------------------
LEMMA InitIInv == Init => IInv
<1> SUFFICES ASSUME Init PROVE IInv
  OBVIOUS
<1>1. TypeOK
  BY StatsAssumption DEF Init, TypeOK, Labels, NoStats
<1>2. CurInv /\ MapMutexInv
  BY StatsAssumption DEF Init, CurInv, MapMutexInv
<1>3. At({"addResult"}) = {} /\ \A s, e : Unrecorded(s, e) = {}
  BY DEF Init, At, Unrecorded
<1>4. ResultsAddUp
  BY <1>3, FS_EmptySet DEF Init, ResultsAddUp, SumOf, Words, Results
<1>5. EveryAttemptCounted
  <2> SUFFICES ASSUME NEW s \in Slaves, NEW e \in Errors
               PROVE  perSlave[s][Tag[e]] + Cardinality(Unrecorded(s, e)) = ended[s][e]
    BY DEF EveryAttemptCounted
  <2>1. perSlave[s][Tag[e]] = 0
    BY TagsDiffer DEF Init, NoStats, SlaveStats
  <2>2. Cardinality(Unrecorded(s, e)) = 0
    BY <1>3, FS_EmptySet
  <2>3. ended[s][e] = 0
    BY DEF Init
  <2> QED BY <2>1, <2>2, <2>3
<1>6. EntriesInv /\ CopiesAddUp
  BY DEF Init, EntriesInv, CopiesAddUp, HalfAdded, SumOf, NoStats, SlaveStats, Results
<1>7. SnapInv
  BY DEF Init, SnapInv, NoStats
<1>8. LagInv
  BY DEF Init, LagInv, Seen, SumOf, Words, Results
<1> QED
  BY <1>1, <1>2, <1>4, <1>5, <1>6, <1>7, <1>8 DEF IInv

\* The types, and the threads' attempts.
LEMMA TypeStep ==
  ASSUME TypeOK, CurInv, [Next]_vars
  PROVE  TypeOK' /\ CurInv'
<1>0. CASE UNCHANGED vars
  BY <1>0 DEF TypeOK, CurInv, vars, attemptVars, snapVars
<1>1. ASSUME NEW t \in Threads, Begin(t) PROVE TypeOK' /\ CurInv'
  <2>1. PICK s \in Slaves : cur' = [cur EXCEPT ![t] = [slave |-> s, err |-> "nil"]]
    BY <1>1 DEF Begin
  <2>2. [slave |-> s, err |-> "nil"] \in [slave : Slaves, err : Errors]
    BY DEF Errors
  <2>3. cur' \in [Threads -> [slave : Slaves, err : Errors] \cup {NoAttempt}]
    BY <2>1, <2>2 DEF TypeOK
  <2>4. pc' \in [Threads -> Labels]
    BY <1>1 DEF TypeOK, Begin, Goto, Labels
  <2>5. TypeOK'
    BY <1>1, <2>3, <2>4 DEF TypeOK, Begin, snapVars
  <2>6. CurInv'
    BY <1>1, <2>1, <2>2 DEF TypeOK, CurInv, Begin, Goto
  <2> QED BY <2>5, <2>6
<1>2. ASSUME NEW t \in Threads, markTx(t) \/ markRx(t) PROVE TypeOK' /\ CurInv'
  <2>1. Now \in Nat
    BY DEF TypeOK, Now, Words
  <2>2. TypeOK'
    <3>1. pc' \in [Threads -> Labels]
      BY <1>2 DEF TypeOK, markTx, markRx, Mark, Goto, Labels
    <3>2. words' \in [Words -> Nat]
      BY <1>2, <2>1 DEF TypeOK, markTx, markRx, Mark
    <3> QED
      BY <1>2, <3>1, <3>2 DEF TypeOK, markTx, markRx, Mark, attemptVars, snapVars
  <2>3. CurInv'
    BY <1>2 DEF TypeOK, CurInv, markTx, markRx, Mark, Goto
  <2> QED BY <2>2, <2>3
<1>3. ASSUME NEW t \in Threads, EndAttempt(t) PROVE TypeOK' /\ CurInv'
  <2>1. PICK e \in PossibleErrors(pc[t]) :
          /\ cur' = [cur EXCEPT ![t].err = e]
          /\ ended' = [ended EXCEPT ![cur[t].slave][e] = @ + 1]
    BY <1>3 DEF EndAttempt
  <2>2. e \in Errors
    BY <2>1, <1>3 DEF PossibleErrors, Errors, EndAttempt
  <2>3. cur[t] \in [slave : Slaves, err : Errors]
    BY <1>3 DEF EndAttempt, CurInv
  <2>4. TypeOK'
    <3>1. pc' \in [Threads -> Labels]
      BY <1>3 DEF TypeOK, EndAttempt, Goto, Labels
    <3>2. cur' \in [Threads -> [slave : Slaves, err : Errors] \cup {NoAttempt}]
      BY <2>1, <2>2, <2>3 DEF TypeOK
    <3>3. ended' \in [Slaves -> [Errors -> Nat]]
      BY <2>1, <2>2, <2>3 DEF TypeOK
    <3> QED
      BY <1>3, <3>1, <3>2, <3>3 DEF TypeOK, EndAttempt, snapVars
  <2>5. CurInv'
    BY <1>3, <2>1, <2>2, <2>3 DEF TypeOK, CurInv, EndAttempt, Goto
  <2> QED BY <2>4, <2>5
<1>4. ASSUME NEW t \in Threads, AddTotal(t) \/ AddResult(t) PROVE TypeOK' /\ CurInv'
  <2>1. "opsTotal" \in Words /\ ResultOf(t) \in Words
    BY Classified DEF ResultOf, Words
  <2>2. TypeOK'
    <3>1. pc' \in [Threads -> Labels]
      BY <1>4 DEF TypeOK, AddTotal, AddResult, Add, Goto, Labels
    <3>2. words' \in [Words -> Nat]
      BY <1>4, <2>1 DEF TypeOK, AddTotal, AddResult, Add
    <3> QED
      BY <1>4, <3>1, <3>2 DEF TypeOK, AddTotal, AddResult, Add, attemptVars, snapVars
  <2>3. CurInv'
    BY <1>4 DEF TypeOK, CurInv, AddTotal, AddResult, Add, Goto
  <2> QED BY <2>2, <2>3
<1>5. ASSUME NEW t \in Threads, AddOps(t) PROVE TypeOK' /\ CurInv'
  <2>1. cur[t] \in [slave : Slaves, err : Errors]
    BY <1>5 DEF AddOps, CountOps, CurInv
  <2>2. TypeOK'
    <3>1. pc' \in [Threads -> Labels]
      BY <1>5 DEF TypeOK, AddOps, CountOps, Goto, Labels
    <3>2. perSlave' \in [Slaves -> [SlaveStats -> Nat]]
      <4> DEFINE entry == perSlave[cur[t].slave]
      <4>1. entry \in [SlaveStats -> Nat] /\ "ops" \in SlaveStats
        BY <2>1 DEF TypeOK, SlaveStats
      <4>2. [entry EXCEPT !["ops"] = @ + 1] \in [SlaveStats -> Nat]
        BY <4>1
      <4> QED
        BY <1>5, <2>1, <4>2 DEF TypeOK, AddOps, CountOps
    <3> QED
      BY <1>5, <3>1, <3>2 DEF TypeOK, AddOps, CountOps, attemptVars, snapVars
  <2>3. CurInv'
    BY <1>5 DEF TypeOK, CurInv, AddOps, CountOps, Goto
  <2> QED BY <2>2, <2>3
<1>6. ASSUME NEW t \in Threads, AddClass(t) PROVE TypeOK' /\ CurInv'
  <2>1. cur[t] \in [slave : Slaves, err : Errors]
    BY <1>6 DEF AddClass, CountClass, CurInv
  <2>2. ResultOf(t) \in SlaveStats
    BY Classified DEF ResultOf, SlaveStats
  <2>3. TypeOK'
    <3>1. pc' \in [Threads -> Labels]
      BY <1>6 DEF TypeOK, AddClass, CountClass, Goto, Labels
    <3>2. perSlave' \in [Slaves -> [SlaveStats -> Nat]]
      BY <1>6, <2>1, <2>2 DEF TypeOK, AddClass, CountClass
    <3>3. cur' \in [Threads -> [slave : Slaves, err : Errors] \cup {NoAttempt}]
      BY <1>6 DEF TypeOK, AddClass, CountClass
    <3> QED
      BY <1>6, <3>1, <3>2, <3>3 DEF TypeOK, AddClass, CountClass, attemptVars, snapVars
  <2>4. CurInv'
    BY <1>6 DEF TypeOK, CurInv, AddClass, CountClass, Goto
  <2> QED BY <2>3, <2>4
<1>7. CASE Load
  <2>1. Cardinality(At({"addResult"})) \in Nat
    BY ThreadSetsFinite
  <2>2. Loads[next] \in Words
    BY <1>7, LoadsInOrder DEF Load, TypeOK
  <2> QED
    BY <1>7, <2>1, <2>2 DEF TypeOK, CurInv, Load, attemptVars
<1>8. CASE CopySlaves
  BY <1>8 DEF TypeOK, CurInv, CopySlaves, CopyMap, attemptVars
<1> QED
  BY <1>0, <1>1, <1>2, <1>3, <1>4, <1>5, <1>6, <1>7, <1>8
     DEF Next, sendOnce, record, snapshot

-----------------------------------------------------------------------------
\* The mutex of the map follows the thread that adds to it.
LEMMA MutexStep ==
  ASSUME TypeOK, MapMutexInv, [Next]_vars
  PROVE  MapMutexInv'
<1>0. CASE UNCHANGED vars
  BY <1>0 DEF MapMutexInv, vars
<1>1. ASSUME NEW t \in Threads,
             Begin(t) \/ markTx(t) \/ markRx(t) \/ EndAttempt(t) \/ AddTotal(t) \/ AddResult(t)
      PROVE  MapMutexInv'
  BY <1>1 DEF MapMutexInv, TypeOK, Goto, Begin, markTx, markRx, Mark, EndAttempt, AddTotal,
              AddResult, Add
<1>2. ASSUME NEW t \in Threads, AddOps(t) PROVE MapMutexInv'
  BY <1>2, StatsAssumption DEF MapMutexInv, TypeOK, Goto, AddOps, CountOps
<1>3. ASSUME NEW t \in Threads, AddClass(t) PROVE MapMutexInv'
  BY <1>3, StatsAssumption DEF MapMutexInv, TypeOK, Goto, AddClass, CountClass
<1>4. CASE snapshot
  BY <1>4 DEF MapMutexInv, snapshot, Load, CopySlaves, CopyMap
<1> QED
  BY <1>0, <1>1, <1>2, <1>3, <1>4 DEF Next, sendOnce, record

\* No word and no entry ever falls.
LEMMA CountersGrow ==
  ASSUME TypeOK, CurInv, [Next]_vars
  PROVE  /\ \A w \in Words : words'[w] >= words[w]
         /\ \A s \in Slaves, c \in SlaveStats : perSlave'[s][c] >= perSlave[s][c]
<1>0. CASE UNCHANGED <<words, perSlave>>
  BY <1>0 DEF TypeOK
<1>1. ASSUME NEW t \in Threads, markTx(t) \/ markRx(t)
      PROVE  perSlave' = perSlave /\ \A w \in Words : words'[w] >= words[w]
  <2>1. Now \in Nat /\ Now >= words["lastTx"] /\ Now >= words["lastRx"]
    BY DEF TypeOK, Words, Now
  <2> QED
    BY <1>1, <2>1 DEF TypeOK, markTx, markRx, Mark
<1>2. ASSUME NEW t \in Threads, AddTotal(t) \/ AddResult(t)
      PROVE  perSlave' = perSlave /\ \A w \in Words : words'[w] >= words[w]
  <2>1. PICK w \in Words : words' = [words EXCEPT ![w] = @ + 1]
    BY <1>2, Classified DEF AddTotal, AddResult, Add, ResultOf, Words
  <2> QED
    BY <1>2, <2>1 DEF TypeOK, AddTotal, AddResult, Add
<1>3. ASSUME NEW t \in Threads, AddOps(t)
      PROVE  words' = words /\ \A s \in Slaves, c \in SlaveStats :
                                 perSlave'[s][c] >= perSlave[s][c]
  BY <1>3 DEF TypeOK, AddOps, CountOps
<1>4. ASSUME NEW t \in Threads, AddClass(t)
      PROVE  words' = words /\ \A s \in Slaves, c \in SlaveStats :
                                 perSlave'[s][c] >= perSlave[s][c]
  BY <1>4 DEF TypeOK, AddClass, CountClass
<1>5. ASSUME NEW t \in Threads, Begin(t) \/ EndAttempt(t)
      PROVE  UNCHANGED <<words, perSlave>>
  BY <1>5 DEF Begin, EndAttempt
<1>6. CASE snapshot
  BY <1>6, <1>0 DEF snapshot, Load, CopySlaves, CopyMap
<1>7. CASE UNCHANGED vars
  BY <1>7, <1>0 DEF vars
<1> QED
  BY <1>0, <1>1, <1>2, <1>3, <1>4, <1>5, <1>6, <1>7
     DEF TypeOK, Next, sendOnce, record

\* The total is the sum of the results and of the threads between the two.
LEMMA AddUpStep ==
  ASSUME TypeOK, ResultsAddUp, [Next]_vars
  PROVE  ResultsAddUp'
<1> DEFINE between == At({"addResult"})
<1>0. IsFiniteSet(between) /\ Cardinality(between) \in Nat
  BY ThreadSetsFinite
<1>a. Results \subseteq Words /\ "opsTotal" \in Words \ Results
      /\ "lastTx" \in Words \ Results /\ "lastRx" \in Words \ Results
  BY DEF Words, Results
<1>b. words \in [Words -> Nat]
  BY DEF TypeOK
<1>1. ASSUME words' = words, between' = between PROVE ResultsAddUp'
  BY <1>1 DEF ResultsAddUp, SumOf
<1>2. ASSUME NEW t \in Threads, Begin(t) \/ EndAttempt(t) \/ AddOps(t) \/ AddClass(t)
      PROVE  words' = words /\ between' = between
  BY <1>2 DEF TypeOK, At, Goto, Begin, EndAttempt, AddOps, CountOps, AddClass, CountClass
<1>3. ASSUME NEW t \in Threads, markTx(t) \/ markRx(t) PROVE ResultsAddUp'
  <2>1. between' = between
    BY <1>3 DEF TypeOK, At, Goto, markTx, markRx, Mark
  <2>2. Now \in Nat
    BY <1>b, <1>a DEF Now
  <2>3. SumOf(words') = SumOf(words)
    <3>1. PICK w \in {"lastTx", "lastRx"} : words' = [words EXCEPT ![w] = Now]
      BY <1>3 DEF markTx, markRx, Mark
    <3>2. SumOf(words) \in Nat /\ SumOf(words') = SumOf(words) + 0
      BY <1>a, <1>b, <2>2, <3>1, SumOfChanges
    <3> QED BY <3>2
  <2>4. words'["opsTotal"] = words["opsTotal"]
    BY <1>3, <1>a, <1>b DEF markTx, markRx, Mark
  <2> QED
    BY <2>1, <2>3, <2>4 DEF ResultsAddUp
<1>4. ASSUME NEW t \in Threads, AddTotal(t) PROVE ResultsAddUp'
  <2>1. t \notin between /\ between' = between \cup {t}
    BY <1>4 DEF TypeOK, At, Goto, AddTotal, Add
  <2>2. Cardinality(between') = Cardinality(between) + 1
    BY <1>0, <2>1, OneMore
  <2>3. words' = [words EXCEPT !["opsTotal"] = @ + 1]
    BY <1>4 DEF AddTotal, Add
  <2>4. words["opsTotal"] + 1 \in Nat /\ words' = [words EXCEPT !["opsTotal"] = words["opsTotal"] + 1]
    BY <2>3, <1>a, <1>b
  <2>5. SumOf(words') = SumOf(words) /\ SumOf(words) \in Nat
    <3>1. PICK n \in Nat : words' = [words EXCEPT !["opsTotal"] = n]
      BY <2>4
    <3>2. SumOf(words) \in Nat /\ SumOf(words') = SumOf(words) + 0
      BY <3>1, <1>a, <1>b, SumOfChanges
    <3> QED BY <3>2
  <2>6. words'["opsTotal"] = words["opsTotal"] + 1
    BY <2>4, <1>a, <1>b
  <2> QED
    BY <1>0, <1>a, <1>b, <2>2, <2>5, <2>6 DEF ResultsAddUp
<1>5. ASSUME NEW t \in Threads, AddResult(t) PROVE ResultsAddUp'
  <2>1. t \in between /\ between' = between \ {t}
    BY <1>5 DEF TypeOK, At, Goto, AddResult, Add
  <2>2. Cardinality(between') = Cardinality(between) - 1
    BY <1>0, <2>1, OneLess
  <2>3. ResultOf(t) \in Results
    BY Classified DEF ResultOf
  <2>4. SumOf(words') = SumOf(words) + 1 /\ SumOf(words) \in Nat
    <3>1. PICK r \in Results : words' = [words EXCEPT ![r] = words[r] + 1]
      BY <1>5, <2>3 DEF AddResult, Add
    <3>2. PICK n \in Nat : n = words[r] + 1
      BY <1>a, <1>b
    <3>3. words' = [words EXCEPT ![r] = n] /\ r \in Words
      BY <3>1, <3>2, <1>a
    <3>4. SumOf(words) \in Nat /\ SumOf(words') = SumOf(words) + (n - words[r])
      BY <3>3, <1>a, <1>b, SumOfChanges
    <3> QED BY <1>a, <1>b, <3>2, <3>4
  <2>5. words'["opsTotal"] = words["opsTotal"]
    BY <1>5, <1>a, <1>b, <2>3 DEF AddResult, Add
  <2> QED
    BY <1>0, <1>a, <1>b, <2>2, <2>4, <2>5 DEF ResultsAddUp
<1>6. CASE snapshot \/ UNCHANGED vars
  BY <1>6, <1>1 DEF snapshot, Load, CopySlaves, CopyMap, At, vars
<1> QED
  BY <1>1, <1>2, <1>3, <1>4, <1>5, <1>6 DEF Next, sendOnce, record

\* Every attempt that ended is in the map or on its way to it.
LEMMA CountedStep ==
  ASSUME TypeOK, CurInv, EveryAttemptCounted, [Next]_vars
  PROVE  EveryAttemptCounted'
<1> SUFFICES ASSUME NEW s \in Slaves, NEW e \in Errors
             PROVE  (perSlave[s][Tag[e]] + Cardinality(Unrecorded(s, e)) = ended[s][e])'
  BY DEF EveryAttemptCounted
<1> DEFINE waiting == Unrecorded(s, e)
           counted == perSlave[s][Tag[e]]
<1>a. IsFiniteSet(waiting) /\ Cardinality(waiting) \in Nat
  BY ThreadSetsFinite
<1>b. Tag[e] \in Results /\ Tag[e] # "ops" /\ Tag[e] \in SlaveStats
  BY TagsDiffer DEF Results, SlaveStats
<1>c. counted \in Nat /\ ended[s][e] \in Nat
  BY <1>b DEF TypeOK
<1>d. counted + Cardinality(waiting) = ended[s][e]
  BY DEF EveryAttemptCounted
<1>1. ASSUME counted' = counted, waiting' = waiting, ended' = ended
      PROVE  (counted + Cardinality(waiting) = ended[s][e])'
  BY <1>1, <1>d
<1>2. ASSUME NEW t \in Threads, Begin(t) \/ markTx(t) \/ markRx(t) \/ AddTotal(t) \/ AddResult(t)
      PROVE  counted' = counted /\ waiting' = waiting /\ ended' = ended
  <2>1. \A u \in Threads : pc'[u] \in {"addTotal", "addResult", "lockSlaves", "addClass"}
          <=> pc[u] \in {"addTotal", "addResult", "lockSlaves", "addClass"}
    BY <1>2 DEF TypeOK, Goto, Begin, markTx, markRx, Mark, AddTotal, AddResult, Add
  <2>2. \A u \in Threads : pc'[u] \in {"addTotal", "addResult", "lockSlaves", "addClass"}
          => cur'[u] = cur[u]
    BY <1>2 DEF TypeOK, Goto, Begin, markTx, markRx, Mark, AddTotal, AddResult, Add
  <2>3. perSlave' = perSlave /\ ended' = ended
    BY <1>2 DEF Begin, markTx, markRx, Mark, AddTotal, AddResult, Add, attemptVars
  <2> QED
    BY <2>1, <2>2, <2>3 DEF Unrecorded, At
<1>3. ASSUME NEW t \in Threads, EndAttempt(t)
      PROVE  (counted + Cardinality(waiting) = ended[s][e])'
  <2>1. PICK d \in PossibleErrors(pc[t]) :
          /\ cur' = [cur EXCEPT ![t].err = d]
          /\ ended' = [ended EXCEPT ![cur[t].slave][d] = @ + 1]
    BY <1>3 DEF EndAttempt
  <2>2. cur[t] \in [slave : Slaves, err : Errors] /\ d \in Errors
    BY <2>1, <1>3 DEF EndAttempt, CurInv, PossibleErrors, Errors
  <2>3. cur'[t] = [slave |-> cur[t].slave, err |-> d] /\ \A u \in Threads \ {t} : cur'[u] = cur[u]
    BY <2>1, <2>2 DEF TypeOK
  <2>4. t \notin waiting /\ counted' = counted
    BY <1>3 DEF EndAttempt, Unrecorded, At
  <2>5. pc' = [pc EXCEPT ![t] = "addTotal"]
    BY <1>3 DEF EndAttempt, Goto
  <2>6. CASE cur[t].slave = s /\ d = e
    <3>1. waiting' = waiting \cup {t}
      BY <2>3, <2>5, <2>6 DEF Unrecorded, At, TypeOK
    <3>2. ended'[s][e] = ended[s][e] + 1
      BY <2>1, <2>2, <2>6 DEF TypeOK
    <3>3. Cardinality(waiting') = Cardinality(waiting) + 1
      BY <3>1, <2>4, <1>a, OneMore
    <3> QED BY <3>2, <3>3, <2>4, <1>a, <1>c, <1>d
  <2>7. CASE ~(cur[t].slave = s /\ d = e)
    <3>1. waiting' = waiting
      BY <2>3, <2>4, <2>5, <2>7 DEF Unrecorded, At, TypeOK
    <3>2. ended'[s][e] = ended[s][e]
      BY <2>1, <2>2, <2>7 DEF TypeOK
    <3> QED BY <3>1, <3>2, <2>4, <1>d
  <2> QED BY <2>6, <2>7
<1>4. ASSUME NEW t \in Threads, AddOps(t)
      PROVE  counted' = counted /\ waiting' = waiting /\ ended' = ended
  <2>1. cur' = cur /\ pc' = [pc EXCEPT ![t] = "addClass"] /\ pc[t] = "lockSlaves" /\ ended' = ended
    BY <1>4 DEF AddOps, CountOps, Goto, attemptVars
  <2>2. waiting' = waiting
    BY <2>1 DEF Unrecorded, At, TypeOK
  <2>3. counted' = counted
    BY <1>4, <1>b DEF AddOps, CountOps, TypeOK
  <2> QED BY <2>1, <2>2, <2>3
<1>5. ASSUME NEW t \in Threads, AddClass(t)
      PROVE  (counted + Cardinality(waiting) = ended[s][e])'
  <2>1. cur[t] \in [slave : Slaves, err : Errors]
    BY <1>5 DEF AddClass, CountClass, CurInv
  <2>2. ResultOf(t) = Tag[cur[t].err] /\ ResultOf(t) \in SlaveStats
    BY <2>1, Classified DEF ResultOf, SlaveStats
  <2>3. perSlave' = [perSlave EXCEPT ![cur[t].slave][ResultOf(t)] = @ + 1] /\ ended' = ended
    BY <1>5 DEF AddClass, CountClass, attemptVars
  <2>4. pc' = [pc EXCEPT ![t] = "idle"] /\ cur' = [cur EXCEPT ![t] = NoAttempt]
    BY <1>5 DEF AddClass, CountClass, Goto
  <2>5. CASE cur[t] = [slave |-> s, err |-> e]
    <3>1. t \in waiting /\ waiting' = waiting \ {t}
      BY <1>5, <2>4, <2>5 DEF Unrecorded, At, TypeOK, AddClass, CountClass
    <3>2. Cardinality(waiting') = Cardinality(waiting) - 1
      BY <3>1, <1>a, OneLess
    <3>3. counted' = counted + 1
      BY <2>2, <2>3, <2>5, <1>b DEF TypeOK
    <3> QED BY <2>3, <3>2, <3>3, <1>a, <1>c, <1>d
  <2>6. CASE cur[t] # [slave |-> s, err |-> e]
    <3>1. waiting' = waiting
      BY <2>4, <2>6 DEF Unrecorded, At, TypeOK
    <3>2. cur[t].slave # s \/ cur[t].err # e
      BY <2>1, <2>6
    <3>3. cur[t].slave # s \/ ResultOf(t) # Tag[e]
      BY <2>1, <2>2, <3>2, TagsDiffer
    <3>4. counted' = counted
      BY <2>1, <2>2, <2>3, <3>3, <1>b DEF TypeOK
    <3> QED BY <2>3, <3>1, <3>4, <1>d
  <2> QED BY <2>5, <2>6
<1>6. CASE snapshot \/ UNCHANGED vars
  BY <1>6, <1>1 DEF snapshot, Load, CopySlaves, CopyMap, Unrecorded, At, vars, attemptVars
<1> QED
  BY <1>1, <1>2, <1>3, <1>4, <1>5, <1>6 DEF Next, sendOnce, record

\* Outside its two additions an entry adds up, and so does a copy made then.
LEMMA EntriesStep ==
  ASSUME TypeOK, CurInv, MapMutexInv, EntriesInv, CopiesAddUp, [Next]_vars
  PROVE  EntriesInv' /\ CopiesAddUp'
<1>a. Results \subseteq SlaveStats /\ "ops" \in SlaveStats \ Results
  BY DEF Results, SlaveStats
<1>b. \A s \in Slaves : perSlave[s] \in [SlaveStats -> Nat]
  BY DEF TypeOK
<1>1. ASSUME perSlave' = perSlave, perSlaveMu' = perSlaveMu, snapSlaves' = snapSlaves,
             perSlaveMu # NoThread => cur'[perSlaveMu] = cur[perSlaveMu]
      PROVE  EntriesInv' /\ CopiesAddUp'
  BY <1>1 DEF EntriesInv, CopiesAddUp, HalfAdded, SumOf
<1>2. ASSUME NEW t \in Threads,
             Begin(t) \/ markTx(t) \/ markRx(t) \/ EndAttempt(t) \/ AddTotal(t) \/ AddResult(t)
      PROVE  EntriesInv' /\ CopiesAddUp'
  <2>1. perSlave' = perSlave /\ perSlaveMu' = perSlaveMu /\ snapSlaves' = snapSlaves
    BY <1>2 DEF Begin, markTx, markRx, Mark, EndAttempt, AddTotal, AddResult, Add, snapVars
  <2>2. perSlaveMu # t
    BY <1>2 DEF MapMutexInv, Begin, markTx, markRx, Mark, EndAttempt, AddTotal, AddResult, Add
  <2>3. perSlaveMu # NoThread => perSlaveMu \in Threads
    BY DEF TypeOK
  <2>4. perSlaveMu # NoThread => cur'[perSlaveMu] = cur[perSlaveMu]
    BY <1>2, <2>2, <2>3 DEF TypeOK, Begin, markTx, markRx, Mark, EndAttempt, AddTotal, AddResult, Add
  <2> QED BY <1>1, <2>1, <2>4
<1>3. ASSUME NEW t \in Threads, AddOps(t) PROVE EntriesInv' /\ CopiesAddUp'
  <2>1. PICK x \in Slaves : x = cur[t].slave
    BY <1>3 DEF AddOps, CountOps, CurInv
  <2>2. /\ perSlave' = [perSlave EXCEPT ![x] = [perSlave[x] EXCEPT !["ops"] = @ + 1]]
        /\ perSlaveMu = NoThread /\ perSlaveMu' = t /\ cur' = cur /\ snapSlaves' = snapSlaves
    BY <1>3, <2>1 DEF AddOps, CountOps, snapVars
  <2>3. \A s \in Slaves : HalfAdded(s)' <=> s = x
    BY <2>1, <2>2, StatsAssumption DEF HalfAdded
  <2>4. \A s \in Slaves : ~HalfAdded(s)
    BY <2>2 DEF HalfAdded
  <2>5. perSlave'[x]["ops"] = perSlave[x]["ops"] + 1 /\ SumOf(perSlave'[x]) = SumOf(perSlave[x])
    <3>1. perSlave[x]["ops"] \in Nat
      BY <1>a, <1>b
    <3>2. PICK n \in Nat : n = perSlave[x]["ops"] + 1
      BY <3>1
    <3>3. perSlave'[x] = [perSlave[x] EXCEPT !["ops"] = n]
      BY <2>2, <3>2 DEF TypeOK
    <3>4. "ops" \in SlaveStats /\ "ops" \notin Results /\ perSlave[x] \in [SlaveStats -> Nat]
      BY <1>a, <1>b
    <3>5. \A r \in Results : perSlave'[x][r] = perSlave[x][r]
      BY <3>3, <3>4, <1>a
    <3>6. SumOf(perSlave'[x]) = SumOf(perSlave[x])
      BY <3>5 DEF SumOf, Results
    <3> QED BY <3>2, <3>3, <3>4, <3>6
  <2>6. \A s \in Slaves \ {x} : perSlave'[s] = perSlave[s]
    BY <2>2 DEF TypeOK
  <2>7. EntriesInv'
    <3> SUFFICES ASSUME NEW s \in Slaves
                 PROVE  (perSlave[s]["ops"] = SumOf(perSlave[s]) + (IF HalfAdded(s) THEN 1 ELSE 0))'
      BY DEF EntriesInv
    <3>1. perSlave[s]["ops"] = SumOf(perSlave[s]) + 0
      BY <2>4 DEF EntriesInv
    <3>2. perSlave[s]["ops"] \in Nat
      BY <1>a, <1>b
    <3>3. SumOf(perSlave[s]) = perSlave[s]["ops"]
      <4>1. SumOf(perSlave[s]) \in Nat
        <5>1. \A r \in Results : perSlave[s][r] \in Nat
          BY <1>a, <1>b
        <5> QED BY <5>1 DEF SumOf, Results
      <4> QED BY <3>1, <4>1
    <3>4. CASE s = x
      BY <2>3, <2>5, <3>2, <3>3, <3>4
    <3>5. CASE s # x
      <4>1. perSlave'[s] = perSlave[s] /\ ~HalfAdded(s)'
        BY <2>3, <2>6, <3>5
      <4>2. SumOf(perSlave'[s]) = SumOf(perSlave[s])
        BY <4>1
      <4> QED BY <3>2, <3>3, <4>1, <4>2
    <3> QED BY <3>4, <3>5
  <2>8. CopiesAddUp'
    BY <2>2 DEF CopiesAddUp, SumOf
  <2> QED BY <2>7, <2>8
<1>4. ASSUME NEW t \in Threads, AddClass(t) PROVE EntriesInv' /\ CopiesAddUp'
  <2>1. PICK x \in Slaves : x = cur[t].slave
    BY <1>4 DEF AddClass, CountClass, CurInv
  <2>2. PICK r \in Results : r = ResultOf(t)
    BY Classified DEF ResultOf
  <2>3. /\ perSlave' = [perSlave EXCEPT ![x][r] = @ + 1]
        /\ perSlaveMu = t /\ perSlaveMu' = NoThread /\ snapSlaves' = snapSlaves
    BY <1>4, <2>1, <2>2 DEF AddClass, CountClass, snapVars, MapMutexInv
  <2>4. \A s \in Slaves : HalfAdded(s) <=> s = x
    BY <2>1, <2>3, StatsAssumption DEF HalfAdded
  <2>5. \A s \in Slaves : ~HalfAdded(s)'
    BY <2>3 DEF HalfAdded
  <2>6. /\ perSlave'[x]["ops"] = perSlave[x]["ops"]
        /\ SumOf(perSlave'[x]) = SumOf(perSlave[x]) + 1 /\ SumOf(perSlave[x]) \in Nat
    <3>1. perSlave[x][r] \in Nat /\ r \in SlaveStats /\ r # "ops"
      BY <1>a, <1>b
    <3>2. PICK n \in Nat : n = perSlave[x][r] + 1
      BY <3>1
    <3>3. perSlave'[x] = [perSlave[x] EXCEPT ![r] = n]
      BY <2>3, <3>1, <3>2 DEF TypeOK
    <3>4. SumOf(perSlave[x]) \in Nat /\ SumOf(perSlave'[x]) = SumOf(perSlave[x]) + (n - perSlave[x][r])
      BY <3>1, <3>3, <1>a, <1>b, SumOfChanges
    <3> QED BY <3>1, <3>2, <3>3, <3>4, <1>b
  <2>7. \A s \in Slaves \ {x} : perSlave'[s] = perSlave[s]
    BY <2>3 DEF TypeOK
  <2>8. EntriesInv'
    <3> SUFFICES ASSUME NEW s \in Slaves
                 PROVE  (perSlave[s]["ops"] = SumOf(perSlave[s]) + (IF HalfAdded(s) THEN 1 ELSE 0))'
      BY DEF EntriesInv
    <3>1. CASE s = x
      <4>1. perSlave[x]["ops"] = SumOf(perSlave[x]) + 1
        BY <2>4 DEF EntriesInv
      <4>2. SumOf(perSlave'[x]) \in Nat /\ SumOf(perSlave'[x]) = SumOf(perSlave'[x]) + 0
        BY <2>6
      <4> QED BY <2>5, <2>6, <3>1, <4>1, <4>2
    <3>2. CASE s # x
      <4>1. perSlave[s]["ops"] = SumOf(perSlave[s]) + 0
        BY <2>4, <3>2 DEF EntriesInv
      <4>2. perSlave'[s] = perSlave[s]
        BY <2>7, <3>2
      <4>3. SumOf(perSlave'[s]) = SumOf(perSlave[s])
        BY <4>2
      <4> QED BY <2>5, <4>1, <4>2, <4>3
    <3> QED BY <3>1, <3>2
  <2>9. CopiesAddUp'
    BY <2>3 DEF CopiesAddUp, SumOf
  <2> QED BY <2>8, <2>9
<1>5. CASE CopySlaves
  <2>1. perSlaveMu = NoThread /\ snapSlaves' = perSlave /\ perSlave' = perSlave
        /\ perSlaveMu' = perSlaveMu /\ cur' = cur
    BY <1>5 DEF CopySlaves, CopyMap
  <2>2. EntriesInv'
    BY <2>1 DEF EntriesInv, HalfAdded, SumOf
  <2>3. \A s \in Slaves : perSlave[s]["ops"] = SumOf(perSlave[s]) + 0
    BY <2>1 DEF EntriesInv, HalfAdded
  <2>4. \A s \in Slaves : SumOf(perSlave[s]) \in Nat
    <3> SUFFICES ASSUME NEW s \in Slaves PROVE SumOf(perSlave[s]) \in Nat
      OBVIOUS
    <3>1. \A r \in Results : perSlave[s][r] \in Nat
      BY <1>a, <1>b
    <3> QED BY <3>1 DEF SumOf, Results
  <2>5. CopiesAddUp'
    BY <2>1, <2>3, <2>4 DEF CopiesAddUp, SumOf
  <2> QED BY <2>2, <2>5
<1>6. CASE Load \/ UNCHANGED vars
  BY <1>6, <1>1 DEF Load, vars, snapVars
<1> QED
  BY <1>2, <1>3, <1>4, <1>5, <1>6 DEF Next, sendOnce, record, snapshot

\* What a snapshot has read stays behind the counters, which never fall.
LEMMA SnapStep ==
  ASSUME TypeOK, CurInv, SnapInv, [Next]_vars
  PROVE  SnapInv'
<1>1. /\ \A w \in Words : words'[w] >= words[w]
      /\ \A s \in Slaves, c \in SlaveStats : perSlave'[s][c] >= perSlave[s][c]
  BY CountersGrow
<1>2. TypeOK'
  BY TypeStep
<1>3. CASE UNCHANGED <<snap, snapSlaves>>
  <2>1. \A w \in Words : snap'[w] <= words'[w]
    BY <1>1, <1>2, <1>3 DEF SnapInv, TypeOK
  <2>2. \A s \in Slaves, c \in SlaveStats : snapSlaves'[s][c] <= perSlave'[s][c]
    <3> SUFFICES ASSUME NEW s \in Slaves, NEW c \in SlaveStats
                 PROVE  snapSlaves'[s][c] <= perSlave'[s][c]
      OBVIOUS
    <3>1. snapSlaves[s][c] \in Nat /\ perSlave[s][c] \in Nat /\ perSlave'[s][c] \in Nat
      BY <1>2 DEF TypeOK
    <3>2. snapSlaves[s][c] <= perSlave[s][c] /\ perSlave'[s][c] >= perSlave[s][c]
      BY <1>1 DEF SnapInv
    <3> QED BY <1>3, <3>1, <3>2
  <2> QED BY <2>1, <2>2 DEF SnapInv
<1>4. CASE Load
  BY <1>4, LoadsInOrder DEF SnapInv, TypeOK, Load
<1>5. CASE CopySlaves
  BY <1>5 DEF SnapInv, TypeOK, CopySlaves, CopyMap
<1> QED
  BY <1>3, <1>4, <1>5 DEF Next, sendOnce, record, snapshot, Begin, markTx, markRx, Mark,
     EndAttempt, AddTotal, AddResult, Add, AddOps, CountOps, AddClass, CountClass, vars, snapVars

\* The total of a snapshot stays covered while its results are read.
LEMMA LagStep ==
  ASSUME TypeOK, CurInv, ResultsAddUp, LagInv, [Next]_vars
  PROVE  LagInv'
<1>a. Results \subseteq Words /\ "opsTotal" \in Words
  BY DEF Words, Results
<1>b. TypeOK'
  BY TypeStep
<1>c. /\ \A r \in Results : Seen[r] = IF next = 1 \/ next > Position[r] THEN snap[r] ELSE words[r]
      /\ \A r \in Results : Seen'[r] = IF next' = 1 \/ next' > Position[r] THEN snap'[r] ELSE words'[r]
  BY DEF Seen
<1>d. \A r \in Results : Seen[r] \in Nat /\ Seen'[r] \in Nat
  BY <1>a, <1>b, <1>c DEF TypeOK
<1>1. ASSUME \A r \in Results : Seen'[r] >= Seen[r],
             snap'["opsTotal"] = snap["opsTotal"], behind' = behind
      PROVE  LagInv'
  <2>1. SumOf(Seen') >= SumOf(Seen) /\ SumOf(Seen) \in Nat /\ SumOf(Seen') \in Nat
    BY <1>1, <1>d DEF SumOf, Results
  <2> QED
    BY <1>1, <1>a, <2>1 DEF LagInv, TypeOK
<1>2. CASE UNCHANGED snapVars
  <2>1. \A r \in Results : Seen'[r] >= Seen[r]
    BY <1>2, <1>a, <1>c, <1>d, CountersGrow DEF snapVars, TypeOK
  <2> QED BY <1>1, <1>2, <2>1 DEF snapVars
<1>3. CASE Load /\ next = 1
  <2>1. snap' = [snap EXCEPT !["opsTotal"] = words["opsTotal"]] /\ next' = 2 /\ words' = words
        /\ behind' = Cardinality(At({"addResult"}))
    BY <1>3, LoadsInOrder DEF Load
  <2>2. \A r \in Results : Seen'[r] = words[r]
    BY <1>c, <2>1, LoadsInOrder
  <2>3. SumOf(Seen') = SumOf(words)
    BY <2>2 DEF SumOf, Results
  <2>4. snap'["opsTotal"] = words["opsTotal"]
    BY <2>1, <1>a DEF TypeOK
  <2>5. SumOf(words) \in Nat /\ behind' \in Nat
    BY <1>a, <1>b DEF TypeOK, SumOf, Results
  <2> QED
    BY <2>1, <2>3, <2>4, <2>5 DEF LagInv, ResultsAddUp
<1>4. CASE Load /\ next # 1
  <2>1. next \in 2..8 /\ next' = next + 1 /\ words' = words
        /\ snap' = [snap EXCEPT ![Loads[next]] = words[Loads[next]]]
    BY <1>4 DEF Load, TypeOK
  <2>2. Loads[next] # "opsTotal" /\ behind' = behind /\ snap'["opsTotal"] = snap["opsTotal"]
    BY <1>4, <1>a, <2>1, LoadsInOrder DEF Load, TypeOK
  <2>3. ASSUME NEW r \in Results PROVE Seen'[r] = Seen[r]
    <3>1. Position[r] \in 2..6 /\ (Loads[next] = r => next = Position[r])
          /\ (next = Position[r] => Loads[next] = r)
      BY <2>1, LoadsInOrder
    <3>2. CASE next = Position[r]
      BY <1>a, <1>c, <2>1, <3>1, <3>2 DEF TypeOK
    <3>3. CASE next # Position[r]
      <4>1. snap'[r] = snap[r]
        BY <1>a, <2>1, <3>1, <3>3 DEF TypeOK
      <4>2. next > Position[r] <=> next' > Position[r]
        BY <2>1, <3>1, <3>3
      <4> QED BY <1>c, <2>1, <4>1, <4>2
    <3> QED BY <3>2, <3>3
  <2> QED BY <1>1, <1>d, <2>2, <2>3
<1>5. CASE CopySlaves
  <2>1. next = 9 /\ next' = 1 /\ snap' = snap /\ behind' = behind
    BY <1>5 DEF CopySlaves, CopyMap
  <2>2. \A r \in Results : Seen'[r] = Seen[r]
    BY <1>c, <2>1, LoadsInOrder
  <2> QED BY <1>1, <1>d, <2>1, <2>2
<1> QED
  BY <1>2, <1>3, <1>4, <1>5 DEF Next, sendOnce, record, snapshot, Begin, markTx, markRx, Mark,
     EndAttempt, AddTotal, AddResult, Add, AddOps, CountOps, AddClass, CountClass, vars, snapVars

-----------------------------------------------------------------------------
\* The inductive invariant holds throughout.
LEMMA Invariant == Spec => []IInv
<1>1. IInv /\ [Next]_vars => IInv'
  <2> SUFFICES ASSUME IInv, [Next]_vars PROVE IInv'
    OBVIOUS
  <2>1. TypeOK /\ CurInv /\ MapMutexInv /\ ResultsAddUp /\ EveryAttemptCounted
        /\ EntriesInv /\ CopiesAddUp /\ SnapInv /\ LagInv
    BY DEF IInv
  <2>2. TypeOK' /\ CurInv'
    BY <2>1, TypeStep
  <2>3. MapMutexInv'
    BY <2>1, MutexStep
  <2>4. ResultsAddUp'
    BY <2>1, AddUpStep
  <2>5. EveryAttemptCounted'
    BY <2>1, CountedStep
  <2>6. EntriesInv' /\ CopiesAddUp'
    BY <2>1, EntriesStep
  <2>7. SnapInv'
    BY <2>1, SnapStep
  <2>8. LagInv'
    BY <2>1, LagStep
  <2> QED BY <2>2, <2>3, <2>4, <2>5, <2>6, <2>7, <2>8 DEF IInv
<1> QED BY InitIInv, <1>1, PTL DEF Spec

\* The variables of stats.go hold values of their kinds, whatever is recorded.
THEOREM TypeCorrect == Spec => []TypeOK
BY Invariant, PTL DEF IInv

\* stats.go:110-121: the total is the sum of the results and of the threads between
\* the two additions, however many threads record at once.
THEOREM TotalIsSumOfResults == Spec => []ResultsAddUp
BY Invariant, PTL DEF IInv

\* stats.go:108-145: each attempt is counted once, for its slave and its outcome.
THEOREM NoAttemptLost == Spec => []EveryAttemptCounted
BY Invariant, PTL DEF IInv

\* stats.go:147-168: a complete snapshot adds up, but for the threads that were
\* between the two additions when its total was loaded.
THEOREM SnapshotIsCovered == Spec => []SnapshotAddsUp
<1>1. IInv => SnapshotAddsUp
  <2> SUFFICES ASSUME IInv, next = 1
               PROVE  /\ snap["opsTotal"] <= SumOf(snap) + behind
                      /\ \A s \in Slaves : snapSlaves[s]["ops"] = SumOf(snapSlaves[s])
    BY DEF SnapshotAddsUp
  <2>1. SumOf(Seen) = SumOf(snap)
    BY DEF Seen, SumOf, Results
  <2> QED BY <2>1 DEF IInv, LagInv, CopiesAddUp
<1> QED BY Invariant, <1>1, PTL

\* stats.go:147-168: what successive snapshots report never falls.
THEOREM ReportsNeverFall == Spec => SnapshotsGrow
<1>1. IInv /\ [Next]_vars =>
        [/\ \A w \in Words : snap'[w] >= snap[w]
         /\ \A s \in Slaves, c \in SlaveStats : snapSlaves'[s][c] >= snapSlaves[s][c]]_vars
  <2> SUFFICES ASSUME IInv, [Next]_vars
               PROVE  /\ \A w \in Words : snap'[w] >= snap[w]
                      /\ \A s \in Slaves, c \in SlaveStats : snapSlaves'[s][c] >= snapSlaves[s][c]
    OBVIOUS
  <2>1. TypeOK /\ SnapInv
    BY DEF IInv
  <2>2. CASE UNCHANGED <<snap, snapSlaves>>
    BY <2>1, <2>2 DEF TypeOK
  <2>3. CASE Load
    <3>1. snapSlaves' = snapSlaves /\ snap' = [snap EXCEPT ![Loads[next]] = words[Loads[next]]]
      BY <2>3 DEF Load
    <3>2. Loads[next] \in Words
      BY <2>1, <2>3, LoadsInOrder DEF Load, TypeOK
    <3> QED BY <2>1, <3>1, <3>2 DEF TypeOK, SnapInv
  <2>4. CASE CopySlaves
    BY <2>1, <2>4 DEF CopySlaves, CopyMap, TypeOK, SnapInv
  <2> QED
    BY <2>2, <2>3, <2>4 DEF Next, sendOnce, record, snapshot, Begin, markTx, markRx, Mark,
       EndAttempt, AddTotal, AddResult, Add, AddOps, CountOps, AddClass, CountClass, vars, snapVars
<1> QED BY Invariant, <1>1, PTL DEF Spec, SnapshotsGrow

\* stats.go:147-168: the stamp of the last reception is read after that of the last
\* transmission, so a silence that a snapshot reports was one when it was read.
THEOREM ReportedSilenceWasReal == Spec => SilenceIsReal
<1>1. IInv /\ [Next]_vars =>
        [next <= 8 /\ next' = 9 /\ snap'["lastRx"] < snap'["lastTx"]
           => words["lastRx"] < snap'["lastTx"]]_vars
  <2> SUFFICES ASSUME IInv, [Next]_vars, next <= 8, next' = 9, snap'["lastRx"] < snap'["lastTx"]
               PROVE  words["lastRx"] < snap'["lastTx"]
    OBVIOUS
  <2>1. TypeOK
    BY DEF IInv
  <2>2. Load
    <3>1. next \in 1..8
      BY <2>1 DEF TypeOK
    <3>2. ~CopySlaves
      BY <3>1 DEF CopySlaves, CopyMap
    <3>3. ~UNCHANGED next
      BY <3>1
    <3> QED
      BY <3>2, <3>3 DEF Next, sendOnce, record, snapshot, Begin, markTx, markRx, Mark, EndAttempt,
         AddTotal, AddResult, Add, AddOps, CountOps, AddClass, CountClass, vars, snapVars
  <2>3. next = 8 /\ Loads[next] = "lastRx"
    BY <2>1, <2>2 DEF Load, TypeOK, Loads
  <2>4. snap'["lastRx"] = words["lastRx"]
    BY <2>1, <2>2, <2>3 DEF Load, TypeOK, Words
  <2> QED
    BY <2>4
<1> QED BY Invariant, <1>1, PTL DEF Spec, SilenceIsReal

=============================================================================
