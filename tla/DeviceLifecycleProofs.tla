------------------------ MODULE DeviceLifecycleProofs ------------------------
(***************************************************************************)
(* Theorems of DeviceLifecycle, for every number of devices and ports and  *)
(* every assignment of ports and transceivers: the types, the count of the *)
(* users of the GPIO mapping, that nothing leaks, that pins move only      *)
(* while they are mapped; and, where devices that share a port take its    *)
(* lock file and have one transceiver, that a device starts on an idle bus *)
(* and no transmission is cut.  These last two also rest on TakeLock being *)
(* one exclusive step: on acquisitions that do not overlap, and a PID that *)
(* can be written (PortLockProofs!ExclusiveWithoutOverlap).                *)
(***************************************************************************)
EXTENDS DeviceLifecycle, FiniteSetTheorems, TLAPS

-----------------------------------------------------------------------------
\* Between the acquisition of the mapping, or of the port, and its release.
WithPort ==
  {"timeout", "lowerDE", "lowerRE", "mutex", "open", "sending", "receiving", "releasePort"}
WithRpio == WithPort \cup {"port", "releaseRpio"}

\* What a device has acquired follows from where it is in its life.
HeldInv ==
  \A d \in Devices :
    /\ "rpio" \in held[d] <=> (NeedsRpio(d) /\ pc[d] \in WithRpio)
    /\ "port" \in held[d] <=> pc[d] \in WithPort
    /\ pc[d] = "idle" => held[d] = {} /\ lockFile[Port[d]] # d
    /\ mu[Port[d]] = d => pc[d] \in {"sending", "receiving"} \cup Releasing
    /\ pc[d] \in {"lowerDE", "lowerRE"} => NeedsRpio(d)

RpioUsers == {d \in Devices : "rpio" \in held[d]}

IInv == TypeOK /\ HeldInv /\ RpioCounted

LEMMA InitIInv == Init => IInv
<1> SUFFICES ASSUME Init PROVE IInv
  OBVIOUS
<1>1. TypeOK /\ HeldInv
  BY LifecycleAssumption DEF Init, TypeOK, Labels, HeldInv, WithRpio, WithPort
<1>2. {d \in Devices : "rpio" \in held[d]} = {}
  BY DEF Init
<1> QED
  BY <1>1, <1>2, FS_EmptySet DEF IInv, RpioCounted, Init

\* The users of the mapping are finitely many.
LEMMA CountType ==
  /\ IsFiniteSet(RpioUsers) /\ Cardinality(RpioUsers) \in Nat
  /\ \A d \in RpioUsers : Cardinality(RpioUsers) > 0
<1>1. IsFiniteSet(RpioUsers)
  BY LifecycleAssumption, FS_Subset DEF RpioUsers
<1>2. Cardinality(RpioUsers) \in Nat
  BY <1>1, FS_CardinalityType
<1>3. \A d \in RpioUsers : Cardinality(RpioUsers) > 0
  BY <1>1, <1>2, FS_EmptySet
<1> QED
  BY <1>1, <1>2, <1>3

\* A step that neither acquires nor releases the mapping.
LEMMA SameUsers ==
  ASSUME RpioCounted, UNCHANGED rpioVars,
         \A d \in Devices : "rpio" \in held'[d] <=> "rpio" \in held[d]
  PROVE  RpioCounted'
<1>1. {d \in Devices : "rpio" \in held'[d]} = {d \in Devices : "rpio" \in held[d]}
  OBVIOUS
<1> QED
  BY <1>1 DEF RpioCounted, rpioVars

-----------------------------------------------------------------------------
LEMMA DeviceStep ==
  ASSUME IInv, NEW d \in Devices,
         NewModbusDevice(d) \/ SendRequest(d) \/ Close(d) \/ Release(d)
  PROVE  IInv'
<1> USE LifecycleAssumption DEF Goto, Gain, Lose, Releasing
<1>1. d # NoDevice /\ d # Dead /\ Port[d] \in Ports
  OBVIOUS
<1>2. CASE TakeLock(d)
  <2>1. TypeOK'
    BY <1>1, <1>2 DEF TakeLock, IInv, TypeOK, Labels, Opening, Resources, rpioVars,
       pinVars
  <2>2. HeldInv'
    BY <1>1, <1>2 DEF TakeLock, IInv, TypeOK, HeldInv, WithRpio, WithPort, Resources,
       NeedsRpio, rpioVars, pinVars
  <2>3. RpioCounted'
    BY <1>2, SameUsers DEF TakeLock, IInv, TypeOK, rpioVars
  <2> QED
    BY <2>1, <2>2, <2>3 DEF IInv
<1>3. CASE SkipLock(d)
  <2>1. TypeOK'
    BY <1>1, <1>3 DEF SkipLock, BeginUnlocked, IInv, TypeOK, Labels, Opening, Resources,
       rpioVars, pinVars
  <2>2. HeldInv'
    BY <1>1, <1>3 DEF SkipLock, BeginUnlocked, IInv, TypeOK, HeldInv, WithRpio,
       WithPort, Resources, NeedsRpio, rpioVars, pinVars
  <2>3. RpioCounted'
    BY <1>3, SameUsers DEF SkipLock, BeginUnlocked, IInv, TypeOK, rpioVars
  <2> QED
    BY <2>1, <2>2, <2>3 DEF IInv
<1>4. CASE AcquireRpio(d)
  <2>1. TypeOK'
    <3>1. rpioRefCount' \in Nat
      <4>1. rpioRefCount \in Nat
        BY DEF IInv, TypeOK
      <4>2. rpioRefCount' \in {rpioRefCount, rpioRefCount + 1}
            /\ (rpioRefCount' = rpioRefCount - 1 => rpioRefCount > 0)
        BY <1>4, <4>1 DEF AcquireRpio, rpioVars
      <4> QED
        BY <4>1, <4>2
    <3>2. mapped' \in BOOLEAN
      <4>1. mapped' \in {TRUE, mapped, rpioRefCount > 1}
        BY <1>4 DEF AcquireRpio, rpioVars
      <4>2. mapped \in BOOLEAN /\ (rpioRefCount > 1) \in BOOLEAN
        BY DEF IInv, TypeOK
      <4> QED
        BY <4>1, <4>2
    <3>3. held' \in [Devices -> SUBSET Resources]
      BY <1>4 DEF AcquireRpio, IInv, TypeOK, Resources
    <3> QED
      BY <1>4, <3>1, <3>2, <3>3 DEF AcquireRpio, IInv, TypeOK, Labels, Opening, pinVars
  <2>2. HeldInv'
    BY <1>1, <1>4 DEF AcquireRpio, IInv, TypeOK, HeldInv, WithRpio, WithPort, Resources,
       NeedsRpio, rpioVars, pinVars
  <2>3. RpioCounted'
    <3>1. CASE NeedsRpio(d)
      <4>1. d \notin RpioUsers /\ RpioUsers' = RpioUsers \cup {d}
        BY <1>4, <3>1 DEF AcquireRpio, IInv, TypeOK, HeldInv, WithRpio, WithPort, RpioUsers
      <4>2. Cardinality(RpioUsers') = Cardinality(RpioUsers) + 1
        BY <4>1, CountType, FS_AddElement
      <4>3. rpioRefCount' = rpioRefCount + 1 /\ mapped' = TRUE
        BY <1>4, <3>1 DEF AcquireRpio
      <4> QED
        BY <4>2, <4>3, CountType DEF IInv, RpioCounted, RpioUsers
    <3>2. CASE ~NeedsRpio(d)
      BY <1>4, <3>2, SameUsers DEF AcquireRpio, IInv
    <3> QED
      BY <3>1, <3>2
  <2> QED
    BY <2>1, <2>2, <2>3 DEF IInv
<1>5. CASE RpioFails(d)
  <2>1. TypeOK'
    BY <1>1, <1>5 DEF RpioFails, RpioOpenable, Fail, IInv, TypeOK, Labels, Opening,
       Resources, rpioVars, pinVars
  <2>2. HeldInv'
    BY <1>1, <1>5 DEF RpioFails, RpioOpenable, Fail, IInv, TypeOK, HeldInv, WithRpio,
       WithPort, Resources, NeedsRpio, rpioVars, pinVars
  <2>3. RpioCounted'
    BY <1>5, SameUsers DEF RpioFails, RpioOpenable, Fail, IInv, TypeOK, rpioVars
  <2> QED
    BY <2>1, <2>2, <2>3 DEF IInv
<1>6. CASE OpenPort(d)
  <2>1. TypeOK'
    BY <1>1, <1>6 DEF OpenPort, IInv, TypeOK, Labels, Opening, Resources, rpioVars,
       pinVars
  <2>2. HeldInv'
    BY <1>1, <1>6 DEF OpenPort, IInv, TypeOK, HeldInv, WithRpio, WithPort, Resources,
       NeedsRpio, rpioVars, pinVars
  <2>3. RpioCounted'
    BY <1>6, SameUsers DEF OpenPort, IInv, TypeOK, rpioVars
  <2> QED
    BY <2>1, <2>2, <2>3 DEF IInv
<1>7. CASE PortFails(d)
  <2>1. TypeOK'
    BY <1>1, <1>7 DEF PortFails, Fail, IInv, TypeOK, Labels, Opening, Resources,
       rpioVars, pinVars
  <2>2. HeldInv'
    BY <1>1, <1>7 DEF PortFails, Fail, IInv, TypeOK, HeldInv, WithRpio, WithPort,
       Resources, NeedsRpio, rpioVars, pinVars
  <2>3. RpioCounted'
    BY <1>7, SameUsers DEF PortFails, Fail, IInv, TypeOK, rpioVars
  <2> QED
    BY <2>1, <2>2, <2>3 DEF IInv
<1>8. CASE SetReadTimeout(d)
  <2>1. TypeOK'
    BY <1>1, <1>8 DEF SetReadTimeout, IInv, TypeOK, Labels, Opening, Resources,
       rpioVars, pinVars
  <2>2. HeldInv'
    BY <1>1, <1>8 DEF SetReadTimeout, IInv, TypeOK, HeldInv, WithRpio, WithPort,
       Resources, NeedsRpio, rpioVars, pinVars
  <2>3. RpioCounted'
    BY <1>8, SameUsers DEF SetReadTimeout, IInv, TypeOK, rpioVars
  <2> QED
    BY <2>1, <2>2, <2>3 DEF IInv
<1>9. CASE TimeoutFails(d)
  <2>1. TypeOK'
    BY <1>1, <1>9 DEF TimeoutFails, Fail, IInv, TypeOK, Labels, Opening, Resources,
       rpioVars, pinVars
  <2>2. HeldInv'
    BY <1>1, <1>9 DEF TimeoutFails, Fail, IInv, TypeOK, HeldInv, WithRpio, WithPort,
       Resources, NeedsRpio, rpioVars, pinVars
  <2>3. RpioCounted'
    BY <1>9, SameUsers DEF TimeoutFails, Fail, IInv, TypeOK, rpioVars
  <2> QED
    BY <2>1, <2>2, <2>3 DEF IInv
<1>10. CASE BuildTransceiver(d)
  <2>1. TypeOK'
    BY <1>1, <1>10 DEF BuildTransceiver, LowerPins, IInv, TypeOK, Labels, Opening,
       Resources, rpioVars, pinVars
  <2>2. HeldInv'
    BY <1>1, <1>10 DEF BuildTransceiver, LowerPins, IInv, TypeOK, HeldInv, WithRpio,
       WithPort, Resources, NeedsRpio, rpioVars, pinVars
  <2>3. RpioCounted'
    BY <1>10, SameUsers DEF BuildTransceiver, LowerPins, IInv, TypeOK, rpioVars
  <2> QED
    BY <2>1, <2>2, <2>3 DEF IInv
<1>11. CASE Opened(d)
  <2>1. TypeOK'
    BY <1>1, <1>11 DEF Opened, IInv, TypeOK, Labels, Opening, Resources, rpioVars,
       pinVars
  <2>2. HeldInv'
    BY <1>1, <1>11 DEF Opened, IInv, TypeOK, HeldInv, WithRpio, WithPort, Resources,
       NeedsRpio, rpioVars, pinVars
  <2>3. RpioCounted'
    BY <1>11, SameUsers DEF Opened, IInv, TypeOK, rpioVars
  <2> QED
    BY <2>1, <2>2, <2>3 DEF IInv
<1>12. CASE StartTX(d)
  <2>1. TypeOK'
    BY <1>1, <1>12 DEF StartTX, IInv, TypeOK, Labels, Opening, Resources, rpioVars,
       pinVars
  <2>2. HeldInv'
    BY <1>1, <1>12 DEF StartTX, IInv, TypeOK, HeldInv, WithRpio, WithPort, Resources,
       NeedsRpio, rpioVars, pinVars
  <2>3. RpioCounted'
    BY <1>12, SameUsers DEF StartTX, IInv, TypeOK, rpioVars
  <2> QED
    BY <2>1, <2>2, <2>3 DEF IInv
<1>13. CASE EndTX(d)
  <2>1. TypeOK'
    BY <1>1, <1>13 DEF EndTX, IInv, TypeOK, Labels, Opening, Resources, rpioVars,
       pinVars
  <2>2. HeldInv'
    BY <1>1, <1>13 DEF EndTX, IInv, TypeOK, HeldInv, WithRpio, WithPort, Resources,
       NeedsRpio, rpioVars, pinVars
  <2>3. RpioCounted'
    BY <1>13, SameUsers DEF EndTX, IInv, TypeOK, rpioVars
  <2> QED
    BY <2>1, <2>2, <2>3 DEF IInv
<1>14. CASE EndRequest(d)
  <2>1. TypeOK'
    BY <1>1, <1>14 DEF EndRequest, IInv, TypeOK, Labels, Opening, Resources, rpioVars,
       pinVars
  <2>2. HeldInv'
    BY <1>1, <1>14 DEF EndRequest, IInv, TypeOK, HeldInv, WithRpio, WithPort, Resources,
       NeedsRpio, rpioVars, pinVars
  <2>3. RpioCounted'
    BY <1>14, SameUsers DEF EndRequest, IInv, TypeOK, rpioVars
  <2> QED
    BY <2>1, <2>2, <2>3 DEF IInv
<1>15. CASE Close(d)
  <2>1. TypeOK'
    BY <1>1, <1>15 DEF Close, IInv, TypeOK, Labels, Opening, Resources, rpioVars,
       pinVars
  <2>2. HeldInv'
    BY <1>1, <1>15 DEF Close, IInv, TypeOK, HeldInv, WithRpio, WithPort, Resources,
       NeedsRpio, rpioVars, pinVars
  <2>3. RpioCounted'
    BY <1>15, SameUsers DEF Close, IInv, TypeOK, rpioVars
  <2> QED
    BY <2>1, <2>2, <2>3 DEF IInv
<1>16. CASE ReleasePort(d)
  <2>1. TypeOK'
    BY <1>1, <1>16 DEF ReleasePort, IInv, TypeOK, Labels, Opening, Resources, rpioVars,
       pinVars
  <2>2. HeldInv'
    BY <1>1, <1>16 DEF ReleasePort, IInv, TypeOK, HeldInv, WithRpio, WithPort,
       Resources, NeedsRpio, rpioVars, pinVars
  <2>3. RpioCounted'
    BY <1>16, SameUsers DEF ReleasePort, IInv, TypeOK, rpioVars
  <2> QED
    BY <2>1, <2>2, <2>3 DEF IInv
<1>17. CASE ReleaseRpio(d)
  <2>1. TypeOK'
    <3>1. rpioRefCount' \in Nat
      <4>1. rpioRefCount \in Nat
        BY DEF IInv, TypeOK
      <4>2. rpioRefCount' \in {rpioRefCount, rpioRefCount - 1}
            /\ (rpioRefCount' = rpioRefCount - 1 => rpioRefCount > 0)
        BY <1>17, <4>1 DEF ReleaseRpio, rpioVars
      <4> QED
        BY <4>1, <4>2
    <3>2. mapped' \in BOOLEAN
      <4>1. mapped' \in {TRUE, mapped, rpioRefCount > 1}
        BY <1>17 DEF ReleaseRpio, rpioVars
      <4>2. mapped \in BOOLEAN /\ (rpioRefCount > 1) \in BOOLEAN
        BY DEF IInv, TypeOK
      <4> QED
        BY <4>1, <4>2
    <3>3. held' \in [Devices -> SUBSET Resources]
      BY <1>17 DEF ReleaseRpio, IInv, TypeOK, Resources
    <3> QED
      BY <1>17, <3>1, <3>2, <3>3 DEF ReleaseRpio, IInv, TypeOK, Labels, Opening, pinVars
  <2>2. HeldInv'
    BY <1>1, <1>17 DEF ReleaseRpio, IInv, TypeOK, HeldInv, WithRpio, WithPort,
       Resources, NeedsRpio, rpioVars, pinVars
  <2>3. RpioCounted'
    <3>1. CASE NeedsRpio(d)
      <4>1. d \in RpioUsers /\ RpioUsers' = RpioUsers \ {d}
        BY <1>17, <3>1 DEF ReleaseRpio, IInv, TypeOK, HeldInv, WithRpio, WithPort, RpioUsers
      <4>2. Cardinality(RpioUsers') = Cardinality(RpioUsers) - 1
        BY <4>1, CountType, FS_RemoveElement
      <4>3. rpioRefCount = Cardinality(RpioUsers) /\ rpioRefCount > 0
        BY <4>1, CountType DEF IInv, RpioCounted, RpioUsers
      <4>4. rpioRefCount' = rpioRefCount - 1 /\ mapped' = (rpioRefCount > 1)
        BY <1>17, <3>1, <4>3 DEF ReleaseRpio
      <4>5. rpioRefCount' = Cardinality(RpioUsers') /\ (mapped' <=> rpioRefCount' > 0)
        <5>1. rpioRefCount' = Cardinality(RpioUsers') /\ (rpioRefCount > 1 <=> rpioRefCount' > 0)
          BY <4>2, <4>3, <4>4, CountType
        <5>2. mapped' <=> rpioRefCount > 1
          BY <4>4, Zenon
        <5> QED
          BY <5>1, <5>2
      <4> QED
        BY <4>5 DEF RpioCounted, RpioUsers
    <3>2. CASE ~NeedsRpio(d)
      <4>1. "rpio" \notin held[d]
        BY <3>2 DEF IInv, HeldInv
      <4> QED
        BY <1>17, <3>2, <4>1, SameUsers DEF ReleaseRpio, IInv, TypeOK
    <3> QED
      BY <3>1, <3>2
  <2> QED
    BY <2>1, <2>2, <2>3 DEF IInv
<1>18. CASE ReleaseLock(d)
  <2>1. TypeOK'
    BY <1>1, <1>18 DEF ReleaseLock, IInv, TypeOK, Labels, Opening, Resources, rpioVars,
       pinVars
  <2>2. HeldInv'
    BY <1>1, <1>18 DEF ReleaseLock, IInv, TypeOK, HeldInv, WithRpio, WithPort,
       Resources, NeedsRpio, rpioVars, pinVars
  <2>3. RpioCounted'
    BY <1>18, SameUsers DEF ReleaseLock, IInv, TypeOK, rpioVars
  <2> QED
    BY <2>1, <2>2, <2>3 DEF IInv
<1> QED
  BY <1>2, <1>3, <1>4, <1>5, <1>6, <1>7, <1>8, <1>9, <1>10, <1>11, <1>12, <1>13, <1>14,
     <1>15, <1>16, <1>17, <1>18 DEF NewModbusDevice, SendRequest, Release

\* Killing the process forgets everything but the pins and the lock files.
LEMMA ProcessStep ==
  ASSUME IInv, Kill \/ \E p \in Ports : ClearLock(p)
  PROVE  IInv'
<1> USE LifecycleAssumption
<1>1. CASE Kill
  <2>1. TypeOK'
    BY <1>1 DEF Kill, IInv, TypeOK, Labels, pinVars
  <2>2. HeldInv'
    <3>1. \A d \in Devices : Port[d] \in Ports /\ d # Dead /\ d # NoDevice
      OBVIOUS
    <3>2. \A d \in Devices : lockFile'[Port[d]] # d /\ mu'[Port[d]] # d
      BY <1>1, <3>1 DEF Kill
    <3> QED
      BY <1>1, <3>2 DEF Kill, HeldInv, WithRpio, WithPort, Releasing
  <2>3. RpioCounted'
    <3>1. {d \in Devices : "rpio" \in held'[d]} = {}
      BY <1>1 DEF Kill
    <3> QED
      BY <1>1, <3>1, FS_EmptySet DEF Kill, RpioCounted
  <2> QED
    BY <2>1, <2>2, <2>3 DEF IInv
<1>2. ASSUME NEW p \in Ports, ClearLock(p) PROVE IInv'
  <2>1. TypeOK'
    BY <1>2 DEF ClearLock, IInv, TypeOK, rpioVars, pinVars
  <2>2. HeldInv'
    BY <1>2 DEF ClearLock, IInv, TypeOK, HeldInv
  <2>3. RpioCounted'
    BY <1>2, SameUsers DEF ClearLock, IInv
  <2> QED
    BY <2>1, <2>2, <2>3 DEF IInv
<1> QED
  BY <1>1, <1>2

LEMMA Stutter == IInv /\ UNCHANGED vars => IInv'
  BY DEF IInv, TypeOK, HeldInv, RpioCounted, vars

LEMMA Inductive == Spec => []IInv
<1>1. IInv /\ [Next]_vars => IInv'
  BY DeviceStep, ProcessStep, Stutter DEF Next
<1> QED
  BY InitIInv, <1>1, PTL DEF Spec

\* Every variable keeps its type.
THEOREM TypeCorrect == Spec => []TypeOK
<1>1. IInv => TypeOK
  BY DEF IInv
<1> QED
  BY <1>1, Inductive, PTL

\* types.go:118-152: the reference count is exact, whichever openings fail.
THEOREM CountIsExact == Spec => []RpioCounted
<1>1. IInv => RpioCounted
  BY DEF IInv
<1> QED
  BY <1>1, Inductive, PTL

\* main.go:216-241: a device that is not open, because its opening failed or because it was
\* closed, has given everything back.
THEOREM NothingIsLeaked == Spec => []NothingLeaks
<1>1. IInv => NothingLeaks
  BY DEF IInv, HeldInv, NothingLeaks, Releasing
<1> QED
  BY <1>1, Inductive, PTL

\* No device moves its pins before they are mapped or after the last user released them.
THEOREM PinsAreMapped == Spec => PinsMoveWhileMapped
<1>1. IInv /\ [Next]_vars => [mapped]_pinVars
  <2> SUFFICES ASSUME IInv, Next, pinVars' # pinVars PROVE mapped
    BY DEF vars, pinVars
  <2>1. ~Kill /\ \A p \in Ports : ~ClearLock(p)
    BY DEF Kill, ClearLock
  <2>2. PICK d \in Devices : NewModbusDevice(d) \/ SendRequest(d) \/ Close(d) \/ Release(d)
    BY <2>1 DEF Next
  <2>3. NeedsRpio(d) /\ pc[d] \in WithRpio
    <3>1. CASE BuildTransceiver(d)
      BY <3>1 DEF BuildTransceiver, LowerPins, IInv, HeldInv, WithRpio, WithPort
    <3>2. CASE StartTX(d) \/ EndTX(d) \/ Close(d)
      <4>1. pc[d] \in {"open", "sending"}
        BY <3>2 DEF StartTX, EndTX, Close
      <4>2. CASE ~NeedsRpio(d)
        <5>1. /\ de \in [Ports -> BOOLEAN] /\ re \in [Ports -> BOOLEAN]
              /\ Port[d] \in Ports
          BY LifecycleAssumption DEF IInv, TypeOK
        <5>2. de' = [de EXCEPT ![Port[d]] = de[Port[d]]]
              /\ re' = [re EXCEPT ![Port[d]] = re[Port[d]]]
          BY <3>2, <4>2, <5>1 DEF StartTX, EndTX, Close
        <5> QED
          BY <5>1, <5>2 DEF pinVars
      <4> QED
        BY <4>1, <4>2 DEF WithRpio, WithPort
    <3>3. CASE ~(BuildTransceiver(d) \/ StartTX(d) \/ EndTX(d) \/ Close(d))
      BY <2>2, <3>3 DEF NewModbusDevice, TakeLock, SkipLock, BeginUnlocked, AcquireRpio,
         RpioFails, OpenPort, PortFails, SetReadTimeout, TimeoutFails, Fail, Opened,
         SendRequest, EndRequest, Release, ReleasePort, ReleaseRpio, ReleaseLock
    <3> QED
      BY <3>1, <3>2, <3>3
  <2>4. d \in RpioUsers
    BY <2>3 DEF IInv, HeldInv, RpioUsers
  <2> QED
    BY <2>4, CountType DEF IInv, RpioCounted, RpioUsers
<1> QED
  BY <1>1, Inductive, PTL DEF Spec, PinsMoveWhileMapped

-----------------------------------------------------------------------------
\* Devices that share a port take its lock file, and work the same transceiver.
Shared(d) == \E e \in Devices \ {d} : Port[e] = Port[d]

PortsAreGuarded ==
  /\ \A d \in Unlocked : ~Shared(d)
  /\ \A d, e \in Devices : Port[d] = Port[e] => Transceiver[d] = Transceiver[e]

\* Whoever is at work on a shared port has its lock, and leaves the pins where its place in its
\* life says.
PortInv ==
  /\ \A d \in Devices :
       /\ pc[d] # "idle" /\ Shared(d) => lockFile[Port[d]] = d
       /\ ~NeedsRpio(d) => ~de[Port[d]] /\ ~re[Port[d]]
       /\ pc[d] = "lowerRE" => ~de[Port[d]]
       /\ pc[d] \in {"mutex", "open", "receiving"} => ~de[Port[d]] /\ ~re[Port[d]]
       /\ pc[d] = "sending" /\ NeedsRpio(d) => de[Port[d]] /\ re[Port[d]]

LEMMA InitPortInv == Init => PortInv
  BY LifecycleAssumption DEF Init, PortInv

LEMMA PortStep ==
  ASSUME PortsAreGuarded, IInv, PortInv, Next
  PROVE  PortInv'
<1> USE LifecycleAssumption DEF Goto
<1>1. ASSUME NEW d \in Devices,
             NewModbusDevice(d) \/ SendRequest(d) \/ Close(d) \/ Release(d)
      PROVE  PortInv'
  <2>1. \A e \in Devices \ {d} : Port[e] = Port[d] => pc'[e] = "idle" /\ pc[e] = "idle"
    <3>1. ASSUME NEW e \in Devices \ {d}, Port[e] = Port[d] PROVE pc[e] = "idle"
      <4>1. Shared(d) /\ Shared(e) /\ ~SkipLock(d)
        BY <3>1 DEF Shared, PortsAreGuarded, SkipLock
      <4>2. pc[d] # "idle" \/ TakeLock(d)
        BY <1>1, <4>1 DEF NewModbusDevice, SendRequest, Close, Release, AcquireRpio,
           RpioFails, OpenPort, PortFails, SetReadTimeout, TimeoutFails, Fail, BuildTransceiver,
           LowerPins, Opened, StartTX, EndTX, EndRequest, ReleasePort, ReleaseRpio, ReleaseLock
      <4>3. lockFile[Port[d]] \in {d, NoDevice}
        BY <4>1, <4>2 DEF PortInv, TakeLock
      <4> QED
        BY <3>1, <4>1, <4>3 DEF PortInv
    <3>2. \A e \in Devices \ {d} : pc'[e] = pc[e]
      BY <1>1 DEF NewModbusDevice, SendRequest, Close, Release, TakeLock, SkipLock,
         BeginUnlocked, AcquireRpio,
         RpioFails, OpenPort, PortFails, SetReadTimeout, TimeoutFails, Fail, BuildTransceiver,
         LowerPins, Opened, StartTX, EndTX, EndRequest, ReleasePort, ReleaseRpio, ReleaseLock,
         IInv, TypeOK
    <3> QED
      BY <3>1, <3>2
  <2>2. \A e \in Devices \ {d} :
          /\ pc'[e] = pc[e]
          /\ Port[e] # Port[d] =>
               /\ lockFile'[Port[e]] = lockFile[Port[e]]
               /\ de'[Port[e]] = de[Port[e]] /\ re'[Port[e]] = re[Port[e]]
    BY <1>1 DEF NewModbusDevice, SendRequest, Close, Release, TakeLock, SkipLock,
       BeginUnlocked, AcquireRpio, RpioFails, OpenPort, PortFails, SetReadTimeout, TimeoutFails,
       Fail, BuildTransceiver, LowerPins, Opened, StartTX, EndTX, EndRequest, ReleasePort,
       ReleaseRpio, ReleaseLock, IInv, TypeOK, pinVars
  <2>3. /\ pc'[d] # "idle" /\ Shared(d) => lockFile'[Port[d]] = d
        /\ ~NeedsRpio(d) => ~de'[Port[d]] /\ ~re'[Port[d]]
        /\ pc'[d] = "lowerRE" => ~de'[Port[d]]
        /\ pc'[d] \in {"mutex", "open", "receiving"} => ~de'[Port[d]] /\ ~re'[Port[d]]
        /\ pc'[d] = "sending" /\ NeedsRpio(d) => de'[Port[d]] /\ re'[Port[d]]
    <3>1. /\ Port[d] \in Ports /\ d # NoDevice
          /\ de \in [Ports -> BOOLEAN] /\ re \in [Ports -> BOOLEAN]
          /\ pc \in [Devices -> Labels]
          /\ lockFile \in [Ports -> Devices \cup {NoDevice, Dead}]
      BY DEF IInv, TypeOK
    <3>2. CASE TakeLock(d) \/ SkipLock(d)
      BY <3>1, <3>2 DEF TakeLock, SkipLock, BeginUnlocked, PortInv, PortsAreGuarded, pinVars
    <3>3. CASE AcquireRpio(d) \/ RpioFails(d) \/ OpenPort(d) \/ PortFails(d) \/ TimeoutFails(d)
      BY <3>1, <3>3 DEF AcquireRpio, RpioFails, OpenPort, PortFails, TimeoutFails, Fail, PortInv,
         pinVars
    <3>4. CASE SetReadTimeout(d) \/ Opened(d)
      BY <3>1, <3>4 DEF SetReadTimeout, Opened, PortInv, NeedsRpio, pinVars
    <3>5. CASE BuildTransceiver(d)
      BY <3>1, <3>5 DEF BuildTransceiver, LowerPins, PortInv, NeedsRpio
    <3>6. CASE StartTX(d)
      BY <3>1, <3>6 DEF StartTX, PortInv
    <3>7. CASE EndTX(d)
      BY <3>1, <3>7 DEF EndTX, PortInv
    <3>8. CASE EndRequest(d)
      BY <3>1, <3>8 DEF EndRequest, PortInv, pinVars
    <3>9. CASE Close(d)
      BY <3>1, <3>9 DEF Close, PortInv
    <3>10. CASE Release(d)
      BY <3>1, <3>10 DEF Release, ReleasePort, ReleaseRpio, ReleaseLock, PortInv, pinVars
    <3> QED
      BY <1>1, <3>2, <3>3, <3>4, <3>5, <3>6, <3>7, <3>8, <3>9, <3>10
         DEF NewModbusDevice, SendRequest
  <2>4. \A e \in Devices : Port[e] = Port[d] => (NeedsRpio(e) <=> NeedsRpio(d))
    BY DEF PortsAreGuarded, NeedsRpio
  <2> QED
    BY <2>1, <2>2, <2>3, <2>4 DEF PortInv
<1>2. CASE Kill
  BY <1>2 DEF Kill, PortInv, pinVars
<1>3. ASSUME NEW p \in Ports, ClearLock(p) PROVE PortInv'
  BY <1>3 DEF ClearLock, PortInv, IInv, TypeOK, pinVars
<1> QED
  BY <1>1, <1>2, <1>3 DEF Next

LEMMA PortInductive ==
  ASSUME PortsAreGuarded
  PROVE  Spec => []PortInv
<1>1. IInv /\ PortInv /\ [Next]_vars => PortInv'
  <2>1. PortInv /\ UNCHANGED vars => PortInv'
    BY DEF PortInv, vars
  <2> QED
    BY <2>1, PortStep
<1> QED
  BY InitPortInv, <1>1, Inductive, PTL DEF Spec

\* types.go:17-20: where the devices of a port take its lock file, one acquisition after the
\* other (TakeLock is one step), none of them cuts another's transmission.
THEOREM NoTransmissionIsCut ==
  ASSUME PortsAreGuarded
  PROVE  Spec => []TransmissionNotCut
<1>1. PortInv => TransmissionNotCut
  BY DEF PortInv, TransmissionNotCut
<1> QED
  BY <1>1, PortInductive, PTL

\* transceiver.go:50: a device starts on an idle bus, whatever a killed process left on the
\* pins, under the same conditions.
THEOREM BusIdleAtStart ==
  ASSUME PortsAreGuarded
  PROVE  Spec => StartsOnIdleBus
<1>1. PortInv' => [\A d \in Devices : pc[d] # "open" /\ pc'[d] = "open" =>
                     ~de'[Port[d]] /\ ~re'[Port[d]]]_vars
  BY DEF PortInv
<1> QED
  BY <1>1, PortInductive, PTL DEF StartsOnIdleBus
=============================================================================
