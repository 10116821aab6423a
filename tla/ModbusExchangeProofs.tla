------------------------- MODULE ModbusExchangeProofs -------------------------
(***************************************************************************)
(* Proofs about ModbusExchange, for all calls and command lines, slaves    *)
(* and contents of their memories.                                         *)
(*                                                                         *)
(* First what the operators of ModbusCodec compute, for every count the    *)
(* widths admit and every content of the frames: the lemmas do the         *)
(* arithmetic with bounds on integers, the theorems speak of the ranges of *)
(* the code.  Then the invariant of an operation and of the tool's pins.   *)
(***************************************************************************)
EXTENDS ModbusExchange, FiniteSetTheorems, TLAPS


\* Where bit i of a block lies.
LEMMA BitPlace ==
  ASSUME NEW n \in Int, n >= 0, NEW i \in Int, 0 <= i, i < n
  PROVE  /\ i \div 8 \in 0 .. BytesFor(n) - 1
         /\ i % 8 \in 0..7
         /\ 8 * (i \div 8) + (i % 8) = i
BY DEF BytesFor

LEMMA PackedBit ==
  ASSUME NEW n, NEW values, NEW j \in 0 .. BytesFor(n) - 1, NEW b \in 0..7
  PROVE  packBits(values, n)[j][b] = (8 * j + b < n /\ values[8 * j + b])
BY DEF packBits

\* A packed block holds each bit at its place.
LEMMA BitIsPacked ==
  ASSUME NEW n \in Int, n >= 0, NEW values, NEW i \in Int, 0 <= i, i < n, values[i] \in BOOLEAN
  PROVE  packBits(values, n)[i \div 8][i % 8] = values[i]
<1> DEFINE j == i \div 8
<1> DEFINE b == i % 8
<1>1. j \in 0 .. BytesFor(n) - 1 /\ b \in 0..7 /\ 8 * j + b = i
  BY BitPlace
<1> HIDE DEF j, b
<1>2. packBits(values, n)[j][b] = (8 * j + b < n /\ values[8 * j + b])
  BY <1>1, PackedBit
<1>3. packBits(values, n)[j][b] = values[i]
  BY <1>1, <1>2
<1> QED
  BY <1>3 DEF j, b

LEMMA UInt16Bounds ==
  ASSUME NEW v \in UInt16
  PROVE  v \in Int /\ v >= 0 /\ v <= 65535
BY DEF UInt16

\* A register is the high and the low byte it was cut into.
LEMMA WordOfBytes ==
  ASSUME NEW v \in Int, v >= 0, v <= 65535
  PROVE  hi(v) * 256 + lo(v) = v
BY DEF hi, lo, toByte

\* The two bytes of register i in a packed block.
LEMMA RegisterIsPacked ==
  ASSUME NEW n \in Int, NEW values, NEW i \in Int, 0 <= i, i < n
  PROVE  /\ packRegisters(values, n)[2 * i] = hi(values[i])
         /\ packRegisters(values, n)[2 * i + 1] = lo(values[i])
BY DEF packRegisters

\* The indices of unpackRegisters, when its guard lets it look.
LEMMA IndexInside ==
  ASSUME NEW count \in Int, count <= 65535, NEW i \in Int, i >= 0, i < count,
         NEW byteCount \in Int, byteCount <= 255, toUint16(2 * i + 1) < byteCount
  PROVE  highIndex(i) >= 0 /\ 3 + lowIndex(i) < 5 + 2 * count
BY DEF toUint16, highIndex, lowIndex

LEMMA IndexInOrder ==
  ASSUME NEW i \in Int, 0 <= i, i <= 125
  PROVE  toUint16(2 * i + 1) = 2 * i + 1 /\ highIndex(i) = 2 * i /\ lowIndex(i) = 2 * i + 1
BY DEF toUint16, highIndex, lowIndex

-----------------------------------------------------------------------------
\* main.go:50-65: for every legal quantity the length the master waits for is that of
\* the conforming answer.
THEOREM LengthIsConforming ==
  ASSUME NEW fc \in FunctionCodes, NEW count \in 1 .. MaxQuantity(fc)
  PROVE  expectedResponseLength(fc, count) = ConformingLength(fc, count)
BY DEF FunctionCodes, Reads, BitReads, RegisterReads, SingleWrites, MultipleWrites, MaxQuantity,
       expectedResponseLength, ConformingLength, DataBytes, BytesFor, toUint16, FCReadCoils,
       FCReadDiscreteInputs, FCReadHoldingRegisters, FCReadInputRegisters, FCWriteSingleCoil,
       FCWriteSingleRegister, FCWriteMultipleCoils, FCWriteMultipleRegisters

LEMMA BitsInside ==
  ASSUME NEW fc \in BitReads, NEW count \in Int, count >= 0, count <= 65528,
         NEW byteCount \in Byte
  PROVE  unpackBitsInRange(byteCount, count, expectedResponseLength(fc, count))
BY DEF unpackBitsInRange, expectedResponseLength, BitReads, toUint16

\* main.go:562-573: whatever byte count an answer of the expected length carries,
\* unpackBits stays inside it, for every count below the point where count+7 wraps.
THEOREM BitsStayInside ==
  ASSUME NEW fc \in BitReads, NEW count \in 0..65528, NEW byteCount \in Byte
  PROVE  unpackBitsInRange(byteCount, count, expectedResponseLength(fc, count))
<1>1. count \in Int /\ count >= 0 /\ count <= 65528
  OBVIOUS
<1> QED
  BY <1>1, BitsInside

\* main.go:601-610: unpackRegisters stays inside for every count of 16 bits, though its
\* indices wrap from register 32766 on.
THEOREM RegistersStayInside ==
  ASSUME NEW fc \in RegisterReads, NEW count \in UInt16, NEW byteCount \in Byte
  PROVE  unpackRegistersInRange(byteCount, count, expectedResponseLength(fc, count))
<1>1. count \in Int /\ count >= 0 /\ count <= 65535 /\ byteCount \in Int /\ byteCount <= 255
  BY DEF UInt16, Byte
<1>2. expectedResponseLength(fc, count) = 5 + 2 * count
  BY <1>1 DEF expectedResponseLength, RegisterReads, BitReads, FCReadCoils, FCReadDiscreteInputs,
         FCReadHoldingRegisters, FCReadInputRegisters
<1>3. ASSUME NEW i \in 0 .. count - 1, toUint16(2 * i + 1) < byteCount
      PROVE  highIndex(i) >= 0 /\ 3 + lowIndex(i) < 5 + 2 * count
  <2>1. i \in Int /\ i >= 0 /\ i < count
    BY <1>1
  <2> QED
    BY <1>1, <1>3, <2>1, IndexInside
<1> QED
  BY <1>2, <1>3 DEF unpackRegistersInRange

\* What a slave packs is what unpackBits takes out.
THEOREM BitsArriveUnchanged ==
  ASSUME NEW n \in Nat, NEW values \in [0 .. n - 1 -> BOOLEAN]
  PROVE  unpackBits(BytesFor(n), packBits(values, n), n) = values
<1>1. ASSUME NEW i \in 0 .. n - 1
      PROVE  (i \div 8 < BytesFor(n) /\ packBits(values, n)[i \div 8][i % 8]) = values[i]
  <2>1. i \in Int /\ 0 <= i /\ i < n /\ values[i] \in BOOLEAN
    OBVIOUS
  <2>2. i \div 8 < BytesFor(n)
    BY <2>1, BitPlace DEF BytesFor
  <2>3. packBits(values, n)[i \div 8][i % 8] = values[i]
    BY <2>1, BitIsPacked
  <2> QED
    BY <2>1, <2>2, <2>3
<1>2. unpackBits(BytesFor(n), packBits(values, n), n) = [i \in 0 .. n - 1 |-> values[i]]
  BY <1>1, Zenon DEF unpackBits
<1> QED
  BY <1>2

\* What a slave packs is what unpackRegisters takes out.
THEOREM RegistersArriveUnchanged ==
  ASSUME NEW n \in 0..125, NEW values \in [0 .. n - 1 -> UInt16]
  PROVE  unpackRegisters(2 * n, packRegisters(values, n), n) = values
<1> DEFINE data == packRegisters(values, n)
<1>1. ASSUME NEW i \in 0 .. n - 1
      PROVE  toUint16(2 * i + 1) < 2 * n /\ registerAt(data, i) = values[i]
  <2>1. n \in Int /\ i \in Int /\ 0 <= i /\ i < n /\ i <= 125
    OBVIOUS
  <2>2. toUint16(2 * i + 1) = 2 * i + 1 /\ highIndex(i) = 2 * i /\ lowIndex(i) = 2 * i + 1
    BY <2>1, IndexInOrder
  <2>3. data[2 * i] = hi(values[i]) /\ data[2 * i + 1] = lo(values[i])
    BY <2>1, RegisterIsPacked
  <2>4. values[i] \in Int /\ values[i] >= 0 /\ values[i] <= 65535
    BY UInt16Bounds
  <2>5. hi(values[i]) * 256 + lo(values[i]) = values[i]
    BY <2>4, WordOfBytes
  <2>6. registerAt(data, i) = values[i]
    BY <2>2, <2>3, <2>5 DEF registerAt
  <2> HIDE DEF data
  <2> QED
    BY <2>1, <2>2, <2>6
<1> HIDE DEF data
<1>2. unpackRegisters(2 * n, data, n) = [i \in 0 .. n - 1 |-> values[i]]
  BY <1>1, Zenon DEF unpackRegisters
<1> QED
  BY <1>2 DEF data

-----------------------------------------------------------------------------
\* Address and quantity cut into bytes are put together again.
LEMMA HeadArrives ==
  ASSUME NEW r, NEW addr \in Int, addr >= 0, addr <= 65535, NEW n \in Int, n >= 0, n <= 65535,
         r.head[3] = hi(addr), r.head[4] = lo(addr), r.head[5] = hi(n), r.head[6] = lo(n)
  PROVE  requestAddr(r) = addr /\ requestQuantity(r) = n
BY WordOfBytes DEF requestAddr, requestQuantity, word

\* Two functions on one domain with the same values are one function.
LEMMA SameValues ==
  ASSUME NEW S, NEW f, NEW g, f = [i \in S |-> f[i]], g = [i \in S |-> g[i]],
         \A i \in S : f[i] = g[i]
  PROVE  f = g
BY Zenon

\* The byte count and the data of a legal write of coils.
LEMMA CoilDataArrives ==
  ASSUME NEW n \in Int, n >= 1, n <= 1968, NEW values \in [0 .. n - 1 -> BOOLEAN]
  PROVE  /\ toByte(BytesFor(n)) = DataBytes(FCWriteMultipleCoils, n)
         /\ slaveBits(packBits(values, n), n) = values
<1>1. toByte(BytesFor(n)) = DataBytes(FCWriteMultipleCoils, n)
  BY DEF toByte, BytesFor, DataBytes
<1>2. ASSUME NEW i \in 0 .. n - 1
      PROVE  packBits(values, n)[i \div 8][i % 8] = values[i]
  <2>1. i \in Int /\ 0 <= i /\ i < n /\ values[i] \in BOOLEAN /\ n >= 0
    OBVIOUS
  <2> QED
    BY <2>1, BitIsPacked
<1>3. slaveBits(packBits(values, n), n) = [i \in 0 .. n - 1 |-> values[i]]
  <2> DEFINE got == slaveBits(packBits(values, n), n)
  <2>1. got = [i \in 0 .. n - 1 |-> packBits(values, n)[i \div 8][i % 8]]
    BY DEF slaveBits
  <2>2. \A i \in 0 .. n - 1 : got[i] = values[i]
    BY <1>2, <2>1
  <2>3. got = [i \in 0 .. n - 1 |-> got[i]]
    BY <2>1
  <2> HIDE DEF got
  <2>4. values = [i \in 0 .. n - 1 |-> values[i]]
    OBVIOUS
  <2>5. got = values
    BY <2>2, <2>3, <2>4, SameValues
  <2> QED
    BY <2>4, <2>5 DEF got
<1> QED
  BY <1>1, <1>3

\* The byte count and the data of a legal write of registers.
LEMMA RegisterDataArrives ==
  ASSUME NEW n \in Int, n >= 1, n <= 123, NEW values \in [0 .. n - 1 -> UInt16]
  PROVE  /\ toByte(2 * n) = DataBytes(FCWriteMultipleRegisters, n)
         /\ slaveRegisters(packRegisters(values, n), n) = values
<1>1. toByte(2 * n) = DataBytes(FCWriteMultipleRegisters, n)
  <2>1. FCWriteMultipleRegisters \notin BitReads \cup {FCWriteMultipleCoils}
    BY DEF BitReads, FCReadCoils, FCReadDiscreteInputs, FCWriteMultipleCoils, FCWriteMultipleRegisters
  <2>2. toByte(2 * n) = 2 * n
    BY DEF toByte
  <2> QED
    BY <2>1, <2>2 DEF DataBytes
<1>2. ASSUME NEW i \in 0 .. n - 1
      PROVE  word(packRegisters(values, n)[2 * i], packRegisters(values, n)[2 * i + 1]) = values[i]
  <2>1. i \in Int /\ 0 <= i /\ i < n
    OBVIOUS
  <2>2. /\ packRegisters(values, n)[2 * i] = hi(values[i])
        /\ packRegisters(values, n)[2 * i + 1] = lo(values[i])
    BY <2>1, RegisterIsPacked
  <2>3. values[i] \in Int /\ values[i] >= 0 /\ values[i] <= 65535
    BY UInt16Bounds
  <2>4. hi(values[i]) * 256 + lo(values[i]) = values[i]
    BY <2>3, WordOfBytes
  <2> QED
    BY <2>2, <2>4 DEF word
<1>3. slaveRegisters(packRegisters(values, n), n) = [i \in 0 .. n - 1 |-> values[i]]
  BY <1>2, Zenon DEF slaveRegisters
<1> QED
  BY <1>1, <1>3

\* main.go:663-683: from a legal write of several coils a conforming slave takes the
\* address, the quantity and the values of the call, and the byte count it checks is right.
THEOREM CoilsArriveAtSlave ==
  ASSUME NEW slave \in Byte, NEW addr \in UInt16, NEW n \in 1..1968,
         NEW values \in [0 .. n - 1 -> BOOLEAN]
  PROVE  LET r == writeMultipleCoilsRequest(slave, addr, values, n)
         IN  /\ requestAddr(r) = addr /\ requestQuantity(r) = n
             /\ r.byteCount = DataBytes(FCWriteMultipleCoils, n)
             /\ slaveBits(r.data, n) = values
<1> DEFINE r == writeMultipleCoilsRequest(slave, addr, values, n)
<1>1. /\ r.head[3] = hi(addr) /\ r.head[4] = lo(addr)
      /\ r.head[5] = hi(n) /\ r.head[6] = lo(n)
      /\ r.byteCount = toByte(BytesFor(n)) /\ r.data = packBits(values, n)
  BY DEF writeMultipleCoilsRequest, Request
<1> HIDE DEF r
<1>2. n \in Int /\ n >= 1 /\ n <= 1968
  OBVIOUS
<1>3. addr \in Int /\ addr >= 0 /\ addr <= 65535
  BY UInt16Bounds
<1>4. requestAddr(r) = addr /\ requestQuantity(r) = n
  BY <1>1, <1>2, <1>3, HeadArrives
<1>5. r.byteCount = DataBytes(FCWriteMultipleCoils, n) /\ slaveBits(r.data, n) = values
  BY <1>1, <1>2, CoilDataArrives
<1> QED
  BY <1>4, <1>5 DEF r

\* main.go:685-703: the same of a legal write of several registers.
THEOREM RegistersArriveAtSlave ==
  ASSUME NEW slave \in Byte, NEW addr \in UInt16, NEW n \in 1..123,
         NEW values \in [0 .. n - 1 -> UInt16]
  PROVE  LET r == writeMultipleRegistersRequest(slave, addr, values, n)
         IN  /\ requestAddr(r) = addr /\ requestQuantity(r) = n
             /\ r.byteCount = DataBytes(FCWriteMultipleRegisters, n)
             /\ slaveRegisters(r.data, n) = values
<1> DEFINE r == writeMultipleRegistersRequest(slave, addr, values, n)
<1>1. /\ r.head[3] = hi(addr) /\ r.head[4] = lo(addr)
      /\ r.head[5] = hi(n) /\ r.head[6] = lo(n)
      /\ r.byteCount = toByte(2 * n) /\ r.data = packRegisters(values, n)
  BY DEF writeMultipleRegistersRequest, Request
<1> HIDE DEF r
<1>2. n \in Int /\ n >= 1 /\ n <= 123
  OBVIOUS
<1>3. addr \in Int /\ addr >= 0 /\ addr <= 65535
  BY UInt16Bounds
<1>4. requestAddr(r) = addr /\ requestQuantity(r) = n
  BY <1>1, <1>2, <1>3, HeadArrives
<1>5. r.byteCount = DataBytes(FCWriteMultipleRegisters, n) /\ slaveRegisters(r.data, n) = values
  BY <1>1, <1>2, RegisterDataArrives
<1> QED
  BY <1>4, <1>5 DEF r

\* The command line tool reads the registers the library reads, when the byte count of the
\* answer is the right one.
THEOREM ToolAgreesWithLibrary ==
  ASSUME NEW n \in 0..125, NEW data
  PROVE  readRegs(data, n) = unpackRegisters(2 * n, data, n)
<1>1. ASSUME NEW i \in 0 .. n - 1
      PROVE  toUint16(2 * i + 1) < 2 * n
  <2>1. n \in Int /\ i \in Int /\ 0 <= i /\ i < n /\ i <= 125
    OBVIOUS
  <2>2. toUint16(2 * i + 1) = 2 * i + 1
    BY <2>1, IndexInOrder
  <2> QED
    BY <2>1, <2>2
<1> QED
  BY <1>1, Zenon DEF readRegs, unpackRegisters

-----------------------------------------------------------------------------
(***************************************************************************)
(* The invariant.                                                          *)
(***************************************************************************)
\* Before anything was transmitted; before the slave; after the answer.
Starting == {"parse", "openPort", "openRpio", "setup", "setupRE", "command"}
Sending == {"convert", "enableTX", "raiseRE", "write", "enableRX", "lowerDE", "gap", "sent"}
Unwinding == {"idle", "idleRE", "closeRpio", "closePort"}
Over == {"settled", "fail", "exited"} \cup Unwinding

\* The tool sends functions it knows.
FunctionInv ==
  /\ pc \notin Starting \cup {"exited"} => job.fc \in FunctionCodes
  /\ pc \in Starting \ {"parse"} => job.fc # NoCommand

\* The slave has done what a normal answer says, and nothing before it was asked.
Carried ==
  LET r == RequestOf(job)
  IN  /\ r.head[1] \in Slaves /\ WellFormed(r) /\ Legal(job.fc, r)
      /\ coils = IF job.fc \in {FCWriteSingleCoil, FCWriteMultipleCoils}
                   THEN WrittenBits(job.fc, r) ELSE <<>>
      /\ registers = IF job.fc \in {FCWriteSingleRegister, FCWriteMultipleRegisters}
                       THEN WrittenRegisters(job.fc, r) ELSE <<>>

SlaveInv ==
  /\ pc \in Starting \cup Sending => answer = NoAnswer /\ coils = <<>> /\ registers = <<>>
  /\ answer.kind = "none" => answer = NoAnswer
  /\ answer.kind = "normal" => job.fc \in FunctionCodes /\ Carried

\* The outcome, of an answer that came whole; the panic and the exits.
ResultInv ==
  /\ whole => pc \in Over /\ answer # NoAnswer
  /\ outcome = "ok" => whole
  /\ WholeAnswerIsUsed
  /\ outcome = "ok" /\ Fits /\ job.fc \in Reads =>
       items = [i \in 0 .. job.count - 1 |-> ItemOfSlave(i)]
  /\ pc \in Unwinding => outcome \in {"ok", "panic"}
  /\ exit # Running => pc = "exited"
  /\ exit = 0 => outcome = "ok"

\* Where the driver and the receiver of the tool are known to be off or on.
DriverOff == {"setupRE", "command", "enableTX", "gap", "sent", "await", "fail"} \cup Unwinding
DriverOn == {"raiseRE", "write", "enableRX", "lowerDE"}
ReceiverOn ==
  {"command", "enableTX", "raiseRE", "lowerDE", "gap", "sent", "await", "fail"} \cup Unwinding
PinsMapped ==
  {"setup", "setupRE", "command"} \cup DriverOn \cup (DriverOff \ {"closePort"})

ToolPinInv ==
  Tool =>
    /\ pc # "convert"
    /\ pc \in Starting => outcome = "none"
    /\ pc \in PinsMapped => mapped = (job.transceiver # "auto")
    /\ pc \in DriverOff => ~(HasDE /\ de)
    /\ pc \in DriverOn /\ HasDE => de
    /\ pc \in ReceiverOn => ~(HasRE /\ re)
    /\ pc = "exited" /\ outcome # "none" => ~(HasDE /\ de) /\ ~(HasRE /\ re)

IInv == TypeOK /\ FunctionInv /\ SlaveInv /\ ResultInv /\ ToolPinInv

-----------------------------------------------------------------------------
(***************************************************************************)
(* What is in the request of a job.                                        *)
(***************************************************************************)
LEMMA Narrowed ==
  ASSUME NEW v \in Int
  PROVE  /\ toByte(v) \in Byte /\ toUint16(v) \in UInt16
         /\ hi(v) \in Byte /\ lo(v) \in Byte
         /\ v \in Byte => toByte(v) = v
         /\ v \in UInt16 => toUint16(v) = v
<1>1. \A u \in Int : toByte(u) \in Byte /\ (u \in Byte => toByte(u) = u)
  BY DEF toByte, Byte
<1>2. toUint16(v) \in UInt16
  BY DEF toUint16, UInt16
<1>3. ASSUME v \in UInt16
      PROVE  toUint16(v) = v
  <2>1. v >= 0 /\ v < 65536
    BY <1>3 DEF UInt16
  <2> QED
    BY <2>1 DEF toUint16
<1>4. v \div 256 \in Int
  OBVIOUS
<1> QED
  BY <1>1, <1>2, <1>3, <1>4 DEF hi, lo

\* Every function is of one kind.
LEMMA FunctionsDiffer ==
  ASSUME NEW fc \in FunctionCodes
  PROVE  /\ fc \in BitReads =>
              fc \notin RegisterReads /\ fc \notin SingleWrites /\ fc \notin MultipleWrites
         /\ fc \in RegisterReads =>
              fc \notin BitReads /\ fc \notin SingleWrites /\ fc \notin MultipleWrites
         /\ fc \in SingleWrites =>
              fc \notin BitReads /\ fc \notin RegisterReads /\ fc \notin MultipleWrites
         /\ fc \in MultipleWrites =>
              fc \notin BitReads /\ fc \notin RegisterReads /\ fc \notin SingleWrites
BY DEF BitReads, RegisterReads, SingleWrites, MultipleWrites, FCReadCoils, FCReadDiscreteInputs,
   FCReadHoldingRegisters, FCReadInputRegisters, FCWriteSingleCoil, FCWriteSingleRegister,
   FCWriteMultipleCoils, FCWriteMultipleRegisters

LEMMA ArgsNarrowed ==
  ASSUME NEW j \in Jobs, NEW v
  PROVE  SlaveArg(j) = toByte(j.slave) /\ Arg16(j, v) = toUint16(v)
BY DEF SlaveArg, Arg16, getUint8Arg, getUint16Arg

\* What Request puts where.
LEMMA RequestParts ==
  ASSUME NEW slave, NEW fc, NEW addr, NEW b4, NEW b5, NEW byteCount, NEW data
  PROVE  LET r == Request(slave, fc, addr, b4, b5, byteCount, data)
         IN  /\ r.head[1] = slave /\ r.head[2] = fc
             /\ r.head[3] = hi(addr) /\ r.head[4] = lo(addr)
             /\ r.head[5] = b4 /\ r.head[6] = b5
             /\ r.byteCount = byteCount /\ r.data = data
BY DEF Request

\* The request of each function.
LEMMA RequestOfFunction ==
  ASSUME NEW j \in Jobs
  PROVE  LET a == toUint16(j.addr)
             s == toByte(j.slave)
         IN  /\ j.fc \in Reads => RequestOf(j) = readRequest(j.fc, s, a, toUint16(j.count))
             /\ j.fc = FCWriteSingleCoil => RequestOf(j) = writeCoilRequest(s, a, j.value # 0)
             /\ j.fc = FCWriteSingleRegister =>
                  RequestOf(j) = writeRegisterRequest(s, a, toUint16(j.value))
             /\ j.fc = FCWriteMultipleCoils =>
                  RequestOf(j) = writeMultipleCoilsRequest(s, a, SentBits(j.count), j.count)
             /\ j.fc = FCWriteMultipleRegisters =>
                  RequestOf(j) = writeMultipleRegistersRequest(s, a, SentRegisters(j.count), j.count)
BY ArgsNarrowed DEF RequestOf, Reads, BitReads, RegisterReads, FCReadCoils, FCReadDiscreteInputs,
   FCReadHoldingRegisters, FCReadInputRegisters, FCWriteSingleCoil, FCWriteSingleRegister,
   FCWriteMultipleCoils, FCWriteMultipleRegisters

\* Slave and address, whatever the function.
LEMMA RequestIsAddressed ==
  ASSUME NEW j \in Jobs, j.fc \in FunctionCodes
  PROVE  RequestOf(j).head[1] = toByte(j.slave) /\ requestAddr(RequestOf(j)) = toUint16(j.addr)
<1> DEFINE r == RequestOf(j)
<1>1. /\ r.head[1] = toByte(j.slave)
      /\ r.head[3] = hi(toUint16(j.addr)) /\ r.head[4] = lo(toUint16(j.addr))
  BY RequestOfFunction, RequestParts DEF FunctionCodes, SingleWrites, MultipleWrites, readRequest,
     writeCoilRequest, writeRegisterRequest, writeMultipleCoilsRequest,
     writeMultipleRegistersRequest
<1> HIDE DEF r
<1>2. toUint16(j.addr) \in UInt16
  BY ExchangeAssumption, Narrowed
<1>3. hi(toUint16(j.addr)) * 256 + lo(toUint16(j.addr)) = toUint16(j.addr)
  BY <1>2, UInt16Bounds, WordOfBytes
<1> QED
  BY <1>1, <1>3 DEF r, requestAddr, word

\* The quantity of a read, and the value of a write of one register.
LEMMA RequestIsQuantified ==
  ASSUME NEW j \in Jobs
  PROVE  /\ j.fc \in Reads => requestQuantity(RequestOf(j)) = toUint16(j.count)
         /\ j.fc = FCWriteSingleRegister => requestQuantity(RequestOf(j)) = toUint16(j.value)
<1>1. ASSUME NEW v \in Int
      PROVE  hi(toUint16(v)) * 256 + lo(toUint16(v)) = toUint16(v)
  BY Narrowed, UInt16Bounds, WordOfBytes
<1>2. j.count \in Int /\ j.value \in Int
  BY ExchangeAssumption
<1>3. ASSUME j.fc \in Reads
      PROVE  requestQuantity(RequestOf(j)) = toUint16(j.count)
  BY <1>1, <1>2, <1>3, RequestOfFunction, RequestParts DEF readRequest, requestQuantity, word
<1>4. ASSUME j.fc = FCWriteSingleRegister
      PROVE  requestQuantity(RequestOf(j)) = toUint16(j.value)
  BY <1>1, <1>2, <1>4, RequestOfFunction, RequestParts
     DEF writeRegisterRequest, requestQuantity, word
<1> QED
  BY <1>3, <1>4

\* Whatever the arguments are, the frame is made of bytes.
LEMMA RequestIsBytes ==
  ASSUME NEW j \in Jobs, j.fc \in FunctionCodes
  PROVE  RequestOf(j).byteCount \in Byte /\ \A k \in 1..6 : RequestOf(j).head[k] \in Byte
<1> DEFINE r == RequestOf(j)
<1>1. j.slave \in Int /\ j.count \in Int /\ j.value \in Int /\ j.addr \in Int
  BY ExchangeAssumption
<1>2. /\ toUint16(j.addr) \in Int /\ toUint16(j.count) \in Int /\ toUint16(j.value) \in Int
      /\ BytesFor(j.count) \in Int /\ 2 * j.count \in Int
  BY <1>1 DEF toUint16, BytesFor
<1>3. /\ toByte(j.slave) \in Byte
      /\ hi(toUint16(j.addr)) \in Byte /\ lo(toUint16(j.addr)) \in Byte
      /\ hi(toUint16(j.count)) \in Byte /\ lo(toUint16(j.count)) \in Byte
      /\ hi(toUint16(j.value)) \in Byte /\ lo(toUint16(j.value)) \in Byte
      /\ hi(j.count) \in Byte /\ lo(j.count) \in Byte
      /\ toByte(BytesFor(j.count)) \in Byte /\ toByte(2 * j.count) \in Byte
  BY <1>1, <1>2, Narrowed
<1>4. j.fc \in Byte /\ 0 \in Byte /\ 255 \in Byte
  BY DEF FunctionCodes, Reads, BitReads, RegisterReads, SingleWrites, MultipleWrites, Byte,
     FCReadCoils, FCReadDiscreteInputs, FCReadHoldingRegisters, FCReadInputRegisters,
     FCWriteSingleCoil, FCWriteSingleRegister, FCWriteMultipleCoils, FCWriteMultipleRegisters
<1>5. /\ r.byteCount \in Byte
      /\ r.head[1] \in Byte /\ r.head[2] \in Byte /\ r.head[3] \in Byte
      /\ r.head[4] \in Byte /\ r.head[5] \in Byte /\ r.head[6] \in Byte
  BY <1>3, <1>4, RequestOfFunction, RequestParts DEF FunctionCodes, SingleWrites, MultipleWrites,
     readRequest, writeCoilRequest, writeRegisterRequest, writeMultipleCoilsRequest,
     writeMultipleRegistersRequest
<1> HIDE DEF r
<1>6. \A k \in 1..6 : k = 1 \/ k = 2 \/ k = 3 \/ k = 4 \/ k = 5 \/ k = 6
  OBVIOUS
<1>7. \A k \in 1..6 : r.head[k] \in Byte
  BY <1>5, <1>6
<1> QED
  BY <1>5, <1>7 DEF r

-----------------------------------------------------------------------------
(***************************************************************************)
(* What a slave that carries out a write stores.                           *)
(***************************************************************************)
\* A slave that checks the length of a request, the byte count and the quantity accepts an
\* array only if it is no longer than a frame has room for, and then takes all of it.
LEMMA AcceptedCoils ==
  ASSUME NEW j \in Jobs, j.fc = FCWriteMultipleCoils,
         WellFormed(RequestOf(j)), Legal(j.fc, RequestOf(j))
  PROVE  j.count \in 1..1968 /\ requestQuantity(RequestOf(j)) = j.count
<1> DEFINE r == RequestOf(j)
<1> DEFINE n == j.count
<1>1. j.fc \notin SingleWrites /\ j.fc \notin BitReads \cup RegisterReads /\ j.fc \in MultipleWrites
  BY DEF SingleWrites, MultipleWrites, BitReads, RegisterReads, FCReadCoils, FCReadDiscreteInputs,
     FCReadHoldingRegisters, FCReadInputRegisters, FCWriteSingleCoil, FCWriteSingleRegister,
     FCWriteMultipleCoils, FCWriteMultipleRegisters
<1>2. n \in Nat
  BY <1>1, ExchangeAssumption
<1>3. /\ r.head[5] = hi(n) /\ r.head[6] = lo(n)
      /\ r.byteCount = toByte(BytesFor(n)) /\ r.data = packBits(SentBits(n), n)
  BY RequestOfFunction, RequestParts DEF writeMultipleCoilsRequest
<1> HIDE DEF r
<1>4. BytesFor(n) \in Nat /\ toByte(BytesFor(n)) <= 255
  BY <1>2 DEF BytesFor, toByte
<1>5. Cardinality(DOMAIN r.data) = BytesFor(n)
  <2>1. DOMAIN r.data = 0 .. BytesFor(n) - 1
    BY <1>3 DEF packBits
  <2> DEFINE last == BytesFor(n) - 1
  <2>2. last \in Int
    BY <1>4
  <2> HIDE DEF last
  <2>3. Cardinality(0 .. last) = IF 0 > last THEN 0 ELSE last - 0 + 1
    BY <2>2, FS_Interval
  <2> QED
    BY <1>4, <2>1, <2>3 DEF last
<1>6. BytesFor(n) <= 255
  BY <1>3, <1>4, <1>5 DEF r, WellFormed
<1>7. n \in Int /\ n >= 0 /\ n <= 65535
  BY <1>2, <1>6 DEF BytesFor
<1>8. requestQuantity(r) = n
  BY <1>3, <1>7, WordOfBytes DEF requestQuantity, word
<1>9. requestQuantity(r) \in 1 .. MaxQuantity(j.fc)
  BY <1>1 DEF r, Legal
<1>10. MaxQuantity(j.fc) = 1968
  BY <1>1 DEF MaxQuantity
<1> QED
  BY <1>8, <1>9, <1>10 DEF r

LEMMA AcceptedRegisters ==
  ASSUME NEW j \in Jobs, j.fc = FCWriteMultipleRegisters,
         WellFormed(RequestOf(j)), Legal(j.fc, RequestOf(j))
  PROVE  j.count \in 1..123 /\ requestQuantity(RequestOf(j)) = j.count
<1> DEFINE r == RequestOf(j)
<1> DEFINE n == j.count
<1>1. /\ j.fc \notin SingleWrites /\ j.fc \notin BitReads \cup RegisterReads
      /\ j.fc \in MultipleWrites /\ j.fc # FCWriteMultipleCoils
  BY DEF SingleWrites, MultipleWrites, BitReads, RegisterReads, FCReadCoils, FCReadDiscreteInputs,
     FCReadHoldingRegisters, FCReadInputRegisters, FCWriteSingleCoil, FCWriteSingleRegister,
     FCWriteMultipleCoils, FCWriteMultipleRegisters
<1>2. n \in Nat
  BY <1>1, ExchangeAssumption
<1>3. /\ r.head[5] = hi(n) /\ r.head[6] = lo(n)
      /\ r.byteCount = toByte(2 * n) /\ r.data = packRegisters(SentRegisters(n), n)
  BY RequestOfFunction, RequestParts DEF writeMultipleRegistersRequest
<1> HIDE DEF r
<1>4. toByte(2 * n) <= 255
  BY <1>2 DEF toByte
<1>5. Cardinality(DOMAIN r.data) = 2 * n
  <2>1. DOMAIN r.data = 0 .. 2 * n - 1
    BY <1>3 DEF packRegisters
  <2> DEFINE last == 2 * n - 1
  <2>2. last \in Int
    BY <1>2
  <2> HIDE DEF last
  <2>3. Cardinality(0 .. last) = IF 0 > last THEN 0 ELSE last - 0 + 1
    BY <2>2, FS_Interval
  <2> QED
    BY <1>2, <2>1, <2>3 DEF last
<1>6. 2 * n <= 255
  BY <1>3, <1>4, <1>5 DEF r, WellFormed
<1>7. n \in Int /\ n >= 0 /\ n <= 65535
  BY <1>2, <1>6
<1>8. requestQuantity(r) = n
  BY <1>3, <1>7, WordOfBytes DEF requestQuantity, word
<1>9. requestQuantity(r) \in 1 .. MaxQuantity(j.fc)
  BY <1>1 DEF r, Legal
<1>10. MaxQuantity(j.fc) = 123
  BY <1>1 DEF MaxQuantity
<1> QED
  BY <1>8, <1>9, <1>10 DEF r

\* One coil or one register: the value at the address, in 16 bits.
LEMMA CoilWritten ==
  ASSUME job \in Jobs, job.fc = FCWriteSingleCoil
  PROVE  WrittenBits(job.fc, RequestOf(job)) = [a \in {toUint16(job.addr)} |-> job.value # 0]
<1> DEFINE r == RequestOf(job)
<1> DEFINE a0 == toUint16(job.addr)
<1>1. job.fc \in FunctionCodes
  BY DEF FunctionCodes, SingleWrites
<1>2. requestAddr(r) = a0
  BY <1>1, RequestIsAddressed
<1>3. r.head[5] = IF job.value # 0 THEN 255 ELSE 0
  BY RequestOfFunction, RequestParts DEF writeCoilRequest
<1>4. (r.head[5] = 255) = (job.value # 0)
  BY <1>3
<1>5. WrittenBits(job.fc, r) = [a \in {requestAddr(r)} |-> r.head[5] = 255]
  BY DEF WrittenBits
<1> HIDE DEF r, a0
<1>6. [a \in {requestAddr(r)} |-> r.head[5] = 255] = [a \in {a0} |-> job.value # 0]
  BY <1>2, <1>4
<1>7. WrittenBits(job.fc, r) = [a \in {a0} |-> job.value # 0]
  BY <1>5, <1>6
<1> QED
  BY <1>7 DEF r, a0

LEMMA RegisterWritten ==
  ASSUME job \in Jobs, job.fc = FCWriteSingleRegister
  PROVE  WrittenRegisters(job.fc, RequestOf(job)) = [a \in {toUint16(job.addr)} |-> toUint16(job.value)]
<1> DEFINE r == RequestOf(job)
<1> DEFINE a0 == toUint16(job.addr)
<1>1. job.fc \in FunctionCodes
  BY DEF FunctionCodes, SingleWrites
<1>2. requestAddr(r) = a0 /\ requestQuantity(r) = toUint16(job.value)
  BY <1>1, RequestIsAddressed, RequestIsQuantified
<1>3. WrittenRegisters(job.fc, r) = [a \in {requestAddr(r)} |-> requestQuantity(r)]
  BY DEF WrittenRegisters
<1> HIDE DEF r, a0
<1>4. WrittenRegisters(job.fc, r) = [a \in {a0} |-> toUint16(job.value)]
  BY <1>2, <1>3
<1> QED
  BY <1>4 DEF r, a0

\* Several: each value of the array at its address, and no address past the last.
LEMMA CoilsWritten ==
  ASSUME job \in Jobs, job.fc = FCWriteMultipleCoils,
         WellFormed(RequestOf(job)), Legal(job.fc, RequestOf(job))
  PROVE  /\ toUint16(job.addr) + job.count <= 65536
         /\ WrittenBits(job.fc, RequestOf(job)) =
              [a \in toUint16(job.addr) .. toUint16(job.addr) + job.count - 1 |->
                 SentBit(a - toUint16(job.addr))]
<1> DEFINE r == RequestOf(job)
<1> DEFINE a0 == toUint16(job.addr)
<1> DEFINE n == job.count
<1>1. job.fc \in FunctionCodes /\ job.fc \in MultipleWrites /\ job.fc \notin SingleWrites
  BY DEF FunctionCodes, SingleWrites, MultipleWrites, FCWriteSingleCoil,
     FCWriteSingleRegister, FCWriteMultipleCoils
<1>2. requestAddr(r) = a0
  BY <1>1, RequestIsAddressed
<1>3. n \in 1..1968 /\ requestQuantity(r) = n
  BY AcceptedCoils
<1>4. a0 + n <= 65536
  BY <1>1, <1>2, <1>3 DEF Legal
<1>5. r.data = packBits(SentBits(n), n)
  BY RequestOfFunction, RequestParts DEF writeMultipleCoilsRequest
<1>6. SentBits(n) \in [0 .. n - 1 -> BOOLEAN]
  BY ExchangeAssumption DEF SentBits
<1>7. slaveBits(r.data, n) = SentBits(n)
  <2> HIDE DEF r, n
  <2>1. n \in Int /\ n >= 1 /\ n <= 1968
    BY <1>3
  <2> QED
    BY <1>5, <1>6, <2>1, CoilDataArrives
<1>8. a0 \in Int
  BY ExchangeAssumption DEF toUint16
<1>9. WrittenBits(job.fc, r) = [a \in a0 .. a0 + n - 1 |-> SentBits(n)[a - a0]]
  <2>1. job.fc # FCWriteSingleCoil
    BY <1>1 DEF SingleWrites
  <2> HIDE DEF r, a0, n
  <2> QED
    BY <1>2, <1>3, <1>7, <2>1 DEF WrittenBits
<1>10. \A a \in a0 .. a0 + n - 1 : SentBits(n)[a - a0] = SentBit(a - a0)
  <2> HIDE DEF a0, n
  <2> QED
    BY <1>3, <1>8 DEF SentBits
<1> HIDE DEF r, a0, n
<1>11. WrittenBits(job.fc, r) = [a \in a0 .. a0 + n - 1 |-> SentBit(a - a0)]
  BY <1>9, <1>10
<1> QED
  BY <1>4, <1>11 DEF r, a0, n

LEMMA RegistersWritten ==
  ASSUME job \in Jobs, job.fc = FCWriteMultipleRegisters,
         WellFormed(RequestOf(job)), Legal(job.fc, RequestOf(job))
  PROVE  /\ toUint16(job.addr) + job.count <= 65536
         /\ WrittenRegisters(job.fc, RequestOf(job)) =
              [a \in toUint16(job.addr) .. toUint16(job.addr) + job.count - 1 |->
                 toUint16(SentRegister(a - toUint16(job.addr)))]
<1> DEFINE r == RequestOf(job)
<1> DEFINE a0 == toUint16(job.addr)
<1> DEFINE n == job.count
<1>1. job.fc \in FunctionCodes /\ job.fc \in MultipleWrites /\ job.fc \notin SingleWrites
  BY DEF FunctionCodes, SingleWrites, MultipleWrites, FCWriteSingleCoil,
     FCWriteSingleRegister, FCWriteMultipleRegisters
<1>2. requestAddr(r) = a0
  BY <1>1, RequestIsAddressed
<1>3. n \in 1..123 /\ requestQuantity(r) = n
  BY AcceptedRegisters
<1>4. a0 + n <= 65536
  BY <1>1, <1>2, <1>3 DEF Legal
<1>5. r.data = packRegisters(SentRegisters(n), n)
  BY RequestOfFunction, RequestParts DEF writeMultipleRegistersRequest
<1>6. SentRegisters(n) \in [0 .. n - 1 -> UInt16]
  <2>1. \A i \in 0 .. n - 1 : getUint16Arg(SentRegister(i)) \in UInt16
    BY ExchangeAssumption, Narrowed DEF getUint16Arg
  <2> QED
    BY <2>1 DEF SentRegisters
<1>7. slaveRegisters(r.data, n) = SentRegisters(n)
  <2> HIDE DEF r, n
  <2>1. n \in Int /\ n >= 1 /\ n <= 123
    BY <1>3
  <2> QED
    BY <1>5, <1>6, <2>1, RegisterDataArrives
<1>8. a0 \in Int
  BY ExchangeAssumption DEF toUint16
<1>9. WrittenRegisters(job.fc, r) = [a \in a0 .. a0 + n - 1 |-> SentRegisters(n)[a - a0]]
  <2>1. job.fc # FCWriteSingleRegister
    BY <1>1 DEF SingleWrites
  <2> HIDE DEF r, a0, n
  <2> QED
    BY <1>2, <1>3, <1>7, <2>1 DEF WrittenRegisters
<1>10. \A a \in a0 .. a0 + n - 1 : SentRegisters(n)[a - a0] = toUint16(SentRegister(a - a0))
  <2> HIDE DEF a0, n
  <2> QED
    BY <1>3, <1>8 DEF SentRegisters, getUint16Arg
<1> HIDE DEF r, a0, n
<1>11. WrittenRegisters(job.fc, r) = [a \in a0 .. a0 + n - 1 |-> toUint16(SentRegister(a - a0))]
  BY <1>9, <1>10
<1> QED
  BY <1>4, <1>11 DEF r, a0, n

-----------------------------------------------------------------------------
(***************************************************************************)
(* What the program makes of an answer.                                    *)
(***************************************************************************)
LEMMA WithinUInt16 ==
  ASSUME NEW v \in Int, v >= 0, v <= 65535
  PROVE  v \in UInt16
<1>1. toUint16(v) \in UInt16
  BY Narrowed
<1>2. toUint16(v) = v
  BY DEF toUint16
<1> QED
  BY <1>1, <1>2

LEMMA CountBounds ==
  ASSUME NEW v \in ReadCounts
  PROVE  v \in UInt16 /\ v \in Int /\ v >= 1 /\ v <= 65528
<1>1. v \in Int /\ v >= 1 /\ v <= 65528
  BY DEF ReadCounts
<1>2. v >= 0 /\ v <= 65535
  BY <1>1
<1> QED
  BY <1>1, <1>2, WithinUInt16

LEMMA FittingArgs ==
  ASSUME job \in Jobs, Fits
  PROVE  /\ toByte(job.slave) = job.slave /\ toUint16(job.addr) = job.addr
         /\ job.fc \in Reads => toUint16(job.count) = job.count /\ job.count \in ReadCounts
         /\ job.fc = FCWriteSingleRegister => toUint16(job.value) = job.value
<1>1. job.slave \in Int /\ job.addr \in Int /\ job.count \in Int /\ job.value \in Int
  BY ExchangeAssumption
<1>2. job.fc \in Reads => job.count \in UInt16
  BY CountBounds DEF Fits
<1> QED
  BY <1>1, <1>2, Narrowed DEF Fits

\* The request of a read that fits, and what a slave that accepts it checked.
LEMMA AcceptedRead ==
  ASSUME job \in Jobs, Fits, job.fc \in Reads, Legal(job.fc, RequestOf(job))
  PROVE  LET r == RequestOf(job)
         IN  /\ r.head[1] = job.slave
             /\ requestAddr(r) = job.addr /\ requestQuantity(r) = job.count
             /\ job.count \in 1 .. MaxQuantity(job.fc)
             /\ job.addr \in Int /\ job.addr >= 0 /\ job.addr + job.count <= 65536
<1> DEFINE r == RequestOf(job)
<1>1. job.fc \in FunctionCodes /\ job.fc \notin SingleWrites
  BY FunctionsDiffer DEF FunctionCodes, Reads
<1>2. r.head[1] = job.slave /\ requestAddr(r) = job.addr /\ requestQuantity(r) = job.count
  BY <1>1, FittingArgs, RequestIsAddressed, RequestIsQuantified
<1>3. requestQuantity(r) \in 1 .. MaxQuantity(job.fc) /\ requestAddr(r) + requestQuantity(r) <= 65536
  BY <1>1 DEF Legal
<1>4. job.addr \in Int /\ job.addr >= 0
  BY UInt16Bounds DEF Fits
<1> QED
  BY <1>2, <1>3, <1>4

\* The normal answer has the length the program waits for, and is taken apart inside it.
LEMMA NormalAnswerFits ==
  ASSUME job \in Jobs, Fits, job.fc \in FunctionCodes, Carried, answer.kind = "normal",
         answer.third \in Byte
  PROVE  AnswerLength = Expected(job) /\ DecodesInside
<1> DEFINE r == RequestOf(job)
<1>1. AnswerLength = ConformingLength(job.fc, requestQuantity(r))
  BY DEF AnswerLength
<1>2. CASE job.fc \in Reads
  <2>1. requestQuantity(r) = job.count /\ job.count \in 1 .. MaxQuantity(job.fc)
    BY <1>2, AcceptedRead DEF Carried
  <2>2. Arg16(job, job.count) = job.count /\ job.count \in ReadCounts
    BY <1>2, ArgsNarrowed, FittingArgs
  <2>3. Expected(job) = ConformingLength(job.fc, job.count)
    BY <2>1, <2>2, LengthIsConforming DEF Expected
  <2>4. Expected(job) = expectedResponseLength(job.fc, job.count)
    BY <2>2 DEF Expected
  <2>5. job.count \in Int /\ job.count >= 0 /\ job.count <= 65528 /\ job.count \in UInt16
    BY <2>2, CountBounds
  <2>6. job.fc \in BitReads => unpackBitsInRange(answer.third, job.count, Expected(job))
    BY <2>4, <2>5, BitsInside
  <2>7. job.fc \in RegisterReads => unpackRegistersInRange(answer.third, job.count, Expected(job))
    BY <2>4, <2>5, RegistersStayInside
  <2>8. DecodesInside
    BY <2>2, <2>6, <2>7 DEF DecodesInside
  <2> QED
    BY <1>1, <2>1, <2>3, <2>8
<1>3. CASE job.fc \notin Reads
  <2>1. job.fc \notin BitReads /\ job.fc \notin RegisterReads
    BY <1>3 DEF Reads
  <2>2. job.fc \in SingleWrites \cup MultipleWrites
    BY <1>3 DEF FunctionCodes
  <2>3. Expected(job) = 8 /\ ConformingLength(job.fc, requestQuantity(r)) = 8
    BY <1>3, <2>1, <2>2 DEF Expected, expectedResponseLength, ConformingLength
  <2>4. DecodesInside
    BY <2>1 DEF DecodesInside
  <2> QED
    BY <1>1, <2>3, <2>4
<1> QED
  BY <1>2, <1>3

\* No answer the tool waits for is as short as an exception.
LEMMA ExceptionIsTooShort ==
  ASSUME job \in Jobs, Fits, job.fc \in FunctionCodes
  PROVE  Expected(job) \in Int /\ Expected(job) > exceptionLen
<1>1. job.fc \in BitReads \/ job.fc \in RegisterReads \/ job.fc \in SingleWrites \cup MultipleWrites
  BY DEF FunctionCodes, Reads
<1>2. ASSUME job.fc \in Reads
      PROVE  Arg16(job, job.count) = job.count /\ job.count \in ReadCounts
  BY <1>2, ArgsNarrowed, FittingArgs
<1>3. CASE job.fc \in BitReads
  <2>1. Expected(job) = 3 + toUint16(job.count + 7) \div 8 + 2 /\ job.count \in ReadCounts
    BY <1>2, <1>3 DEF Expected, expectedResponseLength, Reads
  <2>2. job.count \in Int /\ job.count >= 1 /\ job.count <= 65528
    BY <2>1, CountBounds
  <2>3. toUint16(job.count + 7) = job.count + 7
    BY <2>2 DEF toUint16
  <2> QED
    BY <2>1, <2>2, <2>3 DEF exceptionLen
<1>4. CASE job.fc \in RegisterReads
  <2>1. job.fc \notin BitReads
    BY <1>4, FunctionsDiffer
  <2>2. Expected(job) = 3 + 2 * job.count + 2 /\ job.count \in ReadCounts
    BY <1>2, <1>4, <2>1 DEF Expected, expectedResponseLength, Reads
  <2>3. job.count \in Int /\ job.count >= 1
    BY <2>2, CountBounds
  <2> QED
    BY <2>2, <2>3 DEF exceptionLen
<1>5. CASE job.fc \in SingleWrites \cup MultipleWrites
  <2>1. job.fc \notin BitReads /\ job.fc \notin RegisterReads
    BY <1>5, FunctionsDiffer
  <2> QED
    BY <1>5, <2>1 DEF Expected, expectedResponseLength, exceptionLen
<1> QED
  BY <1>1, <1>3, <1>4, <1>5

\* The bits taken out of an answer are the slave's.
LEMMA BitsOfSlave ==
  ASSUME job \in Jobs, Fits, job.fc \in BitReads, Carried, answer.kind = "normal"
  PROVE  Decoded = [i \in 0 .. job.count - 1 |-> ItemOfSlave(i)]
<1> DEFINE r == RequestOf(job)
<1> DEFINE n == job.count
<1> DEFINE values == [i \in 0 .. n - 1 |-> Bit(job.slave, job.fc, job.addr + i)]
<1>1. job.fc \in Reads /\ job.fc \notin RegisterReads /\ job.fc # FCWriteMultipleCoils
  BY FunctionsDiffer DEF Reads, FunctionCodes, MultipleWrites
<1>2. /\ r.head[1] = job.slave /\ requestAddr(r) = job.addr /\ requestQuantity(r) = n
      /\ n \in 1..2000 /\ job.addr \in Int /\ job.addr >= 0 /\ job.addr + n <= 65536
  <2>1. MaxQuantity(job.fc) = 2000
    BY <1>1 DEF MaxQuantity
  <2>2. Legal(job.fc, r)
    BY DEF Carried
  <2> QED
    BY <1>1, <2>1, <2>2, AcceptedRead
<1>3. job.slave \in Slaves
  BY <1>2 DEF Carried
<1>4. AnsweredBits = packBits(values, n)
  <2> HIDE DEF r
  <2>1. AnsweredBits =
          packBits([i \in 0 .. requestQuantity(r) - 1 |->
                      Bit(r.head[1], job.fc, requestAddr(r) + i)], requestQuantity(r))
    BY DEF AnsweredBits, IsException, r
  <2> QED
    BY <1>2, <2>1
<1>5. Decoded = unpackBits(answer.third, AnsweredBits, n)
  <2>1. Arg16(job, n) = n
    BY <1>1, ArgsNarrowed, FittingArgs
  <2> QED
    BY <1>1, <2>1, Zenon DEF Decoded
<1>6. ASSUME NEW i \in 0 .. n - 1
      PROVE  (i \div 8 < answer.third /\ AnsweredBits[i \div 8][i % 8]) = ItemOfSlave(i)
  <2>1. job.addr + i \in UInt16
    <3> HIDE DEF values, n, r
    <3>1. job.addr + i \in Int /\ job.addr + i >= 0 /\ job.addr + i <= 65535
      BY <1>2
    <3> QED
      BY <3>1, WithinUInt16
  <2>2. Bit(job.slave, job.fc, job.addr + i) \in BOOLEAN
    BY <1>3, <2>1, ExchangeAssumption
  <2>3. values[i] = Bit(job.slave, job.fc, job.addr + i)
    OBVIOUS
  <2>4. packBits(values, n)[i \div 8][i % 8] = values[i]
    <3> HIDE DEF values, n, r
    <3>1. n \in Int /\ n >= 0 /\ i \in Int /\ 0 <= i /\ i < n
      BY <1>2
    <3> QED
      BY <2>2, <2>3, <3>1, BitIsPacked
  <2>5. ItemOfSlave(i) = (i \div 8 < answer.third /\ Bit(job.slave, job.fc, job.addr + i))
    BY DEF ItemOfSlave
  <2> HIDE DEF values, n, r
  <2> QED
    BY <1>4, <2>2, <2>3, <2>4, <2>5
<1> HIDE DEF values, n, r
<1>7. unpackBits(answer.third, AnsweredBits, n) = [i \in 0 .. n - 1 |-> ItemOfSlave(i)]
  BY <1>6 DEF unpackBits
<1> QED
  BY <1>5, <1>7 DEF n

\* The registers taken out of an answer are the slave's, where the byte count covers them.
LEMMA RegistersOfSlave ==
  ASSUME job \in Jobs, Fits, job.fc \in RegisterReads, Carried, answer.kind = "normal"
  PROVE  Decoded = [i \in 0 .. job.count - 1 |-> ItemOfSlave(i)]
<1> DEFINE r == RequestOf(job)
<1> DEFINE n == job.count
<1> DEFINE values == [i \in 0 .. n - 1 |-> Register(job.slave, job.fc, job.addr + i)]
<1>1. job.fc \in Reads /\ job.fc \notin BitReads /\ job.fc # FCWriteMultipleCoils
  BY FunctionsDiffer DEF Reads, FunctionCodes, MultipleWrites
<1>2. /\ r.head[1] = job.slave /\ requestAddr(r) = job.addr /\ requestQuantity(r) = n
      /\ n \in 1..125 /\ job.addr \in Int /\ job.addr >= 0 /\ job.addr + n <= 65536
  <2>1. MaxQuantity(job.fc) = 125
    BY <1>1 DEF MaxQuantity
  <2>2. Legal(job.fc, r)
    BY DEF Carried
  <2> QED
    BY <1>1, <2>1, <2>2, AcceptedRead
<1>3. job.slave \in Slaves
  BY <1>2 DEF Carried
<1>4. AnsweredRegisters = packRegisters(values, n)
  <2> HIDE DEF r
  <2>1. AnsweredRegisters =
          packRegisters([i \in 0 .. requestQuantity(r) - 1 |->
                           Register(r.head[1], job.fc, requestAddr(r) + i)], requestQuantity(r))
    BY DEF AnsweredRegisters, r
  <2> QED
    BY <1>2, <2>1
<1>5. Decoded = IF Tool THEN readRegs(AnsweredRegisters, n)
                ELSE unpackRegisters(answer.third, AnsweredRegisters, n)
  <2>1. Arg16(job, n) = n
    BY <1>1, ArgsNarrowed, FittingArgs
  <2> QED
    BY <1>1, <2>1 DEF Decoded
<1>6. ASSUME NEW i \in 0 .. n - 1
      PROVE  /\ toUint16(2 * i + 1) = 2 * i + 1
             /\ registerAt(AnsweredRegisters, i) = Register(job.slave, job.fc, job.addr + i)
  <2>1. Register(job.slave, job.fc, job.addr + i) \in UInt16
    <3>1. job.addr + i \in UInt16
      BY <1>2, WithinUInt16
    <3> QED
      BY <1>3, <3>1, ExchangeAssumption
  <2>2. values[i] = Register(job.slave, job.fc, job.addr + i)
    OBVIOUS
  <2> HIDE DEF values, n, r
  <2>3. n \in Int /\ i \in Int /\ 0 <= i /\ i < n /\ i <= 125
    BY <1>2
  <2>4. toUint16(2 * i + 1) = 2 * i + 1 /\ highIndex(i) = 2 * i /\ lowIndex(i) = 2 * i + 1
    BY <2>3, IndexInOrder
  <2>5. /\ AnsweredRegisters[2 * i] = hi(values[i])
        /\ AnsweredRegisters[2 * i + 1] = lo(values[i])
    BY <1>4, <2>3, RegisterIsPacked
  <2>6. hi(values[i]) * 256 + lo(values[i]) = values[i]
    BY <2>1, <2>2, UInt16Bounds, WordOfBytes
  <2> QED
    BY <2>2, <2>4, <2>5, <2>6 DEF registerAt
<1> HIDE DEF values, n, r
<1>7. ASSUME Tool
      PROVE  readRegs(AnsweredRegisters, n) = [i \in 0 .. n - 1 |-> ItemOfSlave(i)]
  <2>1. \A i \in 0 .. n - 1 : ItemOfSlave(i) = Register(job.slave, job.fc, job.addr + i)
    BY <1>1, <1>7 DEF ItemOfSlave
  <2> QED
    BY <1>6, <2>1 DEF readRegs
<1>8. ASSUME ~Tool
      PROVE  unpackRegisters(answer.third, AnsweredRegisters, n) =
               [i \in 0 .. n - 1 |-> ItemOfSlave(i)]
  <2>1. \A i \in 0 .. n - 1 :
          ItemOfSlave(i) = IF 2 * i + 1 < answer.third
                             THEN Register(job.slave, job.fc, job.addr + i) ELSE 0
    BY <1>1, <1>8 DEF ItemOfSlave
  <2> QED
    BY <1>6, <2>1 DEF unpackRegisters
<1> QED
  BY <1>5, <1>7, <1>8 DEF n

-----------------------------------------------------------------------------
\* What a slave stores are bits and 16-bit numbers at 16-bit addresses.
LEMMA StoredValues ==
  ASSUME job \in Jobs, WellFormed(RequestOf(job)), Legal(job.fc, RequestOf(job))
  PROVE  /\ job.fc \in {FCWriteSingleCoil, FCWriteMultipleCoils} =>
              LET c == WrittenBits(job.fc, RequestOf(job))
              IN  DOMAIN c \subseteq UInt16 /\ \A a \in DOMAIN c : c[a] \in BOOLEAN
         /\ job.fc \in {FCWriteSingleRegister, FCWriteMultipleRegisters} =>
              LET c == WrittenRegisters(job.fc, RequestOf(job))
              IN  DOMAIN c \subseteq UInt16 /\ \A a \in DOMAIN c : c[a] \in UInt16
<1> DEFINE a0 == toUint16(job.addr)
<1> DEFINE n == job.count
<1>1. a0 \in UInt16 /\ toUint16(job.value) \in UInt16
  BY ExchangeAssumption, Narrowed
<1>2. a0 \in Int /\ a0 >= 0 /\ n \in Int
  BY <1>1, UInt16Bounds, ExchangeAssumption
<1>3. ASSUME a0 + n <= 65536
      PROVE  a0 .. a0 + n - 1 \subseteq UInt16
  <2> HIDE DEF a0, n
  <2> SUFFICES ASSUME NEW v \in a0 .. a0 + n - 1
               PROVE  v \in UInt16
    OBVIOUS
  <2>1. v \in Int /\ v >= 0 /\ v <= 65535
    BY <1>2, <1>3
  <2> QED
    BY <2>1, WithinUInt16
<1>4. CASE job.fc = FCWriteSingleCoil
  <2>1. WrittenBits(job.fc, RequestOf(job)) = [a \in {a0} |-> job.value # 0]
    BY <1>4, CoilWritten
  <2>2. job.fc \notin {FCWriteSingleRegister, FCWriteMultipleRegisters}
    BY <1>4 DEF FCWriteSingleCoil, FCWriteSingleRegister, FCWriteMultipleRegisters
  <2> HIDE DEF a0
  <2> QED
    BY <1>1, <2>1, <2>2
<1>5. CASE job.fc = FCWriteMultipleCoils
  <2>1. /\ a0 + n <= 65536
        /\ WrittenBits(job.fc, RequestOf(job)) = [a \in a0 .. a0 + n - 1 |-> SentBit(a - a0)]
    BY <1>5, CoilsWritten
  <2>2. job.fc \notin {FCWriteSingleRegister, FCWriteMultipleRegisters}
    BY <1>5 DEF FCWriteMultipleCoils, FCWriteSingleRegister, FCWriteMultipleRegisters
  <2>3. \A i \in 0 .. n - 1 : SentBit(i) \in BOOLEAN
    BY <1>5, ExchangeAssumption
  <2> HIDE DEF a0, n
  <2>4. \A a \in a0 .. a0 + n - 1 : a - a0 \in 0 .. n - 1
    BY <1>2
  <2> QED
    BY <1>3, <2>1, <2>2, <2>3, <2>4
<1>6. CASE job.fc = FCWriteSingleRegister
  <2>1. WrittenRegisters(job.fc, RequestOf(job)) = [a \in {a0} |-> toUint16(job.value)]
    BY <1>6, RegisterWritten
  <2>2. job.fc \notin {FCWriteSingleCoil, FCWriteMultipleCoils}
    BY <1>6 DEF FCWriteSingleCoil, FCWriteMultipleCoils, FCWriteSingleRegister
  <2> HIDE DEF a0
  <2> QED
    BY <1>1, <2>1, <2>2
<1>7. CASE job.fc = FCWriteMultipleRegisters
  <2>1. /\ a0 + n <= 65536
        /\ WrittenRegisters(job.fc, RequestOf(job)) =
             [a \in a0 .. a0 + n - 1 |-> toUint16(SentRegister(a - a0))]
    BY <1>7, RegistersWritten
  <2>2. job.fc \notin {FCWriteSingleCoil, FCWriteMultipleCoils}
    BY <1>7 DEF FCWriteSingleCoil, FCWriteMultipleCoils, FCWriteMultipleRegisters
  <2>3. \A i \in 0 .. n - 1 : toUint16(SentRegister(i)) \in UInt16
    BY <1>7, ExchangeAssumption, Narrowed
  <2> HIDE DEF a0, n
  <2>4. \A a \in a0 .. a0 + n - 1 : a - a0 \in 0 .. n - 1
    BY <1>2
  <2> QED
    BY <1>3, <2>1, <2>2, <2>3, <2>4
<1> QED
  BY <1>4, <1>5, <1>6, <1>7

-----------------------------------------------------------------------------
(***************************************************************************)
(* The invariant holds at first and is kept by every step.                 *)
(***************************************************************************)
LEMMA InitIInv == Init => IInv
<1> SUFFICES ASSUME Init PROVE IInv
  OBVIOUS
<1>1. /\ job \in Jobs /\ pc \in {"parse", "convert"} /\ (Tool => pc = "parse")
      /\ (~Tool => pc = "convert")
      /\ answer = NoAnswer /\ coils = <<>> /\ registers = <<>>
      /\ whole = FALSE /\ items = <<>> /\ outcome = "none"
      /\ mapped = FALSE /\ exit = Running /\ de \in BOOLEAN /\ re \in BOOLEAN
  BY DEF Init, Tool
<1>2. TypeOK
  <2>1. answer \in [kind : {"none", "normal", "exception"}, third : Byte]
    BY <1>1 DEF NoAnswer, Byte
  <2>2. DOMAIN coils = {} /\ DOMAIN registers = {}
    BY <1>1
  <2> QED
    BY <1>1, <2>1, <2>2 DEF TypeOK, Labels
<1>3. FunctionInv
  BY <1>1, ExchangeAssumption DEF FunctionInv, Starting, Tool
<1>4. SlaveInv
  BY <1>1 DEF SlaveInv, NoAnswer
<1>5. ResultInv
  BY <1>1 DEF ResultInv, WholeAnswerIsUsed, Over, Unwinding, Running
<1>6. ToolPinInv
  BY <1>1 DEF ToolPinInv, PinsMapped, DriverOff, DriverOn, ReceiverOn, Unwinding
<1> QED
  BY <1>2, <1>3, <1>4, <1>5, <1>6 DEF IInv
\* The steps that take nothing from the bus: the start of either program, the pins, the exits.
Quiet ==
  \/ ConvertArgs \/ ToolStarts \/ enableTX \/ WriteFrame \/ enableRX \/ Gap \/ ToolEnds

\* The steps that decide the outcome.
Concludes == AddonReceives \/ ToolReceives \/ TimesOut \/ WriteFails \/ GapPanics

LEMMA NextIs == ASSUME Next PROVE Slave \/ Quiet \/ Concludes
BY DEF Next, Addon, ToolExchanges, Quiet, Concludes

LEMMA QuietKeeps ==
  ASSUME Quiet
  PROVE  UNCHANGED <<job, slaveVars, resultVars>>
BY DEF Quiet, ConvertArgs, ToolStarts, ParseFlags, NoCommandGiven, OpenPort, PortFails, OpenRpio,
   RpioFails, Setup, setupTransceiver, RunCommand, UnknownCommandGiven, enableTX, WriteFrame,
   enableRX, Gap, ToolEnds, check, Idle, CloseRpio, ClosePort, HostStep, PinStep, Exit

\* Where a quiet step leads.
QuietWay ==
  /\ pc' \in Labels /\ pc # "exited" /\ pc # "await"
  /\ pc' \in Starting \cup Sending => pc \in Starting \cup Sending
  /\ pc \in Over => pc' \in Over
  /\ pc' \in Unwinding => pc \in Unwinding
  /\ pc' \in Starting \ {"parse"} => job.fc # NoCommand \/ pc \in Starting \ {"parse"}
  /\ pc' \notin Starting \cup {"exited"} =>
       pc \notin Starting \/ (job.fc # UnknownCommand /\ pc \in Starting \ {"parse"})

QuietExit ==
  \/ exit' = exit
  \/ pc' = "exited" /\ exit' \in {1, 2}
  \/ pc' = "exited" /\ exit' = 0 /\ pc = "closePort" /\ outcome # "panic"

LEMMA HostLeads ==
  ASSUME ConvertArgs \/ ToolStarts \/ WriteFrame \/ Gap \/ ToolEnds
  PROVE  QuietWay
<1>1. CASE ConvertArgs
  BY <1>1 DEF ConvertArgs, QuietWay, Labels, Starting, Sending, Unwinding, Over
<1>2. CASE ToolStarts
  BY <1>2 DEF ToolStarts, ParseFlags, NoCommandGiven, OpenPort, PortFails, OpenRpio,
     RpioFails, Setup, setupTransceiver, RunCommand, UnknownCommandGiven, HostStep, PinStep, Exit,
     QuietWay, Labels, Starting, Sending, Unwinding, Over
<1>3. CASE WriteFrame \/ Gap
  BY <1>3 DEF WriteFrame, Gap, HostStep, QuietWay, Labels, Starting, Sending, Unwinding, Over
<1>4. CASE ToolEnds
  BY <1>4 DEF ToolEnds, check, Idle, setupTransceiver, CloseRpio, ClosePort, PinStep, Exit,
     QuietWay, Labels, Starting, Sending, Unwinding, Over
<1> QED
  BY <1>1, <1>2, <1>3, <1>4

LEMMA QuietLeads == ASSUME Quiet PROVE QuietWay
<1>1. CASE enableTX
  BY <1>1 DEF enableTX, PinStep, QuietWay, Labels, Starting, Sending, Unwinding, Over
<1>2. CASE enableRX
  BY <1>2 DEF enableRX, PinStep, QuietWay, Labels, Starting, Sending, Unwinding, Over
<1> QED
  BY <1>1, <1>2, HostLeads DEF Quiet

LEMMA QuietExits == ASSUME Quiet, mapped \in BOOLEAN PROVE QuietExit /\ mapped' \in BOOLEAN
BY DEF Quiet, ConvertArgs, ToolStarts, ParseFlags, NoCommandGiven, OpenPort, PortFails, OpenRpio,
   RpioFails, Setup, setupTransceiver, RunCommand, UnknownCommandGiven, enableTX, WriteFrame,
   enableRX, Gap, ToolEnds, check, Idle, CloseRpio, ClosePort, HostStep, PinStep, Exit,
   QuietExit, hostVars

\* From where, and to where, the steps that decide the outcome lead.
ConcludesWay ==
  /\ \/ pc = "await" /\ pc' \in {"settled", "fail", "idle"}
     \/ pc = "write" /\ pc' = "enableRX" /\ outcome' = "failed" /\ whole' = whole
     \/ pc = "gap" /\ pc' = "idle" /\ outcome' = "panic" /\ whole' = whole
  /\ pc = "await" /\ pc' = "idle" => outcome' \in {"ok", "panic"}
  /\ outcome' \in {"ok", "timeout", "crc", "exception", "failed", "panic"}
  /\ whole' \in {whole, TRUE}
  /\ Tool => pc' # "settled"

LEMMA ConcludesKeeps ==
  ASSUME Concludes
  PROVE  UNCHANGED <<job, slaveVars, hostVars, pinVars>>
BY DEF Concludes, AddonReceives, ToolReceives, TimesOut, WriteFails, FailWrite, GapPanics

LEMMA ConcludesLeads ==
  ASSUME Concludes
  PROVE  ConcludesWay
<1>1. CASE AddonReceives
  BY <1>1 DEF AddonReceives, Verdict, Give, Decode, ConcludesWay
<1>2. CASE ToolReceives
  BY <1>2 DEF ToolReceives, Verdict, Give, Decode, ConcludesWay
<1>3. CASE TimesOut
  BY <1>3 DEF TimesOut, Give, ConcludesWay
<1>4. CASE WriteFails \/ GapPanics
  BY <1>4 DEF WriteFails, FailWrite, GapPanics, Give, ConcludesWay
<1> QED
  BY <1>1, <1>2, <1>3, <1>4 DEF Concludes
LEMMA SlaveLeads ==
  ASSUME Slave
  PROVE  /\ pc = "sent" /\ pc' = "await"
         /\ UNCHANGED <<job, resultVars, hostVars, pinVars>>
BY DEF Slave, Execute, Refuse, Ignore

LEMMA JobStays == ASSUME Next PROVE job' = job
BY NextIs, SlaveLeads, QuietKeeps, ConcludesKeeps

LEMMA FunctionStep ==
  ASSUME IInv, Next
  PROVE  FunctionInv'
<1>1. job' = job /\ FunctionInv /\ job \in Jobs
  BY JobStays DEF IInv, TypeOK
<1>2. CASE Slave
  BY <1>1, <1>2, SlaveLeads DEF FunctionInv, Starting
<1>3. CASE Quiet
  <2>1. QuietWay
    BY <1>3, QuietLeads
  <2>2. job.fc \in FunctionCodes \cup {NoCommand, UnknownCommand}
    BY <1>1, ExchangeAssumption DEF ToolFunctions, FunctionCodes
  <2> QED
    BY <1>1, <2>1, <2>2 DEF QuietWay, FunctionInv
<1>4. CASE Concludes
  <2>1. ConcludesWay
    BY <1>4, ConcludesLeads
  <2>2. pc \notin Starting \cup {"exited"} /\ pc' \notin Starting
    BY <2>1 DEF ConcludesWay, Starting
  <2> QED
    BY <1>1, <2>2 DEF FunctionInv
<1> QED
  BY <1>2, <1>3, <1>4, NextIs

\* The slave's steps: what was stored, and the answer.
LEMMA SlaveStep ==
  ASSUME IInv, Next
  PROVE  SlaveInv'
<1>1. SlaveInv /\ FunctionInv /\ job' = job
  BY JobStays DEF IInv
<1>2. ASSUME UNCHANGED slaveVars, pc' \in Starting \cup Sending => pc \in Starting \cup Sending
      PROVE  SlaveInv'
  <2>1. answer' = answer /\ coils' = coils /\ registers' = registers
    BY <1>2 DEF slaveVars
  <2>2. Carried => Carried'
    BY <1>1, <2>1 DEF Carried
  <2> QED
    BY <1>1, <1>2, <2>1, <2>2 DEF SlaveInv
<1>3. CASE Execute
  <2> DEFINE r == RequestOf(job)
  <2>1. /\ pc = "sent" /\ pc' = "await"
        /\ r.head[1] \in Slaves \/ r.head[1] = 0
        /\ WellFormed(r) /\ Legal(job.fc, r)
        /\ coils' = IF job.fc \in {FCWriteSingleCoil, FCWriteMultipleCoils}
                      THEN WrittenBits(job.fc, r) ELSE coils
        /\ registers' = IF job.fc \in {FCWriteSingleRegister, FCWriteMultipleRegisters}
                          THEN WrittenRegisters(job.fc, r) ELSE registers
        /\ \/ answer' = NoAnswer
           \/ r.head[1] # 0 /\ answer'.kind = "normal"
    BY <1>3 DEF Execute
  <2>2. coils = <<>> /\ registers = <<>> /\ job.fc \in FunctionCodes
    BY <1>1, <2>1 DEF SlaveInv, FunctionInv, Sending, Starting
  <2>3. pc' \notin Starting \cup Sending
    BY <2>1 DEF Starting, Sending
  <2>4. answer'.kind = "normal" => Carried'
    <3>1. RequestOf(job') = r
      BY <1>1
    <3> HIDE DEF r
    <3>2. answer'.kind = "normal" => r.head[1] \in Slaves
      BY <2>1 DEF NoAnswer
    <3> QED
      BY <1>1, <2>1, <2>2, <3>1, <3>2 DEF Carried
  <2>5. answer'.kind = "none" => answer' = NoAnswer
    BY <2>1
  <2> QED
    BY <1>1, <2>2, <2>3, <2>4, <2>5 DEF SlaveInv
<1>4. CASE Refuse
  <2>1. answer'.kind = "exception" /\ pc' = "await"
    BY <1>4 DEF Refuse
  <2> QED
    BY <2>1 DEF SlaveInv, Starting, Sending
<1>5. CASE Ignore
  <2>1. UNCHANGED slaveVars /\ pc' = "await"
    BY <1>5 DEF Ignore
  <2> QED
    BY <1>2, <2>1 DEF Starting, Sending
<1>6. CASE Quiet
  BY <1>2, <1>6, QuietKeeps, QuietLeads DEF QuietWay
<1>7. CASE Concludes
  <2>1. ConcludesWay /\ UNCHANGED slaveVars
    BY <1>7, ConcludesLeads, ConcludesKeeps
  <2>2. pc' \in Starting \cup Sending => pc \in Starting \cup Sending
    BY <2>1 DEF ConcludesWay, Starting, Sending
  <2> QED
    BY <1>2, <2>1, <2>2
<1> QED
  BY <1>3, <1>4, <1>5, <1>6, <1>7, NextIs DEF Slave

\* What a slave answers, and what it stored, are bytes, bits and words.
LEMMA SlaveTypes ==
  ASSUME TypeOK, FunctionInv, Slave
  PROVE  /\ answer' \in [kind : {"none", "normal", "exception"}, third : Byte]
         /\ DOMAIN coils' \subseteq UInt16 /\ DOMAIN registers' \subseteq UInt16
         /\ \A a \in DOMAIN coils' : coils'[a] \in BOOLEAN
         /\ \A a \in DOMAIN registers' : registers'[a] \in UInt16
<1> DEFINE r == RequestOf(job)
<1>1. CASE Execute
  <2>1. /\ WellFormed(r) /\ Legal(job.fc, r)
        /\ coils' = IF job.fc \in {FCWriteSingleCoil, FCWriteMultipleCoils}
                      THEN WrittenBits(job.fc, r) ELSE coils
        /\ registers' = IF job.fc \in {FCWriteSingleRegister, FCWriteMultipleRegisters}
                          THEN WrittenRegisters(job.fc, r) ELSE registers
        /\ \/ answer' = NoAnswer
           \/ \E b \in ByteCounts(job.fc, r) : answer' = [kind |-> "normal", third |-> b]
    BY <1>1 DEF Execute
  <2>2. ByteCounts(job.fc, r) \subseteq Byte
    BY DEF ByteCounts, Byte
  <2>3. answer' \in [kind : {"none", "normal", "exception"}, third : Byte]
    <3>1. NoAnswer \in [kind : {"none", "normal", "exception"}, third : Byte]
      BY DEF NoAnswer, Byte
    <3> HIDE DEF r
    <3> QED
      BY <2>1, <2>2, <3>1
  <2>4. job \in Jobs
    BY DEF TypeOK
  <2>5. DOMAIN coils' \subseteq UInt16 /\ \A a \in DOMAIN coils' : coils'[a] \in BOOLEAN
    <3>1. CASE job.fc \in {FCWriteSingleCoil, FCWriteMultipleCoils}
      BY <2>1, <2>4, <3>1, StoredValues, Zenon
    <3>2. CASE job.fc \notin {FCWriteSingleCoil, FCWriteMultipleCoils}
      <4>1. coils' = coils
        BY <2>1, <3>2, Zenon
      <4> QED
        BY <4>1, Zenon DEF TypeOK
    <3> QED
      BY <3>1, <3>2
  <2>6. DOMAIN registers' \subseteq UInt16 /\ \A a \in DOMAIN registers' : registers'[a] \in UInt16
    <3>1. CASE job.fc \in {FCWriteSingleRegister, FCWriteMultipleRegisters}
      BY <2>1, <2>4, <3>1, StoredValues, Zenon
    <3>2. CASE job.fc \notin {FCWriteSingleRegister, FCWriteMultipleRegisters}
      <4>1. registers' = registers
        BY <2>1, <3>2, Zenon
      <4> QED
        BY <4>1, Zenon DEF TypeOK
    <3> QED
      BY <3>1, <3>2
  <2> QED
    BY <2>3, <2>5, <2>6
<1>2. CASE Refuse
  <2>1. coils' = coils /\ registers' = registers
    BY <1>2 DEF Refuse
  <2>2. \E code \in 1..4 : answer' = [kind |-> "exception", third |-> code]
    BY <1>2 DEF Refuse
  <2>3. answer' \in [kind : {"none", "normal", "exception"}, third : Byte]
    BY <2>2 DEF Byte
  <2> QED
    BY <2>1, <2>3, Zenon DEF TypeOK
<1>3. CASE Ignore
  <2>1. answer' = answer /\ coils' = coils /\ registers' = registers
    BY <1>3 DEF Ignore, slaveVars
  <2> QED
    BY <2>1, Zenon DEF TypeOK
<1> QED
  BY <1>1, <1>2, <1>3 DEF Slave

LEMMA TypeStep ==
  ASSUME IInv, Next
  PROVE  TypeOK'
<1>1. TypeOK /\ FunctionInv /\ job' = job /\ job \in Jobs
  BY JobStays DEF IInv, TypeOK
<1>2. pc' \in Labels
  <2>1. CASE Slave
    BY <2>1, SlaveLeads DEF Labels
  <2>2. CASE Quiet
    BY <2>2, QuietLeads DEF QuietWay
  <2>3. CASE Concludes
    BY <2>3, ConcludesLeads DEF ConcludesWay, Labels
  <2> QED
    BY <2>1, <2>2, <2>3, NextIs
<1>3. /\ answer' \in [kind : {"none", "normal", "exception"}, third : Byte]
      /\ DOMAIN coils' \subseteq UInt16 /\ DOMAIN registers' \subseteq UInt16
      /\ \A a \in DOMAIN coils' : coils'[a] \in BOOLEAN
      /\ \A a \in DOMAIN registers' : registers'[a] \in UInt16
  <2>1. CASE Slave
    BY <1>1, <2>1, SlaveTypes
  <2>2. CASE UNCHANGED slaveVars
    <3>1. answer' = answer /\ coils' = coils /\ registers' = registers
      BY <2>2 DEF slaveVars
    <3> QED
      BY <1>1, <3>1, Zenon DEF TypeOK
  <2> QED
    BY <2>1, <2>2, NextIs, QuietKeeps, ConcludesKeeps
<1>4. /\ outcome' \in {"none", "ok", "timeout", "crc", "exception", "failed", "panic"}
      /\ whole' \in BOOLEAN
  <2>1. CASE Concludes
    BY <1>1, <2>1, ConcludesLeads DEF ConcludesWay, TypeOK
  <2>2. CASE UNCHANGED resultVars
    BY <1>1, <2>2 DEF resultVars, TypeOK
  <2> QED
    BY <2>1, <2>2, NextIs, SlaveLeads, QuietKeeps
<1>5. exit' \in {Running, 0, 1, 2} /\ mapped' \in BOOLEAN
  <2>1. CASE Quiet
    BY <1>1, <2>1, QuietExits DEF QuietExit, TypeOK
  <2>2. CASE UNCHANGED hostVars
    BY <1>1, <2>2 DEF hostVars, TypeOK
  <2> QED
    BY <2>1, <2>2, NextIs, SlaveLeads, ConcludesKeeps
<1>6. de' \in BOOLEAN /\ re' \in BOOLEAN
  <2>1. CASE Quiet
    BY <1>1, <2>1 DEF Quiet, ConvertArgs, ToolStarts, ParseFlags, NoCommandGiven, OpenPort,
       PortFails, OpenRpio, RpioFails, Setup, setupTransceiver, RunCommand, UnknownCommandGiven,
       enableTX, WriteFrame, enableRX, Gap, ToolEnds, check, Idle, CloseRpio, ClosePort, HostStep,
       PinStep, Exit, pinVars, HasDE, HasRE, TypeOK
  <2>2. CASE UNCHANGED pinVars
    BY <1>1, <2>2 DEF pinVars, TypeOK
  <2> QED
    BY <2>1, <2>2, NextIs, SlaveLeads, ConcludesKeeps
<1>7. pc' = "sent" => RequestOf(job').byteCount \in Byte /\ \A k \in 1..6 : RequestOf(job').head[k] \in Byte
  <2>1. pc' = "sent" => job.fc \in FunctionCodes
    BY <1>1, FunctionStep DEF FunctionInv, Starting
  <2> QED
    BY <1>1, <2>1, RequestIsBytes
<1> QED
  BY <1>1, <1>2, <1>3, <1>4, <1>5, <1>6, <1>7, Zenon DEF TypeOK
\* The outcome of an answer that comes whole, for arguments that fit: a normal one is used,
\* an exception is not.
LEMMA ReceivedOutcome ==
  ASSUME IInv, Fits, AddonReceives \/ ToolReceives
  PROVE  /\ answer.kind = "normal" =>
              /\ outcome' = "ok"
              /\ job.fc \in Reads => items' = [i \in 0 .. job.count - 1 |-> ItemOfSlave(i)]
         /\ answer.kind # "normal" =>
              outcome' \in IF Tool THEN {"timeout", "crc"} ELSE {"exception"}
<1>1. /\ pc = "await" /\ answer # NoAnswer /\ job \in Jobs
      /\ answer.kind \in {"normal", "exception"} /\ answer.third \in Byte
  BY DEF AddonReceives, ToolReceives, IInv, TypeOK, SlaveInv
<1>2. job.fc \in FunctionCodes
  BY <1>1 DEF IInv, FunctionInv, Starting
<1>3. Expected(job) \in Int /\ Expected(job) > exceptionLen
  BY <1>1, <1>2, ExceptionIsTooShort
<1>4. CASE answer.kind = "normal"
  <2>1. Carried
    BY <1>4 DEF IInv, SlaveInv
  <2>2. AnswerLength = Expected(job) /\ DecodesInside
    BY <1>1, <1>2, <1>4, <2>1, NormalAnswerFits
  <2>3. Verdict(Expected(job)) = "complete"
    BY <1>3, <2>2 DEF Verdict
  <2>4. ~IsException
    BY <1>4 DEF IsException
  <2>5. items' = Decoded /\ outcome' = "ok"
    <3>1. CASE AddonReceives
      BY <2>2, <2>3, <2>4, <3>1 DEF AddonReceives, Decode
    <3>2. CASE ToolReceives
      BY <2>2, <2>3, <3>2 DEF ToolReceives, Decode
    <3> QED
      BY <3>1, <3>2
  <2>6. job.fc \in Reads => Decoded = [i \in 0 .. job.count - 1 |-> ItemOfSlave(i)]
    BY <1>1, <1>4, <2>1, BitsOfSlave, RegistersOfSlave, Zenon DEF Reads
  <2> QED
    BY <1>4, <2>5, <2>6
<1>5. CASE answer.kind # "normal"
  <2>1. IsException /\ AnswerLength = exceptionLen
    BY <1>1, <1>5 DEF IsException, AnswerLength
  <2>2. CASE AddonReceives
    <3>1. Verdict(exceptionLen) = "complete"
      BY <2>1 DEF Verdict, exceptionLen
    <3> QED
      BY <1>5, <2>1, <2>2, <3>1 DEF AddonReceives, Give
  <2>3. CASE ToolReceives
    <3>1. Verdict(Expected(job)) = "timeout"
      BY <1>3, <2>1 DEF Verdict, exceptionLen
    <3> QED
      BY <1>5, <2>3, <3>1 DEF ToolReceives, Give
  <2> QED
    BY <2>2, <2>3
<1> QED
  BY <1>4, <1>5

\* The outcome, once decided, stays, and so does what it says of the answer.
LEMMA ResultStays ==
  ASSUME IInv, job' = job, UNCHANGED <<slaveVars, resultVars>>,
         pc \in Over => pc' \in Over, pc' \in Unwinding => pc \in Unwinding,
         exit' # Running => pc' = "exited", exit' = 0 => outcome = "ok"
  PROVE  ResultInv'
<1>1. /\ answer' = answer /\ whole' = whole /\ outcome' = outcome /\ items' = items
      /\ ResultInv
  BY DEF slaveVars, resultVars, IInv
<1>2. WholeAnswerIsUsed => WholeAnswerIsUsed'
  BY <1>1 DEF WholeAnswerIsUsed, Fits, IsException, Tool
<1>3. (outcome = "ok" /\ Fits /\ job.fc \in Reads =>
         items = [i \in 0 .. job.count - 1 |-> ItemOfSlave(i)])'
  BY <1>1 DEF ResultInv, Fits, ItemOfSlave, Tool
<1> QED
  BY <1>1, <1>2, <1>3 DEF ResultInv

LEMMA ResultStep ==
  ASSUME IInv, Next
  PROVE  ResultInv'
<1>1. /\ job' = job /\ job \in Jobs /\ ResultInv /\ TypeOK
  BY JobStays DEF IInv, TypeOK
<1>2. CASE Slave
  <2>1. /\ pc = "sent" /\ pc' = "await" /\ whole' = whole /\ outcome' = outcome
        /\ exit' = exit
    BY <1>2, SlaveLeads DEF resultVars, hostVars
  <2>2. whole = FALSE /\ outcome # "ok" /\ exit = Running
    BY <1>1, <2>1 DEF ResultInv, Over, Unwinding, TypeOK
  <2>3. pc' \notin Unwinding
    BY <2>1 DEF Unwinding
  <2>4. Running # 0
    BY DEF Running
  <2> QED
    BY <2>1, <2>2, <2>3, <2>4, Zenon DEF ResultInv, WholeAnswerIsUsed
<1>3. CASE Quiet
  <2>1. QuietWay /\ QuietExit /\ UNCHANGED <<slaveVars, resultVars>>
    BY <1>1, <1>3, QuietLeads, QuietExits, QuietKeeps DEF TypeOK
  <2>2. exit' # Running => pc' = "exited"
    BY <1>1, <2>1 DEF QuietWay, QuietExit, ResultInv
  <2>3. exit' = 0 => outcome = "ok"
    BY <1>1, <2>1 DEF QuietExit, ResultInv, Unwinding
  <2> QED
    BY <1>1, <2>1, <2>2, <2>3, ResultStays DEF QuietWay
<1>4. CASE Concludes
  <2>1. ConcludesWay /\ UNCHANGED <<slaveVars, hostVars>>
    BY <1>4, ConcludesLeads, ConcludesKeeps
  <2>2. exit' = Running
    BY <1>1, <2>1 DEF ConcludesWay, hostVars, ResultInv
  <2>3. whole = FALSE /\ outcome # "ok"
    BY <1>1, <2>1 DEF ConcludesWay, ResultInv, Over, Unwinding, TypeOK
  <2>4. pc' \in Unwinding => outcome' \in {"ok", "panic"}
    BY <2>1 DEF ConcludesWay, Unwinding
  <2>5. CASE AddonReceives \/ ToolReceives
    <3>1. /\ whole' = TRUE /\ answer # NoAnswer /\ answer' = answer /\ pc = "await"
      BY <2>1, <2>5 DEF AddonReceives, ToolReceives, slaveVars
    <3>2. pc' \in Over
      BY <2>1, <3>1 DEF ConcludesWay, Over, Unwinding
    <3>3. answer.kind \in {"normal", "exception"}
      BY <3>1 DEF IInv, TypeOK, SlaveInv
    <3>4. WholeAnswerIsUsed'
      BY <1>1, <2>5, <3>1, <3>3, ReceivedOutcome DEF WholeAnswerIsUsed, Fits, IsException, Tool
    <3>5. (outcome = "ok" /\ Fits /\ job.fc \in Reads =>
             items = [i \in 0 .. job.count - 1 |-> ItemOfSlave(i)])'
      <4>1. ASSUME outcome' = "ok", Fits, job.fc \in Reads
            PROVE  items' = [i \in 0 .. job.count - 1 |-> ItemOfSlave(i)]
        BY <2>5, <4>1, ReceivedOutcome
      <4> QED
        BY <1>1, <3>1, <4>1 DEF Fits, ItemOfSlave, Tool
    <3> QED
      BY <2>2, <2>4, <3>1, <3>2, <3>4, <3>5 DEF ResultInv, Running
  <2>6. CASE TimesOut \/ WriteFails \/ GapPanics
    <3>1. whole' = FALSE /\ outcome' # "ok"
      BY <2>3, <2>6 DEF TimesOut, WriteFails, FailWrite, GapPanics, Give
    <3> QED
      BY <2>2, <2>4, <3>1 DEF ResultInv, WholeAnswerIsUsed, Running
  <2> QED
    BY <1>4, <2>5, <2>6 DEF Concludes
<1> QED
  BY <1>2, <1>3, <1>4, NextIs

\* The pins, step by step.
LEMMA PinStepInv ==
  ASSUME IInv, Next
  PROVE  ToolPinInv'
<1>1. /\ job' = job /\ ToolPinInv /\ ResultInv /\ de \in BOOLEAN /\ re \in BOOLEAN
      /\ mapped \in BOOLEAN
  BY JobStays DEF IInv, TypeOK
<1>2. (HasDE' <=> HasDE) /\ (HasRE' <=> HasRE) /\ (Tool' <=> Tool) /\ (HasRE => HasDE)
  BY <1>1 DEF HasDE, HasRE, Tool
<1> USE DEF PinsMapped, DriverOff, DriverOn, ReceiverOn, Starting, Unwinding
<1>3. CASE Slave
  <2>1. /\ pc = "sent" /\ pc' = "await" /\ de' = de /\ re' = re /\ mapped' = mapped
    BY <1>3, SlaveLeads DEF pinVars, hostVars
  <2> QED
    BY <1>1, <1>2, <2>1 DEF ToolPinInv
<1>4. CASE Concludes
  <2>1. ConcludesWay /\ de' = de /\ re' = re /\ mapped' = mapped
    BY <1>4, ConcludesLeads, ConcludesKeeps DEF pinVars, hostVars
  <2> QED
    BY <1>1, <1>2, <2>1 DEF ToolPinInv, ConcludesWay
<1>5. CASE ConvertArgs
  BY <1>1, <1>2, <1>5 DEF ConvertArgs, ToolPinInv
<1>6. CASE ToolStarts
  <2>1. outcome' = outcome
    BY <1>6, QuietKeeps DEF Quiet, resultVars
  <2>2. CASE ParseFlags \/ OpenPort \/ RunCommand
    BY <1>1, <1>2, <2>1, <2>2 DEF ParseFlags, OpenPort, RunCommand, HostStep, ToolPinInv,
       pinVars, hostVars
  <2>3. CASE NoCommandGiven \/ PortFails \/ RpioFails \/ UnknownCommandGiven
    BY <1>1, <1>2, <2>1, <2>3 DEF NoCommandGiven, PortFails, RpioFails, UnknownCommandGiven, Exit,
       ToolPinInv, pinVars
  <2>4. CASE OpenRpio
    BY <1>1, <1>2, <2>1, <2>4 DEF OpenRpio, ToolPinInv, pinVars
  <2>5. CASE Setup
    BY <1>1, <1>2, <2>1, <2>5 DEF Setup, setupTransceiver, PinStep, ToolPinInv, hostVars
  <2> QED
    BY <1>6, <2>2, <2>3, <2>4, <2>5 DEF ToolStarts
<1>7. CASE enableTX
  BY <1>1, <1>2, <1>7 DEF enableTX, PinStep, ToolPinInv, hostVars, resultVars
<1>8. CASE WriteFrame \/ Gap
  BY <1>1, <1>2, <1>8 DEF WriteFrame, Gap, HostStep, ToolPinInv, pinVars, hostVars, resultVars
<1>9. CASE enableRX
  BY <1>1, <1>2, <1>9 DEF enableRX, PinStep, ToolPinInv, hostVars, resultVars
<1>10. CASE ToolEnds
  <2>1. CASE check \/ ClosePort
    BY <1>1, <1>2, <2>1 DEF check, ClosePort, Exit, ToolPinInv, pinVars, resultVars
  <2>2. CASE Idle
    BY <1>1, <1>2, <2>2 DEF Idle, setupTransceiver, PinStep, ToolPinInv, hostVars, resultVars
  <2>3. CASE CloseRpio
    BY <1>1, <1>2, <2>3 DEF CloseRpio, ToolPinInv, pinVars, resultVars
  <2> QED
    BY <1>10, <2>1, <2>2, <2>3 DEF ToolEnds
<1> QED
  BY <1>3, <1>4, <1>5, <1>6, <1>7, <1>8, <1>9, <1>10, NextIs DEF Quiet

LEMMA NextIInv == IInv /\ [Next]_vars => IInv'
<1> SUFFICES ASSUME IInv, [Next]_vars PROVE IInv'
  OBVIOUS
<1>1. CASE Next
  BY <1>1, TypeStep, FunctionStep, SlaveStep, ResultStep, PinStepInv DEF IInv
<1>2. CASE UNCHANGED vars
  BY <1>2 DEF vars, slaveVars, resultVars, hostVars, pinVars, IInv, TypeOK, FunctionInv, SlaveInv,
     Carried, ResultInv, WholeAnswerIsUsed, Fits, IsException, ItemOfSlave, Tool, ToolPinInv, HasDE,
     HasRE
<1> QED
  BY <1>1, <1>2

THEOREM Invariant == Spec => []IInv
BY InitIInv, NextIInv, PTL DEF Spec
-----------------------------------------------------------------------------
(***************************************************************************)
(* The theorems.                                                           *)
(***************************************************************************)
\* binding.go:156-223, main.go:50-65: the variables keep to their types; above all, every
\* byte of the request's head and its byte count fit a byte, for every argument and every
\* length of array that JavaScript or the command line can pass.
THEOREM TypeCorrect == Spec => []TypeOK
<1>1. IInv => TypeOK
  BY DEF IInv
<1> QED
  BY <1>1, Invariant, PTL

LEMMA SucceededOk == ASSUME IInv, Succeeded PROVE outcome = "ok" /\ whole
BY DEF IInv, ResultInv, Succeeded

\* main.go:562-610, modbus-cli/main.go:246-276: a read that succeeds yields what the slave
\* holds, item by item, for every slave, table, address and quantity, in the addon and in
\* the tool, and whatever byte count the answer carries.
THEOREM ReadsAreTrue == Spec => []ReadDeliversSlaveValues
<1>1. IInv => ReadDeliversSlaveValues
  BY SucceededOk DEF ReadDeliversSlaveValues, IInv, ResultInv
<1> QED
  BY <1>1, Invariant, PTL

\* What a normal answer to a write means for the slaves' memory.
LEMMA CarriedWrite ==
  ASSUME job \in Jobs, Fits, Carried, job.fc \in SingleWrites \cup MultipleWrites
  PROVE  LET block == job.addr .. job.addr + job.count - 1
         IN  /\ coils =
                  CASE job.fc = FCWriteSingleCoil -> [a \in {job.addr} |-> job.value # 0]
                    [] job.fc = FCWriteMultipleCoils -> [a \in block |-> SentBit(a - job.addr)]
                    [] OTHER -> <<>>
             /\ registers =
                  CASE job.fc = FCWriteSingleRegister -> [a \in {job.addr} |-> job.value]
                    [] job.fc = FCWriteMultipleRegisters ->
                         [a \in block |-> toUint16(SentRegister(a - job.addr))]
                    [] OTHER -> <<>>
<1>1. toUint16(job.addr) = job.addr
  BY FittingArgs
<1>2. WellFormed(RequestOf(job)) /\ Legal(job.fc, RequestOf(job))
  BY DEF Carried
<1> USE DEF FCWriteSingleCoil, FCWriteSingleRegister, FCWriteMultipleCoils, FCWriteMultipleRegisters
<1>3. CASE job.fc = FCWriteSingleCoil
  <2>1. coils = WrittenBits(job.fc, RequestOf(job)) /\ registers = <<>>
    BY <1>3 DEF Carried
  <2> QED
    BY <1>1, <1>3, <2>1, CoilWritten
<1>4. CASE job.fc = FCWriteSingleRegister
  <2>1. registers = WrittenRegisters(job.fc, RequestOf(job)) /\ coils = <<>>
    BY <1>4 DEF Carried
  <2>2. toUint16(job.value) = job.value
    BY <1>4, FittingArgs
  <2> QED
    BY <1>1, <1>4, <2>1, <2>2, RegisterWritten
<1>5. CASE job.fc = FCWriteMultipleCoils
  <2>1. coils = WrittenBits(job.fc, RequestOf(job)) /\ registers = <<>>
    BY <1>5 DEF Carried
  <2>2. coils = [a \in job.addr .. job.addr + job.count - 1 |-> SentBit(a - job.addr)]
    BY <1>1, <1>2, <1>5, <2>1, CoilsWritten
  <2> QED
    BY <1>5, <2>1, <2>2
<1>6. CASE job.fc = FCWriteMultipleRegisters
  <2>1. registers = WrittenRegisters(job.fc, RequestOf(job)) /\ coils = <<>>
    BY <1>6 DEF Carried
  <2>2. registers =
          [a \in job.addr .. job.addr + job.count - 1 |-> toUint16(SentRegister(a - job.addr))]
    BY <1>1, <1>2, <1>6, <2>1, RegistersWritten
  <2> QED
    BY <1>6, <2>1, <2>2
<1> QED
  BY <1>3, <1>4, <1>5, <1>6 DEF SingleWrites, MultipleWrites

\* main.go:634-703: a write that succeeds has put each value at its address and nothing
\* anywhere else, for arrays of every length, also of more elements than 16 bits count.
THEOREM WritesArrive == Spec => []WriteReachesMemory
<1>1. ASSUME IInv, Succeeded, Fits, job.fc \in SingleWrites \cup MultipleWrites
      PROVE  job \in Jobs /\ Carried
  <2>1. outcome = "ok" /\ whole
    BY <1>1, SucceededOk
  <2>2. answer # NoAnswer /\ ~IsException
    BY <1>1, <2>1 DEF IInv, ResultInv, WholeAnswerIsUsed
  <2>3. answer.kind = "normal"
    BY <1>1, <2>2 DEF IInv, TypeOK, SlaveInv, IsException
  <2> QED
    BY <1>1, <2>3 DEF IInv, TypeOK, SlaveInv
<1>2. IInv => WriteReachesMemory
  BY <1>1, CarriedWrite, Zenon DEF WriteReachesMemory
<1> QED
  BY <1>2, Invariant, PTL

\* main.go:42-65: the length waited for is the length of the answer, for every function and
\* every quantity a slave accepts; an exception is never taken for a success.
THEOREM AnswersAreUsed == Spec => []WholeAnswerIsUsed
<1>1. IInv => WholeAnswerIsUsed
  BY DEF IInv, ResultInv
<1> QED
  BY <1>1, Invariant, PTL

\* modbus-cli/main.go:143-187: the tool leaves the bus idle on every way out once it has
\* tried to transmit, from whatever level its pins had before.
THEOREM ToolLeavesBusIdle == Spec => []ToolPinsAreSafe
<1>1. HasRE => HasDE
  BY DEF HasRE, HasDE
<1>2. IInv => ToolPinsAreSafe
  BY <1>1 DEF IInv, ToolPinInv, ToolPinsAreSafe, PinsMapped, DriverOff, DriverOn, ReceiverOn,
     Unwinding, Starting
<1> QED
  BY <1>2, Invariant, PTL

=============================================================================
