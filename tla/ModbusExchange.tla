--------------------------- MODULE ModbusExchange ---------------------------
(***************************************************************************)
(* One operation from its arguments to its outcome, through the frames of  *)
(* ModbusCodec and a slave that keeps to the Modbus specification, for the *)
(* two programs that talk to the bus:                                      *)
(*                                                                         *)
(*   - "addon": the Node binding converts the arguments (go/binding.go),   *)
(*     the library makes the request and takes the answer apart            *)
(*     (go/main.go); ModbusDevice has the steps of its transfer;           *)
(*   - "tool": the command line tool (go/cmd/modbus-cli/main.go), with its *)
(*     own exchange, pins and exits, step by step.                         *)
(*                                                                         *)
(* Answers come whole and in time, or not at all; the CRC is taken to      *)
(* accept exactly the frames that end where the master stops reading.      *)
(***************************************************************************)
EXTENDS ModbusCodec, FiniteSets

CONSTANTS
  Jobs,               \* the calls and command lines
  Slaves,             \* the slaves on the bus
  Bit(_, _, _),       \* what slave s, asked with function f, holds at address a
  Register(_, _, _),
  SentBit(_),         \* element i of the array a multiple write is called with
  SentRegister(_)

\* The commands of the tool that name no function code.
NoCommand == 0
UnknownCommand == 255

ToolFunctions == Reads \cup SingleWrites

ASSUME ExchangeAssumption ==
  /\ Slaves \subseteq 1..255
  /\ \A j \in Jobs :
       /\ \/ j.program = "addon" /\ j.fc \in FunctionCodes
          \/ j.program = "tool" /\ j.fc \in ToolFunctions \cup {NoCommand, UnknownCommand}
       /\ j.slave \in Int /\ j.addr \in Int /\ j.count \in Int /\ j.value \in Int
       \* The count of a multiple write is the length of its array.
       /\ j.fc \in MultipleWrites => j.count \in Nat
       /\ \A i \in 0 .. j.count - 1 :
            /\ j.fc = FCWriteMultipleCoils => SentBit(i) \in BOOLEAN
            /\ j.fc = FCWriteMultipleRegisters => SentRegister(i) \in Int
  /\ \A s \in Slaves, a \in UInt16 :
       /\ \A f \in BitReads : Bit(s, f, a) \in BOOLEAN
       /\ \A f \in RegisterReads : Register(s, f, a) \in UInt16

VARIABLES
  job,      \* [program, fc, slave, addr, count, value, transceiver, baud]
  pc,       \* where the program is
  answer,   \* what the slave answered
  whole,    \* that answer arrived whole and in time
  coils,    \* what slaves stored: functions of the addresses written
  registers,
  items,    \* the values the program was given
  outcome,  \* of the operation
  mapped,   \* the tool has the GPIO registers mapped
  de, re,   \* the direction pins of the tool
  exit      \* the tool's exit code

slaveVars == <<answer, coils, registers>>
resultVars == <<whole, items, outcome>>
hostVars == <<mapped, exit>>
pinVars == <<de, re>>
vars == <<job, pc, slaveVars, resultVars, hostVars, pinVars>>

Tool == job.program = "tool"
NoAnswer == [kind |-> "none", third |-> 0]
Running == -1

-----------------------------------------------------------------------------
(***************************************************************************)
(* The request.                                                            *)
(***************************************************************************)
\* Fault: the slave ID is passed on as it is.
UncheckedSlave(j) == j.slave

SlaveArg(j) == IF j.program = "addon" THEN getUint8Arg(j.slave) ELSE toByte(j.slave)
Arg16(j, v) == IF j.program = "addon" THEN getUint16Arg(v) ELSE toUint16(v)

SentRegisters(n) == [i \in 0 .. n - 1 |-> getUint16Arg(SentRegister(i))]
SentBits(n) == [i \in 0 .. n - 1 |-> SentBit(i)]

RequestOf(j) ==
  LET slave == SlaveArg(j)
      addr == Arg16(j, j.addr)
  IN  CASE j.fc \in Reads -> readRequest(j.fc, slave, addr, Arg16(j, j.count))
        [] j.fc = FCWriteSingleCoil -> writeCoilRequest(slave, addr, j.value # 0)
        [] j.fc = FCWriteSingleRegister -> writeRegisterRequest(slave, addr, Arg16(j, j.value))
        [] j.fc = FCWriteMultipleCoils ->
             writeMultipleCoilsRequest(slave, addr, SentBits(j.count), j.count)
        [] OTHER ->
             writeMultipleRegistersRequest(slave, addr, SentRegisters(j.count), j.count)

\* The length the program waits for.
Expected(j) == expectedResponseLength(j.fc, Arg16(j, j.count))

-----------------------------------------------------------------------------
Init ==
  /\ job \in Jobs
  /\ pc = IF job.program = "tool" THEN "parse" ELSE "convert"
  /\ answer = NoAnswer /\ coils = <<>> /\ registers = <<>>
  /\ whole = FALSE /\ items = <<>> /\ outcome = "none"
  /\ mapped = FALSE /\ exit = Running
  \* Whatever an earlier program left on the tool's pins.
  /\ LET level == IF job.program = "tool" THEN BOOLEAN ELSE {FALSE}
     IN  de \in level /\ re \in level

\* A handler of the binding converts its arguments; the library builds the request.
ConvertArgs ==
  /\ pc = "convert"
  /\ pc' = "sent"
  /\ UNCHANGED <<job, slaveVars, resultVars, hostVars, pinVars>>

-----------------------------------------------------------------------------
(***************************************************************************)
(* The slave.  It drops frames that are not for it or whose length is not  *)
(* the one their byte count tells; it refuses what is out of its limits    *)
(* and may refuse anything; a request to slave 0 is carried out by all and *)
(* answered by none.  The byte count of its answer may be wrong.           *)
(***************************************************************************)
WellFormed(r) == Cardinality(DOMAIN r.data) = r.byteCount

Legal(fc, r) ==
  fc \notin SingleWrites =>
    /\ requestQuantity(r) \in 1 .. MaxQuantity(fc)
    /\ fc \in MultipleWrites => r.byteCount = DataBytes(fc, requestQuantity(r))
    /\ requestAddr(r) + requestQuantity(r) <= 65536

\* The values a write puts at its addresses.
WrittenBits(fc, r) ==
  IF fc = FCWriteSingleCoil
    THEN [a \in {requestAddr(r)} |-> r.head[5] = 255]
    ELSE [a \in requestAddr(r) .. requestAddr(r) + requestQuantity(r) - 1 |->
            slaveBits(r.data, requestQuantity(r))[a - requestAddr(r)]]

WrittenRegisters(fc, r) ==
  IF fc = FCWriteSingleRegister
    THEN [a \in {requestAddr(r)} |-> requestQuantity(r)]
    ELSE [a \in requestAddr(r) .. requestAddr(r) + requestQuantity(r) - 1 |->
            slaveRegisters(r.data, requestQuantity(r))[a - requestAddr(r)]]

ByteCounts(fc, r) ==
  IF fc \in Reads
    THEN {b \in {0, DataBytes(fc, requestQuantity(r)) - 1, DataBytes(fc, requestQuantity(r)), 255} :
            b \in Byte}
    ELSE {0}

Execute ==
  /\ pc = "sent"
  /\ LET r == RequestOf(job)
     IN  /\ r.head[1] \in Slaves \/ (r.head[1] = 0 /\ job.fc \notin Reads)
         /\ WellFormed(r) /\ Legal(job.fc, r)
         /\ coils' = IF job.fc \in {FCWriteSingleCoil, FCWriteMultipleCoils}
                       THEN WrittenBits(job.fc, r) ELSE coils
         /\ registers' = IF job.fc \in {FCWriteSingleRegister, FCWriteMultipleRegisters}
                           THEN WrittenRegisters(job.fc, r) ELSE registers
         /\ IF r.head[1] = 0
              THEN answer' = NoAnswer
              ELSE \E b \in ByteCounts(job.fc, r) : answer' = [kind |-> "normal", third |-> b]
  /\ pc' = "await"
  /\ UNCHANGED <<job, resultVars, hostVars, pinVars>>

Refuse ==
  /\ pc = "sent"
  /\ LET r == RequestOf(job)
     IN  r.head[1] \in Slaves /\ WellFormed(r)
  /\ \E code \in 1..4 : answer' = [kind |-> "exception", third |-> code]
  /\ pc' = "await"
  /\ UNCHANGED <<job, coils, registers, resultVars, hostVars, pinVars>>

\* No slave hears the request.
Ignore ==
  /\ pc = "sent"
  /\ pc' = "await"
  /\ UNCHANGED <<job, slaveVars, resultVars, hostVars, pinVars>>

AnswerLength ==
  IF answer.kind = "exception" THEN exceptionLen
  ELSE ConformingLength(job.fc, requestQuantity(RequestOf(job)))

\* Bit 7 of the second byte.
IsException == answer.kind = "exception"

\* The data bytes of the answer; in an exception the two bytes of the CRC stand there.
AnsweredBits ==
  LET r == RequestOf(job)
      n == requestQuantity(r)
  IN  IF IsException THEN [k \in 0..1 |-> [b \in 0..7 |-> FALSE]]
      ELSE packBits([i \in 0 .. n - 1 |-> Bit(r.head[1], job.fc, requestAddr(r) + i)], n)

AnsweredRegisters ==
  LET r == RequestOf(job)
      n == requestQuantity(r)
  IN  packRegisters([i \in 0 .. n - 1 |-> Register(r.head[1], job.fc, requestAddr(r) + i)], n)

-----------------------------------------------------------------------------
(***************************************************************************)
(* The answer, of which the program takes finalLen bytes.                  *)
(***************************************************************************)
Verdict(finalLen) ==
  IF AnswerLength < finalLen THEN "timeout"
  ELSE IF AnswerLength > finalLen THEN "crc" ELSE "complete"

DecodesInside ==
  LET n == Arg16(job, job.count)
  IN  CASE job.fc \in BitReads -> unpackBitsInRange(answer.third, n, Expected(job))
        [] job.fc \in RegisterReads /\ ~Tool ->
             unpackRegistersInRange(answer.third, n, Expected(job))
        [] OTHER -> TRUE

Decoded ==
  LET n == Arg16(job, job.count)
  IN  CASE job.fc \in BitReads -> unpackBits(answer.third, AnsweredBits, n)
        [] job.fc \in RegisterReads ->
             IF Tool THEN readRegs(AnsweredRegisters, n)
             ELSE unpackRegisters(answer.third, AnsweredRegisters, n)
        [] OTHER -> <<>>

\* An index outside the answer is a panic.
Decode(label) ==
  /\ pc' = label
  /\ IF DecodesInside
       THEN items' = Decoded /\ outcome' = "ok"
       ELSE items' = items /\ outcome' = "panic"

Give(label, result) == pc' = label /\ outcome' = result /\ UNCHANGED items

\* sendOnce, the operation, and asyncComplete, which resolves or rejects the promise.
AddonReceives ==
  /\ ~Tool /\ pc = "await" /\ answer # NoAnswer
  /\ whole' = TRUE
  /\ LET verdict == Verdict(IF IsException THEN exceptionLen ELSE Expected(job))
     IN  IF verdict # "complete" THEN Give("settled", verdict)
         ELSE IF IsException THEN Give("settled", "exception")
         ELSE Decode("settled")
  /\ UNCHANGED <<job, slaveVars, hostVars, pinVars>>

\* The tool's exchange knows no exceptions and compares no function code.
ToolReceives ==
  /\ Tool /\ pc = "await" /\ answer # NoAnswer
  /\ whole' = TRUE
  /\ LET verdict == Verdict(Expected(job))
     IN  IF verdict # "complete" THEN Give("fail", verdict) ELSE Decode("idle")
  /\ UNCHANGED <<job, slaveVars, hostVars, pinVars>>

\* Nothing, or not all of the answer, or a damaged one has come when time is up.
TimesOut ==
  /\ pc = "await"
  /\ Give(IF Tool THEN "fail" ELSE "settled", "timeout")
  /\ UNCHANGED <<job, whole, slaveVars, hostVars, pinVars>>

-----------------------------------------------------------------------------
(***************************************************************************)
(* The tool.  log.Fatalf and os.Exit end it without its deferred calls; a  *)
(* panic and the end of main run them: idle, rpio.Close, sp.Close.  Its    *)
(* transceiver type is not checked: one it does not know has no pins.      *)
(***************************************************************************)
HasDE == job.transceiver \in {"isl43485", "max485"}
HasRE == job.transceiver = "isl43485"

HostStep(from, to) ==
  /\ pc = from
  /\ pc' = to
  /\ UNCHANGED <<job, slaveVars, resultVars, hostVars, pinVars>>

Exit(code) ==
  /\ pc' = "exited"
  /\ exit' = code
  /\ UNCHANGED <<job, slaveVars, resultVars, mapped, pinVars>>

ParseFlags == job.fc # NoCommand /\ HostStep("parse", "openPort")
NoCommandGiven == pc = "parse" /\ job.fc = NoCommand /\ Exit(2)

OpenPort == HostStep("openPort", "openRpio")
PortFails == pc = "openPort" /\ Exit(1)

OpenRpio ==
  /\ pc = "openRpio"
  /\ mapped' = (job.transceiver # "auto")
  /\ pc' = "setup"
  /\ UNCHANGED <<job, slaveVars, resultVars, exit, pinVars>>

RpioFails == pc = "openRpio" /\ job.transceiver # "auto" /\ Exit(1)

PinStep(from, to, newDe, newRe) ==
  /\ pc = from
  /\ pc' = to
  /\ de' = newDe
  /\ re' = newRe
  /\ UNCHANGED <<job, slaveVars, resultVars, hostVars>>

setupTransceiver(from, between, to) ==
  \/ PinStep(from, between, de /\ ~HasDE, re)
  \/ PinStep(between, to, de, re /\ ~HasRE)

Setup == setupTransceiver("setup", "setupRE", "command")

RunCommand == job.fc # UnknownCommand /\ HostStep("command", "enableTX")
UnknownCommandGiven == pc = "command" /\ job.fc = UnknownCommand /\ Exit(2)

enableTX ==
  \/ PinStep("enableTX", "raiseRE", de \/ HasDE, re)
  \/ PinStep("raiseRE", "write", de, re \/ HasRE)

WriteFrame == HostStep("write", "enableRX")

FailWrite(label) ==
  /\ pc = "write"
  /\ Give(label, "failed")
  /\ UNCHANGED <<job, whole, slaveVars, hostVars, pinVars>>

\* Fault: a failed write returns with the driver on.
WriteFailsDriving == FailWrite("fail")

WriteFails == FailWrite("enableRX")

enableRX ==
  \/ PinStep("enableRX", "lowerDE", de, re /\ ~HasRE)
  \/ PinStep("lowerDE", IF outcome = "failed" THEN "fail" ELSE "gap", de /\ ~HasDE, re)

\* The gap between frames divides by the baud rate; serial.Open takes 0 for 9600.
Gap == job.baud # 0 /\ HostStep("gap", "sent")

GapPanics ==
  /\ pc = "gap" /\ job.baud = 0
  /\ Give("idle", "panic")
  /\ UNCHANGED <<job, whole, slaveVars, hostVars, pinVars>>

check == pc = "fail" /\ Exit(1)

Idle == setupTransceiver("idle", "idleRE", "closeRpio")

CloseRpio ==
  /\ pc = "closeRpio"
  /\ mapped' = FALSE
  /\ pc' = "closePort"
  /\ UNCHANGED <<job, slaveVars, resultVars, exit, pinVars>>

ClosePort == pc = "closePort" /\ Exit(IF outcome = "panic" THEN 2 ELSE 0)

-----------------------------------------------------------------------------
Slave == Execute \/ Refuse \/ Ignore

Addon == ConvertArgs \/ AddonReceives

ToolStarts ==
  \/ ParseFlags \/ NoCommandGiven \/ OpenPort \/ PortFails \/ OpenRpio \/ RpioFails
  \/ Setup \/ RunCommand \/ UnknownCommandGiven

ToolExchanges ==
  enableTX \/ WriteFrame \/ WriteFails \/ enableRX \/ Gap \/ GapPanics \/ ToolReceives

ToolEnds == check \/ Idle \/ CloseRpio \/ ClosePort

Next == Slave \/ Addon \/ TimesOut \/ ToolStarts \/ ToolExchanges \/ ToolEnds

Spec == Init /\ [][Next]_vars

-----------------------------------------------------------------------------
Labels ==
  {"convert", "sent", "await", "settled", "parse", "openPort", "openRpio", "setup", "setupRE",
   "command", "enableTX", "raiseRE", "write", "enableRX", "lowerDE", "gap", "fail", "idle",
   "idleRE", "closeRpio", "closePort", "exited"}

\* The variables hold values of their kinds, and what goes on the wire is made of bytes
\* whatever the arguments were.
TypeOK ==
  /\ job \in Jobs
  /\ pc \in Labels
  /\ answer \in [kind : {"none", "normal", "exception"}, third : Byte]
  /\ DOMAIN coils \subseteq UInt16 /\ DOMAIN registers \subseteq UInt16
  /\ \A a \in DOMAIN coils : coils[a] \in BOOLEAN
  /\ \A a \in DOMAIN registers : registers[a] \in UInt16
  /\ outcome \in {"none", "ok", "timeout", "crc", "exception", "failed", "panic"}
  /\ whole \in BOOLEAN /\ mapped \in BOOLEAN /\ de \in BOOLEAN /\ re \in BOOLEAN
  /\ exit \in {Running, 0, 1, 2}
  /\ pc = "sent" => LET r == RequestOf(job)
                    IN  r.byteCount \in Byte /\ \A k \in 1..6 : r.head[k] \in Byte

\* The promise is resolved; the tool exits with 0.
Succeeded == IF Tool THEN exit = 0 ELSE pc = "settled" /\ outcome = "ok"

\* The counts of a read for which count + 7 does not wrap.
ReadCounts == 1..65528

\* Arguments a frame has room for.  What the others are cut to, no doc says.
Fits ==
  /\ job.slave \in Byte /\ job.addr \in UInt16
  /\ job.fc \in Reads => job.count \in ReadCounts
  /\ job.fc = FCWriteSingleRegister => job.value \in UInt16

\* Item i of a read as the slave holds it, if the answer's byte count covers it (the tool
\* does not look at the byte count of registers), else the zero value.
ItemOfSlave(i) ==
  IF job.fc \in BitReads
    THEN i \div 8 < answer.third /\ Bit(job.slave, job.fc, job.addr + i)
    ELSE IF Tool \/ 2 * i + 1 < answer.third
           THEN Register(job.slave, job.fc, job.addr + i) ELSE 0

\* main.go:562-610 and modbus-cli/main.go:246-276: a read that succeeds yields, item by
\* item, what the addressed slave holds in the table and at the address asked for, and
\* never a byte from elsewhere in the frame, though its byte count be wrong.
ReadDeliversSlaveValues ==
  Succeeded /\ job.fc \in Reads /\ Fits =>
    items = [i \in 0 .. job.count - 1 |-> ItemOfSlave(i)]

\* main.go:634-703: a write that succeeds has put each of its values, however many, at its
\* address and nothing anywhere else; one whose values no frame can hold never succeeds.
WriteReachesMemory ==
  Succeeded /\ job.fc \in SingleWrites \cup MultipleWrites /\ Fits =>
    LET block == job.addr .. job.addr + job.count - 1
    IN  /\ coils =
             CASE job.fc = FCWriteSingleCoil -> [a \in {job.addr} |-> job.value # 0]
               [] job.fc = FCWriteMultipleCoils -> [a \in block |-> SentBit(a - job.addr)]
               [] OTHER -> <<>>
        /\ registers =
             CASE job.fc = FCWriteSingleRegister -> [a \in {job.addr} |-> job.value]
               [] job.fc = FCWriteMultipleRegisters ->
                    [a \in block |-> toUint16(SentRegister(a - job.addr))]
               [] OTHER -> <<>>

\* main.go:42-49: the length waited for is the length of the answer: one that arrives whole
\* is neither waited for in vain nor cut, is taken apart without leaving it, and an
\* exception is never taken for a success.
WholeAnswerIsUsed ==
  whole /\ Fits =>
    outcome \in IF ~IsException THEN {"ok"} ELSE IF Tool THEN {"timeout", "crc"} ELSE {"exception"}

\* modbus-cli/main.go:143-187: whichever way the tool ends after it tried to transmit, it
\* leaves the bus idle; on the way it moves pins only while they are mapped, and after the
\* set-up it never passes through /RE=1 with DE=0.
ToolPinsAreSafe ==
  Tool =>
    /\ pc = "exited" /\ outcome # "none" => ~(HasDE /\ de) /\ ~(HasRE /\ re)
    /\ pc \in {"setup", "enableTX", "raiseRE", "enableRX", "lowerDE", "idle", "idleRE"} =>
         mapped = (job.transceiver # "auto")
    /\ pc \in {"enableTX", "raiseRE", "write", "enableRX", "lowerDE", "await", "idle"} =>
         ~(HasRE /\ re /\ ~de)
=============================================================================
