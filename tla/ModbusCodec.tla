----------------------------- MODULE ModbusCodec -----------------------------
(***************************************************************************)
(* Frames and the numbers in them: how go/main.go and the command line     *)
(* tool build requests and take answers apart, in the widths Go computes   *)
(* in, and how a slave that keeps to the Modbus specification reads and    *)
(* writes the same frames.                                                 *)
(*                                                                         *)
(* A request is its first six bytes (head), and for a multiple write the   *)
(* byte count and the data.  Data bytes are numbered from 0, after the     *)
(* header; a byte of coils is written as its bits 0..7.  The CRC is left   *)
(* to ModbusDevice.                                                        *)
(***************************************************************************)
EXTENDS Integers, Sequences

Byte == 0..255
UInt16 == 0..65535

FCReadCoils == 1
FCReadDiscreteInputs == 2
FCReadHoldingRegisters == 3
FCReadInputRegisters == 4
FCWriteSingleCoil == 5
FCWriteSingleRegister == 6
FCWriteMultipleCoils == 15
FCWriteMultipleRegisters == 16

BitReads == {FCReadCoils, FCReadDiscreteInputs}
RegisterReads == {FCReadHoldingRegisters, FCReadInputRegisters}
Reads == BitReads \cup RegisterReads
SingleWrites == {FCWriteSingleCoil, FCWriteSingleRegister}
MultipleWrites == {FCWriteMultipleCoils, FCWriteMultipleRegisters}
FunctionCodes == Reads \cup SingleWrites \cup MultipleWrites

\* Conversions of an integer to a narrower one keep the low bits.
toByte(v) == v % 256
toUint16(v) == v % 65536

\* byte(v >> 8) and byte(v & 0xFF).
hi(v) == toByte(v \div 256)
lo(v) == toByte(v)

\* The arguments of a call: napi_get_value_uint32, which wraps, then the narrower type.
getUint8Arg(v) == toByte(v)
getUint16Arg(v) == toUint16(v)

\* The bytes that n bits fill.
BytesFor(n) == (n + 7) \div 8

-----------------------------------------------------------------------------
(***************************************************************************)
(* Requests.                                                               *)
(***************************************************************************)
NoData == [i \in {} |-> 0]

Request(slave, fc, addr, b4, b5, byteCount, data) ==
  [head |-> <<slave, fc, hi(addr), lo(addr), b4, b5>>, byteCount |-> byteCount, data |-> data]

readRequest(fc, slave, addr, count) ==
  Request(slave, fc, addr, hi(count), lo(count), 0, NoData)

writeCoilRequest(slave, addr, value) ==
  Request(slave, FCWriteSingleCoil, addr, IF value THEN 255 ELSE 0, 0, 0, NoData)

writeRegisterRequest(slave, addr, value) ==
  Request(slave, FCWriteSingleRegister, addr, hi(value), lo(value), 0, NoData)

\* Fault: the first bit of a byte in bit 7.
packBitsHighFirst(values, n) ==
  [j \in 0 .. BytesFor(n) - 1 |-> [b \in 0..7 |-> 8 * j + 7 - b < n /\ values[8 * j + 7 - b]]]

\* n bits, eight to a byte, the first in bit 0; the last byte is filled with zeroes.
packBits(values, n) ==
  [j \in 0 .. BytesFor(n) - 1 |-> [b \in 0..7 |-> 8 * j + b < n /\ values[8 * j + b]]]

\* n registers, two bytes each, the high one first.
packRegisters(values, n) ==
  [k \in 0 .. 2 * n - 1 |-> IF k % 2 = 0 THEN hi(values[k \div 2]) ELSE lo(values[k \div 2])]

writeMultipleCoilsRequest(slave, addr, values, n) ==
  Request(slave, FCWriteMultipleCoils, addr, hi(n), lo(n),
          toByte(BytesFor(n)), packBits(values, n))

writeMultipleRegistersRequest(slave, addr, values, n) ==
  Request(slave, FCWriteMultipleRegisters, addr, hi(n), lo(n),
          toByte(2 * n), packRegisters(values, n))

-----------------------------------------------------------------------------
(***************************************************************************)
(* Answers.  A read is answered by slave, function code, byte count, data  *)
(* and CRC, a write by its head and CRC, both by an exception of 5 bytes.  *)
(***************************************************************************)
exceptionLen == 5

\* Fault: a byte more for a count that fills its last byte.
expectedLengthLoose(fc, count) ==
  IF fc \in BitReads THEN 3 + count \div 8 + 1 + 2
  ELSE IF fc \in RegisterReads THEN 3 + 2 * count + 2
  ELSE IF fc \in SingleWrites \cup MultipleWrites THEN 8
  ELSE 5

\* count + 7 is computed in 16 bits, 2 * count in the width of int.
expectedResponseLength(fc, count) ==
  IF fc \in BitReads THEN 3 + toUint16(count + 7) \div 8 + 2
  ELSE IF fc \in RegisterReads THEN 3 + 2 * count + 2
  ELSE IF fc \in SingleWrites \cup MultipleWrites THEN 8
  ELSE 5

\* The bits of an answer; those past its byte count are taken to be zero.
unpackBits(byteCount, data, count) ==
  [i \in 0 .. count - 1 |-> i \div 8 < byteCount /\ data[i \div 8][i % 8]]

\* The data bytes unpackBits looks at lie inside a response of len bytes.
unpackBitsInRange(byteCount, count, len) ==
  \A i \in 0 .. count - 1 : i \div 8 < byteCount => 3 + i \div 8 < len

\* Register i of a response, response[3+2*i] and response[4+2*i], the indices
\* computed in 16 bits.
highIndex(i) == toUint16(3 + 2 * i) - 3
lowIndex(i) == toUint16(4 + 2 * i) - 3
registerAt(data, i) == data[highIndex(i)] * 256 + data[lowIndex(i)]

\* Fault: the last register is left out when it ends exactly at the byte count.
unpackRegistersShort(byteCount, data, count) ==
  [i \in 0 .. count - 1 |->
     IF toUint16(2 * i + 2) < byteCount THEN registerAt(data, i) ELSE 0]

\* The registers of an answer; those past its byte count are taken to be zero.
unpackRegisters(byteCount, data, count) ==
  [i \in 0 .. count - 1 |->
     IF toUint16(2 * i + 1) < byteCount THEN registerAt(data, i) ELSE 0]

unpackRegistersInRange(byteCount, count, len) ==
  \A i \in 0 .. count - 1 : toUint16(2 * i + 1) < byteCount =>
     highIndex(i) >= 0 /\ 3 + lowIndex(i) < len

\* The command line tool's readRegs does not look at the byte count.
readRegs(data, count) ==
  [i \in 0 .. count - 1 |-> registerAt(data, i)]

-----------------------------------------------------------------------------
(***************************************************************************)
(* The slave's side, from the Modbus application protocol: the numbers in  *)
(* a request, what it may ask for, and what a conforming answer holds.     *)
(***************************************************************************)
word(high, low) == high * 256 + low
requestAddr(r) == word(r.head[3], r.head[4])
requestQuantity(r) == word(r.head[5], r.head[6])

MaxQuantity(fc) ==
  CASE fc \in BitReads -> 2000
    [] fc \in RegisterReads -> 125
    [] fc = FCWriteMultipleCoils -> 1968
    [] OTHER -> 123

\* The data bytes that quantity items of a function take.
DataBytes(fc, quantity) ==
  IF fc \in BitReads \cup {FCWriteMultipleCoils} THEN BytesFor(quantity) ELSE 2 * quantity

\* The length of the conforming answer to a legal request.
ConformingLength(fc, quantity) == IF fc \in Reads THEN 3 + DataBytes(fc, quantity) + 2 ELSE 8

\* What a slave takes from the data of a multiple write of n items.
slaveBits(data, n) == [i \in 0 .. n - 1 |-> data[i \div 8][i % 8]]
slaveRegisters(data, n) == [i \in 0 .. n - 1 |-> word(data[2 * i], data[2 * i + 1])]
=============================================================================
