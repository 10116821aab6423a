-------------------------- MODULE MCModbusExchange --------------------------
(***************************************************************************)
(* ModbusExchange for TLC: calls and command lines around the limits of    *)
(* the protocol and of the widths, to one slave.                           *)
(***************************************************************************)
EXTENDS ModbusExchange

\* Memory in which neighbours, tables and slaves differ, and both bytes of a register.
MCBit(s, f, a) == (a + f + s) % 3 = 0
MCRegister(s, f, a) == (a * 259 + f * 1031 + s) % 65536
MCSentBit(i) == i % 3 = 1
MCSentRegister(i) == 70000 * (i % 2) + 513 * i + 7

Line(program, transceiver, baud, fcs, slaves, addrs, counts, values) ==
  [program : {program}, transceiver : {transceiver}, baud : {baud}, fc : fcs,
   slave : slaves, addr : addrs, count : counts, value : values]

BitCounts == {0, 1, 8, 9, 2000, 2001, 65529, 65545}
RegisterCounts == {0, 1, 125, 126, 65535, 65661}
CoilLengths == {0, 1, 8, 9, 1968, 1969, 2047, 65537}
RegisterLengths == {0, 1, 123, 124, 128, 65537}

Calls(program, transceiver) ==
  Line(program, transceiver, 9600, BitReads, {1, 2, 257}, {0, 65535}, BitCounts, {0})
    \cup Line(program, transceiver, 9600, RegisterReads, {0, 1}, {0, 65541}, RegisterCounts, {0})
    \cup Line(program, transceiver, 9600, SingleWrites, {0, 1, 257}, {65535, 65536}, {0},
              {0, 1, 511, 65536})

AddonCalls ==
  Calls("addon", "none")
    \cup Line("addon", "none", 9600, {FCWriteMultipleCoils}, {0, 1}, {3, 65535}, CoilLengths, {0})
    \cup Line("addon", "none", 9600, {FCWriteMultipleRegisters}, {0, 1}, {3, 65535},
              RegisterLengths, {0})

ToolCalls ==
  Calls("tool", "isl43485")
    \cup UNION {Line("tool", t, b, {FCReadCoils, FCWriteSingleCoil, NoCommand, UnknownCommand},
                     {1}, {0}, {1}, {0}) :
                  t \in {"isl43485", "max485", "auto", "rs485"}, b \in {0, 9600}}

MCJobs == AddonCalls \cup ToolCalls
=============================================================================
