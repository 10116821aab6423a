--------------------------- MODULE MCModbusDevice ---------------------------
(***************************************************************************)
(* ModbusDevice for TLC: two slaves on one bus.                            *)
(***************************************************************************)
EXTENDS ModbusDevice, TLC

Request(slave, fc, body, data, cells) ==
  [slave |-> slave, fc |-> fc, body |-> body, data |-> data, cells |-> cells]

ReadA == Request(1, 3, "addr0", "none", 2)
ReadB == Request(2, 3, "addr0", "none", 2)
LongReadA == Request(1, 3, "addr0", "none", 3)
WriteA == Request(1, 6, "addr0=1", "none", 2)
WriteB == Request(2, 6, "addr0=1", "none", 2)

Normal(r) == [req |-> r, exc |-> FALSE]
Exception(r) == [req |-> r, exc |-> TRUE]

MCWriteFCs == {5, 6, 15, 16}

WriteRequests == {WriteA, WriteB}
WriteAnswers == {Normal(WriteA), Normal(WriteB), Exception(WriteA)}

TimelyRequests == {ReadB, LongReadA}
TimelyAnswers == {Normal(ReadB), Exception(ReadB), Normal(LongReadA)}

ReadRequests == {ReadA, ReadB}
ReadAnswers == {Normal(ReadA), Normal(ReadB)}

ThreadSymmetry == Permutations(Threads)
=============================================================================
