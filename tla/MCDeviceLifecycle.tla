------------------------- MODULE MCDeviceLifecycle -------------------------
(***************************************************************************)
(* DeviceLifecycle for TLC: two devices on one port, a third on another    *)
(* GPIO transceiver, and one on an adapter without pins.                   *)
(***************************************************************************)
EXTENDS DeviceLifecycle

CONSTANTS d1, d2, d3, d4, serial0, serial1, usb0

FourDevices == {d1, d2, d3, d4}
ThreePorts == {serial0, serial1, usb0}
MCPort ==
  [d \in FourDevices |-> CASE d = d3 -> serial1 [] d = d4 -> usb0 [] OTHER -> serial0]
MCTransceiver ==
  [d \in FourDevices |-> CASE d = d3 -> "max485" [] d = d4 -> "auto" [] OTHER -> "isl43485"]
=============================================================================
