SPECIFICATION Spec
CONSTANTS
  d1 = d1
  d2 = d2
  d3 = d3
  d4 = d4
  serial0 = serial0
  serial1 = serial1
  usb0 = usb0
  NoDevice = NoDevice
  Dead = Dead
  Devices <- FourDevices
  Ports <- ThreePorts
  Port <- MCPort
  Transceiver <- MCTransceiver
  Unlocked = {d1, d2, d4}
INVARIANTS
  TransmissionNotCut
