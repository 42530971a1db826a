CONSTANTS
  Msgs <- MCMsgs
  Address = 1
  MaxSendAttempts = 3
  MaxRecvAttempts = 2
  PortReinitEvery = 2
  MaxFaults = 2
  PayloadValues = {0, 1}
  Damages = {"cs"}
  TimeoutsExceedSteps = TRUE
  CsMayBeControl = FALSE
SPECIFICATION Spec
CHECK_DEADLOCK FALSE
INVARIANT ReceiveNeverThrows
