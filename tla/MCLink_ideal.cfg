CONSTANTS
  Msgs <- MCMsgsDivided
  Address = 1
  MaxSendAttempts = 3
  MaxRecvAttempts = 2
  PortReinitEvery = 2
  MaxFaults = 0
  PayloadValues = {0, 1}
  Damages = {"len", "datacmd", "dataextlen", "dataframenumber", "data", "etx", "cs"}
  TimeoutsExceedSteps = TRUE
  CsMayBeControl = TRUE
SPECIFICATION Spec
CHECK_DEADLOCK FALSE
INVARIANT SendTrueMeansAccepted
INVARIANT ReceivedExactlyOnceInOrder
PROPERTY AllMessagesReceived
