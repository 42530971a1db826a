CONSTANTS
  Sessions = {s1, s2, v1s}
  FirstSession = s1
  V1Session = v1s
  NoSession = none
  Commands <- MCCommands
  ReqCmd = q
  RespCmd = r
  AppCommands = {r}
  V1Commands = {r}
  Ids = {i1}
  NoId = noid
  WriteOutcomes <- MCAllOutcomes
  Threads = {t1}
  MaxCalls = 2
  Listeners = {l1, l2}
  V1Threads = {u1}
  EmuConfig <- MCEmuConfig
  EmuNames = {n1}
  MaxEmuCli = 2
  MaxRepeats = 1
  MaxV1Calls = 2
SPECIFICATION Spec
CONSTRAINT MCEmulatedBound
CONSTRAINT MCCallBudget
CHECK_DEADLOCK FALSE
INVARIANT TypeOK
INVARIANT SubscriptionsAgree
INVARIANT RequestsConsistent
INVARIANT DeliveryStatusOnItsWay
