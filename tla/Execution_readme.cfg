\* The loop of README.md, one sequence at a time per allowance.
SPECIFICATION FairSpec
CONSTANTS
  NoSession = NoSession
  s1 = s1
  s2 = s2
  usdt = usdt
  token = token
  Slot = {usdt}
  UsdtLike = {usdt}
  Session = {s1, s2}
  SlotOf <- SameUsdt
  Job <- Reclaiming
  InitAllowance = {0, 1, 2}
  Debt = {1}
  MaxOwed = 2
  MaxMargin = 1
  ChecksReceipt = FALSE
  UndoesOnError = TRUE
  Fault = {"sendThrows", "refused"}
  VirtualAssets = 1
  VirtualShares = 1000000
  HeadroomDivisor = 100
  MintBufferBps = 100
  BpsDenominator = 10000
INVARIANTS
  TypeOK
  StandingAllowanceKept
  ExposureBounded
  UsdtRuleKept
  StarvedOnlyByAccrual
PROPERTIES
  RestoresWhatItFound
  HeadroomReclaimed
  KeepsThePromise
  SlotsAreFreed
