\* The wait for the raise gives up, and the raise lands later.
SPECIFICATION Spec
CONSTANTS
  NoSession = NoSession
  s1 = s1
  s2 = s2
  usdt = usdt
  token = token
  Slot = {usdt}
  UsdtLike = {usdt}
  Session = {s1, s2}
  SlotOf <- SameUsdt
  Job <- SharesOnly
  InitAllowance = {0}
  Debt = {1}
  MaxOwed = 3
  MaxMargin = 1
  ChecksReceipt = FALSE
  UndoesOnError = TRUE
  Fault = {"timeout"}
  VirtualAssets = 1
  VirtualShares = 1000000
  HeadroomDivisor = 100
  MintBufferBps = 100
  BpsDenominator = 10000
INVARIANT NoStandingHeadroom
