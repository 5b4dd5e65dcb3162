\* A builder that approves the exact amount, and an owner who had an allowance.
SPECIFICATION Spec
CONSTANTS
  NoSession = NoSession
  s1 = s1
  s2 = s2
  usdt = usdt
  token = token
  Slot = {usdt}
  UsdtLike = {usdt}
  Session = {s1, s2}
  SlotOf <- SameUsdt
  Job <- SupplyOnly
  InitAllowance = {0, 1}
  Debt = {2}
  MaxOwed = 3
  MaxMargin = 1
  ChecksReceipt = FALSE
  UndoesOnError = TRUE
  Fault = {}
  VirtualAssets = 1
  VirtualShares = 1000000
  HeadroomDivisor = 100
  MintBufferBps = 100
  BpsDenominator = 10000
INVARIANT StandingAllowanceKept
