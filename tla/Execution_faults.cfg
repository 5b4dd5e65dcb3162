\* Every fault, a loop that looks at its receipts, and a second sequence that
\* waits for the first one or does not.
SPECIFICATION Spec
CONSTANTS
  NoSession = NoSession
  s1 = s1
  s2 = s2
  usdt = usdt
  token = token
  Slot = {usdt}
  UsdtLike = {usdt}
  Session = {s1, s2}
  SlotOf <- SameUsdt
  Job <- Careless
  InitAllowance = {0, 1}
  Debt = {1}
  MaxOwed = 3
  MaxMargin = 1
  ChecksReceipt = TRUE
  UndoesOnError = TRUE
  Fault = {"timeout", "undoThrows", "crash"}
  VirtualAssets = 1
  VirtualShares = 1000000
  HeadroomDivisor = 100
  MintBufferBps = 100
  BpsDenominator = 10000
SYMMETRY Alike
INVARIANTS
  NeverAboveAsked
  UsdtRuleKept
  StarvedOnlyByAccrual
PROPERTY RestoresWhatItFound
