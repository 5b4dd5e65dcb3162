\* Every way to ask for a repayment, while others use the market.
SPECIFICATION Spec
CONSTANTS
  Method = {"assets", "shares", "all"}
  InitMarket <- Markets
  Amounts = {1, 2, 9}
  Shares = {1, 7, 2500}
  RateDivisor = 1000
  MaxInterest = 4
  MaxMoves = 2
  VirtualAssets = 1
  VirtualShares = 10
  HeadroomDivisor = 100
  MintBufferBps = 100
  BpsDenominator = 10000
INVARIANTS
  TypeOK
  StarvedOnlyByInterest
  RepayAllLeavesNoDebt
\* A repayment that has landed is over.
CHECK_DEADLOCK FALSE
