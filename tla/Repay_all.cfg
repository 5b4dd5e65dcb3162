\* Repaying everything in a market that owes no interest.
SPECIFICATION Spec
CONSTANTS
  Method = {"all"}
  InitMarket <- FreshMarkets
  Amounts = {1, 2, 9}
  Shares = {1, 7, 2500}
  RateDivisor = 1000
  MaxInterest = 0
  MaxMoves = 0
  VirtualAssets = 1
  VirtualShares = 10
  HeadroomDivisor = 100
  MintBufferBps = 100
  BpsDenominator = 10000
PROPERTY CoveredWhenQuoted
\* A repayment that has landed is over.
CHECK_DEADLOCK FALSE
