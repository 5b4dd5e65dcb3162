SPECIFICATION FiguresSpec
CONSTANTS
  Base = 2
  WadDecimals = 4
  LoanDecimals = 3
  CollDecimals = 2
  Threshold <- MCThreshold
  VariableThreshold <- MCVariableThreshold
  MaxTime = 3
  Chain <- MCChain
  MaxYield = 2
  Lags = {0, 1}
  Amounts = {0, 4, 24}
  LpAmounts = {0, 13, 160}
  Slippages <- MCSlippages
  RateDecimals = 4
  Year = 2
  Block = 2
  RepayBuffer = 4
  DynamicBuffer <- MCDynamicBuffer
  MaxClock = 12
  Accounts <- MCAccounts
  MinLoan = 3
  Parts = {2, 7}
  MaxParts = 2
INVARIANTS
  TypeOK
  AdvisedIsSafe
  SimulationComesTrue
  TwinsAgree
  ClearedMeansAccepted
  QuoteClears
PROPERTY
  OutstandingIsOwed
CHECK_DEADLOCK FALSE
