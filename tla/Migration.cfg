\* A migration beside transactions and a signature on the same grant.
SPECIFICATION Spec
CONSTANTS
  positionManager = positionManager
  zero = zero
  Target = {positionManager, zero}
  Authorizable = {positionManager, zero}
  Zero = zero
  Self = Self
  PositionManager = positionManager
  Ttl = 1
  CancelTtl = 1
  MaxNow = 1
  MaxNonce = 0
  MaxSigned = 1
  InitTarget <- Targets
  InitDue = {1}
  MaxDue = 2
  ChecksReceipt = {TRUE, FALSE}
INVARIANTS
  TypeOK
  NoOrphanGrant
PROPERTY ShortOnlyIfMoved
CHECK_DEADLOCK FALSE
