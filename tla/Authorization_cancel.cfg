\* A cancellation asked for again after it has landed.
SPECIFICATION AuthSpec
CONSTANTS
  positionManager = positionManager
  zero = zero
  Target = {positionManager, zero}
  Authorizable = {positionManager, zero}
  Zero = zero
  Self = Self
  Ttl = 1
  CancelTtl = 1
  MaxNow = 2
  MaxNonce = 1
  MaxSigned = 2
INVARIANT SpentMeansSubmitted
CHECK_DEADLOCK FALSE
