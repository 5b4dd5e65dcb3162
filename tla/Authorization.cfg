\* Three signatures of one account, whoever holds them, and their cancellation.
SPECIFICATION AuthSpec
CONSTANTS
  positionManager = positionManager
  zero = zero
  Target = {positionManager, zero}
  Authorizable = {positionManager, zero}
  Zero = zero
  Self = Self
  Ttl = 1
  CancelTtl = 1
  MaxNow = 2
  MaxNonce = 1
  MaxSigned = 3
INVARIANT AuthTypeOK
PROPERTIES
  CancelledNeverLands
  GrantsExpire
  OnlyTheAddressBook
  SpentIsFinal
CHECK_DEADLOCK FALSE
