CONSTANTS
  Alnum <- MCAlnum
  Upper <- MCUpper
  Lower <- MCLower
  MaxName = 4
  MaxHost = 7
  Empty = Empty
  Choices <- MCChoices
  MaxFlags = 1
  Addresses <- MCAddresses
  ZeroBlock <- MCZeroBlock
  None = None
SPECIFICATION FrontDoorSpec
CHECK_DEADLOCK FALSE
INVARIANT FrontDoorTypeOK
INVARIANT ParseIsExact
INVARIANT NeverAnotherSlot
INVARIANT ParsesBack
INVARIANT UrlReachesFrontEnd
INVARIANT RedirectAgrees
INVARIANT DefaultsAreConsistent
INVARIANT TrustIsExact
