CONSTANTS
  CountryCodes <- MCCountryCodes
  NetworkCodes <- MCNetworkCodes
  PlmnOctets <- MCPlmnOctets
  Msins <- MCMsins
SPECIFICATION IdentitySpec
INVARIANT EveryImsiIsTheSubscribers
CHECK_DEADLOCK FALSE
