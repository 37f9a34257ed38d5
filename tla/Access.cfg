SPECIFICATION FairSpec
CONSTANTS
  home = home
  away = away
  Ips <- OneAddress
  Home = home
  MAX_ATTEMPTS = 2
  Window = 1
  Clears = 2
  Ttl = 2
INVARIANTS
  FewGuesses
  BarTellsTheTruth
PROPERTIES
  RefusalHasACause
  ThrottleEnds
