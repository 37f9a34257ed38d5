SPECIFICATION Spec
CONSTANTS
  home = home
  away = away
  Ips <- TwoAddresses
  Home = home
  MAX_ATTEMPTS = 2
  Window = 1
  Clears = 0
  Ttl = 2
INVARIANT
  AtMostMaxPerWindow
