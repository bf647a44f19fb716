SPECIFICATION Spec
CONSTANTS
  login = login
  plain = plain
  mapped = mapped
  ip = ip
  r1 = r1
  r2 = r2
  Endpoints = {login}
  Hosts = {plain, mapped}
  Addresses = {ip}
  AddressOf <- OneAddress
  Limit <- Limits
  Window <- Windows
  Second = 2
  MaxTime = 8
  Requests = {r1, r2}
  Latency = 2
  NULL = NULL
SYMMETRY Slots
INVARIANTS
  SlidingBound
  FailClosed
  RetryAfterSuffices
PROPERTIES
  WindowsAreAnchored
