SPECIFICATION FairSpec
CONSTANTS
  i3 = i3
  Internal = {i1, i2, i3}
  Remote = {r1, r2}
  MinPort = 1
  MaxPort = 2
  Rules <- OneRule
  Timeout = 0
INVARIANTS TypeOK RoundTrip PoolExact
PROPERTIES PortsReturn
