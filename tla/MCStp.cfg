SPECIFICATION FairSpec
CONSTANTS
  Switch <- TriSwitch
  Port <- TriPort
  Wire <- TriWire
INVARIANTS TypeOK HelloIffRoot
PROPERTIES SpanningTree
