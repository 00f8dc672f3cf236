SPECIFICATION FairSpec
CONSTANTS
  Processes = {"p1", "p2"}
  Users = {"root", "pi"}
  Arguments <- CommandLines
INVARIANTS PortExclusive AloneIsWhole
PROPERTY SignalEnds
