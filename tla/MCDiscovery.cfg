SPECIFICATION FairSpec
CONSTANTS
  Query = {"dcap", "edev"}
  Service = {"s1", "s2"}
  Host = {"h1", "h2"}
  Packets <- MCPackets
  Null = Null
INVARIANTS
  TypeOK
  FoundUsable
PROPERTIES
  Reported
