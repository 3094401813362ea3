SPECIFICATION Spec
CONSTANTS
  Tool = tool
  Client = client
  Nil = nil
  Uuid = {nil, tool, client}
  Role <- MCRole
  App <- MCApp
  Props <- MCProps
  Owners <- MCOwners
  ShippedAcl <- MCShippedAcl
  NewAce <- MCNewAce
  Asked <- MCAsked
  Probe <- MCProbe
  FirstFree = 3
  IdCount = 4
  MaxAces = 2
INVARIANTS
  TypeOK
  AclDecides
  AnonymousOwnsNothing
  NoStaleContext
  
