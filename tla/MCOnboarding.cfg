SPECIFICATION Spec
CONSTANTS
  Uuid = {nil, self, obt}
  Nil = nil
  Self = self
  Named = {nil, obt}
  None = none
  CredId = {1, 2}
  Secret = {key}
  ShippedDb <- MCShippedDb
INVARIANTS
  TypeOK
  
  
  
  ResetErases
