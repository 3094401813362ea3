SPECIFICATION Spec
CONSTANTS
  Uuid = {nil, self, obt}
  Nil = nil
  Self = self
  Named = {nil, obt}
  None = none
  CredId = {1, 2}
  Secret = {0, 1, 2}
  ShippedDb <- MCShippedDb
  Obt = obt
  MaxTransfers = 2
INVARIANTS
  TypeOK
  
  OwnerHasKey

  
