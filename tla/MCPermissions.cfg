\* Once MaxChange changes were submitted, nothing else needs to happen.
CHECK_DEADLOCK FALSE
SPECIFICATION Spec
CONSTANTS
  c1 = c1
  s1 = s1
  k1 = k1
  r1 = r1
  r2 = r2
  Nothing = Nothing
  Company <- OneCompany
  Scope <- OneScope
  Capability <- OneCapability
  Offered <- SomePermissions
  Request <- TwoRequests
  MaxChange = 3
SYMMETRY Symmetry
INVARIANTS TypeOK StaleSessionIsOwed
PROPERTIES ReplacesWhatItFound 
