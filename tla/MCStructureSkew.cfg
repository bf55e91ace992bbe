SPECIFICATION Spec
CONSTANTS
  c1 = c1
  s1 = s1
  s2 = s2
  n1 = n1
  n2 = n2
  r1 = r1
  r2 = r2
  Nothing = Nothing
  Company <- OneCompany
  Scope <- OneScope
  Name <- OneName
  Request <- TwoRequests
  MaxGrants = 0
SYMMETRY Symmetry
INVARIANT NoActiveScopeInInactiveCompany
