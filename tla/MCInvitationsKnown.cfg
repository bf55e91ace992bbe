SPECIFICATION Spec
CONSTANTS
  o1 = o1
  o2 = o2
  e1 = e1
  t1 = t1
  t2 = t2
  t3 = t3
  r1 = r1
  r2 = r2
  Nothing = Nothing
  Org <- TwoOrgs
  Email <- OneEmail
  Token <- ThreeTokens
  Request <- TwoRequests
  Known <- OneEmail
SYMMETRY Symmetry
INVARIANT OneOrganization
