SPECIFICATION Spec
CONSTANTS
  o1 = o1
  o2 = o2
  n1 = n1
  e1 = e1
  e2 = e2
  r1 = r1
  r2 = r2
  Nothing = Nothing
  Org <- TwoOrgs
  Name <- OneName
  Email <- TwoEmails
  Request <- TwoRequests
  CommercialStatus <- Demo
SYMMETRY Symmetry
INVARIANT DisabledEndsAccess
