SPECIFICATION Spec
CONSTANTS
  f1 = f1
  f2 = f2
  Nothing = Nothing
  Flow <- TwoFlows
  View <- OneView
  Org <- TwoOrgs
  Search <- Searches
  MaxChange = 1
SYMMETRY Symmetry
PROPERTY SelectionFollowsResults
