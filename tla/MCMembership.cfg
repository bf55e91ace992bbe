SPECIFICATION Spec
CONSTANTS
  m1 = m1
  m2 = m2
  r1 = r1
  r2 = r2
  p1 = p1
  p2 = p2
  NoOne = NoOne
  Member <- TwoMembers
  Request <- TwoRequests
  Proposal <- TwoProposals
  Operations <- EveryOperation
  CrashesAllowed = FALSE
SYMMETRY Symmetry
INVARIANTS TypeOK ExactlyOneActiveOwner AtMostOnePending
PROPERTIES OwnershipMovesByConsent ImplementsOwnership
