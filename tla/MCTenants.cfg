SPECIFICATION ServicesSpec
CONSTANTS
  x1 = x1
  x2 = x2
  x3 = x3
  y1 = y1
  y2 = y2
  z1 = z1
  z2 = z2
  r1 = r1
  r2 = r2
  Absent = Absent
  Part = {"context", "organizations", "invitations", "structure"}
  Worker <- TwoRequests
  Tenant <- Three
  Connection <- OtherTwo
  Organization <- Two
  OrganizationName = {"name"}
  OwnerEmail <- OtherTwo
  CommercialStatus = {"DEMO"}
  Inviting <- Two
  InvitedEmail = {"email"}
  InvitationToken <- Three
  Known = {}
  Company = {"company"}
  BusinessScope <- Two
  RowName <- OtherTwo
  MaxGrants = 1
  \* Not in focus.
  Session = {}
  ResetToken = {}
  Account = {}
  Source = {}
  Failure = {}
  FreeAttempts = 0
  MaxDelay = 0
  Tab = {}
  BrowserCall = {}
  BrowserSession = {}
SYMMETRY Symmetry
INVARIANTS PartsTyped SettingsAreOwn TenantIsolation FlowsArePermitted
  OwnedOnceActive StaleSessionIsOwed OnePendingPerEmail OneOrganization
PROPERTIES LifecycleIsFollowed JoinNeedsOpenInvitation UserWritesWithinGrants
