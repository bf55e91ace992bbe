SPECIFICATION ServicesSpec
CONSTANTS
  s1 = s1
  s2 = s2
  t1 = t1
  t2 = t2
  t3 = t3
  r1 = r1
  r2 = r2
  Absent = Absent
  Part = {"sessions", "client", "throttle"}
  Worker <- TwoRequests
  Session <- TwoSessions
  ResetToken <- ThreeTokens
  Account <- TwoSessions
  Source = {"ip1", "ip2"}
  Failure <- ThreeTokens
  FreeAttempts = 0
  MaxDelay = 3
  Tab <- TwoSessions
  BrowserCall <- TwoRequests
  BrowserSession <- ThreeTokens
  \* Not in focus.
  Tenant = {}
  Connection = {}
  Organization = {}
  OrganizationName = {}
  OwnerEmail = {}
  CommercialStatus = {"DEMO"}
  Inviting = {}
  InvitedEmail = {}
  InvitationToken = {}
  Known = {}
  Company = {}
  BusinessScope = {}
  RowName = {}
  MaxGrants = 0
SYMMETRY Symmetry
INVARIANTS PartsTyped OpenTokensBounded BackoffHolds EffectOnce StaleTokenHeals
PROPERTIES PasswordChangeSpendsToken ResetEndsEarlierSessions
\* Every throttled login may have failed within the window.
CHECK_DEADLOCK FALSE
