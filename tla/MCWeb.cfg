SPECIFICATION PagesSpec
CONSTANTS
  t1 = t1
  t2 = t2
  Nothing = Nothing
  Flow <- Two
  Tab <- Two
  Org = {1}
  Search <- Searches
  DirectoryChanges = 2
  Company = {"company"}
  Scope = {"scope"}
  Key = {"key"}
  CompaniesChanges = 2
  Member = {"me", "first", "second"}
  Me = "me"
  Invitation = {"invitation"}
  Right = {"right"}
  MembersChanges = 1
  Opening <- Openings
  Person = {"invited", "platform"}
  Platform = {"platform"}
  Invited = "invited"
SYMMETRY Symmetry
INVARIANTS TypesOK OwnWorkIsShown RightsBelongToTheirMember JoinsAsInvited
