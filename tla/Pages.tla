------------------------------- MODULE Pages -------------------------------
(***************************************************************************)
(* The pages of the web application side by side: the directory, the       *)
(* Companies, the members, and those through which a person comes in.      *)
(* They share no state, so a behaviour is one of them, chosen at the       *)
(* start; the variables of the others are Nothing.                         *)
(***************************************************************************)
CONSTANTS
  Nothing,
  Flow,  \* flows of requests of a page under way at a time
  \* DirectoryPage
  Org, Search, DirectoryChanges,
  \* CompaniesPage
  Company, Scope, Key, CompaniesChanges,
  \* MembersPage
  Member, Me, Invitation, Right, MembersChanges, Opening,
  \* EntryPages
  Tab, Person, Platform, Invited

VARIABLES
  focus,
  flow, unseen, excused, changes, loading,
  org, items, selected, search, panel,
  company, scope, companies, scopesByCompany, expanded, selectedScope,
  wizardCompany, wizard,
  member, owner, invited, transfer, isOwner, members, invitations,
  pendingTransfer, transferSuccessor, edit, given,
  account, belongs, invitation, entryCookie, tab, missed

pageVars == <<flow, unseen, excused, changes, loading>>
directoryVars == <<org, items, selected, search, panel>>
companiesVars ==
  <<company, scope, companies, scopesByCompany, expanded, selectedScope,
    wizardCompany, wizard>>
membersVars ==
  <<member, owner, invited, transfer, isOwner, members, invitations,
    pendingTransfer, transferSuccessor, edit, given>>
entryVars == <<account, belongs, invitation, entryCookie, tab, missed>>
pagesVars ==
  <<focus, pageVars, directoryVars, companiesVars, membersVars, entryVars>>

D == INSTANCE DirectoryPage WITH
  View <- {"directory"}, MaxChange <- DirectoryChanges

C == INSTANCE CompaniesPage WITH
  View <- {"companies"} \cup Company, MaxChange <- CompaniesChanges

M == INSTANCE MembersPage WITH
  View <- {"members", "invitations", "transfer"}, MaxChange <- MembersChanges

E == INSTANCE EntryPages WITH cookie <- entryCookie

\* Of the constants.
PagesConstants ==
  /\ D!NothingIsNothing /\ D!OrgsAreOrdered /\ D!ChangesAreCounted
  /\ C!NothingIsNothing /\ C!ViewsAreListed /\ C!ChangesAreCounted
  /\ M!NothingIsNothing /\ M!ViewsAreListed /\ M!ChangesAreCounted
  /\ M!MeIsAMember /\ M!OpeningsAreOwned
  /\ E!PersonsAreKnown

---------------------------------------------------------------------------
NoPage ==
  /\ flow = Nothing /\ unseen = Nothing /\ excused = Nothing
  /\ changes = Nothing
NoDirectory ==
  org = Nothing /\ items = Nothing /\ selected = Nothing /\ search = Nothing
    /\ panel = Nothing
NoCompanies ==
  /\ company = Nothing /\ scope = Nothing /\ companies = Nothing
  /\ scopesByCompany = Nothing /\ expanded = Nothing /\ selectedScope = Nothing
  /\ wizardCompany = Nothing /\ wizard = Nothing
NoMembers ==
  /\ member = Nothing /\ owner = Nothing /\ invited = Nothing
  /\ transfer = Nothing /\ isOwner = Nothing /\ members = Nothing
  /\ invitations = Nothing /\ pendingTransfer = Nothing
  /\ transferSuccessor = Nothing /\ edit = Nothing /\ given = Nothing
NoEntry ==
  /\ account = Nothing /\ belongs = Nothing /\ invitation = Nothing
  /\ entryCookie = Nothing /\ tab = Nothing /\ missed = Nothing

PagesInit ==
  \/ focus = "directory" /\ D!Init /\ NoCompanies /\ NoMembers /\ NoEntry
  \/ focus = "companies" /\ C!Init /\ NoDirectory /\ NoMembers /\ NoEntry
  \/ /\ focus = "members" /\ M!Init /\ loading = Nothing
     /\ NoDirectory /\ NoCompanies /\ NoEntry
  \/ /\ focus = "entry" /\ E!Init /\ NoPage /\ loading = Nothing
     /\ NoDirectory /\ NoCompanies /\ NoMembers

PagesNext ==
  /\ UNCHANGED focus
  /\ \/ /\ focus = "directory" /\ D!Next
        /\ UNCHANGED <<companiesVars, membersVars, entryVars>>
     \/ /\ focus = "companies" /\ C!Next
        /\ UNCHANGED <<directoryVars, membersVars, entryVars>>
     \/ /\ focus = "members" /\ M!Next
        /\ UNCHANGED <<loading, directoryVars, companiesVars, entryVars>>
     \/ /\ focus = "entry" /\ E!Next
        /\ UNCHANGED <<pageVars, directoryVars, companiesVars, membersVars>>

PagesSpec == PagesInit /\ [][PagesNext]_pagesVars

---------------------------------------------------------------------------
(* The properties of the parts *)

\* The types of each part.
TypesOK ==
  /\ focus = "directory" => D!TypeOK
  /\ focus = "companies" => C!TypeOK
  /\ focus = "members" => M!TypeOK
  /\ focus = "entry" => E!TypeOK

\* page.tsx of the directory, the Companies and the members: when nothing is
\* under way the page shows what was done on it.
OwnWorkIsShown ==
  /\ focus = "directory" => D!OwnWorkIsShown
  /\ focus = "companies" => C!OwnWorkIsShown
  /\ focus = "members" => M!OwnWorkIsShown

\* members/page.tsx: no member gets a right that nobody chose for that member.
RightsBelongToTheirMember == focus = "members" => M!RightsBelongToTheirMember

\* login and invitations/accept: the link of an invitation lets in the invited
\* person, and nobody else.
JoinsAsInvited == focus = "entry" => E!JoinsAsInvited
=============================================================================
