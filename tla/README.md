# super-nova: a TLA+ verification of the Organization platform

super-nova (NOVA) is a multi-tenant web platform: a NestJS API (`apps/api`)
over PostgreSQL (`packages/db`), with a Next.js client (`apps/web`). A Platform
Administrator provisions Organizations; each has one owner, Administrators and
Users who join by invitation, Companies and Business Scopes, and grants that
say who sees which of them.

This directory holds TLA+ modules that model the parts of it where the order
of events matters, TLC configurations that check them on small instances, and
TLAPS proofs of what matters most for instances of every size.

Paths below are relative to the repository. Two files are cited so often that
they have short names: `MS` is `apps/api/src/access-control/membership.service.ts`,
`IS` is `apps/api/src/access-control/invitations.service.ts`.

1. [Inventory](#inventory)
2. [How the code is turned into steps](#how-the-code-is-turned-into-steps)
3. [Modules](#modules)
4. [Runs, bounds and fairness](#runs-bounds-and-fairness)
5. [What is proved](#what-is-proved)
6. [Divergences](#divergences)
7. [What is not modelled, and what only TLC says](#what-is-not-modelled-and-what-only-tlc-says)
8. [Plan](#plan)

## Inventory

Everything durable is a row in PostgreSQL. The API is one Node.js process
(two while a deployment replaces one), whose requests interleave at every
`await`. Components of the API do not call each other over a network: a
service calls another inside its own transaction (`tx` is passed along), or
after its commit.

| Component | State it keeps | Operations | Talks to | What is hard | What makes it correct |
|---|---|---|---|---|---|
| Members and ownership transfer (`MS`, guards and controllers of `access-control`) | `memberships` (profile, state, is_owner), `ownership_transfer_proposals` | suspend, reactivate, remove, promote, propose, cancel, accept, list | Sessions (revocation after the commit), Invitations (joins write the same rows) | the guards read in a transaction of their own; some handlers lock rows, others do not; the count of Administrators locks nothing; a mark EXPIRED that its own exception rolls back | one active owner; an active Administrator; one open proposal; a hand-over only by consent; every request answered; stale sessions revoked |
| Permissions of a member (`MS.updatePermissions`, `IS.acceptCore`) | `membership_capabilities`, `membership_scope_grants` | replace by an update, replace by an acceptance | Invitations, Effective access, Sessions | delete-then-insert at READ COMMITTED by two writers; grants have no unique index | what a change found is gone; an acceptance leaves its own permissions only |
| Invitations (`IS`) | `invitations` | create, resend, revoke, accept (new or existing identity), expire | Members, Organizations, Outbox | find-then-write without a lock; update by id alone; a token replaced while it is being accepted | one open invitation per address; a join uses up an open invitation with its latest token; one Organization per identity |
| Organizations (`platform-admin/organizations.service.ts`) | `organizations` (access and commercial status) | create (two transactions), suspend, reactivate, disable, change the commercial status | Invitations (initial owner), Sessions | a process that ends between two transactions; revocations after a commit that fail; transitions that checked a status another has replaced | transitions follow the life cycle; an owner from the activation on; sessions end with a suspension |
| Self-registration (`identity/registration.service.ts`) | identity, organization and membership, inserted together | register | Organizations, Sessions | a free e-mail and name are found, then inserted | as for Organizations and Invitations |
| Sessions, login, password reset (`identity/`) | `sessions`, `password_credentials`, `password_reset_tokens` | login, logout, request and complete a reset, revoke all of an identity | Outbox (reset mail), Members and Organizations (revocation) | login is several statements outside any transaction | a token changes the password once; a reset ends every earlier session |
| E-mail outbox and dispatcher (`email/`, `main.ts`) | `email_outbox` (status, attempts, encrypted token) | enqueue, dispatch one, sweep at startup | the mail provider, inside a transaction | provider called inside a transaction that may be lost under the call; two processes; a sweep with a limit | sent again only when an outcome was missed; secret kept exactly as long as needed; every mail settled |
| Companies and Business Scopes (`organization-admin/`) | `companies`, `business_scopes` | create, rename, deactivate | Effective access | checks of another table's rows without a lock; grants replaced between check and write | names unique; writes covered by a grant; no active scope in an inactive Company |
| Effective access (`effective-access.service.ts`) | none | visibility and write checks from grants, live grants | Companies, Permissions | grants descend, and ascend for visibility | pure rules, used by Structure and Permissions |
| Tenant context and row-level security (`packages/db/src/tenant-context.ts`, migrations) | `set_config` settings of pooled connections | open a scoped transaction, scope it later, policies per table and command | every service | a connection goes from tenant to tenant; a transaction changes its scope half-way | settings never leak; no statement leaves its Organization; no service is refused |
| Login throttling (`throttle.service.ts`) | `login_attempts` | count by account and by source, sleep, record | Sessions | count, sleep and record are separate, so that attempts in parallel see the same counts | delays hold by account and by source, but for as many attempts as run at a time |
| Browser client (`apps/web/src/lib/api-client.ts`, `cookie.util.ts`) | cookie of the browser, CSRF token of each tab | apiFetch with one retry, login, logout | Sessions | tabs share the cookie and not the token; lost answers | an effect happens once; a stale token mends itself |
| Evidence (`evidence.service.ts`) | `admin_evidence` | append | every service, in its transaction | nothing | commits with what it describes |
| Organization directory (`platform-admin/page.tsx` and its panel) | rows, selection, search text, the panel's dialog (React state, lost with the page) | search, select, create, suspend/reactivate/disable, commercial status | Organizations, by the API client | flows overlap at every `await` and go on with the variables of the render that started them; answers come in any order or not at all | what was done on the page is shown; the selection follows the results |
| Companies page (`org/companies/page.tsx`) | Companies, Business Scopes kept per Company, expansion, selection, the wizard | create and deactivate Companies, list, create and deactivate Business Scopes, duplicate check | Companies and Business Scopes | as above; a wizard is closed or replaced while it awaits | what was done on the page is shown |
| Members page (`org/members/page.tsx`) | members, invitations, open transfer, one rights editor | the actions on members, invitations and the transfer, each followed by a refresh of parallel lists | Members, Permissions, Invitations | as above; one set of edited rights for all rows | a member gets only rights chosen for that member |
| Entry pages and layouts (home, `login`, `register`, `invitations/accept`, password reset, the two `layout.tsx`, `AccessUnavailable`) | the page a tab shows, the address with the invitation's token | who am I, login, register, accept, reset, logout, and where to go with the answer | Sessions, Invitations | tabs share the cookie: the person changes under a page; a failed acceptance is swallowed on the way in | an invitation's link lets in the invited person and nobody else |
| Presentation (markup, icons, a static mock page) | none | | | | |
| E-mail adapters and templates | none | send | provider | external | |
| Password policy, cryptography | none | check, hash, encrypt | | pure | |
| Shared schemas and constants | none | validate | | pure | |
| Configuration, error filter, correlation ids | none | | | | |
| Bootstrap and seed scripts, test support | | run once, or by tests | | | |

`PROJECT.json` lists the same components with their status, and under
`hazards` every place where a test would hardly reach what can go wrong, with
the property that would catch it.

## How the code is turned into steps

A request is a process of its own: `Arrive(r)` chooses an endpoint and its
input from everything a caller may send at that moment, `Serve(r)` runs the
next statement, `Timeout(r)` or `Lose(r)` rolls the transaction back. `pc[r]`
names the statement that comes next, `job[r]` holds the local variables of the
handler that are read later. When a request ends its `job` goes back to a
fixed value, so that finished requests leave no trace in the state.

- **Isolation.** Prisma's interactive transactions run at PostgreSQL's default,
  READ COMMITTED. Every plain SELECT sees what is committed when it runs and
  locks nothing. What it saw stays in `job[r]`, and may be stale when it is used.
- **Row locks.** `SELECT ... FOR UPDATE` is a step with the guard that nobody
  else holds the row; it stays in `locks[r]` until the end. An UPDATE waits for
  rows another transaction holds. A waiter whose row changed meanwhile sees
  the new version (the check after the lock is repeated on current values).
- **The last writes** of a transaction are one step with its COMMIT: nobody
  sees them before, and after the checks nothing else is read. Unique indexes
  are guards of that step: a row that would violate one takes the step of the
  error instead (rollback, 409).
- **Exceptions** roll back, also what the same transaction has already written
  (the mark EXPIRED of an expired proposal or invitation is such a write).
- **Guards of the controllers** read the caller's membership in a transaction
  of their own, at `Arrive`. The service works with that copy: a caller who is
  suspended, removed or no longer owner meanwhile still gets through, as in
  the code. Only where the service reads the caller again does the model.
- **After the commit** some handlers revoke sessions or dispatch a mail, in a
  step of their own. No transaction is open then that could roll the change
  back, so `Timeout` and `Lose` are not what happens there; but the statement
  may throw (`RevokeFails`, `ListFails`), or the process may stop before it
  (the same steps, or `Crash` where there is one). The change stays, the rest
  is not done, and nothing comes back to it.
- **Time** is a nondeterministic choice: an invitation, token, session or
  proposal may expire at any moment. **Secrets** are model values, each
  generated once. **Strings** (names, addresses) are model values after
  normalization: two spellings of one normalized name are the same value.

`PROJECT.json` `map` gives, for every definition, the lines it stands for.

## Modules

| Module | Models | State and its code | Actions and their code |
|---|---|---|---|
| `Ownership` | what a transfer of ownership promises, without requests, locks or rows | `owner`, `offer` | `Make`, `Withdraw`, `HandOver` |
| `Membership` | the members of one Organization, every request of `MS` but updatePermissions, and joins | `profile`, `state`, `isOwner` are the columns of `memberships`; `proposal` is `ownership_transfer_proposals`; `stale` says of a session older than the change that has to end it whether its revocation is `OWED`, or failed or was forgotten (`LEFT`) | suspend, reactivate and remove are three instances of one sequence (`MS` 163-250), promote, propose, cancel, accept one sequence each, `Revoke` or `RevokeFails` after the commit; `join` is what an accepted invitation does to a membership row (`IS` 399-430) |
| `EffectiveAccess` | the pure rules of grants | | `VisibleCompanyIds`, `HasDirectCompanyGrant`, `FilterLiveGrants` |
| `Permissions` | capabilities and grants of one membership; extends `EffectiveAccess` | `permission` are the rows with the number of the change that inserted them, `invitation` the former member's, `stale` as above | two DELETEs, the filter and the inserts of each writer, waiting for rows another one deletes; `UpdateRevoke` or `RevokeFails` after the commit of an update |
| `Invitations` | collaborator invitations of several Organizations | `invitation`, `identity`, `member`, `issued` | create/resend, revoke, accept by a new and by an existing identity; `Leave`, `Register`, `Expire` |
| `Organizations` | provisioning, registration, initial-owner acceptance and life cycle | `org`, `invitation`, `identity`, `member`, `owner`, `session` with what became of it; `lost` remembers creations that ended between their transactions | create in its two transactions, register, accept, transition with the listing and the revocations after it, commercial status; `SuspendMember`, `Reinstate`, `Join`, `Appear`, `Login`, `Logout`; `LoseInvite`, `ListFails`, `RevokeFails` |
| `Sessions` | one identity's sessions, password, reset tokens | `session` with the password its login verified, `password` counted up by each reset, `resetToken` | login and logout outside any transaction, request and complete inside one, `RevokeAllForIdentity` by other components |
| `Outbox` | the outbox and its dispatcher in several processes | `outbox` rows, `phase` and `todo` of each process, `task` of each dispatch; `delivery` counts what the provider took and remembers outcomes that were missed | `Enqueue`, `Dispatch` with the provider's answer, `Boot` with the sweep, `Stop`, `Crash`, `Lose`, `LoseSending` and `OrphanEnds` |
| `Structure` | Companies and Business Scopes of one Organization; extends `EffectiveAccess` | `company`, `scope`, `grants` of the User | the reads of a check, then the write with COMMIT, per endpoint; `ReplaceGrants` |
| `TenantContext` | settings of pooled connections and the policies | `setting` of each connection, `conn` of each request; a flow is the list of statements a service runs | `Begin`, `Apply` (the SET LOCALs), `Step`, `ScopeTo`, `Commit`, `Rollback` |
| `CsrfClient` | tabs of one browser and the session guard | `cookie`, `cached` token of each tab, `status` of each session | `Start`, fetching the token, `Guard`, `Write`, `Login`, `Logout`, `Receive` with the retry, `Lose` |
| `Throttle` | the delays of logins for several accounts and sources | `failure` are the failed rows of `login_attempts` within the window, `login` the logins being served | `Arrive`, the two counts of `currentDelayMs` in either order, `Fail` after the sleep, `Succeed`, `Forget` (the window moves on), `Lose` |
| `PageRequests` | the requests of a page, extended by the next three | `flow` of each click: its running call, what it lists, its answer | `Ask`, the API's `Tell`, `Change` or `Refuse`, `Drop` (the answer is lost), `Then` and `End` |
| `DirectoryPage` | the Organization directory and its panel | `items`, `selected`, `search`, `loading` are the `useState` of the page, `panel` those of the panel; `org` is what the API has | one action per handler and per answer it awaits (`Listed`, `Created`, `Done`), `Serve*` for the API, `Others` for everybody else |
| `CompaniesPage` | the Companies page with its wizard | `companies`, `scopesByCompany`, `expanded`, `selectedScope`, `wizardCompany`, `wizard` are `useState`; `company` and `scope` what the API has | as above |
| `MembersPage` | the members page | `members`, `invitations`, `pendingTransfer`, `transferSuccessor`, `edit` are `useState`; `member`, `owner`, `invited`, `transfer` what the API has | as above |
| `EntryPages` | the pages through which a person comes in, in the tabs of one browser | `tab` with its page and its running call, `cookie` of the browser; `account`, `belongs`, `invitation` of the API | `Visit`, `Submit`, the API's `Read`, `Write`, `Refuse`, and one action per answer with the page it leads to; `Others` |
| `Services` | `TenantContext`, `Organizations`, `Invitations`, `Structure`, `Sessions`, `Throttle` and `CsrfClient` side by side, each with its own variables; `focus` is the one that runs | the variables of the seven | theirs, while in focus |
| `Pages` | `DirectoryPage`, `CompaniesPage`, `MembersPage` and `EntryPages` side by side in the same way | the variables of the four; the first three share those of `PageRequests` | theirs, while in focus |
| `MembershipProofs`, `OutboxProofs`, `PermissionsProofs`, `OrganizationsProofs`, `InvitationsProofs`, `SessionsProofs` | theorems about the module they are named after | | |
| `ServicesProofs` | the last three's, carried over to `Services`, and the theorems about its other four parts | | |
| `PagesProofs` | theorems about the four pages | | |

The `MC*` modules only give constants their values. `Services` and `Pages` put
modules side by side that share no state: a behaviour is one of them, chosen at
the start by `focus`, while the variables of the others are `Absent` (`Nothing`),
and a property `P` of module `M` reads `focus = "m" => M!P`. One run then checks
several of them, each on an instance of its own: of `Services`, `MCTenants` has
what Organizations keep and `MCIdentity` what concerns sessions and logins;
`MCWeb` has all `Pages`.

**Composition.** `Membership` implements `Ownership` (the owner is the member
with `isOwner`, the offer the proposal that is PENDING). `Structure` and
`Permissions` use the same `EffectiveAccess`, whose rules are therefore stated once.
Where two components share rows, the module of one has the other's effect as an
action: joins in `Membership` are what `Invitations` ends in; `Register` and
`Leave` in `Invitations` are what `Organizations` and `Membership` do;
`SuspendMember`, `Reinstate` and `Join` in `Organizations` and
`RevokeAllForIdentity` in `Sessions` likewise.

**What is abstracted, per module.**

- `Membership`: one Organization, since no statement of these handlers reads
  another's rows. Reasons, evidence and correlation ids are left out. Reading
  endpoints change nothing.
- `Permissions`: one membership; the preset key is a label without effect.
- `Invitations`: the token a row is inserted with also stands for its id.
  Permissions carried by an invitation are in `Permissions`, mails in `Outbox`.
- `Organizations`: the sessions of an identity are one: there is none, one is
  open, one is open that a suspension is to end (`STALE`), or whose revocation
  was given up (`LEFT`); the rest is in `Sessions`. Suspended and removed
  members are both `INACTIVE`, profiles are left out. The owner does not change
  by a transfer, which is in `Membership`. What an identity belongs to outside
  `Org` is `HOME`. The suspension of a member is one step up to its revocation.
- `Sessions`: cookies, hashes and recent authentication (a read) are left out.
- `Outbox`: a mail is its id and whether its encrypted token is still there.
  The provider takes a mail, refuses it, or takes it and the answer is lost. A
  call whose transaction is lost meanwhile goes on as an `orphan`, which holds
  no lock; that the provider itself may drop a repeated mail by its idempotency
  key (the Resend adapter sends one, Gmail knows none) is left out.
- `Structure`: the reads of one check are one step. The code runs them one
  after the other; no property here tells two orders of them apart, since
  each is compared with the write that follows all of them.
- `TenantContext`: tables keep no rows; what matters is which Organization's
  rows a statement may touch. `companies` stands for every table whose only
  policy is `tenant_isolation`. The three SET LOCALs are one step: they run on
  a connection nobody else has. An id that is not a UUID is refused before
  the transaction begins and is left out.
- `CsrfClient`: a CSRF token is the session it was derived from. Safe requests
  are left out, and so is a failing `GET auth/csrf`. That a token arrives and
  the request is sent again is one step, as in one task of the event loop.
- `Throttle`: delays in units of 500 ms. Successes are
  recorded too, but nothing counts them. The sleep is an arbitrary pause; how
  long it is stays with the failure in `waited`, for the property only.
- The pages: a call is handled by the API in one step, which the module of the
  API's part has in its detail, and its answer is applied in a later one. Reasons
  are taken as entered, notices and error texts left out. What a function that
  awaits keeps of its render (`search`, `selectedId`) is kept in the call.
  `unseen`, `excused` and `given` serve properties only.
- `EntryPages`: the sessions of one person are not told apart. To leave a page
  while a call is under way is to have that call fail first. `missed` serves
  the property only.

## Runs, bounds and fairness

Checking one run takes from 3 s to about three minutes with two workers.

| Run | Checks | Instance |
|---|---|---|
| `members_race` | `TypeOK`, `ExactlyOneActiveOwner`, `AtMostOnePending`, `OwnershipMovesByConsent`, `ImplementsOwnership` | 2 members, 2 requests, 2 proposals, every endpoint, failing revocations, no crash |
| `members_answered` | `AtLeastOneActiveAdministrator`, `StaleSessionIsOwed`, `RequestsAreAnswered` | 2 members, 2 requests, 1 proposal, crashes, failing revocations, no joins; `FairSpec` |
| `members_demoted_owner` | violates `AtLeastOneActiveAdministrator` | as `members_race` with 1 proposal |
| `invitations_known` | violates `OneOrganization` | 2 Organizations, 1 address, 3 tokens, the identity known beforehand |
| `outbox_race` | `TypeOK`, `TokenWhilePending`, `SentTwiceForAReason`, `SettledForAReason`, `StartsUp`, `SweepsSettle` | 2 processes, 2 mails, 2 attempts, a sweep takes 1; `FairSpec` |
| `identity` | `PartsTyped`; of `Sessions`: `OpenTokensBounded`, `PasswordChangeSpendsToken`, `ResetEndsEarlierSessions`; of `Throttle`: `BackoffHolds`; of `CsrfClient`: `EffectOnce`, `StaleTokenHeals` | 2 sessions, 3 reset tokens, 2 requests; 2 accounts, 2 sources, 3 failures, 2 logins; 2 tabs, 2 calls at a time, 3 sessions |
| `organizations_disabled` | violates `DisabledEndsAccess` | 2 Organizations, 1 name, 2 addresses |
| `structure_skew` | violates `NoActiveScopeInInactiveCompany` | 1 Company, 1 Business Scope |
| `permissions_race` | `TypeOK`, `StaleSessionIsOwed`, `ReplacesWhatItFound`, `AcceptanceReplaces` | 1 Company, 1 Business Scope, 1 capability, 2 requests, 3 changes; a grant of both targets with the capability, or a grant of each without it |
| `tenants` | `PartsTyped` (one Organization per name, unique names of Companies and Business Scopes among them); of `TenantContext`: `SettingsAreOwn`, `TenantIsolation`, `FlowsArePermitted`; of `Organizations`: `OwnedOnceActive`, `StaleSessionIsOwed`, `LifecycleIsFollowed`; of `Invitations`: `OnePendingPerEmail`, `OneOrganization`, `JoinNeedsOpenInvitation`; of `Structure`: `UserWritesWithinGrants` | 3 Organizations, 2 connections, 2 transactions at a time; 2 Organizations, 1 name, 2 addresses, failures at every statement; 2 Organizations, 1 address, 3 tokens, nobody known beforehand; 1 Company, 2 Business Scopes, 2 names, 1 grant at a time; 2 requests each |
| `web` | `TypesOK`; of the three pages: `OwnWorkIsShown`; of `MembersPage`: `RightsBelongToTheirMember`; of `EntryPages`: `JoinsAsInvited` | 2 flows at a time; directory: 1 Organization, 2 searches, 2 changes; Companies: 1 Company, 1 Business Scope, 2 changes; members: 3 members, 1 invitation, 1 right, 1 change, 3 openings; entry: 2 tabs, 2 persons |
| `directory_selection` | violates `SelectionFollowsResults` | 2 Organizations, 2 searches, 1 change |

**Why two requests.** Every race listed under hazards is between two
transactions: one that has read and not yet written, and one that writes in
between. A request that has ended begins anew, as often as the identifiers
allow (in `Permissions` up to `MaxChange` changes), so the other one may be a
whole sequence of requests while the first stands still. What two requests
cannot show is three that hold locks at once; the safety of every service, and
of every page, is therefore also proved, for any number.

**Other bounds.** Two members suffice for every role in a transfer (owner and
successor, and either as the target of a suspension); a second proposal is
needed to have one open while an old one is still being accepted or cancelled.
Three tokens are the inserted one, its replacement, and one of another row or
Organization. A sweep of one row with two mails is the smallest in which the
limit leaves something for later, two attempts the smallest with a failure
that is not the last. Three sessions are one that a tab still knows, the
present one, and the next. `MaxChange = 3` bounds how many changes of
permissions are ever submitted: two that overlap and one before them that left
rows. `Offered` there are two sets of permissions, each of which takes away
something that the other gives; the grant of two targets is live, half live or
dead when it is accepted. `MaxGrants = 1` gives the User one grant at a time: what several grants
permit is the union of what each permits. With one Company in `tenants` two
Companies of one name cannot occur there (two Organizations and two Business
Scopes of one name would): that Company names stay unique is shown by
`TypesCorrect` alone. Except for the rows of permissions,
which are replaced, rows are never deleted in these modules, and a session,
token or proposal identifier is used for one row only, as in the code: when all
are used up there are still logouts, refusals and transitions.

`Throttle` has three failures within the window at a time, with `FreeAttempts`
0 and `MaxDelay` 3 (delays 2, 3, 3): the property compares the n-th failure with
its delay, and the free attempts only shift n. The pages have two flows, one
that awaits and one that overtakes it. `MaxChange` bounds the
changes ever made, by the page and by others: two are one whose list is under
way and one that makes it old. On the members page one change is one that is
made and answered while the lists of another flow are read; three `Opening`s
give `me` the owner's place with a User and an Administrator or a
suspended member, or an Administrator's with an invitation somebody may accept.
Two persons in `EntryPages` are the invited one and another who is already
signed in in the same browser.

TLC's deadlock check stays on everywhere, except for `permissions_race`, which
ends after `MaxChange` changes, and `identity`, whose failed logins may all lie
within the window.

**Symmetry** is used in runs without liveness properties only, on requests and
on identifiers that no definition orders or names.

**Fairness.**

- `Membership!FairSpec`: strong fairness of `Serve(r)`. A handler's promise
  that has settled is resumed by the event loop, and PostgreSQL grants a row
  lock to its waiters in the order in which they came, so a request that can
  take its next step again and again does. `Arrive`, `Timeout`, `Expire` and
  `Crash` are not fair: nobody has to call, to be slow or to fail.
- `Outbox!FairSpec`: weak fairness of `Boot(i)` (a starting process runs), and
  strong fairness of `Dispatch(i, m)`, for the same reason as above; also of a
  send that fails. Whether a send succeeds, whether anybody enqueues and
  whether a process stops is left open. `calm` marks the moment from which on
  no transaction and no process is lost; it is never forced to come. The
  liveness properties only speak of what happens after it, and `SweepsSettle`
  of executions in which sweeps complete again and again, since the code sweeps
  at startup only.

**Every property has a mutant**: a plausible bug in a definition of the model
(a dropped lock, a missing index, a wrong order, a forgotten reset) under which
TLC finds the property violated with the same configuration. They are listed in
`PROJECT.json`, so that none of these properties holds merely by the shape of
the model.

## What is proved

Proofs are checked by TLAPS for every value of the constants: any number of
members, proposals, requests, Organizations, connections, mails, processes,
tokens, sessions, failures, tabs, flows of a page. Crashes, timeouts and every endpoint are included.

They assume what the modules assume of their constants: that identifiers of
different kinds differ (`RowsAreDistinct`, `CapabilitiesAreNoGrants`), that
`NoOne` and `Nothing` are no identifiers (`NoOneIsNoRow`, `NothingIsNothing`,
`NothingIsNoTarget`), that a new Organization's commercial status is one
(`DemoIsCommercial`), that permissions are offered of what there is
(`OfferedIsWanted`), that known identities have addresses (`KnownAreEmails`),
that mails are numbered in the order of their creation (`MailIsOrdered`), and
that the bounds on the instance are of their type. `ServicesConstants` collects
those of the parts of `Services`, `PagesConstants` those of the pages: among
them that of any Organizations listed one is first (`OrgsAreOrdered`), and that a
members page opens on members of whom one owns the Organization
(`OpeningsAreOwned`). Five theorems have a hypothesis besides, named where they
are described: `AnAdministratorRemains`, `BelongingIsUnique`, `TokensBounded`,
and, because they count failures, `BackoffIsKept` and `TypesCorrect`.

An invariant that a run checks is rarely inductive. Each component has an
`IInv` that is (`StructureInv`, `ClientInv` and others in `ServicesProofs` and
`PagesProofs`), one lemma per kind of step, and one theorem per property. The heart of all is the same: a
predicate `Knows(r)` (`Holds`, `Checked`, `Progress`) that says, for each
statement of each handler, which of the things it read earlier are still true,
and either a lock or the shape of the data is the reason.

### `MembershipProofs`

| Theorem | Says |
|---|---|
| `TypeCorrect` | `Spec => []TypeOK` |
| `OneActiveOwner` | an Organization always has exactly one owner, who is ACTIVE |
| `OnePendingTransfer` | at most one transfer is open |
| `Consent` | ownership arrives only at an active Administrator, from the owner who offered it to that member, in the step that marks the offer ACCEPTED |
| `Refinement` | `Membership` implements `Ownership` |
| `AnAdministratorRemains` | `AtLeastOneActiveAdministrator` in behaviours with `[][~OwnerJoins]_vars`: the owner accepts no collaborator invitation of the own Organization |
| `StaleSessionsAreOwed` | `StaleSessionIsOwed`: a session that outlives a change is about to be revoked, until that revocation fails or a crash forgets it |

`ExactlyOneActiveOwner` is not inductive: a suspension between its check and
its write would break it if the row could change in between. The inductive
invariant is

    IInv == Typed /\ ExactlyOneActiveOwner /\ AtMostOnePending
              /\ LocksExclusive /\ Holds

`LocksExclusive` says that a row is locked by one transaction. `Holds` says,
for each statement of each handler, what the locks taken so far keep true: a
suspension that got past its check holds its target, who is not the owner; a
cancel that writes holds a proposal that is still open and the caller's; an
acceptance holds the proposal, then the proposer, then the successor, and
before its write the one owns and the other is an active Administrator. The
proof then has one lemma per kind of step (`RefuseKeeps`, `LockKeeps`,
`TransitionCommitKeeps`, `AcceptCommitKeeps`, ...), and `StepKeeps` combines
them. That `promote`, which locks nothing, does no harm is part of it: it
writes the profile alone.

`Consent` and `Refinement` follow from `IInv` before and after a step. The
interesting case of the refinement is `cancel`: its right to cancel was read by
the guard long before, and `CancelHolds` is why that is enough: a proposal is
open for its proposer only as long as he owns the Organization.

`AnAdministratorRemains` shows what protects the last Administrator: not the
count that suspend and remove make, which locks nothing and may be stale, but
that the owner is an Administrator (`OwnerAdministers`) whom neither of them
touches. Joins of everybody else are included. The run `members_demoted_owner`
shows that the hypothesis is needed: the owner need not leave and be invited
again, accepting an invitation is enough.

`StaleSessionsAreOwed` needs no hypothesis, since a revocation that throws
(`RevokeFails`) or that a crash forgets leaves the session as `LEFT`. What it
says is that nothing else loses a revocation: not a second change of the same
member, not its timeout, not a refusal that comes after the first commit.

### `OutboxProofs`

`TypeCorrect`, `SecretWhilePending` (`TokenWhilePending`), `SentTwiceRightly`
(`SentTwiceForAReason`) and `SettledRightly` (`SettledForAReason`), from an
`IInv` of these parts:

- `OneHolder`: a row is held by at most one process, and while it is PENDING.
  It keeps the others: whoever records an outcome still holds the mail, which is
  what the `FOR UPDATE` of `dispatchOne` is for. It is not that one process
  calls the provider at a time: an orphaned call holds nothing.
- `OutcomesKnown`, the strengthening of `SentTwiceForAReason`: a mail of which no
  outcome was missed was not taken, or was taken once and is SENT or about to
  be. Who can begin to send it therefore finds one that was not taken.
- `RecordsWhatWasTaken`: who is about to record a success has seen the provider
  take the mail. `AttemptLeft`: a mail that is PENDING has an attempt left.
- `OneAtATime`: a process that sweeps has one mail in hand, so that the process
  which a throwing dispatch ends has no other whose outcome it would miss.

### `PermissionsProofs`

`TypeCorrect`, `FoundIsReplaced` (`ReplacesWhatItFound`), `AcceptedIsReplaced`
(`AcceptanceReplaces`) and `StaleSessionsAreOwed`. An update locks nothing
before its first DELETE, so `Knows(r)` is about the order of the statements:
of what the request found when it was submitted it has deleted, or nobody has
left, all that is in a table whose DELETE is behind it (`Replaces`); what it
inserts bears a number that no row bears before (`Numbered`); deactivations only
take targets away, so that what the filter has left is all that is live at the
commit and nothing that was dead at the start (`Filters`). `Apart` says of two
requests that their numbers differ and that only one of them accepts.
`StaleSessionsAreOwed` includes revocations that fail (`LEFT`), as in
`Membership`.

### `OrganizationsProofs`, `InvitationsProofs`, `SessionsProofs`

Each proves its component's `IInv` (`InductiveInvariant`), which contains
`TypeOK`, `LocksExclusive` and `Knows(r)`; the properties are then carried over
to `Services`, where the runs check them, by `ServicesProofs`.

| Theorem | Property | Why it holds |
|---|---|---|
| `OwnedExactlyOnceActive` | `OwnedOnceActive` | only three steps bring an Organization its row or its owner, and each brings what the other demands; a creation between its two transactions counts (`Waits`), or is among the `lost`. An owner stays an active member, since nobody suspends the owner (`MembersMove`) |
| `LifecycleHolds` | `LifecycleIsFollowed` | `RowIsHeld`: the row a transition has locked keeps the status it found; an acceptance writes the status of an Organization that is PROVISIONING only |
| `StaleSessionsAreOwed` | `StaleSessionIsOwed` | `DebtIsKept`: the commit of a transition makes the sessions of active members stale, and the list it reads then is of active members. Who is no longer one was suspended meanwhile, by a request that owes the same revocation (`ActiveOrOwed`); who logs in again opens no session that was to end; a failure gives up just what it fails to do |
| `OnePending` | `OnePendingPerEmail` | the partial unique index is a guard of the INSERT, and nothing else makes a row PENDING; `DraftIsNew` says that the row is new |
| `JoiningNeedsInvitation` | `JoinNeedsOpenInvitation` | `RowIsHeld`: from its lock to its commit an acceptance has the invitation as it read it, which no other can spend |
| `BelongingIsUnique` | if `Known = {}`, `OneOrganization` | `NewcomersInv`: an identity that came by an invitation or registered belongs somewhere from the start, so the read of its memberships always finds one |
| `TokenSpentOnce` | `PasswordChangeSpendsToken` | `LocksAreOpen`: the token a completion has locked stays open until its commit |
| `ResetEndsSessions` | `ResetEndsEarlierSessions` | `EarlierAreSeen`: a session that was live at the start is ended, or among those the completion has seen and is going to revoke |
| `TokensBounded` | if `IsFiniteSet(Worker)`, `OpenTokensBounded` | `RoomLeft`: open tokens and requests that found none and are about to insert one are together no more than there are requests |

`NewcomersBelongOnce` in `InvitationsProofs` needs no hypothesis: next to
identities that are known beforehand, and that two Organizations may both get
(`invitations_known`), everyone else still belongs to one. Without finitely many
requests, `OpenTokensBounded` compares with the cardinality of an infinite set,
of which nothing is defined.

### `ServicesProofs`

`FocusStays` and one lemma per part (`OrganizationsRun`, ...) say that a
behaviour of `Services` with that part in focus is a behaviour of the part. The
lemmas `SameOrganizations`, `SameInvitations` and `SameSessions` say that the
definitions a part has through `Services` are those its proofs are about; they
expand everything, for the prover knows instances by name alone. With them the
nine theorems above follow, under `ServicesConstants`.

The other four parts are proved here directly.

`TenantContext`:

- `SettingsInvariant` (`SettingsAreOwn`), from `ContextInv`, which is
  `Ctx!TypeOK /\ Ctx!SettingsAreOwn`: a connection carries settings only while
  a transaction runs on it, and then those of that transaction's context, plus
  the Organization it scoped itself to.
- `Isolation` (`TenantIsolation`), from the same: under such settings the
  policies, whose conditions are definitions of the module, confine whatever
  statement is run, not only those the services contain. Alone it is not
  inductive: it says nothing of an idle connection that would hand the settings
  it kept to its next transaction.
- `NoFlowIsRefused` (`FlowsArePermitted`), the other direction: no statement of a
  flow is refused by the policies. `ScopedInTime` is its invariant: past the
  statement in which a registration or an acceptance scopes itself, its
  connection is scoped to the Organization it is about.

`Structure`:

- `WritesWithinGrants` (`UserWritesWithinGrants`), from `StructureInv`: rows are
  never deleted and a Business Scope never changes its Company (`RowsStay`), so
  the grant that the check found still permits the write, although the check
  locks nothing (`Checked`).

`CsrfClient`:

- `RetryIsTransparent` (`EffectOnce`) and `TokenHeals` (`StaleTokenHeals`), from
  `ClientInv`: at each place of a call, `Fits` says how many effects it has had
  and which answers it can have got, whatever the browser does meanwhile, and
  `Fresh` what a call and its retry carry while its session does not change:
  after a refused token the one fetched next is the present session's.

`Throttle`:

- `BackoffIsKept` (`BackoffHolds`), for finite sets of failures and requests,
  from `ThrottleInv`. How many failures are too early is not inductive: a login
  that counted long ago and sleeps a short delay adds one later. `Bounded`
  therefore counts with them the logins under way that may still become one
  (`Hasty`), for each account, each source and each n. A login becomes hasty
  when it counts fewer than n failures, of which there are then at most n - 1, so
  that the sum is at most n - 1 and the number of requests. Counting
  n or more, it gets a delay that is long enough, because the powers of 2 grow. That they do for every
  n (`PowersDouble`) is induction, which the library's theorems on natural
  numbers do not give the installed provers; but that every nonempty set of
  numbers has a least one (`LeastNumber`, from `WFMin`) takes no operator, and
  with it a table of the powers up to n exists for every n (`PowersExist`), any
  two agree (`PowersAgree`), and together they are the recursive function.

`TypesCorrect` (`PartsTyped`) combines the types of all seven.

### `PagesProofs`

| Theorem | Property | Why it holds |
|---|---|---|
| `WorkIsShown` | `OwnWorkIsShown` | `RequestsInv`, below |
| `RightsStayWithTheirMember` | `RightsBelongToTheirMember` | `MembersInv`: the rights of a member were given to that member, and so were all that may yet become those: in the list shown, in the lists read and not shown, in the editor, in a save under way. The editor is one for all rows: it takes the member and the rights together |
| `EntryJoinsAsInvited` | `JoinsAsInvited` | `EntryInv`: only the invited person belongs to the inviting Organization; an acceptance after a login runs in the session that login got, unless the browser's session changed during the call (`missed`), and who comes home by it finds it `Settled` |
| `PageTypesCorrect` | `TypesOK` | the same invariants |

The three pages that list something make requests alike, and `RequestsInv` is
stated for them once: whatever the page has changed and does not show yet is on
its way (`ShownOrPending`: some flow `Carries` it, as the change whose answer is
to come or as a list that will have it), unless a failed or overtaken list
excuses it. `OwnWorkIsShown` is the case in which no flow is under way. Each step
of `PageRequests` has a lemma (`AskStep`, `TellStep`, `ChangeStep`, `ShowStep`,
...), which the handlers of the three pages use, and which needs of each page
that its handlers go on as its calls say they will: `DirectoryInv`,
`CompaniesInv` and `MembersInv` say of each call under way what it lists, what it
touches and what its answer is. On the Companies page this includes that Business
Scopes kept for a Company are that Company's, and that the wizard is shown just
while its Company's row is.

## Divergences

Five runs end in a violation. They are statements of the repository that the
code does not keep.

- **An owner who accepts a collaborator invitation is demoted**
  (`members_demoted_owner`). `acceptCore` overwrites an existing membership of
  the same Organization with the invitation's profile (`IS` 407) whatever that
  member is, and keeps `is_owner`.
  `apps/api/test/integration/last-administrator-invariant.test.ts:9-11`: "An
  active Organization has exactly one active owner and at least one active
  Administrator" (SEC-08). Without such an acceptance
  by the owner, whatever others accept, `AnAdministratorRemains` proves it.
- **An active Business Scope in an inactive Company** (`structure_skew`).
  `companies.service.ts:137` and the creation of a Business Scope each read the
  other's row without a lock.
  `apps/api/test/integration/companies-and-scopes.test.ts:77`: "a Company with
  an active Business Scope cannot be deactivated by cascade".
- **One identity in two Organizations** (`invitations_known`). An identity that
  is known and belongs nowhere (a Platform Administrator, for instance) accepts
  two Organizations' invitations at once: `IS` 402 reads memberships without a
  lock, and no index on `memberships` spans Organizations.
  `packages/db/prisma/schema.prisma:8-10`: "a customer identity is linked to at
  most one Organization through Membership (SEC-13), enforced at the application
  layer plus a partial unique index". In `tenants`, where `Known` is empty,
  `OneOrganization` holds, because the unique index on e-mail addresses decides
  between two new identities; `BelongingIsUnique` proves it for any number.
- **Access to a disabled Organization** (`organizations_disabled`). Disabling
  revokes the sessions there are. Login (`auth.service.ts:39-63`) and
  `org-member.guard.ts:30` never look at the Organization's access status, so
  that a member logs in again.
  `apps/web/src/app/platform-admin/OrganizationDetailPanel.tsx:162`: "This
  permanently ends access for every member and cannot be reversed in this
  product."
- **A selection that is not in the results** (`directory_selection`). `refresh`
  compares the list with the `selectedId` of the render it was called in
  (`platform-admin/page.tsx:37`); another flow may have selected meanwhile.
  The comment in 34-36: "Keep the current selection only if it's still in the
  (possibly filtered) results; otherwise fall back to the first row so the
  detail panel never silently shows a stale, out-of-view Organization."

Others were met while the modules were written. The models contain the
behaviour, unless said otherwise, and have no run of their own for it.

- A **former owner** whom the guard still saw as owner proposes a transfer
  after a hand-over (`MS` 309); nobody can accept it while another owns the
  Organization, and it holds the place of the open one.
  `packages/db/prisma/schema.prisma:367`: "The current owner proposes transfer".
- **Resend** after the open invitation was accepted or revoked in between
  inserts a new one, and says so nowhere (`IS` 207).
  Migration `20260815210000_rls_and_hardening`, 79-81: "resend must transition
  the old row instead of inserting a second one". There are never two open ones.
- A mail whose **first dispatch failed** waits for a restart: `main.ts:29` is
  the only caller of the sweep. `IS` 259-261: "a later dispatchAllPending()
  sweep retries it".
- A mail can be **sent twice**, at once even: it goes out inside a transaction
  (`email-dispatcher.service.ts:63`). When its time runs out during the call, the
  row is free and PENDING again, and another process sends it while the first
  call goes on; when it is lost after the call, or the answer was an error of a
  provider that had taken the mail, the next dispatch sends it again.
  `gmail-email.adapter.ts:56-59`: "the outbox row's own PENDING/SENT/FAILED
  state [...] is what actually prevents a double-send on retry".
  `SentTwiceForAReason` says how far that goes: it takes an outcome that was
  missed. In `Outbox`: `delivery[m].taken = 2`.
- **Two reset tokens** can be open: two requests do not see each other's
  (`password-reset.service.ts:30`; its comment in 29: "Invalidate any
  still-pending prior reset tokens for this identity"). `OpenTokensBounded`
  says how many there can be.
- A **login that verified the old password** before a reset committed opens its
  session after it, which lives on (`auth.service.ts:61`). `README.md:144-145`:
  "a completed password reset revokes every session for that identity". In
  `Sessions`: a live session `s` with `session[s].knew # password`.
- A **revocation overwrites an acceptance** that committed after it had read
  the invitation: the row says REVOKED, the member is in (`IS` 152).
  `collaborator-invitations.test.ts:132`: "revoke prevents acceptance". In
  `Invitations`: status REVOKED with `acceptedBy` set.
- A **revocation after the suspension of an Organization** that fails, or a
  process that stops before it, leaves sessions open, and a second suspension is
  refused (`organizations.service.ts:160`). Its comment, 158-159:
  "suspend/disable ends every open session belonging to this Organization's
  members right away". In `Organizations`: a session that is `LEFT`; up to such
  a failure `StaleSessionIsOwed` says that it is about to end.
- The same comment says every session of its members, the query
  (`organizations.service.ts:162`) asks for those whose membership is **ACTIVE**:
  a suspended member who has logged in again, or whose own revocation failed,
  keeps the session when the Organization is suspended. In `Organizations`: an
  `INACTIVE` member with an `OPEN` or `LEFT` session, whom `ListMembers` passes
  over. `org-member.guard.ts` keeps such a member out until it is reactivated.
- The same **after a change of a member** (`MS` 241-245, 282, 123-126): a
  revocation that throws leaves the change committed and the sessions open.
  `MS` 123: "permission reduction immediately invalidates stale access". In
  `Membership` and `Permissions`: `LEFT`.
- A **creation whose invitation failed** is not resumed by anything
  (`organizations.service.ts:64`). `SUBMISSION.md:176-178`: "a failure partway
  through leaves a valid, resumable intermediate state".
- **Grants ascend for visibility**: a grant on a Business Scope makes its
  Company visible (`effective-access.service.ts:27`). `SUBMISSION.md:148-149`:
  "Scope-level grants never ascend to the parent Company". For writes they do
  not (`UserWritesWithinGrants`).
- A grant of a Company **and** a Business Scope is applied whole while either is
  live (`IS` 289). `IS` 430-434: "never resurrects removed or inactive grants".
  `AcceptanceReplaces` is stated for what the code does, a grant counts as live
  while either target is, and `permissions_race` reaches all three cases.
- **Self-registration** runs with `isPlatformAdmin` although no Platform
  Administrator acts (`registration.service.ts:60-68` explains it).
  `tenant-context.ts:12`: "True only for an authenticated, currently-valid
  Platform Administrator".
- The lookup of **an authenticated member's Organization** and the dispatcher
  run with `isSystem` (`my-organization.controller.ts:20`).
  `tenant-context.ts:14-16`: "True only for trusted, unauthenticated system
  flows".

- **Sign out does nothing** when the session is revoked or expired:
  `AccessUnavailable.tsx` leaves the page only once `logout()` has succeeded,
  and that answers 401. Its comment (11-13) names "a stale/expired session" among
  the reasons it is shown for. In `EntryPages`: `SignedOut` without an answer.

Worth knowing, though no document says otherwise:

- A request that `apiFetch` retries runs in whichever session the browser's
  cookie has by then (`identity`; `StaleTokenHeals` excludes only its failure).
- A Platform Administrator whose login is older than the API allows for
  sensitive actions (`recent-auth.guard.ts`) is told by the panel to retry, which
  cannot succeed before another login. In `DirectoryPage` it is one reason for
  `Refuse` among others.
- The panel of the directory keeps its open dialog and the reason entered when
  another row is selected; confirming then acts on the other Organization, which
  the dialog names.
- The duplicate notice of the wizard (`companies/page.tsx:192`) may be about a
  name entered earlier, and a creation that is answered late closes the wizard
  that is open by then, whichever Company it is for (352).
- Of two lists answered out of order the older one stays on the page until the
  next; `OwnWorkIsShown` excludes that by `excused`.

## What is not modelled, and what only TLC says

Not modelled:

- Evidence: appended in the transaction of the change it describes and read by
  nothing, so it commits and rolls back with a step that is modelled.
- Presentation (markup, icons, the static mock page), templates, configuration,
  correlation ids, error filter: no state that anything else reads.
- E-mail adapters: external; `Outbox` has them as an environment.
- Password policy, hashing and encryption: pure functions and libraries.
- Schemas: the models enumerate what they let pass.
- Bootstrap and seed scripts, test support: not run while the service serves.

Model-checked only, on the instances above:

- Liveness (`RequestsAreAnswered`, `StartsUp`, `SweepsSettle`): TLAPS does not
  reason about ENABLED, on which fairness rests.
- `AtLeastOneActiveAdministrator` with joins, `OneOrganization` with identities
  that are known beforehand: violated, see above.

## Plan

Order of the work, the most important behaviour first. Done: 1 to 13.

1. `Membership` with its abstract `Ownership`; `MembershipProofs`.
2. `Invitations`.
3. `Outbox`.
4. `Sessions`.
5. `Organizations`, with self-registration.
6. `EffectiveAccess`, `Structure`.
7. `Permissions`.
8. `TenantContext`.
9. `CsrfClient`.
10. `Throttle`.
11. The web application: `PageRequests` with `DirectoryPage`, `CompaniesPage`
    and `MembersPage`; `EntryPages`.
12. Proofs about every service; `Services`, which carries them to the runs.
13. Proofs about the pages; `Pages`, which puts them side by side.
14. An abstract `Admission` (an address is invited, joins once, by its latest
    invitation) that `Invitations` implements, as `Ownership` is for
    `Membership`; an abstract mailbox (accepted, then settled) for `Outbox`.
15. A composition of `Membership` and `Invitations` over the same membership
    rows, which today have each other's effect as one action.
