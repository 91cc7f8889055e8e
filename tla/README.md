# Orgistry in TLA+

Orgistry is a multi-tenant backend: a Fastify API over PostgreSQL (through
Drizzle), Redis for rate limits, a demo web client, and the scripts that release,
deploy, back up and restore it. What is hard in it is not on any single code
path. Its promises (an organization always has an Owner, a refresh token has one
successor, a superseded link creates nothing, seats stay within the plan, a
rollback does not return to the release it escapes from) are kept by row locks,
advisory locks, partial unique indexes and the order of statements and calls,
while several requests or commands run at once and any of them may die half way.
This directory models those protocols statement by statement and call by call,
checks them with TLC, and proves with TLAPS, for any number of rows, requests and
runs, every safety property that TLC checks on a small instance.

Paths below are relative to `src/apps/api/src/modules/` unless they say otherwise.

## The system

| component | state | operations | what is hard | modules |
|---|---|---|---|---|
| member administration (`organization/organization.repo.ts`, `member.service.ts`, `owner-transition.ts`) | `memberships` | change a role, remove a member | the Last Owner rule under concurrency; authority lost while waiting; ordered and unordered row locks | MemberAdmin, OwnershipPolicy |
| provisioning (`organization/organization.provisioning.ts`) | `organizations`, `memberships`, `organization_plans` | create a team or a personal organization | a slug is found free, and inserted later; all or nothing | Provisioning |
| sessions (`auth/auth.service.ts`, `auth.repo.ts`) | `sessions`, `refresh_tokens`, `users.password_hash` | login, authenticate, refresh, logout, revoke a session, change password or email | reuse detection; statements in autocommit; a user and a session read apart | RefreshTokens, Access, Credentials |
| password recovery (`auth/password-recovery.*`) | `password_reset_tokens` | request, complete | single use, racing logins, lock order | Credentials, AccountRequests |
| email verification (`auth/email-verification.*`) | `email_verification_tokens`, `users.email_verified_at` | issue, complete | mail before storage, issue without a user lock | EmailVerification, AccountRequests |
| registration (`auth/registration.*`) | `pending_registrations`, `users` | request, complete | advisory lock per address, superseded generations, savepoint around the invitation | Registration, Accounts, AccountRequests |
| invitations (`invitations/*`) | `invitations`, `memberships` | create, accept, revoke, list | seats, expiry by several clocks, one pending row per email | Invitations |
| plans, projects, API keys (`entitlements/*`, `projects/*`, `api-keys/*`) | `organization_plans`, `projects`, `api_keys` | change plan; create, update, delete; create, revoke, authenticate | count-then-insert races, downgrade during a creation; an authenticator that reads in several steps | Resources, QuotaPolicy, ApiKeyAuth |
| lists (all repositories) | none | pages by keyset cursor | rows that share a millisecond, or commit out of order | Pagination |
| rate limits (`../lib/rate-limit.ts`) | Redis counters | consume | INCR and EXPIRE are two commands; fail open or closed | RateLimiter |
| access tokens (`src/packages/auth-core`) and configuration (`src/packages/config`) | secrets, environment, `Config` | start, sign, verify; rotate | two secrets over restarts; files read one after the other; policies that must see what was resolved | KeyRotation, Configuration |
| API process (`../server.ts`, `../lib/readiness.ts`) | connections, timer | probe, shut down | a close that hangs, a second signal | Lifecycle |
| retention (`../maintenance/*`) | expired rows | batched deletes | next to live traffic, foreign keys between the swept tables | Retention |
| web client (`src/apps/web-demo/src`) | access token in memory, refreshes in flight, emailed link | request, silent refresh, restore, login, logout; submit a link | two refreshes with one cookie; answers out of order; an effect that runs again | WebClient, EmailedLinks |
| release and deployment (`src/tooling`) | workflow runs, manifest, containers, schema, evidence ledger | verify gates, generate a manifest, deploy, roll back | runs that change under the poll; failures between migration, containers and record | Release, Deployment |
| backup and recovery (`src/tooling`) | spool, off-host store, catalog, drill containers | back up, ship WAL, judge, prune, drill, rehearse | kills between two calls, overlapping commands, success reported on what another run left | Backup, WalArchive, WalSetup, RestoreDrill, RestoreRehearsal, PointInTime |

How they interact: every route resolves the bearer token to a live session and,
for an organization, to an active membership (`organization/access-control.ts`),
then checks the permission, consumes a rate limit, and only then calls a
repository, which opens a transaction. So authorization is always older than the
transaction it authorizes. Invitations insert the memberships member
administration works on; creation and acceptance share the member quota with
plan changes; a password reset and a password change revoke sessions that
refreshes and logins create; the completion of a registration accepts an
invitation inside its own transaction and provisions a workspace; the retention
sweep deletes what sessions leave behind. All of them share PostgreSQL and, for
limits, Redis: no state of an API process matters but its `Config`, so several
processes behave as several requests of one, except while a secret is rotated.
The web client meets the API only through answers that may be late or lost. The
operator's scripts share nothing but the database, the spool, the store and the
files they leave behind.

What makes each component correct, in the names used below: `LastOwner`,
`OwnerAuthority`, `DecisionIsNotStale`, `ImplementsPolicy` (members); `NoFork`,
`LateTokensAreBarren`, `ReuseEndsLogin` (rotation); `OneOpenReset`,
`RetiredTokenIsDead`, `ResetLeavesNoSession`, `ChangeEndsWhatItFound`
(credentials); `AccountWritesRetireAll`, `NobodyIsStranded` (verification);
`MailedWasStaged`, `NewestLinkWins`, `JoinIsHonored`, `ImplementsAccounts`
(registration); `SeatsWithinPlan`, `ReservationWithinPlan`,
`JoinConsumesInvitation`, `NoWaitCycle` (invitations); and, each a conjunction
over the modules named in the table of runs, `AccessIsSound`, `LimitsHold`,
`AccountsStayHidden`, `ConfigurationIsSafe`, `OrganizationsAreSound`,
`WalkIsSound`, `SweepsAreExact`, `WebIsSteady`, `ShutdownIsOrderly`,
`ReportsAreTrue`, `BackupsAreWhole`, `WalIsRecoverable`, `LiveComesBack`,
`SchemaCoversCode`, `RollbackNeverReturns`. `PROJECT.json` lists the hazards of
the code by line, with the properties that would catch each going wrong.

## How PostgreSQL is modelled

All transactions run at READ COMMITTED. The modules share these rules.

- A transaction is a sequence of actions, one per statement that can wait or
  whose result is used later; its writes become visible together in the action
  that commits, and that action releases its locks. A statement outside a
  transaction is one action.
- `SELECT ... FOR UPDATE` and `UPDATE ... WHERE` take their rows from the
  snapshot at their start, wait for each row that is locked, and evaluate WHERE
  again on the version they find. Rows inserted meanwhile escape them. Where
  this matters the snapshot and the lock are two actions (`SelectOwners` and
  `LockOwner`; `SelectTokens` and `UpdateTokens`).
- Inserting a row with a foreign key takes FOR KEY SHARE on the referenced row:
  it waits for FOR UPDATE, not for the FOR NO KEY UPDATE of an UPDATE that
  leaves the key alone (`Credentials!InsertSession`), and fails when the row is
  gone (`Retention!RecordEvent`). An UPDATE that changes a column with a unique
  index locks as FOR UPDATE does; a change of email does
  (`uq_users_normalized_email`), a change of password does not.
- An insert into a unique index waits for the transaction that inserted the same
  key before it, and fails or goes on with its outcome
  (`Provisioning!InsertOrganization`, `Registration!InsertUser`).
- A request may die at any step (`Abort`, `Fail`): its transaction rolls back,
  what it committed before stays.
- PostgreSQL aborts one transaction of a cycle of waits (`DeadlockVictim`); the
  cycle is computed from what each transaction waits for.

Definitions that model PostgreSQL, Redis, a browser, Docker, GitHub, an object
store, an operator, the clock or the death of a process are marked external in
the map.

## Modules of the API

**MemberAdmin** (with **OwnershipPolicy**). `Authorize` and `Throttle` are what
`member.service.ts` does before the transaction; `SelectOwners`/`LockOwner` are
`lockActiveOwners`, in id order; `LockTarget` the read of the target by id only,
whatever its organization; `ChangeRole`, `Remove`, `Refuse`, `TargetUnknown` the
decision. `owners` is the code's `activeOwnerIds`. The roles member and viewer
are one, because nothing here tells them apart. OwnershipPolicy is what the
code promises: role changes and removals as single atomic steps, allowed only
to an active Owner when they touch one and only when another Owner remains.
MemberAdmin implements it with the identity mapping on the rows.

**Provisioning**. Requests for organizations with a slug of the caller's or one
derived from the name: `CheckExplicit` or `Walk` (the search of
`resolveUniqueSlug`, one lookup at a time), then the three inserts of
`insertOrganizationWithOwnerMembership` and the commit, cut off anywhere
(`Fail`, `Lose`). A slug is a sequence: a base, a number or a random token.
`answer` is what the caller was told.

**RefreshTokens**. One row per session and per token. `InsertSession` and
`InsertFirstToken` are the two statements of `issueSession`. A refresh is
`Refresh` (which reads the clock), `LockToken`, one of `ReadSession`,
`DetectReuse`, `RefuseExpired`, then `Rotate`, or the reuse response
`SelectTokens`, `UpdateTokens`, `RevokeSessionRow`. Logout and revokeSession run
the same statements session first. `late` and `answered` are history variables:
tokens minted after their session was revoked, and sessions whose reuse was
answered to the end.

**Access**. What stands around rotation: login with its limits, the boundary
that every bearer crosses (`Verify`, `ReadUser`, `ReadSession`), the list of
sessions, revocation and logout, with the event each writes, while accounts are
disabled and enabled and sessions run out. `seen` records what was true at some
moment since the request arrived.

**Credentials**. One account. Login and change of password each read a hash,
verify it (Argon2 runs outside every transaction) and write; issue and
completion of a reset lock as the repository does. A password is the number of
the change that set it, so `proof` says which password opened a session.
`witnessed`, `completed` and `lastReset` are history variables. Refresh tokens
are left to RefreshTokens: the same UPDATEs revoke them with their sessions.

**EmailVerification**. One account, registered and verified at the start. An
issue is `RequestEmail` (the row is re-read), `Deliver`, and the transaction
`ScanTokens`, `RetireToken` for each row, `InsertToken`, in the order of
`issueAndSendVerificationEmail`: the mail first. A token that was mailed and not
stored is a link that answers `not_found`. A completion is `PresentToken`,
`LockToken` or `RefuseToken`, `LockUserRow`, the same UPDATE of the siblings, and
`CommitVerification`. A change of address is `RequestChange`, `LockUserRow`, the
UPDATE, `CommitChange`, and goes on as an issue to the new address. `proven` and
`completed` are history variables.

**Registration** (with **Accounts**). A generation is a row of
`pending_registrations` and the token mailed for it. A request looks up the
address, takes the advisory lock, retires the open generations, stages its own,
commits and mails; a completion reads its generation, locks it, inserts the
user, settles the invitation in a savepoint and retires the siblings. Changes of
address, revocation of the invitation and the filling of its organization race
it. Accounts is what all this promises about addresses: an account is opened
once, on a free address, and only ever moves to a free one.

**AccountRequests**. The five public endpoints as a caller and the audit log see
them: limits, lookups, storage, mail and event log are calls that may fail, in
the order of the services, with the answer each failure leads to. What the
transactions do is in the modules above.

**Invitations**. One organization, users named by normalized email. `Begin`
reads the clock, then come `LockSeats` (advisory lock), `LockPlan` (FOR SHARE),
`LockInvitation`, `CountSeats` and the write. `AuthorizeCreate` stands for all
that `createInvitation` does before its transaction, the email included; the
friendly checks it makes there are repeated, or not, in the transaction exactly
as in the code. `ChangePlan` and `RemoveMember` are the other components.
`grantor` is a history variable.

**Resources** (with **QuotaPolicy**). Projects and API keys of one organization:
creation under the advisory lock of its kind with the plan row FOR SHARE, change
of plan with it FOR UPDATE, rename, deletion and revocation under the row lock,
keys that expire. QuotaPolicy states what a plan promises as atomic steps;
Resources implements it with the active rows of each kind.

**ApiKeyAuth**. The external authenticator, one statement or consume at a time,
while the key is revoked or expires and plan and organization change; a refusal
consumes the allowance for durable events of its source.

**RateLimiter**. `Incr` and `Expire` as two commands, either of which may fail;
`Proceeds` is the failure mode of the bucket. **Pagination**: the seven keyset
lists walked from first page to last, with `created_at` in microseconds and the
cursor in milliseconds. **Retention**: dry run and sweep of events, tokens and
sessions in batches, with a snapshot and a delete apart, while rows are inserted.
**Lifecycle**: requests and probes in flight, signals, the close of server and
clients, the timer.

**KeyRotation**. The operator follows `docs/rotation-runbook.md`; processes
start, stop, sign and verify with what they loaded. **Configuration**: the
environment of a container, its secret files read one name at a time
(`ReadSecret`), the schema with its policies, and `Load`, after which the process
runs on its `Config` or ends. A secret text stands for every text of its length
that the policies treat alike.

## Modules of the web client

**WebClient**. Tabs with the access token in memory, the cookie they share,
restore at boot, silent refresh with one retry, login and logout. A refresh is
sent, handled and delivered in three steps, and its answer may be lost. The
server is what RefreshTokens promises, seen from outside. **EmailedLinks**: the
four pages a mailed link opens. Each captures the token once, scrubs the address
bar and submits it, beside the restore and the organization list; an effect that
runs again makes the page look away from the answer of the request before.

## Modules of the operator's programs

**Release**: `release-gates.mjs` polling workflow runs one request at a time
while they start, finish and are run again; `release-manifest.mjs` embedding an
evidence file. **Deployment**: `deploy.sh` and `deploy-rollback.sh`, from the
preflights to the record, interrupted anywhere, with the ledger a later rollback
resolves its target from. **Backup**: a dump and a base backup stored as
artifact and metadata, WAL moved off-host, and prune. **WalArchive**: the
archive command as `test`, `cp` and `chmod`, ship-wal beside it, and the verdict
of wal-health. **WalSetup**: `pg-enable-wal-archiving.sh` against a running
server that goes on with the settings it has loaded. **RestoreDrill**,
**RestoreRehearsal**, **PointInTime**: the three exercises, each against what
killed or overlapping runs left on the host, damaged or misplaced objects, other
keys, and a live database that others write to.

Definitions named `Name_Variant` are mutants: plausible bugs used to show that
each property can fail; no specification uses them. **Services** puts the
thirteen modules of API and web client that share no state side by side,
**Operations** the eight of the operator's programs, and each names what its
modules assume of their constants (below, under Runs and Proofs). `MC_*` modules
give instances, `*_proofs` modules hold the theorems.

## Runs

| run | instance | checks |
|---|---|---|
| `member_safety` | 3 memberships of one organization, 2 requests | `LastOwner`, `DecisionIsNotStale`, `OwnerAuthority` |
| `member_tenants` | 3 memberships, ids of two organizations interleaved, 2 requests, fair | `ImplementsPolicy`, `TransactionsEnd` |
| `refresh_safety` | 1 session, 4 tokens, 2 requests, failures | `NoFork`, `LateTokensAreBarren` |
| `sign_in` | MC_SignIn, fair: Credentials with 2 sessions, 3 reset tokens, 2 password changes; RefreshTokens with 1 session, 2 tokens, no failures | `OneOpenReset`, `RetiredTokenIsDead`, `ResetLeavesNoSession`, `ChangeEndsWhatItFound`, `TransactionsEnd`; `ReuseEndsLogin` |
| `invitations` | founder and 2 emails, 2 rows, plans of 2 and 3 seats, lifetime 1, clock 0..2, 2 requests | `NoWaitCycle`, `SeatsWithinPlan`, `ReservationWithinPlan`, `JoinConsumesInvitation` |
| `verification` | 2 addresses, 3 mailed tokens, 2 requests, fair | `AccountWritesRetireAll`, `NobodyIsStranded`, `TransactionsEnd` |
| `registration` | 2 addresses, 2 generations, 2 requests, fair | `MailedWasStaged`, `NewestLinkWins`, `JoinIsHonored`, `ImplementsAccounts`, `TransactionsEnd` |
| `services` | MC_Services: Services with 14 instances of 13 modules | `AccessIsSound` (Access, ApiKeyAuth), `LimitsHold` (RateLimiter, AccountRequests), `AccountsStayHidden` (AccountRequests), `ConfigurationIsSafe` (Configuration, KeyRotation), `OrganizationsAreSound` (Resources, Provisioning), `WalkIsSound` (Pagination), `WebIsSteady` (WebClient, EmailedLinks), `ShutdownIsOrderly` (Lifecycle), `SweepsAreExact` (Retention) |
| `operations` | MC_Operations: Operations with 12 instances of 8 modules | `ReportsAreTrue` (Release, WalSetup, RestoreDrill, RestoreRehearsal, PointInTime), `SchemaCoversCode`, `RollbackNeverReturns` (Deployment), `BackupsAreWhole` (Backup), `WalIsRecoverable` (WalArchive), `LiveComesBack` (PointInTime) |
| `credentials_prior` | Credentials with 2 sessions and 2 reset tokens | `ResetEndsPriorAuthentication`: violated |
| `verification_proven` | EmailVerification with 2 tokens | `VerifiedAddressIsProven`: violated |
| `retention_alone` | MC_Services, Retention only | `SweepAloneSucceeds`: violated |

Services and Operations hold instances of components that share no state: a
behaviour belongs to one of them, chosen in its initial state. The variables are
those of all components; one name serves every component that has a variable of
that name, and a component leaves what it does not have at `None`. MC_SignIn
puts RefreshTokens beside Credentials, each with its own variables, and lets only
one of them move. Nothing of another component can help or hinder it, so each
instance is explored exactly as if it were alone, and a property of the whole is
`component = "..." => Instance!Property`, one conjunct for each. It
is a way to check, and to prove, many small components together, and no claim about
their interaction; where components do interact, the interaction is inside a module
(the savepoint of Registration, the plan changes of Invitations and Resources,
the sessions of Credentials, the traffic of Retention).

Bounds, and why they suffice. Two requests: every race named in the hazards is
between two of them; the theorems remove the bound. Three memberships: two
Owners that act on each other and a third member, so that a snapshot can lose
one Owner and gain another, and so that a row of the other organization can lie
between two of the first. Four tokens: a login, two rotations in sequence, and
one in flight behind them. Three reset tokens: one used, one retired, one open.
Two sessions and two password changes: a caller's session and another, a change
before or after a reset. Two invitation rows and three emails: two creations or
two acceptances compete for one seat, a lapsed row gives its slot to a new one.
The clock takes three readings with lifetime one, so an invitation is before, at
and past its deadline, and a transaction can hold a reading that is stale by one
or two. Plans of two and three seats make a downgrade land below, at and above
the seats taken. Three mailed tokens: two concurrent issues and the dead link of a
third, or two open tokens and their successor; two addresses, so that a change
can also go back. Two generations: the newest and the one it supersedes.
In MC_Services: quotas of one and two with three candidates, so that a place is
free, last or gone; three callers at a limit of two; three rows on two
milliseconds with pages of one, so that a page ends inside a millisecond; a key
that expires between two readings of the clock; one process and two rotations,
with tokens that outlive one of them; three organizations named alike over two
numbered candidates, so that the search falls through to the token; batches of
one row and two of them, so that a category is cut short by the cap; every edit
of up to two settings or files of a correct production environment. In
MC_Operations: three releases, of which the last migrates, and four records, so
that a rollback chooses among several; three runs of two workflows, one started
again; two segments over four units of time; three executions of the drill; two
recovery points; up to two overlapping rehearsals; two to three backups over four
days. The named bounds in the guards are `RoomForToken`, `RoomForSession`,
`RoomForChange`, `RowsLeft`, `Fresh` and the constants named `Max...`.

The type invariant of every module (`TypeOK`) was checked on the same instances;
the listed runs spend their time on what a type does not show. In the proofs it is
a theorem, or its part in an inductive invariant (Credentials: the variables that
are not numbers; ApiKeyAuth, Configuration and WalSetup: those the promises speak
of).

Deadlock is checked in the MemberAdmin runs. In the others the rows, the
password numbers, the records or the clock run out, so the bounded system really
stops; their configurations switch the check off, and waits are covered by
`TransactionsEnd` and `NoWaitCycle` instead. Symmetry is used only in runs
without liveness properties; membership ids are ordered and never permuted.

Fairness. A started handler goes on: Node runs its continuation and the pool
gives it its connection (weak fairness of the steps that never wait). Row locks
are queued first come, first served, so a step that can be taken again and again
is taken (strong fairness of the steps that wait). The deadlock detector runs.
Nothing is assumed of clients, clocks, operators or failures. `ReuseEndsLogin` is
checked without failures because the code makes the response in two separate
statements and does not resume it: cut off between them, the login lives on. The
end of a shutdown needs no fairness: it is stated as a bound on the clock, which
does not pass the timer.

Conditions some properties state: `RotationIsSilent` is about one API process;
`LiveComesBack` about a database that holds the project and a rehearsal whose own
statements were answered; `RollbackNeverReturns` about one operator and a
ledger that has kept up with what runs (`astray = {}`); `Backup` keeps WAL for at
least twice the time a command may take (`WalDays >= 2 * JobDays`); `HealthyIsRecoverable` about an archive command that
ends (`ArchiverHangs = FALSE`). What happens without each is in the lists below.

## What the violated properties show

- `ResetEndsPriorAuthentication`: the comment at
  `auth/password-recovery.repo.ts:126` says a reset invalidates all prior
  authentication. A login that verified the old password before the reset
  inserts its session after it. What does hold is `ResetLeavesNoSession`, at the
  instant of the commit.
- `VerifiedAddressIsProven`: the comment at `auth/auth.repo.ts:301` says a
  committed change of email can never leave the old address verifiable. An issue
  that mailed its token to the old address before the change stores it after the
  change, whose UPDATE therefore never saw it; completing it verifies the new
  address. What does hold is `AccountWritesRetireAll`, at the instant of the
  commit.
- `SweepAloneSucceeds`: the comment at `../maintenance/retention-policy.ts:297`
  and `docs/retention.md:369` say the sweep of expired sessions is correct on its
  own. It clears the tokens of the sessions it deletes, not the events that are
  past their window and still refer to them: the database refuses the batch, and
  the category fails until the sweep of the events has run.

## Disagreements without a run of their own

Met while modelling. Those with a name are definitions of the modules, marked
"Refuted" there, and TLC finds them violated on the instances above.

Accounts and sessions
- `ReuseRevokesFamily`: `docs/session-lifecycle.md:256` says that on reuse every
  token of the family is revoked. A rotation in flight inserts a successor that
  the UPDATE of the family does not see. It is useless (`LateTokensAreBarren`),
  but it keeps `revoked_at` NULL.
- Two concurrent issues leave two usable verification tokens, where
  `src/packages/db/src/schema/auth.ts:148` promises at most one; each sees what
  was committed before it. `schema/auth.ts:60` says `email_verified_at` is never
  cleared, `changeEmail` clears it.
- "A password change keeps only the caller's session"
  (`docs/credential-management.md:268`) does not hold for a login whose session
  is inserted after the UPDATE took its snapshot.
- Completions write their security event unguarded after the commit: when that
  write fails the caller gets a 500 for what is done. A login whose event fails
  leaves a live session nobody holds. Revoking a session that is revoked already
  does not try its tokens again.
- A failing write of `last_used_at` breaks a valid API request, where
  `api-keys/api-key.authenticator.ts:341` says it must not; with two requests the
  column can also go backwards.

Organizations
- `OwnerGrantedByOwner`: `docs/rbac-permissions.md:337` says only an active Owner
  can grant Owner. An Admin can create an invitation with the role owner, and
  accepting it grants that role.
- `invitations/invitation.lifecycle.ts:14` and
  `src/packages/db/src/schema/invitations.ts:42` say that the status expired is
  never written, `invitation.repo.ts:126` writes it; a row so marked can still be
  accepted by a transaction whose clock reading precedes the deadline. A pending
  invitation can be created for someone who joined after the pre-check
  (`invitation.service.ts:405`).
- Derived slugs that collide surface as a 409 though the caller chose none, and
  for a personal workspace as a 500; both are rolled back whole.

Limits, lists, retention
- `KeysExpire`: a counter whose EXPIRE was lost never ends; and a Redis restart
  without persistence resets the budget of notices.
- `NothingSkipped`: `audit/audit.repo.ts:24` says pages never skip; rows that
  share a millisecond with the last row of a page can be skipped, because the
  cursor is cut to milliseconds.

Configuration
- `docs/runtime-secrets.md` counts a blank variable as unset;
  `secret-source.ts` leaves the blank direct value in place, so
  `JWT_PREVIOUS_SECRET=` or `SMTP_PASSWORD=` makes the schema refuse to start.
- With several API processes and a rolling restart, `RotationIsSilent` fails
  against `docs/rotation-runbook.md:77`: one that has not restarted rejects what
  the others sign.
- During the close of a shutdown no request is taken, and a close that rejects
  exits with 1.

Web client
- Two tabs that refresh at the same time bounce the user to the login page,
  where `ProtectedRoute.tsx:8` says they do not; so does a login made while the
  restore runs, whose late refusal clears the new session.
- On the completion page an expiry of the old session between submission and
  answer cancels the page's wait: it stays on "completing". Completing while
  signed in as another user adopts the session and keeps that user's cached
  organization list. A second link pasted into the tab is ignored. The
  invitation page returns to its button after any refusal, keeping the token.
  The one-time secret of `ApiKeysPage` survives a switch of organization.
- In development, under StrictMode, the verification and invitation pages never
  leave their first state, and the restore is sent twice.

Operator's programs
- `MetadataIsReal`: the comment at `src/tooling/backup-ops.mjs:227` says metadata
  never advertises an object that is not there; prune deletes the artifact first.
- `FailuresAreRecorded`: a container that does not come up ends `deploy.sh` before
  the record; a later rollback then skips the last good release. Conversely a
  failed migration is recorded, and made current, though nothing was started
  (`deploy.sh:453`), and a rollback marks the release of the record before it as
  rolled away from, not the one that ran (`lib/deploy-evidence.mjs:340`): after a
  failed migration and a rollback, the next rollback may restore the release the
  last one escaped, against `docs/deployment.md:1187`. Nothing locks
  `deploy.sh` against a second one, and a rollback across an additive migration
  aborts under the verification of the head.
- An archive command that hangs (`ArchiverHangs = TRUE`) leaves the verdict
  healthy, against the promise above `evaluateWalArchiveHealth`
  (`src/tooling/lib/backup-health.mjs:170`). A crash in the middle of `cp` leaves
  a partial file and archiving fails, visibly, until it is removed.
- `pg-enable-wal-archiving.sh` reports ACTIVE on a count the old command moved,
  when the archiver has not heard of the reload, and its `pg_switch_wal` does
  nothing on an idle database.
- On a database without the project, `backup-pitr-rehearsal.sh` inserts it and
  does not take it out again, against its lines 119-120; a DELETE that is not
  answered leaves the row deleted. Of two overlapping restore drills the second
  removes the containers of the first.
- The release gates read one page of 100 runs; the "immutable" commit tag of
  `release.yml` can be pushed again. After a SIGKILL the run state of a backup
  command keeps its old "succeeded". `db-backup.sh` reads the count of migrations
  before the dump. `decryptFile` leaves plaintext it could not authenticate.

## What else can break each conjunction

Each property of a passing run has its mutant in `PROJECT.json`. The properties
that join several modules were also found violated with each of these, one at a
time, so that every part of them is known to be able to fail:

| property | mutants |
|---|---|
| `AccessIsSound` | `Access!InsertFirstToken_Detached`, `ApiKeyAuth!Lookup_NoExpiry` |
| `LimitsHold` | `AccountRequests!SkipNotice_PublicMode` |
| `AccountsStayHidden` | `AccountRequests!Names_Existing`, `AuditThrows_Swallowed` |
| `ConfigurationIsSafe` | `Configuration!Resolve_PrefersDirect`, `Resolve_KeepsEnding`, `ProductionFit_CurrentOnly`, `Load_ValidatesFirst`, `KeyRotation!Resolved_PrefersValue` |
| `OrganizationsAreSound` | `Provisioning!IsSlugTaken_Dirty`, `Walk_OneShort`, `InsertOrganization_NoWait`, `InsertPlan_Outside`, `Resources!LockRow_Read` |
| `WebIsSteady` | `EmailedLinks!SubmitOnce_AtOnce`, `SubmitOnce_Unguarded`, `RefreshUser_AtOnce` |
| `ShutdownIsOrderly` | `Lifecycle!ReadyNow_Any`, `Drained_Never` |
| `ReportsAreTrue` | `PointInTime!From_Newest`, `RestoreDrill!Fresh_Assumed`, `Persistent_Exists`, `WalSetup!Advanced_Any`, `Release!Satisfied_UnlessFailed`, `Authorised_AnyCommit` |
| `BackupsAreWhole` | `Backup!Upload_MetadataFirst` |
| `WalIsRecoverable` | `WalArchive!Failing_UntilFirst` |

## Proofs

Proved for every value of the constants, under the assumptions the modules name
(finite sets where cardinalities are compared, the null value outside the sets,
membership ids natural numbers). The proofs use `Spec` without fairness.

**MemberAdmin_proofs**: `LastOwnerKept`, `OwnerSetsAreCurrent`, `TypeCorrect`,
`RemovalFinal`, `OwnerAuthorityKept`, `DecisionsAreNotStale`, and `Refinement`,
that MemberAdmin implements OwnershipPolicy. `LastOwner` alone is not inductive:
nothing in it says that the owner set a request counted is still the truth. The
invariant adds that every id in the set is locked by the request and is now an
active Owner (`OwnersAreCurrent`), that the snapshot is of its own organization,
that a deciding request has its target locked, and that an idle request holds
nothing. Then `PermittedIsSafe` is a counting argument: a permitted decision that
takes an Owner away has a set of more than one, hence another current Owner of
the same organization who stays. The refinement needs the same invariant: the
guard tested on `owners` is the policy's guard on the rows.

**RefreshTokens_proofs**: `NoForkKept`, `OneSuccessorKept`, `LateTokensKept`,
`TypeCorrect`. The invariant says what a request may rely on (`Claims`: a
rotation past its check holds its token FOR UPDATE, and the token is unused and
not late), who may start a chain (`FirstTokens`: only the request that inserted
the session), and how rows refer to each other (`Links`, `Lineage`: a used token
has exactly one child, an unused one none). `NoFork` follows because a rotation
marks the family's only unused token in the step that adds another.

**Invitations_proofs**: the four properties of the run and four more
(`TypeCorrect`, `SeatReadsAreCurrent`, `TerminalKept`, `OnePendingKept`). `Stages`
ties each stage of a request to the locks it has; `SeatsAreCurrent` is inductive
with it, because whoever takes a seat needs the advisory lock and whoever moves
the ceiling needs the plan row, while expiry and removals only free seats.
`CeilingKept` and `ReservationKept` read the ceiling off it at the commit.
`NoDeadlock` follows from the order of the locks: row holders wait for nothing
once they count, a creator that waits for a lapsed row is the only one with the
advisory lock.

**Credentials_proofs**: `OneOpenResetKept`, `RetiredTokenStaysDead`,
`ResetLeavesNobody`, `ChangeEndsSessions`, assuming only that `None` is not a
request. The invariant follows a request through its locks: from the users row on
it has that row as strongly as its writes ask for (`UserHeld`), a completion has
its token, and only open tokens are locked. What a transaction has read is then
complete: no other token is open once the siblings are retired (`SiblingsHeld`),
and no session is live that it will not end (`DoomedCovers`), because the insert
of one waits for FOR UPDATE. A change of password holds less, FOR NO KEY UPDATE,
which is why its theorem speaks of the sessions it found.

**EmailVerification_proofs**: `TypeCorrect`, `AccountWritesKept`,
`NobodyStranded`. An issue takes no lock on the account, so the snapshot of an
UPDATE is not all there will be. `ScanCovers` says that it is while the
transaction has the users row as FOR UPDATE: whatever is open then is still among
the rows it has to reach, or updated by it.

**Registration_proofs**: `TypeCorrect`, `MailedWasStagedKept`, `OneOpenKept`,
`NewestLinkAlwaysWins`, `JoinsAreHonored`, and `Refinement`, that Registration
implements Accounts. `OpenIsNewest` carries the first half: the transaction that
stages a generation retires what is open for its address in the same commit. The
rest is what a completion keeps: its generation open by the row lock (`RowHeld`),
its address free by its entry in the unique index (`Claimed`), the invitation as
it was judged by the lock of the savepoint (`Accepting`).

**Services_proofs**: the nine safety properties of the `services` run, one theorem
each, and `QuotaImplemented`, that Resources implements QuotaPolicy. A component
has an inductive invariant of its own; since a behaviour belongs to one component,
the invariant of the whole is `component = "..." => ...Inv` for each, and a theorem
joins the components its property joins. TLC finds all fourteen invariants true on
the instances of the run. What carries each of them:

- `AccessSound`. ApiKeyAuth (`SeenStands`): what is in order now was in order during
  every request under way, so a check that passes has been seen to hold. Access
  (`AccessStands`): the user was active when a request read it, and a session that
  is live now was live then, because what has ended stays ended: so past that reading
  a live session means that the bearer was in order once. What is answered is tied to
  the row it speaks of.
- `LimitsKept`. RateLimiter (`PassesStand`): of a bucket that fails closed no more
  passed than were counted, and the first hit of a counter without its TTL is one
  caller's. AccountRequests (`NoticesStand`): emails sent plus those about to leave on
  the budget of a window never exceed what was counted on it.
- `AccountsHidden`. `JobStands` says which answer each step of an endpoint may hold,
  whatever was found; `EventsStand`, that an event that names an account is of a
  request that proved its token.
- `OrganizationsSound`. Provisioning: `SlugStands` (the candidates passed are taken,
  and a slug once taken stays taken), `SlugIsOwn` (the unique index: whoever has
  a row, or is about to commit one, has a slug of its own), `CreationStands` (what a
  transaction has written, and what is committed, at each step). Resources:
  `QuotaIsExclusive` lets one creation of a kind count at a time, `PlanIsCurrent` keeps
  the ceiling it counted against, and `CountHolds` says that the count, made with the
  clock the handler read, still bounds what is active now: deletion, revocation and
  time only take away. `QuotaStep` maps every step to one of QuotaPolicy or a stutter.
- `WebSteady`. WebClient: while no answer was lost, a refresh under way holds the
  newest token of its session (`FlightIsCurrent`), the cookie is the newest or a
  refresh has it (`CookieIsCurrent`), and next to the restore only a newer session is
  refreshed (`BootIsApart`). EmailedLinks: nothing is known before the restore ended
  (`RestoreIsFirst`), a page submits once (`SubmitsOnce`, `FormHolds`), a request in
  flight is cancelled only by an expiry (`AnswersCome`), and who is read again after a
  verification reads the verified user (`RefreshSees`).
- `WalkSound`. `WalkStands`: nothing shown follows the cursor, and what was listed all
  the time was shown, follows it, or shares a millisecond with the end of a page.
- `SweepsExact`. `ChoiceStands`: what a batch has chosen is there, of its category and
  past its window, tokens of chosen sessions included, and a batch shorter than its
  limit is all there was. A sweep's bound only moves with its own clock reading, so
  `ReportStands` holds while new rows come in.
- `ConfigurationSafe`. KeyRotation: `WithdrawnStands` and `TokensStand` follow the
  runbook, stage by stage: which secrets are configured, which ones the processes
  have loaded, which ones the living tokens were signed with. Configuration
  (`ConfigurationInv`): what is resolved was offered, and a process that runs has
  resolved every name without an issue.
- `ShutdownOrderly`. `ShutdownStands`: the timer runs from the first signal and is not
  overdue, and once the server is closed no request is pending; `HeardStands`: a
  dependency that a probe has heard of was up during it.

The assumptions are those of Services, each named, and evaluated by TLC on the
instance of the runs. Most say that a bound is a number, that sets are finite or that
the null value is none of the values. The others come from the code: a ceiling of
each kind for each plan, and projects and keys kept apart (`Catalog`); the tables,
their references and one sweep at a time (`SweepAssumption`); one tab
(`WebAssumption`) and one API process (`RotationAssumption`), without which the
properties are false, as the lists above say; at least one numbered candidate
(`ProvisioningAssumption`); a page that holds a row (`PagesAssumption`); and, in
`ConfigurationAssumption`, that the instance has the secrets and settings the
policies name, and that the texts, addresses and numbers it enumerates are written
as the schema reads them: the policies judge classes of texts, and the model has a
representative of each. How many edits, which files and which other secrets there
are is left open.

**Operations_proofs**: the six properties of the `operations` run, one theorem
each. As in Services, the invariant of the whole (`OperationsInv`) is one of each
component.

- `ReportsTrue`. Release (`GatesInv`): what a poll has listed is of its commit, and
  what it has read as a success did succeed, though the run may have been started
  again since; so evidence, once written, is of checks that passed. WalSetup
  (`SetupInv`): an archiver that had heard of the reload by the count has copied
  every segment since to the spool. RestoreDrill (`DrillInv`): the dump is of the
  data this run has seeded and, once the checksum has passed, not torn, and a target
  that is complete was empty before the restore. RestoreRehearsal (`RehearsalInv`):
  a document is stored after its backup has read the database, for a point no later
  backup uses again, so that the run's document, its file and its target agree one
  after the other. PointInTime (`OperatorInv`): a marker is written once, after its
  base backup, so the recovery that finds it has replayed the log.
- `LiveRestored`. `LiveInv`: while no statement of a rehearsal went unanswered, a
  marker or a row of "after" on the live database has an operator who is not over
  yet, and a deleted project one who knows that it deleted it. Rehearsals undo each
  other's traces, and the invariant does not say whose they are.
- `SchemaCovers` and `RollbackAdvances`. `DeploymentInv`: a head that was verified
  stays high enough, because migrations are never taken back. While `astray` is
  empty, what runs is what the last record names but for the deployment under way
  (`LedgerTracks`), so a release that a rollback replaced stands in the record
  before that of the rollback (`EscapedIsNamed`), which is where the choice of a
  target looks for it.
- `WalRecoverable`. `FilesAreSafe`: what the archiver or ship-wal has at hand is in
  the state its step left it in, and a segment leaves the spool only when it is
  off-host. This half needs no assumption. The verdict needs that an archive command
  ends (`~ArchiverHangs`): then a segment that waits past its time shows in the
  statistics (`StatsAreTrue`: nothing archived since a crash, a failure that still
  counts, or progress in this unit of time), those that a health run has read
  included.
- `BackupsWhole`. `WalIsKept`: a base backup that the catalog offers, or will once
  its command is done, is followed by WAL stored no earlier than the backup started;
  no prune dooms it, because a prune either knows the backup or started at most
  `JobDays` after it, and the window is twice that. `EnoughAreKept`: a backup that
  is doomed or has lost its artifact has as many as are kept after it, none of
  which any prune will delete. Prunes overlap, each with a catalog of its own: the
  argument counts the newest of what one of them read (`NewestAreLater`).

What the proofs found. That `RollbackNeverReturns` has to be about more than
interrupted attempts: with a failed migration it is false, as the list above says.
And in Backup, that the failure of a logical dump reset what the model remembers of
a base backup taken on the same day, which no instance with one kind of backup
could show; the model was wrong there and the code was not.

The assumptions are those of Operations, named and evaluated by TLC like the
others. Bounds are numbers and the null value is none of the values. From the code:
a manifest counts its migrations, and one operator deploys at a time
(`DeploymentAssumption`: nothing in `deploy.sh` enforces it); the project is there
before the first rehearsal (`ReplayAssumption`); the window of WAL is at least
twice the time a command may take (`BackupsAssumption`).

Only model-checked. All liveness (`TransactionsEnd`, `ReuseEndsLogin`): the prover has
no rule for fairness and ENABLED. `ImplementsPolicy` and
`ImplementsAccounts` are proved as theorems of the specification without fairness,
which states none either. And the violated properties, which need one counterexample
and have it.

## Not modelled

Mail transports, logging, error formatting and the request contracts (no state);
cryptography (a token or a key is compared, never computed); React and TanStack
Query beyond the effects and queries the modelled pages use, and the development
build; pages of the web client without session state; the parsing of command
lines, the systemd units, S3 request signing and the text of reports. The rate
limits of invitation endpoints are covered by RateLimiter as a bucket and not as
steps of Invitations.

Left out of modules that model the code around it: the quota and plan locks an
acceptance takes inside a registration's transaction (Invitations has them,
Registration does not); the columns of the row the point-in-time rehearsal
re-inserts (PointInTime knows whether the row is there); the clock of
`deployedAt` (Deployment takes the order of the ledger for it, and a release for
its API reference); and the skip of the migration check when `DATABASE_URL`
cannot be read (`VerifyMigrations` stands for a check that is on and a readable
URL). Joining and consuming an invitation are one commit in the code and one
action of Invitations, so `JoinConsumesInvitation` is about which invitation was
consumed, not about a crash between the two.
