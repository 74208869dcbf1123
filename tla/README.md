# commonuser in TLA+

`commonuser` is a Go library for user accounts: registration, login, sessions,
password reset, change of email address, verification. An application links it,
gives it a PostgreSQL connection to read with, one to write with and a redis
client, and calls it from as many goroutines, processes and machines as it
likes. The library starts no goroutine and takes no lock. Everything that can go
wrong in it goes wrong between two round trips of one caller, when another
caller, a crash or a lost connection gets in between. That is what these modules
are about: one TLA+ step is one statement, one redis command, or one event
outside (commit, expiry, eviction, the end of a context).

## 1. Inventory

| Component | State | Operations | Source |
|---|---|---|---|
| Session store | table `<entity>_session`, redis copy of each row | Create, RevokeAll, PurgeInvalid, PingByCache; Ping, Revoke, Refresh | `pkg/session`, `internal/repository/session.go`, `internal/model/session.go` |
| Read statements | connections of the read pool | every `Find*` | the constructors and finders of `internal/repository` |
| Password reset | table `<entity>_reset_password` | Request, Validate, Delete, Update (change with the old password) | `pkg/password`, `internal/repository/reset_password.go` |
| Accounts | table `<entity>`, redis copy by randid, redis reference by username | Register, Update, Delete, Find, Fetch | `pkg/account`, `internal/repository/account.go`, `internal/fetcher/account.go` |
| Providers | table `<entity>_provider` | RegisterWithProvider, ByProvider | `pkg/account`, `internal/repository/provider.go` |
| Authentication | none of its own | ByUsername, ByEmail, ByProvider | `pkg/account/account.go:191-296` |
| Email change | table `<entity>_update_email` | Request, Confirm, Revoke, Delete | `pkg/email`, `internal/repository/update_email.go` |
| Verification | table `<entity>_verification` | Request, Verify, Resend | `pkg/verification`, `internal/repository/verification.go` |
| Access tokens | none | sign, parse | `internal/jwt_impl`, `internal/model/account.go:90` |
| Migration command | the schema | create all tables in one transaction | `cmd/migrate` |
| Row locks | the rows of an account locked by open transactions | every UPDATE and DELETE of the above | the order of statements in `pkg/*` |
| Wiring | none | New, WithWriteDB, getters | `main.go`, `config`, `internal/types` |

How they interact: password reset and email change call `SessionOps.RevokeAll`
and (the former) `AccountOps.Update`; authentication calls `SessionOps.Create`;
the token of a login carries the session's randid, and an application checks
each request with `SessionOps.PingByCache`, which asks redis only. All reads go
through statements prepared on the read connection, so that no operation sees
what its own open transaction has written. Most operations that write exist
twice: *directly* (each statement commits on its own, each redis command goes
out at once) and *WithTransaction* (statements go to the caller's `sql.Tx`,
redis commands to the caller's pipeline, and the caller commits the one and
executes the other when the call has returned).

What is hard, and what makes each component correct:

* **Session store.** Two stores and no common commit. Revocation must be final
  whatever older copies are written back; the cache may lag behind the table,
  but it must never refuse what is not revoked, never accept what has no row
  unless the two clocks disagree, and a lag must have an end.
* **Read pool.** Ping, Revoke and Refresh leave rows open, transactions hold
  connections while their operations read through others, finders cannot be
  cancelled. Every call must still end.
* **Password reset.** Read-check-write without a lock on a table without a
  unique account. Tickets must stay bounded, a used ticket must not come back,
  and a reset must close the sessions that were open.
* **Accounts.** Three places hold a username (row, copy, reference). Whatever
  order they are written in, a fetch by username must not return an account of
  another name, and a username that is taken again must lead to its new holder.
* **Providers.** Two inserts without a foreign key or a unique identity, of two
  objects that nothing compares. A login must open only sessions of the account
  that an identity like its own names, and only if that one was registered.
* **Email change.** A ticket is found, marked and acted upon in separate
  statements. What is processed must have been confirmed with its own token, no
  address that was only requested may reach an account object, and nil must mean
  that the sessions are closed, at a retry too.
* **Verification.** Nothing makes a code unique by account. Codes must not pile
  up, and a code that was used must not come back.
* **Row locks.** The packages lock account, tickets, sessions and codes in
  different orders. Calls that wait for each other must get out of it.
* **Migration command.** Six tables in one transaction, and any number of
  processes at once: all tables or none, and no circle of waiting processes.

`PROJECT.json` lists these hazards with their lines, under "hazards".

## 2. Modules

| Module | Models | Runs | Theorems in |
|---|---|---|---|
| `Sessions` | the session store, in detail | `sessions`, `sessions_live`, `sessions_broken_read` | `Sessions_proofs` |
| `SessionStore` | what the session store promises (abstract) | through `StoreSpec` of `Sessions` | `Sessions_proofs` |
| `ReadPool` | the connections behind the read statements | `read_pool` | `ReadPool_proofs` |
| `Tickets` | the tickets of an account, the calls that request, spend, mark and delete them, transactions and sessions | through the next two | `Tickets_proofs` |
| `PasswordReset` | the password reset over `Tickets` | `password_reset` | `Tickets_proofs` |
| `EmailChange` | the change of the email address over `Tickets` | `email_change`, `email_change_retry` | `Tickets_proofs` |
| `TicketStore` | what a table of single-use tickets or codes promises (abstract) | through `StoreSpec` of `Tickets` and of `Verification` | `Tickets_proofs`, `Verification_proofs` |
| `Verification` | codes and their verification | `verification` | `Verification_proofs` |
| `Locks` | which calls wait for which rows | `locks` | `Locks_proofs` |
| `Accounts` | rows, cached accounts and references | `accounts` | `Accounts_proofs` |
| `Directory` | what the three promise together (abstract) | through `StoreSpec` of `Accounts` | `Accounts_proofs` |
| `Providers` | identities, registrations and logins with them or with a password | `providers` | `Providers_proofs` |
| `Migrate` | the migration command | `migrate` | `Migrate_proofs` |

Each `MCx` module and `.cfg` instantiates `x` for TLC. Definitions whose comment
begins with "Mutant:" are deliberately wrong variants of the definition that
follows them (a dropped guard, another WHERE clause). They are used by no
specification; each property is known to fail when one of them is put in place.

### Sessions

`table[s]` is the row of session `s` by its `revoked` column, `cache[s]` its
redis entry. Two clocks are compared with `expired_at`, a TIMESTAMP without time
zone that holds UTC: `expired` are the sessions past it by the program's clock,
in UTC (`IsValid`), `overdue` those past it by PostgreSQL's `NOW()`, in the
TimeZone of the server (`PurgeInvalid`). `ahead` says which of the two gets there
first; both values are initial states, and neither the distance nor the moment is
bounded. A caller's call is spread over `phase`, `kind`, `inTx` and the sets it works through:

| Action | Code |
|---|---|
| `Create`, then `CacheSet`, `Return` | `repository/session.go:27-54`, `account.go:259-280` |
| `RevokeAll` | the SELECT of `FindManyByAccount`, `:133-138`; it fixes the result set in `snap` |
| `ScanRow` | `scanSession`, `:80-115`: a row is cached, as read, before the loop gets it; at once even in a transaction, as revokeAll passes a nil pipe (`session.go:107`) |
| `EndScan` | `rows.Next()` false, at the end or on an error that nobody asks for |
| `UpdateRow` | one iteration of `session.go:112-119`: `UPDATE ... WHERE uuid` |
| `CacheSet` | the `Set` of that iteration or of Create |
| `Commit`, `Return` | the caller's part; outside a transaction `Return` is the end of the call |
| `Fail` | any error return, the rollback it leads to, or the death of the process |
| `PurgeInvalid` | `DELETE ... WHERE expired_at < NOW() AND revoked = true` |
| `Evict`, `Expire`, `FallDue` | redis; time, by the program's clock and by PostgreSQL's |

`closed` and `disturbed` are history: they appear in no guard.

`Ping`, `Revoke` and `Refresh` are missing on purpose. Their finders
(`repository/session.go:117-131`) pass `*sql.Rows` to a scan without calling
`Next`; `database/sql` answers "Scan called without calling Next", so the three
always return an error before they change anything. Their one effect, an open
result set, is in `ReadPool`.

`SessionStore` is the abstract specification: sessions are opened, closed for
good, forgotten when closed and overdue; an access check may accept a session
that is known and not expired, and one that is forgotten only if the store's clock
is ahead. `Sessions` implements it with
`status <- table, accepted <- {s : PingByCache accepts s}` and the same clocks,
when callers commit before they execute the pipeline (`CommitFirst`).

### ReadPool

A caller is idle, waiting for a connection or using one, for what it `want`s.
`held[c]` are the connections that it keeps from the others: that of its `call`
in progress, those under the result sets that it has `leaked`, and that of its
open `tx`. `Conn` are the connections that `SetMaxOpenConns` allows; `Free` are
those that nobody holds, and `Grant` gives any of them to any waiting request.
The kinds of request differ in who gives the connection back: `Scan` of a
`QueryRow` (`lookup`), `defer rows.Close()` (`list`), or only the end of the
context (`leak`). `EndContext` resolves everything but a lookup, which keeps
waiting or keeps its connection, because finders use `QueryRow` without a
context. `shared` says that the application gave one `sql.DB` to both `New` and
`SetWriteDB`, which the API invites it to do.

### Tickets, PasswordReset, EmailChange

The two packages treat their tables alike, so that the steps of a call are in
one module, `Tickets`, for one account; `PasswordReset` and `EmailChange` extend
it with what a caller can call and with which outcome of the first lookup.
A ticket is its place in the order of `created_at`; `Newest` is
`ORDER BY created_at DESC LIMIT 1`. A call is `request`, `spend` (delete the
tickets, revoke the sessions), `mark` (set one processed, revoke the sessions),
`change` (revoke the sessions) or `discard`; `call[c].at` is its next statement.

| Operation | Call |
|---|---|
| `requestResetPassword`, `requestEmailChange` | `request`: `RequestFind`, the deletion of expired tickets, `Insert` |
| `validateResetPassword` | `spend`, or `discard` of an expired ticket |
| `updateResetPasswordRequest` (change with the old password) | `change` |
| `confirmEmailChange` | `mark`; nothing when the ticket is processed; `discard` when it has expired |
| `revokeEmailChange` | `spend`, of expired and processed tickets too |
| `deleteResetPasswordRequest`, `deleteEmailChange` | `discard` |

Each call has a *form*. `"direct"`: every statement commits by itself. `"tx"`:
`WithTransaction` with a pipeline; `pend[c]` collects what the transaction has
written, and `End` is the return of the call and the caller's commit. `"mixed"`:
`WithTransaction` with a nil pipeline, which the `if pipe != nil` of the code
provides for: the tickets are written in the transaction, but RevokeAll (and
`AccountOps.Update`) take the direct form. A DELETE is two steps,
`StartDelete` and `EndDelete`: its snapshot is taken first, it then waits for
rows that open transactions hold, and deletes those of the snapshot that are
still there (READ COMMITTED). `Fail` is any error, a rollback, or the death of
the process; RevokeAll outside a transaction may then have revoked a part.

RevokeAll is two steps here, the listing and the revocation; `Sessions` has the
detail. `RevokeList` may lose rows of the listing when the result set breaks off
(finding 1), and the call goes on as if they did not exist: they are taken out of
`call[c].before`, the sessions that the call has to close, and out of what a
direct call `owed` for its ticket.
`AccountOps.Update` writes back the row that it has read (section 6) and can only
fail, which `Fail` includes; that it locks the row of the account is in `Locks`.

`EmailChange` adds the addresses: `newAddress`, `previous` of a ticket and
`mail[c]`, the account object that the caller holds and from which the next
request copies `previous`. Both tokens are discarded when they are made, so that
whether a token matches is left open. `author`, `spent`, `owed`, `broken`,
`confirmed`, `told` are history and appear in no guard.

`TicketStore` is the abstract specification of the table, for these two and for
`Verification`: a ticket is new, then stored unless it is given up, then gone. One
`Commit` puts tickets in, deletes or marks stored ones, spends tickets and closes
sessions; there are no callers, statements, snapshots or open transactions. A
ticket may be spent only when it has been stored and is gone. The mapping
(`Status`): a ticket is stored when its row is committed; new when nobody has made
it yet, or its maker is still about to insert or to commit it; else gone.

### Verification

`rows` are the codes of one account; `FindByAccount` has no ORDER BY and
returns any of them. `RequestBlind` is the only way in which `request` inserts:
its error test is the wrong way round, so that it inserts when the lookup failed
with an error other than "not found". `blind` remembers these rows. The UPDATE
of `resend` names a column that the table does not have, so that the only step
after `update` is `Fail`. `StoreSpec` maps the codes to a `TicketStore` without
sessions and marks, in which `used` are the spent ones.

### Locks

One account, its tickets, its sessions and its codes. `call[c]` has the rows that
the call still has to lock (`left`), those that its transaction keeps (`held`)
and the order in which its session rows come (`order`: the order of a SELECT or
of a scan, which nothing fixes). `Place` is the order of the statements in the
code. `Own` says which locks outlive their statement in which form. `Detect` is
PostgreSQL's deadlock detection: it sees a cycle only if the statement that waits
belongs to the transaction that holds (`Seen`), which in the mixed form it does
not. `Forms[c]` are the forms in which `c` calls.

### Migrate

`run[p]` is a process between `Begin` and the end. `CREATE TABLE IF NOT EXISTS`
is a lookup (`Check`) and an insertion into the catalogue (`Insert`, `Duplicate`).
`left` are the tables that the loop has not reached, `made` those that the open
transaction has created; an `Insert` waits while another open transaction has
the same name in its `made`. `Earlier` are the sets of tables an earlier version
may have left.

### Accounts

`row`, `name` are the table, `cached` and `ref` redis. `todo[c]` is the pipeline
in order, `pend[c]` the statement of an open transaction. `update` is split at
its round trips: `UpdateRead`, `UpdateWrite`, `UpdateRefs`. `UpdateReference`
and `Delete` create a pipeline of their own when they get none, and never
execute it, because `selfPipe` is not set (`repository/account.go:128-131` and
`:160-163`): outside a transaction their commands are not in `todo`. `kept` and `disturbed` are
history. Their
`Del(ref)` is keyed by the reference's own randid, a key that nothing sets, so
it has no effect and is left out.

`Directory` is the abstract specification: an account is registered once, under a
name that nobody holds at the time, keeps the name and is deleted once; a question
for a name finds nobody, or an account that was registered under it and may be
deleted by now. The mapping: `found` is what `Fetch.ByUsername` returns.

### Providers

`linked[p]` is the account that the row of provider object `p` names, which is
whichever `SetAccount` (`model/provider.go:35`) was last told, or `Unset`:
`registerWithProvider` (`account.go:68`) compares it with nothing. `misnamed` are
the rows that name another account than the one registered with them, `broken`
those of a direct registration that failed half-way, `opened` is the latest login;
all three are history.
`registerWithProvider` is `InsertProvider`, `InsertAccount` and in a
transaction `Commit`; `byProvider` is `LoginFind`, which takes *any* row with the
identity, `LoginAccount` and `LoginOpen`; `byUsername` and `byEmail` are
`LoginPassword` and `LoginOpen`.

## 3. What the runs check

* **`sessions`** (2 callers, 2 sessions of one account, either clock ahead; 6.7
  million states). `RevokedEntryHasRevokedRow`: the cache never runs ahead of the
  table. `AcceptedHasRow`: an accepted session has a row, except one that was
  purged while PostgreSQL's clock was past its `expired_at` and the program's was
  not. `ClosedStayRevoked`, `RevocationIsFinal`: what was revoked stays so,
  although every writer writes the whole row from an older copy. `StaleHasCause`:
  a stale live entry belongs to a RevokeAll that is about to overwrite it, or to
  a failed RevokeAll or a late Create (`disturbed`). `StoreSpec`: the
  refinement. `IInv` is the invariant of the proofs.
* **`sessions_live`** (2 callers, 1 session). `StaleEnds`: stale entries go.
* **`sessions_broken_read`**: a finding, section 5.
* **`read_pool`** (3 callers, 2 connections, with `shared` and without; 31,000
  states). `Served`: who waits for a connection gets one or gives up, in spite of
  leaks, and in spite of transactions that wait for a second connection of their
  own pool. `PInv`, the invariant of the proofs, contains `OneHolder`: a
  connection serves one caller and one use at a time, so that the pool is not
  overdrawn and no query runs on a connection with rows or a transaction open.
* **`password_reset`** (2 callers in all three forms, 2 tickets, 1 session; 3.8
  million states). `OneTicketPerCaller`: racing requests cannot pile up tickets.
  `SpentAreGone`: no late insert, rollback or deletion brings a used ticket back.
  `SpendingCloses`: the ticket and the sessions go together, except for direct
  calls that fail in between. `NilCloses`: a call that returns nil and is
  committed leaves no session live that was live when it began, but for those that
  its broken result set lost. `StoreSpec`: all
  calls together implement `TicketStore`. `TInv` is the invariant of the proofs.
* **`email_change`** (2 callers with transactions and a pipeline, 2 tickets, 2
  addresses, 1 session; 8.6 million states). `ProcessedWasConfirmed`,
  `MailIsConfirmed`, and what transactions add to a direct call:
  `ConfirmedAreClosed`, retries included, but for what a result set lost. `EInv` is the
  invariant of the proofs, which hold for direct and mixed calls too.
* **`email_change_retry`**: a finding, section 5.
* **`verification`** (2 callers in all forms, 3 codes; 499,000 states).
  `OneRowPerCaller`: codes do not pile up. `StoreSpec`: the table of codes
  implements `TicketStore`, so that a used code never comes back. `VInv` is the
  invariant of the proofs and contains `UsedAreGone`.
* **`locks`** (3 callers in transactions, the third without a pipeline, 2 sessions
  in either order; 73,000 states). `DeadlocksHaveCause`: calls wait in a circle
  only if two of them lock the sessions in different orders, or one changes and
  another resets the password. `UnseenHaveCause`: a circle that PostgreSQL cannot
  see needs three particular calls. `CallsEnd`: all other calls end. `LInv`, which
  contains `TypeOK`, is the invariant of the proofs.
* **`migrate`** (3 processes, 9 sets of earlier tables; 21,000 states).
  `AllOrNone`: whoever fails, dies or loses a race, all tables are there or none
  that was missing. `EndedFindsAll`: who ends with success or a duplicate key
  finds them all. `NoCircle`: processes do not wait for each other in a circle.
  `RunsEnd`: nobody waits for ever. `MInv` is the invariant of the proofs.
* **`accounts`** (2 callers, 2 accounts, 2 usernames; 194,000 states).
  `LingeringHasCause`: a deleted account that is still in redis is about to be
  dropped by a Delete, or was left or brought back there (`kept`) by a direct
  Delete, one that failed after its commit, or a late write of another call.
  `FetchedHasTheName`: what a fetch returns. `ReferenceFollowsHolder`: a username
  that is taken again leads to its new holder. `StoreSpec`: rows, copies and references are one
  `Directory`. `IInv` is the invariant of the proofs, here and in the next run; it
  contains `CachedAsRegistered`.
* **`providers`** (2 callers, 2 accounts, 3 provider objects, two of one
  identity, each naming either account or none; 1.6 million states).
  `OrphansHaveACause`: an identity that names nobody who was ever registered comes
  from a direct registration that fails or is half done, or was stored beside an
  account that it did not name; a transaction whose identity names its account
  leaves none. `LoginsAreLinked`: a login opens sessions only of registered
  accounts, without the password only under an identity with that sub and issuer.

**Bounds and why they are enough.** All hazards but those of the pool need two
calls that overlap: one that reads and later writes, and one that writes in
between; a caller makes any number of calls one after the other, so two callers
give every overlap of two, before and after any history. A second session makes
a RevokeAll partial and orders its updates; a third would repeat the second. That
one clock is ahead of the other matters, not by how much.
Two tickets are one that is spent or expires and one that races with it or
comes late; the proofs have no bound.
Deadlocks need as many callers as the longest circle of distinct causes: the
undetected one has three; a direct call holds no row, so that none is in a circle
(the proofs have all forms). The pool
needs more callers than connections, and at least two connections for a leak
that does not stop everything at once. `MaxTicket` and `MaxRow` are the
only counters with a bound; the runs of `Tickets` and `Verification` end when it
is reached, so deadlock is not checked there.
Symmetry is used only with safety properties.

**Fairness.** `Sessions`: weak fairness of a caller's own steps: a call in
progress goes on until it returns, with nil or with an error. That is what a
goroutine does; nothing is assumed of clients that start calls, of expiry or of
redis. `ReadPool`: weak fairness of finishing a query and of the end of a
context (an application whose contexts never end is outside the claim, and the
mutants show that it would hang), and strong fairness of `Grant`, because
`database/sql` picks any of the waiting requests, at random, when a connection
is returned: a request that can be picked again and again is picked in the end.
`Locks`: strong fairness of a call's next step, because PostgreSQL queues the
statements that wait for a row, breaks a circle that it sees when a wait is long,
and a call whose statements are through returns and is committed. `Migrate`: strong fairness of a process's own steps; one
that waits for a name is woken when the other transaction ends. Failing is never
assumed to happen.

## 4. What is proved

`tlapm` proves the following for any number of callers, sessions, accounts,
tickets, connections and provider objects, from the named ASSUMEs only.

* `Sessions_proofs`: `TypeCorrect`, `Invariance`, `ClosedForGood`,
  `RevocationFinal` for every order of commit and Exec (no run has callers that
  execute the pipeline first, or pass a transaction with a nil pipeline: the
  properties of the table survive there, those of the cache are not claimed); `CacheFollowsTable`,
  `RevokedEntriesFollow`, `StaleEntriesHaveACause` and `Refinement` (every step of `Sessions` is a step
  or a stutter of `SessionStore`) under `CommitFirst`.

  *The argument.* `ClosedStayRevoked` alone is not inductive: it speaks of a
  moment when the call is over. `RowInv` carries it there: a session that was
  listed is still to be updated, or updated in the open transaction, or dead in
  the table. That in turn needs that a row which was read exists (`snap`), that
  two open transactions never hold one row (`LockInv`), and that a Create in
  progress has the only claim on its row. `CacheInv` adds what the cache says of
  the table; it needs `pend \subseteq toSet` (`CallInv`), that is, nothing is
  cached before it is committed. `ClockInv` says which clock is behind: without it
  nothing keeps a purged session from being accepted where PostgreSQL is not ahead.
* `Tickets_proofs`: every step of `TicketNext` preserves `TInv`, one lemma per
  action; the steps of `PasswordReset` and `EmailChange` are such steps.
  `OneTicketPerCaller` and `SpentAreGone` are not inductive. The strengthening: a
  ticket about to be inserted, or inserted by an open transaction, is known to
  nobody else, and its author has no ticket in the table but those that the same
  transaction deletes (`FreshInv`); a spent ticket is in the snapshot of the
  DELETE, in what the transaction deletes, or gone (`SpentInv`); the sessions of
  the beginning of a call that its result set has not lost are listed, about to be
  closed or revoked (`Closing`);
  and what a spent ticket owes is carried by a call in progress (`OwedInv`).
  For the password reset: `ResetInvariance`, `ResetTypeOK`, `ResetOneTicketPerCaller`,
  `ResetSpentAreGone`, `ResetSpendingCloses`, `ResetNilCloses`, `ResetRefinement`.
  For the change of the address: `EmailInvariance` (`TInv` and `EInv`),
  `EmailProcessedWasConfirmed`, `EmailMailIsConfirmed`, `EmailSpendingCloses`,
  `EmailRefinement`, and `EmailConfirmedAreClosed` under the assumption that no call
  is direct. `EInv` says that `previous` and every account object carry the
  registered address or one of a confirmed ticket, which chains of changes taken
  back need.

  *The refinement.* Each step is a `Commit`, a `GiveUp` or a stutter of
  `TicketStore`, in every form of call and for any number of callers. A commit of
  an open transaction puts in what is new only because `FreshInv` keeps a ticket
  about to be inserted from everybody else, in the open transactions of the
  others too; what is spent has been in the table because a DELETE takes its
  snapshot there (`TInv`); and what is made and then rolled back is given up for
  good, as nobody else knows it.
* `Verification_proofs`: `VerificationInvariance`, `VerificationTypeOK`,
  `VerificationOneRowPerCaller`, `VerificationUsedAreGone`,
  `VerificationRefinement`, along the lines of `Tickets`: a code about to be
  inserted is its author's only one (`FreshInv`), and a verification deletes its
  code before it returns (`CallInv`).
* `Locks_proofs`: `LocksInvariance`, `LocksTypeOK`, `LocksDeadlocksHaveCause`,
  `LocksUnseenHaveCause`, for any number of calls and sessions. `LInv` says that a
  call holds only rows whose place is before those it still wants. Without the
  two causes, the places of all calls in a deadlock agree with one ranking of the
  rows; the wanted row of least rank (by well-foundedness of `<` on the naturals)
  is wanted by nobody's waiting, a contradiction.
* `Providers_proofs`: `Invariance`, `OrphansAreExplained`, `SessionsAreLinked`.
  The strengthening (`CallInv`, `TxInv`): a login in progress stands on a
  provider row that exists, a transaction's provider is its own and not yet in
  the table, and a direct registration half-way has stored the account that its
  provider names, its own or a misnamed one.
* `Accounts_proofs`: `Invariance`, `AccountsTypeOK`, `CachedCopies`,
  `FetchIsRight`, `ReferencesFollow`, `LingeringExplained`, `AccountsRefinement`.
  No property of the cache is inductive alone: what is cached, and
  what `update` writes, was read some steps earlier. `Knows` therefore says what
  a call knows of its account however long ago it read it (the row exists, or
  existed, under the name in the copy), `LockInv` that two open transactions
  never write one row, `NameInv` that a username has one holder, open inserts
  included, and `ReferenceInv` that a reference leads to an account that has, or
  had, its username. Steps that insert nothing share one lemma, `QuietStep`.
  The refinement needs `NameInv` for the guard of a registration that commits
  late, and `ReferenceInv` for every redis command: a cached account that comes
  or goes is found, or not found any more, under its own name only (`RedisFinds`).

* `Migrate_proofs`: `MigrateInvariance`, `MigrateAllOrNone`,
  `MigrateEndedFindsAll`, `MigrateNoCircle`, for any number of processes and any
  tables left by earlier versions. `AllOrNone` is not inductive: a process
  commits what it has made, and that this is all that was missing rests on what
  it has seen on the way. `RunOK` says so: what a process has not yet processed is
  an end of the slice (`Suffix`), the rest it has made or found committed, and
  what it inserts was not there in the beginning. The first table that is
  missing is then made by one process only, which makes all others too.
  `NoCircle`: a process that waits for another has that one's table still before
  it, so that the other is further on in the slice; of any set of processes the
  one whose table comes last waits for none of them.
* `ReadPool_proofs`: `ReadPoolInvariance`, for any number of
  callers and connections. Its part `OneHolder` needs to know that a call holds one
  connection while it uses it and none before or after, and that a transaction
  is begun only by a caller that has none (`HeldOK`): else a new connection would
  replace one that is still out.

Only model-checked: the liveness properties (`StaleEnds`, `Served`, `CallsEnd`,
`RunsEnd`), as temporal reasoning under fairness is beyond the prover used. The two
findings are counterexamples of TLC.

## 5. Findings

1. **`sessions_broken_read`** violates `RevokesAllRunning`. `FindManyByAccount`
   leaves its loop when `rows.Next()` is false and never asks `rows.Err()`
   (`repository/session.go:141-150`). A connection lost in mid-result makes
   `RevokeAll` return nil with live sessions left, although
   `pkg/email/email.go:120` says "revoke all running sessions".
2. **`email_change_retry`** violates `ConfirmedAreClosed`. `confirmEmailChange`
   stores `processed` (`email.go:114`) before RevokeAll, and returns nil for a
   processed ticket (`email.go:98`). When a direct RevokeAll fails, the caller
   tries again and gets nil with every session live, although `email.go:120` says
   "revoke all running sessions". `email_change` shows that a transaction with
   a pipeline is free of it.

## 6. Observations that no run states

No document of the repository promises otherwise, so these are not findings;
the models follow the code.

* `AccountOps.update` writes back the row it has just read, not the account it
  was passed (`account.go:97`). So a new password, email or verified flag is
  never stored: `ValidateResetPassword` returns nil and the old password still
  works. The models follow the code; no property asks for it.
* `Create` caches a session after its INSERT. When a RevokeAll lists, revokes and
  caches the session in between, the late `Set` puts the live copy back, and
  `PingByCache` accepts the revoked session until the entry expires
  (`disturbed` in `StaleHasCause`).
* The create functions of the migration command report `RowsAffected() > 0`, which
  is 0 after any CREATE, so that the command says "table already exists - skipping
  creation" (`migrate.go:109`) of every table that it creates.
* A direct `Delete` leaves the account in redis until its TTL ends (`kept` in
  `LingeringHasCause`).
* With a server whose TimeZone is east of UTC, `PurgeInvalid`
  (`repository/session.go:168`) deletes a revoked row hours before its
  `expired_at` by the program's clock; a stale entry of that session is then
  accepted although there is no row (`ahead`, `overdue` in `AcceptedHasRow`).
* `registerWithProvider` does not ask which account the identity names: without
  `SetAccount`, or with that of another account, it returns nil and no login with
  the identity works, or one opens the other account (`misnamed` in
  `OrphansHaveACause`).
* A ticket is deleted before RevokeAll runs (`password.go:111-118`): when a direct
  RevokeAll fails, a retry gets "ticket not found" and the sessions stay
  (`broken` in `SpendingCloses`).
* Two validations with one token can both succeed if both read the ticket
  before either deletes it.
* A login that read the account before a reset opens its session after it.
* `Request` of the email change throws both plain tokens away and stores their
  hashes only (`email.go:71`, `:75`), so nobody can confirm or revoke one.
* The confirmed address, like the password, is set in the account object only;
  nothing in the package stores it.
* `Request` of the verification has its error test inverted and never creates a
  code for an account without one; `Resend` updates a column (`verification_hash`)
  that the schema does not have, and always fails when there is a code.
* A change of the password locks sessions before the account, a reset the account
  before the sessions. With transactions PostgreSQL resolves that. A reset in a
  transaction without a pipeline, a reset and a change in transactions can wait
  for each other in a way it cannot see, until a context ends;
  `UnseenHaveCause` says that there is no other case.
* The usage text of the migration command (`migrate.go:37`) names a flag
  `-tables` that it does not have.
* `App.WithWriteDB` sets the write connection of accounts and logins only; the
  session, email, verification and password operations need their own
  `SetWriteDB`.

## 7. What is not modelled, and why

* *Access tokens*: signing and parsing, no state. That an access token outlives
  the revocation of its session follows from their design.
* *Passwords and tokens as text*: a token is the ticket itself; hashing is not
  modelled.
* *Transactions of several operations*: a call in a transaction is modelled as
  the transaction's only one.
* *Replication lag of the read connection*: a read sees the last commit. An
  application that reads from a replica is outside the models.
* *Row locks together with data*: `Locks` has the locks of all packages without
  their data, the other modules the data with the locks that decide about it.
  `Locks` leaves out the wait of an INSERT for another transaction's unique key
  (the new address of a ticket, `email.go:80`; the username of an account), so a
  circle through such a wait is not in it, and `Migrate` the wait of CREATE INDEX
  for open transactions that write to an existing table (ShareLock).
* *Several accounts in EmailChange*: the unique `new_email_address` is one table
  for all accounts; that another account's ticket blocks an address is an INSERT
  that fails.
* *Clocks*: expiry happens at any time. `Sessions` has the program's clock and
  PostgreSQL's apart, because an entry is accepted by the one and its row purged by
  the other. Tickets are compared with the program's clock only; that
  some of their times are local and some UTC (`model/reset_password.go:31`) shifts
  when they expire, by a constant.
* *redifu, item, database/sql, PostgreSQL, redis*: external; each use is a step.
* *Wiring, configuration*: constructors and getters without state of their own.
  The UNIQUE and PRIMARY KEY constraints of the schema are guards in the modules.
* *Ping, Revoke, Refresh*: see `Sessions`; they fail before they change anything.
* *Seed functions, `ProviderRepository.Delete`*: they have no caller.

## 8. Plan

Done: (1) `Sessions`, `SessionStore`, (2) `ReadPool`, (3) `Tickets` with
`PasswordReset` in all forms and (4) `EmailChange`, (5) `Accounts`, (6) `Providers`
with the logins, (7) `Verification`, (8) `Locks`, (9) `Migrate`, (10) `TicketStore`,
which `PasswordReset`, `EmailChange` and `Verification` refine, (11) `Directory`,
which `Accounts` refines, and the proofs of every safety property that a run checks.

Next, in this order:

12. Transactions of several operations: a caller that requests and validates, or
    registers and logs in, in one `sql.Tx`.
13. Several accounts in `EmailChange`, for the address that one account keeps from
    another.
