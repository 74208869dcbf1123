------------------------------ MODULE Sessions ------------------------------
(***************************************************************************)
(* The session store of commonuser: the <entity>_session table, the redis  *)
(* copy of every row (redifu.Base[Session]) and the callers that run       *)
(* SessionOps concurrently (pkg/session, internal/repository/session.go).  *)
(*                                                                         *)
(* One step is one round trip: a statement on the database or a command on *)
(* redis.  A call can fail or its process can die between any two of them. *)
(* Every operation exists in two forms, told apart by inTx:                *)
(*   FALSE  SessionOps.X: each statement commits on its own and each Set   *)
(*          reaches redis at once (pipe == nil);                           *)
(*   TRUE   WithTransaction(pipe, tx).X: statements are buffered in the    *)
(*          caller's sql.Tx and Sets in the caller's pipeline; the caller  *)
(*          commits the one and executes the other after the call.         *)
(*                                                                         *)
(* Ping, Revoke and Refresh never get past their first query, see the      *)
(* README, and change neither the table nor the cache: they are not here.  *)
(***************************************************************************)

CONSTANTS
  Session,      \* the sessions ever generated; a uuid is never reused
  Account,      \* the accounts
  Owner,        \* Owner[s] is the account_uuid of session s
  Caller,       \* the goroutines that call the library
  CommitFirst   \* TRUE: transactions have a pipeline, executed after the commit

ASSUME SessionsAssumption ==
  /\ Owner \in [Session -> Account]
  /\ CommitFirst \in BOOLEAN

VARIABLES
  table,      \* table[s]: the committed row of s, by its "revoked" column
  cache,      \* cache[s]: the redis entry of s
  \* expired_at is TIMESTAMP without time zone and holds UTC.  The program
  \* compares it with its own clock, in UTC; PostgreSQL with NOW(), in the
  \* TimeZone of the server.  East of UTC that clock gets there first, by
  \* hours; west of it or in UTC, last.
  expired,    \* the sessions past expired_at by the program's clock
  overdue,    \* the sessions past expired_at by PostgreSQL's clock
  ahead,      \* whether PostgreSQL's clock gets there first; never changes
  \* Of each caller, the call it is in the middle of:
  phase,      \* "scan" while FindManyByAccount iterates, "write" after it
  kind,       \* Create or RevokeAll
  inTx,       \* whether it runs WithTransaction
  snap,       \* the rows of the result set that are not scanned yet
  listed,     \* the slice FindManyByAccount returns
  toUpdate,   \* the listed sessions that are not updated yet
  pend,       \* the statements of its sql.Tx while that is open
  toSet,      \* the Sets still to reach redis
  \* History:
  closed,     \* the sessions listed by a RevokeAll that returned nil
  disturbed   \* the sessions a failed RevokeAll or a late Create touched

clocks == <<expired, overdue, ahead>>
store == <<table, cache, clocks>>
call == <<phase, kind, inTx, snap, listed, toUpdate, pend, toSet>>
history == <<closed, disturbed>>
vars == <<store, call, history>>

\* "absent": not inserted yet; "purged": deleted by PurgeInvalid.
Row == {"absent", "live", "revoked", "purged"}
Entry == {"none", "live", "revoked"}

NoRows == [s \in Session |-> "absent"]

\* PingByCache returns the session: it is cached, not revoked and not expired.
Accepts(s) == cache[s] = "live" /\ s \notin expired

-----------------------------------------------------------------------------
Init ==
  /\ table = NoRows
  /\ cache = [s \in Session |-> "none"]
  /\ expired = {}
  /\ overdue = {}
  /\ ahead \in BOOLEAN
  /\ phase = [c \in Caller |-> "idle"]
  /\ kind = [c \in Caller |-> "none"]
  /\ inTx = [c \in Caller |-> FALSE]
  /\ snap = [c \in Caller |-> NoRows]
  /\ listed = [c \in Caller |-> {}]
  /\ toUpdate = [c \in Caller |-> {}]
  /\ pend = [c \in Caller |-> {}]
  /\ toSet = [c \in Caller |-> {}]
  /\ closed = {}
  /\ disturbed = {}

\* c is now in phase p of a call of kind k, with the given result set, open
\* statements and outstanding Sets, and nothing listed.
Enter(c, p, k, tx, rows, stmts, sets) ==
  /\ phase' = [phase EXCEPT ![c] = p]
  /\ kind' = [kind EXCEPT ![c] = k]
  /\ inTx' = [inTx EXCEPT ![c] = tx]
  /\ snap' = [snap EXCEPT ![c] = rows]
  /\ pend' = [pend EXCEPT ![c] = stmts]
  /\ toSet' = [toSet EXCEPT ![c] = sets]
  /\ listed' = [listed EXCEPT ![c] = {}]
  /\ toUpdate' = [toUpdate EXCEPT ![c] = {}]

Leave(c) == Enter(c, "idle", "none", FALSE, NoRows, {}, {})

\* A row written by an open transaction is locked until that transaction ends.
Unlocked(c, s) == \A d \in Caller \ {c} : s \notin pend[d]

\* Mutant: INSERT ... ON CONFLICT DO UPDATE.
InsertableUpsert(s) == TRUE

\* The primary key refuses a second row.
Insertable(s) == table[s] = "absent"

\* INSERT, then Set of the same session (login, and SessionOps.Create).
Create(c, s, tx) ==
  /\ phase[c] = "idle"
  /\ Insertable(s) /\ Unlocked(c, s)
  /\ table' = IF tx THEN table ELSE [table EXCEPT ![s] = "live"]
  /\ Enter(c, "write", "create", tx, NoRows, IF tx THEN {s} ELSE {}, {s})
  /\ UNCHANGED <<cache, clocks, history>>

\* Mutant: rows that were deleted come back in the result set.
RowsOfUnfiltered(a) ==
  [s \in Session |-> IF Owner[s] = a THEN table[s] ELSE "absent"]

\* SELECT ... WHERE account_uuid = a, on the read connection: committed rows.
RowsOf(a) ==
  [s \in Session |-> IF Owner[s] = a /\ table[s] # "purged" THEN table[s]
                                                            ELSE "absent"]

\* RevokeAll begins: the query fixes the rows that the loop will see.
RevokeAll(c, a, tx) ==
  /\ phase[c] = "idle"
  /\ Enter(c, "scan", "revoke", tx, RowsOf(a), {}, {})
  /\ UNCHANGED <<store, history>>

\* scanSession caches the row just read before it hands it to the loop, at
\* once even under a transaction: revokeAll passes a nil pipe here.
ScanRow(c, s) ==
  /\ phase[c] = "scan" /\ snap[c][s] # "absent"
  /\ cache' = [cache EXCEPT ![s] = snap[c][s]]
  /\ snap' = [snap EXCEPT ![c] = [@ EXCEPT ![s] = "absent"]]
  /\ listed' = [listed EXCEPT ![c] = @ \cup {s}]
  /\ toUpdate' = [toUpdate EXCEPT ![c] = @ \cup {s}]
  /\ UNCHANGED <<table, clocks, phase, kind, inTx, pend, toSet, history>>

\* rows.Next() returns false: at the end, or early on an error that nobody
\* asks for (rows.Err is not called).  Unscanned rows stay in snap.
EndScan(c) ==
  /\ phase[c] = "scan"
  /\ phase' = [phase EXCEPT ![c] = "write"]
  /\ UNCHANGED <<store, kind, inTx, snap, listed, toUpdate, pend, toSet, history>>

\* Mutant: the loop forgets session.Revoke() and writes back what it read.
RevokedRowUnchanged(r) == r

\* UPDATE ... WHERE uuid: no row, no effect and no error.
RevokedRow(r) == IF r = "live" THEN "revoked" ELSE r

\* One iteration's UPDATE.  Outside a transaction its Set follows at once, so
\* the next iteration waits for it.
UpdateRow(c, s) ==
  /\ phase[c] = "write" /\ s \in toUpdate[c]
  /\ Unlocked(c, s)
  /\ inTx[c] \/ toSet[c] = {}
  /\ table' = IF inTx[c] THEN table ELSE [table EXCEPT ![s] = RevokedRow(@)]
  /\ pend' = IF inTx[c] THEN [pend EXCEPT ![c] = @ \cup {s}] ELSE pend
  /\ toUpdate' = [toUpdate EXCEPT ![c] = @ \ {s}]
  /\ toSet' = [toSet EXCEPT ![c] = @ \cup {s}]
  /\ UNCHANGED <<cache, clocks, phase, kind, inTx, snap, listed, history>>

\* The caller commits its transaction: all its statements at once.
Commit(c) ==
  /\ phase[c] = "write" /\ toUpdate[c] = {} /\ pend[c] # {}
  /\ table' = [s \in Session |->
                 IF s \notin pend[c] THEN table[s]
                 ELSE IF kind[c] = "create" THEN "live"
                 ELSE RevokedRow(table[s])]
  /\ pend' = [pend EXCEPT ![c] = {}]
  /\ UNCHANGED <<cache, clocks, phase, kind, inTx, snap, listed, toUpdate,
                 toSet, history>>

\* Mutant: the pipeline is executed before the transaction is committed.
MaySetAnyOrder(c) == phase[c] = "write" /\ toUpdate[c] = {}

\* A Set leaves at once outside a transaction; a pipelined one leaves when
\* the caller executes the pipeline.  A caller that is not known to commit
\* first may do so earlier, or pass its transaction with a nil pipeline.
MaySet(c) ==
  /\ phase[c] = "write"
  /\ inTx[c] /\ CommitFirst => toUpdate[c] = {} /\ pend[c] = {}

\* Mutant: the loop caches the session as it was read.
FinalEntryAsRead(c) == "live"

\* What Create and the loop of RevokeAll put in redis.
FinalEntry(c) == IF kind[c] = "create" THEN "live" ELSE "revoked"

CacheSet(c, s) ==
  /\ MaySet(c) /\ s \in toSet[c]
  /\ cache' = [cache EXCEPT ![s] = FinalEntry(c)]
  /\ toSet' = [toSet EXCEPT ![c] = @ \ {s}]
  /\ disturbed' = IF kind[c] = "create" /\ table[s] \in {"revoked", "purged"}
                  THEN disturbed \cup {s} ELSE disturbed
  /\ UNCHANGED <<table, clocks, phase, kind, inTx, snap, listed, toUpdate,
                 pend, closed>>

\* The call has returned nil and the caller's commit and Exec succeeded.
Return(c) ==
  /\ phase[c] = "write"
  /\ toUpdate[c] = {} /\ pend[c] = {} /\ toSet[c] = {}
  /\ Leave(c)
  /\ closed' = closed \cup listed[c]
  /\ UNCHANGED <<store, disturbed>>

\* A statement, a Set, the commit or the Exec returns an error, or the
\* process dies: what is not done is never done, an open sql.Tx rolls back.
Fail(c) ==
  /\ phase[c] # "idle"
  /\ Leave(c)
  /\ disturbed' = IF kind[c] = "revoke"
                  THEN disturbed \cup toUpdate[c] \cup toSet[c] ELSE disturbed
  /\ UNCHANGED <<store, closed>>

\* Mutant: DELETE ... WHERE revoked = true.
PurgeableWhenRevoked(s) == table[s] = "revoked"

\* DELETE ... WHERE expired_at < NOW() AND revoked = true: by PostgreSQL's
\* clock, not by the one PingByCache uses.
Purgeable(s) == table[s] = "revoked" /\ s \in overdue

PurgeInvalid(c) ==
  /\ phase[c] = "idle"
  /\ \E s \in Session : Purgeable(s)
  /\ \A s \in Session : Purgeable(s) => Unlocked(c, s)
  /\ table' = [s \in Session |-> IF Purgeable(s) THEN "purged" ELSE table[s]]
  /\ UNCHANGED <<cache, clocks, call, history>>

\* Redis drops an entry: its TTL ends, or memory runs out.
Evict(s) ==
  /\ cache[s] # "none"
  /\ cache' = [cache EXCEPT ![s] = "none"]
  /\ UNCHANGED <<table, clocks, call, history>>

\* expired_at passes, by the program's clock and by PostgreSQL's; nothing the
\* program runs ever moves it.
Expire(s) ==
  /\ s \notin expired
  /\ ahead => s \in overdue
  /\ expired' = expired \cup {s}
  /\ UNCHANGED <<table, cache, overdue, ahead, call, history>>

FallDue(s) ==
  /\ s \notin overdue
  /\ ~ahead => s \in expired
  /\ overdue' = overdue \cup {s}
  /\ UNCHANGED <<table, cache, expired, ahead, call, history>>

\* The steps of a call in progress.
Work(c) ==
  \/ \E s \in Session : ScanRow(c, s) \/ UpdateRow(c, s) \/ CacheSet(c, s)
  \/ EndScan(c) \/ Commit(c) \/ Return(c) \/ Fail(c)

Next ==
  \/ \E c \in Caller, s \in Session, tx \in BOOLEAN : Create(c, s, tx)
  \/ \E c \in Caller, a \in Account, tx \in BOOLEAN : RevokeAll(c, a, tx)
  \/ \E c \in Caller : Work(c) \/ PurgeInvalid(c)
  \/ \E s \in Session : Evict(s) \/ Expire(s) \/ FallDue(s)

\* A call in progress goes on until it returns, with nil or with an error.
Fairness == \A c \in Caller : WF_vars(Work(c))

Spec == Init /\ [][Next]_vars /\ Fairness

-----------------------------------------------------------------------------
(* Properties *)

\* Every variable has its type; the table never holds a row, and the cache
\* never an entry, that is not one of the three states of a session.
TypeOK ==
  /\ table \in [Session -> Row]
  /\ cache \in [Session -> Entry]
  /\ expired \subseteq Session
  /\ overdue \subseteq Session
  /\ ahead \in BOOLEAN
  /\ phase \in [Caller -> {"idle", "scan", "write"}]
  /\ kind \in [Caller -> {"none", "create", "revoke"}]
  /\ inTx \in [Caller -> BOOLEAN]
  /\ snap \in [Caller -> [Session -> {"absent", "live", "revoked"}]]
  /\ listed \in [Caller -> SUBSET Session]
  /\ toUpdate \in [Caller -> SUBSET Session]
  /\ pend \in [Caller -> SUBSET Session]
  /\ toSet \in [Caller -> SUBSET Session]
  /\ closed \subseteq Session
  /\ disturbed \subseteq Session

\* A session that PingByCache accepts has a row in the table, or had one that
\* PurgeInvalid deleted too early because PostgreSQL's clock is ahead: no
\* caller, by failing, racing with PurgeInvalid or rolling back, leaves an
\* entry without a row that is still accepted.  For callers that commit first.
AcceptedHasRow ==
  \A s \in Session :
    Accepts(s) => \/ table[s] \in {"live", "revoked"}
                  \/ table[s] = "purged" /\ ahead /\ s \in overdue

\* A session is refused as revoked only when its row is revoked or deleted:
\* the cache never runs ahead of the database.  For callers that commit first.
RevokedEntryHasRevokedRow ==
  \A s \in Session : cache[s] = "revoked" => table[s] \in {"revoked", "purged"}

\* Once RevokeAll has returned nil, no session that it listed has a row that
\* is not revoked, whatever other calls were and are in progress.
ClosedStayRevoked ==
  \A s \in closed : table[s] \in {"revoked", "purged"}

\* No step takes a row out of "revoked" but the purge of an overdue session,
\* although every writer stores the whole row from the copy it read earlier.
RevocationIsFinal ==
  [][\A s \in Session :
       /\ table[s] = "revoked" =>
            \/ table'[s] = "revoked"
            \/ table'[s] = "purged" /\ s \in overdue
       /\ table[s] = "purged" => table'[s] = "purged"]_vars

\* The row is revoked or deleted, the cached copy is not revoked.
Stale(s) == cache[s] = "live" /\ table[s] \in {"revoked", "purged"}

\* A RevokeAll in progress still has the session to revoke or to cache.
Revoking(s) ==
  \E c \in Caller : kind[c] = "revoke" /\ s \in toUpdate[c] \cup toSet[c]

\* A stale entry is the doing of a RevokeAll that is about to overwrite it,
\* unless a RevokeAll failed half-way or a Create wrote its entry late:
\* RevokeAlls that overlap do not leave each other's stale entries behind.
StaleHasCause == \A s \in Session : Stale(s) => s \in disturbed \/ Revoking(s)

\* An entry nobody disturbed does not stay stale.
StaleEnds ==
  \A s \in Session : Stale(s) ~> (~Stale(s) \/ s \in disturbed)

\* pkg/email/email.go:120, "revoke all running sessions": when RevokeAll
\* returns nil, every row its query matched is revoked or deleted.
RevokesAllRunning ==
  [][\A c \in Caller :
       Return(c) => \A s \in Session :
                      snap[c][s] = "live" => table[s] # "live"]_vars

-----------------------------------------------------------------------------
(* The inductive invariant *)

Dead(s) == table[s] \in {"revoked", "purged"}

\* What the sets of one call say of the call.
CallInv ==
  \A c \in Caller :
    /\ phase[c] = "idle" => kind[c] = "none"
    /\ phase[c] = "scan" => kind[c] = "revoke"
    /\ kind[c] # "revoke" => toUpdate[c] = {} /\ listed[c] = {}
    /\ kind[c] = "create" => \A s, t \in pend[c] : s = t
    /\ kind[c] = "none" \/ ~inTx[c] => pend[c] = {}
    /\ CommitFirst => pend[c] \subseteq toSet[c]

\* Two open transactions never hold statements for the same row.
LockInv ==
  \A c, d \in Caller : c # d => pend[c] \cap pend[d] = {}

\* What a call knows of the rows it works on, however old its knowledge is.
RowInv ==
  \A c \in Caller, s \in Session :
    /\ snap[c][s] # "absent" => table[s] # "absent"
    /\ snap[c][s] = "revoked" => Dead(s)
    /\ s \in listed[c] \cup toUpdate[c] => table[s] # "absent"
    /\ s \in listed[c] =>
         s \in toUpdate[c] \cup pend[c] \/ Dead(s)
    /\ kind[c] = "create" /\ s \in pend[c] => table[s] = "absent"
    /\ kind[c] # "create" /\ s \in pend[c] => table[s] # "absent"
    /\ s \in toSet[c] \ pend[c] =>
         IF kind[c] = "create" THEN table[s] # "absent" ELSE Dead(s)

\* The clocks pass expired_at in one order, and a purge has seen it pass.
ClockInv ==
  /\ ~ahead => overdue \subseteq expired
  /\ \A s \in Session : table[s] = "purged" => s \in overdue

\* What the cache says of the table when callers commit first.
CacheInv ==
  CommitFirst => /\ \A s \in Session : cache[s] # "none" => table[s] # "absent"
                 /\ RevokedEntryHasRevokedRow
                 /\ StaleHasCause

\* The invariant that the steps of Next preserve: it carries the properties
\* above from the query of a call to the last write of that call.
IInv ==
  /\ TypeOK /\ CallInv /\ LockInv /\ RowInv
  /\ ClockInv /\ ClosedStayRevoked /\ CacheInv

-----------------------------------------------------------------------------
\* The abstract store: PingByCache is what its users see of the cache.
Accepted == {s \in Session : Accepts(s)}
Store == INSTANCE SessionStore WITH status <- table, accepted <- Accepted
StoreSpec == Store!Spec
=============================================================================
