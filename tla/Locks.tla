-------------------------------- MODULE Locks --------------------------------
(***************************************************************************)
(* The rows of one account that concurrent calls lock, in the order in     *)
(* which the packages password, email, session, verification and account   *)
(* write them.  PostgreSQL keeps a written row locked until its            *)
(* transaction ends; it breaks a cycle of waiting transactions by          *)
(* aborting one of them.                                                   *)
(*                                                                         *)
(* Forms of a call: "direct", each statement commits by itself; "tx", all  *)
(* statements in the caller's sql.Tx; "mixed", in a sql.Tx but without a   *)
(* pipeline, so that AccountOps.Update and RevokeAll take the direct form. *)
(*                                                                         *)
(* The rows that one account has in a table of tickets count as one row:   *)
(* one statement locks them all, in the order of the table.  A transaction *)
(* holds one call of the library.  Ping, Revoke and Refresh of a session   *)
(* fail before their first write (module ReadPool).                        *)
(***************************************************************************)
EXTENDS Integers

CONSTANTS
  Caller,    \* the goroutines that call the library
  Session,   \* the sessions of the account
  Depth,     \* an upper bound of the places in a listing
  Listings,  \* the orders in which a SELECT without ORDER BY may list them
  Listed,    \* the sets of sessions that it may find
  Forms      \* Forms[c]: the forms in which c calls the operations

Others == {"account", "tickets", "mail", "code"}
Row == Others \cup Session

ASSUME LocksAssumption ==
  /\ Depth \in Nat \ {0}
  /\ Listings \subseteq [Session -> 1..Depth] /\ Listed \subseteq SUBSET Session
  /\ \A p \in Listings : \A s, t \in Session : p[s] = p[t] => s = t
  /\ Forms \in [Caller -> SUBSET {"direct", "tx", "mixed"}]
  /\ Session \cap Others = {}

VARIABLE call   \* call[c]: the call that c is in the middle of

-----------------------------------------------------------------------------
(* The order of the statements of a call *)

\* Mutant: confirmEmailChange revokes the sessions before it marks the ticket.
TicketPlaceLast(k) == IF k.op = "confirm" THEN Depth + 3 ELSE 1

\* The tickets are written before the sessions are revoked.
TicketPlace(k) == 1

\* A change of the password updates the account after the sessions, all other
\* operations before anything else.
AccountPlace(k) == IF k.op = "change" THEN Depth + 3 ELSE 0

\* When call k locks row r.
Place(k, r) ==
  CASE r \in Session -> 2 + k.order[r]
    [] r = "account" -> AccountPlace(k)
    [] r = "code" -> Depth + 4
    [] OTHER -> TicketPlace(k)

\* Mutant: only RevokeAll takes the direct form without a pipeline.
OwnWithAccount(k, r) ==
  \/ k.form = "tx" \/ k.op = "purge"
  \/ k.form = "mixed" /\ r \notin Session

\* The lock of row r is kept beyond the statement.  PurgeInvalid is a single
\* statement over many rows.
Own(k, r) ==
  \/ k.form = "tx" \/ k.op = "purge"
  \/ k.form = "mixed" /\ r \in {"tickets", "mail", "code"}

-----------------------------------------------------------------------------
(* The operations *)

Busy(c) == call[c].op # "none"

\* The rows still to be locked, and those that are held.
Call(op, f, p, R) == [op |-> op, form |-> f, order |-> p, left |-> R, held |-> {}]

\* The order of a call that lists no sessions.
Unordered == [s \in Session |-> 1]

Idle == Call("none", "direct", Unordered, {})

Begin(c, op, f, p, R) ==
  ~Busy(c) /\ call' = [call EXCEPT ![c] = Call(op, f, p, R)]

\* validateResetPassword: the account, the tickets, the sessions S.
ValidateResetPassword(c, f, p, S) == Begin(c, "reset", f, p, {"account", "tickets"} \cup S)

\* updateResetPasswordRequest: the sessions, the account.
UpdateResetPasswordRequest(c, f, p, S) == Begin(c, "change", f, p, {"account"} \cup S)

\* confirmEmailChange: the ticket, the sessions.
ConfirmEmailChange(c, f, p, S) == Begin(c, "confirm", f, p, {"mail"} \cup S)

\* revokeEmailChange: the tickets, the sessions.
RevokeEmailChange(c, f, p, S) == Begin(c, "takeBack", f, p, {"mail"} \cup S)

\* revokeAll: one UPDATE after the other, in the order of the listing.
RevokeAll(c, f, p, S) == Begin(c, "revokeAll", f, p, S)

\* PurgeInvalid: one DELETE, in the order of the scan.
PurgeInvalid(c, f, p, S) == Begin(c, "purge", f, p, S)

\* verify: the account, the code.
Verify(c, f) == Begin(c, "verify", f, Unordered, {"account", "code"})

\* AccountOps.update, and delete.
Update(c, f) == Begin(c, "update", f, Unordered, {"account"})

\* Deletions, of requests over expired tickets too.
DeleteTickets(c, f) == \E r \in {"tickets", "mail"} : Begin(c, "discard", f, Unordered, {r})

\* Only the first five take a pipeline that may be missing in a transaction.
Start(c) ==
  \/ \E f \in Forms[c], p \in Listings, S \in Listed :
       \/ ValidateResetPassword(c, f, p, S) \/ UpdateResetPasswordRequest(c, f, p, S)
       \/ ConfirmEmailChange(c, f, p, S) \/ RevokeEmailChange(c, f, p, S)
  \/ \E f \in Forms[c] : Verify(c, f)
  \/ \E f \in Forms[c] \ {"mixed"} :
       \/ \E p \in Listings, S \in Listed :
            RevokeAll(c, f, p, S) \/ PurgeInvalid(c, f, p, S)
       \/ Update(c, f) \/ DeleteTickets(c, f)

-----------------------------------------------------------------------------
(* Locks *)

\* The row of the statement that c is executing.
Wants(c, r) ==
  /\ r \in call[c].left
  /\ \A q \in call[c].left : Place(call[c], r) <= Place(call[c], q)

WaitsFor(c, d) == c # d /\ \E r \in call[d].held : Wants(c, r)

\* Mutant: calls of the same operation share their locks.
FreeForSame(c, r) ==
  \A d \in Caller \ {c} : r \in call[d].held => call[d].op = call[c].op

\* Nobody else has written the row in an open transaction.
Free(c, r) == \A d \in Caller \ {c} : r \notin call[d].held

\* c's statement gets its row, and goes on to the next.
Lock(c, r) ==
  /\ Wants(c, r) /\ Free(c, r)
  /\ call' = [call EXCEPT ![c].left = @ \ {r},
                          ![c].held = IF Own(call[c], r) THEN @ \cup {r} ELSE @]

\* Mutant: the caller's transaction stays open.
EndWithoutCommit(c) ==
  /\ Busy(c) /\ call[c].left = {}
  /\ call' = [call EXCEPT ![c] = [Idle EXCEPT !.held = call[c].held]]

\* The call has returned, and the caller has committed.
End(c) ==
  /\ Busy(c) /\ call[c].left = {}
  /\ call' = [call EXCEPT ![c] = Idle]

\* A statement fails, and the caller rolls back.
Fail(c) == Busy(c) /\ call' = [call EXCEPT ![c] = Idle]

\* Everyone in S waits for someone in S, so that nobody in S goes on.
Deadlocked(S) == S # {} /\ \A c \in S : \E d \in S : WaitsFor(c, d)

\* A cycle.
Cycle(S) == Deadlocked(S) /\ \A T \in SUBSET S : Deadlocked(T) => T = S

\* The statement that c waits in belongs to the transaction that holds c's
\* rows: the database does not know of other connections of the same caller.
Seen(c) == \E r \in Row : Wants(c, r) /\ Own(call[c], r)

\* The database makes the statement of a transaction in a cycle fail.
Detect(c) ==
  /\ \E S \in SUBSET Caller : c \in S /\ Cycle(S) /\ \A d \in S : Seen(d)
  /\ Fail(c)

Init == call = [c \in Caller |-> Idle]

\* The call goes on, returns, or is made to fail.
Step(c) == (\E r \in Row : Lock(c, r)) \/ End(c) \/ Detect(c)

Next == \E c \in Caller : Start(c) \/ Step(c) \/ Fail(c)

\* Rows are granted in the order of their queues, transactions in a cycle are
\* aborted, and callers whose call has returned commit.
Fairness == \A c \in Caller : SF_call(Step(c))

Spec == Init /\ [][Next]_call
FairSpec == Spec /\ Fairness

-----------------------------------------------------------------------------
(* Properties *)

Operation == {"none", "reset", "change", "confirm", "takeBack", "revokeAll", "purge",
              "verify", "update", "discard"}

\* Every call is of its type, and two calls never hold the same row.
TypeOK ==
  /\ call \in [Caller -> [op : Operation, form : {"direct", "tx", "mixed"},
                          order : [Session -> Nat], left : SUBSET Row, held : SUBSET Row]]
  /\ \A c, d \in Caller : c # d => call[c].held \cap call[d].held = {}

\* The operations that lock several sessions.
Many == {"reset", "change", "confirm", "takeBack", "revokeAll", "purge"}

\* A deadlock has one of two causes: two of its calls lock the sessions in
\* different orders, or one changes the password, account last, while another
\* resets it, account first.  All other calls can run at the same time.
DeadlocksHaveCause ==
  \A S \in SUBSET Caller : Deadlocked(S) =>
    \/ \E c, d \in S : /\ call[c].op \in Many /\ call[d].op \in Many
                       /\ call[c].order # call[d].order
    \/ \E c, d \in S : call[c].op = "change" /\ call[d].op = "reset"

\* A cycle in which a call without a pipeline waits outside its transaction,
\* and which the database therefore cannot detect, needs a reset and a change
\* of the password in transactions, and a reset without a pipeline.
UnseenHaveCause ==
  \A S \in SUBSET Caller : Cycle(S) /\ (\E c \in S : ~Seen(c)) =>
    /\ \E c \in S : call[c].op = "reset" /\ call[c].form = "mixed"
    /\ \E c \in S : call[c].op = "reset" /\ call[c].form = "tx"
    /\ \E c \in S : call[c].op = "change" /\ call[c].form = "tx"

\* Every call ends, with or without an error, whoever waits for whom, unless
\* somewhere a cycle arises that the database cannot detect and whose calls,
\* which UnseenHaveCause names, wait until somebody cancels one of them.
CallsEnd ==
  \A c \in Caller :
    Busy(c) ~> \/ ~Busy(c)
               \/ \E S \in SUBSET Caller : Cycle(S) /\ \E d \in S : ~Seen(d)

-----------------------------------------------------------------------------
(* The inductive invariant *)

\* The rows that an operation may lock.
RowsOf(op) ==
  {r \in Row :
    \/ r \in Session /\ op \in Many
    \/ r = "account" /\ op \in {"reset", "change", "verify", "update"}
    \/ r = "tickets" /\ op \in {"reset", "discard"}
    \/ r = "mail" /\ op \in {"confirm", "takeBack", "discard"}
    \/ r = "code" /\ op = "verify"}

\* Call k holds only rows that come before those it still has to lock.
CallOK(k) ==
  /\ k.order \in [Session -> 1..Depth]
  /\ k.left \cup k.held \subseteq RowsOf(k.op)
  /\ \A q, r \in k.left : Place(k, q) = Place(k, r) => q = r
  /\ \A h \in k.held : Own(k, h) /\ \A r \in k.left : Place(k, h) < Place(k, r)
  /\ k.op \in {"update", "discard"} => \A q, r \in k.left \cup k.held : q = r

LInv == TypeOK /\ \A c \in Caller : CallOK(call[c])
=============================================================================
