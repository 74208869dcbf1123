------------------------------- MODULE Tickets -------------------------------
(***************************************************************************)
(* The tickets of one account in <entity>_reset_password or                *)
(* <entity>_update_email, its running sessions, and callers whose calls    *)
(* request, spend, mark and delete tickets.  PasswordReset and EmailChange *)
(* extend this module: an operation of theirs is one of the calls below.   *)
(*                                                                         *)
(* A ticket is the place that its created_at has in the order of creation  *)
(* times.  One step is one statement.  A call has one of three forms:      *)
(*   "direct"  PasswordOps.X, EmailOps.X: each statement commits by itself; *)
(*   "tx"      WithTransaction.X with a pipeline: all statements go to the  *)
(*             caller's sql.Tx, which the caller commits after the call;   *)
(*   "mixed"   WithTransaction.X with a nil pipeline: the tickets are       *)
(*             written in the sql.Tx, but RevokeAll takes the direct form. *)
(* All reads see what is committed: they go through another connection.    *)
(***************************************************************************)
EXTENDS Integers

CONSTANTS
  Caller,        \* the goroutines that call the library
  Session,       \* the sessions ever opened for the account
  MaxTicket,     \* bound: how many tickets are ever made
  Forms          \* the forms in which the operations are called

ASSUME TicketsAssumption ==
  /\ MaxTicket \in Nat
  /\ Forms \subseteq {"direct", "tx", "mixed"}

VARIABLES
  made,      \* how many tickets were made: NewXRequest stamps them
  tickets,   \* the committed rows of the table
  marked,    \* the tickets whose row was UPDATEd (set processed)
  session,   \* session[s]: "new", "live" or "revoked"
  expired,   \* the tickets whose expired_at lies in the past
  call,      \* call[c]: the call that c is in the middle of
  pend,      \* pend[c]: what c's open sql.Tx has written
  \* History:
  author,    \* author[t]: who inserted ticket t
  spent,     \* the tickets with which a spending call returned nil
  owed,      \* owed[t]: the sessions to be closed by the calls that spent or
             \* marked t: call[c].before of each
  broken     \* the tickets spent or marked by a direct call that failed later

store == <<tickets, marked, session>>
history == <<author, spent, owed, broken>>
tvars == <<made, store, expired, call, pend, history>>

Ticket == 1..MaxTicket
Live == {s \in Session : session[s] = "live"}

\* The statement that a call is about to execute; "deleting" is the wait of a
\* DELETE for the rows of its snapshot.
Label == {"idle", "delete", "deleting", "create", "mark", "list", "revoke", "end"}

\* What the call will do: "request" a ticket; "spend" one (delete, revoke the
\* sessions); "mark" one (update, revoke the sessions); "change" something
\* without a ticket (revoke the sessions); "discard" all tickets.
Op == {"none", "request", "spend", "mark", "change", "discard"}

\* mine: the ticket found or made; seen: the snapshot of a DELETE; listed: what
\* RevokeAll has listed; before: the sessions that were live at the beginning,
\* but for those whose row the result set has lost.
Started(op, label, f, t, S) ==
  [at |-> label, op |-> op, form |-> f, mine |-> t, seen |-> {}, listed |-> {},
   before |-> S]

Idle == Started("none", "idle", "direct", 0, {})

\* Rows deleted, updated and inserted, and sessions revoked.
NoWrites == [del |-> {}, upd |-> {}, ins |-> {}, close |-> {}]

Init ==
  /\ made = 0 /\ tickets = {} /\ marked = {} /\ expired = {}
  /\ session = [s \in Session |-> "new"]
  /\ call = [c \in Caller |-> Idle]
  /\ pend = [c \in Caller |-> NoWrites]
  /\ author = [t \in Ticket |-> "nobody"]
  /\ spent = {} /\ broken = {}
  /\ owed = [t \in Ticket |-> {}]

-----------------------------------------------------------------------------
(* Statements *)

At(c, label) == call[c].at = label
InTx(c) == call[c].form # "direct"

\* A row that an open transaction has deleted or updated is locked.
Unlocked(c, T) ==
  \A d \in Caller \ {c} : T \cap (pend[d].del \cup pend[d].upd) = {}

\* FindRequest: ORDER BY created_at DESC LIMIT 1.
Newest(t) == t \in tickets /\ \A u \in tickets : u <= t

\* The writes w become visible to everyone.
Apply(w) ==
  /\ tickets' = (tickets \ w.del) \cup w.ins
  /\ marked' = marked \cup (w.upd \cap tickets)
  /\ session' = [s \in Session |-> IF s \in w.close THEN "revoked" ELSE session[s]]

\* The writes w of c: in its transaction, or committed at once.
Write(c, buffered, w) ==
  IF buffered
  THEN /\ pend' = [pend EXCEPT ![c] =
                     [del |-> @.del \cup w.del, upd |-> @.upd \cup w.upd,
                      ins |-> @.ins \cup w.ins, close |-> @.close \cup w.close]]
       /\ UNCHANGED store
  ELSE Apply(w) /\ UNCHANGED pend

\* The sessions that were live when c began are to be closed if c's spending
\* or marking of its ticket is committed now.
Owe(c) ==
  owed' = IF call[c].mine = 0 THEN owed
          ELSE [owed EXCEPT ![call[c].mine] = @ \cup call[c].before]

-----------------------------------------------------------------------------
(* The first step of a call *)

\* Mutant: an expired ticket is left in the table beside its successor.
AfterExpiredNoDelete == "create"

\* An expired ticket makes a request delete all tickets first.
AfterExpired == "delete"

\* NewXRequest gives the ticket its created_at before the INSERT.
MakeFirst(c, f) ==
  /\ made < MaxTicket
  /\ made' = made + 1
  /\ call' = [call EXCEPT ![c] = Started("request", "create", f, made + 1, {})]

\* requestX, up to its first write.  A ticket that has not expired is
\* returned as it is and nothing changes.
RequestFind(c, f) ==
  /\ At(c, "idle")
  /\ \/ tickets = {} /\ MakeFirst(c, f)
     \/ /\ \E t \in expired : Newest(t)
        /\ IF AfterExpired = "create"
           THEN MakeFirst(c, f)
           ELSE /\ call' = [call EXCEPT ![c] = Started("request", "delete", f, 0, {})]
                /\ UNCHANGED made
  /\ UNCHANGED <<store, expired, pend, history>>

\* A call that goes on, with ticket t or with 0 for none; the sessions in S are
\* those it will have to close.
Begin(c, f, op, label, t, S) ==
  /\ At(c, "idle")
  /\ call' = [call EXCEPT ![c] = Started(op, label, f, t, S)]
  /\ UNCHANGED <<made, store, expired, pend, history>>

\* Mutant: the error of FindRequest is overlooked, and the ticket is empty.
SpendAnyway(c, f, t) ==
  IF tickets = {} THEN Begin(c, f, "spend", "delete", 0, Live)
                  ELSE Newest(t) /\ Begin(c, f, "spend", "delete", t, Live)

\* The four beginnings, once the newest ticket has been looked at.
Spend(c, f, t) == Newest(t) /\ Begin(c, f, "spend", "delete", t, Live)
MarkFound(c, f, t) == Newest(t) /\ Begin(c, f, "mark", "mark", t, Live)
Change(c, f) == Begin(c, f, "change", "list", 0, Live)
Discard(c, f) == Begin(c, f, "discard", "delete", 0, {})

-----------------------------------------------------------------------------
(* The steps of a call in progress *)

\* Mutant: DELETE ... WHERE account_uuid AND expired_at < NOW().
MatchedExpired == tickets \cap expired

\* The rows that DELETE ... WHERE account_uuid matches in its snapshot.
Matched == tickets

\* DELETE begins: rows committed after its snapshot are not for it.
StartDelete(c) ==
  /\ At(c, "delete")
  /\ call' = [call EXCEPT ![c].at = "deleting", ![c].seen = Matched]
  /\ UNCHANGED <<made, store, expired, pend, history>>

\* DELETE ends when no other transaction holds a row of its snapshot, and
\* deletes those that are still there.
EndDelete(c) ==
  /\ At(c, "deleting") /\ Unlocked(c, call[c].seen)
  /\ Write(c, InTx(c), [NoWrites EXCEPT !.del = call[c].seen \cap tickets])
  /\ \/ /\ call[c].op = "request" /\ made < MaxTicket
        /\ made' = made + 1
        /\ call' = [call EXCEPT ![c].at = "create", ![c].seen = {}, ![c].mine = made + 1]
        /\ UNCHANGED owed
     \/ /\ call[c].op = "spend"
        /\ call' = [call EXCEPT ![c].at = "list", ![c].seen = {}]
        /\ IF InTx(c) THEN UNCHANGED owed ELSE Owe(c)
        /\ UNCHANGED made
     \/ /\ call[c].op = "discard"
        /\ call' = [call EXCEPT ![c].at = "end", ![c].seen = {}]
        /\ UNCHANGED <<made, owed>>
  /\ UNCHANGED <<expired, author, spent, broken>>

\* INSERT of the ticket just made.
Insert(c) ==
  /\ At(c, "create")
  /\ Write(c, InTx(c), [NoWrites EXCEPT !.ins = {call[c].mine}])
  /\ author' = [author EXCEPT ![call[c].mine] = c]
  /\ call' = [call EXCEPT ![c].at = "end"]
  /\ UNCHANGED <<made, expired, spent, owed, broken>>

\* Mutant: UPDATE ... WHERE account_uuid.
UpdatedAll(c) == tickets

\* The rows of UPDATE ... WHERE uuid: none, and no error, if it was deleted.
Updated(c) == {call[c].mine} \cap tickets

Mark(c) ==
  /\ At(c, "mark") /\ Unlocked(c, Updated(c))
  /\ Write(c, InTx(c), [NoWrites EXCEPT !.upd = Updated(c)])
  /\ call' = [call EXCEPT ![c].at = "list"]
  /\ IF InTx(c) THEN UNCHANGED owed ELSE Owe(c)
  /\ UNCHANGED <<made, expired, author, spent, broken>>

\* Outside a transaction a call has already spent or marked its ticket when
\* it comes to RevokeAll.
Committed(c) ==
  /\ call[c].form = "direct" /\ call[c].op \in {"spend", "mark"}
  /\ call[c].at \in {"list", "revoke"}

\* Mutant: RevokeAll takes the sessions of the cache, which evicts.
ListableCached == SUBSET Live

\* The rows of FindManyByAccount's result set, of which those of sessions that
\* are revoked already make no difference.
Listable == {Live}

\* FindManyByAccount lists these rows, or loses some when the result set breaks
\* off.  RevokeAll notices nothing, so the call does not close what is lost.
RevokeList(c) ==
  /\ At(c, "list")
  /\ \E rows \in Listable : \E lost \in SUBSET rows :
       /\ call' = [call EXCEPT ![c].at = "revoke", ![c].listed = rows \ lost,
                                ![c].before = @ \ lost]
       /\ owed' = IF Committed(c) THEN [owed EXCEPT ![call[c].mine] = @ \ lost]
                                  ELSE owed
  /\ UNCHANGED <<made, store, expired, pend, author, spent, broken>>

\* RevokeAll revokes what it listed; module Sessions has the detail.
RevokeListed(c) ==
  /\ At(c, "revoke")
  /\ \A d \in Caller \ {c} : pend[d].close \cap call[c].listed = {}
  /\ Write(c, call[c].form = "tx", [NoWrites EXCEPT !.close = call[c].listed])
  /\ call' = [call EXCEPT ![c].at = "end"]
  /\ UNCHANGED <<made, expired, history>>

\* The call returns nil, and the caller commits what it has open.
End(c) ==
  /\ At(c, "end")
  /\ Apply(pend[c])
  /\ pend' = [pend EXCEPT ![c] = NoWrites]
  /\ call' = [call EXCEPT ![c] = Idle]
  /\ spent' = IF call[c].op = "spend" THEN spent \cup {call[c].mine} ELSE spent
  /\ IF InTx(c) /\ call[c].op \in {"spend", "mark"} THEN Owe(c) ELSE UNCHANGED owed
  /\ UNCHANGED <<made, expired, author, broken>>

\* A statement or the commit returns an error or the process dies: the rest
\* is never done and an open sql.Tx rolls back.  A RevokeAll outside the
\* transaction may have revoked a part of its list.
Fail(c) ==
  /\ ~At(c, "idle")
  /\ \E S \in SUBSET (IF At(c, "revoke") /\ call[c].form # "tx" THEN call[c].listed
                                                                 ELSE {}) :
       Apply([NoWrites EXCEPT !.close = S])
  /\ pend' = [pend EXCEPT ![c] = NoWrites]
  /\ call' = [call EXCEPT ![c] = Idle]
  /\ broken' = IF Committed(c) THEN broken \cup {call[c].mine} ELSE broken
  /\ UNCHANGED <<made, expired, author, spent, owed>>

Work(c) ==
  \/ StartDelete(c) \/ EndDelete(c) \/ Insert(c) \/ Mark(c)
  \/ RevokeList(c) \/ RevokeListed(c) \/ End(c) \/ Fail(c)

-----------------------------------------------------------------------------
(* The surroundings *)

\* Authentication opens a session, at any time.
Login(s) ==
  /\ session[s] = "new"
  /\ session' = [session EXCEPT ![s] = "live"]
  /\ UNCHANGED <<made, tickets, marked, expired, call, pend, history>>

\* A row may expire at any time, also as soon as it is inserted.
Expire(t) ==
  /\ t \in tickets /\ t \notin expired
  /\ expired' = expired \cup {t}
  /\ UNCHANGED <<made, store, call, pend, history>>

Surroundings == (\E s \in Session : Login(s)) \/ (\E t \in Ticket : Expire(t))

\* Every step of PasswordReset and of EmailChange is one of these.
TicketNext ==
  \/ \E c \in Caller, f \in Forms :
       \/ RequestFind(c, f) \/ Change(c, f) \/ Discard(c, f)
       \/ \E t \in Ticket : Spend(c, f, t) \/ MarkFound(c, f, t)
  \/ \E c \in Caller : Work(c)
  \/ Surroundings

-----------------------------------------------------------------------------
(* Properties *)

\* What is in pend[c] and call[c].
Writes == [del : SUBSET (1..made), upd : SUBSET (1..made), ins : SUBSET (1..made),
           close : SUBSET Session]
Calls == [at : Label, op : Op, form : {"direct", "tx", "mixed"}, mine : 0..made,
          seen : SUBSET (1..made), listed : SUBSET Session, before : SUBSET Session]

\* Every variable has its type; only tickets that were made are stored.
TypeOK ==
  /\ made \in 0..MaxTicket
  /\ tickets \subseteq 1..made /\ expired \subseteq 1..made /\ marked \subseteq 1..made
  /\ spent \subseteq 1..made /\ broken \subseteq 1..made
  /\ session \in [Session -> {"new", "live", "revoked"}]
  /\ call \in [Caller -> Calls]
  /\ pend \in [Caller -> Writes]
  /\ author \in [Ticket -> Caller \cup {"nobody"}]
  /\ owed \in [Ticket -> SUBSET Session]

\* Requests that race may each insert a ticket, but however they interleave
\* with deletions, expiry and transactions that commit late or roll back, no
\* caller has two tickets in the table: there are never more than callers.
OneTicketPerCaller == \A t, u \in tickets : author[t] = author[u] => t = u

\* A ticket that was spent (a password reset, an email change taken back) is
\* out of the table for good: no late insert or rollback brings it back.
SpentAreGone == spent \cap tickets = {}

\* Who spends or marks a ticket in a transaction closes the sessions that were
\* live at the beginning together with it, or neither; a direct call closes
\* them afterwards, unless it fails in between.  Excepted are the sessions that
\* a result set lost when it broke off.
SpendingCloses ==
  \A t \in Ticket \ broken : \A s \in owed[t] :
    \/ session[s] = "revoked"
    \/ \E c \in Caller : Committed(c) /\ call[c].mine = t

\* A call that revokes sessions and returns nil, and whose caller's commit
\* succeeds, leaves none of the sessions live that were live when it began,
\* whoever logs in, fails or revokes in another transaction meanwhile, but for
\* those that a result set lost when it broke off: of these nil says nothing.
NilCloses ==
  [][\A c \in Caller :
       End(c) => \A s \in call[c].before : session'[s] = "revoked"]_tvars

-----------------------------------------------------------------------------
(* The inductive invariant *)

\* What a call's label, operation and form say of each other and of pend.
CallOK(c) ==
  /\ At(c, "idle") => call[c].op = "none"
  /\ ~InTx(c) \/ At(c, "idle") => pend[c] = NoWrites
  /\ call[c].form # "tx" => pend[c].close = {}
  /\ At(c, "mark") => call[c].op = "mark"
  /\ At(c, "create") => call[c].op = "request"
  /\ call[c].at \in {"delete", "deleting"} => call[c].op \in {"request", "spend", "discard"}
  /\ call[c].at \in {"list", "revoke"} => call[c].op \in {"spend", "mark", "change"}
  /\ call[c].op \in {"spend", "mark"} => call[c].mine # 0
  /\ call[c].op \in {"none", "request", "discard"} => call[c].before = {}
  /\ ~At(c, "end") => pend[c].ins = {} /\ pend[c].close = {}
  /\ pend[c].ins \in {{}, {call[c].mine}}
  /\ pend[c].ins # {} => call[c].op = "request" /\ author[call[c].mine] = c

CallInv == \A c \in Caller : CallOK(c)

\* c has made a ticket that is not in the table yet.
Fresh(c) == At(c, "create") \/ pend[c].ins # {}

\* Such a ticket is known to nobody else; the tickets that its author has in
\* the table are those that its open transaction deletes.
FreshInv ==
  \A c \in Caller :
    /\ Fresh(c) =>
         /\ call[c].mine \in Ticket \ (tickets \cup spent)
         /\ \A t \in tickets : author[t] = c => t \in pend[c].del
         /\ \A d \in Caller \ {c} : call[d].mine # call[c].mine
    /\ At(c, "deleting") /\ call[c].op = "request" =>
         \A t \in tickets : author[t] = c => t \in call[c].seen

\* A spent ticket is among those that the call's DELETE matches, or gone.
SpentInv ==
  \A c \in Caller :
    call[c].op = "spend" /\ call[c].mine \in tickets =>
      /\ At(c, "deleting") => call[c].mine \in call[c].seen
      /\ call[c].at \in {"list", "revoke", "end"} => call[c].mine \in pend[c].del

\* The sessions that were live when a call began stay known until it ends.
Closing ==
  \A c \in Caller : \A s \in call[c].before :
    /\ session[s] # "new"
    /\ At(c, "revoke") => s \in call[c].listed \/ session[s] = "revoked"
    /\ At(c, "end") => s \in pend[c].close \/ session[s] = "revoked"

\* SpendingCloses, with the call that a session is owed by.
OwedInv ==
  \A t \in Ticket \ broken : \A s \in owed[t] :
    \/ session[s] = "revoked"
    \/ \E c \in Caller : Committed(c) /\ call[c].mine = t /\ s \in call[c].before

\* Only direct calls break off between the ticket and the sessions.
FormInv ==
  /\ \A c \in Caller : At(c, "idle") \/ call[c].form \in Forms
  /\ "direct" \notin Forms => broken = {}

\* What every step of TicketNext preserves.
TInv ==
  /\ TypeOK /\ CallInv /\ FreshInv /\ SpentInv /\ Closing /\ OwedInv /\ FormInv
  /\ OneTicketPerCaller /\ SpentAreGone

-----------------------------------------------------------------------------
(* Refinement *)

\* A ticket that its maker has not inserted yet is not known to the store, nor
\* is one in an open transaction.
Status(t) ==
  IF t \in tickets THEN "stored"
  ELSE IF t > made \/ \E c \in Caller : Fresh(c) /\ call[c].mine = t THEN "new"
  ELSE "gone"

Store == INSTANCE TicketStore
           WITH status <- [t \in Ticket |-> Status(t)],
                closed <- {s \in Session : session[s] = "revoked"}

\* Whatever calls are in progress, in whichever forms, what others see of the
\* table and of the sessions is the work of commits, one after the other: no
\* ticket comes back after it was deleted, none is marked or spent that was not
\* in the table, and none is spent that stays in it.
StoreSpec == Store!Spec
=============================================================================
