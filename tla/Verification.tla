---------------------------- MODULE Verification ----------------------------
(***************************************************************************)
(* The verification of the email address of one account                    *)
(* (pkg/verification): the rows of <entity>_verification, which nothing    *)
(* makes unique by account, and callers that request, resend and verify.   *)
(*                                                                         *)
(* A row is the place that its creation has in the order of creations.  A  *)
(* call is "direct", or in a transaction of the caller: "tx" with a redis  *)
(* pipeline, "mixed" without one, which updates the account directly.      *)
(* FindByAccount reads through another connection: it sees what is         *)
(* committed, and returns any of several rows.                             *)
(***************************************************************************)
EXTENDS Integers

CONSTANTS
  Caller,   \* the goroutines that call the library
  MaxRow,   \* bound: how many rows are ever made
  Forms     \* the forms in which the operations are called

ASSUME VerificationAssumption ==
  MaxRow \in Nat /\ Forms \subseteq {"direct", "tx", "mixed"}

VARIABLES
  made,     \* how many rows were made
  rows,     \* the committed rows
  call,     \* call[c]: what c is in the middle of
  pend,     \* pend[c]: the rows that c's open transaction inserts and deletes
  \* History:
  author,   \* author[r]: who inserted row r
  blind,    \* the rows made by a request that could not read the table
  used      \* the rows with which a verification was committed

vars == <<made, rows, call, pend, author, blind, used>>

Row == 1..MaxRow

Idle == [at |-> "idle", op |-> "none", form |-> "direct", row |-> 0]
NoWrites == [ins |-> {}, del |-> {}]

Init ==
  /\ made = 0 /\ rows = {} /\ blind = {} /\ used = {}
  /\ call = [c \in Caller |-> Idle]
  /\ pend = [c \in Caller |-> NoWrites]
  /\ author = [r \in Row |-> "nobody"]

-----------------------------------------------------------------------------
At(c, label) == call[c].at = label
InTx(c) == call[c].form # "direct"
Go(c, label) == call' = [call EXCEPT ![c].at = label]

\* The first step of a call, with the row that it is about.
Begin(c, f, op, label, r) ==
  /\ At(c, "idle")
  /\ call' = [call EXCEPT ![c] = [at |-> label, op |-> op, form |-> f, row |-> r]]
  /\ UNCHANGED <<rows, pend, author, used>>

\* NewVerification.
Make(c, f) ==
  /\ made < MaxRow
  /\ made' = made + 1
  /\ Begin(c, f, "make", "create", made + 1)

\* request returns the error when there is no row, and the row when there is
\* one: only when the query fails with another error does it insert a row.
RequestBlind(c, f) == Make(c, f) /\ blind' = blind \cup {made + 1}

\* Mutant: resend inserts a row beside the one that it has found.
NotFoundIgnored == TRUE

\* VerificationNotFound.
NotFound == rows = {}

\* resend inserts the first row; a row that it finds, it updates.  When the
\* query fails with another error it panics: nothing has changed yet.
Resend(c, f) ==
  \/ NotFound /\ Make(c, f) /\ UNCHANGED blind
  \/ \E r \in rows : Begin(c, f, "resend", "update", r) /\ UNCHANGED <<made, blind>>

\* Mutant: verify goes on with the empty row when it has found none.
VerifyAnyway(c, f) ==
  \E r \in rows \cup {0} : Begin(c, f, "verify", "account", r) /\ UNCHANGED <<made, blind>>

\* verify with the code of the row that it has read.
Verify(c, f) ==
  \E r \in rows : Begin(c, f, "verify", "account", r) /\ UNCHANGED <<made, blind>>

-----------------------------------------------------------------------------
\* INSERT.  The UPDATE of a resend has no such step: the table has no column
\* verification_hash, so that it can only Fail.
Insert(c) ==
  /\ At(c, "create") /\ Go(c, "end")
  /\ author' = [author EXCEPT ![call[c].row] = c]
  /\ IF InTx(c) THEN pend' = [pend EXCEPT ![c].ins = {call[c].row}] /\ UNCHANGED rows
                ELSE rows' = rows \cup {call[c].row} /\ UNCHANGED pend
  /\ UNCHANGED <<made, blind, used>>

\* A verification in a transaction keeps the row of the account locked.
HoldsAccount(c) == call[c].form = "tx" /\ call[c].op = "verify" /\ ~At(c, "account")

\* AccountOps.Update, which changes nothing in the row (module Accounts).
UpdateAccount(c) ==
  /\ At(c, "account") /\ Go(c, "delete")
  /\ \A d \in Caller \ {c} : ~HoldsAccount(d)
  /\ UNCHANGED <<made, rows, pend, author, blind, used>>

\* Mutant: DELETE of the newest row of the account.
DeletedNewest(c) == {r \in rows : \A u \in rows : u <= r}

\* DELETE ... WHERE uuid: no row, and no error, when it is gone.
Deleted(c) == {call[c].row} \cap rows

Delete(c) ==
  /\ At(c, "delete") /\ Go(c, "end")
  /\ \A d \in Caller \ {c} : call[c].row \notin pend[d].del
  /\ IF InTx(c) THEN pend' = [pend EXCEPT ![c].del = Deleted(c)] /\ UNCHANGED rows
                ELSE rows' = rows \ Deleted(c) /\ UNCHANGED pend
  /\ UNCHANGED <<made, author, blind, used>>

\* The call returns, a verification with its access token, and the caller
\* commits.
End(c) ==
  /\ At(c, "end")
  /\ rows' = (rows \ pend[c].del) \cup pend[c].ins
  /\ call' = [call EXCEPT ![c] = Idle]
  /\ pend' = [pend EXCEPT ![c] = NoWrites]
  /\ used' = IF call[c].op = "verify" THEN used \cup {call[c].row} ELSE used
  /\ UNCHANGED <<made, author, blind>>

\* A statement or the commit fails, or the process dies.
Fail(c) ==
  /\ ~At(c, "idle")
  /\ call' = [call EXCEPT ![c] = Idle]
  /\ pend' = [pend EXCEPT ![c] = NoWrites]
  /\ UNCHANGED <<made, rows, author, blind, used>>

Next ==
  \E c \in Caller :
    \/ \E f \in Forms : RequestBlind(c, f) \/ Resend(c, f) \/ Verify(c, f)
    \/ Insert(c) \/ UpdateAccount(c) \/ Delete(c) \/ End(c) \/ Fail(c)

Spec == Init /\ [][Next]_vars

-----------------------------------------------------------------------------
(* Properties *)

\* What a caller may be in the middle of.
Calls == [at : {"idle", "create", "update", "account", "delete", "end"},
          op : {"none", "make", "resend", "verify"}, form : {"direct", "tx", "mixed"},
          row : 0..made]

\* Only rows that were made are stored, and each variable has its type.
TypeOK ==
  /\ made \in 0..MaxRow
  /\ rows \subseteq 1..made /\ used \subseteq 1..made /\ blind \subseteq 1..made
  /\ call \in [Caller -> Calls]
  /\ pend \in [Caller -> [ins : SUBSET (1..made), del : SUBSET (1..made)]]
  /\ author \in [Row -> Caller \cup {"nobody"}]

\* An account may have several codes, but not without end: apart from those of
\* a request that could not read the table, no caller has two of them there.
OneRowPerCaller ==
  \A r, u \in rows \ blind : author[r] = author[u] => r = u

\* A code with which the address was verified is gone for good, whatever
\* inserts and deletions come late or are rolled back.
UsedAreGone == used \cap rows = {}

-----------------------------------------------------------------------------
(* The inductive invariant *)

\* c has made a row that is not in the table yet.
Fresh(c) == At(c, "create") \/ pend[c].ins # {}

CallInv ==
  \A c \in Caller :
    /\ ~InTx(c) \/ ~At(c, "end") => pend[c] = NoWrites
    /\ At(c, "create") => call[c].op = "make"
    /\ call[c].at \in {"account", "delete"} => call[c].op = "verify"
    /\ pend[c].ins # {} => /\ call[c].op = "make" /\ pend[c].ins = {call[c].row}
                           /\ author[call[c].row] = c
    /\ call[c].op = "verify" => call[c].row # 0
    /\ call[c].op = "verify" /\ At(c, "end") /\ call[c].row \in rows =>
         call[c].row \in pend[c].del

FreshInv ==
  \A c \in Caller : Fresh(c) =>
    /\ call[c].row \in Row \ (rows \cup used)
    /\ \A d \in Caller \ {c} : call[d].row # call[c].row
    /\ call[c].row \notin blind => \A r \in rows \ blind : author[r] # c

VInv == TypeOK /\ CallInv /\ FreshInv /\ OneRowPerCaller /\ UsedAreGone

-----------------------------------------------------------------------------
(* Refinement *)

\* A row that its maker has not inserted yet, or not committed, is not known to
\* the store.
Status(r) ==
  IF r \in rows THEN "stored"
  ELSE IF r > made \/ \E c \in Caller : Fresh(c) /\ call[c].row = r THEN "new"
  ELSE "gone"

Store == INSTANCE TicketStore
           WITH Ticket <- Row, Session <- {}, status <- [r \in Row |-> Status(r)],
                marked <- {}, spent <- used, closed <- {}

\* The codes keep the promise of single-use tickets: whatever requests, resends
\* and verifications are in progress, no code comes back after its deletion,
\* and none verifies an address that was not stored, or stays.
StoreSpec == Store!Spec
=============================================================================
