----------------------------- MODULE EmailChange -----------------------------
(***************************************************************************)
(* The change of the email address (pkg/email) over the table of Tickets:  *)
(* requests, confirmations, retractions and deletions, with the addresses  *)
(* that the tickets and the callers' account objects carry.                *)
(*                                                                         *)
(* A token is any string: whether it matches the stored hash is left open. *)
(* SetEmail changes the account object that the caller holds, and nothing  *)
(* in the package stores it.                                               *)
(***************************************************************************)
EXTENDS Tickets

CONSTANTS
  Address,     \* the email addresses
  Registered   \* the address in the row of the account, which never changes

ASSUME EmailChangeAssumption == Registered \in Address

VARIABLES
  newAddress,  \* newAddress[t]: the column new_email_address of ticket t
  previous,    \* previous[t]: the column previous_email_address
  mail,        \* mail[c]: account.Email in the object that c holds
  \* History:
  confirmed,   \* the tickets whose token somebody has presented
  told         \* the tickets with which ConfirmEmailChange returned nil

evars == <<newAddress, previous, mail, confirmed, told>>
vars == <<tvars, evars>>

EInit ==
  /\ Init
  /\ newAddress = [t \in Ticket |-> Registered]
  /\ previous = [t \in Ticket |-> Registered]
  /\ mail = [c \in Caller |-> Registered]
  /\ confirmed = {} /\ told = {}

\* Mutant: SetEmail of the new address as soon as it is requested.
MailOnRequestNew(c, a) == [mail EXCEPT ![c] = a]

\* A request leaves the account object alone.
MailOnRequest(c, a) == mail

\* NewUpdateEmailRequest for address a, when this step makes a ticket.
Fill(c) ==
  /\ IF made' = made
     THEN UNCHANGED <<newAddress, previous, mail>>
     ELSE \E a \in Address :
            /\ newAddress' = [newAddress EXCEPT ![made'] = a]
            /\ previous' = [previous EXCEPT ![made'] = mail[c]]
            /\ mail' = MailOnRequest(c, a)
  /\ UNCHANGED <<confirmed, told>>

RequestEmailChange(c, f) == RequestFind(c, f) /\ Fill(c)

\* UNIQUE (new_email_address): the INSERT waits for open transactions that
\* delete or insert the address, and fails if it is in the table.
Free(c) ==
  LET same(T) == {t \in T : newAddress[t] = newAddress[call[c].mine]}
  IN /\ same(tickets \ pend[c].del) = {}
     /\ \A d \in Caller \ {c} : same(pend[d].ins) = {}

\* The tickets that are not confirmed yet, as the row says.
Unprocessed(t) == t \notin marked

\* confirmEmailChange of a ticket that is processed already returns nil at
\* once, whatever the token.
ConfirmProcessed(c) ==
  /\ At(c, "idle")
  /\ \E t \in marked : Newest(t) /\ told' = told \cup {t}
  /\ UNCHANGED <<tvars, newAddress, previous, mail, confirmed>>

\* Otherwise an expired ticket makes it delete all tickets, and one whose
\* token matches is to be stored as processed.
ConfirmEmailChange(c, f, t) ==
  /\ Unprocessed(t)
  /\ \/ Newest(t) /\ t \in expired /\ Discard(c, f) /\ UNCHANGED confirmed
     \/ t \notin expired /\ MarkFound(c, f, t) /\ confirmed' = confirmed \cup {t}
  /\ UNCHANGED <<newAddress, previous, mail, told>>

\* Mutant: SetEmail(request.NewEmailAddress) when a change is taken back.
RestoredNew(t) == newAddress[t]

\* revokeEmailChange with the right revoke token, of an expired or processed
\* ticket too: SetEmail comes before the deletion.
Restored(t) == previous[t]

RevokeEmailChange(c, f, t) ==
  /\ Spend(c, f, t)
  /\ mail' = [mail EXCEPT ![c] = Restored(t)]
  /\ UNCHANGED <<newAddress, previous, confirmed, told>>

DeleteEmailChange(c, f) == Discard(c, f) /\ UNCHANGED evars

\* The statements of a call in progress.  confirmEmailChange sets the address
\* when RevokeAll has succeeded.
EmailWork(c) ==
  \/ (StartDelete(c) \/ Mark(c) \/ RevokeList(c) \/ Fail(c)) /\ UNCHANGED evars
  \/ EndDelete(c) /\ Fill(c)
  \/ Insert(c) /\ Free(c) /\ UNCHANGED evars
  \/ /\ RevokeListed(c)
     /\ mail' = IF call[c].op = "mark"
                THEN [mail EXCEPT ![c] = newAddress[call[c].mine]] ELSE mail
     /\ UNCHANGED <<newAddress, previous, confirmed, told>>
  \/ /\ End(c)
     /\ told' = IF call[c].op = "mark" THEN told \cup {call[c].mine} ELSE told
     /\ UNCHANGED <<newAddress, previous, mail, confirmed>>

\* The caller goes on with the account as the database has it.
Reload(c) ==
  /\ At(c, "idle") /\ mail[c] # Registered
  /\ mail' = [mail EXCEPT ![c] = Registered]
  /\ UNCHANGED <<tvars, newAddress, previous, confirmed, told>>

ENext ==
  \/ \E c \in Caller, f \in Forms \ {"mixed"} :
       RequestEmailChange(c, f) \/ DeleteEmailChange(c, f)
  \/ \E c \in Caller, f \in Forms, t \in Ticket :
       ConfirmEmailChange(c, f, t) \/ RevokeEmailChange(c, f, t)
  \/ \E c \in Caller : ConfirmProcessed(c) \/ EmailWork(c) \/ Reload(c)
  \/ Surroundings /\ UNCHANGED evars

ESpec == EInit /\ [][ENext]_vars

-----------------------------------------------------------------------------
(* Properties *)

\* A row is processed, and a confirmation returns nil, only if somebody has
\* presented the token of this very ticket, although the row is updated some
\* steps after it was found and a newer ticket may have come in between.
ProcessedWasConfirmed == marked \cup told \subseteq confirmed

\* The email address in an account object is the registered one or one whose
\* ticket was confirmed: an address that is only requested, or confirmed by
\* nobody, reaches no object, by whatever chain of changes taken back.
MailIsConfirmed ==
  \A c \in Caller :
    mail[c] = Registered \/ \E t \in confirmed : newAddress[t] = mail[c]

\* Once ConfirmEmailChange has returned nil, the sessions are closed that were
\* live when the calls that confirmed the ticket began; pkg/email/email.go:120
\* says "revoke all running sessions".  True when every caller uses a
\* transaction, but for the sessions that a result set lost when it broke off,
\* and refuted for direct calls.
ConfirmedAreClosed ==
  \A t \in told : \A s \in owed[t] : session[s] = "revoked"

-----------------------------------------------------------------------------
(* The inductive invariant *)

\* The addresses that account objects may carry.
Known == {Registered} \cup {newAddress[t] : t \in confirmed}

EInv ==
  /\ newAddress \in [Ticket -> Address] /\ previous \in [Ticket -> Address]
  /\ mail \in [Caller -> Known]
  /\ confirmed \subseteq 1..made
  /\ \A t \in 1..made : previous[t] \in Known
  /\ marked \subseteq confirmed /\ told \subseteq confirmed
  /\ \A c \in Caller :
       /\ pend[c].upd \subseteq confirmed
       /\ call[c].op = "mark" => call[c].mine \in confirmed
=============================================================================
