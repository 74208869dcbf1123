---------------------------- MODULE TicketStore ----------------------------
(***************************************************************************)
(* What a table of single-use tickets or codes of one account promises,    *)
(* without callers, statements or transactions.                            *)
(*                                                                         *)
(* A ticket comes into the table at most once and leaves it for good.      *)
(* What several calls and their transactions do together comes down to     *)
(* commits: some tickets are put in, some stored ones are deleted or       *)
(* marked, some sessions are closed, all in one step.  A ticket counts as  *)
(* spent only when it has been in the table and is out of it.  More than   *)
(* one call may spend the same ticket.                                     *)
(***************************************************************************)

CONSTANTS
  Ticket,
  Session

VARIABLES
  status,  \* status[t]: "new", then "stored" unless given up, then "gone"
  marked,  \* the tickets that were marked as processed
  spent,   \* the tickets with which a call has succeeded
  closed   \* the sessions that are closed

vars == <<status, marked, spent, closed>>

In(state) == {t \in Ticket : status[t] = state}

Init ==
  /\ status = [t \in Ticket |-> "new"]
  /\ marked = {} /\ spent = {} /\ closed = {}

\* Tickets I are put in, tickets D are deleted.
Replace(I, D) ==
  status' = [t \in Ticket |-> IF t \in I THEN "stored"
                              ELSE IF t \in D THEN "gone" ELSE status[t]]

\* The tickets that may be spent in the step that makes status'.
Spendable == {t \in Ticket : status[t] # "new" /\ status'[t] = "gone"}

Commit ==
  /\ \E I \in SUBSET In("new"), D \in SUBSET In("stored") : Replace(I, D)
  /\ \E M \in SUBSET In("stored") : marked' = marked \cup M
  /\ \E R \in SUBSET Spendable : spent' = spent \cup R
  /\ \E S \in SUBSET Session : closed' = closed \cup S

\* A ticket that was made never gets into the table.
GiveUp ==
  /\ \E t \in In("new") : status' = [status EXCEPT ![t] = "gone"]
  /\ UNCHANGED <<marked, spent, closed>>

Next == Commit \/ GiveUp

Spec == Init /\ [][Next]_vars
=============================================================================
