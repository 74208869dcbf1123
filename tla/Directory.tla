----------------------------- MODULE Directory -----------------------------
(***************************************************************************)
(* What accounts, cached accounts and references promise together, without *)
(* callers, transactions, rows and redis.                                  *)
(*                                                                         *)
(* An account is registered once, under a name that no account holds at    *)
(* the time, keeps that name for ever, and gives it up when it is deleted. *)
(* A question for a name may find nobody.  Whom it finds was registered    *)
(* under this name, and may have been deleted since.                       *)
(***************************************************************************)

CONSTANTS
  Account,
  Username,
  NoName,    \* of an account that is not registered
  NoAccount  \* that nobody is found

VARIABLES
  registered,  \* registered[a]: the name under which a was registered
  deleted,     \* the accounts that were deleted
  found        \* found[u]: the account that is found under u

vars == <<registered, deleted, found>>

Init ==
  /\ registered = [a \in Account |-> NoName]
  /\ deleted = {}
  /\ found = [u \in Username |-> NoAccount]

Holders(u) == {a \in Account : registered[a] = u /\ a \notin deleted}

Register(a, u) ==
  /\ registered[a] = NoName /\ Holders(u) = {}
  /\ registered' = [registered EXCEPT ![a] = u]
  /\ UNCHANGED <<deleted, found>>

Delete(a) ==
  /\ registered[a] # NoName /\ a \notin deleted
  /\ deleted' = deleted \cup {a}
  /\ UNCHANGED <<registered, found>>

\* What is found under u changes, and under no other name.
Find(u) ==
  /\ \E a \in {b \in Account : registered[b] = u} \cup {NoAccount} :
       found' = [found EXCEPT ![u] = a]
  /\ UNCHANGED <<registered, deleted>>

Next ==
  \/ \E a \in Account : Delete(a) \/ \E u \in Username : Register(a, u)
  \/ \E u \in Username : Find(u)

Spec == Init /\ [][Next]_vars
=============================================================================
