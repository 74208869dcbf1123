---------------------------- MODULE SessionStore ----------------------------
(***************************************************************************)
(* What the session store promises its users, without callers, statements  *)
(* or a cache: the life of a session, and which sessions an access check   *)
(* (SessionOps.PingByCache) may accept.                                    *)
(*                                                                         *)
(* A session is opened once, revoked for good, and forgotten only when it  *)
(* is revoked and overdue, that is past its expiry by the store's clock.   *)
(* An access check accepts only sessions that were opened and have not     *)
(* expired by its own clock.  It may lag behind a revocation, and it       *)
(* accepts what is forgotten only if the store's clock is ahead.           *)
(***************************************************************************)

CONSTANT Session

VARIABLES
  status,    \* status[s]: "absent", then "live", "revoked" and "purged"
  accepted,  \* the sessions an access check accepts
  expired,   \* the sessions past their expiry, for an access check
  overdue,   \* the sessions past their expiry, for the store
  ahead      \* whether the store's clock runs before the access check's

clocks == <<expired, overdue, ahead>>
vars == <<status, accepted, clocks>>

Init ==
  /\ status = [s \in Session |-> "absent"]
  /\ accepted = {}
  /\ expired = {}
  /\ overdue = {}
  /\ ahead \in BOOLEAN

Open(s) ==
  /\ status[s] = "absent"
  /\ status' = [status EXCEPT ![s] = "live"]
  /\ UNCHANGED <<accepted, clocks>>

\* Revokes the live sessions among S together.
Close(S) ==
  /\ status' = [s \in Session |-> IF s \in S /\ status[s] = "live"
                                    THEN "revoked" ELSE status[s]]
  /\ UNCHANGED <<accepted, clocks>>

Forget(S) ==
  /\ S \subseteq overdue
  /\ \A s \in S : status[s] = "revoked"
  /\ status' = [s \in Session |-> IF s \in S THEN "purged" ELSE status[s]]
  /\ UNCHANGED <<accepted, clocks>>

Lapse(s) ==
  /\ ahead => s \in overdue
  /\ expired' = expired \cup {s}
  /\ accepted' = accepted \ {s}
  /\ UNCHANGED <<status, overdue, ahead>>

FallDue(s) ==
  /\ ~ahead => s \in expired
  /\ overdue' = overdue \cup {s}
  /\ UNCHANGED <<status, accepted, expired, ahead>>

Admit(s) ==
  /\ status[s] \in {"live", "revoked"} \/ (ahead /\ status[s] = "purged")
  /\ s \notin expired
  /\ accepted' = accepted \cup {s}
  /\ UNCHANGED <<status, clocks>>

Dismiss(s) ==
  /\ accepted' = accepted \ {s}
  /\ UNCHANGED <<status, clocks>>

Next ==
  \/ \E s \in Session :
        Open(s) \/ Lapse(s) \/ FallDue(s) \/ Admit(s) \/ Dismiss(s)
  \/ \E S \in SUBSET Session : Close(S) \/ Forget(S)

Spec == Init /\ [][Next]_vars
=============================================================================
