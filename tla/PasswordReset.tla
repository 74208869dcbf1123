---------------------------- MODULE PasswordReset ----------------------------
(***************************************************************************)
(* The password reset (pkg/password) over the table of Tickets: what a     *)
(* caller can call, in the forms that the package offers.  Requests and    *)
(* deletions have no pipeline, so that "mixed" is no form of theirs.       *)
(*                                                                         *)
(* AccountOps.Update, called before the deletion of a validation and after *)
(* the RevokeAll of a change, writes back the account row that it has just *)
(* read (module Accounts); it can fail, as any statement here.             *)
(***************************************************************************)
EXTENDS Tickets

RequestResetPassword(c, f) == RequestFind(c, f)

\* ResetPassword.Validate of the right token.
Spendable(t) == t \notin expired

\* validateResetPassword.  Without a ticket, or with another token than the
\* newest one's, it returns an error.  An expired one makes it delete all.
ValidateResetPassword(c, f, t) ==
  \/ Newest(t) /\ t \in expired /\ Discard(c, f)
  \/ Spendable(t) /\ Spend(c, f, t)

DeleteResetPasswordRequest(c, f) == Discard(c, f)

\* updateResetPasswordRequest with the right old password.
UpdateResetPasswordRequest(c, f) == Change(c, f)

\* The statements of a call in progress: the password reset marks nothing.
ResetWork(c) ==
  \/ StartDelete(c) \/ EndDelete(c) \/ Insert(c)
  \/ RevokeList(c) \/ RevokeListed(c) \/ End(c) \/ Fail(c)

Next ==
  \/ \E c \in Caller, f \in Forms \ {"mixed"} :
       RequestResetPassword(c, f) \/ DeleteResetPasswordRequest(c, f)
  \/ \E c \in Caller, f \in Forms :
       \/ \E t \in Ticket : ValidateResetPassword(c, f, t)
       \/ UpdateResetPasswordRequest(c, f)
  \/ \E c \in Caller : ResetWork(c)
  \/ Surroundings

Spec == Init /\ [][Next]_tvars
=============================================================================
