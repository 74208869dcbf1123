------------------------------ MODULE Providers ------------------------------
(***************************************************************************)
(* Accounts that are registered together with an identity of an external   *)
(* provider, and logins with such an identity or with a password           *)
(* (registerWithProvider and Authentication of pkg/account,                *)
(* internal/repository/provider.go).                                       *)
(*                                                                         *)
(* registerWithProvider inserts the provider row first and then registers  *)
(* the account, which does not exist until then.  It takes the two objects *)
(* as they come: which account the row names is what the caller passed to  *)
(* Provider.SetAccount before, another account or none at all if it did    *)
(* not, and nothing compares it with the account that is registered.       *)
(* Nothing in the schema ties the two tables together: there is no foreign *)
(* key, and no unique (sub, issuer), so several rows may hold one identity *)
(* and a login takes any of them.  Provider rows are never deleted: the    *)
(* repository's Delete has no caller.                                      *)
(*                                                                         *)
(* Of register and Delete of an account only the rows are kept here;       *)
(* module Accounts has the rest.                                           *)
(***************************************************************************)

CONSTANTS
  Account,    \* the accounts ever made
  Provider,   \* the provider objects ever made, each with a uuid of its own
  Sub, Issuer,\* the identity in each provider object
  Caller,     \* the goroutines that call AccountOps
  Unset,      \* the empty AccountUUID of an object without SetAccount
  NoAccount,
  NoProvider

ASSUME ProvidersAssumption ==
  /\ Unset \notin Account /\ NoAccount \notin Account \cup {Unset}
  /\ NoProvider \notin Provider
  /\ DOMAIN Sub = Provider /\ DOMAIN Issuer = Provider

VARIABLES
  row,      \* row[a]: "absent", "live" or "deleted" in the account table
  linked,   \* linked[p]: account_uuid of the provider row, if there is one;
            \* NoAccount is for no row, Unset for a row with an empty one
  phase,    \* phase[c]: the statement that c executes next
  inTx,     \* inTx[c]: c runs WithTransaction
  prov,     \* prov[c]: the provider object of c's call
  names,    \* names[c]: the account that this provider object names
  acct,     \* acct[c]: the account that the call registers or logs in
  \* History:
  broken,   \* providers whose direct registration failed half-way
  misnamed, \* providers stored with the name of another account than the
            \* one registered with them, or of none
  opened    \* {<<p, a>>}: the latest login, with the identity of p or, if p
            \* is NoProvider, the password of a, opened a session of a

call == <<phase, inTx, prov, names, acct>>
vars == <<row, linked, call, broken, misnamed, opened>>

\* What a provider object can name.
Named == Account \cup {Unset}

Init ==
  /\ row = [a \in Account |-> "absent"]
  /\ linked = [p \in Provider |-> NoAccount]
  /\ phase = [c \in Caller |-> "idle"]
  /\ inTx = [c \in Caller |-> FALSE]
  /\ prov = [c \in Caller |-> NoProvider]
  /\ names = [c \in Caller |-> NoAccount]
  /\ acct = [c \in Caller |-> NoAccount]
  /\ broken = {} /\ misnamed = {} /\ opened = {}

Enter(c, label, tx, p, n, a) ==
  /\ phase' = [phase EXCEPT ![c] = label]
  /\ inTx' = [inTx EXCEPT ![c] = tx]
  /\ prov' = [prov EXCEPT ![c] = p]
  /\ names' = [names EXCEPT ![c] = n]
  /\ acct' = [acct EXCEPT ![c] = a]

Leave(c) == Enter(c, "idle", FALSE, NoProvider, NoAccount, NoAccount)

Goto(c, label) ==
  phase' = [phase EXCEPT ![c] = label] /\ UNCHANGED <<inTx, prov, names, acct>>

\* The primary keys: an insert waits for the transaction that holds its key.
FreeProvider(c, p) ==
  /\ linked[p] = NoAccount
  /\ \A d \in Caller \ {c} : inTx[d] => prov[d] # p
FreeAccount(a) ==
  /\ row[a] = "absent"
  /\ \A d \in Caller : phase[d] = "commit" => acct[d] # a

-----------------------------------------------------------------------------
\* Mutant: providerRepository.Create gets writeDB instead of the transaction.
VisibleAtOnceAlways(tx) == TRUE

\* A statement outside a transaction commits on its own.
VisibleAtOnce(tx) == ~tx

\* The providers that are misnamed once the row of p names n and account a is
\* registered with it.
MisnamedWith(p, n, a) == IF n = a THEN misnamed ELSE misnamed \cup {p}

\* registerWithProvider(a, p) inserts the provider row, with the account n
\* that p names.
InsertProvider(c, p, n, a, tx) ==
  /\ phase[c] = "idle" /\ FreeProvider(c, p)
  /\ IF VisibleAtOnce(tx)
       THEN /\ linked' = [linked EXCEPT ![p] = n]
            /\ misnamed' = MisnamedWith(p, n, a)
       ELSE UNCHANGED <<linked, misnamed>>
  /\ Enter(c, "register", tx, p, n, a)
  /\ UNCHANGED <<row, broken, opened>>

\* register inserts the account; outside a transaction the call is over.
InsertAccount(c) ==
  /\ phase[c] = "register" /\ FreeAccount(acct[c])
  /\ IF inTx[c] THEN Goto(c, "commit") /\ UNCHANGED row
                ELSE Leave(c) /\ row' = [row EXCEPT ![acct[c]] = "live"]
  /\ UNCHANGED <<linked, broken, misnamed, opened>>

\* The caller commits: both rows appear together.
Commit(c) ==
  /\ phase[c] = "commit"
  /\ row' = [row EXCEPT ![acct[c]] = "live"]
  /\ linked' = [linked EXCEPT ![prov[c]] = names[c]]
  /\ misnamed' = MisnamedWith(prov[c], names[c], acct[c])
  /\ Leave(c)
  /\ UNCHANGED <<broken, opened>>

\* register, of an account without an identity.
RegisterAccount(a) ==
  /\ FreeAccount(a)
  /\ row' = [row EXCEPT ![a] = "live"]
  /\ UNCHANGED <<linked, call, broken, misnamed, opened>>

\* DELETE of an account; the provider rows that name it stay.
DeleteAccount(a) ==
  /\ row[a] = "live"
  /\ row' = [row EXCEPT ![a] = "deleted"]
  /\ UNCHANGED <<linked, call, broken, misnamed, opened>>

\* Mutant: WHERE sub = $1, without the issuer.
MatchesBySub(p, q) == Sub[p] = Sub[q]

\* WHERE sub = $1 AND issuer = $2, with the identity of p.
Matches(p, q) == Sub[p] = Sub[q] /\ Issuer[p] = Issuer[q]

\* byProvider with the identity of p reads a provider row with that identity;
\* without one it returns ProviderNotFound and nothing changes.
LoginFind(c, p) ==
  /\ phase[c] = "idle"
  /\ \E q \in Provider :
       /\ linked[q] # NoAccount /\ Matches(p, q)
       /\ Enter(c, "find", FALSE, p, NoAccount, linked[q])
  /\ UNCHANGED <<row, linked, broken, misnamed, opened>>

\* FindByUUID of the account finds a row.
Exists(a) == a \in Account /\ row[a] = "live"

LoginAccount(c) ==
  /\ phase[c] = "find" /\ Exists(acct[c])
  /\ Goto(c, "open")
  /\ UNCHANGED <<row, linked, broken, misnamed, opened>>

\* byUsername or byEmail, with the password of the row that it has read; with
\* another one it returns Unauthorized and nothing changes.
LoginPassword(c, a) ==
  /\ phase[c] = "idle" /\ Exists(a)
  /\ Enter(c, "open", FALSE, NoProvider, NoAccount, a)
  /\ UNCHANGED <<row, linked, broken, misnamed, opened>>

\* generateToken creates the session, of an account that may be gone by now.
LoginOpen(c) ==
  /\ phase[c] = "open"
  /\ opened' = {<<prov[c], acct[c]>>}
  /\ Leave(c)
  /\ UNCHANGED <<row, linked, broken, misnamed>>

\* A statement returns an error, the transaction rolls back, the lookup of
\* the account fails, or the process dies.
Fail(c) ==
  /\ phase[c] # "idle"
  /\ Leave(c)
  /\ broken' = IF phase[c] = "register" /\ ~inTx[c] THEN broken \cup {prov[c]}
                                                    ELSE broken
  /\ UNCHANGED <<row, linked, misnamed, opened>>

Step(c) ==
  \/ \E p \in Provider, n \in Named, a \in Account, tx \in BOOLEAN :
       InsertProvider(c, p, n, a, tx)
  \/ InsertAccount(c) \/ Commit(c)
  \/ \E p \in Provider : LoginFind(c, p)
  \/ \E a \in Account : LoginPassword(c, a)
  \/ LoginAccount(c) \/ LoginOpen(c) \/ Fail(c)

Next ==
  \/ \E c \in Caller : Step(c)
  \/ \E a \in Account : RegisterAccount(a) \/ DeleteAccount(a)

Spec == Init /\ [][Next]_vars

-----------------------------------------------------------------------------
(* Properties *)

\* Every variable has its type.
TypeOK ==
  /\ row \in [Account -> {"absent", "live", "deleted"}]
  /\ linked \in [Provider -> Named \cup {NoAccount}]
  /\ phase \in [Caller -> {"idle", "register", "commit", "find", "open"}]
  /\ inTx \in [Caller -> BOOLEAN]
  /\ prov \in [Caller -> Provider \cup {NoProvider}]
  /\ names \in [Caller -> Named \cup {NoAccount}]
  /\ acct \in [Caller -> Named \cup {NoAccount}]
  /\ broken \subseteq Provider
  /\ misnamed \subseteq Provider
  /\ opened \subseteq (Provider \cup {NoProvider}) \X Account

\* c is a direct registration between its two inserts.
HalfDone(c, p) == phase[c] = "register" /\ ~inTx[c] /\ prov[c] = p

\* Account n has, or had, a row.
Registered(n) == n \in Account /\ row[n] # "absent"

\* An identity with which every login fails, because it names an account that
\* nobody registered or none, is the doing of a direct registration that failed
\* half-way or is in progress, or was stored beside an account that it did not
\* name.  If it named that one, registrations in a transaction, failures of
\* them and deletions leave no such identity.
OrphansHaveACause ==
  \A p \in Provider :
    linked[p] # NoAccount /\ ~Registered(linked[p]) =>
      p \in broken \cup misnamed \/ \E c \in Caller : HalfDone(c, p)

\* However registrations, failures, deletions and logins interleave, a login
\* opens only a session of an account that was registered, and one without the
\* password only under an identity with this sub and this issuer.
LoginsAreLinked ==
  \A l \in opened :
    /\ Registered(l[2])
    /\ \/ l[1] = NoProvider
       \/ \E q \in Provider : /\ linked[q] = l[2]
                              /\ Sub[q] = Sub[l[1]] /\ Issuer[q] = Issuer[l[1]]

-----------------------------------------------------------------------------
(* The inductive invariant *)

\* What a call knows of the rows it works on.
CallInv ==
  \A c \in Caller :
    /\ phase[c] # "idle" => acct[c] \in Named
    /\ phase[c] \in {"register", "commit"} => acct[c] \in Account /\ names[c] \in Named
    /\ phase[c] \in {"register", "commit", "find"} => prov[c] \in Provider
    /\ phase[c] = "register" /\ ~inTx[c] =>
         /\ linked[prov[c]] = names[c]
         /\ names[c] = acct[c] \/ prov[c] \in misnamed
    /\ phase[c] = "commit" => inTx[c]
    /\ phase[c] \in {"find", "open"} /\ prov[c] # NoProvider =>
         \E q \in Provider : linked[q] = acct[c] /\ Sub[q] = Sub[prov[c]]
                                                 /\ Issuer[q] = Issuer[prov[c]]
    /\ phase[c] = "open" => Registered(acct[c])

\* A provider that a transaction inserts has no row yet, and the transaction
\* is the only one.
TxInv ==
  \A c \in Caller :
    inTx[c] => /\ phase[c] \in {"register", "commit"}
               /\ linked[prov[c]] = NoAccount
               /\ \A d \in Caller \ {c} : inTx[d] => prov[d] # prov[c]

\* What the steps of Next preserve.
IInv == TypeOK /\ CallInv /\ TxInv /\ OrphansHaveACause /\ LoginsAreLinked
=============================================================================
