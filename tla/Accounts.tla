------------------------------ MODULE Accounts ------------------------------
(***************************************************************************)
(* The accounts of commonuser: the <entity> table, the redis copy of every *)
(* row (redifu.Base[Account], by randid) and the redis reference from a    *)
(* username to its account (redifu.Base[AccountReference]), with callers   *)
(* that register, update and delete accounts concurrently (pkg/account,    *)
(* internal/repository/account.go), directly or in a transaction that they *)
(* commit before they execute the pipeline.                                *)
(*                                                                         *)
(* The username stands for all columns of a row: an UPDATE writes them     *)
(* all, from one copy.  The seeding functions have no caller in the        *)
(* package and are left out.                                               *)
(***************************************************************************)
EXTENDS Naturals, Sequences

CONSTANTS
  Account,    \* the accounts ever made; uuid and randid are never reused
  Username,
  Caller,     \* the goroutines that call AccountOps
  NoName,     \* no cached account
  NoAccount   \* no cached reference

ASSUME AccountsAssumption == NoName \notin Username /\ NoAccount \notin Account

VARIABLES
  row,       \* row[a]: "absent", "live" or "deleted"
  name,      \* name[a]: the username in the row of a, kept when it is deleted
  cached,    \* cached[a]: the username in the redis copy of a
  ref,       \* ref[u]: the account that the reference of u names
  \* Of each caller, the call it is in the middle of:
  phase,     \* "read" and "refs" are the middle of update, see below
  inTx,      \* whether it runs WithTransaction
  acct,      \* the account it is about
  copy,      \* the username it writes to the row
  wanted,    \* the username in the account object passed to Update
  pend,      \* the statement of its sql.Tx while that is open
  todo,      \* the redis commands still to be executed, in order
  \* History:
  disturbed, \* usernames whose reference a failed or late call left wrong
  kept       \* accounts that a direct, failed or late call left in redis
             \* although they are deleted, until redis drops them

db == <<row, name>>
redis == <<cached, ref>>
call == <<phase, inTx, acct, copy, wanted, pend, todo>>
history == <<disturbed, kept>>
vars == <<db, redis, call, history>>

SetAccount(a, u) == [cmd |-> "set", acc |-> a, name |-> u]
SetReference(u, a) == [cmd |-> "ref", acc |-> a, name |-> u]
DelAccount(a, u) == [cmd |-> "del", acc |-> a, name |-> u]
Command == [cmd: {"set", "ref", "del"}, acc: Account, name: Username]

\* Fetch.ByUsername follows the reference to the copy of the account.
Fetched(u) ==
  IF ref[u] = NoAccount \/ cached[ref[u]] = NoName THEN NoAccount ELSE ref[u]

Init ==
  /\ row = [a \in Account |-> "absent"]
  /\ name = [a \in Account |-> NoName]
  /\ cached = [a \in Account |-> NoName]
  /\ ref = [u \in Username |-> NoAccount]
  /\ phase = [c \in Caller |-> "idle"]
  /\ inTx = [c \in Caller |-> FALSE]
  /\ acct = [c \in Caller |-> NoAccount]
  /\ copy = [c \in Caller |-> NoName]
  /\ wanted = [c \in Caller |-> NoName]
  /\ pend = [c \in Caller |-> "none"]
  /\ todo = [c \in Caller |-> << >>]
  /\ disturbed = {} /\ kept = {}

\* A row written by an open transaction is locked until it ends; so is a
\* username that it inserts.
Unlocked(c, a) == \A d \in Caller \ {c} : pend[d] # "none" => acct[d] # a
Available(c, u) ==
  /\ \A b \in Account : row[b] = "live" => name[b] # u
  /\ \A d \in Caller \ {c} : pend[d] = "insert" => copy[d] # u

\* What an executed statement makes of the row of a, when u is written.
Apply(stmt, a, u) ==
  /\ row' = [row EXCEPT ![a] =
               CASE stmt = "insert" -> "live"
                 [] stmt = "delete" /\ @ = "live" -> "deleted"
                 [] OTHER -> @]
  /\ name' = [name EXCEPT ![a] =
                IF stmt = "insert" \/ (stmt = "update" /\ row[a] = "live") THEN u ELSE @]

\* A statement takes effect at once, or when its transaction commits.
Execute(c, stmt, a, u, tx) ==
  /\ IF tx THEN UNCHANGED db ELSE Apply(stmt, a, u)
  /\ pend' = [pend EXCEPT ![c] = IF tx THEN stmt ELSE "none"]

\* c enters phase p of a call about account a: it writes u to the row, and w
\* is the username it was passed.
Enter(c, p, tx, a, u, w) ==
  /\ phase' = [phase EXCEPT ![c] = p]
  /\ inTx' = [inTx EXCEPT ![c] = tx]
  /\ acct' = [acct EXCEPT ![c] = a]
  /\ copy' = [copy EXCEPT ![c] = u]
  /\ wanted' = [wanted EXCEPT ![c] = w]

Leave(c) == Enter(c, "idle", FALSE, NoAccount, NoName, NoName)

-----------------------------------------------------------------------------
\* Mutant: the reference is set only if there is none (SETNX).
RegisterCommandsIfNone(a, u) ==
  IF ref[u] = NoAccount THEN <<SetAccount(a, u), SetReference(u, a)>>
                        ELSE <<SetAccount(a, u)>>

\* The pipeline of AccountRepository.Create.
RegisterCommands(a, u) == <<SetAccount(a, u), SetReference(u, a)>>

Register(c, a, u, tx) ==
  /\ phase[c] = "idle"
  /\ row[a] = "absent" /\ Unlocked(c, a) /\ Available(c, u)
  /\ Execute(c, "insert", a, u, tx)
  /\ Enter(c, "write", tx, a, u, u)
  /\ todo' = [todo EXCEPT ![c] = RegisterCommands(a, u)]
  /\ UNCHANGED <<redis, history>>

\* FindByUUID finds a row; otherwise update returns AccountDoesNotExist.
Updatable(a) == row[a] = "live"

\* update reads the committed row by uuid; u is the username in the account
\* that the caller passed.
UpdateRead(c, a, u, tx) ==
  /\ phase[c] = "idle" /\ Updatable(a)
  /\ Enter(c, "read", tx, a, name[a], u)
  /\ UNCHANGED <<db, redis, pend, todo, history>>

\* update writes back the row it has read (accountFromDB), not the account
\* it was passed.
Written(c) == copy[c]

\* Mutant: the account that was passed is cached.
CopyPassed(c) == wanted[c]

\* The copy that update caches is the row it has read, too.
Copy(c) == copy[c]

\* The row may have been deleted since: then no row is updated, no error is
\* returned, and the copy is cached all the same.
UpdateWrite(c) ==
  /\ phase[c] = "read" /\ Unlocked(c, acct[c])
  /\ Execute(c, "update", acct[c], Written(c), inTx[c])
  /\ phase' = [phase EXCEPT ![c] = IF copy[c] # wanted[c] THEN "refs" ELSE "write"]
  /\ todo' = [todo EXCEPT ![c] = <<SetAccount(acct[c], Copy(c))>>]
  /\ UNCHANGED <<redis, inTx, acct, copy, wanted, history>>

\* Mutant: UpdateReference gets the username of the account passed.
NewUsernamePassed(c) == wanted[c]

\* UpdateReference gets accountFromDB.Username, the old one.
NewUsername(c) == copy[c]

\* UpdateReference, when the passed username differs from the row's: without
\* a reference of the old username it returns redis.Nil (see Fail).  Its Del
\* names no key that is ever set; its Set is pipelined, and a pipeline that
\* UpdateReference made itself is never executed.
UpdateRefs(c) ==
  /\ phase[c] = "refs" /\ (inTx[c] \/ todo[c] = << >>)
  /\ ref[copy[c]] # NoAccount
  /\ phase' = [phase EXCEPT ![c] = "write"]
  /\ todo' = IF inTx[c]
             THEN [todo EXCEPT ![c] = Append(@, SetReference(NewUsername(c), acct[c]))]
             ELSE todo
  /\ UNCHANGED <<db, redis, inTx, acct, copy, wanted, pend, history>>

\* Mutant: the pipeline drops the reference only.
DeleteCommandsReference(a, u) == << >>

\* The pipeline of AccountRepository.Delete.  Its Del of the reference names no
\* key that is ever set.
DeleteCommands(a, u) == <<DelAccount(a, u)>>

\* Outside a transaction the pipeline of Delete is never executed.
Delete(c, a, tx) ==
  /\ phase[c] = "idle"
  /\ row[a] # "absent" /\ Unlocked(c, a)
  /\ Execute(c, "delete", a, name[a], tx)
  /\ Enter(c, "write", tx, a, name[a], name[a])
  /\ todo' = [todo EXCEPT ![c] = IF tx THEN DeleteCommands(a, name[a]) ELSE << >>]
  /\ kept' = IF tx THEN kept ELSE kept \cup {a}
  /\ UNCHANGED <<redis, disturbed>>

\* The caller commits.
Commit(c) ==
  /\ phase[c] = "write" /\ pend[c] # "none"
  /\ Apply(pend[c], acct[c], Written(c))
  /\ pend' = [pend EXCEPT ![c] = "none"]
  /\ UNCHANGED <<redis, phase, inTx, acct, copy, wanted, todo, history>>

\* The next command of the pipeline reaches redis.
ExecNext(c) ==
  /\ phase[c] \in (IF inTx[c] THEN {"write"} ELSE {"refs", "write"})
  /\ pend[c] = "none" /\ todo[c] # << >>
  /\ LET h == Head(todo[c])
     IN /\ cached' = CASE h.cmd = "set" -> [cached EXCEPT ![h.acc] = h.name]
                       [] h.cmd = "del" -> [cached EXCEPT ![h.acc] = NoName]
                       [] OTHER -> cached
        /\ ref' = IF h.cmd = "ref" THEN [ref EXCEPT ![h.name] = h.acc] ELSE ref
        /\ disturbed' = IF h.cmd = "ref" /\ row[h.acc] = "deleted"
                        THEN disturbed \cup {h.name} ELSE disturbed
        /\ kept' = CASE h.cmd = "set" /\ row[h.acc] = "deleted" -> kept \cup {h.acc}
                     [] h.cmd = "del" -> kept \ {h.acc}
                     [] OTHER -> kept
  /\ todo' = [todo EXCEPT ![c] = Tail(@)]
  /\ UNCHANGED <<db, phase, inTx, acct, copy, wanted, pend>>

Return(c) ==
  /\ phase[c] = "write" /\ pend[c] = "none" /\ todo[c] = << >>
  /\ Leave(c)
  /\ UNCHANGED <<db, redis, pend, todo, history>>

\* c has deleted its account and not yet dropped its copy.
Dropping(c) ==
  pend[c] = "none" /\ \E i \in DOMAIN todo[c] : todo[c][i].cmd = "del"

\* A statement or a command fails, the transaction rolls back, or the
\* process dies; what is outstanding is never done.
Fail(c) ==
  /\ phase[c] # "idle"
  /\ Leave(c)
  /\ pend' = [pend EXCEPT ![c] = "none"]
  /\ todo' = [todo EXCEPT ![c] = << >>]
  /\ disturbed' = disturbed \cup {todo[c][i].name : i \in DOMAIN todo[c]}
  /\ kept' = IF Dropping(c) THEN kept \cup {acct[c]} ELSE kept
  /\ UNCHANGED <<db, redis>>

\* Redis drops an entry.
Evict ==
  /\ \/ \E a \in Account : /\ cached[a] # NoName
                           /\ cached' = [cached EXCEPT ![a] = NoName]
                           /\ kept' = kept \ {a}
                           /\ UNCHANGED ref
     \/ \E u \in Username : /\ ref[u] # NoAccount
                            /\ ref' = [ref EXCEPT ![u] = NoAccount]
                            /\ UNCHANGED <<cached, kept>>
  /\ UNCHANGED <<db, call, disturbed>>

Step(c) ==
  \/ \E a \in Account, tx \in BOOLEAN :
       \/ \E u \in Username : Register(c, a, u, tx) \/ UpdateRead(c, a, u, tx)
       \/ Delete(c, a, tx)
  \/ UpdateWrite(c) \/ UpdateRefs(c) \/ Commit(c) \/ ExecNext(c)
  \/ Return(c) \/ Fail(c)

Next == Evict \/ \E c \in Caller : Step(c)

Spec == Init /\ [][Next]_vars

-----------------------------------------------------------------------------
(* Properties *)

\* Every variable has its type.
TypeOK ==
  /\ row \in [Account -> {"absent", "live", "deleted"}]
  /\ name \in [Account -> Username \cup {NoName}]
  /\ cached \in [Account -> Username \cup {NoName}]
  /\ ref \in [Username -> Account \cup {NoAccount}]
  /\ phase \in [Caller -> {"idle", "read", "refs", "write"}]
  /\ inTx \in [Caller -> BOOLEAN]
  /\ acct \in [Caller -> Account \cup {NoAccount}]
  /\ copy \in [Caller -> Username \cup {NoName}]
  /\ wanted \in [Caller -> Username \cup {NoName}]
  /\ pend \in [Caller -> {"none", "insert", "update", "delete"}]
  /\ todo \in [Caller -> Seq(Command)]
  /\ disturbed \subseteq Username
  /\ kept \subseteq Account

\* A cached account is what was registered, and was registered, even when it
\* was read before a deletion and cached after it.
CachedAsRegistered ==
  \A a \in Account : cached[a] # NoName => row[a] # "absent" /\ cached[a] = name[a]

\* Fetch.ByUsername(u) never returns an account with another username,
\* although references, copies and rows are written at different times.
FetchedHasTheName ==
  \A u \in Username :
    LET a == Fetched(u) IN a # NoAccount => cached[a] = u /\ name[a] = u

\* c will still write the reference of b.
Referring(b) ==
  \E c \in Caller : \E i \in DOMAIN todo[c] :
    todo[c][i].cmd = "ref" /\ todo[c][i].acc = b

\* When a username is taken again after a deletion, its reference leads to the
\* new holder once the registration has returned, unless a failed call or a
\* late write of a deleted account's reference got in the way.
ReferenceFollowsHolder ==
  \A b \in Account :
    row[b] = "live" /\ ref[name[b]] \notin {b, NoAccount} =>
      name[b] \in disturbed \/ Referring(b)

\* A deleted account whose copy is still in redis, where Fetch finds it, has a
\* Delete under way that drops it, or is the doing of a Delete outside a
\* transaction, whose pipeline is never executed, of one that failed after its
\* commit, or of an update or registration that cached it late.  However calls
\* overlap, nothing else keeps it there or brings it back.
LingeringHasCause ==
  \A a \in Account :
    row[a] = "deleted" /\ cached[a] # NoName =>
      a \in kept \/ \E c \in Caller : acct[c] = a /\ Dropping(c)

-----------------------------------------------------------------------------
(* The inductive invariant *)

\* The row of a exists, or did, with username u.
Known(a, u) == row[a] # "absent" /\ name[a] = u

\* What a call knows of the account it works on, however long ago it read it.
Knows(c) ==
  /\ phase[c] \in {"idle", "read"} => pend[c] = "none" /\ todo[c] = << >>
  /\ phase[c] # "idle" => acct[c] \in Account /\ copy[c] \in Username
  /\ pend[c] = "insert" =>
       /\ phase[c] = "write" /\ row[acct[c]] = "absent"
       /\ \E i \in DOMAIN todo[c] : todo[c][i].cmd = "ref"
  /\ pend[c] = "delete" => \E i \in DOMAIN todo[c] : todo[c][i].cmd = "del"
  /\ phase[c] # "idle" /\ pend[c] # "insert" => Known(acct[c], copy[c])
  /\ \A i \in DOMAIN todo[c] :
       todo[c][i].acc = acct[c] /\ todo[c][i].name = copy[c]
CallInv == \A c \in Caller : Knows(c)

\* Two open transactions never write one row.
LockInv ==
  \A c, d \in Caller :
    c # d /\ pend[c] # "none" /\ pend[d] # "none" => acct[c] # acct[d]

\* A username has one holder, open transactions included.
NameInv ==
  /\ \A a \in Account : row[a] # "absent" => name[a] \in Username
  /\ \A a, b \in Account :
       row[a] = "live" /\ row[b] = "live" /\ name[a] = name[b] => a = b
  /\ \A c \in Caller : pend[c] = "insert" =>
       /\ \A a \in Account : row[a] = "live" => name[a] # copy[c]
       /\ \A d \in Caller : pend[d] = "insert" /\ copy[d] = copy[c] => c = d

\* A reference leads to an account that has, or had, its username.
ReferenceInv == \A u \in Username : ref[u] # NoAccount => Known(ref[u], u)

\* What the steps of Next preserve.
IInv ==
  /\ TypeOK /\ CallInv /\ LockInv /\ NameInv /\ ReferenceInv
  /\ CachedAsRegistered /\ ReferenceFollowsHolder /\ LingeringHasCause

-----------------------------------------------------------------------------
(* The refinement of Directory *)

Registered == [a \in Account |-> IF row[a] = "absent" THEN NoName ELSE name[a]]
Deleted == {a \in Account : row[a] = "deleted"}
Found == [u \in Username |-> Fetched(u)]

Store == INSTANCE Directory
           WITH registered <- Registered, deleted <- Deleted, found <- Found

\* Whatever is half done in the table, the cached accounts and the references,
\* the three together are one directory: no two accounts hold a name, no step
\* changes or frees a name but a registration and a deletion, and no step
\* changes what is found under two names at once.
StoreSpec == Store!Spec
=============================================================================
