------------------------------ MODULE ReadPool ------------------------------
(***************************************************************************)
(* The connection pool behind the read statements (readDB, a sql.DB with   *)
(* SetMaxOpenConns) and the three ways in which commonuser reads from it:  *)
(*   lookup  QueryRow without a context: the account, provider, ticket and *)
(*           verification finders.  It cannot be cancelled while it waits  *)
(*           for a connection; Scan gives the connection back;             *)
(*   list    QueryContext and a loop: FindManyByAccount closes its rows    *)
(*           (and any ExecContext, which takes and gives back likewise);   *)
(*   leak    QueryContext and Scan without Next: FindByRandId and          *)
(*           FindByUUID of the sessions.  Scan returns an error, the rows  *)
(*           stay open, and database/sql closes them only when the context *)
(*           of the query ends.  Ping, Revoke and Refresh do no more than  *)
(*           this.                                                         *)
(* An application may hand the same sql.DB to New and to SetWriteDB        *)
(* (shared); then its transactions hold connections of this pool while     *)
(* the operations run on them wait for another one to read with.           *)
(***************************************************************************)
CONSTANTS
  Caller,  \* the goroutines, each with one context at a time
  Conn     \* the connections that the pool may open

ASSUME ReadPoolAssumption == Conn # {}

VARIABLES
  at,      \* at[c]: "idle", "waiting" for a connection or "using" it
  want,    \* want[c]: what c waits for a connection for, or uses it for
  held,    \* held[c]: the connections that c keeps from the others
  shared   \* transactions take their connection from this pool

vars == <<at, want, held, shared>>

Kind == {"lookup", "list", "leak", "begin"}

\* call: that of the query that runs; leaked: those of the rows left open under
\* the context of the caller; tx: that of its open transaction.
Nothing == [call |-> {}, leaked |-> {}, tx |-> {}]
All(h) == h.call \cup h.leaked \cup h.tx

Init ==
  /\ at = [c \in Caller |-> "idle"]
  /\ want = [c \in Caller |-> "lookup"]
  /\ held = [c \in Caller |-> Nothing]
  /\ shared \in BOOLEAN

Call(c, k) ==
  /\ at[c] = "idle"
  /\ k = "begin" => shared /\ held[c].tx = {}
  /\ at' = [at EXCEPT ![c] = "waiting"]
  /\ want' = [want EXCEPT ![c] = k]
  /\ UNCHANGED <<held, shared>>

\* Mutant: a connection is free again although rows are open on it.
FreeInSpiteOfRows ==
  {k \in Conn : \A c \in Caller : k \notin held[c].call \cup held[c].tx}

Free == {k \in Conn : \A c \in Caller : k \notin All(held[c])}

\* database/sql hands a free connection to any of the waiting requests.
Grant(c) ==
  /\ at[c] = "waiting"
  /\ at' = [at EXCEPT ![c] = IF want[c] = "begin" THEN "idle" ELSE "using"]
  /\ \E k \in Free :
       held' = [held EXCEPT ![c] = IF want[c] = "begin" THEN [@ EXCEPT !.tx = {k}]
                                                        ELSE [@ EXCEPT !.call = {k}]]
  /\ UNCHANGED <<want, shared>>

\* Whether the call gives its connection back itself.
GivesBack(k) == k # "leak"

Finish(c) ==
  /\ at[c] = "using"
  /\ at' = [at EXCEPT ![c] = "idle"]
  /\ held' = [held EXCEPT ![c] =
                [call |-> {}, tx |-> @.tx,
                 leaked |-> IF GivesBack(want[c]) THEN @.leaked ELSE @.leaked \cup @.call]]
  /\ UNCHANGED <<want, shared>>

\* Commit or Rollback.
EndTx(c) ==
  /\ at[c] = "idle" /\ held[c].tx # {}
  /\ held' = [held EXCEPT ![c].tx = {}]
  /\ UNCHANGED <<at, want, shared>>

\* Mutant: the session finders query without the caller's context.
LeakedAfterContextNoContext(c) == held[c].leaked

\* Rows of QueryContext(ctx) are closed when ctx ends.
LeakedAfterContext(c) == {}

\* A lookup has no context: it goes on waiting, or using its connection.
CallAfterContext(c) == IF want[c] = "lookup" THEN held[c].call ELSE {}

\* The context of c ends, by cancel or deadline: its open rows and its
\* transaction (of BeginTx) give their connections back, its call gives up.
EndContext(c) ==
  /\ at[c] # "idle" \/ held[c] # Nothing
  /\ at' = [at EXCEPT ![c] = IF want[c] = "lookup" THEN @ ELSE "idle"]
  /\ held' = [held EXCEPT ![c] = [call |-> CallAfterContext(c), tx |-> {},
                                  leaked |-> LeakedAfterContext(c)]]
  /\ UNCHANGED <<want, shared>>

Next ==
  \E c \in Caller : \/ \E k \in Kind : Call(c, k)
                    \/ Grant(c) \/ Finish(c) \/ EndTx(c) \/ EndContext(c)

\* A query finishes, a context ends sooner or later, and a request that is
\* picked at random again and again is picked in the end.
Fairness ==
  \A c \in Caller : WF_vars(Finish(c)) /\ WF_vars(EndContext(c)) /\ SF_vars(Grant(c))

Spec == Init /\ [][Next]_vars /\ Fairness

-----------------------------------------------------------------------------
(* Properties *)

\* A connection is out for one caller and one use at a time, whichever calls
\* leave their rows open, begin transactions and lose their contexts meanwhile:
\* no query runs on a connection whose rows or transaction are another's.
OneHolder ==
  /\ \A c, d \in Caller : c # d => All(held[c]) \cap All(held[d]) = {}
  /\ \A c \in Caller : /\ held[c].call \cap held[c].leaked = {}
                       /\ held[c].tx \cap (held[c].call \cup held[c].leaked) = {}

\* A call that waits for a connection gets one or gives up, also a lookup,
\* which cannot give up: the leaks of Ping, Revoke and Refresh and the
\* transactions that wait for a second connection of the same pool do not
\* hold it up for ever, as long as every context ends.
Served == \A c \in Caller : at[c] = "waiting" ~> at[c] # "waiting"

-----------------------------------------------------------------------------
(* The inductive invariant *)

TypeOK ==
  /\ at \in [Caller -> {"idle", "waiting", "using"}]
  /\ want \in [Caller -> Kind]
  /\ held \in [Caller -> [call : SUBSET Conn, leaked : SUBSET Conn, tx : SUBSET Conn]]
  /\ shared \in BOOLEAN

\* What a caller holds agrees with what it is doing: a connection for the query
\* that runs and for no other, and at most one for a transaction, if those come
\* from this pool, and none while it begins one.
HeldOK(c) ==
  /\ IF at[c] = "using" THEN \E k \in Conn : held[c].call = {k} ELSE held[c].call = {}
  /\ held[c].tx # {} => shared /\ \E k \in Conn : held[c].tx = {k}
  /\ want[c] = "begin" => at[c] # "using"
  /\ at[c] = "waiting" /\ want[c] = "begin" => shared /\ held[c].tx = {}

PInv == TypeOK /\ OneHolder /\ \A c \in Caller : HeldOK(c)
=============================================================================
