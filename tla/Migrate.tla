------------------------------- MODULE Migrate -------------------------------
(***************************************************************************)
(* The migration command (cmd/migrate): processes that create the tables   *)
(* of one entity, each in one transaction, at the same time, again, and    *)
(* over tables that an earlier version has left.                           *)
(*                                                                         *)
(* CREATE TABLE IF NOT EXISTS looks the name up, and then inserts it into  *)
(* the catalogue: it waits for another open transaction that has inserted  *)
(* the same name, and fails with a duplicate key when that one commits.    *)
(***************************************************************************)
EXTENDS Naturals, Sequences

CONSTANTS
  Process,   \* the processes that run the command
  Earlier    \* the sets of tables that may be there before

VARIABLES
  exists,   \* the tables that are committed
  run,      \* run[p]: what process p is doing
  \* History:
  before    \* the tables there were in the beginning

vars == <<exists, run, before>>

Tables == <<"account", "reset_password", "update_email", "session", "verification",
            "provider">>
Table == {Tables[i] : i \in DOMAIN Tables}

ASSUME MigrateAssumption == Earlier \subseteq SUBSET Table

\* left: the tables to be processed; made: those its open transaction creates.
Status == {"off", "check", "insert", "done", "failed", "duplicate"}
Off == [at |-> "off", left |-> {}, table |-> "account", made |-> {}]

Init ==
  /\ exists \in Earlier /\ before = exists
  /\ run = [p \in Process |-> Off]

Running(p) == run[p].at \in {"check", "insert"}

\* Mutant: the order of neighbours in the slice is open, as that of a Go map is.
FollowsInAnyOrder(t, L) ==
  \E i \in DOMAIN Tables :
    t = Tables[i] /\ t \in L /\ \A j \in 1..(i - 2) : Tables[j] \notin L

\* The next of the tables in L is the first of the slice.
Follows(t, L) ==
  \E i \in DOMAIN Tables :
    t = Tables[i] /\ t \in L /\ \A j \in 1..(i - 1) : Tables[j] \notin L

\* db.Begin.  A process that has ended may be started again.
Start(p) ==
  /\ ~Running(p)
  /\ run' = [run EXCEPT ![p] = [Off EXCEPT !.at = "check", !.left = Table]]
  /\ UNCHANGED <<exists, before>>

\* createFunc has returned without an error about table t.
Processed(p, t, made) ==
  run' = [run EXCEPT ![p].at = "check", ![p].left = @ \ {t}, ![p].made = made]

\* The lookup of the name.
Check(p) ==
  /\ run[p].at = "check"
  /\ \E t \in Table :
       /\ Follows(t, run[p].left)
       /\ IF t \in exists
          THEN Processed(p, t, run[p].made)
          ELSE run' = [run EXCEPT ![p].at = "insert", ![p].table = t]
  /\ UNCHANGED <<exists, before>>

\* Mutant: each table is created in a transaction of its own.
AtomicallyEach(p, t) == exists' = exists \cup {t}

\* What is created stays in the transaction.
Atomically(p, t) == UNCHANGED exists

\* The insertion into the catalogue, when no open transaction has the name.
Insert(p) ==
  LET t == run[p].table
  IN /\ run[p].at = "insert" /\ t \notin exists
     /\ \A q \in Process \ {p} : t \notin run[q].made
     /\ Processed(p, t, run[p].made \cup {t})
     /\ Atomically(p, t)
     /\ UNCHANGED before

\* Ends the transaction of p without a commit.
End(p, at) ==
  /\ run' = [run EXCEPT ![p] = [Off EXCEPT !.at = at]]
  /\ UNCHANGED <<exists, before>>

\* The insertion fails because of a transaction that has committed meanwhile.
Duplicate(p) == run[p].at = "insert" /\ run[p].table \in exists /\ End(p, "duplicate")

\* Another error, or the process dies.
Fail(p) == Running(p) /\ End(p, "failed")

\* Mutant: the last table of the slice is not waited for.
FinishedEarly(p) == run[p].at = "check" /\ run[p].left \subseteq {"provider"}

\* The loop over the tables is over.
Finished(p) == run[p].at = "check" /\ run[p].left = {}

Commit(p) ==
  /\ Finished(p)
  /\ exists' = exists \cup run[p].made
  /\ run' = [run EXCEPT ![p] = [Off EXCEPT !.at = "done"]]
  /\ UNCHANGED before

Step(p) == Check(p) \/ Insert(p) \/ Duplicate(p) \/ Commit(p)

Next == \E p \in Process : Start(p) \/ Step(p) \/ Fail(p)

Spec == Init /\ [][Next]_vars

\* A process that waits for a name is woken when the other transaction ends.
FairSpec == Spec /\ \A p \in Process : SF_vars(Step(p))

-----------------------------------------------------------------------------
(* Properties *)

\* migrate.go:68 "atomic table creation": whoever fails or dies at which table,
\* and whichever processes run together, all tables are there or none of those
\* that were missing.
AllOrNone == exists \in {before, Table}

\* "All tables created successfully!" is true, also of one that found tables
\* which it has not made; and of processes that run together the first makes
\* all tables, so that one that fails with a duplicate key has nothing to do.
EndedFindsAll ==
  \A p \in Process : run[p].at \in {"done", "duplicate"} => exists = Table

\* p waits for the transaction of q, which has inserted the same name.
WaitsFor(p, q) ==
  p # q /\ run[p].at = "insert" /\ run[p].table \in run[q].made

\* Processes do not wait for each other in a circle, in which PostgreSQL would
\* abort one of them: they all go through the slice in the same order.
NoCircle ==
  \A S \in SUBSET Process :
    S # {} => \E p \in S : \A q \in S : ~WaitsFor(p, q)

\* Each process ends, with an error or without, whoever it waits for.
RunsEnd == \A p \in Process : Running(p) ~> ~Running(p)

-----------------------------------------------------------------------------
(* The inductive invariant *)

TypeOK ==
  /\ before \subseteq Table /\ exists \subseteq Table
  /\ run \in [Process -> [at : Status, left : SUBSET Table, table : Table,
                          made : SUBSET Table]]

\* What is still to be processed is the end of the slice.
Suffix(L) ==
  \A i, j \in DOMAIN Tables : i < j /\ Tables[i] \in L => Tables[j] \in L

\* A process has found or made what it has processed; the table that it is
\* about to insert is the next one, and was not there in the beginning.
RunOK(p) ==
  /\ Suffix(run[p].left)
  /\ run[p].made \cap run[p].left = {}
  /\ Running(p) => Table \subseteq run[p].left \cup run[p].made \cup exists
  /\ run[p].at = "insert" =>
       Follows(run[p].table, run[p].left) /\ run[p].table \notin before

MInv ==
  /\ TypeOK /\ AllOrNone /\ EndedFindsAll
  /\ \A p \in Process : RunOK(p)
=============================================================================
