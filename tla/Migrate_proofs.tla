--------------------------- MODULE Migrate_proofs ---------------------------
(***************************************************************************)
(* Proofs about Migrate for any number of processes and any tables of an   *)
(* earlier version.                                                        *)
(***************************************************************************)
EXTENDS Migrate, TLAPS

\* The slice names six tables, each once.
LEMMA Slice ==
  /\ DOMAIN Tables = 1..6
  /\ \A i \in 1..6 : Tables[i] \in Table
  /\ \A t \in Table : \E i \in 1..6 : t = Tables[i]
  /\ \A i, j \in 1..6 : Tables[i] = Tables[j] => i = j
<1>1. DOMAIN Tables = 1..6
  BY DEF Tables
<1>2. /\ Tables[1] = "account" /\ Tables[2] = "reset_password"
      /\ Tables[3] = "update_email" /\ Tables[4] = "session"
      /\ Tables[5] = "verification" /\ Tables[6] = "provider"
  BY DEF Tables
<1>3. \A i \in 1..6 : i = 1 \/ i = 2 \/ i = 3 \/ i = 4 \/ i = 5 \/ i = 6
  OBVIOUS
<1>4. \A i, j \in 1..6 : Tables[i] = Tables[j] => i = j
  BY <1>2, <1>3
<1>5. QED
  BY <1>1, <1>4 DEF Table

\* Taking the next table off the end of the slice leaves an end of the slice.
LEMMA SuffixTail ==
  ASSUME NEW L \in SUBSET Table, Suffix(L), NEW t \in Table, Follows(t, L)
  PROVE  Suffix(L \ {t})
<1>1. PICK k \in 1..6 :
        t = Tables[k] /\ t \in L /\ \A j \in 1..(k - 1) : Tables[j] \notin L
  BY Slice DEF Follows
<1>2. SUFFICES ASSUME NEW i \in 1..6, NEW j \in 1..6, i < j, Tables[i] \in L \ {t}
               PROVE  Tables[j] \in L \ {t}
  BY Slice DEF Suffix
<1>3. i # k /\ ~(i < k)
  BY <1>1, <1>2
<1>4. Tables[j] \in L /\ j # k
  BY <1>2, <1>3, Slice DEF Suffix
<1>5. QED
  BY <1>1, <1>4, Slice

LEMMA InitMInv == Init => MInv
<1> SUFFICES ASSUME Init PROVE MInv
  OBVIOUS
<1>1. exists \subseteq Table /\ before = exists
  BY MigrateAssumption DEF Init
<1>2. "account" \in Table
  BY Slice DEF Tables
<1>3. TypeOK
  BY <1>1, <1>2 DEF Init, TypeOK, Off, Status
<1>4. ASSUME NEW p \in Process PROVE RunOK(p)
  BY DEF Init, Off, RunOK, Suffix, Running
<1>5. QED
  BY <1>1, <1>3, <1>4 DEF Init, MInv, AllOrNone, EndedFindsAll, Off

\* The steps that end the transaction of p.
LEMMA OffOK ==
  ASSUME MInv, NEW p \in Process, NEW at \in {"done", "failed", "duplicate"},
         run' = [run EXCEPT ![p] = [Off EXCEPT !.at = at]],
         before' = before, exists' \in {exists, Table},
         Running(p), at # "failed" => exists' = Table
  PROVE  MInv'
<1>1. /\ exists \subseteq exists' /\ exists' \subseteq Table
      /\ \A q \in Process : q # p => run'[q] = run[q]
      /\ run'[p].at = at /\ run'[p].left = {} /\ run'[p].made = {}
  BY DEF MInv, TypeOK, Off
<1>2. TypeOK'
  BY <1>1, Slice DEF MInv, TypeOK, Off, Status, Tables
<1>3. AllOrNone' /\ EndedFindsAll'
  BY <1>1 DEF MInv, AllOrNone, EndedFindsAll
<1>4. ASSUME NEW q \in Process PROVE RunOK(q)'
  <2>1. CASE q = p
    BY <1>1, <2>1 DEF RunOK, Running, Suffix
  <2>2. CASE q # p
    BY <1>1, <2>2 DEF MInv, RunOK, Running, Suffix, Follows
  <2>3. QED
    BY <2>1, <2>2
<1>5. QED
  BY <1>2, <1>3, <1>4 DEF MInv

\* A step of p that commits nothing, and goes on as r.
LEMMA GoesOn ==
  ASSUME MInv, NEW p \in Process, NEW r,
         r \in [at : {"check", "insert"}, left : SUBSET Table, table : Table,
               made : SUBSET Table],
         run' = [run EXCEPT ![p] = r], UNCHANGED <<exists, before>>,
         Suffix(r.left), r.made \cap r.left = {},
         Table \subseteq r.left \cup r.made \cup exists,
         r.at = "insert" => Follows(r.table, r.left) /\ r.table \notin before
  PROVE  MInv'
<1>1. run'[p] = r /\ \A q \in Process : q # p => run'[q] = run[q]
  BY DEF MInv, TypeOK
<1>2. TypeOK'
  BY DEF MInv, TypeOK, Status
<1>3. AllOrNone' /\ EndedFindsAll'
  BY <1>1 DEF MInv, AllOrNone, EndedFindsAll
<1>4. ASSUME NEW q \in Process PROVE RunOK(q)'
  <2>1. CASE q = p
    BY <1>1, <2>1 DEF RunOK, Running, Suffix, Follows
  <2>2. CASE q # p
    BY <1>1, <2>2 DEF MInv, RunOK, Running, Suffix, Follows
  <2>3. QED
    BY <2>1, <2>2
<1>5. QED
  BY <1>2, <1>3, <1>4 DEF MInv

\* One of the tables left is processed: it exists, or p has made it.
LEMMA ProcessedOK ==
  ASSUME MInv, NEW p \in Process, Running(p), NEW t \in run[p].left,
         Follows(t, run[p].left), NEW M \in {run[p].made, run[p].made \cup {t}},
         t \in exists \cup M, Processed(p, t, M), UNCHANGED <<exists, before>>
  PROVE  MInv'
<1> DEFINE r == [run[p] EXCEPT !.at = "check", !.left = run[p].left \ {t}, !.made = M]
<1>1. /\ run[p] \in [at : Status, left : SUBSET Table, table : Table, made : SUBSET Table]
      /\ t \in Table /\ RunOK(p)
  BY DEF MInv, TypeOK
<1>2. run' = [run EXCEPT ![p] = r]
  BY DEF Processed
<1>3. /\ r.at = "check" /\ r.left = run[p].left \ {t} /\ r.made = M
      /\ r \in [at : {"check", "insert"}, left : SUBSET Table, table : Table,
               made : SUBSET Table]
  BY <1>1
<1>4. Suffix(r.left)
  BY <1>1, <1>3, SuffixTail DEF RunOK
<1>5. r.made \cap r.left = {} /\ Table \subseteq r.left \cup r.made \cup exists
  BY <1>1, <1>3 DEF RunOK
<1> HIDE DEF r
<1>6. QED
  BY <1>2, <1>3, <1>4, <1>5, GoesOn

LEMMA StartOK == ASSUME MInv, NEW p \in Process, Start(p) PROVE MInv'
<1> DEFINE r == [Off EXCEPT !.at = "check", !.left = Table]
<1>1. /\ r.at = "check" /\ r.left = Table /\ r.made = {}
      /\ r \in [at : {"check", "insert"}, left : SUBSET Table, table : Table,
               made : SUBSET Table]
  <2>1. "account" \in Table
    BY Slice DEF Tables
  <2>2. QED
    BY <2>1 DEF Off
<1>2. run' = [run EXCEPT ![p] = r] /\ UNCHANGED <<exists, before>>
  BY DEF Start
<1>3. Suffix(r.left)
  BY <1>1, Slice DEF Suffix
<1>4. /\ r.made \cap r.left = {} /\ Table \subseteq r.left \cup r.made \cup exists
      /\ r.at # "insert"
  BY <1>1
<1> HIDE DEF r
<1>5. QED
  BY <1>1, <1>2, <1>3, <1>4, GoesOn

LEMMA CheckOK == ASSUME MInv, NEW p \in Process, Check(p) PROVE MInv'
<1>1. PICK t \in Table :
        /\ Follows(t, run[p].left)
        /\ IF t \in exists
           THEN Processed(p, t, run[p].made)
           ELSE run' = [run EXCEPT ![p].at = "insert", ![p].table = t]
  BY DEF Check
<1>2. /\ run[p].at = "check" /\ Running(p) /\ UNCHANGED <<exists, before>>
      /\ t \in run[p].left
      /\ run[p] \in [at : Status, left : SUBSET Table, table : Table, made : SUBSET Table]
      /\ RunOK(p)
  BY <1>1 DEF Check, Running, Follows, MInv, TypeOK
<1>3. CASE t \in exists
  BY <1>1, <1>2, <1>3, ProcessedOK
<1>4. CASE t \notin exists
  <2> DEFINE r == [run[p] EXCEPT !.at = "insert", !.table = t]
  <2>1. /\ r.at = "insert" /\ r.table = t
        /\ r.left = run[p].left /\ r.made = run[p].made
        /\ r \in [at : {"check", "insert"}, left : SUBSET Table, table : Table,
                 made : SUBSET Table]
    BY <1>2
  <2>2. run' = [run EXCEPT ![p] = r]
    BY <1>1, <1>4
  <2>3. t \notin before
    BY <1>1, <1>4 DEF MInv, AllOrNone, TypeOK
  <2>4. Suffix(r.left) /\ r.made \cap r.left = {}
    BY <1>2, <2>1 DEF RunOK
  <2>5. Table \subseteq r.left \cup r.made \cup exists
    BY <1>2, <2>1 DEF RunOK
  <2>6. Follows(r.table, r.left) /\ r.table \notin before
    BY <1>1, <2>1, <2>3
  <2> HIDE DEF r
  <2>7. QED
    BY <1>2, <2>1, <2>2, <2>4, <2>5, <2>6, GoesOn
<1>5. QED
  BY <1>3, <1>4

LEMMA InsertOK == ASSUME MInv, NEW p \in Process, Insert(p) PROVE MInv'
<1> DEFINE t == run[p].table
<1>1. /\ Running(p) /\ RunOK(p)
      /\ Processed(p, t, run[p].made \cup {t}) /\ UNCHANGED <<exists, before>>
  BY DEF Insert, Atomically, Running, MInv
<1>2. Follows(t, run[p].left) /\ t \in run[p].left
  BY <1>1 DEF Insert, RunOK, Follows
<1> HIDE DEF t
<1>3. QED
  BY <1>1, <1>2, ProcessedOK

LEMMA DuplicateOK == ASSUME MInv, NEW p \in Process, Duplicate(p) PROVE MInv'
<1>1. Running(p) /\ exists' = exists /\ before' = before
  BY DEF Duplicate, End, Running
<1>2. exists' = Table
  BY <1>1 DEF Duplicate, MInv, RunOK, AllOrNone
<1>3. QED
  BY <1>1, <1>2, OffOK DEF Duplicate, End

LEMMA FailOK == ASSUME MInv, NEW p \in Process, Fail(p) PROVE MInv'
BY OffOK DEF Fail, End

LEMMA CommitOK == ASSUME MInv, NEW p \in Process, Commit(p) PROVE MInv'
<1>1. Running(p) /\ exists' = exists \cup run[p].made /\ before' = before
  BY DEF Commit, Finished, Running
<1>2. exists' = Table
  BY <1>1 DEF Commit, Finished, MInv, RunOK, TypeOK
<1>3. QED
  BY <1>1, <1>2, OffOK DEF Commit

LEMMA NextMInv == MInv /\ [Next]_vars => MInv'
<1> SUFFICES ASSUME MInv, [Next]_vars PROVE MInv'
  OBVIOUS
<1>1. CASE UNCHANGED vars
  BY <1>1 DEF vars, MInv, TypeOK, AllOrNone, EndedFindsAll, RunOK, Running, Suffix, Follows
<1>2. ASSUME NEW p \in Process, Start(p) \/ Step(p) \/ Fail(p) PROVE MInv'
  BY <1>2, StartOK, CheckOK, InsertOK, DuplicateOK, CommitOK, FailOK DEF Step
<1>3. QED
  BY <1>1, <1>2 DEF Next

\* The processes that run, fail and are started again keep to the invariant.
THEOREM MigrateInvariance == Spec => []MInv
<1>1. Init => MInv
  BY InitMInv
<1>2. MInv /\ [Next]_vars => MInv'
  BY NextMInv
<1>3. QED
  BY <1>1, <1>2, PTL DEF Spec

\* The command creates all tables that were missing, or none, whoever fails at
\* which of them and whichever processes run at the same time.
THEOREM MigrateAllOrNone == Spec => []AllOrNone
<1>1. MInv => AllOrNone
  BY DEF MInv
<1>2. QED
  BY <1>1, MigrateInvariance, PTL

\* Who says that the tables are created, or fails because another process has
\* created one of them, leaves a database with all tables.
THEOREM MigrateEndedFindsAll == Spec => []EndedFindsAll
<1>1. MInv => EndedFindsAll
  BY DEF MInv
<1>2. QED
  BY <1>1, MigrateInvariance, PTL

\* Who waits is about to insert a table further to the front of the slice than
\* the one that the other has come to.
LEMMA WaitsForLater ==
  ASSUME MInv, NEW p \in Process, NEW q \in Process, WaitsFor(p, q),
         NEW i \in 1..6, NEW j \in 1..6,
         run[p].table = Tables[i], run[q].table = Tables[j], run[q].at = "insert"
  PROVE  i < j
<1>1. Tables[j] \in run[q].left /\ Suffix(run[q].left)
  BY DEF MInv, RunOK, Follows
<1>2. Tables[i] \notin run[q].left
  BY DEF WaitsFor, MInv, RunOK
<1>3. i # j
  BY <1>1, <1>2
<1>4. ~(j < i)
  BY <1>1, <1>2, Slice DEF Suffix
<1>5. QED
  BY <1>3, <1>4

\* Of processes that all wait, the one that has come furthest waits for none of
\* them.
LEMMA NoCircleFromMInv == MInv => NoCircle
<1> SUFFICES ASSUME MInv, NEW S \in SUBSET Process, S # {}
             PROVE  \E p \in S : \A q \in S : ~WaitsFor(p, q)
  BY DEF NoCircle
<1>1. CASE \E p \in S : run[p].at # "insert"
  BY <1>1 DEF WaitsFor
<1>2. CASE \A p \in S : run[p].at = "insert"
  <2> DEFINE I == {i \in 1..6 : \E p \in S : run[p].table = Tables[i]}
  <2>1. \A p \in S : \E i \in I : run[p].table = Tables[i]
    BY Slice DEF MInv, TypeOK
  <2>2. I \subseteq 1..6 /\ I # {}
    BY <2>1
  <2>3. PICK k \in I : \A i \in I : i <= k
    <3> HIDE DEF I
    <3>1. \A i \in 1..6 : i = 1 \/ i = 2 \/ i = 3 \/ i = 4 \/ i = 5 \/ i = 6
      OBVIOUS
    <3>2. CASE 6 \in I
      BY <2>2, <3>1, <3>2
    <3>3. CASE 6 \notin I /\ 5 \in I
      BY <2>2, <3>1, <3>3
    <3>4. CASE 6 \notin I /\ 5 \notin I /\ 4 \in I
      BY <2>2, <3>1, <3>4
    <3>5. CASE 6 \notin I /\ 5 \notin I /\ 4 \notin I /\ 3 \in I
      BY <2>2, <3>1, <3>5
    <3>6. CASE 6 \notin I /\ 5 \notin I /\ 4 \notin I /\ 3 \notin I /\ 2 \in I
      BY <2>2, <3>1, <3>6
    <3>7. CASE 1 \in I /\ \A i \in I : i = 1
      BY <3>7
    <3>8. QED
      BY <2>2, <3>1, <3>2, <3>3, <3>4, <3>5, <3>6, <3>7
  <2>4. PICK p \in S : run[p].table = Tables[k]
    OBVIOUS
  <2>5. ASSUME NEW q \in S, WaitsFor(p, q) PROVE FALSE
    <3>1. PICK j \in I : run[q].table = Tables[j]
      BY <2>1
    <3>2. k < j
      BY <1>2, <2>2, <2>4, <2>5, <3>1, WaitsForLater
    <3>3. j <= k /\ k \in 1..6 /\ j \in 1..6
      BY <2>3
    <3>4. QED
      BY <3>2, <3>3
  <2>6. QED
    BY <2>4, <2>5
<1>3. QED
  BY <1>1, <1>2

\* No processes wait for each other in a circle.
THEOREM MigrateNoCircle == Spec => []NoCircle
BY NoCircleFromMInv, MigrateInvariance, PTL
=============================================================================
