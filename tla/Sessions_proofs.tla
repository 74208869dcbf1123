-------------------------- MODULE Sessions_proofs --------------------------
(***************************************************************************)
(* Proofs about Sessions for any number of sessions, accounts and callers. *)
(***************************************************************************)
EXTENDS Sessions, TLAPS

-----------------------------------------------------------------------------
(* Type correctness *)

LEMMA InitTypeOK == Init => TypeOK
  BY DEF Init, TypeOK, Row, Entry, NoRows

LEMMA NextTypeOK == TypeOK /\ [Next]_vars => TypeOK'
<1> SUFFICES ASSUME TypeOK, [Next]_vars PROVE TypeOK'
  OBVIOUS
<1> USE DEF TypeOK, Row, Entry, clocks
<1>1. ASSUME NEW c \in Caller, NEW s \in Session, NEW tx \in BOOLEAN,
             Create(c, s, tx)
      PROVE  TypeOK'
  BY <1>1 DEF Create, Enter, NoRows, history
<1>2. ASSUME NEW c \in Caller, NEW a \in Account, NEW tx \in BOOLEAN,
             RevokeAll(c, a, tx)
      PROVE  TypeOK'
  BY <1>2 DEF RevokeAll, Enter, RowsOf, store, history
<1>3. ASSUME NEW c \in Caller, NEW s \in Session, ScanRow(c, s) PROVE TypeOK'
  BY <1>3 DEF ScanRow, history
<1>4. ASSUME NEW c \in Caller, NEW s \in Session, UpdateRow(c, s) PROVE TypeOK'
  BY <1>4 DEF UpdateRow, RevokedRow, history
<1>5. ASSUME NEW c \in Caller, NEW s \in Session, CacheSet(c, s) PROVE TypeOK'
  BY <1>5 DEF CacheSet, FinalEntry
<1>6. ASSUME NEW c \in Caller, EndScan(c) PROVE TypeOK'
  BY <1>6 DEF EndScan, store, history
<1>7. ASSUME NEW c \in Caller, Commit(c) PROVE TypeOK'
  BY <1>7 DEF Commit, RevokedRow, history
<1>8. ASSUME NEW c \in Caller, Return(c) PROVE TypeOK'
  BY <1>8 DEF Return, Leave, Enter, NoRows, store
<1>9. ASSUME NEW c \in Caller, Fail(c) PROVE TypeOK'
  BY <1>9 DEF Fail, Leave, Enter, NoRows, store
<1>10. ASSUME NEW c \in Caller, PurgeInvalid(c) PROVE TypeOK'
  BY <1>10 DEF PurgeInvalid, call, history
<1>11. ASSUME NEW s \in Session, Evict(s) \/ Expire(s) \/ FallDue(s) PROVE TypeOK'
  BY <1>11 DEF Evict, Expire, FallDue, call, history
<1>12. CASE UNCHANGED vars
  BY <1>12 DEF vars, store, call, history
<1>13. QED
  BY <1>1, <1>2, <1>3, <1>4, <1>5, <1>6, <1>7, <1>8, <1>9, <1>10, <1>11, <1>12
     DEF Next, Work

\* Every variable keeps its type in every behaviour.
THEOREM TypeCorrect == Spec => []TypeOK
  BY InitTypeOK, NextTypeOK, PTL DEF Spec

-----------------------------------------------------------------------------
(* The inductive invariant *)

LEMMA InitIInv == Init => IInv
<1> SUFFICES ASSUME Init PROVE IInv
  OBVIOUS
<1>1. TypeOK
  BY InitTypeOK
<1>2. CallInv /\ LockInv /\ RowInv /\ ClockInv /\ ClosedStayRevoked
  BY DEF Init, NoRows, CallInv, LockInv, RowInv, ClockInv, ClosedStayRevoked
<1>3. CacheInv
  BY DEF Init, NoRows, CacheInv, RevokedEntryHasRevokedRow, StaleHasCause, Stale
<1>4. QED
  BY <1>1, <1>2, <1>3 DEF IInv

\* A row goes from absent to live to revoked to purged, never back.
LEMMA RowsMoveForward ==
  ASSUME IInv, [Next]_vars, NEW s \in Session
  PROVE  /\ table[s] # "absent" => table'[s] # "absent"
         /\ table[s] = "revoked" =>
              table'[s] = "revoked" \/ (table'[s] = "purged" /\ s \in overdue)
         /\ table[s] = "purged" => table'[s] = "purged"
<1> USE DEF IInv, TypeOK, Row
<1> DEFINE Forward ==
      /\ table[s] # "absent" => table'[s] # "absent"
      /\ table[s] = "revoked" =>
           table'[s] = "revoked" \/ (table'[s] = "purged" /\ s \in overdue)
      /\ table[s] = "purged" => table'[s] = "purged"
<1>1. ASSUME NEW c \in Caller, NEW t \in Session, NEW tx \in BOOLEAN,
             Create(c, t, tx)
      PROVE  Forward
  BY <1>1 DEF Create, Insertable
<1>2. ASSUME NEW c \in Caller, NEW t \in Session, UpdateRow(c, t) PROVE Forward
  BY <1>2 DEF UpdateRow, RevokedRow
<1>3. ASSUME NEW c \in Caller, Commit(c) PROVE Forward
  BY <1>3 DEF Commit, RevokedRow, RowInv
<1>4. ASSUME NEW c \in Caller, PurgeInvalid(c) PROVE Forward
  BY <1>4 DEF PurgeInvalid, Purgeable
<1>5. CASE table' = table
  BY <1>5
<1>6. QED
  BY <1>1, <1>2, <1>3, <1>4, <1>5
     DEF Next, Work, vars, store, RevokeAll, ScanRow, CacheSet, EndScan,
         Return, Fail, Evict, Expire, FallDue

LEMMA NextCallInv == ASSUME IInv, [Next]_vars PROVE CallInv'
<1> USE DEF IInv, TypeOK, CallInv
<1>1. ASSUME NEW c \in Caller, NEW s \in Session, NEW tx \in BOOLEAN,
             Create(c, s, tx)
      PROVE  CallInv'
  BY <1>1 DEF Create, Enter
<1>2. ASSUME NEW c \in Caller, NEW a \in Account, NEW tx \in BOOLEAN,
             RevokeAll(c, a, tx)
      PROVE  CallInv'
  BY <1>2 DEF RevokeAll, Enter
<1>3. ASSUME NEW c \in Caller, NEW s \in Session, ScanRow(c, s) PROVE CallInv'
  BY <1>3 DEF ScanRow
<1>4. ASSUME NEW c \in Caller, NEW s \in Session, UpdateRow(c, s) PROVE CallInv'
  BY <1>4 DEF UpdateRow
<1>5. ASSUME NEW c \in Caller, NEW s \in Session, CacheSet(c, s) PROVE CallInv'
  BY <1>5 DEF CacheSet, MaySet
<1>6. ASSUME NEW c \in Caller, EndScan(c) \/ Commit(c) PROVE CallInv'
  <2>1. CASE EndScan(c)
    BY <2>1 DEF EndScan
  <2>2. CASE Commit(c)
    BY <2>2 DEF Commit
  <2>3. QED
    BY <1>6, <2>1, <2>2
<1>7. ASSUME NEW c \in Caller, Leave(c) PROVE CallInv'
  BY <1>7 DEF Leave, Enter
<1>8. CASE UNCHANGED call
  BY <1>8 DEF call
<1>9. QED
  BY <1>1, <1>2, <1>3, <1>4, <1>5, <1>6, <1>7, <1>8
     DEF Next, Work, vars, Return, Fail, PurgeInvalid, Evict, Expire, FallDue

LEMMA NextLockInv == ASSUME IInv, [Next]_vars PROVE LockInv'
<1> USE DEF IInv, TypeOK, LockInv
<1>1. ASSUME NEW c \in Caller, NEW s \in Session, NEW tx \in BOOLEAN,
             Create(c, s, tx)
      PROVE  LockInv'
  BY <1>1 DEF Create, Enter, Unlocked
<1>2. ASSUME NEW c \in Caller, NEW s \in Session, UpdateRow(c, s) PROVE LockInv'
  BY <1>2 DEF UpdateRow, Unlocked
<1>3. ASSUME NEW c \in Caller, pend' = [pend EXCEPT ![c] = {}] PROVE LockInv'
  BY <1>3
<1>4. CASE UNCHANGED pend
  BY <1>4
<1>5. QED
  BY <1>1, <1>2, <1>3, <1>4
     DEF Next, Work, vars, call, RevokeAll, ScanRow, CacheSet, EndScan, Commit,
         Return, Fail, Leave, Enter, PurgeInvalid, Evict, Expire, FallDue

LEMMA NextRowInv == ASSUME IInv, [Next]_vars PROVE RowInv'
<1> USE DEF IInv, TypeOK, Row, RowInv, Dead
<1> DEFINE Forward ==
      \A t \in Session : /\ table[t] # "absent" => table'[t] # "absent"
                         /\ Dead(t) => Dead(t)'
<1>0. Forward
  BY RowsMoveForward
<1>1. ASSUME NEW c \in Caller, NEW s \in Session, NEW tx \in BOOLEAN,
             Create(c, s, tx)
      PROVE  RowInv'
  BY <1>1, <1>0 DEF Create, Enter, NoRows, Insertable, Unlocked
<1>2. ASSUME NEW c \in Caller, NEW a \in Account, NEW tx \in BOOLEAN,
             RevokeAll(c, a, tx)
      PROVE  RowInv'
  BY <1>2 DEF RevokeAll, Enter, RowsOf, store
<1>3. ASSUME NEW c \in Caller, NEW s \in Session, ScanRow(c, s) PROVE RowInv'
  BY <1>3 DEF ScanRow
<1>4. ASSUME NEW c \in Caller, NEW s \in Session, UpdateRow(c, s) PROVE RowInv'
  <2>1. kind[c] = "revoke" /\ table[s] # "absent"
    BY <1>4 DEF UpdateRow, CallInv
  <2>2. CASE inTx[c]
    BY <1>4, <2>1, <2>2 DEF UpdateRow
  <2>3. CASE ~inTx[c]
    BY <1>4, <1>0, <2>1, <2>3 DEF UpdateRow, RevokedRow, Unlocked, CallInv
  <2>4. QED
    BY <2>2, <2>3
<1>5. ASSUME NEW c \in Caller, NEW s \in Session, CacheSet(c, s) PROVE RowInv'
  BY <1>5 DEF CacheSet
<1>6. ASSUME NEW c \in Caller, EndScan(c) PROVE RowInv'
  BY <1>6 DEF EndScan, store
<1>7. ASSUME NEW c \in Caller, Commit(c) PROVE RowInv'
  BY <1>7, <1>0 DEF Commit, RevokedRow, LockInv
<1>8. ASSUME NEW c \in Caller, Leave(c), UNCHANGED table PROVE RowInv'
  BY <1>8 DEF Leave, Enter, NoRows
<1>9. ASSUME NEW c \in Caller, PurgeInvalid(c) PROVE RowInv'
  BY <1>9, <1>0 DEF PurgeInvalid, Purgeable, call
<1>10. CASE UNCHANGED <<table, call>>
  BY <1>10 DEF call
<1>11. QED
  BY <1>1, <1>2, <1>3, <1>4, <1>5, <1>6, <1>7, <1>8, <1>9, <1>10
     DEF Next, Work, vars, store, Return, Fail, Evict, Expire, FallDue

LEMMA NextClockInv == ASSUME IInv, [Next]_vars PROVE ClockInv'
<1> USE DEF IInv, TypeOK, Row, ClockInv
<1>1. ASSUME NEW s \in Session, Expire(s) \/ FallDue(s) PROVE ClockInv'
  BY <1>1 DEF Expire, FallDue
<1>2. ASSUME NEW c \in Caller, PurgeInvalid(c) PROVE ClockInv'
  BY <1>2 DEF PurgeInvalid, Purgeable, clocks
<1>3. ASSUME UNCHANGED clocks,
             \A s \in Session : table'[s] = "purged" => table[s] = "purged"
      PROVE  ClockInv'
  BY <1>3 DEF clocks
<1>4. ASSUME NEW c \in Caller, Work(c) PROVE ClockInv'
  <2>1. UNCHANGED clocks
    BY <1>4 DEF Work, store, ScanRow, UpdateRow, CacheSet, EndScan, Commit,
                Return, Fail
  <2>2. \A s \in Session : table'[s] = "purged" => table[s] = "purged"
    BY <1>4 DEF Work, store, ScanRow, UpdateRow, CacheSet, EndScan, Commit,
                Return, Fail, RevokedRow
  <2>3. QED
    BY <1>3, <2>1, <2>2
<1>5. QED
  BY <1>1, <1>2, <1>3, <1>4 DEF Next, vars, store, Create, RevokeAll, Evict

LEMMA NextClosedStayRevoked ==
  ASSUME IInv, [Next]_vars PROVE ClosedStayRevoked'
<1> USE DEF IInv, TypeOK, Row, ClosedStayRevoked
<1>1. \A s \in Session : Dead(s) => Dead(s)'
  BY RowsMoveForward DEF Dead
<1>2. ASSUME NEW c \in Caller, Return(c) PROVE ClosedStayRevoked'
  BY <1>2 DEF Return, store, RowInv, Dead
<1>3. CASE UNCHANGED closed
  BY <1>1, <1>3 DEF Dead
<1>4. QED
  BY <1>2, <1>3
     DEF Next, Work, vars, history, Create, RevokeAll, ScanRow, UpdateRow,
         CacheSet, EndScan, Commit, Fail, PurgeInvalid, Evict, Expire, FallDue

LEMMA NextCacheInv == ASSUME IInv, [Next]_vars PROVE CacheInv'
<1> SUFFICES ASSUME CommitFirst PROVE CacheInv'
  BY DEF CacheInv
<1> USE DEF IInv, TypeOK, Row, Entry, CacheInv, RevokedEntryHasRevokedRow,
            StaleHasCause, Stale
<1>0. \A s \in Session : /\ table[s] # "absent" => table'[s] # "absent"
                         /\ Dead(s) => Dead(s)'
  BY RowsMoveForward DEF Dead
<1>1. ASSUME NEW c \in Caller, NEW s \in Session, NEW tx \in BOOLEAN,
             Create(c, s, tx)
      PROVE  CacheInv'
  <2>1. \A t \in Session : Revoking(t) => Revoking(t)'
    BY <1>1 DEF Create, Enter, CallInv, Revoking
  <2>2. QED
    BY <1>1, <1>0, <2>1 DEF Create, Insertable, history
<1>2. ASSUME NEW c \in Caller, NEW a \in Account, NEW tx \in BOOLEAN,
             RevokeAll(c, a, tx)
      PROVE  CacheInv'
  <2>1. \A t \in Session : Revoking(t) => Revoking(t)'
    BY <1>2 DEF RevokeAll, Enter, CallInv, Revoking
  <2>2. QED
    BY <1>2, <2>1 DEF RevokeAll, store, history
<1>3. ASSUME NEW c \in Caller, NEW s \in Session, ScanRow(c, s) PROVE CacheInv'
  BY <1>3 DEF ScanRow, CallInv, RowInv, Dead, history, Revoking
<1>4. ASSUME NEW c \in Caller, NEW s \in Session, UpdateRow(c, s) PROVE CacheInv'
  BY <1>4, <1>0 DEF UpdateRow, RevokedRow, CallInv, Dead, history, Revoking
<1>5. ASSUME NEW c \in Caller, NEW s \in Session, CacheSet(c, s) PROVE CacheInv'
  <2>1. \A t \in Session \ {s} : Revoking(t) => Revoking(t)'
    BY <1>5 DEF CacheSet, Revoking
  <2>2. table[s] # "absent" /\ (kind[c] # "create" => Dead(s))
    BY <1>5 DEF CacheSet, MaySet, CallInv, RowInv, Dead
  <2>3. \A t \in Session \ {s} :
          cache'[t] = cache[t] /\ (t \in disturbed => t \in disturbed')
    BY <1>5 DEF CacheSet
  <2>4. /\ kind[c] # "create" => cache'[s] = "revoked"
        /\ kind[c] = "create" => cache'[s] = "live" /\ (Dead(s) => s \in disturbed')
        /\ table' = table
    BY <1>5 DEF CacheSet, FinalEntry, Dead
  <2>5. QED
    BY <2>1, <2>2, <2>3, <2>4 DEF Dead
<1>6. ASSUME NEW c \in Caller, EndScan(c) PROVE CacheInv'
  BY <1>6 DEF EndScan, store, history, Revoking
<1>7. ASSUME NEW c \in Caller, Commit(c) PROVE CacheInv'
  <2>1. UNCHANGED <<cache, disturbed>> /\ \A t \in Session : Revoking(t) => Revoking(t)'
    BY <1>7 DEF Commit, history, Revoking
  <2>2. \A t \in Session : Dead(t)' => Dead(t) \/ (t \in pend[c] /\ kind[c] # "create")
    BY <1>7 DEF Commit, RevokedRow, Dead
  <2>3. \A t \in pend[c] : kind[c] # "create" => Revoking(t)
    BY <1>7 DEF Commit, CallInv, Revoking
  <2>4. QED
    BY <1>0, <2>1, <2>2, <2>3 DEF Dead
<1>8. ASSUME NEW c \in Caller, Return(c) PROVE CacheInv'
  BY <1>8 DEF Return, Leave, Enter, store, Revoking
<1>9. ASSUME NEW c \in Caller, Fail(c) PROVE CacheInv'
  BY <1>9 DEF Fail, Leave, Enter, store, Revoking
<1>10. ASSUME NEW c \in Caller, PurgeInvalid(c) PROVE CacheInv'
  BY <1>10 DEF PurgeInvalid, Purgeable, call, history, Revoking
<1>11. ASSUME NEW s \in Session, Evict(s) \/ Expire(s) \/ FallDue(s) PROVE CacheInv'
  BY <1>11 DEF Evict, Expire, FallDue, call, history, Revoking
<1>12. CASE UNCHANGED vars
  BY <1>12 DEF vars, store, call, history, Revoking
<1>13. QED
  BY <1>1, <1>2, <1>3, <1>4, <1>5, <1>6, <1>7, <1>8, <1>9, <1>10, <1>11, <1>12
     DEF Next, Work

LEMMA NextIInv == IInv /\ [Next]_vars => IInv'
  BY NextTypeOK, NextCallInv, NextLockInv, NextRowInv, NextClockInv,
     NextClosedStayRevoked, NextCacheInv DEF IInv

\* The inductive invariant holds in every behaviour, in either order of commit
\* and Exec.
THEOREM Invariance == Spec => []IInv
  BY InitIInv, NextIInv, PTL DEF Spec

-----------------------------------------------------------------------------
(* What follows *)

\* RevokeAll, once it has returned nil, is not undone by any later or
\* concurrent call, in either order of commit and Exec.
THEOREM ClosedForGood == Spec => []ClosedStayRevoked
<1>1. IInv => ClosedStayRevoked
  BY DEF IInv
<1>2. QED
  BY <1>1, Invariance, PTL

\* No write of a stale copy brings a revoked session back.
THEOREM RevocationFinal == Spec => RevocationIsFinal
<1>1. IInv /\ [Next]_vars =>
        [\A s \in Session :
           /\ table[s] = "revoked" =>
                \/ table'[s] = "revoked"
                \/ table'[s] = "purged" /\ s \in overdue
           /\ table[s] = "purged" => table'[s] = "purged"]_vars
  BY RowsMoveForward
<1>2. QED
  BY <1>1, Invariance, PTL DEF Spec, RevocationIsFinal

\* With callers that commit before they Exec, an accepted session has a row,
\* or a purge deleted it early where PostgreSQL's clock is ahead of the
\* program's; and a "revoked" entry has a revoked or deleted row.
THEOREM CacheFollowsTable ==
  ASSUME CommitFirst
  PROVE  Spec => []RevokedEntryHasRevokedRow /\ []AcceptedHasRow
<1>1. IInv => RevokedEntryHasRevokedRow /\ AcceptedHasRow
  BY DEF IInv, TypeOK, Row, CacheInv, ClockInv, AcceptedHasRow, Accepts
<1>2. QED
  BY <1>1, Invariance, PTL

\* The same invariant for the entries alone: no "revoked" entry is cached before
\* the row it is a copy of is revoked, or deleted after it was.
THEOREM RevokedEntriesFollow ==
  ASSUME CommitFirst
  PROVE  Spec => []RevokedEntryHasRevokedRow
<1>1. IInv => RevokedEntryHasRevokedRow
  BY DEF IInv, CacheInv
<1>2. QED
  BY <1>1, Invariance, PTL

\* With callers that commit before they Exec, a stale entry is owed to a call
\* in progress, to a RevokeAll that failed or to a Create that wrote late.
THEOREM StaleEntriesHaveACause ==
  ASSUME CommitFirst
  PROVE  Spec => []StaleHasCause
<1>1. IInv => StaleHasCause
  BY DEF IInv, CacheInv
<1>2. QED
  BY <1>1, Invariance, PTL

-----------------------------------------------------------------------------
(* Refinement: callers that commit before they Exec implement SessionStore *)

LEMMA InitStore == Init => Store!Init
  BY DEF Init, NoRows, Store!Init, Accepted, Accepts

\* Writing one cache entry admits or dismisses that session.
LEMMA OneEntryWritten ==
  ASSUME IInv, NEW s \in Session, NEW e \in Entry,
         cache' = [cache EXCEPT ![s] = e], UNCHANGED <<table, clocks>>,
         e = "live" => table[s] # "absent"
  PROVE  Store!Next
<1> USE DEF IInv, TypeOK, clocks, Store!clocks
<1>1. CASE e = "live" /\ s \notin expired
  <2>1. Accepted' = Accepted \cup {s}
    BY <1>1 DEF Accepted, Accepts
  <2>2. table[s] \in {"live", "revoked"} \/ (ahead /\ table[s] = "purged")
    BY <1>1 DEF Row, ClockInv
  <2>3. Store!Admit(s)
    BY <1>1, <2>1, <2>2 DEF Store!Admit
  <2>4. QED
    BY <2>3 DEF Store!Next
<1>2. CASE ~(e = "live" /\ s \notin expired)
  <2>1. Accepted' = Accepted \ {s}
    BY <1>2 DEF Accepted, Accepts
  <2>2. Store!Dismiss(s)
    BY <2>1 DEF Store!Dismiss
  <2>3. QED
    BY <2>2 DEF Store!Next
<1>3. QED
  BY <1>1, <1>2

LEMMA CommitStore ==
  ASSUME IInv, NEW c \in Caller, Commit(c)
  PROVE  Store!Next
<1> USE DEF IInv, TypeOK, clocks, Store!clocks
<1>0. UNCHANGED <<Accepted, clocks>>
  BY DEF Commit, Accepted, Accepts
<1>1. CASE kind[c] = "create"
  <2>0. PICK s \in pend[c] : TRUE
    BY DEF Commit
  <2>1. s \in Session /\ pend[c] = {s} /\ table[s] = "absent"
    BY <1>1, <2>0 DEF CallInv, RowInv
  <2>2. table' = [table EXCEPT ![s] = "live"]
    BY <1>1, <2>1 DEF Commit
  <2>3. Store!Open(s)
    BY <1>0, <2>1, <2>2 DEF Store!Open
  <2>4. QED
    BY <2>3 DEF Store!Next
<1>2. CASE kind[c] # "create"
  <2>1. Store!Close(pend[c])
    BY <1>0, <1>2 DEF Commit, RevokedRow, Store!Close
  <2>2. QED
    BY <2>1 DEF Store!Next
<1>3. QED
  BY <1>1, <1>2

LEMMA NextStore ==
  ASSUME CommitFirst, IInv, [Next]_vars
  PROVE  [Store!Next]_(Store!vars)
<1> USE DEF IInv, TypeOK, clocks, Store!clocks
<1>0. ASSUME UNCHANGED <<cache, clocks>> PROVE Accepted' = Accepted
  BY <1>0 DEF Accepted, Accepts
<1>1. ASSUME NEW c \in Caller, NEW s \in Session, NEW tx \in BOOLEAN,
             Create(c, s, tx)
      PROVE  [Store!Next]_(Store!vars)
  <2>1. CASE tx
    BY <1>0, <1>1, <2>1 DEF Create, Store!vars
  <2>2. CASE ~tx
    BY <1>0, <1>1, <2>2 DEF Create, Insertable, Store!Next, Store!Open
  <2>3. QED
    BY <2>1, <2>2
<1>2. ASSUME NEW c \in Caller, NEW s \in Session, ScanRow(c, s) PROVE Store!Next
  <2>1. snap[c][s] \in Entry /\ (snap[c][s] = "live" => table[s] # "absent")
    BY <1>2 DEF ScanRow, RowInv, Entry
  <2>2. cache' = [cache EXCEPT ![s] = snap[c][s]] /\ UNCHANGED <<table, clocks>>
    BY <1>2 DEF ScanRow
  <2>3. QED
    BY <2>1, <2>2, OneEntryWritten
<1>3. ASSUME NEW c \in Caller, NEW s \in Session, UpdateRow(c, s)
      PROVE  [Store!Next]_(Store!vars)
  <2>1. CASE inTx[c]
    BY <1>0, <1>3, <2>1 DEF UpdateRow, Store!vars
  <2>2. CASE ~inTx[c]
    <3>1. Store!Close({s})
      BY <1>0, <1>3, <2>2 DEF UpdateRow, RevokedRow, Store!Close
    <3>2. {s} \in SUBSET Session
      OBVIOUS
    <3>3. QED
      BY <3>1, <3>2 DEF Store!Next
  <2>3. QED
    BY <2>1, <2>2
<1>4. ASSUME NEW c \in Caller, NEW s \in Session, CacheSet(c, s)
      PROVE  Store!Next
  <2>1. kind[c] = "create" => table[s] # "absent"
    BY <1>4 DEF CacheSet, MaySet, CallInv, RowInv
  <2>2. FinalEntry(c) \in Entry /\ (FinalEntry(c) = "live" => table[s] # "absent")
    BY <2>1 DEF FinalEntry, Entry
  <2>3. QED
    BY <1>4, <2>2, OneEntryWritten DEF CacheSet
<1>5. ASSUME NEW c \in Caller, PurgeInvalid(c) PROVE Store!Next
  <2> DEFINE S == {s \in Session : Purgeable(s)}
  <2>1. Store!Forget(S)
    BY <1>0, <1>5 DEF PurgeInvalid, Purgeable, Store!Forget
  <2>2. S \in SUBSET Session
    OBVIOUS
  <2>3. QED
    BY <2>1, <2>2 DEF Store!Next
<1>6. ASSUME NEW s \in Session, Evict(s) PROVE Store!Next
  BY <1>6, OneEntryWritten DEF Evict, Entry
<1>7. ASSUME NEW s \in Session, Expire(s) \/ FallDue(s) PROVE Store!Next
  <2>1. CASE Expire(s)
    <3>1. Accepted' = Accepted \ {s}
      BY <2>1 DEF Expire, Accepted, Accepts
    <3>2. QED
      BY <2>1, <3>1 DEF Expire, Store!Next, Store!Lapse
  <2>2. CASE FallDue(s)
    <3>1. Accepted' = Accepted
      BY <2>2 DEF FallDue, Accepted, Accepts
    <3>2. QED
      BY <2>2, <3>1 DEF FallDue, Store!Next, Store!FallDue
  <2>3. QED
    BY <1>7, <2>1, <2>2
<1>8. CASE UNCHANGED store
  BY <1>0, <1>8 DEF store, Store!vars
<1>9. QED
  BY CommitStore, <1>1, <1>2, <1>3, <1>4, <1>5, <1>6, <1>7, <1>8
     DEF Next, Work, vars, store, RevokeAll, EndScan, Return, Fail

\* What the callers, the table and redis do together is what SessionStore
\* allows: sessions are opened once, closed for good, forgotten only when
\* closed and overdue, and access checks accept only sessions with a row,
\* whichever of the two clocks is ahead, but for what an early purge forgot.
THEOREM Refinement ==
  ASSUME CommitFirst
  PROVE  Spec => StoreSpec
<1>1. Init => Store!Init
  BY InitStore
<1>2. IInv /\ [Next]_vars => [Store!Next]_(Store!vars)
  BY NextStore
<1>3. QED
  BY <1>1, <1>2, Invariance, PTL DEF Spec, StoreSpec, Store!Spec
=============================================================================
