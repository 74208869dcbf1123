--------------------------- MODULE Providers_proofs ---------------------------
(***************************************************************************)
(* The theorems of module Providers: the inductive invariant IInv and the  *)
(* two safety properties it contains, for any accounts, provider objects,  *)
(* identities and callers.                                                 *)
(***************************************************************************)
EXTENDS Providers, TLAPS

LEMMA InitIInv == Init => IInv
  BY ProvidersAssumption
     DEF Init, IInv, TypeOK, CallInv, TxInv, OrphansHaveACause, LoginsAreLinked

\* The calls that register an account, and the deletions.
LEMMA RegisterStep ==
  ASSUME IInv, NEW c \in Caller,
         \/ \E p \in Provider, n \in Named, a \in Account, tx \in BOOLEAN :
              InsertProvider(c, p, n, a, tx)
         \/ InsertAccount(c)
         \/ Commit(c)
  PROVE  IInv'
<1> USE ProvidersAssumption DEF IInv, TypeOK, Named, Registered
<1>1. CASE \E p \in Provider, n \in Named, a \in Account, tx \in BOOLEAN :
             InsertProvider(c, p, n, a, tx)
  <2> PICK p \in Provider, n \in Named, a \in Account, tx \in BOOLEAN :
        InsertProvider(c, p, n, a, tx)
    BY <1>1
  <2> USE DEF InsertProvider, Enter, VisibleAtOnce, FreeProvider, MisnamedWith
  <2>1. TypeOK'
    OBVIOUS
  <2>2. CallInv'
    BY DEF CallInv
  <2>3. TxInv'
    BY DEF CallInv, TxInv
  <2>4. OrphansHaveACause'
    BY DEF OrphansHaveACause, HalfDone
  <2>5. LoginsAreLinked'
    BY DEF LoginsAreLinked
  <2>6. QED
    BY <2>1, <2>2, <2>3, <2>4, <2>5
<1>2. CASE InsertAccount(c)
  <2> USE <1>2 DEF InsertAccount, Goto, Leave, Enter, FreeAccount
  <2>1. TypeOK'
    <3>1. CASE inTx[c]
      BY <3>1
    <3>2. CASE ~inTx[c]
      <4>1. acct[c] \in Account
        BY DEF CallInv
      <4>2. row' \in [Account -> {"absent", "live", "deleted"}]
        BY <3>2, <4>1
      <4>3. QED
        BY <3>2, <4>2
    <3>3. QED
      BY <3>1, <3>2
  <2>2. CallInv'
    BY DEF CallInv
  <2>3. TxInv'
    <3>1. CASE inTx[c]
      BY <3>1 DEF TxInv
    <3>2. CASE ~inTx[c]
      <4>1. \A d \in Caller : inTx'[d] => d # c /\ inTx[d]
        BY <3>2
      <4>2. QED
        BY <3>2, <4>1 DEF TxInv
    <3>3. QED
      BY <3>1, <3>2
  <2>4. OrphansHaveACause'
    BY DEF OrphansHaveACause, HalfDone, CallInv
  <2>5. LoginsAreLinked'
    BY DEF LoginsAreLinked
  <2>6. QED
    BY <2>1, <2>2, <2>3, <2>4, <2>5
<1>3. CASE Commit(c)
  <2> USE <1>3 DEF Commit, Leave, Enter, MisnamedWith
  <2>1. TypeOK'
    BY DEF CallInv
  <2>2. CallInv'
    BY DEF CallInv, TxInv
  <2>3. TxInv'
    BY DEF CallInv, TxInv
  <2>4. OrphansHaveACause'
    BY DEF OrphansHaveACause, HalfDone, CallInv
  <2>5. LoginsAreLinked'
    BY DEF LoginsAreLinked, CallInv, TxInv
  <2>6. QED
    BY <2>1, <2>2, <2>3, <2>4, <2>5
<1>4. QED
  BY <1>1, <1>2, <1>3

\* A row that appears on its own, or goes.
LEMMA RowStep ==
  ASSUME IInv, NEW a \in Account, RegisterAccount(a) \/ DeleteAccount(a)
  PROVE  IInv'
<1> USE DEF IInv, TypeOK, Named, Registered, call
<1>1. /\ UNCHANGED <<linked, phase, inTx, prov, names, acct, broken, misnamed, opened>>
      /\ row' \in [Account -> {"absent", "live", "deleted"}]
      /\ \A b \in Account : row[b] # "absent" => row'[b] # "absent"
  BY DEF RegisterAccount, DeleteAccount, FreeAccount
<1>2. TypeOK'
  BY <1>1
<1>3. CallInv' /\ TxInv'
  BY <1>1 DEF CallInv, TxInv
<1>4. OrphansHaveACause' /\ LoginsAreLinked'
  BY <1>1 DEF OrphansHaveACause, HalfDone, LoginsAreLinked
<1>5. QED
  BY <1>2, <1>3, <1>4

\* The steps of a login, and failures.
LEMMA LoginStep ==
  ASSUME IInv, NEW c \in Caller,
         \/ \E p \in Provider : LoginFind(c, p)
         \/ \E a \in Account : LoginPassword(c, a)
         \/ LoginAccount(c)
         \/ LoginOpen(c)
         \/ Fail(c)
  PROVE  IInv'
<1> USE ProvidersAssumption DEF IInv, TypeOK, Named, Registered
<1>1. CASE \E p \in Provider : LoginFind(c, p)
  <2> PICK p \in Provider : LoginFind(c, p)
    BY <1>1
  <2> PICK q \in Provider : /\ linked[q] # NoAccount /\ Matches(p, q)
                            /\ Enter(c, "find", FALSE, p, NoAccount, linked[q])
    BY DEF LoginFind
  <2> USE DEF LoginFind, Enter, Matches
  <2>1. TypeOK'
    OBVIOUS
  <2>2. CallInv'
    BY DEF CallInv
  <2>3. TxInv'
    BY DEF TxInv
  <2>4. OrphansHaveACause'
    BY DEF OrphansHaveACause, HalfDone
  <2>5. LoginsAreLinked'
    BY DEF LoginsAreLinked
  <2>6. QED
    BY <2>1, <2>2, <2>3, <2>4, <2>5
<1>2. CASE LoginAccount(c)
  BY <1>2 DEF LoginAccount, Goto, Exists, CallInv, TxInv, OrphansHaveACause, HalfDone,
              LoginsAreLinked
<1>3. CASE LoginOpen(c)
  <2> USE <1>3 DEF LoginOpen, Leave, Enter
  <2>1. TypeOK'
    BY DEF CallInv
  <2>2. CallInv' /\ TxInv'
    BY DEF CallInv, TxInv
  <2>3. OrphansHaveACause'
    BY DEF OrphansHaveACause, HalfDone
  <2>4. LoginsAreLinked'
    BY DEF LoginsAreLinked, CallInv
  <2>5. QED
    BY <2>1, <2>2, <2>3, <2>4
<1>4. CASE Fail(c)
  <2> USE <1>4 DEF Fail, Leave, Enter
  <2>1. TypeOK'
    BY DEF CallInv
  <2>2. CallInv' /\ TxInv'
    BY DEF CallInv, TxInv
  <2>3. OrphansHaveACause'
    BY DEF OrphansHaveACause, HalfDone
  <2>4. LoginsAreLinked'
    BY DEF LoginsAreLinked
  <2>5. QED
    BY <2>1, <2>2, <2>3, <2>4
<1>5. CASE \E a \in Account : LoginPassword(c, a)
  <2> PICK a \in Account : LoginPassword(c, a)
    BY <1>5
  <2> USE DEF LoginPassword, Enter, Exists
  <2>1. TypeOK'
    OBVIOUS
  <2>2. CallInv' /\ TxInv'
    BY DEF CallInv, TxInv
  <2>3. OrphansHaveACause'
    BY DEF OrphansHaveACause, HalfDone
  <2>4. LoginsAreLinked'
    BY DEF LoginsAreLinked
  <2>5. QED
    BY <2>1, <2>2, <2>3, <2>4
<1>6. QED
  BY <1>1, <1>2, <1>3, <1>4, <1>5

\* The inductive invariant of registrations, logins, failures and deletions.
THEOREM Invariance == Spec => []IInv
<1>1. IInv /\ [Next]_vars => IInv'
  <2> SUFFICES ASSUME IInv, [Next]_vars PROVE IInv'
    OBVIOUS
  <2>1. CASE \E c \in Caller : Step(c)
    BY <2>1, RegisterStep, LoginStep DEF Step
  <2>2. CASE \E a \in Account : RegisterAccount(a) \/ DeleteAccount(a)
    BY <2>2, RowStep
  <2>3. CASE UNCHANGED vars
    BY <2>3 DEF vars, call, Registered, IInv, TypeOK, CallInv, TxInv, OrphansHaveACause, HalfDone,
                LoginsAreLinked
  <2>4. QED
    BY <2>1, <2>2, <2>3 DEF Next
<1>2. QED
  BY InitIInv, <1>1, PTL DEF Spec

\* An identity with which every login fails is the doing of a direct
\* registration that failed half-way or is in progress, or was stored beside
\* an account that it did not name.
THEOREM OrphansAreExplained == Spec => []OrphansHaveACause
<1>1. IInv => OrphansHaveACause
  BY DEF IInv
<1>2. QED
  BY <1>1, Invariance, PTL

\* A login opens only a session of an account that was registered, with its
\* password or under an identity with the same sub and the same issuer.
THEOREM SessionsAreLinked == Spec => []LoginsAreLinked
<1>1. IInv => LoginsAreLinked
  BY DEF IInv
<1>2. QED
  BY <1>1, Invariance, PTL
=============================================================================
