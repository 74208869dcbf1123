---------------------------- MODULE Accounts_proofs ----------------------------
(***************************************************************************)
(* The theorems of module Accounts: its inductive invariant, and what the  *)
(* table, the cached accounts and the references of usernames say of each  *)
(* other, for any accounts, usernames and callers.                         *)
(***************************************************************************)
EXTENDS Accounts, TLAPS

\* The commands that stay in a pipeline when the first one is executed.
LEMMA HeadTail ==
  ASSUME NEW S, NEW s \in Seq(S), s # << >>
  PROVE  /\ Head(s) = s[1] /\ 1 \in DOMAIN s /\ s[1] \in S
         /\ Tail(s) \in Seq(S)
         /\ \A i \in DOMAIN Tail(s) : i + 1 \in DOMAIN s /\ Tail(s)[i] = s[i + 1]
         /\ \A i \in DOMAIN s : i # 1 => i - 1 \in DOMAIN Tail(s) /\ Tail(s)[i - 1] = s[i]
  OBVIOUS

\* The commands in a pipeline to which one is appended.
LEMMA AppendOne ==
  ASSUME NEW S, NEW s \in Seq(S), NEW e \in S
  PROVE  /\ Append(s, e) \in Seq(S)
         /\ \A i \in DOMAIN s : i \in DOMAIN Append(s, e) /\ Append(s, e)[i] = s[i]
         /\ \A i \in DOMAIN Append(s, e) : i \in DOMAIN s \/ Append(s, e)[i] = e
  OBVIOUS

LEMMA InitIInv == Init => IInv
  <1> SUFFICES ASSUME Init PROVE IInv
    OBVIOUS
  <1>1. TypeOK
    <2>1. << >> \in Seq(Command)
      OBVIOUS
    <2>2. QED
      BY <2>1 DEF Init, TypeOK
  <1>2. CallInv /\ LockInv /\ NameInv /\ ReferenceInv
    BY AccountsAssumption DEF Init, CallInv, Knows, LockInv, NameInv, ReferenceInv
  <1>3. CachedAsRegistered /\ ReferenceFollowsHolder /\ LingeringHasCause
    BY AccountsAssumption DEF Init, CachedAsRegistered, ReferenceFollowsHolder, LingeringHasCause
  <1>4. QED
    BY <1>1, <1>2, <1>3 DEF IInv

\* The commands of a registration are commands, and they name the account.
LEMMA RegisterCommandsType ==
  ASSUME NEW a \in Account, NEW u \in Username
  PROVE  /\ RegisterCommands(a, u) \in Seq(Command)
         /\ \A i \in DOMAIN RegisterCommands(a, u) :
              RegisterCommands(a, u)[i].acc = a /\ RegisterCommands(a, u)[i].name = u
         /\ \E i \in DOMAIN RegisterCommands(a, u) :
              RegisterCommands(a, u)[i].cmd = "ref" /\ RegisterCommands(a, u)[i].acc = a
<1>1. SetAccount(a, u) \in Command /\ SetReference(u, a) \in Command
  BY DEF SetAccount, SetReference, Command
<1>2. QED
  <2> DEFINE s == <<SetAccount(a, u), SetReference(u, a)>>
  <2>1. s \in Seq(Command) /\ DOMAIN s = {1, 2}
    BY <1>1
  <2>2. s[1] = SetAccount(a, u) /\ s[2] = SetReference(u, a)
    OBVIOUS
  <2>3. /\ SetAccount(a, u).acc = a /\ SetAccount(a, u).name = u
        /\ SetReference(u, a).acc = a /\ SetReference(u, a).name = u
        /\ SetReference(u, a).cmd = "ref"
    BY DEF SetAccount, SetReference
  <2>4. QED
    BY <2>1, <2>2, <2>3 DEF RegisterCommands

\* The call of every other caller than c stays as it is.
Frame(c) ==
  \A d \in Caller \ {c} :
    /\ phase'[d] = phase[d] /\ acct'[d] = acct[d] /\ copy'[d] = copy[d]
    /\ pend'[d] = pend[d] /\ todo'[d] = todo[d]

\* What a caller knows survives the steps of others that keep the names of
\* existing rows and insert no row that it inserts itself.
LEMMA OthersKnow ==
  ASSUME CallInv, NEW c \in Caller, Frame(c), NEW d \in Caller, d # c,
         \A a \in Account : row[a] # "absent" => row'[a] # "absent" /\ name'[a] = name[a],
         pend[d] = "insert" => row'[acct[d]] = "absent"
  PROVE  Knows(d)'
<1>1. Knows(d)
  BY DEF CallInv
<1>2. /\ phase'[d] = phase[d] /\ acct'[d] = acct[d] /\ copy'[d] = copy[d]
      /\ pend'[d] = pend[d] /\ todo'[d] = todo[d]
  BY DEF Frame
<1>3. phase[d] # "idle" /\ pend[d] # "insert" => row'[acct[d]] # "absent" /\ name'[acct[d]] = copy[d]
  BY <1>1 DEF Knows, Known
<1>4. QED
  BY <1>1, <1>2, <1>3 DEF Knows, Known

\* Accounts that a step of c deletes, or stops dropping, are among those kept,
\* or c drops them.
Owned(c) ==
  \A b \in Account :
    row'[b] = "deleted" /\ (row[b] # "deleted" \/ (acct[c] = b /\ Dropping(c))) =>
      b \in kept' \/ (acct'[c] = b /\ Dropping(c)')

LEMMA LingerStep ==
  ASSUME IInv, NEW c \in Caller, Frame(c), Owned(c), UNCHANGED cached, kept \subseteq kept'
  PROVE  LingeringHasCause'
<1> SUFFICES ASSUME NEW b \in Account, row'[b] = "deleted", cached[b] # NoName
             PROVE  b \in kept' \/ \E d \in Caller : acct'[d] = b /\ Dropping(d)'
  BY DEF LingeringHasCause
<1>1. CASE row[b] # "deleted"
  BY <1>1 DEF Owned
<1>2. CASE row[b] = "deleted"
  <2>1. b \in kept \/ \E d \in Caller : acct[d] = b /\ Dropping(d)
    BY <1>2 DEF IInv, LingeringHasCause
  <2>2. CASE b \in kept
    BY <2>2
  <2>3. ASSUME NEW d \in Caller, acct[d] = b, Dropping(d)
        PROVE  b \in kept' \/ \E e \in Caller : acct'[e] = b /\ Dropping(e)'
    <3>1. CASE d = c
      BY <2>3, <3>1 DEF Owned
    <3>2. CASE d # c
      BY <2>3, <3>2 DEF Frame, Dropping
    <3>3. QED
      BY <3>1, <3>2
  <2>4. QED
    BY <2>1, <2>2, <2>3
<1>3. QED
  BY <1>1, <1>2

\* register inserts a row under a free username, at once or when it commits.
LEMMA RegisterStep ==
  ASSUME IInv, NEW c \in Caller, NEW a \in Account, NEW u \in Username, NEW tx \in BOOLEAN,
         Register(c, a, u, tx)
  PROVE  IInv'
<1> USE AccountsAssumption DEF IInv, TypeOK
<1> DEFINE cmds == RegisterCommands(a, u)
<1>1. /\ phase[c] = "idle" /\ row[a] = "absent" /\ Unlocked(c, a) /\ Available(c, u)
      /\ phase' = [phase EXCEPT ![c] = "write"] /\ inTx' = [inTx EXCEPT ![c] = tx]
      /\ acct' = [acct EXCEPT ![c] = a] /\ copy' = [copy EXCEPT ![c] = u]
      /\ wanted' = [wanted EXCEPT ![c] = u]
      /\ todo' = [todo EXCEPT ![c] = cmds]
      /\ pend' = [pend EXCEPT ![c] = IF tx THEN "insert" ELSE "none"]
      /\ UNCHANGED <<cached, ref, disturbed, kept>>
  BY DEF Register, Execute, Enter, redis, history
<1>2. \/ tx /\ UNCHANGED <<row, name>>
      \/ ~tx /\ row' = [row EXCEPT ![a] = "live"] /\ name' = [name EXCEPT ![a] = u]
  BY DEF Register, Execute, Apply, db
<1>3. /\ cmds \in Seq(Command)
      /\ \A i \in DOMAIN cmds : cmds[i].acc = a /\ cmds[i].name = u
      /\ \E i \in DOMAIN cmds : cmds[i].cmd = "ref" /\ cmds[i].acc = a
  BY RegisterCommandsType
<1>4. pend[c] = "none" /\ todo[c] = << >>
  BY <1>1 DEF CallInv, Knows
<1> HIDE DEF cmds
<1>5. TypeOK'
  BY <1>1, <1>2, <1>3
<1>6. Referring(a)'
  BY <1>1, <1>3 DEF Referring
<1>7. \A b \in Account : Referring(b) => Referring(b)'
  BY <1>1, <1>4 DEF Referring
<1>8. CallInv'
  <2>1. ASSUME NEW d \in Caller, d # c
        PROVE  Knows(d)'
    <3>1. Frame(c)
      BY <1>1 DEF Frame
    <3>2. \A b \in Account : row[b] # "absent" => row'[b] # "absent" /\ name'[b] = name[b]
      BY <1>1, <1>2
    <3>3. pend[d] = "insert" => acct[d] # a /\ acct[d] \in Account /\ row[acct[d]] = "absent"
      BY <1>1, <2>1 DEF Unlocked, CallInv, Knows
    <3>4. pend[d] = "insert" => row'[acct[d]] = "absent"
      BY <1>2, <3>3
    <3>5. QED
      BY <2>1, <3>1, <3>2, <3>4, OthersKnow
  <2>2. Knows(c)'
    <3>1. pend'[c] = "insert" => row'[a] = "absent"
      BY <1>1, <1>2
    <3>2. pend'[c] # "insert" => Known(a, u)'
      BY <1>1, <1>2 DEF Known
    <3>3. /\ phase'[c] = "write" /\ acct'[c] = a /\ copy'[c] = u /\ todo'[c] = cmds
          /\ pend'[c] \in {"insert", "none"}
      BY <1>1
    <3>4. QED
      BY <1>3, <3>1, <3>2, <3>3 DEF Knows, Known
  <2>3. QED
    BY <2>1, <2>2 DEF CallInv
<1>9. LockInv'
  BY <1>1 DEF LockInv, Unlocked
<1>10. NameInv'
  <2>1. CASE tx
    BY <1>1, <1>2, <2>1 DEF NameInv, Available
  <2>2. CASE ~tx
    <3>1. \A b \in Account : row'[b] # "absent" => name'[b] \in Username
      BY <1>1, <1>2, <2>2 DEF NameInv
    <3>2. ASSUME NEW b \in Account, NEW d \in Account,
                 row'[b] = "live", row'[d] = "live", name'[b] = name'[d]
          PROVE  b = d
      <4>1. \A e \in Account \ {a} :
              row'[e] = "live" => row[e] = "live" /\ name'[e] = name[e] /\ name[e] # u
        BY <1>1, <1>2, <2>2 DEF Available
      <4>2. name'[a] = u
        BY <1>2, <2>2
      <4>3. QED
        BY <3>2, <4>1, <4>2 DEF NameInv
    <3>3. ASSUME NEW d \in Caller, pend'[d] = "insert"
          PROVE  /\ d # c /\ pend[d] = "insert" /\ copy'[d] = copy[d] /\ copy[d] # u
                 /\ \A b \in Account : row'[b] = "live" => name'[b] # copy'[d]
      <4>1. d # c /\ pend[d] = "insert" /\ copy'[d] = copy[d]
        BY <1>1, <2>2, <3>3
      <4>2. copy[d] # u
        BY <1>1, <4>1 DEF Available
      <4>3. \A b \in Account : row'[b] = "live" => name'[b] # copy[d]
        BY <1>2, <2>2, <4>1, <4>2 DEF NameInv
      <4>4. QED
        BY <4>1, <4>2, <4>3
    <3>4. QED
      BY <3>1, <3>2, <3>3 DEF NameInv
  <2>3. QED
    BY <2>1, <2>2
<1>11. ReferenceInv' /\ CachedAsRegistered'
  BY <1>1, <1>2 DEF ReferenceInv, CachedAsRegistered, Known
<1>12. ReferenceFollowsHolder'
  <2>1. ASSUME NEW b \in Account, b # a
        PROVE  row'[b] = row[b] /\ name'[b] = name[b]
    BY <1>2, <2>1
  <2>2. QED
    BY <1>1, <1>2, <1>6, <1>7, <2>1 DEF ReferenceFollowsHolder
<1>13. LingeringHasCause'
  <2>1. Frame(c)
    BY <1>1 DEF Frame
  <2>2. \A b \in Account : row'[b] = "deleted" => row[b] = "deleted"
    BY <1>1, <1>2
  <2>3. ~Dropping(c)
    BY <1>4 DEF Dropping
  <2>4. Owned(c)
    BY <2>2, <2>3 DEF Owned
  <2>5. QED
    BY <1>1, <2>1, <2>4, LingerStep
<1>14. QED
  BY <1>5, <1>8, <1>9, <1>10, <1>11, <1>12, <1>13

\* Rows are at most deleted, and keep their names.
Shrinks ==
  /\ name' = name
  /\ \A a \in Account : row'[a] = row[a] \/ (row[a] = "live" /\ row'[a] = "deleted")

\* A step of c that inserts nothing and leaves redis alone.
LEMMA QuietStep ==
  ASSUME IInv, NEW c \in Caller, Frame(c), Shrinks, UNCHANGED redis,
         TypeOK', Knows(c)',
         pend'[c] # "none" => \A d \in Caller \ {c} : pend[d] # "none" => acct[d] # acct'[c],
         pend'[c] # "insert",
         disturbed \subseteq disturbed', kept \subseteq kept', Owned(c),
         \A b \in Account : row[b] = "live" /\ Referring(b) => Referring(b)' \/ name[b] \in disturbed'
  PROVE  IInv'
<1> USE AccountsAssumption DEF IInv, TypeOK
<1>1. CallInv'
  <2>1. ASSUME NEW d \in Caller, d # c
        PROVE  Knows(d)'
    <3>1. \A b \in Account : row[b] # "absent" => row'[b] # "absent" /\ name'[b] = name[b]
      BY DEF Shrinks
    <3>2. pend[d] = "insert" => row'[acct[d]] = "absent"
      BY DEF Shrinks, CallInv, Knows
    <3>3. QED
      BY <2>1, <3>1, <3>2, OthersKnow
  <2>2. QED
    BY <2>1 DEF CallInv
<1>2. LockInv'
  <2>1. \A d \in Caller \ {c} : pend'[d] = pend[d] /\ acct'[d] = acct[d]
    BY DEF Frame
  <2>2. ASSUME NEW d \in Caller, NEW e \in Caller, d # e,
               pend'[d] # "none", pend'[e] # "none"
        PROVE  acct'[d] # acct'[e]
    <3>1. CASE d = c
      BY <2>1, <2>2, <3>1
    <3>2. CASE e = c
      BY <2>1, <2>2, <3>2
    <3>3. CASE d # c /\ e # c
      BY <2>1, <2>2, <3>3 DEF LockInv
    <3>4. QED
      BY <3>1, <3>2, <3>3
  <2>3. QED
    BY <2>2 DEF LockInv
<1>3. NameInv'
  <2>1. \A b \in Account : row'[b] = "live" => row[b] = "live"
    BY DEF Shrinks
  <2>2. \A b \in Account : row'[b] # "absent" => row[b] # "absent"
    BY DEF Shrinks
  <2>3. \A d \in Caller : pend'[d] = "insert" => pend[d] = "insert" /\ copy'[d] = copy[d]
    BY DEF Frame
  <2>4. QED
    BY <2>1, <2>2, <2>3 DEF NameInv, Shrinks
<1>4. ReferenceInv' /\ CachedAsRegistered'
  <2>1. \A b \in Account : row[b] # "absent" => row'[b] # "absent" /\ name'[b] = name[b]
    BY DEF Shrinks
  <2>2. ref' = ref /\ cached' = cached
    BY DEF redis
  <2>3. \A v \in Username : ref[v] # NoAccount => ref[v] \in Account
    OBVIOUS
  <2>4. ReferenceInv'
    BY <2>1, <2>2, <2>3 DEF ReferenceInv, Known
  <2>5. CachedAsRegistered'
    BY <2>1, <2>2 DEF CachedAsRegistered
  <2>6. QED
    BY <2>4, <2>5
<1>5. ReferenceFollowsHolder'
  BY DEF ReferenceFollowsHolder, Shrinks, redis
<1>6. LingeringHasCause'
  BY LingerStep DEF redis
<1>7. QED
  BY <1>1, <1>2, <1>3, <1>4, <1>5, <1>6

\* Writing to an existing row the name it has, or deleting it, renames nothing.
LEMMA ApplyShrinks ==
  ASSUME TypeOK, NEW stmt \in {"update", "delete"}, NEW a \in Account, NEW u,
         Known(a, u), Apply(stmt, a, u)
  PROVE  /\ Shrinks /\ row' \in [Account -> {"absent", "live", "deleted"}]
         /\ \A b \in Account : row'[b] # row[b] => b = a /\ stmt = "delete"
<1>1. name' = name
  <2>1. name' = [name EXCEPT ![a] = name[a]]
    BY DEF Apply, Known
  <2>2. QED
    BY <2>1 DEF TypeOK
<1>2. QED
  BY <1>1 DEF Apply, Shrinks, TypeOK

\* update up to its UPDATE statement.
LEMMA UpdateReadStep ==
  ASSUME IInv, NEW c \in Caller, NEW a \in Account, NEW u \in Username, NEW tx \in BOOLEAN,
         UpdateRead(c, a, u, tx)
  PROVE  IInv'
<1> USE AccountsAssumption DEF IInv, TypeOK
<1>1. /\ phase[c] = "idle" /\ row[a] = "live"
      /\ phase' = [phase EXCEPT ![c] = "read"] /\ inTx' = [inTx EXCEPT ![c] = tx]
      /\ acct' = [acct EXCEPT ![c] = a] /\ copy' = [copy EXCEPT ![c] = name[a]]
      /\ wanted' = [wanted EXCEPT ![c] = u]
      /\ UNCHANGED <<row, name, cached, ref, pend, todo, disturbed, kept>>
  BY DEF UpdateRead, Updatable, Enter, db, redis, history
<1>2. pend[c] = "none" /\ todo[c] = << >> /\ name[a] \in Username
  BY <1>1 DEF CallInv, Knows, NameInv
<1>3. TypeOK'
  BY <1>1, <1>2
<1>4. Frame(c) /\ Shrinks /\ UNCHANGED redis
  BY <1>1 DEF Frame, Shrinks, redis
<1>5. Knows(c)'
  BY <1>1, <1>2 DEF Knows, Known
<1>6. \A b \in Account : Referring(b) => Referring(b)'
  BY <1>1 DEF Referring
<1>7. pend'[c] = "none" /\ disturbed' = disturbed /\ kept' = kept /\ Owned(c)
  BY <1>1, <1>2 DEF Owned, Dropping
<1>8. QED
  BY <1>3, <1>4, <1>5, <1>6, <1>7, QuietStep

\* The statements of update and delete on a row that the caller knows.
LEMMA ExecuteShrinks ==
  ASSUME TypeOK, NEW c \in Caller, NEW stmt \in {"update", "delete"}, NEW a \in Account, NEW u,
         NEW tx \in BOOLEAN, Known(a, u), Execute(c, stmt, a, u, tx)
  PROVE  /\ Shrinks /\ row' \in [Account -> {"absent", "live", "deleted"}]
         /\ name' \in [Account -> Username \cup {NoName}]
         /\ pend' = [pend EXCEPT ![c] = IF tx THEN stmt ELSE "none"]
         /\ \A b \in Account : row'[b] # row[b] => b = a /\ stmt = "delete" /\ ~tx
<1>1. CASE tx
  BY <1>1 DEF Execute, Shrinks, db, TypeOK
<1>2. CASE ~tx
  <2>1. Apply(stmt, a, u)
    BY <1>2 DEF Execute
  <2>2. /\ Shrinks /\ row' \in [Account -> {"absent", "live", "deleted"}]
        /\ \A b \in Account : row'[b] # row[b] => b = a /\ stmt = "delete"
    BY <2>1, ApplyShrinks
  <2>3. QED
    BY <1>2, <2>2 DEF Execute, Shrinks, TypeOK
<1>3. QED
  BY <1>1, <1>2

LEMMA UpdateWriteStep ==
  ASSUME IInv, NEW c \in Caller, UpdateWrite(c)
  PROVE  IInv'
<1> USE AccountsAssumption DEF IInv, TypeOK
<1> DEFINE cmds == <<SetAccount(acct[c], copy[c])>>
<1>1. /\ phase[c] = "read" /\ Unlocked(c, acct[c])
      /\ Execute(c, "update", acct[c], copy[c], inTx[c])
      /\ \/ phase' = [phase EXCEPT ![c] = "refs"]
         \/ phase' = [phase EXCEPT ![c] = "write"]
      /\ todo' = [todo EXCEPT ![c] = cmds]
      /\ UNCHANGED <<cached, ref, inTx, acct, copy, wanted, disturbed, kept>>
  BY DEF UpdateWrite, Written, Copy, redis, history
<1>2. /\ acct[c] \in Account /\ copy[c] \in Username
      /\ pend[c] # "insert" => Known(acct[c], copy[c])
      /\ \A i \in DOMAIN todo[c] : todo[c][i].acc = acct[c] /\ todo[c][i].name = copy[c]
  BY <1>1 DEF CallInv, Knows
<1>3. pend[c] = "none" /\ todo[c] = << >> /\ phase[c] # "idle"
  BY <1>1 DEF CallInv, Knows
<1>4. /\ cmds \in Seq(Command)
      /\ \A i \in DOMAIN cmds : cmds[i].acc = acct[c] /\ cmds[i].name = copy[c]
  <2>1. SetAccount(acct[c], copy[c]) \in Command
    BY <1>2 DEF SetAccount, Command
  <2>2. QED
    BY <2>1 DEF SetAccount
<1>5. /\ Shrinks /\ row' \in [Account -> {"absent", "live", "deleted"}]
      /\ name' \in [Account -> Username \cup {NoName}]
      /\ pend' = [pend EXCEPT ![c] = IF inTx[c] THEN "update" ELSE "none"]
      /\ \A b \in Account : row'[b] = row[b]
  BY <1>1, <1>2, <1>3, ExecuteShrinks
<1> HIDE DEF cmds
<1>6. TypeOK'
  BY <1>1, <1>4, <1>5
<1>7. Frame(c) /\ UNCHANGED redis
  BY <1>1, <1>5 DEF Frame, redis
<1>8. Knows(c)'
  BY <1>1, <1>2, <1>3, <1>4, <1>5 DEF Knows, Known, Shrinks
<1>9. \A b \in Account : Referring(b) => Referring(b)'
  BY <1>1, <1>3 DEF Referring
<1>10. pend'[c] # "insert" /\ \A d \in Caller \ {c} : pend[d] # "none" => acct[d] # acct'[c]
  BY <1>1, <1>5 DEF Unlocked
<1>11. Owned(c)
  BY <1>3, <1>5 DEF Owned, Dropping
<1>12. QED
  BY <1>1, <1>5, <1>6, <1>7, <1>8, <1>9, <1>10, <1>11, QuietStep

\* The second half of update, when the username was to change.
LEMMA UpdateRefsStep ==
  ASSUME IInv, NEW c \in Caller, UpdateRefs(c)
  PROVE  IInv'
<1> USE AccountsAssumption DEF IInv, TypeOK
<1> DEFINE e == SetReference(copy[c], acct[c])
<1>1. /\ phase[c] = "refs" /\ phase' = [phase EXCEPT ![c] = "write"]
      /\ \/ todo' = [todo EXCEPT ![c] = Append(todo[c], e)]
         \/ todo' = todo
      /\ UNCHANGED <<row, name, cached, ref, inTx, acct, copy, wanted, pend, disturbed, kept>>
  BY DEF UpdateRefs, NewUsername, redis, db, history
<1>2. /\ acct[c] \in Account /\ copy[c] \in Username
      /\ pend[c] # "insert" /\ Known(acct[c], copy[c])
      /\ \A i \in DOMAIN todo[c] : todo[c][i].acc = acct[c] /\ todo[c][i].name = copy[c]
  BY <1>1 DEF CallInv, Knows
<1>3. e \in Command /\ e.acc = acct[c] /\ e.name = copy[c]
  BY <1>2 DEF SetReference, Command
<1> HIDE DEF e
<1>4. /\ todo'[c] \in Seq(Command) /\ todo' = [todo EXCEPT ![c] = todo'[c]]
      /\ \A i \in DOMAIN todo[c] : i \in DOMAIN todo'[c] /\ todo'[c][i] = todo[c][i]
      /\ \A i \in DOMAIN todo'[c] : todo'[c][i].acc = acct[c] /\ todo'[c][i].name = copy[c]
  <2>1. CASE todo' = todo
    BY <1>2, <2>1
  <2>2. CASE todo' = [todo EXCEPT ![c] = Append(todo[c], e)]
    <3>1. todo'[c] = Append(todo[c], e) /\ todo[c] \in Seq(Command)
      BY <2>2
    <3>2. /\ Append(todo[c], e) \in Seq(Command)
          /\ \A i \in DOMAIN todo[c] :
               i \in DOMAIN Append(todo[c], e) /\ Append(todo[c], e)[i] = todo[c][i]
          /\ \A i \in DOMAIN Append(todo[c], e) :
               i \in DOMAIN todo[c] \/ Append(todo[c], e)[i] = e
      BY <1>3, <3>1, AppendOne
    <3>3. QED
      BY <1>2, <1>3, <2>2, <3>1, <3>2
  <2>3. QED
    BY <1>1, <2>1, <2>2
<1>5. TypeOK'
  BY <1>1, <1>4
<1>6. Frame(c) /\ Shrinks /\ UNCHANGED redis
  BY <1>1, <1>4 DEF Frame, Shrinks, redis
<1>7. Knows(c)'
  <2>1. /\ phase'[c] = "write" /\ pend'[c] = pend[c]
        /\ acct'[c] = acct[c] /\ copy'[c] = copy[c]
    BY <1>1
  <2>2. pend[c] = "delete" => \E i \in DOMAIN todo'[c] : todo'[c][i].cmd = "del"
    <3>1. ASSUME pend[c] = "delete"
          PROVE  \E i \in DOMAIN todo[c] : todo[c][i].cmd = "del"
      BY <3>1 DEF CallInv, Knows
    <3>2. ASSUME NEW i \in DOMAIN todo[c], todo[c][i].cmd = "del"
          PROVE  i \in DOMAIN todo'[c] /\ todo'[c][i].cmd = "del"
      BY <1>4, <3>2
    <3>3. QED
      BY <3>1, <3>2
  <2>3. Known(acct[c], copy[c])'
    BY <1>1, <1>2 DEF Known
  <2>4. QED
    BY <1>2, <1>4, <2>1, <2>2, <2>3 DEF Knows, Known
<1>8. \A b \in Account : Referring(b) => Referring(b)'
  <2>1. \A d \in Caller : \A i \in DOMAIN todo[d] :
          i \in DOMAIN todo'[d] /\ todo'[d][i] = todo[d][i]
    <3>1. \A d \in Caller \ {c} : todo'[d] = todo[d]
      BY <1>4
    <3>2. QED
      BY <1>4, <3>1
  <2>2. ASSUME NEW b \in Account, Referring(b) PROVE Referring(b)'
    <3>1. PICK d \in Caller : \E i \in DOMAIN todo[d] :
                                todo[d][i].cmd = "ref" /\ todo[d][i].acc = b
      BY <2>2 DEF Referring
    <3>2. PICK i \in DOMAIN todo[d] : todo[d][i].cmd = "ref" /\ todo[d][i].acc = b
      BY <3>1
    <3>3. i \in DOMAIN todo'[d] /\ todo'[d][i].cmd = "ref" /\ todo'[d][i].acc = b
      BY <2>1, <3>2
    <3>4. QED
      BY <3>3 DEF Referring
  <2>3. QED
    BY <2>2
<1>9. pend'[c] # "none" => \A d \in Caller \ {c} : pend[d] # "none" => acct[d] # acct'[c]
  BY <1>1 DEF LockInv
<1>10. Owned(c)
  BY <1>1, <1>4 DEF Owned, Dropping
<1>11. QED
  BY <1>1, <1>2, <1>5, <1>6, <1>7, <1>8, <1>9, <1>10, QuietStep

\* The commands of a deletion are commands, name the account, and drop its copy.
LEMMA DeleteCommandsType ==
  ASSUME NEW a \in Account, NEW u \in Username
  PROVE  /\ DeleteCommands(a, u) \in Seq(Command)
         /\ \A i \in DOMAIN DeleteCommands(a, u) :
              DeleteCommands(a, u)[i].acc = a /\ DeleteCommands(a, u)[i].name = u
         /\ \E i \in DOMAIN DeleteCommands(a, u) : DeleteCommands(a, u)[i].cmd = "del"
<1> DEFINE d == DelAccount(a, u)
<1>1. d \in Command /\ d.acc = a /\ d.name = u /\ d.cmd = "del"
  BY DEF DelAccount, Command
<1> HIDE DEF d
<1>2. DeleteCommands(a, u) = <<d>>
  BY DEF DeleteCommands, d
<1>3. <<d>> \in Seq(Command) /\ DOMAIN <<d>> = {1} /\ <<d>>[1] = d
  BY <1>1
<1>4. QED
  BY <1>1, <1>2, <1>3

LEMMA DeleteStep ==
  ASSUME IInv, NEW c \in Caller, NEW a \in Account, NEW tx \in BOOLEAN, Delete(c, a, tx)
  PROVE  IInv'
<1> USE AccountsAssumption DEF IInv, TypeOK
<1> DEFINE cmds == IF tx THEN DeleteCommands(a, name[a]) ELSE << >>
<1>1. /\ phase[c] = "idle" /\ row[a] # "absent" /\ Unlocked(c, a)
      /\ Execute(c, "delete", a, name[a], tx)
      /\ phase' = [phase EXCEPT ![c] = "write"] /\ inTx' = [inTx EXCEPT ![c] = tx]
      /\ acct' = [acct EXCEPT ![c] = a] /\ copy' = [copy EXCEPT ![c] = name[a]]
      /\ wanted' = [wanted EXCEPT ![c] = name[a]]
      /\ todo' = [todo EXCEPT ![c] = cmds]
      /\ kept' = IF tx THEN kept ELSE kept \cup {a}
      /\ UNCHANGED <<cached, ref, disturbed>>
  BY DEF Delete, Enter, redis
<1>2. pend[c] = "none" /\ todo[c] = << >> /\ name[a] \in Username
  BY <1>1 DEF CallInv, Knows, NameInv
<1>3. /\ cmds \in Seq(Command)
      /\ \A i \in DOMAIN cmds : cmds[i].acc = a /\ cmds[i].name = name[a]
      /\ tx => \E i \in DOMAIN cmds : cmds[i].cmd = "del"
  <2> DEFINE del == DeleteCommands(a, name[a])
  <2>1. CASE tx
    <3>1. /\ del \in Seq(Command)
          /\ \A i \in DOMAIN del : del[i].acc = a /\ del[i].name = name[a]
          /\ \E i \in DOMAIN del : del[i].cmd = "del"
      BY <1>2, DeleteCommandsType
    <3>2. cmds = del
      BY <2>1
    <3> HIDE DEF cmds, del
    <3>3. QED
      BY <3>1, <3>2
  <2>2. CASE ~tx
    <3>1. cmds = << >>
      BY <2>2
    <3>2. << >> \in Seq(Command) /\ DOMAIN << >> = {}
      OBVIOUS
    <3>3. QED
      BY <2>2, <3>1, <3>2
  <2>3. QED
    BY <2>1, <2>2
<1>4. /\ Shrinks /\ row' \in [Account -> {"absent", "live", "deleted"}]
      /\ name' \in [Account -> Username \cup {NoName}]
      /\ pend' = [pend EXCEPT ![c] = IF tx THEN "delete" ELSE "none"]
      /\ \A b \in Account : row'[b] # row[b] => b = a /\ ~tx
  BY <1>1, ExecuteShrinks DEF Known
<1> HIDE DEF cmds
<1>5. TypeOK'
  BY <1>1, <1>2, <1>3, <1>4
<1>6. Frame(c) /\ UNCHANGED redis
  BY <1>1, <1>4 DEF Frame, redis
<1>7. Knows(c)'
  BY <1>1, <1>2, <1>3, <1>4 DEF Knows, Known, Shrinks
<1>8. \A b \in Account : Referring(b) => Referring(b)'
  BY <1>1, <1>2 DEF Referring
<1>9. pend'[c] # "insert" /\ \A d \in Caller \ {c} : pend[d] # "none" => acct[d] # acct'[c]
  BY <1>1, <1>4 DEF Unlocked
<1>10. kept \subseteq kept' /\ Owned(c)
  BY <1>1, <1>2, <1>4 DEF Owned, Dropping
<1>11. QED
  BY <1>1, <1>4, <1>5, <1>6, <1>7, <1>8, <1>9, <1>10, QuietStep

\* A commit makes the statement of the transaction take effect.
LEMMA CommitStep ==
  ASSUME IInv, NEW c \in Caller, Commit(c)
  PROVE  IInv'
<1> USE AccountsAssumption DEF IInv, TypeOK
<1>1. /\ phase[c] = "write" /\ pend[c] # "none"
      /\ Apply(pend[c], acct[c], copy[c])
      /\ pend' = [pend EXCEPT ![c] = "none"]
      /\ UNCHANGED <<cached, ref, phase, inTx, acct, copy, wanted, todo, disturbed, kept>>
  BY DEF Commit, Written, redis, history
<1>2. /\ acct[c] \in Account /\ copy[c] \in Username
      /\ \A i \in DOMAIN todo[c] : todo[c][i].acc = acct[c] /\ todo[c][i].name = copy[c]
  BY <1>1 DEF CallInv, Knows
<1>3. \A b \in Account : Referring(b) => Referring(b)'
  BY <1>1 DEF Referring
<1>4. Frame(c)
  BY <1>1 DEF Frame
<1>5. CASE pend[c] # "insert"
  <2>1. Known(acct[c], copy[c]) /\ pend[c] \in {"update", "delete"}
    BY <1>1, <1>5 DEF CallInv, Knows
  <2>2. /\ Shrinks /\ row' \in [Account -> {"absent", "live", "deleted"}]
        /\ \A b \in Account : row'[b] # row[b] => b = acct[c] /\ pend[c] = "delete"
    BY <1>1, <1>2, <2>1, ApplyShrinks
  <2>3. TypeOK'
    BY <1>1, <2>2 DEF Shrinks
  <2>4. Knows(c)'
    BY <1>1, <1>2, <2>1, <2>2 DEF Knows, Known, Shrinks
  <2>5. UNCHANGED redis /\ pend'[c] = "none"
    BY <1>1 DEF redis
  <2>6. Owned(c)
    <3>1. pend[c] = "delete" => Dropping(c)'
      BY <1>1 DEF CallInv, Knows, Dropping
    <3>2. ~Dropping(c)
      BY <1>1 DEF Dropping
    <3>3. QED
      BY <1>1, <2>2, <3>1, <3>2 DEF Owned
  <2>7. QED
    BY <1>1, <1>3, <1>4, <2>2, <2>3, <2>4, <2>5, <2>6, QuietStep
<1>6. CASE pend[c] = "insert"
  <2>1. /\ row[acct[c]] = "absent"
        /\ \E i \in DOMAIN todo[c] : todo[c][i].cmd = "ref" /\ todo[c][i].acc = acct[c]
    BY <1>1, <1>2, <1>6 DEF CallInv, Knows
  <2>2. /\ row' = [row EXCEPT ![acct[c]] = "live"]
        /\ name' = [name EXCEPT ![acct[c]] = copy[c]]
    BY <1>1, <1>6 DEF Apply
  <2>3. TypeOK'
    BY <1>1, <1>2, <2>2
  <2>4. \A b \in Account : row[b] # "absent" => row'[b] # "absent" /\ name'[b] = name[b]
    BY <2>1, <2>2
  <2>5. CallInv'
    <3>1. ASSUME NEW d \in Caller, d # c
          PROVE  Knows(d)'
      <4>1. pend[d] = "insert" =>
              acct[d] # acct[c] /\ acct[d] \in Account /\ row[acct[d]] = "absent"
        BY <1>1, <3>1 DEF LockInv, CallInv, Knows
      <4>2. pend[d] = "insert" => row'[acct[d]] = "absent"
        BY <2>2, <4>1
      <4>3. QED
        BY <1>4, <2>4, <3>1, <4>2, OthersKnow
    <3>2. Knows(c)'
      BY <1>1, <1>2, <2>2 DEF Knows, Known
    <3>3. QED
      BY <3>1, <3>2 DEF CallInv
  <2>6. LockInv'
    BY <1>1 DEF LockInv
  <2>7. NameInv'
    <3>1. \A b \in Account : row'[b] # "absent" => name'[b] \in Username
      BY <1>2, <2>2 DEF NameInv
    <3>2. \A b \in Account \ {acct[c]} :
            row'[b] = "live" => row[b] = "live" /\ name'[b] = name[b] /\ name[b] # copy[c]
      <4>1. \A b \in Account \ {acct[c]} : row'[b] = row[b] /\ name'[b] = name[b]
        BY <2>2
      <4>2. \A b \in Account : row[b] = "live" => name[b] # copy[c]
        BY <1>6 DEF NameInv
      <4>3. QED
        BY <4>1, <4>2
    <3>3. name'[acct[c]] = copy[c]
      BY <1>2, <2>2
    <3>4. ASSUME NEW b \in Account, NEW d \in Account,
                 row'[b] = "live", row'[d] = "live", name'[b] = name'[d]
          PROVE  b = d
      <4>1. CASE b = acct[c] \/ d = acct[c]
        BY <3>2, <3>3, <3>4, <4>1
      <4>2. CASE b # acct[c] /\ d # acct[c]
        BY <3>2, <3>4, <4>2 DEF NameInv
      <4>3. QED
        BY <4>1, <4>2
    <3>5. ASSUME NEW d \in Caller, pend'[d] = "insert"
          PROVE  /\ d # c /\ pend[d] = "insert" /\ copy'[d] = copy[d]
                 /\ \A b \in Account : row'[b] = "live" => name'[b] # copy'[d]
      <4>1. d # c /\ pend[d] = "insert" /\ copy'[d] = copy[d]
        BY <1>1, <3>5
      <4>2. copy[d] # copy[c]
        BY <1>6, <4>1 DEF NameInv
      <4>3. \A b \in Account : row'[b] = "live" => name'[b] # copy[d]
        <5>1. \A b \in Account : row[b] = "live" => name[b] # copy[d]
          BY <4>1 DEF NameInv
        <5>2. QED
          BY <3>2, <3>3, <4>2, <5>1
      <4>4. QED
        BY <4>1, <4>3
    <3>6. QED
      BY <3>1, <3>4, <3>5 DEF NameInv
  <2>8. ReferenceInv' /\ CachedAsRegistered'
    <3>1. \A v \in Username : ref[v] # NoAccount => ref[v] \in Account
      OBVIOUS
    <3>2. QED
      BY <1>1, <2>4, <3>1 DEF ReferenceInv, CachedAsRegistered, Known
  <2>9. ReferenceFollowsHolder'
    <3>1. Referring(acct[c])'
      BY <1>1, <2>1 DEF Referring
    <3>2. \A b \in Account \ {acct[c]} : row'[b] = row[b] /\ name'[b] = name[b]
      BY <2>2
    <3>3. ASSUME NEW b \in Account, row'[b] = "live", ref'[name'[b]] \notin {b, NoAccount}
          PROVE  name'[b] \in disturbed' \/ Referring(b)'
      <4>1. CASE b = acct[c]
        BY <1>1, <2>1, <4>1 DEF Referring
      <4>2. CASE b # acct[c]
        BY <1>1, <1>3, <3>2, <3>3, <4>2 DEF ReferenceFollowsHolder
      <4>3. QED
        BY <4>1, <4>2
    <3>4. QED
      BY <3>3 DEF ReferenceFollowsHolder
  <2>10. LingeringHasCause'
    <3>1. \A b \in Account : row'[b] = "deleted" => row[b] = "deleted"
      BY <2>2
    <3>2. ~Dropping(c)
      BY <1>1 DEF Dropping
    <3>3. Owned(c)
      BY <3>1, <3>2 DEF Owned
    <3>4. QED
      BY <1>1, <1>4, <3>3, LingerStep
  <2>11. QED
    BY <2>3, <2>5, <2>6, <2>7, <2>8, <2>9, <2>10
<1>7. QED
  BY <1>5, <1>6

\* A return, and a failure: what a failure leaves undone is disturbed.
LEMMA LeaveStep ==
  ASSUME IInv, NEW c \in Caller, Return(c) \/ Fail(c)
  PROVE  IInv'
<1> USE AccountsAssumption DEF IInv, TypeOK
<1>1. /\ phase' = [phase EXCEPT ![c] = "idle"] /\ inTx' = [inTx EXCEPT ![c] = FALSE]
      /\ acct' = [acct EXCEPT ![c] = NoAccount]
      /\ copy' = [copy EXCEPT ![c] = NoName] /\ wanted' = [wanted EXCEPT ![c] = NoName]
      /\ UNCHANGED <<row, name, cached, ref>>
  BY DEF Return, Fail, Leave, Enter, db, redis
<1>2. pend' = [pend EXCEPT ![c] = "none"] /\ todo' = [todo EXCEPT ![c] = << >>]
  <2>1. CASE Return(c)
    BY <2>1 DEF Return
  <2>2. CASE Fail(c)
    BY <2>2 DEF Fail
  <2>3. QED
    BY <2>1, <2>2
<1>3. disturbed' = disturbed \cup {todo[c][i].name : i \in DOMAIN todo[c]}
  BY DEF Return, Fail, history
<1>4. \A i \in DOMAIN todo[c] : todo[c][i] \in Command
  OBVIOUS
<1>5. TypeOK'
  <2>1. \A i \in DOMAIN todo[c] : todo[c][i].name \in Username
    BY <1>4 DEF Command
  <2>2. disturbed' \subseteq Username
    BY <1>3, <2>1
  <2>3. << >> \in Seq(Command)
    OBVIOUS
  <2>4. kept' \subseteq Account
    <3>1. Dropping(c) => acct[c] \in Account
      BY DEF Dropping, CallInv, Knows
    <3>2. kept' = kept \/ (Dropping(c) /\ kept' = kept \cup {acct[c]})
      BY DEF Return, Fail, history
    <3>3. QED
      BY <3>1, <3>2
  <2>5. QED
    BY <1>1, <1>2, <2>2, <2>3, <2>4
<1>6. Frame(c) /\ Shrinks /\ UNCHANGED redis
  BY <1>1, <1>2 DEF Frame, Shrinks, redis
<1>7. Knows(c)'
  BY <1>1, <1>2 DEF Knows
<1>8. ASSUME NEW b \in Account, row[b] = "live", Referring(b)
      PROVE  Referring(b)' \/ name[b] \in disturbed'
  <2>1. PICK d \in Caller : \E i \in DOMAIN todo[d] :
                              todo[d][i].cmd = "ref" /\ todo[d][i].acc = b
    BY <1>8 DEF Referring
  <2>2. CASE d = c
    <3>1. PICK i \in DOMAIN todo[c] : todo[c][i].acc = b
      BY <2>1, <2>2
    <3>2. acct[c] = b /\ todo[c][i].name = copy[c] /\ todo[c] # << >>
      BY <3>1 DEF CallInv, Knows
    <3>3. Known(b, copy[c])
      BY <1>8, <3>2 DEF CallInv, Knows
    <3>4. QED
      BY <1>3, <3>2, <3>3 DEF Known
  <2>3. CASE d # c
    BY <1>2, <2>1, <2>3 DEF Referring
  <2>4. QED
    BY <2>2, <2>3
<1>9. pend'[c] = "none" /\ disturbed \subseteq disturbed'
  BY <1>2, <1>3
<1>10. kept \subseteq kept' /\ Owned(c)
  <2>1. CASE Return(c)
    <3>1. ~Dropping(c)
      BY <2>1 DEF Return, Dropping
    <3>2. kept' = kept
      BY <2>1 DEF Return, history
    <3>3. QED
      BY <1>1, <3>1, <3>2 DEF Owned
  <2>2. CASE Fail(c)
    <3>1. kept' = IF Dropping(c) THEN kept \cup {acct[c]} ELSE kept
      BY <2>2 DEF Fail
    <3>2. QED
      BY <1>1, <3>1 DEF Owned
  <2>3. QED
    BY <2>1, <2>2
<1>11. QED
  BY <1>5, <1>6, <1>7, <1>8, <1>9, <1>10, QuietStep

\* Redis drops an entry: nothing is said of entries that are gone.
LEMMA EvictStep == ASSUME IInv, Evict PROVE IInv'
<1> USE AccountsAssumption DEF IInv, TypeOK
<1>1. /\ UNCHANGED <<row, name, phase, inTx, acct, copy, wanted, pend, todo, disturbed>>
      /\ cached' \in [Account -> Username \cup {NoName}]
      /\ ref' \in [Username -> Account \cup {NoAccount}]
      /\ \A a \in Account : cached'[a] \in {cached[a], NoName}
      /\ \A u \in Username : ref'[u] \in {ref[u], NoAccount}
      /\ kept' \subseteq kept
      /\ \A a \in Account : cached'[a] # NoName /\ a \in kept => a \in kept'
  BY DEF Evict, db, call
<1>2. TypeOK' /\ LockInv' /\ NameInv'
  BY <1>1 DEF LockInv, NameInv
<1>3. CallInv'
  BY <1>1 DEF CallInv, Knows, Known
<1>4. ReferenceInv' /\ CachedAsRegistered'
  BY <1>1 DEF ReferenceInv, CachedAsRegistered, Known
<1>5. ReferenceFollowsHolder'
  <2>1. \A b \in Account : Referring(b) => Referring(b)'
    BY <1>1 DEF Referring
  <2>2. \A b \in Account : row[b] = "live" => name[b] \in Username
    BY DEF NameInv
  <2>3. QED
    BY <1>1, <2>1, <2>2 DEF ReferenceFollowsHolder
<1>6. LingeringHasCause'
  BY <1>1 DEF LingeringHasCause, Dropping
<1>7. QED
  BY <1>2, <1>3, <1>4, <1>5, <1>6

\* The next command of a pipeline: what is cached is what was registered, and
\* a reference gets an account that has, or had, its username.
LEMMA ExecNextStep ==
  ASSUME IInv, NEW c \in Caller, ExecNext(c)
  PROVE  IInv'
<1> USE AccountsAssumption DEF IInv, TypeOK
<1> DEFINE h == todo[c][1]
<1>1. todo[c] \in Seq(Command) /\ todo[c] # << >> /\ pend[c] = "none"
      /\ phase[c] \in {"refs", "write"}
  BY DEF ExecNext
<1>2. /\ Head(todo[c]) = h /\ h \in Command /\ Tail(todo[c]) \in Seq(Command)
      /\ 1 \in DOMAIN todo[c]
      /\ \A i \in DOMAIN Tail(todo[c]) :
           i + 1 \in DOMAIN todo[c] /\ Tail(todo[c])[i] = todo[c][i + 1]
      /\ \A i \in DOMAIN todo[c] : i # 1 =>
           i - 1 \in DOMAIN Tail(todo[c]) /\ Tail(todo[c])[i - 1] = todo[c][i]
  BY <1>1, HeadTail
<1>3. /\ acct[c] \in Account /\ copy[c] \in Username /\ Known(acct[c], copy[c])
      /\ \A i \in DOMAIN todo[c] : todo[c][i].acc = acct[c] /\ todo[c][i].name = copy[c]
  BY <1>1 DEF CallInv, Knows
<1>4. h.acc = acct[c] /\ h.name = copy[c] /\ h.cmd \in {"set", "ref", "del"}
  BY <1>2, <1>3 DEF Command
<1> HIDE DEF h
<1>5. /\ todo' = [todo EXCEPT ![c] = Tail(todo[c])]
      /\ UNCHANGED <<row, name, phase, inTx, acct, copy, wanted, pend>>
  BY DEF ExecNext, db
<1>6. /\ cached' \in [Account -> Username \cup {NoName}]
      /\ \A a \in Account : \/ cached'[a] \in {cached[a], NoName}
                            \/ a = acct[c] /\ cached'[a] = copy[c]
  <2>1. cached' = CASE h.cmd = "set" -> [cached EXCEPT ![h.acc] = h.name]
                    [] h.cmd = "del" -> [cached EXCEPT ![h.acc] = NoName]
                    [] OTHER -> cached
    BY <1>2 DEF ExecNext
  <2>2. CASE h.cmd = "set"
    BY <1>3, <1>4, <2>1, <2>2
  <2>3. CASE h.cmd = "del"
    BY <1>3, <1>4, <2>1, <2>3
  <2>4. CASE h.cmd = "ref"
    BY <1>3, <1>4, <2>1, <2>4
  <2>5. QED
    BY <1>4, <2>2, <2>3, <2>4
<1>7. \/ h.cmd # "ref" /\ ref' = ref /\ disturbed' = disturbed
      \/ /\ h.cmd = "ref" /\ ref' = [ref EXCEPT ![copy[c]] = acct[c]]
         /\ disturbed' = IF row[acct[c]] = "deleted" THEN disturbed \cup {copy[c]}
                                                     ELSE disturbed
  BY <1>2, <1>4 DEF ExecNext
<1>7a. kept' = CASE h.cmd = "set" /\ row[h.acc] = "deleted" -> kept \cup {h.acc}
                 [] h.cmd = "del" -> kept \ {h.acc}
                 [] OTHER -> kept
  BY <1>2 DEF ExecNext
<1>8. TypeOK'
  <2>1. kept' \subseteq Account
    BY <1>3, <1>4, <1>7a
  <2>2. QED
    BY <1>2, <1>3, <1>5, <1>6, <1>7, <2>1
<1>9. CallInv'
  <2>1. ASSUME NEW d \in Caller, d # c PROVE Knows(d)'
    <3>1. todo'[d] = todo[d]
      BY <1>5, <2>1
    <3>2. QED
      BY <1>5, <3>1 DEF CallInv, Knows, Known
  <2>2. Knows(c)'
    <3>1. todo'[c] = Tail(todo[c])
      BY <1>5
    <3>2. \A i \in DOMAIN todo'[c] : todo'[c][i].acc = acct[c] /\ todo'[c][i].name = copy[c]
      BY <1>2, <1>3, <3>1
    <3>3. QED
      BY <1>1, <1>3, <1>5, <3>2 DEF Knows, Known
  <2>3. QED
    BY <2>1, <2>2 DEF CallInv
<1>10. LockInv' /\ NameInv'
  BY <1>5 DEF LockInv, NameInv
<1>11. ReferenceInv'
  BY <1>3, <1>5, <1>7 DEF ReferenceInv, Known
<1>12. CachedAsRegistered'
  BY <1>3, <1>5, <1>6 DEF CachedAsRegistered, Known
<1>13. ReferenceFollowsHolder'
  <2>1. ASSUME NEW b \in Account, row[b] = "live", ref'[name[b]] \notin {b, NoAccount}
        PROVE  name[b] \in disturbed' \/ Referring(b)'
    <3>1. name[b] \in Username
      BY <2>1 DEF NameInv
    <3>2. CASE h.cmd = "ref" /\ name[b] = copy[c]
      <4>1. ref'[name[b]] = acct[c] /\ acct[c] # b
        BY <1>7, <2>1, <3>1, <3>2
      <4>2. row[acct[c]] # "live" /\ row[acct[c]] # "absent"
        BY <1>3, <2>1, <3>2, <4>1 DEF NameInv, Known
      <4>3. row[acct[c]] = "deleted"
        BY <1>3, <4>2
      <4>4. QED
        BY <1>7, <3>2, <4>3
    <3>3. CASE h.cmd # "ref" \/ name[b] # copy[c]
      <4>1. ref[name[b]] \notin {b, NoAccount}
        BY <1>7, <2>1, <3>1, <3>3
      <4>2. name[b] \in disturbed \/ Referring(b)
        BY <2>1, <4>1 DEF ReferenceFollowsHolder
      <4>3. CASE Referring(b)
        <5>1. PICK d \in Caller : \E i \in DOMAIN todo[d] :
                                    todo[d][i].cmd = "ref" /\ todo[d][i].acc = b
          BY <4>3 DEF Referring
        <5>2. CASE d # c
          BY <1>5, <5>1, <5>2 DEF Referring
        <5>3. CASE d = c
          <6>1. PICK i \in DOMAIN todo[c] : todo[c][i].cmd = "ref" /\ todo[c][i].acc = b
            BY <5>1, <5>3
          <6>2. i # 1
            BY <1>3, <3>3, <6>1 DEF h, Known
          <6>3. i - 1 \in DOMAIN todo'[c] /\ todo'[c][i - 1] = todo[c][i]
            BY <1>2, <1>5, <6>1, <6>2
          <6>4. QED
            BY <6>1, <6>3 DEF Referring
        <5>4. QED
          BY <5>2, <5>3
      <4>4. QED
        BY <1>7, <4>2, <4>3
    <3>4. QED
      BY <3>2, <3>3
  <2>2. QED
    BY <1>5, <2>1 DEF ReferenceFollowsHolder
<1>14. LingeringHasCause'
  <2>1. ASSUME NEW b \in Account, row[b] = "deleted", cached'[b] # NoName
        PROVE  b \in kept' \/ \E d \in Caller : acct'[d] = b /\ Dropping(d)'
    <3>1. CASE h.cmd = "set" /\ b = acct[c]
      BY <1>4, <1>7a, <2>1, <3>1
    <3>2. CASE h.cmd = "del" /\ b = acct[c]
      <4>1. cached'[b] = NoName
        BY <1>2, <1>3, <1>4, <3>2 DEF ExecNext
      <4>2. QED
        BY <2>1, <4>1
    <3>3. CASE b # acct[c] \/ h.cmd = "ref"
      <4>1. cached'[b] = cached[b]
        BY <1>2, <1>3, <1>4, <3>3 DEF ExecNext
      <4>2. b \in kept => b \in kept'
        BY <1>4, <1>7a, <3>3
      <4>3. b \in kept \/ \E d \in Caller : acct[d] = b /\ Dropping(d)
        BY <2>1, <4>1 DEF LingeringHasCause
      <4>4. ASSUME NEW d \in Caller, acct[d] = b, Dropping(d)
            PROVE  acct'[d] = b /\ Dropping(d)'
        <5>1. CASE d # c
          BY <1>5, <4>4, <5>1 DEF Dropping
        <5>2. CASE d = c
          <6>1. PICK i \in DOMAIN todo[c] : todo[c][i].cmd = "del"
            BY <4>4, <5>2 DEF Dropping
          <6>2. i # 1
            BY <3>3, <4>4, <5>2, <6>1 DEF h
          <6>3. i - 1 \in DOMAIN todo'[c] /\ todo'[c][i - 1] = todo[c][i]
            BY <1>2, <1>5, <6>1, <6>2
          <6>4. QED
            BY <1>1, <1>5, <4>4, <5>2, <6>1, <6>3 DEF Dropping
        <5>3. QED
          BY <5>1, <5>2
      <4>5. QED
        BY <4>2, <4>3, <4>4
    <3>4. QED
      BY <1>4, <3>1, <3>2, <3>3
  <2>2. QED
    BY <1>5, <2>1 DEF LingeringHasCause
<1>15. QED
  BY <1>8, <1>9, <1>10, <1>11, <1>12, <1>13, <1>14

\* The inductive invariant of accounts, references and calls.
THEOREM Invariance == Spec => []IInv
<1>1. IInv /\ [Next]_vars => IInv'
  <2> SUFFICES ASSUME IInv, [Next]_vars PROVE IInv'
    OBVIOUS
  <2>1. CASE Evict
    BY <2>1, EvictStep
  <2>2. ASSUME NEW c \in Caller, Step(c) PROVE IInv'
    <3>1. ASSUME NEW a \in Account, NEW tx \in BOOLEAN,
                 \/ \E u \in Username : Register(c, a, u, tx) \/ UpdateRead(c, a, u, tx)
                 \/ Delete(c, a, tx)
          PROVE  IInv'
      BY <3>1, RegisterStep, UpdateReadStep, DeleteStep
    <3>2. CASE UpdateWrite(c) \/ UpdateRefs(c) \/ Commit(c)
      BY <3>2, UpdateWriteStep, UpdateRefsStep, CommitStep
    <3>3. CASE ExecNext(c) \/ Return(c) \/ Fail(c)
      BY <3>3, ExecNextStep, LeaveStep
    <3>4. QED
      BY <2>2, <3>1, <3>2, <3>3 DEF Step
  <2>3. CASE UNCHANGED vars
    BY <2>3 DEF vars, db, redis, call, history, LingeringHasCause, Dropping, IInv, TypeOK, CallInv, Knows, Known, LockInv, NameInv,
                ReferenceInv, CachedAsRegistered, ReferenceFollowsHolder, Referring
  <2>4. QED
    BY <2>1, <2>2, <2>3 DEF Next
<1>2. QED
  BY InitIInv, <1>1, PTL DEF Spec

\* Every variable keeps its type.
THEOREM AccountsTypeOK == Spec => []TypeOK
<1>1. IInv => TypeOK
  BY DEF IInv
<1>2. QED
  BY <1>1, Invariance, PTL

\* The account object in the cache is the row as it was registered.
THEOREM CachedCopies == Spec => []CachedAsRegistered
<1>1. IInv => CachedAsRegistered
  BY DEF IInv
<1>2. QED
  BY <1>1, Invariance, PTL

\* Fetch by username never returns an account of another name: a cached
\* account is what was registered, and a reference leads to that name.
THEOREM FetchIsRight == Spec => []CachedAsRegistered /\ []FetchedHasTheName
<1>1. IInv => CachedAsRegistered
  BY DEF IInv
<1>2. IInv => FetchedHasTheName
  BY AccountsAssumption
     DEF IInv, TypeOK, ReferenceInv, CachedAsRegistered, Known, FetchedHasTheName, Fetched
<1>3. QED
  BY <1>1, <1>2, Invariance, PTL

\* A username that is taken again leads to its new holder once the
\* registration is through, unless a failure or a late write interfered.
THEOREM ReferencesFollow == Spec => []ReferenceFollowsHolder
<1>1. IInv => ReferenceFollowsHolder
  BY DEF IInv
<1>2. QED
  BY <1>1, Invariance, PTL

\* A deleted account that is still cached has a Delete under way that drops it,
\* or a direct, failed or late call left it there.
THEOREM LingeringExplained == Spec => []LingeringHasCause
<1>1. IInv => LingeringHasCause
  BY DEF IInv
<1>2. QED
  BY <1>1, Invariance, PTL

-----------------------------------------------------------------------------
(* The refinement of Directory *)

LEMMA InitStore == Init => Store!Init
<1> SUFFICES ASSUME Init PROVE Store!Init
  OBVIOUS
<1>1. Registered = [a \in Account |-> NoName] /\ Deleted = {}
  BY DEF Init, Registered, Deleted
<1>2. Found = [u \in Username |-> NoAccount]
  BY DEF Init, Found, Fetched
<1>3. QED
  BY <1>1, <1>2 DEF Store!Init

\* Redis decides alone what is found.
LEMMA FoundBySame == UNCHANGED redis => Found' = Found
BY DEF redis, Found, Fetched

LEMMA ListedSame == UNCHANGED db => Registered' = Registered /\ Deleted' = Deleted
BY DEF db, Registered, Deleted

\* An INSERT that takes effect registers.
LEMMA InsertRegisters ==
  ASSUME IInv, NEW a \in Account, NEW u \in Username, row[a] = "absent",
         \A b \in Account : row[b] = "live" => name[b] # u,
         Apply("insert", a, u), UNCHANGED redis
  PROVE  Store!Register(a, u)
<1> USE AccountsAssumption DEF IInv, TypeOK
<1>1. row' = [row EXCEPT ![a] = "live"] /\ name' = [name EXCEPT ![a] = u]
  BY DEF Apply
<1>2. Registered[a] = NoName /\ Registered' = [Registered EXCEPT ![a] = u]
  BY <1>1 DEF Registered
<1>3. Deleted' = Deleted
  BY <1>1 DEF Deleted
<1>4. \A b \in Account : Registered[b] = u => b \in Deleted
  BY DEF Registered, Deleted
<1>5. Store!Holders(u) = {}
  BY <1>4 DEF Store!Holders
<1>6. QED
  BY <1>2, <1>3, <1>5, FoundBySame DEF Store!Register

\* A DELETE that takes effect deletes, unless the row is deleted already; an
\* UPDATE leaves the directory as it is.
LEMMA WriteDeletes ==
  ASSUME IInv, NEW stmt \in {"update", "delete"}, NEW a \in Account, NEW u,
         Known(a, u), Apply(stmt, a, u), UNCHANGED redis
  PROVE  Store!Delete(a) \/ UNCHANGED <<Registered, Deleted, Found>>
<1> USE AccountsAssumption DEF IInv, TypeOK
<1>1. name' = name
  BY DEF Apply, Known
<1>2. row' = [row EXCEPT ![a] = IF stmt = "delete" /\ row[a] = "live" THEN "deleted"
                                                                  ELSE row[a]]
  BY DEF Apply
<1>3. Registered' = Registered
  BY <1>1, <1>2 DEF Registered, Known
<1>4. CASE stmt = "delete" /\ row[a] = "live"
  <2>1. Registered[a] # NoName
    BY <1>4 DEF Registered, NameInv
  <2>2. a \notin Deleted /\ Deleted' = Deleted \cup {a}
    BY <1>2, <1>4 DEF Deleted
  <2>3. QED
    BY <1>3, <2>1, <2>2, FoundBySame DEF Store!Delete
<1>5. CASE ~(stmt = "delete" /\ row[a] = "live")
  BY <1>2, <1>3, <1>5, FoundBySame DEF Deleted
<1>6. QED
  BY <1>4, <1>5

\* As references lead only to accounts of their name, the copy of an account is
\* found under that name only.
LEMMA RedisFinds ==
  ASSUME IInv, IInv', UNCHANGED db, NEW a \in Account, NEW u \in Username, Known(a, u),
         \A b \in Account \ {a} : cached'[b] = cached[b],
         \A v \in Username \ {u} : ref'[v] = ref[v]
  PROVE  Store!Find(u)
<1> USE AccountsAssumption DEF IInv, TypeOK
<1>1. Registered' = Registered /\ Deleted' = Deleted
  BY ListedSame
<1>2. ASSUME NEW v \in Username \ {u} PROVE Fetched(v)' = Fetched(v)
  <2>1. ref[v] # a
    BY DEF ReferenceInv, Known
  <2>2. ref'[v] = ref[v] /\ ref[v] \in Account \cup {NoAccount}
    OBVIOUS
  <2>3. QED
    BY <2>1, <2>2 DEF Fetched
<1>3. Fetched(u)' \in {b \in Account : Registered[b] = u} \cup {NoAccount}
  <2>1. Fetched(u)' \in {ref'[u], NoAccount}
    BY DEF Fetched
  <2>2. ref'[u] # NoAccount => ref'[u] \in Account /\ row[ref'[u]] # "absent"
                               /\ name[ref'[u]] = u
    BY DEF ReferenceInv, Known, db
  <2>3. QED
    BY <2>1, <2>2 DEF Registered
<1>4. Found' = [Found EXCEPT ![u] = Fetched(u)']
  BY <1>2 DEF Found
<1>5. QED
  BY <1>1, <1>3, <1>4 DEF Store!Find

LEMMA StepStore ==
  ASSUME IInv, IInv', NEW c \in Caller, Step(c)
  PROVE  [Store!Next]_<<Registered, Deleted, Found>>
<1> USE AccountsAssumption DEF IInv, TypeOK
<1>1. ASSUME UNCHANGED <<db, redis>> PROVE UNCHANGED <<Registered, Deleted, Found>>
  BY <1>1, ListedSame, FoundBySame
<1>2. ASSUME NEW stmt \in {"update", "delete"}, NEW a \in Account, NEW u, NEW tx \in BOOLEAN,
             Known(a, u), Execute(c, stmt, a, u, tx), UNCHANGED redis
      PROVE  [Store!Next]_<<Registered, Deleted, Found>>
  <2>1. CASE tx
    BY <1>1, <1>2, <2>1 DEF Execute
  <2>2. CASE ~tx
    BY <1>2, <2>2, WriteDeletes DEF Execute, Store!Next
  <2>3. QED
    BY <2>1, <2>2
<1>3. ASSUME NEW a \in Account, NEW u \in Username, NEW tx \in BOOLEAN, Register(c, a, u, tx)
      PROVE  [Store!Next]_<<Registered, Deleted, Found>>
  <2>1. CASE tx
    BY <1>1, <1>3, <2>1 DEF Register, Execute
  <2>2. CASE ~tx
    <3>1. Store!Register(a, u)
      BY <1>3, <2>2, InsertRegisters DEF Register, Execute, Available
    <3>2. QED
      BY <3>1 DEF Store!Next
  <2>3. QED
    BY <2>1, <2>2
<1>4. ASSUME NEW a \in Account, NEW tx \in BOOLEAN, Delete(c, a, tx)
      PROVE  [Store!Next]_<<Registered, Deleted, Found>>
  <2>1. Known(a, name[a]) /\ Execute(c, "delete", a, name[a], tx) /\ UNCHANGED redis
    BY <1>4 DEF Delete, Known
  <2>2. QED
    BY <1>2, <2>1
<1>5. CASE UpdateWrite(c)
  <2>1. Known(acct[c], copy[c]) /\ acct[c] \in Account /\ inTx[c] \in BOOLEAN
    <3>1. phase[c] = "read" /\ Knows(c)
      BY <1>5 DEF UpdateWrite, CallInv
    <3>2. pend[c] = "none"
      BY <3>1 DEF Knows
    <3>3. QED
      BY <3>1, <3>2 DEF Knows
  <2>2. Execute(c, "update", acct[c], copy[c], inTx[c])
    BY <1>5, Zenon DEF UpdateWrite, Written
  <2>3. UNCHANGED redis
    BY <1>5 DEF UpdateWrite
  <2>4. QED
    BY <1>2, <2>1, <2>2, <2>3
<1>6. CASE Commit(c)
  <2>1. /\ Apply(pend[c], acct[c], copy[c]) /\ acct[c] \in Account /\ copy[c] \in Username
        /\ pend[c] \in {"insert", "update", "delete"} /\ UNCHANGED redis
        /\ pend[c] = "insert" => row[acct[c]] = "absent"
        /\ pend[c] # "insert" => Known(acct[c], copy[c])
    BY <1>6 DEF Commit, Written, CallInv, Knows
  <2>2. CASE pend[c] = "insert"
    <3>1. \A b \in Account : row[b] = "live" => name[b] # copy[c]
      BY <2>2 DEF NameInv
    <3>2. Store!Register(acct[c], copy[c])
      BY <2>1, <2>2, <3>1, InsertRegisters
    <3>3. QED
      BY <2>1, <3>2 DEF Store!Next
  <2>3. CASE pend[c] # "insert"
    BY <2>1, <2>3, WriteDeletes DEF Store!Next
  <2>4. QED
    BY <2>2, <2>3
<1>7. CASE ExecNext(c)
  <2>1. /\ todo[c] \in Seq(Command) /\ todo[c] # << >> /\ pend[c] = "none"
        /\ phase[c] \in {"refs", "write"} /\ UNCHANGED db
    BY <1>7 DEF ExecNext
  <2>2. Head(todo[c]) = todo[c][1] /\ 1 \in DOMAIN todo[c] /\ todo[c][1] \in Command
    BY <2>1, HeadTail
  <2>3. /\ acct[c] \in Account /\ copy[c] \in Username /\ Known(acct[c], copy[c])
        /\ Head(todo[c]).acc = acct[c] /\ Head(todo[c]).name = copy[c]
    BY <2>1, <2>2 DEF CallInv, Knows
  <2>4. \A b \in Account \ {acct[c]} : cached'[b] = cached[b]
    BY <1>7, <2>3 DEF ExecNext
  <2>5. \A v \in Username \ {copy[c]} : ref'[v] = ref[v]
    BY <1>7, <2>3 DEF ExecNext
  <2>6. Store!Find(copy[c])
    BY <2>1, <2>3, <2>4, <2>5, RedisFinds
  <2>7. QED
    BY <2>3, <2>6 DEF Store!Next
<1>8. CASE (\E a \in Account, u \in Username, tx \in BOOLEAN : UpdateRead(c, a, u, tx))
           \/ UpdateRefs(c) \/ Return(c) \/ Fail(c)
  BY <1>1, <1>8 DEF UpdateRead, UpdateRefs, Return, Fail
<1>9. QED
  BY <1>3, <1>4, <1>5, <1>6, <1>7, <1>8 DEF Step

\* What redis drops is not found any more.
LEMMA EvictStore ==
  ASSUME IInv, IInv', Evict
  PROVE  [Store!Next]_<<Registered, Deleted, Found>>
<1> USE AccountsAssumption DEF IInv, TypeOK
<1>1. ASSUME NEW a \in Account, cached[a] # NoName, cached' = [cached EXCEPT ![a] = NoName],
             UNCHANGED ref, UNCHANGED db
      PROVE  [Store!Next]_<<Registered, Deleted, Found>>
  <2>1. Known(a, name[a]) /\ name[a] \in Username
    BY <1>1 DEF CachedAsRegistered, Known, NameInv
  <2>2. Store!Find(name[a])
    BY <1>1, <2>1, RedisFinds
  <2>3. QED
    BY <2>1, <2>2 DEF Store!Next
<1>2. ASSUME NEW u \in Username, ref[u] # NoAccount, ref' = [ref EXCEPT ![u] = NoAccount],
             UNCHANGED cached, UNCHANGED db
      PROVE  [Store!Next]_<<Registered, Deleted, Found>>
  <2>1. ref[u] \in Account /\ Known(ref[u], u)
    BY <1>2 DEF ReferenceInv
  <2>2. Store!Find(u)
    BY <1>2, <2>1, RedisFinds
  <2>3. QED
    BY <2>2 DEF Store!Next
<1>3. QED
  BY <1>1, <1>2 DEF Evict

\* Rows, cached accounts and references, each written at its own time, are one
\* directory.
THEOREM AccountsRefinement == Spec => StoreSpec
<1>1. Init => Store!Init
  BY InitStore
<1>2. IInv /\ IInv' /\ [Next]_vars => [Store!Next]_<<Registered, Deleted, Found>>
  <2> SUFFICES ASSUME IInv, IInv', [Next]_vars
               PROVE  [Store!Next]_<<Registered, Deleted, Found>>
    OBVIOUS
  <2>1. CASE UNCHANGED vars
    BY <2>1, ListedSame, FoundBySame DEF vars
  <2>2. QED
    BY <2>1, StepStore, EvictStore DEF Next
<1>3. QED
  BY <1>1, <1>2, Invariance, PTL DEF Spec, StoreSpec, Store!Spec, Store!vars
=============================================================================
