----------------------------- MODULE Locks_proofs -----------------------------
(***************************************************************************)
(* Proofs about Locks for any number of callers, sessions and listings.    *)
(***************************************************************************)
EXTENDS Locks, WellFoundedInduction, TLAPS

\* What a call may be; the first conjunct of TypeOK says that every call is one.
Calls == [op : Operation, form : {"direct", "tx", "mixed"},
          order : [Session -> Nat], left : SUBSET Row, held : SUBSET Row]

LEMMA PlaceValue ==
  ASSUME NEW k, k.order \in [Session -> 1..Depth], NEW r \in Row
  PROVE  /\ Place(k, r) \in 0..(Depth + 4)
         /\ r \in Session => Place(k, r) = 2 + k.order[r]
         /\ r = "account" => Place(k, r) = IF k.op = "change" THEN Depth + 3 ELSE 0
         /\ r = "code" => Place(k, r) = Depth + 4
         /\ r \in {"tickets", "mail"} => Place(k, r) = 1
         /\ r \notin Session => Place(k, r) \in {0, 1, Depth + 3, Depth + 4}
<1> USE LocksAssumption
<1>1. CASE r \in Session
  <2>1. k.order[r] \in 1..Depth
    BY <1>1
  <2>2. Place(k, r) = 2 + k.order[r]
    BY <1>1 DEF Place, Others
  <2>3. QED
    BY <1>1, <2>1, <2>2 DEF Others
<1>2. CASE r = "account"
  <2>1. Place(k, r) = AccountPlace(k)
    BY <1>2 DEF Place, Others
  <2>2. QED
    BY <1>2, <2>1 DEF AccountPlace, Others
<1>3. CASE r = "code"
  <2>1. Place(k, r) = Depth + 4
    BY <1>3 DEF Place, Others
  <2>2. QED
    BY <1>3, <2>1 DEF Others
<1>4. CASE r \in {"tickets", "mail"}
  <2>1. Place(k, r) = TicketPlace(k)
    BY <1>4 DEF Place, Others
  <2>2. QED
    BY <1>4, <2>1 DEF TicketPlace, Others
<1>5. QED
  BY <1>1, <1>2, <1>3, <1>4 DEF Row, Others

\* A new call has everything before it.
LEMMA BeginOK ==
  ASSUME LInv, NEW c \in Caller, NEW op \in Operation, NEW f \in Forms[c],
         NEW p \in [Session -> 1..Depth], NEW R \in SUBSET RowsOf(op),
         Begin(c, op, f, p, R),
         \A q, r \in R \cap Session : p[q] = p[r] => q = r,
         op \in {"update", "discard"} => \E t : R = {t}
  PROVE  LInv'
<1> DEFINE k == Call(op, f, p, R)
<1>1. /\ k.op = op /\ k.form = f /\ k.order = p /\ k.left = R /\ k.held = {}
      /\ call' = [call EXCEPT ![c] = k]
  BY DEF Begin, Call
<1>2. k \in Calls
  <2>1. R \subseteq Row /\ f \in {"direct", "tx", "mixed"} /\ p \in [Session -> Nat]
    BY LocksAssumption DEF RowsOf
  <2>2. QED
    BY <2>1 DEF Call, Calls
<1> HIDE DEF k
<1>3. CallOK(k)
  <2>1. ASSUME NEW q \in R, NEW r \in R, Place(k, q) = Place(k, r) PROVE q = r
    <3>1. q \in RowsOf(op) /\ r \in RowsOf(op) /\ q \in Row /\ r \in Row
      BY <2>1 DEF RowsOf
    <3>2. /\ q \in Session => p[q] \in 1..Depth
          /\ r \in Session => p[r] \in 1..Depth
      OBVIOUS
    <3>3. CASE q \in Session /\ r \in Session
      BY <1>1, <2>1, <3>1, <3>2, <3>3, PlaceValue
    <3>4. CASE q \notin Session /\ r \notin Session
      BY <1>1, <2>1, <3>1, <3>4, PlaceValue, LocksAssumption DEF RowsOf, Row, Others, Many
    <3>5. CASE q \in Session /\ r \notin Session
      <4>1. Place(k, q) = 2 + p[q]
        BY <1>1, <3>1, <3>2, <3>5, PlaceValue
      <4>2. Place(k, r) \in {0, 1, Depth + 3, Depth + 4}
        BY <1>1, <3>1, <3>5, PlaceValue
      <4>3. QED
        BY <2>1, <3>2, <3>5, <4>1, <4>2, LocksAssumption
    <3>6. CASE q \notin Session /\ r \in Session
      <4>1. Place(k, r) = 2 + p[r]
        BY <1>1, <3>1, <3>2, <3>6, PlaceValue
      <4>2. Place(k, q) \in {0, 1, Depth + 3, Depth + 4}
        BY <1>1, <3>1, <3>6, PlaceValue
      <4>3. QED
        BY <2>1, <3>2, <3>6, <4>1, <4>2, LocksAssumption
    <3>7. QED
      BY <3>3, <3>4, <3>5, <3>6
  <2>2. QED
    BY <1>1, <2>1 DEF CallOK
<1>4. TypeOK'
  BY <1>1, <1>2 DEF LInv, TypeOK, Calls
<1>5. QED
  BY <1>1, <1>3, <1>4 DEF LInv, TypeOK

\* The operations that name the rows, as BeginOK wants them.
LEMMA StartOK == ASSUME LInv, NEW c \in Caller, Start(c) PROVE LInv'
<1>0. /\ Listings \subseteq [Session -> 1..Depth] /\ Unordered \in [Session -> 1..Depth]
      /\ Session \subseteq Row /\ Others \subseteq Row
      /\ \A p \in Listings : \A s, t \in Session : p[s] = p[t] => s = t
  BY LocksAssumption DEF Unordered, Row
<1>1. ASSUME NEW f \in Forms[c], NEW p \in Listings, NEW S \in Listed,
             \/ ValidateResetPassword(c, f, p, S) \/ UpdateResetPasswordRequest(c, f, p, S)
             \/ ConfirmEmailChange(c, f, p, S) \/ RevokeEmailChange(c, f, p, S)
             \/ RevokeAll(c, f, p, S) \/ PurgeInvalid(c, f, p, S)
      PROVE  LInv'
  <2> DEFINE Fixed(op) == CASE op = "reset" -> {"account", "tickets"}
                            [] op = "change" -> {"account"}
                            [] op \in {"confirm", "takeBack"} -> {"mail"}
                            [] OTHER -> {}
  <2>1. PICK op \in Many : Begin(c, op, f, p, Fixed(op) \cup S)
    BY <1>1 DEF ValidateResetPassword, UpdateResetPasswordRequest, ConfirmEmailChange,
                RevokeEmailChange, RevokeAll, PurgeInvalid, Many
  <2>2. S \subseteq Session
    BY LocksAssumption
  <2>3. Fixed(op) \cup S \in SUBSET RowsOf(op)
    BY <1>0, <2>2 DEF RowsOf, Others, Many
  <2>4. op \in Operation /\ op \notin {"update", "discard"}
    BY DEF Many, Operation
  <2> HIDE DEF Fixed
  <2>5. QED
    BY <1>0, <2>1, <2>3, <2>4, BeginOK
<1>2. ASSUME NEW f \in Forms[c],
             \/ Verify(c, f) \/ Update(c, f) \/ DeleteTickets(c, f)
      PROVE  LInv'
  <2>1. PICK op \in {"verify", "update", "discard"}, R \in SUBSET Row :
          /\ Begin(c, op, f, Unordered, R)
          /\ \/ op = "verify" /\ R = {"account", "code"}
             \/ op = "update" /\ R = {"account"}
             \/ op = "discard" /\ \E r \in {"tickets", "mail"} : R = {r}
    <3>1. CASE Verify(c, f)
      BY <1>0, <3>1 DEF Verify, Others
    <3>2. CASE Update(c, f)
      BY <1>0, <3>2 DEF Update, Others
    <3>3. CASE DeleteTickets(c, f)
      BY <1>0, <3>3 DEF DeleteTickets, Others
    <3>4. QED
      BY <1>2, <3>1, <3>2, <3>3
  <2>2. R \subseteq RowsOf(op)
    BY <1>0, <2>1 DEF RowsOf, Others, Many
  <2>3. op \in Operation /\ (op \in {"update", "discard"} => \E t : R = {t})
    BY <2>1 DEF Operation
  <2>4. \A q, r \in R \cap Session : Unordered[q] = Unordered[r] => q = r
    BY <2>1, LocksAssumption DEF Others
  <2>5. QED
    BY <1>0, <2>1, <2>2, <2>3, <2>4, BeginOK
<1>3. QED
  BY <1>1, <1>2 DEF Start

\* The next row that a call gets comes after all that it holds, and before
\* all that it has left.
LEMMA LockOK == ASSUME LInv, NEW c \in Caller, NEW r \in Row, Lock(c, r) PROVE LInv'
<1> DEFINE k == call[c]
           n == call'[c]
<1>1. k \in Calls /\ CallOK(k) /\ call \in [Caller -> Calls]
  BY DEF LInv, TypeOK, Calls
<1>2. /\ r \in Row /\ n = [k EXCEPT !.left = @ \ {r}, !.held = IF Own(k, r) THEN @ \cup {r} ELSE @]
      /\ \A d \in Caller \ {c} : call'[d] = call[d] /\ r \notin call[d].held
      /\ r \in k.left /\ \A q \in k.left : Place(k, r) <= Place(k, q)
      /\ call' \in [Caller -> {call'[d] : d \in Caller}]
  BY <1>1 DEF Lock, Free, Wants
<1>3. /\ n.op = k.op /\ n.form = k.form /\ n.order = k.order
      /\ n.left = k.left \ {r}
      /\ n.held = k.held \/ (Own(k, r) /\ n.held = k.held \cup {r})
      /\ n.held \subseteq Row
      /\ n \in Calls
  <2> DEFINE H == IF Own(k, r) THEN k.held \cup {r} ELSE k.held
  <2>1. H \in SUBSET Row
    BY <1>1, <1>2 DEF Calls
  <2>2. n = [k EXCEPT !.left = k.left \ {r}, !.held = H]
    BY <1>2
  <2> HIDE DEF H, n, k
  <2>3. /\ n.op = k.op /\ n.form = k.form /\ n.order = k.order
        /\ n.left = k.left \ {r} /\ n.held = H /\ n \in Calls
    BY <1>1, <2>1, <2>2 DEF Calls
  <2>4. QED
    BY <1>2, <2>1, <2>3 DEF H
<1> HIDE DEF n, k
<1>4. \A q \in Row : Place(n, q) = Place(k, q) /\ Own(n, q) = Own(k, q)
  BY <1>3 DEF Place, Own, AccountPlace, TicketPlace
<1>5. \A q \in Row : Place(k, q) \in Nat
  BY <1>1, PlaceValue, LocksAssumption DEF CallOK
<1>6. CallOK(n)
  <2>1. k.left \subseteq Row /\ k.held \subseteq Row
    BY <1>1 DEF Calls
  <2>2. n.order \in [Session -> 1..Depth] /\ n.left \cup n.held \subseteq RowsOf(n.op)
    BY <1>1, <1>2, <1>3 DEF CallOK
  <2>3. \A q, u \in n.left : Place(n, q) = Place(n, u) => q = u
    BY <1>1, <1>3, <1>4, <2>1 DEF CallOK
  <2>4. \A q \in k.left \ {r} : Place(k, r) < Place(k, q)
    BY <1>1, <1>2, <1>5, <2>1 DEF CallOK
  <2>5. ASSUME NEW h \in n.held PROVE Own(n, h) /\ \A q \in n.left : Place(n, h) < Place(n, q)
    <3>1. CASE h \in k.held
      BY <1>1, <1>3, <1>4, <2>1, <3>1 DEF CallOK
    <3>2. CASE h = r /\ Own(k, r)
      BY <1>3, <1>4, <2>1, <2>4, <3>2
    <3>3. QED
      BY <1>3, <3>1, <3>2
  <2>6. n.op \in {"update", "discard"} => \A q, u \in n.left \cup n.held : q = u
    BY <1>1, <1>2, <1>3 DEF CallOK
  <2>7. QED
    BY <2>2, <2>3, <2>5, <2>6 DEF CallOK
<1>7. TypeOK'
  <2>1. \A d \in Caller : call'[d] \in Calls
    BY <1>1, <1>2, <1>3 DEF n, k
  <2>2. call' \in [Caller -> Calls]
    BY <1>2, <2>1
  <2>3. \A d, e \in Caller : d # e => call'[d].held \cap call'[e].held = {}
    <3>1. \A d, e \in Caller : d # e => call[d].held \cap call[e].held = {}
      BY DEF LInv, TypeOK
    <3>2. \A d \in Caller \ {c} : call'[d].held = call[d].held /\ r \notin call[d].held
      BY <1>2
    <3>3. call'[c].held \subseteq call[c].held \cup {r}
      BY <1>3 DEF n, k
    <3>4. QED
      BY <3>1, <3>2, <3>3
  <2>4. QED
    BY <2>2, <2>3 DEF TypeOK, Calls
<1>8. QED
  BY <1>2, <1>6, <1>7 DEF LInv, n, k

LEMMA InitLInv == Init => LInv
<1> SUFFICES ASSUME Init PROVE LInv
  OBVIOUS
<1>1. Idle \in Calls /\ Idle.left = {} /\ Idle.held = {} /\ CallOK(Idle)
  BY LocksAssumption DEF Idle, Call, Unordered, Calls, CallOK, Operation
<1>2. QED
  BY <1>1 DEF Init, LInv, TypeOK, Calls

LEMMA NextLInv == LInv /\ [Next]_call => LInv'
<1> SUFFICES ASSUME LInv, [Next]_call PROVE LInv'
  OBVIOUS
<1>1. ASSUME NEW c \in Caller, End(c) \/ Fail(c) \/ Detect(c) PROVE LInv'
  <2>1. Idle \in Calls /\ Idle.left = {} /\ Idle.held = {} /\ CallOK(Idle)
    BY LocksAssumption DEF Idle, Call, Unordered, Calls, CallOK, Operation
  <2>2. call' = [call EXCEPT ![c] = Idle]
    BY <1>1 DEF End, Fail, Detect
  <2>3. QED
    BY <2>1, <2>2 DEF LInv, TypeOK, Calls
<1>2. CASE UNCHANGED call
  BY <1>2 DEF LInv, TypeOK
<1>3. QED
  BY <1>1, <1>2, StartOK, LockOK DEF Next, Step

\* Every call holds only rows that come, in its own order, before those that
\* it still waits for; no two calls hold the same row.
THEOREM LocksInvariance == Spec => []LInv
<1>1. QED
  BY InitLInv, NextLInv, PTL DEF Spec

\* The calls have their type, and a row is held by one call at most.
THEOREM LocksTypeOK == Spec => []TypeOK
<1>1. LInv => TypeOK
  BY DEF LInv
<1>2. QED
  BY <1>1, LocksInvariance, PTL

\* A set of natural numbers has a least element.
LEMMA Least == ASSUME NEW W \in SUBSET Nat, W # {} PROVE \E n \in W : \A m \in W : n <= m
<1>1. PICK n \in W : \A m \in W : <<m, n>> \notin OpToRel(<, Nat)
  BY NatLessThanWellFounded, WFMin
<1>2. \A m \in W : ~(m < n)
  BY <1>1 DEF OpToRel
<1>3. QED
  BY <1>2

\* Without the two causes there is one order of the rows that all calls of S
\* respect; nobody waits for the holder of the last row that S waits for.
LEMMA CauseOfDeadlock == LInv => DeadlocksHaveCause
<1> SUFFICES ASSUME LInv, NEW S \in SUBSET Caller, Deadlocked(S),
                    \A c, d \in S : call[c].op \in Many /\ call[d].op \in Many =>
                      call[c].order = call[d].order,
                    \A c, d \in S : ~(call[c].op = "change" /\ call[d].op = "reset")
             PROVE  FALSE
  BY DEF DeadlocksHaveCause
<1>1. PICK p \in [Session -> 1..Depth] :
        \A c \in S : call[c].op \in Many => call[c].order = p
  <2>1. CASE \E c \in S : call[c].op \in Many
    BY <2>1 DEF LInv, CallOK
  <2>2. CASE \A c \in S : call[c].op \notin Many
    <3>1. Unordered \in [Session -> 1..Depth]
      BY LocksAssumption DEF Unordered
    <3>2. QED
      BY <2>2, <3>1
  <2>3. QED
    BY <2>1, <2>2
<1>2. PICK A \in {0, Depth + 3} :
        /\ A = 0 => \A c \in S : call[c].op # "change"
        /\ A # 0 => \A c \in S : call[c].op # "reset"
  BY LocksAssumption
<1> DEFINE Rank(r) == IF r \in Session THEN 2 + p[r]
                      ELSE IF r = "account" THEN A
                      ELSE IF r = "code" THEN Depth + 4 ELSE 1
<1>3. \A r \in Row : Rank(r) \in 0..(Depth + 4)
  BY <1>1, <1>2, LocksAssumption
<1>4. ASSUME NEW d \in S, NEW h \in call[d].held, NEW q \in call[d].left
      PROVE  Rank(h) < Rank(q)
  <2> DEFINE k == call[d]
  <2>1. /\ k.left \cup k.held \subseteq RowsOf(k.op) /\ Place(k, h) < Place(k, q)
        /\ k.order \in [Session -> 1..Depth]
        /\ k.op \in {"update", "discard"} => \A u, v \in k.left \cup k.held : u = v
    BY <1>4 DEF LInv, CallOK
  <2>2. /\ h \in Row /\ q \in Row /\ h \in RowsOf(k.op) /\ q \in RowsOf(k.op) /\ h # q
    BY <1>4, <2>1, PlaceValue, LocksAssumption DEF RowsOf
  <2>3. k.op \notin {"update", "discard"}
    BY <1>4, <2>1, <2>2
  <2>4. k.op \in Many => k.order = p
    BY <1>1
  <2>5. A = 0 => k.op # "change"
    BY <1>2
  <2>6. A # 0 => k.op # "reset"
    BY <1>2
  <2> HIDE DEF k
  <2>7. CASE k.op = "verify"
    BY <1>2, <2>1, <2>2, <2>7, PlaceValue, LocksAssumption DEF RowsOf, Many, Others
  <2>8. CASE k.op \in Many
    <3>1. ASSUME NEW r \in RowsOf(k.op) PROVE Rank(r) = Place(k, r)
      <4>1. r \in Row /\ r # "code"
        BY <2>8, LocksAssumption DEF RowsOf, Many, Others
      <4>2. CASE r \in Session
        BY <2>1, <2>4, <2>8, <4>1, <4>2, PlaceValue
      <4>3. CASE r = "account"
        <5>1. k.op \in {"reset", "change"}
          BY <2>8, <4>3, LocksAssumption DEF RowsOf, Many, Others
        <5>2. Place(k, r) = A
          BY <1>2, <2>1, <2>5, <2>6, <4>1, <4>3, <5>1, PlaceValue, LocksAssumption
        <5>3. QED
          BY <4>3, <5>2, LocksAssumption DEF Others
      <4>4. CASE r \in {"tickets", "mail"}
        BY <2>1, <4>1, <4>4, PlaceValue, LocksAssumption DEF Others
      <4>5. QED
        BY <4>1, <4>2, <4>3, <4>4 DEF Row, Others
    <3>2. QED
      BY <2>1, <2>2, <3>1
  <2>9. k.op \in Many \cup {"verify"}
    BY <2>2, <2>3 DEF RowsOf, Many
  <2>10. QED
    BY <2>7, <2>8, <2>9
<1> HIDE DEF Rank
<1>5. \A c \in S : \E d \in S, r \in Row : Wants(c, r) /\ r \in call[d].held
  BY DEF Deadlocked, WaitsFor, LInv, TypeOK
<1> DEFINE W == {n \in Nat : \E c, d \in S, r \in Row :
                   Wants(c, r) /\ r \in call[d].held /\ n = Depth + 4 - Rank(r)}
<1>6. PICK n \in W : \A m \in W : n <= m
  <2>1. PICK c \in S : TRUE
    BY DEF Deadlocked
  <2>2. PICK d \in S, r \in Row : Wants(c, r) /\ r \in call[d].held
    BY <1>5
  <2>3. Depth + 4 - Rank(r) \in W
    BY <1>3, <2>2, LocksAssumption
  <2>4. W \in SUBSET Nat /\ W # {}
    BY <2>3
  <2>5. QED
    BY <2>4, Least
<1>7. PICK c \in S, d \in S, r \in Row :
        Wants(c, r) /\ r \in call[d].held /\ n = Depth + 4 - Rank(r)
  BY <1>6
<1>8. PICK e \in S, u \in Row : Wants(d, u) /\ u \in call[e].held
  BY <1>5
<1>9. Rank(r) < Rank(u)
  BY <1>4, <1>7, <1>8 DEF Wants
<1>10. Depth + 4 - Rank(u) \in W
  BY <1>3, <1>8, LocksAssumption
<1>11. QED
  BY <1>3, <1>6, <1>7, <1>9, <1>10, LocksAssumption

\* However many calls run, and whatever the sessions, listings and forms: calls
\* that list the sessions in the same order deadlock only over a change of the
\* password beside a reset.
THEOREM LocksDeadlocksHaveCause == Spec => []DeadlocksHaveCause
<1>1. QED
  BY LocksInvariance, CauseOfDeadlock, PTL

\* In a cycle, everyone is waited for: the others would deadlock without him.
LEMMA CycleWaits ==
  ASSUME NEW S \in SUBSET Caller, Cycle(S), NEW d \in S
  PROVE  \E e \in S : WaitsFor(e, d)
<1> SUFFICES ASSUME \A e \in S : ~WaitsFor(e, d) PROVE FALSE
  OBVIOUS
<1>1. PICK e \in S : WaitsFor(d, e)
  BY DEF Cycle, Deadlocked
<1>2. e # d
  BY <1>1 DEF WaitsFor
<1>3. Deadlocked(S \ {d})
  BY <1>2 DEF Cycle, Deadlocked
<1>4. QED
  BY <1>3 DEF Cycle

\* What a member of a cycle holds and wants.
LEMMA CycleMember ==
  ASSUME LInv, NEW S \in SUBSET Caller, Cycle(S), NEW d \in S
  PROVE  \E h, q \in RowsOf(call[d].op), e \in S :
            /\ h \in call[d].held /\ Wants(d, q) /\ Wants(e, h) /\ h # q
            /\ Own(call[d], h) /\ Place(call[d], h) < Place(call[d], q)
            /\ call[d].op \in Many \cup {"verify"}
<1>1. PICK e \in S : WaitsFor(e, d)
  BY CycleWaits
<1>2. PICK h \in call[d].held : Wants(e, h)
  BY <1>1 DEF WaitsFor
<1>3. PICK q : Wants(d, q)
  BY DEF Cycle, Deadlocked, WaitsFor
<1>4. CallOK(call[d]) /\ q \in call[d].left
  BY <1>3 DEF LInv, Wants
<1>5. /\ h \in RowsOf(call[d].op) /\ q \in RowsOf(call[d].op) /\ Own(call[d], h)
      /\ Place(call[d], h) < Place(call[d], q)
  BY <1>2, <1>4 DEF CallOK
<1>6. h # q
  <2>1. Place(call[d], q) \in Nat
    BY <1>4, <1>5, PlaceValue, LocksAssumption DEF CallOK, RowsOf
  <2>2. QED
    BY <1>5, <2>1
<1>7. call[d].op \notin {"update", "discard"}
  BY <1>2, <1>4, <1>6 DEF CallOK
<1>8. call[d].op \in Many \cup {"verify"}
  BY <1>5, <1>7 DEF RowsOf, Many
<1>9. QED
  BY <1>2, <1>3, <1>5, <1>6, <1>8

\* The call that waits outside its transaction holds the tickets of a reset;
\* the one that wants them holds the account; the one that wants that is a
\* change that holds sessions.
LEMMA CauseOfUnseen == LInv => UnseenHaveCause
<1> SUFFICES ASSUME LInv, NEW S \in SUBSET Caller, Cycle(S), NEW c \in S, ~Seen(c)
             PROVE  /\ \E d \in S : call[d].op = "reset" /\ call[d].form = "mixed"
                    /\ \E d \in S : call[d].op = "reset" /\ call[d].form = "tx"
                    /\ \E d \in S : call[d].op = "change" /\ call[d].form = "tx"
  BY DEF UnseenHaveCause
<1>0. \A d \in S : /\ call[d].order \in [Session -> 1..Depth]
                   /\ call[d].form \in {"direct", "tx", "mixed"}
                   /\ \A r : Wants(d, r) => r \in RowsOf(call[d].op) /\ r \in Row
  BY DEF LInv, TypeOK, CallOK, Wants, RowsOf
<1>1. ASSUME NEW d \in S, NEW h, NEW q,
             h \in RowsOf(call[d].op), q \in RowsOf(call[d].op),
             Place(call[d], h) < Place(call[d], q),
             call[d].op \in Many \cup {"verify"}
      PROVE  /\ h = "tickets" => call[d].op = "reset"
             /\ q = "tickets" => call[d].op = "reset" /\ h = "account"
             /\ q = "account" => call[d].op = "change" /\ h \in Session
             /\ h # "code" /\ q # "mail"
  <2> DEFINE k == call[d]
  <2>1. k.order \in [Session -> 1..Depth] /\ h \in Row /\ q \in Row
    BY <1>0, <1>1 DEF RowsOf
  <2>2. Place(k, h) \in 0..(Depth + 4) /\ Place(k, q) \in 0..(Depth + 4)
    BY <2>1, PlaceValue
  <2>3. /\ h \in RowsOf(k.op) /\ q \in RowsOf(k.op) /\ k.op \in Many \cup {"verify"}
        /\ Place(k, h) < Place(k, q)
    BY <1>1
  <2> HIDE DEF k
  <2>4. h # "code"
    BY <2>1, <2>2, <2>3, PlaceValue, LocksAssumption
  <2>5. h \in Session => Place(k, h) > 2
    BY <2>1, PlaceValue, LocksAssumption
  <2>6. q = "account" => k.op = "change" /\ h \in Session
    <3>1. q = "account" => k.op = "change"
      BY <2>1, <2>2, <2>3, PlaceValue, LocksAssumption
    <3>2. h # q
      BY <2>2, <2>3
    <3>3. h \in Session \/ h = "account" \/ k.op # "change"
      BY <2>3 DEF RowsOf, Many
    <3>4. QED
      BY <3>1, <3>2, <3>3
  <2>7. q \in {"tickets", "mail"} => h = "account" /\ k.op # "change"
    <3>1. q \in {"tickets", "mail"} => Place(k, q) = 1 /\ h \notin Session
      BY <2>1, <2>2, <2>3, <2>5, PlaceValue, LocksAssumption
    <3>2. h \in {"tickets", "mail"} => Place(k, h) = 1
      BY <2>1, PlaceValue
    <3>3. h \in {"account", "tickets", "mail", "code"} \/ h \in Session
      BY <2>1 DEF Row, Others
    <3>4. q \in {"tickets", "mail"} => h = "account"
      BY <2>2, <2>3, <2>4, <3>1, <3>2, <3>3
    <3>5. k.op = "change" => q \notin {"tickets", "mail"}
      BY <2>3, LocksAssumption DEF RowsOf, Many, Others
    <3>6. QED
      BY <3>4, <3>5
  <2>8. h = "tickets" \/ q = "tickets" => k.op = "reset"
    BY <2>3, LocksAssumption DEF RowsOf, Many, Others
  <2>9. q # "mail"
    BY <2>3, <2>7, LocksAssumption DEF RowsOf, Many, Others
  <2>10. QED
    BY <2>4, <2>6, <2>7, <2>8, <2>9 DEF k
<1>2. PICK h, q \in RowsOf(call[c].op), e \in S :
        /\ h \in call[c].held /\ Wants(c, q) /\ Wants(e, h)
        /\ Own(call[c], h) /\ Place(call[c], h) < Place(call[c], q)
        /\ call[c].op \in Many \cup {"verify"}
  BY CycleMember
<1>3. ~Own(call[c], q)
  BY <1>0, <1>2 DEF Seen
<1>4. call[c].form = "mixed" /\ h \in {"tickets", "mail"}
  BY <1>0, <1>1, <1>2, <1>3 DEF Own
<1>5. PICK h2, q2 \in RowsOf(call[e].op), f \in S :
        /\ h2 \in call[e].held /\ Wants(e, q2) /\ Wants(f, h2)
        /\ Own(call[e], h2) /\ Place(call[e], h2) < Place(call[e], q2)
        /\ call[e].op \in Many \cup {"verify"}
  BY CycleMember
<1>6. \A d \in S : \A r, u : Wants(d, r) /\ Wants(d, u) => r = u
  <2> SUFFICES ASSUME NEW d \in S, NEW r, NEW u, Wants(d, r), Wants(d, u) PROVE r = u
    OBVIOUS
  <2>1. Place(call[d], r) \in Nat /\ Place(call[d], u) \in Nat
    BY <1>0, PlaceValue, LocksAssumption
  <2>2. Place(call[d], r) = Place(call[d], u)
    BY <2>1 DEF Wants
  <2>3. QED
    BY <2>2 DEF Wants, LInv, CallOK
<1>7. q2 = h
  BY <1>2, <1>5, <1>6
<1>8. h = "tickets" /\ call[c].op = "reset" /\ call[e].op = "reset" /\ h2 = "account"
  <2>1. h # "mail"
    BY <1>1, <1>5, <1>7
  <2>2. QED
    BY <1>1, <1>2, <1>4, <1>5, <1>7, <2>1
<1>9. call[e].form = "tx"
  BY <1>0, <1>5, <1>8 DEF Own
<1>10. PICK h3, q3 \in RowsOf(call[f].op), g \in S :
        /\ h3 \in call[f].held /\ Wants(f, q3)
        /\ Own(call[f], h3) /\ Place(call[f], h3) < Place(call[f], q3)
        /\ call[f].op \in Many \cup {"verify"}
  BY CycleMember
<1>11. q3 = "account"
  BY <1>5, <1>6, <1>8, <1>10
<1>12. call[f].op = "change" /\ h3 \in Session
  BY <1>1, <1>10, <1>11
<1>13. call[f].form = "tx"
  BY <1>0, <1>10, <1>12, LocksAssumption DEF Own, Others
<1>14. QED
  BY <1>4, <1>8, <1>9, <1>12, <1>13

\* A deadlock that the database cannot see needs a reset without a pipeline
\* beside a reset and a change of the password in transactions.
THEOREM LocksUnseenHaveCause == Spec => []UnseenHaveCause
<1>1. QED
  BY LocksInvariance, CauseOfUnseen, PTL
=============================================================================
