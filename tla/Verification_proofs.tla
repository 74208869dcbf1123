------------------------ MODULE Verification_proofs ------------------------
(***************************************************************************)
(* Proofs about Verification for any number of callers and rows.           *)
(***************************************************************************)
EXTENDS Verification, TLAPS

\* The first step of a call, the steps that go on, and the last one.
Enters(c) ==
  \E f \in Forms : RequestBlind(c, f) \/ Resend(c, f) \/ Verify(c, f)
Works(c) == Insert(c) \/ UpdateAccount(c) \/ Delete(c)
Ends(c) == End(c) \/ Fail(c)

LEMMA InitVInv == Init => VInv
<1> USE VerificationAssumption
<1>1. Init => TypeOK
  BY DEF Init, TypeOK, Calls, Idle, NoWrites, Row
<1>2. Init => CallInv /\ FreshInv
  BY DEF Init, CallInv, FreshInv, Fresh, At, Idle, NoWrites
<1>3. QED
  BY <1>1, <1>2 DEF Init, VInv, OneRowPerCaller, UsedAreGone

LEMMA EntersShape ==
  ASSUME VInv, NEW c \in Caller, Enters(c)
  PROVE  \E f \in Forms, op \in {"make", "resend", "verify"},
            l \in {"create", "update", "account"}, r \in Row :
           /\ call[c].at = "idle"
           /\ call' = [call EXCEPT ![c] = [at |-> l, op |-> op, form |-> f, row |-> r]]
           /\ UNCHANGED <<rows, pend, author, used>>
           /\ \/ /\ op = "make" /\ l = "create" /\ r = made + 1 /\ made' = made + 1
                 /\ made < MaxRow /\ blind' \in {blind, blind \cup {r}}
                 /\ blind' = blind => rows = {}
              \/ /\ op # "make" /\ l # "create" /\ r \in rows /\ UNCHANGED <<made, blind>>
                 /\ (l = "account") = (op = "verify")
<1> USE VerificationAssumption
<1>1. /\ made \in Nat /\ rows \subseteq Row /\ (made < MaxRow => made + 1 \in Row)
      /\ made + 1 \notin blind
  BY DEF VInv, TypeOK, Row
<1>2. PICK f \in Forms : RequestBlind(c, f) \/ Resend(c, f) \/ Verify(c, f)
  BY DEF Enters
<1>3. CASE RequestBlind(c, f)
  BY <1>1, <1>3 DEF RequestBlind, Make, Begin, At
<1>4. CASE NotFound /\ Make(c, f) /\ UNCHANGED blind
  BY <1>1, <1>4 DEF NotFound, Make, Begin, At
<1>5. CASE \E r \in rows : Begin(c, f, "resend", "update", r) /\ UNCHANGED <<made, blind>>
  <2>1. PICK r \in rows : Begin(c, f, "resend", "update", r) /\ UNCHANGED <<made, blind>>
    BY <1>5
  <2>2. r \in Row
    BY <1>1, <2>1
  <2>3. QED
    BY <2>1, <2>2 DEF Begin, At
<1>6. CASE Verify(c, f)
  BY <1>1, <1>6 DEF Verify, Begin, At
<1>7. QED
  BY <1>2, <1>3, <1>4, <1>5, <1>6 DEF Resend

\* The call record of a step that goes on is one of the calls.
LEMMA GoTyped ==
  ASSUME NEW c \in Caller, call \in [Caller -> Calls], NEW l \in {"delete", "end"}, Go(c, l)
  PROVE  call' \in [Caller -> Calls]
<1>1. call[c] \in Calls
  OBVIOUS
<1>2. [call[c] EXCEPT !.at = l] \in Calls
  BY <1>1 DEF Calls
<1>3. QED
  BY <1>2 DEF Go

LEMMA NextTypeOK == VInv /\ [Next]_vars => TypeOK'
<1> SUFFICES ASSUME VInv, [Next]_vars PROVE TypeOK'
  OBVIOUS
<1>0. /\ TypeOK /\ CallInv /\ FreshInv /\ made \in Nat /\ 1..made \subseteq Row
      /\ call \in [Caller -> Calls]
  BY VerificationAssumption DEF VInv, TypeOK, Row
<1>1. ASSUME NEW c \in Caller, Enters(c) PROVE TypeOK'
  <2>1. PICK f \in Forms, op \in {"make", "resend", "verify"},
             l \in {"create", "update", "account"}, r \in Row :
          /\ call' = [call EXCEPT ![c] = [at |-> l, op |-> op, form |-> f, row |-> r]]
          /\ UNCHANGED <<rows, pend, author, used>>
          /\ \/ /\ r = made + 1 /\ made' = made + 1
                /\ made < MaxRow /\ blind' \in {blind, blind \cup {r}}
             \/ r \in rows /\ UNCHANGED <<made, blind>>
    <3>1. VInv /\ Enters(c)
      BY <1>1
    <3>2. QED
      BY <3>1, EntersShape
  <2>2. made' \in 0..MaxRow /\ made' >= made /\ r \in 1..made' /\ blind' \subseteq 1..made'
    <3>1. made \in 0..MaxRow /\ rows \subseteq 1..made /\ blind \subseteq 1..made
      BY <1>0 DEF TypeOK
    <3>2. CASE r = made + 1 /\ made' = made + 1 /\ made < MaxRow /\ blind' \in {blind, blind \cup {r}}
      <4>1. 1..made \subseteq 1..(made + 1) /\ r \in 1..(made + 1) /\ made + 1 \in 0..MaxRow
        BY <1>0, <3>2, VerificationAssumption
      <4>2. QED
        BY <1>0, <3>1, <3>2, <4>1
    <3>3. CASE r \in rows /\ UNCHANGED <<made, blind>>
      BY <1>0, <3>1, <3>3
    <3>4. QED
      BY <2>1, <3>2, <3>3
  <2>3. made' \in Nat /\ 1..made \subseteq 1..made' /\ 0..made \subseteq 0..made' /\ r \in 0..made'
    BY <1>0, <2>2, VerificationAssumption
  <2>4. f \in {"direct", "tx", "mixed"}
    BY VerificationAssumption
  <2>5. \A q \in Calls : q \in Calls'
    BY <2>3 DEF Calls
  <2>6. [at |-> l, op |-> op, form |-> f, row |-> r] \in Calls'
    BY <2>3, <2>4 DEF Calls
  <2>7. call' \in [Caller -> Calls']
    BY <1>0, <2>1, <2>5, <2>6
  <2>8. pend' \in [Caller -> [ins : SUBSET (1..made'), del : SUBSET (1..made')]]
    BY <1>0, <2>1, <2>3 DEF TypeOK
  <2>9. rows' \subseteq 1..made' /\ used' \subseteq 1..made'
        /\ author' \in [Row -> Caller \cup {"nobody"}]
    BY <1>0, <2>1, <2>3 DEF TypeOK
  <2>10. QED
    BY <2>2, <2>7, <2>8, <2>9 DEF TypeOK
<1>2. ASSUME NEW c \in Caller, Insert(c) PROVE TypeOK'
  <2>1. call' \in [Caller -> Calls] /\ Calls' = Calls
    BY <1>0, <1>2, GoTyped DEF Insert, Calls
  <2>2. call[c].row \in Row /\ call[c].row \in 0..made
    BY <1>0, <1>2 DEF Insert, FreshInv, Fresh, Calls
  <2>3. call[c].row \in 1..made
    BY <1>0, <2>2, VerificationAssumption DEF Row
  <2>4. QED
    BY <1>0, <1>2, <2>1, <2>2, <2>3 DEF Insert, TypeOK
<1>3. ASSUME NEW c \in Caller, UpdateAccount(c) PROVE TypeOK'
  <2>1. call' \in [Caller -> Calls] /\ Calls' = Calls
    BY <1>0, <1>3, GoTyped DEF UpdateAccount, Calls
  <2>2. QED
    BY <1>0, <1>3, <2>1 DEF UpdateAccount, TypeOK
<1>4. ASSUME NEW c \in Caller, Delete(c) PROVE TypeOK'
  <2>1. call' \in [Caller -> Calls] /\ Calls' = Calls
    BY <1>0, <1>4, GoTyped DEF Delete, Calls
  <2>2. Deleted(c) \subseteq 1..made
    BY <1>0 DEF Deleted, TypeOK
  <2>3. pend' \in [Caller -> [ins : SUBSET (1..made), del : SUBSET (1..made)]]
    <3>1. CASE pend' = [pend EXCEPT ![c].del = Deleted(c)]
      <4>1. pend[c] \in [ins : SUBSET (1..made), del : SUBSET (1..made)]
        BY <1>0 DEF TypeOK
      <4>2. [pend[c] EXCEPT !.del = Deleted(c)] \in [ins : SUBSET (1..made), del : SUBSET (1..made)]
        BY <2>2, <4>1
      <4>3. QED
        BY <1>0, <3>1, <4>2 DEF TypeOK
    <3>2. QED
      BY <1>0, <1>4, <3>1 DEF Delete, TypeOK
  <2>4. QED
    BY <1>0, <1>4, <2>1, <2>2, <2>3 DEF Delete, TypeOK
<1>5. ASSUME NEW c \in Caller, Ends(c) PROVE TypeOK'
  <2>0. UNCHANGED <<made, blind, author>> /\ call' = [call EXCEPT ![c] = Idle]
    BY <1>5 DEF Ends, End, Fail
  <2>1. Idle \in Calls /\ Calls' = Calls
    BY <1>0, <2>0 DEF Idle, Calls
  <2>2. call' \in [Caller -> Calls'] /\ UNCHANGED <<made, blind, author>>
    BY <1>0, <2>0, <2>1
  <2>3. pend' \in [Caller -> [ins : SUBSET (1..made), del : SUBSET (1..made)]]
    <3>1. NoWrites \in [ins : SUBSET (1..made), del : SUBSET (1..made)]
      BY DEF NoWrites
    <3>2. QED
      BY <1>0, <1>5, <3>1 DEF Ends, End, Fail, TypeOK
  <2>4. pend[c].ins \subseteq 1..made
    BY <1>0 DEF TypeOK
  <2>5. rows' \subseteq 1..made
    BY <1>0, <1>5, <2>4 DEF Ends, End, Fail, TypeOK
  <2>6. call[c].op = "verify" => call[c].row \in 1..made
    <3>1. call[c].row \in 0..made
      BY <1>0 DEF Calls
    <3>2. QED
      BY <1>0, <3>1 DEF CallInv
  <2>7. used' \subseteq 1..made
    BY <1>0, <1>5, <2>6 DEF Ends, End, Fail, TypeOK
  <2>8. QED
    BY <1>0, <2>2, <2>3, <2>5, <2>7 DEF TypeOK
<1>6. CASE UNCHANGED vars
  BY <1>0, <1>6 DEF vars, TypeOK, Calls
<1>7. QED
  BY <1>1, <1>2, <1>3, <1>4, <1>5, <1>6 DEF Next, Enters, Ends

\* A step of one call leaves the others alone.
LEMMA Others ==
  ASSUME VInv, NEW c \in Caller, Enters(c) \/ Works(c) \/ Ends(c),
         NEW d \in Caller, d # c
  PROVE  call'[d] = call[d] /\ pend'[d] = pend[d]
<1>0. TypeOK
  BY DEF VInv
<1>1. CASE Enters(c)
  BY <1>0, <1>1, EntersShape DEF TypeOK
<1>2. CASE Works(c) \/ Ends(c)
  BY <1>0, <1>2 DEF TypeOK, Works, Ends, Insert, UpdateAccount, Delete, End, Fail, Go
<1>3. QED
  BY <1>1, <1>2

\* What a step of c does to the rows: it inserts only c's fresh one.
LEMMA RowStep ==
  ASSUME VInv, NEW c \in Caller, Enters(c) \/ Works(c) \/ Ends(c)
  PROVE  /\ \A r \in rows' \ rows : Fresh(c) /\ r = call[c].row /\ author'[r] = c
         /\ \A r \in Row : author'[r] = author[r] \/ (Fresh(c) /\ r = call[c].row /\ author'[r] = c)
         /\ \/ used' = used
            \/ /\ call[c].op = "verify" /\ used' = used \cup {call[c].row}
               /\ call[c].row \notin rows' /\ rows' \subseteq rows
         /\ call'[c].row \in {call[c].row, 0, made + 1} \cup rows
         /\ \/ blind' = blind
            \/ blind' = blind \cup {made + 1} /\ call'[c].row = made + 1
<1> USE DEF VInv, TypeOK, Calls, At
<1>1. CASE Enters(c)
  <2>1. PICK r \in Row : /\ call'[c].row = r /\ UNCHANGED <<rows, author, used>>
                         /\ \/ r = made + 1 /\ blind' \in {blind, blind \cup {r}}
                            \/ r \in rows /\ blind' = blind
    BY <1>1, EntersShape
  <2>2. QED
    BY <2>1
<1>2. CASE Insert(c)
  <2>1. Fresh(c) /\ call[c].row \in Row
    BY <1>2 DEF Insert, Fresh, FreshInv
  <2>2. /\ author'[call[c].row] = c /\ \A r \in Row \ {call[c].row} : author'[r] = author[r]
        /\ rows' \subseteq rows \cup {call[c].row} /\ used' = used /\ blind' = blind
    BY <1>2, <2>1 DEF Insert
  <2>3. call'[c].row = call[c].row
    BY <1>2 DEF Insert, Go
  <2>4. QED
    BY <2>1, <2>2, <2>3
<1>3. CASE UpdateAccount(c) \/ Delete(c)
  <2>1. call'[c].row = call[c].row
    BY <1>3 DEF UpdateAccount, Delete, Go
  <2>2. QED
    BY <1>3, <2>1 DEF UpdateAccount, Delete
<1>4. CASE End(c)
  <2>1. /\ rows' = (rows \ pend[c].del) \cup pend[c].ins /\ UNCHANGED <<author, blind>>
        /\ used' = IF call[c].op = "verify" THEN used \cup {call[c].row} ELSE used
        /\ call'[c].row = 0
    BY <1>4 DEF End, Idle
  <2>2. \A r \in pend[c].ins : Fresh(c) /\ r = call[c].row /\ author[r] = c /\ call[c].op = "make"
    BY DEF CallInv, Fresh
  <2>3. call[c].op = "verify" => call[c].row \notin rows' /\ rows' \subseteq rows
    BY <1>4, <2>1, <2>2 DEF CallInv, End
  <2>4. QED
    BY <2>1, <2>2, <2>3
<1>5. CASE Fail(c)
  BY <1>5 DEF Fail, Idle
<1>6. QED
  BY <1>1, <1>2, <1>3, <1>4, <1>5 DEF Works, Ends

\* A row that c is about to insert is new to everybody.
LEMMA StepFresh ==
  ASSUME VInv, NEW c \in Caller, Enters(c) \/ Works(c) \/ Ends(c), Fresh(c)'
  PROVE  /\ call'[c].row \in Row \ (rows' \cup used')
         /\ \A d \in Caller \ {c} : call'[d].row # call'[c].row
         /\ call'[c].row \notin blind' => \A r \in rows' \ blind' : author'[r] # c
<1> USE VerificationAssumption DEF VInv, TypeOK, At
<1>1. CASE Enters(c)
  <2>1. PICK f \in Forms, op \in {"make", "resend", "verify"},
             l \in {"create", "update", "account"}, r \in Row :
          /\ call[c].at = "idle"
          /\ call' = [call EXCEPT ![c] = [at |-> l, op |-> op, form |-> f, row |-> r]]
          /\ UNCHANGED <<rows, pend, author, used>>
          /\ \/ /\ l = "create" /\ r = made + 1 /\ made < MaxRow
                /\ blind' \in {blind, blind \cup {r}} /\ (blind' = blind => rows = {})
             \/ l # "create"
    BY <1>1, EntersShape
  <2>2. pend'[c].ins = {}
    BY <2>1 DEF CallInv, NoWrites
  <2>3. l = "create" /\ call'[c].row = made + 1
    BY <2>1, <2>2 DEF Fresh
  <2>4. made + 1 \in Row \ (rows \cup used)
    BY <2>1, <2>3 DEF Row
  <2>5. \A d \in Caller \ {c} : call'[d].row # made + 1
    BY <2>1 DEF Calls
  <2>6. QED
    BY <2>1, <2>3, <2>4, <2>5
<1>2. CASE Insert(c)
  <2>1. /\ call[c].row \in Row \ (rows \cup used)
        /\ \A d \in Caller \ {c} : call[d].row # call[c].row
        /\ call[c].row \notin blind => \A r \in rows \ blind : author[r] # c
    BY <1>2 DEF Insert, FreshInv, Fresh
  <2>2. call'[c].row = call[c].row /\ call'[c].at = "end" /\ UNCHANGED <<used, blind>>
    BY <1>2 DEF Insert, Go
  <2>3. rows' = rows
    BY <1>2, <2>2 DEF Insert, Fresh, CallInv, NoWrites
  <2>4. \A r \in rows : author'[r] = author[r]
    BY <1>2, <2>1 DEF Insert
  <2>5. QED
    BY <2>1, <2>2, <2>3, <2>4, Others
<1>3. CASE UpdateAccount(c) \/ Delete(c) \/ Ends(c)
  BY <1>3 DEF UpdateAccount, Delete, Ends, End, Fail, Go, Fresh, CallInv, Idle, NoWrites, Calls
<1>4. QED
  BY <1>1, <1>2, <1>3 DEF Works

LEMMA StepRows ==
  ASSUME VInv, NEW c \in Caller, Enters(c) \/ Works(c) \/ Ends(c)
  PROVE  FreshInv' /\ OneRowPerCaller' /\ UsedAreGone'
<1>0. /\ TypeOK /\ CallInv /\ FreshInv /\ OneRowPerCaller /\ UsedAreGone
      /\ rows \subseteq Row /\ 0 \notin Row /\ made \in Nat
  BY VerificationAssumption DEF VInv, TypeOK, Row
<1>1. \A r \in rows : author'[r] = author[r]
  BY <1>0, RowStep DEF FreshInv
<1>2. \A r \in rows' : r \in blind => r \in blind'
  BY RowStep
<1>3. ASSUME NEW d \in Caller, d # c, Fresh(d)
      PROVE  /\ call[d].row \in Row \ (rows' \cup used')
             /\ call'[c].row # call[d].row
             /\ call[d].row \in blind' => call[d].row \in blind
  <2>1. /\ call[d].row \in Row \ (rows \cup used) /\ call[c].row # call[d].row
        /\ call[d].row # 0 /\ call[d].row # made + 1
    <3>1. call[d].row \in 0..made
      BY <1>0 DEF TypeOK, Calls
    <3>2. QED
      BY <1>0, <1>3, <3>1 DEF FreshInv
  <2>2. QED
    BY <2>1, RowStep
<1>4. FreshInv'
  <2> SUFFICES ASSUME NEW d \in Caller, Fresh(d)'
               PROVE  (/\ call[d].row \in Row \ (rows \cup used)
                       /\ \A e \in Caller \ {d} : call[e].row # call[d].row
                       /\ call[d].row \notin blind => \A r \in rows \ blind : author[r] # d)'
    BY DEF FreshInv
  <2>1. CASE d = c
    BY <2>1, StepFresh
  <2>2. CASE d # c
    <3>1. call'[d] = call[d] /\ pend'[d] = pend[d] /\ Fresh(d)
      BY <1>0, <2>2, Others DEF Fresh, At
    <3>2. \A e \in Caller \ {d} : call'[e].row # call[d].row
      BY <1>0, <1>3, <2>2, <3>1, Others DEF FreshInv
    <3>3. ASSUME call[d].row \notin blind', NEW r \in rows' \ blind' PROVE author'[r] # d
      <4>1. CASE r \in rows
        BY <1>0, <1>1, <1>2, <2>2, <3>1, <3>3, <4>1, RowStep DEF FreshInv
      <4>2. CASE r \notin rows
        BY <2>2, <3>3, <4>2, RowStep
      <4>3. QED
        BY <4>1, <4>2
    <3>4. QED
      BY <1>3, <2>2, <3>1, <3>2, <3>3
  <2>3. QED
    BY <2>1, <2>2
<1>5. OneRowPerCaller'
  <2> SUFFICES ASSUME NEW r \in rows' \ blind', NEW u \in rows' \ blind',
                      author'[r] = author'[u]
               PROVE  r = u
    BY DEF OneRowPerCaller
  <2>1. ASSUME NEW v \in rows' \ blind', NEW w \in rows' \ blind', v \notin rows, w \in rows
        PROVE  author'[v] # author'[w]
    <3>1. Fresh(c) /\ v = call[c].row /\ author'[v] = c
      BY <2>1, RowStep
    <3>2. v \notin blind /\ w \notin blind
      BY <1>2, <2>1
    <3>3. author[w] # c
      BY <1>0, <2>1, <3>1, <3>2 DEF FreshInv
    <3>4. QED
      BY <1>1, <2>1, <3>1, <3>3
  <2>2. CASE r \in rows /\ u \in rows
    BY <1>0, <1>1, <1>2, <2>2 DEF OneRowPerCaller
  <2>3. CASE r \notin rows /\ u \notin rows
    BY <2>3, RowStep
  <2>4. QED
    BY <2>1, <2>2, <2>3
<1>6. UsedAreGone'
  BY <1>0, RowStep DEF UsedAreGone, FreshInv
<1>7. QED
  BY <1>4, <1>5, <1>6

\* A step keeps what the label of a call says of its row and its writes.
LEMMA NextCallInv ==
  ASSUME VInv, NEW c \in Caller, Enters(c) \/ Works(c) \/ Ends(c)
  PROVE  CallInv'
<1>0. TypeOK /\ CallInv /\ FreshInv /\ 0 \notin Row /\ pend[c].ins \subseteq Row
  BY VerificationAssumption DEF VInv, TypeOK, Row
<1> DEFINE Good(d) ==
      /\ ~InTx(d) \/ ~At(d, "end") => pend[d] = NoWrites
      /\ At(d, "create") => call[d].op = "make"
      /\ call[d].at \in {"account", "delete"} => call[d].op = "verify"
      /\ pend[d].ins # {} => /\ call[d].op = "make" /\ pend[d].ins = {call[d].row}
                             /\ author[call[d].row] = d
      /\ call[d].op = "verify" => call[d].row # 0
      /\ call[d].op = "verify" /\ At(d, "end") /\ call[d].row \in rows =>
           call[d].row \in pend[d].del
<1>1. ASSUME NEW d \in Caller, d # c PROVE Good(d)'
  <2>1. call'[d] = call[d] /\ pend'[d] = pend[d] /\ Good(d)
    BY <1>0, <1>1, Others DEF CallInv
  <2>2. pend[d].ins # {} => author'[call[d].row] = d
    <3>1. pend[d].ins # {} => Fresh(d) /\ call[d].row \in Row /\ call[c].row # call[d].row
      BY <1>0, <1>1 DEF FreshInv, Fresh
    <3>2. QED
      BY <2>1, <3>1, RowStep
  <2>3. call[d].op = "verify" /\ call[d].row \in rows' => call[d].row \in rows
    BY <1>0, <1>1, RowStep DEF FreshInv
  <2>4. QED
    BY <2>1, <2>2, <2>3 DEF InTx, At
<1>2. Good(c)'
  <2> DEFINE w == pend[c]
  <2>1. Good(c) /\ call[c] \in Calls
    BY <1>0 DEF CallInv, TypeOK
  <2>2. CASE Enters(c)
    <3>1. PICK f \in Forms, op \in {"make", "resend", "verify"},
               l \in {"create", "update", "account"}, r \in Row :
            /\ call[c].at = "idle"
            /\ call' = [call EXCEPT ![c] = [at |-> l, op |-> op, form |-> f, row |-> r]]
            /\ UNCHANGED <<rows, pend, author, used>>
            /\ \/ op = "make" /\ l = "create"
               \/ op # "make" /\ l # "create" /\ (l = "account") = (op = "verify")
      BY <2>2, EntersShape
    <3>2. call'[c] = [at |-> l, op |-> op, form |-> f, row |-> r] /\ pend'[c] = NoWrites
      BY <1>0, <2>1, <3>1 DEF TypeOK, At
    <3>3. QED
      BY <1>0, <3>1, <3>2 DEF At, InTx, NoWrites
  <2>3. CASE Insert(c)
    <3>1. call'[c] = [call[c] EXCEPT !.at = "end"] /\ call[c].op = "make" /\ pend[c] = NoWrites
      BY <1>0, <2>1, <2>3 DEF Insert, Go, TypeOK, At
    <3>2. /\ author'[call[c].row] = c
          /\ IF InTx(c) THEN pend'[c] = [pend[c] EXCEPT !.ins = {call[c].row}] ELSE pend'[c] = NoWrites
      BY <1>0, <2>3, <3>1 DEF Insert, TypeOK, FreshInv, Fresh
    <3>3. call'[c].op = "make" /\ call'[c].at = "end" /\ call'[c].row = call[c].row
          /\ call'[c].form = call[c].form
      BY <2>1, <3>1 DEF Calls
    <3>4. pend'[c].ins \in {{}, {call[c].row}} /\ (~InTx(c) => pend'[c] = NoWrites)
      BY <3>1, <3>2 DEF NoWrites
    <3>5. QED
      BY <3>2, <3>3, <3>4 DEF At, InTx
  <2>4. CASE UpdateAccount(c)
    <3>1. call'[c] = [call[c] EXCEPT !.at = "delete"] /\ UNCHANGED <<pend, author, rows>>
      BY <1>0, <2>4 DEF UpdateAccount, Go, TypeOK
    <3>2. At(c, "account")
      BY <2>4 DEF UpdateAccount
    <3>3. call'[c].op = call[c].op /\ call'[c].at = "delete" /\ call'[c].row = call[c].row
      BY <2>1, <3>1 DEF Calls
    <3>4. QED
      BY <2>1, <3>1, <3>2, <3>3 DEF At
  <2>5. CASE Delete(c)
    <3>1. call'[c] = [call[c] EXCEPT !.at = "end"] /\ call[c].op = "verify" /\ pend[c] = NoWrites
      BY <1>0, <2>1, <2>5 DEF Delete, Go, TypeOK, At
    <3>2. call'[c].op = "verify" /\ call'[c].at = "end" /\ call'[c].row = call[c].row
          /\ call'[c].form = call[c].form /\ call[c].row # 0
      BY <2>1, <3>1 DEF Calls
    <3>3. CASE InTx(c)
      <4>1. pend'[c].ins = {} /\ pend'[c].del = Deleted(c) /\ rows' = rows
        BY <1>0, <2>5, <3>1, <3>3 DEF Delete, TypeOK, NoWrites
      <4>2. QED
        BY <3>2, <3>3, <4>1 DEF At, InTx, Deleted
    <3>4. CASE ~InTx(c)
      <4>1. pend'[c] = NoWrites /\ call[c].row \notin rows'
        BY <2>5, <3>1, <3>4 DEF Delete, Deleted
      <4>2. QED
        BY <3>2, <3>4, <4>1 DEF At, InTx, NoWrites
    <3>5. QED
      BY <3>3, <3>4
  <2>6. CASE Ends(c)
    <3>1. call'[c] = Idle /\ pend'[c] = NoWrites
      BY <1>0, <2>6 DEF Ends, End, Fail, TypeOK
    <3>2. QED
      BY <3>1 DEF Idle, NoWrites, At
  <2>7. QED
    BY <2>2, <2>3, <2>4, <2>5, <2>6 DEF Works
<1>3. \A d \in Caller : Good(d)'
  BY <1>1, <1>2
<1>4. QED
  BY <1>3 DEF CallInv

LEMMA NextVInv == VInv /\ [Next]_vars => VInv'
<1> SUFFICES ASSUME VInv, [Next]_vars PROVE VInv'
  OBVIOUS
<1>1. TypeOK'
  BY NextTypeOK
<1>2. ASSUME NEW c \in Caller, Enters(c) \/ Works(c) \/ Ends(c) PROVE VInv'
  <2>1. CallInv'
    BY <1>2, NextCallInv
  <2>2. FreshInv' /\ OneRowPerCaller' /\ UsedAreGone'
    BY <1>2, StepRows
  <2>3. QED
    BY <1>1, <2>1, <2>2 DEF VInv
<1>3. CASE UNCHANGED vars
  BY <1>1, <1>3 DEF vars, VInv, CallInv, FreshInv, Fresh, OneRowPerCaller, UsedAreGone, InTx, At
<1>4. QED
  BY <1>2, <1>3 DEF Next, Enters, Works, Ends

\* The inductive invariant, and with it every part of it, holds for any number
\* of concurrent callers of request, resend and verify.
THEOREM VerificationInvariance == Spec => []VInv
<1>1. QED
  BY InitVInv, NextVInv, PTL DEF Spec

\* The types of the rows, calls and pending writes of pkg/verification.
THEOREM VerificationTypeOK == Spec => []TypeOK
<1>1. VInv => TypeOK
  BY DEF VInv
<1>2. QED
  BY <1>1, VerificationInvariance, PTL

\* Apart from what request inserts after a failed read, no caller of resend
\* makes two rows of the account.
THEOREM VerificationOneRowPerCaller == Spec => []OneRowPerCaller
<1>1. VInv => OneRowPerCaller
  BY DEF VInv
<1>2. QED
  BY <1>1, VerificationInvariance, PTL

\* A code that verified the address is deleted for good.
THEOREM VerificationUsedAreGone == Spec => []UsedAreGone
<1>1. VInv => UsedAreGone
  BY DEF VInv
<1>2. QED
  BY <1>1, VerificationInvariance, PTL

-----------------------------------------------------------------------------
(* Refinement: the rows implement TicketStore *)

\* The rows that the store does not know of yet.
New == {r \in Row : r > made \/ \E c \in Caller : Fresh(c) /\ call[c].row = r}

\* The status of a row is told by where it is.
StatusIs(r) ==
  /\ Status(r) = "stored" <=> r \in rows
  /\ Status(r) = "new" <=> r \in New
  /\ Status(r) = "gone" <=> r \notin rows \cup New

StatusInv ==
  /\ New \cap rows = {} /\ rows \subseteq Row
  /\ \A r \in Row : StatusIs(r)

LEMMA StatusOf == VInv => StatusInv
<1> SUFFICES ASSUME VInv PROVE StatusInv
  OBVIOUS
<1>1. \A r \in rows : r \in Row /\ ~(r > made)
  BY VerificationAssumption DEF VInv, TypeOK, Row
<1>2. \A c \in Caller : Fresh(c) => call[c].row \notin rows
  BY DEF VInv, FreshInv
<1>3. New \cap rows = {}
  BY <1>1, <1>2 DEF New
<1>4. QED
  BY <1>1, <1>3 DEF StatusInv, StatusIs, Status, New

\* A call makes a fresh row, keeps it, inserts it or gives it up.
LEMMA FreshStep ==
  ASSUME VInv, NEW c \in Caller, Enters(c) \/ Works(c) \/ Ends(c)
  PROVE  \/ ~Fresh(c) /\ ~Fresh(c)' /\ made' = made
         \/ Fresh(c) /\ Fresh(c)' /\ made' = made /\ call'[c].row = call[c].row
         \/ ~Fresh(c) /\ Fresh(c)' /\ made' = made + 1 /\ call'[c].row = made + 1
         \/ Fresh(c) /\ ~Fresh(c)' /\ made' = made /\ call[c].row \in rows'
         \/ Fresh(c) /\ ~Fresh(c)' /\ made' = made /\ Fail(c)
<1> USE DEF VInv, TypeOK, Calls, At, Fresh
<1>1. CASE Enters(c)
  <2>1. PICK f \in Forms, op \in {"make", "resend", "verify"},
             l \in {"create", "update", "account"}, r \in Row :
          /\ call[c].at = "idle"
          /\ call' = [call EXCEPT ![c] = [at |-> l, op |-> op, form |-> f, row |-> r]]
          /\ pend' = pend
          /\ \/ l = "create" /\ r = made + 1 /\ made' = made + 1
             \/ l # "create" /\ made' = made
    BY <1>1, EntersShape
  <2>2. pend[c].ins = {} /\ pend'[c].ins = {}
    BY <2>1 DEF CallInv, NoWrites
  <2>3. QED
    BY <2>1, <2>2
<1>2. CASE Insert(c)
  <2>1. /\ Fresh(c) /\ made' = made /\ call'[c].row = call[c].row /\ call'[c].at = "end"
        /\ pend[c].ins = {}
    BY <1>2 DEF Insert, Go, CallInv, NoWrites
  <2>2. InTx(c) => pend'[c].ins = {call[c].row}
    BY <1>2 DEF Insert
  <2>3. ~InTx(c) => pend'[c].ins = {} /\ call[c].row \in rows'
    BY <1>2, <2>1 DEF Insert
  <2>4. QED
    BY <2>1, <2>2, <2>3
<1>3. CASE UpdateAccount(c) \/ Delete(c)
  <2>1. /\ call[c].at \in {"account", "delete"} /\ call'[c].at \in {"delete", "end"}
        /\ made' = made
    BY <1>3 DEF UpdateAccount, Delete, Go
  <2>2. pend'[c].ins = pend[c].ins /\ pend[c].ins = {}
    BY <1>3, <2>1 DEF UpdateAccount, Delete, CallInv, NoWrites
  <2>3. QED
    BY <2>1, <2>2
<1>4. CASE Ends(c)
  <2>1. call'[c] = Idle /\ pend'[c] = NoWrites /\ made' = made
    BY <1>4 DEF Ends, End, Fail
  <2>2. ~Fresh(c)'
    BY <2>1 DEF Idle, NoWrites
  <2>3. End(c) /\ Fresh(c) => call[c].row \in rows'
    BY DEF End, CallInv
  <2>4. QED
    BY <1>4, <2>1, <2>2, <2>3 DEF Ends
<1>5. QED
  BY <1>1, <1>2, <1>3, <1>4 DEF Works

\* The store gets to know of a row only by the end of its being fresh.
LEMMA NewStep ==
  ASSUME VInv, NEW c \in Caller, Enters(c) \/ Works(c) \/ Ends(c)
  PROVE  New' = IF Fresh(c) /\ ~Fresh(c)' THEN New \ {call[c].row} ELSE New
<1> DEFINE Mine(r) == Fresh(c) /\ call[c].row = r
           OtherMine(r) == \E d \in Caller \ {c} : Fresh(d) /\ call[d].row = r
<1>0. FreshInv /\ made \in Nat /\ call[c].row \in 0..made
  BY VerificationAssumption DEF VInv, TypeOK, Calls
<1>1. \A r : OtherMine(r)' <=> OtherMine(r)
  <2>1. \A d \in Caller \ {c} : (Fresh(d)' <=> Fresh(d)) /\ call'[d].row = call[d].row
    BY Others DEF Fresh, At
  <2>2. QED
    BY <2>1
<1>2. /\ New = {r \in Row : r > made \/ Mine(r) \/ OtherMine(r)}
      /\ New' = {r \in Row : r > made' \/ Mine(r)' \/ OtherMine(r)'}
  BY DEF New
<1>3. CASE ~Fresh(c) /\ ~Fresh(c)' /\ made' = made
  <2>1. \A r : ~Mine(r) /\ ~Mine(r)'
    BY <1>3
  <2> HIDE DEF Mine, OtherMine
  <2>2. QED
    BY <1>1, <1>2, <1>3, <2>1
<1>4. CASE Fresh(c) /\ Fresh(c)' /\ made' = made /\ call'[c].row = call[c].row
  <2>1. \A r : Mine(r)' <=> Mine(r)
    BY <1>4
  <2> HIDE DEF Mine, OtherMine
  <2>2. QED
    BY <1>1, <1>2, <1>4, <2>1
<1>5. CASE ~Fresh(c) /\ Fresh(c)' /\ made' = made + 1 /\ call'[c].row = made + 1
  <2>1. \A r : ~Mine(r) /\ (Mine(r)' <=> r = made + 1)
    BY <1>5
  <2>2. \A r \in Row : r > made + 1 \/ r = made + 1 <=> r > made
    BY <1>0, VerificationAssumption DEF Row
  <2> HIDE DEF Mine, OtherMine
  <2>3. QED
    BY <1>1, <1>2, <1>5, <2>1, <2>2
<1>6. CASE Fresh(c) /\ ~Fresh(c)' /\ made' = made
  <2>1. \A r : ~Mine(r)' /\ (Mine(r) <=> r = call[c].row)
    BY <1>6
  <2>2. ~(call[c].row > made) /\ ~OtherMine(call[c].row)
    BY <1>0, <1>6 DEF FreshInv
  <2> HIDE DEF Mine, OtherMine
  <2>3. QED
    BY <1>1, <1>2, <1>6, <2>1, <2>2
<1>7. QED
  BY FreshStep, <1>3, <1>4, <1>5, <1>6

\* A step that moves rows forward, and uses those that it may, is a commit.
LEMMA IsCommit ==
  ASSUME \A r \in Row : \/ Status(r)' = Status(r)
                        \/ Status(r) = "new" /\ Status(r)' = "stored"
                        \/ Status(r) = "stored" /\ Status(r)' = "gone",
         used \subseteq used',
         \A r \in used' \ used : r \in Row /\ Status(r) # "new" /\ Status(r)' = "gone"
  PROVE  Store!Commit
<1> DEFINE I == {r \in Row : Status(r) = "new" /\ Status(r)' = "stored"}
           D == {r \in Row : Status(r) = "stored" /\ Status(r)' = "gone"}
<1>1. I \in SUBSET Store!In("new") /\ D \in SUBSET Store!In("stored")
  BY DEF Store!In
<1>2. Store!Replace(I, D)
  BY DEF Store!Replace
<1>3. used' \ used \in SUBSET Store!Spendable
  BY DEF Store!Spendable
<1>4. used' = used \cup (used' \ used)
  OBVIOUS
<1>5. ASSUME NEW A PROVE \E M \in SUBSET A : {} = {} \cup M
  <2>1. {} \in SUBSET A /\ {} = {} \cup {}
    OBVIOUS
  <2>2. QED
    BY <2>1
<1> HIDE DEF I, D
<1>6. QED
  BY <1>1, <1>2, <1>3, <1>4, <1>5 DEF Store!Commit

\* A step of a call is a commit or gives up a row.
LEMMA StepStore ==
  ASSUME VInv, VInv', NEW c \in Caller, Enters(c) \/ Works(c) \/ Ends(c)
  PROVE  Store!Next
<1>0. TypeOK /\ CallInv /\ FreshInv /\ StatusInv
  BY StatusOf DEF VInv
<1>1. StatusInv'
  BY StatusOf, PTL
<1>2. /\ used \subseteq used'
      /\ \A r \in used' \ used : r \in Row /\ Status(r) # "new" /\ Status(r)' = "gone"
  <2>1. CASE used' = used
    BY <2>1
  <2>2. CASE /\ call[c].op = "verify" /\ used' = used \cup {call[c].row}
             /\ call[c].row \notin rows'
    <3>1. call[c].row \in Row /\ ~(call[c].row > made)
      BY <1>0, <2>2, VerificationAssumption DEF CallInv, TypeOK, Calls, Row
    <3>2. ASSUME NEW d \in Caller, Fresh(d) PROVE call[d].row # call[c].row
      <4>1. d # c
        BY <1>0, <2>2, <3>2 DEF CallInv, Fresh, At
      <4>2. QED
        BY <1>0, <3>2, <4>1 DEF FreshInv
    <3>3. call[c].row \notin New
      BY <3>1, <3>2 DEF New
    <3>4. call[c].row \notin New'
      BY <3>3, NewStep
    <3>5. QED
      BY <1>0, <1>1, <2>2, <3>1, <3>3, <3>4 DEF StatusInv, StatusIs
  <2>3. QED
    BY <2>1, <2>2, RowStep
<1>3. CASE ~(Fresh(c) /\ ~Fresh(c)')
  <2>1. New' = New
    BY <1>3, NewStep
  <2>2. rows' \subseteq rows
    <3>1. ASSUME Fresh(c) PROVE call[c].row \notin rows'
      <4>1. Fresh(c)' /\ call'[c].row = call[c].row
        BY <1>3, <3>1, FreshStep
      <4>2. QED
        BY <4>1, StepFresh
    <3>2. QED
      BY <3>1, RowStep
  <2>3. \A r \in Row : \/ Status(r)' = Status(r)
                       \/ Status(r) = "stored" /\ Status(r)' = "gone"
    BY <1>0, <1>1, <2>1, <2>2 DEF StatusInv, StatusIs
  <2>4. Store!Commit
    BY <1>2, <2>3, IsCommit
  <2>5. QED
    BY <2>4 DEF Store!Next
<1>4. ASSUME Fresh(c), ~Fresh(c)'
      PROVE  New' = New \ {call[c].row} /\ call[c].row \in New /\ call[c].row \in Row
  BY <1>0, <1>4, NewStep DEF FreshInv, New
<1>5. CASE Fresh(c) /\ ~Fresh(c)' /\ call[c].row \in rows'
  <2>1. \A r \in rows' : r \in rows \/ r = call[c].row
    BY RowStep
  <2>2. \A r \in Row : \/ Status(r)' = Status(r)
                       \/ Status(r) = "new" /\ Status(r)' = "stored"
                       \/ Status(r) = "stored" /\ Status(r)' = "gone"
    BY <1>0, <1>1, <1>4, <1>5, <2>1 DEF StatusInv, StatusIs
  <2>3. Store!Commit
    BY <1>2, <2>2, IsCommit
  <2>4. QED
    BY <2>3 DEF Store!Next
<1>6. CASE Fresh(c) /\ ~Fresh(c)' /\ Fail(c)
  <2>1. UNCHANGED <<rows, used>>
    BY <1>6 DEF Fail
  <2>2. \A r \in Row : Status(r)' = IF r = call[c].row THEN "gone" ELSE Status(r)
    BY <1>0, <1>1, <1>4, <1>6, <2>1 DEF StatusInv, StatusIs
  <2>3. call[c].row \in Store!In("new")
    BY <1>0, <1>4, <1>6 DEF Store!In, StatusInv, StatusIs
  <2>4. Store!GiveUp
    BY <2>1, <2>2, <2>3 DEF Store!GiveUp
  <2>5. QED
    BY <2>4 DEF Store!Next
<1>7. QED
  BY <1>3, <1>5, <1>6, FreshStep

LEMMA InitStore == Init => Store!Init
<1> SUFFICES ASSUME Init PROVE Store!Init
  OBVIOUS
<1>1. \A r \in Row : r > made /\ r \notin rows
  BY VerificationAssumption DEF Init, Row
<1>2. \A r \in Row : Status(r) = "new"
  BY <1>1 DEF Status
<1>3. QED
  BY <1>2 DEF Init, Store!Init

LEMMA NextStore == VInv /\ [Next]_vars => [Store!Next]_(Store!vars)
<1> SUFFICES ASSUME VInv, [Next]_vars PROVE [Store!Next]_(Store!vars)
  OBVIOUS
<1>1. ASSUME NEW c \in Caller, Enters(c) \/ Works(c) \/ Ends(c) PROVE Store!Next
  <2>1. VInv'
    BY NextVInv
  <2>2. QED
    BY <1>1, <2>1, StepStore
<1>2. CASE UNCHANGED vars
  <2>1. \A r \in Row : Status(r)' = Status(r)
    BY <1>2 DEF vars, Status, Fresh, At
  <2>2. QED
    BY <1>2, <2>1 DEF vars, Store!vars
<1>3. QED
  BY <1>1, <1>2 DEF Next, Enters, Works, Ends

\* What others see of the requests, resends and verifications in progress is a
\* sequence of commits in which no code comes back, and none verifies an
\* address that was never there or stays.
THEOREM VerificationRefinement == Spec => StoreSpec
<1>1. Init => Store!Init
  BY InitStore
<1>2. VInv /\ [Next]_vars => [Store!Next]_(Store!vars)
  BY NextStore
<1>3. QED
  BY <1>1, <1>2, VerificationInvariance, PTL DEF Spec, StoreSpec, Store!Spec
=============================================================================
