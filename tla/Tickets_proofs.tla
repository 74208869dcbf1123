--------------------------- MODULE Tickets_proofs ---------------------------
(***************************************************************************)
(* Proofs about Tickets for any number of callers, sessions and tickets,   *)
(* and any choice of forms; then about PasswordReset and EmailChange,      *)
(* which do nothing to the tickets but what TicketNext allows.             *)
(***************************************************************************)
EXTENDS PasswordReset, EmailChange, TLAPS

\* Nothing but a new ticket changes the range of the ticket numbers.
LEMMA MadeGrows ==
  ASSUME TypeOK, made' \in {made, made + 1}
  PROVE  /\ 1..made \subseteq 1..made' /\ 0..made \subseteq 0..made'
         /\ \A w \in Writes : w \in Writes'
         /\ \A r \in Calls : r \in Calls'
  BY TicketsAssumption DEF TypeOK, Writes, Calls, Ticket

\* What statements do to the stored state.
LEMMA ApplyType ==
  ASSUME TypeOK, NEW w \in Writes, Apply(w)
  PROVE  /\ tickets' \subseteq 1..made /\ marked' \subseteq 1..made
         /\ session' \in [Session -> {"new", "live", "revoked"}]
  BY DEF TypeOK, Apply, Writes

LEMMA WriteType ==
  ASSUME TypeOK, NEW c \in Caller, NEW b \in BOOLEAN, NEW w \in Writes, Write(c, b, w)
  PROVE  /\ tickets' \subseteq 1..made /\ marked' \subseteq 1..made
         /\ session' \in [Session -> {"new", "live", "revoked"}]
         /\ pend' \in [Caller -> Writes]
<1>1. CASE b
  <2>1. pend[c] \in Writes
    BY DEF TypeOK
  <2>2. [del |-> pend[c].del \cup w.del, upd |-> pend[c].upd \cup w.upd,
         ins |-> pend[c].ins \cup w.ins, close |-> pend[c].close \cup w.close] \in Writes
    BY <2>1 DEF Writes
  <2>3. QED
    BY <1>1, <2>2 DEF TypeOK, Write, store
<1>2. CASE ~b
  BY <1>2, ApplyType DEF TypeOK, Write
<1>3. QED
  BY <1>1, <1>2

LEMMA OweType ==
  ASSUME TypeOK, NEW c \in Caller, Owe(c)
  PROVE  owed' \in [Ticket -> SUBSET Session]
  BY DEF TypeOK, Owe, Calls

LEMMA InitTInv == Init => TInv
<1> SUFFICES ASSUME Init PROVE TInv
  OBVIOUS
<1> USE TicketsAssumption DEF Init, Idle, Started, NoWrites
<1>1. TypeOK
  BY DEF TypeOK, Ticket, Writes, Calls, Label, Op
<1>2. CallInv /\ FreshInv /\ SpentInv
  BY DEF CallInv, CallOK, FreshInv, SpentInv, Fresh, At, InTx
<1>3. Closing /\ OwedInv /\ FormInv
  BY DEF Closing, OwedInv, FormInv, At
<1>4. OneTicketPerCaller /\ SpentAreGone
  BY DEF OneTicketPerCaller, SpentAreGone
<1>5. QED
  BY <1>1, <1>2, <1>3, <1>4 DEF TInv

LEMMA NextTypeOK == TInv /\ [TicketNext]_tvars => TypeOK'
<1> SUFFICES ASSUME TInv, [TicketNext]_tvars PROVE TypeOK'
  OBVIOUS
<1> USE TicketsAssumption
<1>0. TypeOK
  BY DEF TInv
<1>a. Idle \in Calls /\ NoWrites \in Writes
  BY <1>0 DEF TypeOK, Calls, Writes, Idle, Started, NoWrites, Label, Op
<1>1. ASSUME NEW c \in Caller, NEW f \in Forms, RequestFind(c, f) PROVE TypeOK'
  <2>1. made' \in {made, made + 1} /\ made' \in 0..MaxTicket
    BY <1>0, <1>1 DEF RequestFind, TypeOK, AfterExpired, MakeFirst
  <2>2. PICK r \in Calls' : call' = [call EXCEPT ![c] = r]
    <3>1. Started("request", "create", f, made', {}) \in Calls'
      BY <1>0, <2>1, MadeGrows DEF Started, Calls, Label, Op, TypeOK
    <3>2. Started("request", "delete", f, 0, {}) \in Calls'
      <4>1. 0 \in 0..made' /\ f \in {"direct", "tx", "mixed"}
        BY <2>1
      <4>2. QED
        BY <4>1 DEF Started, Calls, Label, Op
    <3>3. \/ /\ made' = made + 1
             /\ call' = [call EXCEPT ![c] = Started("request", "create", f, made + 1, {})]
          \/ call' = [call EXCEPT ![c] = Started("request", "delete", f, 0, {})]
      BY <1>1 DEF RequestFind, AfterExpired, MakeFirst
    <3>4. CASE made' = made + 1
               /\ call' = [call EXCEPT ![c] = Started("request", "create", f, made + 1, {})]
      <4>1. call' = [call EXCEPT ![c] = Started("request", "create", f, made', {})]
        BY <3>4
      <4>2. QED
        BY <3>1, <4>1
    <3>5. CASE call' = [call EXCEPT ![c] = Started("request", "delete", f, 0, {})]
      BY <3>2, <3>5
    <3>6. QED
      BY <3>3, <3>4, <3>5
  <2>3. UNCHANGED <<store, expired, pend, history>>
    BY <1>1 DEF RequestFind
  <2>4. QED
    BY <1>0, <2>1, <2>2, <2>3, MadeGrows DEF TypeOK, store, history
<1>2. ASSUME NEW c \in Caller, NEW f \in Forms, NEW op \in Op, NEW l \in Label,
             NEW t \in 0..made, NEW S \in SUBSET Session, Begin(c, f, op, l, t, S)
      PROVE  TypeOK'
  <2>1. Started(op, l, f, t, S) \in Calls
    BY <1>0 DEF Started, Calls, TypeOK
  <2>2. call' \in [Caller -> Calls]
    BY <1>0, <1>2, <2>1 DEF Begin, TypeOK
  <2>3. UNCHANGED <<made, store, expired, pend, history>>
    BY <1>2 DEF Begin
  <2>4. QED
    BY <1>0, <2>2, <2>3 DEF TypeOK, store, history, Calls, Writes
<1>3. ASSUME NEW c \in Caller, StartDelete(c) PROVE TypeOK'
  <2>1. [call[c] EXCEPT !.at = "deleting", !.seen = Matched] \in Calls
    <3>1. call[c] \in Calls /\ tickets \subseteq 1..made
      BY <1>0 DEF TypeOK
    <3>2. QED
      BY <3>1 DEF Calls, Label, Matched
  <2>2. call' = [call EXCEPT ![c] = [call[c] EXCEPT !.at = "deleting", !.seen = Matched]]
    BY <1>3, <1>0 DEF StartDelete, TypeOK, Calls
  <2>3. UNCHANGED <<made, store, expired, pend, history>>
    BY <1>3 DEF StartDelete
  <2>4. QED
    BY <1>0, <2>1, <2>2, <2>3 DEF TypeOK, store, history, Calls, Writes
<1>4. ASSUME NEW c \in Caller, EndDelete(c) PROVE TypeOK'
  <2>1. made' \in {made, made + 1} /\ made' \in 0..MaxTicket
    BY <1>0, <1>4 DEF EndDelete, TypeOK
  <2>2. call[c] \in Calls
    BY <1>0 DEF TypeOK
  <2>3. [NoWrites EXCEPT !.del = call[c].seen \cap tickets] \in Writes
    BY <2>2 DEF NoWrites, Writes, Calls
  <2>4. /\ tickets' \subseteq 1..made /\ marked' \subseteq 1..made
        /\ session' \in [Session -> {"new", "live", "revoked"}]
        /\ pend' \in [Caller -> Writes]
    BY <1>0, <1>4, <2>3, WriteType DEF EndDelete, InTx
  <2>5. call'[c] \in Calls' /\ call' = [call EXCEPT ![c] = call'[c]]
    <3>1. call \in [Caller -> Calls] /\ made \in Nat
      BY <1>0 DEF TypeOK
    <3>2. CASE /\ made' = made + 1
               /\ call' = [call EXCEPT ![c].at = "create", ![c].seen = {}, ![c].mine = made + 1]
      <4>1. call'[c] = [call[c] EXCEPT !.at = "create", !.seen = {}, !.mine = made + 1]
        BY <3>1, <3>2
      <4>2. made + 1 \in 0..made' /\ call[c] \in Calls'
        BY <2>1, <2>2, <3>1, <3>2, <1>0, MadeGrows
      <4>3. call'[c] \in Calls'
        BY <4>1, <4>2 DEF Calls, Label
      <4>4. QED
        BY <3>1, <3>2, <4>1, <4>3
    <3>3. CASE /\ made' = made
               /\ \/ call' = [call EXCEPT ![c].at = "list", ![c].seen = {}]
                  \/ call' = [call EXCEPT ![c].at = "end", ![c].seen = {}]
      BY <2>2, <3>1, <3>3 DEF Calls, Label
    <3>4. QED
      BY <1>4, <3>2, <3>3 DEF EndDelete
  <2>6. owed' \in [Ticket -> SUBSET Session]
    BY <1>0, <1>4, OweType DEF EndDelete, TypeOK
  <2>7. UNCHANGED <<expired, author, spent, broken>>
    BY <1>4 DEF EndDelete
  <2>8. call' \in [Caller -> Calls'] /\ pend' \in [Caller -> Writes']
    BY <1>0, <2>1, <2>4, <2>5, MadeGrows DEF TypeOK
  <2>9. QED
    BY <1>0, <2>1, <2>4, <2>6, <2>7, <2>8, MadeGrows DEF TypeOK
<1>5. ASSUME NEW c \in Caller, FreshInv, Insert(c) PROVE TypeOK'
  <2>1. call[c] \in Calls /\ call[c].mine \in Ticket /\ call[c].mine \in 1..made
    BY <1>0, <1>5 DEF TypeOK, FreshInv, Fresh, Insert, Ticket, Calls
  <2>2. [NoWrites EXCEPT !.ins = {call[c].mine}] \in Writes
    BY <2>1 DEF NoWrites, Writes
  <2>3. /\ tickets' \subseteq 1..made /\ marked' \subseteq 1..made
        /\ session' \in [Session -> {"new", "live", "revoked"}]
        /\ pend' \in [Caller -> Writes]
    BY <1>0, <1>5, <2>2, WriteType DEF Insert, InTx
  <2>4. call'[c] \in Calls /\ call' = [call EXCEPT ![c] = call'[c]]
    BY <1>0, <1>5, <2>1 DEF Insert, TypeOK, Calls, Label
  <2>5. author' \in [Ticket -> Caller \cup {"nobody"}]
    BY <1>0, <1>5, <2>1 DEF Insert, TypeOK
  <2>6. UNCHANGED <<made, expired, spent, owed, broken>>
    BY <1>5 DEF Insert
  <2>7. QED
    BY <1>0, <2>3, <2>4, <2>5, <2>6 DEF TypeOK, Calls, Writes
<1>6. ASSUME NEW c \in Caller, Mark(c) PROVE TypeOK'
  <2>1. call[c] \in Calls
    BY <1>0 DEF TypeOK
  <2>2. [NoWrites EXCEPT !.upd = Updated(c)] \in Writes
    BY <1>0 DEF NoWrites, Writes, Updated, TypeOK
  <2>3. /\ tickets' \subseteq 1..made /\ marked' \subseteq 1..made
        /\ session' \in [Session -> {"new", "live", "revoked"}]
        /\ pend' \in [Caller -> Writes]
    BY <1>0, <1>6, <2>2, WriteType DEF Mark, InTx
  <2>4. call'[c] \in Calls /\ call' = [call EXCEPT ![c] = call'[c]]
    BY <1>0, <1>6, <2>1 DEF Mark, TypeOK, Calls, Label
  <2>5. owed' \in [Ticket -> SUBSET Session]
    BY <1>0, <1>6, OweType DEF Mark, TypeOK
  <2>6. UNCHANGED <<made, expired, author, spent, broken>>
    BY <1>6 DEF Mark
  <2>7. QED
    BY <1>0, <2>3, <2>4, <2>5, <2>6 DEF TypeOK, Calls, Writes
<1>7. ASSUME NEW c \in Caller, RevokeList(c) PROVE TypeOK'
  <2>0. PICK S, lost :
          /\ S \in SUBSET Session
          /\ call' = [call EXCEPT ![c].at = "revoke", ![c].listed = S,
                                 ![c].before = call[c].before \ lost]
          /\ owed' = IF Committed(c)
                     THEN [owed EXCEPT ![call[c].mine] = owed[call[c].mine] \ lost]
                     ELSE owed
    <3>1. PICK rows, lost :
            /\ rows \in Listable
            /\ call' = [call EXCEPT ![c].at = "revoke", ![c].listed = rows \ lost,
                                   ![c].before = call[c].before \ lost]
            /\ owed' = IF Committed(c)
                       THEN [owed EXCEPT ![call[c].mine] = owed[call[c].mine] \ lost]
                       ELSE owed
      BY <1>7 DEF RevokeList
    <3>2. rows \ lost \in SUBSET Session
      BY <3>1 DEF Listable, Live
    <3>3. QED
      BY <3>1, <3>2
  <2>a. call[c] \in Calls
    BY <1>0 DEF TypeOK
  <2>1. call'[c] \in Calls /\ call' = [call EXCEPT ![c] = call'[c]]
    BY <1>0, <2>0, <2>a DEF TypeOK, Calls, Label
  <2>2. UNCHANGED <<made, store, expired, pend, author, spent, broken>>
    BY <1>7 DEF RevokeList
  <2>3. owed' \in [Ticket -> SUBSET Session]
    BY <1>0, <2>0 DEF TypeOK
  <2>4. QED
    BY <1>0, <2>1, <2>2, <2>3 DEF TypeOK, store, Calls, Writes
<1>8. ASSUME NEW c \in Caller, RevokeListed(c) PROVE TypeOK'
  <2>1. call[c] \in Calls
    BY <1>0 DEF TypeOK
  <2>2. [NoWrites EXCEPT !.close = call[c].listed] \in Writes
    BY <2>1 DEF NoWrites, Writes, Calls
  <2>3. /\ tickets' \subseteq 1..made /\ marked' \subseteq 1..made
        /\ session' \in [Session -> {"new", "live", "revoked"}]
        /\ pend' \in [Caller -> Writes]
    BY <1>0, <1>8, <2>2, WriteType DEF RevokeListed
  <2>4. call'[c] \in Calls /\ call' = [call EXCEPT ![c] = call'[c]]
    BY <1>0, <1>8, <2>1 DEF RevokeListed, TypeOK, Calls, Label
  <2>5. UNCHANGED <<made, expired, history>>
    BY <1>8 DEF RevokeListed
  <2>6. QED
    BY <1>0, <2>3, <2>4, <2>5 DEF TypeOK, history, Calls, Writes
<1>9. ASSUME NEW c \in Caller, CallInv, End(c) PROVE TypeOK'
  <2>1. call[c] \in Calls /\ pend[c] \in Writes
    BY <1>0 DEF TypeOK
  <2>2. /\ tickets' \subseteq 1..made /\ marked' \subseteq 1..made
        /\ session' \in [Session -> {"new", "live", "revoked"}]
    BY <1>0, <1>9, <2>1, ApplyType DEF End
  <2>3. call' \in [Caller -> Calls] /\ pend' \in [Caller -> Writes]
    BY <1>0, <1>9, <1>a DEF End, TypeOK
  <2>4. owed' \in [Ticket -> SUBSET Session]
    BY <1>0, <1>9, OweType DEF End, TypeOK
  <2>5. spent' \subseteq 1..made
    <3>1. call[c].op = "spend" => call[c].mine \in 1..made
      BY <1>0, <1>9, <2>1 DEF CallInv, CallOK, Calls, TypeOK
    <3>2. QED
      BY <1>0, <1>9, <3>1 DEF End, TypeOK
  <2>6. UNCHANGED <<made, expired, author, broken>>
    BY <1>9 DEF End
  <2>7. QED
    BY <1>0, <2>2, <2>3, <2>4, <2>5, <2>6 DEF TypeOK, Calls, Writes
<1>10. ASSUME NEW c \in Caller, CallInv, Fail(c) PROVE TypeOK'
  <2>1. call[c] \in Calls
    BY <1>0 DEF TypeOK
  <2>2. /\ tickets' \subseteq 1..made /\ marked' \subseteq 1..made
        /\ session' \in [Session -> {"new", "live", "revoked"}]
    <3>1. PICK S \in SUBSET call[c].listed : Apply([NoWrites EXCEPT !.close = S])
      BY <1>10 DEF Fail
    <3>2. [NoWrites EXCEPT !.close = S] \in Writes
      BY <2>1 DEF NoWrites, Writes, Calls
    <3>3. QED
      BY <1>0, <3>1, <3>2, ApplyType
  <2>3. call' \in [Caller -> Calls] /\ pend' \in [Caller -> Writes]
    BY <1>0, <1>10, <1>a DEF Fail, TypeOK
  <2>4. broken' \subseteq 1..made
    BY <1>0, <1>10, <2>1 DEF Fail, TypeOK, CallInv, CallOK, Calls, Committed
  <2>5. UNCHANGED <<made, expired, author, spent, owed>>
    BY <1>10 DEF Fail
  <2>6. QED
    BY <1>0, <2>2, <2>3, <2>4, <2>5 DEF TypeOK, Calls, Writes
<1>11. CASE Surroundings
  <2>1. ASSUME NEW s \in Session, Login(s) PROVE TypeOK'
    BY <1>0, <2>1 DEF Login, TypeOK, history, Calls, Writes
  <2>2. ASSUME NEW t \in Ticket, Expire(t) PROVE TypeOK'
    BY <1>0, <2>2 DEF Expire, TypeOK, history, Calls, Writes, store
  <2>3. QED
    BY <1>11, <2>1, <2>2 DEF Surroundings
<1>12. CASE UNCHANGED tvars
  BY <1>0, <1>12 DEF tvars, store, history, TypeOK, Calls, Writes
<1>13. ASSUME NEW c \in Caller, NEW f \in Forms,
              \/ Change(c, f) \/ Discard(c, f)
              \/ \E t \in Ticket : Spend(c, f, t) \/ MarkFound(c, f, t)
       PROVE  TypeOK'
  <2>1. Live \in SUBSET Session /\ {} \in SUBSET Session
    BY DEF Live
  <2>2. 0 \in 0..made /\ \A t \in tickets : t \in 0..made
    BY <1>0 DEF TypeOK
  <2>3. CASE Change(c, f)
    BY <2>3, <1>2, <2>1, <2>2 DEF Change, Op, Label
  <2>4. CASE Discard(c, f)
    BY <2>4, <1>2, <2>1, <2>2 DEF Discard, Op, Label
  <2>5. ASSUME NEW t \in Ticket, Spend(c, f, t) \/ MarkFound(c, f, t) PROVE TypeOK'
    BY <2>5, <1>2, <2>1, <2>2 DEF Spend, MarkFound, Newest, Op, Label
  <2>6. QED
    BY <1>13, <2>3, <2>4, <2>5
<1>14. QED
  BY <1>1, <1>3, <1>4, <1>5, <1>6, <1>7, <1>8, <1>9, <1>10, <1>11, <1>12, <1>13
     DEF TicketNext, Work, TInv

-----------------------------------------------------------------------------
\* The first step of a call, and any step of a call.
Enters(c, f) ==
  \/ RequestFind(c, f) \/ Change(c, f) \/ Discard(c, f)
  \/ \E t \in Ticket : Spend(c, f, t) \/ MarkFound(c, f, t)

\* A step of one call leaves the others alone.
LEMMA Others ==
  ASSUME TypeOK, NEW c \in Caller, Work(c) \/ \E f \in Forms : Enters(c, f),
         NEW d \in Caller, d # c
  PROVE  call'[d] = call[d] /\ pend'[d] = pend[d]
<1>1. CASE \E f \in Forms : Enters(c, f)
  BY <1>1 DEF TypeOK, Enters, RequestFind, MakeFirst, Change, Discard, Spend, MarkFound, Begin
<1>2. CASE Work(c)
  <2>1. ASSUME NEW b, NEW w, Write(c, b, w) PROVE pend'[d] = pend[d]
    BY <2>1 DEF TypeOK, Write
  <2>2. CASE StartDelete(c) \/ RevokeList(c) \/ End(c) \/ Fail(c)
    BY <2>2 DEF TypeOK, StartDelete, RevokeList, End, Fail
  <2>3. CASE EndDelete(c)
    BY <2>1, <2>3 DEF TypeOK, EndDelete
  <2>4. CASE Insert(c) \/ Mark(c) \/ RevokeListed(c)
    BY <2>1, <2>4 DEF TypeOK, Insert, Mark, RevokeListed
  <2>5. QED
    BY <1>2, <2>2, <2>3, <2>4 DEF Work
<1>3. QED
  BY <1>1, <1>2

\* What the first step of a call makes of it.
LEMMA EnterShape ==
  ASSUME TInv, NEW c \in Caller, NEW f \in Forms, Enters(c, f)
  PROVE  /\ UNCHANGED <<store, expired, pend, history>>
         /\ pend[c] = NoWrites /\ call[c].at = "idle"
         /\ \/ /\ made < MaxTicket /\ made' = made + 1
               /\ call'[c] = Started("request", "create", f, made + 1, {})
               /\ tickets = {}
            \/ made' = made /\ call'[c] = Started("request", "delete", f, 0, {})
            \/ made' = made /\ call'[c] = Started("discard", "delete", f, 0, {})
            \/ made' = made /\ call'[c] = Started("change", "list", f, 0, Live)
            \/ \E t \in tickets :
                 /\ made' = made
                 /\ \/ call'[c] = Started("spend", "delete", f, t, Live)
                    \/ call'[c] = Started("mark", "mark", f, t, Live)
<1> USE DEF TInv, TypeOK, CallInv, CallOK, At
<1>1. CASE RequestFind(c, f)
  BY <1>1 DEF RequestFind, MakeFirst, AfterExpired
<1>2. CASE Change(c, f) \/ Discard(c, f)
  BY <1>2 DEF Change, Discard, Begin
<1>3. ASSUME NEW t \in Ticket, Spend(c, f, t) \/ MarkFound(c, f, t)
      PROVE  /\ UNCHANGED <<store, expired, pend, history>> /\ made' = made
             /\ pend[c] = NoWrites /\ call[c].at = "idle" /\ t \in tickets
             /\ \/ call'[c] = Started("spend", "delete", f, t, Live)
                \/ call'[c] = Started("mark", "mark", f, t, Live)
  BY <1>3 DEF Spend, MarkFound, Newest, Begin
<1>4. QED
  BY <1>1, <1>2, <1>3 DEF Enters

\* A call begins with a ticket that is made for it, or none is made.
LEMMA EnterFields ==
  ASSUME TInv, NEW c \in Caller, NEW f \in Forms, Enters(c, f)
  PROVE  \/ /\ call'[c].at = "create" /\ call'[c].mine = made + 1
            /\ made' = made + 1 /\ made < MaxTicket /\ tickets = {}
         \/ call'[c].at \in {"delete", "list", "mark"} /\ made' = made
<1> DEFINE Goal == \/ /\ call'[c].at = "create" /\ call'[c].mine = made + 1
                      /\ made' = made + 1 /\ made < MaxTicket /\ tickets = {}
                   \/ call'[c].at \in {"delete", "list", "mark"} /\ made' = made
<1>1. CASE /\ made < MaxTicket /\ made' = made + 1 /\ tickets = {}
           /\ call'[c] = Started("request", "create", f, made + 1, {})
  BY <1>1 DEF Started
<1>2. ASSUME NEW op, NEW label \in {"delete", "list", "mark"}, NEW t, NEW S,
             made' = made, call'[c] = Started(op, label, f, t, S)
      PROVE  Goal
  BY <1>2 DEF Started
<1>3. CASE made' = made /\ call'[c] = Started("request", "delete", f, 0, {})
  BY <1>2, <1>3
<1>4. CASE made' = made /\ call'[c] = Started("discard", "delete", f, 0, {})
  BY <1>2, <1>4
<1>5. CASE made' = made /\ call'[c] = Started("change", "list", f, 0, Live)
  BY <1>2, <1>5
<1>6. ASSUME NEW t \in tickets, made' = made,
             \/ call'[c] = Started("spend", "delete", f, t, Live)
             \/ call'[c] = Started("mark", "mark", f, t, Live)
      PROVE  Goal
  BY <1>2, <1>6
<1>7. QED
  <2> HIDE DEF Goal
  <2>1. Goal
    BY <1>1, <1>3, <1>4, <1>5, <1>6, EnterShape DEF Goal
  <2>2. QED
    BY <2>1 DEF Goal

\* What a statement of a call makes of it; Same: what it leaves as it is.
Same(c) ==
  /\ call'[c].op = call[c].op /\ call'[c].form = call[c].form
  /\ call'[c].before = call[c].before

LEMMA StartDeleteShape ==
  ASSUME TypeOK, NEW c \in Caller, StartDelete(c)
  PROVE  /\ call[c].at = "delete" /\ call'[c].at = "deleting" /\ call'[c].seen = tickets
         /\ Same(c) /\ call'[c].mine = call[c].mine
         /\ UNCHANGED <<made, store, expired, pend, history>>
  BY DEF TypeOK, Calls, StartDelete, At, Matched, Same

LEMMA EndDeleteShape ==
  ASSUME TypeOK, NEW c \in Caller, EndDelete(c)
  PROVE  /\ call[c].at = "deleting" /\ Same(c)
         /\ InTx(c) => /\ UNCHANGED store
                       /\ pend'[c].del = pend[c].del \cup (call[c].seen \cap tickets)
                       /\ pend'[c].ins = pend[c].ins /\ pend'[c].close = pend[c].close
         /\ ~InTx(c) => /\ tickets' = tickets \ call[c].seen
                        /\ session' = session /\ pend' = pend
         /\ session' = session /\ tickets' \subseteq tickets
         /\ \/ /\ call[c].op = "request" /\ call'[c].at = "create"
               /\ made < MaxTicket /\ made' = made + 1
               /\ call'[c].mine = made + 1 /\ owed' = owed
            \/ /\ call[c].op = "spend" /\ call'[c].at = "list"
               /\ call'[c].mine = call[c].mine /\ made' = made
               /\ IF InTx(c) THEN owed' = owed ELSE Owe(c)
            \/ /\ call[c].op = "discard" /\ call'[c].at = "end"
               /\ call'[c].mine = call[c].mine /\ made' = made /\ owed' = owed
         /\ UNCHANGED <<author, spent, broken>>
<1> DEFINE w == [NoWrites EXCEPT !.del = call[c].seen \cap tickets]
<1>1. Write(c, InTx(c), w) /\ InTx(c) \in BOOLEAN
  BY DEF EndDelete, InTx
<1>2. w.del = call[c].seen \cap tickets /\ w.upd = {} /\ w.ins = {} /\ w.close = {}
  BY DEF NoWrites
<1>3. /\ InTx(c) => /\ UNCHANGED store
                     /\ pend'[c].del = pend[c].del \cup (call[c].seen \cap tickets)
                     /\ pend'[c].ins = pend[c].ins /\ pend'[c].close = pend[c].close
      /\ ~InTx(c) => Apply(w) /\ pend' = pend
  <2> HIDE DEF w
  <2>1. QED
    BY <1>1, <1>2 DEF Write, TypeOK
<1>4. Apply(w) => /\ tickets' = tickets \ call[c].seen /\ session' = session
  <2> HIDE DEF w
  <2>1. QED
    BY <1>2 DEF Apply, TypeOK
<1>5. /\ session' = session /\ tickets' \subseteq tickets
      /\ ~InTx(c) => tickets' = tickets \ call[c].seen
  BY <1>3, <1>4 DEF store
<1>6. call[c].at = "deleting" /\ UNCHANGED <<author, spent, broken>>
  BY DEF EndDelete, At
<1>7. /\ Same(c)
      /\ \/ /\ call[c].op = "request" /\ call'[c].at = "create"
            /\ made < MaxTicket /\ made' = made + 1
            /\ call'[c].mine = made + 1 /\ owed' = owed
         \/ /\ call[c].op = "spend" /\ call'[c].at = "list"
            /\ call'[c].mine = call[c].mine /\ made' = made
            /\ IF InTx(c) THEN owed' = owed ELSE Owe(c)
         \/ /\ call[c].op = "discard" /\ call'[c].at = "end"
            /\ call'[c].mine = call[c].mine /\ made' = made /\ owed' = owed
  <2>0. call[c] \in Calls
    BY DEF TypeOK
  <2> DEFINE r1 == [call[c] EXCEPT !.at = "create", !.seen = {}, !.mine = made + 1]
             r2 == [call[c] EXCEPT !.at = "list", !.seen = {}]
             r3 == [call[c] EXCEPT !.at = "end", !.seen = {}]
  <2>1. \/ /\ call[c].op = "request" /\ made < MaxTicket /\ made' = made + 1
           /\ call'[c] = r1 /\ owed' = owed
        \/ /\ call[c].op = "spend" /\ call'[c] = r2 /\ made' = made
           /\ IF InTx(c) THEN owed' = owed ELSE Owe(c)
        \/ call[c].op = "discard" /\ call'[c] = r3 /\ made' = made /\ owed' = owed
    BY DEF TypeOK, EndDelete
  <2>2. /\ r1.at = "create" /\ r1.mine = made + 1 /\ r1.op = call[c].op
        /\ r1.form = call[c].form /\ r1.before = call[c].before
        /\ r2.at = "list" /\ r2.mine = call[c].mine /\ r2.op = call[c].op
        /\ r2.form = call[c].form /\ r2.before = call[c].before
        /\ r3.at = "end" /\ r3.mine = call[c].mine /\ r3.op = call[c].op
        /\ r3.form = call[c].form /\ r3.before = call[c].before
    BY <2>0 DEF Calls
  <2> HIDE DEF r1, r2, r3
  <2>3. QED
    BY <2>1, <2>2 DEF Same
<1>8. QED
  BY <1>3, <1>5, <1>6, <1>7

LEMMA InsertShape ==
  ASSUME TypeOK, NEW c \in Caller, Insert(c)
  PROVE  /\ call[c].at = "create" /\ call'[c].at = "end" /\ Same(c)
         /\ call'[c].mine = call[c].mine
         /\ InTx(c) => /\ UNCHANGED store
                       /\ pend'[c].del = pend[c].del /\ pend'[c].close = pend[c].close
                       /\ pend'[c].ins = pend[c].ins \cup {call[c].mine}
         /\ ~InTx(c) => tickets' = tickets \cup {call[c].mine} /\ pend' = pend
         /\ session' = session /\ author' = [author EXCEPT ![call[c].mine] = c]
         /\ UNCHANGED <<made, spent, owed, broken>>
<1> DEFINE w == [NoWrites EXCEPT !.ins = {call[c].mine}]
<1>1. Write(c, InTx(c), w) /\ InTx(c) \in BOOLEAN
  BY DEF Insert, InTx
<1>2. w.ins = {call[c].mine} /\ w.upd = {} /\ w.del = {} /\ w.close = {}
  BY DEF NoWrites
<1>3. /\ InTx(c) => /\ UNCHANGED store
                     /\ pend'[c].del = pend[c].del /\ pend'[c].close = pend[c].close
                     /\ pend'[c].ins = pend[c].ins \cup {call[c].mine}
      /\ ~InTx(c) => Apply(w) /\ pend' = pend
  <2> HIDE DEF w
  <2>1. QED
    BY <1>1, <1>2 DEF Write, TypeOK
<1>4. Apply(w) => tickets' = tickets \cup {call[c].mine} /\ session' = session
  <2> HIDE DEF w
  <2>1. QED
    BY <1>2 DEF Apply, TypeOK
<1>5. /\ call[c].at = "create" /\ call'[c].at = "end" /\ Same(c)
      /\ call'[c].mine = call[c].mine
  <2>1. call'[c] = [call[c] EXCEPT !.at = "end"] /\ call[c].at = "create"
    BY DEF TypeOK, Insert, At
  <2>2. call[c] \in Calls
    BY DEF TypeOK
  <2>3. QED
    BY <2>1, <2>2 DEF Calls, Same
<1>6. /\ session' = session /\ author' = [author EXCEPT ![call[c].mine] = c]
      /\ UNCHANGED <<made, spent, owed, broken>>
  BY <1>3, <1>4 DEF Insert, store
<1>7. QED
  BY <1>3, <1>4, <1>5, <1>6

LEMMA MarkShape ==
  ASSUME TypeOK, NEW c \in Caller, Mark(c)
  PROVE  /\ call[c].at = "mark" /\ call'[c].at = "list" /\ Same(c)
         /\ call'[c].mine = call[c].mine
         /\ UNCHANGED <<tickets, session, made, author, spent, broken>>
         /\ pend'[c].del = pend[c].del /\ pend'[c].close = pend[c].close
         /\ pend'[c].ins = pend[c].ins
         /\ ~InTx(c) => pend' = pend
         /\ IF InTx(c) THEN owed' = owed ELSE Owe(c)
<1> DEFINE w == [NoWrites EXCEPT !.upd = Updated(c)]
<1>1. Write(c, InTx(c), w) /\ InTx(c) \in BOOLEAN
  BY DEF Mark, InTx
<1>2. w.ins = {} /\ w.del = {} /\ w.close = {}
  BY DEF NoWrites
<1>3. /\ InTx(c) => /\ UNCHANGED store
                     /\ pend'[c].del = pend[c].del /\ pend'[c].close = pend[c].close
                     /\ pend'[c].ins = pend[c].ins
      /\ ~InTx(c) => Apply(w) /\ pend' = pend
  <2> HIDE DEF w
  <2>1. QED
    BY <1>1, <1>2 DEF Write, TypeOK
<1>4. Apply(w) => tickets' = tickets /\ session' = session
  <2> HIDE DEF w
  <2>1. QED
    BY <1>2 DEF Apply, TypeOK
<1>5. /\ call[c].at = "mark" /\ call'[c].at = "list" /\ Same(c)
      /\ call'[c].mine = call[c].mine
  <2>1. call'[c] = [call[c] EXCEPT !.at = "list"] /\ call[c].at = "mark"
    BY DEF TypeOK, Mark, At
  <2>2. call[c] \in Calls
    BY DEF TypeOK
  <2>3. QED
    BY <2>1, <2>2 DEF Calls, Same
<1>6. /\ UNCHANGED <<tickets, session, made, author, spent, broken>>
      /\ IF InTx(c) THEN owed' = owed ELSE Owe(c)
  BY <1>3, <1>4 DEF Mark, store
<1>7. QED
  BY <1>3, <1>4, <1>5, <1>6

LEMMA RevokeListShape ==
  ASSUME TypeOK, NEW c \in Caller, RevokeList(c)
  PROVE  /\ call[c].at = "list" /\ call'[c].at = "revoke"
         /\ call'[c].op = call[c].op /\ call'[c].form = call[c].form
         /\ call'[c].mine = call[c].mine
         /\ call'[c].before \subseteq call[c].before
         /\ \A s \in Live : s \in call'[c].before => s \in call'[c].listed
         /\ \A t \in Ticket : owed'[t] \subseteq owed[t]
         /\ \A s \in call[c].before \ call'[c].before :
              Committed(c) /\ call[c].mine \in Ticket => s \notin owed'[call[c].mine]
         /\ UNCHANGED <<made, store, expired, pend, author, spent, broken>>
<1>1. call[c] \in Calls /\ owed \in [Ticket -> SUBSET Session]
  BY DEF TypeOK
<1>2. PICK lost \in SUBSET Live :
        /\ call' = [call EXCEPT ![c].at = "revoke", ![c].listed = Live \ lost,
                               ![c].before = call[c].before \ lost]
        /\ owed' = IF Committed(c)
                   THEN [owed EXCEPT ![call[c].mine] = owed[call[c].mine] \ lost]
                   ELSE owed
  BY DEF RevokeList, Listable
<1>3. call'[c] = [call[c] EXCEPT !.at = "revoke", !.listed = Live \ lost,
                                 !.before = call[c].before \ lost]
  BY <1>2 DEF TypeOK
<1>4. /\ call'[c].at = "revoke" /\ call'[c].listed = Live \ lost
      /\ call'[c].op = call[c].op /\ call'[c].form = call[c].form
      /\ call'[c].mine = call[c].mine /\ call'[c].before = call[c].before \ lost
  BY <1>1, <1>3 DEF Calls
<1>5. \A t \in Ticket : owed'[t] \subseteq owed[t]
  BY <1>1, <1>2
<1>6. \A s \in lost : Committed(c) /\ call[c].mine \in Ticket => s \notin owed'[call[c].mine]
  BY <1>1, <1>2
<1>7. call[c].at = "list" /\ UNCHANGED <<made, store, expired, pend, author, spent, broken>>
  BY DEF RevokeList, At
<1>8. QED
  BY <1>4, <1>5, <1>6, <1>7

LEMMA RevokeListedShape ==
  ASSUME TypeOK, NEW c \in Caller, RevokeListed(c)
  PROVE  /\ call[c].at = "revoke" /\ call'[c].at = "end" /\ Same(c)
         /\ call'[c].mine = call[c].mine
         /\ UNCHANGED <<tickets, made, history>>
         /\ call[c].form = "tx" =>
              /\ UNCHANGED store
              /\ pend'[c].close = pend[c].close \cup call[c].listed
              /\ pend'[c].del = pend[c].del /\ pend'[c].ins = pend[c].ins
         /\ call[c].form # "tx" =>
              /\ pend' = pend
              /\ session' = [s \in Session |->
                               IF s \in call[c].listed THEN "revoked" ELSE session[s]]
<1> DEFINE w == [NoWrites EXCEPT !.close = call[c].listed]
<1>1. Write(c, call[c].form = "tx", w) /\ (call[c].form = "tx") \in BOOLEAN
  BY DEF RevokeListed
<1>2. w.ins = {} /\ w.del = {} /\ w.upd = {} /\ w.close = call[c].listed
  BY DEF NoWrites
<1>3. /\ call[c].form = "tx" =>
           /\ UNCHANGED store
           /\ pend'[c].close = pend[c].close \cup call[c].listed
           /\ pend'[c].del = pend[c].del /\ pend'[c].ins = pend[c].ins
      /\ call[c].form # "tx" => Apply(w) /\ pend' = pend
  <2> HIDE DEF w
  <2>1. QED
    BY <1>1, <1>2 DEF Write, TypeOK
<1>4. Apply(w) =>
        /\ tickets' = tickets
        /\ session' = [s \in Session |->
                         IF s \in call[c].listed THEN "revoked" ELSE session[s]]
  <2> HIDE DEF w
  <2>1. QED
    BY <1>2 DEF Apply, TypeOK
<1>5. /\ call[c].at = "revoke" /\ call'[c].at = "end" /\ Same(c)
      /\ call'[c].mine = call[c].mine
  <2>1. call'[c] = [call[c] EXCEPT !.at = "end"] /\ call[c].at = "revoke"
    BY DEF TypeOK, RevokeListed, At
  <2>2. call[c] \in Calls
    BY DEF TypeOK
  <2>3. QED
    BY <2>1, <2>2 DEF Calls, Same
<1>6. /\ UNCHANGED <<tickets, made, history>>
  BY <1>3, <1>4 DEF RevokeListed, store
<1>7. QED
  BY <1>3, <1>4, <1>5, <1>6

LEMMA EndShape ==
  ASSUME TypeOK, NEW c \in Caller, End(c)
  PROVE  /\ call[c].at = "end" /\ call'[c] = Idle /\ pend'[c] = NoWrites
         /\ tickets' = (tickets \ pend[c].del) \cup pend[c].ins
         /\ session' = [s \in Session |->
                          IF s \in pend[c].close THEN "revoked" ELSE session[s]]
         /\ spent' = IF call[c].op = "spend" THEN spent \cup {call[c].mine} ELSE spent
         /\ IF InTx(c) /\ call[c].op \in {"spend", "mark"} THEN Owe(c) ELSE owed' = owed
         /\ UNCHANGED <<made, author, broken>>
  BY DEF TypeOK, End, At, Apply

LEMMA FailShape ==
  ASSUME TypeOK, NEW c \in Caller, Fail(c)
  PROVE  /\ call'[c] = Idle /\ pend'[c] = NoWrites
         /\ tickets' = tickets
         /\ \E S \in SUBSET Session :
              session' = [s \in Session |-> IF s \in S THEN "revoked" ELSE session[s]]
         /\ broken' = IF Committed(c) THEN broken \cup {call[c].mine} ELSE broken
         /\ UNCHANGED <<made, author, spent, owed>>
<1>1. PICK S \in SUBSET call[c].listed : Apply([NoWrites EXCEPT !.close = S])
  BY DEF Fail
<1>2. S \subseteq Session
  BY DEF TypeOK, Calls
<1>3. /\ tickets' = tickets
      /\ session' = [s \in Session |-> IF s \in S THEN "revoked" ELSE session[s]]
  BY <1>1 DEF Apply, NoWrites
<1>4. QED
  BY <1>2, <1>3 DEF TypeOK, Fail

LEMMA NextCallInv == TInv /\ [TicketNext]_tvars => CallInv'
<1> SUFFICES ASSUME TInv, [TicketNext]_tvars PROVE CallInv'
  OBVIOUS
<1>0. TypeOK /\ CallInv /\ FreshInv
  BY DEF TInv
<1>1. ASSUME NEW c \in Caller, Work(c) \/ \E f \in Forms : Enters(c, f), CallOK(c)',
             NEW d \in Caller, d # c
      PROVE  CallOK(d)'
  <2>1. call'[d] = call[d] /\ pend'[d] = pend[d] /\ CallOK(d)
    BY <1>0, <1>1, Others DEF CallInv
  <2>2. pend[d].ins # {} => author'[call[d].mine] = author[call[d].mine]
    <3> SUFFICES ASSUME pend[d].ins # {}, author' # author
                 PROVE  author'[call[d].mine] = author[call[d].mine]
      OBVIOUS
    <3>1. Insert(c)
      BY <1>1 DEF Enters, Work, RequestFind, MakeFirst, Change, Discard, Spend, MarkFound, Begin,
                  StartDelete, EndDelete, Mark, RevokeList, RevokeListed, End, Fail, history
    <3>2. call[d].mine \in Ticket /\ call[c].mine # call[d].mine
      BY <1>0, <1>1 DEF FreshInv, Fresh
    <3>3. QED
      BY <1>0, <3>1, <3>2 DEF Insert, TypeOK
  <2>3. QED
    BY <2>1, <2>2 DEF CallOK, At, InTx
<1>2. ASSUME NEW c \in Caller, NEW f \in Forms, Enters(c, f) PROVE CallOK(c)'
  <2>1. /\ pend'[c] = NoWrites
        /\ \A t \in tickets : t # 0
    BY <1>2, EnterShape DEF TInv, TypeOK
  <2>2. PICK op, label, t, S :
          /\ call'[c] = Started(op, label, f, t, S)
          /\ \/ op = "request" /\ label = "create" /\ S = {}
             \/ op \in {"request", "discard"} /\ label = "delete" /\ S = {}
             \/ op = "change" /\ label = "list"
             \/ t # 0 /\ op = "spend" /\ label = "delete"
             \/ t # 0 /\ op = "mark" /\ label = "mark"
    BY <1>2, <2>1, EnterShape, Zenon
  <2>3. QED
    BY <2>1, <2>2 DEF CallOK, At, InTx, Started, NoWrites
<1>3. ASSUME NEW c \in Caller, Work(c) PROVE CallOK(c)'
  <2> USE DEF At, InTx
  <2>0. call[c] \in Calls /\ pend[c] \in Writes /\ CallOK(c)
    BY <1>0 DEF TypeOK, CallInv
  <2> USE DEF Same
  <2>1. CASE StartDelete(c)
    BY <1>0, <2>0, <2>1, StartDeleteShape DEF CallOK
  <2>2. CASE EndDelete(c)
    BY <1>0, <2>0, <2>2, EndDeleteShape DEF CallOK
  <2>3. CASE Insert(c)
    <3>1. call[c].mine \in Ticket
      BY <1>0, <2>3, InsertShape DEF FreshInv, Fresh
    <3>2. author'[call[c].mine] = c
      BY <1>0, <2>3, <3>1, InsertShape DEF TypeOK
    <3>3. QED
      BY <1>0, <2>0, <2>3, <3>2, InsertShape DEF CallOK
  <2>4. CASE Mark(c)
    BY <1>0, <2>0, <2>4, MarkShape DEF CallOK
  <2>5. CASE RevokeList(c)
    BY <1>0, <2>0, <2>5, RevokeListShape DEF CallOK
  <2>6. CASE RevokeListed(c)
    BY <1>0, <2>0, <2>6, RevokeListedShape DEF CallOK, history
  <2>7. CASE End(c) \/ Fail(c)
    <3>1. call'[c] = Idle /\ pend'[c] = NoWrites
      BY <1>0, <2>7 DEF End, Fail, TypeOK
    <3>2. QED
      BY <3>1 DEF CallOK, Idle, Started, NoWrites
  <2>8. QED
    BY <1>3, <2>1, <2>2, <2>3, <2>4, <2>5, <2>6, <2>7 DEF Work
<1>4. CASE UNCHANGED <<call, pend, author>>
  BY <1>0, <1>4 DEF CallInv, CallOK, At, InTx
<1>5. ASSUME NEW c \in Caller, NEW f \in Forms, Enters(c, f) PROVE CallInv'
  BY <1>1, <1>2, <1>5 DEF CallInv
<1>6. ASSUME NEW c \in Caller, Work(c) PROVE CallInv'
  <2>1. \A d \in Caller : d # c => CallOK(d)'
    BY <1>1, <1>3, <1>6
  <2>2. QED
    BY <1>3, <1>6, <2>1 DEF CallInv
<1>7. QED
  BY <1>4, <1>5, <1>6 DEF TicketNext, Enters, Surroundings, Login, Expire, tvars, history

-----------------------------------------------------------------------------
\* What a step of c does to the tickets: it inserts only the fresh ticket of c,
\* and then none that c's transaction deletes is left.
LEMMA TicketStep ==
  ASSUME TInv, NEW c \in Caller, Work(c) \/ \E f \in Forms : Enters(c, f)
  PROVE  /\ \A t \in tickets' \ tickets :
              /\ Fresh(c) /\ t = call[c].mine /\ author'[t] = c
              /\ tickets' \cap tickets \cap pend[c].del = {}
         /\ \A t \in Ticket : \/ author'[t] = author[t]
                              \/ Fresh(c) /\ t = call[c].mine /\ author'[t] = c
         /\ \/ spent' = spent
            \/ /\ call[c].op = "spend" /\ spent' = spent \cup {call[c].mine}
               /\ call[c].mine \notin tickets' /\ tickets' \subseteq tickets
         /\ call'[c].mine \in {call[c].mine, 0, made + 1} \cup tickets
<1>0. TypeOK /\ CallOK(c) /\ FreshInv /\ SpentInv
  BY DEF TInv, CallInv
<1>1. ASSUME NEW f \in Forms, Enters(c, f)
      PROVE  /\ tickets' = tickets /\ author' = author /\ spent' = spent
             /\ call'[c].mine \in {0, made + 1} \cup tickets
  <2>1. tickets' = tickets /\ author' = author /\ spent' = spent
    BY <1>1, EnterShape DEF store, history
  <2>2. PICK op, label, t, S :
          call'[c] = Started(op, label, f, t, S) /\ t \in {0, made + 1} \cup tickets
    BY <1>1, EnterShape
  <2>3. QED
    BY <2>1, <2>2 DEF Started
<1>2. CASE StartDelete(c)
  BY <1>0, <1>2, StartDeleteShape DEF store, history
<1>3. CASE EndDelete(c)
  BY <1>0, <1>3, EndDeleteShape
<1>4. CASE Insert(c)
  <2>1. Fresh(c) /\ call[c].mine \in Ticket
    BY <1>0, <1>4, InsertShape DEF Fresh, FreshInv, At
  <2>2. \A t \in Ticket : author'[t] = author[t] \/ (t = call[c].mine /\ author'[t] = c)
    BY <1>0, <1>4, InsertShape DEF TypeOK
  <2>3. author'[call[c].mine] = c
    BY <1>0, <1>4, <2>1, InsertShape DEF TypeOK
  <2>4. tickets' # tickets => pend[c].del = {} /\ tickets' = tickets \cup {call[c].mine}
    BY <1>0, <1>4, InsertShape DEF CallOK, NoWrites, store
  <2>5. spent' = spent /\ call'[c].mine = call[c].mine
    BY <1>0, <1>4, InsertShape
  <2>6. QED
    BY <2>1, <2>2, <2>3, <2>4, <2>5
<1>5. CASE Mark(c)
  BY <1>0, <1>5, MarkShape
<1>6. CASE RevokeList(c)
  BY <1>0, <1>6, RevokeListShape DEF store
<1>7. CASE RevokeListed(c)
  BY <1>0, <1>7, RevokeListedShape DEF history
<1>8. CASE End(c)
  <2>1. /\ tickets' = (tickets \ pend[c].del) \cup pend[c].ins /\ author' = author
        /\ spent' = IF call[c].op = "spend" THEN spent \cup {call[c].mine} ELSE spent
        /\ call'[c].mine = 0
    BY <1>0, <1>8, EndShape DEF Idle, Started
  <2>2. \A t \in pend[c].ins : Fresh(c) /\ t = call[c].mine /\ author[t] = c /\ call[c].op = "request"
    BY <1>0 DEF CallOK, Fresh
  <2>3. call[c].op = "spend" => call[c].mine \notin tickets' /\ tickets' \subseteq tickets
    BY <1>0, <1>8, <2>1, <2>2, EndShape DEF SpentInv
  <2>4. \A t \in tickets' \ tickets : t \in pend[c].ins
    BY <2>1
  <2>5. pend[c].ins # {} => tickets' \cap tickets \cap pend[c].del = {}
    BY <1>0, <2>1, <2>2 DEF FreshInv
  <2>6. QED
    BY <2>1, <2>2, <2>3, <2>4, <2>5
<1>9. CASE Fail(c)
  BY <1>0, <1>9, FailShape DEF Idle, Started
<1>10. QED
  BY <1>1, <1>2, <1>3, <1>4, <1>5, <1>6, <1>7, <1>8, <1>9 DEF Work

\* The tickets that a caller's next insert must not meet.
LEMMA StepFresh ==
  ASSUME TInv, NEW c \in Caller, Work(c) \/ \E f \in Forms : Enters(c, f)
  PROVE  /\ Fresh(c)' =>
              /\ call'[c].mine \in Ticket \ (tickets' \cup spent')
              /\ \A t \in tickets' : author'[t] = c => t \in pend'[c].del
              /\ \A d \in Caller \ {c} : call'[d].mine # call'[c].mine
         /\ At(c, "deleting")' /\ call'[c].op = "request" =>
              \A t \in tickets' : author'[t] = c => t \in call'[c].seen
<1> USE DEF At
<1>0. TypeOK /\ CallOK(c) /\ FreshInv
  BY DEF TInv, CallInv
<1>a. made \in Nat /\ \A d \in Caller : call[d].mine \in 0..made
  BY <1>0, TicketsAssumption DEF TypeOK, Calls
<1>b. ASSUME made < MaxTicket, NEW d \in Caller \ {c}
      PROVE  /\ made + 1 \in Ticket \ (tickets \cup spent)
             /\ call'[d].mine # made + 1
  BY <1>0, <1>a, <1>b, Others, TicketsAssumption DEF TypeOK, Ticket
<1>c. ASSUME made < MaxTicket PROVE made + 1 \in Ticket \ (tickets \cup spent)
  BY <1>0, <1>a, <1>c, TicketsAssumption DEF TypeOK, Ticket
<1>1. ASSUME NEW f \in Forms, Enters(c, f), Fresh(c)' \/ At(c, "deleting")'
      PROVE  /\ made < MaxTicket /\ tickets' = {} /\ spent' = spent /\ tickets = {}
             /\ call'[c].mine = made + 1 /\ call'[c].at = "create"
  <2>1. pend'[c] = NoWrites
    BY <1>1, EnterShape
  <2>2. call'[c].at \in {"create", "deleting"}
    BY <1>1, <2>1 DEF Fresh, NoWrites
  <2>3. UNCHANGED <<tickets, spent>>
    BY <1>1, EnterShape DEF store, history
  <2>4. QED
    BY <1>1, <2>2, <2>3, EnterFields
<1>2. CASE StartDelete(c)
  BY <1>0, <1>2, StartDeleteShape DEF Fresh, CallOK, store, history
<1>3. CASE EndDelete(c)
  <2>1. tickets' \subseteq tickets /\ spent' = spent /\ author' = author /\ call'[c].at # "deleting"
    BY <1>0, <1>3, EndDeleteShape
  <2>2. CASE call[c].op # "request"
    BY <1>0, <1>3, <2>1, <2>2, EndDeleteShape DEF Fresh, CallOK
  <2>3. CASE call[c].op = "request"
    <3>1. made < MaxTicket /\ call'[c].mine = made + 1 /\ call[c].at = "deleting"
      BY <1>0, <1>3, <2>3, EndDeleteShape
    <3>2. \A t \in tickets' : author'[t] = c => t \in tickets /\ t \in call[c].seen
      BY <1>0, <2>1, <2>3, <3>1 DEF FreshInv
    <3>3. \A t \in tickets' : author'[t] = c => t \in pend'[c].del
      BY <1>0, <1>3, <3>2, EndDeleteShape
    <3>4. QED
      BY <1>b, <1>c, <2>1, <3>1, <3>3
  <2>4. QED
    BY <2>2, <2>3
<1>4. CASE Insert(c)
  <2>1. /\ call'[c].mine = call[c].mine /\ spent' = spent
        /\ author' = [author EXCEPT ![call[c].mine] = c] /\ call'[c].at = "end"
    BY <1>0, <1>4, InsertShape
  <2>2. /\ call[c].mine \in Ticket \ (tickets \cup spent)
        /\ \A t \in tickets : author[t] = c => t \in pend[c].del
        /\ \A d \in Caller \ {c} : call[d].mine # call[c].mine
    BY <1>0, <1>4, InsertShape DEF FreshInv, Fresh
  <2>3. Fresh(c)' => tickets' = tickets /\ pend'[c].del = pend[c].del
    BY <1>0, <1>4, <2>1, InsertShape DEF Fresh, CallOK, NoWrites, store
  <2>4. \A t \in tickets : author'[t] = author[t]
    BY <1>0, <2>1, <2>2 DEF TypeOK
  <2>5. \A d \in Caller \ {c} : call'[d].mine # call'[c].mine
    BY <1>0, <2>1, <2>2, Others
  <2>6. QED
    BY <2>1, <2>2, <2>3, <2>4, <2>5
<1>5. CASE Mark(c)
  BY <1>0, <1>5, MarkShape DEF Fresh, CallOK
<1>6. CASE RevokeList(c)
  BY <1>0, <1>6, RevokeListShape DEF Fresh, CallOK
<1>7. CASE RevokeListed(c)
  BY <1>0, <1>7, RevokeListedShape DEF Fresh, CallOK
<1>8. CASE End(c) \/ Fail(c)
  BY <1>0, <1>8, EndShape, FailShape DEF Fresh, Idle, NoWrites, Started
<1>9. CASE \E f \in Forms : Enters(c, f)
  <2>1. \/ ~(Fresh(c)' \/ At(c, "deleting")')
        \/ /\ made < MaxTicket /\ tickets' = {} /\ spent' = spent /\ tickets = {}
           /\ call'[c].mine = made + 1 /\ call'[c].at = "create"
    BY <1>1, <1>9
  <2>2. QED
    BY <1>b, <1>c, <2>1
<1>10. QED
  BY <1>2, <1>3, <1>4, <1>5, <1>6, <1>7, <1>8, <1>9 DEF Work

\* FreshInv and OneTicketPerCaller under the steps of a call.
LEMMA StepTickets ==
  ASSUME TInv, NEW c \in Caller, Work(c) \/ \E f \in Forms : Enters(c, f)
  PROVE  FreshInv' /\ OneTicketPerCaller' /\ SpentAreGone'
<1>0. TypeOK /\ CallOK(c) /\ FreshInv /\ OneTicketPerCaller /\ SpentAreGone
  BY DEF TInv, CallInv
<1>a. \A t \in tickets : t \in Ticket
  BY <1>0, TicketsAssumption DEF TypeOK, Ticket
<1>1. \A t \in tickets : author'[t] = author[t]
  BY <1>0, <1>a, TicketStep DEF FreshInv
<1>2. ASSUME NEW d \in Caller, d # c, Fresh(d)
      PROVE  /\ call[d].mine \in Ticket \ (tickets' \cup spent')
             /\ call'[c].mine # call[d].mine
  <2>1. /\ call[d].mine \in Ticket \ (tickets \cup spent)
        /\ call[c].mine # call[d].mine /\ call[d].mine # 0 /\ call[d].mine # made + 1
    <3>1. call[d].mine \in 0..made /\ 0 \notin Ticket /\ made \in Nat
      BY <1>0, TicketsAssumption DEF TypeOK, Calls, Ticket
    <3>2. call[d].mine # made + 1
      BY <3>1
    <3>3. QED
      BY <1>0, <1>2, <3>1, <3>2 DEF FreshInv
  <2>2. QED
    BY <2>1, TicketStep
<1>3. ASSUME NEW d \in Caller, d # c, NEW t \in tickets', author'[t] = d
      PROVE  t \in tickets /\ author[t] = d
  BY <1>1, <1>3, TicketStep
<1>4. FreshInv'
  <2> SUFFICES ASSUME NEW d \in Caller
               PROVE  (/\ Fresh(d) =>
                            /\ call[d].mine \in Ticket \ (tickets \cup spent)
                            /\ \A t \in tickets : author[t] = d => t \in pend[d].del
                            /\ \A e \in Caller \ {d} : call[e].mine # call[d].mine
                       /\ At(d, "deleting") /\ call[d].op = "request" =>
                            \A t \in tickets : author[t] = d => t \in call[d].seen)'
    BY DEF FreshInv
  <2>1. CASE d = c
    BY <2>1, StepFresh
  <2>2. CASE d # c
    <3>1. call'[d] = call[d] /\ pend'[d] = pend[d]
      BY <1>0, <2>2, Others
    <3>2. Fresh(d)' = Fresh(d)
      BY <3>1 DEF Fresh, At
    <3>3. ASSUME Fresh(d), NEW e \in Caller \ {d} PROVE call'[e].mine # call[d].mine
      <4>1. CASE e = c
        BY <1>2, <2>2, <3>3, <4>1
      <4>2. CASE e # c
        BY <1>0, <3>3, <4>2, Others DEF FreshInv
      <4>3. QED
        BY <4>1, <4>2
    <3>4. ASSUME Fresh(d), NEW t \in tickets', author'[t] = d PROVE t \in pend[d].del
      BY <1>0, <1>3, <2>2, <3>4 DEF FreshInv
    <3>5. ASSUME At(d, "deleting"), call[d].op = "request", NEW t \in tickets', author'[t] = d
          PROVE  t \in call[d].seen
      BY <1>0, <1>3, <2>2, <3>5 DEF FreshInv
    <3>6. At(d, "deleting")' = At(d, "deleting")
      BY <3>1 DEF At
    <3>7. QED
      BY <1>2, <2>2, <3>1, <3>2, <3>3, <3>4, <3>5, <3>6
  <2>3. QED
    BY <2>1, <2>2
<1>5. OneTicketPerCaller'
  <2> SUFFICES ASSUME NEW t \in tickets', NEW u \in tickets', author'[t] = author'[u]
               PROVE  t = u
    BY DEF OneTicketPerCaller
  <2>1. ASSUME NEW v \in tickets', NEW w \in tickets', v \notin tickets, w \in tickets
        PROVE  author'[v] # author'[w]
    <3>1. Fresh(c) /\ author'[v] = c /\ w \notin pend[c].del
      BY <2>1, TicketStep
    <3>2. author[w] # c
      BY <1>0, <2>1, <3>1 DEF FreshInv
    <3>3. QED
      BY <1>1, <2>1, <3>1, <3>2
  <2>2. CASE t \in tickets /\ u \in tickets
    BY <1>0, <1>1, <2>2 DEF OneTicketPerCaller
  <2>3. CASE t \notin tickets /\ u \notin tickets
    BY <2>3, TicketStep
  <2>4. QED
    BY <2>1, <2>2, <2>3
<1>6. SpentAreGone'
  <2>1. \A t \in tickets' : t \in tickets \/ t \notin spent
    BY <1>0, TicketStep DEF FreshInv
  <2>2. \A t \in tickets' : t \notin spent
    BY <1>0, <2>1 DEF SpentAreGone
  <2>3. QED
    BY <2>2, TicketStep DEF SpentAreGone
<1>7. QED
  BY <1>4, <1>5, <1>6

\* SpentInv under the steps of a call.
LEMMA StepSpent ==
  ASSUME TInv, NEW c \in Caller, Work(c) \/ \E f \in Forms : Enters(c, f)
  PROVE  SpentInv'
<1> USE DEF At, Same
<1>0. TypeOK /\ CallOK(c) /\ FreshInv /\ SpentInv
  BY DEF TInv, CallInv
<1>1. ASSUME NEW d \in Caller, d # c, call'[d].op = "spend", call'[d].mine \in tickets'
      PROVE  /\ At(d, "deleting")' => call'[d].mine \in call'[d].seen
             /\ call'[d].at \in {"list", "revoke", "end"} => call'[d].mine \in pend'[d].del
  <2>1. call'[d] = call[d] /\ pend'[d] = pend[d]
    BY <1>0, <1>1, Others
  <2>2. call[d].mine \in tickets
    BY <1>0, <1>1, <2>1, TicketStep DEF FreshInv
  <2>3. QED
    BY <1>0, <1>1, <2>1, <2>2 DEF SpentInv
<1>2. ASSUME call'[c].op = "spend", call'[c].mine \in tickets'
      PROVE  /\ At(c, "deleting")' => call'[c].mine \in call'[c].seen
             /\ call'[c].at \in {"list", "revoke", "end"} => call'[c].mine \in pend'[c].del
  <2>1. ASSUME NEW f \in Forms, Enters(c, f) PROVE call'[c].at = "delete"
    <3>1. PICK op, label, t, S :
            call'[c] = Started(op, label, f, t, S) /\ (op = "spend" => label = "delete")
      BY <2>1, EnterShape
    <3>2. QED
      BY <1>2, <3>1 DEF Started
  <2>2. CASE StartDelete(c)
    BY <1>0, <1>2, <2>2, StartDeleteShape DEF store
  <2>3. CASE EndDelete(c)
    <3>1. /\ call[c].op = "spend" /\ call'[c].mine = call[c].mine /\ call'[c].at = "list"
          /\ call[c].at = "deleting" /\ tickets' \subseteq tickets
      BY <1>0, <1>2, <2>3, EndDeleteShape
    <3>2. call[c].mine \in call[c].seen \cap tickets
      BY <1>0, <1>2, <3>1 DEF SpentInv
    <3>3. InTx(c) /\ pend'[c].del = pend[c].del \cup (call[c].seen \cap tickets)
      BY <1>0, <1>2, <2>3, <3>1, <3>2, EndDeleteShape
    <3>4. QED
      BY <3>1, <3>2, <3>3
  <2>4. CASE Insert(c)
    BY <1>0, <1>2, <2>4, InsertShape DEF CallOK
  <2>5. CASE Mark(c)
    BY <1>0, <1>2, <2>5, MarkShape DEF CallOK
  <2>6. CASE RevokeList(c)
    BY <1>0, <1>2, <2>6, RevokeListShape DEF SpentInv, store
  <2>7. CASE RevokeListed(c)
    BY <1>0, <1>2, <2>7, RevokeListedShape DEF SpentInv
  <2>8. CASE End(c) \/ Fail(c)
    BY <1>0, <1>2, <2>8, EndShape, FailShape DEF Idle, Started
  <2>9. QED
    BY <2>1, <2>2, <2>3, <2>4, <2>5, <2>6, <2>7, <2>8 DEF Work
<1>3. QED
  BY <1>1, <1>2 DEF SpentInv

\* Sessions never become new again, nor live once revoked.
LEMMA SessionStep ==
  ASSUME TInv, NEW c \in Caller, Work(c) \/ \E f \in Forms : Enters(c, f),
         NEW s \in Session
  PROVE  session'[s] \in {session[s], "revoked"}
<1>0. TypeOK
  BY DEF TInv
<1>1. CASE \E f \in Forms : Enters(c, f)
  BY <1>1, EnterShape DEF store
<1>2. CASE StartDelete(c) \/ EndDelete(c) \/ Insert(c) \/ Mark(c) \/ RevokeList(c)
  BY <1>0, <1>2, StartDeleteShape, EndDeleteShape, InsertShape, MarkShape, RevokeListShape
     DEF store
<1>3. CASE RevokeListed(c)
  BY <1>0, <1>3, RevokeListedShape DEF store
<1>4. CASE End(c)
  BY <1>0, <1>4, EndShape
<1>5. CASE Fail(c)
  BY <1>0, <1>5, FailShape
<1>6. QED
  BY <1>1, <1>2, <1>3, <1>4, <1>5 DEF Work

\* Closing under the steps of a call.
LEMMA StepClosing ==
  ASSUME TInv, NEW c \in Caller, Work(c) \/ \E f \in Forms : Enters(c, f)
  PROVE  Closing'
<1> USE DEF At, Same
<1> SUFFICES ASSUME NEW d \in Caller, NEW s \in call'[d].before
             PROVE  /\ session'[s] # "new"
                    /\ At(d, "revoke")' => s \in call'[d].listed \/ session'[s] = "revoked"
                    /\ At(d, "end")' => s \in pend'[d].close \/ session'[s] = "revoked"
  BY DEF Closing
<1>0. TypeOK /\ CallOK(c) /\ Closing /\ TypeOK'
  <2>1. [TicketNext]_tvars
    BY DEF TicketNext, Enters
  <2>2. QED
    BY <2>1, NextTypeOK DEF TInv, CallInv
<1>a. s \in Session
  BY <1>0 DEF TypeOK, Calls
<1>b. session'[s] \in {session[s], "revoked"}
  BY <1>a, SessionStep
<1>1. CASE d # c
  <2>1. call'[d] = call[d] /\ pend'[d] = pend[d]
    BY <1>0, <1>1, Others
  <2>2. /\ session[s] # "new"
        /\ At(d, "revoke") => s \in call[d].listed \/ session[s] = "revoked"
        /\ At(d, "end") => s \in pend[d].close \/ session[s] = "revoked"
    BY <1>0, <2>1 DEF Closing
  <2>3. QED
    BY <1>b, <2>1, <2>2
<1>2. ASSUME d = c, NEW f \in Forms, Enters(c, f)
      PROVE  session'[s] # "new" /\ call'[d].at \notin {"revoke", "end"}
  <2>1. PICK op, label, t, S : /\ call'[c] = Started(op, label, f, t, S)
                               /\ S \subseteq Live /\ label \notin {"revoke", "end"}
    BY <1>2, EnterShape
  <2>2. s \in Live /\ call'[d].at \notin {"revoke", "end"}
    BY <1>2, <2>1 DEF Started
  <2>3. QED
    BY <1>b, <2>2 DEF Live
<1>3. CASE d = c /\ (End(c) \/ Fail(c))
  BY <1>0, <1>3, EndShape, FailShape DEF Idle, Started
<1>4. CASE d = c /\ Work(c) /\ ~End(c) /\ ~Fail(c)
  <2>1. call'[c].op = call[c].op /\ call'[c].before \subseteq call[c].before
    BY <1>0, <1>4, StartDeleteShape, EndDeleteShape, InsertShape, MarkShape, RevokeListShape,
       RevokeListedShape DEF Work
  <2>2. s \in call[c].before /\ session[s] # "new"
    BY <1>0, <1>4, <2>1 DEF Closing
  <2>3. session'[s] # "new"
    BY <1>b, <2>2
  <2>4. CASE RevokeList(c)
    <3>1. /\ call'[c].at = "revoke" /\ session' = session
          /\ s \in Live => s \in call'[c].listed
      BY <1>0, <1>4, <2>4, RevokeListShape DEF store
    <3>2. session[s] \in {"live", "revoked"}
      BY <1>0, <1>a, <2>2 DEF TypeOK
    <3>3. QED
      BY <1>4, <1>a, <2>3, <3>1, <3>2 DEF Live
  <2>5. CASE RevokeListed(c)
    <3>1. s \in call[c].listed \/ session[s] = "revoked"
      BY <1>0, <2>2, <2>5, RevokeListedShape DEF Closing
    <3>2. call'[c].at = "end"
      BY <1>0, <2>5, RevokeListedShape
    <3>3. s \in pend'[c].close \/ session'[s] = "revoked"
      BY <1>0, <1>a, <1>b, <2>5, <3>1, RevokeListedShape DEF store
    <3>4. QED
      BY <1>4, <2>3, <3>2, <3>3
  <2>6. CASE StartDelete(c) \/ Mark(c)
    BY <1>0, <1>4, <2>3, <2>6, StartDeleteShape, MarkShape
  <2>7. CASE EndDelete(c) \/ Insert(c)
    <3>1. \/ call'[c].at \in {"create", "list"}
          \/ call[c].op \in {"discard", "request"}
      BY <1>0, <2>7, EndDeleteShape, InsertShape DEF CallOK
    <3>2. call'[c].at \in {"create", "list"}
      BY <1>0, <2>2, <3>1 DEF CallOK
    <3>3. QED
      BY <1>4, <2>3, <3>2
  <2>8. QED
    BY <1>4, <2>4, <2>5, <2>6, <2>7 DEF Work
<1>5. QED
  BY <1>1, <1>2, <1>3, <1>4

\* OwedInv under the steps of a call.
LEMMA StepOwed ==
  ASSUME TInv, NEW c \in Caller, Work(c) \/ \E f \in Forms : Enters(c, f)
  PROVE  OwedInv'
<1> USE DEF At, Same
<1> SUFFICES ASSUME NEW t \in Ticket \ broken', NEW s \in owed'[t]
             PROVE  \/ session'[s] = "revoked"
                    \/ \E e \in Caller : Committed(e)' /\ call'[e].mine = t /\ s \in call'[e].before
  BY DEF OwedInv
<1>0. TypeOK /\ CallOK(c) /\ Closing /\ OwedInv /\ TypeOK'
  <2>1. [TicketNext]_tvars
    BY DEF TicketNext, Enters
  <2>2. QED
    BY <2>1, NextTypeOK DEF TInv, CallInv
<1>a. s \in Session
  BY <1>0 DEF TypeOK
<1>b. session'[s] \in {session[s], "revoked"}
  BY <1>a, SessionStep
<1>c. ~Fail(c) => broken' = broken
  <2>1. ASSUME NEW f \in Forms, Enters(c, f) PROVE broken' = broken
    <3>1. UNCHANGED <<store, expired, pend, history>>
      BY <2>1, EnterShape
    <3>2. QED
      BY <3>1 DEF history
  <2>2. CASE Work(c) /\ ~Fail(c)
    BY <2>2, <1>0, StartDeleteShape, EndDeleteShape, InsertShape, MarkShape, RevokeListShape,
       RevokeListedShape, EndShape DEF Work, history
  <2>3. QED
    BY <2>1, <2>2
<1>d. t \in Ticket \ broken
  BY <1>0, <1>c, FailShape
<1>1. CASE s \in owed[t]
  <2>1. CASE session[s] = "revoked"
    BY <1>b, <2>1
  <2>2. ASSUME NEW e \in Caller, e # c, Committed(e), call[e].mine = t, s \in call[e].before
        PROVE  Committed(e)' /\ call'[e].mine = t /\ s \in call'[e].before
    BY <1>0, <2>2, Others DEF Committed
  <2>3. ASSUME Committed(c), call[c].mine = t, s \in call[c].before
        PROVE  \/ session'[s] = "revoked"
               \/ Committed(c)' /\ call'[c].mine = t /\ s \in call'[c].before
    <3>1. CASE RevokeList(c)
      <4>1. s \in call'[c].before
        BY <1>0, <1>d, <2>3, <3>1, RevokeListShape
      <4>2. QED
        BY <1>0, <2>3, <3>1, <4>1, RevokeListShape DEF Committed
    <3>2. CASE RevokeListed(c)
      <4>1. s \in call[c].listed \/ session[s] = "revoked"
        BY <1>0, <2>3, <3>2, RevokeListedShape DEF Closing
      <4>2. call[c].form # "tx"
        BY <2>3 DEF Committed
      <4>3. QED
        BY <1>0, <1>a, <1>b, <3>2, <4>1, <4>2, RevokeListedShape
    <3>3. CASE Fail(c)
      BY <1>0, <2>3, <3>3, FailShape
    <3>4. CASE \E f \in Forms : Enters(c, f)
      BY <2>3, <3>4, EnterShape DEF Committed
    <3>5. CASE StartDelete(c) \/ EndDelete(c) \/ Insert(c) \/ Mark(c) \/ End(c)
      BY <1>0, <2>3, <3>5, StartDeleteShape, EndDeleteShape, InsertShape, MarkShape, EndShape
         DEF Committed
    <3>6. QED
      BY <3>1, <3>2, <3>3, <3>4, <3>5 DEF Work
  <2>4. QED
    BY <1>0, <1>1, <1>d, <2>1, <2>2, <2>3 DEF OwedInv
<1>2. CASE s \notin owed[t]
  <2>1. /\ Owe(c)
        /\ \/ EndDelete(c) /\ ~InTx(c) /\ call[c].op = "spend"
           \/ Mark(c) /\ ~InTx(c)
           \/ End(c) /\ InTx(c) /\ call[c].op \in {"spend", "mark"}
    <3>1. owed' # owed
      BY <1>2
    <3>2. CASE \E f \in Forms : Enters(c, f)
      BY <3>1, <3>2, EnterShape DEF history
    <3>a. ~RevokeList(c)
      BY <1>0, <1>2, RevokeListShape
    <3>3. CASE StartDelete(c) \/ Insert(c) \/ RevokeListed(c) \/ Fail(c)
      BY <1>0, <3>1, <3>3, StartDeleteShape, InsertShape, RevokeListedShape,
         FailShape DEF history
    <3>4. CASE EndDelete(c)
      BY <1>0, <3>1, <3>4, EndDeleteShape
    <3>5. CASE Mark(c)
      BY <1>0, <3>1, <3>5, MarkShape
    <3>6. CASE End(c)
      BY <1>0, <3>1, <3>6, EndShape
    <3>7. QED
      BY <3>2, <3>a, <3>3, <3>4, <3>5, <3>6 DEF Work
  <2>2. call[c].mine = t /\ s \in call[c].before
    BY <1>0, <1>2, <2>1 DEF Owe, TypeOK
  <2>3. CASE EndDelete(c) /\ ~InTx(c) /\ call[c].op = "spend"
    BY <1>0, <2>2, <2>3, EndDeleteShape DEF Committed, InTx
  <2>4. CASE Mark(c) /\ ~InTx(c)
    BY <1>0, <2>2, <2>4, MarkShape DEF Committed, InTx, CallOK
  <2>5. CASE End(c)
    <3>1. s \in pend[c].close \/ session[s] = "revoked"
      BY <1>0, <2>2, <2>5, EndShape DEF Closing
    <3>2. QED
      BY <1>0, <1>a, <1>b, <2>5, <3>1, EndShape
  <2>6. QED
    BY <2>1, <2>3, <2>4, <2>5
<1>3. QED
  BY <1>1, <1>2

\* FormInv under the steps of a call.
LEMMA StepForm ==
  ASSUME TInv, NEW c \in Caller, Work(c) \/ \E f \in Forms : Enters(c, f)
  PROVE  FormInv'
<1> USE DEF At, Same
<1>0. TypeOK /\ CallOK(c) /\ FormInv
  BY DEF TInv, CallInv
<1>1. /\ call'[c].at = "idle" \/ call'[c].form \in Forms
      /\ broken' = broken \/ "direct" \in Forms
  <2>1. ASSUME NEW f \in Forms, Enters(c, f)
        PROVE  call'[c].form \in Forms /\ broken' = broken
    <3>1. PICK op, label, t, S : call'[c] = Started(op, label, f, t, S)
      BY <2>1, EnterShape
    <3>2. UNCHANGED <<store, expired, pend, history>>
      BY <2>1, EnterShape
    <3>3. QED
      BY <3>1, <3>2 DEF Started, history
  <2>2. CASE End(c)
    BY <1>0, <2>2, EndShape DEF Idle, Started
  <2>3. CASE Fail(c)
    BY <1>0, <2>3, FailShape DEF Idle, Started, Committed, FormInv
  <2>4. CASE Work(c) /\ ~End(c) /\ ~Fail(c)
    <3>1. call'[c].form = call[c].form /\ broken' = broken /\ call[c].at # "idle"
      BY <1>0, <2>4, StartDeleteShape, EndDeleteShape, InsertShape, MarkShape,
         RevokeListShape, RevokeListedShape DEF Work, history
    <3>2. QED
      BY <1>0, <3>1 DEF FormInv
  <2>5. QED
    BY <2>1, <2>2, <2>3, <2>4
<1>2. \A d \in Caller \ {c} : call'[d] = call[d]
  BY <1>0, Others
<1>3. QED
  BY <1>0, <1>1, <1>2 DEF FormInv

\* No step of the tickets leaves TInv.
LEMMA NextTInv == TInv /\ [TicketNext]_tvars => TInv'
<1> SUFFICES ASSUME TInv, [TicketNext]_tvars PROVE TInv'
  OBVIOUS
<1>1. TypeOK' /\ CallInv'
  BY NextTypeOK, NextCallInv
<1>2. ASSUME NEW c \in Caller, Work(c) \/ \E f \in Forms : Enters(c, f) PROVE TInv'
  BY <1>1, <1>2, StepTickets, StepSpent, StepClosing, StepOwed, StepForm DEF TInv
<1>3. CASE Surroundings \/ UNCHANGED tvars
  <2>1. UNCHANGED <<tickets, call, pend, author, spent, owed, broken>>
    BY <1>3 DEF Surroundings, Login, Expire, tvars, history, store
  <2>2. \A s \in Session : session[s] # "new" => session'[s] = session[s]
    <3>1. ASSUME NEW r \in Session, Login(r), NEW s \in Session, session[s] # "new"
          PROVE  session'[s] = session[s]
      BY <3>1 DEF Login, TInv, TypeOK
    <3>2. CASE session' = session
      BY <3>2
    <3>3. QED
      BY <1>3, <3>1, <3>2 DEF Surroundings, Expire, tvars, store
  <2>3. FreshInv' /\ SpentInv' /\ FormInv' /\ OneTicketPerCaller' /\ SpentAreGone'
    BY <2>1 DEF TInv, FreshInv, Fresh, At, SpentInv, FormInv, OneTicketPerCaller, SpentAreGone
  <2>4. Closing'
    <3>1. ASSUME NEW c \in Caller PROVE call[c].before \subseteq Session
      BY <3>1 DEF TInv, TypeOK, Calls
    <3>2. QED
      BY <2>1, <2>2, <3>1 DEF TInv, Closing, At
  <2>5. OwedInv'
    <3>1. ASSUME NEW t \in Ticket, NEW s \in owed[t] PROVE s \in Session
      BY <3>1 DEF TInv, TypeOK
    <3>2. QED
      BY <2>1, <2>2, <3>1 DEF TInv, OwedInv, Committed, At
  <2>6. QED
    BY <1>1, <2>3, <2>4, <2>5 DEF TInv
<1>4. QED
  BY <1>2, <1>3 DEF TicketNext, Enters

\* The step with which a call returns nil closes what the call found live.
LEMMA EndCloses ==
  ASSUME TInv, NEW c \in Caller, End(c), NEW s \in call[c].before
  PROVE  session'[s] = "revoked"
<1>1. s \in Session
  BY DEF TInv, TypeOK, Calls
<1>2. s \in pend[c].close \/ session[s] = "revoked"
  BY DEF TInv, Closing, End
<1>3. QED
  BY <1>1, <1>2 DEF End, Apply

-----------------------------------------------------------------------------
(* Refinement: what TicketNext does, TicketStore allows *)

\* The tickets that the store does not know of yet.
New == {t \in Ticket : t > made \/ \E c \in Caller : Fresh(c) /\ call[c].mine = t}

\* The status of a ticket is told by where it is.
StatusIs(t) ==
  /\ Status(t) = "stored" <=> t \in tickets
  /\ Status(t) = "new" <=> t \in New
  /\ Status(t) = "gone" <=> t \notin tickets \cup New

StatusInv ==
  /\ New \cap tickets = {} /\ tickets \subseteq Ticket
  /\ \A t \in Ticket : StatusIs(t)

LEMMA StatusOf == TInv => StatusInv
<1> SUFFICES ASSUME TInv PROVE StatusInv
  OBVIOUS
<1>1. \A t \in tickets : t \in Ticket /\ ~(t > made)
  BY TicketsAssumption DEF TInv, TypeOK, Ticket
<1>2. \A c \in Caller : Fresh(c) => call[c].mine \notin tickets
  BY DEF TInv, FreshInv
<1>3. New \cap tickets = {}
  BY <1>1, <1>2 DEF New
<1>4. QED
  BY <1>1, <1>3 DEF StatusInv, StatusIs, Status, New

\* The rows that a step marks are in the table before it.
LEMMA MarkedStep ==
  ASSUME TInv, NEW c \in Caller, Work(c) \/ \E f \in Forms : Enters(c, f)
  PROVE  marked \subseteq marked' /\ marked' \ marked \subseteq tickets
<1>1. ASSUME NEW w, Apply(w) PROVE marked \subseteq marked' /\ marked' \ marked \subseteq tickets
  BY <1>1 DEF Apply
<1>2. ASSUME NEW b, NEW w, Write(c, b, w)
      PROVE  marked \subseteq marked' /\ marked' \ marked \subseteq tickets
  BY <1>1, <1>2 DEF Write, store
<1>3. CASE \E f \in Forms : Enters(c, f)
  BY <1>3, EnterShape DEF store
<1>4. CASE StartDelete(c) \/ RevokeList(c)
  BY <1>4 DEF StartDelete, RevokeList, store
<1>5. CASE EndDelete(c) \/ Insert(c) \/ Mark(c) \/ RevokeListed(c)
  BY <1>2, <1>5 DEF EndDelete, Insert, Mark, RevokeListed
<1>6. CASE End(c)
  BY <1>1, <1>6 DEF End
<1>7. CASE Fail(c)
  BY <1>1, <1>7 DEF Fail
<1>8. QED
  BY <1>3, <1>4, <1>5, <1>6, <1>7 DEF Work

\* A call makes a fresh ticket, keeps it, inserts it or gives it up.
LEMMA FreshStep ==
  ASSUME TInv, NEW c \in Caller, Work(c) \/ \E f \in Forms : Enters(c, f)
  PROVE  \/ ~Fresh(c) /\ ~Fresh(c)' /\ made' = made
         \/ Fresh(c) /\ Fresh(c)' /\ made' = made /\ call'[c].mine = call[c].mine
         \/ ~Fresh(c) /\ Fresh(c)' /\ made' = made + 1 /\ call'[c].mine = made + 1
         \/ Fresh(c) /\ ~Fresh(c)' /\ made' = made /\ call[c].mine \in tickets'
         \/ Fresh(c) /\ ~Fresh(c)' /\ made' = made /\ Fail(c)
<1> USE DEF At, Fresh
<1>0. TypeOK /\ CallOK(c)
  BY DEF TInv, CallInv
<1>1. ASSUME NEW f \in Forms, Enters(c, f)
      PROVE  \/ ~Fresh(c) /\ ~Fresh(c)' /\ made' = made
             \/ ~Fresh(c) /\ Fresh(c)' /\ made' = made + 1 /\ call'[c].mine = made + 1
  <2>1. pend'[c] = NoWrites /\ ~Fresh(c)
    BY <1>1, EnterShape DEF NoWrites
  <2>2. pend'[c].ins = {}
    BY <2>1 DEF NoWrites
  <2>3. QED
    BY <1>1, <2>1, <2>2, EnterFields
<1>2. CASE StartDelete(c) \/ RevokeList(c)
  BY <1>0, <1>2, StartDeleteShape, RevokeListShape DEF CallOK
<1>3. CASE EndDelete(c)
  BY <1>0, <1>3, EndDeleteShape DEF CallOK
<1>4. CASE Insert(c)
  BY <1>0, <1>4, InsertShape DEF CallOK, NoWrites
<1>5. CASE Mark(c)
  BY <1>0, <1>5, MarkShape DEF CallOK
<1>6. CASE RevokeListed(c)
  BY <1>0, <1>6, RevokeListedShape DEF CallOK
<1>7. CASE End(c)
  <2>1. ~Fresh(c)' /\ made' = made
    BY <1>0, <1>7, EndShape DEF Idle, Started, NoWrites
  <2>2. Fresh(c) => call[c].mine \in tickets'
    BY <1>0, <1>7, EndShape DEF CallOK
  <2>3. QED
    BY <2>1, <2>2
<1>8. CASE Fail(c)
  BY <1>0, <1>8, FailShape DEF Idle, Started, NoWrites
<1>9. QED
  BY <1>1, <1>2, <1>3, <1>4, <1>5, <1>6, <1>7, <1>8 DEF Work

\* The store gets to know of a ticket only by the end of its being fresh.
LEMMA NewStep ==
  ASSUME TInv, NEW c \in Caller, Work(c) \/ \E f \in Forms : Enters(c, f)
  PROVE  New' = IF Fresh(c) /\ ~Fresh(c)' THEN New \ {call[c].mine} ELSE New
<1> DEFINE Mine(t) == Fresh(c) /\ call[c].mine = t
           OtherMine(t) == \E d \in Caller \ {c} : Fresh(d) /\ call[d].mine = t
<1>0. TypeOK /\ FreshInv /\ made \in Nat /\ call[c].mine \in 0..made
  BY TicketsAssumption DEF TInv, TypeOK, Calls
<1>1. \A t : OtherMine(t)' <=> OtherMine(t)
  <2>1. \A d \in Caller \ {c} : (Fresh(d)' <=> Fresh(d)) /\ call'[d].mine = call[d].mine
    BY <1>0, Others DEF Fresh, At
  <2>2. QED
    BY <2>1
<1>2. /\ New = {t \in Ticket : t > made \/ Mine(t) \/ OtherMine(t)}
      /\ New' = {t \in Ticket : t > made' \/ Mine(t)' \/ OtherMine(t)'}
  BY DEF New
<1>3. CASE ~Fresh(c) /\ ~Fresh(c)' /\ made' = made
  <2>1. \A t : ~Mine(t) /\ ~Mine(t)'
    BY <1>3
  <2> HIDE DEF Mine, OtherMine
  <2>2. QED
    BY <1>1, <1>2, <1>3, <2>1
<1>4. CASE Fresh(c) /\ Fresh(c)' /\ made' = made /\ call'[c].mine = call[c].mine
  <2>1. \A t : Mine(t)' <=> Mine(t)
    BY <1>4
  <2> HIDE DEF Mine, OtherMine
  <2>2. QED
    BY <1>1, <1>2, <1>4, <2>1
<1>5. CASE ~Fresh(c) /\ Fresh(c)' /\ made' = made + 1 /\ call'[c].mine = made + 1
  <2>1. \A t : ~Mine(t) /\ (Mine(t)' <=> t = made + 1)
    BY <1>5
  <2>2. \A t \in Ticket : t > made + 1 \/ t = made + 1 <=> t > made
    BY <1>0, TicketsAssumption DEF Ticket
  <2> HIDE DEF Mine, OtherMine
  <2>3. QED
    BY <1>1, <1>2, <1>5, <2>1, <2>2
<1>6. CASE Fresh(c) /\ ~Fresh(c)' /\ made' = made
  <2>1. \A t : ~Mine(t)' /\ (Mine(t) <=> t = call[c].mine)
    BY <1>6
  <2>2. ~(call[c].mine > made) /\ ~OtherMine(call[c].mine)
    BY <1>0, <1>6 DEF FreshInv
  <2> HIDE DEF Mine, OtherMine
  <2>3. QED
    BY <1>1, <1>2, <1>6, <2>1, <2>2
<1>7. QED
  BY FreshStep, <1>3, <1>4, <1>5, <1>6

\* A step that moves tickets forward, and marks and spends those that it may,
\* is a commit.
LEMMA IsCommit ==
  ASSUME \A t \in Ticket : \/ Status(t)' = Status(t)
                           \/ Status(t) = "new" /\ Status(t)' = "stored"
                           \/ Status(t) = "stored" /\ Status(t)' = "gone",
         marked \subseteq marked',
         \A t \in marked' \ marked : t \in Ticket /\ Status(t) = "stored",
         spent \subseteq spent',
         \A t \in spent' \ spent :
           t \in Ticket /\ Status(t) # "new" /\ Status(t)' = "gone",
         \A s \in Session : session[s] = "revoked" => session'[s] = "revoked"
  PROVE  Store!Commit
<1> DEFINE I == {t \in Ticket : Status(t) = "new" /\ Status(t)' = "stored"}
           D == {t \in Ticket : Status(t) = "stored" /\ Status(t)' = "gone"}
<1>1. I \in SUBSET Store!In("new") /\ D \in SUBSET Store!In("stored")
  BY DEF Store!In
<1>2. Store!Replace(I, D)
  BY DEF Store!Replace
<1>3. \E M \in SUBSET Store!In("stored") : marked' = marked \cup M
  <2>1. marked' \ marked \in SUBSET Store!In("stored")
    BY DEF Store!In
  <2>2. marked' = marked \cup (marked' \ marked)
    OBVIOUS
  <2>3. QED
    BY <2>1, <2>2
<1>4. \E R \in SUBSET Store!Spendable : spent' = spent \cup R
  <2>1. spent' \ spent \in SUBSET Store!Spendable
    BY DEF Store!Spendable
  <2>2. spent' = spent \cup (spent' \ spent)
    OBVIOUS
  <2>3. QED
    BY <2>1, <2>2
<1>5. \E S \in SUBSET Session : {s \in Session : session'[s] = "revoked"} =
        {s \in Session : session[s] = "revoked"} \cup S
  <2>1. {s \in Session : session'[s] = "revoked"} =
          {s \in Session : session[s] = "revoked"} \cup {s \in Session : session'[s] = "revoked"}
    OBVIOUS
  <2>2. QED
    BY <2>1
<1> HIDE DEF I, D
<1>6. QED
  BY <1>1, <1>2, <1>3, <1>4, <1>5 DEF Store!Commit

\* What a step marks and spends, and the sessions that it closes.
LEMMA CommitParts ==
  ASSUME TInv, NEW c \in Caller, Work(c) \/ \E f \in Forms : Enters(c, f)
  PROVE  /\ marked \subseteq marked'
         /\ \A t \in marked' \ marked : t \in Ticket /\ Status(t) = "stored"
         /\ spent \subseteq spent'
         /\ \A t \in spent' \ spent :
              t \in Ticket /\ Status(t) # "new" /\ Status(t)' = "gone"
         /\ \A s \in Session : session[s] = "revoked" => session'[s] = "revoked"
<1>0. TypeOK /\ CallOK(c) /\ FreshInv
  BY DEF TInv, CallInv
<1>1. TInv'
  <2>1. [TicketNext]_tvars
    BY DEF TicketNext, Enters
  <2>2. QED
    BY <2>1, NextTInv
<1>s. StatusInv'
  BY <1>1, StatusOf, PTL
<1>2. marked \subseteq marked' /\ \A t \in marked' \ marked : t \in Ticket /\ Status(t) = "stored"
  BY MarkedStep, StatusOf DEF StatusInv, StatusIs
<1>3. \A s \in Session : session[s] = "revoked" => session'[s] = "revoked"
  BY SessionStep
<1>4. CASE spent' = spent
  BY <1>2, <1>3, <1>4
<1>5. CASE /\ call[c].op = "spend" /\ spent' = spent \cup {call[c].mine}
           /\ call[c].mine \notin tickets' /\ tickets' \subseteq tickets
  <2>1. call[c].mine \in 1..made /\ call[c].mine \in Ticket /\ ~(call[c].mine > made)
    BY <1>0, <1>5, TicketsAssumption DEF CallOK, TypeOK, Calls, Ticket
  <2>2. ASSUME NEW d \in Caller, Fresh(d) PROVE call[d].mine # call[c].mine
    <3>1. d # c
      BY <1>0, <1>5, <2>2 DEF CallOK, Fresh, At
    <3>2. QED
      BY <1>0, <2>2, <3>1 DEF FreshInv
  <2>3. call[c].mine \notin New
    BY <2>1, <2>2 DEF New
  <2>4. call[c].mine \notin New'
    BY <2>3, NewStep
  <2>5. Status(call[c].mine) # "new"
    BY <2>1, <2>3, StatusOf DEF StatusInv, StatusIs
  <2>6. \A t \in Ticket : t \notin tickets' /\ t \notin New' => Status(t)' = "gone"
    BY <1>s DEF StatusInv, StatusIs
  <2>7. QED
    BY <1>2, <1>3, <1>5, <2>1, <2>4, <2>5, <2>6
<1>6. QED
  BY <1>4, <1>5, TicketStep

\* A step of a call is a commit or gives up a ticket.
LEMMA StepStore ==
  ASSUME TInv, NEW c \in Caller, Work(c) \/ \E f \in Forms : Enters(c, f)
  PROVE  Store!Next
<1>0. TypeOK /\ CallOK(c) /\ FreshInv
  BY DEF TInv, CallInv
<1>1. TInv'
  <2>1. [TicketNext]_tvars
    BY DEF TicketNext, Enters
  <2>2. QED
    BY <2>1, NextTInv
<1>s. StatusInv'
  BY <1>1, StatusOf, PTL
<1>2. /\ New' \cap tickets' = {}
      /\ \A t \in Ticket : /\ Status(t)' = "stored" <=> t \in tickets'
                           /\ Status(t)' = "new" <=> t \in New'
                           /\ Status(t)' = "gone" <=> t \notin tickets' \cup New'
  BY <1>s DEF StatusInv, StatusIs
<1>3. CASE ~(Fresh(c) /\ ~Fresh(c)')
  <2>1. New' = New
    BY <1>3, NewStep
  <2>2. tickets' \subseteq tickets
    <3>1. ASSUME Fresh(c) PROVE call[c].mine \notin tickets'
      <4>1. Fresh(c)' /\ call'[c].mine = call[c].mine
        BY <1>3, <3>1, FreshStep
      <4>2. QED
        BY <4>1, StepFresh
    <3>2. QED
      BY <3>1, TicketStep
  <2>3. \A t \in Ticket : \/ Status(t)' = Status(t)
                          \/ Status(t) = "stored" /\ Status(t)' = "gone"
    BY <1>2, <2>1, <2>2, StatusOf DEF StatusInv, StatusIs
  <2>4. Store!Commit
    BY <2>3, CommitParts, IsCommit
  <2>5. QED
    BY <2>4 DEF Store!Next
<1>4. CASE Fresh(c) /\ ~Fresh(c)' /\ call[c].mine \in tickets'
  <2>1. New' = New \ {call[c].mine} /\ call[c].mine \in New
    <3>1. call[c].mine \in Ticket
      BY <1>0, <1>4 DEF FreshInv
    <3>2. QED
      BY <1>4, <3>1, NewStep DEF New
  <2>2. \A t \in tickets' : t \in tickets \/ t = call[c].mine
    BY TicketStep
  <2>3. \A t \in Ticket : \/ Status(t)' = Status(t)
                          \/ Status(t) = "new" /\ Status(t)' = "stored"
                          \/ Status(t) = "stored" /\ Status(t)' = "gone"
    BY <1>2, <1>4, <2>1, <2>2, StatusOf DEF StatusInv, StatusIs
  <2>4. Store!Commit
    BY <2>3, CommitParts, IsCommit
  <2>5. QED
    BY <2>4 DEF Store!Next
<1>5. CASE Fresh(c) /\ ~Fresh(c)' /\ Fail(c)
  <2>1. New' = New \ {call[c].mine} /\ call[c].mine \in New
    <3>1. call[c].mine \in Ticket
      BY <1>0, <1>5 DEF FreshInv
    <3>2. QED
      BY <1>5, <3>1, NewStep DEF New
  <2>2. Apply([NoWrites EXCEPT !.close = {}]) /\ spent' = spent
    <3>1. ~At(c, "revoke")
      BY <1>0, <1>5 DEF CallOK, Fresh, At
    <3>2. QED
      BY <1>5, <3>1 DEF Fail
  <2>3. UNCHANGED <<tickets, marked, session, spent>>
    BY <1>0, <2>2 DEF Apply, NoWrites, TypeOK
  <2>4. \A t \in Ticket : Status(t)' = IF t = call[c].mine THEN "gone" ELSE Status(t)
    BY <1>2, <2>1, <2>3, StatusOf DEF StatusInv, StatusIs
  <2>5. call[c].mine \in Store!In("new")
    BY <2>1, StatusOf DEF Store!In, New, StatusInv, StatusIs
  <2>6. Store!GiveUp
    BY <2>3, <2>4, <2>5 DEF Store!GiveUp
  <2>7. QED
    BY <2>6 DEF Store!Next
<1>6. QED
  BY <1>3, <1>4, <1>5, FreshStep

LEMMA InitStore == Init => Store!Init
<1> SUFFICES ASSUME Init PROVE Store!Init
  OBVIOUS
<1>1. \A t \in Ticket : t > made /\ t \notin tickets
  BY TicketsAssumption DEF Init, Ticket
<1>2. \A t \in Ticket : Status(t) = "new"
  BY <1>1 DEF Status
<1>3. QED
  BY <1>2 DEF Init, Store!Init

LEMMA NextStore == TInv /\ [TicketNext]_tvars => [Store!Next]_(Store!vars)
<1> SUFFICES ASSUME TInv, [TicketNext]_tvars PROVE [Store!Next]_(Store!vars)
  OBVIOUS
<1>1. ASSUME NEW c \in Caller, Work(c) \/ \E f \in Forms : Enters(c, f) PROVE Store!Next
  BY <1>1, StepStore
<1>2. CASE Surroundings \/ UNCHANGED tvars
  <2>1. UNCHANGED <<made, tickets, call, pend, marked, spent>>
    BY <1>2 DEF Surroundings, Login, Expire, tvars, history, store
  <2>2. \A t \in Ticket : Status(t)' = Status(t)
    BY <2>1 DEF Status, Fresh, At
  <2>3. \A s \in Session : session'[s] = "revoked" <=> session[s] = "revoked"
    <3>1. ASSUME NEW r \in Session, Login(r), NEW s \in Session
          PROVE  session'[s] = "revoked" <=> session[s] = "revoked"
      BY <3>1 DEF Login, TInv, TypeOK
    <3>2. CASE session' = session
      BY <3>2
    <3>3. QED
      BY <1>2, <3>1, <3>2 DEF Surroundings, Expire, tvars, store
  <2>4. QED
    BY <2>1, <2>2, <2>3 DEF Store!vars
<1>3. QED
  BY <1>1, <1>2 DEF TicketNext, Enters

-----------------------------------------------------------------------------
(* The password reset *)

\* A step of the password reset is a step of the tickets.
LEMMA NextIsTicketNext == Next => TicketNext
<1> SUFFICES ASSUME Next PROVE TicketNext
  OBVIOUS
<1>1. ASSUME NEW c \in Caller, NEW f \in Forms,
             \/ RequestResetPassword(c, f) \/ DeleteResetPasswordRequest(c, f)
             \/ UpdateResetPasswordRequest(c, f)
             \/ \E t \in Ticket : ValidateResetPassword(c, f, t)
      PROVE  TicketNext
  <2>1. Enters(c, f)
    BY <1>1 DEF Enters, RequestResetPassword, DeleteResetPasswordRequest,
                UpdateResetPasswordRequest, ValidateResetPassword
  <2>2. QED
    BY <2>1 DEF Enters, TicketNext
<1>2. QED
  BY <1>1 DEF Next, ResetWork, TicketNext, Work

\* The inductive invariant holds in every reachable state.
THEOREM ResetInvariance == Spec => []TInv
<1>1. Init => TInv
  BY InitTInv
<1>2. TInv /\ [Next]_tvars => TInv'
  BY NextIsTicketNext, NextTInv
<1>3. QED
  BY <1>1, <1>2, PTL DEF Spec

\* The type invariant.
THEOREM ResetTypeOK == Spec => []TypeOK
<1>1. TInv => TypeOK
  BY DEF TInv
<1>2. QED
  BY <1>1, ResetInvariance, PTL

\* No caller ever has two tickets in the table, so that there are never more
\* tickets than callers, however many requests race.
THEOREM ResetOneTicketPerCaller == Spec => []OneTicketPerCaller
<1>1. TInv => OneTicketPerCaller
  BY DEF TInv
<1>2. QED
  BY <1>1, ResetInvariance, PTL

\* A ticket with which a password was reset is out of the table for good.
THEOREM ResetSpentAreGone == Spec => []SpentAreGone
<1>1. TInv => SpentAreGone
  BY DEF TInv
<1>2. QED
  BY <1>1, ResetInvariance, PTL

\* The sessions live at the beginning of a reset are closed with its ticket, or
\* after it by a direct call that has not failed.
THEOREM ResetSpendingCloses == Spec => []SpendingCloses
<1>1. TInv => SpendingCloses
  BY DEF TInv, OwedInv, SpendingCloses
<1>2. QED
  BY <1>1, ResetInvariance, PTL

\* A call that returns nil and is committed leaves no session live that was
\* live when it began, but for those that its result set lost.
THEOREM ResetNilCloses == Spec => NilCloses
<1>1. TInv /\ [Next]_tvars =>
        [\A c \in Caller :
           End(c) => \A s \in call[c].before : session'[s] = "revoked"]_tvars
  BY EndCloses
<1>2. QED
  BY <1>1, ResetInvariance, PTL DEF Spec, NilCloses

\* What others see of the requests, validations and deletions in progress is a
\* sequence of commits in which no ticket comes back, and none is spent that
\* was never there or stays.
THEOREM ResetRefinement == Spec => StoreSpec
<1>1. Init => Store!Init
  BY InitStore
<1>2. TInv /\ [Next]_tvars => [Store!Next]_(Store!vars)
  BY NextIsTicketNext, NextStore
<1>3. QED
  BY <1>1, <1>2, ResetInvariance, PTL DEF Spec, StoreSpec, Store!Spec

-----------------------------------------------------------------------------
(* The email change *)

\* A step of the email change is a step of the tickets.
LEMMA ENextIsTicketNext == ASSUME TypeOK, [ENext]_vars PROVE [TicketNext]_tvars
<1>1. ASSUME NEW c \in Caller, NEW f \in Forms,
             \/ RequestEmailChange(c, f) \/ DeleteEmailChange(c, f)
             \/ \E t \in Ticket : ConfirmEmailChange(c, f, t) \/ RevokeEmailChange(c, f, t)
      PROVE  TicketNext
  <2>1. Enters(c, f)
    BY <1>1 DEF Enters, RequestEmailChange, DeleteEmailChange, ConfirmEmailChange,
                RevokeEmailChange
  <2>2. QED
    BY <2>1 DEF Enters, TicketNext
<1>2. ASSUME NEW c \in Caller, ConfirmProcessed(c) \/ EmailWork(c) \/ Reload(c)
      PROVE  [TicketNext]_tvars
  <2>1. CASE ConfirmProcessed(c) \/ Reload(c)
    BY <2>1 DEF ConfirmProcessed, Reload
  <2>2. CASE EmailWork(c)
    <3>1. Work(c)
      BY <2>2 DEF EmailWork, Work
    <3>2. QED
      BY <3>1 DEF TicketNext
  <2>3. QED
    BY <1>2, <2>1, <2>2
<1>3. CASE Surroundings
  BY <1>3 DEF TicketNext
<1>4. CASE UNCHANGED vars
  BY <1>4 DEF vars
<1>5. QED
  BY <1>1, <1>2, <1>3, <1>4 DEF ENext

LEMMA InitEInv == EInit => EInv
  BY EmailChangeAssumption DEF EInit, Init, EInv, Known, Idle, Started, NoWrites

\* Confirming more tickets, and filling in a new one, keeps Known.
LEMMA KnownGrows ==
  ASSUME TypeOK, EInv, confirmed \subseteq confirmed',
         \A t \in 1..made : newAddress'[t] = newAddress[t]
  PROVE  Known \subseteq Known'
  BY DEF EInv, Known

\* Known never shrinks and what is stored or carried stays in it.
LEMMA FillKnown ==
  ASSUME TInv, EInv, NEW c \in Caller, Fill(c), made' \in {made, made + 1}, TypeOK'
  PROVE  /\ newAddress' \in [Ticket -> Address] /\ previous' \in [Ticket -> Address]
         /\ \A t \in 1..made' : previous'[t] \in Known'
         /\ mail' \in [Caller -> Known'] /\ UNCHANGED <<confirmed, told>>
<1>0. TypeOK /\ made \in Nat
  BY TicketsAssumption DEF TInv, TypeOK
<1>1. CASE made' = made
  BY <1>0, <1>1 DEF Fill, EInv, Known
<1>2. CASE made' # made
  <2>1. PICK a \in Address : /\ newAddress' = [newAddress EXCEPT ![made'] = a]
                             /\ previous' = [previous EXCEPT ![made'] = mail[c]]
                             /\ mail' = mail
    BY <1>2 DEF Fill, MailOnRequest
  <2>2. UNCHANGED <<confirmed, told>> /\ made' = made + 1 /\ made' \in Ticket
    BY <1>0, <1>2, TicketsAssumption DEF Fill, TypeOK, Ticket
  <2>3. Known' = Known
    <3>1. \A t \in confirmed : newAddress'[t] = newAddress[t]
      BY <1>0, <2>1, <2>2 DEF EInv
    <3>2. QED
      BY <2>2, <3>1 DEF Known
  <2>4. mail[c] \in Known /\ mail[c] \in Address
    BY EmailChangeAssumption, <1>0, TicketsAssumption DEF EInv, Known, Ticket, TypeOK
  <2>5. \A t \in 1..made' : t = made' \/ t \in 1..made
    BY <1>0, <2>2
  <2>6. \A t \in 1..made' : previous'[t] \in Known
    BY <1>0, <2>1, <2>2, <2>4, <2>5 DEF EInv
  <2>7. QED
    BY <2>1, <2>2, <2>3, <2>4, <2>6 DEF EInv
<1>3. QED
  BY <1>1, <1>2

\* What a call in progress makes of the rows to be marked.
LEMMA WorkMarks ==
  ASSUME TInv, EInv, NEW c \in Caller, Work(c)
  PROVE  /\ marked' \subseteq confirmed
         /\ \A d \in Caller : pend'[d].upd \subseteq confirmed
         /\ \A d \in Caller : call'[d].op = "mark" => call'[d].mine \in confirmed
<1>0. TypeOK /\ CallOK(c) /\ pend[c].upd \subseteq confirmed
  BY DEF TInv, CallInv, EInv
<1>1. ASSUME NEW w, w.upd \subseteq confirmed, Apply(w) PROVE marked' \subseteq confirmed
  BY <1>1 DEF Apply, EInv
<1>2. ASSUME NEW w, w.upd \subseteq confirmed, Write(c, TRUE, w) \/ Write(c, FALSE, w)
      PROVE  marked' \subseteq confirmed /\ pend'[c].upd \subseteq confirmed
  <2>1. CASE Write(c, TRUE, w)
    <3>1. pend'[c].upd = pend[c].upd \cup w.upd /\ marked' = marked
      BY <1>0, <2>1 DEF Write, TypeOK, store
    <3>2. QED
      BY <1>0, <1>2, <3>1 DEF EInv
  <2>2. CASE Write(c, FALSE, w)
    BY <1>0, <1>1, <1>2, <2>2 DEF Write
  <2>3. QED
    BY <1>2, <2>1, <2>2
<1>3. marked' \subseteq confirmed /\ pend'[c].upd \subseteq confirmed
  <2>1. CASE StartDelete(c) \/ RevokeList(c)
    BY <1>0, <2>1 DEF StartDelete, RevokeList, EInv, store
  <2>2. CASE EndDelete(c) \/ Insert(c) \/ RevokeListed(c)
    <3>1. PICK w : w.upd = {} /\ (Write(c, TRUE, w) \/ Write(c, FALSE, w))
      <4>1. CASE EndDelete(c)
        <5> DEFINE w == [NoWrites EXCEPT !.del = call[c].seen \cap tickets]
        <5>1. w.upd = {}
          BY DEF NoWrites
        <5>2. Write(c, TRUE, w) \/ Write(c, FALSE, w)
          BY <4>1 DEF EndDelete, Write
        <5>3. QED
          BY <5>1, <5>2
      <4>2. CASE Insert(c)
        <5> DEFINE w == [NoWrites EXCEPT !.ins = {call[c].mine}]
        <5>1. w.upd = {}
          BY DEF NoWrites
        <5>2. Write(c, TRUE, w) \/ Write(c, FALSE, w)
          BY <4>2 DEF Insert, Write
        <5>3. QED
          BY <5>1, <5>2
      <4>3. CASE RevokeListed(c)
        <5> DEFINE w == [NoWrites EXCEPT !.close = call[c].listed]
        <5>1. w.upd = {}
          BY DEF NoWrites
        <5>2. Write(c, TRUE, w) \/ Write(c, FALSE, w)
          BY <4>3 DEF RevokeListed, Write
        <5>3. QED
          BY <5>1, <5>2
      <4>4. QED
        BY <2>2, <4>1, <4>2, <4>3
    <3>2. QED
      BY <1>2, <3>1
  <2>3. CASE Mark(c)
    <3> DEFINE w == [NoWrites EXCEPT !.upd = Updated(c)]
    <3>1. w.upd \subseteq confirmed
      BY <1>0, <2>3 DEF Mark, CallOK, Updated, EInv, NoWrites
    <3>2. Write(c, TRUE, w) \/ Write(c, FALSE, w)
      BY <2>3 DEF Mark, Write
    <3> HIDE DEF w
    <3>3. QED
      BY <1>2, <3>1, <3>2
  <2>4. CASE End(c)
    BY <1>0, <1>1, <2>4 DEF End, TypeOK, NoWrites
  <2>5. CASE Fail(c)
    <3>1. PICK S : Apply([NoWrites EXCEPT !.close = S])
      BY <2>5 DEF Fail
    <3>2. pend'[c] = NoWrites
      BY <1>0, <2>5 DEF Fail, TypeOK
    <3>3. marked' = marked
      BY <1>0, <3>1 DEF Apply, NoWrites
    <3>4. QED
      BY <3>2, <3>3 DEF NoWrites, EInv
  <2>6. QED
    BY <2>1, <2>2, <2>3, <2>4, <2>5 DEF Work
<1>4. call'[c].op = "mark" => call'[c].mine \in confirmed
  <2>1. CASE StartDelete(c) \/ Insert(c) \/ Mark(c) \/ RevokeList(c) \/ RevokeListed(c)
    <3>1. call'[c].op = call[c].op /\ call'[c].mine = call[c].mine
      BY <1>0, <2>1, StartDeleteShape, InsertShape, MarkShape, RevokeListShape,
         RevokeListedShape DEF Same
    <3>2. QED
      BY <3>1 DEF EInv
  <2>2. CASE EndDelete(c)
    BY <1>0, <2>2, EndDeleteShape DEF Same
  <2>3. CASE End(c) \/ Fail(c)
    BY <1>0, <2>3, EndShape, FailShape DEF Idle, Started
  <2>4. QED
    BY <2>1, <2>2, <2>3 DEF Work
<1>5. \A d \in Caller \ {c} : call'[d] = call[d] /\ pend'[d] = pend[d]
  BY <1>0, Others
<1>6. QED
  BY <1>3, <1>4, <1>5 DEF EInv

LEMMA EnterMarks ==
  ASSUME TInv, EInv, NEW c \in Caller, NEW f \in Forms, Enters(c, f)
  PROVE  /\ UNCHANGED <<marked, pend>> /\ made' \in {made, made + 1}
         /\ \A d \in Caller \ {c} : call'[d] = call[d]
<1>1. UNCHANGED <<marked, pend>> /\ made' \in {made, made + 1}
  BY EnterShape DEF store
<1>2. \A d \in Caller \ {c} : call'[d] = call[d]
  BY Others DEF TInv
<1>3. QED
  BY <1>1, <1>2

LEMMA NextEInv == TInv /\ EInv /\ [ENext]_vars => EInv'
<1> SUFFICES ASSUME TInv, EInv, [ENext]_vars PROVE EInv'
  OBVIOUS
<1>0. TypeOK /\ [TicketNext]_tvars /\ TypeOK'
  BY ENextIsTicketNext, NextTypeOK DEF TInv
<1>a. made \in Nat /\ 1..made \subseteq Ticket
  BY <1>0, TicketsAssumption DEF TypeOK, Ticket
<1>1. ASSUME NEW c \in Caller, NEW f \in Forms, RequestEmailChange(c, f) PROVE EInv'
  <2>1. Enters(c, f) /\ Fill(c)
    BY <1>1 DEF Enters, RequestEmailChange
  <2>2. /\ UNCHANGED <<marked, pend>> /\ made' \in {made, made + 1}
        /\ \A d \in Caller \ {c} : call'[d] = call[d]
    BY <2>1, EnterMarks
  <2>3. call'[c].op # "mark"
    BY <1>0, <1>1 DEF RequestEmailChange, RequestFind, MakeFirst, AfterExpired, Started, TypeOK
  <2>4. /\ newAddress' \in [Ticket -> Address] /\ previous' \in [Ticket -> Address]
        /\ \A t \in 1..made' : previous'[t] \in Known'
        /\ mail' \in [Caller -> Known'] /\ UNCHANGED <<confirmed, told>>
    BY <1>0, <2>1, <2>2, FillKnown
  <2>5. confirmed' \subseteq 1..made'
    BY <1>a, <2>2, <2>4 DEF EInv
  <2>6. marked' \subseteq confirmed' /\ \A d \in Caller : pend'[d].upd \subseteq confirmed'
    BY <2>2, <2>4 DEF EInv
  <2>7. \A d \in Caller : call'[d].op = "mark" => call'[d].mine \in confirmed'
    BY <2>2, <2>3, <2>4 DEF EInv
  <2>8. QED
    BY <2>4, <2>5, <2>6, <2>7 DEF EInv
<1>2. ASSUME NEW c \in Caller, NEW f \in Forms, DeleteEmailChange(c, f) PROVE EInv'
  <2>1. Enters(c, f) /\ UNCHANGED evars /\ made' = made
    BY <1>2 DEF Enters, DeleteEmailChange, Discard, Begin
  <2>2. UNCHANGED <<marked, pend>> /\ \A d \in Caller \ {c} : call'[d] = call[d]
    BY <2>1, EnterMarks
  <2>3. call'[c].op # "mark"
    BY <1>0, <1>2 DEF DeleteEmailChange, Discard, Begin, Started, TypeOK
  <2>4. QED
    BY <2>1, <2>2, <2>3 DEF EInv, evars, Known
<1>3. ASSUME NEW c \in Caller, NEW f \in Forms, NEW t \in Ticket, ConfirmEmailChange(c, f, t)
      PROVE  EInv'
  <2>1. Enters(c, f) /\ UNCHANGED <<newAddress, previous, mail, told>> /\ made' = made
    BY <1>3 DEF Enters, ConfirmEmailChange, Discard, MarkFound, Begin
  <2>2. UNCHANGED <<marked, pend>> /\ \A d \in Caller \ {c} : call'[d] = call[d]
    BY <2>1, EnterMarks
  <2>3. \/ call'[c].op # "mark" /\ confirmed' = confirmed
        \/ /\ call'[c].mine = t /\ t \in 1..made /\ confirmed' = confirmed \cup {t}
    <3>1. CASE Discard(c, f) /\ UNCHANGED confirmed
      BY <1>0, <3>1 DEF Discard, Begin, Started, TypeOK
    <3>2. CASE MarkFound(c, f, t) /\ confirmed' = confirmed \cup {t}
      BY <1>0, <3>2 DEF MarkFound, Begin, Newest, Started, TypeOK
    <3>3. QED
      BY <1>3, <3>1, <3>2 DEF ConfirmEmailChange
  <2>4. confirmed \subseteq confirmed' /\ confirmed' \subseteq 1..made
    BY <2>3 DEF EInv
  <2>5. Known \subseteq Known'
    BY <2>1, <2>4 DEF Known
  <2>6. \A d \in Caller : call'[d].op = "mark" => call'[d].mine \in confirmed'
    BY <2>2, <2>3, <2>4 DEF EInv
  <2>7. mail' \in [Caller -> Known'] /\ \A u \in 1..made' : previous'[u] \in Known'
    BY <2>1, <2>5 DEF EInv
  <2>8. QED
    BY <2>1, <2>2, <2>4, <2>6, <2>7 DEF EInv
<1>4. ASSUME NEW c \in Caller, NEW f \in Forms, NEW t \in Ticket, RevokeEmailChange(c, f, t)
      PROVE  EInv'
  <2>1. /\ Enters(c, f) /\ UNCHANGED <<newAddress, previous, confirmed, told>> /\ made' = made
        /\ mail' = [mail EXCEPT ![c] = previous[t]] /\ t \in 1..made
    BY <1>0, <1>4 DEF Enters, RevokeEmailChange, Spend, Begin, Newest, Restored, TypeOK
  <2>2. UNCHANGED <<marked, pend>> /\ \A d \in Caller \ {c} : call'[d] = call[d]
    BY <2>1, EnterMarks
  <2>3. call'[c].op # "mark"
    BY <1>0, <1>4 DEF RevokeEmailChange, Spend, Begin, Started, TypeOK
  <2>4. Known' = Known /\ mail' \in [Caller -> Known]
    BY <2>1 DEF Known, EInv
  <2>5. QED
    BY <2>1, <2>2, <2>3, <2>4 DEF EInv
<1>5. ASSUME NEW c \in Caller, EmailWork(c) PROVE EInv'
  <2>0. Work(c)
    BY <1>5 DEF EmailWork, Work
  <2>1. /\ marked' \subseteq confirmed
        /\ \A d \in Caller : pend'[d].upd \subseteq confirmed
        /\ \A d \in Caller : call'[d].op = "mark" => call'[d].mine \in confirmed
    BY <2>0, WorkMarks
  <2>2. made' \in {made, made + 1} /\ (~EndDelete(c) => made' = made)
    BY <1>0, <2>0, EndDeleteShape, StartDeleteShape, InsertShape, MarkShape, RevokeListShape,
       RevokeListedShape, EndShape, FailShape DEF Work
  <2>3. CASE EndDelete(c) /\ Fill(c)
    <3>1. /\ newAddress' \in [Ticket -> Address] /\ previous' \in [Ticket -> Address]
          /\ \A t \in 1..made' : previous'[t] \in Known'
          /\ mail' \in [Caller -> Known'] /\ UNCHANGED <<confirmed, told>>
      BY <1>0, <2>2, <2>3, FillKnown
    <3>2. confirmed' \subseteq 1..made'
      BY <1>a, <2>2, <3>1 DEF EInv
    <3>3. QED
      BY <2>1, <3>1, <3>2 DEF EInv
  <2>4. CASE RevokeListed(c) /\ UNCHANGED <<newAddress, previous, confirmed, told>>
             /\ mail' = IF call[c].op = "mark"
                        THEN [mail EXCEPT ![c] = newAddress[call[c].mine]] ELSE mail
    <3>1. made' = made /\ Known' = Known
      BY <1>0, <2>4, RevokeListedShape DEF Known
    <3>2. mail' \in [Caller -> Known]
      BY <2>4 DEF EInv, Known
    <3>3. QED
      BY <2>1, <2>4, <3>1, <3>2 DEF EInv
  <2>5. CASE ~EndDelete(c) /\ UNCHANGED <<newAddress, previous, mail, confirmed>>
             /\ told' \subseteq confirmed
    BY <2>1, <2>2, <2>5 DEF EInv, Known
  <2>6. \/ EndDelete(c) /\ Fill(c)
        \/ /\ RevokeListed(c) /\ UNCHANGED <<newAddress, previous, confirmed, told>>
           /\ mail' = IF call[c].op = "mark"
                      THEN [mail EXCEPT ![c] = newAddress[call[c].mine]] ELSE mail
        \/ /\ ~EndDelete(c) /\ UNCHANGED <<newAddress, previous, mail, confirmed>>
           /\ told' \subseteq confirmed
    <3>1. ASSUME EndDelete(c)
          PROVE  ~(StartDelete(c) \/ Mark(c) \/ RevokeList(c) \/ Fail(c) \/ Insert(c) \/ End(c))
      <4>1. call[c].at = "deleting" /\ call'[c].at # "idle"
        BY <1>0, <3>1, EndDeleteShape
      <4>2. ~Fail(c)
        BY <1>0, <4>1, FailShape DEF Idle, Started
      <4>3. QED
        BY <4>1, <4>2 DEF StartDelete, Mark, RevokeList, Insert, End, At
    <3>2. CASE EndDelete(c) /\ Fill(c)
      BY <3>2
    <3>3. CASE (StartDelete(c) \/ Mark(c) \/ RevokeList(c) \/ Fail(c) \/ Insert(c)) /\ UNCHANGED evars
      BY <3>1, <3>3 DEF evars, EInv
    <3>4. CASE /\ End(c)
               /\ told' = IF call[c].op = "mark" THEN told \cup {call[c].mine} ELSE told
               /\ UNCHANGED <<newAddress, previous, mail, confirmed>>
      BY <3>1, <3>4 DEF EInv
    <3>5. QED
      BY <1>5, <3>2, <3>3, <3>4 DEF EmailWork
  <2>7. QED
    BY <2>3, <2>4, <2>5, <2>6
<1>6. ASSUME /\ UNCHANGED <<made, marked, call, pend, newAddress, previous, confirmed>>
             /\ told' \subseteq confirmed
             /\ mail' = mail \/ \E c \in Caller : mail' = [mail EXCEPT ![c] = Registered]
      PROVE  EInv'
  <2>1. Known' = Known
    BY <1>6 DEF Known
  <2>2. mail' \in [Caller -> Known]
    BY <1>6 DEF EInv, Known
  <2>3. QED
    BY <1>6, <2>1, <2>2 DEF EInv
<1>7. ASSUME NEW c \in Caller, ConfirmProcessed(c) \/ Reload(c) PROVE EInv'
  <2>1. /\ UNCHANGED <<made, marked, call, pend, newAddress, previous, confirmed>>
        /\ mail' = mail \/ mail' = [mail EXCEPT ![c] = Registered]
    BY <1>7 DEF ConfirmProcessed, Reload, tvars, store
  <2>2. told' \subseteq confirmed
    BY <1>7 DEF ConfirmProcessed, Reload, EInv
  <2>3. QED
    BY <1>6, <2>1, <2>2
<1>8. CASE Surroundings /\ UNCHANGED evars
  <2>1. UNCHANGED <<made, marked, call, pend>>
    BY <1>8 DEF Surroundings, Login, Expire, store
  <2>2. UNCHANGED <<newAddress, previous, mail, confirmed>> /\ told' \subseteq confirmed
    BY <1>8 DEF evars, EInv
  <2>3. QED
    BY <1>6, <2>1, <2>2
<1>9. CASE UNCHANGED vars
  <2>1. UNCHANGED <<made, marked, call, pend>>
    BY <1>9 DEF vars, tvars, store
  <2>2. UNCHANGED <<newAddress, previous, mail, confirmed>> /\ told' \subseteq confirmed
    BY <1>9 DEF vars, evars, EInv
  <2>3. QED
    BY <1>6, <2>1, <2>2
<1>10. QED
  BY <1>1, <1>2, <1>3, <1>4, <1>5, <1>7, <1>8, <1>9 DEF ENext

\* The inductive invariant holds in every reachable state.
THEOREM EmailInvariance == ESpec => [](TInv /\ EInv)
<1>1. EInit => TInv /\ EInv
  BY InitTInv, InitEInv DEF EInit
<1>2. TInv /\ EInv /\ [ENext]_vars => (TInv /\ EInv)'
  <2>1. TInv => TypeOK
    BY DEF TInv
  <2>2. QED
    BY <2>1, ENextIsTicketNext, NextTInv, NextEInv
<1>3. QED
  BY <1>1, <1>2, PTL DEF ESpec

\* A row is processed only if the token of this very ticket was presented.
THEOREM EmailProcessedWasConfirmed == ESpec => []ProcessedWasConfirmed
<1>1. EInv => ProcessedWasConfirmed
  BY DEF EInv, ProcessedWasConfirmed
<1>2. QED
  BY <1>1, EmailInvariance, PTL

\* No account object ever carries an address that nobody has confirmed.
THEOREM EmailMailIsConfirmed == ESpec => []MailIsConfirmed
<1>1. EInv => MailIsConfirmed
  BY DEF EInv, MailIsConfirmed, Known
<1>2. QED
  BY <1>1, EmailInvariance, PTL

\* Where all callers use transactions a confirmation that returned nil has
\* closed the sessions.
THEOREM EmailConfirmedAreClosed ==
  ASSUME "direct" \notin Forms PROVE ESpec => []ConfirmedAreClosed
<1>1. TInv /\ EInv => ConfirmedAreClosed
  <2> SUFFICES ASSUME TInv, EInv, NEW t \in told, NEW s \in owed[t]
               PROVE  session[s] = "revoked"
    BY DEF ConfirmedAreClosed
  <2>1. t \in Ticket
    BY TicketsAssumption DEF EInv, TInv, TypeOK, Ticket
  <2>2. broken = {} /\ \A c \in Caller : ~Committed(c)
    BY DEF TInv, FormInv, Committed, At
  <2>3. QED
    BY <2>1, <2>2 DEF TInv, OwedInv
<1>2. QED
  BY <1>1, EmailInvariance, PTL

\* Nobody has two tickets in the table.
THEOREM EmailOneTicketPerCaller == ESpec => []OneTicketPerCaller
<1>1. TInv => OneTicketPerCaller
  BY DEF TInv
<1>2. QED
  BY <1>1, EmailInvariance, PTL

\* A change that was taken back is out of the table for good.
THEOREM EmailSpentAreGone == ESpec => []SpentAreGone
<1>1. TInv => SpentAreGone
  BY DEF TInv
<1>2. QED
  BY <1>1, EmailInvariance, PTL

\* Sessions are closed with the ticket, or after it by a direct call.
THEOREM EmailSpendingCloses == ESpec => []SpendingCloses
<1>1. TInv => SpendingCloses
  BY DEF TInv, OwedInv, SpendingCloses
<1>2. QED
  BY <1>1, EmailInvariance, PTL

\* The same holds of the tickets of the email change, which are marked too.
THEOREM EmailRefinement == ESpec => StoreSpec
<1>1. EInit => Store!Init
  BY InitStore DEF EInit
<1>2. TInv /\ [ENext]_vars => [Store!Next]_(Store!vars)
  <2>1. TInv => TypeOK
    BY DEF TInv
  <2>2. QED
    BY <2>1, ENextIsTicketNext, NextStore
<1>3. QED
  BY <1>1, <1>2, EmailInvariance, PTL DEF ESpec, StoreSpec, Store!Spec
=============================================================================
